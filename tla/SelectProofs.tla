---------------------------- MODULE SelectProofs ----------------------------
(***************************************************************************)
(* The select phase for every file and every configuration: whatever the   *)
(* blob layout, the interleaving and the path, the context it leaves is    *)
(* the one the file alone defines.                                         *)
(***************************************************************************)
EXTENDS Select, SequenceLemmas

-----------------------------------------------------------------------------
(* The bisection.                                                          *)

\* One step of it: the value at r from the values at shorter ranges.
Halve(g, r, hits) ==
  IF r[1] >= r[2] THEN r[1]
  ELSE IF (r[1] + r[2]) \div 2 + 1 \in hits THEN g[<<r[1], (r[1] + r[2]) \div 2>>]
  ELSE g[<<(r[1] + r[2]) \div 2 + 1, r[2]>>]

\* The middle of a range that is not empty.
LEMMA Middle ==
  ASSUME NEW n \in Nat, NEW lo \in 0..n, NEW hi \in 0..n, lo < hi
  PROVE  \E mid \in 0..(n - 1) : /\ (lo + hi) \div 2 = mid /\ lo <= mid /\ mid < hi
                                 /\ mid \in 0..n /\ mid + 1 \in 0..n
OBVIOUS

\* There is a function that takes every step.
LEMMA SearchExists ==
  ASSUME NEW n \in Nat, NEW hits
  PROVE  \E g : g = [r \in (0..n) \X (0..n) |-> Halve(g, r, hits)]
<1>. DEFINE D == (0..n) \X (0..n)
            Short(d) == {r \in D : r[2] - r[1] <= d}
            T == {d \in Nat : \E g : DOMAIN g = D /\ \A r \in Short(d) : g[r] = Halve(g, r, hits)}
<1>1. 0 \in T
  <2>. DEFINE g == [r \in D |-> r[1]]
  <2>1. ASSUME NEW r \in Short(0) PROVE g[r] = Halve(g, r, hits)
    <3>1. r[1] >= r[2]
      OBVIOUS
    <3>. QED BY <3>1 DEF Halve
  <2>. QED BY <2>1
<1>2. ASSUME NEW d \in Nat, d \in T PROVE d + 1 \in T
  <2>1. PICK g : DOMAIN g = D /\ \A r \in Short(d) : g[r] = Halve(g, r, hits)
    BY <1>2
  <2>. DEFINE h == [r \in D |-> IF r \in Short(d) THEN g[r] ELSE Halve(g, r, hits)]
  <2>2. ASSUME NEW r \in Short(d + 1) PROVE h[r] = Halve(g, r, hits)
    BY <2>1
  <2>3. ASSUME NEW r \in Short(d + 1) PROVE Halve(h, r, hits) = Halve(g, r, hits)
    <3>1. CASE r[1] >= r[2]
      BY <3>1 DEF Halve
    <3>2. CASE r[1] < r[2]
      <4>1. r[1] \in 0..n /\ r[2] \in 0..n /\ r[2] - r[1] <= d + 1
        OBVIOUS
      <4>2. PICK mid \in 0..(n - 1) : /\ (r[1] + r[2]) \div 2 = mid /\ r[1] <= mid /\ mid < r[2]
                                      /\ mid \in 0..n /\ mid + 1 \in 0..n
        BY <3>2, <4>1, Middle
      <4>3. <<r[1], mid>> \in Short(d) /\ <<mid + 1, r[2]>> \in Short(d)
        BY <4>1, <4>2
      <4>4. h[<<r[1], mid>>] = g[<<r[1], mid>>] /\ h[<<mid + 1, r[2]>>] = g[<<mid + 1, r[2]>>]
        BY <4>3
      <4>. HIDE DEF h
      <4>. QED BY <4>2, <4>4 DEF Halve
    <3>. QED BY <3>1, <3>2
  <2>4. DOMAIN h = D /\ \A r \in Short(d + 1) : h[r] = Halve(h, r, hits)
    BY <2>2, <2>3
  <2>. HIDE DEF h
  <2>. QED BY <2>4
<1>3. n \in T
  <2>. HIDE DEF T
  <2>. QED BY <1>1, <1>2, Induction
<1>4. PICK g : DOMAIN g = D /\ \A r \in Short(n) : g[r] = Halve(g, r, hits)
  BY <1>3
<1>5. \A r \in D : r \in Short(n)
  OBVIOUS
<1>. DEFINE h == [r \in D |-> Halve(g, r, hits)]
<1>6. \A r \in D : h[r] = g[r]
  BY <1>4, <1>5
<1>7. ASSUME NEW r \in D PROVE Halve(h, r, hits) = Halve(g, r, hits)
  <2>1. CASE r[1] >= r[2]
    BY <2>1 DEF Halve
  <2>2. CASE r[1] < r[2]
    <3>1. r[1] \in 0..n /\ r[2] \in 0..n
      OBVIOUS
    <3>2. PICK mid \in 0..(n - 1) : /\ (r[1] + r[2]) \div 2 = mid /\ mid \in 0..n /\ mid + 1 \in 0..n
      BY <2>2, <3>1, Middle
    <3>3. h[<<r[1], mid>>] = g[<<r[1], mid>>] /\ h[<<mid + 1, r[2]>>] = g[<<mid + 1, r[2]>>]
      BY <1>6, <3>1, <3>2
    <3>. HIDE DEF h
    <3>. QED BY <3>2, <3>3 DEF Halve
  <2>. QED BY <2>1, <2>2
<1>8. h = [r \in D |-> Halve(h, r, hits)]
  <2>. DEFINE k == [r \in D |-> Halve(h, r, hits)]
  <2>1. \A r \in D : h[r] = k[r]
    BY <1>7
  <2>2. h = k
    BY <2>1
  <2>. QED BY <2>2
<1>. QED BY <1>8

\* Such a function stays within the range it is given.
LEMMA SearchRange ==
  ASSUME NEW n \in Nat, NEW hits,
         NEW g, g = [r \in (0..n) \X (0..n) |-> Halve(g, r, hits)],
         NEW low \in 0..n
  PROVE  g[<<low, n>>] \in low..n
<1>. DEFINE D == (0..n) \X (0..n)
            Stays(d) == \A lo, hi \in 0..n : lo <= hi /\ hi - lo <= d => g[<<lo, hi>>] \in lo..hi
            T == {d \in Nat : Stays(d)}
<1>0. \A r \in D : g[r] = Halve(g, r, hits)
  OBVIOUS
<1>e. ASSUME NEW lo \in 0..n PROVE g[<<lo, lo>>] = lo
  <2>1. g[<<lo, lo>>] = Halve(g, <<lo, lo>>, hits)
    BY <1>0
  <2>. QED BY <2>1 DEF Halve
<1>1. 0 \in T
  <2>1. \A lo, hi \in 0..n : lo <= hi /\ hi - lo <= 0 => lo = hi
    BY ONLY n \in Nat
  <2>. QED BY <1>e, <2>1
<1>2. ASSUME NEW d \in Nat, d \in T PROVE d + 1 \in T
  <2>. SUFFICES Stays(d + 1)
    <3>. HIDE DEF Stays
    <3>. QED OBVIOUS
  <2>. SUFFICES ASSUME NEW lo \in 0..n, NEW hi \in 0..n, lo <= hi, hi - lo <= d + 1
                PROVE  g[<<lo, hi>>] \in lo..hi
    OBVIOUS
  <2>1. CASE lo = hi
    BY <1>e, <2>1
  <2>2. CASE lo < hi
    <3>1. PICK mid \in 0..(n - 1) : /\ (lo + hi) \div 2 = mid /\ lo <= mid /\ mid < hi
                                    /\ mid \in 0..n /\ mid + 1 \in 0..n
      BY <2>2, Middle
    <3>2. g[<<lo, hi>>] = IF mid + 1 \in hits THEN g[<<lo, mid>>] ELSE g[<<mid + 1, hi>>]
      <4>1. g[<<lo, hi>>] = Halve(g, <<lo, hi>>, hits)
        BY <1>0
      <4>2. <<lo, hi>>[1] = lo /\ <<lo, hi>>[2] = hi /\ ~(lo >= hi)
        BY <2>2
      <4>. QED BY ONLY <3>1, <4>1, <4>2 DEF Halve
    <3>3. g[<<lo, mid>>] \in lo..mid
      <4>1. mid - lo <= d
        BY <3>1
      <4>. QED BY <1>2, <3>1, <4>1
    <3>4. g[<<mid + 1, hi>>] \in (mid + 1)..hi
      <4>1. hi - (mid + 1) <= d /\ mid + 1 <= hi
        BY <3>1
      <4>. QED BY <1>2, <3>1, <4>1
    <3>5. g[<<lo, mid>>] \in lo..hi /\ g[<<mid + 1, hi>>] \in lo..hi
      BY <3>1, <3>3, <3>4
    <3>. QED BY <3>2, <3>5
  <2>. QED BY <2>1, <2>2
<1>3. n \in T
  <2>. HIDE DEF T
  <2>. QED BY <1>1, <1>2, Induction
<1>. QED BY <1>3

\* The bisection answers an index from low up to high.
LEMMA BisectRange ==
  ASSUME NEW n \in Nat, NEW low \in 0..n, NEW hits
  PROVE  Bisect(low, n, hits) \in low..n
<1>. DEFINE g == CHOOSE g : g = [r \in (0..n) \X (0..n) |->
                   IF r[1] >= r[2] THEN r[1]
                   ELSE IF (r[1] + r[2]) \div 2 + 1 \in hits THEN g[<<r[1], (r[1] + r[2]) \div 2>>]
                        ELSE g[<<(r[1] + r[2]) \div 2 + 1, r[2]>>]]
<1>1. \E f : f = [r \in (0..n) \X (0..n) |-> Halve(f, r, hits)]
  BY SearchExists
<1>2. g = [r \in (0..n) \X (0..n) |-> Halve(g, r, hits)]
  BY <1>1 DEF Halve
<1>3. Bisect(low, n, hits) = g[<<low, n>>]
  BY DEF Bisect
<1>. HIDE DEF g
<1>4. g[<<low, n>>] \in low..n
  BY <1>2, SearchRange
<1>. QED BY <1>3, <1>4

-----------------------------------------------------------------------------
(* The file.                                                               *)

FileElement == NodeElements \cup WayElements \cup RelationElements

\* A union of finitely many finite sets, the values of f.
LEMMA FiniteUnion ==
  ASSUME NEW f, IsFiniteSet(DOMAIN f), \A x \in DOMAIN f : IsFiniteSet(f[x])
  PROVE  IsFiniteSet(UNION {f[x] : x \in DOMAIN f})
<1>. DEFINE S == {f[x] : x \in DOMAIN f}
            g == [x \in DOMAIN f |-> f[x]]
<1>1. g \in Surjection(DOMAIN f, S)
  BY DEF Surjection
<1>2. IsFiniteSet(S)
  BY <1>1, FS_Surjection
<1>. QED BY <1>2, FS_UNION

\* What stands at some positions of a sequence.
LEMMA ItemsAtRange ==
  ASSUME NEW T, NEW s \in Seq(T), NEW I \in SUBSET (DOMAIN s)
  PROVE  /\ Range(ItemsAt(s, I)) = {s[i] : i \in I} /\ IsFiniteSet(I)
         /\ ItemsAt(s, I) \in Seq(T)
         /\ ItemsAt(s, I) = <<>> <=> I = {}
<1>1. /\ IsFiniteSet(I) /\ I \subseteq Int /\ Cardinality(I) \in Nat
      /\ ItemsAt(s, I) \in Seq(T) /\ Len(ItemsAt(s, I)) = Cardinality(I)
      /\ \A k \in 1..Cardinality(I) : ItemsAt(s, I)[k] = s[Ascending(I)[k]]
  BY ItemsAtFacts
<1>2. /\ Ascending(I) \in [1..Cardinality(I) -> I]
      /\ \A x \in I : \E k \in 1..Cardinality(I) : Ascending(I)[k] = x
  BY <1>1, AscendingFacts
<1>3. DOMAIN ItemsAt(s, I) = 1..Cardinality(I)
  BY <1>1, LenProperties
<1>4. Range(ItemsAt(s, I)) = {ItemsAt(s, I)[k] : k \in 1..Cardinality(I)}
  BY <1>3 DEF Range
<1>5. ASSUME NEW k \in 1..Cardinality(I) PROVE ItemsAt(s, I)[k] \in {s[i] : i \in I}
  BY <1>1, <1>2
<1>6. ASSUME NEW i \in I PROVE s[i] \in {ItemsAt(s, I)[k] : k \in 1..Cardinality(I)}
  BY <1>1, <1>2
<1>7. Range(ItemsAt(s, I)) = {s[i] : i \in I}
  BY <1>4, <1>5, <1>6
<1>8. ItemsAt(s, I) = <<>> <=> Cardinality(I) = 0
  BY <1>1, EmptySeq, LenProperties
<1>9. Cardinality(I) = 0 <=> I = {}
  BY <1>1, FS_EmptySet
<1>. QED BY <1>1, <1>7, <1>8, <1>9

\* Blobs and their elements.
LEMMA FileFacts ==
  ASSUME file \in Files
  PROVE  /\ Len(file) \in Nat /\ DOMAIN file = 1..Len(file)
         /\ \A b \in DOMAIN file : /\ file[b] \in Seq(FileElement) /\ Len(file[b]) \in Nat
                                   /\ DOMAIN file[b] = 1..Len(file[b])
                                   /\ \A i \in DOMAIN file[b] : file[b][i] \in FileElement
<1>1. file \in Seq(Seq(FileElement))
  BY SelectAssumption DEF FileElement
<1>2. Len(file) \in Nat /\ DOMAIN file = 1..Len(file) /\ \A b \in DOMAIN file : file[b] \in Seq(FileElement)
  BY <1>1, LenProperties, ElementOfSeq
<1>3. ASSUME NEW b \in DOMAIN file
      PROVE  /\ Len(file[b]) \in Nat /\ DOMAIN file[b] = 1..Len(file[b])
             /\ \A i \in DOMAIN file[b] : file[b][i] \in FileElement
  BY <1>2, LenProperties, ElementOfSeq
<1>. QED BY <1>2, <1>3

\* An element is one at some place of the file.
LEMMA ElementPlaces ==
  ASSUME NEW e
  PROVE  e \in Elements <=> \E b \in DOMAIN file : \E i \in DOMAIN file[b] : e = file[b][i]
BY DEF Elements, Range

\* Elements have an id of their own, and the fields of their kind.
LEMMA ElementFacts ==
  ASSUME file \in Files
  PROVE  /\ \A e \in Elements : e.id \in Int /\ e.kind \in {"node", "way", "relation"}
         /\ \A e, f \in Elements : e.id = f.id => e = f
         /\ \A n \in Kind("node") : n \in NodeElements
         /\ \A w \in Kind("way") : w \in WayElements /\ IsFiniteSet(w.viaParent)
         /\ \A r \in Kind("relation") : r \in RelationElements /\ r.exports \subseteq r.topics
         /\ \A e \in Elements : IsFiniteSet(e.topics)
<1>1. \A e \in Elements : e \in FileElement
  BY FileFacts, ElementPlaces
<1>2. \A e \in FileElement : e.id \in Int /\ e.kind \in {"node", "way", "relation"}
  BY DEF FileElement, NodeElements, WayElements, RelationElements
<1>3. \A e \in FileElement :
        /\ e.kind = "node" => e \in NodeElements
        /\ e.kind = "way" => e \in WayElements
        /\ e.kind = "relation" => e \in RelationElements
  BY DEF FileElement, NodeElements, WayElements, RelationElements
<1>4. ASSUME NEW e \in Elements, NEW f \in Elements, e.id = f.id PROVE e = f
  <2>1. PICK b \in DOMAIN file : \E i \in DOMAIN file[b] : e = file[b][i]
    BY ElementPlaces
  <2>2. PICK i \in DOMAIN file[b] : e = file[b][i]
    BY <2>1
  <2>3. PICK c \in DOMAIN file : \E j \in DOMAIN file[c] : f = file[c][j]
    BY ElementPlaces
  <2>4. PICK j \in DOMAIN file[c] : f = file[c][j]
    BY <2>3
  <2>5. b = c /\ i = j
    BY <1>4, <2>2, <2>4, SelectAssumption
  <2>. QED BY <2>2, <2>4, <2>5
<1>5. ASSUME NEW e \in Elements
      PROVE  /\ IsFiniteSet(e.topics)
             /\ e.kind = "way" => IsFiniteSet(e.viaParent)
             /\ e.kind = "relation" => e.exports \subseteq e.topics
  BY ElementPlaces, SelectAssumption
<1>. QED BY <1>1, <1>2, <1>3, <1>4, <1>5 DEF Kind

\* There are finitely many.
LEMMA ElementsAreFinite == ASSUME file \in Files PROVE IsFiniteSet(Elements)
<1>. DEFINE f == [b \in DOMAIN file |-> Range(file[b])]
<1>1. IsFiniteSet(DOMAIN file) /\ \A b \in DOMAIN file : IsFiniteSet(DOMAIN file[b])
  BY FileFacts, FS_Interval
<1>2. ASSUME NEW b \in DOMAIN file PROVE IsFiniteSet(f[b])
  <2>. DEFINE g == file[b]
              h == [i \in DOMAIN g |-> g[i]]
  <2>1. h \in Surjection(DOMAIN g, Range(g))
    BY DEF Surjection, Range
  <2>2. IsFiniteSet(Range(g))
    BY <1>1, <2>1, FS_Surjection
  <2>. QED BY <2>2
<1>3. IsFiniteSet(UNION {f[b] : b \in DOMAIN f})
  <2>1. DOMAIN f = DOMAIN file
    OBVIOUS
  <2>. HIDE DEF f
  <2>. QED BY <1>1, <1>2, <2>1, FiniteUnion
<1>4. Elements = UNION {f[b] : b \in DOMAIN f}
  BY DEF Elements
<1>. QED BY <1>3, <1>4

\* The elements of a kind in a blob, and in some blobs.
LEMMA OfFacts ==
  ASSUME file \in Files, NEW b \in DOMAIN file, NEW k
  PROVE  /\ Range(Of(b, k)) = {e \in Range(file[b]) : e.kind = k}
         /\ Of(b, k) \in Seq(FileElement)
         /\ Has(b, k) <=> \E i \in DOMAIN file[b] : file[b][i].kind = k
<1>. DEFINE I == {i \in DOMAIN file[b] : file[b][i].kind = k}
<1>1. file[b] \in Seq(FileElement) /\ I \in SUBSET (DOMAIN file[b])
  BY FileFacts
<1>2. /\ Range(ItemsAt(file[b], I)) = {file[b][i] : i \in I}
      /\ ItemsAt(file[b], I) \in Seq(FileElement)
      /\ ItemsAt(file[b], I) = <<>> <=> I = {}
  <2>. HIDE DEF I
  <2>. QED BY <1>1, ItemsAtRange
<1>3. {file[b][i] : i \in I} = {e \in Range(file[b]) : e.kind = k}
  BY DEF Range
<1>. QED BY <1>2, <1>3 DEF Of, Has

LEMMA InBlobsFacts ==
  ASSUME file \in Files, NEW B \in SUBSET (DOMAIN file), NEW k
  PROVE  /\ InBlobs(B, k) \subseteq Kind(k)
         /\ \A e : e \in InBlobs(B, k) <=>
              e.kind = k /\ \E b \in B : \E i \in DOMAIN file[b] : e = file[b][i]
<1>1. \A b \in B : Range(Of(b, k)) = {e \in Range(file[b]) : e.kind = k}
  BY OfFacts
<1>2. \A e : e \in InBlobs(B, k) <=>
              e.kind = k /\ \E b \in B : \E i \in DOMAIN file[b] : e = file[b][i]
  BY <1>1 DEF InBlobs, Range
<1>. QED BY <1>2, ElementPlaces DEF Kind

\* More blobs, more elements.
LEMMA InBlobsUnion ==
  ASSUME NEW A, NEW B, NEW k
  PROVE  InBlobs(A \cup B, k) = InBlobs(A, k) \cup InBlobs(B, k)
BY DEF InBlobs

\* Where the boundary checks hold and the header is honest, each kind fills its region.
LEMMA Layout ==
  ASSUME file \in Files, Sorted, BlobsInOrder
  PROVE  /\ WayStart \in 0..Len(file) /\ RelStart \in WayStart..Len(file)
         /\ \A b \in DOMAIN file : \A i \in DOMAIN file[b] :
              /\ file[b][i].kind = "node" <=> b <= WayStart
              /\ file[b][i].kind = "way" <=> WayStart < b /\ b <= RelStart
              /\ file[b][i].kind = "relation" <=> RelStart < b
<1>1. /\ Len(file) \in Nat /\ DOMAIN file = 1..Len(file)
      /\ \A b \in DOMAIN file : DOMAIN file[b] = 1..Len(file[b]) /\ Len(file[b]) \in Nat
      /\ \A b \in DOMAIN file : \A i \in DOMAIN file[b] : file[b][i].kind \in {"node", "way", "relation"}
  <2>1. \A e \in FileElement : e.kind \in {"node", "way", "relation"}
    BY DEF FileElement, NodeElements, WayElements, RelationElements
  <2>. QED BY <2>1, FileFacts
<1>2. WayStart \in 0..Len(file)
  BY <1>1, BisectRange DEF WayStart
<1>3. RelStart \in WayStart..Len(file)
  BY <1>1, <1>2, BisectRange DEF RelStart
<1>4. \A b \in DOMAIN file : \E i \in DOMAIN file[b] : TRUE
  <2>1. \A b \in DOMAIN file : file[b] # <<>> /\ file[b] \in Seq(FileElement)
    BY FileFacts DEF BlobsInOrder
  <2>. QED BY <1>1, <2>1, EmptySeq
<1>k. KindRank["node"] = 1 /\ KindRank["way"] = 2 /\ KindRank["relation"] = 3
  BY DEF KindRank
<1>5. ASSUME NEW b \in DOMAIN file, NEW c \in DOMAIN file, b <= c,
             NEW i \in DOMAIN file[b], NEW j \in DOMAIN file[c]
      PROVE  /\ file[c][j].kind = "node" => file[b][i].kind = "node"
             /\ file[b][i].kind = "relation" => file[c][j].kind = "relation"
             /\ file[b][i].kind # "node" => file[c][j].kind # "node"
             /\ file[c][j].kind # "relation" => file[b][i].kind # "relation"
  <2>1. KindRank[file[b][i].kind] <= KindRank[file[c][j].kind]
    BY <1>5 DEF BlobsInOrder
  <2>2. file[b][i].kind \in {"node", "way", "relation"} /\ file[c][j].kind \in {"node", "way", "relation"}
    BY <1>1
  <2>. QED BY ONLY <1>k, <2>1, <2>2
<1>h. \A b \in DOMAIN file : \A k : Has(b, k) <=> \E i \in DOMAIN file[b] : file[b][i].kind = k
  BY OfFacts
<1>. DEFINE w == WayStart
            r == RelStart
<1>w. w \in Nat /\ r \in Nat /\ w <= r /\ r <= Len(file)
  BY <1>1, <1>2, <1>3
<1>6. ASSUME NEW b \in DOMAIN file, b <= w, NEW i \in DOMAIN file[b] PROVE file[b][i].kind = "node"
  <2>1. w > 0 /\ w \in DOMAIN file
    BY <1>1, <1>w, <1>6
  <2>2. Has(w, "node")
    BY <2>1 DEF Sorted, WayStartHolds
  <2>3. PICK j \in DOMAIN file[w] : file[w][j].kind = "node"
    BY <1>h, <2>1, <2>2
  <2>. HIDE DEF w
  <2>. QED BY <1>5, <1>6, <2>1, <2>3
<1>7. ASSUME NEW b \in DOMAIN file, w < b, NEW i \in DOMAIN file[b] PROVE file[b][i].kind # "node"
  <2>. DEFINE c == w + 1
  <2>1. w < Len(file) /\ c \in DOMAIN file /\ c <= b
    BY <1>1, <1>w, <1>7
  <2>2. Has(c, "way") \/ Has(c, "relation")
    BY <2>1 DEF Sorted, WayStartHolds
  <2>3. PICK j \in DOMAIN file[c] : file[c][j].kind # "node"
    BY <1>h, <2>1, <2>2
  <2>. HIDE DEF w, c
  <2>. QED BY <1>5, <1>7, <2>1, <2>3
<1>8. ASSUME NEW b \in DOMAIN file, r < b, NEW i \in DOMAIN file[b] PROVE file[b][i].kind = "relation"
  <2>. DEFINE c == r + 1
  <2>1. r < Len(file) /\ c \in DOMAIN file /\ c <= b
    BY <1>1, <1>w, <1>8
  <2>2. Has(c, "relation")
    BY <2>1 DEF Sorted, RelStartHolds
  <2>3. PICK j \in DOMAIN file[c] : file[c][j].kind = "relation"
    BY <1>h, <2>1, <2>2
  <2>. HIDE DEF r, c
  <2>. QED BY <1>5, <1>8, <2>1, <2>3
<1>9. ASSUME NEW b \in DOMAIN file, w < b, b <= r, NEW i \in DOMAIN file[b]
      PROVE  file[b][i].kind # "relation"
  <2>1. r > w /\ r \in DOMAIN file
    BY <1>1, <1>w, <1>9
  <2>2. ~Has(r, "relation")
    BY <2>1 DEF Sorted, RelStartHolds
  <2>3. PICK j \in DOMAIN file[r] : TRUE
    BY <1>4, <2>1
  <2>4. file[r][j].kind # "relation"
    BY <1>h, <2>1, <2>2, <2>3
  <2>. HIDE DEF r
  <2>. QED BY <1>5, <1>9, <2>1, <2>3, <2>4
<1>10. ASSUME NEW b \in DOMAIN file, NEW i \in DOMAIN file[b]
       PROVE  /\ file[b][i].kind = "node" <=> b <= w
              /\ file[b][i].kind = "way" <=> w < b /\ b <= r
              /\ file[b][i].kind = "relation" <=> r < b
  <2>1. b \in Int
    BY <1>1
  <2>2. file[b][i].kind \in {"node", "way", "relation"}
    BY <1>1
  <2>. HIDE DEF w, r
  <2>. QED BY <1>w, <1>6, <1>7, <1>8, <1>9, <2>1, <2>2
<1>. QED BY <1>2, <1>3, <1>10

-----------------------------------------------------------------------------
(* What depends on the file and the configuration alone.                   *)

\* A step that leaves them alone leaves all of this alone.
LEMMA Static ==
  ASSUME file' = file, mode' = mode
  PROVE  /\ Elements' = Elements /\ NodeIds' = NodeIds /\ BlobsInOrder' = BlobsInOrder
         /\ Sorted' = Sorted /\ WayStart' = WayStart /\ RelStart' = RelStart
         /\ \A k : Kind(k)' = Kind(k)
         /\ \A b, k : Of(b, k)' = Of(b, k)
         /\ \A B, k : InBlobs(B, k)' = InBlobs(B, k)
         /\ RefRelations' = RefRelations /\ RefKept' = RefKept /\ RefExtra' = RefExtra
         /\ RefClassified' = RefClassified
         /\ \A w : RefTopics(w)' = RefTopics(w)
         /\ \A n : RefUses(n)' = RefUses(n) /\ RefExtraOnly(n)' = RefExtraOnly(n)
<1>1. Elements' = Elements
  BY DEF Elements
<1>2. \A k : Kind(k)' = Kind(k)
  BY <1>1 DEF Kind
<1>3. NodeIds' = NodeIds
  BY <1>2 DEF NodeIds
<1>4. BlobsInOrder' = BlobsInOrder
  BY DEF BlobsInOrder
<1>5. \A b, k : Of(b, k)' = Of(b, k)
  BY DEF Of
<1>6. \A b, k : Has(b, k)' = Has(b, k)
  BY <1>5 DEF Has
<1>7. WayStart' = WayStart
  BY <1>6 DEF WayStart
<1>8. RelStart' = RelStart
  BY <1>6, <1>7 DEF RelStart
<1>9. Sorted' = Sorted
  BY <1>6, <1>7, <1>8 DEF Sorted, WayStartHolds, RelStartHolds
<1>10. \A B, k : InBlobs(B, k)' = InBlobs(B, k)
  BY <1>5 DEF InBlobs
<1>11. RefRelations' = RefRelations
  BY <1>2 DEF RefRelations
<1>12. \A w, t : RefParents(w, t)' = RefParents(w, t)
  BY <1>11 DEF RefParents
<1>13. \A w : RefTopics(w)' = RefTopics(w)
  BY <1>12 DEF RefTopics
<1>14. RefKept' = RefKept
  BY <1>2, <1>13 DEF RefKept
<1>15. RefExtra' = RefExtra
  BY <1>2, <1>11, <1>14 DEF RefExtra
<1>16. \A n : RefUses(n)' = RefUses(n)
  BY <1>14 DEF RefUses
<1>17. \A n : RefExtraOnly(n)' = RefExtraOnly(n)
  BY <1>15, <1>16 DEF RefExtraOnly
<1>18. RefClassified' = RefClassified
  BY <1>2, <1>17 DEF RefClassified
<1>. QED BY <1>1, <1>2, <1>3, <1>4, <1>5, <1>7, <1>8, <1>9, <1>10, <1>11, <1>13, <1>14, <1>15, <1>16,
            <1>17, <1>18

-----------------------------------------------------------------------------
(* The inductive invariant.                                                *)

Exports(R) == UNION {{r.id} \X r.exports : r \in R}

\* The relations R are indexed, those of C have been classified, and L's links are routed.
RelationsAre(R, C, L) ==
  /\ relMembers = R \cap RefRelations
  /\ exported = Exports(C)
  /\ links = Linked(L)

\* The ways W are indexed; the nodes of those kept for a relation only are listed for X.
WaysAre(W, X) ==
  /\ wayRefs = {<<w, RefTopics(w)>> : w \in W \cap (RefKept \cup RefExtra)}
  /\ counts = [n \in NodeIds |-> References(W \cap RefKept, n)]
  /\ extraNodes = UNION {Range(w.refs) : w \in X \cap RefExtra}

\* The nodes N are collected, and the point rows of P's are routed.
NodesAre(N, P) ==
  /\ coords = {<<n.id, mode.needsGraph /\ RefUses(n) > 1>> :
                 n \in {m \in N : RefUses(m) > 0 \/ RefExtraOnly(m)}}
  /\ selected = {n.id : n \in {m \in N \cap RefClassified :
                                 RefUses(m) > 0 /\ m.topics \cap NodeGraph # {}}}
  /\ points = {n.id : n \in {m \in P \cap RefClassified : m.topics # {}}}

AllRelations == RelationsAre(Kind("relation"), Kind("relation"), Kind("relation"))
AllWays == WaysAre(Kind("way"), Kind("way"))

\* The blobs of the region folded so far, and those whose rows are routed.
Folded == {b \in Region : b < at}
Routed == IF mode.ordered THEN Folded ELSE Folded \cup done

First ==
  CASE pass = "relations" -> RelStart + 1 [] pass = "ways" -> WayStart + 1 [] OTHER -> 1

SortedPasses == {"relations", "ways", "nodes"}

\* Where the run is: a sorted pass works through its region in order, on a file laid out as
\* its header says.
Control ==
  /\ file \in Files /\ mode \in Modes /\ (mode.sorted => BlobsInOrder)
  /\ pass \in SortedPasses \cup {"scan relations", "scan ways", "scan nodes", "done"}
  /\ pass \in SortedPasses => /\ Sorted /\ at \in Int /\ First <= at /\ done \subseteq ChunkBlobs
  /\ pass = "scan relations" => done = {}
  /\ pass = "scan ways" => done \subseteq Kind("way")
  /\ pass = "scan nodes" => done \subseteq Kind("node")

\* What each pass has done so far, and what the passes before it have left.
Progress ==
  /\ pass = "relations" =>
       /\ RelationsAre(InBlobs(Folded, "relation"), InBlobs(Folded \cup done, "relation"),
                       InBlobs(Routed, "relation"))
       /\ WaysAre({}, {}) /\ NodesAre({}, {})
  /\ pass = "scan relations" =>
       RelationsAre({}, {}, {}) /\ WaysAre({}, {}) /\ NodesAre({}, {})
  /\ pass = "ways" =>
       /\ AllRelations /\ NodesAre({}, {})
       /\ WaysAre(InBlobs(Folded, "way"), InBlobs(Folded, "way"))
  /\ pass = "scan ways" => AllRelations /\ WaysAre(done, {}) /\ NodesAre({}, {})
  /\ pass = "nodes" =>
       AllRelations /\ AllWays /\ NodesAre(InBlobs(Folded, "node"), InBlobs(Routed, "node"))
  /\ pass = "scan nodes" => AllRelations /\ AllWays /\ NodesAre(done, done)
  /\ pass = "done" => AllRelations /\ AllWays /\ NodesAre(Kind("node"), Kind("node"))

SelectInv == Control /\ Progress

-----------------------------------------------------------------------------
(* Relations: what a way inherits.                                         *)

\* The reference is made of elements of the file.
LEMMA RefFacts ==
  /\ RefRelations \subseteq Kind("relation")
  /\ RefKept \subseteq Kind("way") /\ RefExtra \subseteq Kind("way") /\ RefKept \cap RefExtra = {}
  /\ RefClassified \subseteq Kind("node")
  /\ \A w \in RefExtra : RefTopics(w) = {}
BY DEF RefRelations, RefKept, RefExtra, RefClassified

\* What is captured for a relation is what it exports; one that is not kept exports nothing.
LEMMA ExportsFacts ==
  ASSUME file \in Files
  PROVE  /\ \A p \in Kind("relation") : \A t : <<p.id, t>> \in Exports(Kind("relation")) <=> t \in p.exports
         /\ Exports(RefRelations) = Exports(Kind("relation"))
<1>1. ASSUME NEW p \in Kind("relation"), NEW t, <<p.id, t>> \in Exports(Kind("relation"))
      PROVE  t \in p.exports
  <2>1. PICK q \in Kind("relation") : <<p.id, t>> \in {q.id} \X q.exports
    BY <1>1 DEF Exports
  <2>2. q.id = p.id /\ t \in q.exports
    BY <2>1
  <2>3. q = p
    BY <2>2, ElementFacts DEF Kind
  <2>. QED BY <2>2, <2>3
<1>2. ASSUME NEW p \in Kind("relation"), NEW t \in p.exports
      PROVE  <<p.id, t>> \in Exports(Kind("relation"))
  BY DEF Exports
<1>3. \A p \in Kind("relation") : p \notin RefRelations => p.exports = {}
  BY ElementFacts DEF RefRelations
<1>4. Exports(RefRelations) = Exports(Kind("relation"))
  BY <1>3, RefFacts DEF Exports
<1>. QED BY <1>1, <1>2, <1>4

\* A way is listed finitely often by its exporting parents.
LEMMA RefParentsFinite ==
  ASSUME file \in Files, NEW w, NEW t
  PROVE  IsFiniteSet(RefParents(w, t))
<1>. DEFINE P == {r \in RefRelations : mode.inherit /\ t \in r.exports}
            L(r) == {r.id} \X {i \in DOMAIN r.members : r.members[i] = w.id}
            S == {L(r) : r \in P}
            g == [r \in P |-> L(r)]
<1>1. P \subseteq Kind("relation")
  BY RefFacts
<1>2. IsFiniteSet(P)
  BY <1>1, ElementsAreFinite, FS_Subset DEF Kind
<1>3. IsFiniteSet(S)
  <2>1. g \in Surjection(P, S)
    BY DEF Surjection
  <2>. QED BY <1>2, <2>1, FS_Surjection
<1>4. \A r \in P : IsFiniteSet(L(r))
  <2>. SUFFICES ASSUME NEW r \in P PROVE IsFiniteSet(L(r))
    OBVIOUS
  <2>1. r.members \in Seq(Int)
    BY <1>1, ElementFacts DEF Kind, RelationElements
  <2>2. DOMAIN r.members = 1..Len(r.members) /\ Len(r.members) \in Nat
    BY <2>1, LenProperties
  <2>3. IsFiniteSet(DOMAIN r.members)
    BY <2>2, FS_Interval
  <2>4. IsFiniteSet({i \in DOMAIN r.members : r.members[i] = w.id})
    BY <2>3, FS_Subset
  <2>5. IsFiniteSet({r.id})
    BY FS_Singleton
  <2>. QED BY <2>4, <2>5, FS_Product
<1>5. RefParents(w, t) = UNION S
  BY DEF RefParents, Listings
<1>. HIDE DEF P, L, S
<1>6. \A X \in S : IsFiniteSet(X)
  BY <1>4 DEF S
<1>. QED BY <1>3, <1>5, <1>6, FS_UNION

\* No listing gives no parent, some listings do.
LEMMA ListedByEmpty ==
  ASSUME NEW S, IsFiniteSet(S)
  PROVE  ListedBy(S) = <<>> <=> S = {}
<1>1. Cardinality(S) \in Nat /\ (Cardinality(S) = 0 <=> S = {})
  BY FS_CardinalityType, FS_EmptySet
<1>2. DOMAIN ListedBy(S) = 1..Cardinality(S)
  BY DEF ListedBy
<1>3. CASE S = {}
  <2>1. ListedBy(S) = [i \in 1..0 |-> CHOOSE id \in {l[1] : l \in S} :
                         /\ Cardinality({l \in S : l[1] < id}) < i
                         /\ i <= Cardinality({l \in S : l[1] <= id})]
    BY <1>1, <1>3 DEF ListedBy
  <2>. QED BY <1>3, <2>1
<1>4. CASE S # {}
  <2>1. 1 \in DOMAIN ListedBy(S)
    BY <1>1, <1>2, <1>4
  <2>. QED BY <1>4, <2>1
<1>. QED BY <1>3, <1>4

\* Once every relation is indexed, a way finds its exporting parents, as often as they list it.
LEMMA ParentsAre ==
  ASSUME file \in Files, AllRelations, NEW w, NEW t
  PROVE  /\ Parents(w, t) = ListedBy(RefParents(w, t))
         /\ Parents(w, t) # <<>> <=> RefParents(w, t) # {}
<1>1. relMembers = RefRelations /\ exported = Exports(Kind("relation"))
  BY RefFacts DEF AllRelations, RelationsAre
<1>2. ListedBy(RefParents(w, t)) = <<>> <=> RefParents(w, t) = {}
  BY RefParentsFinite, ListedByEmpty
<1>3. CASE mode.inherit
  <2>1. {r \in relMembers : <<r.id, t>> \in exported} = {r \in RefRelations : mode.inherit /\ t \in r.exports}
    BY <1>1, <1>3, RefFacts, ExportsFacts
  <2>2. Parents(w, t) = ListedBy(RefParents(w, t))
    BY <1>3, <2>1 DEF Parents, RefParents
  <2>. QED BY <1>2, <2>2
<1>4. CASE ~mode.inherit
  <2>1. RefParents(w, t) = {}
    BY <1>4 DEF RefParents, Listings
  <2>2. Parents(w, t) = <<>>
    BY <1>4 DEF Parents
  <2>. QED BY <1>2, <2>1, <2>2
<1>. QED BY <1>3, <1>4

\* And is kept, or decoded for a relation, exactly as the file says.
LEMMA TopicsAre ==
  ASSUME file \in Files, AllRelations, NEW w \in Kind("way")
  PROVE  /\ WayTopics(w) = RefTopics(w)
         /\ w.id \in ExtraWays /\ w \notin RefKept <=> w \in RefExtra
         /\ w \in RefKept <=> WayTopics(w) # {}
         /\ Keeps(w) = IF w \in RefKept \cup RefExtra THEN {<<w, RefTopics(w)>>} ELSE {}
<1>1. WayTopics(w) = RefTopics(w)
  BY ParentsAre DEF WayTopics, RefTopics
<1>2. relMembers = RefRelations
  BY RefFacts DEF AllRelations, RelationsAre
<1>3. w.id \in ExtraWays <=>
        \E r \in RefRelations : r.topics \cap RelationGeom # {} /\ w.id \in Range(r.members)
  BY <1>2 DEF ExtraWays
<1>4. w \in RefKept <=> WayTopics(w) # {}
  BY <1>1 DEF RefKept
<1>5. w.id \in ExtraWays /\ w \notin RefKept <=> w \in RefExtra
  BY <1>3 DEF RefExtra
<1>6. WayTopics(w) # {} \/ w.id \in ExtraWays <=> w \in RefKept \cup RefExtra
  BY <1>4, <1>5
<1>7. Keeps(w) = IF w \in RefKept \cup RefExtra THEN {<<w, RefTopics(w)>>} ELSE {}
  BY <1>1, <1>6 DEF Keeps
<1>. QED BY <1>1, <1>4, <1>5, <1>7

-----------------------------------------------------------------------------
(* Ways: how often a node is referred to.                                  *)

Occurrences(ways, n) == UNION {{w.id} \X {i \in DOMAIN w.refs : w.refs[i] = n} : w \in ways}

\* The references of ways of the file are finitely many, and each belongs to one way.
LEMMA OccurrencesFacts ==
  ASSUME file \in Files, NEW A \in SUBSET Kind("way"), NEW n
  PROVE  /\ IsFiniteSet(Occurrences(A, n))
         /\ \A B \in SUBSET Kind("way") : A \cap B = {} => Occurrences(A, n) \cap Occurrences(B, n) = {}
<1>. DEFINE f == [w \in A |-> {w.id} \X {i \in DOMAIN w.refs : w.refs[i] = n}]
<1>1. IsFiniteSet(A)
  BY ElementsAreFinite, FS_Subset DEF Kind
<1>2. ASSUME NEW w \in A PROVE IsFiniteSet(f[w])
  <2>1. w.refs \in Seq(Int)
    BY ElementFacts DEF WayElements
  <2>2. IsFiniteSet(DOMAIN w.refs)
    <3>1. DOMAIN w.refs = 1..Len(w.refs) /\ Len(w.refs) \in Int
      BY <2>1, LenProperties
    <3>2. IsFiniteSet(1..Len(w.refs))
      BY ONLY <3>1, FS_Interval
    <3>. QED BY ONLY <3>1, <3>2
  <2>3. IsFiniteSet({i \in DOMAIN w.refs : w.refs[i] = n})
    BY <2>2, FS_Subset
  <2>4. IsFiniteSet({w.id})
    BY FS_Singleton
  <2>5. IsFiniteSet({w.id} \X {i \in DOMAIN w.refs : w.refs[i] = n})
    BY <2>3, <2>4, FS_Product
  <2>. QED BY <2>5
<1>3. IsFiniteSet(UNION {f[w] : w \in DOMAIN f})
  <2>1. DOMAIN f = A
    OBVIOUS
  <2>. HIDE DEF f
  <2>. QED BY <1>1, <1>2, <2>1, FiniteUnion
<1>4. Occurrences(A, n) = UNION {f[w] : w \in DOMAIN f}
  BY DEF Occurrences
<1>5. ASSUME NEW B \in SUBSET Kind("way"), A \cap B = {}, NEW o \in Occurrences(A, n), o \in Occurrences(B, n)
      PROVE  FALSE
  <2>1. PICK w \in A : o \in {w.id} \X {i \in DOMAIN w.refs : w.refs[i] = n}
    BY DEF Occurrences
  <2>2. PICK v \in B : o \in {v.id} \X {i \in DOMAIN v.refs : v.refs[i] = n}
    BY <1>5 DEF Occurrences
  <2>3. w.id = v.id
    BY <2>1, <2>2
  <2>4. w = v
    BY <2>3, ElementFacts DEF Kind
  <2>. QED BY <1>5, <2>4
<1>. QED BY <1>3, <1>4, <1>5

\* Counting them is additive.
LEMMA ReferencesAdd ==
  ASSUME file \in Files, NEW A \in SUBSET Kind("way"), NEW B \in SUBSET Kind("way"), A \cap B = {}, NEW n
  PROVE  /\ References(A \cup B, n) = References(A, n) + References(B, n)
         /\ References(A, n) \in Nat
<1>. DEFINE S == Occurrences(A, n)
            T == Occurrences(B, n)
<1>1. IsFiniteSet(S) /\ IsFiniteSet(T) /\ S \cap T = {}
  BY OccurrencesFacts
<1>2. Occurrences(A \cup B, n) = S \cup T
  BY DEF Occurrences
<1>3. /\ References(A, n) = Cardinality(S) /\ References(B, n) = Cardinality(T)
      /\ References(A \cup B, n) = Cardinality(Occurrences(A \cup B, n))
  BY DEF References, Occurrences
<1>. HIDE DEF S, T
<1>4. Cardinality(S \cap T) = 0 /\ Cardinality(S) \in Nat /\ Cardinality(T) \in Nat
  BY <1>1, FS_EmptySet, FS_CardinalityType
<1>5. Cardinality(S \cup T) = Cardinality(S) + Cardinality(T) - Cardinality(S \cap T)
  BY <1>1, FS_Union
<1>6. Cardinality(S \cup T) = Cardinality(S) + Cardinality(T)
  BY ONLY <1>4, <1>5
<1>7. References(A \cup B, n) = Cardinality(S \cup T)
  BY <1>2, <1>3
<1>. QED BY <1>3, <1>4, <1>6, <1>7

LEMMA ReferencesNone == \A n : References({}, n) = 0
<1>1. \A n : UNION {{w.id} \X {i \in DOMAIN w.refs : w.refs[i] = n} : w \in {}} = {}
  OBVIOUS
<1>. QED BY <1>1, FS_EmptySet DEF References

-----------------------------------------------------------------------------
(* Nodes: what the ways ask of them.                                       *)

\* Once every way is indexed, a node is collected and classified as the file says.
LEMMA NodesSeen ==
  ASSUME file \in Files, mode \in Modes, AllWays, NEW n \in Kind("node")
  PROVE  /\ RefUses(n) \in Nat
         /\ Referenced(n) <=> RefUses(n) > 0
         /\ ExtraOnly(n) <=> RefExtraOnly(n)
         /\ Coords(n) = IF RefUses(n) > 0 \/ RefExtraOnly(n)
                        THEN {<<n.id, mode.needsGraph /\ RefUses(n) > 1>>} ELSE {}
         /\ n.topics # {} => (Classified(n) <=> n \in RefClassified)
<1>1. n.id \in NodeIds
  <2>1. n.id \in {m.id : m \in Kind("node")}
    OBVIOUS
  <2>. QED BY <2>1 DEF NodeIds
<1>2. Kind("way") \cap RefKept = RefKept /\ Kind("way") \cap RefExtra = RefExtra
  BY RefFacts
<1>3. counts[n.id] = References(RefKept, n.id)
  BY <1>1, <1>2 DEF AllWays, WaysAre
<1>4. extraNodes = UNION {Range(w.refs) : w \in RefExtra}
  BY <1>2 DEF AllWays, WaysAre
<1>5. RefUses(n) = References(RefKept, n.id)
  BY DEF RefUses, References
<1>6. RefUses(n) \in Nat
  <2>1. RefKept \in SUBSET Kind("way") /\ {} \in SUBSET Kind("way") /\ RefKept \cap {} = {}
    BY RefFacts
  <2>. QED BY <1>5, <2>1, ReferencesAdd
<1>7. Referenced(n) <=> RefUses(n) > 0
  BY <1>3, <1>5 DEF Referenced
<1>8. ExtraOnly(n) <=> RefExtraOnly(n)
  BY <1>4, <1>6, <1>7 DEF ExtraOnly, RefExtraOnly
<1>9. SharedNode(n.id) = (mode.needsGraph /\ RefUses(n) > 1)
  BY <1>3, <1>5 DEF SharedNode
<1>10. RefExtraOnly(n) => ~(RefUses(n) > 0) /\ ~(RefUses(n) > 1)
  BY <1>6 DEF RefExtraOnly
<1>11. Coords(n) = IF RefUses(n) > 0 \/ RefExtraOnly(n)
                   THEN {<<n.id, mode.needsGraph /\ RefUses(n) > 1>>} ELSE {}
  <2>1. CASE RefUses(n) > 0
    BY <1>7, <1>9, <2>1 DEF Coords
  <2>2. CASE ~(RefUses(n) > 0) /\ RefExtraOnly(n)
    <3>1. (mode.needsGraph /\ RefUses(n) > 1) = FALSE
      BY <1>10, <2>2
    <3>. QED BY <1>7, <1>8, <2>2, <3>1 DEF Coords
  <2>3. CASE ~(RefUses(n) > 0) /\ ~RefExtraOnly(n)
    BY <1>7, <1>8, <2>3 DEF Coords
  <2>. QED BY <2>1, <2>2, <2>3
<1>12. n.topics # {} /\ mode.skipUntagged => n.tagged
  <2>1. PICK b \in DOMAIN file : \E i \in DOMAIN file[b] : n = file[b][i]
    BY ElementPlaces DEF Kind
  <2>. QED BY <2>1, SelectAssumption DEF Kind
<1>13. n.topics # {} => (Classified(n) <=> n \in RefClassified)
  BY <1>8, <1>12 DEF Classified, RefClassified
<1>. QED BY <1>6, <1>7, <1>8, <1>11, <1>13

-----------------------------------------------------------------------------
(* Blobs: regions, chunks and what is folded.                              *)

\* A kind's name in each pass of the sorted path.
Decoded == CASE pass = "relations" -> "relation" [] pass = "ways" -> "way" [] OTHER -> "node"

\* The region of a pass starts at its first blob and holds every element of its kind.
LEMMA RegionFacts ==
  ASSUME Control, pass \in SortedPasses
  PROVE  /\ Region \subseteq DOMAIN file /\ Region \subseteq Int /\ First \in Int
         /\ \A b \in Region : \A c \in Int : First <= c /\ c <= b => c \in Region
         /\ \A b \in Region : First <= b
         /\ InBlobs(Region, Decoded) = Kind(Decoded)
<1>1. /\ WayStart \in 0..Len(file) /\ RelStart \in WayStart..Len(file)
      /\ \A b \in DOMAIN file : \A i \in DOMAIN file[b] :
              /\ file[b][i].kind = "node" <=> b <= WayStart
              /\ file[b][i].kind = "way" <=> WayStart < b /\ b <= RelStart
              /\ file[b][i].kind = "relation" <=> RelStart < b
  BY Layout DEF Control, Sorted
<1>2. Len(file) \in Nat /\ DOMAIN file = 1..Len(file)
  BY FileFacts DEF Control
<1>3. WayStart \in Int /\ RelStart \in Int /\ 0 <= WayStart /\ WayStart <= RelStart /\ RelStart <= Len(file)
  BY <1>1, <1>2
<1>4. \E a, z \in Int : /\ Region = a..z /\ First = a /\ 1 <= a /\ z <= Len(file)
                        /\ \A b \in DOMAIN file : \A i \in DOMAIN file[b] :
                             file[b][i].kind = Decoded => a <= b /\ b <= z
  <2>1. CASE pass = "relations"
    <3>1. Region = (RelStart + 1)..Len(file) /\ First = RelStart + 1 /\ Decoded = "relation"
      BY <2>1 DEF Region, First, Decoded
    <3>2. \A b \in DOMAIN file : \A i \in DOMAIN file[b] :
            file[b][i].kind = "relation" => RelStart + 1 <= b /\ b <= Len(file)
      BY <1>1, <1>2, <1>3
    <3>3. RelStart + 1 \in Int /\ Len(file) \in Int /\ 1 <= RelStart + 1
      BY <1>2, <1>3
    <3>. QED BY <1>2, <3>1, <3>2, <3>3
  <2>2. CASE pass = "ways"
    <3>1. Region = (WayStart + 1)..RelStart /\ First = WayStart + 1 /\ Decoded = "way"
      BY <2>2 DEF Region, First, Decoded
    <3>2. \A b \in DOMAIN file : \A i \in DOMAIN file[b] :
            file[b][i].kind = "way" => WayStart + 1 <= b /\ b <= RelStart
      BY <1>1, <1>2, <1>3
    <3>3. WayStart + 1 \in Int /\ RelStart \in Int /\ 1 <= WayStart + 1
      BY <1>3
    <3>. QED BY <1>3, <3>1, <3>2, <3>3
  <2>3. CASE pass = "nodes"
    <3>1. Region = 1..WayStart /\ First = 1 /\ Decoded = "node"
      BY <2>3 DEF Region, First, Decoded
    <3>2. \A b \in DOMAIN file : \A i \in DOMAIN file[b] :
            file[b][i].kind = "node" => 1 <= b /\ b <= WayStart
      BY <1>1, <1>2
    <3>3. WayStart <= Len(file)
      BY <1>2, <1>3
    <3>. QED BY <1>3, <3>1, <3>2, <3>3
  <2>. QED BY <2>1, <2>2, <2>3 DEF SortedPasses
<1>5. PICK a \in Int : \E z \in Int : /\ Region = a..z /\ First = a /\ 1 <= a /\ z <= Len(file)
                        /\ \A b \in DOMAIN file : \A i \in DOMAIN file[b] :
                             file[b][i].kind = Decoded => a <= b /\ b <= z
  BY <1>4
<1>6. PICK z \in Int : /\ Region = a..z /\ First = a /\ 1 <= a /\ z <= Len(file)
                       /\ \A b \in DOMAIN file : \A i \in DOMAIN file[b] :
                            file[b][i].kind = Decoded => a <= b /\ b <= z
  BY <1>5
<1>7. Region \subseteq DOMAIN file /\ Region \subseteq Int
  BY ONLY <1>2, <1>6, a \in Int, z \in Int
<1>8. \A b \in Region : \A c \in Int : First <= c /\ c <= b => c \in Region
  BY ONLY <1>6, a \in Int, z \in Int
<1>9. \A b \in Region : First <= b
  BY ONLY <1>6, a \in Int, z \in Int
<1>10. ASSUME NEW e \in Kind(Decoded) PROVE e \in InBlobs(Region, Decoded)
  <2>1. PICK b \in DOMAIN file : \E i \in DOMAIN file[b] : e = file[b][i]
    BY ElementPlaces DEF Kind
  <2>2. b \in Region
    <3>1. a <= b /\ b <= z
      BY <1>6, <2>1 DEF Kind
    <3>2. b \in Int
      BY <1>2
    <3>. QED BY ONLY <1>6, <3>1, <3>2, a \in Int, z \in Int
  <2>3. e.kind = Decoded
    BY DEF Kind
  <2>4. file \in Files /\ Region \in SUBSET (DOMAIN file)
    BY <1>7 DEF Control
  <2>. QED BY ONLY <2>1, <2>2, <2>3, <2>4, InBlobsFacts
<1>11. InBlobs(Region, Decoded) \subseteq Kind(Decoded)
  BY <1>7, InBlobsFacts DEF Control
<1>. QED BY <1>6, <1>7, <1>8, <1>9, <1>10, <1>11

\* The chunk follows what is folded; when it is empty, the whole region is.
LEMMA ChunkFacts ==
  ASSUME Control, pass \in SortedPasses
  PROVE  /\ ChunkBlobs \subseteq Region /\ Folded \subseteq Region
         /\ Folded \cap ChunkBlobs = {}
         /\ Folded \cup ChunkBlobs = {b \in Region : b < at + Chunk}
         /\ ChunkBlobs = {} => Folded = Region
         /\ at \in Int /\ First <= at /\ First <= at + Chunk /\ at + Chunk \in Int
<1>1. /\ Region \subseteq Int /\ First \in Int
      /\ \A b \in Region : \A c \in Int : First <= c /\ c <= b => c \in Region
  BY RegionFacts
<1>2. at \in Int /\ First <= at
  BY DEF Control
<1>3. Chunk \in Nat /\ Chunk > 0
  BY SelectAssumption
<1>4. ASSUME ChunkBlobs = {} PROVE Folded = Region
  <2>. SUFFICES ASSUME NEW b \in Region, ~(b < at) PROVE FALSE
    BY DEF Folded
  <2>1. at <= b
    BY <1>1, <1>2
  <2>2. at \in Region
    BY <1>1, <1>2, <2>1
  <2>3. at \in ChunkBlobs
    BY <1>2, <1>3, <2>2 DEF ChunkBlobs
  <2>. QED BY <1>4, <2>3
<1>5. Folded \cap ChunkBlobs = {}
  <2>1. \A b \in Region : ~(b < at /\ at <= b)
    BY <1>1, <1>2
  <2>. QED BY <2>1 DEF Folded, ChunkBlobs
<1>6. Folded \cup ChunkBlobs = {b \in Region : b < at + Chunk}
  <2>1. \A b \in Region : b < at \/ (at <= b /\ b < at + Chunk) <=> b < at + Chunk
    BY <1>1, <1>2, <1>3
  <2>. QED BY <2>1 DEF Folded, ChunkBlobs
<1>7. First <= at + Chunk /\ at + Chunk \in Int
  BY <1>1, <1>2, <1>3
<1>. QED BY <1>2, <1>4, <1>5, <1>6, <1>7 DEF Folded, ChunkBlobs

\* Different blobs hold different elements.
LEMMA InBlobsDisjoint ==
  ASSUME file \in Files, NEW A \in SUBSET (DOMAIN file), NEW B \in SUBSET (DOMAIN file), A \cap B = {},
         NEW k
  PROVE  InBlobs(A, k) \cap InBlobs(B, k) = {}
<1>. SUFFICES ASSUME NEW e \in InBlobs(A, k), e \in InBlobs(B, k) PROVE FALSE
  OBVIOUS
<1>1. PICK b \in A : \E i \in DOMAIN file[b] : e = file[b][i]
  BY InBlobsFacts
<1>2. PICK i \in DOMAIN file[b] : e = file[b][i]
  BY <1>1
<1>3. PICK c \in B : \E j \in DOMAIN file[c] : e = file[c][j]
  BY InBlobsFacts
<1>4. PICK j \in DOMAIN file[c] : e = file[c][j]
  BY <1>3
<1>5. b = c
  <2>1. b \in DOMAIN file /\ c \in DOMAIN file /\ file[b][i].id = file[c][j].id
    BY <1>2, <1>4
  <2>. QED BY <2>1, SelectAssumption
<1>. QED BY <1>5

LEMMA NoBlobs == \A k : InBlobs({}, k) = {}
BY DEF InBlobs

LEMMA OneBlob == \A b, k : InBlobs({b}, k) = Range(Of(b, k))
BY DEF InBlobs

\* What grows with the elements seen.
LEMMA LinkedUnion == \A A, B : Linked(A \cup B) = Linked(A) \cup Linked(B)
BY DEF Linked

LEMMA ExportsUnion == \A A, B : Exports(A \cup B) = Exports(A) \cup Exports(B)
BY DEF Exports

LEMMA NothingSeen == Linked({}) = {} /\ Exports({}) = {}
BY DEF Linked, Exports

-----------------------------------------------------------------------------
(* How the parts of the context are told to have become something.         *)

LEMMA RelationsBecome ==
  ASSUME NEW R, NEW C, NEW L, file' = file, mode' = mode,
         relMembers' = R \cap RefRelations, exported' = Exports(C), links' = Linked(L)
  PROVE  RelationsAre(R, C, L)'
BY Static DEF RelationsAre

LEMMA WaysBecome ==
  ASSUME NEW W, NEW X, file' = file, mode' = mode,
         wayRefs' = {<<w, RefTopics(w)>> : w \in W \cap (RefKept \cup RefExtra)},
         counts' = [n \in NodeIds |-> References(W \cap RefKept, n)],
         extraNodes' = UNION {Range(w.refs) : w \in X \cap RefExtra}
  PROVE  WaysAre(W, X)'
<1>1. /\ RefKept' = RefKept /\ RefExtra' = RefExtra /\ NodeIds' = NodeIds
      /\ \A w : RefTopics(w)' = RefTopics(w)
  BY Static
<1>. QED BY <1>1 DEF WaysAre

LEMMA NodesBecome ==
  ASSUME NEW N, NEW P, file' = file, mode' = mode,
         coords' = {<<n.id, mode.needsGraph /\ RefUses(n) > 1>> :
                      n \in {m \in N : RefUses(m) > 0 \/ RefExtraOnly(m)}},
         selected' = {n.id : n \in {m \in N \cap RefClassified :
                                      RefUses(m) > 0 /\ m.topics \cap NodeGraph # {}}},
         points' = {n.id : n \in {m \in P \cap RefClassified : m.topics # {}}}
  PROVE  NodesAre(N, P)'
<1>1. RefClassified' = RefClassified /\ \A n : RefUses(n)' = RefUses(n) /\ RefExtraOnly(n)' = RefExtraOnly(n)
  BY Static
<1>. QED BY <1>1 DEF NodesAre

\* What a step leaves alone stays as it was.
LEMMA RelationsStay ==
  ASSUME file' = file, mode' = mode, UNCHANGED <<relMembers, exported, links>>
  PROVE  AllRelations => AllRelations'
<1>1. Kind("relation")' = Kind("relation") /\ RefRelations' = RefRelations
  BY Static
<1>. QED BY <1>1 DEF AllRelations, RelationsAre

LEMMA WaysStay ==
  ASSUME file' = file, mode' = mode, UNCHANGED <<wayRefs, counts, extraNodes>>
  PROVE  /\ AllWays => AllWays'
         /\ WaysAre({}, {}) => WaysAre({}, {})'
<1>1. /\ RefKept' = RefKept /\ RefExtra' = RefExtra /\ NodeIds' = NodeIds
      /\ \A w : RefTopics(w)' = RefTopics(w)
      /\ Kind("way")' = Kind("way")
  BY Static
<1>. QED BY <1>1 DEF AllWays, WaysAre

LEMMA NodesStay ==
  ASSUME file' = file, mode' = mode, UNCHANGED <<coords, selected, points>>
  PROVE  NodesAre({}, {}) => NodesAre({}, {})'
<1>1. RefClassified' = RefClassified /\ \A n : RefUses(n)' = RefUses(n) /\ RefExtraOnly(n)' = RefExtraOnly(n)
  BY Static
<1>. QED BY <1>1 DEF NodesAre

\* Nothing seen yet.
LEMMA NothingIs ==
  /\ relMembers = {} /\ exported = {} /\ links = {} => RelationsAre({}, {}, {})
  /\ wayRefs = {} /\ counts = [n \in NodeIds |-> 0] /\ extraNodes = {} => WaysAre({}, {})
  /\ coords = {} /\ selected = {} /\ points = {} => NodesAre({}, {})
<1>1. relMembers = {} /\ exported = {} /\ links = {} => RelationsAre({}, {}, {})
  BY NothingSeen DEF RelationsAre
<1>2. wayRefs = {} /\ counts = [n \in NodeIds |-> 0] /\ extraNodes = {} => WaysAre({}, {})
  <2>1. {} \cap RefKept = {} /\ {} \cap RefExtra = {} /\ {} \cap (RefKept \cup RefExtra) = {}
    OBVIOUS
  <2>2. [n \in NodeIds |-> References({}, n)] = [n \in NodeIds |-> 0]
    BY ReferencesNone
  <2>. QED BY <2>1, <2>2 DEF WaysAre
<1>3. coords = {} /\ selected = {} /\ points = {} => NodesAre({}, {})
  BY DEF NodesAre
<1>. QED BY <1>1, <1>2, <1>3

-----------------------------------------------------------------------------
(* The first state.                                                        *)

LEMMA FirstState == Init /\ (mode.sorted => BlobsInOrder) => SelectInv
<1>. SUFFICES ASSUME Init, mode.sorted => BlobsInOrder PROVE SelectInv
  OBVIOUS
<1>1. RelationsAre({}, {}, {}) /\ WaysAre({}, {}) /\ NodesAre({}, {})
  BY NothingIs DEF Init
<1>2. CASE Sorted
  <2>1. pass = "relations" /\ at = RelStart + 1 /\ done = {}
    BY <1>2 DEF Init
  <2>2. WayStart \in 0..Len(file) /\ RelStart \in WayStart..Len(file)
    BY <1>2, Layout DEF Init, Sorted
  <2>3. RelStart \in Int
    <3>1. Len(file) \in Nat
      BY FileFacts DEF Init
    <3>. QED BY <2>2, <3>1
  <2>4. First = RelStart + 1
    BY <2>1 DEF First
  <2>5. Control
    BY <1>2, <2>1, <2>3, <2>4 DEF Control, Init, SortedPasses
  <2>6. Folded = {} /\ Folded \cup done = {} /\ Routed = {}
    <3>1. \A b \in Region : First <= b /\ b \in Int /\ First \in Int
      BY <2>1, <2>5, RegionFacts DEF SortedPasses
    <3>2. Folded = {}
      BY <2>1, <2>4, <3>1 DEF Folded
    <3>. QED BY <2>1, <3>2 DEF Routed
  <2>7. Progress
    <3>1. /\ InBlobs(Folded, "relation") = {} /\ InBlobs(Folded \cup done, "relation") = {}
          /\ InBlobs(Routed, "relation") = {}
      BY <2>6, NoBlobs
    <3>. QED BY <1>1, <2>1, <3>1 DEF Progress
  <2>. QED BY <2>5, <2>7 DEF SelectInv
<1>3. CASE ~Sorted
  <2>1. pass = "scan relations"
    BY <1>3 DEF Init
  <2>2. Control
    BY <2>1 DEF Control, Init, SortedPasses
  <2>3. Progress
    BY <1>1, <2>1 DEF Progress
  <2>. QED BY <2>2, <2>3 DEF SelectInv
<1>. QED BY <1>2, <1>3

-----------------------------------------------------------------------------
(* The sorted path.                                                        *)

\* After a fold the next chunk follows, and nothing of it is classified yet.
LEMMA AfterFold ==
  ASSUME Control, pass \in SortedPasses, file' = file, mode' = mode, pass' = pass,
         at' = at + Chunk, done' = {}
  PROVE  /\ Control'
         /\ \A k : /\ InBlobs(Folded, k)' = InBlobs(Folded \cup ChunkBlobs, k)
                   /\ InBlobs(Folded \cup done, k)' = InBlobs(Folded \cup ChunkBlobs, k)
                   /\ InBlobs(Routed, k)' = InBlobs(Folded \cup ChunkBlobs, k)
<1>1. /\ RelStart' = RelStart /\ WayStart' = WayStart /\ Sorted' = Sorted /\ BlobsInOrder' = BlobsInOrder
      /\ \A b, k : Of(b, k)' = Of(b, k)
  BY Static
<1>2. Region' = Region
  BY <1>1 DEF Region
<1>3. First' = First
  BY <1>1 DEF First
<1>4. /\ Folded \cup ChunkBlobs = {b \in Region : b < at + Chunk}
      /\ First <= at + Chunk /\ at + Chunk \in Int
  BY ChunkFacts
<1>5. Folded' = Folded \cup ChunkBlobs
  BY <1>2, <1>4 DEF Folded
<1>6. Routed' = Folded' /\ (Folded \cup done)' = Folded'
  BY DEF Routed
<1>7. Control'
  BY <1>1, <1>3, <1>4 DEF Control, SortedPasses
<1>8. \A k : /\ InBlobs(Folded, k)' = InBlobs(Folded \cup ChunkBlobs, k)
             /\ InBlobs(Folded \cup done, k)' = InBlobs(Folded \cup ChunkBlobs, k)
             /\ InBlobs(Routed, k)' = InBlobs(Folded \cup ChunkBlobs, k)
  BY <1>1, <1>5, <1>6 DEF InBlobs
<1>. QED BY <1>7, <1>8

\* A classified blob joins the others of its chunk.
LEMMA AfterClassify ==
  ASSUME Control, pass \in SortedPasses, file' = file, mode' = mode, pass' = pass, at' = at,
         NEW b \in ChunkBlobs, done' = done \cup {b}
  PROVE  /\ Control'
         /\ \A k : /\ InBlobs(Folded, k)' = InBlobs(Folded, k)
                   /\ InBlobs(Folded \cup done, k)' = InBlobs(Folded \cup done \cup {b}, k)
                   /\ InBlobs(Routed, k)' = InBlobs(IF mode.ordered THEN Folded ELSE Folded \cup done \cup {b}, k)
<1>1. /\ RelStart' = RelStart /\ WayStart' = WayStart /\ Sorted' = Sorted /\ BlobsInOrder' = BlobsInOrder
      /\ \A c, k : Of(c, k)' = Of(c, k)
  BY Static
<1>2. Region' = Region
  BY <1>1 DEF Region
<1>3. First' = First
  BY <1>1 DEF First
<1>4. ChunkBlobs' = ChunkBlobs
  BY <1>2 DEF ChunkBlobs
<1>5. Folded' = Folded
  BY <1>2 DEF Folded
<1>6. (Folded \cup done)' = Folded \cup done \cup {b}
  BY <1>5
<1>7. Routed' = IF mode.ordered THEN Folded ELSE Folded \cup done \cup {b}
  BY <1>5 DEF Routed
<1>8. Control'
  BY <1>1, <1>3, <1>4 DEF Control, SortedPasses
<1>9. \A k : /\ InBlobs(Folded, k)' = InBlobs(Folded, k)
             /\ InBlobs(Folded \cup done, k)' = InBlobs(Folded \cup done \cup {b}, k)
             /\ InBlobs(Routed, k)' = InBlobs(IF mode.ordered THEN Folded ELSE Folded \cup done \cup {b}, k)
  BY <1>1, <1>5, <1>6, <1>7 DEF InBlobs
<1>. QED BY <1>8, <1>9

\* What the blobs of a pass hold.
LEMMA ChunkElements ==
  ASSUME Control, pass \in SortedPasses, NEW k
  PROVE  /\ InBlobs(Folded, k) \subseteq Kind(k) /\ InBlobs(ChunkBlobs, k) \subseteq Kind(k)
         /\ InBlobs(Folded \cup ChunkBlobs, k) = InBlobs(Folded, k) \cup InBlobs(ChunkBlobs, k)
         /\ InBlobs(Folded, k) \cap InBlobs(ChunkBlobs, k) = {}
         /\ \A b \in ChunkBlobs : Range(Of(b, k)) \subseteq Kind(k)
<1>1. /\ file \in Files /\ Folded \in SUBSET (DOMAIN file) /\ ChunkBlobs \in SUBSET (DOMAIN file)
      /\ Folded \cap ChunkBlobs = {}
  BY ChunkFacts, RegionFacts DEF Control
<1>2. InBlobs(Folded, k) \subseteq Kind(k) /\ InBlobs(ChunkBlobs, k) \subseteq Kind(k)
  BY <1>1, InBlobsFacts
<1>3. InBlobs(Folded, k) \cap InBlobs(ChunkBlobs, k) = {}
  BY <1>1, InBlobsDisjoint
<1>4. ASSUME NEW b \in ChunkBlobs PROVE Range(Of(b, k)) \subseteq InBlobs(ChunkBlobs, k)
  BY DEF InBlobs
<1>. QED BY <1>2, <1>3, <1>4, InBlobsUnion

\* Folding a chunk of relations: links have been routed with the rows, captures before.
LEMMA FoldRelationsStep == ASSUME SelectInv, FoldRelations PROVE SelectInv'
<1>. DEFINE B == Folded \cup ChunkBlobs
<1>1. /\ pass = "relations" /\ done = ChunkBlobs /\ pass' = pass /\ at' = at + Chunk /\ done' = {}
      /\ file' = file /\ mode' = mode /\ exported' = exported
      /\ UNCHANGED <<wayRefs, counts, extraNodes, coords, selected>>
      /\ relMembers' = relMembers \cup {r \in InBlobs(ChunkBlobs, "relation") : r.topics # {}}
  BY DEF FoldRelations, ChunkReady, NextChunk
<1>2. Control /\ pass \in SortedPasses
  BY <1>1 DEF SelectInv, SortedPasses
<1>3. /\ Control'
      /\ InBlobs(Folded, "relation")' = InBlobs(B, "relation")
      /\ InBlobs(Folded \cup done, "relation")' = InBlobs(B, "relation")
      /\ InBlobs(Routed, "relation")' = InBlobs(B, "relation")
  BY <1>1, <1>2, AfterFold
<1>4. /\ InBlobs(B, "relation") = InBlobs(Folded, "relation") \cup InBlobs(ChunkBlobs, "relation")
      /\ InBlobs(ChunkBlobs, "relation") \subseteq Kind("relation")
  BY <1>2, ChunkElements
<1>5. /\ relMembers = InBlobs(Folded, "relation") \cap RefRelations
      /\ exported = Exports(InBlobs(B, "relation"))
      /\ links = Linked(InBlobs(Routed, "relation"))
      /\ WaysAre({}, {}) /\ NodesAre({}, {})
  BY <1>1 DEF SelectInv, Progress, RelationsAre
<1>6. relMembers' = InBlobs(B, "relation") \cap RefRelations
  BY <1>1, <1>4, <1>5 DEF RefRelations
<1>7. links' = Linked(InBlobs(B, "relation")) /\ points' = points
  <2>1. CASE mode.ordered
    <3>1. links' = links \cup Linked(InBlobs(ChunkBlobs, "relation")) /\ points' = points
      BY <1>1, <2>1 DEF FoldRelations, NextChunk, Route
    <3>2. links = Linked(InBlobs(Folded, "relation"))
      BY <1>5, <2>1 DEF Routed
    <3>. QED BY <1>4, <3>1, <3>2, LinkedUnion
  <2>2. CASE ~mode.ordered
    <3>1. links' = links /\ points' = points
      BY <2>2 DEF FoldRelations, NextChunk, routedVars
    <3>2. links = Linked(InBlobs(B, "relation"))
      BY <1>1, <1>5, <2>2 DEF Routed
    <3>. QED BY <3>1, <3>2
  <2>. QED BY <2>1, <2>2
<1>8. PICK R : R = InBlobs(B, "relation")
  OBVIOUS
<1>9. RelationsAre(R, R, R)'
  BY <1>1, <1>5, <1>6, <1>7, <1>8, RelationsBecome
<1>10. RelationsAre(InBlobs(Folded, "relation"), InBlobs(Folded \cup done, "relation"), InBlobs(Routed, "relation"))'
  BY <1>3, <1>8, <1>9 DEF RelationsAre
<1>11. WaysAre({}, {})' /\ NodesAre({}, {})'
  BY <1>1, <1>5, <1>7, WaysStay, NodesStay
<1>12. Progress'
  <2>1. pass' = "relations"
    BY <1>1
  <2>. QED BY <1>10, <1>11, <2>1 DEF Progress
<1>. QED BY <1>3, <1>12 DEF SelectInv

\* The entries that the ways of a set have in the index.
LEMMA KeepsOf ==
  ASSUME file \in Files, AllRelations, NEW W \in SUBSET Kind("way")
  PROVE  /\ UNION {Keeps(w) : w \in W} = {<<w, RefTopics(w)>> : w \in W \cap (RefKept \cup RefExtra)}
         /\ {w \in W : WayTopics(w) # {}} = W \cap RefKept
         /\ {v \in W \ RefKept : v.id \in ExtraWays} = W \cap RefExtra
<1>1. \A w \in W : /\ w \in RefKept <=> WayTopics(w) # {}
                   /\ w.id \in ExtraWays /\ w \notin RefKept <=> w \in RefExtra
                   /\ Keeps(w) = IF w \in RefKept \cup RefExtra THEN {<<w, RefTopics(w)>>} ELSE {}
  BY TopicsAre
<1>2. UNION {Keeps(w) : w \in W} = {<<w, RefTopics(w)>> : w \in W \cap (RefKept \cup RefExtra)}
  BY <1>1
<1>3. {w \in W : WayTopics(w) # {}} = W \cap RefKept
  BY <1>1
<1>4. {v \in W \ RefKept : v.id \in ExtraWays} = W \cap RefExtra
  BY <1>1
<1>. QED BY <1>2, <1>3, <1>4

\* More ways: the index, the counts and the extra nodes grow by theirs.
LEMMA WaysGrow ==
  ASSUME file \in Files, NEW W \in SUBSET Kind("way"), NEW V \in SUBSET Kind("way"), W \cap V = {}
  PROVE  \A n : References((W \cup V) \cap RefKept, n)
                = References(W \cap RefKept, n) + References(V \cap RefKept, n)
<1>. DEFINE A == W \cap RefKept
            C == V \cap RefKept
<1>1. A \in SUBSET Kind("way") /\ C \in SUBSET Kind("way") /\ A \cap C = {} /\ (W \cup V) \cap RefKept = A \cup C
  OBVIOUS
<1>. HIDE DEF A, C
<1>2. \A n : References(A \cup C, n) = References(A, n) + References(C, n)
  BY <1>1, ReferencesAdd
<1>. QED BY <1>1, <1>2 DEF A, C

\* Folding a chunk of ways.
LEMMA FoldWaysStep == ASSUME SelectInv, FoldWays PROVE SelectInv'
<1>. DEFINE B == Folded \cup ChunkBlobs
            old == InBlobs(Folded, "way")
            new == InBlobs(ChunkBlobs, "way")
<1>1. /\ pass = "ways" /\ pass' = pass /\ at' = at + Chunk /\ done' = {}
      /\ file' = file /\ mode' = mode /\ exported' = exported
      /\ UNCHANGED <<relMembers, coords, selected>>
      /\ wayRefs' = wayRefs \cup UNION {Keeps(w) : w \in new}
      /\ counts' = [n \in NodeIds |-> counts[n] + References({w \in new : WayTopics(w) # {}}, n)]
      /\ extraNodes' = extraNodes \cup
           UNION {Range(w.refs) : w \in {v \in new \ {w \in new : WayTopics(w) # {}} : v.id \in ExtraWays}}
  BY DEF FoldWays, ChunkReady, NextChunk
<1>2. Control /\ pass \in SortedPasses /\ file \in Files
  BY <1>1 DEF SelectInv, SortedPasses, Control
<1>3. Control' /\ InBlobs(Folded, "way")' = InBlobs(B, "way")
  BY <1>1, <1>2, AfterFold
<1>4. /\ InBlobs(B, "way") = old \cup new /\ old \subseteq Kind("way") /\ new \subseteq Kind("way")
      /\ old \cap new = {}
  BY <1>2, ChunkElements
<1>5. AllRelations /\ WaysAre(old, old) /\ NodesAre({}, {})
  BY <1>1 DEF SelectInv, Progress
<1>6. links' = links /\ points' = points
  BY <1>1 DEF FoldWays, NextChunk, Route, routedVars
<1>7. PICK W, V : W = old /\ V = new
  OBVIOUS
<1>8. /\ UNION {Keeps(w) : w \in V} = {<<w, RefTopics(w)>> : w \in V \cap (RefKept \cup RefExtra)}
      /\ {w \in V : WayTopics(w) # {}} = V \cap RefKept
      /\ {v \in V \ RefKept : v.id \in ExtraWays} = V \cap RefExtra
  BY <1>2, <1>4, <1>5, <1>7, KeepsOf
<1>9. V \ (V \cap RefKept) = V \ RefKept
  OBVIOUS
<1>10. WaysAre(W \cup V, W \cup V)'
  <2>1. wayRefs' = {<<w, RefTopics(w)>> : w \in (W \cup V) \cap (RefKept \cup RefExtra)}
    <3>1. wayRefs = {<<w, RefTopics(w)>> : w \in W \cap (RefKept \cup RefExtra)}
      BY <1>5, <1>7 DEF WaysAre
    <3>. QED BY <1>1, <1>7, <1>8, <3>1
  <2>2. counts' = [n \in NodeIds |-> References((W \cup V) \cap RefKept, n)]
    <3>1. counts = [n \in NodeIds |-> References(W \cap RefKept, n)]
      BY <1>5, <1>7 DEF WaysAre
    <3>2. \A n : References((W \cup V) \cap RefKept, n)
                 = References(W \cap RefKept, n) + References(V \cap RefKept, n)
      <4>1. /\ file \in Files /\ W \in SUBSET Kind("way") /\ V \in SUBSET Kind("way")
            /\ W \cap V = {}
        BY <1>2, <1>4, <1>7
      <4>. QED BY ONLY <4>1, WaysGrow
    <3>3. counts' = [n \in NodeIds |-> counts[n] + References(V \cap RefKept, n)]
      BY <1>1, <1>7, <1>8
    <3>. QED BY <3>1, <3>2, <3>3
  <2>3. extraNodes' = UNION {Range(w.refs) : w \in (W \cup V) \cap RefExtra}
    <3>1. extraNodes = UNION {Range(w.refs) : w \in W \cap RefExtra}
      BY <1>5, <1>7 DEF WaysAre
    <3>2. extraNodes' = extraNodes \cup UNION {Range(w.refs) : w \in V \cap RefExtra}
      BY <1>1, <1>7, <1>8, <1>9
    <3>. QED BY <3>1, <3>2
  <2>. QED BY <1>1, <2>1, <2>2, <2>3, WaysBecome
<1>11. WaysAre(InBlobs(Folded, "way"), InBlobs(Folded, "way"))'
  BY <1>3, <1>4, <1>7, <1>10 DEF WaysAre
<1>12. AllRelations' /\ NodesAre({}, {})'
  BY <1>1, <1>5, <1>6, RelationsStay, NodesStay
<1>13. Progress'
  <2>1. pass' = "ways"
    BY <1>1
  <2>. QED BY <1>11, <1>12, <2>1 DEF Progress
<1>. QED BY <1>3, <1>13 DEF SelectInv

\* What the nodes of a set add to the coordinates, the cut points and the point rows.
LEMMA NodesOf ==
  ASSUME file \in Files, mode \in Modes, AllWays, NEW N \in SUBSET Kind("node")
  PROVE  /\ UNION {Coords(n) : n \in N}
            = {<<n.id, mode.needsGraph /\ RefUses(n) > 1>> :
                 n \in {m \in N : RefUses(m) > 0 \/ RefExtraOnly(m)}}
         /\ {n.id : n \in {m \in N : Forced(m)}}
            = {n.id : n \in {m \in N \cap RefClassified :
                               RefUses(m) > 0 /\ m.topics \cap NodeGraph # {}}}
         /\ Pointed(N) = {n.id : n \in {m \in N \cap RefClassified : m.topics # {}}}
<1>1. \A n \in N : /\ Referenced(n) <=> RefUses(n) > 0
                   /\ Coords(n) = IF RefUses(n) > 0 \/ RefExtraOnly(n)
                                  THEN {<<n.id, mode.needsGraph /\ RefUses(n) > 1>>} ELSE {}
                   /\ n.topics # {} => (Classified(n) <=> n \in RefClassified)
  BY NodesSeen
<1>2. UNION {Coords(n) : n \in N} = {<<n.id, mode.needsGraph /\ RefUses(n) > 1>> :
                                       n \in {m \in N : RefUses(m) > 0 \/ RefExtraOnly(m)}}
  BY <1>1
<1>3. {m \in N : Forced(m)} = {m \in N \cap RefClassified : RefUses(m) > 0 /\ m.topics \cap NodeGraph # {}}
  BY <1>1 DEF Forced
<1>4. {m \in N : Classified(m) /\ m.topics # {}} = {m \in N \cap RefClassified : m.topics # {}}
  BY <1>1
<1>. QED BY <1>2, <1>3, <1>4 DEF Pointed

\* The point rows of some blobs.
LEMMA PointedUnion == \A A, B : Pointed(A \cup B) = Pointed(A) \cup Pointed(B)
BY DEF Pointed

\* Folding a chunk of nodes.
LEMMA FoldNodesStep == ASSUME SelectInv, FoldNodes PROVE SelectInv'
<1>. DEFINE B == Folded \cup ChunkBlobs
            old == InBlobs(Folded, "node")
            new == InBlobs(ChunkBlobs, "node")
            PointIds(P) == {n.id : n \in {m \in P \cap RefClassified : m.topics # {}}}
            CoordsOf(N) == {<<n.id, mode.needsGraph /\ RefUses(n) > 1>> :
                              n \in {m \in N : RefUses(m) > 0 \/ RefExtraOnly(m)}}
            Selected(N) == {n.id : n \in {m \in N \cap RefClassified :
                                            RefUses(m) > 0 /\ m.topics \cap NodeGraph # {}}}
<1>1. /\ pass = "nodes" /\ done = ChunkBlobs /\ pass' = pass /\ at' = at + Chunk /\ done' = {}
      /\ file' = file /\ mode' = mode /\ exported' = exported
      /\ UNCHANGED <<relMembers, wayRefs, counts, extraNodes>>
      /\ coords' = coords \cup UNION {Coords(n) : n \in new}
      /\ selected' = selected \cup {n.id : n \in {m \in new : Forced(m)}}
  BY DEF FoldNodes, ChunkReady, NextChunk
<1>2. Control /\ pass \in SortedPasses /\ file \in Files /\ mode \in Modes
  BY <1>1 DEF SelectInv, SortedPasses, Control
<1>3. /\ Control' /\ InBlobs(Folded, "node")' = InBlobs(B, "node")
      /\ InBlobs(Routed, "node")' = InBlobs(B, "node")
  BY <1>1, <1>2, AfterFold
<1>4. InBlobs(B, "node") = old \cup new /\ new \subseteq Kind("node")
  BY <1>2, ChunkElements
<1>5. AllRelations /\ AllWays /\ NodesAre(old, InBlobs(Routed, "node"))
  BY <1>1 DEF SelectInv, Progress
<1>6. /\ UNION {Coords(n) : n \in new} = CoordsOf(new)
      /\ {n.id : n \in {m \in new : Forced(m)}} = Selected(new)
      /\ Pointed(new) = PointIds(new)
  BY <1>2, <1>4, <1>5, NodesOf
<1>7. coords' = CoordsOf(old \cup new)
  <2>1. coords = CoordsOf(old)
    BY <1>5 DEF NodesAre
  <2>. HIDE DEF old, new
  <2>. QED BY <1>1, <1>6, <2>1
<1>8. selected' = Selected(old \cup new)
  <2>1. selected = Selected(old)
    BY <1>5 DEF NodesAre
  <2>. HIDE DEF old, new
  <2>. QED BY <1>1, <1>6, <2>1
<1>9. points' = PointIds(old \cup new) /\ links' = links
  <2>1. CASE mode.ordered
    <3>1. points' = points \cup Pointed(new) /\ links' = links
      BY <1>1, <2>1 DEF FoldNodes, NextChunk, Route
    <3>2. points = PointIds(old)
      BY <1>5, <2>1 DEF Routed, NodesAre
    <3>. HIDE DEF old, new
    <3>. QED BY <1>6, <3>1, <3>2
  <2>2. CASE ~mode.ordered
    <3>1. points' = points /\ links' = links
      BY <2>2 DEF FoldNodes, NextChunk, routedVars
    <3>2. points = PointIds(InBlobs(B, "node"))
      BY <1>1, <1>5, <2>2 DEF Routed, NodesAre
    <3>. QED BY <1>4, <3>1, <3>2
  <2>. QED BY <2>1, <2>2
<1>10. PICK N : N = old \cup new
  OBVIOUS
<1>11. NodesAre(N, N)'
  <2>. HIDE DEF old, new
  <2>. QED BY <1>1, <1>7, <1>8, <1>9, <1>10, NodesBecome
<1>12. NodesAre(InBlobs(Folded, "node"), InBlobs(Routed, "node"))'
  BY <1>3, <1>4, <1>10, <1>11 DEF NodesAre
<1>13. AllRelations' /\ AllWays'
  BY <1>1, <1>5, <1>9, RelationsStay, WaysStay
<1>14. Progress'
  <2>1. pass' = "nodes"
    BY <1>1
  <2>. QED BY <1>12, <1>13, <2>1 DEF Progress
<1>. QED BY <1>3, <1>14 DEF SelectInv

\* Classifying one blob: what relations export is captured, and an unordered run routes.
LEMMA ClassifyStep == ASSUME SelectInv, NEW b \in DOMAIN file, Classify(b) PROVE SelectInv'
<1>. DEFINE C == Folded \cup done \cup {b}
            D == IF mode.ordered THEN Folded ELSE C
<1>1. /\ b \in ChunkBlobs /\ done' = done \cup {b} /\ file' = file /\ mode' = mode
      /\ pass' = pass /\ at' = at
      /\ UNCHANGED <<relMembers, wayRefs, counts, extraNodes, coords, selected>>
      /\ exported' = exported \cup
           IF pass = "relations"
           THEN UNION {{r.id} \X r.exports : r \in Range(Of(b, "relation"))} ELSE {}
  BY DEF Classify, context
<1>2. Control /\ pass \in SortedPasses /\ file \in Files /\ mode \in Modes
  <2>1. Control
    BY DEF SelectInv
  <2>2. pass \in SortedPasses
    BY <1>1, <2>1 DEF Control, SortedPasses, ChunkBlobs, Region
  <2>. QED BY <2>1, <2>2 DEF Control
<1>3. /\ Control'
      /\ \A k : /\ InBlobs(Folded, k)' = InBlobs(Folded, k)
                /\ InBlobs(Folded \cup done, k)' = InBlobs(C, k)
                /\ InBlobs(Routed, k)' = InBlobs(D, k)
  BY <1>1, <1>2, AfterClassify
<1>4. /\ \A k : InBlobs(C, k) = InBlobs(Folded \cup done, k) \cup Range(Of(b, k))
      /\ \A k : InBlobs({b}, k) = Range(Of(b, k))
      /\ Range(Of(b, "node")) \subseteq Kind("node")
  <2>1. \A k : InBlobs(C, k) = InBlobs(Folded \cup done, k) \cup InBlobs({b}, k)
    BY InBlobsUnion
  <2>2. Range(Of(b, "node")) \subseteq Kind("node")
    BY <1>1, <1>2, ChunkElements
  <2>. QED BY <2>1, <2>2, OneBlob
<1>5. /\ links' = IF ~mode.ordered /\ pass = "relations"
                  THEN links \cup Linked(Range(Of(b, "relation"))) ELSE links
      /\ points' = IF ~mode.ordered /\ pass = "nodes"
                   THEN points \cup Pointed(Range(Of(b, "node"))) ELSE points
  <2>1. CASE mode.ordered
    BY <2>1 DEF Classify, routedVars
  <2>2. CASE ~mode.ordered
    BY <1>4, <2>2 DEF Classify, Route
  <2>. QED BY <2>1, <2>2
<1>6. CASE pass = "relations"
  <2>1. /\ RelationsAre(InBlobs(Folded, "relation"), InBlobs(Folded \cup done, "relation"), InBlobs(Routed, "relation"))
        /\ WaysAre({}, {}) /\ NodesAre({}, {})
    BY <1>6 DEF SelectInv, Progress
  <2>2. PICK R, S, L : R = InBlobs(Folded, "relation") /\ S = InBlobs(C, "relation") /\ L = InBlobs(D, "relation")
    OBVIOUS
  <2>3. relMembers' = R \cap RefRelations
    BY <1>1, <2>1, <2>2 DEF RelationsAre
  <2>4. exported' = Exports(S)
    <3>1. exported = Exports(InBlobs(Folded \cup done, "relation"))
      BY <2>1 DEF RelationsAre
    <3>2. exported' = exported \cup Exports(Range(Of(b, "relation")))
      BY <1>1, <1>6 DEF Exports
    <3>. QED BY <1>4, <2>2, <3>1, <3>2, ExportsUnion
  <2>5. links' = Linked(L) /\ points' = points
    <3>1. links = Linked(InBlobs(Routed, "relation"))
      BY <2>1 DEF RelationsAre
    <3>2. CASE mode.ordered
      BY <1>5, <1>6, <2>2, <3>1, <3>2 DEF Routed
    <3>3. CASE ~mode.ordered
      <4>1. links = Linked(InBlobs(Folded \cup done, "relation"))
        BY <3>1, <3>3 DEF Routed
      <4>2. links' = links \cup Linked(Range(Of(b, "relation"))) /\ points' = points
        BY <1>5, <1>6, <3>3
      <4>3. L = InBlobs(Folded \cup done, "relation") \cup Range(Of(b, "relation"))
        BY <1>4, <2>2, <3>3
      <4>. QED BY <4>1, <4>2, <4>3, LinkedUnion
    <3>. QED BY <3>2, <3>3
  <2>6. RelationsAre(R, S, L)'
    BY <1>1, <2>3, <2>4, <2>5, RelationsBecome
  <2>7. RelationsAre(InBlobs(Folded, "relation"), InBlobs(Folded \cup done, "relation"), InBlobs(Routed, "relation"))'
    BY <1>3, <2>2, <2>6 DEF RelationsAre
  <2>8. WaysAre({}, {})' /\ NodesAre({}, {})'
    BY <1>1, <2>1, <2>5, WaysStay, NodesStay
  <2>9. pass' = "relations"
    BY <1>1, <1>6
  <2>10. Progress'
    BY <2>7, <2>8, <2>9 DEF Progress
  <2>. QED BY <1>3, <2>10 DEF SelectInv
<1>7. CASE pass = "ways"
  <2>1. AllRelations /\ NodesAre({}, {}) /\ WaysAre(InBlobs(Folded, "way"), InBlobs(Folded, "way"))
    BY <1>7 DEF SelectInv, Progress
  <2>2. exported' = exported /\ links' = links /\ points' = points
    BY <1>1, <1>5, <1>7
  <2>3. AllRelations' /\ NodesAre({}, {})'
    BY <1>1, <2>1, <2>2, RelationsStay, NodesStay
  <2>4. PICK W : W = InBlobs(Folded, "way")
    OBVIOUS
  <2>5. WaysAre(W, W)'
    BY <1>1, <2>1, <2>4, WaysBecome DEF WaysAre
  <2>6. WaysAre(InBlobs(Folded, "way"), InBlobs(Folded, "way"))'
    BY <1>3, <2>4, <2>5 DEF WaysAre
  <2>7. pass' = "ways"
    BY <1>1, <1>7
  <2>8. Progress'
    BY <2>3, <2>6, <2>7 DEF Progress
  <2>. QED BY <1>3, <2>8 DEF SelectInv
<1>8. CASE pass = "nodes"
  <2>1. AllRelations /\ AllWays /\ NodesAre(InBlobs(Folded, "node"), InBlobs(Routed, "node"))
    BY <1>8 DEF SelectInv, Progress
  <2>2. exported' = exported /\ links' = links
    BY <1>1, <1>5, <1>8
  <2>3. AllRelations' /\ AllWays'
    BY <1>1, <2>1, <2>2, RelationsStay, WaysStay
  <2>4. PICK N, P : N = InBlobs(Folded, "node") /\ P = InBlobs(D, "node")
    OBVIOUS
  <2>5. points' = {n.id : n \in {m \in P \cap RefClassified : m.topics # {}}}
    <3>1. points = {n.id : n \in {m \in InBlobs(Routed, "node") \cap RefClassified : m.topics # {}}}
      BY <2>1 DEF NodesAre
    <3>2. CASE mode.ordered
      BY <1>5, <1>8, <2>4, <3>1, <3>2 DEF Routed
    <3>3. CASE ~mode.ordered
      <4>1. Routed = Folded \cup done
        BY <3>3 DEF Routed
      <4>2. Pointed(Range(Of(b, "node")))
            = {n.id : n \in {m \in Range(Of(b, "node")) \cap RefClassified : m.topics # {}}}
        BY <1>2, <1>4, <2>1, NodesOf
      <4>3. P = InBlobs(Folded \cup done, "node") \cup Range(Of(b, "node"))
        BY <1>4, <2>4, <3>3
      <4>4. points' = points \cup Pointed(Range(Of(b, "node")))
        BY <1>5, <1>8, <3>3
      <4>. QED BY <3>1, <4>1, <4>2, <4>3, <4>4
    <3>. QED BY <3>2, <3>3
  <2>6. NodesAre(N, P)'
    <3>1. /\ coords' = {<<n.id, mode.needsGraph /\ RefUses(n) > 1>> :
                          n \in {m \in N : RefUses(m) > 0 \/ RefExtraOnly(m)}}
          /\ selected' = {n.id : n \in {m \in N \cap RefClassified :
                                          RefUses(m) > 0 /\ m.topics \cap NodeGraph # {}}}
      BY <1>1, <2>1, <2>4 DEF NodesAre
    <3>. QED BY <1>1, <2>5, <3>1, NodesBecome
  <2>7. NodesAre(InBlobs(Folded, "node"), InBlobs(Routed, "node"))'
    BY <1>3, <2>4, <2>6 DEF NodesAre
  <2>8. pass' = "nodes"
    BY <1>1, <1>8
  <2>9. Progress'
    BY <2>3, <2>7, <2>8 DEF Progress
  <2>. QED BY <1>3, <2>9 DEF SelectInv
<1>. QED BY <1>2, <1>6, <1>7, <1>8 DEF SortedPasses

\* A pass that has folded its last chunk has seen every element of its kind.
LEMMA NextPassStep == ASSUME SelectInv, NextPass PROVE SelectInv'
<1>1. /\ pass \in SortedPasses /\ ChunkBlobs = {} /\ file' = file /\ mode' = mode /\ done' = done
      /\ pass' = (CASE pass = "relations" -> "ways" [] pass = "ways" -> "nodes" [] OTHER -> "done")
      /\ at' = (IF pass = "relations" THEN WayStart + 1 ELSE 1)
      /\ UNCHANGED <<relMembers, exported, links, wayRefs, counts, extraNodes, coords, selected, points>>
  BY DEF NextPass, SortedPasses, routedVars, context
<1>2. Control /\ done = {} /\ file \in Files
  BY <1>1 DEF SelectInv, Control
<1>3. /\ Folded = Region /\ Folded \cup done = Region /\ Routed = Region
      /\ InBlobs(Region, Decoded) = Kind(Decoded)
  <2>1. Folded = Region /\ InBlobs(Region, Decoded) = Kind(Decoded)
    BY <1>1, <1>2, ChunkFacts, RegionFacts
  <2>. QED BY <1>2, <2>1 DEF Routed
<1>4. /\ RelStart' = RelStart /\ WayStart' = WayStart /\ Sorted' = Sorted /\ BlobsInOrder' = BlobsInOrder
      /\ \A b, k : Of(b, k)' = Of(b, k)
  BY <1>1, Static
<1>5. WayStart \in Int /\ RelStart \in Int
  <2>1. WayStart \in 0..Len(file) /\ RelStart \in WayStart..Len(file) /\ Len(file) \in Nat
    BY <1>1, <1>2, Layout, FileFacts DEF Control, Sorted
  <2>2. WayStart \in Int
    BY ONLY <2>1
  <2>. QED BY ONLY <2>1, <2>2
<1>n. Sorted /\ (mode.sorted => BlobsInOrder) /\ mode \in Modes
  BY <1>1, <1>2 DEF Control
<1>6. CASE pass = "relations"
  <2>1. pass' = "ways" /\ at' = WayStart + 1
    BY <1>1, <1>6
  <2>2. First' = WayStart + 1
    BY <1>4, <2>1 DEF First
  <2>3. Control'
    <3>1. Sorted' /\ at' \in Int /\ First' <= at' /\ done' \subseteq ChunkBlobs'
      BY <1>1, <1>2, <1>4, <1>5, <1>n, <2>1, <2>2
    <3>2. file' \in Files /\ mode' \in Modes /\ (mode.sorted => BlobsInOrder)'
      BY <1>1, <1>2, <1>4, <1>n
    <3>. QED BY <2>1, <3>1, <3>2 DEF Control, SortedPasses
  <2>4. Folded' = {}
    <3>1. Region' = (WayStart + 1)..RelStart
      BY <1>4, <2>1 DEF Region
    <3>2. \A b \in (WayStart + 1)..RelStart : ~(b < WayStart + 1)
      BY <1>5
    <3>. QED BY <2>1, <3>1, <3>2 DEF Folded
  <2>5. InBlobs(Folded, "way")' = {}
    BY <2>4 DEF InBlobs
  <2>6. Kind("relation") = InBlobs(Region, "relation")
    BY <1>3, <1>6 DEF Decoded
  <2>7. AllRelations /\ WaysAre({}, {}) /\ NodesAre({}, {})
    BY <1>3, <1>6, <2>6 DEF SelectInv, Progress, AllRelations
  <2>8. AllRelations' /\ WaysAre({}, {})' /\ NodesAre({}, {})'
    BY <1>1, <2>7, RelationsStay, WaysStay, NodesStay
  <2>9. WaysAre(InBlobs(Folded, "way"), InBlobs(Folded, "way"))'
    BY <2>5, <2>8 DEF WaysAre
  <2>10. Progress'
    BY <2>1, <2>8, <2>9 DEF Progress
  <2>. QED BY <2>3, <2>10 DEF SelectInv
<1>7. CASE pass = "ways"
  <2>1. pass' = "nodes" /\ at' = 1
    BY <1>1, <1>7
  <2>2. First' = 1
    BY <2>1 DEF First
  <2>3. Control'
    <3>1. Sorted' /\ at' \in Int /\ First' <= at' /\ done' \subseteq ChunkBlobs'
      BY <1>1, <1>2, <1>4, <1>5, <1>n, <2>1, <2>2
    <3>2. file' \in Files /\ mode' \in Modes /\ (mode.sorted => BlobsInOrder)'
      BY <1>1, <1>2, <1>4, <1>n
    <3>. QED BY <2>1, <3>1, <3>2 DEF Control, SortedPasses
  <2>4. Folded' = {} /\ Routed' = {}
    <3>1. Region' = 1..WayStart
      BY <1>4, <2>1 DEF Region
    <3>2. \A b \in 1..WayStart : ~(b < 1)
      BY <1>5
    <3>3. Folded' = {}
      BY <2>1, <3>1, <3>2 DEF Folded
    <3>. QED BY <1>1, <1>2, <3>3 DEF Routed
  <2>5. InBlobs(Folded, "node")' = {} /\ InBlobs(Routed, "node")' = {}
    BY <2>4 DEF InBlobs
  <2>6. Kind("way") = InBlobs(Region, "way")
    BY <1>3, <1>7 DEF Decoded
  <2>7. AllRelations /\ AllWays /\ NodesAre({}, {})
    BY <1>3, <1>7, <2>6 DEF SelectInv, Progress, AllWays
  <2>8. AllRelations' /\ AllWays' /\ NodesAre({}, {})'
    BY <1>1, <2>7, RelationsStay, WaysStay, NodesStay
  <2>9. NodesAre(InBlobs(Folded, "node"), InBlobs(Routed, "node"))'
    BY <2>5, <2>8 DEF NodesAre
  <2>10. Progress'
    BY <2>1, <2>8, <2>9 DEF Progress
  <2>. QED BY <2>3, <2>10 DEF SelectInv
<1>8. CASE pass = "nodes"
  <2>1. pass' = "done"
    BY <1>1, <1>8
  <2>2. Control'
    BY <1>1, <1>2, <1>4, <1>n, <2>1 DEF Control, SortedPasses
  <2>3. Kind("node") = InBlobs(Region, "node")
    BY <1>3, <1>8 DEF Decoded
  <2>4. AllRelations /\ AllWays /\ NodesAre(Kind("node"), Kind("node"))
    BY <1>3, <1>8, <2>3 DEF SelectInv, Progress
  <2>5. AllRelations' /\ AllWays'
    BY <1>1, <2>4, RelationsStay, WaysStay
  <2>6. PICK N : N = Kind("node")
    OBVIOUS
  <2>7. NodesAre(N, N)'
    BY <1>1, <2>4, <2>6, NodesBecome DEF NodesAre
  <2>8. Kind("node")' = N
    BY <1>1, <2>6, Static
  <2>9. NodesAre(Kind("node"), Kind("node"))'
    BY <2>7, <2>8 DEF NodesAre
  <2>10. Progress'
    BY <2>1, <2>5, <2>9 DEF Progress
  <2>. QED BY <2>2, <2>10 DEF SelectInv
<1>. QED BY <1>1, <1>6, <1>7, <1>8 DEF SortedPasses

-----------------------------------------------------------------------------
(* The fallback.                                                           *)

\* Scan R indexes every relation at once.
LEMMA ScanRelationsStep == ASSUME SelectInv, ScanRelations PROVE SelectInv'
<1>1. /\ pass = "scan relations" /\ pass' = "scan ways" /\ done' = done
      /\ file' = file /\ mode' = mode
      /\ UNCHANGED <<wayRefs, counts, extraNodes, coords, selected, points>>
      /\ relMembers' = {r \in Kind("relation") : r.topics # {}}
      /\ links' = Linked({r \in Kind("relation") : r.topics # {}})
      /\ exported' = UNION {{r.id} \X r.exports : r \in {r \in Kind("relation") : r.topics # {}}}
  BY DEF ScanRelations
<1>2. Control /\ done = {} /\ WaysAre({}, {}) /\ NodesAre({}, {}) /\ file \in Files
  BY <1>1 DEF SelectInv, Control, Progress
<1>3. Sorted' = Sorted /\ BlobsInOrder' = BlobsInOrder /\ Kind("relation")' = Kind("relation")
  BY <1>1, Static
<1>4. Control'
  BY <1>1, <1>2, <1>3 DEF Control, SortedPasses
<1>5. relMembers' = RefRelations /\ links' = Linked(RefRelations) /\ exported' = Exports(RefRelations)
  BY <1>1 DEF RefRelations, Exports
<1>6. PICK R : R = Kind("relation")
  OBVIOUS
<1>7. /\ relMembers' = R \cap RefRelations /\ exported' = Exports(R) /\ links' = Linked(R)
  <2>1. Linked(RefRelations) = Linked(Kind("relation"))
    BY DEF Linked, RefRelations
  <2>2. Exports(RefRelations) = Exports(Kind("relation"))
    BY <1>2, ExportsFacts
  <2>. QED BY <1>5, <1>6, <2>1, <2>2, RefFacts
<1>8. RelationsAre(R, R, R)'
  BY <1>1, <1>7, RelationsBecome
<1>9. AllRelations'
  BY <1>3, <1>6, <1>8 DEF AllRelations, RelationsAre
<1>10. WaysAre({}, {})' /\ NodesAre({}, {})'
  BY <1>1, <1>2, WaysStay, NodesStay
<1>11. WaysAre(done, {})'
  BY <1>1, <1>2, <1>10 DEF WaysAre
<1>12. Progress'
  BY <1>1, <1>9, <1>10, <1>11 DEF Progress
<1>. QED BY <1>4, <1>12 DEF SelectInv

\* Scan 1 indexes one way; the extra nodes are listed at its end.
LEMMA ScanWayStep == ASSUME SelectInv, NEW w \in Kind("way"), ScanWay(w) PROVE SelectInv'
<1>1. /\ pass = "scan ways" /\ pass' = "scan ways" /\ w \notin done /\ done' = done \cup {w}
      /\ file' = file /\ mode' = mode
      /\ UNCHANGED <<relMembers, exported, links, extraNodes, coords, selected, points>>
      /\ wayRefs' = wayRefs \cup Keeps(w)
      /\ counts' = [n \in NodeIds |->
                      counts[n] + (IF WayTopics(w) # {} THEN References({w}, n) ELSE 0)]
  BY DEF ScanWay
<1>2. Control /\ done \subseteq Kind("way") /\ file \in Files /\ AllRelations /\ WaysAre(done, {}) /\ NodesAre({}, {})
  BY <1>1 DEF SelectInv, Control, Progress
<1>3. Sorted' = Sorted /\ BlobsInOrder' = BlobsInOrder /\ Kind("way")' = Kind("way")
  BY <1>1, Static
<1>4. Control'
  BY <1>1, <1>2, <1>3 DEF Control, SortedPasses
<1>5. PICK W : W = done
  OBVIOUS
<1>6. /\ w \in RefKept <=> WayTopics(w) # {}
      /\ Keeps(w) = IF w \in RefKept \cup RefExtra THEN {<<w, RefTopics(w)>>} ELSE {}
  BY <1>2, TopicsAre
<1>7. wayRefs' = {<<v, RefTopics(v)>> : v \in (W \cup {w}) \cap (RefKept \cup RefExtra)}
  <2>1. wayRefs = {<<v, RefTopics(v)>> : v \in W \cap (RefKept \cup RefExtra)}
    BY <1>2, <1>5 DEF WaysAre
  <2>. QED BY <1>1, <1>6, <2>1
<1>8. counts' = [n \in NodeIds |-> References((W \cup {w}) \cap RefKept, n)]
  <2>1. counts = [n \in NodeIds |-> References(W \cap RefKept, n)]
    BY <1>2, <1>5 DEF WaysAre
  <2>2. /\ file \in Files /\ W \in SUBSET Kind("way") /\ {w} \in SUBSET Kind("way") /\ W \cap {w} = {}
    BY <1>1, <1>2, <1>5
  <2>3. \A n : References((W \cup {w}) \cap RefKept, n)
               = References(W \cap RefKept, n) + References({w} \cap RefKept, n)
    BY ONLY <2>2, WaysGrow
  <2>4. \A n : References({w} \cap RefKept, n) = IF WayTopics(w) # {} THEN References({w}, n) ELSE 0
    <3>1. CASE w \in RefKept
      <4>1. {w} \cap RefKept = {w}
        BY <3>1
      <4>. QED BY <1>6, <3>1, <4>1
    <3>2. CASE w \notin RefKept
      <4>1. {w} \cap RefKept = {}
        BY <3>2
      <4>. QED BY <1>6, <3>2, <4>1, ReferencesNone
    <3>. QED BY <3>1, <3>2
  <2>. QED BY <1>1, <2>1, <2>3, <2>4
<1>9. WaysAre(W \cup {w}, {})'
  <2>1. extraNodes' = UNION {Range(v.refs) : v \in {} \cap RefExtra}
    BY <1>1, <1>2 DEF WaysAre
  <2>. QED BY <1>1, <1>7, <1>8, <2>1, WaysBecome
<1>10. WaysAre(done, {})'
  BY <1>1, <1>5, <1>9 DEF WaysAre
<1>11. AllRelations' /\ NodesAre({}, {})'
  BY <1>1, <1>2, RelationsStay, NodesStay
<1>12. Progress'
  BY <1>1, <1>10, <1>11 DEF Progress
<1>. QED BY <1>4, <1>12 DEF SelectInv

LEMMA EndOfWaysStep == ASSUME SelectInv, EndOfWays PROVE SelectInv'
<1>1. /\ pass = "scan ways" /\ done = Kind("way") /\ pass' = "scan nodes" /\ done' = {}
      /\ file' = file /\ mode' = mode
      /\ UNCHANGED <<relMembers, exported, links, wayRefs, counts, coords, selected, points>>
      /\ extraNodes' = UNION {Range(k[1].refs) : k \in {v \in wayRefs : v[2] = {}}}
  BY DEF EndOfWays, routedVars
<1>2. Control /\ AllRelations /\ WaysAre(Kind("way"), {}) /\ NodesAre({}, {})
  BY <1>1 DEF SelectInv, Control, Progress
<1>3. Sorted' = Sorted /\ BlobsInOrder' = BlobsInOrder /\ Kind("way")' = Kind("way")
  BY <1>1, Static
<1>4. Control'
  BY <1>1, <1>2, <1>3 DEF Control, SortedPasses
<1>5. wayRefs = {<<w, RefTopics(w)>> : w \in Kind("way") \cap (RefKept \cup RefExtra)}
  BY <1>2 DEF WaysAre
<1>6. extraNodes' = UNION {Range(w.refs) : w \in Kind("way") \cap RefExtra}
  <2>1. \A w \in Kind("way") \cap (RefKept \cup RefExtra) : RefTopics(w) = {} <=> w \in RefExtra
    BY RefFacts DEF RefKept
  <2>2. ASSUME NEW k \in wayRefs, k[2] = {} PROVE k[1] \in Kind("way") \cap RefExtra
    <3>1. PICK w \in Kind("way") \cap (RefKept \cup RefExtra) : k = <<w, RefTopics(w)>>
      BY <1>5
    <3>2. k[1] = w /\ RefTopics(w) = {}
      BY <2>2, <3>1
    <3>. QED BY <2>1, <3>2
  <2>3. ASSUME NEW w \in Kind("way") \cap RefExtra PROVE \E k \in wayRefs : k[2] = {} /\ k[1] = w
    <3>1. <<w, RefTopics(w)>> \in wayRefs /\ RefTopics(w) = {}
      BY <1>5, <2>1
    <3>. QED BY <3>1
  <2>4. {k[1] : k \in {v \in wayRefs : v[2] = {}}} = Kind("way") \cap RefExtra
    BY <2>2, <2>3
  <2>. QED BY <1>1, <2>4
<1>7. PICK W : W = Kind("way")
  OBVIOUS
<1>8. WaysAre(W, W)'
  <2>1. /\ wayRefs' = {<<w, RefTopics(w)>> : w \in W \cap (RefKept \cup RefExtra)}
        /\ counts' = [n \in NodeIds |-> References(W \cap RefKept, n)]
    BY <1>1, <1>2, <1>7 DEF WaysAre
  <2>2. extraNodes' = UNION {Range(w.refs) : w \in W \cap RefExtra}
    BY <1>6, <1>7
  <2>. QED BY ONLY <1>1, <2>1, <2>2, WaysBecome
<1>9. AllWays'
  BY <1>3, <1>7, <1>8 DEF AllWays, WaysAre
<1>10. AllRelations' /\ NodesAre({}, {})'
  BY <1>1, <1>2, RelationsStay, NodesStay
<1>11. NodesAre(done, done)'
  BY <1>1, <1>10 DEF NodesAre
<1>12. Progress'
  BY <1>1, <1>9, <1>10, <1>11 DEF Progress
<1>. QED BY <1>4, <1>12 DEF SelectInv

\* Scan 2 classifies a referenced node whether tagged or not: an untagged one has no topics.
LEMMA ScanNodeStep == ASSUME SelectInv, NEW n \in Kind("node"), ScanNode(n) PROVE SelectInv'
<1>. DEFINE classified == mode.hasNodes /\ (Referenced(n) \/ Classified(n))
<1>1. /\ pass = "scan nodes" /\ pass' = "scan nodes" /\ done' = done \cup {n}
      /\ file' = file /\ mode' = mode
      /\ UNCHANGED <<relMembers, exported, links, wayRefs, counts, extraNodes>>
      /\ points' = points \cup (IF classified /\ n.topics # {} THEN {n.id} ELSE {})
      /\ selected' = selected \cup
           (IF classified /\ Referenced(n) /\ n.topics \cap NodeGraph # {} THEN {n.id} ELSE {})
      /\ coords' = coords \cup Coords(n)
  BY DEF ScanNode
<1>2. /\ Control /\ done \subseteq Kind("node") /\ file \in Files /\ mode \in Modes
      /\ AllRelations /\ AllWays /\ NodesAre(done, done)
  BY <1>1 DEF SelectInv, Control, Progress
<1>3. Sorted' = Sorted /\ BlobsInOrder' = BlobsInOrder /\ Kind("node")' = Kind("node")
  BY <1>1, Static
<1>4. Control'
  BY <1>1, <1>2, <1>3 DEF Control, SortedPasses
<1>5. PICK N : N = done
  OBVIOUS
<1>6. /\ RefUses(n) \in Nat /\ (Referenced(n) <=> RefUses(n) > 0)
      /\ Coords(n) = IF RefUses(n) > 0 \/ RefExtraOnly(n)
                     THEN {<<n.id, mode.needsGraph /\ RefUses(n) > 1>>} ELSE {}
      /\ n.topics # {} => (Classified(n) <=> n \in RefClassified)
  BY <1>2, NodesSeen
<1>7. n.topics # {} => (classified <=> n \in RefClassified)
  <2>1. Referenced(n) => ~RefExtraOnly(n)
    BY <1>6 DEF RefExtraOnly
  <2>2. n \in RefClassified <=> mode.hasNodes /\ ~RefExtraOnly(n)
    BY DEF RefClassified
  <2>. QED BY <1>6, <2>1, <2>2
<1>8. NodesAre(N, N)
  BY <1>2, <1>5
<1>9. coords' = {<<m.id, mode.needsGraph /\ RefUses(m) > 1>> :
                   m \in {x \in N \cup {n} : RefUses(x) > 0 \/ RefExtraOnly(x)}}
  <2>1. coords = {<<m.id, mode.needsGraph /\ RefUses(m) > 1>> :
                   m \in {x \in N : RefUses(x) > 0 \/ RefExtraOnly(x)}}
    BY <1>8 DEF NodesAre
  <2>. QED BY <1>1, <1>6, <2>1
<1>10. selected' = {m.id : m \in {x \in (N \cup {n}) \cap RefClassified :
                                    RefUses(x) > 0 /\ x.topics \cap NodeGraph # {}}}
  <2>1. selected = {m.id : m \in {x \in N \cap RefClassified :
                                    RefUses(x) > 0 /\ x.topics \cap NodeGraph # {}}}
    BY <1>8 DEF NodesAre
  <2>2. classified /\ Referenced(n) /\ n.topics \cap NodeGraph # {}
        <=> n \in RefClassified /\ RefUses(n) > 0 /\ n.topics \cap NodeGraph # {}
    BY <1>6, <1>7
  <2>. HIDE DEF classified
  <2>. QED BY <1>1, <2>1, <2>2
<1>11. points' = {m.id : m \in {x \in (N \cup {n}) \cap RefClassified : x.topics # {}}}
  <2>1. points = {m.id : m \in {x \in N \cap RefClassified : x.topics # {}}}
    BY <1>8 DEF NodesAre
  <2>. HIDE DEF classified
  <2>. QED BY <1>1, <1>7, <2>1
<1>12. NodesAre(N \cup {n}, N \cup {n})'
  BY <1>1, <1>9, <1>10, <1>11, NodesBecome
<1>13. NodesAre(done, done)'
  BY <1>1, <1>5, <1>12 DEF NodesAre
<1>14. AllRelations' /\ AllWays'
  BY <1>1, <1>2, RelationsStay, WaysStay
<1>15. Progress'
  BY <1>1, <1>13, <1>14 DEF Progress
<1>. QED BY <1>4, <1>15 DEF SelectInv

LEMMA EndOfNodesStep == ASSUME SelectInv, EndOfNodes PROVE SelectInv'
<1>1. /\ pass = "scan nodes" /\ done = Kind("node") /\ pass' = "done" /\ done' = done
      /\ file' = file /\ mode' = mode
      /\ UNCHANGED <<relMembers, exported, links, wayRefs, counts, extraNodes, coords, selected, points>>
  BY DEF EndOfNodes, routedVars, context
<1>2. Control /\ AllRelations /\ AllWays /\ NodesAre(Kind("node"), Kind("node"))
  BY <1>1 DEF SelectInv, Control, Progress
<1>3. Sorted' = Sorted /\ BlobsInOrder' = BlobsInOrder /\ Kind("node")' = Kind("node")
  BY <1>1, Static
<1>4. Control'
  BY <1>1, <1>2, <1>3 DEF Control, SortedPasses
<1>5. PICK N : N = Kind("node")
  OBVIOUS
<1>6. NodesAre(N, N)'
  BY <1>1, <1>2, <1>5, NodesBecome DEF NodesAre
<1>7. NodesAre(Kind("node"), Kind("node"))'
  BY <1>3, <1>5, <1>6 DEF NodesAre
<1>8. AllRelations' /\ AllWays'
  BY <1>1, <1>2, RelationsStay, WaysStay
<1>9. Progress'
  BY <1>1, <1>7, <1>8 DEF Progress
<1>. QED BY <1>4, <1>9 DEF SelectInv

-----------------------------------------------------------------------------
(* The theorems.                                                           *)

LEMMA StutterStep == ASSUME SelectInv, UNCHANGED vars PROVE SelectInv'
<1>1. /\ file' = file /\ mode' = mode /\ pass' = pass /\ at' = at /\ done' = done
      /\ UNCHANGED <<relMembers, exported, links, wayRefs, counts, extraNodes, coords, selected, points>>
  BY DEF vars, routedVars, context
<1>2. /\ Sorted' = Sorted /\ BlobsInOrder' = BlobsInOrder /\ RelStart' = RelStart /\ WayStart' = WayStart
      /\ \A k : Kind(k)' = Kind(k)
      /\ \A b, k : Of(b, k)' = Of(b, k)
  BY <1>1, Static
<1>3. Region' = Region /\ First' = First
  BY <1>1, <1>2 DEF Region, First
<1>4. ChunkBlobs' = ChunkBlobs /\ Folded' = Folded
  BY <1>1, <1>3 DEF ChunkBlobs, Folded
<1>5. Routed' = Routed /\ (Folded \cup done)' = Folded \cup done
  BY <1>1, <1>4 DEF Routed
<1>6. Control'
  BY <1>1, <1>2, <1>3, <1>4 DEF SelectInv, Control
<1>7. \A k : /\ InBlobs(Folded, k)' = InBlobs(Folded, k)
             /\ InBlobs(Folded \cup done, k)' = InBlobs(Folded \cup done, k)
             /\ InBlobs(Routed, k)' = InBlobs(Routed, k)
  BY <1>2, <1>4, <1>5 DEF InBlobs
<1>8. /\ AllRelations => AllRelations'
      /\ AllWays => AllWays'
      /\ WaysAre({}, {}) => WaysAre({}, {})'
      /\ NodesAre({}, {}) => NodesAre({}, {})'
  BY <1>1, RelationsStay, WaysStay, NodesStay
<1>9. ASSUME NEW R, NEW C, NEW L, RelationsAre(R, C, L) PROVE RelationsAre(R, C, L)'
  BY <1>1, <1>9, RelationsBecome DEF RelationsAre
<1>10. ASSUME NEW W, NEW X, WaysAre(W, X) PROVE WaysAre(W, X)'
  BY <1>1, <1>10, WaysBecome DEF WaysAre
<1>11. ASSUME NEW N, NEW P, NodesAre(N, P) PROVE NodesAre(N, P)'
  BY <1>1, <1>11, NodesBecome DEF NodesAre
<1>12. Progress'
  <2>1. CASE pass = "relations"
    <3>1. /\ RelationsAre(InBlobs(Folded, "relation"), InBlobs(Folded \cup done, "relation"), InBlobs(Routed, "relation"))
          /\ WaysAre({}, {}) /\ NodesAre({}, {})
      BY <2>1 DEF SelectInv, Progress
    <3>2. PICK R, C, L : /\ R = InBlobs(Folded, "relation") /\ C = InBlobs(Folded \cup done, "relation")
                         /\ L = InBlobs(Routed, "relation")
      OBVIOUS
    <3>3. RelationsAre(R, C, L)'
      BY <1>9, <3>1, <3>2
    <3>4. RelationsAre(InBlobs(Folded, "relation"), InBlobs(Folded \cup done, "relation"), InBlobs(Routed, "relation"))'
      BY <1>7, <3>2, <3>3 DEF RelationsAre
    <3>. QED BY <1>1, <1>8, <2>1, <3>1, <3>4 DEF Progress
  <2>2. CASE pass = "ways"
    <3>1. AllRelations /\ NodesAre({}, {}) /\ WaysAre(InBlobs(Folded, "way"), InBlobs(Folded, "way"))
      BY <2>2 DEF SelectInv, Progress
    <3>2. PICK W : W = InBlobs(Folded, "way")
      OBVIOUS
    <3>3. WaysAre(W, W)'
      BY <1>10, <3>1, <3>2
    <3>4. WaysAre(InBlobs(Folded, "way"), InBlobs(Folded, "way"))'
      BY <1>7, <3>2, <3>3 DEF WaysAre
    <3>. QED BY <1>1, <1>8, <2>2, <3>1, <3>4 DEF Progress
  <2>3. CASE pass = "nodes"
    <3>1. AllRelations /\ AllWays /\ NodesAre(InBlobs(Folded, "node"), InBlobs(Routed, "node"))
      BY <2>3 DEF SelectInv, Progress
    <3>2. PICK N, P : N = InBlobs(Folded, "node") /\ P = InBlobs(Routed, "node")
      OBVIOUS
    <3>3. NodesAre(N, P)'
      BY <1>11, <3>1, <3>2
    <3>4. NodesAre(InBlobs(Folded, "node"), InBlobs(Routed, "node"))'
      BY <1>7, <3>2, <3>3 DEF NodesAre
    <3>. QED BY <1>1, <1>8, <2>3, <3>1, <3>4 DEF Progress
  <2>4. CASE pass = "scan relations"
    <3>1. RelationsAre({}, {}, {}) /\ WaysAre({}, {}) /\ NodesAre({}, {})
      BY <2>4 DEF SelectInv, Progress
    <3>. QED BY <1>1, <1>8, <1>9, <2>4, <3>1 DEF Progress
  <2>5. CASE pass = "scan ways"
    <3>1. AllRelations /\ WaysAre(done, {}) /\ NodesAre({}, {})
      BY <2>5 DEF SelectInv, Progress
    <3>2. PICK W : W = done
      OBVIOUS
    <3>3. WaysAre(W, {})'
      BY <1>10, <3>1, <3>2
    <3>4. WaysAre(done, {})'
      BY <1>1, <3>2, <3>3 DEF WaysAre
    <3>. QED BY <1>1, <1>8, <2>5, <3>1, <3>4 DEF Progress
  <2>6. CASE pass = "scan nodes"
    <3>1. AllRelations /\ AllWays /\ NodesAre(done, done)
      BY <2>6 DEF SelectInv, Progress
    <3>2. PICK N : N = done
      OBVIOUS
    <3>3. NodesAre(N, N)'
      BY <1>11, <3>1, <3>2
    <3>4. NodesAre(done, done)'
      BY <1>1, <3>2, <3>3 DEF NodesAre
    <3>. QED BY <1>1, <1>8, <2>6, <3>1, <3>4 DEF Progress
  <2>7. CASE pass = "done"
    <3>1. AllRelations /\ AllWays /\ NodesAre(Kind("node"), Kind("node"))
      BY <2>7 DEF SelectInv, Progress
    <3>2. PICK N : N = Kind("node")
      OBVIOUS
    <3>3. NodesAre(N, N)'
      BY <1>11, <3>1, <3>2
    <3>4. NodesAre(Kind("node"), Kind("node"))'
      BY <1>2, <3>2, <3>3 DEF NodesAre
    <3>. QED BY <1>1, <1>8, <2>7, <3>1, <3>4 DEF Progress
  <2>. QED BY <2>1, <2>2, <2>3, <2>4, <2>5, <2>6, <2>7 DEF SelectInv, Control, SortedPasses
<1>. QED BY <1>6, <1>12 DEF SelectInv

\* The inductive invariant of the select phase: at every point the context is the reference's,
\* restricted to what the folds, the scans and (for what the closures route) the classified
\* blobs of the chunk have seen.
THEOREM SelectInvariant == HonestSpec => []SelectInv
<1>1. Init /\ (mode.sorted => BlobsInOrder) => SelectInv
  BY FirstState
<1>2. SelectInv /\ [Next]_vars => SelectInv'
  <2>. SUFFICES ASSUME SelectInv, [Next]_vars PROVE SelectInv'
    OBVIOUS
  <2>1. ASSUME NEW b \in DOMAIN file, Classify(b) PROVE SelectInv'
    BY <2>1, ClassifyStep
  <2>2. CASE FoldRelations
    BY <2>2, FoldRelationsStep
  <2>3. CASE FoldWays
    BY <2>3, FoldWaysStep
  <2>4. CASE FoldNodes
    BY <2>4, FoldNodesStep
  <2>5. CASE NextPass
    BY <2>5, NextPassStep
  <2>6. CASE ScanRelations
    BY <2>6, ScanRelationsStep
  <2>7. CASE EndOfWays
    BY <2>7, EndOfWaysStep
  <2>8. CASE EndOfNodes
    BY <2>8, EndOfNodesStep
  <2>9. ASSUME NEW w \in Kind("way"), ScanWay(w) PROVE SelectInv'
    BY <2>9, ScanWayStep
  <2>10. ASSUME NEW n \in Kind("node"), ScanNode(n) PROVE SelectInv'
    BY <2>10, ScanNodeStep
  <2>11. CASE UNCHANGED vars
    BY <2>11, StutterStep
  <2>. QED BY <2>1, <2>2, <2>3, <2>4, <2>5, <2>6, <2>7, <2>8, <2>9, <2>10, <2>11 DEF Next, Done
<1>. QED BY <1>1, <1>2, PTL DEF HonestSpec, HonestInit

\* Whatever the blob layout, the order in which the parallel closures run and the path taken,
\* a file selects the same SelectionContext: the one its relations, ways and nodes define.
THEOREM ContextIsDetermined == HonestSpec => []ContextIsReference
<1>1. SelectInv => ContextIsReference
  <2>. SUFFICES ASSUME SelectInv, pass = "done"
                PROVE  ContextIsReference
    BY DEF ContextIsReference
  <2>1. AllRelations /\ AllWays /\ NodesAre(Kind("node"), Kind("node"))
    BY DEF SelectInv, Progress
  <2>2. relMembers = RefRelations
    BY <2>1, RefFacts DEF AllRelations, RelationsAre
  <2>3. links = {r.id : r \in {p \in RefRelations : p.members # <<>>}}
    <3>1. {p \in Kind("relation") : p.topics # {} /\ p.members # <<>>}
          = {p \in RefRelations : p.members # <<>>}
      BY DEF RefRelations
    <3>. QED BY <2>1, <3>1 DEF AllRelations, RelationsAre, Linked
  <2>4. wayRefs = {<<w, RefTopics(w)>> : w \in RefKept \cup RefExtra}
    <3>1. Kind("way") \cap (RefKept \cup RefExtra) = RefKept \cup RefExtra
      BY RefFacts
    <3>. QED BY <2>1, <3>1 DEF AllWays, WaysAre
  <2>5. Kind("node") \cap RefClassified = RefClassified
    BY RefFacts
  <2>. QED BY <2>1, <2>2, <2>3, <2>4, <2>5 DEF ContextIsReference, NodesAre
<1>. QED BY <1>1, SelectInvariant, PTL

-----------------------------------------------------------------------------
(* Rows: what each element's are, and in which order they may come.        *)

\* The rows of an element, as the file says.
RowSet(e) ==
  CASE e.kind = "relation" -> {[of |-> e.id, topic |-> t, parents |-> <<>>] : t \in e.topics}
    [] e.kind = "way" ->
         {[of |-> e.id, topic |-> t, parents |-> ListedBy(RefParents(e, t))] : t \in RefTopics(e)}
    [] OTHER -> {[of |-> e.id, topic |-> t, parents |-> <<>>] :
                   t \in {u \in e.topics : e \in RefClassified}}

RowsOf(S) == UNION {RowSet(e) : e \in S}

\* Pairs of rows, and of ids, of which the first must not stand before the second.
BadRows ==
  {xy \in RowsOf(Elements) \X RowsOf(Elements) :
     xy[1] = xy[2] \/ (mode.ordered /\ Sorted /\ Precedes(xy[2].of, xy[1].of))}
BadIds == {xy \in Int \X Int : xy[1] = xy[2] \/ Precedes(xy[2], xy[1])}

Avoids(s, B) == \A i, j \in DOMAIN s : i < j => <<s[i], s[j]>> \notin B

\* s lists the rows of the elements S, and the ids of S, in an order the run allows.
ListsRows(s, S) == s \in Seq(RowsOf(S)) /\ Range(s) = RowsOf(S) /\ Avoids(s, BadRows)
ListsIds(s, S) == s \in Seq(Int) /\ Range(s) = {e.id : e \in S} /\ Avoids(s, BadIds)

\* The elements of the passes before this one, and all whose rows have been routed.
Earlier ==
  CASE pass \in {"relations", "scan relations"} -> {}
    [] pass \in {"ways", "scan ways"} -> Kind("relation")
    [] pass \in {"nodes", "scan nodes"} -> Kind("relation") \cup Kind("way")
    [] OTHER -> Kind("relation") \cup Kind("way") \cup Kind("node")
RoutedElements ==
  CASE pass \in SortedPasses -> Earlier \cup InBlobs(Routed, Decoded)
    [] pass = "done" -> Earlier
    [] OTHER -> Earlier \cup done

\* The relations and the ways that an ordered run has listed as kept.
ListedRelations ==
  IF pass = "relations" THEN InBlobs(Folded, "relation") \cap RefRelations ELSE RefRelations
ListedWays ==
  CASE pass = "relations" -> {}
    [] pass = "ways" -> InBlobs(Folded, "way") \cap RefKept
    [] OTHER -> RefKept

RowsListed == ListsRows(rows, RoutedElements)
IdsListed ==
  mode.ordered /\ Sorted => ListsIds(keptRels, ListedRelations) /\ ListsIds(keptWays, ListedWays)
ScansUnsorted == pass \in {"scan relations", "scan ways", "scan nodes"} => ~Sorted

RowInv == RowsListed /\ IdsListed /\ ScansUnsorted

-----------------------------------------------------------------------------
(* Sequences that avoid pairs in the wrong order.                          *)

\* One after the other.
LEMMA ConcatAvoids ==
  ASSUME NEW U, NEW B, NEW s \in Seq(U), NEW t \in Seq(U), Avoids(s, B), Avoids(t, B),
         \A x \in Range(s), y \in Range(t) : <<x, y>> \notin B
  PROVE  s \o t \in Seq(U) /\ Range(s \o t) = Range(s) \cup Range(t) /\ Avoids(s \o t, B)
<1>. DEFINE u == s \o t
<1>1. /\ Len(s) \in Nat /\ Len(t) \in Nat /\ Len(u) = Len(s) + Len(t) /\ u \in Seq(U)
      /\ DOMAIN s = 1..Len(s) /\ DOMAIN t = 1..Len(t) /\ DOMAIN u = 1..Len(u)
      /\ \A p \in 1..Len(s) : u[p] = s[p]
      /\ \A p \in 1..Len(u) : p > Len(s) => u[p] = t[p - Len(s)]
  BY ConcatProperties, LenProperties
<1>. HIDE DEF u
<1>2. \A p \in 1..Len(u) : \/ p \in DOMAIN s /\ u[p] = s[p] /\ p <= Len(s)
                           \/ p > Len(s) /\ p - Len(s) \in DOMAIN t /\ u[p] = t[p - Len(s)]
  BY <1>1
<1>3. \A p \in 1..Len(u) : u[p] \in Range(s) \cup Range(t)
  BY <1>2 DEF Range
<1>4. ASSUME NEW p \in DOMAIN s PROVE s[p] \in Range(u)
  BY <1>1 DEF Range
<1>5. ASSUME NEW p \in DOMAIN t PROVE t[p] \in Range(u)
  <2>1. /\ Len(s) + p \in DOMAIN u /\ Len(s) + p > Len(s)
        /\ (Len(s) + p) - Len(s) = p
    BY <1>1
  <2>2. u[Len(s) + p] = t[p]
    BY <1>1, <2>1
  <2>. QED BY <2>1, <2>2 DEF Range
<1>6. Range(u) = Range(s) \cup Range(t)
  <2>1. Range(u) = {u[p] : p \in 1..Len(u)} /\ Range(s) = {s[p] : p \in DOMAIN s} /\ Range(t) = {t[p] : p \in DOMAIN t}
    BY <1>1 DEF Range
  <2>. QED BY <1>3, <1>4, <1>5, <2>1
<1>7. ASSUME NEW p \in 1..Len(u), NEW q \in 1..Len(u), p < q PROVE <<u[p], u[q]>> \notin B
  <2>1. CASE q <= Len(s)
    <3>1. p \in DOMAIN s /\ q \in DOMAIN s /\ u[p] = s[p] /\ u[q] = s[q]
      BY <1>1, <1>7, <2>1
    <3>. QED BY <1>7, <3>1 DEF Avoids
  <2>2. CASE p <= Len(s) /\ q > Len(s)
    <3>1. p \in DOMAIN s /\ u[p] = s[p] /\ q - Len(s) \in DOMAIN t /\ u[q] = t[q - Len(s)]
      BY <1>1, <2>2
    <3>2. s[p] \in Range(s) /\ t[q - Len(s)] \in Range(t)
      BY <3>1 DEF Range
    <3>. QED BY <3>1, <3>2
  <2>3. CASE p > Len(s)
    <3>1. q > Len(s)
      BY <1>1, <1>7, <2>3
    <3>2. /\ p - Len(s) \in DOMAIN t /\ u[p] = t[p - Len(s)]
          /\ q - Len(s) \in DOMAIN t /\ u[q] = t[q - Len(s)]
          /\ p - Len(s) < q - Len(s)
      BY <1>1, <1>7, <2>3, <3>1
    <3>. QED BY <3>2 DEF Avoids
  <2>. QED BY <1>1, <2>1, <2>2, <2>3
<1>8. Avoids(u, B)
  BY <1>1, <1>7 DEF Avoids
<1>. QED BY <1>1, <1>6, <1>8 DEF u

\* Many, one after the other.
LEMMA FlattenAvoids ==
  ASSUME NEW U, NEW B, NEW q \in Seq(Seq(U)), \A i \in DOMAIN q : Avoids(q[i], B),
         \A i, j \in DOMAIN q : i < j => \A x \in Range(q[i]), y \in Range(q[j]) : <<x, y>> \notin B
  PROVE  /\ FlattenSeq(q) \in Seq(U) /\ Avoids(FlattenSeq(q), B)
         /\ Range(FlattenSeq(q)) = UNION {Range(q[i]) : i \in DOMAIN q}
<1>. DEFINE s == FlattenSeq(q)
<1>1. s \in Seq(U) /\ \E blk, off : Lists(s, q, Len(q), blk, off)
  BY FlattenLists
<1>2. PICK blk, off : Lists(s, q, Len(q), blk, off)
  BY <1>1
<1>3. /\ Len(q) \in Nat /\ DOMAIN q = 1..Len(q) /\ \A i \in DOMAIN q : q[i] \in Seq(U)
      /\ Len(s) \in Nat /\ DOMAIN s = 1..Len(s)
  BY <1>1, LenProperties, ElementOfSeq
<1>. HIDE DEF s
<1>4. \A p \in DOMAIN s : blk[p] \in DOMAIN q /\ off[p] \in DOMAIN q[blk[p]] /\ s[p] = q[blk[p]][off[p]]
  BY <1>2, <1>3 DEF Lists
<1>5. \A p, r \in DOMAIN s : p < r => blk[p] < blk[r] \/ (blk[p] = blk[r] /\ off[p] < off[r])
  BY <1>2, <1>3 DEF Lists
<1>6. \A i \in DOMAIN q : \A j \in DOMAIN q[i] : \E p \in DOMAIN s : blk[p] = i /\ off[p] = j
  <2>. SUFFICES ASSUME NEW i \in DOMAIN q, NEW j \in DOMAIN q[i]
                PROVE  \E p \in DOMAIN s : blk[p] = i /\ off[p] = j
    OBVIOUS
  <2>1. i \in 1..Len(q)
    BY <1>3
  <2>2. PICK p \in 1..Len(s) : blk[p] = i /\ off[p] = j
    BY <1>2, <2>1 DEF Lists
  <2>3. p \in DOMAIN s
    BY <1>3, <2>2
  <2>. QED BY <2>2, <2>3
<1>7. Avoids(s, B)
  <2>. SUFFICES ASSUME NEW p \in DOMAIN s, NEW r \in DOMAIN s, p < r PROVE <<s[p], s[r]>> \notin B
    BY DEF Avoids
  <2>1. /\ blk[p] \in DOMAIN q /\ off[p] \in DOMAIN q[blk[p]] /\ s[p] = q[blk[p]][off[p]]
        /\ blk[r] \in DOMAIN q /\ off[r] \in DOMAIN q[blk[r]] /\ s[r] = q[blk[r]][off[r]]
    BY <1>4
  <2>2. CASE blk[p] < blk[r]
    <3>1. s[p] \in Range(q[blk[p]]) /\ s[r] \in Range(q[blk[r]])
      BY <2>1 DEF Range
    <3>. QED BY <2>1, <2>2, <3>1
  <2>3. CASE blk[p] = blk[r] /\ off[p] < off[r]
    BY <2>1, <2>3 DEF Avoids
  <2>. QED BY <1>5, <2>2, <2>3
<1>8. Range(s) = UNION {Range(q[i]) : i \in DOMAIN q}
  <2>1. ASSUME NEW p \in DOMAIN s PROVE \E i \in DOMAIN q : s[p] \in Range(q[i])
    BY <1>4 DEF Range
  <2>2. ASSUME NEW i \in DOMAIN q, NEW x \in Range(q[i]) PROVE \E p \in DOMAIN s : s[p] = x
    <3>1. PICK j \in DOMAIN q[i] : x = q[i][j]
      BY DEF Range
    <3>2. PICK p \in DOMAIN s : blk[p] = i /\ off[p] = j
      BY <1>6
    <3>. QED BY <1>4, <3>1, <3>2
  <2>3. Range(s) = {s[p] : p \in DOMAIN s}
    BY DEF Range
  <2>. QED BY <2>1, <2>2, <2>3
<1>. QED BY <1>1, <1>7, <1>8 DEF s

-----------------------------------------------------------------------------
(* Elements that may come before others.                                   *)

\* The rows of S may stand before those of T.
Fits(S, T) ==
  \A e \in S, f \in T : e # f /\ (mode.ordered /\ Sorted => ~Precedes(f.id, e.id))

\* Earlier in the file, or of another kind.
LEMMA NotPreceding ==
  ASSUME file \in Files, NEW b \in DOMAIN file, NEW c \in DOMAIN file,
         NEW i \in DOMAIN file[b], NEW j \in DOMAIN file[c],
         file[b][i].kind # file[c][j].kind \/ b < c \/ (b = c /\ i < j)
  PROVE  ~Precedes(file[c][j].id, file[b][i].id)
<1>. SUFFICES ASSUME Precedes(file[c][j].id, file[b][i].id) PROVE FALSE
  OBVIOUS
<1>1. PICK d \in DOMAIN file, a \in DOMAIN file : \E l \in DOMAIN file[d], k \in DOMAIN file[a] :
        /\ file[d][l].id = file[c][j].id /\ file[a][k].id = file[b][i].id
        /\ file[d][l].kind = file[a][k].kind
        /\ d < a \/ (d = a /\ l < k)
  BY DEF Precedes
<1>2. PICK l \in DOMAIN file[d], k \in DOMAIN file[a] :
        /\ file[d][l].id = file[c][j].id /\ file[a][k].id = file[b][i].id
        /\ file[d][l].kind = file[a][k].kind
        /\ d < a \/ (d = a /\ l < k)
  BY <1>1
<1>3. d = c /\ l = j /\ a = b /\ k = i
  BY <1>2, SelectAssumption
<1>4. b \in Int /\ c \in Int /\ i \in Int /\ j \in Int
  BY FileFacts
<1>. QED BY <1>2, <1>3, <1>4

LEMMA KindsFit ==
  ASSUME file \in Files, NEW k, NEW l, k # l, NEW S \in SUBSET Kind(k), NEW T \in SUBSET Kind(l)
  PROVE  Fits(S, T)
<1>. SUFFICES ASSUME NEW e \in S, NEW f \in T PROVE e # f /\ ~Precedes(f.id, e.id)
  BY DEF Fits
<1>1. PICK b \in DOMAIN file : \E i \in DOMAIN file[b] : e = file[b][i]
  BY ElementPlaces DEF Kind
<1>2. PICK i \in DOMAIN file[b] : e = file[b][i]
  BY <1>1
<1>3. PICK c \in DOMAIN file : \E j \in DOMAIN file[c] : f = file[c][j]
  BY ElementPlaces DEF Kind
<1>4. PICK j \in DOMAIN file[c] : f = file[c][j]
  BY <1>3
<1>5. e.kind = k /\ f.kind = l
  BY DEF Kind
<1>. QED BY <1>2, <1>4, <1>5, NotPreceding

LEMMA BlobsFit ==
  ASSUME file \in Files, NEW A \in SUBSET (DOMAIN file), NEW B \in SUBSET (DOMAIN file), NEW k,
         \A a \in A, b \in B : a < b
  PROVE  Fits(InBlobs(A, k), InBlobs(B, k))
<1>. SUFFICES ASSUME NEW e \in InBlobs(A, k), NEW f \in InBlobs(B, k) PROVE e # f /\ ~Precedes(f.id, e.id)
  BY DEF Fits
<1>1. PICK b \in A : \E i \in DOMAIN file[b] : e = file[b][i]
  BY InBlobsFacts
<1>2. PICK i \in DOMAIN file[b] : e = file[b][i]
  BY <1>1
<1>3. PICK c \in B : \E j \in DOMAIN file[c] : f = file[c][j]
  BY InBlobsFacts
<1>4. PICK j \in DOMAIN file[c] : f = file[c][j]
  BY <1>3
<1>5. b < c /\ b \in DOMAIN file /\ c \in DOMAIN file /\ b \in Int /\ c \in Int
  BY FileFacts
<1>6. ~Precedes(f.id, e.id)
  BY <1>2, <1>4, <1>5, NotPreceding
<1>7. e # f
  <2>. SUFFICES ASSUME e = f PROVE FALSE
    OBVIOUS
  <2>1. file[b][i].id = file[c][j].id
    BY <1>2, <1>4
  <2>2. b = c
    BY <1>5, <2>1, SelectAssumption
  <2>. QED BY <1>5, <2>2
<1>. QED BY <1>6, <1>7

LEMMA DisjointFit ==
  ASSUME ~(mode.ordered /\ Sorted), NEW S, NEW T, S \cap T = {}
  PROVE  Fits(S, T)
BY DEF Fits

\* Rows belong to one element; those of elements that fit may follow each other.
LEMMA RowsFit ==
  ASSUME file \in Files, NEW S \in SUBSET Elements, NEW T \in SUBSET Elements, Fits(S, T),
         NEW x \in RowsOf(S), NEW y \in RowsOf(T)
  PROVE  <<x, y>> \notin BadRows
<1>1. PICK e \in S : x \in RowSet(e)
  BY DEF RowsOf
<1>2. PICK f \in T : y \in RowSet(f)
  BY DEF RowsOf
<1>3. x.of = e.id /\ y.of = f.id
  BY <1>1, <1>2 DEF RowSet
<1>4. e # f /\ e.id # f.id /\ (mode.ordered /\ Sorted => ~Precedes(f.id, e.id))
  BY ElementFacts DEF Fits
<1>5. x # y
  BY <1>3, <1>4
<1>. QED BY <1>3, <1>4, <1>5 DEF BadRows

LEMMA IdsFit ==
  ASSUME file \in Files, mode.ordered, Sorted, NEW S \in SUBSET Elements, NEW T \in SUBSET Elements, Fits(S, T),
         NEW x \in {e.id : e \in S}, NEW y \in {e.id : e \in T}
  PROVE  <<x, y>> \notin BadIds
<1>1. PICK e \in S : x = e.id
  OBVIOUS
<1>2. PICK f \in T : y = f.id
  OBVIOUS
<1>3. e # f /\ e.id # f.id /\ ~Precedes(f.id, e.id)
  BY ElementFacts DEF Fits
<1>. QED BY <1>1, <1>2, <1>3 DEF BadIds

LEMMA RowsOfUnion == \A S, T : RowsOf(S \cup T) = RowsOf(S) \cup RowsOf(T)
BY DEF RowsOf

LEMMA RowsOfMore == \A S, T : S \subseteq T => RowsOf(S) \subseteq RowsOf(T)
BY DEF RowsOf

-----------------------------------------------------------------------------
(* The rows of one element, of a blob and of a chunk.                      *)

LEMMA NothingListed == ListsRows(<<>>, {}) /\ ListsIds(<<>>, {})
<1>1. <<>> \in Seq(RowsOf({})) /\ <<>> \in Seq(Int) /\ DOMAIN <<>> = {}
  BY EmptySeq
<1>. QED BY <1>1 DEF ListsRows, ListsIds, Avoids, Range, RowsOf

LEMMA RowsConcat ==
  ASSUME file \in Files, NEW S \in SUBSET Elements, NEW T \in SUBSET Elements, Fits(S, T),
         NEW s, NEW t, ListsRows(s, S), ListsRows(t, T)
  PROVE  ListsRows(s \o t, S \cup T)
<1>. DEFINE U == RowsOf(S \cup T)
<1>1. U = RowsOf(S) \cup RowsOf(T)
  BY RowsOfUnion
<1>2. s \in Seq(U) /\ t \in Seq(U)
  <2>1. /\ s \in Seq(RowsOf(S)) /\ t \in Seq(RowsOf(T)) /\ RowsOf(S) \subseteq U /\ RowsOf(T) \subseteq U
    BY <1>1 DEF ListsRows
  <2>. HIDE DEF U
  <2>. QED BY <2>1
<1>3. Avoids(s, BadRows) /\ Avoids(t, BadRows)
  BY DEF ListsRows
<1>4. \A x \in Range(s), y \in Range(t) : <<x, y>> \notin BadRows
  BY RowsFit DEF ListsRows
<1>5. s \o t \in Seq(U) /\ Range(s \o t) = Range(s) \cup Range(t) /\ Avoids(s \o t, BadRows)
  <2>. HIDE DEF U
  <2>. QED BY <1>2, <1>3, <1>4, ConcatAvoids
<1>. QED BY <1>1, <1>5 DEF ListsRows

LEMMA IdsConcat ==
  ASSUME file \in Files, mode.ordered, Sorted,
         NEW S \in SUBSET Elements, NEW T \in SUBSET Elements, Fits(S, T),
         NEW s, NEW t, ListsIds(s, S), ListsIds(t, T)
  PROVE  ListsIds(s \o t, S \cup T)
<1>1. /\ s \in Seq(Int) /\ t \in Seq(Int) /\ Avoids(s, BadIds) /\ Avoids(t, BadIds)
      /\ Range(s) = {e.id : e \in S} /\ Range(t) = {e.id : e \in T}
  BY DEF ListsIds
<1>2. \A x \in Range(s), y \in Range(t) : <<x, y>> \notin BadIds
  BY <1>1, IdsFit
<1>3. s \o t \in Seq(Int) /\ Range(s \o t) = Range(s) \cup Range(t) /\ Avoids(s \o t, BadIds)
  BY <1>1, <1>2, ConcatAvoids
<1>4. {e.id : e \in S \cup T} = {e.id : e \in S} \cup {e.id : e \in T}
  OBVIOUS
<1>. QED BY <1>1, <1>3, <1>4 DEF ListsIds

\* Lists of the rows of the sets of G, one after the other.
LEMMA RowsFlatten ==
  ASSUME file \in Files, NEW n \in Nat, NEW q, q = [i \in 1..n |-> q[i]],
         NEW G \in [1..n -> SUBSET Elements], \A i \in 1..n : ListsRows(q[i], G[i]),
         \A i, j \in 1..n : i < j => Fits(G[i], G[j]),
         NEW V, \A e : e \in V <=> \E i \in 1..n : e \in G[i]
  PROVE  ListsRows(FlattenSeq(q), V)
<1>. DEFINE U == RowsOf(V)
<1>1. \A i \in 1..n : G[i] \subseteq V /\ RowsOf(G[i]) \subseteq U
  BY RowsOfMore
<1>2. \A i \in 1..n : q[i] \in Seq(U) /\ Range(q[i]) = RowsOf(G[i]) /\ Avoids(q[i], BadRows)
  <2>. HIDE DEF U
  <2>. QED BY <1>1 DEF ListsRows
<1>3. q \in Seq(Seq(U)) /\ DOMAIN q = 1..n
  <2>1. q \in [1..n -> Seq(U)]
    BY <1>2
  <2>. HIDE DEF U
  <2>. QED BY <2>1, SeqDef
<1>4. \A i, j \in 1..n : i < j => \A x \in Range(q[i]), y \in Range(q[j]) : <<x, y>> \notin BadRows
  <2>. SUFFICES ASSUME NEW i \in 1..n, NEW j \in 1..n, i < j, NEW x \in Range(q[i]), NEW y \in Range(q[j])
                PROVE  <<x, y>> \notin BadRows
    OBVIOUS
  <2>1. /\ G[i] \in SUBSET Elements /\ G[j] \in SUBSET Elements /\ Fits(G[i], G[j])
        /\ x \in RowsOf(G[i]) /\ y \in RowsOf(G[j])
    BY <1>2
  <2>. QED BY <2>1, RowsFit
<1>5. /\ FlattenSeq(q) \in Seq(U) /\ Avoids(FlattenSeq(q), BadRows)
      /\ Range(FlattenSeq(q)) = UNION {Range(q[i]) : i \in DOMAIN q}
  <2>. HIDE DEF U
  <2>. QED BY <1>2, <1>3, <1>4, FlattenAvoids
<1>6. UNION {Range(q[i]) : i \in DOMAIN q} = U
  <2>1. UNION {Range(q[i]) : i \in 1..n} = UNION {RowsOf(G[i]) : i \in 1..n}
    BY <1>2
  <2>2. \A y : y \in U <=> \E i \in 1..n : y \in RowsOf(G[i])
    BY DEF RowsOf
  <2>. QED BY <1>3, <2>1, <2>2
<1>. QED BY <1>5, <1>6 DEF ListsRows

\* Lists of ids likewise.
LEMMA IdsFlatten ==
  ASSUME file \in Files, mode.ordered, Sorted, NEW n \in Nat, NEW q, q = [i \in 1..n |-> q[i]],
         NEW G \in [1..n -> SUBSET Elements], \A i \in 1..n : ListsIds(q[i], G[i]),
         \A i, j \in 1..n : i < j => Fits(G[i], G[j]),
         NEW V, \A e : e \in V <=> \E i \in 1..n : e \in G[i]
  PROVE  ListsIds(FlattenSeq(q), V)
<1>2. \A i \in 1..n : q[i] \in Seq(Int) /\ Range(q[i]) = {e.id : e \in G[i]} /\ Avoids(q[i], BadIds)
  BY DEF ListsIds
<1>3. q \in Seq(Seq(Int)) /\ DOMAIN q = 1..n
  <2>1. q \in [1..n -> Seq(Int)]
    BY <1>2
  <2>. QED BY <2>1, SeqDef
<1>4. \A i, j \in 1..n : i < j => \A x \in Range(q[i]), y \in Range(q[j]) : <<x, y>> \notin BadIds
  <2>. SUFFICES ASSUME NEW i \in 1..n, NEW j \in 1..n, i < j, NEW x \in Range(q[i]), NEW y \in Range(q[j])
                PROVE  <<x, y>> \notin BadIds
    OBVIOUS
  <2>1. /\ G[i] \in SUBSET Elements /\ G[j] \in SUBSET Elements /\ Fits(G[i], G[j])
        /\ x \in {e.id : e \in G[i]} /\ y \in {e.id : e \in G[j]}
    BY <1>2
  <2>. QED BY <2>1, IdsFit
<1>5. /\ FlattenSeq(q) \in Seq(Int) /\ Avoids(FlattenSeq(q), BadIds)
      /\ Range(FlattenSeq(q)) = UNION {Range(q[i]) : i \in DOMAIN q}
  BY <1>2, <1>3, <1>4, FlattenAvoids
<1>6. UNION {Range(q[i]) : i \in DOMAIN q} = {e.id : e \in V}
  <2>1. UNION {Range(q[i]) : i \in 1..n} = UNION {{e.id : e \in G[i]} : i \in 1..n}
    BY <1>2
  <2>2. UNION {{e.id : e \in G[i]} : i \in 1..n} = {e.id : e \in V}
    OBVIOUS
  <2>. QED BY <1>3, <2>1, <2>2
<1>. QED BY <1>5, <1>6 DEF ListsIds

\* One row for each topic, in the order of the topics.
LEMMA RowsOfOne ==
  ASSUME file \in Files, NEW e \in Elements, NEW T, T \subseteq Int, IsFiniteSet(T),
         NEW f, \A t \in T : f[t].of = e.id /\ f[t].topic = t, RowSet(e) = {f[t] : t \in T},
         NEW s, s = [i \in 1..Cardinality(T) |-> f[Ascending(T)[i]]]
  PROVE  ListsRows(s, {e})
<1>. DEFINE n == Cardinality(T)
            A == Ascending(T)
<1>1. /\ n \in Nat /\ A \in [1..n -> T] /\ \A t \in T : \E i \in 1..n : A[i] = t
      /\ \A i, j \in 1..n : A[i] = A[j] => i = j
  BY AscendingFacts
<1>. HIDE DEF n, A
<1>2. RowsOf({e}) = {f[t] : t \in T}
  BY DEF RowsOf
<1>3. \A i \in 1..n : s[i] = f[A[i]] /\ A[i] \in T
  BY <1>1 DEF n, A
<1>4. s \in Seq(RowsOf({e})) /\ DOMAIN s = 1..n
  <2>1. s = [i \in 1..n |-> f[A[i]]]
    BY DEF n, A
  <2>2. DOMAIN s = 1..n
    BY ONLY <2>1
  <2>3. \A i \in 1..n : s[i] \in RowsOf({e})
    BY <1>2, <1>3
  <2>4. s \in [1..n -> RowsOf({e})]
    BY ONLY <2>1, <2>2, <2>3
  <2>5. n \in Nat
    BY <1>1
  <2>. QED BY ONLY <2>2, <2>4, <2>5, SeqDef
<1>5. Range(s) = RowsOf({e})
  <2>1. ASSUME NEW i \in 1..n PROVE s[i] \in RowsOf({e})
    BY <1>2, <1>3
  <2>2. ASSUME NEW x \in RowsOf({e}) PROVE \E i \in 1..n : s[i] = x
    <3>1. PICK t \in T : x = f[t]
      BY <1>2
    <3>2. PICK i \in 1..n : A[i] = t
      BY <1>1
    <3>. QED BY <1>3, <3>1, <3>2
  <2>3. Range(s) = {s[i] : i \in 1..n}
    BY ONLY <1>4 DEF Range
  <2>. QED BY ONLY <2>1, <2>2, <2>3
<1>6. ~Precedes(e.id, e.id)
  <2>. SUFFICES ASSUME Precedes(e.id, e.id) PROVE FALSE
    OBVIOUS
  <2>1. PICK b \in DOMAIN file, c \in DOMAIN file : \E i \in DOMAIN file[b], j \in DOMAIN file[c] :
          file[b][i].id = e.id /\ file[c][j].id = e.id /\ (b < c \/ (b = c /\ i < j))
    BY DEF Precedes
  <2>2. PICK i \in DOMAIN file[b], j \in DOMAIN file[c] :
          file[b][i].id = e.id /\ file[c][j].id = e.id /\ (b < c \/ (b = c /\ i < j))
    BY <2>1
  <2>3. b = c /\ i = j
    BY <2>2, SelectAssumption
  <2>4. b \in Int /\ i \in Int
    BY FileFacts
  <2>. QED BY <2>2, <2>3, <2>4
<1>7. Avoids(s, BadRows)
  <2>. SUFFICES ASSUME NEW i \in 1..n, NEW j \in 1..n, i < j PROVE <<s[i], s[j]>> \notin BadRows
    BY <1>4 DEF Avoids
  <2>1. A[i] # A[j]
    BY <1>1
  <2>b. A[i] \in T /\ A[j] \in T /\ s[i] = f[A[i]] /\ s[j] = f[A[j]]
    BY ONLY <1>3, i \in 1..n, j \in 1..n
  <2>c. \A t \in T : f[t].of = e.id /\ f[t].topic = t
    OBVIOUS
  <2>a. s[i].of = e.id /\ s[i].topic = A[i] /\ s[j].of = e.id /\ s[j].topic = A[j]
    BY ONLY <2>b, <2>c
  <2>2. s[i] # s[j] /\ s[i].of = e.id /\ s[j].of = e.id
    BY ONLY <2>a, <2>1
  <2>. QED BY <1>6, <2>2 DEF BadRows
<1>. QED BY <1>4, <1>5, <1>7 DEF ListsRows

\* A relation, or a node that is classified or has no topics.
LEMMA PlainRowsList ==
  ASSUME file \in Files, NEW e \in Elements,
         e.kind = "relation" \/ (e.kind = "node" /\ (e \in RefClassified \/ e.topics = {}))
  PROVE  ListsRows(PlainRows(e), {e})
<1>. DEFINE T == e.topics
            f == [t \in T |-> [of |-> e.id, topic |-> t, parents |-> <<>>]]
            s == PlainRows(e)
<1>1. IsFiniteSet(T) /\ T \subseteq Int
  BY ElementFacts DEF Kind, NodeElements, RelationElements
<1>2. s = [i \in 1..Cardinality(T) |-> [of |-> e.id, topic |-> Ascending(T)[i], parents |-> <<>>]]
  BY DEF PlainRows, ElementRows, Row
<1>3. Ascending(T) \in [1..Cardinality(T) -> T]
  BY <1>1, AscendingFacts
<1>4. s = [i \in 1..Cardinality(T) |-> f[Ascending(T)[i]]]
  BY <1>2, <1>3
<1>5. RowSet(e) = {f[t] : t \in T}
  BY DEF RowSet
<1>6. \A t \in T : f[t].of = e.id /\ f[t].topic = t
  OBVIOUS
<1>. HIDE DEF T, f, s
<1>7. ListsRows(s, {e})
  BY <1>1, <1>4, <1>5, <1>6, RowsOfOne
<1>. QED BY <1>7 DEF s

\* A way, once every relation is indexed.
LEMMA WayRowsList ==
  ASSUME file \in Files, AllRelations, NEW w \in Kind("way")
  PROVE  ListsRows(WayRows(w), {w})
<1>. DEFINE T == RefTopics(w)
            f == [t \in T |-> [of |-> w.id, topic |-> t, parents |-> ListedBy(RefParents(w, t))]]
            s == WayRows(w)
<1>1. IsFiniteSet(T) /\ T \subseteq Int
  <2>1. /\ IsFiniteSet(w.topics) /\ IsFiniteSet(w.viaParent)
        /\ w.topics \subseteq Int /\ w.viaParent \subseteq Int /\ w \in Elements
    BY ElementFacts DEF Kind, WayElements
  <2>2. T \subseteq w.topics \cup w.viaParent
    BY DEF RefTopics
  <2>3. IsFiniteSet(w.topics \cup w.viaParent)
    BY <2>1, FS_Union
  <2>. QED BY <2>1, <2>2, <2>3, FS_Subset
<1>2. WayTopics(w) = T
  BY TopicsAre
<1>3. s = [i \in 1..Cardinality(T) |->
             [of |-> w.id, topic |-> Ascending(T)[i], parents |-> Parents(w, Ascending(T)[i])]]
  BY <1>2 DEF WayRows, ElementRows, Row
<1>4. Ascending(T) \in [1..Cardinality(T) -> T]
  BY <1>1, AscendingFacts
<1>5. \A t : Parents(w, t) = ListedBy(RefParents(w, t))
  BY ParentsAre
<1>6. s = [i \in 1..Cardinality(T) |-> f[Ascending(T)[i]]]
  BY <1>3, <1>4, <1>5
<1>7. RowSet(w) = {f[t] : t \in T}
  BY DEF RowSet, Kind
<1>8. \A t \in T : f[t].of = w.id /\ f[t].topic = t
  OBVIOUS
<1>9. w \in Elements
  BY DEF Kind
<1>. HIDE DEF T, f, s
<1>10. ListsRows(s, {w})
  BY <1>1, <1>6, <1>7, <1>8, <1>9, RowsOfOne
<1>. QED BY <1>10 DEF s

\* A node, once every way is indexed.
LEMMA NodeRowsList ==
  ASSUME file \in Files, mode \in Modes, AllWays, NEW n \in Kind("node")
  PROVE  /\ ListsRows(NodeRows(n), {n})
         /\ \A c \in BOOLEAN : (n.topics # {} => (c <=> n \in RefClassified))
              => ListsRows(IF c THEN PlainRows(n) ELSE <<>>, {n})
<1>1. n \in Elements /\ n.kind = "node"
  BY DEF Kind
<1>2. ASSUME NEW c \in BOOLEAN, n.topics # {} => (c <=> n \in RefClassified)
      PROVE  ListsRows(IF c THEN PlainRows(n) ELSE <<>>, {n})
  <2>1. CASE c
    <3>1. n \in RefClassified \/ n.topics = {}
      BY <1>2, <2>1
    <3>. QED BY <1>1, <2>1, <3>1, PlainRowsList
  <2>2. CASE ~c
    <3>1. RowSet(n) = {}
      BY <1>1, <1>2, <2>2 DEF RowSet
    <3>2. RowsOf({n}) = RowsOf({})
      BY <3>1 DEF RowsOf
    <3>. QED BY <2>2, <3>2, NothingListed DEF ListsRows
  <2>. QED BY <2>1, <2>2
<1>3. n.topics # {} => (Classified(n) <=> n \in RefClassified)
  BY NodesSeen
<1>4. ListsRows(NodeRows(n), {n})
  <2>1. PICK c \in BOOLEAN : c <=> Classified(n)
    OBVIOUS
  <2>2. ListsRows(IF c THEN PlainRows(n) ELSE <<>>, {n})
    BY <1>2, <1>3, <2>1
  <2>3. NodeRows(n) = IF c THEN PlainRows(n) ELSE <<>>
    BY <2>1 DEF NodeRows
  <2>. QED BY <2>2, <2>3
<1>. QED BY <1>2, <1>4

\* Elements of one blob at ascending positions.
LEMMA ItemsFit ==
  ASSUME file \in Files, NEW b \in DOMAIN file, NEW I \in SUBSET (DOMAIN file[b]),
         NEW es, es = ItemsAt(file[b], I)
  PROVE  /\ Cardinality(I) \in Nat /\ DOMAIN es = 1..Cardinality(I)
         /\ \A i \in DOMAIN es : es[i] \in Elements
         /\ \A i, j \in DOMAIN es : i < j => Fits({es[i]}, {es[j]})
         /\ \A i \in DOMAIN es : \E j \in I : es[i] = file[b][j]
         /\ \A j \in I : \E i \in DOMAIN es : es[i] = file[b][j]
<1>. DEFINE n == Cardinality(I)
            A == Ascending(I)
<1>1. file[b] \in Seq(FileElement)
  BY FileFacts
<1>2. /\ IsFiniteSet(I) /\ I \subseteq Int /\ n \in Nat /\ es \in Seq(FileElement) /\ Len(es) = n
      /\ \A k \in 1..n : es[k] = file[b][A[k]]
  BY <1>1, ItemsAtFacts
<1>3. /\ A \in [1..n -> I] /\ \A i \in I : \E k \in 1..n : A[k] = i
      /\ \A i, j \in 1..n : i < j => A[i] < A[j]
  BY <1>2, AscendingFacts
<1>4. DOMAIN es = 1..n
  BY <1>2, LenProperties
<1>. HIDE DEF n, A
<1>5. \A i \in 1..n : A[i] \in DOMAIN file[b] /\ es[i] = file[b][A[i]]
  BY <1>2, <1>3
<1>6. \A i \in 1..n : es[i] \in Elements
  BY <1>5, ElementPlaces
<1>7. ASSUME NEW i \in 1..n, NEW j \in 1..n, i < j PROVE Fits({es[i]}, {es[j]})
  <2>1. A[i] < A[j] /\ A[i] \in DOMAIN file[b] /\ A[j] \in DOMAIN file[b] /\ A[i] \in Int /\ A[j] \in Int
    BY <1>2, <1>3, <1>5, <1>7
  <2>2. ~Precedes(file[b][A[j]].id, file[b][A[i]].id)
    BY <2>1, NotPreceding
  <2>3. file[b][A[i]] # file[b][A[j]]
    <3>. SUFFICES ASSUME file[b][A[i]].id = file[b][A[j]].id PROVE FALSE
      OBVIOUS
    <3>1. A[i] = A[j]
      BY <2>1, SelectAssumption
    <3>. QED BY ONLY <2>1, <3>1
  <2>. QED BY <1>5, <2>2, <2>3 DEF Fits
<1>8. ASSUME NEW i \in I PROVE \E k \in 1..n : es[k] = file[b][i]
  BY <1>3, <1>5
<1>9. ASSUME NEW k \in 1..n PROVE \E i \in I : es[k] = file[b][i]
  BY <1>3, <1>5
<1>11. n \in Nat
  BY <1>2
<1>12. \A j \in I : \E i \in DOMAIN es : es[i] = file[b][j]
  BY ONLY <1>4, <1>8
<1>10. \A i \in DOMAIN es : \E j \in I : es[i] = file[b][j]
  BY ONLY <1>4, <1>9
<1>13. \A i, j \in DOMAIN es : i < j => Fits({es[i]}, {es[j]})
  BY ONLY <1>4, <1>7
<1>. QED BY <1>4, <1>6, <1>10, <1>11, <1>12, <1>13 DEF n

LEMMA OfFit ==
  ASSUME file \in Files, NEW b \in DOMAIN file, NEW k, NEW es, es = Of(b, k)
  PROVE  /\ \E n \in Nat : DOMAIN es = 1..n
         /\ \A i \in DOMAIN es : es[i] \in Kind(k)
         /\ \A i, j \in DOMAIN es : i < j => Fits({es[i]}, {es[j]})
         /\ \A i \in DOMAIN es : es[i] \in InBlobs({b}, k)
         /\ \A e \in InBlobs({b}, k) : \E i \in DOMAIN es : es[i] = e
<1>0. b \in DOMAIN file
  OBVIOUS
<1>1. PICK I : I = {i \in DOMAIN file[b] : file[b][i].kind = k}
  OBVIOUS
<1>2. I \in SUBSET (DOMAIN file[b]) /\ es = ItemsAt(file[b], I)
  BY <1>1 DEF Of
<1>3. /\ Cardinality(I) \in Nat /\ DOMAIN es = 1..Cardinality(I)
      /\ \A i \in DOMAIN es : es[i] \in Elements
      /\ \A i, j \in DOMAIN es : i < j => Fits({es[i]}, {es[j]})
      /\ \A i \in DOMAIN es : \E j \in I : es[i] = file[b][j]
      /\ \A j \in I : \E i \in DOMAIN es : es[i] = file[b][j]
  <2>0. file \in Files
    OBVIOUS
  <2>1. Cardinality(I) \in Nat /\ DOMAIN es = 1..Cardinality(I)
    BY ONLY <2>0, <1>0, <1>2, ItemsFit
  <2>2. \A i \in DOMAIN es : es[i] \in Elements
    BY ONLY <2>0, <1>0, <1>2, ItemsFit
  <2>3. \A i, j \in DOMAIN es : i < j => Fits({es[i]}, {es[j]})
    BY ONLY <2>0, <1>0, <1>2, ItemsFit
  <2>4. \A i \in DOMAIN es : \E j \in I : es[i] = file[b][j]
    BY ONLY <2>0, <1>0, <1>2, ItemsFit
  <2>5. \A j \in I : \E i \in DOMAIN es : es[i] = file[b][j]
    BY ONLY <2>0, <1>0, <1>2, ItemsFit
  <2>. QED BY <2>1, <2>2, <2>3, <2>4, <2>5
<1>4. Range(Of(b, k)) = {e \in Range(file[b]) : e.kind = k}
  BY OfFacts
<1>5. \A i \in DOMAIN es : es[i].kind = k
  <2>. SUFFICES ASSUME NEW i \in DOMAIN es PROVE es[i].kind = k
    OBVIOUS
  <2>1. PICK j \in I : es[i] = file[b][j]
    BY <1>3
  <2>. QED BY <1>1, <2>1
<1>6. \A i \in DOMAIN es : es[i] \in Kind(k)
  BY <1>3, <1>5 DEF Kind
<1>7. \A e : e \in Range(Of(b, k)) <=> \E i \in I : e = file[b][i]
  BY <1>1, <1>4 DEF Range
<1>8. /\ \A i \in DOMAIN es : es[i] \in InBlobs({b}, k)
      /\ \A e \in InBlobs({b}, k) : \E i \in DOMAIN es : es[i] = e
  <2>1. InBlobs({b}, k) = Range(Of(b, k))
    BY OneBlob
  <2>2. \A i \in DOMAIN es : es[i] \in Range(Of(b, k))
    BY <1>3, <1>7
  <2>3. \A e \in Range(Of(b, k)) : \E i \in DOMAIN es : es[i] = e
    BY <1>3, <1>7
  <2>. QED BY ONLY <2>1, <2>2, <2>3
<1>9. \E n \in Nat : DOMAIN es = 1..n
  BY <1>3
<1>10. \A i, j \in DOMAIN es : i < j => Fits({es[i]}, {es[j]})
  BY <1>3
<1>. QED BY <1>6, <1>8, <1>9, <1>10

\* The rows of a blob, in the order its elements stand in.
LEMMA BlobRowsList ==
  ASSUME Control, pass \in SortedPasses, NEW b \in DOMAIN file,
         pass = "ways" => AllRelations, pass = "nodes" => AllWays
  PROVE  ListsRows(BlobRows(b), InBlobs({b}, Decoded))
<1>0. file \in Files /\ mode \in Modes
  BY DEF Control
<1>1. PICK es : es = Of(b, Decoded)
  OBVIOUS
<1>2. /\ \E n \in Nat : DOMAIN es = 1..n
      /\ \A i \in DOMAIN es : es[i] \in Kind(Decoded)
      /\ \A i, j \in DOMAIN es : i < j => Fits({es[i]}, {es[j]})
      /\ \A i \in DOMAIN es : es[i] \in InBlobs({b}, Decoded)
      /\ \A e \in InBlobs({b}, Decoded) : \E i \in DOMAIN es : es[i] = e
  <2>1. b \in DOMAIN file
    OBVIOUS
  <2>2. PICK k : k = Decoded
    OBVIOUS
  <2>3. es = Of(b, k)
    BY <1>1, <2>2
  <2>4. /\ \E n \in Nat : DOMAIN es = 1..n
        /\ \A i \in DOMAIN es : es[i] \in Kind(k)
        /\ \A i, j \in DOMAIN es : i < j => Fits({es[i]}, {es[j]})
        /\ \A i \in DOMAIN es : es[i] \in InBlobs({b}, k)
        /\ \A e \in InBlobs({b}, k) : \E i \in DOMAIN es : es[i] = e
    <3>1. \E n \in Nat : DOMAIN es = 1..n
      BY ONLY <1>0, <2>1, <2>3, OfFit
    <3>2. \A i \in DOMAIN es : es[i] \in Kind(k)
      BY ONLY <1>0, <2>1, <2>3, OfFit
    <3>3. \A i, j \in DOMAIN es : i < j => Fits({es[i]}, {es[j]})
      BY ONLY <1>0, <2>1, <2>3, OfFit
    <3>4. \A i \in DOMAIN es : es[i] \in InBlobs({b}, k)
      BY ONLY <1>0, <2>1, <2>3, OfFit
    <3>5. \A e \in InBlobs({b}, k) : \E i \in DOMAIN es : es[i] = e
      <4>1. InBlobs({b}, k) = Range(es)
        BY ONLY <2>3, OneBlob
      <4>. QED BY ONLY <4>1 DEF Range
    <3>. QED BY <3>1, <3>2, <3>3, <3>4, <3>5
  <2>. QED BY <2>2, <2>4
<1>3. PICK n \in Nat : DOMAIN es = 1..n
  BY <1>2
<1>4. \E q : /\ q = [i \in 1..n |-> q[i]] /\ BlobRows(b) = FlattenSeq(q)
             /\ \A i \in 1..n : ListsRows(q[i], {es[i]})
  <2>1. CASE pass = "relations"
    <3>. DEFINE q == [i \in 1..n |-> PlainRows(es[i])]
    <3>1. es = Of(b, "relation") /\ Decoded = "relation"
      BY <1>1, <2>1 DEF Decoded
    <3>2. BlobRows(b) = FlattenSeq(q)
      BY <1>3, <2>1, <3>1 DEF BlobRows
    <3>3. \A i \in 1..n : ListsRows(PlainRows(es[i]), {es[i]})
      BY <1>0, <1>2, <1>3, <3>1, PlainRowsList DEF Kind
    <3>4. q = [i \in 1..n |-> q[i]] /\ \A i \in 1..n : q[i] = PlainRows(es[i])
      OBVIOUS
    <3>. HIDE DEF q
    <3>. QED BY <3>2, <3>3, <3>4
  <2>2. CASE pass = "ways"
    <3>. DEFINE q == [i \in 1..n |-> WayRows(es[i])]
    <3>1. es = Of(b, "way") /\ Decoded = "way"
      BY <1>1, <2>2 DEF Decoded
    <3>2. BlobRows(b) = FlattenSeq(q)
      BY <1>3, <2>2, <3>1 DEF BlobRows
    <3>3. \A i \in 1..n : ListsRows(WayRows(es[i]), {es[i]})
      BY <1>0, <1>2, <1>3, <2>2, <3>1, WayRowsList
    <3>4. q = [i \in 1..n |-> q[i]] /\ \A i \in 1..n : q[i] = WayRows(es[i])
      OBVIOUS
    <3>. HIDE DEF q
    <3>. QED BY <3>2, <3>3, <3>4
  <2>3. CASE pass = "nodes"
    <3>. DEFINE q == [i \in 1..n |-> NodeRows(es[i])]
    <3>1. es = Of(b, "node") /\ Decoded = "node"
      BY <1>1, <2>3 DEF Decoded
    <3>2. BlobRows(b) = FlattenSeq(q)
      BY <1>3, <2>3, <3>1 DEF BlobRows
    <3>3. \A i \in 1..n : ListsRows(NodeRows(es[i]), {es[i]})
      BY <1>0, <1>2, <1>3, <2>3, <3>1, NodeRowsList
    <3>4. q = [i \in 1..n |-> q[i]] /\ \A i \in 1..n : q[i] = NodeRows(es[i])
      OBVIOUS
    <3>. HIDE DEF q
    <3>. QED BY <3>2, <3>3, <3>4
  <2>. QED BY <2>1, <2>2, <2>3 DEF SortedPasses
<1>5. PICK q : /\ q = [i \in 1..n |-> q[i]] /\ BlobRows(b) = FlattenSeq(q)
               /\ \A i \in 1..n : ListsRows(q[i], {es[i]})
  BY <1>4
<1>6. PICK G : G = [i \in 1..n |-> {es[i]}]
  OBVIOUS
<1>7. G \in [1..n -> SUBSET Elements] /\ \A i \in 1..n : G[i] = {es[i]}
  BY <1>2, <1>3, <1>6 DEF Kind
<1>8. \A i, j \in 1..n : i < j => Fits(G[i], G[j])
  <2>. SUFFICES ASSUME NEW i \in 1..n, NEW j \in 1..n, i < j PROVE Fits(G[i], G[j])
    OBVIOUS
  <2>1. Fits({es[i]}, {es[j]}) /\ G[i] = {es[i]} /\ G[j] = {es[j]}
    BY <1>2, <1>3, <1>7
  <2>. QED BY ONLY <2>1
<1>9. \A i \in 1..n : ListsRows(q[i], G[i])
  BY <1>5, <1>7
<1>10. PICK V : V = InBlobs({b}, Decoded)
  OBVIOUS
<1>11. \A e : e \in V <=> \E i \in 1..n : e \in G[i]
  <2>1. (\A i \in 1..n : es[i] \in V) /\ \A e \in V : \E i \in 1..n : es[i] = e
    BY <1>2, <1>3, <1>10
  <2>2. \A i \in 1..n : \A e : e \in G[i] <=> e = es[i]
    BY <1>7
  <2>. QED BY ONLY <2>1, <2>2
<1>12. ListsRows(FlattenSeq(q), V)
  BY ONLY <1>0, <1>3, <1>5, <1>7, <1>8, <1>9, <1>11, RowsFlatten
<1>. QED BY <1>5, <1>10, <1>12

\* What the fold goes through: some blobs, from the first to the last.
LEMMA BlobOrder ==
  ASSUME file \in Files, NEW B \in SUBSET (DOMAIN file)
  PROVE  /\ Cardinality(B) \in Nat
         /\ \A i \in 1..Cardinality(B) : Ascending(B)[i] \in B
         /\ \A b \in B : \E i \in 1..Cardinality(B) : Ascending(B)[i] = b
         /\ \A k : \A i, j \in 1..Cardinality(B) :
              i < j => Fits(InBlobs({Ascending(B)[i]}, k), InBlobs({Ascending(B)[j]}, k))
         /\ \A k, e : e \in InBlobs(B, k) <=>
              \E i \in 1..Cardinality(B) : e \in InBlobs({Ascending(B)[i]}, k)
<1>. DEFINE n == Cardinality(B)
            A == Ascending(B)
<1>1. B \subseteq Int /\ IsFiniteSet(B)
  <2>1. Len(file) \in Nat /\ DOMAIN file = 1..Len(file)
    BY FileFacts
  <2>2. IsFiniteSet(1..Len(file))
    BY <2>1, FS_Interval
  <2>. QED BY <2>1, <2>2, FS_Subset
<1>2. /\ n \in Nat /\ A \in [1..n -> B] /\ \A b \in B : \E i \in 1..n : A[i] = b
      /\ \A i, j \in 1..n : i < j => A[i] < A[j]
  BY <1>1, AscendingFacts
<1>. HIDE DEF n, A
<1>3. ASSUME NEW k, NEW i \in 1..n, NEW j \in 1..n, i < j
      PROVE  Fits(InBlobs({A[i]}, k), InBlobs({A[j]}, k))
  <2>1. {A[i]} \in SUBSET (DOMAIN file) /\ {A[j]} \in SUBSET (DOMAIN file) /\ \A a \in {A[i]}, b \in {A[j]} : a < b
    BY <1>2, <1>3
  <2>. QED BY <2>1, BlobsFit
<1>4. ASSUME NEW k, NEW e
      PROVE  e \in InBlobs(B, k) <=> \E i \in 1..n : e \in InBlobs({A[i]}, k)
  <2>1. e \in InBlobs(B, k) <=> \E b \in B : e \in InBlobs({b}, k)
    BY OneBlob DEF InBlobs
  <2>. QED BY <1>2, <2>1
<1>. QED BY <1>2, <1>3, <1>4 DEF n, A

\* The rows of some blobs in blob order.
LEMMA BlobsRowsList ==
  ASSUME Control, pass \in SortedPasses, NEW B \in SUBSET (DOMAIN file),
         pass = "ways" => AllRelations, pass = "nodes" => AllWays
  PROVE  ListsRows(InBlobOrder(B, BlobRows), InBlobs(B, Decoded))
<1>0. file \in Files
  BY DEF Control
<1>. DEFINE A == Ascending(B)
<1>1. PICK n : n = Cardinality(B)
  OBVIOUS
<1>2. PICK k : k = Decoded
  OBVIOUS
<1>3. /\ n \in Nat /\ \A i \in 1..n : A[i] \in B
      /\ \A i, j \in 1..n : i < j => Fits(InBlobs({A[i]}, k), InBlobs({A[j]}, k))
      /\ \A e : e \in InBlobs(B, k) <=> \E i \in 1..n : e \in InBlobs({A[i]}, k)
  BY <1>0, <1>1, BlobOrder
<1>4. PICK q : q = [i \in 1..n |-> BlobRows(A[i])]
  OBVIOUS
<1>5. InBlobOrder(B, BlobRows) = FlattenSeq(q)
  BY <1>1, <1>4 DEF InBlobOrder
<1>6. PICK G : G = [i \in 1..n |-> InBlobs({A[i]}, k)]
  OBVIOUS
<1>. HIDE DEF A
<1>7. \A i \in 1..n : /\ {A[i]} \in SUBSET (DOMAIN file) /\ A[i] \in DOMAIN file
                      /\ G[i] = InBlobs({A[i]}, k) /\ q[i] = BlobRows(A[i])
  BY <1>3, <1>4, <1>6
<1>8. \A i \in 1..n : G[i] \in SUBSET Elements
  <2>1. ASSUME NEW i \in 1..n PROVE G[i] \subseteq Kind(k)
    <3>1. PICK D : D = {A[i]}
      OBVIOUS
    <3>2. D \in SUBSET (DOMAIN file) /\ G[i] = InBlobs(D, k)
      BY <1>7, <3>1
    <3>3. InBlobs(D, k) \subseteq Kind(k)
      BY ONLY <1>0, <3>2, InBlobsFacts
    <3>. QED BY ONLY <3>2, <3>3
  <2>. QED BY <2>1 DEF Kind
<1>9. \A i \in 1..n : ListsRows(q[i], G[i])
  BY <1>2, <1>7, BlobRowsList
<1>10. \A i, j \in 1..n : i < j => Fits(G[i], G[j])
  BY <1>3, <1>7
<1>11. G \in [1..n -> SUBSET Elements] /\ q = [i \in 1..n |-> q[i]]
  BY <1>4, <1>6, <1>8
<1>12. PICK V : V = InBlobs(B, k)
  OBVIOUS
<1>13. \A e : e \in V <=> \E i \in 1..n : e \in G[i]
  BY <1>3, <1>7, <1>12
<1>14. ListsRows(FlattenSeq(q), V)
  BY ONLY <1>0, <1>3, <1>9, <1>10, <1>11, <1>13, RowsFlatten
<1>. QED BY <1>2, <1>5, <1>12, <1>14

\* The ids of the chunk's kept elements.
LEMMA ChunkIdsList ==
  ASSUME Control, pass \in SortedPasses, mode.ordered, NEW k, NEW kept,
         kept \subseteq InBlobs(ChunkBlobs, k)
  PROVE  ListsIds(IdsInOrder(kept), kept)
<1>0. file \in Files /\ Sorted /\ ChunkBlobs \in SUBSET (DOMAIN file)
  BY ChunkFacts, RegionFacts DEF Control
<1>1. PICK B : B = ChunkBlobs
  OBVIOUS
<1>. DEFINE A == Ascending(B)
            I(b) == {i \in DOMAIN file[b] : file[b][i] \in kept}
            Ids(b) == LET es == ItemsAt(file[b], I(b)) IN [i \in DOMAIN es |-> es[i].id]
            In(b) == kept \cap InBlobs({b}, k)
<1>2. PICK n : n = Cardinality(B)
  OBVIOUS
<1>3. /\ n \in Nat /\ \A i \in 1..n : A[i] \in B
      /\ \A i, j \in 1..n : i < j => Fits(InBlobs({A[i]}, k), InBlobs({A[j]}, k))
      /\ \A e : e \in InBlobs(B, k) <=> \E i \in 1..n : e \in InBlobs({A[i]}, k)
  <2>1. B \in SUBSET (DOMAIN file)
    BY <1>0, <1>1
  <2>. QED BY ONLY <1>0, <1>2, <2>1, BlobOrder
<1>4. PICK q : q = [i \in 1..n |-> Ids(A[i])]
  OBVIOUS
<1>5. IdsInOrder(kept) = FlattenSeq(q)
  BY <1>1, <1>2, <1>4 DEF IdsInOrder, InBlobOrder
<1>6. PICK G : G = [i \in 1..n |-> In(A[i])]
  OBVIOUS
<1>7. ASSUME NEW b \in B PROVE ListsIds(Ids(b), In(b)) /\ In(b) \in SUBSET Elements
  <2>1. b \in DOMAIN file
    BY <1>0, <1>1
  <2>2. PICK es : es = ItemsAt(file[b], I(b))
    OBVIOUS
  <2>3. I(b) \in SUBSET (DOMAIN file[b])
    OBVIOUS
  <2>0. PICK J : J = I(b)
    OBVIOUS
  <2>4. /\ Cardinality(I(b)) \in Nat /\ DOMAIN es = 1..Cardinality(I(b))
        /\ \A i \in DOMAIN es : es[i] \in Elements
        /\ \A i, j \in DOMAIN es : i < j => Fits({es[i]}, {es[j]})
        /\ \A i \in DOMAIN es : \E j \in I(b) : es[i] = file[b][j]
        /\ \A j \in I(b) : \E i \in DOMAIN es : es[i] = file[b][j]
    <3>. HIDE DEF I
    <3>1. J \in SUBSET (DOMAIN file[b]) /\ es = ItemsAt(file[b], J)
      BY ONLY <2>0, <2>2, <2>3
    <3>2. Cardinality(J) \in Nat /\ DOMAIN es = 1..Cardinality(J)
      BY ONLY <1>0, <2>1, <3>1, ItemsFit
    <3>3. \A i \in DOMAIN es : es[i] \in Elements
      BY ONLY <1>0, <2>1, <3>1, ItemsFit
    <3>4. \A i, j \in DOMAIN es : i < j => Fits({es[i]}, {es[j]})
      BY ONLY <1>0, <2>1, <3>1, ItemsFit
    <3>5. \A i \in DOMAIN es : \E j \in J : es[i] = file[b][j]
      BY ONLY <1>0, <2>1, <3>1, ItemsFit
    <3>6. \A j \in J : \E i \in DOMAIN es : es[i] = file[b][j]
      BY ONLY <1>0, <2>1, <3>1, ItemsFit
    <3>. QED BY ONLY <2>0, <3>2, <3>3, <3>4, <3>5, <3>6
  <2>5. \A e : e \in In(b) <=> \E i \in I(b) : e = file[b][i]
    <3>1. \A e : e \in InBlobs({b}, k) <=> e.kind = k /\ \E i \in DOMAIN file[b] : e = file[b][i]
      <4>1. {b} \in SUBSET (DOMAIN file)
        BY <2>1
      <4>2. \A e : e \in InBlobs({b}, k) <=>
                     e.kind = k /\ \E c \in {b} : \E i \in DOMAIN file[c] : e = file[c][i]
        BY ONLY <1>0, <4>1, InBlobsFacts
      <4>. QED BY <4>2
    <3>2. \A e \in kept : e.kind = k
      <4>1. B \in SUBSET (DOMAIN file) /\ kept \subseteq InBlobs(B, k)
        BY <1>0, <1>1
      <4>. QED BY ONLY <1>0, <4>1, InBlobsFacts
    <3>. QED BY <3>1, <3>2
  <2>6. In(b) \in SUBSET Elements
    <3>1. InBlobs(ChunkBlobs, k) \subseteq Kind(k)
      BY <1>0, InBlobsFacts
    <3>. QED BY <3>1 DEF Kind
  <2>7. PICK m \in Nat : m = Cardinality(I(b))
    BY <2>4
  <2>8. PICK s : s = Ids(b)
    OBVIOUS
  <2>9. s = [i \in 1..m |-> es[i].id]
    BY <2>2, <2>4, <2>7, <2>8
  <2>. HIDE DEF I, Ids, In
  <2>10. \A i \in 1..m : es[i] \in Elements /\ es[i].id \in Int
    BY <1>0, <2>4, <2>7, ElementFacts
  <2>11. s \in Seq(Int) /\ DOMAIN s = 1..m
    <3>1. s \in [1..m -> Int]
      BY <2>9, <2>10
    <3>. QED BY <3>1, SeqDef
  <2>12. \A e : e \in In(b) <=> \E i \in 1..m : e = es[i]
    BY <2>4, <2>5, <2>7
  <2>13. Range(s) = {e.id : e \in In(b)}
    <3>1. Range(s) = {es[i].id : i \in 1..m}
      BY <2>9 DEF Range
    <3>2. In(b) = {es[i] : i \in 1..m}
      BY <2>12
    <3>. QED BY <3>1, <3>2
  <2>14. Avoids(s, BadIds)
    <3>. SUFFICES ASSUME NEW i \in 1..m, NEW j \in 1..m, i < j PROVE <<s[i], s[j]>> \notin BadIds
      BY <2>11 DEF Avoids
    <3>1. /\ {es[i]} \in SUBSET Elements /\ {es[j]} \in SUBSET Elements /\ Fits({es[i]}, {es[j]})
          /\ s[i] \in {e.id : e \in {es[i]}} /\ s[j] \in {e.id : e \in {es[j]}}
      BY <2>4, <2>7, <2>9, <2>10
    <3>. QED BY ONLY <1>0, mode.ordered, <3>1, IdsFit
  <2>15. ListsIds(s, In(b))
    BY <2>11, <2>13, <2>14 DEF ListsIds
  <2>. QED BY <2>6, <2>8, <2>15
<1>8. \A i \in 1..n : q[i] = Ids(A[i]) /\ G[i] = In(A[i]) /\ A[i] \in B
  BY <1>3, <1>4, <1>6
<1>9. \A i, j \in 1..n : i < j => Fits(G[i], G[j])
  <2>1. ASSUME NEW i \in 1..n PROVE G[i] \subseteq InBlobs({A[i]}, k)
    <3>1. G[i] = kept \cap InBlobs({A[i]}, k)
      BY <1>8
    <3>. QED BY ONLY <3>1
  <2>. QED BY <1>3, <2>1 DEF Fits
<1>10. \A e : e \in kept <=> \E i \in 1..n : e \in G[i]
  <2>1. \A i \in 1..n : \A e : e \in G[i] <=> e \in kept /\ e \in InBlobs({A[i]}, k)
    BY <1>8
  <2>. HIDE DEF A, In
  <2>. QED BY <1>1, <1>3, <2>1
<1>. HIDE DEF A, Ids, In
<1>11. /\ G \in [1..n -> SUBSET Elements] /\ q = [i \in 1..n |-> q[i]]
       /\ \A i \in 1..n : ListsIds(q[i], G[i])
  BY <1>4, <1>6, <1>7, <1>8
<1>12. ListsIds(FlattenSeq(q), kept)
  BY ONLY <1>0, mode.ordered, <1>3, <1>9, <1>10, <1>11, IdsFlatten
<1>. QED BY <1>5, <1>12

-----------------------------------------------------------------------------
(* How rows and ids are told to be listed.                                 *)

LEMMA RowsStatic ==
  ASSUME file' = file, mode' = mode
  PROVE  /\ \A S : RowsOf(S)' = RowsOf(S)
         /\ BadRows' = BadRows /\ BadIds' = BadIds
<1>1. /\ Elements' = Elements /\ RefRelations' = RefRelations /\ RefClassified' = RefClassified
      /\ Sorted' = Sorted /\ \A w : RefTopics(w)' = RefTopics(w)
  BY Static
<1>2. \A w, t : RefParents(w, t)' = RefParents(w, t)
  BY <1>1 DEF RefParents
<1>3. \A e : RowSet(e)' = RowSet(e)
  BY <1>1, <1>2 DEF RowSet
<1>4. \A S : RowsOf(S)' = RowsOf(S)
  BY <1>3 DEF RowsOf
<1>5. \A p, q : Precedes(p, q)' = Precedes(p, q)
  BY DEF Precedes
<1>6. PICK U : U = RowsOf(Elements)
  OBVIOUS
<1>7. RowsOf(Elements)' = U
  BY <1>1, <1>4, <1>6
<1>8. BadRows' = BadRows
  BY <1>1, <1>5, <1>6, <1>7 DEF BadRows
<1>9. BadIds' = BadIds
  BY <1>5 DEF BadIds
<1>. QED BY <1>4, <1>8, <1>9

LEMMA RowsBecome ==
  ASSUME file' = file, mode' = mode, NEW s, NEW S, ListsRows(s, S), rows' = s, RoutedElements' = S
  PROVE  RowsListed'
<1>1. RowsOf(S)' = RowsOf(S) /\ BadRows' = BadRows
  BY RowsStatic
<1>. QED BY <1>1 DEF RowsListed, ListsRows, Avoids

LEMMA IdsBecome ==
  ASSUME file' = file, mode' = mode, NEW r, NEW w, NEW R, NEW W,
         keptRels' = r, keptWays' = w, ListedRelations' = R, ListedWays' = W,
         mode.ordered /\ Sorted => ListsIds(r, R) /\ ListsIds(w, W)
  PROVE  IdsListed'
<1>1. Sorted' = Sorted /\ BadIds' = BadIds
  BY Static, RowsStatic
<1>. QED BY <1>1 DEF IdsListed, ListsIds, Avoids

LEMMA EarlierStays ==
  ASSUME file' = file, mode' = mode, pass' = pass
  PROVE  Earlier' = Earlier
<1>1. /\ Kind("relation")' = Kind("relation") /\ Kind("way")' = Kind("way")
      /\ Kind("node")' = Kind("node")
  BY Static
<1>. QED BY <1>1 DEF Earlier

LEMMA KeptStays ==
  ASSUME file' = file, mode' = mode, keptRels' = keptRels, keptWays' = keptWays, IdsListed,
         ListedRelations' = ListedRelations, ListedWays' = ListedWays
  PROVE  IdsListed'
<1>1. PICK r, w, R, W : r = keptRels /\ w = keptWays /\ R = ListedRelations /\ W = ListedWays
  OBVIOUS
<1>2. mode.ordered /\ Sorted => ListsIds(r, R) /\ ListsIds(w, W)
  BY <1>1 DEF IdsListed
<1>3. file' = file /\ mode' = mode /\ keptRels' = r /\ keptWays' = w /\ ListedRelations' = R /\ ListedWays' = W
  BY <1>1
<1>. QED BY ONLY <1>2, <1>3, IdsBecome

LEMMA FitsUnion ==
  ASSUME NEW A, NEW B, NEW T, Fits(A, T), Fits(B, T)
  PROVE  Fits(A \cup B, T)
BY DEF Fits

LEMMA FitsLess ==
  ASSUME NEW A, NEW B, NEW S, NEW T, Fits(S, T), A \subseteq S, B \subseteq T
  PROVE  Fits(A, B)
BY DEF Fits

LEMMA EarlierFits ==
  ASSUME Control, pass \in SortedPasses, NEW T \in SUBSET Kind(Decoded)
  PROVE  Earlier \in SUBSET Elements /\ Fits(Earlier, T)
<1>1. file \in Files
  BY DEF Control
<1>2. Kind("relation") \in SUBSET Elements /\ Kind("way") \in SUBSET Elements
  BY DEF Kind
<1>3. CASE pass = "relations"
  <2>1. Earlier = {}
    BY <1>3 DEF Earlier
  <2>. QED BY <2>1 DEF Fits
<1>4. CASE pass = "ways"
  <2>1. Earlier = Kind("relation") /\ Decoded = "way"
    BY <1>4 DEF Earlier, Decoded
  <2>2. T \in SUBSET Kind("way")
    BY <2>1
  <2>3. Fits(Kind("relation"), T)
    <3>1. PICK S : S = Kind("relation")
      OBVIOUS
    <3>2. S \in SUBSET Kind("relation") /\ "relation" # "way"
      BY <3>1
    <3>3. Fits(S, T)
      BY ONLY <1>1, <2>2, <3>2, KindsFit
    <3>. QED BY <3>1, <3>3
  <2>. QED BY <1>2, <2>1, <2>3
<1>5. CASE pass = "nodes"
  <2>1. Earlier = Kind("relation") \cup Kind("way") /\ Decoded = "node"
    BY <1>5 DEF Earlier, Decoded
  <2>2. T \in SUBSET Kind("node")
    BY <2>1
  <2>3. PICK S, W : S = Kind("relation") /\ W = Kind("way")
    OBVIOUS
  <2>4. Fits(S, T)
    <3>1. S \in SUBSET Kind("relation") /\ "relation" # "node"
      BY <2>3
    <3>. QED BY ONLY <1>1, <2>2, <3>1, KindsFit
  <2>5. Fits(W, T)
    <3>1. W \in SUBSET Kind("way") /\ "way" # "node"
      BY <2>3
    <3>. QED BY ONLY <1>1, <2>2, <3>1, KindsFit
  <2>6. Fits(S \cup W, T)
    BY ONLY <2>4, <2>5, FitsUnion
  <2>7. Earlier = S \cup W
    BY <2>1, <2>3
  <2>. QED BY <1>2, <2>1, <2>6, <2>7
<1>. QED BY <1>3, <1>4, <1>5 DEF SortedPasses

-----------------------------------------------------------------------------
(* The first state and the sorted path.                                    *)

LEMMA FirstRows == ASSUME Init, mode.sorted => BlobsInOrder PROVE RowInv
<1>1. SelectInv
  BY FirstState
<1>2. Control
  BY <1>1 DEF SelectInv
<1>3. rows = <<>> /\ keptRels = <<>> /\ keptWays = <<>> /\ done = {}
  BY DEF Init
<1>4. ListsRows(<<>>, {}) /\ ListsIds(<<>>, {})
  BY NothingListed
<1>5. CASE Sorted
  <2>1. pass = "relations" /\ at = RelStart + 1
    BY <1>5 DEF Init
  <2>2. Folded = {} /\ Routed = {}
    <3>1. \A b \in Region : First <= b /\ b \in Int /\ First \in Int
      BY <1>2, <2>1, RegionFacts DEF SortedPasses
    <3>2. First = at
      BY <2>1 DEF First
    <3>3. Folded = {}
      BY <3>1, <3>2 DEF Folded
    <3>. QED BY <1>3, <3>3 DEF Routed
  <2>3. InBlobs(Routed, Decoded) = {} /\ InBlobs(Folded, "relation") = {}
    BY <2>2, NoBlobs
  <2>4. Earlier = {}
    BY <2>1 DEF Earlier
  <2>5. RoutedElements = {} /\ ListedRelations = {} /\ ListedWays = {}
    BY <2>1, <2>3, <2>4 DEF RoutedElements, SortedPasses, ListedRelations, ListedWays
  <2>. QED BY <1>3, <1>4, <2>1, <2>5 DEF RowInv, RowsListed, IdsListed, ScansUnsorted
<1>6. CASE ~Sorted
  <2>1. pass = "scan relations"
    BY <1>6 DEF Init
  <2>2. RoutedElements = {}
    BY <1>3, <2>1 DEF RoutedElements, Earlier, SortedPasses
  <2>. QED BY <1>3, <1>4, <1>6, <2>2 DEF RowInv, RowsListed, IdsListed, ScansUnsorted
<1>. QED BY <1>5, <1>6

\* Some more blobs of the pass, routed from the fold or from a closure.
LEMMA RouteMore ==
  ASSUME SelectInv, RowsListed, pass \in SortedPasses, NEW B \in SUBSET ChunkBlobs,
         Fits(InBlobs(Routed, Decoded), InBlobs(B, Decoded))
  PROVE  ListsRows(rows \o InBlobOrder(B, BlobRows), RoutedElements \cup InBlobs(B, Decoded))
<1>1. Control /\ file \in Files
  BY DEF SelectInv, Control
<1>2. /\ pass = "ways" => AllRelations
      /\ pass = "nodes" => AllWays
  BY DEF SelectInv, Progress
<1>3. ChunkBlobs \in SUBSET (DOMAIN file) /\ Routed \in SUBSET (DOMAIN file)
  <2>1. ChunkBlobs \subseteq Region /\ Folded \subseteq Region /\ Region \subseteq DOMAIN file
    BY <1>1, ChunkFacts, RegionFacts
  <2>2. done \subseteq ChunkBlobs
    BY <1>1 DEF Control
  <2>. QED BY <2>1, <2>2 DEF Routed
<1>4. PICK k, S, T, E : k = Decoded /\ S = InBlobs(Routed, k) /\ T = InBlobs(B, k) /\ E = Earlier
  OBVIOUS
<1>5. B \in SUBSET (DOMAIN file)
  BY <1>3
<1>6. ListsRows(InBlobOrder(B, BlobRows), InBlobs(B, Decoded))
  BY ONLY <1>1, <1>2, <1>5, pass \in SortedPasses, BlobsRowsList
<1>7. S \in SUBSET Kind(k) /\ T \in SUBSET Kind(k)
  <2>1. PICK R : R = Routed
    OBVIOUS
  <2>2. R \in SUBSET (DOMAIN file)
    BY <1>3, <2>1
  <2>3. InBlobs(R, k) \subseteq Kind(k) /\ InBlobs(B, k) \subseteq Kind(k)
    BY ONLY <1>1, <1>5, <2>2, InBlobsFacts
  <2>. QED BY <1>4, <2>1, <2>3
<1>8. E \in SUBSET Elements /\ Fits(E, T)
  BY <1>1, <1>4, <1>7, EarlierFits
<1>9. E \cup S \in SUBSET Elements /\ T \in SUBSET Elements
  BY <1>7, <1>8 DEF Kind
<1>10. Fits(E \cup S, T)
  <2>1. Fits(S, T)
    BY <1>4
  <2>. QED BY ONLY <1>8, <2>1, FitsUnion
<1>11. RoutedElements = E \cup S
  BY <1>4 DEF RoutedElements, SortedPasses
<1>12. PICK s, t : s = rows /\ t = InBlobOrder(B, BlobRows)
  OBVIOUS
<1>13. ListsRows(s, E \cup S) /\ ListsRows(t, T)
  BY <1>4, <1>6, <1>11, <1>12 DEF RowsListed
<1>14. ListsRows(s \o t, (E \cup S) \cup T)
  BY ONLY <1>1, <1>9, <1>10, <1>13, RowsConcat
<1>. QED BY <1>4, <1>11, <1>12, <1>14

\* The folded blobs come before those of the chunk.
LEMMA FoldedFits ==
  ASSUME Control, pass \in SortedPasses, NEW k
  PROVE  Fits(InBlobs(Folded, k), InBlobs(ChunkBlobs, k))
<1>1. /\ file \in Files /\ ChunkBlobs \subseteq Region /\ Folded \subseteq Region
      /\ Region \subseteq DOMAIN file /\ Region \subseteq Int /\ at \in Int
  BY ChunkFacts, RegionFacts DEF Control
<1>2. PICK A, B : A = Folded /\ B = ChunkBlobs
  OBVIOUS
<1>3. \A a \in A : a \in Int /\ a < at
  BY <1>1, <1>2 DEF Folded
<1>4. \A b \in B : b \in Int /\ at <= b
  BY <1>1, <1>2 DEF ChunkBlobs
<1>5. \A a \in A, b \in B : a < b
  BY <1>1, <1>3, <1>4
<1>6. A \in SUBSET (DOMAIN file) /\ B \in SUBSET (DOMAIN file)
  BY <1>1, <1>2
<1>7. Fits(InBlobs(A, k), InBlobs(B, k))
  BY ONLY <1>1, <1>5, <1>6, BlobsFit
<1>. QED BY <1>2, <1>7

\* What has been routed after a fold: the chunk too.
LEMMA FoldRows ==
  ASSUME SelectInv, RowsListed, pass \in SortedPasses, ChunkReady, NextChunk, pass' = pass
  PROVE  RowsListed'
<1>1. /\ file' = file /\ mode' = mode /\ at' = at + Chunk /\ done' = {} /\ done = ChunkBlobs
      /\ Control /\ Decoded' = Decoded
  BY DEF SelectInv, ChunkReady, NextChunk, Decoded
<1>2. PICK k, S, T, E : /\ k = Decoded /\ S = InBlobs(Folded, k) /\ T = InBlobs(ChunkBlobs, k)
                        /\ E = Earlier
  OBVIOUS
<1>3. InBlobs(Folded \cup ChunkBlobs, k) = S \cup T
  BY <1>1, <1>2, ChunkElements
<1>4. RoutedElements' = E \cup (S \cup T)
  <2>1. InBlobs(Routed, k)' = InBlobs(Folded \cup ChunkBlobs, k)
    BY <1>1, AfterFold
  <2>2. InBlobs(Routed, Decoded)' = InBlobs(Folded \cup ChunkBlobs, k)
    BY <1>1, <1>2, <2>1
  <2>3. Earlier' = Earlier
    BY <1>1, EarlierStays
  <2>4. RoutedElements' = Earlier' \cup InBlobs(Routed, Decoded)'
    BY DEF RoutedElements, SortedPasses
  <2>. QED BY <1>2, <1>3, <2>2, <2>3, <2>4
<1>5. RoutedElements = E \cup InBlobs(Routed, k)
  BY <1>2 DEF RoutedElements, SortedPasses
<1>6. CASE mode.ordered
  <2>1. Routed = Folded
    BY <1>6 DEF Routed
  <2>2. rows' = rows \o InBlobOrder(ChunkBlobs, BlobRows)
    BY <1>6 DEF NextChunk, Route
  <2>3. Fits(InBlobs(Routed, Decoded), InBlobs(ChunkBlobs, Decoded))
    BY <1>1, <2>1, FoldedFits
  <2>4. PICK B : B = ChunkBlobs
    OBVIOUS
  <2>5. ListsRows(rows \o InBlobOrder(B, BlobRows), RoutedElements \cup InBlobs(B, Decoded))
    <3>1. B \in SUBSET ChunkBlobs /\ Fits(InBlobs(Routed, Decoded), InBlobs(B, Decoded))
      BY <2>3, <2>4
    <3>. QED BY ONLY SelectInv, RowsListed, pass \in SortedPasses, <3>1, RouteMore
  <2>6. PICK s : s = rows \o InBlobOrder(B, BlobRows)
    OBVIOUS
  <2>7. RoutedElements \cup InBlobs(B, Decoded) = E \cup (S \cup T)
    BY <1>2, <1>5, <2>1, <2>4
  <2>8. ListsRows(s, E \cup (S \cup T)) /\ rows' = s
    BY <2>2, <2>4, <2>5, <2>6, <2>7
  <2>. QED BY ONLY <1>1, <1>4, <2>8, RowsBecome
<1>7. CASE ~mode.ordered
  <2>1. rows' = rows
    BY <1>7 DEF NextChunk, routedVars
  <2>2. RoutedElements = E \cup (S \cup T)
    BY <1>1, <1>3, <1>5, <1>7 DEF Routed
  <2>3. PICK s : s = rows
    OBVIOUS
  <2>4. ListsRows(s, E \cup (S \cup T)) /\ rows' = s
    BY <2>1, <2>2, <2>3 DEF RowsListed
  <2>. QED BY ONLY <1>1, <1>4, <2>4, RowsBecome
<1>. QED BY <1>6, <1>7

\* The chunk's kept elements, listed after those of the chunks before.
LEMMA ListMore ==
  ASSUME Control, pass \in SortedPasses, mode.ordered, NEW k, NEW K,
         NEW s, ListsIds(s, InBlobs(Folded, k) \cap K),
         NEW kept, kept = InBlobs(ChunkBlobs, k) \cap K
  PROVE  ListsIds(s \o IdsInOrder(kept), InBlobs(Folded \cup ChunkBlobs, k) \cap K)
<1>1. file \in Files /\ Sorted
  BY DEF Control
<1>2. kept \subseteq InBlobs(ChunkBlobs, k)
  OBVIOUS
<1>3. ListsIds(IdsInOrder(kept), kept)
  BY <1>2, ChunkIdsList
<1>4. PICK S, t : S = InBlobs(Folded, k) \cap K /\ t = IdsInOrder(kept)
  OBVIOUS
<1>5. /\ InBlobs(Folded, k) \subseteq Kind(k) /\ InBlobs(ChunkBlobs, k) \subseteq Kind(k)
      /\ InBlobs(Folded \cup ChunkBlobs, k) = InBlobs(Folded, k) \cup InBlobs(ChunkBlobs, k)
  BY ChunkElements
<1>6. S \in SUBSET Elements /\ kept \in SUBSET Elements
  BY <1>2, <1>4, <1>5 DEF Kind
<1>7. Fits(S, kept)
  <2>1. Fits(InBlobs(Folded, k), InBlobs(ChunkBlobs, k))
    BY FoldedFits
  <2>2. S \subseteq InBlobs(Folded, k)
    BY <1>4
  <2>. QED BY ONLY <1>2, <2>1, <2>2, FitsLess
<1>8. ListsIds(s \o t, S \cup kept)
  <2>1. ListsIds(s, S) /\ ListsIds(t, kept)
    BY <1>3, <1>4
  <2>. QED BY ONLY <1>1, mode.ordered, <1>6, <1>7, <2>1, IdsConcat
<1>9. S \cup kept = InBlobs(Folded \cup ChunkBlobs, k) \cap K
  BY <1>4, <1>5
<1>. QED BY <1>4, <1>8, <1>9

LEMMA FoldRelationsRows == ASSUME SelectInv, RowInv, FoldRelations PROVE RowInv'
<1>1. /\ pass = "relations" /\ pass' = pass /\ file' = file /\ mode' = mode /\ ChunkReady /\ NextChunk
      /\ at' = at + Chunk /\ done' = {} /\ keptWays' = keptWays
  BY DEF FoldRelations, NextChunk
<1>2. pass \in SortedPasses /\ Control
  BY <1>1 DEF SelectInv, SortedPasses
<1>3. RowsListed'
  BY <1>1, <1>2, FoldRows DEF RowInv
<1>4. PICK kept : kept = InBlobs(ChunkBlobs, "relation") \cap RefRelations
  OBVIOUS
<1>5. {r \in InBlobs(ChunkBlobs, "relation") : r.topics # {}} = kept
  <2>1. InBlobs(ChunkBlobs, "relation") \subseteq Kind("relation")
    BY <1>2, ChunkElements
  <2>. QED BY <1>4, <2>1 DEF RefRelations
<1>6. keptRels' = IF mode.ordered THEN keptRels \o IdsInOrder(kept) ELSE keptRels
  BY <1>5 DEF FoldRelations
<1>7. PICK r, w, R : r = keptRels' /\ w = keptWays /\ R = InBlobs(Folded \cup ChunkBlobs, "relation") \cap RefRelations
  OBVIOUS
<1>8. ListedRelations' = R /\ ListedWays' = {}
  <2>1. InBlobs(Folded, "relation")' = InBlobs(Folded \cup ChunkBlobs, "relation")
    BY <1>1, <1>2, AfterFold
  <2>2. RefRelations' = RefRelations
    BY <1>1, Static
  <2>. QED BY <1>1, <1>7, <2>1, <2>2 DEF ListedRelations, ListedWays
<1>9. ASSUME mode.ordered, Sorted PROVE ListsIds(r, R) /\ ListsIds(w, {})
  <2>1. /\ ListsIds(keptRels, InBlobs(Folded, "relation") \cap RefRelations)
        /\ ListsIds(keptWays, {})
    BY <1>1, <1>9 DEF RowInv, IdsListed, ListedRelations, ListedWays
  <2>2. PICK s, K : s = keptRels /\ K = RefRelations
    OBVIOUS
  <2>3. ListsIds(s \o IdsInOrder(kept), InBlobs(Folded \cup ChunkBlobs, "relation") \cap K)
    <3>1. ListsIds(s, InBlobs(Folded, "relation") \cap K) /\ kept = InBlobs(ChunkBlobs, "relation") \cap K
      BY <1>4, <2>1, <2>2
    <3>. QED BY ONLY <1>2, <1>9, <3>1, ListMore
  <2>. QED BY <1>6, <1>7, <1>9, <2>1, <2>2, <2>3
<1>10. IdsListed'
  <2>1. keptRels' = r /\ keptWays' = w
    BY <1>1, <1>7
  <2>. QED BY ONLY <1>1, <1>8, <1>9, <2>1, IdsBecome
<1>11. ScansUnsorted'
  BY <1>1 DEF ScansUnsorted
<1>. QED BY <1>3, <1>10, <1>11 DEF RowInv

LEMMA FoldWaysRows == ASSUME SelectInv, RowInv, FoldWays PROVE RowInv'
<1>1. /\ pass = "ways" /\ pass' = pass /\ file' = file /\ mode' = mode /\ ChunkReady /\ NextChunk
      /\ at' = at + Chunk /\ done' = {} /\ keptRels' = keptRels
  BY DEF FoldWays, NextChunk
<1>2. pass \in SortedPasses /\ Control /\ AllRelations
  BY <1>1 DEF SelectInv, SortedPasses, Progress
<1>3. RowsListed'
  BY <1>1, <1>2, FoldRows DEF RowInv
<1>4. PICK kept : kept = InBlobs(ChunkBlobs, "way") \cap RefKept
  OBVIOUS
<1>5. {w \in InBlobs(ChunkBlobs, "way") : WayTopics(w) # {}} = kept
  <2>1. PICK V : V = InBlobs(ChunkBlobs, "way")
    OBVIOUS
  <2>2. V \in SUBSET Kind("way") /\ file \in Files
    BY <1>2, <2>1, ChunkElements DEF Control
  <2>3. {w \in V : WayTopics(w) # {}} = V \cap RefKept
    BY ONLY <1>2, <2>2, KeepsOf
  <2>. QED BY <1>4, <2>1, <2>3
<1>6. keptWays' = IF mode.ordered THEN keptWays \o IdsInOrder(kept) ELSE keptWays
  BY <1>5 DEF FoldWays
<1>7. PICK r, w, R, W : /\ r = keptRels /\ w = keptWays' /\ R = RefRelations
                        /\ W = InBlobs(Folded \cup ChunkBlobs, "way") \cap RefKept
  OBVIOUS
<1>8. ListedRelations' = R /\ ListedWays' = W
  <2>1. InBlobs(Folded, "way")' = InBlobs(Folded \cup ChunkBlobs, "way")
    BY <1>1, <1>2, AfterFold
  <2>2. RefRelations' = RefRelations /\ RefKept' = RefKept
    BY <1>1, Static
  <2>. QED BY <1>1, <1>7, <2>1, <2>2 DEF ListedRelations, ListedWays
<1>9. ASSUME mode.ordered, Sorted PROVE ListsIds(r, R) /\ ListsIds(w, W)
  <2>1. /\ ListsIds(keptWays, InBlobs(Folded, "way") \cap RefKept)
        /\ ListsIds(keptRels, RefRelations)
    BY <1>1, <1>9 DEF RowInv, IdsListed, ListedRelations, ListedWays
  <2>2. PICK s, K : s = keptWays /\ K = RefKept
    OBVIOUS
  <2>3. ListsIds(s \o IdsInOrder(kept), InBlobs(Folded \cup ChunkBlobs, "way") \cap K)
    <3>1. ListsIds(s, InBlobs(Folded, "way") \cap K) /\ kept = InBlobs(ChunkBlobs, "way") \cap K
      BY <1>4, <2>1, <2>2
    <3>. QED BY ONLY <1>2, <1>9, <3>1, ListMore
  <2>. QED BY <1>6, <1>7, <1>9, <2>1, <2>2, <2>3
<1>10. IdsListed'
  <2>1. keptRels' = r /\ keptWays' = w
    BY <1>1, <1>7
  <2>. QED BY ONLY <1>1, <1>8, <1>9, <2>1, IdsBecome
<1>11. ScansUnsorted'
  BY <1>1 DEF ScansUnsorted
<1>. QED BY <1>3, <1>10, <1>11 DEF RowInv

LEMMA FoldNodesRows == ASSUME SelectInv, RowInv, FoldNodes PROVE RowInv'
<1>1. /\ pass = "nodes" /\ pass' = pass /\ file' = file /\ mode' = mode /\ ChunkReady /\ NextChunk
      /\ keptRels' = keptRels /\ keptWays' = keptWays
  BY DEF FoldNodes, NextChunk
<1>2. RowsListed'
  BY <1>1, FoldRows DEF RowInv, SortedPasses
<1>3. ListedRelations' = ListedRelations /\ ListedWays' = ListedWays
  <2>1. RefRelations' = RefRelations /\ RefKept' = RefKept
    BY <1>1, Static
  <2>. QED BY <1>1, <2>1 DEF ListedRelations, ListedWays
<1>4. IdsListed'
  BY <1>1, <1>3, KeptStays DEF RowInv
<1>5. ScansUnsorted'
  BY <1>1 DEF ScansUnsorted
<1>. QED BY <1>2, <1>4, <1>5 DEF RowInv

\* A closure routes its blob in an unordered run, and nothing in an ordered one.
LEMMA ClassifyRows == ASSUME SelectInv, RowInv, NEW b \in DOMAIN file, Classify(b) PROVE RowInv'
<1>1. /\ b \in ChunkBlobs /\ b \notin done /\ done' = done \cup {b} /\ file' = file /\ mode' = mode
      /\ pass' = pass /\ at' = at /\ keptRels' = keptRels /\ keptWays' = keptWays
  BY DEF Classify, context
<1>2. Control /\ pass \in SortedPasses /\ file \in Files /\ RowsListed
  <2>1. Control
    BY DEF SelectInv
  <2>2. pass \in SortedPasses
    BY <1>1, <2>1 DEF Control, SortedPasses, ChunkBlobs, Region
  <2>. QED BY <2>1, <2>2 DEF Control, RowInv
<1>3. \A k : /\ InBlobs(Folded, k)' = InBlobs(Folded, k)
             /\ InBlobs(Routed, k)' = InBlobs(IF mode.ordered THEN Folded ELSE Folded \cup done \cup {b}, k)
  BY <1>1, <1>2, AfterClassify
<1>4. PICK k, E : k = Decoded /\ E = Earlier
  OBVIOUS
<1>5. RoutedElements' = E \cup InBlobs(Routed, k)' /\ RoutedElements = E \cup InBlobs(Routed, k)
  <2>1. Decoded' = k /\ Earlier' = E
    BY <1>1, <1>4, EarlierStays DEF Decoded
  <2>2. RoutedElements' = Earlier' \cup InBlobs(Routed, Decoded)'
    BY <1>1, <1>2 DEF RoutedElements, SortedPasses
  <2>3. InBlobs(Routed, Decoded)' = InBlobs(Routed, k)'
    BY <2>1
  <2>4. RoutedElements = Earlier \cup InBlobs(Routed, Decoded)
    BY <1>2 DEF RoutedElements, SortedPasses
  <2>. QED BY <1>4, <2>1, <2>2, <2>3, <2>4
<1>6. RowsListed'
  <2>1. CASE mode.ordered
    <3>1. rows' = rows
      BY <2>1 DEF Classify, routedVars
    <3>2. InBlobs(Routed, k)' = InBlobs(Routed, k)
      BY <1>3, <2>1 DEF Routed
    <3>3. PICK s, S : s = rows /\ S = RoutedElements
      OBVIOUS
    <3>4. ListsRows(s, S) /\ rows' = s /\ RoutedElements' = S
      BY <1>2, <1>5, <3>1, <3>2, <3>3 DEF RowsListed
    <3>. QED BY ONLY <1>1, <3>4, RowsBecome
  <2>2. CASE ~mode.ordered
    <3>1. rows' = rows \o InBlobOrder({b}, BlobRows)
      BY <2>2 DEF Classify, Route
    <3>2. Routed = Folded \cup done
      BY <2>2 DEF Routed
    <3>3. /\ Routed \in SUBSET (DOMAIN file) /\ {b} \in SUBSET (DOMAIN file) /\ Routed \cap {b} = {}
          /\ {b} \in SUBSET ChunkBlobs
      <4>1. /\ ChunkBlobs \subseteq Region /\ Folded \subseteq Region /\ Region \subseteq DOMAIN file
            /\ Folded \cap ChunkBlobs = {}
        BY <1>2, ChunkFacts, RegionFacts
      <4>2. done \subseteq ChunkBlobs
        BY <1>2 DEF Control
      <4>. QED BY <1>1, <3>2, <4>1, <4>2
    <3>4. PICK A, B, S, T : /\ A = Routed /\ B = {b} /\ S = InBlobs(Routed, k) /\ T = InBlobs({b}, k)
      OBVIOUS
    <3>5. S \cap T = {}
      <4>1. A \in SUBSET (DOMAIN file) /\ B \in SUBSET (DOMAIN file) /\ A \cap B = {}
        BY <3>3, <3>4
      <4>2. InBlobs(A, k) \cap InBlobs(B, k) = {}
        BY ONLY <1>2, <4>1, InBlobsDisjoint
      <4>. QED BY <3>4, <4>2
    <3>6. Fits(S, T)
      <4>1. ~(mode.ordered /\ Sorted)
        BY <2>2
      <4>. QED BY ONLY <3>5, <4>1, DisjointFit
    <3>7. ListsRows(rows \o InBlobOrder(B, BlobRows), RoutedElements \cup InBlobs(B, Decoded))
      <4>1. B \in SUBSET ChunkBlobs /\ Fits(InBlobs(Routed, Decoded), InBlobs(B, Decoded))
        BY <1>4, <3>3, <3>4, <3>6
      <4>. QED BY ONLY SelectInv, <1>2, <4>1, RouteMore
    <3>8. RoutedElements' = E \cup (S \cup T)
      <4>1. InBlobs(Routed, k)' = InBlobs(Folded \cup done \cup {b}, k)
        BY <1>3, <2>2
      <4>2. InBlobs(Routed \cup {b}, k) = S \cup T
        BY <3>4, InBlobsUnion
      <4>3. Routed \cup {b} = Folded \cup done \cup {b}
        BY <3>2
      <4>. QED BY <1>5, <4>1, <4>2, <4>3
    <3>9. RoutedElements \cup InBlobs(B, Decoded) = E \cup (S \cup T)
      BY <1>4, <1>5, <3>4
    <3>10. PICK s : s = rows \o InBlobOrder(B, BlobRows)
      OBVIOUS
    <3>11. ListsRows(s, E \cup (S \cup T)) /\ rows' = s
      BY <3>1, <3>4, <3>7, <3>9, <3>10
    <3>. QED BY ONLY <1>1, <3>8, <3>11, RowsBecome
  <2>. QED BY <2>1, <2>2
<1>7. ListedRelations' = ListedRelations /\ ListedWays' = ListedWays
  <2>1. RefRelations' = RefRelations /\ RefKept' = RefKept
    BY <1>1, Static
  <2>2. /\ InBlobs(Folded, "relation")' = InBlobs(Folded, "relation")
        /\ InBlobs(Folded, "way")' = InBlobs(Folded, "way")
    BY <1>3
  <2>. QED BY <1>1, <2>1, <2>2 DEF ListedRelations, ListedWays
<1>8. IdsListed'
  BY <1>1, <1>7, KeptStays DEF RowInv
<1>9. ScansUnsorted'
  BY <1>1, <1>2 DEF ScansUnsorted, SortedPasses
<1>. QED BY <1>6, <1>8, <1>9 DEF RowInv

\* The pass has routed, and listed, every element of its kind.
LEMMA NextPassRows == ASSUME SelectInv, RowInv, NextPass PROVE RowInv'
<1>1. /\ pass \in SortedPasses /\ ChunkBlobs = {} /\ file' = file /\ mode' = mode /\ done' = done
      /\ pass' = (CASE pass = "relations" -> "ways" [] pass = "ways" -> "nodes" [] OTHER -> "done")
      /\ at' = (IF pass = "relations" THEN WayStart + 1 ELSE 1)
      /\ rows' = rows /\ keptRels' = keptRels /\ keptWays' = keptWays
  BY DEF NextPass, SortedPasses, routedVars, context
<1>2. Control /\ done = {} /\ file \in Files /\ Sorted
  BY <1>1 DEF SelectInv, Control
<1>3. Folded = Region /\ Routed = Region /\ InBlobs(Region, Decoded) = Kind(Decoded)
  <2>1. Folded = Region /\ InBlobs(Region, Decoded) = Kind(Decoded)
    BY <1>1, <1>2, ChunkFacts, RegionFacts
  <2>. QED BY <1>2, <2>1 DEF Routed
<1>4. /\ RelStart' = RelStart /\ WayStart' = WayStart /\ RefRelations' = RefRelations /\ RefKept' = RefKept
      /\ Kind("relation")' = Kind("relation") /\ Kind("way")' = Kind("way") /\ Kind("node")' = Kind("node")
  BY <1>1, Static
<1>5. WayStart \in Int /\ RelStart \in Int
  <2>1. WayStart \in 0..Len(file) /\ RelStart \in WayStart..Len(file) /\ Len(file) \in Nat
    BY <1>1, <1>2, Layout, FileFacts DEF Control, Sorted
  <2>2. WayStart \in Int
    BY ONLY <2>1
  <2>. QED BY ONLY <2>1, <2>2
<1>6. PICK s, S : s = rows /\ S = Earlier \cup Kind(Decoded)
  OBVIOUS
<1>7. ListsRows(s, S) /\ rows' = s
  <2>1. RoutedElements = Earlier \cup InBlobs(Region, Decoded)
    BY <1>1, <1>3 DEF RoutedElements, SortedPasses
  <2>. QED BY <1>1, <1>3, <1>6, <2>1 DEF RowInv, RowsListed
<1>8. CASE pass = "relations"
  <2>1. pass' = "ways" /\ at' = WayStart + 1
    BY <1>1, <1>8
  <2>2. Folded' = {} /\ Routed' = {}
    <3>1. Region' = (WayStart + 1)..RelStart
      BY <1>4, <2>1 DEF Region
    <3>2. \A b \in (WayStart + 1)..RelStart : ~(b < WayStart + 1)
      BY <1>5
    <3>3. Folded' = {}
      BY <2>1, <3>1, <3>2 DEF Folded
    <3>. QED BY <1>1, <1>2, <3>3 DEF Routed
  <2>3. InBlobs(Routed, Decoded)' = {} /\ InBlobs(Folded, "way")' = {}
    BY <2>2 DEF InBlobs
  <2>4. RoutedElements' = S
    <3>1. Earlier' = Kind("relation")
      BY <1>4, <2>1 DEF Earlier
    <3>2. S = Kind("relation")
      BY <1>6, <1>8 DEF Earlier, Decoded
    <3>3. RoutedElements' = Earlier' \cup InBlobs(Routed, Decoded)'
      BY <2>1 DEF RoutedElements, SortedPasses
    <3>. QED BY <2>3, <3>1, <3>2, <3>3
  <2>5. RowsListed'
    BY ONLY <1>1, <1>7, <2>4, RowsBecome
  <2>6. ListedRelations' = ListedRelations /\ ListedWays' = ListedWays
    <3>1. ListedRelations' = RefRelations /\ ListedWays' = {}
      BY <1>4, <2>1, <2>3 DEF ListedRelations, ListedWays
    <3>2. ListedRelations = Kind("relation") \cap RefRelations /\ ListedWays = {}
      BY <1>3, <1>8 DEF ListedRelations, ListedWays, Decoded
    <3>3. RefRelations \subseteq Kind("relation")
      BY DEF RefRelations
    <3>. QED BY <3>1, <3>2, <3>3
  <2>7. IdsListed'
    BY <1>1, <2>6, KeptStays DEF RowInv
  <2>8. ScansUnsorted'
    BY <2>1 DEF ScansUnsorted
  <2>. QED BY <2>5, <2>7, <2>8 DEF RowInv
<1>9. CASE pass = "ways"
  <2>1. pass' = "nodes" /\ at' = 1
    BY <1>1, <1>9
  <2>2. Routed' = {}
    <3>1. Region' = 1..WayStart
      BY <1>4, <2>1 DEF Region
    <3>2. \A b \in 1..WayStart : ~(b < 1)
      BY <1>5
    <3>3. Folded' = {}
      BY <2>1, <3>1, <3>2 DEF Folded
    <3>. QED BY <1>1, <1>2, <3>3 DEF Routed
  <2>3. InBlobs(Routed, Decoded)' = {}
    BY <2>2 DEF InBlobs
  <2>4. RoutedElements' = S
    <3>1. Earlier' = Kind("relation") \cup Kind("way")
      BY <1>4, <2>1 DEF Earlier
    <3>2. S = Kind("relation") \cup Kind("way")
      BY <1>6, <1>9 DEF Earlier, Decoded
    <3>3. RoutedElements' = Earlier' \cup InBlobs(Routed, Decoded)'
      BY <2>1 DEF RoutedElements, SortedPasses
    <3>. QED BY <2>3, <3>1, <3>2, <3>3
  <2>5. RowsListed'
    BY ONLY <1>1, <1>7, <2>4, RowsBecome
  <2>6. ListedRelations' = ListedRelations /\ ListedWays' = ListedWays
    <3>1. ListedRelations' = RefRelations /\ ListedWays' = RefKept
      BY <1>4, <2>1 DEF ListedRelations, ListedWays
    <3>2. ListedRelations = RefRelations /\ ListedWays = Kind("way") \cap RefKept
      BY <1>3, <1>9 DEF ListedRelations, ListedWays, Decoded
    <3>3. RefKept \subseteq Kind("way")
      BY DEF RefKept
    <3>. QED BY <3>1, <3>2, <3>3
  <2>7. IdsListed'
    BY <1>1, <2>6, KeptStays DEF RowInv
  <2>8. ScansUnsorted'
    BY <2>1 DEF ScansUnsorted
  <2>. QED BY <2>5, <2>7, <2>8 DEF RowInv
<1>10. CASE pass = "nodes"
  <2>1. pass' = "done"
    BY <1>1, <1>10
  <2>2. RoutedElements' = S
    <3>1. Earlier' = Kind("relation") \cup Kind("way") \cup Kind("node")
      BY <1>4, <2>1 DEF Earlier
    <3>2. S = Kind("relation") \cup Kind("way") \cup Kind("node")
      BY <1>6, <1>10 DEF Earlier, Decoded
    <3>. QED BY <2>1, <3>1, <3>2 DEF RoutedElements, SortedPasses
  <2>3. RowsListed'
    BY ONLY <1>1, <1>7, <2>2, RowsBecome
  <2>4. ListedRelations' = ListedRelations /\ ListedWays' = ListedWays
    BY <1>4, <1>10, <2>1 DEF ListedRelations, ListedWays
  <2>5. IdsListed'
    BY <1>1, <2>4, KeptStays DEF RowInv
  <2>6. ScansUnsorted'
    BY <2>1 DEF ScansUnsorted
  <2>. QED BY <2>3, <2>5, <2>6 DEF RowInv
<1>. QED BY <1>1, <1>8, <1>9, <1>10 DEF SortedPasses

-----------------------------------------------------------------------------
(* The fallback: on a file that is not laid out as the header says, so in  *)
(* any order.                                                              *)

LEMMA UnsortedIds ==
  ASSUME file' = file, mode' = mode, ~Sorted
  PROVE  IdsListed'
<1>1. Sorted' = Sorted
  BY Static
<1>. QED BY <1>1 DEF IdsListed

\* The scan meets every relation, each once.
LEMMA RelationsMet ==
  ASSUME file \in Files, NEW rels, rels = FlattenSeq([b \in DOMAIN file |-> Of(b, "relation")])
  PROVE  /\ \E n \in Nat : DOMAIN rels = 1..n
         /\ \A i \in DOMAIN rels : rels[i] \in Kind("relation")
         /\ \A e \in Kind("relation") : \E i \in DOMAIN rels : rels[i] = e
         /\ \A i, j \in DOMAIN rels : i < j => rels[i] # rels[j]
<1>. DEFINE Same == {xy \in Elements \X Elements : xy[1] = xy[2]}
<1>1. PICK U, B : U = Elements /\ B = Same
  OBVIOUS
<1>2. PICK q : q = [b \in DOMAIN file |-> Of(b, "relation")]
  OBVIOUS
<1>3. Len(file) \in Nat /\ DOMAIN file = 1..Len(file)
  BY FileFacts
<1>4. ASSUME NEW b \in DOMAIN file
      PROVE  /\ q[b] \in Seq(U) /\ Range(q[b]) = {e \in Range(file[b]) : e.kind = "relation"}
             /\ Avoids(q[b], B)
  <2>1. b \in DOMAIN file /\ q[b] = Of(b, "relation")
    BY <1>2
  <2>2. PICK es : es = q[b]
    OBVIOUS
  <2>3. es = Of(b, "relation")
    BY <2>1, <2>2
  <2>4. \E n \in Nat : DOMAIN es = 1..n
    BY ONLY file \in Files, <2>1, <2>3, OfFit
  <2>5. \A i \in DOMAIN es : es[i] \in Kind("relation")
    BY ONLY file \in Files, <2>1, <2>3, OfFit
  <2>6. \A i, j \in DOMAIN es : i < j => Fits({es[i]}, {es[j]})
    BY ONLY file \in Files, <2>1, <2>3, OfFit
  <2>7. Range(Of(b, "relation")) = {e \in Range(file[b]) : e.kind = "relation"} /\ es \in Seq(FileElement)
    BY <2>3, OfFacts
  <2>8. es \in Seq(U)
    <3>1. PICK n \in Nat : DOMAIN es = 1..n
      BY <2>4
    <3>2. es = [i \in 1..n |-> es[i]]
      BY <2>7, <3>1, ElementOfSeq, LenProperties
    <3>3. es \in [1..n -> U]
      BY <1>1, <2>5, <3>1, <3>2 DEF Kind
    <3>. QED BY <3>3, SeqDef
  <2>9. Avoids(es, B)
    <3>. SUFFICES ASSUME NEW i \in DOMAIN es, NEW j \in DOMAIN es, i < j PROVE <<es[i], es[j]>> \notin B
      BY DEF Avoids
    <3>1. es[i] # es[j]
      BY <2>6 DEF Fits
    <3>. QED BY <1>1, <3>1
  <2>. QED BY <2>2, <2>3, <2>7, <2>8, <2>9
<1>5. q \in Seq(Seq(U)) /\ DOMAIN q = DOMAIN file
  <2>1. q \in [1..Len(file) -> Seq(U)]
    BY <1>2, <1>3, <1>4
  <2>. QED BY <1>3, <2>1, SeqDef
<1>6. \A b, c \in DOMAIN q : b < c => \A x \in Range(q[b]), y \in Range(q[c]) : <<x, y>> \notin B
  <2>. SUFFICES ASSUME NEW b \in DOMAIN file, NEW c \in DOMAIN file, b < c,
                       NEW x \in Range(q[b]), NEW y \in Range(q[c])
                PROVE  x # y
    BY <1>1, <1>5
  <2>1. x \in Range(file[b]) /\ y \in Range(file[c])
    BY <1>4
  <2>2. PICK i \in DOMAIN file[b] : x = file[b][i]
    BY <2>1 DEF Range
  <2>3. PICK j \in DOMAIN file[c] : y = file[c][j]
    BY <2>1 DEF Range
  <2>4. ASSUME x = y PROVE FALSE
    <3>1. file[b][i].id = file[c][j].id
      BY <2>2, <2>3, <2>4
    <3>2. b = c
      BY <3>1, SelectAssumption
    <3>3. b \in Int
      BY <1>3
    <3>. QED BY ONLY <3>2, <3>3, b < c
  <2>. QED BY <2>4
<1>7. rels = FlattenSeq(q)
  BY <1>2
<1>8. \A b \in DOMAIN q : Avoids(q[b], B)
  BY <1>4, <1>5
<1>9. /\ rels \in Seq(U) /\ Avoids(rels, B)
      /\ Range(rels) = UNION {Range(q[b]) : b \in DOMAIN q}
  BY ONLY <1>5, <1>6, <1>7, <1>8, FlattenAvoids
<1>10. Len(rels) \in Nat /\ DOMAIN rels = 1..Len(rels)
  BY <1>9, LenProperties
<1>11. ASSUME NEW e PROVE e \in Range(rels) <=> e \in Kind("relation")
  <2>1. e \in Range(rels) <=> \E b \in DOMAIN file : e \in Range(q[b])
    BY <1>5, <1>9
  <2>2. e \in Range(rels) <=> e.kind = "relation" /\ \E b \in DOMAIN file : e \in Range(file[b])
    BY <1>4, <2>1
  <2>. QED BY <2>2 DEF Kind, Elements
<1>12. \A i \in DOMAIN rels : rels[i] \in Range(rels)
  BY DEF Range
<1>13. \A e \in Range(rels) : \E i \in DOMAIN rels : rels[i] = e
  BY DEF Range
<1>14. \A i, j \in DOMAIN rels : i < j => rels[i] # rels[j]
  <2>. SUFFICES ASSUME NEW i \in DOMAIN rels, NEW j \in DOMAIN rels, i < j PROVE rels[i] # rels[j]
    OBVIOUS
  <2>1. rels[i] \in Elements /\ rels[j] \in Elements
    BY <1>11, <1>12 DEF Kind
  <2>2. <<rels[i], rels[j]>> \notin Same
    BY <1>1, <1>9 DEF Avoids
  <2>. QED BY <2>1, <2>2
<1>15. \E n \in Nat : DOMAIN rels = 1..n
  BY <1>10
<1>16. \A i \in DOMAIN rels : rels[i] \in Kind("relation")
  BY <1>11, <1>12
<1>17. \A e \in Kind("relation") : \E i \in DOMAIN rels : rels[i] = e
  BY <1>11, <1>13
<1>. QED BY <1>14, <1>15, <1>16, <1>17

LEMMA ScanRelationsRows == ASSUME SelectInv, RowInv, ScanRelations PROVE RowInv'
<1>1. /\ pass = "scan relations" /\ pass' = "scan ways" /\ done' = done /\ file' = file /\ mode' = mode
  BY DEF ScanRelations
<1>2. file \in Files /\ done = {} /\ ~Sorted
  BY <1>1 DEF SelectInv, Control, RowInv, ScansUnsorted
<1>3. PICK rels : rels = FlattenSeq([b \in DOMAIN file |-> Of(b, "relation")])
  OBVIOUS
<1>4. rows' = FlattenSeq([i \in DOMAIN rels |-> PlainRows(rels[i])])
  BY <1>3 DEF ScanRelations
<1>5. \E n \in Nat : DOMAIN rels = 1..n
  BY ONLY <1>2, <1>3, RelationsMet
<1>6. \A i \in DOMAIN rels : rels[i] \in Kind("relation")
  BY ONLY <1>2, <1>3, RelationsMet
<1>7. \A e \in Kind("relation") : \E i \in DOMAIN rels : rels[i] = e
  BY ONLY <1>2, <1>3, RelationsMet
<1>8. \A i, j \in DOMAIN rels : i < j => rels[i] # rels[j]
  BY ONLY <1>2, <1>3, RelationsMet
<1>9. PICK n \in Nat : DOMAIN rels = 1..n
  BY <1>5
<1>10. PICK q, G : q = [i \in 1..n |-> PlainRows(rels[i])] /\ G = [i \in 1..n |-> {rels[i]}]
  OBVIOUS
<1>11. /\ q = [i \in 1..n |-> q[i]] /\ G \in [1..n -> SUBSET Elements]
       /\ \A i \in 1..n : q[i] = PlainRows(rels[i]) /\ G[i] = {rels[i]}
  BY <1>6, <1>9, <1>10 DEF Kind
<1>12. \A i \in 1..n : ListsRows(q[i], G[i])
  <2>1. \A i \in 1..n : ListsRows(PlainRows(rels[i]), {rels[i]})
    BY <1>2, <1>6, <1>9, PlainRowsList DEF Kind
  <2>. QED BY <1>11, <2>1
<1>13. \A i, j \in 1..n : i < j => Fits(G[i], G[j])
  <2>. SUFFICES ASSUME NEW i \in 1..n, NEW j \in 1..n, i < j PROVE Fits(G[i], G[j])
    OBVIOUS
  <2>1. G[i] \cap G[j] = {}
    BY <1>8, <1>9, <1>11
  <2>2. ~(mode.ordered /\ Sorted)
    BY <1>2
  <2>. QED BY ONLY <2>1, <2>2, DisjointFit
<1>14. PICK V, s : V = Kind("relation") /\ s = FlattenSeq(q)
  OBVIOUS
<1>15. \A e : e \in V <=> \E i \in 1..n : e \in G[i]
  BY <1>6, <1>7, <1>9, <1>11, <1>14
<1>16. ListsRows(FlattenSeq(q), V)
  BY ONLY <1>2, <1>9, <1>11, <1>12, <1>13, <1>15, RowsFlatten
<1>17. RoutedElements' = V
  <2>1. Kind("relation")' = V
    BY <1>1, <1>14, Static
  <2>. QED BY <1>1, <1>2, <2>1 DEF RoutedElements, Earlier, SortedPasses
<1>18. RowsListed'
  <2>1. ListsRows(s, V) /\ rows' = s
    BY <1>4, <1>9, <1>10, <1>14, <1>16
  <2>. QED BY ONLY <1>1, <1>17, <2>1, RowsBecome
<1>19. IdsListed'
  BY <1>1, <1>2, UnsortedIds
<1>20. ScansUnsorted'
  BY <1>1, <1>2, Static DEF ScansUnsorted
<1>. QED BY <1>18, <1>19, <1>20 DEF RowInv

\* One more element, not scanned before.
LEMMA ScanMore ==
  ASSUME file \in Files, ~Sorted, RowsListed, NEW e \in Elements, e \notin RoutedElements,
         RoutedElements \subseteq Elements, NEW t, ListsRows(t, {e})
  PROVE  ListsRows(rows \o t, RoutedElements \cup {e})
<1>1. PICK s, S, T : s = rows /\ S = RoutedElements /\ T = {e}
  OBVIOUS
<1>2. S \in SUBSET Elements /\ T \in SUBSET Elements /\ S \cap T = {} /\ ~(mode.ordered /\ Sorted)
  BY <1>1
<1>3. Fits(S, T)
  BY ONLY <1>2, DisjointFit
<1>4. ListsRows(s, S) /\ ListsRows(t, T)
  BY <1>1 DEF RowsListed
<1>5. ListsRows(s \o t, S \cup T)
  BY ONLY file \in Files, <1>2, <1>3, <1>4, RowsConcat
<1>. QED BY <1>1, <1>5

LEMMA ScanWayRows == ASSUME SelectInv, RowInv, NEW w \in Kind("way"), ScanWay(w) PROVE RowInv'
<1>1. /\ pass = "scan ways" /\ pass' = "scan ways" /\ w \notin done /\ done' = done \cup {w}
      /\ file' = file /\ mode' = mode /\ rows' = rows \o WayRows(w)
  BY DEF ScanWay
<1>2. file \in Files /\ done \subseteq Kind("way") /\ ~Sorted /\ AllRelations /\ RowsListed
  BY <1>1 DEF SelectInv, Control, Progress, RowInv, ScansUnsorted
<1>3. ListsRows(WayRows(w), {w})
  BY <1>2, WayRowsList
<1>4. RoutedElements = Kind("relation") \cup done
  BY <1>1 DEF RoutedElements, Earlier, SortedPasses
<1>5. w \in Elements /\ RoutedElements \subseteq Elements /\ w \notin RoutedElements
  BY <1>1, <1>2, <1>4 DEF Kind
<1>6. PICK t, s, S : t = WayRows(w) /\ s = rows \o t /\ S = RoutedElements \cup {w}
  OBVIOUS
<1>7. ListsRows(rows \o t, RoutedElements \cup {w})
  BY ONLY <1>2, <1>3, <1>5, <1>6, ScanMore
<1>8. RoutedElements' = S
  <2>1. Kind("relation")' = Kind("relation")
    BY <1>1, Static
  <2>2. RoutedElements' = Kind("relation") \cup (done \cup {w})
    BY <1>1, <2>1 DEF RoutedElements, Earlier, SortedPasses
  <2>. QED BY <1>4, <1>6, <2>2
<1>9. RowsListed'
  <2>1. ListsRows(s, S) /\ rows' = s
    BY <1>1, <1>6, <1>7
  <2>. QED BY ONLY <1>1, <1>8, <2>1, RowsBecome
<1>10. IdsListed'
  BY <1>1, <1>2, UnsortedIds
<1>11. ScansUnsorted'
  <2>1. Sorted' = Sorted
    BY <1>1, Static
  <2>. QED BY <1>2, <2>1 DEF ScansUnsorted
<1>. QED BY <1>9, <1>10, <1>11 DEF RowInv

LEMMA EndOfWaysRows == ASSUME SelectInv, RowInv, EndOfWays PROVE RowInv'
<1>1. /\ pass = "scan ways" /\ done = Kind("way") /\ pass' = "scan nodes" /\ done' = {}
      /\ file' = file /\ mode' = mode /\ rows' = rows
  BY DEF EndOfWays, routedVars
<1>2. ~Sorted /\ RowsListed
  BY <1>1 DEF RowInv, ScansUnsorted
<1>3. PICK s, S : s = rows /\ S = Kind("relation") \cup Kind("way")
  OBVIOUS
<1>4. RoutedElements = S
  BY <1>1, <1>3 DEF RoutedElements, Earlier, SortedPasses
<1>5. RoutedElements' = S
  <2>1. Kind("relation")' = Kind("relation") /\ Kind("way")' = Kind("way")
    BY <1>1, Static
  <2>. QED BY <1>1, <1>3, <2>1 DEF RoutedElements, Earlier, SortedPasses
<1>6. RowsListed'
  <2>1. ListsRows(s, S) /\ rows' = s
    BY <1>1, <1>2, <1>3, <1>4 DEF RowsListed
  <2>. QED BY ONLY <1>1, <1>5, <2>1, RowsBecome
<1>7. IdsListed'
  BY <1>1, <1>2, UnsortedIds
<1>8. ScansUnsorted'
  <2>1. Sorted' = Sorted
    BY <1>1, Static
  <2>. QED BY <1>2, <2>1 DEF ScansUnsorted
<1>. QED BY <1>6, <1>7, <1>8 DEF RowInv

LEMMA ScanNodeRows == ASSUME SelectInv, RowInv, NEW n \in Kind("node"), ScanNode(n) PROVE RowInv'
<1>. DEFINE classified == mode.hasNodes /\ (Referenced(n) \/ Classified(n))
<1>1. /\ pass = "scan nodes" /\ pass' = "scan nodes" /\ n \notin done /\ done' = done \cup {n}
      /\ file' = file /\ mode' = mode /\ rows' = rows \o (IF classified THEN PlainRows(n) ELSE <<>>)
  BY DEF ScanNode
<1>2. /\ file \in Files /\ mode \in Modes /\ done \subseteq Kind("node") /\ ~Sorted /\ AllWays /\ RowsListed
  BY <1>1 DEF SelectInv, Control, Progress, RowInv, ScansUnsorted
<1>3. /\ RefUses(n) \in Nat /\ (Referenced(n) <=> RefUses(n) > 0)
      /\ n.topics # {} => (Classified(n) <=> n \in RefClassified)
  BY <1>2, NodesSeen
<1>4. n.topics # {} => (classified <=> n \in RefClassified)
  <2>1. Referenced(n) => ~RefExtraOnly(n)
    BY <1>3 DEF RefExtraOnly
  <2>2. n \in RefClassified <=> mode.hasNodes /\ ~RefExtraOnly(n)
    BY DEF RefClassified
  <2>. QED BY <1>3, <2>1, <2>2
<1>5. PICK c \in BOOLEAN : c <=> classified
  OBVIOUS
<1>. HIDE DEF classified
<1>6. PICK t : t = IF c THEN PlainRows(n) ELSE <<>>
  OBVIOUS
<1>7. ListsRows(t, {n})
  <2>1. n.topics # {} => (c <=> n \in RefClassified)
    BY <1>4, <1>5
  <2>2. ListsRows(IF c THEN PlainRows(n) ELSE <<>>, {n})
    BY <1>2, <2>1, NodeRowsList
  <2>. QED BY <1>6, <2>2
<1>8. rows' = rows \o t
  BY <1>1, <1>5, <1>6
<1>9. RoutedElements = (Kind("relation") \cup Kind("way")) \cup done
  BY <1>1 DEF RoutedElements, Earlier, SortedPasses
<1>10. n \in Elements /\ RoutedElements \subseteq Elements /\ n \notin RoutedElements
  BY <1>1, <1>2, <1>9 DEF Kind
<1>11. PICK s, S : s = rows \o t /\ S = RoutedElements \cup {n}
  OBVIOUS
<1>12. ListsRows(rows \o t, RoutedElements \cup {n})
  BY ONLY <1>2, <1>7, <1>10, ScanMore
<1>13. RoutedElements' = S
  <2>1. Kind("relation")' = Kind("relation") /\ Kind("way")' = Kind("way")
    BY <1>1, Static
  <2>2. RoutedElements' = (Kind("relation") \cup Kind("way")) \cup (done \cup {n})
    BY <1>1, <2>1 DEF RoutedElements, Earlier, SortedPasses
  <2>. QED BY <1>9, <1>11, <2>2
<1>14. RowsListed'
  <2>1. ListsRows(s, S) /\ rows' = s
    BY <1>8, <1>11, <1>12
  <2>. QED BY ONLY <1>1, <1>13, <2>1, RowsBecome
<1>15. IdsListed'
  BY <1>1, <1>2, UnsortedIds
<1>16. ScansUnsorted'
  <2>1. Sorted' = Sorted
    BY <1>1, Static
  <2>. QED BY <1>2, <2>1 DEF ScansUnsorted
<1>. QED BY <1>14, <1>15, <1>16 DEF RowInv

LEMMA EndOfNodesRows == ASSUME SelectInv, RowInv, EndOfNodes PROVE RowInv'
<1>1. /\ pass = "scan nodes" /\ done = Kind("node") /\ pass' = "done"
      /\ file' = file /\ mode' = mode /\ rows' = rows
  BY DEF EndOfNodes, routedVars
<1>2. ~Sorted /\ RowsListed
  BY <1>1 DEF RowInv, ScansUnsorted
<1>3. PICK s, S : s = rows /\ S = Kind("relation") \cup Kind("way") \cup Kind("node")
  OBVIOUS
<1>4. RoutedElements = S
  BY <1>1, <1>3 DEF RoutedElements, Earlier, SortedPasses
<1>5. RoutedElements' = S
  <2>1. Kind("relation")' = Kind("relation") /\ Kind("way")' = Kind("way") /\ Kind("node")' = Kind("node")
    BY <1>1, Static
  <2>. QED BY <1>1, <1>3, <2>1 DEF RoutedElements, Earlier, SortedPasses
<1>6. RowsListed'
  <2>1. ListsRows(s, S) /\ rows' = s
    BY <1>1, <1>2, <1>3, <1>4 DEF RowsListed
  <2>. QED BY ONLY <1>1, <1>5, <2>1, RowsBecome
<1>7. IdsListed' /\ ScansUnsorted'
  BY <1>1, <1>2, UnsortedIds DEF ScansUnsorted
<1>. QED BY <1>6, <1>7 DEF RowInv

LEMMA StutterRows == ASSUME SelectInv, RowInv, UNCHANGED vars PROVE RowInv'
<1>1. /\ file' = file /\ mode' = mode /\ pass' = pass /\ at' = at /\ done' = done
      /\ rows' = rows /\ keptRels' = keptRels /\ keptWays' = keptWays
  BY DEF vars, routedVars, context
<1>2. /\ Sorted' = Sorted /\ RelStart' = RelStart /\ WayStart' = WayStart
      /\ RefRelations' = RefRelations /\ RefKept' = RefKept
      /\ \A b, k : Of(b, k)' = Of(b, k)
  BY <1>1, Static
<1>3. Region' = Region /\ Decoded' = Decoded /\ Earlier' = Earlier
  BY <1>1, <1>2, EarlierStays DEF Region, Decoded
<1>4. Folded' = Folded /\ Routed' = Routed
  BY <1>1, <1>3 DEF Folded, Routed
<1>5. \A k : InBlobs(Folded, k)' = InBlobs(Folded, k) /\ InBlobs(Routed, k)' = InBlobs(Routed, k)
  BY <1>2, <1>4 DEF InBlobs
<1>6. InBlobs(Routed, Decoded)' = InBlobs(Routed, Decoded)
  <2>1. PICK k : k = Decoded
    OBVIOUS
  <2>. QED BY <1>3, <1>5, <2>1
<1>7. RoutedElements' = RoutedElements
  BY <1>1, <1>3, <1>6 DEF RoutedElements
<1>8. ListedRelations' = ListedRelations /\ ListedWays' = ListedWays
  <2>1. /\ InBlobs(Folded, "relation")' = InBlobs(Folded, "relation")
        /\ InBlobs(Folded, "way")' = InBlobs(Folded, "way")
    BY <1>5
  <2>. QED BY <1>1, <1>2, <2>1 DEF ListedRelations, ListedWays
<1>9. RowsListed'
  <2>1. PICK s, S : s = rows /\ S = RoutedElements
    OBVIOUS
  <2>2. ListsRows(s, S) /\ rows' = s /\ RoutedElements' = S
    BY <1>1, <1>7, <2>1 DEF RowInv, RowsListed
  <2>. QED BY ONLY <1>1, <2>2, RowsBecome
<1>10. IdsListed'
  BY <1>1, <1>8, KeptStays DEF RowInv
<1>11. ScansUnsorted'
  BY <1>1, <1>2 DEF RowInv, ScansUnsorted
<1>. QED BY <1>9, <1>10, <1>11 DEF RowInv

-----------------------------------------------------------------------------
(* The theorems on rows and their order.                                   *)

\* At every point the rows are those of the elements routed so far, each once and, in an
\* ordered run, each kind's in file order; what is listed as kept follows the same order.
THEOREM RowsInvariant == HonestSpec => [](SelectInv /\ RowInv)
<1>1. Init /\ (mode.sorted => BlobsInOrder) => RowInv
  BY FirstRows
<1>2. SelectInv /\ RowInv /\ [Next]_vars => RowInv'
  <2>. SUFFICES ASSUME SelectInv, RowInv, [Next]_vars PROVE RowInv'
    OBVIOUS
  <2>1. ASSUME NEW b \in DOMAIN file, Classify(b) PROVE RowInv'
    BY <2>1, ClassifyRows
  <2>2. CASE FoldRelations
    BY <2>2, FoldRelationsRows
  <2>3. CASE FoldWays
    BY <2>3, FoldWaysRows
  <2>4. CASE FoldNodes
    BY <2>4, FoldNodesRows
  <2>5. CASE NextPass
    BY <2>5, NextPassRows
  <2>6. CASE ScanRelations
    BY <2>6, ScanRelationsRows
  <2>7. CASE EndOfWays
    BY <2>7, EndOfWaysRows
  <2>8. CASE EndOfNodes
    BY <2>8, EndOfNodesRows
  <2>9. ASSUME NEW w \in Kind("way"), ScanWay(w) PROVE RowInv'
    BY <2>9, ScanWayRows
  <2>10. ASSUME NEW n \in Kind("node"), ScanNode(n) PROVE RowInv'
    BY <2>10, ScanNodeRows
  <2>11. CASE UNCHANGED vars
    BY <2>11, StutterRows
  <2>. QED BY <2>1, <2>2, <2>3, <2>4, <2>5, <2>6, <2>7, <2>8, <2>9, <2>10, <2>11 DEF Next, Done
<1>. QED BY <1>1, <1>2, SelectInvariant, PTL DEF HonestSpec, HonestInit

\* A list that avoids equal pairs repeats nothing.
LEMMA NothingTwice ==
  ASSUME NEW U, NEW s \in Seq(U), NEW B, Avoids(s, B), \A x \in Range(s) : <<x, x>> \in B
  PROVE  IsInjective(s)
<1>. SUFFICES ASSUME NEW i \in DOMAIN s, NEW j \in DOMAIN s, s[i] = s[j], i # j PROVE FALSE
  BY DEF IsInjective
<1>1. Len(s) \in Nat /\ DOMAIN s = 1..Len(s)
  BY LenProperties
<1>2. i \in Int /\ j \in Int
  BY <1>1
<1>3. i < j \/ j < i
  BY <1>2
<1>4. <<s[i], s[i]>> \in B
  BY DEF Range
<1>5. ~(i < j) /\ ~(j < i)
  BY <1>4 DEF Avoids
<1>. QED BY <1>3, <1>5

\* Every row of every kept element is routed exactly once, whatever the blob layout, the
\* interleaving of the closures and the path: no chunk boundary, region boundary or parallel
\* scan loses a row or routes one twice.
THEOREM RowsAreRoutedOnce == HonestSpec => []RowsOnce
<1>1. SelectInv /\ RowInv => RowsOnce
  <2>. SUFFICES ASSUME SelectInv, RowInv, pass = "done" PROVE IsInjective(rows) /\ Range(rows) = RefRows
    BY DEF RowsOnce
  <2>1. RoutedElements = Kind("relation") \cup Kind("way") \cup Kind("node")
    BY DEF RoutedElements, Earlier, SortedPasses
  <2>2. PICK S : S = RoutedElements
    OBVIOUS
  <2>3. rows \in Seq(RowsOf(S)) /\ Range(rows) = RowsOf(S) /\ Avoids(rows, BadRows)
    BY <2>2 DEF RowInv, RowsListed, ListsRows
  <2>4. RowsOf(S) \subseteq RowsOf(Elements)
    <3>1. S \subseteq Elements
      BY <2>1, <2>2 DEF Kind
    <3>. QED BY <3>1, RowsOfMore
  <2>5. \A x \in Range(rows) : <<x, x>> \in BadRows
    BY <2>3, <2>4 DEF BadRows
  <2>6. IsInjective(rows)
    <3>1. PICK U, B, s : U = RowsOf(S) /\ B = BadRows /\ s = rows
      OBVIOUS
    <3>2. s \in Seq(U) /\ Avoids(s, B) /\ \A x \in Range(s) : <<x, x>> \in B
      BY <2>3, <2>5, <3>1
    <3>3. IsInjective(s)
      BY ONLY <3>2, NothingTwice
    <3>. QED BY <3>1, <3>3
  <2>7. RowsOf(S) = RefRows
    <3>1. ASSUME NEW e \in Kind("relation")
          PROVE  RowSet(e) = {[of |-> e.id, topic |-> t, parents |-> <<>>] : t \in e.topics}
      BY DEF RowSet, Kind
    <3>2. ASSUME NEW e \in Kind("way")
          PROVE  RowSet(e) = {[of |-> e.id, topic |-> t, parents |-> ListedBy(RefParents(e, t))] : t \in RefTopics(e)}
      BY DEF RowSet, Kind
    <3>3. ASSUME NEW e \in Kind("node")
          PROVE  RowSet(e) = {[of |-> e.id, topic |-> t, parents |-> <<>>] : t \in {u \in e.topics : e \in RefClassified}}
      BY DEF RowSet, Kind
    <3>4. ASSUME NEW y PROVE y \in RowsOf(Kind("relation")) <=>
            \E e \in RefRelations : \E t \in e.topics : y = [of |-> e.id, topic |-> t, parents |-> <<>>]
      BY <3>1 DEF RowsOf, RefRelations
    <3>5. ASSUME NEW y PROVE y \in RowsOf(Kind("way")) <=>
            \E e \in RefKept : \E t \in RefTopics(e) :
               y = [of |-> e.id, topic |-> t, parents |-> ListedBy(RefParents(e, t))]
      BY <3>2 DEF RowsOf, RefKept
    <3>6. ASSUME NEW y PROVE y \in RowsOf(Kind("node")) <=>
            \E e \in RefClassified : \E t \in e.topics : y = [of |-> e.id, topic |-> t, parents |-> <<>>]
      <4>1. RefClassified \subseteq Kind("node")
        BY DEF RefClassified
      <4>. QED BY <3>3, <4>1 DEF RowsOf
    <3>7. RowsOf(S) = (RowsOf(Kind("relation")) \cup RowsOf(Kind("way"))) \cup RowsOf(Kind("node"))
      <4>1. PICK R, W, N : R = Kind("relation") /\ W = Kind("way") /\ N = Kind("node")
        OBVIOUS
      <4>2. RowsOf((R \cup W) \cup N) = (RowsOf(R) \cup RowsOf(W)) \cup RowsOf(N)
        <5>1. RowsOf((R \cup W) \cup N) = RowsOf(R \cup W) \cup RowsOf(N)
          BY RowsOfUnion
        <5>2. RowsOf(R \cup W) = RowsOf(R) \cup RowsOf(W)
          BY RowsOfUnion
        <5>. QED BY <5>1, <5>2
      <4>3. S = (R \cup W) \cup N
        BY <2>1, <2>2, <4>1
      <4>. QED BY ONLY <4>1, <4>2, <4>3
    <3>8. ASSUME NEW y PROVE y \in RefRows <=>
            \/ \E e \in RefRelations : \E t \in e.topics : y = [of |-> e.id, topic |-> t, parents |-> <<>>]
            \/ \E e \in RefKept : \E t \in RefTopics(e) :
                 y = [of |-> e.id, topic |-> t, parents |-> ListedBy(RefParents(e, t))]
            \/ \E e \in RefClassified : \E t \in e.topics : y = [of |-> e.id, topic |-> t, parents |-> <<>>]
      BY DEF RefRows
    <3>. QED BY <3>4, <3>5, <3>6, <3>7, <3>8
  <2>. QED BY <2>3, <2>6, <2>7
<1>. QED BY <1>1, RowsInvariant, PTL

LEMMA RoutedInFile == ASSUME SelectInv PROVE RoutedElements \subseteq Elements
<1>1. Control
  BY DEF SelectInv
<1>2. Earlier \subseteq Elements
  BY DEF Earlier, Kind
<1>3. pass \in SortedPasses => InBlobs(Routed, Decoded) \subseteq Elements
  <2>. SUFFICES ASSUME pass \in SortedPasses PROVE InBlobs(Routed, Decoded) \subseteq Elements
    OBVIOUS
  <2>1. Routed \subseteq DOMAIN file
    BY <1>1, ChunkFacts, RegionFacts DEF Routed, Control
  <2>2. InBlobs(Routed, Decoded) \subseteq Kind(Decoded)
    BY <1>1, <2>1, InBlobsFacts DEF Control
  <2>. QED BY <2>2 DEF Kind
<1>4. pass \notin SortedPasses /\ pass # "done" => done \subseteq Elements
  BY <1>1 DEF Control, SortedPasses, Kind
<1>. QED BY <1>1, <1>2, <1>3, <1>4 DEF RoutedElements, Control

\* The ids of the elements that have rows.
LEMMA RowIds ==
  ASSUME SelectInv, RowInv, NEW e \in Elements
  PROVE  e.id \in Range([i \in DOMAIN rows |-> rows[i].of]) <=> e \in RoutedElements /\ RowSet(e) # {}
<1>1. file \in Files /\ RoutedElements \subseteq Elements
  BY RoutedInFile DEF SelectInv, Control
<1>2. \A y : y \in Range(rows) <=> \E f \in RoutedElements : y \in RowSet(f)
  BY DEF RowInv, RowsListed, ListsRows, RowsOf
<1>3. \A f : \A y \in RowSet(f) : y.of = f.id
  BY DEF RowSet
<1>4. e.id \in Range([i \in DOMAIN rows |-> rows[i].of]) <=> \E y \in Range(rows) : y.of = e.id
  BY DEF Range
<1>5. \A f \in Elements : f.id = e.id => f = e
  BY <1>1, ElementFacts
<1>. QED BY <1>1, <1>2, <1>3, <1>4, <1>5

LEMMA IdsInFileOrder ==
  ASSUME NEW s \in Seq(Int), Avoids(s, BadIds)
  PROVE  InFileOrder(s) /\ IsInjective(s)
<1>1. \A i \in DOMAIN s : s[i] \in Int
  BY LenProperties, ElementOfSeq
<1>2. InFileOrder(s)
  BY <1>1 DEF InFileOrder, Avoids, BadIds
<1>3. \A x \in Range(s) : <<x, x>> \in BadIds
  BY <1>1 DEF BadIds, Range
<1>4. PICK B : B = BadIds
  OBVIOUS
<1>5. IsInjective(s)
  <2>1. Avoids(s, B) /\ \A x \in Range(s) : <<x, x>> \in B
    BY <1>3, <1>4
  <2>. QED BY ONLY s \in Seq(Int), <2>1, NothingTwice
<1>. QED BY <1>2, <1>5

\* What the forward cursors of the staged backends rely on: in an ordered run over a sorted
\* file each kind's rows come in file order, and the kept ways and relations handed to
\* materialize are the ones with rows, each once, in that order.
THEOREM OrderIsTheFiles == HonestSpec => []FileOrder
<1>. DEFINE rowIds == [i \in DOMAIN rows |-> rows[i].of]
            WithRows(k) == {e.id : e \in {x \in Kind(k) : x.id \in Range(rowIds)}}
<1>1. SelectInv /\ RowInv => FileOrder
  <2>. SUFFICES ASSUME SelectInv, RowInv, mode.ordered, Sorted
                PROVE  /\ InFileOrder(rowIds)
                       /\ InFileOrder(keptWays) /\ IsInjective(keptWays) /\ Range(keptWays) = WithRows("way")
                       /\ InFileOrder(keptRels) /\ IsInjective(keptRels) /\ Range(keptRels) = WithRows("relation")
    BY DEF FileOrder
  <2>1. Control /\ file \in Files /\ pass \in SortedPasses \cup {"done"} /\ Routed = Folded
    BY DEF SelectInv, Control, RowInv, ScansUnsorted, Routed
  <2>2. /\ keptRels \in Seq(Int) /\ Avoids(keptRels, BadIds) /\ Range(keptRels) = {e.id : e \in ListedRelations}
        /\ keptWays \in Seq(Int) /\ Avoids(keptWays, BadIds) /\ Range(keptWays) = {e.id : e \in ListedWays}
    BY DEF RowInv, IdsListed, ListsIds
  <2>3. PICK r, w : r = keptRels /\ w = keptWays
    OBVIOUS
  <2>4. InFileOrder(r) /\ IsInjective(r)
    BY <2>2, <2>3, IdsInFileOrder
  <2>5. InFileOrder(w) /\ IsInjective(w)
    BY <2>2, <2>3, IdsInFileOrder
  <2>6. InFileOrder(rowIds)
    <3>1. RoutedElements \subseteq Elements => \A i \in DOMAIN rows : rows[i] \in RowsOf(Elements)
      <4>. SUFFICES ASSUME RoutedElements \subseteq Elements, NEW i \in DOMAIN rows PROVE rows[i] \in RowsOf(Elements)
        OBVIOUS
      <4>1. rows[i] \in RowsOf(RoutedElements)
        BY DEF RowInv, RowsListed, ListsRows, Range
      <4>. QED BY <4>1, RowsOfMore
    <3>2. Avoids(rows, BadRows)
      BY DEF RowInv, RowsListed, ListsRows
    <3>3. RoutedElements \subseteq Elements
      BY RoutedInFile
    <3>. SUFFICES ASSUME NEW i \in DOMAIN rows, NEW j \in DOMAIN rows, i < j,
                         Precedes(rows[j].of, rows[i].of)
                  PROVE  FALSE
      BY DEF InFileOrder
    <3>4. <<rows[i], rows[j]>> \in BadRows
      BY <3>1, <3>3 DEF BadRows
    <3>. QED BY <3>2, <3>4 DEF Avoids
  <2>7. {e.id : e \in ListedRelations} = WithRows("relation")
    <3>1. ASSUME NEW e \in Kind("relation")
          PROVE  e \in ListedRelations <=> e \in RoutedElements /\ RowSet(e) # {}
      <4>1. RowSet(e) # {} <=> e \in RefRelations
        BY DEF RowSet, RefRelations, Kind
      <4>2. e \in RoutedElements <=> (pass = "relations" => e \in InBlobs(Folded, "relation"))
        BY <2>1 DEF RoutedElements, Earlier, SortedPasses, Decoded
      <4>. QED BY <4>1, <4>2 DEF ListedRelations
    <3>2. ListedRelations \subseteq Kind("relation")
      BY DEF ListedRelations, RefRelations
    <3>3. ASSUME NEW e \in Kind("relation") PROVE e.id \in Range(rowIds) <=> e \in ListedRelations
      BY <3>1, RowIds DEF Kind
    <3>. HIDE DEF rowIds
    <3>. QED BY <3>2, <3>3
  <2>8. {e.id : e \in ListedWays} = WithRows("way")
    <3>1. ASSUME NEW e \in Kind("way")
          PROVE  e \in ListedWays <=> e \in RoutedElements /\ RowSet(e) # {}
      <4>1. RowSet(e) # {} <=> e \in RefKept
        BY DEF RowSet, RefKept, Kind
      <4>2. e \in RoutedElements <=> (pass # "relations" /\ (pass = "ways" => e \in InBlobs(Folded, "way")))
        <5>1. e \notin Kind("relation")
          BY DEF Kind
        <5>2. InBlobs(Folded, "relation") \subseteq Kind("relation") \/ pass \notin SortedPasses
          BY <2>1, ChunkElements
        <5>. QED BY <2>1, <5>1, <5>2 DEF RoutedElements, Earlier, SortedPasses, Decoded
      <4>. QED BY <4>1, <4>2 DEF ListedWays
    <3>2. ListedWays \subseteq Kind("way")
      BY DEF ListedWays, RefKept
    <3>3. ASSUME NEW e \in Kind("way") PROVE e.id \in Range(rowIds) <=> e \in ListedWays
      BY <3>1, RowIds DEF Kind
    <3>. HIDE DEF rowIds
    <3>. QED BY <3>2, <3>3
  <2>. HIDE DEF rowIds, WithRows
  <2>. QED BY <2>2, <2>3, <2>4, <2>5, <2>6, <2>7, <2>8
<1>. QED BY <1>1, RowsInvariant, PTL

=============================================================================
