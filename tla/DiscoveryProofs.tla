---------------------------- MODULE DiscoveryProofs ----------------------------
(***************************************************************************)
(* What a server in packed mode knows of packs, and how it reads them.     *)
(* First what the listing of the manifests promises, for any size of a     *)
(* page, any limit, and any entries that are created, evicted and restored *)
(* while it runs, what is merged of them, and that every manifest is read  *)
(* back as it was encoded; then, of PackLoad, how the readers of objects   *)
(* share the downloads of the packs that the index names, for any number   *)
(* of readers and packs and any capacity of the semaphore.                 *)
(***************************************************************************)
EXTENDS Discovery, PackLoad, FiniteSetTheorems, SequenceTheorems, TLAPS

-----------------------------------------------------------------------------
(* Sequences, intervals and small sets.                                     *)

\* A sequence without its i-th element.
Removed(s, i) == SubSeq(s, 1, i - 1) \o SubSeq(s, i + 1, Len(s))

\* What follows moves forward.
LEMMA WithoutElement ==
  ASSUME NEW S, NEW s \in Seq(S), NEW n \in Nat, Len(s) = n, NEW i \in 1..n
  PROVE  /\ Removed(s, i) \in Seq(S) /\ Len(Removed(s, i)) = n - 1
         /\ \A j \in 1..(n - 1) : Removed(s, i)[j] = IF j < i THEN s[j] ELSE s[j + 1]
<1>1. PICK a : a = SubSeq(s, 1, i - 1) OBVIOUS
<1>2. PICK b : b = SubSeq(s, i + 1, n) OBVIOUS
<1>3. PICK t : t = a \o b OBVIOUS
<1>4. i - 1 \in Nat /\ n - i \in Nat OBVIOUS
<1>5. a \in Seq(S) /\ Len(a) = i - 1 /\ \A j \in 1..(i - 1) : a[j] = s[j]
  BY <1>1, SubSeqProperties
<1>6. b \in Seq(S) /\ Len(b) = n - i /\ \A j \in 1..(n - i) : b[j] = s[i + j]
  <2>1. /\ b \in Seq(S) /\ Len(b) = IF i + 1 <= n THEN n - (i + 1) + 1 ELSE 0
        /\ \A j \in 1..(n - (i + 1) + 1) : b[j] = s[(i + 1) + j - 1]
    <3>1. i + 1 \in Int /\ n \in Int /\ \A k \in (i + 1)..n : s[k] \in S OBVIOUS
    <3> QED BY <1>2, <3>1, SubSeqProperties
  <2>2. Len(b) = n - i BY <2>1
  <2>3. ASSUME NEW j \in 1..(n - i) PROVE b[j] = s[i + j]
    <3>1. j \in 1..(n - (i + 1) + 1) /\ (i + 1) + j - 1 = i + j OBVIOUS
    <3> QED BY <2>1, <3>1
  <2> QED BY <2>1, <2>2, <2>3
<1>7. /\ t \in Seq(S) /\ Len(t) = (i - 1) + (n - i)
      /\ \A j \in 1..((i - 1) + (n - i)) : t[j] = IF j <= i - 1 THEN a[j] ELSE b[j - (i - 1)]
  <2>1. PICK k \in Nat, l \in Nat : k = i - 1 /\ l = n - i BY <1>4
  <2>2. a \in Seq(S) /\ b \in Seq(S) /\ Len(a) = k /\ Len(b) = l BY <1>5, <1>6, <2>1
  <2>3. /\ a \o b \in Seq(S) /\ Len(a \o b) = k + l
        /\ \A j \in 1..(k + l) : (a \o b)[j] = IF j <= k THEN a[j] ELSE b[j - k]
    BY <2>2, ConcatProperties, Zenon
  <2>4. /\ t \in Seq(S) /\ Len(t) = k + l
        /\ \A j \in 1..(k + l) : t[j] = IF j <= k THEN a[j] ELSE b[j - k]
    BY <1>3, <2>3, Zenon
  <2> QED BY <2>1, <2>4, Zenon
<1>8. ASSUME NEW j \in 1..(n - 1), j < i PROVE t[j] = s[j]
  <2>1. j \in 1..(i - 1) /\ j \in 1..((i - 1) + (n - i)) BY <1>8
  <2> QED BY <1>5, <1>7, <2>1
<1>9. ASSUME NEW j \in 1..(n - 1), ~(j < i) PROVE t[j] = s[j + 1]
  <2>1. j \in 1..((i - 1) + (n - i)) /\ ~(j <= i - 1) /\ j - (i - 1) \in 1..(n - i) BY <1>9
  <2>2. t[j] = b[j - (i - 1)] BY <1>7, <2>1
  <2>3. b[j - (i - 1)] = s[i + (j - (i - 1))] BY <1>6, <2>1
  <2>4. i + (j - (i - 1)) = j + 1 OBVIOUS
  <2> QED BY <2>2, <2>3, <2>4
<1>10. Len(t) = n - 1 BY <1>7
<1>11. Removed(s, i) = t BY <1>1, <1>2, <1>3 DEF Removed
<1> QED BY <1>7, <1>8, <1>9, <1>10, <1>11

\* A sequence with a new first element.
LEMMA InFront ==
  ASSUME NEW S, NEW s \in Seq(S), NEW n \in Nat, Len(s) = n, NEW x \in S,
         NEW t, t = <<x>> \o s
  PROVE  /\ t \in Seq(S) /\ Len(t) = 1 + n
         /\ t[1] = x
         /\ \A j \in 1..n : t[1 + j] = s[j]
<1>1. Len(<<x>>) = 1 /\ <<x>>[1] = x /\ <<x>> \in Seq(S) OBVIOUS
<1>2. /\ t \in Seq(S) /\ Len(t) = 1 + n
      /\ \A j \in 1..(1 + n) : t[j] = IF j <= 1 THEN <<x>>[j] ELSE s[j - 1]
  BY <1>1, ConcatProperties
<1>3. 1 \in 1..(1 + n) OBVIOUS
<1>4. \A j \in 1..n : 1 + j \in 1..(1 + n) /\ ~(1 + j <= 1) /\ (1 + j) - 1 = j OBVIOUS
<1> QED BY <1>1, <1>2, <1>3, <1>4

\* The smaller of two numbers.
LEMMA MinOfTwo ==
  ASSUME NEW x \in Int, NEW y \in Int
  PROVE  Min({x, y}) = IF x <= y THEN x ELSE y
<1>1. \E z \in {x, y} : \A w \in {x, y} : z <= w OBVIOUS
<1>2. Min({x, y}) \in {x, y} /\ \A w \in {x, y} : Min({x, y}) <= w BY <1>1 DEF Min
<1> QED BY <1>2

-----------------------------------------------------------------------------
(* The inductive invariant: of the entries that the service lists before    *)
(* the next page, and that did not jump there, no more are unread than were *)
(* evicted.                                                                 *)

Positions == 1..Len(entries)

ServiceTypes ==
  /\ created \in 0..MaxKeys /\ evictions \in 0..MaxEvictions
  /\ restores \in 0..MaxRestores /\ jumped \subseteq 1..created
  /\ entries \in Seq(1..created)
  /\ \A i, j \in Positions : entries[i] = entries[j] => i = j
  /\ present \subseteq Elements(entries)

ListTypes ==
  /\ page \in 1..(MaxKeys + 1)
  /\ keys \subseteq (1..created) \ Foreign
  /\ read \in 0..Limit /\ Cardinality(keys) <= read
  /\ result \in {"listing", "ok", "limit", "failed"}

\* Manifests that were there at the beginning, are there still, were not read,
\* and were not restored while they were still to be read.
Unread == ((present \ jumped) \ Foreign) \ keys

Passed == {entries[i] : i \in 1..Offset \cap Positions}

ListInv ==
  /\ ServiceTypes
  /\ ListTypes
  /\ result = "listing" => Cardinality(Unread \cap Passed) <= evictions
  /\ result = "ok" => Cardinality(Unread) <= evictions

\* Distinct entries are as many as their positions.
LEMMA EntriesAreCounted ==
  ASSUME ServiceTypes
  PROVE  /\ Len(entries) \in Nat
         /\ Cardinality(Elements(entries)) = Len(entries)
         /\ IsFiniteSet(Elements(entries))
         /\ Elements(entries) \subseteq 1..created
         /\ Len(entries) <= MaxKeys
<1> DEFINE n == Len(entries)
           E == Elements(entries)
<1>1. entries \in Seq(1..created) /\ created \in 0..MaxKeys /\ MaxKeys \in Nat
  BY CatalogAssumption DEF ServiceTypes
<1>2. n \in Nat /\ entries \in [1..n -> 1..created]
  BY <1>1, LenProperties
<1>3. E \subseteq 1..created /\ entries \in [1..n -> E] BY <1>2 DEF Elements
<1>4. entries \in Surjection(1..n, E) BY <1>3 DEF Surjection, Elements
<1>5. entries \in Injection(1..n, E)
  <2>1. \A i, j \in 1..n : entries[i] = entries[j] => i = j BY DEF ServiceTypes, Positions
  <2> HIDE DEF n, E
  <2> QED BY <1>3, <2>1 DEF Injection, IsInjective
<1>6. IsFiniteSet(1..n) /\ Cardinality(1..n) = n
  <2>1. 1 \in Int /\ n \in Int BY <1>2
  <2>2. IsFiniteSet(1..n) /\ Cardinality(1..n) = IF 1 > n THEN 0 ELSE n - 1 + 1
    BY <2>1, FS_Interval
  <2> HIDE DEF n
  <2> QED BY <1>2, <2>2
<1>7. IsFiniteSet(E) /\ Cardinality(E) = n BY <1>4, <1>5, <1>6, FS_Surjection
<1>8. Cardinality(E) <= created
  <2>1. 1 \in Int /\ created \in Int /\ created \in Nat BY <1>1
  <2>2. IsFiniteSet(1..created)
        /\ Cardinality(1..created) = IF 1 > created THEN 0 ELSE created - 1 + 1
    BY <2>1, FS_Interval
  <2>3. Cardinality(E) <= Cardinality(1..created) BY <1>3, <2>2, FS_Subset
  <2> HIDE DEF E
  <2> QED BY <1>2, <1>7, <2>1, <2>2, <2>3
<1>9. n <= MaxKeys BY <1>1, <1>2, <1>7, <1>8
<1> QED BY <1>2, <1>3, <1>7, <1>9

\* What can be missed is finite.
LEMMA UnreadIsFinite ==
  ASSUME ServiceTypes
  PROVE  /\ IsFiniteSet(Unread) /\ Cardinality(Unread) \in Nat
         /\ \A S \in SUBSET Unread : IsFiniteSet(S) /\ Cardinality(S) \in Nat
<1>1. Unread \subseteq Elements(entries) BY DEF ServiceTypes, Unread
<1>2. IsFiniteSet(Elements(entries)) BY EntriesAreCounted
<1>3. \A S \in SUBSET Elements(entries) : IsFiniteSet(S) BY <1>2, FS_Subset
<1> QED BY <1>1, <1>3, FS_CardinalityType

\* Where the next page begins.
LEMMA OffsetType ==
  ASSUME page \in Nat \ {0}
  PROVE  /\ Offset \in Nat /\ PageSize \in Nat \ {0}
         /\ (page + 1 - 1) * PageSize = Offset + PageSize
         /\ page <= Offset + PageSize
<1>1. PageSize \in Nat \ {0} BY CatalogAssumption
<1>2. PICK p \in Nat : p = page - 1 OBVIOUS
<1>3. p * PageSize \in Nat /\ (p + 1) * PageSize = p * PageSize + PageSize
      /\ p + 1 <= (p + 1) * PageSize
  BY <1>1
<1>4. page = p + 1 /\ page + 1 - 1 = p + 1 BY <1>2
<1> QED BY <1>1, <1>2, <1>3, <1>4 DEF Offset

-----------------------------------------------------------------------------
(* The steps of the service and of the listing.                             *)

\* At the beginning nothing was passed.
LEMMA ListInitially == Init => ListInv
<1> SUFFICES ASSUME Init PROVE ListInv OBVIOUS
<1>1. created \in 0..MaxKeys /\ MaxKeys \in Nat /\ MaxEvictions \in Nat /\ Limit \in Nat
      /\ created \in Nat /\ MaxRestores \in Nat
  BY CatalogAssumption DEF Init
<1>2. /\ entries \in Seq(1..created) /\ Len(entries) = created
      /\ \A i \in 1..created : entries[i] = created + 1 - i
  <2>1. entries = [i \in 1..created |-> created + 1 - i] BY DEF Init
  <2>2. \A i \in 1..created : created + 1 - i \in 1..created BY <1>1
  <2>3. entries \in [1..created -> 1..created] BY <2>1, <2>2
  <2> QED BY <1>1, <2>1, <2>3
<1>3. ServiceTypes
  <2>1. \A i, j \in 1..created : entries[i] = entries[j] => i = j BY <1>1, <1>2
  <2>2. ASSUME NEW k \in 1..created PROVE k \in Elements(entries)
    <3>1. created + 1 - k \in 1..created /\ created + 1 - (created + 1 - k) = k BY <1>1
    <3> QED BY <1>2, <3>1 DEF Elements
  <2> QED BY <1>1, <1>2, <2>1, <2>2 DEF Init, ServiceTypes, Positions
<1>4. keys = {} /\ read = 0 /\ result = "listing" /\ evictions = 0 /\ page = 1 BY DEF Init
<1>5. Cardinality({}) = 0 BY FS_EmptySet
<1>6. ListTypes BY <1>1, <1>4, <1>5 DEF ListTypes
<1>7. Passed = {}
  <2>1. Offset = 0
    <3>1. PageSize \in Nat BY CatalogAssumption
    <3> QED BY <1>4, <3>1 DEF Offset
  <2> QED BY <2>1 DEF Passed
<1>8. Unread \cap Passed = {} BY <1>7
<1> QED BY <1>3, <1>4, <1>5, <1>6, <1>8 DEF ListInv

\* A new entry moves the others towards later pages.
LEMMA CreateStep ==
  ASSUME ListInv, result = "listing", Create
  PROVE  ListInv'
<1>1. /\ created \in Nat /\ created' = created + 1 /\ created' \in 0..MaxKeys
      /\ entries \in Seq(1..created) /\ Len(entries) \in Nat
      /\ entries' = <<created'>> \o entries
      /\ UNCHANGED <<evictions, restores, present, jumped, page, keys, read, result>>
  BY CatalogAssumption DEF ListInv, ServiceTypes, Create
<1>2. 1..created \subseteq 1..created' /\ created' \in 1..created' /\ created' \notin 1..created
  BY <1>1
<1>3. PICK n \in Nat : n = Len(entries) BY <1>1
<1>4. /\ entries' \in Seq(1..created') /\ Len(entries') = 1 + n /\ entries'[1] = created'
      /\ \A j \in 1..n : entries'[1 + j] = entries[j]
  <2>1. entries \in Seq(1..created') BY <1>1, <1>2
  <2> QED BY <1>1, <1>2, <1>3, <2>1, InFront
<1>5. \A j \in 1..n : entries[j] \in 1..created BY <1>1, <1>3
<1>6. ASSUME NEW j \in 1..(1 + n), j # 1
      PROVE  j - 1 \in 1..n /\ entries'[j] = entries[j - 1]
  <2>1. j - 1 \in 1..n /\ 1 + (j - 1) = j BY <1>3, <1>6
  <2> QED BY <1>4, <2>1
<1>7. ServiceTypes'
  <2>1. ASSUME NEW i \in 1..(1 + n), NEW j \in 1..(1 + n), entries'[i] = entries'[j]
        PROVE  i = j
    <3>1. \A x, y \in 1..n : entries[x] = entries[y] => x = y
      BY <1>3 DEF ListInv, ServiceTypes, Positions
    <3>2. CASE i = 1 /\ j # 1 BY <1>2, <1>4, <1>5, <1>6, <2>1, <3>2
    <3>3. CASE i # 1 /\ j = 1 BY <1>2, <1>4, <1>5, <1>6, <2>1, <3>3
    <3>4. CASE i # 1 /\ j # 1
      <4>1. i - 1 = j - 1 BY <1>6, <2>1, <3>1, <3>4
      <4> QED BY <1>3, <4>1
    <3> QED BY <3>2, <3>3, <3>4
  <2>2. Elements(entries) \subseteq Elements(entries')
    <3> SUFFICES ASSUME NEW j \in 1..n PROVE entries[j] \in Elements(entries')
      BY <1>3 DEF Elements
    <3>1. 1 + j \in 1..(1 + n) BY <1>3
    <3> QED BY <1>4, <3>1 DEF Elements
  <2>3. present' \subseteq Elements(entries')
    BY <1>1, <2>2 DEF ListInv, ServiceTypes
  <2>4. /\ evictions' \in 0..MaxEvictions /\ restores' \in 0..MaxRestores
        /\ jumped' \subseteq 1..created'
    BY <1>1, <1>2 DEF ListInv, ServiceTypes
  <2> QED BY <1>1, <1>4, <2>1, <2>3, <2>4 DEF ServiceTypes, Positions
<1>8. ListTypes' BY <1>1, <1>2 DEF ListInv, ListTypes
<1>9. Unread' = Unread /\ Offset' = Offset BY <1>1 DEF Unread, Offset
<1>10. Unread \cap Passed' \subseteq Unread \cap Passed
  <2> SUFFICES ASSUME NEW j \in 1..Offset, j \in 1..(1 + n), entries'[j] \in Unread
               PROVE  entries'[j] \in Passed
    BY <1>4, <1>9 DEF Passed, Positions
  <2>1. Offset \in Nat BY OffsetType, CatalogAssumption DEF ListInv, ListTypes
  <2>2. Unread \subseteq 1..created
    BY EntriesAreCounted DEF ListInv, ServiceTypes, Unread
  <2>3. j # 1 BY <1>2, <1>4, <2>2
  <2>4. j - 1 \in 1..n /\ j - 1 \in 1..Offset /\ entries'[j] = entries[j - 1]
    BY <1>6, <2>1, <2>3
  <2> QED BY <1>3, <2>4 DEF Passed, Positions
<1>11. Cardinality(Unread \cap Passed') <= Cardinality(Unread \cap Passed)
  <2>1. IsFiniteSet(Unread \cap Passed) BY UnreadIsFinite DEF ListInv
  <2> QED BY <1>10, <2>1, FS_Subset
<1>12. Cardinality(Unread \cap Passed') \in Nat /\ Cardinality(Unread \cap Passed) \in Nat
  BY UnreadIsFinite DEF ListInv
<1>13. Cardinality((Unread \cap Passed)') <= evictions'
  BY <1>1, <1>9, <1>11, <1>12 DEF ListInv, ServiceTypes
<1>14. result' = "listing" BY <1>1
<1> QED BY <1>7, <1>8, <1>13, <1>14 DEF ListInv

\* An eviction moves one entry, at most, to the pages that were read.
LEMMA EvictStep ==
  ASSUME ListInv, result = "listing", Evict
  PROVE  ListInv'
<1>1. /\ created \in Nat /\ evictions \in Nat /\ MaxEvictions \in Nat
      /\ entries \in Seq(1..created) /\ Len(entries) \in Nat
      /\ evictions' = evictions + 1 /\ evictions' \in 0..MaxEvictions
      /\ UNCHANGED <<created, restores, jumped, page, keys, read, result>>
  BY CatalogAssumption DEF ListInv, ServiceTypes, Evict
<1>2. PICK n \in Nat : n = Len(entries) BY <1>1
<1>3. PICK i \in 1..n :
        /\ entries' = SubSeq(entries, 1, i - 1) \o SubSeq(entries, i + 1, n)
        /\ present' = present \ {entries[i]}
  BY <1>2 DEF Evict, Others
<1>4. /\ entries' \in Seq(1..created) /\ Len(entries') = n - 1
      /\ \A j \in 1..(n - 1) : entries'[j] = IF j < i THEN entries[j] ELSE entries[j + 1]
  <2>1. entries' = Removed(entries, i) BY <1>2, <1>3 DEF Removed
  <2>2. entries \in Seq(1..created) /\ Len(entries) = n BY <1>1, <1>2
  <2>3. Removed(entries, i) \in Seq(1..created) /\ Len(Removed(entries, i)) = n - 1
    BY <2>2, WithoutElement
  <2>4. \A j \in 1..(n - 1) :
          Removed(entries, i)[j] = IF j < i THEN entries[j] ELSE entries[j + 1]
    BY <2>2, WithoutElement, Zenon
  <2> QED BY <2>1, <2>3, <2>4
<1>5. \A x, y \in 1..n : entries[x] = entries[y] => x = y
  BY <1>2 DEF ListInv, ServiceTypes, Positions
<1>6. ServiceTypes'
  <2>1. ASSUME NEW x \in 1..(n - 1), NEW y \in 1..(n - 1), entries'[x] = entries'[y]
        PROVE  x = y
    <3>1. x \in 1..n /\ x + 1 \in 1..n /\ y \in 1..n /\ y + 1 \in 1..n OBVIOUS
    <3>2. CASE x < i /\ y < i BY <1>4, <1>5, <2>1, <3>1, <3>2
    <3>3. CASE x < i /\ ~(y < i)
      <4>1. x = y + 1 BY <1>4, <1>5, <2>1, <3>1, <3>3
      <4> QED BY <3>3, <4>1
    <3>4. CASE ~(x < i) /\ y < i
      <4>1. x + 1 = y BY <1>4, <1>5, <2>1, <3>1, <3>4
      <4> QED BY <3>4, <4>1
    <3>5. CASE ~(x < i) /\ ~(y < i)
      <4>1. x + 1 = y + 1 BY <1>4, <1>5, <2>1, <3>1, <3>5
      <4> QED BY <4>1
    <3> QED BY <3>2, <3>3, <3>4, <3>5
  <2>2. ASSUME NEW j \in 1..n, j # i PROVE entries[j] \in Elements(entries')
    <3>1. CASE j < i
      <4>1. j \in 1..(n - 1) /\ entries'[j] = entries[j] BY <1>4, <3>1
      <4> QED BY <1>4, <4>1 DEF Elements
    <3>2. CASE ~(j < i)
      <4>1. j - 1 \in 1..(n - 1) /\ ~(j - 1 < i) /\ (j - 1) + 1 = j BY <2>2, <3>2
      <4>2. entries'[j - 1] = entries[j] BY <1>4, <4>1
      <4> QED BY <1>4, <4>1, <4>2 DEF Elements
    <3> QED BY <3>1, <3>2
  <2>3. present' \subseteq Elements(entries')
    <3> SUFFICES ASSUME NEW k \in present, k # entries[i] PROVE k \in Elements(entries')
      BY <1>3
    <3>1. PICK j \in 1..n : k = entries[j]
      BY <1>2 DEF ListInv, ServiceTypes, Elements
    <3> QED BY <2>2, <3>1
  <2>4. /\ created' \in 0..MaxKeys /\ restores' \in 0..MaxRestores
        /\ jumped' \subseteq 1..created'
    BY <1>1 DEF ListInv, ServiceTypes
  <2> QED BY <1>1, <1>4, <2>1, <2>3, <2>4 DEF ServiceTypes, Positions
<1>7. ListTypes' BY <1>1 DEF ListInv, ListTypes
<1>8. Unread' \subseteq Unread /\ Offset' = Offset BY <1>1, <1>3 DEF Unread, Offset
<1>9. Offset \in Nat BY OffsetType, CatalogAssumption DEF ListInv, ListTypes
<1>10. PICK moved : moved = entries[Offset + 1] OBVIOUS
<1>11. (Unread \cap Passed)' \subseteq (Unread \cap Passed) \cup {moved}
  <2> SUFFICES ASSUME NEW j \in 1..Offset, j \in 1..(n - 1), entries'[j] \in Unread
               PROVE  entries'[j] \in Passed \/ entries'[j] = moved
    BY <1>4, <1>8 DEF Passed, Positions
  <2>1. j \in 1..n /\ j + 1 \in 1..n /\ (j + 1 \in 1..Offset \/ j = Offset) BY <1>9
  <2> QED BY <1>2, <1>4, <1>10, <2>1 DEF Passed, Positions
<1>12. IsFiniteSet(Unread \cap Passed) /\ Cardinality(Unread \cap Passed) \in Nat
  BY UnreadIsFinite DEF ListInv
<1>13. /\ IsFiniteSet((Unread \cap Passed) \cup {moved})
       /\ Cardinality((Unread \cap Passed) \cup {moved}) <= Cardinality(Unread \cap Passed) + 1
  <2>1. /\ IsFiniteSet((Unread \cap Passed) \cup {moved})
        /\ Cardinality((Unread \cap Passed) \cup {moved}) =
             IF moved \in Unread \cap Passed THEN Cardinality(Unread \cap Passed)
                                             ELSE Cardinality(Unread \cap Passed) + 1
    BY <1>12, FS_AddElement
  <2> QED BY <1>12, <2>1
<1>14. PICK new : new = (Unread \cap Passed)' OBVIOUS
<1>15. IsFiniteSet(new) /\ Cardinality(new) <= Cardinality((Unread \cap Passed) \cup {moved})
  BY <1>11, <1>13, <1>14, FS_Subset
<1>16. Cardinality(new) \in Nat /\ Cardinality((Unread \cap Passed) \cup {moved}) \in Nat
  BY <1>13, <1>15, FS_CardinalityType
<1>17. Cardinality(Unread \cap Passed) <= evictions BY DEF ListInv
<1>18. Cardinality(new) <= evictions' BY <1>1, <1>12, <1>13, <1>15, <1>16, <1>17
<1>19. result' = "listing" BY <1>1
<1> QED BY <1>6, <1>7, <1>14, <1>18, <1>19 DEF ListInv

\* A restore moves one entry to the front and those before it one place back.
LEMMA RestoreStep ==
  ASSUME ListInv, result = "listing", Restore
  PROVE  ListInv'
<1>1. /\ created \in Nat /\ restores' \in 0..MaxRestores
      /\ entries \in Seq(1..created) /\ Len(entries) \in Nat
      /\ UNCHANGED <<created, evictions, present, page, keys, read, result>>
  BY CatalogAssumption DEF ListInv, ServiceTypes, Restore
<1>2. PICK n \in Nat : n = Len(entries) BY <1>1
<1>3. PICK i \in 1..n :
        /\ entries' = <<entries[i]>> \o Others(i)
        /\ jumped' = IF Offset \in 1..(i - 1) THEN jumped \cup {entries[i]} ELSE jumped
  BY <1>2 DEF Restore
<1>4. PICK others : others = Others(i) OBVIOUS
<1>5. /\ others \in Seq(1..created) /\ Len(others) = n - 1
      /\ \A j \in 1..(n - 1) : others[j] = IF j < i THEN entries[j] ELSE entries[j + 1]
  <2>1. others = Removed(entries, i) BY <1>2, <1>4 DEF Removed, Others
  <2>2. entries \in Seq(1..created) /\ Len(entries) = n BY <1>1, <1>2
  <2>3. Removed(entries, i) \in Seq(1..created) /\ Len(Removed(entries, i)) = n - 1
    BY <2>2, WithoutElement
  <2>4. \A j \in 1..(n - 1) :
          Removed(entries, i)[j] = IF j < i THEN entries[j] ELSE entries[j + 1]
    BY <2>2, WithoutElement, Zenon
  <2> QED BY <2>1, <2>3, <2>4
<1>6. entries[i] \in 1..created BY <1>1, <1>2
<1>7. /\ entries' \in Seq(1..created) /\ Len(entries') = n
      /\ entries'[1] = entries[i]
      /\ \A j \in 1..(n - 1) : entries'[1 + j] = others[j]
  <2>1. PICK m \in Nat : m = n - 1 OBVIOUS
  <2>2. entries' = <<entries[i]>> \o others BY <1>3, <1>4
  <2>3. /\ entries' \in Seq(1..created) /\ Len(entries') = 1 + m
        /\ entries'[1] = entries[i]
        /\ \A j \in 1..m : entries'[1 + j] = others[j]
    BY <1>5, <1>6, <2>1, <2>2, InFront
  <2> QED BY <2>1, <2>3
\* Where an entry of the new list was before.
<1>8. PICK old : old = [j \in 1..n |-> IF j = 1 THEN i ELSE IF j <= i THEN j - 1 ELSE j]
  OBVIOUS
<1>9. ASSUME NEW j \in 1..n
      PROVE  old[j] \in 1..n /\ entries'[j] = entries[old[j]]
  <2>1. CASE j = 1 BY <1>7, <1>8, <2>1
  <2>2. CASE j # 1
    <3>1. j - 1 \in 1..(n - 1) /\ 1 + (j - 1) = j /\ (j - 1) + 1 = j BY <2>2
    <3>2. entries'[j] = others[j - 1] BY <1>7, <3>1
    <3>3. others[j - 1] = IF j - 1 < i THEN entries[j - 1] ELSE entries[j] BY <1>5, <3>1
    <3>4. old[j] = IF j - 1 < i THEN j - 1 ELSE j BY <1>8, <2>2
    <3> QED BY <3>1, <3>2, <3>3, <3>4
  <2> QED BY <2>1, <2>2
<1>10. \A x, y \in 1..n : old[x] = old[y] => x = y BY <1>8
<1>11. ASSUME NEW k \in 1..n PROVE \E j \in 1..n : old[j] = k
  <2>1. PICK j \in 1..n : j = IF k = i THEN 1 ELSE IF k < i THEN k + 1 ELSE k OBVIOUS
  <2>2. old[j] = k BY <1>8, <2>1
  <2> QED BY <2>2
<1>12. ServiceTypes'
  <2>1. \A x, y \in 1..n : entries[x] = entries[y] => x = y
    BY <1>2 DEF ListInv, ServiceTypes, Positions
  <2>2. \A x, y \in 1..n : entries'[x] = entries'[y] => x = y BY <1>9, <1>10, <2>1
  <2>3. present' \subseteq Elements(entries')
    <3> SUFFICES ASSUME NEW e \in present PROVE e \in Elements(entries') BY <1>1
    <3>1. PICK k \in 1..n : e = entries[k] BY <1>2 DEF ListInv, ServiceTypes, Elements
    <3>2. PICK j \in 1..n : old[j] = k BY <1>11
    <3>3. entries'[j] = e BY <1>9, <3>1, <3>2
    <3> QED BY <1>7, <3>3 DEF Elements
  <2>4. created' \in 0..MaxKeys /\ evictions' \in 0..MaxEvictions
    BY <1>1 DEF ListInv, ServiceTypes
  <2>5. jumped' \subseteq 1..created' BY <1>1, <1>3, <1>6 DEF ListInv, ServiceTypes
  <2> QED BY <1>1, <1>7, <2>2, <2>3, <2>4, <2>5 DEF ServiceTypes, Positions
<1>13. ListTypes' BY <1>1 DEF ListInv, ListTypes
<1>14. Unread' \subseteq Unread /\ Offset' = Offset BY <1>1, <1>3 DEF Unread, Offset
<1>15. Offset \in Nat BY OffsetType, CatalogAssumption DEF ListInv, ListTypes
<1>16. (Unread \cap Passed)' \subseteq Unread \cap Passed
  <2> SUFFICES ASSUME NEW j \in 1..Offset, j \in 1..n, entries'[j] \in Unread'
               PROVE  entries'[j] \in Passed
    BY <1>7, <1>14 DEF Passed, Positions
  <2>1. old[j] \in 1..n /\ entries'[j] = entries[old[j]] BY <1>9
  <2>2. old[j] \in 1..Offset
    <3>1. CASE j = 1
      <4>1. entries'[j] = entries[i] /\ old[j] = i BY <1>7, <1>8, <3>1
      <4>2. entries[i] \notin jumped' BY <4>1 DEF Unread
      <4>3. Offset \notin 1..(i - 1) BY <1>3, <4>2
      <4> QED BY <1>15, <4>1, <4>3
    <3>2. CASE j # 1
      <4>1. old[j] = IF j <= i THEN j - 1 ELSE j BY <1>8, <3>2
      <4> QED BY <1>15, <3>2, <4>1
    <3> QED BY <3>1, <3>2
  <2> QED BY <1>2, <2>1, <2>2 DEF Passed, Positions
<1>17. PICK new : new = (Unread \cap Passed)' OBVIOUS
<1>18. IsFiniteSet(Unread \cap Passed) /\ Cardinality(Unread \cap Passed) \in Nat
  BY UnreadIsFinite DEF ListInv
<1>19. IsFiniteSet(new) /\ Cardinality(new) <= Cardinality(Unread \cap Passed)
  BY <1>16, <1>17, <1>18, FS_Subset
<1>20. Cardinality(new) \in Nat BY <1>19, FS_CardinalityType
<1>21. Cardinality(new) <= evictions' /\ result' = "listing"
  BY <1>1, <1>18, <1>19, <1>20 DEF ListInv, ServiceTypes
<1> QED BY <1>12, <1>13, <1>17, <1>21 DEF ListInv

\* The page that is read: as many of the entries that follow as fit in it.
LEMMA PageIs ==
  ASSUME ServiceTypes, page \in Nat \ {0}, NEW n \in Nat, n = Len(entries)
  PROVE  /\ Len(Page) \in Nat /\ Len(Page) <= PageSize
         /\ \A i \in 1..Len(Page) : Page[i] = entries[Offset + i] /\ Offset + i \in 1..n
         /\ \A j \in 1..n : Offset < j /\ j <= Offset + PageSize => j - Offset \in 1..Len(Page)
         /\ LastPage => n < Offset + PageSize
         /\ ~LastPage => Offset + PageSize <= n
<1>1. Offset \in Nat /\ PageSize \in Nat \ {0} BY OffsetType
<1>2. PICK o \in Nat, z \in Nat \ {0} : o = Offset /\ z = PageSize BY <1>1
<1>3. PICK m \in Nat : m = IF o + z <= n THEN o + z ELSE n
  <2>1. CASE o + z <= n BY <2>1
  <2>2. CASE ~(o + z <= n) BY <2>2
  <2> QED BY <2>1, <2>2
<1>4. Min({Offset + PageSize, n}) = m
  <2>1. Min({o + z, n}) = IF o + z <= n THEN o + z ELSE n BY <1>2, MinOfTwo
  <2> QED BY <1>2, <1>3, <2>1
<1>5. Page = SubSeq(entries, o + 1, m) BY <1>2, <1>4 DEF Page
<1>6. PICK S : entries \in Seq(S) BY DEF ServiceTypes
<1>7. \A i \in (o + 1)..m : entries[i] \in S
  <2>1. \A i \in 1..n : entries[i] \in S BY <1>6
  <2>2. \A i \in (o + 1)..m : i \in 1..n BY <1>2, <1>3
  <2> QED BY <2>1, <2>2
<1>8. /\ Len(Page) = IF o + 1 <= m THEN m - (o + 1) + 1 ELSE 0
      /\ \A i \in 1..(m - (o + 1) + 1) : Page[i] = entries[(o + 1) + i - 1]
  <2>1. o + 1 \in Int /\ m \in Int BY <1>2, <1>3
  <2> QED BY <1>5, <1>7, <2>1, SubSeqProperties
<1>9. PICK l \in Nat : l = Len(Page)
  <2>1. CASE o + 1 <= m
    <3>1. m - (o + 1) + 1 \in Nat BY <2>1
    <3> QED BY <1>8, <2>1, <3>1
  <2>2. CASE ~(o + 1 <= m) BY <1>8, <2>2
  <2> QED BY <2>1, <2>2
<1>10. /\ l <= z /\ (l < z => n < o + z) /\ (~(l < z) => o + z <= n)
       /\ \A i \in 1..l : i \in 1..(m - (o + 1) + 1) /\ o + i \in 1..n /\ (o + 1) + i - 1 = o + i
       /\ \A j \in 1..n : o < j /\ j <= o + z => j - o \in 1..l
  BY <1>2, <1>3, <1>8, <1>9
<1>11. \A i \in 1..l : Page[i] = entries[o + i] BY <1>8, <1>10
<1> QED BY <1>2, <1>9, <1>10, <1>11 DEF LastPage

\* What is read from one page is counted at least once for every key.
LEMMA ReadIsCounted ==
  ASSUME ListInv, NEW more, more = {Page[i] : i \in Matching}
  PROVE  /\ NumberRead \in Nat
         /\ keys \cup more \subseteq (1..created) \ Foreign
         /\ Cardinality(keys \cup more) <= NumberRead
<1>1. /\ entries \in Seq(1..created) /\ created \in Nat /\ Len(entries) \in Nat
      /\ page \in Nat \ {0} /\ read \in Nat /\ keys \subseteq (1..created) \ Foreign
      /\ Cardinality(keys) <= read
  BY CatalogAssumption DEF ListInv, ServiceTypes, ListTypes
<1>2. PICK n \in Nat : n = Len(entries) BY <1>1
<1>3. \A i \in 1..n : entries[i] \in 1..created BY <1>1, <1>2
<1>4. PICK l \in Nat : l = Len(Page) BY <1>1, PageIs DEF ListInv
<1>5. \A i \in 1..l : Page[i] \in 1..created
  <2>1. \A i \in 1..l : Page[i] = entries[Offset + i] /\ Offset + i \in 1..n
    BY <1>1, <1>2, <1>4, PageIs DEF ListInv
  <2> QED BY <1>3, <2>1
<1>6. PICK M : M = Matching OBVIOUS
<1>7. M \subseteq 1..l /\ more = {Page[i] : i \in M} BY <1>4, <1>6 DEF Matching
<1>8. more \subseteq (1..created) \ Foreign BY <1>4, <1>5, <1>6, <1>7 DEF Matching, HasPrefix
<1>9. IsFiniteSet(M)
  <2>1. 1 \in Int /\ l \in Int OBVIOUS
  <2>2. IsFiniteSet(1..l) BY <2>1, FS_Interval
  <2> QED BY <1>7, <2>2, FS_Subset
<1>10. IsFiniteSet(more) /\ Cardinality(more) <= Cardinality(M)
  <2>1. PICK f : f = [i \in M |-> Page[i]] OBVIOUS
  <2>2. f \in Surjection(M, more) BY <1>7, <2>1 DEF Surjection
  <2> QED BY <1>9, <2>2, FS_Surjection
<1>11. IsFiniteSet(keys)
  <2>1. 1 \in Int /\ created \in Int BY <1>1
  <2>2. IsFiniteSet(1..created) BY <2>1, FS_Interval
  <2> QED BY <1>1, <2>2, FS_Subset
<1>12. /\ IsFiniteSet(keys \cup more) /\ IsFiniteSet(keys \cap more)
       /\ Cardinality(keys \cup more) =
            Cardinality(keys) + Cardinality(more) - Cardinality(keys \cap more)
  BY <1>10, <1>11, FS_Union, FS_Intersection
<1>13. /\ Cardinality(keys) \in Nat /\ Cardinality(more) \in Nat /\ Cardinality(M) \in Nat
       /\ Cardinality(keys \cap more) \in Nat
  BY <1>9, <1>10, <1>11, <1>12, FS_CardinalityType
<1>14. Cardinality(keys \cup more) <= read + Cardinality(M)
  BY <1>1, <1>10, <1>12, <1>13
<1>15. NumberRead = read + Cardinality(M) BY <1>6 DEF NumberRead
<1>16. NumberRead \in Nat BY <1>1, <1>13, <1>15
<1>17. Cardinality(keys \cup more) <= NumberRead BY <1>14, <1>15
<1>18. keys \cup more \subseteq (1..created) \ Foreign BY <1>1, <1>8
<1> QED BY <1>16, <1>17, <1>18

\* After a page is read, what it lists is read, and what precedes it is as before.
LEMMA ReadPageStep ==
  ASSUME ListInv, result = "listing", ReadPage
  PROVE  ListInv'
<1>1. /\ page \in Nat \ {0} /\ Limit \in Nat /\ MaxKeys \in Nat /\ evictions \in Nat
      /\ Len(entries) \in Nat /\ Len(entries) <= MaxKeys
  BY CatalogAssumption, EntriesAreCounted DEF ListInv, ServiceTypes, ListTypes
<1>2. UNCHANGED service BY DEF ReadPage
<1>3. ServiceTypes' BY <1>2 DEF ListInv, ServiceTypes, service, Positions, Elements
<1>4. CASE NumberRead > Limit
  <2>1. result' = "limit" /\ UNCHANGED <<page, keys, read>> BY <1>4 DEF ReadPage
  <2>2. ListTypes' BY <1>2, <2>1 DEF ListInv, ListTypes, service
  <2> QED BY <1>3, <2>1, <2>2 DEF ListInv
<1>5. CASE ~(NumberRead > Limit)
  <2>1. PICK more : more = {Page[i] : i \in Matching} OBVIOUS
  <2>2. /\ NumberRead \in Nat /\ keys \cup more \subseteq (1..created) \ Foreign
        /\ Cardinality(keys \cup more) <= NumberRead
    BY <2>1, ReadIsCounted
  <2>3. keys' = keys \cup more /\ read' = NumberRead BY <1>5, <2>1 DEF ReadPage
  <2>4. /\ keys' \subseteq (1..created') \ Foreign
        /\ read' \in 0..Limit /\ Cardinality(keys') <= read'
    BY <1>1, <1>2, <1>5, <2>2, <2>3 DEF service
  <2>5. PICK n \in Nat : n = Len(entries) /\ n <= MaxKeys BY <1>1
  <2>6. /\ Offset \in Nat /\ PageSize \in Nat \ {0}
        /\ (page + 1 - 1) * PageSize = Offset + PageSize /\ page <= Offset + PageSize
    BY <1>1, OffsetType
  <2>7. PICK l \in Nat : l = Len(Page) BY <1>1, PageIs DEF ListInv
  <2>8. /\ \A i \in 1..l : Page[i] = entries[Offset + i]
        /\ \A j \in 1..n : Offset < j /\ j <= Offset + PageSize => j - Offset \in 1..l
        /\ LastPage => n < Offset + PageSize
        /\ ~LastPage => Offset + PageSize <= n
    BY <1>1, <2>5, <2>7, PageIs DEF ListInv
  <2>9. Unread' = Unread \ more BY <1>2, <2>3 DEF Unread, service
  <2>10. \A j \in 1..n : j <= Offset + PageSize /\ entries[j] \in Unread' => entries[j] \in Passed
    <3> SUFFICES ASSUME NEW j \in 1..n, j <= Offset + PageSize, entries[j] \in Unread'
                 PROVE  j <= Offset
      BY <2>5, <2>6 DEF Passed, Positions
    <3>1. CASE Offset < j
      <4>1. j - Offset \in 1..l /\ Offset + (j - Offset) = j
        <5>1. j - Offset \in 1..l BY <2>8, <3>1
        <5>2. j \in Int /\ Offset \in Int BY <2>6
        <5> HIDE DEF Offset
        <5> QED BY <5>1, <5>2
      <4>2. Page[j - Offset] = entries[j] BY <2>8, <4>1
      <4>3. entries[j] \notin Foreign BY <2>9 DEF Unread
      <4>4. j - Offset \in Matching BY <2>7, <4>1, <4>2, <4>3 DEF Matching, HasPrefix
      <4>5. entries[j] \in more BY <2>1, <4>2, <4>4
      <4> QED BY <2>9, <4>5
    <3> QED BY <2>6, <3>1
  <2>11. IsFiniteSet(Unread \cap Passed) /\ Cardinality(Unread \cap Passed) \in Nat
    BY UnreadIsFinite DEF ListInv
  <2>12. \A S \in SUBSET (Unread \cap Passed) : Cardinality(S) <= evictions
    <3> SUFFICES ASSUME NEW S \in SUBSET (Unread \cap Passed)
                 PROVE  Cardinality(S) <= evictions
      OBVIOUS
    <3>1. IsFiniteSet(S) /\ Cardinality(S) <= Cardinality(Unread \cap Passed)
      BY <2>11, FS_Subset
    <3>2. Cardinality(S) \in Nat BY <3>1, FS_CardinalityType
    <3> QED BY <1>1, <2>11, <3>1, <3>2 DEF ListInv
  <2>13. CASE LastPage
    <3>1. result' = "ok" /\ page' = page BY <1>5, <2>13 DEF ReadPage
    <3>2. ListTypes' BY <2>4, <3>1 DEF ListInv, ListTypes
    <3>3. Unread' \subseteq Unread \cap Passed
      <4> SUFFICES ASSUME NEW k \in Unread' PROVE k \in Passed BY <2>9
      <4>1. PICK j \in 1..n : k = entries[j]
        BY <2>5, <2>9 DEF ListInv, ServiceTypes, Unread, Elements
      <4>2. j <= Offset + PageSize BY <2>6, <2>8, <2>13
      <4> QED BY <2>10, <4>1, <4>2
    <3>4. Cardinality(Unread') <= evictions BY <2>12, <3>3
    <3>5. Cardinality(Unread') <= evictions' BY <1>2, <3>4 DEF service
    <3> QED BY <1>3, <3>1, <3>2, <3>5 DEF ListInv
  <2>14. CASE ~LastPage
    <3>1. result' = "listing" /\ page' = page + 1 BY <1>5, <2>14 DEF ReadPage
    <3>2. page' \in 1..(MaxKeys + 1) BY <1>1, <2>5, <2>6, <2>8, <2>14, <3>1
    <3>3. ListTypes' BY <2>4, <3>1, <3>2 DEF ListInv, ListTypes
    <3>4. Offset' = Offset + PageSize
      <4>1. Offset' = (page' - 1) * PageSize BY DEF Offset
      <4>2. page' - 1 = page + 1 - 1 BY <1>1, <3>1
      <4>3. (page' - 1) * PageSize = (page + 1 - 1) * PageSize BY <4>2
      <4> QED BY <2>6, <4>1, <4>3
    <3>5. (Unread \cap Passed)' \subseteq Unread \cap Passed
      <4> SUFFICES ASSUME NEW j \in 1..n, j <= Offset + PageSize, entries[j] \in Unread'
                   PROVE  entries[j] \in Unread /\ entries[j] \in Passed
        BY <1>2, <2>5, <2>6, <3>4 DEF Passed, Positions, service
      <4> QED BY <2>9, <2>10
    <3>6. PICK new : new = (Unread \cap Passed)' OBVIOUS
    <3>7. Cardinality(new) <= evictions BY <2>12, <3>5, <3>6
    <3>8. Cardinality(new) <= evictions' BY <1>2, <3>7 DEF service
    <3> QED BY <1>3, <3>1, <3>3, <3>6, <3>8 DEF ListInv
  <2> QED BY <2>13, <2>14
<1> QED BY <1>4, <1>5

\* A request that fails ends the listing.
LEMMA RequestFailsStep ==
  ASSUME ListInv, result = "listing", RequestFails
  PROVE  ListInv'
<1>1. UNCHANGED <<service, page>> /\ keys' = {} /\ read' = 0 /\ result' = "failed"
  BY DEF RequestFails
<1>2. ServiceTypes' BY <1>1 DEF ListInv, ServiceTypes, service, Positions, Elements
<1>3. Cardinality({}) = 0 /\ Limit \in Nat BY CatalogAssumption, FS_EmptySet
<1>4. ListTypes' BY <1>1, <1>3 DEF ListInv, ListTypes
<1> QED BY <1>1, <1>2, <1>4 DEF ListInv

\* After the manifests are loaded nothing of the listing is kept.
LEMMA LoadStep ==
  ASSUME ListInv, Load
  PROVE  ListInv'
<1>1. /\ entries' = <<>> /\ present' = {} /\ keys' = {} /\ read' = 0
      /\ created' = 0 /\ evictions' = 0 /\ restores' = 0 /\ jumped' = {} /\ page' = 1
      /\ result' = result /\ result # "listing"
  BY DEF Load
<1>2. MaxKeys \in Nat /\ MaxEvictions \in Nat /\ MaxRestores \in Nat /\ Limit \in Nat
  BY CatalogAssumption
<1>3. Cardinality({}) = 0 BY FS_EmptySet
<1>4. ServiceTypes' BY <1>1, <1>2 DEF ServiceTypes, Positions
<1>5. ListTypes' BY <1>1, <1>2, <1>3 DEF ListInv, ListTypes
<1>6. Unread' = {} BY <1>1 DEF Unread
<1>7. Cardinality(Unread') <= evictions' BY <1>1, <1>3, <1>6
<1> QED BY <1>1, <1>4, <1>5, <1>7 DEF ListInv

\* What the invariant says of a complete listing.
LEMMA MissedFollows == ListInv => MissedArePaidFor
<1> SUFFICES ASSUME ListInv PROVE MissedArePaidFor OBVIOUS
<1>1. /\ Cardinality(Elements(entries)) = Len(entries)
      /\ Elements(entries) \subseteq 1..created
  BY EntriesAreCounted DEF ListInv
<1>2. present = {k \in Elements(entries) : k \in present} BY DEF ListInv, ServiceTypes
<1>3. read <= Limit BY CatalogAssumption DEF ListInv, ListTypes
<1>4. TypeOK BY <1>1, <1>2, <1>3 DEF ListInv, ServiceTypes, ListTypes, TypeOK
<1> QED BY <1>4 DEF ListInv, Unread, MissedArePaidFor

(* Every step of a start keeps the invariant of the listing: catalog.go:104-116. *)
THEOREM ListingInvariant == StartSpec => []ListInv
<1>1. StartInit => ListInv BY ListInitially DEF StartInit
<1>2. ListInv /\ [StartNext]_<<uploads, vars, indexVars>> => ListInv'
  <2> SUFFICES ASSUME ListInv, [StartNext]_<<uploads, vars, indexVars>> PROVE ListInv'
    OBVIOUS
  <2>1. CASE List
    <3>1. result = "listing" BY <2>1 DEF List
    <3>2. CASE Create BY <3>1, <3>2, CreateStep
    <3>3. CASE Evict BY <3>1, <3>3, EvictStep
    <3>4. CASE Restore BY <3>1, <3>4, RestoreStep
    <3>5. CASE ReadPage BY <3>1, <3>5, ReadPageStep
    <3>6. CASE RequestFails BY <3>1, <3>6, RequestFailsStep
    <3> QED BY <2>1, <3>2, <3>3, <3>4, <3>5, <3>6 DEF List
  <2>2. CASE Load BY <2>2, LoadStep
  <2>3. CASE UNCHANGED vars
    BY <2>3 DEF vars, service, ListInv, ServiceTypes, ListTypes, Unread, Passed, Offset,
                Positions, Elements
  <2>4. CASE Merge \/ Flush BY <2>3, <2>4 DEF Merge, Flush
  <2>5. CASE UNCHANGED <<uploads, vars, indexVars>> BY <2>3, <2>5
  <2> QED BY <2>1, <2>2, <2>4, <2>5 DEF StartNext
<1> QED BY <1>1, <1>2, PTL DEF StartSpec

(* Of the manifests that were there before it began, are there still, and    *)
(* were not restored while they were still to be read, a complete listing    *)
(* misses no more than were evicted while it ran: whatever the size of a     *)
(* page is, and however many entries other jobs save and restore.            *)
THEOREM ListingMissesOnlyEvicted == StartSpec => []MissedArePaidFor
BY ListingInvariant, MissedFollows, PTL

-----------------------------------------------------------------------------
(* The inductive invariant of the index: it holds, of the manifests that    *)
(* were merged, the first pack of every object, the first key of every pack *)
(* and the results that do not contradict each other.                       *)

Members(s) == {s[i] : i \in DOMAIN s}

\* What a reader checks of a manifest, and a writer builds.
WellFormed(m) ==
  /\ \A p \in Members(m.Packs) :
       /\ p.Size > 0 /\ p.Key[3] = p.ID[2] /\ p.Key[2] \in Nat
       /\ \A q \in Members(m.Packs) : p.ID = q.ID => p = q
  /\ \A o \in Members(m.CAS) :
       /\ o.Size >= 0 /\ o.CID = Manifests!rawCIDForDigest(o.Digest)
       /\ o.PackID[2] \in Nat
       /\ \E p \in Members(m.Packs) : p.ID = o.PackID
       /\ \A q \in Members(m.CAS) : o.Digest = q.Digest => o = q
  /\ \A a \in Members(m.Actions) :
       /\ a.Size >= 0
       /\ \E p \in Members(m.Packs) : p.ID = a.PackID
       /\ \A q \in Members(m.Actions) : a.Digest = q.Digest => a = q

PacksMerged(map, ps) ==
  /\ DOMAIN map = {p.ID : p \in ps}
  /\ \A id \in DOMAIN map : map[id] \in ps /\ map[id].ID = id
  /\ \A p \in ps : p.Key[2] \in Nat /\ map[p.ID].Key[2] <= p.Key[2]

ObjectsMerged(map, os) ==
  /\ DOMAIN map = {o.Digest : o \in os}
  /\ \A d \in DOMAIN map : map[d] \in os /\ map[d].Digest = d
  /\ \A o \in os : o.PackID[2] \in Nat /\ map[o.Digest].PackID[2] <= o.PackID[2]

ActionsMerged(map, conflicts, as) ==
  /\ DOMAIN map = {a.Digest : a \in as}
  /\ \A d \in DOMAIN map : map[d] \in as /\ map[d].Digest = d
  /\ \A d \in conflicts : \E a, b \in as : a.Digest = d /\ b.Digest = d /\ a.CID # b.CID
  /\ \A a \in as : a.Digest \notin conflicts => map[a.Digest].CID = a.CID

AppliedPacks == UNION {Members(m.Packs) : m \in applied}
AppliedObjects == UNION {Members(m.CAS) : m \in applied}
AppliedActions == UNION {Members(m.Actions) : m \in applied}

IndexInv ==
  /\ phase \in {"listing", "listed"} /\ unsaved \subseteq OwnPacks
  /\ \A m \in applied : WellFormed(m)
  /\ PacksMerged(index.packs, AppliedPacks)
  /\ ObjectsMerged(index.cas, AppliedObjects)
  /\ ActionsMerged(index.actions, index.actionConflicts, AppliedActions)
  /\ \A id \in index.heads : Manifests!validCID(id)

\* What is loaded was uploaded.
LoadInv ==
  /\ uploads \in Uploads /\ created <= Len(uploads)
  /\ unmerged \subseteq {uploads[k] : k \in DOMAIN uploads}
  /\ \A e \in unmerged : Manifests!decodeManifest(e) # {}

\* One map over another.
LEMMA OverIs ==
  ASSUME NEW new, NEW map
  PROVE  /\ DOMAIN Manifests!Over(new, map) = DOMAIN new \cup DOMAIN map
         /\ \A k \in DOMAIN new : Manifests!Over(new, map)[k] = new[k]
         /\ \A k \in DOMAIN map : k \notin DOMAIN new => Manifests!Over(new, map)[k] = map[k]
BY DEF Manifests!Over

\* The packs after those of a manifest: the smallest key of each.
LEMMA PacksStep ==
  ASSUME NEW map, NEW ps, NEW qs, PacksMerged(map, qs),
         \A p \in ps : p.Key[2] \in Nat,
         \A p, q \in ps : p.ID = q.ID => p = q
  PROVE  PacksMerged(Manifests!ApplyPacks(map, ps), qs \cup ps)
<1>1. PICK better :
        better = {p \in ps : \A old \in Manifests!Get(map, p.ID) : p.Key[2] < old.Key[2]}
  OBVIOUS
<1>2. PICK new : new = Manifests!ByID(better) OBVIOUS
<1>3. PICK all : all = Manifests!ApplyPacks(map, ps) OBVIOUS
<1>4. DOMAIN new = {p.ID : p \in better} /\ \A p \in better : new[p.ID] = p
  BY <1>1, <1>2 DEF Manifests!ByID
<1>5. /\ DOMAIN all = DOMAIN new \cup DOMAIN map
      /\ \A k \in DOMAIN new : all[k] = new[k]
      /\ \A k \in DOMAIN map : k \notin DOMAIN new => all[k] = map[k]
  <2>1. all = Manifests!Over(new, map)
    BY <1>1, <1>2, <1>3, Zenon DEF Manifests!ApplyPacks
  <2> QED BY <2>1 DEF Manifests!Over
<1>6. ASSUME NEW p \in ps, p \notin better
      PROVE  /\ p.ID \in DOMAIN map /\ p.ID \notin DOMAIN new
             /\ map[p.ID].Key[2] <= p.Key[2]
  <2>1. p.ID \in DOMAIN map /\ ~(p.Key[2] < map[p.ID].Key[2])
    BY <1>1, <1>6 DEF Manifests!Get
  <2>2. map[p.ID].Key[2] \in Nat BY <2>1 DEF PacksMerged
  <2>3. p.ID \notin DOMAIN new BY <1>1, <1>4, <1>6
  <2> QED BY <2>1, <2>2, <2>3
<1>7. ASSUME NEW p \in better
      PROVE  p \in ps /\ p.ID \in DOMAIN all /\ all[p.ID] = p
  BY <1>1, <1>4, <1>5
<1>8. ASSUME NEW k \in DOMAIN map, k \notin DOMAIN new
      PROVE  k \in DOMAIN all /\ all[k] = map[k] /\ map[k] \in qs /\ map[k].ID = k
  BY <1>5, <1>8 DEF PacksMerged
<1>9. DOMAIN all = {p.ID : p \in qs \cup ps}
  <2>1. ASSUME NEW k \in DOMAIN all PROVE k \in {p.ID : p \in qs \cup ps}
    BY <1>1, <1>4, <1>5 DEF PacksMerged
  <2>2. ASSUME NEW p \in qs \cup ps PROVE p.ID \in DOMAIN all
    BY <1>4, <1>5, <1>6 DEF PacksMerged
  <2> QED BY <2>1, <2>2
<1>10. ASSUME NEW k \in DOMAIN all PROVE all[k] \in qs \cup ps /\ all[k].ID = k
  <2>1. CASE k \in DOMAIN new BY <1>4, <1>7, <2>1
  <2>2. CASE k \notin DOMAIN new BY <1>5, <1>8, <2>2
  <2> QED BY <2>1, <2>2
<1>11. ASSUME NEW q \in qs PROVE q.Key[2] \in Nat /\ all[q.ID].Key[2] <= q.Key[2]
  <2>1. q.ID \in DOMAIN map /\ q.Key[2] \in Nat /\ map[q.ID].Key[2] <= q.Key[2]
        /\ map[q.ID].Key[2] \in Nat
    BY DEF PacksMerged
  <2>2. CASE q.ID \notin DOMAIN new BY <1>8, <2>1, <2>2
  <2>3. CASE q.ID \in DOMAIN new
    <3>1. PICK p \in better : p.ID = q.ID BY <1>4, <2>3
    <3>2. p.Key[2] < map[q.ID].Key[2] BY <1>1, <2>1, <3>1 DEF Manifests!Get
    <3>3. all[q.ID] = p /\ p.Key[2] \in Nat BY <1>7, <3>1
    <3> QED BY <2>1, <3>2, <3>3
  <2> QED BY <2>2, <2>3
<1>12. ASSUME NEW p \in ps PROVE p.Key[2] \in Nat /\ all[p.ID].Key[2] <= p.Key[2]
  <2>1. CASE p \in better BY <1>7, <2>1
  <2>2. CASE p \notin better BY <1>6, <1>8, <2>2
  <2> QED BY <2>1, <2>2
<1> QED BY <1>3, <1>9, <1>10, <1>11, <1>12 DEF PacksMerged

\* The objects after those of a manifest: the smallest pack of each.
LEMMA ObjectsStep ==
  ASSUME NEW map, NEW ps, NEW qs, ObjectsMerged(map, qs),
         \A p \in ps : p.PackID[2] \in Nat,
         \A p, q \in ps : p.Digest = q.Digest => p = q
  PROVE  ObjectsMerged(Manifests!ApplyObjects(map, ps), qs \cup ps)
<1>1. PICK better :
        better = {p \in ps : \A old \in Manifests!Get(map, p.Digest) : Manifests!Before(p, old)}
  OBVIOUS
<1>2. PICK new : new = Manifests!ByDigest(better) OBVIOUS
<1>3. PICK all : all = Manifests!ApplyObjects(map, ps) OBVIOUS
<1>4. DOMAIN new = {p.Digest : p \in better} /\ \A p \in better : new[p.Digest] = p
  BY <1>1, <1>2 DEF Manifests!ByDigest
<1>5. /\ DOMAIN all = DOMAIN new \cup DOMAIN map
      /\ \A k \in DOMAIN new : all[k] = new[k]
      /\ \A k \in DOMAIN map : k \notin DOMAIN new => all[k] = map[k]
  <2>1. all = Manifests!Over(new, map)
    BY <1>1, <1>2, <1>3, Zenon DEF Manifests!ApplyObjects
  <2> QED BY <2>1 DEF Manifests!Over
<1>6. ASSUME NEW p \in ps, p \notin better
      PROVE  /\ p.Digest \in DOMAIN map /\ p.Digest \notin DOMAIN new
             /\ map[p.Digest].PackID[2] <= p.PackID[2]
  <2>1. p.Digest \in DOMAIN map /\ ~(p.PackID[2] < map[p.Digest].PackID[2])
    BY <1>1, <1>6 DEF Manifests!Get, Manifests!Before, Manifests!Precedes
  <2>2. map[p.Digest].PackID[2] \in Nat BY <2>1 DEF ObjectsMerged
  <2>3. p.Digest \notin DOMAIN new BY <1>1, <1>4, <1>6
  <2> QED BY <2>1, <2>2, <2>3
<1>7. ASSUME NEW p \in better
      PROVE  p \in ps /\ p.Digest \in DOMAIN all /\ all[p.Digest] = p
  BY <1>1, <1>4, <1>5
<1>8. ASSUME NEW k \in DOMAIN map, k \notin DOMAIN new
      PROVE  k \in DOMAIN all /\ all[k] = map[k] /\ map[k] \in qs /\ map[k].Digest = k
  BY <1>5, <1>8 DEF ObjectsMerged
<1>9. DOMAIN all = {p.Digest : p \in qs \cup ps}
  <2>1. ASSUME NEW k \in DOMAIN all PROVE k \in {p.Digest : p \in qs \cup ps}
    BY <1>1, <1>4, <1>5 DEF ObjectsMerged
  <2>2. ASSUME NEW p \in qs \cup ps PROVE p.Digest \in DOMAIN all
    BY <1>4, <1>5, <1>6 DEF ObjectsMerged
  <2> QED BY <2>1, <2>2
<1>10. ASSUME NEW k \in DOMAIN all PROVE all[k] \in qs \cup ps /\ all[k].Digest = k
  <2>1. CASE k \in DOMAIN new BY <1>4, <1>7, <2>1
  <2>2. CASE k \notin DOMAIN new BY <1>5, <1>8, <2>2
  <2> QED BY <2>1, <2>2
<1>11. ASSUME NEW q \in qs
       PROVE  q.PackID[2] \in Nat /\ all[q.Digest].PackID[2] <= q.PackID[2]
  <2>1. q.Digest \in DOMAIN map /\ q.PackID[2] \in Nat
        /\ map[q.Digest].PackID[2] <= q.PackID[2] /\ map[q.Digest].PackID[2] \in Nat
    BY DEF ObjectsMerged
  <2>2. CASE q.Digest \notin DOMAIN new BY <1>8, <2>1, <2>2
  <2>3. CASE q.Digest \in DOMAIN new
    <3>1. PICK p \in better : p.Digest = q.Digest BY <1>4, <2>3
    <3>2. p.PackID[2] < map[q.Digest].PackID[2]
      BY <1>1, <2>1, <3>1 DEF Manifests!Get, Manifests!Before, Manifests!Precedes
    <3>3. all[q.Digest] = p /\ p.PackID[2] \in Nat BY <1>7, <3>1
    <3> QED BY <2>1, <3>2, <3>3
  <2> QED BY <2>2, <2>3
<1>12. ASSUME NEW p \in ps
       PROVE  p.PackID[2] \in Nat /\ all[p.Digest].PackID[2] <= p.PackID[2]
  <2>1. CASE p \in better BY <1>7, <2>1
  <2>2. CASE p \notin better BY <1>6, <1>8, <2>2
  <2> QED BY <2>1, <2>2
<1> QED BY <1>3, <1>9, <1>10, <1>11, <1>12 DEF ObjectsMerged

\* The results after those of a manifest: the first of each, and those that differ
\* are conflicts.
LEMMA ActionsStep ==
  ASSUME NEW map, NEW conflicts, NEW as, NEW bs, ActionsMerged(map, conflicts, bs),
         \A a, b \in as : a.Digest = b.Digest => a = b
  PROVE  ActionsMerged(Manifests!ApplyActions(map, as),
                       conflicts \cup Manifests!Conflicting(map, as), bs \cup as)
<1>0. /\ DOMAIN map = {a.Digest : a \in bs}
      /\ \A d \in DOMAIN map : map[d] \in bs /\ map[d].Digest = d
  BY Zenon DEF ActionsMerged
<1>1. PICK new : new = Manifests!ByDigest(as) OBVIOUS
<1>2. PICK all : all = Manifests!ApplyActions(map, as) OBVIOUS
<1>3. PICK more : more = Manifests!Conflicting(map, as) OBVIOUS
<1>4. DOMAIN new = {a.Digest : a \in as} /\ \A a \in as : new[a.Digest] = a
  BY <1>1 DEF Manifests!ByDigest
<1>5. /\ DOMAIN all = DOMAIN map \cup DOMAIN new
      /\ \A d \in DOMAIN map : all[d] = map[d]
      /\ \A d \in DOMAIN new : d \notin DOMAIN map => all[d] = new[d]
  <2>1. all = Manifests!Over(map, new)
    BY <1>1, <1>2, Zenon DEF Manifests!ApplyActions
  <2> QED BY <2>1 DEF Manifests!Over
<1>6. DOMAIN all = {a.Digest : a \in bs \cup as}
  <2>1. DOMAIN map = {a.Digest : a \in bs} BY <1>0
  <2>2. ASSUME NEW d \in DOMAIN all PROVE d \in {a.Digest : a \in bs \cup as}
    BY <1>4, <1>5, <2>1
  <2>3. ASSUME NEW a \in bs \cup as PROVE a.Digest \in DOMAIN all
    BY <1>4, <1>5, <2>1
  <2> QED BY <2>2, <2>3
<1>7. ASSUME NEW d \in DOMAIN all PROVE all[d] \in bs \cup as /\ all[d].Digest = d
  <2>1. CASE d \in DOMAIN map BY <1>0, <1>5, <2>1
  <2>2. CASE d \notin DOMAIN map
    <3>1. d \in DOMAIN new /\ all[d] = new[d] BY <1>5, <2>2
    <3>2. d \in {a.Digest : a \in as} BY <1>4, <3>1, Zenon
    <3>3. PICK a \in as : d = a.Digest BY <3>2
    <3> QED BY <1>4, <3>1, <3>3
  <2> QED BY <2>1, <2>2
<1>8. ASSUME NEW d \in conflicts \cup more
      PROVE  \E a, b \in bs \cup as : a.Digest = d /\ b.Digest = d /\ a.CID # b.CID
  <2>1. CASE d \in conflicts
    <3>1. PICK a \in bs, b \in bs : a.Digest = d /\ b.Digest = d /\ a.CID # b.CID
      BY <2>1, Zenon DEF ActionsMerged
    <3> QED BY <3>1
  <2>2. CASE d \in more
    <3>1. PICK a \in as : /\ a.Digest = d
                          /\ \E old \in Manifests!Get(map, a.Digest) : old.CID # a.CID
      BY <1>3, <2>2 DEF Manifests!Conflicting
    <3>2. d \in DOMAIN map /\ map[d].CID # a.CID BY <3>1 DEF Manifests!Get
    <3>3. map[d] \in bs /\ map[d].Digest = d BY <1>0, <3>2
    <3> QED BY <3>1, <3>2, <3>3
  <2> QED BY <2>1, <2>2
<1>9. ASSUME NEW a \in bs \cup as, a.Digest \notin conflicts \cup more
      PROVE  all[a.Digest].CID = a.CID
  <2>1. CASE a \in bs BY <1>5, <1>9, <2>1 DEF ActionsMerged
  <2>2. CASE a \in as /\ a.Digest \in DOMAIN map
    BY <1>3, <1>5, <1>9, <2>2 DEF Manifests!Conflicting, Manifests!Get
  <2>3. CASE a \in as /\ a.Digest \notin DOMAIN map BY <1>4, <1>5, <2>3
  <2> QED BY <2>1, <2>2, <2>3
<1> QED BY <1>2, <1>3, <1>6, <1>7, <1>8, <1>9 DEF ActionsMerged

-----------------------------------------------------------------------------
(* The steps of a start and of the index.                                   *)

\* What was accepted of an entry that was uploaded.
LEMMA ReadIsWellFormed ==
  ASSUME LoadInv, NEW e \in unmerged,
         NEW m, m = Manifests!The(Manifests!decodeManifest(e))
  PROVE  WellFormed(m) /\ Manifests!validCID(KeyCID(e))
<1>1. PICK k \in DOMAIN uploads : e = uploads[k] BY DEF LoadInv
<1>2. k \in 1..Len(uploads) BY <1>1, UploadsAssumption DEF LoadInv
<1>3. m \in Manifests!decodeManifest(e)
  BY Zenon DEF LoadInv, Manifests!The
<1>4. /\ Manifests!validCID(CIDOf(e))
      /\ \A i \in DOMAIN m.Packs : m.Packs[i].Key[2] \in Nat
      /\ \A i \in DOMAIN m.CAS : m.CAS[i].PackID[2] \in Nat
  BY <1>1, <1>2, <1>3, UploadsAssumption DEF LoadInv
<1>5. CIDOf(e) = KeyCID(e) BY <1>3 DEF Manifests!decodeManifest
<1>6. Manifests!validate(m)
  <2>1. PICK node : node = NodeOf(e) OBVIOUS
  <2>2. m \in Manifests!nodeToManifest(node)
    BY <1>3, <1>5, <2>1 DEF Manifests!decodeManifest
  <2> QED BY <2>2 DEF Manifests!nodeToManifest
<1>7. /\ \A i \in DOMAIN m.Packs : Manifests!ValidPack(m.Packs[i])
      /\ \A i, j \in DOMAIN m.Packs : m.Packs[i].ID = m.Packs[j].ID => i = j
      /\ \A i \in DOMAIN m.CAS : Manifests!ValidCAS(m, m.CAS[i])
      /\ \A i, j \in DOMAIN m.CAS : m.CAS[i].Digest = m.CAS[j].Digest => i = j
      /\ \A i \in DOMAIN m.Actions : Manifests!ValidAction(m, m.Actions[i])
      /\ \A i, j \in DOMAIN m.Actions : m.Actions[i].Digest = m.Actions[j].Digest => i = j
  BY <1>6, Zenon DEF Manifests!validate, Manifests!NoRepetition
<1>8. \A id : Manifests!Declared(m, id) => \E p \in Members(m.Packs) : p.ID = id
  BY DEF Manifests!Declared, Members
<1>9. ASSUME NEW p \in Members(m.Packs)
      PROVE  /\ p.Size > 0 /\ p.Key[3] = p.ID[2] /\ p.Key[2] \in Nat
             /\ \A q \in Members(m.Packs) : p.ID = q.ID => p = q
  <2>1. PICK i \in DOMAIN m.Packs : p = m.Packs[i] BY DEF Members
  <2>2. p.Size > 0 /\ p.Key[3] = p.ID[2]
    BY <1>7, <2>1 DEF Manifests!ValidPack, Manifests!IsPackKey
  <2>3. p.Key[2] \in Nat BY <1>4, <2>1
  <2>4. ASSUME NEW q \in Members(m.Packs), p.ID = q.ID PROVE p = q
    BY <1>7, <2>1, <2>4 DEF Members
  <2> QED BY <2>2, <2>3, <2>4
<1>10. ASSUME NEW o \in Members(m.CAS)
       PROVE  /\ o.Size >= 0 /\ o.CID = Manifests!rawCIDForDigest(o.Digest)
              /\ o.PackID[2] \in Nat
              /\ \E p \in Members(m.Packs) : p.ID = o.PackID
              /\ \A q \in Members(m.CAS) : o.Digest = q.Digest => o = q
  BY <1>4, <1>7, <1>8 DEF Members, Manifests!ValidCAS, Manifests!validRawCID
<1>11. ASSUME NEW a \in Members(m.Actions)
       PROVE  /\ a.Size >= 0
              /\ \E p \in Members(m.Packs) : p.ID = a.PackID
              /\ \A q \in Members(m.Actions) : a.Digest = q.Digest => a = q
  BY <1>7, <1>8 DEF Members, Manifests!ValidAction
<1>12. Manifests!validCID(KeyCID(e)) BY <1>4, <1>5
<1> QED BY <1>9, <1>10, <1>11, <1>12 DEF WellFormed

\* What this server writes.
LEMMA WrittenIsWellFormed ==
  ASSUME NEW own \in OwnPacks, NEW m, m = Manifests!ManifestFor(own)
  PROVE  WellFormed(m)
<1>1. /\ own.pack.Size > 0 /\ own.pack.ID[2] \in Nat /\ own.pack.Key[2] \in Nat
      /\ own.pack.Key[3] = own.pack.ID[2]
  BY OwnPacksAssumption DEF Manifests!IsPackKey
<1>2. m.Packs = <<own.pack>> BY DEF Manifests!ManifestFor
<1>3. Members(m.Packs) = {own.pack} BY <1>2 DEF Members
<1>4. m.CAS = [i \in DOMAIN own.cas |-> Manifests!ObjectIn(own, own.cas[i])]
  BY DEF Manifests!ManifestFor
<1>5. ASSUME NEW i \in DOMAIN own.cas, NEW o, o = Manifests!ObjectIn(own, own.cas[i])
      PROVE  /\ o.Size = own.cas[i].Size /\ o.Digest = own.cas[i].Digest
             /\ o.CID = Manifests!rawCIDForDigest(o.Digest) /\ o.PackID = own.pack.ID
  BY <1>5 DEF Manifests!ObjectIn
<1>6. m.Actions = [i \in DOMAIN own.actions |-> Manifests!ActionIn(own, own.actions[i])]
  BY DEF Manifests!ManifestFor
<1>7. ASSUME NEW i \in DOMAIN own.actions, NEW a, a = Manifests!ActionIn(own, own.actions[i])
      PROVE  /\ a.Size = own.actions[i].Size /\ a.Digest = own.actions[i].Digest
             /\ a.PackID = own.pack.ID
  BY <1>7 DEF Manifests!ActionIn
<1>8. ASSUME NEW o \in Members(m.CAS)
      PROVE  /\ o.Size >= 0 /\ o.CID = Manifests!rawCIDForDigest(o.Digest)
             /\ o.PackID[2] \in Nat
             /\ \E p \in Members(m.Packs) : p.ID = o.PackID
             /\ \A q \in Members(m.CAS) : o.Digest = q.Digest => o = q
  <2>1. PICK i \in DOMAIN own.cas : o = Manifests!ObjectIn(own, own.cas[i])
    BY <1>4 DEF Members
  <2>2. ASSUME NEW q \in Members(m.CAS), o.Digest = q.Digest PROVE o = q
    <3>1. PICK j \in DOMAIN own.cas : q = Manifests!ObjectIn(own, own.cas[j])
      BY <1>4 DEF Members
    <3>2. own.cas[i].Digest = own.cas[j].Digest BY <1>5, <2>1, <2>2, <3>1
    <3>3. i = j BY <3>2, OwnPacksAssumption
    <3> QED BY <2>1, <3>1, <3>3
  <2>3. own.cas[i].Size >= 0 BY OwnPacksAssumption
  <2> QED BY <1>1, <1>3, <1>5, <2>1, <2>2, <2>3
<1>9. ASSUME NEW a \in Members(m.Actions)
      PROVE  /\ a.Size >= 0
             /\ \E p \in Members(m.Packs) : p.ID = a.PackID
             /\ \A q \in Members(m.Actions) : a.Digest = q.Digest => a = q
  <2>1. PICK i \in DOMAIN own.actions : a = Manifests!ActionIn(own, own.actions[i])
    BY <1>6 DEF Members
  <2>2. ASSUME NEW q \in Members(m.Actions), a.Digest = q.Digest PROVE a = q
    <3>1. PICK j \in DOMAIN own.actions : q = Manifests!ActionIn(own, own.actions[j])
      BY <1>6 DEF Members
    <3>2. own.actions[i].Digest = own.actions[j].Digest BY <1>7, <2>1, <2>2, <3>1
    <3>3. i = j BY <3>2, OwnPacksAssumption
    <3> QED BY <2>1, <3>1, <3>3
  <2>3. own.actions[i].Size >= 0 BY OwnPacksAssumption
  <2> QED BY <1>3, <1>7, <2>1, <2>2, <2>3
<1> QED BY <1>1, <1>3, <1>8, <1>9 DEF WellFormed

\* A manifest is merged.
LEMMA ApplyStep ==
  ASSUME IndexInv, NEW m, WellFormed(m), NEW id, Manifests!validCID(id),
         index' = Manifests!applyManifest(index, id, m), applied' = applied \cup {m},
         phase' = phase, unsaved' \subseteq unsaved
  PROVE  IndexInv'
<1>1. /\ index'.packs = Manifests!ApplyPacks(index.packs, Members(m.Packs))
      /\ index'.cas = Manifests!ApplyObjects(index.cas, Members(m.CAS))
      /\ index'.actions = Manifests!ApplyActions(index.actions, Members(m.Actions))
      /\ index'.actionConflicts =
           index.actionConflicts \cup Manifests!Conflicting(index.actions, Members(m.Actions))
      /\ index'.heads = (index.heads \ Members(m.Parents)) \cup {id}
  BY DEF Manifests!applyManifest, Manifests!ToSet, Members
<1>2. /\ AppliedPacks' = AppliedPacks \cup Members(m.Packs)
      /\ AppliedObjects' = AppliedObjects \cup Members(m.CAS)
      /\ AppliedActions' = AppliedActions \cup Members(m.Actions)
  BY DEF AppliedPacks, AppliedObjects, AppliedActions, Members
<1>3. PacksMerged(index.packs, AppliedPacks)' 
  <2>1. PacksMerged(index.packs, AppliedPacks) BY DEF IndexInv
  <2>2. /\ \A p \in Members(m.Packs) : p.Key[2] \in Nat
        /\ \A p, q \in Members(m.Packs) : p.ID = q.ID => p = q
    BY DEF WellFormed
  <2>3. PacksMerged(Manifests!ApplyPacks(index.packs, Members(m.Packs)),
                    AppliedPacks \cup Members(m.Packs))
    BY <2>1, <2>2, PacksStep, Zenon
  <2>4. PacksMerged(index'.packs, AppliedPacks') BY <1>1, <1>2, <2>3, Zenon
  <2> QED BY <2>4 DEF PacksMerged
<1>4. ObjectsMerged(index.cas, AppliedObjects)'
  <2>1. ObjectsMerged(index.cas, AppliedObjects) BY DEF IndexInv
  <2>2. /\ \A o \in Members(m.CAS) : o.PackID[2] \in Nat
        /\ \A o, q \in Members(m.CAS) : o.Digest = q.Digest => o = q
    BY DEF WellFormed
  <2>3. ObjectsMerged(Manifests!ApplyObjects(index.cas, Members(m.CAS)),
                      AppliedObjects \cup Members(m.CAS))
    BY <2>1, <2>2, ObjectsStep, Zenon
  <2>4. ObjectsMerged(index'.cas, AppliedObjects') BY <1>1, <1>2, <2>3, Zenon
  <2> QED BY <2>4 DEF ObjectsMerged
<1>5. ActionsMerged(index.actions, index.actionConflicts, AppliedActions)'
  <2>1. ActionsMerged(index.actions, index.actionConflicts, AppliedActions) BY DEF IndexInv
  <2>2. \A a, b \in Members(m.Actions) : a.Digest = b.Digest => a = b
    BY DEF WellFormed
  <2>3. ActionsMerged(Manifests!ApplyActions(index.actions, Members(m.Actions)),
          index.actionConflicts \cup Manifests!Conflicting(index.actions, Members(m.Actions)),
          AppliedActions \cup Members(m.Actions))
    BY <2>1, <2>2, ActionsStep, Zenon
  <2>4. ActionsMerged(index'.actions, index'.actionConflicts, AppliedActions')
    BY <1>1, <1>2, <2>3, Zenon
  <2> QED BY <2>4 DEF ActionsMerged
<1>6. \A k \in index'.heads : Manifests!validCID(k) BY <1>1 DEF IndexInv
<1>7. \A n \in applied' : WellFormed(n) BY DEF IndexInv
<1>8. phase' \in {"listing", "listed"} /\ unsaved' \subseteq OwnPacks BY DEF IndexInv
<1>9. PacksMerged(index'.packs, AppliedPacks') BY <1>3 DEF PacksMerged
<1>10. ObjectsMerged(index'.cas, AppliedObjects') BY <1>4 DEF ObjectsMerged
<1>11. ActionsMerged(index'.actions, index'.actionConflicts, AppliedActions')
  BY <1>5 DEF ActionsMerged
<1> QED BY <1>6, <1>7, <1>8, <1>9, <1>10, <1>11 DEF IndexInv

\* The index is empty when a server starts.
LEMMA IndexInitially == StartInit => IndexInv /\ LoadInv
<1> SUFFICES ASSUME StartInit PROVE IndexInv /\ LoadInv OBVIOUS
<1>1. /\ phase = "listing" /\ unsaved = OwnPacks /\ applied = {} /\ unmerged = {}
      /\ index = Manifests!EmptyIndex
      /\ uploads \in Uploads /\ created <= Len(uploads)
  BY DEF StartInit, Manifests!Init
<1>2. /\ index.packs = <<>> /\ index.cas = <<>> /\ index.actions = <<>>
      /\ index.actionConflicts = {} /\ index.heads = {}
  BY <1>1 DEF Manifests!EmptyIndex
<1>3. AppliedPacks = {} /\ AppliedObjects = {} /\ AppliedActions = {} BY <1>1 DEF AppliedPacks, AppliedObjects, AppliedActions
<1>4. PacksMerged(<<>>, {}) BY DEF PacksMerged
<1>5. ObjectsMerged(<<>>, {}) BY DEF ObjectsMerged
<1>6. ActionsMerged(<<>>, {}, {}) BY DEF ActionsMerged
<1>7. IndexInv BY <1>1, <1>2, <1>3, <1>4, <1>5, <1>6 DEF IndexInv
<1>8. LoadInv BY <1>1 DEF LoadInv
<1> QED BY <1>7, <1>8

\* The steps that do not merge.
LEMMA IndexIsKept ==
  ASSUME IndexInv, UNCHANGED <<index, unsaved, applied>>, phase' \in {"listing", "listed"}
  PROVE  IndexInv'
<1>1. AppliedPacks' = AppliedPacks /\ AppliedObjects' = AppliedObjects /\ AppliedActions' = AppliedActions
  BY DEF AppliedPacks, AppliedObjects, AppliedActions
<1>2. /\ PacksMerged(index'.packs, AppliedPacks')
      /\ ObjectsMerged(index'.cas, AppliedObjects')
      /\ ActionsMerged(index'.actions, index'.actionConflicts, AppliedActions')
  BY <1>1 DEF IndexInv
<1>3. /\ unsaved' \subseteq OwnPacks /\ \A m \in applied' : WellFormed(m)
      /\ \A id \in index'.heads : Manifests!validCID(id)
  BY DEF IndexInv
<1> QED BY <1>2, <1>3 DEF IndexInv

LEMMA IndexStep ==
  ASSUME IndexInv, LoadInv, ListInv, [StartNext]_<<uploads, vars, indexVars>>
  PROVE  IndexInv' /\ LoadInv'
<1>1. CASE List
  <2>1. UNCHANGED <<uploads, indexVars>> /\ created' <= Len(uploads) BY <1>1 DEF List
  <2>2. IndexInv' BY <2>1, IndexIsKept DEF indexVars, IndexInv
  <2>3. LoadInv' BY <2>1 DEF LoadInv, indexVars
  <2> QED BY <2>2, <2>3
<1>2. CASE Load
  <2>1. PICK loaded \in SUBSET Listed : Manifests!Discover(loaded) BY <1>2 DEF Load
  <2>2. /\ phase' = "listed" /\ UNCHANGED <<index, unsaved, applied, uploads>> /\ created' = 0
        /\ unmerged' = {e \in loaded : Manifests!decodeManifest(e) # {}}
    BY <1>2, <2>1 DEF Load, Manifests!Discover
  <2>3. IndexInv' BY <2>2, IndexIsKept
  <2>4. ASSUME NEW e \in unmerged'
        PROVE  (\E k \in DOMAIN uploads : e = uploads[k]) /\ Manifests!decodeManifest(e) # {}
    <3>1. e \in Listed /\ Manifests!decodeManifest(e) # {} BY <2>2
    <3>2. PICK k \in keys : e = uploads[k] BY <3>1 DEF Listed
    <3>3. k \in 1..created BY DEF ListInv, ListTypes
    <3>4. Len(uploads) \in Nat /\ DOMAIN uploads = 1..Len(uploads) /\ created <= Len(uploads)
      BY UploadsAssumption DEF LoadInv
    <3>5. created \in Nat BY CatalogAssumption DEF ListInv, ServiceTypes
    <3>6. k \in DOMAIN uploads BY <3>3, <3>4, <3>5
    <3> QED BY <3>1, <3>2, <3>6
  <2>5. uploads \in Uploads /\ Len(uploads) \in Nat BY UploadsAssumption DEF LoadInv
  <2>6. LoadInv' BY <2>2, <2>4, <2>5 DEF LoadInv
  <2> QED BY <2>3, <2>6
<1>3. CASE Merge
  <2>1. PICK e \in unmerged :
          /\ index' = Manifests!applyManifest(index, KeyCID(e),
                                              Manifests!The(Manifests!decodeManifest(e)))
          /\ applied' = applied \cup {Manifests!The(Manifests!decodeManifest(e))}
          /\ unmerged' = unmerged \ {e}
    BY <1>3 DEF Merge, Manifests!MergeNext
  <2>2. UNCHANGED <<phase, unsaved, uploads, created>>
    BY <1>3 DEF Merge, Manifests!MergeNext, vars, service
  <2>3. PICK m : m = Manifests!The(Manifests!decodeManifest(e)) OBVIOUS
  <2>4. WellFormed(m) /\ Manifests!validCID(KeyCID(e)) BY <2>3, ReadIsWellFormed
  <2>5. PICK id : id = KeyCID(e) OBVIOUS
  <2>6. index' = Manifests!applyManifest(index, id, m) /\ applied' = applied \cup {m}
    BY <2>1, <2>3, <2>5
  <2>7. IndexInv' BY <2>2, <2>4, <2>5, <2>6, ApplyStep
  <2>8. LoadInv' BY <2>1, <2>2 DEF LoadInv
  <2> QED BY <2>7, <2>8
<1>4. CASE Flush
  <2>1. PICK own \in unsaved :
          /\ index' = Manifests!applyManifest(index, own.cid, Manifests!ManifestFor(own))
          /\ applied' = applied \cup {Manifests!ManifestFor(own)}
          /\ unsaved' = unsaved \ {own}
    BY <1>4 DEF Flush, Manifests!Write
  <2>2. UNCHANGED <<phase, unmerged, uploads, created>>
    BY <1>4 DEF Flush, Manifests!Write, vars, service
  <2>3. own \in OwnPacks BY DEF IndexInv
  <2>4. PICK m : m = Manifests!ManifestFor(own) OBVIOUS
  <2>5. WellFormed(m) BY <2>3, <2>4, WrittenIsWellFormed
  <2>6. PICK id : id = own.cid OBVIOUS
  <2>7. Manifests!validCID(id) BY <2>3, <2>6, OwnPacksAssumption
  <2>8. index' = Manifests!applyManifest(index, id, m) /\ applied' = applied \cup {m}
    BY <2>1, <2>4, <2>6
  <2>9. IndexInv' BY <2>1, <2>2, <2>5, <2>7, <2>8, ApplyStep
  <2>10. LoadInv' BY <2>2 DEF LoadInv
  <2> QED BY <2>9, <2>10
<1>5. CASE UNCHANGED <<uploads, vars, indexVars>>
  <2>1. IndexInv' BY <1>5, IndexIsKept DEF indexVars, IndexInv
  <2>2. LoadInv' BY <1>5 DEF LoadInv, indexVars, vars, service
  <2> QED BY <2>1, <2>2
<1> QED BY <1>1, <1>2, <1>3, <1>4, <1>5 DEF StartNext

\* Every entry of the index is an entry of a manifest that declares its pack.
LEMMA ClosedFollows == IndexInv => IndexIsClosed
<1> SUFFICES ASSUME IndexInv PROVE IndexIsClosed OBVIOUS
<1>1. /\ PacksMerged(index.packs, AppliedPacks) /\ ObjectsMerged(index.cas, AppliedObjects)
      /\ ActionsMerged(index.actions, index.actionConflicts, AppliedActions)
  BY DEF IndexInv
<1>2. ASSUME NEW id \in DOMAIN index.packs
      PROVE  /\ index.packs[id].ID = id /\ index.packs[id].Size > 0
             /\ index.packs[id].Key[3] = id[2]
  <2>1. index.packs[id] \in AppliedPacks /\ index.packs[id].ID = id BY <1>1, Zenon DEF PacksMerged
  <2>2. PICK m \in applied : index.packs[id] \in Members(m.Packs) BY <2>1 DEF AppliedPacks
  <2>3. WellFormed(m) BY DEF IndexInv
  <2> QED BY <2>1, <2>2, <2>3 DEF WellFormed
<1>3. \A m \in applied : \A p \in Members(m.Packs) : p.ID \in DOMAIN index.packs
  <2> SUFFICES ASSUME NEW m \in applied, NEW p \in Members(m.Packs)
               PROVE  p.ID \in DOMAIN index.packs
    OBVIOUS
  <2>1. p \in AppliedPacks BY DEF AppliedPacks
  <2> QED BY <1>1, <2>1 DEF PacksMerged
<1>4. ASSUME NEW d \in DOMAIN index.cas
      PROVE  /\ index.cas[d].Digest = d /\ index.cas[d].Size >= 0
             /\ index.cas[d].PackID \in DOMAIN index.packs
             /\ index.cas[d].CID = Manifests!rawCIDForDigest(d)
  <2>1. index.cas[d] \in AppliedObjects /\ index.cas[d].Digest = d BY <1>1, Zenon DEF ObjectsMerged
  <2>2. PICK m \in applied : index.cas[d] \in Members(m.CAS) BY <2>1 DEF AppliedObjects
  <2>3. WellFormed(m) BY DEF IndexInv
  <2>4. PICK o : o = index.cas[d] OBVIOUS
  <2>5. /\ o.Size >= 0 /\ o.CID = Manifests!rawCIDForDigest(o.Digest)
        /\ \E p \in Members(m.Packs) : p.ID = o.PackID
    BY <2>2, <2>3, <2>4 DEF WellFormed
  <2>6. o.PackID \in DOMAIN index.packs BY <1>3, <2>5
  <2> QED BY <2>1, <2>4, <2>5, <2>6
<1>5. ASSUME NEW d \in DOMAIN index.actions
      PROVE  /\ index.actions[d].Digest = d /\ index.actions[d].Size >= 0
             /\ index.actions[d].PackID \in DOMAIN index.packs
  <2>1. index.actions[d] \in AppliedActions /\ index.actions[d].Digest = d
    BY <1>1, Zenon DEF ActionsMerged
  <2>2. PICK m \in applied : index.actions[d] \in Members(m.Actions) BY <2>1 DEF AppliedActions
  <2>3. WellFormed(m) BY DEF IndexInv
  <2>4. PICK a : a = index.actions[d] OBVIOUS
  <2>5. a.Size >= 0 /\ \E p \in Members(m.Packs) : p.ID = a.PackID
    BY <2>2, <2>3, <2>4 DEF WellFormed
  <2>6. a.PackID \in DOMAIN index.packs BY <1>3, <2>5
  <2> QED BY <2>1, <2>4, <2>5, <2>6
<1>6. Manifests!IndexTypes BY <1>2, <1>4, <1>5 DEF IndexInv, Manifests!IndexTypes
<1>7. Manifests!IndexIsClosed BY <1>2, <1>4, <1>5 DEF Manifests!IndexIsClosed
<1> QED BY <1>6, <1>7 DEF IndexIsClosed

\* The index is a function of the set of the manifests.
LEMMA MergeFollows == IndexInv => IndexIsMerge
<1> SUFFICES ASSUME IndexInv PROVE IndexIsMerge OBVIOUS
<1>1. /\ PacksMerged(index.packs, AppliedPacks) /\ ObjectsMerged(index.cas, AppliedObjects)
      /\ ActionsMerged(index.actions, index.actionConflicts, AppliedActions)
  BY DEF IndexInv
<1>2. /\ AppliedPacks = Manifests!AllPacks /\ AppliedObjects = Manifests!AllCAS
      /\ AppliedActions = Manifests!AllActions
  BY DEF AppliedPacks, AppliedObjects, AppliedActions, Members, Manifests!AllPacks, Manifests!AllCAS,
         Manifests!AllActions, Manifests!Elements, Manifests!ToSet
<1>3. /\ DOMAIN index.packs = {p.ID : p \in AppliedPacks}
      /\ \A p \in AppliedPacks : index.packs[p.ID].Key[2] <= p.Key[2]
  BY <1>1 DEF PacksMerged
<1>4. DOMAIN index.cas = {o.Digest : o \in AppliedObjects} BY <1>1 DEF ObjectsMerged
<1>5. ASSUME NEW o \in AppliedObjects PROVE ~Manifests!Before(o, index.cas[o.Digest])
  <2>1. o.Digest \in DOMAIN index.cas BY <1>4
  <2>2. index.cas[o.Digest] \in AppliedObjects BY <1>1, <2>1, Zenon DEF ObjectsMerged
  <2>3. index.cas[o.Digest].PackID[2] \in Nat BY <1>1, <2>2 DEF ObjectsMerged
  <2>4. o.PackID[2] \in Nat /\ index.cas[o.Digest].PackID[2] <= o.PackID[2]
    BY <1>1 DEF ObjectsMerged
  <2> QED BY <2>3, <2>4 DEF Manifests!Before, Manifests!Precedes
<1>6. DOMAIN index.actions = {a.Digest : a \in AppliedActions} BY <1>1, Zenon DEF ActionsMerged
<1>7. \A a \in AppliedActions :
        a.Digest \notin index.actionConflicts => index.actions[a.Digest].CID = a.CID
  BY <1>1, Zenon DEF ActionsMerged
<1>8. \A d \in index.actionConflicts :
        \E a, b \in AppliedActions : a.Digest = d /\ b.Digest = d /\ a.CID # b.CID
  BY <1>1, Zenon DEF ActionsMerged
<1>9. \A a \in AppliedActions :
        a.Digest \in index.actionConflicts <=>
          \E b \in AppliedActions : b.Digest = a.Digest /\ b.CID # a.CID
  BY <1>7, <1>8
<1> QED
  BY <1>2, <1>3, <1>4, <1>5, <1>6, <1>7, <1>9 DEF IndexIsMerge, Manifests!IndexIsMerge

(* What was uploaded and what this server writes keep the invariant of the  *)
(* index: applyManifestLocked, pack_store.go:694-718.                       *)
THEOREM IndexInvariant == StartSpec => [](IndexInv /\ LoadInv)
<1>1. StartInit => IndexInv /\ LoadInv BY IndexInitially
<1>2. /\ IndexInv /\ LoadInv /\ ListInv /\ [StartNext]_<<uploads, vars, indexVars>>
      => (IndexInv /\ LoadInv)'
  BY IndexStep
<1> QED BY <1>1, <1>2, ListingInvariant, PTL DEF StartSpec

(* Whatever is stored under the keys of manifests, every entry of the index *)
(* can be looked up to its end (manifest.go:285-336, pack_store.go:188).    *)
THEOREM IndexStaysClosed == StartSpec => []IndexIsClosed
BY IndexInvariant, ClosedFollows, PTL

(* The order in which manifests are listed, loaded and written makes no     *)
(* difference to the packs, the objects and the results without a conflict. *)
THEOREM IndexDependsOnTheSet == StartSpec => []IndexIsMerge
BY IndexInvariant, MergeFollows, PTL

-----------------------------------------------------------------------------
(* Sorting: what InOrder returns, for any list and any names.               *)

\* The k-th item comes no later than the i-th, by name and by position.
NoLater(names, j, k) ==
  names[j][2] < names[k][2] \/ (names[j][2] = names[k][2] /\ j <= k)

Earlier(names, k) == {j \in DOMAIN names : NoLater(names, j, k)}

\* The names of n items.
Names(names, n) == DOMAIN names = 1..n /\ \A i \in 1..n : names[i][2] \in Nat

\* A list of n items.
Listing(items, n) == items = [i \in 1..n |-> items[i]]

\* ManifestFormat counts as the library does.
LEMMA SameCardinality ==
  ASSUME NEW s PROVE Manifests!Cardinality(s) = Cardinality(s)
BY DEF Manifests!Cardinality, Cardinality

\* A place is a number of earlier items.
LEMMA PlaceIs ==
  ASSUME NEW names, NEW k
  PROVE  Manifests!Place(names, k) = Cardinality(Earlier(names, k))
<1>1. PICK s : s = {j \in DOMAIN names : names[j][2] < names[k][2]
                                      \/ (names[j][2] = names[k][2] /\ j <= k)}
  OBVIOUS
<1>2. Manifests!Place(names, k) = Manifests!Cardinality(s)
  BY <1>1 DEF Manifests!Place, Manifests!Precedes
<1>3. Earlier(names, k) = s BY <1>1 DEF Earlier, NoLater
<1> QED BY <1>2, <1>3, SameCardinality

\* Every item has a place of its own, and every place an item.
LEMMA Places ==
  ASSUME NEW n \in Nat, NEW names, Names(names, n)
  PROVE  /\ \A k \in 1..n : Manifests!Place(names, k) \in 1..n
         /\ \A j, k \in 1..n : Manifests!Place(names, j) = Manifests!Place(names, k) => j = k
         /\ \A i \in 1..n : \E k \in 1..n : Manifests!Place(names, k) = i
<1>1. DOMAIN names = 1..n /\ \A i \in 1..n : names[i][2] \in Nat BY DEF Names
<1>2. \A k : Manifests!Place(names, k) = Cardinality(Earlier(names, k)) BY PlaceIs
<1>3. IsFiniteSet(1..n) /\ Cardinality(1..n) = n BY FS_Interval
<1>4. ASSUME NEW k \in 1..n
      PROVE  /\ IsFiniteSet(Earlier(names, k)) /\ Cardinality(Earlier(names, k)) \in 1..n
  <2>1. Earlier(names, k) \subseteq 1..n /\ k \in Earlier(names, k)
    BY <1>1 DEF Earlier, NoLater
  <2>2. IsFiniteSet(Earlier(names, k)) /\ Cardinality(Earlier(names, k)) <= n
    BY <1>3, <2>1, FS_Subset
  <2>3. Cardinality(Earlier(names, k)) \in Nat BY <2>2, FS_CardinalityType
  <2>4. Cardinality(Earlier(names, k)) # 0 BY <2>1, <2>2, FS_EmptySet
  <2> QED BY <1>1, <2>2, <2>3, <2>4
<1>5. ASSUME NEW j \in 1..n, NEW k \in 1..n, j # k, NoLater(names, j, k)
      PROVE  Manifests!Place(names, j) < Manifests!Place(names, k)
  <2>1. Earlier(names, j) \subseteq Earlier(names, k)
    <3>1. ASSUME NEW i \in 1..n, NoLater(names, i, j) PROVE NoLater(names, i, k)
      BY <1>1, <1>5, <3>1 DEF NoLater
    <3> QED BY <1>1, <3>1 DEF Earlier
  <2>2. k \in Earlier(names, k) /\ k \notin Earlier(names, j) BY <1>1, <1>5 DEF Earlier, NoLater
  <2>3. PICK a : a = Earlier(names, j) OBVIOUS
  <2>4. PICK b : b = Earlier(names, k) OBVIOUS
  <2>5. Cardinality(a) <= Cardinality(b) /\ Cardinality(a) # Cardinality(b)
    BY <1>4, <2>1, <2>2, <2>3, <2>4, FS_Subset
  <2>6. Cardinality(a) \in Nat /\ Cardinality(b) \in Nat BY <1>4, <2>3, <2>4
  <2> QED BY <1>2, <2>3, <2>4, <2>5, <2>6
<1>6. \A k \in 1..n : Manifests!Place(names, k) \in 1..n BY <1>2, <1>4
<1>7. \A j, k \in 1..n : Manifests!Place(names, j) = Manifests!Place(names, k) => j = k
  <2> SUFFICES ASSUME NEW j \in 1..n, NEW k \in 1..n, j # k
               PROVE  Manifests!Place(names, j) # Manifests!Place(names, k)
    OBVIOUS
  <2>1. NoLater(names, j, k) \/ NoLater(names, k, j) BY <1>1 DEF NoLater
  <2>2. Manifests!Place(names, j) \in 1..n /\ Manifests!Place(names, k) \in 1..n BY <1>6
  <2>3. \/ Manifests!Place(names, j) < Manifests!Place(names, k)
        \/ Manifests!Place(names, k) < Manifests!Place(names, j)
    BY <1>5, <2>1
  <2> QED BY <2>2, <2>3
<1>8. \A i \in 1..n : \E k \in 1..n : Manifests!Place(names, k) = i
  <2>1. PICK f : f = [k \in 1..n |-> Manifests!Place(names, k)] OBVIOUS
  <2>2. f \in Injection(1..n, 1..n) BY <1>6, <1>7, <2>1 DEF Injection, IsInjective
  <2>3. f \in Surjection(1..n, 1..n) BY <1>3, <2>2, FS_Injection
  <2> QED BY <2>1, <2>3 DEF Surjection
<1> QED BY <1>6, <1>7, <1>8

\* order lists the items of a sorted list by their positions in the other list.
Orders(order, names, n) ==
  /\ order \in [1..n -> 1..n]
  /\ \A i \in 1..n : Manifests!Place(names, order[i]) = i
  /\ \A k \in 1..n : \E i \in 1..n : order[i] = k
  /\ \A i, j \in 1..n : order[i] = order[j] => i = j

\* It is the order in which InOrder takes them.
Sorts(order, names, n) ==
  /\ Orders(order, names, n)
  /\ \A items : DOMAIN items = 1..n =>
       Manifests!InOrder(items, names) = [i \in 1..n |-> items[order[i]]]

\* One order sorts everything that has these names.
LEMMA HasOrder ==
  ASSUME NEW n \in Nat, NEW names, Names(names, n)
  PROVE  \E order : Sorts(order, names, n)
<1>1. /\ DOMAIN names = 1..n
      /\ \A k \in 1..n : Manifests!Place(names, k) \in 1..n
      /\ \A j, k \in 1..n : Manifests!Place(names, j) = Manifests!Place(names, k) => j = k
      /\ \A i \in 1..n : \E k \in 1..n : Manifests!Place(names, k) = i
  BY Places DEF Names
<1>2. PICK order : order = [i \in 1..n |-> CHOOSE k \in 1..n : Manifests!Place(names, k) = i]
  OBVIOUS
<1>3. order \in [1..n -> 1..n] /\ \A i \in 1..n : Manifests!Place(names, order[i]) = i
  BY <1>1, <1>2
<1>4. \A k \in 1..n : \E i \in 1..n : order[i] = k
  <2> SUFFICES ASSUME NEW k \in 1..n PROVE \E i \in 1..n : order[i] = k OBVIOUS
  <2>1. PICK i \in 1..n : i = Manifests!Place(names, k) BY <1>1
  <2>2. order[i] \in 1..n /\ Manifests!Place(names, order[i]) = i BY <1>3
  <2>3. order[i] = k BY <1>1, <2>1, <2>2
  <2> QED BY <2>3
<1>5. \A i, j \in 1..n : order[i] = order[j] => i = j BY <1>3
<1>6. Orders(order, names, n) BY <1>3, <1>4, <1>5 DEF Orders
<1>7. ASSUME NEW items, DOMAIN items = 1..n
      PROVE  Manifests!InOrder(items, names) = [i \in 1..n |-> items[order[i]]]
  <2>1. Manifests!InOrder(items, names)
          = [i \in 1..n |-> items[CHOOSE k \in 1..n : Manifests!Place(names, k) = i]]
    BY <1>1, <1>7 DEF Manifests!InOrder
  <2>2. \A i \in 1..n : (CHOOSE k \in 1..n : Manifests!Place(names, k) = i) = order[i] BY <1>2
  <2> QED BY <2>1, <2>2
<1> QED BY <1>6, <1>7 DEF Sorts

\* What is sorted is sorted, and stays as it is when it is sorted again.
LEMMA SortedAgain ==
  ASSUME NEW n \in Nat, NEW names, Names(names, n), NEW order, Orders(order, names, n),
         NEW new, new = [i \in 1..n |-> names[order[i]]],
         NEW items, Listing(items, n)
  PROVE  Manifests!InOrder(items, new) = items
<1>1. DOMAIN names = 1..n /\ \A i \in 1..n : names[i][2] \in Nat BY DEF Names
<1>2. DOMAIN new = 1..n /\ \A i \in 1..n : new[i] = names[order[i]] /\ new[i][2] \in Nat
  BY <1>1 DEF Orders
<1>3. ASSUME NEW j \in 1..n, NEW k \in 1..n, j < k PROVE new[j][2] <= new[k][2]
  <2> SUFFICES ASSUME new[k][2] < new[j][2] PROVE FALSE BY <1>2
  <2>1. PICK a \in 1..n : a = order[k] BY DEF Orders
  <2>2. PICK b \in 1..n : b = order[j] BY DEF Orders
  <2>3. Manifests!Place(names, a) = k /\ Manifests!Place(names, b) = j BY <2>1, <2>2 DEF Orders
  <2>4. names[a][2] < names[b][2] BY <1>2, <2>1, <2>2
  <2>5. Earlier(names, a) \subseteq Earlier(names, b) BY <1>1, <2>4 DEF Earlier, NoLater
  <2>6. /\ Manifests!Place(names, a) = Cardinality(Earlier(names, a))
        /\ Manifests!Place(names, b) = Cardinality(Earlier(names, b))
    BY PlaceIs
  <2>7. IsFiniteSet(1..n) BY <1>1, FS_Interval
  <2>8. IsFiniteSet(Earlier(names, b)) BY <1>1, <2>7, FS_Subset DEF Earlier
  <2>9. Cardinality(Earlier(names, a)) <= Cardinality(Earlier(names, b)) BY <2>5, <2>8, FS_Subset
  <2> QED BY <1>3, <2>3, <2>6, <2>9
<1>4. ASSUME NEW k \in 1..n PROVE Manifests!Place(new, k) = k
  <2>1. Earlier(new, k) = 1..k
    <3>1. ASSUME NEW j \in 1..n
          PROVE  (new[j][2] < new[k][2] \/ (new[j][2] = new[k][2] /\ j <= k)) <=> j <= k
      <4>1. CASE j = k BY <4>1
      <4>2. CASE j < k
        <5>1. new[j][2] <= new[k][2] /\ new[j][2] \in Nat /\ new[k][2] \in Nat BY <1>2, <1>3, <4>2
        <5> QED BY <4>2, <5>1
      <4>3. CASE k < j
        <5>1. new[k][2] <= new[j][2] /\ new[j][2] \in Nat /\ new[k][2] \in Nat BY <1>2, <1>3, <4>3
        <5> QED BY <4>3, <5>1
      <4> QED BY <1>1, <4>1, <4>2, <4>3
    <3>2. \A j \in 1..k : j \in 1..n BY <1>1
    <3> QED BY <1>2, <3>1, <3>2 DEF Earlier, NoLater
  <2>2. Cardinality(1..k) = k BY FS_Interval
  <2> QED BY <2>1, <2>2, PlaceIs
<1>5. ASSUME NEW i \in 1..n PROVE (CHOOSE k \in 1..n : Manifests!Place(new, k) = i) = i
  BY <1>4
<1>6. Manifests!InOrder(items, new)
        = [i \in 1..n |-> items[CHOOSE k \in 1..n : Manifests!Place(new, k) = i]]
  <2>1. DOMAIN items = 1..n BY DEF Listing
  <2> QED BY <1>2, <2>1 DEF Manifests!InOrder
<1>7. Manifests!InOrder(items, new) = [i \in 1..n |-> items[i]] BY <1>5, <1>6
<1> QED BY <1>7 DEF Listing

-----------------------------------------------------------------------------
(* A list that is sorted by a field, or a list of strings.                  *)

\* A permutation.
Permutes(order, n) ==
  /\ order \in [1..n -> 1..n]
  /\ \A k \in 1..n : \E i \in 1..n : order[i] = k
  /\ \A i, j \in 1..n : order[i] = order[j] => i = j

\* A list of n items whose field is a name.
NamedBy(items, field, n) ==
  Listing(items, n) /\ \A i \in 1..n : items[i][field][2] \in Nat

\* The order depends on the names only.
SortsBy(order, items, field, n) ==
  /\ Permutes(order, n)
  /\ \A others :
       DOMAIN others = 1..n /\ (\A i \in 1..n : others[i][field] = items[i][field])
       => /\ Manifests!SortedBy(others, field) = [i \in 1..n |-> others[order[i]]]
          /\ Manifests!SortedBy([i \in 1..n |-> others[order[i]]], field)
               = [i \in 1..n |-> others[order[i]]]

\* SortedBy takes the items in the order of their names.
LEMMA SortIs ==
  ASSUME NEW n \in Nat, NEW items, NEW field, NamedBy(items, field, n)
  PROVE  \E order : SortsBy(order, items, field, n)
<1>1. DOMAIN items = 1..n BY DEF NamedBy, Listing
<1>2. PICK names : names = [i \in 1..n |-> items[i][field]] OBVIOUS
<1>3. Names(names, n) BY <1>2 DEF Names, NamedBy
<1>4. PICK order : Sorts(order, names, n) BY <1>3, HasOrder
<1>5. Permutes(order, n) BY <1>4 DEF Sorts, Orders, Permutes
<1>6. ASSUME NEW others, DOMAIN others = 1..n, \A i \in 1..n : others[i][field] = items[i][field],
             NEW new, new = [i \in 1..n |-> others[order[i]]]
      PROVE  Manifests!SortedBy(others, field) = new /\ Manifests!SortedBy(new, field) = new
  <2>1. Manifests!Column(others, field) = names BY <1>2, <1>6 DEF Manifests!Column
  <2>2. Manifests!InOrder(others, names) = new BY <1>4, <1>6 DEF Sorts
  <2>3. Manifests!SortedBy(others, field) = new BY <2>1, <2>2 DEF Manifests!SortedBy
  <2>4. PICK again : again = [i \in 1..n |-> names[order[i]]] OBVIOUS
  <2>5. Manifests!Column(new, field) = again
    <3>1. \A i \in 1..n : order[i] \in 1..n BY <1>5 DEF Permutes
    <3>2. \A i \in 1..n : new[i][field] = names[order[i]] BY <1>2, <1>6, <3>1
    <3>3. DOMAIN new = 1..n BY <1>6
    <3> QED BY <2>4, <3>2, <3>3 DEF Manifests!Column
  <2>6. Listing(new, n) BY <1>6 DEF Listing
  <2>7. Orders(order, names, n) BY <1>4 DEF Sorts
  <2>8. Manifests!InOrder(new, again) = new BY <1>3, <2>4, <2>6, <2>7, SortedAgain
  <2>9. Manifests!SortedBy(new, field) = new BY <2>5, <2>8 DEF Manifests!SortedBy
  <2> QED BY <2>3, <2>9
<1>7. SortsBy(order, items, field, n) BY <1>5, <1>6 DEF SortsBy
<1> QED BY <1>7

\* Every string of one list is one of the other.
Within(new, old, n) == \A i \in 1..n : \E k \in 1..n : new[i] = old[k]

\* A list of strings, sorted once or twice.
LEMMA TextsSort ==
  ASSUME NEW n \in Nat, NEW texts, Listing(texts, n), Names(texts, n),
         NEW new, new = Manifests!SortedTexts(texts)
  PROVE  /\ Manifests!SortedTexts(new) = new /\ Listing(new, n)
         /\ Within(new, texts, n)
<1>1. PICK order : Sorts(order, texts, n) BY HasOrder
<1>2. DOMAIN texts = 1..n /\ Orders(order, texts, n) BY <1>1 DEF Names, Sorts
<1>3. new = [i \in 1..n |-> texts[order[i]]]
  BY <1>1, <1>2 DEF Sorts, Manifests!SortedTexts
<1>4. Listing(new, n) BY <1>3 DEF Listing
<1>5. Manifests!InOrder(new, new) = new BY <1>2, <1>3, <1>4, SortedAgain
<1>6. \A i \in 1..n : order[i] \in 1..n /\ new[i] = texts[order[i]] BY <1>2, <1>3 DEF Orders
<1>7. Within(new, texts, n) BY <1>6 DEF Within
<1> QED BY <1>4, <1>5, <1>7 DEF Manifests!SortedTexts

-----------------------------------------------------------------------------
(* Reading what was encoded: of every node, each field and each item.       *)

\* The records of a manifest have these fields and no others.
IsPack(p) == p = [ID |-> p.ID, Key |-> p.Key, Size |-> p.Size]

IsObject(o) == o = [Digest |-> o.Digest, CID |-> o.CID, PackID |-> o.PackID, Size |-> o.Size]

IsAction(a) ==
  a = [Digest |-> a.Digest, CID |-> a.CID, PackID |-> a.PackID, Size |-> a.Size,
       ClosurePacks |-> a.ClosurePacks]

\* A field is read as it was written.
LEMMA Fields ==
  ASSUME NEW node, NEW key \in DOMAIN node.value
  PROVE  /\ \A x : node.value[key] = Manifests!Text(x) => Manifests!nodeString(node, key) = {x}
         /\ \A x : node.value[key] = Manifests!Int64(x) => Manifests!nodeInt(node, key) = {x}
         /\ \A x : node.value[key] = Manifests!List(x) => Manifests!Lookup(node, key, "list") = {x}
BY DEF Manifests!Text, Manifests!Int64, Manifests!List, Manifests!nodeString, Manifests!nodeInt,
       Manifests!Lookup

\* The value of an optional.
LEMMA TheIs == ASSUME NEW x PROVE Manifests!The({x}) = x
BY DEF Manifests!The

\* A list of strings is read as it was encoded.
LEMMA TextsRead ==
  ASSUME NEW n \in Nat, NEW texts, Listing(texts, n), NEW node, NEW key \in DOMAIN node.value,
         node.value[key] = Manifests!Texts(texts)
  PROVE  Manifests!nodeStringList(node, key) = {texts}
<1>1. DOMAIN texts = 1..n BY DEF Listing
<1>2. PICK items : items = [i \in 1..n |-> Manifests!Text(texts[i])] OBVIOUS
<1>3. Manifests!Lookup(node, key, "list") = {items} BY <1>1, <1>2, Fields DEF Manifests!Texts
<1>4. \A i \in 1..n : Manifests!StringItem(items[i]) = {texts[i]}
  BY <1>2 DEF Manifests!StringItem, Manifests!Text
<1>5. \A i \in 1..n : Manifests!The(Manifests!StringItem(items[i])) = texts[i] BY <1>4, TheIs
<1>6. DOMAIN items = 1..n BY <1>2
<1>7. [i \in DOMAIN items |-> Manifests!The(Manifests!StringItem(items[i]))] = texts
  BY <1>5, <1>6 DEF Listing
<1>8. \A i \in DOMAIN items : Manifests!StringItem(items[i]) # {} BY <1>4, <1>6
<1> QED BY <1>3, <1>7, <1>8 DEF Manifests!nodeStringList, Manifests!ListOf, Manifests!EachOf

\* The node of a pack.
LEMMA PackRead ==
  ASSUME NEW p, IsPack(p) PROVE Manifests!PackItem(Manifests!PackNode(p)) = {p}
<1>1. PICK node : node = Manifests!PackNode(p) OBVIOUS
<1>2. PICK value : value = [id |-> Manifests!Text(p.ID), key |-> Manifests!Text(p.Key),
                            size |-> Manifests!Int64(p.Size)]
  OBVIOUS
<1>3. node.kind = "map" /\ node.value = value
  BY <1>1, <1>2 DEF Manifests!PackNode, Manifests!Map
<1>4. /\ Manifests!nodeString(node, "id") = {p.ID} /\ Manifests!nodeString(node, "key") = {p.Key}
      /\ Manifests!nodeInt(node, "size") = {p.Size}
  BY <1>2, <1>3, Fields
<1>5. Manifests!PackItem(node) = {[ID |-> p.ID, Key |-> p.Key, Size |-> p.Size]}
  BY <1>3, <1>4 DEF Manifests!PackItem
<1> QED BY <1>1, <1>5 DEF IsPack

\* The node of an object.
LEMMA ObjectRead ==
  ASSUME NEW o, IsObject(o) PROVE Manifests!nodeObject(Manifests!CASNode(o)) = {o}
<1>1. PICK node : node = Manifests!CASNode(o) OBVIOUS
<1>2. PICK value : value = [cid |-> Manifests!Text(o.CID), digest |-> Manifests!Text(o.Digest),
                            pack |-> Manifests!Text(o.PackID), size |-> Manifests!Int64(o.Size)]
  OBVIOUS
<1>3. node.kind = "map" /\ node.value = value
  BY <1>1, <1>2 DEF Manifests!CASNode, Manifests!Map
<1>4. /\ Manifests!nodeString(node, "digest") = {o.Digest}
      /\ Manifests!nodeString(node, "cid") = {o.CID}
      /\ Manifests!nodeString(node, "pack") = {o.PackID}
      /\ Manifests!nodeInt(node, "size") = {o.Size}
  BY <1>2, <1>3, Fields
<1>5. Manifests!nodeObject(node)
        = {[Digest |-> o.Digest, CID |-> o.CID, PackID |-> o.PackID, Size |-> o.Size]}
  BY <1>3, <1>4 DEF Manifests!nodeObject
<1> QED BY <1>1, <1>5 DEF IsObject

\* An action comes back with its closure sorted.
Resorted(a) ==
  [Digest |-> a.Digest, CID |-> a.CID, PackID |-> a.PackID, Size |-> a.Size,
   ClosurePacks |-> Manifests!SortedTexts(a.ClosurePacks)]

\* The node of an action.
LEMMA ActionRead ==
  ASSUME NEW a, NEW n \in Nat, Listing(a.ClosurePacks, n), Names(a.ClosurePacks, n)
  PROVE  Manifests!ActionItem(Manifests!ActionNode(a)) = {Resorted(a)}
<1>1. PICK node : node = Manifests!ActionNode(a) OBVIOUS
<1>2. PICK closure : closure = Manifests!SortedTexts(a.ClosurePacks) OBVIOUS
<1>3. PICK value : value = [cid |-> Manifests!Text(a.CID), digest |-> Manifests!Text(a.Digest),
                            pack |-> Manifests!Text(a.PackID),
                            closure |-> Manifests!Texts(closure),
                            size |-> Manifests!Int64(a.Size)]
  OBVIOUS
<1>4. node.kind = "map" /\ node.value = value
  BY <1>1, <1>2, <1>3 DEF Manifests!ActionNode, Manifests!Map
<1>5. /\ Manifests!nodeString(node, "digest") = {a.Digest}
      /\ Manifests!nodeString(node, "cid") = {a.CID}
      /\ Manifests!nodeString(node, "pack") = {a.PackID}
      /\ Manifests!nodeInt(node, "size") = {a.Size}
  BY <1>3, <1>4, Fields
<1>6. Listing(closure, n) BY <1>2, TextsSort
<1>7. "closure" \in DOMAIN node.value /\ node.value["closure"] = Manifests!Texts(closure)
  BY <1>3, <1>4
<1>8. Manifests!nodeStringList(node, "closure") = {closure} BY <1>6, <1>7, TextsRead
<1>9. Manifests!ActionItem(node)
        = {[Digest |-> a.Digest, CID |-> a.CID, PackID |-> a.PackID, Size |-> a.Size,
            ClosurePacks |-> closure]}
  BY <1>4, <1>5, <1>8 DEF Manifests!ActionItem
<1> QED BY <1>1, <1>2, <1>9 DEF Resorted

\* The list of the packs is read as it was encoded.
LEMMA PacksRead ==
  ASSUME NEW n \in Nat, NEW ps, Listing(ps, n), \A i \in 1..n : IsPack(ps[i]),
         NEW node, NEW nodes, nodes = [i \in 1..n |-> Manifests!PackNode(ps[i])],
         "packs" \in DOMAIN node.value, node.value["packs"] = Manifests!List(nodes)
  PROVE  Manifests!nodePacks(node) = {ps}
<1>1. PICK list : list = nodes /\ DOMAIN list = 1..n OBVIOUS
<1>2. Manifests!Lookup(node, "packs", "list") = {list} BY <1>1, Fields
<1>3. \A i \in 1..n : Manifests!PackItem(list[i]) = {ps[i]} BY <1>1, PackRead
<1>4. \A i \in 1..n : Manifests!The(Manifests!PackItem(list[i])) = ps[i] BY <1>3, TheIs
<1>5. [i \in DOMAIN list |-> Manifests!The(Manifests!PackItem(list[i]))] = ps
  BY <1>1, <1>4 DEF Listing
<1>6. \A i \in DOMAIN list : Manifests!PackItem(list[i]) # {} BY <1>1, <1>3
<1> QED BY <1>2, <1>5, <1>6 DEF Manifests!nodePacks, Manifests!ListOf, Manifests!EachOf

\* The list of the objects.
LEMMA ObjectsRead ==
  ASSUME NEW n \in Nat, NEW os, Listing(os, n), \A i \in 1..n : IsObject(os[i]),
         NEW node, NEW nodes, nodes = [i \in 1..n |-> Manifests!CASNode(os[i])],
         "cas" \in DOMAIN node.value, node.value["cas"] = Manifests!List(nodes)
  PROVE  Manifests!nodeCAS(node) = {os}
<1>1. PICK list : list = nodes /\ DOMAIN list = 1..n OBVIOUS
<1>2. Manifests!Lookup(node, "cas", "list") = {list} BY <1>1, Fields
<1>3. \A i \in 1..n : Manifests!nodeObject(list[i]) = {os[i]} BY <1>1, ObjectRead
<1>4. \A i \in 1..n : Manifests!The(Manifests!nodeObject(list[i])) = os[i] BY <1>3, TheIs
<1>5. [i \in DOMAIN list |-> Manifests!The(Manifests!nodeObject(list[i]))] = os
  BY <1>1, <1>4 DEF Listing
<1>6. \A i \in DOMAIN list : Manifests!nodeObject(list[i]) # {} BY <1>1, <1>3
<1> QED BY <1>2, <1>5, <1>6 DEF Manifests!nodeCAS, Manifests!ListOf, Manifests!EachOf

\* The closure of an action is a list of names.
HasClosure(a) ==
  \E n \in Nat : Listing(a.ClosurePacks, n) /\ Names(a.ClosurePacks, n)

\* The list of the actions.
LEMMA ActionsRead ==
  ASSUME NEW n \in Nat, NEW results, \A i \in 1..n : HasClosure(results[i]),
         NEW node, NEW nodes, nodes = [i \in 1..n |-> Manifests!ActionNode(results[i])],
         "actions" \in DOMAIN node.value, node.value["actions"] = Manifests!List(nodes)
  PROVE  Manifests!nodeActions(node) = {[i \in 1..n |-> Resorted(results[i])]}
<1>1. PICK list : list = nodes /\ DOMAIN list = 1..n
  <2>1. DOMAIN nodes = 1..n BY Zenon
  <2> QED BY <2>1, Zenon
<1>2. Manifests!Lookup(node, "actions", "list") = {list}
  <2>1. "actions" \in DOMAIN node.value /\ node.value["actions"] = Manifests!List(list)
    BY <1>1, Zenon
  <2> QED BY <2>1, Fields
<1>3. \A i \in 1..n : Manifests!ActionItem(list[i]) = {Resorted(results[i])}
  BY <1>1, ActionRead DEF HasClosure
<1>4. \A i \in 1..n : Manifests!The(Manifests!ActionItem(list[i])) = Resorted(results[i])
  BY <1>3, TheIs
<1>5. [i \in DOMAIN list |-> Manifests!The(Manifests!ActionItem(list[i]))]
        = [i \in 1..n |-> Resorted(results[i])]
  BY <1>1, <1>4
<1>6. \A i \in DOMAIN list : Manifests!ActionItem(list[i]) # {} BY <1>1, <1>3
<1> QED BY <1>2, <1>5, <1>6 DEF Manifests!nodeActions, Manifests!ListOf, Manifests!EachOf

-----------------------------------------------------------------------------
(* Sorting a manifest.                                                      *)

\* What a reader makes of a node, and a writer of a batch: records and lists of
\* records, by their names.
Storable(m) ==
  /\ m = [Version |-> 1, Parents |-> m.Parents, Packs |-> m.Packs, CAS |-> m.CAS,
          Actions |-> m.Actions]
  /\ \E n \in Nat : Listing(m.Parents, n) /\ Names(m.Parents, n)
  /\ \E n \in Nat : NamedBy(m.Packs, "ID", n) /\ \A i \in 1..n : IsPack(m.Packs[i])
  /\ \E n \in Nat : NamedBy(m.CAS, "Digest", n) /\ \A i \in 1..n : IsObject(m.CAS[i])
  /\ \E n \in Nat : NamedBy(m.Actions, "Digest", n)
       /\ \A i \in 1..n : IsAction(m.Actions[i]) /\ HasClosure(m.Actions[i])

\* The length of a list.
LEMMA ListingIs ==
  ASSUME NEW n \in Nat, NEW items, Listing(items, n)
  PROVE  Len(items) = n /\ DOMAIN items = 1..n
BY DEF Listing

\* A list in another order.
Shuffled(new, old, order, n) == Permutes(order, n) /\ new = [i \in 1..n |-> old[order[i]]]

\* It has the same items.
LEMMA ShuffledIs ==
  ASSUME NEW n \in Nat, NEW new, NEW old, NEW order, Shuffled(new, old, order, n)
  PROVE  /\ Listing(new, n)
         /\ \A i \in 1..n : \E k \in 1..n : new[i] = old[k]
         /\ \A k \in 1..n : \E i \in 1..n : new[i] = old[k]
<1>1. \A i \in 1..n : order[i] \in 1..n /\ new[i] = old[order[i]] BY DEF Shuffled, Permutes
<1>2. Listing(new, n) BY DEF Shuffled, Listing
<1>3. \A k \in 1..n : \E i \in 1..n : order[i] = k BY DEF Shuffled, Permutes
<1>4. \A k \in 1..n : \E i \in 1..n : new[i] = old[k] BY <1>1, <1>3
<1> QED BY <1>1, <1>2, <1>4

\* Sorting by a field.
LEMMA SortShuffles ==
  ASSUME NEW n \in Nat, NEW items, NEW field, NamedBy(items, field, n),
         NEW new, new = Manifests!SortedBy(items, field)
  PROVE  Manifests!SortedBy(new, field) = new /\ \E order : Shuffled(new, items, order, n)
<1>1. PICK order : SortsBy(order, items, field, n) BY SortIs
<1>2. DOMAIN items = 1..n BY DEF NamedBy, Listing
<1>3. new = [i \in 1..n |-> items[order[i]]] /\ Manifests!SortedBy(new, field) = new
  BY <1>1, <1>2 DEF SortsBy
<1> QED BY <1>1, <1>3 DEF SortsBy, Shuffled

\* A sorted closure is encoded as the closure is, and has the same packs.
LEMMA ResortedIs ==
  ASSUME NEW a, HasClosure(a)
  PROVE  /\ Manifests!ActionNode(Resorted(a)) = Manifests!ActionNode(a)
         /\ \A i \in DOMAIN Resorted(a).ClosurePacks :
              \E k \in DOMAIN a.ClosurePacks : Resorted(a).ClosurePacks[i] = a.ClosurePacks[k]
<1>1. PICK n \in Nat : Listing(a.ClosurePacks, n) /\ Names(a.ClosurePacks, n) BY DEF HasClosure
<1>2. PICK old : old = a.ClosurePacks OBVIOUS
<1>3. PICK new : new = Manifests!SortedTexts(old) OBVIOUS
<1>4. /\ Manifests!SortedTexts(new) = new /\ Listing(new, n)
      /\ \A i \in 1..n : \E k \in 1..n : new[i] = old[k]
  BY <1>1, <1>2, <1>3, TextsSort DEF Within
<1>5. PICK b : b = Resorted(a) OBVIOUS
<1>6. /\ b.Digest = a.Digest /\ b.CID = a.CID /\ b.PackID = a.PackID /\ b.Size = a.Size
      /\ b.ClosurePacks = new
  BY <1>2, <1>3, <1>5 DEF Resorted
<1>7. Manifests!ActionNode(b) = Manifests!ActionNode(a)
  BY <1>2, <1>3, <1>4, <1>6 DEF Manifests!ActionNode
<1>8. DOMAIN new = 1..n /\ DOMAIN old = 1..n BY <1>1, <1>2, <1>4, ListingIs
<1>9. \A i \in DOMAIN b.ClosurePacks : \E k \in DOMAIN old : b.ClosurePacks[i] = old[k]
  BY <1>4, <1>6, <1>8
<1> QED BY <1>2, <1>5, <1>7, <1>9, Zenon

\* The actions with sorted closures have the order of the actions.
LEMMA ActionsSort ==
  ASSUME NEW n \in Nat, NEW acts, NamedBy(acts, "Digest", n),
         \A i \in 1..n : IsAction(acts[i]) /\ HasClosure(acts[i]),
         NEW inner, inner = [i \in DOMAIN acts |-> Resorted(acts[i])],
         NEW plain, plain = Manifests!SortedBy(acts, "Digest"),
         NEW new, new = Manifests!SortedBy(inner, "Digest")
  PROVE  /\ Manifests!SortedBy(new, "Digest") = new
         /\ new = [i \in 1..n |-> Resorted(plain[i])]
         /\ \E order : Shuffled(plain, acts, order, n)
<1>1. PICK order : SortsBy(order, acts, "Digest", n) BY SortIs
<1>2. DOMAIN acts = 1..n BY DEF NamedBy, Listing
<1>3. \A i \in 1..n : order[i] \in 1..n BY <1>1 DEF SortsBy, Permutes
<1>4. plain = [i \in 1..n |-> acts[order[i]]] BY <1>1, <1>2 DEF SortsBy
<1>5. DOMAIN inner = 1..n /\ \A i \in 1..n : inner[i] = Resorted(acts[i]) BY <1>2
<1>6. \A i \in 1..n : inner[i].Digest = acts[i].Digest BY <1>5 DEF Resorted
<1>7. /\ new = [i \in 1..n |-> inner[order[i]]] /\ Manifests!SortedBy(new, "Digest") = new
  <2>1. PICK others : others = inner OBVIOUS
  <2>2. DOMAIN others = 1..n /\ \A i \in 1..n : others[i]["Digest"] = acts[i]["Digest"]
    BY <1>5, <1>6, <2>1
  <2>3. /\ Manifests!SortedBy(others, "Digest") = [i \in 1..n |-> others[order[i]]]
        /\ Manifests!SortedBy([i \in 1..n |-> others[order[i]]], "Digest")
             = [i \in 1..n |-> others[order[i]]]
    BY <1>1, <2>2, Zenon DEF SortsBy
  <2> QED BY <2>1, <2>3, Zenon
<1>8. \A i \in 1..n : inner[order[i]] = Resorted(plain[i]) BY <1>3, <1>4, <1>5
<1>9. new = [i \in 1..n |-> Resorted(plain[i])] BY <1>7, <1>8
<1>10. Shuffled(plain, acts, order, n) BY <1>1, <1>4 DEF Shuffled, SortsBy
<1> QED BY <1>7, <1>9, <1>10

\* Every list of a sorted manifest is sorted.
LEMMA SortedIs ==
  ASSUME NEW m, Storable(m)
  PROVE  Manifests!Sorted(m)
           = [Version |-> 1, Parents |-> Manifests!SortedTexts(m.Parents),
              Packs |-> Manifests!SortedBy(m.Packs, "ID"),
              CAS |-> Manifests!SortedBy(m.CAS, "Digest"),
              Actions |-> Manifests!SortedBy([i \in DOMAIN m.Actions |-> Resorted(m.Actions[i])],
                                             "Digest")]
<1>1. PICK n \in Nat : NamedBy(m.Actions, "Digest", n) /\ \A i \in 1..n : IsAction(m.Actions[i])
  BY DEF Storable
<1>2. PICK acts : acts = m.Actions OBVIOUS
<1>3. DOMAIN acts = 1..n BY <1>1, <1>2 DEF NamedBy, Listing
<1>4. ASSUME NEW a, IsAction(a)
      PROVE  [a EXCEPT !.ClosurePacks = Manifests!SortedTexts(@)] = Resorted(a)
  BY <1>4 DEF IsAction, Resorted
<1>5. [i \in DOMAIN acts |-> [acts[i] EXCEPT !.ClosurePacks = Manifests!SortedTexts(@)]]
        = [i \in DOMAIN acts |-> Resorted(acts[i])]
  BY <1>1, <1>2, <1>3, <1>4
<1>6. [i \in DOMAIN m.Actions |->
        [m.Actions[i] EXCEPT !.ClosurePacks = Manifests!SortedTexts(@)]]
        = [i \in DOMAIN m.Actions |-> Resorted(m.Actions[i])]
  BY <1>2, <1>5
<1>7. PICK version : version = m.Version OBVIOUS
<1>8. version = 1 BY <1>7 DEF Storable
<1>9. Manifests!Sorted(m)
        = [Version |-> version, Parents |-> Manifests!SortedTexts(m.Parents),
           Packs |-> Manifests!SortedBy(m.Packs, "ID"),
           CAS |-> Manifests!SortedBy(m.CAS, "Digest"),
           Actions |-> Manifests!SortedBy([i \in DOMAIN m.Actions |-> Resorted(m.Actions[i])],
                                          "Digest")]
  BY <1>6, <1>7, Zenon DEF Manifests!Sorted
<1> QED BY <1>8, <1>9, Zenon

\* No name is repeated.
Once(items, field) ==
  \A i, j \in DOMAIN items : items[i][field] = items[j][field] => i = j

\* Of a sorted list: the items and their number, and that no name is repeated.
Kept(new, old, field, n) ==
  /\ Len(old) = n /\ DOMAIN old = 1..n /\ Len(new) = n /\ DOMAIN new = 1..n
  /\ \A i \in 1..n : \E k \in 1..n : new[i] = old[k]
  /\ \A k \in 1..n : \E i \in 1..n : new[i] = old[k]
  /\ \A i, j \in 1..n : new[i][field] = new[j][field] => i = j

\* Sorting by names that are not repeated.
LEMMA SortKeeps ==
  ASSUME NEW n \in Nat, NEW old, NEW field, NamedBy(old, field, n), Once(old, field)
  PROVE  Kept(Manifests!SortedBy(old, field), old, field, n)
<1>1. PICK new : new = Manifests!SortedBy(old, field) OBVIOUS
<1>2. PICK order : Shuffled(new, old, order, n) BY <1>1, SortShuffles
<1>3. Listing(old, n) /\ Listing(new, n) BY <1>2, ShuffledIs DEF NamedBy
<1>4. Len(old) = n /\ DOMAIN old = 1..n /\ Len(new) = n /\ DOMAIN new = 1..n
  BY <1>3, ListingIs
<1>5. \A i, j \in 1..n : old[i][field] = old[j][field] => i = j BY <1>4 DEF Once
<1>6. \A i, j \in 1..n : new[i][field] = new[j][field] => i = j
  <2>1. \A i \in 1..n : order[i] \in 1..n /\ new[i] = old[order[i]]
    BY <1>2 DEF Shuffled, Permutes
  <2>2. \A i, j \in 1..n : order[i] = order[j] => i = j BY <1>2 DEF Shuffled, Permutes
  <2> QED BY <1>5, <2>1, <2>2
<1>7. \A i \in 1..n : \E k \in 1..n : new[i] = old[k] BY <1>2, ShuffledIs
<1>8. \A k \in 1..n : \E i \in 1..n : new[i] = old[k] BY <1>2, ShuffledIs
<1>9. Kept(new, old, field, n) BY <1>4, <1>6, <1>7, <1>8, Zenon DEF Kept
<1> QED BY <1>1, <1>9

\* A manifest is valid in any order.
LEMMA SortedIsValid ==
  ASSUME NEW m, Storable(m), Manifests!validate(m)
  PROVE  Manifests!validate(Manifests!Sorted(m))
<1>1. PICK s : s = Manifests!Sorted(m) OBVIOUS
<1>2. PICK inner : inner = [i \in DOMAIN m.Actions |-> Resorted(m.Actions[i])] OBVIOUS
<1>3. /\ s.Parents = Manifests!SortedTexts(m.Parents)
      /\ s.Packs = Manifests!SortedBy(m.Packs, "ID")
      /\ s.CAS = Manifests!SortedBy(m.CAS, "Digest")
      /\ s.Actions = Manifests!SortedBy(inner, "Digest")
  BY <1>1, <1>2, SortedIs
<1>4. /\ Manifests!WithinLimits(m)
      /\ \A i \in DOMAIN m.Packs : Manifests!ValidPack(m.Packs[i])
      /\ \A i, j \in DOMAIN m.Packs : m.Packs[i].ID = m.Packs[j].ID => i = j
      /\ \A i \in DOMAIN m.CAS : Manifests!ValidCAS(m, m.CAS[i])
      /\ \A i, j \in DOMAIN m.CAS : m.CAS[i].Digest = m.CAS[j].Digest => i = j
      /\ \A i \in DOMAIN m.Actions : Manifests!ValidAction(m, m.Actions[i])
      /\ \A i, j \in DOMAIN m.Actions : m.Actions[i].Digest = m.Actions[j].Digest => i = j
      /\ \A i \in DOMAIN m.Parents : Manifests!validCID(m.Parents[i])
  BY Zenon DEF Manifests!validate, Manifests!NoRepetition
<1>5. PICK np \in Nat : NamedBy(m.Packs, "ID", np) BY DEF Storable
<1>6. PICK mp, sp : mp = m.Packs /\ sp = s.Packs OBVIOUS
<1>7. /\ Len(mp) = np /\ DOMAIN mp = 1..np /\ Len(sp) = np /\ DOMAIN sp = 1..np
      /\ \A i \in 1..np : \E k \in 1..np : sp[i] = mp[k]
      /\ \A k \in 1..np : \E i \in 1..np : sp[i] = mp[k]
      /\ \A i, j \in 1..np : sp[i]["ID"] = sp[j]["ID"] => i = j
  <2>1. NamedBy(mp, "ID", np) /\ sp = Manifests!SortedBy(mp, "ID") BY <1>3, <1>5, <1>6
  <2>2. Once(mp, "ID") BY <1>4, <1>6 DEF Once
  <2>3. Kept(sp, mp, "ID", np) BY <2>1, <2>2, SortKeeps
  <2> QED BY <2>3, Zenon DEF Kept
<1>8. \A id : Manifests!Declared(m, id) => Manifests!Declared(s, id)
  <2> SUFFICES ASSUME NEW id, Manifests!Declared(m, id) PROVE Manifests!Declared(s, id) OBVIOUS
  <2>1. PICK k \in 1..np : mp[k].ID = id BY <1>6, <1>7 DEF Manifests!Declared
  <2>2. PICK i \in 1..np : sp[i] = mp[k] BY <1>7
  <2>3. i \in DOMAIN s.Packs /\ s.Packs[i].ID = id BY <1>6, <1>7, <2>1, <2>2
  <2> QED BY <2>3 DEF Manifests!Declared
<1>9. /\ \A i \in DOMAIN s.Packs : Manifests!ValidPack(s.Packs[i])
      /\ \A i, j \in DOMAIN s.Packs : s.Packs[i].ID = s.Packs[j].ID => i = j
  <2>1. \A k \in 1..np : Manifests!ValidPack(mp[k]) BY <1>4, <1>6, <1>7
  <2>2. \A i \in 1..np : Manifests!ValidPack(sp[i]) BY <1>7, <2>1
  <2> QED BY <1>6, <1>7, <2>2
<1>10. PICK nc \in Nat : NamedBy(m.CAS, "Digest", nc) BY DEF Storable
<1>11. PICK mc, sc : mc = m.CAS /\ sc = s.CAS OBVIOUS
<1>12. /\ Len(mc) = nc /\ DOMAIN mc = 1..nc /\ Len(sc) = nc /\ DOMAIN sc = 1..nc
       /\ \A i \in 1..nc : \E k \in 1..nc : sc[i] = mc[k]
       /\ \A i, j \in 1..nc : sc[i]["Digest"] = sc[j]["Digest"] => i = j
  <2>1. NamedBy(mc, "Digest", nc) /\ sc = Manifests!SortedBy(mc, "Digest")
    BY <1>3, <1>10, <1>11
  <2>2. Once(mc, "Digest") BY <1>4, <1>11 DEF Once
  <2>3. Kept(sc, mc, "Digest", nc) BY <2>1, <2>2, SortKeeps
  <2> QED BY <2>3, Zenon DEF Kept
<1>13. /\ \A i \in DOMAIN s.CAS : Manifests!ValidCAS(s, s.CAS[i])
       /\ \A i, j \in DOMAIN s.CAS : s.CAS[i].Digest = s.CAS[j].Digest => i = j
  <2>1. ASSUME NEW o, Manifests!ValidCAS(m, o) PROVE Manifests!ValidCAS(s, o)
    BY <1>8, <2>1 DEF Manifests!ValidCAS
  <2>2. \A k \in 1..nc : Manifests!ValidCAS(m, mc[k]) BY <1>4, <1>11, <1>12
  <2>3. \A i \in 1..nc : Manifests!ValidCAS(s, sc[i]) BY <1>12, <2>1, <2>2
  <2> QED BY <1>11, <1>12, <2>3
<1>14. PICK na \in Nat : /\ NamedBy(m.Actions, "Digest", na)
                         /\ \A i \in 1..na : IsAction(m.Actions[i]) /\ HasClosure(m.Actions[i])
  BY DEF Storable
<1>15. PICK ma, sa, plain :
         ma = m.Actions /\ sa = s.Actions /\ plain = Manifests!SortedBy(ma, "Digest")
  OBVIOUS
<1>16. NamedBy(ma, "Digest", na) /\ \A k \in 1..na : IsAction(ma[k]) /\ HasClosure(ma[k])
  BY <1>14, <1>15
<1>17. sa = [i \in 1..na |-> Resorted(plain[i])]
  <2>1. inner = [i \in DOMAIN ma |-> Resorted(ma[i])] BY <1>2, <1>15
  <2>2. sa = Manifests!SortedBy(inner, "Digest") BY <1>3, <1>15
  <2> QED BY <1>15, <1>16, <2>1, <2>2, ActionsSort
<1>18. /\ Len(ma) = na /\ DOMAIN ma = 1..na
       /\ \A i \in 1..na : \E k \in 1..na : plain[i] = ma[k]
       /\ \A i, j \in 1..na : plain[i]["Digest"] = plain[j]["Digest"] => i = j
  <2>1. Once(ma, "Digest") BY <1>4, <1>15 DEF Once
  <2>2. Kept(plain, ma, "Digest", na) BY <1>15, <1>16, <2>1, SortKeeps
  <2> QED BY <2>2, Zenon DEF Kept
<1>19. /\ Len(sa) = na /\ DOMAIN sa = 1..na
       /\ \A i \in DOMAIN s.Actions : Manifests!ValidAction(s, s.Actions[i])
       /\ \A i, j \in DOMAIN s.Actions : s.Actions[i].Digest = s.Actions[j].Digest => i = j
  <2>1. Listing(sa, na) BY <1>17 DEF Listing
  <2>2. Len(sa) = na /\ DOMAIN sa = 1..na BY <2>1, ListingIs
  <2>3. \A i \in 1..na : sa[i] = Resorted(plain[i]) BY <1>17
  <2>4. ASSUME NEW a PROVE Resorted(a).Digest = a.Digest BY DEF Resorted
  <2>5. \A i \in 1..na : sa[i].Digest = plain[i].Digest BY <2>3, <2>4
  <2>6. ASSUME NEW a, Manifests!ValidAction(m, a), HasClosure(a)
        PROVE  Manifests!ValidAction(s, Resorted(a))
    <3>1. PICK b : b = Resorted(a) OBVIOUS
    <3>2. b.Digest = a.Digest /\ b.CID = a.CID /\ b.PackID = a.PackID /\ b.Size = a.Size
      BY <3>1 DEF Resorted
    <3>3. \A j \in DOMAIN b.ClosurePacks :
            \E l \in DOMAIN a.ClosurePacks : b.ClosurePacks[j] = a.ClosurePacks[l]
      BY <2>6, <3>1, ResortedIs
    <3>4. \A l \in DOMAIN a.ClosurePacks :
            \/ Manifests!Declared(m, a.ClosurePacks[l])
            \/ Manifests!IsDigest(a.ClosurePacks[l])
      BY <2>6 DEF Manifests!ValidAction
    <3>5. \A j \in DOMAIN b.ClosurePacks :
            \/ Manifests!Declared(s, b.ClosurePacks[j])
            \/ Manifests!IsDigest(b.ClosurePacks[j])
      BY <1>8, <3>3, <3>4
    <3>6. Manifests!ValidAction(s, b)
      BY <1>8, <2>6, <3>2, <3>5 DEF Manifests!ValidAction
    <3> QED BY <3>1, <3>6
  <2>7. \A k \in 1..na : Manifests!ValidAction(m, ma[k]) /\ HasClosure(ma[k])
    BY <1>4, <1>15, <1>16, <1>18
  <2>8. \A i \in 1..na : Manifests!ValidAction(s, sa[i])
    BY <1>18, <2>3, <2>6, <2>7
  <2> QED BY <1>15, <1>18, <2>2, <2>5, <2>8
<1>20. PICK nt \in Nat : Listing(m.Parents, nt) /\ Names(m.Parents, nt) BY DEF Storable
<1>21. /\ Listing(s.Parents, nt)
       /\ \A i \in 1..nt : \E k \in 1..nt : s.Parents[i] = m.Parents[k]
  <2>1. PICK old, new : old = m.Parents /\ new = s.Parents OBVIOUS
  <2>2. Listing(new, nt) /\ Within(new, old, nt) BY <1>3, <1>20, <2>1, TextsSort
  <2> QED BY <2>1, <2>2 DEF Within
<1>22. /\ Len(m.Parents) = nt /\ DOMAIN m.Parents = 1..nt
       /\ Len(s.Parents) = nt /\ DOMAIN s.Parents = 1..nt
  BY <1>20, <1>21, ListingIs, Zenon
<1>23. \A i \in DOMAIN s.Parents : Manifests!validCID(s.Parents[i])
  BY <1>4, <1>21, <1>22
<1>24. Manifests!WithinLimits(s)
  BY <1>4, <1>6, <1>7, <1>11, <1>12, <1>15, <1>18, <1>19, <1>22 DEF Manifests!WithinLimits
<1>25. /\ Manifests!NoRepetition(s.Packs, LAMBDA p : p.ID)
       /\ Manifests!NoRepetition(s.CAS, LAMBDA o : o.Digest)
       /\ Manifests!NoRepetition(s.Actions, LAMBDA a : a.Digest)
  BY <1>9, <1>13, <1>19, Zenon DEF Manifests!NoRepetition
<1>26. Manifests!validate(s)
  BY <1>9, <1>13, <1>19, <1>23, <1>24, <1>25, Zenon DEF Manifests!validate, Manifests!NoRepetition
<1> QED BY <1>1, <1>26

\* What is written of a manifest is read as the sorted manifest.
LEMMA StoredIsRead ==
  ASSUME NEW m, Storable(m), Manifests!validate(m)
  PROVE  /\ Manifests!nodeToManifest(Manifests!manifestToNode(m)) = {Manifests!Sorted(m)}
         /\ Manifests!manifestToNode(Manifests!Sorted(m)) = Manifests!manifestToNode(m)
<1>1. PICK s : s = Manifests!Sorted(m) OBVIOUS
<1>2. PICK inner : inner = [i \in DOMAIN m.Actions |-> Resorted(m.Actions[i])] OBVIOUS
<1>3. PICK ts : ts = Manifests!SortedTexts(m.Parents) OBVIOUS
<1>4. PICK ps : ps = Manifests!SortedBy(m.Packs, "ID") OBVIOUS
<1>5. PICK cs : cs = Manifests!SortedBy(m.CAS, "Digest") OBVIOUS
<1>6. PICK plain : plain = Manifests!SortedBy(m.Actions, "Digest") OBVIOUS
<1>7. PICK results : results = Manifests!SortedBy(inner, "Digest") OBVIOUS
<1>8. s = [Version |-> 1, Parents |-> ts, Packs |-> ps, CAS |-> cs, Actions |-> results]
  BY <1>1, <1>2, <1>3, <1>4, <1>5, <1>7, SortedIs
<1>9. PICK nt \in Nat : Listing(m.Parents, nt) /\ Names(m.Parents, nt) BY DEF Storable
<1>10. Manifests!SortedTexts(ts) = ts /\ Listing(ts, nt) BY <1>3, <1>9, TextsSort
<1>11. PICK np \in Nat : NamedBy(m.Packs, "ID", np) /\ \A i \in 1..np : IsPack(m.Packs[i])
  BY DEF Storable
<1>12. /\ Manifests!SortedBy(ps, "ID") = ps /\ Listing(ps, np)
       /\ \A i \in 1..np : IsPack(ps[i])
  <2>1. PICK op : Shuffled(ps, m.Packs, op, np) BY <1>4, <1>11, SortShuffles
  <2>2. Manifests!SortedBy(ps, "ID") = ps BY <1>4, <1>11, SortShuffles
  <2>3. Listing(ps, np) BY <2>1, ShuffledIs
  <2>4. PICK old : old = m.Packs OBVIOUS
  <2>5. \A i \in 1..np : \E k \in 1..np : ps[i] = old[k] BY <2>1, <2>4, ShuffledIs
  <2>6. \A i \in 1..np : IsPack(ps[i]) BY <1>11, <2>4, <2>5
  <2> QED BY <2>2, <2>3, <2>6
<1>13. PICK nc \in Nat : NamedBy(m.CAS, "Digest", nc) /\ \A i \in 1..nc : IsObject(m.CAS[i])
  BY DEF Storable
<1>14. /\ Manifests!SortedBy(cs, "Digest") = cs /\ Listing(cs, nc)
       /\ \A i \in 1..nc : IsObject(cs[i])
  <2>1. PICK oc : Shuffled(cs, m.CAS, oc, nc) BY <1>5, <1>13, SortShuffles
  <2>2. Manifests!SortedBy(cs, "Digest") = cs BY <1>5, <1>13, SortShuffles
  <2>3. Listing(cs, nc) BY <2>1, ShuffledIs
  <2>4. PICK old : old = m.CAS OBVIOUS
  <2>5. \A i \in 1..nc : \E k \in 1..nc : cs[i] = old[k] BY <2>1, <2>4, ShuffledIs
  <2>6. \A i \in 1..nc : IsObject(cs[i]) BY <1>13, <2>4, <2>5
  <2> QED BY <2>2, <2>3, <2>6
<1>15. PICK na \in Nat : /\ NamedBy(m.Actions, "Digest", na)
                         /\ \A i \in 1..na : IsAction(m.Actions[i]) /\ HasClosure(m.Actions[i])
  BY DEF Storable
<1>16. /\ Manifests!SortedBy(results, "Digest") = results
       /\ results = [i \in 1..na |-> Resorted(plain[i])]
       /\ \A i \in 1..na : HasClosure(plain[i])
       /\ DOMAIN plain = 1..na
  <2>1. PICK old : old = m.Actions OBVIOUS
  <2>2. inner = [i \in DOMAIN old |-> Resorted(old[i])] BY <1>2, <2>1
  <2>3. plain = Manifests!SortedBy(old, "Digest") BY <1>6, <2>1
  <2>4. /\ NamedBy(old, "Digest", na)
        /\ \A i \in 1..na : IsAction(old[i]) /\ HasClosure(old[i])
    BY <1>15, <2>1
  <2>5. /\ Manifests!SortedBy(results, "Digest") = results
        /\ results = [i \in 1..na |-> Resorted(plain[i])]
        /\ \E order : Shuffled(plain, old, order, na)
    BY <1>7, <2>2, <2>3, <2>4, ActionsSort
  <2>6. PICK oa : Shuffled(plain, old, oa, na) BY <2>5
  <2>7. \A i \in 1..na : \E k \in 1..na : plain[i] = old[k] BY <2>6, ShuffledIs
  <2>8. Listing(plain, na) BY <2>6, ShuffledIs
  <2>9. DOMAIN plain = 1..na BY <2>8, ListingIs
  <2>10. \A i \in 1..na : HasClosure(plain[i]) BY <2>4, <2>7
  <2> QED BY <2>5, <2>9, <2>10
<1>17. PICK packNodes : packNodes = [i \in 1..np |-> Manifests!PackNode(ps[i])] OBVIOUS
<1>18. PICK casNodes : casNodes = [i \in 1..nc |-> Manifests!CASNode(cs[i])] OBVIOUS
<1>19. PICK actionNodes : actionNodes = [i \in 1..na |-> Manifests!ActionNode(plain[i])] OBVIOUS
<1>20. PICK value : value = [actions |-> Manifests!List(actionNodes),
                             cas |-> Manifests!List(casNodes),
                             packs |-> Manifests!List(packNodes),
                             parents |-> Manifests!Texts(ts),
                             version |-> Manifests!Int64(1)]
  OBVIOUS
<1>21. DOMAIN ps = 1..np /\ DOMAIN cs = 1..nc BY <1>12, <1>14, ListingIs
<1>22. m.Version = 1 BY DEF Storable
<1>23. PICK node : node = Manifests!manifestToNode(m) OBVIOUS
<1>24. node = Manifests!Map(value)
  <2>1. /\ Manifests!Nodes(plain, Manifests!ActionNode) = Manifests!List(actionNodes)
        /\ Manifests!Nodes(cs, Manifests!CASNode) = Manifests!List(casNodes)
        /\ Manifests!Nodes(ps, Manifests!PackNode) = Manifests!List(packNodes)
    BY <1>16, <1>17, <1>18, <1>19, <1>21 DEF Manifests!Nodes
  <2>2. Manifests!SortedCAS(m) = cs BY <1>5 DEF Manifests!SortedCAS
  <2> QED
    BY <1>3, <1>4, <1>6, <1>20, <1>22, <1>23, <2>1, <2>2, Zenon DEF Manifests!manifestToNode
<1>25. node.kind = "map" /\ node.value = value BY <1>24 DEF Manifests!Map
<1>26. /\ Manifests!nodeInt(node, "version") = {1}
       /\ Manifests!nodeStringList(node, "parents") = {ts}
       /\ Manifests!nodePacks(node) = {ps} /\ Manifests!nodeCAS(node) = {cs}
       /\ Manifests!nodeActions(node) = {results}
  <2>1. Manifests!nodeInt(node, "version") = {1} BY <1>20, <1>25, Fields
  <2>2. Manifests!nodeStringList(node, "parents") = {ts}
    BY <1>10, <1>20, <1>25, TextsRead
  <2>3. Manifests!nodePacks(node) = {ps} BY <1>12, <1>17, <1>20, <1>25, PacksRead
  <2>4. Manifests!nodeCAS(node) = {cs} BY <1>14, <1>18, <1>20, <1>25, ObjectsRead
  <2>5. Manifests!nodeActions(node) = {results}
    <3>1. \A i \in 1..na : HasClosure(plain[i]) BY <1>16
    <3>2. "actions" \in DOMAIN node.value /\ node.value["actions"] = Manifests!List(actionNodes)
      BY <1>20, <1>25
    <3>3. Manifests!nodeActions(node) = {[i \in 1..na |-> Resorted(plain[i])]}
      BY <1>19, <3>1, <3>2, ActionsRead
    <3> QED BY <1>16, <3>3, Zenon
  <2> QED BY <2>1, <2>2, <2>3, <2>4, <2>5
<1>27. Manifests!nodeToManifest(node) = {s}
  <2> DEFINE all ==
        {[Version |-> version, Parents |-> parents, Packs |-> qs, CAS |-> objects,
          Actions |-> others] :
           version \in Manifests!nodeInt(node, "version"),
           parents \in Manifests!nodeStringList(node, "parents"),
           qs \in Manifests!nodePacks(node), objects \in Manifests!nodeCAS(node),
           others \in Manifests!nodeActions(node)}
  <2>1. s.Version = 1 BY <1>8
  <2>2. Manifests!validate(s) BY <1>1, SortedIsValid
  <2>3. {x \in {s} : x.Version = 1 /\ Manifests!validate(x)} = {s} BY <2>1, <2>2
  <2>4. all = {s} BY <1>8, <1>26
  <2>5. Manifests!nodeToManifest(node) = {x \in all : x.Version = 1 /\ Manifests!validate(x)}
    BY <1>25 DEF Manifests!nodeToManifest
  <2> HIDE DEF all
  <2>6. {x \in all : x.Version = 1 /\ Manifests!validate(x)} = {s} BY <2>3, <2>4
  <2> QED BY <2>5, <2>6
<1>28. Manifests!manifestToNode(s) = node
  <2>1. PICK again : again = [i \in 1..na |-> Manifests!ActionNode(results[i])] OBVIOUS
  <2>2. again = actionNodes
    <3>1. \A i \in 1..na : Manifests!ActionNode(results[i]) = Manifests!ActionNode(plain[i])
      BY <1>16, ResortedIs
    <3> QED BY <1>19, <2>1, <3>1
  <2>3. DOMAIN results = 1..na BY <1>16
  <2>4. /\ Manifests!Nodes(results, Manifests!ActionNode) = Manifests!List(actionNodes)
        /\ Manifests!Nodes(cs, Manifests!CASNode) = Manifests!List(casNodes)
        /\ Manifests!Nodes(ps, Manifests!PackNode) = Manifests!List(packNodes)
    BY <1>17, <1>18, <1>21, <2>1, <2>2, <2>3 DEF Manifests!Nodes
  <2>5. /\ Manifests!SortedCAS(s) = cs /\ Manifests!SortedBy(s.Actions, "Digest") = results
        /\ Manifests!SortedBy(s.Packs, "ID") = ps /\ Manifests!SortedTexts(s.Parents) = ts
        /\ s.Version = 1
    BY <1>8, <1>10, <1>12, <1>14, <1>16 DEF Manifests!SortedCAS
  <2> QED BY <1>20, <1>24, <2>4, <2>5, Zenon DEF Manifests!manifestToNode
<1> QED BY <1>1, <1>23, <1>27, <1>28

-----------------------------------------------------------------------------
(* What is read and what is written can be stored.                          *)

\* A list of strings that was read.
LEMMA ParentsOf ==
  ASSUME NEW node, NEW key, NEW xs \in Manifests!nodeStringList(node, key), Ranked(xs)
  PROVE  \E n \in Nat : Listing(xs, n) /\ Names(xs, n)
<1>1. xs = [i \in DOMAIN xs |-> xs[i]]
  BY DEF Manifests!nodeStringList, Manifests!ListOf, Manifests!EachOf
<1>2. PICK n \in Nat : DOMAIN xs = 1..n /\ \A i \in 1..n : xs[i][2] \in Nat BY DEF Ranked
<1> QED BY <1>1, <1>2 DEF Listing, Names


\* An item has the fields of its type.
LEMMA ItemsAre ==
  /\ \A item : \A p \in Manifests!PackItem(item) : IsPack(p)
  /\ \A item : \A o \in Manifests!nodeObject(item) : IsObject(o)
  /\ \A item : \A a \in Manifests!ActionItem(item) : IsAction(a)
<1>1. \A item : \A p \in Manifests!PackItem(item) : IsPack(p)
  BY DEF Manifests!PackItem, IsPack
<1>2. \A item : \A o \in Manifests!nodeObject(item) : IsObject(o)
  BY DEF Manifests!nodeObject, IsObject
<1>3. \A item : \A a \in Manifests!ActionItem(item) : IsAction(a)
  BY DEF Manifests!ActionItem, IsAction
<1> QED BY <1>1, <1>2, <1>3

\* The packs that were read.
LEMMA PacksOf ==
  ASSUME NEW node, NEW ps \in Manifests!nodePacks(node), Ranked(Manifests!Column(ps, "ID"))
  PROVE  \E n \in Nat : NamedBy(ps, "ID", n) /\ \A i \in 1..n : IsPack(ps[i])
<1>1. PICK items : /\ ps = [i \in DOMAIN items |-> Manifests!The(Manifests!PackItem(items[i]))]
                   /\ \A i \in DOMAIN items : Manifests!PackItem(items[i]) # {}
  BY DEF Manifests!nodePacks, Manifests!ListOf, Manifests!EachOf
<1>2. \A i \in DOMAIN ps : IsPack(ps[i])
  <2> SUFFICES ASSUME NEW i \in DOMAIN items
               PROVE  IsPack(Manifests!The(Manifests!PackItem(items[i])))
    BY <1>1
  <2>1. Manifests!The(Manifests!PackItem(items[i])) \in Manifests!PackItem(items[i])
    BY <1>1 DEF Manifests!The
  <2> QED BY <2>1, ItemsAre
<1>3. PICK names : names = Manifests!Column(ps, "ID") OBVIOUS
<1>4. DOMAIN names = DOMAIN ps /\ \A i \in DOMAIN ps : names[i] = ps[i]["ID"]
  BY <1>3 DEF Manifests!Column
<1>5. PICK n \in Nat : DOMAIN names = 1..n /\ \A i \in 1..n : names[i][2] \in Nat
  BY <1>3 DEF Ranked
<1>6. ps = [i \in DOMAIN ps |-> ps[i]] BY <1>1
<1>7. NamedBy(ps, "ID", n) BY <1>4, <1>5, <1>6 DEF NamedBy, Listing
<1> QED BY <1>2, <1>4, <1>5, <1>7

\* The objects that were read.
LEMMA ObjectsOf ==
  ASSUME NEW node, NEW os \in Manifests!nodeCAS(node), Ranked(Manifests!Column(os, "Digest"))
  PROVE  \E n \in Nat : NamedBy(os, "Digest", n) /\ \A i \in 1..n : IsObject(os[i])
<1>1. PICK items : /\ os = [i \in DOMAIN items |-> Manifests!The(Manifests!nodeObject(items[i]))]
                   /\ \A i \in DOMAIN items : Manifests!nodeObject(items[i]) # {}
  BY DEF Manifests!nodeCAS, Manifests!ListOf, Manifests!EachOf
<1>2. \A i \in DOMAIN os : IsObject(os[i])
  <2> SUFFICES ASSUME NEW i \in DOMAIN items
               PROVE  IsObject(Manifests!The(Manifests!nodeObject(items[i])))
    BY <1>1
  <2>1. Manifests!The(Manifests!nodeObject(items[i])) \in Manifests!nodeObject(items[i])
    BY <1>1 DEF Manifests!The
  <2> QED BY <2>1, ItemsAre
<1>3. PICK names : names = Manifests!Column(os, "Digest") OBVIOUS
<1>4. DOMAIN names = DOMAIN os /\ \A i \in DOMAIN os : names[i] = os[i]["Digest"]
  BY <1>3 DEF Manifests!Column
<1>5. PICK n \in Nat : DOMAIN names = 1..n /\ \A i \in 1..n : names[i][2] \in Nat
  BY <1>3 DEF Ranked
<1>6. os = [i \in DOMAIN os |-> os[i]] BY <1>1
<1>7. NamedBy(os, "Digest", n) BY <1>4, <1>5, <1>6 DEF NamedBy, Listing
<1> QED BY <1>2, <1>4, <1>5, <1>7

\* The actions that were read.
LEMMA ActionsOf ==
  ASSUME NEW node, NEW acts \in Manifests!nodeActions(node),
         Ranked(Manifests!Column(acts, "Digest")),
         \A i \in DOMAIN acts : Ranked(acts[i].ClosurePacks)
  PROVE  \E n \in Nat : /\ NamedBy(acts, "Digest", n)
                        /\ \A i \in 1..n : IsAction(acts[i]) /\ HasClosure(acts[i])
<1>1. PICK items : /\ acts = [i \in DOMAIN items |-> Manifests!The(Manifests!ActionItem(items[i]))]
                   /\ \A i \in DOMAIN items : Manifests!ActionItem(items[i]) # {}
  BY DEF Manifests!nodeActions, Manifests!ListOf, Manifests!EachOf
<1>2. \A i \in DOMAIN acts : acts[i] \in Manifests!ActionItem(items[i])
  <2> SUFFICES ASSUME NEW i \in DOMAIN items
               PROVE  Manifests!The(Manifests!ActionItem(items[i]))
                        \in Manifests!ActionItem(items[i])
    BY <1>1
  <2> QED BY <1>1 DEF Manifests!The
<1>3. ASSUME NEW item, NEW a \in Manifests!ActionItem(item), Ranked(a.ClosurePacks)
      PROVE  IsAction(a) /\ HasClosure(a)
  <2>1. IsAction(a) BY ItemsAre
  <2>2. PICK xs : xs = a.ClosurePacks OBVIOUS
  <2>3. xs \in Manifests!nodeStringList(item, "closure") BY <2>2 DEF Manifests!ActionItem
  <2>4. \E n \in Nat : Listing(xs, n) /\ Names(xs, n) BY <1>3, <2>2, <2>3, ParentsOf
  <2> QED BY <2>1, <2>2, <2>4 DEF HasClosure
<1>4. \A i \in DOMAIN acts : IsAction(acts[i]) /\ HasClosure(acts[i]) BY <1>2, <1>3
<1>5. PICK names : names = Manifests!Column(acts, "Digest") OBVIOUS
<1>6. DOMAIN names = DOMAIN acts /\ \A i \in DOMAIN acts : names[i] = acts[i]["Digest"]
  BY <1>5 DEF Manifests!Column
<1>7. PICK n \in Nat : DOMAIN names = 1..n /\ \A i \in 1..n : names[i][2] \in Nat
  BY <1>5 DEF Ranked
<1>8. acts = [i \in DOMAIN acts |-> acts[i]] BY <1>1
<1>9. NamedBy(acts, "Digest", n) BY <1>6, <1>7, <1>8 DEF NamedBy, Listing
<1> QED BY <1>4, <1>6, <1>7, <1>9

\* What a server accepted or writes.
Stored(m) ==
  /\ Storable(m)
  /\ Manifests!WithinLimits(m) => Manifests!validate(m)
  /\ \A o \in Members(m.CAS) : Manifests!IsDigest(o.PackID)

\* What was accepted of an entry that was uploaded.
LEMMA ReadIsStored ==
  ASSUME LoadInv, NEW e \in unmerged,
         NEW m, m = Manifests!The(Manifests!decodeManifest(e))
  PROVE  Stored(m) /\ KeyCID(e)[2] \in Nat
<1>1. PICK k \in DOMAIN uploads : e = uploads[k] BY DEF LoadInv
<1>2. k \in 1..Len(uploads) BY <1>1, UploadsAssumption DEF LoadInv
<1>3. m \in Manifests!decodeManifest(e) BY Zenon DEF LoadInv, Manifests!The
<1>4. /\ CIDOf(e)[2] \in Nat
      /\ \A i \in DOMAIN m.Actions : Ranked(m.Actions[i].ClosurePacks)
      /\ Ranked(m.Parents) /\ Ranked(Manifests!Column(m.Packs, "ID"))
      /\ Ranked(Manifests!Column(m.CAS, "Digest"))
      /\ Ranked(Manifests!Column(m.Actions, "Digest"))
  BY <1>1, <1>2, <1>3, UploadsAssumption DEF LoadInv
<1>5. CIDOf(e) = KeyCID(e) BY <1>3 DEF Manifests!decodeManifest
<1>6. PICK node : node = NodeOf(e) OBVIOUS
<1>7. m \in Manifests!nodeToManifest(node) BY <1>3, <1>5, <1>6 DEF Manifests!decodeManifest
<1>8. Manifests!validate(m) /\ m.Version = 1 BY <1>7 DEF Manifests!nodeToManifest
<1>9. /\ m.Parents \in Manifests!nodeStringList(node, "parents")
      /\ m.Packs \in Manifests!nodePacks(node) /\ m.CAS \in Manifests!nodeCAS(node)
      /\ m.Actions \in Manifests!nodeActions(node)
      /\ m = [Version |-> m.Version, Parents |-> m.Parents, Packs |-> m.Packs, CAS |-> m.CAS,
              Actions |-> m.Actions]
  <2>1. node.kind = "map" BY <1>7 DEF Manifests!nodeToManifest
  <2>2. m \in {[Version |-> version, Parents |-> parents, Packs |-> ps, CAS |-> os,
                Actions |-> acts] :
                 version \in Manifests!nodeInt(node, "version"),
                 parents \in Manifests!nodeStringList(node, "parents"),
                 ps \in Manifests!nodePacks(node), os \in Manifests!nodeCAS(node),
                 acts \in Manifests!nodeActions(node)}
    BY <1>7, <2>1 DEF Manifests!nodeToManifest
  <2> QED BY <2>2
<1>10. PICK parents, ps, os, acts :
         parents = m.Parents /\ ps = m.Packs /\ os = m.CAS /\ acts = m.Actions
  OBVIOUS
<1>11. m = [Version |-> 1, Parents |-> m.Parents, Packs |-> m.Packs, CAS |-> m.CAS,
            Actions |-> m.Actions]
  BY <1>8, <1>9, Zenon
<1>12. \E n \in Nat : Listing(parents, n) /\ Names(parents, n) BY <1>4, <1>9, <1>10, ParentsOf
<1>13. \E n \in Nat : NamedBy(ps, "ID", n) /\ \A i \in 1..n : IsPack(ps[i])
  BY <1>4, <1>9, <1>10, PacksOf
<1>14. \E n \in Nat : NamedBy(os, "Digest", n) /\ \A i \in 1..n : IsObject(os[i])
  BY <1>4, <1>9, <1>10, ObjectsOf
<1>15. \E n \in Nat : /\ NamedBy(acts, "Digest", n)
                      /\ \A i \in 1..n : IsAction(acts[i]) /\ HasClosure(acts[i])
  BY <1>4, <1>9, <1>10, ActionsOf
<1>16. Storable(m) BY <1>10, <1>11, <1>12, <1>13, <1>14, <1>15, Zenon DEF Storable
<1>17. ASSUME NEW o \in Members(m.CAS) PROVE Manifests!IsDigest(o.PackID)
  <2>1. /\ \A i \in DOMAIN m.Packs : Manifests!ValidPack(m.Packs[i])
        /\ \A i \in DOMAIN m.CAS : Manifests!ValidCAS(m, m.CAS[i])
    BY <1>8 DEF Manifests!validate
  <2>2. PICK i \in DOMAIN m.CAS : o = m.CAS[i] BY DEF Members
  <2>3. Manifests!Declared(m, o.PackID) BY <2>1, <2>2 DEF Manifests!ValidCAS
  <2>4. PICK j \in DOMAIN m.Packs : m.Packs[j].ID = o.PackID BY <2>3 DEF Manifests!Declared
  <2>5. Manifests!IsDigest(m.Packs[j].ID) BY <2>1 DEF Manifests!ValidPack
  <2> QED BY <2>4, <2>5
<1> QED BY <1>4, <1>5, <1>8, <1>16, <1>17 DEF Stored

\* A finite set as a sorted list.
LEMMA SetSorts ==
  ASSUME NEW s, IsFiniteSet(s), \A x \in s : x[2] \in Nat,
         NEW new, new = Manifests!SortedSet(s)
  PROVE  \E n \in Nat : Listing(new, n) /\ Names(new, n) /\ \A i \in 1..n : new[i] \in s
<1>1. PICK n : n = Cardinality(s) OBVIOUS
<1>2. n \in Nat /\ ExistsBijection(1..n, s) BY <1>1, FS_CardinalityType
<1>3. PICK f \in [1..n -> s] : \A i, j \in DOMAIN f : f[i] = f[j] => i = j
  BY <1>2 DEF ExistsBijection, Bijection, Injection, IsInjective
<1>4. PICK old : old = Manifests!SetToSeq(s) OBVIOUS
<1>5. old = CHOOSE g \in [1..n -> s] : Manifests!IsInjective(g)
  BY <1>1, <1>4, SameCardinality DEF Manifests!SetToSeq
<1>6. old \in [1..n -> s] BY <1>3, <1>5 DEF Manifests!IsInjective
<1>7. Listing(old, n) /\ Names(old, n) BY <1>6 DEF Listing, Names
<1>8. new = Manifests!SortedTexts(old) BY <1>4 DEF Manifests!SortedSet
<1>9. Listing(new, n) /\ Within(new, old, n)
  BY <1>2, <1>7, <1>8, TextsSort
<1>10. \A i \in 1..n : new[i] \in s BY <1>6, <1>9 DEF Within
<1>11. Names(new, n) BY <1>9, <1>10 DEF Listing, Names
<1> QED BY <1>2, <1>9, <1>10, <1>11

\* The packs of a closure.
LEMMA PacksOfClosure ==
  ASSUME IndexInv, \A m \in applied : Stored(m), NEW own \in OwnPacks,
         NEW closure, IsFiniteSet(closure),
         NEW ids, ids = UNION {Manifests!PackOf(own, d) : d \in closure}
  PROVE  IsFiniteSet(ids) /\ \A x \in ids : x[2] \in Nat /\ Manifests!IsDigest(x)
<1>1. own.pack.ID[2] \in Nat /\ Manifests!IsDigest(own.pack.ID) BY OwnPacksAssumption
<1>2. ASSUME NEW d \in DOMAIN index.cas
      PROVE  index.cas[d].PackID[2] \in Nat /\ Manifests!IsDigest(index.cas[d].PackID)
  <2>1. ObjectsMerged(index.cas, AppliedObjects) BY DEF IndexInv
  <2>2. PICK o : o = index.cas[d] OBVIOUS
  <2>3. o \in AppliedObjects BY <2>1, <2>2, Zenon DEF ObjectsMerged
  <2>4. o.PackID[2] \in Nat BY <2>1, <2>3 DEF ObjectsMerged
  <2>5. PICK m \in applied : o \in Members(m.CAS) BY <2>3 DEF AppliedObjects
  <2>6. Manifests!IsDigest(o.PackID) BY <2>5 DEF Stored
  <2> QED BY <2>2, <2>4, <2>6
<1>3. ASSUME NEW d, NEW x \in Manifests!PackOf(own, d)
      PROVE  /\ x = own.pack.ID \/ (d \in DOMAIN index.cas /\ x = index.cas[d].PackID)
             /\ x[2] \in Nat /\ Manifests!IsDigest(x)
  <2>1. x = own.pack.ID \/ (d \in DOMAIN index.cas /\ x = index.cas[d].PackID)
    BY <1>3 DEF Manifests!PackOf, Manifests!Get
  <2> QED BY <1>1, <1>2, <2>1
<1>4. PICK f : f = [d \in closure |-> index.cas[d].PackID] OBVIOUS
<1>5. PICK image : image = {f[d] : d \in closure} OBVIOUS
<1>6. f \in Surjection(closure, image)
  <2>1. f \in [closure -> image] BY <1>4, <1>5
  <2>2. \A t \in image : \E d \in closure : f[d] = t BY <1>5
  <2> QED BY <2>1, <2>2 DEF Surjection
<1>7. IsFiniteSet(image) BY <1>6, FS_Surjection
<1>8. IsFiniteSet(image \cup {own.pack.ID}) BY <1>7, FS_AddElement
<1>9. ids \subseteq image \cup {own.pack.ID}
  <2> SUFFICES ASSUME NEW x \in ids PROVE x \in image \cup {own.pack.ID} OBVIOUS
  <2>1. PICK d \in closure : x \in Manifests!PackOf(own, d) OBVIOUS
  <2> QED BY <1>3, <1>4, <1>5, <2>1
<1>10. IsFiniteSet(ids) BY <1>8, <1>9, FS_Subset
<1>11. \A x \in ids : x[2] \in Nat /\ Manifests!IsDigest(x)
  <2> SUFFICES ASSUME NEW x \in ids PROVE x[2] \in Nat /\ Manifests!IsDigest(x) OBVIOUS
  <2>1. PICK d \in closure : x \in Manifests!PackOf(own, d) OBVIOUS
  <2> QED BY <1>3, <2>1
<1> QED BY <1>10, <1>11

\* What this server writes.
LEMMA WrittenIsStored ==
  ASSUME IndexInv, \A m \in applied : Stored(m),
         IsFiniteSet(index.heads), \A id \in index.heads : id[2] \in Nat,
         NEW own \in OwnPacks, NEW m, m = Manifests!ManifestFor(own)
  PROVE  Stored(m)
<1>1. /\ IsPack(own.pack) /\ Manifests!ValidPack(own.pack) /\ own.pack.ID[2] \in Nat
      /\ Manifests!IsDigest(own.pack.ID)
  BY OwnPacksAssumption DEF IsPack, Manifests!ValidPack
<1>2. PICK heads : heads = index.heads OBVIOUS
<1>3. PICK parents : parents = Manifests!SortedSet(heads) OBVIOUS
<1>4. PICK ps : ps = <<own.pack>> OBVIOUS
<1>5. PICK os : os = [i \in DOMAIN own.cas |-> Manifests!ObjectIn(own, own.cas[i])] OBVIOUS
<1>6. PICK acts : acts = [i \in DOMAIN own.actions |-> Manifests!ActionIn(own, own.actions[i])]
  OBVIOUS
<1>7. m = [Version |-> 1, Parents |-> parents, Packs |-> ps, CAS |-> os, Actions |-> acts]
  BY <1>2, <1>3, <1>4, <1>5, <1>6, Zenon DEF Manifests!ManifestFor
<1>8. /\ m.Version = 1 /\ m.Parents = parents /\ m.Packs = ps /\ m.CAS = os
      /\ m.Actions = acts
  BY <1>7
<1>9. PICK nt \in Nat : /\ Listing(parents, nt) /\ Names(parents, nt)
                        /\ \A i \in 1..nt : parents[i] \in heads
  <2>1. IsFiniteSet(heads) /\ \A id \in heads : id[2] \in Nat BY <1>2
  <2> QED BY <1>3, <2>1, SetSorts
<1>10. NamedBy(ps, "ID", 1) /\ DOMAIN ps = 1..1 /\ ps[1] = own.pack
  <2>1. ps = [i \in 1..1 |-> ps[i]] /\ DOMAIN ps = 1..1 /\ ps[1] = own.pack BY <1>4
  <2>2. \A i \in 1..1 : ps[i]["ID"][2] \in Nat BY <1>1, <2>1
  <2> QED BY <2>1, <2>2 DEF NamedBy, Listing
<1>11. PICK nc \in Nat :
         /\ DOMAIN own.cas = 1..nc
         /\ \A i \in 1..nc : /\ own.cas[i]["Digest"][2] \in Nat
                             /\ Manifests!IsDigest(own.cas[i].Digest) /\ own.cas[i].Size >= 0
         /\ \A i, j \in 1..nc : own.cas[i].Digest = own.cas[j].Digest => i = j
  <2>1. PICK cas : cas = own.cas OBVIOUS
  <2>2. PICK names : names = Manifests!Column(cas, "Digest") OBVIOUS
  <2>3. DOMAIN names = DOMAIN cas /\ \A i \in DOMAIN cas : names[i] = cas[i]["Digest"]
    BY <2>2 DEF Manifests!Column
  <2>4. Ranked(names) BY <2>1, <2>2, OwnPacksAssumption
  <2>5. PICK n \in Nat : DOMAIN names = 1..n /\ \A i \in 1..n : names[i][2] \in Nat
    BY <2>4 DEF Ranked
  <2>6. DOMAIN cas = 1..n /\ \A i \in 1..n : cas[i]["Digest"][2] \in Nat BY <2>3, <2>5
  <2>7. \A i \in DOMAIN cas : Manifests!IsDigest(cas[i].Digest) /\ cas[i].Size >= 0
    BY <2>1, OwnPacksAssumption
  <2>8. \A i, j \in DOMAIN cas : cas[i].Digest = cas[j].Digest => i = j
    BY <2>1, OwnPacksAssumption
  <2> QED BY <2>1, <2>6, <2>7, <2>8
<1>12. /\ DOMAIN os = 1..nc
       /\ \A i \in 1..nc :
            /\ IsObject(os[i]) /\ os[i].Digest = own.cas[i].Digest
            /\ os[i].Size = own.cas[i].Size /\ os[i].PackID = own.pack.ID
            /\ os[i].CID = Manifests!rawCIDForDigest(os[i].Digest)
  BY <1>5, <1>11 DEF Manifests!ObjectIn, IsObject
<1>13. NamedBy(os, "Digest", nc)
  <2>1. os = [i \in 1..nc |-> os[i]] BY <1>5, <1>12
  <2>2. \A i \in 1..nc : os[i]["Digest"][2] \in Nat BY <1>11, <1>12
  <2> QED BY <2>1, <2>2 DEF NamedBy, Listing
<1>14. PICK na \in Nat :
         /\ DOMAIN own.actions = 1..na
         /\ \A i \in 1..na :
              /\ own.actions[i]["Digest"][2] \in Nat
              /\ Manifests!IsDigest(own.actions[i].Digest) /\ own.actions[i].Size >= 0
              /\ Manifests!validCID(own.actions[i].CID)
              /\ IsFiniteSet(own.actions[i].closure)
         /\ \A i, j \in 1..na : own.actions[i].Digest = own.actions[j].Digest => i = j
  <2>1. PICK staged : staged = own.actions OBVIOUS
  <2>2. PICK names : names = Manifests!Column(staged, "Digest") OBVIOUS
  <2>3. /\ DOMAIN names = DOMAIN staged
        /\ \A i \in DOMAIN staged : names[i] = staged[i]["Digest"]
    BY <2>2 DEF Manifests!Column
  <2>4. Ranked(names) BY <2>1, <2>2, OwnPacksAssumption
  <2>5. PICK n \in Nat : DOMAIN names = 1..n /\ \A i \in 1..n : names[i][2] \in Nat
    BY <2>4 DEF Ranked
  <2>6. DOMAIN staged = 1..n /\ \A i \in 1..n : staged[i]["Digest"][2] \in Nat
    BY <2>3, <2>5
  <2>7. \A i \in DOMAIN staged :
          /\ Manifests!IsDigest(staged[i].Digest) /\ staged[i].Size >= 0
          /\ Manifests!validCID(staged[i].CID) /\ IsFiniteSet(staged[i].closure)
    BY <2>1, OwnPacksAssumption
  <2>8. \A i, j \in DOMAIN staged : staged[i].Digest = staged[j].Digest => i = j
    BY <2>1, OwnPacksAssumption
  <2> QED BY <2>1, <2>6, <2>7, <2>8
<1>15. ASSUME NEW i \in 1..na, NEW a, a = acts[i]
       PROVE  /\ IsAction(a) /\ HasClosure(a)
              /\ a.Digest = own.actions[i].Digest /\ a.Size = own.actions[i].Size
              /\ a.CID = own.actions[i].CID /\ a.PackID = own.pack.ID
              /\ \A k \in DOMAIN a.ClosurePacks : Manifests!IsDigest(a.ClosurePacks[k])
  <2>1. PICK staged : staged = own.actions[i] OBVIOUS
  <2>2. a = Manifests!ActionIn(own, staged) BY <1>6, <1>14, <1>15, <2>1
  <2>3. PICK ids : ids = UNION {Manifests!PackOf(own, d) : d \in staged.closure} OBVIOUS
  <2>4. PICK closure : closure = Manifests!SortedSet(ids) OBVIOUS
  <2>5. a = [Digest |-> staged.Digest, CID |-> staged.CID, PackID |-> own.pack.ID,
             Size |-> staged.Size, ClosurePacks |-> closure]
    BY <2>2, <2>3, <2>4, Zenon DEF Manifests!ActionIn
  <2>6. /\ a.Digest = staged.Digest /\ a.CID = staged.CID /\ a.PackID = own.pack.ID
        /\ a.Size = staged.Size /\ a.ClosurePacks = closure
    BY <2>5
  <2>7. IsAction(a) BY <2>5, <2>6, Zenon DEF IsAction
  <2>8. PICK set : set = staged.closure OBVIOUS
  <2>9. IsFiniteSet(set) BY <1>14, <2>1, <2>8
  <2>10. ids = UNION {Manifests!PackOf(own, d) : d \in set} BY <2>3, <2>8
  <2>11. IsFiniteSet(ids) /\ \A x \in ids : x[2] \in Nat /\ Manifests!IsDigest(x)
    BY <2>9, <2>10, PacksOfClosure
  <2>12. PICK n \in Nat : /\ Listing(closure, n) /\ Names(closure, n)
                          /\ \A k \in 1..n : closure[k] \in ids
    BY <2>4, <2>11, SetSorts
  <2>13. HasClosure(a) BY <2>6, <2>12 DEF HasClosure
  <2>14. DOMAIN closure = 1..n BY <2>12 DEF Names
  <2>15. \A k \in DOMAIN a.ClosurePacks : Manifests!IsDigest(a.ClosurePacks[k])
    BY <2>6, <2>11, <2>12, <2>14
  <2> QED BY <2>1, <2>6, <2>7, <2>13, <2>15
<1>16. NamedBy(acts, "Digest", na) /\ DOMAIN acts = 1..na
  <2>1. DOMAIN acts = 1..na /\ acts = [i \in 1..na |-> acts[i]] BY <1>6, <1>14
  <2>2. \A i \in 1..na : acts[i]["Digest"] = own.actions[i]["Digest"] BY <1>15
  <2>3. \A i \in 1..na : acts[i]["Digest"][2] \in Nat BY <1>14, <2>2
  <2> QED BY <2>1, <2>3 DEF NamedBy, Listing
<1>17. Storable(m)
  <2>1. \E n \in Nat : Listing(m.Parents, n) /\ Names(m.Parents, n) BY <1>8, <1>9
  <2>2. \E n \in Nat : NamedBy(m.Packs, "ID", n) /\ \A i \in 1..n : IsPack(m.Packs[i])
    BY <1>1, <1>8, <1>10
  <2>3. \E n \in Nat : NamedBy(m.CAS, "Digest", n) /\ \A i \in 1..n : IsObject(m.CAS[i])
    BY <1>8, <1>12, <1>13
  <2>4. \E n \in Nat : /\ NamedBy(m.Actions, "Digest", n)
                       /\ \A i \in 1..n : IsAction(m.Actions[i]) /\ HasClosure(m.Actions[i])
    BY <1>8, <1>15, <1>16
  <2> QED BY <1>7, <1>8, <2>1, <2>2, <2>3, <2>4, Zenon DEF Storable
<1>18. Manifests!Declared(m, own.pack.ID) BY <1>8, <1>10 DEF Manifests!Declared
<1>19. ASSUME Manifests!WithinLimits(m) PROVE Manifests!validate(m)
  <2>1. \A i \in DOMAIN ps : Manifests!ValidPack(ps[i]) BY <1>1, <1>10
  <2>2. \A i, j \in DOMAIN ps : ps[i].ID = ps[j].ID => i = j BY <1>10
  <2>3. \A i \in DOMAIN os : Manifests!ValidCAS(m, os[i])
    BY <1>11, <1>12, <1>18 DEF Manifests!ValidCAS, Manifests!validRawCID
  <2>4. \A i, j \in DOMAIN os : os[i].Digest = os[j].Digest => i = j BY <1>11, <1>12
  <2>5. \A i \in DOMAIN acts : Manifests!ValidAction(m, acts[i])
    <3> SUFFICES ASSUME NEW i \in 1..na PROVE Manifests!ValidAction(m, acts[i]) BY <1>16
    <3>1. PICK a : a = acts[i] OBVIOUS
    <3>2. /\ Manifests!IsDigest(a.Digest) /\ a.Size >= 0 /\ Manifests!validCID(a.CID)
          /\ a.PackID = own.pack.ID
          /\ \A k \in DOMAIN a.ClosurePacks : Manifests!IsDigest(a.ClosurePacks[k])
      BY <1>14, <1>15, <3>1
    <3>3. Manifests!ValidAction(m, a) BY <1>18, <3>2 DEF Manifests!ValidAction
    <3> QED BY <3>1, <3>3
  <2>6. \A i, j \in DOMAIN acts : acts[i].Digest = acts[j].Digest => i = j
    BY <1>14, <1>15, <1>16
  <2>7. \A i \in DOMAIN parents : Manifests!validCID(parents[i])
    <3>1. \A id \in heads : Manifests!validCID(id) BY <1>2 DEF IndexInv
    <3>2. DOMAIN parents = 1..nt BY <1>9 DEF Names
    <3> QED BY <1>9, <3>1, <3>2
  <2> QED
    BY <1>8, <1>19, <2>1, <2>2, <2>3, <2>4, <2>5, <2>6, <2>7, Zenon
    DEF Manifests!validate, Manifests!NoRepetition
<1>20. ASSUME NEW o \in Members(m.CAS) PROVE Manifests!IsDigest(o.PackID)
  BY <1>1, <1>8, <1>12 DEF Members
<1> QED BY <1>17, <1>19, <1>20 DEF Stored

\* Every manifest in the index can be stored, and its heads are sorted.
StoredInv ==
  /\ \A m \in applied : Stored(m)
  /\ written \subseteq applied
  /\ IsFiniteSet(index.heads) /\ \A id \in index.heads : id[2] \in Nat

\* A manifest is merged.
LEMMA HeadsStep ==
  ASSUME StoredInv, NEW m, Stored(m), NEW id, id[2] \in Nat,
         index' = Manifests!applyManifest(index, id, m), applied' = applied \cup {m},
         written' \subseteq applied'
  PROVE  StoredInv'
<1>1. PICK others : others = index.heads \ Manifests!ToSet(m.Parents) OBVIOUS
<1>2. index'.heads = others \cup {id} BY <1>1 DEF Manifests!applyManifest
<1>3. IsFiniteSet(others) BY <1>1, FS_Subset DEF StoredInv
<1>4. IsFiniteSet(index'.heads) BY <1>2, <1>3, FS_AddElement
<1>5. \A x \in index'.heads : x[2] \in Nat BY <1>1, <1>2 DEF StoredInv
<1>6. \A n \in applied' : Stored(n) BY DEF StoredInv
<1> QED BY <1>4, <1>5, <1>6 DEF StoredInv

\* The other steps of a start merge nothing.
LEMMA StoredStep ==
  ASSUME StoredInv, IndexInv, LoadInv, [StartNext]_<<uploads, vars, indexVars>>
  PROVE  StoredInv'
<1>1. CASE UNCHANGED <<index, applied, written>> BY <1>1 DEF StoredInv
<1>2. CASE Merge
  <2>1. PICK e \in unmerged :
          /\ index' = Manifests!applyManifest(index, KeyCID(e),
                                              Manifests!The(Manifests!decodeManifest(e)))
          /\ applied' = applied \cup {Manifests!The(Manifests!decodeManifest(e))}
          /\ written' = written
    BY <1>2 DEF Merge, Manifests!MergeNext
  <2>2. PICK m : m = Manifests!The(Manifests!decodeManifest(e)) OBVIOUS
  <2>3. PICK id : id = KeyCID(e) OBVIOUS
  <2>4. Stored(m) /\ id[2] \in Nat BY <2>2, <2>3, ReadIsStored
  <2>5. index' = Manifests!applyManifest(index, id, m) /\ applied' = applied \cup {m}
    BY <2>1, <2>2, <2>3
  <2>6. written' \subseteq applied' BY <2>1, <2>5 DEF StoredInv
  <2> QED BY <2>4, <2>5, <2>6, HeadsStep
<1>3. CASE Flush
  <2>1. PICK own \in unsaved :
          /\ index' = Manifests!applyManifest(index, own.cid, Manifests!ManifestFor(own))
          /\ applied' = applied \cup {Manifests!ManifestFor(own)}
          /\ written' = {Manifests!ManifestFor(own)}
    BY <1>3 DEF Flush, Manifests!Write
  <2>2. own \in OwnPacks BY DEF IndexInv
  <2>3. PICK m : m = Manifests!ManifestFor(own) OBVIOUS
  <2>4. PICK id : id = own.cid OBVIOUS
  <2>5. Stored(m)
    <3>1. \A n \in applied : Stored(n) BY DEF StoredInv
    <3>2. IsFiniteSet(index.heads) /\ \A x \in index.heads : x[2] \in Nat BY DEF StoredInv
    <3> QED BY <2>2, <2>3, <3>1, <3>2, WrittenIsStored
  <2>6. id[2] \in Nat BY <2>2, <2>4, OwnPacksAssumption
  <2>7. /\ index' = Manifests!applyManifest(index, id, m) /\ applied' = applied \cup {m}
        /\ written' = {m}
    BY <2>1, <2>3, <2>4
  <2> QED BY <2>5, <2>6, <2>7, HeadsStep
<1>4. CASE List BY <1>1, <1>4 DEF List, indexVars
<1>5. CASE Load BY <1>1, <1>5 DEF Load, Manifests!Discover
<1>6. CASE UNCHANGED <<uploads, vars, indexVars>> BY <1>1, <1>6 DEF indexVars
<1> QED BY <1>2, <1>3, <1>4, <1>5, <1>6 DEF StartNext

\* No manifest is merged when a server starts.
LEMMA StoredInitially == StartInit => StoredInv
<1> SUFFICES ASSUME StartInit PROVE StoredInv OBVIOUS
<1>1. applied = {} /\ written = {} /\ index = Manifests!EmptyIndex
  BY DEF StartInit, Manifests!Init
<1>2. index.heads = {} BY <1>1 DEF Manifests!EmptyIndex
<1> QED BY <1>1, <1>2, FS_EmptySet DEF StoredInv

(* Every manifest that a server read or writes has lists that can be sorted *)
(* and, within the limits, passes the checks of a reader.                   *)
THEOREM StoredInvariant == StartSpec => []StoredInv
<1>1. StartInit => StoredInv BY StoredInitially
<1>2. StoredInv /\ IndexInv /\ LoadInv /\ [StartNext]_<<uploads, vars, indexVars>> => StoredInv'
  BY StoredStep
<1> QED BY <1>1, <1>2, IndexInvariant, PTL DEF StartSpec

(* A manifest is encoded in one way, whatever the order of its entries, and *)
(* what was encoded is read back: manifest.go:85-147 and 149-283, for any   *)
(* number of packs, objects, actions and parents within the limits.         *)
THEOREM ManifestsRoundTrip == StartSpec => []RoundTrip
<1>1. StoredInv => RoundTrip
  BY StoredIsRead DEF StoredInv, Stored, RoundTrip, Manifests!RoundTrip
<1> QED BY <1>1, StoredInvariant, PTL

\* What this server wrote keeps the limits of those who read it.
WrittenWithinLimits == \A m \in written : Manifests!WithinLimits(m)

(* README.md:88: other servers accept what a server writes, as long as it   *)
(* is within the limits, which are checked only by those who read it.       *)
THEOREM WrittenIsAccepted ==
  StartSpec => [](WrittenWithinLimits => WrittenIsReadable)
<1>1. StoredInv => (WrittenWithinLimits => WrittenIsReadable)
  <2> SUFFICES ASSUME StoredInv, WrittenWithinLimits, NEW m \in written
               PROVE  Manifests!nodeToManifest(Manifests!manifestToNode(m)) # {}
    BY DEF WrittenIsReadable, Manifests!WrittenIsReadable
  <2>1. Storable(m) /\ Manifests!validate(m)
    BY DEF StoredInv, Stored, WrittenWithinLimits
  <2> QED BY <2>1, StoredIsRead
<1> QED BY <1>1, StoredInvariant, PTL

-----------------------------------------------------------------------------
(* The downloads of packs: the inductive invariant of PackLoad.             *)

\* loadingPacks names readers at work.
LeadersAtWork ==
  \A p \in Packs : \A r \in Readers :
    loadingPacks[p] = r => pc[r] \in Leading /\ pack[r] = p

\* What is loaded, or about to be returned, was downloaded; what is about to be
\* returned to a follower as a failure has failed during its call.
OutcomesTrue ==
  /\ loadedPacks \subseteq downloaded
  /\ \A r \in Readers : pc[r] \in {"settle", "woken"} /\ outcome[r] = "loaded" =>
                          pack[r] \in downloaded
  /\ \A r \in Readers : pc[r] = "woken" /\ outcome[r] = "failed" => failedSince[r]

\* The inductive invariant.
PackLoadInv ==
  /\ LoadTypeOK
  /\ OneDownload
  /\ LeadersAtWork
  /\ FollowersHaveLeader
  /\ OutcomesTrue
  /\ TruthfulAnswers
  /\ SlotsAccounted

-----------------------------------------------------------------------------

\* The initial state satisfies the invariant.
LEMMA PackLoadInit == LoadInit => PackLoadInv
<1> SUFFICES ASSUME LoadInit PROVE PackLoadInv OBVIOUS
<1> USE PackLoadAssumption DEF LoadInit
<1>1. LoadTypeOK BY DEF LoadTypeOK
<1>2. OneDownload /\ LeadersAtWork /\ FollowersHaveLeader /\ OutcomesTrue /\ TruthfulAnswers
  BY DEF OneDownload, LeadersAtWork, FollowersHaveLeader, OutcomesTrue, TruthfulAnswers, Leading
<1>3. Cardinality({}) = 0 BY FS_EmptySet
<1>4. SlotsAccounted BY <1>3 DEF SlotsAccounted
<1> QED BY <1>1, <1>2, <1>4 DEF PackLoadInv

\* One holder of a slot more, when a slot is free.
LEMMA SlotTaken ==
  ASSUME LoadTypeOK, SlotFree, NEW x \in Readers \cup {Flusher}
  PROVE  Cardinality(sem \cup {x}) <= MaxConcurrent
<1>1. IsFiniteSet(Readers \cup {Flusher}) BY PackLoadAssumption, FS_AddElement
<1>2. IsFiniteSet(sem) BY <1>1, FS_Subset DEF LoadTypeOK
<1>3. Cardinality(sem) \in Nat BY <1>2, FS_CardinalityType
<1>4. CASE x \in sem
  <2>1. sem \cup {x} = sem BY <1>4
  <2> QED BY <2>1, <1>3, PackLoadAssumption DEF SlotFree
<1>5. CASE x \notin sem
  <2>1. Cardinality(sem \cup {x}) = Cardinality(sem) + 1 BY <1>2, <1>5, FS_AddElement
  <2> QED BY <2>1, <1>3, PackLoadAssumption DEF SlotFree
<1> QED BY <1>4, <1>5

\* One holder less.
LEMMA SlotReleased ==
  ASSUME LoadTypeOK, SlotsAccounted, NEW x
  PROVE  Cardinality(sem \ {x}) <= MaxConcurrent
<1>1. IsFiniteSet(Readers \cup {Flusher}) BY PackLoadAssumption, FS_AddElement
<1>2. IsFiniteSet(sem) BY <1>1, FS_Subset DEF LoadTypeOK
<1>3. Cardinality(sem \ {x}) <= Cardinality(sem) /\ IsFiniteSet(sem \ {x})
  BY <1>2, FS_Subset
<1>4. Cardinality(sem) \in Nat /\ Cardinality(sem \ {x}) \in Nat
  BY <1>2, <1>3, FS_CardinalityType
<1> QED BY <1>3, <1>4, PackLoadAssumption DEF SlotsAccounted

-----------------------------------------------------------------------------
(* Every action of PackLoad preserves it.                                   *)

\* A call begins, or looks the pack up.
LEMMA LookupSteps ==
  ASSUME PackLoadInv, NEW r \in Readers,
         Lookup(r) \/ (\E p \in Packs : Call(r, p))
  PROVE  PackLoadInv'
<1> USE PackLoadAssumption DEF PackLoadInv, Leading, packVars, history
<1>1. CASE \E p \in Packs : Call(r, p)
  <2> PICK p \in Packs : Call(r, p) BY <1>1
  <2> USE DEF Call, Goto
  <2>1. LoadTypeOK' BY DEF LoadTypeOK
  <2>2. OneDownload' /\ LeadersAtWork' BY DEF LoadTypeOK, OneDownload, LeadersAtWork
  <2>3. FollowersHaveLeader' BY DEF LoadTypeOK, FollowersHaveLeader
  <2>4. OutcomesTrue' BY DEF LoadTypeOK, OutcomesTrue
  <2>5. TruthfulAnswers' BY DEF LoadTypeOK, TruthfulAnswers
  <2>6. SlotsAccounted' BY DEF LoadTypeOK, SlotsAccounted
  <2> QED BY <2>1, <2>2, <2>3, <2>4, <2>5, <2>6
<1>2. CASE Hit(r)
  <2> USE <1>2 DEF Hit, Return, Goto
  <2>1. LoadTypeOK' BY DEF LoadTypeOK
  <2>2. OneDownload' /\ LeadersAtWork' BY DEF LoadTypeOK, OneDownload, LeadersAtWork
  <2>3. FollowersHaveLeader' BY DEF LoadTypeOK, FollowersHaveLeader
  <2>4. OutcomesTrue' BY DEF LoadTypeOK, OutcomesTrue
  <2>5. TruthfulAnswers' BY DEF LoadTypeOK, TruthfulAnswers, OutcomesTrue
  <2>6. SlotsAccounted' BY DEF LoadTypeOK, SlotsAccounted
  <2> QED BY <2>1, <2>2, <2>3, <2>4, <2>5, <2>6
<1>3. CASE Join(r)
  <2> USE <1>3 DEF Join, Goto
  <2>1. LoadTypeOK' BY DEF LoadTypeOK
  <2>2. OneDownload' /\ LeadersAtWork' BY DEF LoadTypeOK, OneDownload, LeadersAtWork
  <2>3. FollowersHaveLeader' BY DEF LoadTypeOK, FollowersHaveLeader, LeadersAtWork
  <2>4. OutcomesTrue' BY DEF LoadTypeOK, OutcomesTrue
  <2>5. TruthfulAnswers' BY DEF LoadTypeOK, TruthfulAnswers
  <2>6. SlotsAccounted' BY DEF LoadTypeOK, SlotsAccounted
  <2> QED BY <2>1, <2>2, <2>3, <2>4, <2>5, <2>6
<1>4. CASE Lead(r)
  <2> USE <1>4 DEF Lead, MayLead, Goto
  <2>1. LoadTypeOK' BY DEF LoadTypeOK
  <2>2. OneDownload' BY DEF LoadTypeOK, OneDownload, LeadersAtWork
  <2>3. LeadersAtWork' BY DEF LoadTypeOK, LeadersAtWork
  <2>4. FollowersHaveLeader' BY DEF LoadTypeOK, FollowersHaveLeader
  <2>5. OutcomesTrue' BY DEF LoadTypeOK, OutcomesTrue
  <2>6. TruthfulAnswers' BY DEF LoadTypeOK, TruthfulAnswers
  <2>7. SlotsAccounted' BY DEF LoadTypeOK, SlotsAccounted
  <2> QED BY <2>1, <2>2, <2>3, <2>4, <2>5, <2>6, <2>7
<1> QED BY <1>1, <1>2, <1>3, <1>4 DEF Lookup

\* A follower returns; a client goes.
LEMMA FollowerSteps ==
  ASSUME PackLoadInv, NEW r \in Readers, FollowerReturns(r) \/ Cancel(r)
  PROVE  PackLoadInv'
<1> USE PackLoadAssumption
    DEF PackLoadInv, Leading, packVars, history, FollowerReturns, Awake, FollowerCancelled,
        Cancel, Return, Goto
<1>1. LoadTypeOK' BY DEF LoadTypeOK
<1>2. OneDownload' /\ LeadersAtWork' BY DEF LoadTypeOK, OneDownload, LeadersAtWork
<1>3. FollowersHaveLeader' BY DEF LoadTypeOK, FollowersHaveLeader
<1>4. OutcomesTrue' BY DEF LoadTypeOK, OutcomesTrue
<1>5. TruthfulAnswers' BY DEF LoadTypeOK, TruthfulAnswers, OutcomesTrue
<1>6. SlotsAccounted' BY DEF LoadTypeOK, SlotsAccounted
<1> QED BY <1>1, <1>2, <1>3, <1>4, <1>5, <1>6

\* A leader takes a slot, downloads, and gives the slot back.
LEMMA DownloadSteps ==
  ASSUME PackLoadInv, NEW r \in Readers, Acquire(r) \/ AcquireCancelled(r) \/ Download(r)
  PROVE  PackLoadInv'
<1> USE PackLoadAssumption
    DEF PackLoadInv, Leading, packVars, history, Acquire, AcquireCancelled, Download,
        Downloaded, DownloadFails, Release, Goto
<1>1. LoadTypeOK' BY DEF LoadTypeOK
<1>2. OneDownload' /\ LeadersAtWork' BY DEF LoadTypeOK, OneDownload, LeadersAtWork
<1>3. FollowersHaveLeader' BY DEF LoadTypeOK, FollowersHaveLeader
<1>4. OutcomesTrue' BY DEF LoadTypeOK, OutcomesTrue
<1>5. TruthfulAnswers' BY DEF LoadTypeOK, TruthfulAnswers
<1>6. sem' = {q \in Readers : pc'[q] = "download"}
             \cup (IF flusher' = "saving" THEN {Flusher} ELSE {})
  BY DEF LoadTypeOK, SlotsAccounted
<1>7. Cardinality(sem') <= MaxConcurrent
  BY SlotTaken, SlotReleased DEF SlotsAccounted
<1>8. SlotsAccounted' BY <1>6, <1>7 DEF SlotsAccounted
<1> QED BY <1>1, <1>2, <1>3, <1>4, <1>5, <1>8

\* A leader settles and wakes its followers.
LEMMA SettleStep ==
  ASSUME PackLoadInv, NEW r \in Readers, Settle(r)
  PROVE  PackLoadInv'
<1> USE PackLoadAssumption
    DEF PackLoadInv, Leading, packVars, history, Settle, Loaded, Deliver, Woken, Followers
<1>1. LoadTypeOK' BY DEF LoadTypeOK
<1>2. OneDownload' BY DEF LoadTypeOK, OneDownload
<1>3. LeadersAtWork' BY DEF LoadTypeOK, OneDownload, LeadersAtWork
<1>4. FollowersHaveLeader' BY DEF LoadTypeOK, OneDownload, FollowersHaveLeader
<1>5. OutcomesTrue' BY DEF LoadTypeOK, OutcomesTrue
<1>6. TruthfulAnswers' BY DEF LoadTypeOK, TruthfulAnswers, OutcomesTrue
<1>7. SlotsAccounted' BY DEF LoadTypeOK, SlotsAccounted
<1> QED BY <1>1, <1>2, <1>3, <1>4, <1>5, <1>6, <1>7

\* The flush worker.
LEMMA FlushSteps ==
  ASSUME PackLoadInv, FlushLocks \/ FlushAcquires \/ FlushSaved \/ NothingToFlush
  PROVE  PackLoadInv'
<1> USE PackLoadAssumption
    DEF PackLoadInv, Leading, packVars, readerVars, history,
        FlushLocks, FlushAcquires, FlushSaved, NothingToFlush
<1>1. LoadTypeOK' BY DEF LoadTypeOK
<1>2. OneDownload' /\ LeadersAtWork' BY DEF OneDownload, LeadersAtWork
<1>3. FollowersHaveLeader' BY DEF FollowersHaveLeader
<1>4. OutcomesTrue' BY DEF OutcomesTrue
<1>5. TruthfulAnswers' BY DEF TruthfulAnswers
<1>6. sem' = {q \in Readers : pc'[q] = "download"}
             \cup (IF flusher' = "saving" THEN {Flusher} ELSE {})
  BY DEF LoadTypeOK, SlotsAccounted
<1>7. Cardinality(sem') <= MaxConcurrent
  BY SlotTaken, SlotReleased DEF SlotsAccounted
<1>8. SlotsAccounted' BY <1>6, <1>7 DEF SlotsAccounted
<1> QED BY <1>1, <1>2, <1>3, <1>4, <1>5, <1>8

\* Every step preserves the invariant.
LEMMA PackLoadStep == PackLoadInv /\ [LoadNext]_loadVars => PackLoadInv'
<1> SUFFICES ASSUME PackLoadInv, [LoadNext]_loadVars PROVE PackLoadInv' OBVIOUS
<1>1. CASE UNCHANGED loadVars
  BY <1>1 DEF loadVars, readerVars, packVars, history, PackLoadInv, LoadTypeOK, OneDownload,
              LeadersAtWork, FollowersHaveLeader, OutcomesTrue, TruthfulAnswers, SlotsAccounted
<1>2. CASE LoadNext
  BY <1>2, LookupSteps, FollowerSteps, DownloadSteps, SettleStep, FlushSteps DEF LoadNext
<1> QED BY <1>1, <1>2

-----------------------------------------------------------------------------

\* The invariant holds in every state.
THEOREM PackLoadInvariant == LoadSpec => []PackLoadInv
BY PackLoadInit, PackLoadStep, PTL DEF LoadSpec

\* The variables have their types.
THEOREM PackLoadTypes == LoadSpec => []LoadTypeOK
<1>1. PackLoadInv => LoadTypeOK BY DEF PackLoadInv
<1> QED BY <1>1, PackLoadInvariant, PTL

\* loadPack starts one download per pack, and none of a loaded pack.
THEOREM DownloadsAreShared == LoadSpec => []OneDownload
<1>1. PackLoadInv => OneDownload BY DEF PackLoadInv
<1> QED BY <1>1, PackLoadInvariant, PTL

\* A reader that waits has a leader at work, who will close the channel.
THEOREM WaitersHaveLeaders == LoadSpec => []FollowersHaveLeader
<1>1. PackLoadInv => FollowersHaveLeader BY DEF PackLoadInv
<1> QED BY <1>1, PackLoadInvariant, PTL

\* loadPack returns the path of a verified pack, or an error with a cause of its time.
THEOREM AnswersAreTrue == LoadSpec => []TruthfulAnswers
<1>1. PackLoadInv => TruthfulAnswers BY DEF PackLoadInv
<1> QED BY <1>1, PackLoadInvariant, PTL

\* The semaphore's slots are held by downloads and saves, and given back.
THEOREM SlotsAreExact == LoadSpec => []SlotsAccounted
<1>1. PackLoadInv => SlotsAccounted BY DEF PackLoadInv
<1> QED BY <1>1, PackLoadInvariant, PTL
=============================================================================
