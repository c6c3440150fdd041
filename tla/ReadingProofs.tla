----------------------------- MODULE ReadingProofs -----------------------------
(***************************************************************************)
(* Induction over the items that a loop has read.  The loop and what is    *)
(* proved of it are parameters: a module that needs the lemma for a loop   *)
(* makes an instance with them.                                            *)
(***************************************************************************)
EXTENDS Reading, Integers, FiniteSetTheorems, SequenceTheorems, TLAPS

CONSTANTS
  Read(_, _),       \* the body of the loop
  ReadSoFar(_, _)   \* what holds of the items that were read, and what was made of them

-----------------------------------------------------------------------------

\* Induction up to n, for a set that contains 0 and with k < n also k + 1.
\* Otherwise m is not in the set for some m; the numbers up to m that are not
\* in it could then be mapped one to one to fewer, each to its predecessor.
LEMMA Induction ==
  ASSUME NEW n \in Nat, NEW S, 0 \in S,
         \A k \in 0..n : k < n /\ k \in S => k + 1 \in S
  PROVE  \A k \in 0..n : k \in S
<1> SUFFICES ASSUME NEW m \in 0..n, m \notin S PROVE FALSE OBVIOUS
<1>1. PICK F : F = {k \in 1..m : k \notin S} OBVIOUS
<1>2. m \in F /\ m \in Nat BY <1>1
<1>3. \A k \in F : k - 1 \in F
  <2>1. ASSUME NEW k \in F PROVE k - 1 \in F
    <3>1. k \in 1..m /\ k \notin S BY <1>1
    <3>2. k - 1 \in 0..n /\ k - 1 < n /\ (k - 1) + 1 = k BY <3>1
    <3>3. k - 1 \notin S BY <3>1, <3>2
    <3>4. k - 1 \in 1..m BY <3>1, <3>3
    <3> QED BY <1>1, <3>3, <3>4
  <2> QED BY <2>1
<1>4. IsFiniteSet(1..m) /\ Cardinality(1..m) = m BY <1>2, FS_Interval
<1>5. IsFiniteSet(F) BY <1>1, <1>4, FS_Subset
<1>6. PICK T : T = F \ {m} OBVIOUS
<1>7. IsFiniteSet(T) /\ Cardinality(T) = Cardinality(F) - 1 BY <1>2, <1>5, <1>6, FS_RemoveElement
<1>8. PICK f : f = [k \in F |-> k - 1] OBVIOUS
<1>9. f \in Injection(F, T)
  <2>1. \A k \in F : k \in 1..m /\ k - 1 # m BY <1>1, <1>2
  <2>2. f \in [F -> T] BY <1>3, <1>6, <1>8, <2>1
  <2>3. \A a, b \in F : f[a] = f[b] => a = b BY <1>8, <2>1
  <2> QED BY <2>2, <2>3 DEF Injection, IsInjective
<1>10. Cardinality(F) <= Cardinality(T) BY <1>7, <1>9, FS_Injection
<1>11. Cardinality(F) \in Nat BY <1>5, FS_CardinalityType
<1> QED BY <1>7, <1>10, <1>11

\* What was read after item i, given what was read before it.
Extended(items, i, before) == UNION {Read(acc, items[i]) : acc \in before}

\* r lists what was read after each of the first n items.
Lists(r, items, n, start) ==
  r[0] = {start} /\ \A i \in 1..n : r[i] = Extended(items, i, r[i - 1])

\* There is such a list.
LEMMA ReadingExists ==
  ASSUME NEW items, NEW n \in Nat, NEW start
  PROVE  \E r : Lists(r, items, n, start)
<1> USE DEF Lists
<1> DEFINE S == {k \in 0..n : \E r : Lists(r, items, k, start)}
<1>1. 0 \in S
  <2>1. PICK r : r = [i \in {0} |-> {start}] OBVIOUS
  <2>2. r[0] = {start} /\ 0 \in 0..n /\ 1..0 = {} BY <2>1
  <2> QED BY <2>2
<1>2. ASSUME NEW k \in 0..n, k < n, k \in S PROVE k + 1 \in S
  <2>0. k \in Nat OBVIOUS
  <2>1. PICK r : Lists(r, items, k, start) BY <1>2
  <2>2. PICK t : t = [i \in 0..(k + 1) |-> IF i = k + 1 THEN Extended(items, k + 1, r[k]) ELSE r[i]]
    OBVIOUS
  <2>3. t[k + 1] = Extended(items, k + 1, r[k]) /\ \A i \in 0..k : t[i] = r[i]
    <3>1. k + 1 \in 0..(k + 1) /\ \A i \in 0..k : i \in 0..(k + 1) /\ i # k + 1 BY <2>0
    <3> QED BY <2>2, <3>1
  <2>4. 0 \in 0..k /\ k \in 0..k /\ (k + 1) - 1 = k /\ k + 1 \in 0..n BY <1>2
  <2>5. ASSUME NEW i \in 1..(k + 1) PROVE t[i] = Extended(items, i, t[i - 1])
    <3>1. CASE i = k + 1 BY <2>3, <2>4, <3>1
    <3>2. CASE i # k + 1
      <4>1. i \in 1..k /\ i \in 0..k /\ i - 1 \in 0..k BY <2>0, <3>2
      <4> QED BY <2>1, <2>3, <4>1
    <3> QED BY <3>1, <3>2
  <2>6. t[0] = {start} BY <2>1, <2>3, <2>4
  <2>7. Lists(t, items, k + 1, start) BY <2>5, <2>6
  <2> QED BY <2>4, <2>7
<1>3. n \in S
  <2> HIDE DEF S
  <2>1. \A k \in 0..n : k \in S BY <1>1, <1>2, Induction
  <2> QED BY <2>1
<1> QED BY <1>3

\* One item more of a sequence.
LEMMA OneMore ==
  ASSUME NEW Items, NEW items \in Seq(Items), NEW k \in Nat, k < Len(items)
  PROVE  /\ SubSeq(items, 1, k) \in Seq(Items)
         /\ items[k + 1] \in Items
         /\ SubSeq(items, 1, k + 1) = Append(SubSeq(items, 1, k), items[k + 1])
<1>1. Len(items) \in Nat /\ \A i \in 1..Len(items) : items[i] \in Items
  BY LenProperties, ElementOfSeq
<1>2. \A i \in 1..(k + 1) : items[i] \in Items BY <1>1
<1>3. k + 1 \in 1..Len(items) /\ k \in Int /\ k + 1 \in Int BY <1>1
<1>4. PICK s : s = SubSeq(items, 1, k) OBVIOUS
<1>5. PICK t : t = SubSeq(items, 1, k + 1) OBVIOUS
<1>6. s \in Seq(Items) /\ Len(s) = k /\ \A i \in 1..k : s[i] = items[i]
  <2>1. \A i \in 1..k : items[i] \in Items BY <1>2
  <2> QED BY <1>3, <1>4, <2>1, SubSeqProperties
<1>7. t \in Seq(Items) /\ Len(t) = k + 1 /\ \A i \in 1..(k + 1) : t[i] = items[i]
  BY <1>2, <1>3, <1>5, SubSeqProperties
<1>8. PICK u : u = Append(s, items[k + 1]) OBVIOUS
<1>9. u \in Seq(Items) /\ Len(u) = k + 1 /\ u[k + 1] = items[k + 1] /\ \A i \in 1..k : u[i] = s[i]
  BY <1>1, <1>3, <1>6, <1>8
<1>10. t = u
  <2>1. \A i \in 1..(k + 1) : t[i] = u[i]
    <3>1. \A i \in 1..(k + 1) : i = k + 1 \/ i \in 1..k OBVIOUS
    <3> QED BY <1>6, <1>7, <1>9, <3>1
  <2> QED BY <1>7, <1>9, <2>1, SeqEqual
<1> QED BY <1>1, <1>3, <1>4, <1>5, <1>6, <1>8, <1>10

\* The loop ends with the last entry of such a list.
LEMMA ReadIsListed ==
  ASSUME NEW items, Len(items) \in Nat, NEW start
  PROVE  \E r : Lists(r, items, Len(items), start) /\ ReadEach(items, start, Read) = r[Len(items)]
<1> DEFINE n == Len(items)
<1>1. PICK q : q = CHOOSE r : r = [i \in 0..n |-> IF i = 0 THEN {start}
                                                 ELSE Extended(items, i, r[i - 1])]
  OBVIOUS
<1>2. ReadEach(items, start, Read) = q[n] BY <1>1 DEF ReadEach, Extended
<1> HIDE DEF n
<1>3. n \in Nat BY DEF n
<1>4. q = [i \in 0..n |-> IF i = 0 THEN {start} ELSE Extended(items, i, q[i - 1])]
  <2>0. PICK t : Lists(t, items, n, start) BY <1>3, ReadingExists
  <2>1. t[0] = {start} /\ \A i \in 1..n : t[i] = Extended(items, i, t[i - 1]) BY <2>0 DEF Lists
  <2>2. PICK r : r = [i \in 0..n |-> t[i]] OBVIOUS
  <2>3. ASSUME NEW i \in 0..n PROVE r[i] = IF i = 0 THEN {start} ELSE Extended(items, i, r[i - 1])
    <3>1. i = 0 \/ (i \in 1..n /\ i - 1 \in 0..n) BY <1>3
    <3> QED BY <2>1, <2>2, <3>1
  <2>4. r = [i \in 0..n |-> IF i = 0 THEN {start} ELSE Extended(items, i, r[i - 1])]
    BY <2>2, <2>3
  <2> QED BY <1>1, <2>4
<1>5. Lists(q, items, n, start)
  <2>1. 0 \in 0..n /\ \A i \in 1..n : i \in 0..n /\ i # 0 BY <1>3
  <2>2. q[0] = {start} BY <1>4, <2>1
  <2>3. ASSUME NEW i \in 1..n PROVE q[i] = Extended(items, i, q[i - 1]) BY <1>4, <2>1
  <2> QED BY <2>2, <2>3 DEF Lists
<1> QED BY <1>2, <1>5 DEF n

\* What holds before the first item, and after one more item if it held before
\* it, holds of what the whole loop has read.
LEMMA ReadInduction ==
  ASSUME NEW Items, NEW items \in Seq(Items), NEW start,
         ReadSoFar(<<>>, {start}),
         \A read \in Seq(Items), item \in Items : \A before :
           ReadSoFar(read, before) =>
             ReadSoFar(Append(read, item), UNION {Read(acc, item) : acc \in before})
  PROVE  ReadSoFar(items, ReadEach(items, start, Read))
<1> DEFINE n == Len(items)
<1>1. n \in Nat BY LenProperties
<1>2. PICK q : Lists(q, items, n, start) /\ ReadEach(items, start, Read) = q[n]
  BY <1>1, ReadIsListed
<1> HIDE DEF n
<1>3. q[0] = {start} /\ \A i \in 1..n : q[i] = Extended(items, i, q[i - 1]) BY <1>2 DEF Lists
<1> DEFINE S == {k \in 0..n : ReadSoFar(SubSeq(items, 1, k), q[k])}
<1>4. 0 \in S
  <2>1. 0 \in 0..n BY <1>1
  <2>2. SubSeq(items, 1, 0) = <<>> BY SubSeqEmpty
  <2> QED BY <1>3, <2>1, <2>2
<1>5. ASSUME NEW k \in 0..n, k < n, k \in S PROVE k + 1 \in S
  <2>1. k \in Nat /\ k + 1 \in 1..n /\ (k + 1) - 1 = k /\ k + 1 \in 0..n BY <1>1, <1>5
  <2>2. PICK read : read = SubSeq(items, 1, k) OBVIOUS
  <2>3. PICK before : before = q[k] OBVIOUS
  <2>4. PICK item : item = items[k + 1] OBVIOUS
  <2>5. read \in Seq(Items) /\ item \in Items /\ SubSeq(items, 1, k + 1) = Append(read, item)
    BY <1>5, <2>1, <2>2, <2>4, OneMore DEF n
  <2>6. ReadSoFar(read, before) BY <1>5, <2>2, <2>3
  <2>7. ReadSoFar(Append(read, item), UNION {Read(acc, item) : acc \in before}) BY <2>5, <2>6
  <2>8. q[k + 1] = UNION {Read(acc, item) : acc \in before}
    BY <1>3, <2>1, <2>3, <2>4 DEF Extended
  <2> QED BY <2>1, <2>5, <2>7, <2>8
<1>6. n \in S
  <2> HIDE DEF S
  <2>1. \A k \in 0..n : k \in S BY <1>1, <1>4, <1>5, Induction
  <2> QED BY <1>1, <2>1
<1>7. SubSeq(items, 1, n) = items BY SubSeqFull DEF n
<1> QED BY <1>2, <1>6, <1>7
=============================================================================
