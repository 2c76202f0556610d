------------------------- MODULE AfsMetadataProofs -------------------------
(***************************************************************************)
(* Proofs about AfsMetadata, for every device, list of free blocks, chain  *)
(* of passphrase hashes and number of replicas: the sorted list and        *)
(* binary_search, the locations of the superblock, and with the invariants *)
(* of AfsLayoutProofs the theorems about crashes and the passive file      *)
(* system.                                                                 *)
(***************************************************************************)
EXTENDS AfsLayoutProofs, FiniteSetTheorems

(***************************************************************************)
(* Induction over numbers: a set of naturals that is not empty has a least *)
(* element.                                                                *)
(***************************************************************************)

\* Every set of naturals with an element has a least one.
LEMMA LeastElement ==
  ASSUME NEW T, T \subseteq Nat, T # {}
  PROVE  \E x \in T : \A y \in T : x <= y
<1> DEFINE R == OpToRel(<, Nat)
<1>1. IsWellFoundedOn(R, Nat)
  BY Zenon, NatLessThanWellFounded
<1>2. \A x, y \in Nat : x < y => <<x, y>> \in R
  BY Zenon DEF OpToRel
<1> HIDE DEF R
<1>3. PICK x \in T : \A y \in T : ~ (<<y, x>> \in R)
  BY Zenon, <1>1, WFMin
<1>4. ASSUME NEW y \in T PROVE x <= y
  <2>1. x \in Nat /\ y \in Nat /\ ~ (<<y, x>> \in R)
    BY Zenon, <1>3
  <2>2. ~ (y < x)
    BY Zenon, <2>1, <1>2
  <2>3. QED
    BY <2>1, <2>2
<1>5. QED
  BY Zenon, <1>4

\* A set that holds 0 and, with each number below n, the next one holds 0 .. n.
LEMMA UpTo ==
  ASSUME NEW T, NEW n \in Nat, 0 \in T,
         \A i \in 0 .. n - 1 : i \in T => i + 1 \in T
  PROVE  \A i \in 0 .. n : i \in T
<1> DEFINE Miss == {i \in 0 .. n : i \notin T}
<1> SUFFICES ASSUME Miss # {} PROVE FALSE
  BY Zenon
<1>1. Miss \subseteq Nat
  OBVIOUS
<1>2. PICK x \in Miss : \A y \in Miss : x <= y
  <2> HIDE DEF Miss
  <2>1. QED
    BY Zenon, <1>1, LeastElement
<1>3. x \in 0 .. n /\ x \notin T /\ x # 0
  BY Zenon, <1>2
<1>4. x - 1 \in 0 .. n - 1 /\ x - 1 \notin Miss
  BY <1>2, <1>3
<1>5. x - 1 \in T
  BY <1>4
<1>6. (x - 1) + 1 \in T
  BY Zenon, <1>4, <1>5
<1>7. QED
  BY <1>3, <1>6

(***************************************************************************)
(* The list of free blocks.                                                *)
(***************************************************************************)

\* How many blocks of S lie in front of n.
Rank(S, n) == Cardinality({m \in S : m < n})

\* The rank of an element is a number below the size of the set and grows with
\* the element.
LEMMA RankFacts ==
  ASSUME NEW S, S \subseteq Nat, IsFiniteSet(S), NEW n \in S
  PROVE  /\ Rank(S, n) \in 0 .. Cardinality(S) - 1
         /\ \A m \in S : m < n => Rank(S, m) < Rank(S, n)
<1> DEFINE Below(x) == {m \in S : m < x}
<1>1. ASSUME NEW x \in S
      PROVE  /\ IsFiniteSet(Below(x)) /\ Cardinality(Below(x)) \in Nat
             /\ x \notin Below(x)
  BY FS_Subset, FS_CardinalityType
<1>2. Cardinality(S) \in Nat
  BY Zenon, FS_CardinalityType
<1>3. Cardinality(Below(n)) < Cardinality(S)
  <2>1. Below(n) \in SUBSET S /\ Below(n) # S
    BY Zenon, <1>1
  <2>2. Cardinality(Below(n)) <= Cardinality(S) /\ Cardinality(Below(n)) # Cardinality(S)
    <3> HIDE DEF Below
    <3>1. QED
      BY Zenon, <2>1, FS_Subset
  <2>3. QED
    BY <2>2, <1>1, <1>2
<1>4. ASSUME NEW m \in S, m < n
      PROVE  Cardinality(Below(m)) < Cardinality(Below(n))
  <2>1. Below(m) \in SUBSET Below(n) /\ m \in Below(n) /\ m \notin Below(m)
    <3>1. m \in Nat /\ n \in Nat
      BY Zenon
    <3>2. \A x \in Nat : x < m => x < n
      BY <3>1, <1>4
    <3>3. Below(m) \subseteq Below(n)
      BY Zenon, <3>2
    <3>4. QED
      BY <3>1, <3>3, <1>4
  <2>2. IsFiniteSet(Below(n)) /\ Cardinality(Below(n)) \in Nat /\ Cardinality(Below(m)) \in Nat
    BY Zenon, <1>1
  <2>3. Below(m) # Below(n)
    BY Zenon, <2>1
  <2>4. Cardinality(Below(m)) <= Cardinality(Below(n)) /\ Cardinality(Below(m)) # Cardinality(Below(n))
    <3> HIDE DEF Below
    <3>1. QED
      BY Zenon, <2>1, <2>2, <2>3, FS_Subset
  <2>5. QED
    BY <2>2, <2>4
<1>5. QED
  BY <1>1, <1>2, <1>3, <1>4 DEF Rank

\* Each position in the list is the rank of one element: rank is an injection
\* between sets of the same size.
LEMMA RankReached ==
  ASSUME NEW S, S \subseteq Nat, IsFiniteSet(S), NEW k \in 0 .. Cardinality(S) - 1
  PROVE  \E n \in S : Rank(S, n) = k
<1> DEFINE Positions == 0 .. Cardinality(S) - 1
           f == [n \in S |-> Rank(S, n)]
<1>1. Cardinality(S) \in Nat
  BY Zenon, FS_CardinalityType
<1>2. \A n \in S : Rank(S, n) \in Positions
  BY Zenon, RankFacts
<1>3. ASSUME NEW m \in S, NEW n \in S, m # n
      PROVE  Rank(S, m) # Rank(S, n)
  <2>1. m \in Nat /\ n \in Nat
    BY Zenon
  <2>2. Rank(S, m) \in Nat /\ Rank(S, n) \in Nat
    BY <1>1, <1>2
  <2>3. m < n => Rank(S, m) < Rank(S, n)
    BY Zenon, RankFacts
  <2>4. n < m => Rank(S, n) < Rank(S, m)
    BY Zenon, RankFacts
  <2>5. QED
    BY <2>1, <2>2, <2>3, <2>4, <1>3
<1>4. f \in Injection(S, Positions)
  <2>1. f \in [S -> Positions]
    BY Zenon, <1>2
  <2>2. \A m, n \in S : f[m] = f[n] => m = n
    BY Zenon, <1>3
  <2> HIDE DEF f, Positions
  <2>3. QED
    BY Zenon, <2>1, <2>2 DEF Injection, IsInjective
<1>5. IsFiniteSet(Positions) /\ Cardinality(Positions) = Cardinality(S)
  <2>1. 0 \in Int /\ Cardinality(S) - 1 \in Int
    BY <1>1
  <2>2. /\ IsFiniteSet(Positions)
        /\ Cardinality(Positions) = IF 0 > Cardinality(S) - 1 THEN 0
                                    ELSE Cardinality(S) - 1 - 0 + 1
    BY Zenon, <2>1, FS_Interval
  <2>3. QED
    BY <1>1, <2>2
<1>6. f \in Surjection(S, Positions)
  <2> HIDE DEF f, Positions
  <2>1. QED
    BY Zenon, <1>4, <1>5, FS_Injection
<1>7. \E n \in S : f[n] = k
  <2>1. k \in Positions
    BY Zenon
  <2> HIDE DEF f, Positions
  <2>2. QED
    BY Zenon, <1>6, <2>1 DEF Surjection
<1>8. QED
  BY Zenon, <1>7

\* BlockList(S) has as many elements as S, each position the element that has
\* this rank; so it is ascending, without repetition, and complete.
LEMMA ListFacts ==
  ASSUME NEW S, S \subseteq Nat, IsFiniteSet(S)
  PROVE  /\ Cardinality(S) \in Nat
         /\ BlockList(S) \in [0 .. Cardinality(S) - 1 -> S]
         /\ \A k \in 0 .. Cardinality(S) - 1 : Rank(S, BlockList(S)[k]) = k
         /\ \A n \in S : /\ Rank(S, n) \in 0 .. Cardinality(S) - 1
                         /\ BlockList(S)[Rank(S, n)] = n
<1> DEFINE Positions == 0 .. Cardinality(S) - 1
           At(k) == CHOOSE n \in S : Rank(S, n) = k
<1>1. Cardinality(S) \in Nat
  BY Zenon, FS_CardinalityType
<1>2. BlockList(S) = [k \in Positions |-> At(k)]
  BY Zenon DEF BlockList, Rank
<1>3. ASSUME NEW k \in Positions
      PROVE  At(k) \in S /\ Rank(S, At(k)) = k
  <2>1. \E n \in S : Rank(S, n) = k
    BY Zenon, RankReached
  <2>2. QED
    BY Zenon, <2>1
<1>4. \A n \in S : Rank(S, n) \in Positions
  BY Zenon, RankFacts
<1>5. ASSUME NEW n \in S
      PROVE  At(Rank(S, n)) = n
  <2> DEFINE m == At(Rank(S, n))
  <2>1. m \in S /\ Rank(S, m) = Rank(S, n)
    BY Zenon, <1>3, <1>4
  <2> HIDE DEF m
  <2>2. m \in Nat /\ n \in Nat
    BY Zenon, <2>1
  <2>3. Rank(S, n) \in Nat
    BY <1>1, <1>4
  <2>4. (m < n => Rank(S, m) < Rank(S, n)) /\ (n < m => Rank(S, n) < Rank(S, m))
    BY Zenon, <2>1, RankFacts
  <2>5. m = n
    BY <2>1, <2>2, <2>3, <2>4
  <2>6. QED
    BY Zenon, <2>5 DEF m
<1> HIDE DEF At, Positions
<1>6. /\ BlockList(S) \in [Positions -> S]
      /\ \A k \in Positions : BlockList(S)[k] = At(k)
  BY Zenon, <1>2, <1>3
<1>7. QED
  BY Zenon, <1>1, <1>3, <1>4, <1>5, <1>6 DEF Positions

\* The list is ascending.
LEMMA ListAscends ==
  ASSUME NEW S, S \subseteq Nat, IsFiniteSet(S),
         NEW i \in 0 .. Cardinality(S) - 1, NEW k \in 0 .. Cardinality(S) - 1, i < k
  PROVE  BlockList(S)[i] < BlockList(S)[k]
<1> DEFINE a == BlockList(S)[i]
           b == BlockList(S)[k]
<1>1. a \in S /\ b \in S /\ Rank(S, a) = i /\ Rank(S, b) = k
  BY Zenon, ListFacts
<1> HIDE DEF a, b
<1>2. b < a => Rank(S, b) < Rank(S, a)
  BY Zenon, <1>1, RankFacts
<1>3. a \in Nat /\ b \in Nat /\ i \in Nat /\ k \in Nat /\ a # b /\ ~ (b < a)
  BY <1>1, <1>2, FS_CardinalityType
<1>4. a < b
  BY <1>3
<1>5. QED
  BY Zenon, <1>4 DEF a, b

(***************************************************************************)
(* binary_search.                                                          *)
(***************************************************************************)

Ranges(n) == (0 .. n) \X (-1 .. n - 1)

Middle(r) == (r[1] + r[2]) \div 2

Length(r) == r[2] - r[1] + 1

\* One turn of the loop of binary_search on range r; s has the answers for the
\* shorter ranges.
Probe(a, v, s, r) ==
  IF r[1] > r[2] THEN -1
  ELSE IF a[Middle(r)] = v THEN Middle(r)
  ELSE IF a[Middle(r)] < v THEN s[<<Middle(r) + 1, r[2]>>]
  ELSE s[<<r[1], Middle(r) - 1>>]

\* The two halves of a range that is not empty are shorter ranges.
LEMMA Halves ==
  ASSUME NEW n \in Nat, NEW r \in Ranges(n), r[1] <= r[2]
  PROVE  /\ Middle(r) \in 0 .. n - 1 /\ r[1] <= Middle(r) /\ Middle(r) <= r[2]
         /\ <<Middle(r) + 1, r[2]>> \in Ranges(n)
         /\ <<r[1], Middle(r) - 1>> \in Ranges(n)
         /\ Length(<<Middle(r) + 1, r[2]>>) < Length(r)
         /\ Length(<<r[1], Middle(r) - 1>>) < Length(r)
<1>1. PICK x \in 0 .. n, y \in -1 .. n - 1 : r = <<x, y>>
  BY DEF Ranges
<1>2. x <= y /\ Middle(r) = (x + y) \div 2 /\ r[1] = x /\ r[2] = y
  BY Zenon, <1>1 DEF Middle
<1>3. Middle(r) \in Int /\ x <= Middle(r) /\ Middle(r) <= y
  BY <1>2
<1>4. QED
  BY <1>2, <1>3 DEF Ranges, Length

\* One turn on a range stays in the type when the answers for shorter ones do,
\* and depends on nothing else.
LEMMA ProbeLocal ==
  ASSUME NEW a, NEW v, NEW n \in Nat, NEW r \in Ranges(n),
         NEW s \in [Ranges(n) -> -1 .. n - 1], NEW t,
         \A q \in Ranges(n) : Length(q) < Length(r) => t[q] = s[q]
  PROVE  /\ Probe(a, v, s, r) \in -1 .. n - 1
         /\ Probe(a, v, t, r) = Probe(a, v, s, r)
<1>1. CASE r[1] > r[2]
  BY <1>1 DEF Probe
<1>2. CASE ~ (r[1] > r[2])
  <2>1. r[1] <= r[2]
    BY <1>2 DEF Ranges
  <2> DEFINE right == <<Middle(r) + 1, r[2]>>
             left  == <<r[1], Middle(r) - 1>>
  <2>2. /\ Middle(r) \in 0 .. n - 1 /\ right \in Ranges(n) /\ left \in Ranges(n)
        /\ Length(right) < Length(r) /\ Length(left) < Length(r)
    BY Zenon, <2>1, Halves
  <2> HIDE DEF left, right
  <2>3. /\ t[right] = s[right] /\ t[left] = s[left]
        /\ s[right] \in -1 .. n - 1 /\ s[left] \in -1 .. n - 1
    BY Zenon, <2>2
  <2>4. QED
    BY <1>2, <2>2, <2>3 DEF Probe, left, right
<1>3. QED
  BY Zenon, <1>1, <1>2

\* There are answers that satisfy the recursion on ranges of up to n elements.
LEMMA SearchExists ==
  ASSUME NEW a, NEW v, NEW n \in Nat
  PROVE  \E s \in [Ranges(n) -> -1 .. n - 1] :
           s = [r \in Ranges(n) |-> Probe(a, v, s, r)]
<1> DEFINE Upto(s, l) == \A r \in Ranges(n) : Length(r) <= l => s[r] = Probe(a, v, s, r)
           T == {l \in 0 .. n : \E s \in [Ranges(n) -> -1 .. n - 1] : Upto(s, l)}
<1>1. 0 \in T
  <2> DEFINE s == [r \in Ranges(n) |-> -1]
  <2>1. s \in [Ranges(n) -> -1 .. n - 1]
    OBVIOUS
  <2>2. ASSUME NEW r \in Ranges(n), Length(r) <= 0 PROVE s[r] = Probe(a, v, s, r)
    <3>1. r[1] > r[2]
      BY <2>2 DEF Ranges, Length
    <3>2. QED
      BY Zenon, <3>1 DEF Probe
  <2>3. QED
    BY <2>1, <2>2
<1>2. ASSUME NEW l \in 0 .. n - 1, l \in T PROVE l + 1 \in T
  <2>1. PICK s \in [Ranges(n) -> -1 .. n - 1] : Upto(s, l)
    BY Zenon, <1>2
  <2> DEFINE t == [r \in Ranges(n) |-> IF Length(r) <= l THEN s[r] ELSE Probe(a, v, s, r)]
  <2>2. \A r \in Ranges(n) : Length(r) \in Int
    BY DEF Ranges, Length
  <2>3. \A r \in Ranges(n) : Probe(a, v, s, r) \in -1 .. n - 1
    <3> TAKE r \in Ranges(n)
    <3>1. QED
      BY Zenon, ProbeLocal
  <2>4. t \in [Ranges(n) -> -1 .. n - 1]
    BY Zenon, <2>3
  <2>5. ASSUME NEW r \in Ranges(n), Length(r) <= l + 1 PROVE t[r] = Probe(a, v, t, r)
    <3>1. t[r] = Probe(a, v, s, r)
      BY Zenon, <2>1
    <3>2. \A q \in Ranges(n) : Length(q) < Length(r) => t[q] = s[q]
      BY <2>2, <2>5
    <3> HIDE DEF t
    <3>3. Probe(a, v, t, r) = Probe(a, v, s, r)
      BY Zenon, <3>2, ProbeLocal
    <3>4. QED
      BY Zenon, <3>1, <3>3
  <2>6. Upto(t, l + 1)
    BY Zenon, <2>5
  <2>7. l + 1 \in 0 .. n
    OBVIOUS
  <2> HIDE DEF t, Upto
  <2>8. QED
    BY Zenon, <2>4, <2>6, <2>7
<1>3. n \in T
  <2> HIDE DEF T
  <2>1. \A i \in 0 .. n : i \in T
    BY Zenon, <1>1, <1>2, UpTo
  <2>2. QED
    BY <2>1
<1>4. PICK s \in [Ranges(n) -> -1 .. n - 1] : Upto(s, n)
  BY Zenon, <1>3
<1>5. \A r \in Ranges(n) : Length(r) <= n
  BY DEF Ranges, Length
<1>6. \A r \in Ranges(n) : s[r] = Probe(a, v, s, r)
  BY Zenon, <1>4, <1>5
<1>7. s = [r \in Ranges(n) |-> Probe(a, v, s, r)]
  BY Zenon, <1>6
<1>8. QED
  BY Zenon, <1>7

\* binary_search is the answer for the whole array of such answers.
LEMMA SearchUnfolds ==
  ASSUME NEW a, NEW v, NEW n \in Nat
  PROVE  \E s : /\ \A r \in Ranges(n) : s[r] = Probe(a, v, s, r)
                /\ binary_search(a, v, n) = s[<<0, n - 1>>]
<1> DEFINE Answers(s) == s = [r \in Ranges(n) |-> Probe(a, v, s, r)]
           search == CHOOSE s : Answers(s)
<1>1. binary_search(a, v, n) = search[<<0, n - 1>>]
  BY Zenon DEF binary_search, Ranges, Probe, Middle
<1>2. \E s : Answers(s)
  <2>1. PICK s \in [Ranges(n) -> -1 .. n - 1] : Answers(s)
    BY Zenon, SearchExists
  <2> HIDE DEF Answers
  <2>2. QED
    BY Zenon, <2>1
<1>3. Answers(search)
  <2> HIDE DEF Answers
  <2>1. QED
    BY Zenon, <1>2
<1> HIDE DEF search
<1>4. \A r \in Ranges(n) : search[r] = Probe(a, v, search, r)
  BY Zenon, <1>3
<1>5. QED
  BY Zenon, <1>1, <1>4

\* What binary_search (dm_afs_metadata.c:18) promises: on an array in ascending
\* order it returns the index of the value, and -1 only if the value is not there.
THEOREM BinarySearchRight ==
  ASSUME NEW n \in Nat, NEW a \in [0 .. n - 1 -> Int], NEW v \in Int,
         \A i, j \in 0 .. n - 1 : i < j => a[i] < a[j]
  PROVE  LET found == binary_search(a, v, n)
         IN IF \E i \in 0 .. n - 1 : a[i] = v
            THEN found \in 0 .. n - 1 /\ a[found] = v
            ELSE found = -1
<1>1. PICK s : /\ \A r \in Ranges(n) : s[r] = Probe(a, v, s, r)
               /\ binary_search(a, v, n) = s[<<0, n - 1>>]
  BY Zenon, SearchUnfolds
<1> DEFINE Right(r) == IF \E i \in r[1] .. r[2] : a[i] = v
                       THEN s[r] \in r[1] .. r[2] /\ a[s[r]] = v
                       ELSE s[r] = -1
           T == {l \in 0 .. n : \A r \in Ranges(n) : Length(r) <= l => Right(r)}
<1>2. 0 \in T
  <2>1. ASSUME NEW r \in Ranges(n), Length(r) <= 0 PROVE Right(r)
    <3>1. r[1] \in Int /\ r[2] \in Int /\ r[1] > r[2]
      BY <2>1 DEF Ranges, Length
    <3>2. s[r] = -1
      BY Zenon, <3>1, <1>1 DEF Probe
    <3>3. QED
      BY <3>1, <3>2
  <2>2. QED
    BY <2>1
<1>3. ASSUME NEW l \in 0 .. n - 1, l \in T PROVE l + 1 \in T
  <2>1. ASSUME NEW r \in Ranges(n), Length(r) <= l + 1 PROVE Right(r)
    <3>1. CASE Length(r) <= 0
      BY Zenon, <3>1, <1>2
    <3>2. CASE ~ (Length(r) <= 0)
      <4>1. r[1] \in 0 .. n /\ r[2] \in -1 .. n - 1 /\ r[1] <= r[2]
        BY <3>2 DEF Ranges, Length
      <4> DEFINE m == Middle(r)
                 right == <<m + 1, r[2]>>
                 left  == <<r[1], m - 1>>
      <4>2. /\ m \in 0 .. n - 1 /\ r[1] <= m /\ m <= r[2]
            /\ right \in Ranges(n) /\ left \in Ranges(n)
            /\ Length(right) < Length(r) /\ Length(left) < Length(r)
        BY Zenon, <4>1, Halves
      <4>3. s[r] = IF a[m] = v THEN m ELSE IF a[m] < v THEN s[right] ELSE s[left]
        BY <4>1, <1>1 DEF Probe
      <4>4. Length(r) \in Int /\ Length(right) \in Int /\ Length(left) \in Int
        <5>1. \A q \in Ranges(n) : Length(q) \in Int
          BY DEF Ranges, Length
        <5> HIDE DEF right, left
        <5>2. QED
          BY Zenon, <5>1, <4>2
      <4>5. Right(right) /\ Right(left)
        <5>1. \A q \in Ranges(n) : Length(q) <= l => Right(q)
          BY Zenon, <1>3
        <5> HIDE DEF right, left, Right
        <5>2. QED
          BY <5>1, <4>2, <4>4, <2>1
      <4> HIDE DEF m
      <4>6. CASE a[m] = v
        BY <4>6, <4>3, <4>2, <4>1
      <4>7. CASE a[m] < v
        <5>1. ASSUME NEW i \in r[1] .. r[2], a[i] = v PROVE i \in m + 1 .. r[2]
          <6>0. i \in 0 .. n - 1 /\ m \in 0 .. n - 1
            <7>1. i \in Int /\ r[1] <= i /\ i <= r[2]
              BY <4>1
            <7>2. i \in 0 .. n - 1
              BY <7>1, <4>1
            <7>3. QED
              BY Zenon, <7>2, <4>2
          <6>1. i \in 0 .. n - 1 /\ a[i] \in Int /\ a[m] \in Int
            BY Zenon, <6>0
          <6>2. ~ (i < m)
            <7>1. i < m => a[i] < a[m]
              BY Zenon, <6>1, <4>2
            <7>2. i \in Int /\ m \in Int
              BY <6>1, <4>2
            <7>3. QED
              BY <6>1, <7>1, <7>2, <4>7, <5>1
          <6>3. i # m
            BY <6>1, <4>7, <5>1
          <6>4. QED
            BY <6>1, <6>2, <6>3, <4>1, <4>2
        <5>2. s[r] = s[right]
          BY <4>7, <4>3, <4>2
        <5>3. (m + 1) .. r[2] \subseteq r[1] .. r[2]
          BY <4>1, <4>2
        <5>4. QED
          BY Zenon, <5>1, <5>2, <5>3, <4>5
      <4>8. CASE a[m] > v
        <5>1. ASSUME NEW i \in r[1] .. r[2], a[i] = v PROVE i \in r[1] .. m - 1
          <6>0. i \in 0 .. n - 1 /\ m \in 0 .. n - 1
            <7>1. i \in Int /\ r[1] <= i /\ i <= r[2]
              BY <4>1
            <7>2. i \in 0 .. n - 1
              BY <7>1, <4>1
            <7>3. QED
              BY Zenon, <7>2, <4>2
          <6>1. i \in 0 .. n - 1 /\ a[i] \in Int /\ a[m] \in Int
            BY Zenon, <6>0
          <6>2. ~ (i > m)
            <7>1. m < i => a[m] < a[i]
              BY Zenon, <6>1, <4>2
            <7>2. i \in Int /\ m \in Int
              BY <6>1, <4>2
            <7>3. QED
              BY <6>1, <7>1, <7>2, <4>8, <5>1
          <6>3. i # m
            BY <6>1, <4>8, <5>1
          <6>4. QED
            BY <6>1, <6>2, <6>3, <4>1, <4>2
        <5>2. s[r] = s[left]
          BY <4>8, <4>3, <4>2
        <5>3. r[1] .. (m - 1) \subseteq r[1] .. r[2]
          BY <4>1, <4>2
        <5>4. QED
          BY Zenon, <5>1, <5>2, <5>3, <4>5
      <4>9. QED
        BY <4>2, <4>6, <4>7, <4>8
    <3>3. QED
      BY Zenon, <3>1, <3>2
  <2>2. QED
    BY <2>1
<1>4. \A i \in 0 .. n : i \in T
  <2> HIDE DEF T
  <2>1. QED
    BY Zenon, <1>2, <1>3, UpTo
<1>5. <<0, n - 1>> \in Ranges(n) /\ Length(<<0, n - 1>>) = n
  BY DEF Ranges, Length
<1>6. Right(<<0, n - 1>>)
  <2>1. \A r \in Ranges(n) : Length(r) <= n => Right(r)
    BY <1>4
  <2> HIDE DEF Right
  <2>2. QED
    BY <2>1, <1>5
<1>7. QED
  BY Zenon, <1>1, <1>6

(***************************************************************************)
(* The locations of the superblock.                                        *)
(***************************************************************************)

\* A function into a set is one into a larger set.
LEMMA Widen ==
  ASSUME NEW D, NEW S, NEW T, S \subseteq T, NEW f \in [D -> S]
  PROVE  f \in [D -> T]
BY Zenon

\* A block is found in the list of a set exactly if it is in the set.
LEMMA FoundFacts ==
  ASSUME NEW S, S \subseteq Nat, IsFiniteSet(S), NEW n \in Nat
  PROVE  Found(BlockList(S), n) <=> n \in S
<1> DEFINE c == Cardinality(S)
           a == BlockList(S)
<1>1. /\ c \in Nat /\ a \in [0 .. c - 1 -> S]
      /\ \A x \in S : Rank(S, x) \in 0 .. c - 1 /\ a[Rank(S, x)] = x
  BY Zenon, ListFacts
<1>2. \A i, j \in 0 .. c - 1 : i < j => a[i] < a[j]
  BY Zenon, ListAscends
<1> HIDE DEF c, a
<1>3. Cardinality(DOMAIN a) = c
  <2>1. DOMAIN a = 0 .. c - 1 /\ 0 \in Int /\ c - 1 \in Int
    BY <1>1
  <2>2. Cardinality(0 .. c - 1) = IF 0 > c - 1 THEN 0 ELSE c - 1 - 0 + 1
    BY Zenon, <2>1, FS_Interval
  <2>3. QED
    BY <1>1, <2>1, <2>2
<1>4. a \in [0 .. c - 1 -> Int]
  <2>1. S \subseteq Int
    OBVIOUS
  <2>2. a \in [0 .. c - 1 -> S]
    BY Zenon, <1>1
  <2>3. QED
    BY Zenon, <2>1, <2>2, Widen
<1>5. IF \E i \in 0 .. c - 1 : a[i] = n
      THEN binary_search(a, n, c) \in 0 .. c - 1 /\ a[binary_search(a, n, c)] = n
      ELSE binary_search(a, n, c) = -1
  <2>1. n \in Int
    OBVIOUS
  <2>2. QED
    BY Zenon, <1>1, <1>2, <1>4, <2>1, BinarySearchRight
<1>6. (\E i \in 0 .. c - 1 : a[i] = n) <=> n \in S
  BY Zenon, <1>1
<1>7. Found(a, n) <=> binary_search(a, n, c) # -1
  BY Zenon, <1>3 DEF Found
<1>8. (\E i \in 0 .. c - 1 : a[i] = n) <=> binary_search(a, n, c) # -1
  BY <1>1, <1>5
<1>9. QED
  BY Zenon, <1>6, <1>7, <1>8 DEF a

\* Every remainder is met within one turn of the chain.
LEMMA ChainTurn ==
  ASSUME NEW p \in Nat, NEW c \in 0 .. ChainLen - 1
  PROVE  \E q \in p .. p + ChainLen - 1 : q % ChainLen = c
<1>1. ChainLen \in Nat \ {0}
  BY Zenon, SizesAssumption
<1> DEFINE d == p % ChainLen
           e == p \div ChainLen
<1>2. d \in 0 .. ChainLen - 1 /\ e \in Nat /\ p = e * ChainLen + d
  <2>1. e \in Nat /\ d = p - e * ChainLen /\ d \in 0 .. ChainLen - 1
    BY Zenon, <1>1, DivisionFacts
  <2> HIDE DEF d, e
  <2>2. e * ChainLen \in Nat
    BY <1>1, <2>1
  <2>3. QED
    BY <2>1, <2>2
<1> HIDE DEF d, e
<1>3. \A k \in Nat : (k * ChainLen + c) % ChainLen = c
  <2> TAKE k \in Nat
  <2>1. QED
    BY Zenon, <1>1, Remainder
<1>4. e * ChainLen \in Nat /\ (e + 1) * ChainLen = e * ChainLen + ChainLen
  BY <1>1, <1>2
<1>5. CASE c >= d
  <2>1. e * ChainLen + c \in p .. p + ChainLen - 1
    BY <1>1, <1>2, <1>4, <1>5
  <2>2. QED
    BY Zenon, <2>1, <1>2, <1>3
<1>6. CASE c < d
  <2>1. (e + 1) * ChainLen + c \in p .. p + ChainLen - 1
    BY <1>1, <1>2, <1>4, <1>6
  <2>2. e + 1 \in Nat
    BY <1>2
  <2>3. QED
    BY Zenon, <2>1, <2>2, <1>3
<1>7. QED
  BY <1>2, <1>5, <1>6

\* If the chain has a listed location at all, rehashing ends at the first one.
LEMMA NextListedFacts ==
  ASSUME NEW lst, NEW p \in Nat, SomeListed(lst)
  PROVE  LET q == NextListed(lst, p)
         IN /\ q \in Nat /\ p <= q
            /\ Found(lst, Chain[q % ChainLen])
            /\ \A r \in p .. q - 1 : ~ Found(lst, Chain[r % ChainLen])
<1> DEFINE Hit(q) == Found(lst, Chain[q % ChainLen])
           T == {q \in p .. p + ChainLen - 1 : Hit(q)}
           Next1(q) == Hit(q) /\ \A r \in p .. q - 1 : ~ Hit(r)
<1>1. T # {}
  <2>1. PICK c \in DOMAIN Chain : Found(lst, Chain[c])
    BY Zenon DEF SomeListed
  <2>2. c \in 0 .. ChainLen - 1
    BY Zenon, DeviceAssumption
  <2>3. PICK q \in p .. p + ChainLen - 1 : q % ChainLen = c
    BY Zenon, <2>2, ChainTurn
  <2>4. Hit(q)
    BY Zenon, <2>1, <2>3
  <2> HIDE DEF Hit
  <2>5. QED
    BY Zenon, <2>3, <2>4
<1>2. ChainLen \in Nat
  BY Zenon, SizesAssumption
<1> HIDE DEF Hit
<1>3. T \subseteq Nat
  BY <1>2
<1>4. PICK x \in T : \A y \in T : x <= y
  <2> HIDE DEF T
  <2>1. QED
    BY Zenon, <1>1, <1>3, LeastElement
<1>5. x \in p .. p + ChainLen - 1 /\ Next1(x)
  <2>1. x \in p .. p + ChainLen - 1 /\ Hit(x)
    BY Zenon, <1>4
  <2>2. ASSUME NEW r \in p .. x - 1 PROVE ~ Hit(r)
    <3>1. r \in p .. p + ChainLen - 1 /\ ~ (x <= r)
      BY <2>1, <1>2
    <3>2. QED
      BY Zenon, <3>1, <1>4
  <2>3. QED
    BY Zenon, <2>1, <2>2
<1> DEFINE q == CHOOSE q \in p .. p + ChainLen - 1 : Next1(q)
<1>6. q = NextListed(lst, p)
  BY Zenon DEF NextListed, Hit
<1> HIDE DEF Next1
<1>7. q \in p .. p + ChainLen - 1 /\ Next1(q)
  BY Zenon, <1>5
<1> HIDE DEF q
<1>8. q \in Nat /\ p <= q /\ Hit(q) /\ \A r \in p .. q - 1 : ~ Hit(r)
  BY <1>2, <1>7 DEF Next1
<1>9. QED
  BY Zenon, <1>6, <1>8 DEF Hit

\* Where the search for replica i begins when position holds those before it.
From(position, i) == IF i = 0 THEN 0 ELSE position[i - 1] + 1

\* There are positions in the chain for all replicas.
LEMMA PositionsExist ==
  ASSUME NEW lst, SomeListed(lst)
  PROVE  \E f \in [Replicas -> Nat] :
           f = [i \in Replicas |-> NextListed(lst, From(f, i))]
<1> DEFINE n == NUM_SUPERBLOCK_REPLICAS
           Upto(f, l) == \A i \in Replicas : i <= l => f[i] = NextListed(lst, From(f, i))
           T == {l \in 0 .. n - 1 : \E f \in [Replicas -> Nat] : Upto(f, l)}
<1>1. n \in Nat \ {0} /\ Replicas = 0 .. n - 1
  BY Zenon, SizesAssumption DEF Replicas
<1>2. \A p \in Nat : NextListed(lst, p) \in Nat
  <2> TAKE p \in Nat
  <2>1. QED
    BY Zenon, NextListedFacts
<1> HIDE DEF n
<1>3. 0 \in T
  <2> DEFINE f == [i \in Replicas |-> NextListed(lst, 0)]
  <2>1. f \in [Replicas -> Nat]
    BY Zenon, <1>2
  <2>2. ASSUME NEW i \in Replicas, i <= 0 PROVE f[i] = NextListed(lst, From(f, i))
    <3>1. i = 0
      BY <1>1, <2>2
    <3>2. QED
      BY Zenon, <3>1 DEF From
  <2>3. QED
    BY <1>1, <2>1, <2>2
<1>4. ASSUME NEW l \in 0 .. (n - 1) - 1, l \in T PROVE l + 1 \in T
  <2>1. PICK f \in [Replicas -> Nat] : Upto(f, l)
    BY Zenon, <1>4
  <2>2. l + 1 \in Replicas /\ l \in Replicas /\ l + 1 # 0 /\ (l + 1) - 1 = l
    BY <1>1
  <2> DEFINE g == [f EXCEPT ![l + 1] = NextListed(lst, f[l] + 1)]
  <2>3. g \in [Replicas -> Nat]
    BY <1>2, <2>2
  <2>4. ASSUME NEW i \in Replicas, i <= l PROVE g[i] = NextListed(lst, From(g, i))
    <3>1. g[i] = f[i] /\ (i # 0 => i - 1 \in Replicas /\ g[i - 1] = f[i - 1])
      BY <1>1, <2>2, <2>4
    <3> HIDE DEF g
    <3>2. From(g, i) = From(f, i)
      BY Zenon, <3>1 DEF From
    <3>3. QED
      BY Zenon, <3>1, <3>2, <2>1, <2>4
  <2>5. g[l + 1] = NextListed(lst, From(g, l + 1))
    <3>1. g[l + 1] = NextListed(lst, f[l] + 1) /\ g[l] = f[l]
      BY <2>2
    <3> HIDE DEF g
    <3>2. From(g, l + 1) = f[l] + 1
      BY Zenon, <2>2, <3>1 DEF From
    <3>3. QED
      BY Zenon, <3>1, <3>2
  <2> HIDE DEF g
  <2>6. Upto(g, l + 1)
    <3>1. \A i \in Replicas : i <= l + 1 => i <= l \/ i = l + 1
      BY <1>1
    <3>2. QED
      BY Zenon, <3>1, <2>4, <2>5
  <2>7. l + 1 \in 0 .. n - 1
    BY <1>1
  <2> HIDE DEF Upto
  <2>8. QED
    BY Zenon, <2>3, <2>6, <2>7
<1>5. n - 1 \in T
  <2> HIDE DEF T
  <2>1. n - 1 \in Nat
    BY <1>1
  <2>2. \A i \in 0 .. n - 1 : i \in T
    BY Zenon, <2>1, <1>3, <1>4, UpTo
  <2>3. QED
    BY <2>1, <2>2
<1>6. PICK f \in [Replicas -> Nat] : Upto(f, n - 1)
  BY Zenon, <1>5
<1>7. \A i \in Replicas : f[i] = NextListed(lst, From(f, i))
  BY <1>1, <1>6
<1>8. f = [i \in Replicas |-> NextListed(lst, From(f, i))]
  BY Zenon, <1>7
<1>9. QED
  BY Zenon, <1>8

\* Each location of the superblock is a block of the device that is in the list;
\* the first one is the first listed location of the chain.
LEMMA SbBlockFacts ==
  ASSUME NEW lst, SomeListed(lst), NEW j \in Replicas
  PROVE  /\ SbBlock(lst, j) \in Device
         /\ Found(lst, SbBlock(lst, j))
         /\ SbBlock(lst, 0) = Chain[NextListed(lst, 0) % ChainLen]
<1> DEFINE Places(f) == f = [i \in Replicas |-> NextListed(lst, From(f, i))]
           position == CHOOSE f : Places(f)
<1>1. \A i : SbBlock(lst, i) = Chain[position[i] % ChainLen]
  BY Zenon DEF SbBlock, From
<1>2. \E f : Places(f)
  <2>1. PICK f \in [Replicas -> Nat] : Places(f)
    BY Zenon, PositionsExist
  <2> HIDE DEF Places
  <2>2. QED
    BY Zenon, <2>1
<1>3. Places(position)
  <2> HIDE DEF Places
  <2>1. QED
    BY Zenon, <1>2
<1> HIDE DEF position
<1>4. \A i \in Replicas : position[i] = NextListed(lst, From(position, i))
  BY Zenon, <1>3
<1>5. 0 \in Replicas /\ NUM_SUPERBLOCK_REPLICAS \in Nat \ {0} /\ ChainLen \in Nat \ {0}
  BY SizesAssumption DEF Replicas
<1>6. position[0] = NextListed(lst, 0)
  BY Zenon, <1>4, <1>5 DEF From
<1> DEFINE T == {i \in Replicas : position[i] \in Nat}
<1>7. \A i \in Replicas : position[i] \in Nat
  <2>1. 0 \in T
    <3>1. NextListed(lst, 0) \in Nat
      BY Zenon, NextListedFacts
    <3>2. QED
      BY Zenon, <3>1, <1>5, <1>6
  <2>2. ASSUME NEW i \in 0 .. (NUM_SUPERBLOCK_REPLICAS - 1) - 1, i \in T PROVE i + 1 \in T
    <3>1. i + 1 \in Replicas /\ i + 1 # 0 /\ (i + 1) - 1 = i
      BY <1>5 DEF Replicas
    <3>2. position[i + 1] = NextListed(lst, position[i] + 1)
      BY Zenon, <1>4, <3>1 DEF From
    <3>3. position[i] + 1 \in Nat
      BY <2>2
    <3>4. NextListed(lst, position[i] + 1) \in Nat
      BY Zenon, <3>3, NextListedFacts
    <3>5. QED
      BY Zenon, <3>1, <3>2, <3>4
  <2>3. NUM_SUPERBLOCK_REPLICAS - 1 \in Nat
    BY <1>5
  <2> HIDE DEF T
  <2>4. \A i \in 0 .. NUM_SUPERBLOCK_REPLICAS - 1 : i \in T
    BY Zenon, <2>1, <2>2, <2>3, UpTo
  <2>5. Replicas \subseteq T
    BY Zenon, <2>4 DEF Replicas
  <2>6. QED
    BY Zenon, <2>5 DEF T
<1>8. \E p \in Nat : position[j] = NextListed(lst, p)
  <2>1. CASE j = 0
    BY Zenon, <2>1, <1>6
  <2>2. CASE j # 0
    <3>1. j - 1 \in Replicas /\ position[j] = NextListed(lst, position[j - 1] + 1)
      BY <2>2, <1>4, <1>5 DEF Replicas, From
    <3>2. position[j - 1] + 1 \in Nat
      BY <3>1, <1>7
    <3>3. QED
      BY Zenon, <3>1, <3>2
  <2>3. QED
    BY Zenon, <2>1, <2>2
<1>9. Found(lst, Chain[position[j] % ChainLen])
  <2>1. PICK p \in Nat : position[j] = NextListed(lst, p)
    BY Zenon, <1>8
  <2>2. QED
    BY Zenon, <2>1, NextListedFacts
<1>10. Chain[position[j] % ChainLen] \in Device
  <2>1. position[j] % ChainLen \in 0 .. ChainLen - 1
    BY Zenon, <1>5, <1>7, DivisionFacts
  <2>2. QED
    BY Zenon, <2>1, DeviceAssumption
<1>11. QED
  BY Zenon, <1>1, <1>6, <1>9, <1>10

\* The sets of blocks a list is made of.
LEMMA FreeFacts ==
  ASSUME NEW S, S \subseteq Free
  PROVE  S \subseteq Nat /\ IsFiniteSet(S) /\ Cardinality(S) \in Nat
         /\ Cardinality(S) <= DeviceSize
<1>1. DeviceSize \in Nat /\ Device = 0 .. DeviceSize - 1 /\ 0 \in Int /\ DeviceSize - 1 \in Int
  BY Sizes DEF Device
<1>2. IsFiniteSet(Device) /\ Cardinality(Device) = DeviceSize
  <2>1. /\ IsFiniteSet(0 .. DeviceSize - 1)
        /\ Cardinality(0 .. DeviceSize - 1) =
             IF 0 > DeviceSize - 1 THEN 0 ELSE DeviceSize - 1 - 0 + 1
    BY Zenon, <1>1, FS_Interval
  <2>2. QED
    BY <2>1, <1>1
<1>3. S \in SUBSET Device
  BY Zenon, DeviceAssumption
<1>4. IsFiniteSet(S) /\ Cardinality(S) <= Cardinality(Device)
  BY Zenon, <1>2, <1>3, FS_Subset
<1>5. S \subseteq Nat
  BY <1>1, <1>3
<1>6. QED
  BY Zenon, <1>2, <1>4, <1>5, FS_CardinalityType

\* The lists of every device are as the sessions need them.
LEMMA ListsRight == ListRight
<1>1. ASSUME NEW S \in SUBSET Free
      PROVE  /\ BlockList(S) \in [DOMAIN BlockList(S) -> S]
             /\ DOMAIN BlockList(S) \subseteq Device
  <2> DEFINE a == BlockList(S)
             c == Cardinality(S)
  <2>1. c \in Nat /\ c <= DeviceSize /\ a \in [0 .. c - 1 -> S]
    BY Zenon, FreeFacts, ListFacts
  <2> HIDE DEF a, c
  <2>2. DOMAIN a = 0 .. c - 1
    BY Zenon, <2>1
  <2>3. 0 .. c - 1 \subseteq Device
    BY <2>1, Sizes DEF Device
  <2>4. a \in [DOMAIN a -> S] /\ DOMAIN a \subseteq Device
    BY Zenon, <2>1, <2>2, <2>3
  <2>5. QED
    BY Zenon, <2>4 DEF a
<1>2. ASSUME NEW S \in SUBSET Free, SomeListed(BlockList(S)), NEW j \in Replicas
      PROVE  SbBlock(BlockList(S), j) \in Device
  <2> DEFINE lst == BlockList(S)
  <2>1. SomeListed(lst)
    BY Zenon, <1>2
  <2> HIDE DEF lst
  <2>2. SbBlock(lst, j) \in Device
    BY Zenon, <2>1, <1>2, SbBlockFacts
  <2>3. QED
    BY Zenon, <2>2 DEF lst
<1>3. ASSUME NEW k \in DOMAIN BlockList(Free), NEW l \in DOMAIN BlockList(Free),
             BlockList(Free)[k] = BlockList(Free)[l]
      PROVE  k = l
  <2> DEFINE a == BlockList(Free)
             c == Cardinality(Free)
  <2>1. /\ a \in [0 .. c - 1 -> Free]
        /\ \A i \in 0 .. c - 1 : Rank(Free, a[i]) = i
    BY Zenon, FreeFacts, ListFacts
  <2>2. k \in DOMAIN a /\ l \in DOMAIN a /\ a[k] = a[l]
    BY Zenon, <1>3
  <2> HIDE DEF a, c
  <2>3. Rank(Free, a[k]) = k /\ Rank(Free, a[l]) = l
    BY Zenon, <2>1, <2>2
  <2>4. QED
    BY Zenon, <2>2, <2>3
<1>4. QED
  BY Zenon, <1>1, <1>2, <1>3 DEF ListRight

\* So the layout can be reasoned about on the devices that the theorems name.
LEMMA TheSetting == SmallDevice /\ LocationsListed /\ OneIndirect => Setting
BY Zenon, ListsRight DEF Setting

\* The state is of its type in every session of every device: indices of the
\* pointer blocks and slots that write_map_blocks computes exist, and whatever
\* afs_fill_map and rebuild_ptr_blocks read, after any change of the list by the
\* passive file system, is a number or an entry.
THEOREM TypeCorrect == Spec => []TypeOK
<1>1. TypeInv => TypeOK
  BY Zenon DEF TypeInv
<1>2. TypeInv /\ [Next]_vars => TypeInv'
  BY Zenon, ListsRight, NextTyped
<1>3. QED
  BY <1>1, InitTyped, <1>2, PTL DEF Spec

\* Wherever a crash interrupts write_super_block, a session or the saving of the
\* map by afs_dtr, find_super_block finds the device again and loads for each
\* block the entry of the last map saved or of the one being saved.
THEOREM CrashSafe ==
  SmallDevice /\ LocationsListed /\ OneIndirect /\ Spec => []Mountable
<1>1. Setting /\ TypeInv /\ LayoutInv => Mountable
  BY Zenon, NextSession DEF LayoutInv, Mountable, Undisturbed
<1>2. Setting => []Setting
  BY Zenon
<1>3. QED
  BY <1>1, <1>2, TheSetting, LayoutHolds, PTL

\* No carrier block that the map in memory or the map on disk names is overwritten
\* by metadata or by another block: acquire_block gives out none of them, and
\* write_map_blocks hits map blocks only.
THEOREM CarriersAreKept ==
  SmallDevice /\ LocationsListed /\ OneIndirect /\ Spec => []CarriersKept
<1>1. LayoutInv => CarriersKept
  BY Zenon DEF LayoutInv, Layout, CarrierInv, CarriersKept
<1>2. QED
  BY <1>1, TheSetting, LayoutHolds, PTL

\* Without a crash, what afs_dtr leaves on the disk is the whole truth: the map
\* that is loaded next names the carrier blocks that hold data and no others, with
\* the checksum of what is there.
THEOREM SavedMapExact ==
  SmallDevice /\ LocationsListed /\ OneIndirect /\ Spec => []ChecksumsAgree
<1>1. ASSUME Setting, TypeInv, LayoutInv PROVE ChecksumsAgree
  <2> SUFFICES ASSUME phase = "down", formatted, Undisturbed, crashes = 0
               PROVE  LET lst == BlockList(free)
                          content == read_page(ListAt(lst, SbBlock(lst, 0), AFS_INVALID_BLOCK))
                          loaded == afs_fill_map(content.sb, 0)
                      IN \A b \in Blocks, n \in Device :
                           \/ loaded[b].ptr = n
                           \/ IsKind(disk[n], "data") /\ disk[n].block = b
                           => loaded[b].ptr = n /\ disk[n] = Data(b, loaded[b].sum)
    BY Zenon DEF ChecksumsAgree
  <2>1. Layout /\ free = Free
    BY Zenon, <1>1 DEF LayoutInv, Undisturbed
  <2> DEFINE lst == BlockList(free)
             content == read_page(ListAt(lst, SbBlock(lst, 0), AFS_INVALID_BLOCK))
             loaded == afs_fill_map(content.sb, 0)
  <2>2. \A b \in Blocks : loaded[b] \in {saved[b], image[b]}
    BY Zenon, <1>1, <2>1, NextSession
  <2>3. /\ image = saved
        /\ \A b \in Blocks, n \in Device :
             /\ IsKind(disk[n], "data") /\ disk[n].block = b => saved[b].ptr = n
             /\ saved[b].ptr = n => disk[n] = Data(b, saved[b].sum)
    BY Zenon, <2>1 DEF Layout, ExactInv, Current
  <2> HIDE DEF loaded
  <2>4. \A b \in Blocks : loaded[b] = saved[b]
    BY Zenon, <2>2, <2>3
  <2>5. \A b \in Blocks, n \in Device :
          \/ loaded[b].ptr = n
          \/ IsKind(disk[n], "data") /\ disk[n].block = b
          => loaded[b].ptr = n /\ disk[n] = Data(b, loaded[b].sum)
    BY Zenon, <2>3, <2>4
  <2>6. QED
    BY Zenon, <2>5 DEF loaded
<1>2. Setting => []Setting
  BY Zenon
<1>3. QED
  BY <1>1, <1>2, TheSetting, LayoutHolds, PTL

\* On a device below 4 GB nothing that write_page writes, in any session, hits a
\* block that the passive file system uses.
THEOREM PassiveDataSafe ==
  SmallDevice /\ LocationsListed /\ OneIndirect /\ Spec => []PassiveDataUntouched
<1>1. LayoutInv => PassiveDataUntouched
  BY Zenon DEF LayoutInv, Layout, PassiveInv, PassiveDataUntouched
<1>2. QED
  BY <1>1, TheSetting, LayoutHolds, PTL

\* No more numbers lie below p than p.
LEMMA RankBound ==
  ASSUME NEW S, S \subseteq Nat, NEW p \in Nat
  PROVE  Rank(S, p) <= p
<1> DEFINE B == {m \in S : m < p}
<1>1. B \subseteq 0 .. p - 1
  <2>1. \A m \in Nat : m < p => m \in 0 .. p - 1
    OBVIOUS
  <2>2. QED
    BY Zenon, <2>1
<1>2. IsFiniteSet(0 .. p - 1) /\ Cardinality(0 .. p - 1) = p
  <2>1. /\ IsFiniteSet(0 .. p - 1)
        /\ Cardinality(0 .. p - 1) = IF 0 > p - 1 THEN 0 ELSE p - 1 - 0 + 1
    <3>1. 0 \in Int /\ p - 1 \in Int
      OBVIOUS
    <3>2. QED
      BY Zenon, <3>1, FS_Interval
  <2>2. QED
    BY <2>1
<1> HIDE DEF B
<1>3. Cardinality(B) <= p
  <2> DEFINE I == 0 .. p - 1
  <2> HIDE DEF I
  <2>1. IsFiniteSet(I) /\ B \in SUBSET I => Cardinality(B) <= Cardinality(I)
    BY Zenon, FS_Subset
  <2>2. QED
    BY Zenon, <2>1, <1>1, <1>2 DEF I
<1>4. QED
  BY Zenon, <1>3 DEF Rank, B

\* The position of the first replica does not move when a block behind it is taken.
LEMMA ReplicaStays ==
  ASSUME Setting, SomeListed(FullList), NEW n \in Free, n > Place(0)
  PROVE  LET lst == BlockList(Free \ {n})
         IN SbBlock(lst, 0) \in DOMAIN lst /\ lst[SbBlock(lst, 0)] = Place(0)
<1> DEFINE S == Free \ {n}
           lst == BlockList(S)
           loc == SbBlock(FullList, 0)
           p == Place(0)
           at(r) == Chain[r % ChainLen]
<1>1. /\ Free \subseteq Nat /\ IsFiniteSet(Free) /\ S \subseteq Nat /\ IsFiniteSet(S)
  BY Zenon, FreeFacts
<1>2. 0 \in Replicas /\ loc \in DOMAIN FullList /\ p \in Free /\ p = FullList[loc]
  BY Zenon, PlaceFacts DEF Place
<1>3. Rank(Free, p) = loc
  <2>1. /\ FullList \in [0 .. Cardinality(Free) - 1 -> Free]
        /\ \A k \in 0 .. Cardinality(Free) - 1 : Rank(Free, FullList[k]) = k
    BY Zenon, <1>1, ListFacts DEF FullList
  <2> HIDE DEF loc, p
  <2>2. loc \in 0 .. Cardinality(Free) - 1
    BY Zenon, <2>1, <1>2
  <2>3. QED
    BY Zenon, <2>1, <2>2, <1>2
<1>4. n \in Nat /\ p \in Nat /\ p < n /\ p \in S
  <2>1. p < n
    BY Zenon
  <2> HIDE DEF p
  <2>2. n \in Nat /\ p \in Nat
    BY Zenon, <1>1, <1>2
  <2>3. p # n
    BY <2>1, <2>2
  <2>4. QED
    BY Zenon, <2>1, <2>2, <2>3, <1>2
<1>5. Rank(S, p) = loc
  <2>1. {m \in S : m < p} = {m \in Free : m < p}
    <3>1. \A m \in Nat : m < p => m # n
      BY <1>4
    <3>2. QED
      BY Zenon, <3>1, <1>1
  <2>2. QED
    BY Zenon, <2>1, <1>3 DEF Rank
<1>6. loc \in S
  <2>1. loc \in Device /\ Found(FullList, loc)
    BY Zenon, <1>2, SbBlockFacts
  <2>2. loc \in Nat /\ loc \in Free
    BY Zenon, <2>1, <1>1, FoundFacts, NumberFacts DEF FullList
  <2>3. loc <= p
    BY Zenon, <1>1, <1>3, <1>4, RankBound
  <2> HIDE DEF loc
  <2>4. QED
    BY <2>2, <2>3, <1>4
<1>7. \A r \in Nat : at(r) \in Nat /\ r % ChainLen \in DOMAIN Chain
  <2> TAKE r \in Nat
  <2>1. r % ChainLen \in 0 .. ChainLen - 1
    BY Zenon, Sizes, DivisionFacts
  <2>2. QED
    BY Zenon, <2>1, DeviceAssumption, NumberFacts
<1>8. \A r \in Nat : /\ Found(FullList, at(r)) <=> at(r) \in Free
                     /\ Found(lst, at(r)) <=> at(r) \in S
  <2> TAKE r \in Nat
  <2>1. at(r) \in Nat
    BY Zenon, <1>7
  <2> HIDE DEF at, S
  <2>2. QED
    BY Zenon, <2>1, <1>1, FoundFacts DEF FullList
<1> DEFINE q == NextListed(FullList, 0)
           x == NextListed(lst, 0)
<1>9. /\ q \in Nat /\ Found(FullList, at(q)) /\ loc = at(q)
      /\ \A r \in 0 .. q - 1 : ~ Found(FullList, at(r))
  BY Zenon, <1>2, NextListedFacts, SbBlockFacts
<1>10. SomeListed(lst)
  <2>1. Found(lst, at(q)) /\ q % ChainLen \in DOMAIN Chain
    BY Zenon, <1>6, <1>7, <1>8, <1>9
  <2> HIDE DEF lst, q
  <2>2. QED
    BY Zenon, <2>1 DEF SomeListed
<1>11. /\ x \in Nat /\ Found(lst, at(x)) /\ SbBlock(lst, 0) = at(x)
       /\ \A r \in 0 .. x - 1 : ~ Found(lst, at(r))
  <2> HIDE DEF lst
  <2>1. QED
    BY Zenon, <1>2, <1>10, NextListedFacts, SbBlockFacts
<1> HIDE DEF q, x, at, lst, loc
<1>12. x = q
  <2>1. Found(FullList, at(x))
    BY Zenon, <1>8, <1>11
  <2>2. Found(lst, at(q))
    BY Zenon, <1>6, <1>8, <1>9
  <2>3. ~ (x \in 0 .. q - 1) /\ ~ (q \in 0 .. x - 1)
    BY Zenon, <2>1, <2>2, <1>9, <1>11
  <2>4. q \in Nat /\ x \in Nat
    BY Zenon, <1>9, <1>11
  <2>5. QED
    BY <2>3, <2>4
<1>13. SbBlock(lst, 0) = loc
  BY Zenon, <1>9, <1>11, <1>12
<1>14. loc \in DOMAIN lst /\ lst[loc] = p
  <2> HIDE DEF S, p
  <2>1. lst \in [0 .. Cardinality(S) - 1 -> S] /\ loc \in 0 .. Cardinality(S) - 1
        /\ lst[loc] = p
    BY Zenon, <1>1, <1>4, <1>5, ListFacts DEF lst
  <2>2. QED
    BY Zenon, <2>1
<1>15. QED
  BY Zenon, <1>13, <1>14 DEF lst

\* When the passive file system takes a block behind the first replica, then
\* find_super_block computes the same place and the superblock is there, after any
\* history of sessions and crashes.
THEOREM SuperblockStaysInPlace ==
  SmallDevice /\ LocationsListed /\ OneIndirect /\ Spec => SuperblockStays
<1>1. ASSUME Setting, TypeInv, LayoutInv, [Next]_vars,
             free' # free, formatted, Undisturbed,
             \A n \in free \ free' : n > FirstReplica
      PROVE  LET lst   == BlockList(free')
                 place == ListAt(lst, SbBlock(lst, 0), AFS_INVALID_BLOCK)
             IN place \in Device /\ IsKind(disk'[Address(place)], "sb")
  <2>1. PICK n \in free : PassiveAllocate(n)
    BY Zenon, <1>1 DEF Next, vars, world, CreateStart, CreateMapBlock, CreatePtrBlock,
       CreateNoSpace, CreateSuperBlock, Mount, WriteNew, WriteOld, UnmountStart,
       SaveMapBlock, Crash
  <2>2. Layout /\ free = Free
    BY Zenon, <1>1 DEF LayoutInv, Undisturbed
  <2>3. free' = Free \ {n} /\ n \in Free /\ disk' = [disk EXCEPT ![n] = Passive]
    BY Zenon, <2>1, <2>2 DEF PassiveAllocate
  <2>4. SomeListed(FullList) /\ IsKind(disk[Place(0)], "sb")
    BY Zenon, <1>1, <2>2 DEF Layout, DeviceInv
  <2>5. FirstReplica = Place(0) /\ Place(0) \in Device /\ Place(0) \in Free
    BY Zenon, <1>1, PlaceFacts, NumberFacts DEF FirstReplica, ListAt, Place, FullList
  <2>6. n > Place(0)
    BY Zenon, <1>1, <2>2, <2>3, <2>5
  <2> DEFINE lst   == BlockList(free')
             place == ListAt(lst, SbBlock(lst, 0), AFS_INVALID_BLOCK)
  <2>7. place = Place(0)
    <3>1. /\ SbBlock(BlockList(Free \ {n}), 0) \in DOMAIN BlockList(Free \ {n})
          /\ BlockList(Free \ {n})[SbBlock(BlockList(Free \ {n}), 0)] = Place(0)
      BY Zenon, <1>1, <2>3, <2>4, <2>6, ReplicaStays
    <3>2. QED
      BY Zenon, <3>1, <2>3 DEF ListAt
  <2> HIDE DEF place
  <2>8. disk'[Place(0)] = disk[Place(0)]
    <3>0. Place(0) \in Nat /\ n \in Nat
      BY Zenon, <2>3, <2>5, NumberFacts
    <3>1. Place(0) # n
      BY <3>0, <2>6
    <3>2. QED
      BY Zenon, <3>1, <2>3, <2>5, <1>1, Typed
  <2>9. Address(Place(0)) = Place(0)
    BY Zenon, <1>1, <2>5, AddressFacts
  <2>10. place \in Device /\ IsKind(disk'[Address(place)], "sb")
    BY Zenon, <2>4, <2>5, <2>7, <2>8, <2>9
  <2>11. QED
    BY Zenon, <2>10 DEF place
<1>2. Setting => []Setting
  BY Zenon
<1>3. Setting /\ TypeInv /\ LayoutInv /\ [Next]_vars =>
        [/\ free' # free
         /\ formatted /\ Undisturbed
         /\ \A n \in free \ free' : n > FirstReplica
         => LET lst   == BlockList(free')
                place == ListAt(lst, SbBlock(lst, 0), AFS_INVALID_BLOCK)
            IN place \in Device /\ IsKind(disk'[Address(place)], "sb")]_vars
  BY Zenon, <1>1
<1>4. QED
  BY <1>2, <1>3, TheSetting, LayoutHolds, PTL DEF Spec, SuperblockStays

=============================================================================
