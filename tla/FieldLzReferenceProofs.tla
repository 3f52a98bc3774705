------------------------ MODULE FieldLzReferenceProofs ------------------------
(***************************************************************************)
(* Lemmas about the operators of FieldLzReference, which the proofs about  *)
(* the encoder and about the decoder share.                                *)
(*                                                                         *)
(* The reference counts, sums and looks back by recursion over positions.  *)
(* What such a function yields is proved by first-order induction: the set *)
(* of the numbers up to a bound for which a formula holds contains zero    *)
(* and, with every number, the next one (InductionUpTo).                   *)
(***************************************************************************)
EXTENDS FieldLzReference, SequenceTheorems, FiniteSetTheorems, WellFoundedInduction,
        TLAPS

-----------------------------------------------------------------------------
\* Numbers

\* A non-empty set of naturals has a least element.
LEMMA LeastNatural ==
  ASSUME NEW S, S \subseteq Nat, S # {}
  PROVE  \E x \in S : \A y \in S : x <= y
<1>1. IsWellFoundedOn(OpToRel(<, Nat), Nat)
  BY NatLessThanWellFounded
<1>2. PICK x \in S : \A y \in S : ~ (<<y, x>> \in OpToRel(<, Nat))
  BY <1>1, WFMin
<1>3. ASSUME NEW y \in S PROVE x <= y
  <2>1. ~ (y < x)
    BY <1>2 DEF OpToRel
  <2> QED
    BY <2>1
<1> QED
  BY <1>3

\* A non-empty set of naturals below a bound has a greatest element.
LEMMA GreatestNatural ==
  ASSUME NEW n \in Nat, NEW S, S \subseteq 0..n, S # {}
  PROVE  \E x \in S : \A y \in S : y <= x
<1> DEFINE T == {n - y : y \in S}
<1>1. T \subseteq Nat /\ T # {}
  OBVIOUS
<1>2. PICK t \in T : \A u \in T : t <= u
  BY <1>1, LeastNatural
<1>3. PICK x \in S : t = n - x
  OBVIOUS
<1>4. ASSUME NEW y \in S PROVE y <= x
  <2>1. n - y \in T
    OBVIOUS
  <2>2. n - x <= n - y
    BY <1>2, <1>3, <2>1
  <2>3. x \in 0..n /\ y \in 0..n
    OBVIOUS
  <2> QED
    BY <2>2, <2>3
<1> QED
  BY <1>4

\* Induction on the numbers up to a bound, for the set of those a formula holds
\* of.
LEMMA InductionUpTo ==
  ASSUME NEW n \in Nat, NEW S, 0 \in S,
         \A k \in 1..n : k - 1 \in S => k \in S
  PROVE  0..n \subseteq S
<1> DEFINE Bad == {k \in 0..n : k \notin S}
<1>1. SUFFICES ASSUME Bad # {} PROVE FALSE
  OBVIOUS
<1>2. PICK m \in Bad : \A k \in Bad : m <= k
  <2>1. Bad \subseteq Nat
    OBVIOUS
  <2> HIDE DEF Bad
  <2> QED
    BY <1>1, <2>1, LeastNatural
<1>3. m \in 1..n /\ m \notin S
  BY <1>2
<1>4. m - 1 \in S
  BY <1>2, <1>3
<1> QED
  BY <1>3, <1>4

-----------------------------------------------------------------------------
\* Sums

\* The partial sums of any list of n entries exist.
LEMMA PartialSumsExist ==
  ASSUME NEW n \in Nat, NEW list
  PROVE  \E sum : sum = [k \in 0..n |-> IF k = 0 THEN 0 ELSE sum[k - 1] + list[k]]
<1> DEFINE Sums(f, m) == f = [k \in 0..m |-> IF k = 0 THEN 0 ELSE f[k - 1] + list[k]]
           S == {m \in 0..n : \E f : Sums(f, m)}
<1>1. 0 \in S
  <2> DEFINE f == [k \in 0..0 |-> 0]
  <2>1. f = [k \in 0..0 |-> IF k = 0 THEN 0 ELSE f[k - 1] + list[k]]
    OBVIOUS
  <2>2. Sums(f, 0)
    BY <2>1
  <2> HIDE DEF f, Sums
  <2> QED
    BY <2>2
<1>2. ASSUME NEW m \in 1..n, m - 1 \in S PROVE m \in S
  <2>1. PICK f : Sums(f, m - 1)
    BY <1>2
  <2> DEFINE g == [k \in 0..m |-> IF k = m THEN f[m - 1] + list[m] ELSE f[k]]
  <2>2. ASSUME NEW k \in 0..m
        PROVE  g[k] = IF k = 0 THEN 0 ELSE g[k - 1] + list[k]
    <3>1. CASE k = m
      <4>1. m - 1 \in 0..m /\ m - 1 # m /\ m # 0
        OBVIOUS
      <4> QED
        BY <3>1, <4>1
    <3>2. CASE k # m
      <4>1. k \in 0..(m - 1) /\ g[k] = f[k]
        BY <3>2
      <4>2. f[k] = IF k = 0 THEN 0 ELSE f[k - 1] + list[k]
        BY <2>1, <4>1
      <4>3. k # 0 => k - 1 \in 0..m /\ k - 1 # m
        BY <4>1
      <4> QED
        BY <4>1, <4>2, <4>3
    <3> QED
      BY <3>1, <3>2
  <2>3. Sums(g, m)
    BY <2>2, Zenon
  <2> HIDE DEF g, Sums
  <2> QED
    BY <2>3
<1> HIDE DEF S, Sums
<1>3. 0..n \subseteq S
  BY <1>1, <1>2, InductionUpTo
<1> QED
  BY <1>3 DEF S, Sums

\* Partial sums of naturals are naturals that never decrease.
LEMMA PartialSumsGrow ==
  ASSUME NEW n \in Nat, NEW m \in 0..n, NEW list, NEW sum,
         sum = [k \in 0..n |-> IF k = 0 THEN 0 ELSE sum[k - 1] + list[k]],
         \A k \in 1..m : list[k] \in Nat
  PROVE  /\ sum[0] = 0
         /\ \A k \in 1..m : sum[k] = sum[k - 1] + list[k]
         /\ \A k \in 0..m : sum[k] \in Nat
         /\ \A k \in 0..m : \A j \in 0..k : sum[j] <= sum[k]
<1>1. sum[0] = 0 /\ \A k \in 1..n : sum[k] = sum[k - 1] + list[k]
  OBVIOUS
<1> DEFINE Grown(k) == /\ sum[k] \in Nat
                       /\ \A j \in 0..k : sum[j] \in Nat /\ sum[j] <= sum[k]
           S == {k \in 0..m : Grown(k)}
<1>2. Grown(0)
  BY <1>1
<1>3. ASSUME NEW k \in 1..m, Grown(k - 1) PROVE Grown(k)
  <2>1. PICK a \in Nat : a = sum[k - 1]
    BY <1>3
  <2>2. PICK b \in Nat : b = list[k]
    OBVIOUS
  <2>3. sum[k] = a + b
    BY <1>1, <2>1, <2>2
  <2>4. ASSUME NEW j \in 0..k PROVE sum[j] \in Nat /\ sum[j] <= sum[k]
    <3>1. CASE j = k
      BY <2>3, <3>1
    <3>2. CASE j # k
      <4>1. j \in 0..(k - 1)
        BY <3>2
      <4>2. PICK c \in Nat : c = sum[j]
        BY <1>3, <4>1
      <4>3. c <= a
        BY <1>3, <2>1, <4>1, <4>2
      <4> QED
        BY <2>3, <4>2, <4>3
    <3> QED
      BY <3>1, <3>2
  <2>5. sum[k] \in Nat
    BY <2>3
  <2> QED
    BY <2>4, <2>5
<1> HIDE DEF Grown
<1>4. 0..m \subseteq S
  <2>1. m \in Nat /\ 0 \in S /\ \A k \in 1..m : k - 1 \in S => k \in S
    BY <1>2, <1>3
  <2> HIDE DEF S
  <2> QED
    BY <2>1, InductionUpTo
<1>5. \A k \in 0..m : Grown(k)
  BY <1>4
<1>6. /\ \A k \in 0..m : sum[k] \in Nat
      /\ \A k \in 0..m : \A j \in 0..k : sum[j] <= sum[k]
  BY <1>5 DEF Grown
<1>7. \A k \in 1..m : sum[k] = sum[k - 1] + list[k]
  BY <1>1
<1> QED
  BY <1>1, <1>6, <1>7, Zenon

-----------------------------------------------------------------------------
\* Counts

\* How many of the first k numbers are in A.
CountUpTo(A, k) == Cardinality({j \in 1..k : j \in A})

\* A count starts at zero, never exceeds the numbers there are and grows by one
\* at each element of A.
LEMMA CountStep ==
  ASSUME NEW A, NEW k \in Nat
  PROVE  /\ IsFiniteSet({j \in 1..k : j \in A})
         /\ CountUpTo(A, k) \in 0..k
         /\ k = 0 => CountUpTo(A, k) = 0
         /\ CountUpTo(A, k + 1) = CountUpTo(A, k) + IF k + 1 \in A THEN 1 ELSE 0
<1> DEFINE B == {j \in 1..k : j \in A}
           C == {j \in 1..(k + 1) : j \in A}
<1>1. IsFiniteSet(1..k) /\ Cardinality(1..k) = k
  BY FS_Interval
<1>2. /\ IsFiniteSet(B) /\ Cardinality(B) \in Nat /\ Cardinality(B) <= k
  <2>1. B \in SUBSET (1..k)
    OBVIOUS
  <2> HIDE DEF B
  <2> QED
    BY <1>1, <2>1, FS_Subset, FS_CardinalityType
<1>3. k = 0 => Cardinality(B) = 0
  BY <1>2
<1>4. Cardinality(C) = Cardinality(B) + IF k + 1 \in A THEN 1 ELSE 0
  <2>1. CASE k + 1 \in A
    <3>1. C = B \cup {k + 1} /\ k + 1 \notin B
      BY <2>1
    <3> HIDE DEF B, C
    <3> QED
      BY <1>2, <2>1, <3>1, FS_AddElement
  <2>2. CASE k + 1 \notin A
    <3>1. C = B
      BY <2>2
    <3> HIDE DEF B, C
    <3> QED
      BY <1>2, <2>2, <3>1
  <2> QED
    BY <2>1, <2>2
<1> QED
  BY <1>2, <1>3, <1>4 DEF CountUpTo

\* Counts never decrease.
LEMMA CountGrows ==
  ASSUME NEW A, NEW k \in Nat, NEW i \in 0..k
  PROVE  CountUpTo(A, i) <= CountUpTo(A, k)
<1> DEFINE B == {j \in 1..k : j \in A}
           C == {j \in 1..i : j \in A}
<1>1. IsFiniteSet(B) /\ C \in SUBSET B
  BY CountStep
<1> HIDE DEF B, C
<1>2. Cardinality(C) <= Cardinality(B)
  BY <1>1, FS_Subset
<1> QED
  BY <1>2 DEF CountUpTo, B, C

-----------------------------------------------------------------------------
\* Lemmas about what streams mean

\* Partial sums add one entry after the other, as far as the entries are numbers.
LEMMA PartialSumsStep ==
  ASSUME NEW n \in Nat, NEW m \in 0..n, NEW list, \A k \in 1..m : list[k] \in Nat
  PROVE  /\ PartialSums(n, list)[0] = 0
         /\ \A k \in 1..m :
              PartialSums(n, list)[k] = PartialSums(n, list)[k - 1] + list[k]
         /\ \A k \in 0..m : PartialSums(n, list)[k] \in Nat
         /\ \A k \in 0..m : \A j \in 0..k :
              PartialSums(n, list)[j] <= PartialSums(n, list)[k]
<1> DEFINE Sums(f) == f = [k \in 0..n |-> IF k = 0 THEN 0 ELSE f[k - 1] + list[k]]
           sum == CHOOSE f : Sums(f)
<1>1. \E f : Sums(f)
  BY PartialSumsExist, Zenon
<1>2. Sums(sum)
  <2> HIDE DEF Sums
  <2> QED
    BY <1>1
<1>3. PartialSums(n, list) = sum
  BY DEF PartialSums
<1> HIDE DEF sum
<1>4. sum = [k \in 0..n |-> IF k = 0 THEN 0 ELSE sum[k - 1] + list[k]]
  BY <1>2, Zenon
<1>5. /\ sum[0] = 0
      /\ \A k \in 1..m : sum[k] = sum[k - 1] + list[k]
      /\ \A k \in 0..m : sum[k] \in Nat
      /\ \A k \in 0..m : \A j \in 0..k : sum[j] <= sum[k]
  BY <1>4, PartialSumsGrow
<1> QED
  BY <1>3, <1>5, Zenon

\* The first m tokens have lengths: the entries they call for are there.
LengthsKnown(s, m) ==
  \A j \in 1..m : LiteralLength(s, j) \in Nat /\ MatchLength(s, j) \in Nat \ {0}

\* Token by token, the literals and matches of streams cover more positions.
LEMMA PositionsGrow ==
  ASSUME NEW s, Len(s.tokens) \in Nat, Tokens(s) = 1..Len(s.tokens),
         NEW m \in 0..Len(s.tokens), LengthsKnown(s, m)
  PROVE  /\ LiteralsThrough(s, 0) = 0 /\ MatchedThrough(s, 0) = 0
         /\ \A k \in 0..m : LiteralsThrough(s, k) \in Nat /\ MatchedThrough(s, k) \in Nat
         /\ \A k \in 1..m :
              /\ LiteralsThrough(s, k) = LiteralsThrough(s, k - 1) + LiteralLength(s, k)
              /\ MatchedThrough(s, k) = MatchedThrough(s, k - 1) + MatchLength(s, k)
         /\ \A k \in 0..m : \A j \in 0..k :
              /\ LiteralsThrough(s, j) <= LiteralsThrough(s, k)
              /\ MatchedThrough(s, j) <= MatchedThrough(s, k)
<1> DEFINE n == Len(s.tokens)
           lits == [j \in Tokens(s) |-> LiteralLength(s, j)]
           matches == [j \in Tokens(s) |-> MatchLength(s, j)]
<1>1. \A k : /\ LiteralsThrough(s, k) = PartialSums(n, lits)[k]
             /\ MatchedThrough(s, k) = PartialSums(n, matches)[k]
  BY DEF LiteralsThrough, MatchedThrough
<1>2. \A j \in 1..m : /\ lits[j] \in Nat /\ lits[j] = LiteralLength(s, j)
                      /\ matches[j] \in Nat /\ matches[j] = MatchLength(s, j)
  BY DEF LengthsKnown
<1> HIDE DEF n, lits, matches
<1>3. n \in Nat /\ m \in 0..n
  BY DEF n
<1>4. /\ PartialSums(n, lits)[0] = 0
      /\ \A k \in 1..m : PartialSums(n, lits)[k] = PartialSums(n, lits)[k - 1] + lits[k]
      /\ \A k \in 0..m : PartialSums(n, lits)[k] \in Nat
      /\ \A k \in 0..m : \A j \in 0..k :
           PartialSums(n, lits)[j] <= PartialSums(n, lits)[k]
  BY <1>2, <1>3, PartialSumsStep
<1>5. /\ PartialSums(n, matches)[0] = 0
      /\ \A k \in 1..m :
           PartialSums(n, matches)[k] = PartialSums(n, matches)[k - 1] + matches[k]
      /\ \A k \in 0..m : PartialSums(n, matches)[k] \in Nat
      /\ \A k \in 0..m : \A j \in 0..k :
           PartialSums(n, matches)[j] <= PartialSums(n, matches)[k]
  BY <1>2, <1>3, PartialSumsStep
<1> QED
  BY <1>1, <1>2, <1>4, <1>5, ZenonT(30)

\* Matches follow one another, each after its literals, and each is not empty.
LEMMA MatchesFollow ==
  ASSUME NEW s, Len(s.tokens) \in Nat, Tokens(s) = 1..Len(s.tokens),
         NEW m \in 0..Len(s.tokens), LengthsKnown(s, m)
  PROVE  /\ MatchEnd(s, 0) = 0
         /\ \A k \in 1..m :
              /\ MatchStart(s, k) = MatchEnd(s, k - 1) + LiteralLength(s, k)
              /\ MatchEnd(s, k) = MatchStart(s, k) + MatchLength(s, k)
              /\ MatchStart(s, k) \in Nat
         /\ \A k \in 0..m : MatchEnd(s, k) \in Nat /\ MatchedThrough(s, k) >= k
         /\ \A k \in 0..m : \A j \in 0..k : MatchEnd(s, j) <= MatchEnd(s, k)
<1>1. /\ LiteralsThrough(s, 0) = 0 /\ MatchedThrough(s, 0) = 0
      /\ \A k \in 0..m : LiteralsThrough(s, k) \in Nat /\ MatchedThrough(s, k) \in Nat
      /\ \A k \in 1..m :
           /\ LiteralsThrough(s, k) = LiteralsThrough(s, k - 1) + LiteralLength(s, k)
           /\ MatchedThrough(s, k) = MatchedThrough(s, k - 1) + MatchLength(s, k)
      /\ \A k \in 0..m : \A j \in 0..k :
           /\ LiteralsThrough(s, j) <= LiteralsThrough(s, k)
           /\ MatchedThrough(s, j) <= MatchedThrough(s, k)
  BY PositionsGrow
<1>2. MatchEnd(s, 0) = 0
  BY <1>1 DEF MatchEnd
<1>3. ASSUME NEW k \in 1..m
      PROVE  /\ MatchStart(s, k) = MatchEnd(s, k - 1) + LiteralLength(s, k)
             /\ MatchEnd(s, k) = MatchStart(s, k) + MatchLength(s, k)
             /\ MatchStart(s, k) \in Nat
  <2>1. PICK a, b, c, d \in Nat :
          /\ a = LiteralsThrough(s, k - 1) /\ b = MatchedThrough(s, k - 1)
          /\ c = LiteralLength(s, k) /\ d = MatchLength(s, k)
    <3>1. k - 1 \in 0..m
      OBVIOUS
    <3> QED
      BY <3>1, <1>1 DEF LengthsKnown
  <2>2. LiteralsThrough(s, k) = a + c /\ MatchedThrough(s, k) = b + d
    BY <1>1, <2>1
  <2>3. /\ MatchEnd(s, k - 1) = a + b /\ MatchStart(s, k) = (a + c) + b
        /\ MatchEnd(s, k) = (a + c) + (b + d)
    BY <2>1, <2>2, Zenon DEF MatchStart, MatchEnd
  <2>4. (a + c) + b = (a + b) + c /\ (a + c) + (b + d) = ((a + c) + b) + d
        /\ (a + c) + b \in Nat
    OBVIOUS
  <2> QED
    BY <2>1, <2>3, <2>4, Zenon
<1>4. \A k \in 0..m : MatchEnd(s, k) \in Nat
  BY <1>1 DEF MatchEnd
<1>5. ASSUME NEW k \in 0..m, NEW j \in 0..k PROVE MatchEnd(s, j) <= MatchEnd(s, k)
  <2>1. PICK a, b, c, d \in Nat :
          /\ a = LiteralsThrough(s, j) /\ b = MatchedThrough(s, j)
          /\ c = LiteralsThrough(s, k) /\ d = MatchedThrough(s, k)
    <3>1. j \in 0..m
      OBVIOUS
    <3> QED
      BY <3>1, <1>1
  <2>2. a <= c /\ b <= d
    BY <1>1, <2>1
  <2> QED
    BY <2>1, <2>2 DEF MatchEnd
<1>6. \A k \in 0..m : MatchedThrough(s, k) >= k
  <2> DEFINE S == {k \in 0..m : MatchedThrough(s, k) >= k}
  <2>1. m \in Nat /\ 0 \in S
    BY <1>1
  <2>2. ASSUME NEW k \in 1..m, k - 1 \in S PROVE k \in S
    <3>1. PICK b, d \in Nat : b = MatchedThrough(s, k - 1) /\ d = MatchLength(s, k)
      <4>1. k - 1 \in 0..m
        OBVIOUS
      <4> QED
        BY <4>1, <1>1 DEF LengthsKnown
    <3>2. MatchedThrough(s, k) = b + d /\ d >= 1 /\ b >= k - 1
      BY <1>1, <2>2, <3>1 DEF LengthsKnown
    <3> QED
      BY <3>2
  <2> HIDE DEF S
  <2>3. 0..m \subseteq S
    BY <2>1, <2>2, InductionUpTo
  <2> QED
    BY <2>3 DEF S
<1> QED
  BY <1>2, <1>3, <1>4, <1>5, <1>6

\* What the k-th token reads of the offsets, if it reads one.
OffsetRead(s, k) ==
  IF s.tokens[k].offsetCode = 3 THEN s.offsets[Cardinality(ExplicitUpTo(s, k))] ELSE 0

\* The offsets in reach after a token are those before it, moved to the front.
LEMMA RecentOffsetsStep ==
  ASSUME NEW s, Len(s.tokens) \in Nat
  PROVE  /\ RecentOffsets(s)[0] = InitialRepeats
         /\ \A k \in 1..Len(s.tokens) :
              RecentOffsets(s)[k] =
                MoveToFront(Append(RecentOffsets(s)[k - 1], OffsetRead(s, k)),
                            s.tokens[k].offsetCode)
<1> DEFINE n == Len(s.tokens)
           moved(x, k) == MoveToFront(Append(x, OffsetRead(s, k)), s.tokens[k].offsetCode)
           After(f, m) ==
             f = [k \in 0..m |-> IF k = 0 THEN InitialRepeats ELSE moved(f[k - 1], k)]
           S == {m \in 0..n : \E f : After(f, m)}
           after == CHOOSE f : After(f, n)
<1> HIDE DEF moved
<1>1. 0 \in S
  <2> DEFINE f == [k \in 0..0 |-> InitialRepeats]
  <2>1. f = [k \in 0..0 |-> IF k = 0 THEN InitialRepeats ELSE moved(f[k - 1], k)]
    OBVIOUS
  <2>2. After(f, 0)
    BY <2>1
  <2> HIDE DEF f, After
  <2> QED
    BY <2>2
<1>2. ASSUME NEW m \in 1..n, m - 1 \in S PROVE m \in S
  <2>1. PICK f : After(f, m - 1)
    BY <1>2
  <2> DEFINE g == [k \in 0..m |-> IF k = m THEN moved(f[m - 1], m) ELSE f[k]]
  <2>2. ASSUME NEW k \in 0..m
        PROVE  g[k] = IF k = 0 THEN InitialRepeats ELSE moved(g[k - 1], k)
    <3>1. CASE k = m
      <4>1. m - 1 \in 0..m /\ m - 1 # m /\ m # 0
        OBVIOUS
      <4>2. g[m - 1] = f[m - 1]
        BY <4>1
      <4> QED
        BY <3>1, <4>1, <4>2
    <3>2. CASE k # m
      <4>1. k \in 0..(m - 1) /\ g[k] = f[k]
        BY <3>2
      <4>2. f[k] = IF k = 0 THEN InitialRepeats ELSE moved(f[k - 1], k)
        BY <2>1, <4>1
      <4>3. k # 0 => k - 1 \in 0..m /\ k - 1 # m
        BY <4>1
      <4>4. k # 0 => g[k - 1] = f[k - 1]
        BY <4>3
      <4> QED
        BY <4>1, <4>2, <4>4
    <3> QED
      BY <3>1, <3>2
  <2>3. After(g, m)
    BY <2>2, Zenon
  <2> HIDE DEF g, After
  <2> QED
    BY <2>3
<1>3. After(after, n)
  <2> HIDE DEF S, After
  <2>1. 0..n \subseteq S
    BY <1>1, <1>2, InductionUpTo
  <2>2. \E f : After(f, n)
    BY <2>1 DEF S
  <2> HIDE DEF n
  <2> QED
    BY <2>2
<1>4. RecentOffsets(s) = after
  BY DEF RecentOffsets, OffsetRead, moved
<1> HIDE DEF after
<1>5. \A k \in 0..n : after[k] = IF k = 0 THEN InitialRepeats ELSE moved(after[k - 1], k)
  BY <1>3
<1> QED
  BY <1>4, <1>5 DEF moved

\* Moving to the front, entry by entry.
LEMMA MovedEntries ==
  ASSUME NEW S, NEW q \in Seq(S), Len(q) = 4, NEW code \in 0..3
  PROVE  /\ MoveToFront(q, code) \in Seq(S) /\ Len(MoveToFront(q, code)) = 3
         /\ MoveToFront(q, code)[1] = q[code + 1]
         /\ MoveToFront(q, code)[2] = IF code = 0 THEN q[2] ELSE q[1]
         /\ MoveToFront(q, code)[3] = IF code <= 1 THEN q[3] ELSE q[2]
<1> DEFINE u == SubSeq(q, 1, code)
           v == SubSeq(q, code + 2, 4)
           w == u \o v
           t == SubSeq(w, 1, 2)
<1>1. /\ u \in Seq(S) /\ Len(u) = code /\ \A i \in 1..code : u[i] = q[i]
      /\ v \in Seq(S) /\ Len(v) = 3 - code
      /\ \A i \in 1..(3 - code) : v[i] = q[code + 1 + i]
  <2>1. \A i \in 1..4 : q[i] \in S
    BY ElementOfSeq
  <2>2. u \in Seq(S) /\ Len(u) = code /\ \A i \in 1..code : u[i] = q[i]
    <3>1. \A i \in 1..code : q[i] \in S
      BY <2>1
    <3>2. u \in Seq(S) /\ Len(u) = (IF 1 <= code THEN code - 1 + 1 ELSE 0)
          /\ \A i \in 1..(code - 1 + 1) : u[i] = q[1 + i - 1]
      BY <3>1, SubSeqProperties
    <3> QED
      BY <3>2
  <2>3. /\ v \in Seq(S) /\ Len(v) = 3 - code
        /\ \A i \in 1..(3 - code) : v[i] = q[code + 1 + i]
    <3>1. \A i \in (code + 2)..4 : q[i] \in S
      BY <2>1
    <3>2. /\ v \in Seq(S)
          /\ Len(v) = (IF code + 2 <= 4 THEN 4 - (code + 2) + 1 ELSE 0)
          /\ \A i \in 1..(4 - (code + 2) + 1) : v[i] = q[(code + 2) + i - 1]
      BY <3>1, SubSeqProperties
    <3> QED
      BY <3>2
  <2> QED
    BY <2>2, <2>3
<1> HIDE DEF u, v
<1>2. /\ w \in Seq(S) /\ Len(w) = 3
      /\ \A i \in 1..3 : w[i] = IF i <= code THEN u[i] ELSE v[i - code]
  <2>1. /\ w \in Seq(S) /\ Len(w) = Len(u) + Len(v)
        /\ \A i \in 1..(Len(u) + Len(v)) :
             w[i] = IF i <= Len(u) THEN u[i] ELSE v[i - Len(u)]
    BY <1>1, ConcatProperties
  <2>2. Len(u) + Len(v) = 3
    BY <1>1
  <2> QED
    BY <1>1, <2>1, <2>2
<1>3. w[1] = (IF code = 0 THEN q[2] ELSE q[1]) /\ w[2] = (IF code <= 1 THEN q[3] ELSE q[2])
  BY <1>1, <1>2
<1> HIDE DEF w
<1>4. t \in Seq(S) /\ Len(t) = 2 /\ t[1] = w[1] /\ t[2] = w[2]
  <2>1. \A i \in 1..2 : w[i] \in S
    <3>1. \A i \in 1..Len(w) : w[i] \in S
      BY <1>2, ElementOfSeq, Zenon
    <3>2. \A i \in 1..2 : i \in 1..Len(w)
      BY <1>2
    <3> QED
      BY <3>1, <3>2, Zenon
  <2>2. /\ t \in Seq(S) /\ Len(t) = (IF 1 <= 2 THEN 2 - 1 + 1 ELSE 0)
        /\ \A i \in 1..(2 - 1 + 1) : t[i] = w[1 + i - 1]
    BY <2>1, SubSeqProperties
  <2> QED
    BY <2>2
<1>5. q[code + 1] \in S
  <2>1. code + 1 \in 1..Len(q)
    OBVIOUS
  <2> QED
    BY <2>1, ElementOfSeq
<1> HIDE DEF t
<1>6. ASSUME NEW x \in S, NEW y \in Seq(S), Len(y) = 2
      PROVE  /\ <<x>> \o y \in Seq(S) /\ Len(<<x>> \o y) = 3
             /\ (<<x>> \o y)[1] = x
             /\ (<<x>> \o y)[2] = y[1] /\ (<<x>> \o y)[3] = y[2]
  <2> DEFINE z == <<x>>
  <2>1. z \in Seq(S) /\ Len(z) = 1 /\ z[1] = x
    OBVIOUS
  <2> HIDE DEF z
  <2>2. /\ z \o y \in Seq(S) /\ Len(z \o y) = Len(z) + Len(y)
        /\ \A i \in 1..(Len(z) + Len(y)) :
             (z \o y)[i] = IF i <= Len(z) THEN z[i] ELSE y[i - Len(z)]
    BY <2>1, ConcatProperties
  <2>3. Len(z) + Len(y) = 3
    BY <1>6, <2>1
  <2>4. (z \o y)[1] = z[1] /\ (z \o y)[2] = y[1] /\ (z \o y)[3] = y[2]
    BY <2>1, <2>2, <2>3
  <2> QED
    BY <2>1, <2>2, <2>3, <2>4 DEF z
<1>7. MoveToFront(q, code) = <<q[code + 1]>> \o t
  BY DEF MoveToFront, t, w, u, v
<1> QED
  BY <1>3, <1>4, <1>5, <1>6, <1>7

\* Moving to the front, case by case.
LEMMA MovedToFront ==
  ASSUME NEW a, NEW b, NEW c, NEW d
  PROVE  /\ MoveToFront(Append(<<a, b, c>>, d), 0) = <<a, b, c>>
         /\ MoveToFront(Append(<<a, b, c>>, d), 1) = <<b, a, c>>
         /\ MoveToFront(Append(<<a, b, c>>, d), 2) = <<c, a, b>>
         /\ MoveToFront(Append(<<a, b, c>>, d), 3) = <<d, a, b>>
<1> DEFINE S == {a, b, c, d}
           q == Append(<<a, b, c>>, d)
<1>1. a \in S /\ b \in S /\ c \in S /\ d \in S
  OBVIOUS
<1> HIDE DEF S
<1>2. <<a, b, c>> \in Seq(S)
  BY <1>1
<1>3. /\ q \in Seq(S) /\ Len(q) = 4
      /\ q[1] = a /\ q[2] = b /\ q[3] = c /\ q[4] = d
  BY <1>1, <1>2
<1> HIDE DEF q
<1>4. \A code \in 0..3 :
        /\ MoveToFront(q, code) \in Seq(S) /\ Len(MoveToFront(q, code)) = 3
        /\ MoveToFront(q, code)[1] = q[code + 1]
        /\ MoveToFront(q, code)[2] = IF code = 0 THEN q[2] ELSE q[1]
        /\ MoveToFront(q, code)[3] = IF code <= 1 THEN q[3] ELSE q[2]
  BY <1>3, MovedEntries
<1>5. ASSUME NEW x \in S, NEW y \in S, NEW z \in S, NEW f \in Seq(S),
             Len(f) = 3, f[1] = x, f[2] = y, f[3] = z
      PROVE  f = <<x, y, z>>
  BY <1>5
<1>6. MoveToFront(q, 0) = <<a, b, c>>
  BY <1>1, <1>3, <1>4, <1>5
<1>7. MoveToFront(q, 1) = <<b, a, c>>
  BY <1>1, <1>3, <1>4, <1>5
<1>8. MoveToFront(q, 2) = <<c, a, b>>
  BY <1>1, <1>3, <1>4, <1>5
<1>9. MoveToFront(q, 3) = <<d, a, b>>
  BY <1>1, <1>3, <1>4, <1>5
<1> QED
  BY <1>6, <1>7, <1>8, <1>9 DEF q

\* The side-stream entries the first k tokens take.
Explicits(s, k) == Cardinality(ExplicitUpTo(s, k))
LongLiterals(s, k) == Cardinality(LongLiteralUpTo(s, k))
LongMatches(s, k) == Cardinality(LongMatchUpTo(s, k))

\* A token takes an entry of a side stream or leaves it, and none is given back.
LEMMA EntriesCounted ==
  ASSUME NEW s, NEW k \in Nat
  PROVE  /\ Explicits(s, 0) = 0 /\ LongLiterals(s, 0) = 0 /\ LongMatches(s, 0) = 0
         /\ Explicits(s, k) \in 0..k /\ LongLiterals(s, k) \in 0..k
         /\ LongMatches(s, k) \in 0..k
         /\ Explicits(s, k + 1)
              = Explicits(s, k) + IF s.tokens[k + 1].offsetCode = 3 THEN 1 ELSE 0
         /\ LongLiterals(s, k + 1)
              = LongLiterals(s, k) + IF s.tokens[k + 1].literalCode = CodeMax THEN 1 ELSE 0
         /\ LongMatches(s, k + 1)
              = LongMatches(s, k) + IF s.tokens[k + 1].matchCode = CodeMax THEN 1 ELSE 0
         /\ \A i \in 0..k : /\ Explicits(s, i) <= Explicits(s, k)
                            /\ LongLiterals(s, i) <= LongLiterals(s, k)
                            /\ LongMatches(s, i) <= LongMatches(s, k)
<1> DEFINE A == {j \in Nat : s.tokens[j].offsetCode = 3}
           B == {j \in Nat : s.tokens[j].literalCode = CodeMax}
           C == {j \in Nat : s.tokens[j].matchCode = CodeMax}
<1>1. \A i \in Nat : /\ Explicits(s, i) = CountUpTo(A, i)
                     /\ LongLiterals(s, i) = CountUpTo(B, i)
                     /\ LongMatches(s, i) = CountUpTo(C, i)
  <2>1. ASSUME NEW i \in Nat
        PROVE  /\ ExplicitUpTo(s, i) = {j \in 1..i : j \in A}
               /\ LongLiteralUpTo(s, i) = {j \in 1..i : j \in B}
               /\ LongMatchUpTo(s, i) = {j \in 1..i : j \in C}
    BY DEF ExplicitUpTo, LongLiteralUpTo, LongMatchUpTo
  <2> HIDE DEF A, B, C
  <2> QED
    BY <2>1 DEF Explicits, LongLiterals, LongMatches, CountUpTo
<1>2. /\ (k + 1 \in A) = (s.tokens[k + 1].offsetCode = 3)
      /\ (k + 1 \in B) = (s.tokens[k + 1].literalCode = CodeMax)
      /\ (k + 1 \in C) = (s.tokens[k + 1].matchCode = CodeMax)
  OBVIOUS
<1> HIDE DEF A, B, C
<1>3. ASSUME NEW D
      PROVE  /\ CountUpTo(D, 0) = 0 /\ CountUpTo(D, k) \in 0..k
             /\ CountUpTo(D, k + 1) = CountUpTo(D, k) + IF k + 1 \in D THEN 1 ELSE 0
             /\ \A i \in 0..k : CountUpTo(D, i) <= CountUpTo(D, k)
  BY CountStep, CountGrows
<1>4. 0 \in Nat /\ k + 1 \in Nat /\ \A i \in 0..k : i \in Nat
  OBVIOUS
<1> QED
  BY <1>1, <1>2, <1>3, <1>4

\* Where every entry is taken, every length is known.
LEMMA AllLengthsKnown ==
  ASSUME NEW s \in Streams, EntriesAreTaken(s)
  PROVE  /\ Len(s.tokens) \in Nat /\ Tokens(s) = 1..Len(s.tokens)
         /\ LengthsKnown(s, Len(s.tokens))
<1> DEFINE n == Len(s.tokens)
<1>1. /\ s.tokens \in Seq(Token) /\ s.extraLiteralLengths \in Seq(Nat)
      /\ s.extraMatchLengths \in Seq(Nat)
  BY DEF Streams
<1>2. /\ n \in Nat /\ Tokens(s) = 1..n
      /\ \A k \in 1..n : s.tokens[k] \in Token
  <2> HIDE DEF Token
  <2> QED
    BY <1>1 DEF Tokens
<1>3. /\ Len(s.extraLiteralLengths) = LongLiterals(s, n)
      /\ Len(s.extraMatchLengths) = LongMatches(s, n)
  BY DEF EntriesAreTaken, LongLiterals, LongMatches
<1>4. ASSUME NEW k \in 1..n
      PROVE  LiteralLength(s, k) \in Nat /\ MatchLength(s, k) \in Nat \ {0}
  <2>1. PICK b \in Nat : k = b + 1
    <3>1. k - 1 \in Nat /\ k = (k - 1) + 1
      BY <1>2
    <3> QED
      BY <3>1
  <2>2. /\ s.tokens[k].literalCode \in 0..CodeMax
        /\ s.tokens[k].matchCode \in 0..CodeMax
    BY <1>2 DEF Token
  <2>3. k \in 0..n /\ k \in Nat
    BY <1>2
  <2>4. LiteralLength(s, k) \in Nat
    <3>1. CASE s.tokens[k].literalCode < CodeMax
      BY <2>2, <3>1, FormatAssumption DEF LiteralLength
    <3>2. CASE ~ (s.tokens[k].literalCode < CodeMax)
      <4>1. s.tokens[k].literalCode = CodeMax
        BY <2>2, <3>2, FormatAssumption
      <4>2. LongLiterals(s, k) \in 1..LongLiterals(s, n)
        <5>1. LongLiterals(s, b) \in 0..b /\ LongLiterals(s, k) = LongLiterals(s, b) + 1
          BY <2>1, <4>1, EntriesCounted
        <5>2. LongLiterals(s, k) <= LongLiterals(s, n) /\ LongLiterals(s, n) \in 0..n
          BY <1>2, <2>3, EntriesCounted
        <5> QED
          BY <5>1, <5>2
      <4>3. s.extraLiteralLengths[LongLiterals(s, k)] \in Nat
        BY <1>1, <1>3, <4>2
      <4>4. LiteralLength(s, k) = CodeMax + s.extraLiteralLengths[LongLiterals(s, k)]
        BY <3>2 DEF LiteralLength, LongLiterals
      <4> QED
        BY <4>3, <4>4, FormatAssumption
    <3> QED
      BY <3>1, <3>2
  <2>5. MatchLength(s, k) \in Nat \ {0}
    <3>1. CASE s.tokens[k].matchCode < CodeMax
      BY <2>2, <3>1, FormatAssumption DEF MatchLength
    <3>2. CASE ~ (s.tokens[k].matchCode < CodeMax)
      <4>1. s.tokens[k].matchCode = CodeMax
        BY <2>2, <3>2, FormatAssumption
      <4>2. LongMatches(s, k) \in 1..LongMatches(s, n)
        <5>1. LongMatches(s, b) \in 0..b /\ LongMatches(s, k) = LongMatches(s, b) + 1
          BY <2>1, <4>1, EntriesCounted
        <5>2. LongMatches(s, k) <= LongMatches(s, n) /\ LongMatches(s, n) \in 0..n
          BY <1>2, <2>3, EntriesCounted
        <5> QED
          BY <5>1, <5>2
      <4>3. s.extraMatchLengths[LongMatches(s, k)] \in Nat
        BY <1>1, <1>3, <4>2
      <4>4. MatchLength(s, k) = 1 + CodeMax + s.extraMatchLengths[LongMatches(s, k)]
        BY <3>2 DEF MatchLength, LongMatches
      <4> QED
        BY <4>3, <4>4, FormatAssumption
    <3> QED
      BY <3>1, <3>2
  <2> QED
    BY <2>4, <2>5
<1> QED
  BY <1>2, <1>4 DEF LengthsKnown
-----------------------------------------------------------------------------
\* Meaning

\* The output, as far as it goes, is what the first k tokens say of it, with
\* every position of a match described by an earlier one.
OutputFollows(s, k, out) ==
  \A j \in 1..k : \A p \in 1..Len(out) :
    /\ MatchEnd(s, j - 1) < p /\ p <= MatchStart(s, j) =>
         out[p] = s.literals[p - MatchedThrough(s, j - 1)]
    /\ MatchStart(s, j) < p /\ p <= MatchEnd(s, j) =>
         out[p] = out[p - RecentOffsets(s)[j][1]]

\* The first k tokens passed every check the format makes of one token.
TokensFit(s, k) ==
  \A j \in 1..k :
    ~ s.tokens[j].reserved /\ RecentOffsets(s)[j][1] \in 1..MatchStart(s, j)
\* Streams that describe a chunk keep every limit, token by token.
LEMMA WellFormedBounds ==
  ASSUME NEW s \in Streams, NEW n \in Nat, WellFormed(s, n)
  PROVE  /\ Len(s.tokens) \in Nat /\ Tokens(s) = 1..Len(s.tokens)
         /\ LengthsKnown(s, Len(s.tokens))
         /\ Len(s.tokens) <= n /\ Len(s.literals) <= n
         /\ Len(s.offsets) = Explicits(s, Len(s.tokens))
         /\ Len(s.extraLiteralLengths) = LongLiterals(s, Len(s.tokens))
         /\ Len(s.extraMatchLengths) = LongMatches(s, Len(s.tokens))
         /\ \A k \in 1..Len(s.tokens) :
              /\ ~ s.tokens[k].reserved
              /\ RecentOffsets(s)[k][1] \in 1..MatchStart(s, k)
              /\ LiteralsThrough(s, k) <= Len(s.literals)
              /\ MatchEnd(s, k) <= n
         /\ MatchEnd(s, Len(s.tokens))
              + (Len(s.literals) - LiteralsThrough(s, Len(s.tokens))) = n
<1> DEFINE t == Len(s.tokens)
<1>1. /\ \A k \in Tokens(s) : ~ s.tokens[k].reserved
      /\ EntriesAreTaken(s)
      /\ LiteralsThrough(s, t) <= Len(s.literals)
      /\ Len(s.literals) + MatchedThrough(s, t) = n
      /\ \A k \in Tokens(s) : RecentOffsets(s)[k][1] \in 1..MatchStart(s, k)
  BY DEF WellFormed
<1>2. t \in Nat /\ Tokens(s) = 1..t /\ LengthsKnown(s, t)
  BY <1>1, AllLengthsKnown
<1>3. /\ Len(s.offsets) = Explicits(s, t)
      /\ Len(s.extraLiteralLengths) = LongLiterals(s, t)
      /\ Len(s.extraMatchLengths) = LongMatches(s, t)
  BY <1>1 DEF EntriesAreTaken, Explicits, LongLiterals, LongMatches
<1>4. t \in 0..t
  BY <1>2
<1>5. PICK l, a, b \in Nat :
        l = Len(s.literals) /\ a = LiteralsThrough(s, t) /\ b = MatchedThrough(s, t)
  <2>1. LiteralsThrough(s, t) \in Nat /\ MatchedThrough(s, t) \in Nat
    BY <1>2, <1>4, PositionsGrow
  <2>2. Len(s.literals) \in Nat
    BY DEF Streams
  <2> QED
    BY <2>1, <2>2
<1>6. a <= l /\ l + b = n /\ t <= b /\ MatchEnd(s, t) = a + b
  <2>1. MatchedThrough(s, t) >= t
    BY <1>2, <1>4, MatchesFollow
  <2> QED
    BY <2>1, <1>1, <1>2, <1>5 DEF MatchEnd
<1>7. ASSUME NEW k \in 1..t
      PROVE  LiteralsThrough(s, k) <= l /\ MatchEnd(s, k) <= n
  <2>1. k \in 0..t
    BY <1>2
  <2>2. LiteralsThrough(s, k) <= a /\ LiteralsThrough(s, k) \in Nat
    BY <2>1, <1>2, <1>4, <1>5, PositionsGrow
  <2>3. MatchEnd(s, k) <= a + b /\ MatchEnd(s, k) \in Nat
    BY <2>1, <1>2, <1>4, <1>6, MatchesFollow
  <2> QED
    BY <2>2, <2>3, <1>6
<1>8. MatchEnd(s, t) + (Len(s.literals) - LiteralsThrough(s, t)) = n
  BY <1>5, <1>6
<1>9. t <= n /\ Len(s.literals) <= n
  BY <1>2, <1>5, <1>6
<1> QED
  BY <1>1, <1>2, <1>3, <1>5, <1>7, <1>8, <1>9

\* A position inside a match has an earlier source; one in no match is behind a
\* number of whole matches, and the literal that number says.
Covering(s, p) == {k \in Tokens(s) : MatchStart(s, k) < p /\ p <= MatchEnd(s, k)}
Before(s, p) == {k \in Tokens(s) : MatchEnd(s, k) < p}

LEMMA PositionsMean ==
  ASSUME NEW s \in Streams, NEW n \in Nat, WellFormed(s, n), NEW out, Len(out) = n,
         OutputFollows(s, Len(s.tokens), out),
         \A p \in 1..n : MatchEnd(s, Len(s.tokens)) < p =>
           out[p] = s.literals[p - MatchedThrough(s, Len(s.tokens))],
         NEW p \in 1..n
  PROVE  /\ Covering(s, p) = {} =>
              out[p] = s.literals[p - MatchedThrough(s, Cardinality(Before(s, p)))]
         /\ \A k \in Covering(s, p) :
              /\ p - RecentOffsets(s)[k][1] \in 1..(p - 1)
              /\ out[p] = out[p - RecentOffsets(s)[k][1]]
<1> DEFINE t == Len(s.tokens)
           covering == {k \in Tokens(s) : MatchStart(s, k) < p /\ p <= MatchEnd(s, k)}
           before == {k \in Tokens(s) : MatchEnd(s, k) < p}
<1>1. /\ t \in Nat /\ Tokens(s) = 1..t /\ t \in 0..t /\ LengthsKnown(s, t)
      /\ \A k \in 1..t : RecentOffsets(s)[k][1] \in 1..MatchStart(s, k)
  BY WellFormedBounds
<1>2. /\ MatchEnd(s, 0) = 0
      /\ \A k \in 1..t : MatchStart(s, k) \in Nat
      /\ \A k \in 0..t : MatchEnd(s, k) \in Nat
      /\ \A k \in 0..t : \A j \in 0..k : MatchEnd(s, j) <= MatchEnd(s, k)
  BY <1>1, MatchesFollow
<1>3. ASSUME NEW k \in covering
      PROVE  /\ p - RecentOffsets(s)[k][1] \in 1..(p - 1)
             /\ out[p] = out[p - RecentOffsets(s)[k][1]]
  <2>1. k \in 1..t /\ MatchStart(s, k) < p /\ p <= MatchEnd(s, k)
    BY <1>1
  <2>2. PICK d, b \in Nat : d = RecentOffsets(s)[k][1] /\ b = MatchStart(s, k) /\ d \in 1..b
    BY <1>1, <1>2, <2>1
  <2>3. p - d \in 1..(p - 1)
    BY <2>1, <2>2
  <2>4. out[p] = out[p - RecentOffsets(s)[k][1]]
    BY <2>1, Zenon DEF OutputFollows
  <2> QED
    BY <2>2, <2>3, <2>4
<1>4. ASSUME covering = {}
      PROVE  out[p] = s.literals[p - MatchedThrough(s, Cardinality(before))]
  <2> DEFINE B == {j \in 0..t : MatchEnd(s, j) < p}
  <2>1. PICK b \in B : \A j \in B : j <= b
    <3>1. B \subseteq 0..t /\ 0 \in B
      BY <1>1, <1>2
    <3> HIDE DEF B
    <3> QED
      BY <1>1, <3>1, GreatestNatural
  <2>2. b \in 0..t /\ b \in Nat /\ MatchEnd(s, b) < p
    BY <1>1, <2>1
  <2>3. before = 1..b
    <3>1. ASSUME NEW j \in before PROVE j \in 1..b
      <4>1. j \in 1..t /\ j \in 0..t /\ MatchEnd(s, j) < p
        BY <1>1, <3>1
      <4>2. j <= b
        BY <2>1, <4>1
      <4> QED
        BY <2>2, <4>1, <4>2
    <3>2. ASSUME NEW j \in 1..b PROVE j \in before
      <4>1. j \in 1..t /\ j \in 0..b
        BY <1>1, <2>2
      <4>2. MatchEnd(s, j) <= MatchEnd(s, b) /\ MatchEnd(s, j) \in Nat /\ MatchEnd(s, b) \in Nat
        BY <1>2, <2>2, <4>1
      <4>3. MatchEnd(s, j) < p
        BY <2>2, <4>2
      <4> QED
        BY <1>1, <4>1, <4>3
    <3> QED
      BY <3>1, <3>2
  <2>4. Cardinality(before) = b
    <3>1. Cardinality(1..b) = b
      BY <2>2, FS_Interval
    <3> QED
      BY <2>3, <3>1
  <2>5. CASE b = t
    BY <2>2, <2>4, <2>5
  <2>6. CASE b # t
    <3>1. b + 1 \in 1..t /\ b + 1 \in 0..t /\ (b + 1) - 1 = b
      BY <1>1, <2>2, <2>6
    <3>2. ~ (MatchEnd(s, b + 1) < p)
      <4>1. b + 1 \notin B
        BY <2>1, <2>2
      <4> QED
        BY <3>1, <4>1
    <3>3. b + 1 \notin covering
      BY <1>4
    <3>4. p <= MatchStart(s, b + 1)
      <4>1. MatchStart(s, b + 1) \in Nat /\ MatchEnd(s, b + 1) \in Nat
        BY <1>2, <3>1
      <4> QED
        BY <1>1, <3>1, <3>2, <3>3, <4>1
    <3>5. MatchEnd(s, (b + 1) - 1) < p
      BY <2>2, <3>1
    <3>6. out[p] = s.literals[p - MatchedThrough(s, (b + 1) - 1)]
      BY <3>1, <3>4, <3>5, Zenon DEF OutputFollows
    <3> QED
      BY <2>4, <3>1, <3>6
  <2> QED
    BY <2>5, <2>6
<1> QED
  BY <1>3, <1>4 DEF Covering, Before

\* Values of which each is given, or the value of an earlier position, are the
\* meaning: there is just one such sequence.
LEMMA MeaningIsUnique ==
  ASSUME NEW s \in Streams, NEW n \in Nat, WellFormed(s, n), NEW out \in Seq(Value),
         Len(out) = n, OutputFollows(s, Len(s.tokens), out),
         \A p \in 1..n : MatchEnd(s, Len(s.tokens)) < p =>
           out[p] = s.literals[p - MatchedThrough(s, Len(s.tokens))]
  PROVE  out = Meaning(s, n)
<1> DEFINE covering(p) == Covering(s, p)
           given(p) == s.literals[p - MatchedThrough(s, Cardinality(Before(s, p)))]
           source(p) == p - RecentOffsets(s)[CHOOSE k \in covering(p) : TRUE][1]
           Means(v) == v = [p \in 1..n |-> IF covering(p) = {} THEN given(p)
                                           ELSE v[source(p)]]
           value == CHOOSE v : Means(v)
<1>1. ASSUME NEW p \in 1..n
      PROVE  /\ covering(p) = {} => out[p] = given(p)
             /\ covering(p) # {} =>
                  source(p) \in 1..(p - 1) /\ out[p] = out[source(p)]
  <2>1. /\ covering(p) = {} => out[p] = given(p)
        /\ \A k \in covering(p) :
             /\ p - RecentOffsets(s)[k][1] \in 1..(p - 1)
             /\ out[p] = out[p - RecentOffsets(s)[k][1]]
    BY PositionsMean
  <2>2. covering(p) # {} => (CHOOSE k \in covering(p) : TRUE) \in covering(p)
    <3> HIDE DEF covering
    <3> QED
      OBVIOUS
  <2> HIDE DEF covering
  <2> QED
    BY <2>1, <2>2
<1>2. Meaning(s, n) = [p \in 1..n |-> value[p]]
  BY DEF Meaning, Covering, Before
<1> HIDE DEF covering, given, source
<1>3. Means(out)
  <2>1. out = [p \in 1..n |-> out[p]]
    OBVIOUS
  <2>2. \A p \in 1..n : out[p] = IF covering(p) = {} THEN given(p) ELSE out[source(p)]
    BY <1>1
  <2> QED
    BY <2>1, <2>2
<1>4. Means(value)
  <2> HIDE DEF Means
  <2> QED
    BY <1>3
<1>5. \A p \in 1..n : value[p] = IF covering(p) = {} THEN given(p) ELSE value[source(p)]
  <2> HIDE DEF value
  <2> QED
    BY <1>4
<1> HIDE DEF value, Means
<1> DEFINE S == {m \in 0..n : \A p \in 1..m : value[p] = out[p]}
<1>6. 0 \in S
  OBVIOUS
<1>7. ASSUME NEW m \in 1..n, m - 1 \in S PROVE m \in S
  <2>1. ASSUME NEW p \in 1..(m - 1) PROVE value[p] = out[p]
    BY <1>7
  <2>2. value[m] = out[m]
    <3>1. CASE covering(m) = {}
      BY <1>1, <1>5, <3>1
    <3>2. CASE covering(m) # {}
      <4>1. source(m) \in 1..(m - 1) /\ out[m] = out[source(m)]
        BY <1>1, <3>2
      <4>2. value[m] = value[source(m)]
        BY <1>5, <3>2
      <4> QED
        BY <2>1, <4>1, <4>2
    <3> QED
      BY <3>1, <3>2
  <2>3. \A p \in 1..m : p = m \/ p \in 1..(m - 1)
    OBVIOUS
  <2> QED
    BY <2>1, <2>2, <2>3
<1> HIDE DEF S
<1>8. 0..n \subseteq S
  BY <1>6, <1>7, InductionUpTo
<1>9. \A p \in 1..n : value[p] = out[p]
  <2>1. n \in S
    BY <1>8
  <2> QED
    BY <2>1 DEF S
<1>10. out = [p \in 1..n |-> out[p]]
  OBVIOUS
<1>11. [p \in 1..n |-> out[p]] = [p \in 1..n |-> value[p]]
  BY <1>9
<1> QED
  BY <1>2, <1>10, <1>11

=============================================================================
