---------------------------- MODULE StoreOpsProofs ----------------------------
(***************************************************************************)
(* What the operations on the forest and on the state do, for any forest:  *)
(* sequences and folds, sums and induction over numbers and headers, the   *)
(* trees of BlockForest, and the pushes, pops and applications of StoreOps *)
(* and of the ledger.  The facts the theorems of StoreProofs rest on.      *)
(***************************************************************************)
EXTENDS LedgerState, UtxoSetOpsProofs, SequenceTheorems, FunctionTheorems, FiniteSetTheorems,
        WellFoundedInduction, TLAPS

-----------------------------------------------------------------------------
(* Induction and finite orders.                                             *)

LEMMA NatSetInduction ==
    ASSUME NEW T, 0 \in T, \A n \in Nat : n \in T => n + 1 \in T
    PROVE  Nat \subseteq T
<1> SUFFICES ASSUME Nat \ T # {} PROVE FALSE
  OBVIOUS
<1> DEFINE R == OpToRel(<, Nat)
           U == Nat \ T
<1>1. IsWellFoundedOn(R, Nat)
  BY NatLessThanWellFounded
<1>2. \A x, y \in Nat : x < y => <<x, y>> \in R
  BY DEF OpToRel
<1> HIDE DEF R
<1>3. PICK m \in U : \A y \in U : ~ (<<y, m>> \in R)
  BY <1>1, WFMin
<1>4. m # 0 /\ m \in Nat
  OBVIOUS
<1>5. m - 1 \in Nat /\ m - 1 < m
  BY <1>4
<1>6. m - 1 \notin U
  BY <1>2, <1>3, <1>4, <1>5
<1>7. m - 1 + 1 = m
  BY <1>4
<1> QED  BY <1>4, <1>5, <1>6, <1>7

LEMMA MinExists ==
    ASSUME NEW S \in SUBSET Nat, S # {}
    PROVE  Min(S) \in S /\ \A n \in S : Min(S) <= n
<1> DEFINE R == OpToRel(<, Nat)
<1>1. IsWellFoundedOn(R, Nat)
  BY NatLessThanWellFounded
<1>2. \A x, y \in Nat : x < y => <<x, y>> \in R
  BY DEF OpToRel
<1> HIDE DEF R
<1>3. PICK m \in S : \A y \in S : ~ (<<y, m>> \in R)
  BY <1>1, WFMin
<1>4. ASSUME NEW n \in S PROVE m <= n
  <2>1. ~ (n < m) /\ n \in Nat /\ m \in Nat
    BY <1>2, <1>3
  <2> QED  BY <2>1
<1> QED  BY <1>3, <1>4 DEF Min

\* The elements that are before i.
Earlier(I, R, i) == {j \in I : <<j, i>> \in R}

StrictOrder(I, R) ==
    /\ \A i \in I : <<i, i>> \notin R
    /\ \A i, j \in I : i = j \/ <<i, j>> \in R \/ <<j, i>> \in R
    /\ \A i, j, k \in I : <<i, j>> \in R /\ <<j, k>> \in R => <<i, k>> \in R

\* In a finite order each element has a rank of its own, and each rank has an
\* element.
LEMMA RankFacts ==
    ASSUME NEW I, IsFiniteSet(I), NEW R, StrictOrder(I, R)
    PROVE  /\ \A i \in I : Cardinality(Earlier(I, R, i)) \in 0 .. Cardinality(I) - 1
           /\ \A i, j \in I :
                Cardinality(Earlier(I, R, i)) = Cardinality(Earlier(I, R, j)) => i = j
           /\ \A k \in 0 .. Cardinality(I) - 1 :
                \E i \in I : Cardinality(Earlier(I, R, i)) = k
<1> DEFINE n == Cardinality(I)
           f == [i \in I |-> Cardinality(Earlier(I, R, i))]
<1>1. n \in Nat
  BY FS_CardinalityType
<1>2. ASSUME NEW i \in I
      PROVE  /\ IsFiniteSet(Earlier(I, R, i))
             /\ Cardinality(Earlier(I, R, i)) \in 0 .. n - 1
  <2>1. Earlier(I, R, i) \in SUBSET I /\ Earlier(I, R, i) # I
    BY DEF Earlier, StrictOrder
  <2>2. /\ IsFiniteSet(Earlier(I, R, i))
        /\ Cardinality(Earlier(I, R, i)) <= n
        /\ Cardinality(Earlier(I, R, i)) # n
    BY <2>1, FS_Subset
  <2>3. Cardinality(Earlier(I, R, i)) \in Nat
    BY <2>2, FS_CardinalityType
  <2> QED  BY <1>1, <2>2, <2>3
<1>3. ASSUME NEW i \in I, NEW j \in I, <<i, j>> \in R
      PROVE  f[i] # f[j]
  <2>1. /\ Earlier(I, R, i) \in SUBSET Earlier(I, R, j)
        /\ i \in Earlier(I, R, j) \ Earlier(I, R, i)
    BY <1>3 DEF Earlier, StrictOrder
  <2>2. Cardinality(Earlier(I, R, i)) # Cardinality(Earlier(I, R, j))
    BY <1>2, <2>1, FS_Subset
  <2> QED  BY <2>2
<1>4. \A i, j \in I : f[i] = f[j] => i = j
  BY <1>3 DEF StrictOrder
<1>5. f \in [I -> 0 .. n - 1]
  BY <1>2
<1>6. IsFiniteSet(0 .. n - 1) /\ Cardinality(0 .. n - 1) = n
  <2>1. 0 \in Int /\ n - 1 \in Int /\ n - 1 - 0 + 1 = n /\ (0 > n - 1 => n = 0)
    BY <1>1
  <2> HIDE DEF n
  <2> QED  BY <2>1, FS_Interval
<1> HIDE DEF f
<1>7. f \in Injection(I, 0 .. n - 1)
  BY <1>4, <1>5, Fun_IsInj
<1>8. f \in Surjection(I, 0 .. n - 1)
  BY <1>6, <1>7, FS_Injection
<1>9. \A k \in 0 .. n - 1 : \E i \in I : f[i] = k
  BY <1>8 DEF Surjection
<1>10. \A i \in I : f[i] = Cardinality(Earlier(I, R, i))
  BY DEF f
<1> QED  BY <1>2, <1>4, <1>9, <1>10

\* A finite order that is not empty has a first element.
LEMMA FirstExists ==
    ASSUME NEW I, IsFiniteSet(I), I # {}, NEW R, StrictOrder(I, R)
    PROVE  \E i \in I : \A j \in I : i = j \/ <<i, j>> \in R
<1>1. Cardinality(I) \in Nat /\ Cardinality(I) # 0
  BY FS_CardinalityType, FS_EmptySet
<1>2. PICK i \in I : Cardinality(Earlier(I, R, i)) = 0
  <2>1. 0 \in 0 .. Cardinality(I) - 1
    BY <1>1
  <2> QED  BY <2>1, RankFacts
<1>3. Earlier(I, R, i) \in SUBSET I
  BY DEF Earlier
<1>4. Earlier(I, R, i) = {}
  BY <1>2, <1>3, FS_Subset, FS_EmptySet
<1> QED  BY <1>4 DEF Earlier, StrictOrder

LEMMA MaxExists ==
    ASSUME NEW S \in SUBSET Nat, IsFiniteSet(S), S # {}
    PROVE  Max(S) \in S /\ \A n \in S : n <= Max(S)
<1> DEFINE R == {x \in S \X S : x[1] > x[2]}
<1>1. \A m, n \in S : <<m, n>> \in R <=> m > n
  OBVIOUS
<1> HIDE DEF R
<1>2. StrictOrder(S, R)
  <2>1. \A i, j, k \in S : i > j /\ j > k => i > k
    OBVIOUS
  <2>2. \A i, j \in S : i = j \/ i > j \/ j > i
    OBVIOUS
  <2>3. \A i \in S : ~ (i > i)
    OBVIOUS
  <2> QED  BY <1>1, <2>1, <2>2, <2>3 DEF StrictOrder
<1>3. PICK m \in S : \A n \in S : m = n \/ <<m, n>> \in R
  BY <1>2, FirstExists
<1>4. ASSUME NEW n \in S PROVE m >= n
  <2>1. m \in Nat /\ n \in Nat /\ (m = n \/ m > n)
    BY <1>1, <1>3
  <2> QED  BY <2>1
<1>5. Max(S) \in S /\ \A n \in S : Max(S) >= n
  BY <1>3, <1>4 DEF Max
<1> QED  BY <1>5

-----------------------------------------------------------------------------
(* The order of paths.                                                      *)

Path == Seq(Nat \ {0})

LEMMA PathFacts ==
    ASSUME NEW p \in Path
    PROVE  /\ Len(p) \in Nat
           /\ DOMAIN p = 1 .. Len(p)
           /\ \A i \in 1 .. Len(p) : p[i] \in Nat \ {0}
BY DEF Path

LEMMA PrecedesTotal ==
    ASSUME NEW p \in Path, NEW q \in Path
    PROVE  Precedes(p, q) \/ Precedes(q, p)
<1> DEFINE D == {i \in DOMAIN p \cap DOMAIN q : p[i] # q[i]}
<1>1. CASE D = {}
  <2>1. CASE Len(p) <= Len(q)
    BY <1>1, <2>1, PathFacts DEF Precedes
  <2>2. CASE Len(q) <= Len(p)
    BY <1>1, <2>2, PathFacts DEF Precedes
  <2> QED  BY <2>1, <2>2, PathFacts
<1>2. CASE D # {}
  <2>1. D \in SUBSET Nat
    BY PathFacts
  <2>2. PICK m \in D : \A i \in D : m <= i
    BY <1>2, <2>1, MinExists
  <2>3. /\ m \in DOMAIN p \cap DOMAIN q
        /\ p[m] < q[m] \/ q[m] < p[m]
        /\ \A j \in 1 .. m - 1 : p[j] = q[j]
    BY <2>1, <2>2, PathFacts
  <2> QED  BY <2>3 DEF Precedes
<1> QED  BY <1>1, <1>2

LEMMA PrecedesAntisymmetric ==
    ASSUME NEW p \in Path, NEW q \in Path, Precedes(p, q), Precedes(q, p)
    PROVE  p = q
<1> DEFINE Prefix(x, y) == \A i \in DOMAIN x : i \in DOMAIN y /\ x[i] = y[i]
           Smaller(x, y, i) == /\ i \in DOMAIN x \cap DOMAIN y
                               /\ \A j \in 1 .. i - 1 : x[j] = y[j]
                               /\ x[i] < y[i]
<1>0. /\ Prefix(p, q) \/ \E i : Smaller(p, q, i)
      /\ Prefix(q, p) \/ \E i : Smaller(q, p, i)
  BY DEF Precedes
<1>1. CASE Prefix(p, q) /\ Prefix(q, p)
  <2>1. Len(p) = Len(q)
    BY <1>1, PathFacts
  <2> QED  BY <1>1, <2>1, PathFacts, SeqEqual DEF Path
<1>2. ASSUME NEW i, Smaller(p, q, i), Prefix(q, p) PROVE FALSE
  BY <1>2, PathFacts
<1>3. ASSUME NEW i, Smaller(q, p, i), Prefix(p, q) PROVE FALSE
  BY <1>3, PathFacts
<1>4. ASSUME NEW i, NEW k, Smaller(p, q, i), Smaller(q, p, k) PROVE FALSE
  BY <1>4, PathFacts
<1> QED  BY <1>0, <1>1, <1>2, <1>3, <1>4

LEMMA PrecedesTransitive ==
    ASSUME NEW p \in Path, NEW q \in Path, NEW r \in Path,
           Precedes(p, q), Precedes(q, r)
    PROVE  Precedes(p, r)
<1> DEFINE Prefix(x, y) == \A i \in DOMAIN x : i \in DOMAIN y /\ x[i] = y[i]
           Smaller(x, y, i) == /\ i \in DOMAIN x \cap DOMAIN y
                               /\ \A j \in 1 .. i - 1 : x[j] = y[j]
                               /\ x[i] < y[i]
<1>0. /\ Prefix(p, q) \/ \E i : Smaller(p, q, i)
      /\ Prefix(q, r) \/ \E i : Smaller(q, r, i)
  BY DEF Precedes
<1>1. CASE Prefix(p, q) /\ Prefix(q, r)
  BY <1>1 DEF Precedes
<1>2. ASSUME NEW i, Smaller(p, q, i), Prefix(q, r) PROVE Smaller(p, r, i)
  <2>1. i \in DOMAIN r /\ q[i] = r[i]
    BY <1>2
  <2>2. \A j \in 1 .. i - 1 : j \in DOMAIN q /\ q[j] = r[j]
    BY <1>2, PathFacts
  <2> QED  BY <1>2, <2>1, <2>2
<1>3. ASSUME NEW k, Smaller(q, r, k), Prefix(p, q) PROVE Precedes(p, r)
  <2>1. CASE k \in DOMAIN p
    <3>1. Smaller(p, r, k)
      BY <1>3, <2>1, PathFacts
    <3> QED  BY <3>1 DEF Precedes
  <2>2. CASE k \notin DOMAIN p
    <3>1. Prefix(p, r)
      BY <1>3, <2>2, PathFacts
    <3> QED  BY <3>1 DEF Precedes
  <2> QED  BY <2>1, <2>2
<1>4. ASSUME NEW i, NEW k, Smaller(p, q, i), Smaller(q, r, k) PROVE Precedes(p, r)
  <2>0. i \in Nat /\ k \in Nat
    BY <1>4, PathFacts
  <2>1. CASE i <= k
    <3>1. Smaller(p, r, i)
      BY <1>4, <2>0, <2>1, PathFacts
    <3> QED  BY <3>1 DEF Precedes
  <2>2. CASE k < i
    <3>1. Smaller(p, r, k)
      BY <1>4, <2>0, <2>2, PathFacts
    <3> QED  BY <3>1 DEF Precedes
  <2> QED  BY <2>0, <2>1, <2>2
<1>5. ASSUME NEW i, Smaller(p, r, i) PROVE Precedes(p, r)
  BY <1>5 DEF Precedes
<1> QED  BY <1>0, <1>1, <1>2, <1>3, <1>4, <1>5

\* find_mut finds a block that is there.
LEMMA FindMutFinds ==
    ASSUME NEW tree, IsFiniteSet(DOMAIN tree), DOMAIN tree \subseteq Path,
           NEW block, Holds(tree, block)
    PROVE  FindMut(tree, block) \in Occurrences(tree, block)
<1> DEFINE I == Occurrences(tree, block)
           R == {x \in I \X I : x[1] # x[2] /\ Precedes(x[1], x[2])}
<1>1. I \in SUBSET DOMAIN tree /\ I # {}
  BY DEF Occurrences, Holds
<1>2. IsFiniteSet(I)
  BY <1>1, FS_Subset
<1>3. \A p, q \in I : <<p, q>> \in R <=> p # q /\ Precedes(p, q)
  OBVIOUS
<1> HIDE DEF I, R
<1>4. StrictOrder(I, R)
  <2>1. \A p \in I : <<p, p>> \notin R
    BY <1>3
  <2>2. \A p, q \in I : p = q \/ <<p, q>> \in R \/ <<q, p>> \in R
    BY <1>1, <1>3, PrecedesTotal
  <2>3. ASSUME NEW p \in I, NEW q \in I, NEW r \in I, <<p, q>> \in R, <<q, r>> \in R
        PROVE  <<p, r>> \in R
    <3>1. p \in Path /\ q \in Path /\ r \in Path
      BY <1>1
    <3>2. Precedes(p, r) /\ p # r
      BY <1>3, <2>3, <3>1, PrecedesTransitive, PrecedesAntisymmetric
    <3> QED  BY <1>3, <3>2
  <2> QED  BY <2>1, <2>2, <2>3 DEF StrictOrder
<1>5. PICK p \in I : \A q \in I : p = q \/ <<p, q>> \in R
  BY <1>1, <1>2, <1>4, FirstExists
<1>6. \A q \in I : Precedes(p, q)
  <2>1. Precedes(p, p)
    BY DEF Precedes
  <2> QED  BY <1>3, <1>5, <2>1
<1> QED  BY <1>5, <1>6 DEF FindMut, I

-----------------------------------------------------------------------------
(* Paths put together and taken apart.  Join and Child are names for what   *)
(* the provers otherwise take apart too early.                              *)

Join(p, q) == p \o q
Child(p, k) == Append(p, k)

LEMMA JoinFacts ==
    ASSUME NEW p \in Path, NEW q \in Path
    PROVE  /\ Join(p, q) \in Path
           /\ Join(p, << >>) = p
           /\ Join(<< >>, p) = p
           /\ << >> \in Path
BY ConcatProperties, ConcatEmptySeq, EmptySeq DEF Path, Join

LEMMA JoinAssociative ==
    ASSUME NEW p \in Path, NEW q \in Path, NEW r \in Path
    PROVE  Join(Join(p, q), r) = Join(p, Join(q, r))
<1> DEFINE S == Nat \ {0}
<1>1. p \in Seq(S) /\ q \in Seq(S) /\ r \in Seq(S)
  BY DEF Path
<1> HIDE DEF S
<1>2. (p \o q) \o r = p \o (q \o r)
  BY ONLY <1>1, ConcatAssociative
<1> QED  BY <1>2 DEF Join

LEMMA JoinCancel ==
    ASSUME NEW p \in Path, NEW q \in Path, NEW r \in Path, Join(p, q) = Join(p, r)
    PROVE  q = r
BY ConcatSimplifications DEF Path, Join

LEMMA AppendFacts ==
    ASSUME NEW p \in Path, NEW k \in Nat \ {0}
    PROVE  /\ Append(p, k) \in Path
           /\ Append(p, k) # << >>
           /\ Append(p, k) = p \o <<k>>
           /\ Front(Append(p, k)) = p
<1>1. /\ Append(p, k) \in Path
      /\ Append(p, k) # << >>
      /\ Len(Append(p, k)) = Len(p) + 1
      /\ \A i \in 1 .. Len(p) : Append(p, k)[i] = p[i]
  BY AppendProperties DEF Path
<1>2. Append(p, k) = p \o <<k>>
  BY AppendIsConcat DEF Path
<1>3. Front(Append(p, k)) = p
  <2> DEFINE a == Append(p, k)
             n == Len(a)
  <2> HIDE DEF a
  <2>1. n - 1 = Len(p) /\ n \in Nat /\ Len(p) \in Nat /\ a \in Path
    BY <1>1, PathFacts DEF a
  <2>2. \A i \in 1 .. n - 1 : a[i] \in Nat \ {0}
    BY <2>1, PathFacts
  <2> DEFINE b == SubSeq(a, 1, n - 1)
  <2>3. /\ b \in Path
        /\ Len(b) = Len(p)
        /\ \A i \in 1 .. Len(p) : b[i] = a[i]
    <3>1. 1 \in Int /\ n - 1 \in Int
      BY <2>1
    <3> HIDE DEF n
    <3>2. /\ b \in Seq(Nat \ {0})
          /\ Len(b) = IF 1 <= n - 1 THEN n - 1 - 1 + 1 ELSE 0
          /\ \A i \in 1 .. n - 1 - 1 + 1 : b[i] = a[1 + i - 1]
      BY ONLY <2>2, <3>1, SubSeqProperties
    <3> HIDE DEF b
    <3> QED  BY <2>1, <3>2 DEF Path
  <2> HIDE DEF b
  <2>4. b = p
    BY <1>1, <2>3, SeqEqual DEF Path, a
  <2> QED  BY <2>4 DEF a, b, n, Front
<1> QED  BY <1>1, <1>2, <1>3

LEMMA ChildFacts ==
    ASSUME NEW p \in Path, NEW k \in Nat \ {0}
    PROVE  /\ Child(p, k) \in Path
           /\ Child(p, k) # << >>
           /\ Child(p, k) = Join(p, <<k>>)
           /\ <<k>> \in Path
           /\ Child(<< >>, k) = <<k>>
           /\ Front(Child(p, k)) = p
<1>1. <<k>> \in Path
  BY DEF Path
<1>2. Child(<< >>, k) = <<k>>
  BY DEF Child
<1> QED  BY <1>1, <1>2, AppendFacts DEF Child, Join

LEMMA ChildInjective ==
    ASSUME NEW p \in Path, NEW q \in Path, NEW k \in Nat \ {0}, NEW l \in Nat \ {0},
           Child(p, k) = Child(q, l)
    PROVE  p = q /\ k = l
BY AppendInjective DEF Path, Child

LEMMA IsChild ==
    ASSUME NEW p \in Path, p # << >>
    PROVE  \E q \in Path, k \in Nat \ {0} : p = Child(q, k)
BY SequenceEmptyOrAppend DEF Path, Child

LEMMA ChildOfJoin ==
    ASSUME NEW p \in Path, NEW q \in Path, NEW k \in Nat \ {0}
    PROVE  Child(Join(p, q), k) = Join(p, Child(q, k))
<1> DEFINE s == <<k>>
<1>1. s \in Path
  BY DEF Path
<1>2. Child(Join(p, q), k) = Join(Join(p, q), s) /\ Child(q, k) = Join(q, s)
  BY JoinFacts, ChildFacts
<1> HIDE DEF s
<1> QED  BY <1>1, <1>2, JoinAssociative

\* Of two paths with a common continuation, the shorter leads to the other.
LEMMA JoinLeads ==
    ASSUME NEW a \in Path, NEW b \in Path, NEW c \in Path, NEW d \in Path,
           Join(a, b) = Join(c, d), Len(a) <= Len(c)
    PROVE  \E x \in Path : c = Join(a, x) /\ b = Join(x, d)
<1> DEFINE i == Len(a)
           j == Len(c)
           ab == a \o b
           cd == c \o d
           x == SubSeq(c, i + 1, j)
<1>1. /\ ab \in Path /\ Len(ab) = i + Len(b)
      /\ \A k \in 1 .. i + Len(b) : ab[k] = IF k <= i THEN a[k] ELSE b[k - i]
      /\ cd \in Path /\ Len(cd) = j + Len(d)
      /\ \A k \in 1 .. j + Len(d) : cd[k] = IF k <= j THEN c[k] ELSE d[k - j]
  BY ConcatProperties DEF Path
<1>2. i \in Nat /\ j \in Nat /\ Len(b) \in Nat /\ Len(d) \in Nat /\ ab = cd
  BY PathFacts DEF Join
<1>3. /\ x \in Path /\ Len(x) = j - i
      /\ \A k \in 1 .. j - i : x[k] = c[i + k]
  <2>1. i + 1 \in Int /\ j \in Int /\ \A k \in i + 1 .. j : c[k] \in Nat \ {0}
    BY <1>2, PathFacts
  <2> DEFINE m == i + 1
  <2> HIDE DEF i, j, m
  <2>2. m \in Int /\ j \in Int /\ \A k \in m .. j : c[k] \in Nat \ {0}
    BY <2>1 DEF m
  <2>3. /\ SubSeq(c, m, j) \in Seq(Nat \ {0})
        /\ Len(SubSeq(c, m, j)) = IF m <= j THEN j - m + 1 ELSE 0
        /\ \A k \in 1 .. j - m + 1 : SubSeq(c, m, j)[k] = c[m + k - 1]
    BY ONLY <2>2, SubSeqProperties
  <2> DEFINE y == SubSeq(c, m, j)
  <2>4. x = y
    BY DEF m
  <2> HIDE DEF x, y
  <2>5. i <= j
    BY DEF i, j
  <2>6. m = i + 1
    BY DEF m
  <2>7. /\ y \in Seq(Nat \ {0})
        /\ Len(y) = IF m <= j THEN j - m + 1 ELSE 0
        /\ \A k \in 1 .. j - m + 1 : y[k] = c[m + k - 1]
    BY <2>3 DEF y
  <2> QED  BY <1>2, <2>4, <2>5, <2>6, <2>7 DEF Path
<1> HIDE DEF x, ab, cd
<1>4. c = a \o x
  <2>1. /\ a \o x \in Path /\ Len(a \o x) = j
        /\ \A k \in 1 .. j : (a \o x)[k] = IF k <= i THEN a[k] ELSE x[k - i]
    <3>1. /\ a \o x \in Seq(Nat \ {0}) /\ Len(a \o x) = i + Len(x)
          /\ \A k \in 1 .. i + Len(x) : (a \o x)[k] = IF k <= i THEN a[k] ELSE x[k - i]
      BY <1>3, ConcatProperties DEF Path
    <3> QED  BY <1>2, <1>3, <3>1 DEF Path
  <2>2. \A k \in 1 .. j : (a \o x)[k] = c[k]
    <3>1. ASSUME NEW k \in 1 .. j PROVE (a \o x)[k] = c[k]
      <4>1. CASE k <= i
        BY <1>1, <1>2, <2>1, <4>1
      <4>2. CASE ~ (k <= i)
        <5>1. k - i \in 1 .. j - i /\ i + (k - i) = k
          BY <1>2, <4>2
        <5> QED  BY <1>3, <2>1, <4>2, <5>1
      <4> QED  BY <4>1, <4>2
    <3> QED  BY <3>1
  <2> QED  BY <2>1, <2>2, SeqEqual DEF Path
<1>5. c = Join(a, x)
  BY <1>4 DEF Join
<1>6. b = Join(x, d)
  <2>1. Join(a, Join(x, d)) = Join(c, d)
    BY <1>3, <1>5, JoinAssociative
  <2> QED  BY <1>3, <2>1, JoinFacts, JoinCancel
<1> QED  BY <1>3, <1>5, <1>6

LEMMA JoinComparable ==
    ASSUME NEW p \in Path, NEW q \in Path, NEW n \in Path, NEW r \in Path,
           Join(p, q) = Join(n, r)
    PROVE  \E x \in Path : \/ n = Join(p, x) /\ q = Join(x, r)
                           \/ p = Join(n, x) /\ r = Join(x, q)
<1>1. Len(p) <= Len(n) \/ Len(n) <= Len(p)
  BY PathFacts
<1> QED  BY <1>1, JoinLeads

-----------------------------------------------------------------------------
(* Trees.                                                                   *)

\* A finite set of paths that begins with the root, holds all that leads to a
\* path it holds, and numbers the children of each path from 1.
Shape(D) ==
    /\ IsFiniteSet(D)
    /\ D \subseteq Path
    /\ << >> \in D
    /\ \A p, q \in Path : Join(p, q) \in D => p \in D
    /\ \A p \in D : \E n \in Nat : \A k \in Nat \ {0} : Child(p, k) \in D <=> k <= n

\* Each block is the successor of its parent.
Linked(tree) ==
    \A p \in Path, k \in Nat \ {0} :
        Child(p, k) \in DOMAIN tree => Prev[tree[Child(p, k)]] = tree[p]

TreeOK(tree) == Shape(DOMAIN tree) /\ Linked(tree)

LEMMA ParentInShape ==
    ASSUME NEW D, Shape(D), NEW p \in Path, NEW k \in Nat \ {0}, Child(p, k) \in D
    PROVE  p \in D
<1>1. Child(p, k) = Join(p, <<k>>) /\ <<k>> \in Path
  BY ChildFacts
<1> QED  BY <1>1 DEF Shape

LEMMA LeafOK ==
    ASSUME NEW block
    PROVE  /\ TreeOK(Leaf(block))
           /\ Root(Leaf(block)) = block
           /\ Range(Leaf(block)) = {block}
<1> DEFINE D == {<< >>}
<1>1. DOMAIN Leaf(block) = D /\ Leaf(block)[<< >>] = block
  BY DEF Leaf
<1>2. << >> \in Path
  BY EmptySeq DEF Path
<1>3. \A p, q \in Path : Join(p, q) = << >> => p = << >>
  BY ConcatEqualIffEmpty DEF Path, Join
<1>4. \A k \in Nat \ {0} : Child(<< >>, k) \notin D
  BY <1>2, ChildFacts
<1>5. \E n \in Nat : \A k \in Nat \ {0} : Child(<< >>, k) \in D <=> k <= n
  <2>1. \A k \in Nat \ {0} : Child(<< >>, k) \in D <=> k <= 0
    BY <1>4
  <2> QED  BY <2>1
<1>6. IsFiniteSet(D)
  BY FS_Singleton
<1>7. Shape(D)
  BY <1>2, <1>3, <1>5, <1>6 DEF Shape
<1>8. Linked(Leaf(block))
  BY <1>1, ChildFacts DEF Linked
<1>9. Range(Leaf(block)) = {block}
  BY <1>1 DEF Range
<1> QED  BY <1>1, <1>7, <1>8, <1>9 DEF TreeOK, Root

\* The children of a path, counted.
LEMMA ChildrenCounted ==
    ASSUME NEW tree, Shape(DOMAIN tree), NEW p \in DOMAIN tree,
           NEW n \in Nat, \A k \in Nat \ {0} : Child(p, k) \in DOMAIN tree <=> k <= n
    PROVE  Cardinality(Children(tree, p)) = n
<1> DEFINE C == Children(tree, p)
           f == [k \in 1 .. n |-> Child(p, k)]
<1>0. p \in Path /\ \A k \in 1 .. n : k \in Nat \ {0}
  BY DEF Shape
<1>1. ASSUME NEW k \in 1 .. n PROVE f[k] \in C
  <2>1. k \in Nat \ {0} /\ k <= n /\ f[k] = Child(p, k)
    OBVIOUS
  <2>2. Child(p, k) \in DOMAIN tree /\ Child(p, k) # << >> /\ Front(Child(p, k)) = p
    BY <1>0, <2>1, ChildFacts
  <2> QED  BY <2>1, <2>2 DEF Children
<1>2. ASSUME NEW q \in C PROVE \E k \in 1 .. n : f[k] = q
  <2>1. q \in Path /\ q \in DOMAIN tree /\ q # << >> /\ Front(q) = p
    BY DEF Children, Shape
  <2>2. PICK r \in Path, k \in Nat \ {0} : q = Child(r, k)
    BY <2>1, IsChild
  <2>3. r = p
    BY <2>1, <2>2, ChildFacts
  <2>4. k \in 1 .. n
    BY <2>1, <2>2, <2>3
  <2> QED  BY <2>2, <2>3, <2>4
<1>3. \A k, l \in 1 .. n : f[k] = f[l] => k = l
  BY <1>0, ChildInjective
<1>4. f \in [1 .. n -> C]
  BY <1>1
<1> HIDE DEF f, C
<1>5. f \in Bijection(1 .. n, C)
  BY <1>2, <1>3, <1>4 DEF Bijection, Injection, Surjection, IsInjective
<1>6. ExistsBijection(1 .. n, C)
  BY <1>5 DEF ExistsBijection
<1> QED  BY <1>6, FS_CountingElements DEF C

\* PushChild, taken apart.
LEMMA PushChildFacts ==
    ASSUME NEW tree, Shape(DOMAIN tree), NEW path \in DOMAIN tree,
           NEW sub, Shape(DOMAIN sub)
    PROVE  \E n \in Nat :
             LET new == Child(path, n + 1)
                 r == PushChild(tree, path, sub)
             IN  /\ \A k \in Nat \ {0} : Child(path, k) \in DOMAIN tree <=> k <= n
                 /\ new \in Path
                 /\ DOMAIN r = DOMAIN tree \cup {Join(new, p) : p \in DOMAIN sub}
                 /\ \A p \in DOMAIN tree : r[p] = tree[p]
                 /\ \A p \in DOMAIN sub : r[Join(new, p)] = sub[p]
                 /\ \A p \in Path : Join(new, p) \notin DOMAIN tree
<1>1. PICK n \in Nat : \A k \in Nat \ {0} : Child(path, k) \in DOMAIN tree <=> k <= n
  BY DEF Shape
<1>2. path \in Path /\ n + 1 \in Nat \ {0} /\ Cardinality(Children(tree, path)) = n
  <2>1. Cardinality(Children(tree, path)) = n
    BY <1>1, ChildrenCounted
  <2> QED  BY <2>1 DEF Shape
<1> DEFINE new == Child(path, n + 1)
           below == {Join(new, p) : p \in DOMAIN sub}
           r == PushChild(tree, path, sub)
<1>3. new \in Path /\ new \notin DOMAIN tree
  <2> DEFINE m == n + 1
  <2>1. m \in Nat \ {0} /\ ~ (m <= n)
    OBVIOUS
  <2> HIDE DEF m
  <2>2. Child(path, m) \in Path /\ Child(path, m) \notin DOMAIN tree
    BY <1>1, <1>2, <2>1, ChildFacts
  <2> QED  BY <2>2 DEF m
<1> HIDE DEF new
<1>4. \A p \in Path : Join(new, p) \notin DOMAIN tree
  BY <1>3 DEF Shape
<1>5. r = [p \in DOMAIN tree \cup below |->
             IF p \in below THEN sub[SubSeq(p, Len(new) + 1, Len(p))] ELSE tree[p]]
  BY <1>2 DEF PushChild, Child, Join, new
<1>6. ASSUME NEW p \in DOMAIN sub
      PROVE  SubSeq(Join(new, p), Len(new) + 1, Len(Join(new, p))) = p
  <2> DEFINE j == Join(new, p)
             m == Len(new) + 1
             l == Len(j)
             s == SubSeq(j, m, l)
  <2>1. p \in Path
    BY DEF Shape
  <2>2. /\ j \in Path /\ l = Len(new) + Len(p)
        /\ \A i \in 1 .. Len(new) + Len(p) : j[i] = IF i <= Len(new) THEN new[i]
                                                    ELSE p[i - Len(new)]
    BY <1>3, <2>1, ConcatProperties DEF Path, Join
  <2>3. Len(new) \in Nat /\ Len(p) \in Nat
    BY <1>3, <2>1, PathFacts
  <2>4. m \in Int /\ l \in Int /\ \A i \in m .. l : j[i] \in Nat \ {0}
    BY <2>2, <2>3, PathFacts
  <2>5. m = Len(new) + 1
    OBVIOUS
  <2> HIDE DEF j, m, l
  <2>6. /\ s \in Seq(Nat \ {0})
        /\ Len(s) = IF m <= l THEN l - m + 1 ELSE 0
        /\ \A i \in 1 .. l - m + 1 : s[i] = j[m + i - 1]
    BY ONLY <2>4, SubSeqProperties
  <2> HIDE DEF s
  <2>7. s \in Path /\ Len(s) = Len(p)
    BY <2>2, <2>3, <2>5, <2>6 DEF Path
  <2>8. ASSUME NEW i \in 1 .. Len(s) PROVE s[i] = p[i]
    <3>1. i \in 1 .. l - m + 1 /\ m + i - 1 = Len(new) + i
      BY <2>2, <2>3, <2>5, <2>7
    <3>2. s[i] = j[Len(new) + i]
      BY <2>6, <3>1
    <3>3. /\ Len(new) + i \in 1 .. Len(new) + Len(p)
          /\ ~ (Len(new) + i <= Len(new)) /\ Len(new) + i - Len(new) = i
      BY <2>3, <2>7
    <3> QED  BY <2>2, <3>2, <3>3
  <2>9. s = p
    BY <2>1, <2>7, <2>8, SeqEqual DEF Path
  <2> QED  BY <2>9 DEF s, m, l, j
<1>7. \A p \in DOMAIN tree : p \notin below
  BY <1>4 DEF Shape
<1> HIDE DEF r
<1>8. DOMAIN r = DOMAIN tree \cup below
  BY <1>5
<1>9. \A p \in DOMAIN tree : r[p] = tree[p]
  BY <1>5, <1>7
<1>10. \A p \in DOMAIN sub : r[Join(new, p)] = sub[p]
  BY <1>5, <1>6
<1> QED  BY <1>1, <1>3, <1>4, <1>8, <1>9, <1>10 DEF new, r

\* A subtree that is pushed where it belongs.
LEMMA PushChildOK ==
    ASSUME NEW tree, TreeOK(tree), NEW path \in DOMAIN tree,
           NEW sub, TreeOK(sub), Prev[Root(sub)] = tree[path]
    PROVE  /\ TreeOK(PushChild(tree, path, sub))
           /\ Root(PushChild(tree, path, sub)) = Root(tree)
           /\ Range(PushChild(tree, path, sub)) = Range(tree) \cup Range(sub)
<1> DEFINE r == PushChild(tree, path, sub)
           D == DOMAIN tree
           E == DOMAIN sub
           F == DOMAIN r
<1>0. Shape(D) /\ Shape(E) /\ Linked(tree) /\ Linked(sub)
  BY DEF TreeOK
<1>1. PICK n \in Nat :
             LET new == Child(path, n + 1)
             IN  /\ \A k \in Nat \ {0} : Child(path, k) \in D <=> k <= n
                 /\ new \in Path
                 /\ F = D \cup {Join(new, p) : p \in E}
                 /\ \A p \in D : r[p] = tree[p]
                 /\ \A p \in E : r[Join(new, p)] = sub[p]
                 /\ \A p \in Path : Join(new, p) \notin D
  BY <1>0, PushChildFacts
<1> DEFINE m == n + 1
           new == Child(path, m)
<1>2. /\ m \in Nat \ {0}
      /\ \A k \in Nat \ {0} : k <= n \/ k = m <=> k <= m
  OBVIOUS
<1>3. /\ \A k \in Nat \ {0} : Child(path, k) \in D <=> k <= n
      /\ new \in Path
      /\ F = D \cup {Join(new, p) : p \in E}
      /\ \A p \in D : r[p] = tree[p]
      /\ \A p \in E : r[Join(new, p)] = sub[p]
      /\ \A p \in Path : Join(new, p) \notin D
      /\ new = Child(path, m)
  BY <1>1
<1> HIDE DEF r, m, new, F
<1>4. D \subseteq Path /\ E \subseteq Path /\ << >> \in D /\ << >> \in E /\ path \in Path
  BY <1>0 DEF Shape
<1>5. new \in F /\ r[new] = Root(sub)
  <2>1. Join(new, << >>) = new
    BY <1>3, JoinFacts
  <2> QED  BY <1>3, <1>4, <2>1 DEF Root
\* How the paths of the new tree continue.
<1>6. ASSUME NEW q \in D, NEW k \in Nat \ {0}, Child(q, k) \in F, Child(q, k) \notin D
      PROVE  q = path /\ k = m /\ Child(q, k) = new
  <2>1. PICK p \in E : Child(q, k) = Join(new, p)
    BY <1>3, <1>6
  <2>2. q \in Path /\ p \in Path
    BY <1>4
  <2>3. CASE p = << >>
    <3>1. Child(q, k) = Child(path, m)
      BY <1>3, <2>1, <2>3, JoinFacts
    <3> QED  BY <1>2, <1>3, <1>4, <2>2, <3>1, ChildInjective
  <2>4. CASE p # << >>
    <3>1. PICK s \in Path, l \in Nat \ {0} : p = Child(s, l)
      BY <2>2, <2>4, IsChild
    <3>2. Child(q, k) = Child(Join(new, s), l) /\ Join(new, s) \in Path
      BY <1>3, <2>1, <3>1, ChildOfJoin, JoinFacts
    <3>3. q = Join(new, s)
      BY <2>2, <3>2, ChildInjective
    <3> QED  BY <1>3, <3>3
  <2> QED  BY <2>3, <2>4
<1>7. ASSUME NEW p \in E, NEW k \in Nat \ {0}
      PROVE  /\ Child(Join(new, p), k) = Join(new, Child(p, k))
             /\ Child(Join(new, p), k) \in F <=> Child(p, k) \in E
  <2>1. p \in Path /\ Child(p, k) \in Path
    BY <1>4, ChildFacts
  <2>2. Child(Join(new, p), k) = Join(new, Child(p, k))
    BY <1>3, <2>1, ChildOfJoin
  <2>3. Join(new, Child(p, k)) \in F => Child(p, k) \in E
    <3> SUFFICES ASSUME Join(new, Child(p, k)) \in F PROVE Child(p, k) \in E
      OBVIOUS
    <3>1. PICK s \in E : Join(new, Child(p, k)) = Join(new, s)
      BY <1>3, <2>1
    <3>2. Child(p, k) = s
      BY <1>3, <1>4, <2>1, <3>1, JoinCancel
    <3> QED  BY <3>2
  <2> QED  BY <1>3, <2>2, <2>3
<1>8. Shape(F)
  <2>1. IsFiniteSet(F)
    <3> DEFINE B == {Join(new, p) : p \in E}
               f == [p \in E |-> Join(new, p)]
    <3>1. f \in Surjection(E, B)
      BY DEF Surjection
    <3>2. IsFiniteSet(D) /\ IsFiniteSet(E)
      BY <1>0 DEF Shape
    <3> HIDE DEF B, f
    <3>3. IsFiniteSet(B)
      BY <3>1, <3>2, FS_Surjection
    <3>4. F = D \cup B
      BY <1>3 DEF B
    <3> QED  BY <3>2, <3>3, <3>4, FS_Union
  <2>2. F \subseteq Path
    BY <1>3, <1>4, JoinFacts
  <2>3. << >> \in F
    BY <1>3, <1>4
  <2>4. ASSUME NEW p \in Path, NEW q \in Path, Join(p, q) \in F PROVE p \in F
    <3>1. CASE Join(p, q) \in D
      BY <1>0, <1>3, <3>1 DEF Shape
    <3>2. ASSUME NEW s \in E, Join(p, q) = Join(new, s) PROVE p \in F
      <4>1. s \in Path
        BY <1>4
      <4>2. PICK x \in Path : \/ new = Join(p, x) /\ q = Join(x, s)
                              \/ p = Join(new, x) /\ s = Join(x, q)
        <5>1. /\ p \in Path /\ q \in Path /\ new \in Path /\ s \in Path
              /\ Join(p, q) = Join(new, s)
          BY <1>3, <3>2, <4>1
        <5> QED  BY ONLY <5>1, JoinComparable
      <4>3. CASE new = Join(p, x)
        <5>1. CASE x = << >>
          BY <1>5, <4>3, <5>1, JoinFacts
        <5>2. CASE x # << >>
          <6>1. PICK y \in Path, l \in Nat \ {0} : x = Child(y, l)
            BY <5>2, IsChild
          <6>2. Child(path, m) = Child(Join(p, y), l) /\ Join(p, y) \in Path
            BY <1>3, <4>3, <6>1, ChildOfJoin, JoinFacts
          <6>3. path = Join(p, y)
            BY <1>2, <1>4, <6>2, ChildInjective
          <6>4. p \in D
            BY <1>0, <6>3 DEF Shape
          <6> QED  BY <1>3, <6>4
        <5> QED  BY <5>1, <5>2
      <4>4. CASE p = Join(new, x) /\ s = Join(x, q)
        <5>1. x \in E
          BY <1>0, <4>4 DEF Shape
        <5> QED  BY <1>3, <4>4, <5>1
      <4> QED  BY <4>2, <4>3, <4>4
    <3> QED  BY <1>3, <2>4, <3>1, <3>2
  <2>5. ASSUME NEW q \in F
        PROVE  \E c \in Nat : \A k \in Nat \ {0} : Child(q, k) \in F <=> k <= c
    <3>1. CASE q \in D /\ q # path
      <4>1. PICK c \in Nat : \A k \in Nat \ {0} : Child(q, k) \in D <=> k <= c
        BY <1>0, <3>1 DEF Shape
      <4>2. \A k \in Nat \ {0} : Child(q, k) \in F <=> Child(q, k) \in D
        BY <1>3, <1>6, <3>1
      <4> QED  BY <4>1, <4>2
    <3>2. CASE q = path
      <4>1. \A k \in Nat \ {0} : Child(q, k) \in F <=> (k <= n \/ k = m)
        BY <1>3, <1>5, <1>6, <3>2
      <4>2. m \in Nat
        BY <1>2
      <4> QED  BY <1>2, <4>1, <4>2
    <3>3. ASSUME NEW p \in E, q = Join(new, p)
          PROVE  \E c \in Nat : \A k \in Nat \ {0} : Child(q, k) \in F <=> k <= c
      <4>1. PICK c \in Nat : \A k \in Nat \ {0} : Child(p, k) \in E <=> k <= c
        BY <1>0 DEF Shape
      <4> QED  BY <1>7, <3>3, <4>1
    <3> QED  BY <1>3, <3>1, <3>2, <3>3
  <2> QED  BY <2>1, <2>2, <2>3, <2>4, <2>5 DEF Shape
<1>9. Linked(r)
  <2> SUFFICES ASSUME NEW p \in Path, NEW k \in Nat \ {0}, Child(p, k) \in F
               PROVE  Prev[r[Child(p, k)]] = r[p]
    BY DEF Linked, F
  <2>1. p \in F
    BY <1>8, ParentInShape
  <2>2. CASE Child(p, k) \in D
    <3>1. p \in D
      BY <1>0, <2>2, ParentInShape
    <3> QED  BY <1>0, <1>3, <2>2, <3>1 DEF Linked
  <2>3. CASE p \in D /\ Child(p, k) \notin D
    <3>1. p = path /\ Child(p, k) = new
      BY <1>6, <2>3
    <3> QED  BY <1>3, <1>5, <3>1
  <2>4. ASSUME NEW q \in E, p = Join(new, q) PROVE Prev[r[Child(p, k)]] = r[p]
    <3>1. Child(q, k) \in E /\ Child(p, k) = Join(new, Child(q, k))
      BY <1>7, <2>4
    <3>2. r[Child(p, k)] = sub[Child(q, k)] /\ r[p] = sub[q]
      BY <1>3, <2>4, <3>1
    <3> QED  BY <1>0, <1>4, <3>1, <3>2 DEF Linked
  <2> QED  BY <1>3, <2>1, <2>2, <2>3, <2>4
<1>10. Root(r) = Root(tree)
  BY <1>3, <1>4 DEF Root
<1>11. Range(r) = Range(tree) \cup Range(sub)
  <2>1. \A p \in F : p \in D \/ \E q \in E : p = Join(new, q)
    BY <1>3
  <2>2. \A q \in E : Join(new, q) \in F
    BY <1>3
  <2> QED  BY <1>3, <2>1, <2>2 DEF Range, F
<1> QED  BY <1>8, <1>9, <1>10, <1>11 DEF TreeOK, r, F

\* The subtree at a child of the root.
LEMMA SubtreeOK ==
    ASSUME NEW tree, TreeOK(tree), NEW k \in Nat \ {0}, <<k>> \in DOMAIN tree
    PROVE  /\ TreeOK(Subtree(tree, k))
           /\ Root(Subtree(tree, k)) = tree[<<k>>]
           /\ DOMAIN Subtree(tree, k) = {p \in Path : Join(<<k>>, p) \in DOMAIN tree}
           /\ \A p \in DOMAIN Subtree(tree, k) : Subtree(tree, k)[p] = tree[Join(<<k>>, p)]
           /\ Prev[Root(Subtree(tree, k))] = Root(tree)
<1> DEFINE D == DOMAIN tree
           t == Subtree(tree, k)
           a == <<k>>
           Q == {r \in D : r # << >> /\ Head(r) = k}
           E == DOMAIN t
<1>0. Shape(D) /\ Linked(tree) /\ a \in Path /\ D \subseteq Path
  BY ChildFacts DEF TreeOK, Shape
<1>1. ASSUME NEW p \in Path
      PROVE  Join(a, p) # << >> /\ Head(Join(a, p)) = k /\ Tail(Join(a, p)) = p
  <2> DEFINE j == Join(a, p)
  <2>1. /\ j \in Path /\ Len(j) = 1 + Len(p)
        /\ \A i \in 1 .. 1 + Len(p) : j[i] = IF i <= 1 THEN k ELSE p[i - 1]
    <3>1. /\ a \o p \in Path /\ Len(a \o p) = Len(a) + Len(p)
          /\ \A i \in 1 .. Len(a) + Len(p) : (a \o p)[i] = IF i <= Len(a) THEN a[i]
                                                           ELSE p[i - Len(a)]
      BY <1>0, ConcatProperties DEF Path
    <3>2. Len(a) = 1 /\ a[1] = k
      OBVIOUS
    <3>3. \A i \in 1 .. Len(a) + Len(p) : i <= 1 => i = 1
      BY PathFacts, <3>2
    <3> QED  BY <3>1, <3>2, <3>3 DEF Join
  <2>2. Len(p) \in Nat
    BY PathFacts
  <2> HIDE DEF j
  <2>3. j # << >> /\ Head(j) = k
    BY <2>1, <2>2 DEF Path
  <2>4. Tail(j) \in Path /\ Len(Tail(j)) = Len(p) /\ \A i \in 1 .. Len(p) : Tail(j)[i] = j[i + 1]
    BY <2>1, <2>2, <2>3, HeadTailProperties DEF Path
  <2>5. ASSUME NEW i \in 1 .. Len(p) PROVE Tail(j)[i] = p[i]
    <3>1. i + 1 \in 1 .. 1 + Len(p) /\ ~ (i + 1 <= 1) /\ i + 1 - 1 = i
      BY <2>2
    <3> QED  BY <2>1, <2>4, <3>1
  <2>6. Tail(j) = p
    BY <2>4, <2>5, SeqEqual DEF Path
  <2> QED  BY <2>3, <2>6 DEF j
<1>2. ASSUME NEW r \in Q PROVE Tail(r) \in Path /\ r = Join(a, Tail(r))
  <2>1. r \in Path /\ r # << >> /\ Head(r) = k
    BY <1>0
  <2>2. PICK n \in Nat : n = Len(r) /\ n # 0
    BY <2>1, PathFacts, EmptySeq DEF Path
  <2>3. SubSeq(r, 1, n) = <<r[1]>> \o SubSeq(r, 2, n)
    <3>1. 1 \in 1 .. Len(r) /\ n \in 1 .. Len(r) /\ 1 + 1 = 2
      BY <2>2
    <3> QED  BY <2>1, <3>1, SubSeqRecursiveFirst DEF Path
  <2>4. SubSeq(r, 1, n) = r /\ Tail(r) = SubSeq(r, 2, n) /\ r[1] = k
    BY <2>1, <2>2, SubSeqFull, TailIsSubSeq DEF Path
  <2>5. Tail(r) \in Path
    BY <2>1, HeadTailProperties DEF Path
  <2> QED  BY <2>3, <2>4, <2>5 DEF Join
<1>3. E = {Tail(q) : q \in Q} /\ \A p \in E : t[p] = tree[Join(a, p)]
  BY DEF Subtree, Join
<1>4. \A p : p \in E <=> p \in Path /\ Join(a, p) \in D
  BY <1>1, <1>2, <1>3
<1>5. IsFiniteSet(E)
  <2> DEFINE f == [q \in Q |-> Tail(q)]
             R == {Tail(q) : q \in Q}
  <2>1. f \in Surjection(Q, R)
    BY DEF Surjection
  <2>2. IsFiniteSet(Q)
    <3>1. Q \in SUBSET D /\ IsFiniteSet(D)
      BY <1>0 DEF Shape
    <3> HIDE DEF Q
    <3> QED  BY <3>1, FS_Subset
  <2> HIDE DEF Q, f, R
  <2>3. IsFiniteSet(R)
    BY <2>1, <2>2, FS_Surjection
  <2> QED  BY <1>3, <2>3 DEF R
<1> HIDE DEF t, a, E, Q
<1>6. Shape(E)
  <2>1. << >> \in E
    <3>1. Join(a, << >>) = a /\ << >> \in Path
      BY <1>0, JoinFacts
    <3> QED  BY <1>4, <3>1 DEF a
  <2>2. ASSUME NEW p \in Path, NEW q \in Path, Join(p, q) \in E PROVE p \in E
    <3>1. Join(Join(a, p), q) \in D /\ Join(a, p) \in Path
      BY <1>0, <1>4, <2>2, JoinAssociative, JoinFacts
    <3>2. Join(a, p) \in D
      BY <1>0, <3>1 DEF Shape
    <3> QED  BY <1>4, <3>2
  <2>3. ASSUME NEW p \in E
        PROVE  \E n \in Nat : \A l \in Nat \ {0} : Child(p, l) \in E <=> l <= n
    <3>1. p \in Path /\ Join(a, p) \in D
      BY <1>4
    <3>2. PICK n \in Nat : \A l \in Nat \ {0} : Child(Join(a, p), l) \in D <=> l <= n
      BY <1>0, <3>1 DEF Shape
    <3>3. ASSUME NEW l \in Nat \ {0}
          PROVE  Child(p, l) \in E <=> Child(Join(a, p), l) \in D
      <4>1. Child(p, l) \in Path /\ Child(Join(a, p), l) = Join(a, Child(p, l))
        BY <1>0, <3>1, ChildOfJoin, ChildFacts
      <4> QED  BY <1>4, <4>1
    <3> QED  BY <3>2, <3>3
  <2> QED  BY <1>4, <1>5, <2>1, <2>2, <2>3 DEF Shape
<1>7. Linked(t)
  <2> SUFFICES ASSUME NEW p \in Path, NEW l \in Nat \ {0}, Child(p, l) \in E
               PROVE  Prev[t[Child(p, l)]] = t[p]
    BY DEF Linked, E
  <2>1. p \in E
    BY <1>6, ParentInShape
  <2>2. t[p] = tree[Join(a, p)] /\ t[Child(p, l)] = tree[Join(a, Child(p, l))]
    BY <1>3, <2>1
  <2>3. /\ Join(a, Child(p, l)) = Child(Join(a, p), l)
        /\ Join(a, p) \in Path /\ Child(Join(a, p), l) \in D
    BY <1>0, <1>4, ChildOfJoin, JoinFacts
  <2> QED  BY <1>0, <2>2, <2>3 DEF Linked
<1>8. Root(t) = tree[a]
  <2>1. Join(a, << >>) = a /\ << >> \in E
    BY <1>0, <1>6, JoinFacts DEF Shape
  <2> QED  BY <1>3, <2>1 DEF Root
<1>9. E = {p \in Path : Join(a, p) \in D}
  BY <1>4
<1>10. Prev[tree[a]] = Root(tree)
  <2>1. a = Child(<< >>, k) /\ << >> \in Path /\ a \in D
    BY <1>0, JoinFacts, ChildFacts DEF a
  <2> QED  BY <1>0, <2>1 DEF Linked, Root
<1> QED  BY <1>3, <1>6, <1>7, <1>8, <1>9, <1>10 DEF TreeOK, t, a, E

-----------------------------------------------------------------------------
(* Forests.                                                                 *)

ForestOK(trees) ==
    /\ \E S : trees \in Seq(S)
    /\ \A i \in DOMAIN trees : TreeOK(trees[i])

LEMMA ForestIndices ==
    ASSUME NEW trees, ForestOK(trees)
    PROVE  /\ Len(trees) \in Nat
           /\ DOMAIN trees = 1 .. Len(trees)
           /\ trees \in Seq(Range(trees))
           /\ IsFiniteSet(DOMAIN trees)
<1>1. PICK S : trees \in Seq(S)
  BY DEF ForestOK
<1>2. /\ Len(trees) \in Nat
      /\ DOMAIN trees = 1 .. Len(trees)
      /\ trees \in Seq(Range(trees))
  BY <1>1, LenProperties, SeqOfRange
<1>3. IsFiniteSet(1 .. Len(trees))
  BY <1>2, FS_Interval
<1> QED  BY <1>2, <1>3

\* Two forests one after the other.
LEMMA ForestConcat ==
    ASSUME NEW f, ForestOK(f), NEW h, ForestOK(h)
    PROVE  /\ ForestOK(f \o h)
           /\ Range(f \o h) = Range(f) \cup Range(h)
<1> DEFINE S == Range(f) \cup Range(h)
           c == f \o h
<1>1. f \in Seq(S) /\ h \in Seq(S)
  BY ForestIndices, SeqMonotonic
<1> HIDE DEF S
<1>2. c \in Seq(S) /\ Range(c) = Range(f) \cup Range(h)
  BY <1>1, ConcatProperties, RangeConcatenation
<1> HIDE DEF c
<1>3. ASSUME NEW i \in DOMAIN c PROVE TreeOK(c[i])
  <2>1. c[i] \in Range(f) \cup Range(h)
    BY <1>2 DEF Range
  <2> QED  BY <2>1 DEF Range, ForestOK
<1>4. ForestOK(c)
  BY <1>2, <1>3 DEF ForestOK
<1> QED  BY <1>2, <1>4 DEF c

\* Arranged rearranges what seq has at the positions I.
LEMMA ArrangedFacts ==
    ASSUME NEW seq, NEW I, IsFiniteSet(I), I \subseteq DOMAIN seq,
           NEW R, StrictOrder(I, R)
    PROVE  LET r == Arranged(seq, I, R)
           IN  /\ r \in Seq({seq[i] : i \in I})
               /\ Len(r) = Cardinality(I)
               /\ Range(r) = {seq[i] : i \in I}
               /\ \A i \in I : r[Cardinality(Earlier(I, R, i)) + 1] = seq[i]
<1> DEFINE n == Cardinality(I)
           S == {seq[i] : i \in I}
           r == Arranged(seq, I, R)
           At(k) == CHOOSE i \in I : Cardinality({j \in I : <<j, i>> \in R}) = k - 1
<1>1. n \in Nat
  BY FS_CardinalityType
<1>2. r = [k \in 1 .. n |-> seq[At(k)]]
  BY DEF Arranged
<1>3. ASSUME NEW k \in 1 .. n
      PROVE  At(k) \in I /\ Cardinality(Earlier(I, R, At(k))) = k - 1
  <2>1. k - 1 \in 0 .. n - 1
    BY <1>1
  <2>2. \E i \in I : Cardinality(Earlier(I, R, i)) = k - 1
    BY <2>1, RankFacts
  <2> QED  BY <2>2 DEF Earlier
<1> HIDE DEF At, n
<1>4. \A k \in 1 .. n : r[k] = seq[At(k)]
  BY <1>2
<1>5. ASSUME NEW i \in I
      PROVE  /\ Cardinality(Earlier(I, R, i)) + 1 \in 1 .. n
             /\ r[Cardinality(Earlier(I, R, i)) + 1] = seq[i]
  <2> DEFINE c == Cardinality(Earlier(I, R, i))
  <2>1. c \in 0 .. n - 1
    BY RankFacts DEF n
  <2>2. c + 1 \in 1 .. n /\ (c + 1) - 1 = c
    BY <1>1, <2>1
  <2>3. At(c + 1) = i
    BY <1>3, <2>2, RankFacts
  <2> QED  BY <1>4, <2>2, <2>3
<1>6. r \in Seq(S)
  <2>1. r \in [1 .. n -> S]
    BY <1>2, <1>3
  <2> QED  BY <1>1, <2>1, SeqDef
<1>7. Len(r) = n
  BY <1>1, <1>2
<1> HIDE DEF r
<1>8. Range(r) = S
  <2>1. DOMAIN r = 1 .. n
    BY <1>2
  <2>2. \A k \in 1 .. n : r[k] \in S
    BY <1>3, <1>4
  <2>3. \A i \in I : \E k \in 1 .. n : r[k] = seq[i]
    BY <1>5
  <2> QED  BY <2>1, <2>2, <2>3 DEF Range
<1> QED  BY <1>5, <1>6, <1>7, <1>8 DEF r, n

LEMMA DepthIsNat ==
    ASSUME NEW tree, TreeOK(tree)
    PROVE  /\ Depth(tree) \in Nat
           /\ \A p \in DOMAIN tree : Len(p) <= Depth(tree)
<1> DEFINE D == DOMAIN tree
           S == {Len(p) : p \in D}
           f == [p \in D |-> Len(p)]
<1>1. IsFiniteSet(D) /\ D \subseteq Path /\ << >> \in D
  BY DEF TreeOK, Shape
<1>2. f \in Surjection(D, S)
  BY DEF Surjection
<1>3. S \in SUBSET Nat /\ S # {}
  BY <1>1, PathFacts
<1> HIDE DEF f, S
<1>4. IsFiniteSet(S)
  BY <1>1, <1>2, FS_Surjection
<1>5. Max(S) \in S /\ \A n \in S : n <= Max(S)
  BY <1>3, <1>4, MaxExists
<1> QED  BY <1>3, <1>5 DEF S, Depth

\* The trees of a forest at the positions I, one after the other.
LEMMA ArrangedForest ==
    ASSUME NEW trees, ForestOK(trees), NEW I \in SUBSET DOMAIN trees,
           NEW R, StrictOrder(I, R)
    PROVE  /\ ForestOK(Arranged(trees, I, R))
           /\ Range(Arranged(trees, I, R)) = {trees[i] : i \in I}
           /\ Len(Arranged(trees, I, R)) = Cardinality(I)
<1> DEFINE r == Arranged(trees, I, R)
<1>1. IsFiniteSet(I)
  BY ForestIndices, FS_Subset
<1>2. /\ r \in Seq({trees[i] : i \in I})
      /\ Len(r) = Cardinality(I)
      /\ Range(r) = {trees[i] : i \in I}
  BY <1>1, ArrangedFacts
<1> HIDE DEF r
<1>3. ASSUME NEW k \in DOMAIN r PROVE TreeOK(r[k])
  <2>1. r[k] \in {trees[i] : i \in I}
    BY <1>2 DEF Range
  <2> QED  BY <2>1 DEF ForestOK
<1>4. ForestOK(r)
  BY <1>2, <1>3 DEF ForestOK
<1> QED  BY <1>2, <1>4 DEF r

LEMMA DetachedFacts ==
    ASSUME NEW trees, ForestOK(trees), NEW anchor
    PROVE  /\ ForestOK(Detached(trees, anchor))
           /\ Range(Detached(trees, anchor))
                = {trees[i] : i \in DOMAIN trees \ Attached(trees, anchor)}
<1> DEFINE I == DOMAIN trees \ Attached(trees, anchor)
           R == {p \in I \X I : p[1] < p[2]}
<1>1. I \in SUBSET DOMAIN trees /\ I \subseteq Nat
  BY ForestIndices
<1>2. \A i, j \in I : <<i, j>> \in R <=> i < j
  OBVIOUS
<1>3. Detached(trees, anchor) = Arranged(trees, I, R)
  BY DEF Detached
<1> HIDE DEF I, R
<1>4. StrictOrder(I, R)
  <2>1. \A i, j, k \in I : i < j /\ j < k => i < k
    BY <1>1
  <2>2. \A i, j \in I : i = j \/ i < j \/ j < i
    BY <1>1
  <2>3. \A i \in I : ~ (i < i)
    BY <1>1
  <2> QED  BY <1>2, <2>1, <2>2, <2>3 DEF StrictOrder
<1>5. /\ ForestOK(Arranged(trees, I, R))
      /\ Range(Arranged(trees, I, R)) = {trees[i] : i \in I}
  BY <1>1, <1>4, ArrangedForest
<1> QED  BY <1>3, <1>5 DEF I

\* The trees on the anchor come with their depths in order.
LEMMA RankedFacts ==
    ASSUME NEW trees, ForestOK(trees), NEW anchor
    PROVE  /\ ForestOK(Ranked(trees, anchor))
           /\ Range(Ranked(trees, anchor)) = {trees[i] : i \in Attached(trees, anchor)}
           /\ Len(Ranked(trees, anchor)) = Cardinality(Attached(trees, anchor))
<1> DEFINE I == Attached(trees, anchor)
           D(i) == Depth(trees[i])
           R == {p \in I \X I : \/ Depth(trees[p[1]]) < Depth(trees[p[2]])
                                \/ Depth(trees[p[1]]) = Depth(trees[p[2]]) /\ p[1] < p[2]}
<1>1. I \in SUBSET DOMAIN trees /\ I \subseteq Nat /\ \A i \in I : D(i) \in Nat
  BY ForestIndices, DepthIsNat DEF Attached, ForestOK
<1>2. \A i, j \in I : <<i, j>> \in R <=> (D(i) < D(j) \/ (D(i) = D(j) /\ i < j))
  OBVIOUS
<1>3. Ranked(trees, anchor) = Arranged(trees, I, R)
  BY DEF Ranked, SortByDepth
<1> HIDE DEF I, R, D
<1>4. StrictOrder(I, R)
  <2> DEFINE Lt(i, j) == D(i) < D(j) \/ (D(i) = D(j) /\ i < j)
  <2>1. ASSUME NEW i \in I, NEW j \in I, NEW k \in I, Lt(i, j), Lt(j, k)
        PROVE  Lt(i, k)
    <3>1. i \in Nat /\ j \in Nat /\ k \in Nat /\ D(i) \in Nat /\ D(j) \in Nat /\ D(k) \in Nat
      BY <1>1
    <3> QED  BY <2>1, <3>1
  <2>2. ASSUME NEW i \in I, NEW j \in I PROVE i = j \/ Lt(i, j) \/ Lt(j, i)
    <3>1. i \in Nat /\ j \in Nat /\ D(i) \in Nat /\ D(j) \in Nat
      BY <1>1
    <3> QED  BY <3>1
  <2>3. ASSUME NEW i \in I PROVE ~ Lt(i, i)
    <3>1. i \in Nat /\ D(i) \in Nat
      BY <1>1
    <3> QED  BY <3>1
  <2>4. \A i, j \in I : <<i, j>> \in R <=> Lt(i, j)
    BY <1>2
  <2> HIDE DEF Lt
  <2> QED  BY <2>1, <2>2, <2>3, <2>4 DEF StrictOrder
<1>5. /\ ForestOK(Arranged(trees, I, R))
      /\ Range(Arranged(trees, I, R)) = {trees[i] : i \in I}
      /\ Len(Arranged(trees, I, R)) = Cardinality(I)
  BY <1>1, <1>4, ArrangedForest
<1> QED  BY <1>3, <1>5 DEF I

-----------------------------------------------------------------------------
(* BlockTree::extend and BlockForest::push.                                 *)

LEMMA FindMutInTree ==
    ASSUME NEW tree, TreeOK(tree), NEW block, Holds(tree, block)
    PROVE  FindMut(tree, block) \in DOMAIN tree /\ tree[FindMut(tree, block)] = block
<1>1. IsFiniteSet(DOMAIN tree) /\ DOMAIN tree \subseteq Path
  BY DEF TreeOK, Shape
<1>2. FindMut(tree, block) \in Occurrences(tree, block)
  BY <1>1, FindMutFinds
<1> QED  BY <1>2 DEF Occurrences

\* A tree is pushed below a block it is the successor of.
LEMMA CrownOK ==
    ASSUME NEW tree, TreeOK(tree), NEW block, Holds(tree, block),
           NEW sub, TreeOK(sub), Prev[Root(sub)] = block
    PROVE  LET r == PushChild(tree, FindMut(tree, block), sub)
           IN  /\ TreeOK(r)
               /\ Root(r) = Root(tree)
               /\ Range(r) = Range(tree) \cup Range(sub)
BY FindMutInTree, PushChildOK

LEMMA HoldsIsInRange ==
    ASSUME NEW tree, NEW block
    PROVE  Holds(tree, block) <=> block \in Range(tree)
BY DEF Holds, Occurrences, Range

LEMMA ExtendOK ==
    ASSUME NEW tree, TreeOK(tree), NEW block, CanExtend(tree, block)
    PROVE  /\ TreeOK(Extend(tree, block))
           /\ Root(Extend(tree, block)) = Root(tree)
           /\ Range(Extend(tree, block)) = Range(tree) \cup {block}
           /\ Holds(Extend(tree, block), block)
<1>1. CASE Holds(tree, block)
  BY <1>1, HoldsIsInRange DEF Extend
<1>2. CASE ~ Holds(tree, block)
  <2>1. /\ TreeOK(Leaf(block))
        /\ Root(Leaf(block)) = block
        /\ Range(Leaf(block)) = {block}
    BY LeafOK
  <2>2. Holds(tree, Prev[block])
    BY <1>2 DEF CanExtend
  <2>3. Extend(tree, block) = PushChild(tree, FindMut(tree, Prev[block]), Leaf(block))
    BY <1>2 DEF Extend
  <2>4. /\ TreeOK(Extend(tree, block))
        /\ Root(Extend(tree, block)) = Root(tree)
        /\ Range(Extend(tree, block)) = Range(tree) \cup {block}
    BY <2>1, <2>2, <2>3, CrownOK
  <2> QED  BY <2>4, HoldsIsInRange
<1> QED  BY <1>1, <1>2

LEMMA RemoveAtFacts ==
    ASSUME NEW S, NEW seq \in Seq(S), NEW i \in 1 .. Len(seq)
    PROVE  /\ RemoveAt(seq, i) \in Seq(S)
           /\ Range(RemoveAt(seq, i)) = {seq[j] : j \in (1 .. Len(seq)) \ {i}}
           /\ Len(RemoveAt(seq, i)) = Len(seq) - 1
           /\ \A j \in 1 .. Len(seq) - 1 :
                RemoveAt(seq, i)[j] = seq[IF j < i THEN j ELSE j + 1]
<1> DEFINE n == Len(seq)
           a == SubSeq(seq, 1, i - 1)
           b == SubSeq(seq, i + 1, n)
<1>1. n \in Nat /\ i \in Nat /\ 1 <= i /\ i <= n /\ \A j \in 1 .. n : seq[j] \in S
  BY LenProperties, ElementOfSeq
<1>2. /\ a \in Seq(S) /\ Len(a) = i - 1
      /\ \A j \in 1 .. i - 1 : a[j] = seq[j]
  <2> DEFINE m == i - 1
  <2>1. 1 \in Int /\ m \in Int /\ \A j \in 1 .. m : seq[j] \in S
    BY <1>1
  <2>2. m = i - 1
    OBVIOUS
  <2> HIDE DEF m
  <2>3. /\ SubSeq(seq, 1, m) \in Seq(S)
        /\ Len(SubSeq(seq, 1, m)) = IF 1 <= m THEN m - 1 + 1 ELSE 0
        /\ \A j \in 1 .. m - 1 + 1 : SubSeq(seq, 1, m)[j] = seq[1 + j - 1]
    BY ONLY <2>1, SubSeqProperties
  <2>4. a = SubSeq(seq, 1, m)
    BY <2>2
  <2> HIDE DEF a
  <2> QED  BY <1>1, <2>2, <2>3, <2>4
<1>3. /\ b \in Seq(S) /\ Len(b) = n - i
      /\ \A j \in 1 .. n - i : b[j] = seq[i + j]
  <2> DEFINE m == i + 1
  <2>1. m \in Int /\ n \in Int /\ \A j \in m .. n : seq[j] \in S
    BY <1>1
  <2>2. m = i + 1
    OBVIOUS
  <2> HIDE DEF m, n
  <2>3. /\ SubSeq(seq, m, n) \in Seq(S)
        /\ Len(SubSeq(seq, m, n)) = IF m <= n THEN n - m + 1 ELSE 0
        /\ \A j \in 1 .. n - m + 1 : SubSeq(seq, m, n)[j] = seq[m + j - 1]
    BY ONLY <2>1, SubSeqProperties
  <2>4. b = SubSeq(seq, m, n)
    BY <2>2
  <2> HIDE DEF b
  <2> QED  BY <1>1, <2>2, <2>3, <2>4
<1>4. RemoveAt(seq, i) = a \o b
  BY DEF RemoveAt
<1> HIDE DEF a, b, n
<1>5. a \o b \in Seq(S) /\ Range(a \o b) = Range(a) \cup Range(b)
  BY <1>2, <1>3, ConcatProperties, RangeConcatenation
<1>9. /\ Len(a \o b) = n - 1
      /\ \A j \in 1 .. n - 1 : (a \o b)[j] = seq[IF j < i THEN j ELSE j + 1]
  <2>1. /\ Len(a \o b) = Len(a) + Len(b)
        /\ \A j \in 1 .. Len(a) + Len(b) :
             (a \o b)[j] = IF j <= Len(a) THEN a[j] ELSE b[j - Len(a)]
    BY <1>2, <1>3, ConcatProperties
  <2>2. Len(a \o b) = n - 1
    BY <1>1, <1>2, <1>3, <2>1 DEF n
  <2>3. ASSUME NEW j \in 1 .. n - 1
        PROVE  (a \o b)[j] = seq[IF j < i THEN j ELSE j + 1]
    <3>1. j \in 1 .. Len(a) + Len(b)
      BY <2>1, <2>2
    <3>2. CASE j < i
      <4>1. j \in 1 .. i - 1
        BY <1>1, <3>2
      <4> QED  BY <1>1, <1>2, <2>1, <3>1, <3>2, <4>1
    <3>3. CASE ~ (j < i)
      <4> DEFINE k == j - Len(a)
      <4>1. k \in 1 .. n - i /\ i + k = j + 1 /\ ~ (j <= Len(a))
        BY <1>1, <1>2, <3>3 DEF n
      <4>2. (a \o b)[j] = b[k]
        BY <2>1, <3>1, <4>1
      <4> HIDE DEF k
      <4> QED  BY <1>3, <3>3, <4>1, <4>2 DEF n
    <3> QED  BY <3>2, <3>3
  <2> QED  BY <2>2, <2>3
<1>6. Range(a) = {seq[j] : j \in 1 .. i - 1}
  <2>1. DOMAIN a = 1 .. i - 1
    BY <1>2, LenProperties
  <2> QED  BY <1>2, <2>1 DEF Range
<1>7. Range(b) = {seq[j] : j \in i + 1 .. n}
  <2>1. DOMAIN b = 1 .. n - i
    BY <1>3, LenProperties
  <2>2. ASSUME NEW j \in 1 .. n - i
        PROVE  \E k \in i + 1 .. n : b[j] = seq[k]
    <3>1. i + j \in i + 1 .. n
      BY <1>1
    <3> QED  BY <1>3, <3>1
  <2>3. ASSUME NEW k \in i + 1 .. n
        PROVE  \E j \in 1 .. n - i : b[j] = seq[k]
    <3>1. k - i \in 1 .. n - i /\ i + (k - i) = k
      BY <1>1
    <3> QED  BY <1>3, <3>1
  <2> DEFINE J == 1 .. n - i
             K == i + 1 .. n
  <2>4. /\ DOMAIN b = J
        /\ \A j \in J : \E k \in K : b[j] = seq[k]
        /\ \A k \in K : \E j \in J : b[j] = seq[k]
    BY <2>1, <2>2, <2>3
  <2> HIDE DEF J, K
  <2>5. Range(b) = {seq[j] : j \in K}
    BY <2>4 DEF Range
  <2> QED  BY <2>5 DEF K
<1>8. (1 .. n) \ {i} = (1 .. i - 1) \cup (i + 1 .. n)
  BY <1>1
<1> QED  BY <1>4, <1>5, <1>6, <1>7, <1>8, <1>9 DEF n

\* What push makes of a forest: it stays linked, it holds what it held and the
\* block, and its trees have the roots they had, except that a block no tree
\* can take starts a tree of its own.
LEMMA PushOK ==
    ASSUME NEW trees, ForestOK(trees), NEW block
    PROVE  LET new == Push(trees, block)
           IN  /\ ForestOK(new)
               /\ GetBlocks(new) = GetBlocks(trees) \cup {block}
               /\ \A i \in DOMAIN new :
                    \/ \E j \in DOMAIN trees : Root(new[i]) = Root(trees[j])
                    \/ /\ Root(new[i]) = block
                       /\ \A j \in DOMAIN trees :
                            Prev[Root(trees[j])] # block => ~ CanExtend(trees[j], block)
<1> DEFINE above == {i \in DOMAIN trees : Prev[Root(trees[i])] = block}
           m == Min(above)
           rest == IF above = {} THEN trees ELSE RemoveAt(trees, m)
           hosts == {i \in DOMAIN rest : CanExtend(rest[i], block)}
           h == Min(hosts)
           Crowned(tree) == IF above = {} THEN tree
                            ELSE PushChild(tree, FindMut(tree, block), trees[m])
           crown == IF above = {} THEN {} ELSE Range(trees[m])
           new == Push(trees, block)
<1>0. /\ Len(trees) \in Nat /\ DOMAIN trees = 1 .. Len(trees) /\ trees \in Seq(Range(trees))
      /\ \A i \in DOMAIN trees : TreeOK(trees[i])
  BY ForestIndices DEF ForestOK
<1>1. ASSUME above # {}
      PROVE  m \in DOMAIN trees /\ Prev[Root(trees[m])] = block /\ TreeOK(trees[m])
  <2>1. above \in SUBSET Nat
    BY <1>0
  <2>2. m \in above
    BY <1>1, <2>1, MinExists
  <2> QED  BY <1>0, <2>2
<1>2. /\ \E S : rest \in Seq(S)
      /\ \A i \in DOMAIN rest : \E j \in DOMAIN trees : rest[i] = trees[j]
      /\ \A j \in DOMAIN trees :
           (above = {} \/ j # m) => \E i \in DOMAIN rest : rest[i] = trees[j]
  <2>1. CASE above = {}
    BY <1>0, <2>1
  <2>2. CASE above # {}
    <3>1. m \in 1 .. Len(trees) /\ rest = RemoveAt(trees, m)
      BY <1>0, <1>1, <2>2
    <3> HIDE DEF m, rest
    <3>2. /\ rest \in Seq(Range(trees))
          /\ Range(rest) = {trees[j] : j \in (1 .. Len(trees)) \ {m}}
      BY <1>0, <3>1, RemoveAtFacts
    <3>3. \A i \in DOMAIN rest : rest[i] \in Range(rest)
      BY DEF Range
    <3>4. \A j \in DOMAIN trees : j # m => trees[j] \in Range(rest)
      BY <1>0, <3>2
    <3>5. \A x \in Range(rest) : \E i \in DOMAIN rest : rest[i] = x
      BY DEF Range
    <3> QED  BY <1>0, <2>2, <3>2, <3>3, <3>4, <3>5
  <2> QED  BY <2>1, <2>2
<1> HIDE DEF rest
<1>3. \A i \in DOMAIN rest : TreeOK(rest[i])
  BY <1>0, <1>2
<1>4. ASSUME NEW tree, TreeOK(tree), Holds(tree, block)
      PROVE  /\ TreeOK(Crowned(tree))
             /\ Root(Crowned(tree)) = Root(tree)
             /\ Range(Crowned(tree)) = Range(tree) \cup crown
  <2>1. CASE above = {}
    BY <1>4, <2>1
  <2>2. CASE above # {}
    <3>1. /\ Crowned(tree) = PushChild(tree, FindMut(tree, block), trees[m])
          /\ crown = Range(trees[m])
      BY <2>2
    <3>2. TreeOK(trees[m]) /\ Prev[Root(trees[m])] = block
      BY <1>1, <2>2
    <3> QED  BY <1>4, <3>1, <3>2, CrownOK
  <2> QED  BY <2>1, <2>2
<1>5. GetBlocks(trees) = GetBlocks(rest) \cup crown
  <2>1. CASE above = {}
    BY <2>1 DEF rest
  <2>2. CASE above # {}
    <3>1. \A i \in DOMAIN trees : i = m \/ \E k \in DOMAIN rest : rest[k] = trees[i]
      BY <1>2, <2>2
    <3>2. m \in DOMAIN trees /\ crown = Range(trees[m])
      BY <1>1, <2>2
    <3> QED  BY <1>2, <3>1, <3>2 DEF GetBlocks
  <2> QED  BY <2>1, <2>2
<1>6. new = IF hosts = {} THEN Append(rest, Crowned(Leaf(block)))
            ELSE [rest EXCEPT ![h] = Crowned(Extend(rest[h], block))]
  BY DEF Push, rest
<1>7. \A j \in DOMAIN trees :
        Prev[Root(trees[j])] # block => \E i \in DOMAIN rest : rest[i] = trees[j]
  BY <1>1, <1>2
<1> HIDE DEF crown, Crowned, new, m
<1>8. CASE hosts = {}
  <2> DEFINE t == Crowned(Leaf(block))
  <2>1. TreeOK(t) /\ Root(t) = block /\ Range(t) = {block} \cup crown
    <3>1. /\ TreeOK(Leaf(block)) /\ Holds(Leaf(block), block)
          /\ Root(Leaf(block)) = block /\ Range(Leaf(block)) = {block}
      BY LeafOK, HoldsIsInRange
    <3> QED  BY <1>4, <3>1
  <2>2. new = Append(rest, t)
    BY <1>6, <1>8
  <2> HIDE DEF t
  <2>3. PICK S : rest \in Seq(S)
    BY <1>2
  <2> DEFINE T == S \cup {t}
  <2>4. rest \in Seq(T) /\ t \in T
    BY <2>3, SeqMonotonic
  <2> HIDE DEF T
  <2>5. /\ new \in Seq(T) /\ Len(new) = Len(rest) + 1 /\ Len(rest) \in Nat
        /\ DOMAIN rest = 1 .. Len(rest) /\ DOMAIN new = 1 .. Len(new)
        /\ \A i \in 1 .. Len(rest) : new[i] = rest[i]
        /\ new[Len(rest) + 1] = t
    BY <2>2, <2>4, AppendProperties, LenProperties
  <2>6. /\ \A i \in DOMAIN new : (i \in DOMAIN rest /\ new[i] = rest[i]) \/ new[i] = t
        /\ \A i \in DOMAIN rest : i \in DOMAIN new /\ new[i] = rest[i]
        /\ \E i \in DOMAIN new : new[i] = t
    BY <2>5
  <2>7. ForestOK(new)
    BY <1>3, <2>1, <2>5, <2>6 DEF ForestOK
  <2>8. GetBlocks(new) = GetBlocks(rest) \cup Range(t)
    BY <2>6 DEF GetBlocks
  <2>9. GetBlocks(new) = GetBlocks(trees) \cup {block}
    BY <1>5, <2>1, <2>8
  <2>10. \A j \in DOMAIN trees :
           Prev[Root(trees[j])] # block => ~ CanExtend(trees[j], block)
    BY <1>7, <1>8
  <2>11. ASSUME NEW i \in DOMAIN new
         PROVE  \/ \E j \in DOMAIN trees : Root(new[i]) = Root(trees[j])
                \/ Root(new[i]) = block
    BY <1>2, <2>1, <2>6
  <2> QED  BY <2>7, <2>9, <2>10, <2>11 DEF new
<1>9. CASE hosts # {}
  <2> DEFINE t == Crowned(Extend(rest[h], block))
  <2>1. h \in DOMAIN rest /\ CanExtend(rest[h], block)
    <3>1. PICK S : rest \in Seq(S)
      BY <1>2
    <3>2. hosts \in SUBSET Nat
      BY <3>1, LenProperties
    <3>3. h \in hosts
      BY <1>9, <3>2, MinExists
    <3> QED  BY <3>3
  <2>2. new = [rest EXCEPT ![h] = t]
    BY <1>6, <1>9
  <2> HIDE DEF h, hosts
  <2>3. TreeOK(t) /\ Root(t) = Root(rest[h]) /\ Range(t) = Range(rest[h]) \cup {block} \cup crown
    <3> DEFINE e == Extend(rest[h], block)
    <3>1. /\ TreeOK(e) /\ Root(e) = Root(rest[h]) /\ Holds(e, block)
          /\ Range(e) = Range(rest[h]) \cup {block}
      BY <1>3, <2>1, ExtendOK
    <3> HIDE DEF e
    <3>2. TreeOK(Crowned(e)) /\ Root(Crowned(e)) = Root(e) /\ Range(Crowned(e)) = Range(e) \cup crown
      BY <1>4, <3>1
    <3> QED  BY <3>1, <3>2 DEF e
  <2> HIDE DEF t
  <2>4. PICK S : rest \in Seq(S)
    BY <1>2
  <2> DEFINE T == S \cup {t}
  <2>5. rest \in Seq(T) /\ t \in T
    BY <2>4, SeqMonotonic
  <2> HIDE DEF T
  <2>6. new \in Seq(T) /\ DOMAIN new = DOMAIN rest
    BY <2>1, <2>2, <2>5, ExceptSeq, LenProperties
  <2>7. \A i \in DOMAIN rest : new[i] = IF i = h THEN t ELSE rest[i]
    BY <2>1, <2>2
  <2>8. ForestOK(new)
    BY <1>3, <2>3, <2>6, <2>7 DEF ForestOK
  <2>9. GetBlocks(new) = GetBlocks(trees) \cup {block}
    <3>1. UNION {Range(new[i]) : i \in DOMAIN rest}
            = (UNION {Range(rest[i]) : i \in DOMAIN rest}) \cup {block} \cup crown
      BY <2>1, <2>3, <2>7
    <3> QED  BY <1>5, <2>6, <3>1 DEF GetBlocks
  <2>10. ASSUME NEW i \in DOMAIN new
         PROVE  \E j \in DOMAIN trees : Root(new[i]) = Root(trees[j])
    <3>1. Root(new[i]) = Root(rest[i])
      BY <2>3, <2>6, <2>7
    <3> QED  BY <1>2, <2>6, <3>1
  <2> QED  BY <2>8, <2>9, <2>10 DEF new
<1> QED  BY <1>8, <1>9

-----------------------------------------------------------------------------
(* BlockTree::pop and BlockForest::pop.                                     *)

LEMMA FirstStep ==
    ASSUME NEW p \in Path, p # << >>
    PROVE  \E k \in Nat \ {0}, q \in Path : p = Join(<<k>>, q)
<1>1. PICK n \in Nat : n = Len(p) /\ n # 0
  BY PathFacts, EmptySeq DEF Path
<1>2. SubSeq(p, 1, n) = <<p[1]>> \o SubSeq(p, 2, n)
  <2>1. 1 \in 1 .. Len(p) /\ n \in 1 .. Len(p) /\ 1 + 1 = 2
    BY <1>1
  <2> QED  BY <2>1, SubSeqRecursiveFirst DEF Path
<1>3. SubSeq(p, 1, n) = p /\ Tail(p) = SubSeq(p, 2, n) /\ p[1] \in Nat \ {0}
  BY <1>1, SubSeqFull, TailIsSubSeq, PathFacts DEF Path
<1>4. Tail(p) \in Path
  BY HeadTailProperties DEF Path
<1> QED  BY <1>2, <1>3, <1>4 DEF Join

\* The subtrees at the root of a tree: each is linked and on top of the root,
\* and with the root they hold what the tree holds.
LEMMA SubtreesOK ==
    ASSUME NEW tree, TreeOK(tree)
    PROVE  /\ ForestOK(Subtrees(tree))
           /\ \A i \in DOMAIN Subtrees(tree) : Prev[Root(Subtrees(tree)[i])] = Root(tree)
           /\ Range(tree) = {Root(tree)} \cup GetBlocks(Subtrees(tree))
<1> DEFINE f == Subtrees(tree)
           D == DOMAIN tree
<1>0. Shape(D) /\ << >> \in D /\ D \subseteq Path
  BY DEF TreeOK, Shape
<1>1. PICK n \in Nat : \A k \in Nat \ {0} : Child(<< >>, k) \in D <=> k <= n
  BY <1>0 DEF Shape
<1>2. Cardinality(Children(tree, << >>)) = n
  BY <1>0, <1>1, ChildrenCounted
<1>3. \A k \in Nat \ {0} : <<k>> \in D <=> k <= n
  BY <1>0, <1>1, ChildFacts
<1>4. f = [k \in 1 .. n |-> Subtree(tree, k)]
  BY <1>2 DEF Subtrees
<1>5. ASSUME NEW k \in 1 .. n
      PROVE  k \in Nat \ {0} /\ <<k>> \in D
  <2>1. k \in Nat \ {0} /\ k <= n
    OBVIOUS
  <2> QED  BY <1>3, <2>1
<1> HIDE DEF f
<1>6. DOMAIN f = 1 .. n /\ \A k \in 1 .. n : f[k] = Subtree(tree, k)
  BY <1>4
<1>7. ForestOK(f)
  <2> DEFINE S == {Subtree(tree, k) : k \in 1 .. n}
  <2>1. f \in [1 .. n -> S]
    BY <1>4
  <2>2. f \in Seq(S)
    BY <2>1, SeqDef
  <2>3. \A k \in 1 .. n : TreeOK(Subtree(tree, k))
    BY <1>5, SubtreeOK
  <2> QED  BY <1>6, <2>2, <2>3 DEF ForestOK
<1>8. ASSUME NEW k \in DOMAIN f
      PROVE  Prev[Root(f[k])] = Root(tree)
  <2>1. k \in Nat \ {0} /\ <<k>> \in DOMAIN tree /\ f[k] = Subtree(tree, k)
    BY <1>5, <1>6
  <2>2. Prev[Root(Subtree(tree, k))] = Root(tree)
    BY <2>1, SubtreeOK
  <2> QED  BY <2>1, <2>2
<1>9. ASSUME NEW k \in 1 .. n, NEW p \in DOMAIN Subtree(tree, k)
      PROVE  Subtree(tree, k)[p] \in Range(tree)
  <2>1. k \in Nat \ {0} /\ <<k>> \in DOMAIN tree
    BY <1>5
  <2>2. /\ DOMAIN Subtree(tree, k) = {q \in Path : Join(<<k>>, q) \in DOMAIN tree}
        /\ \A q \in DOMAIN Subtree(tree, k) : Subtree(tree, k)[q] = tree[Join(<<k>>, q)]
    BY <2>1, SubtreeOK
  <2>3. Join(<<k>>, p) \in DOMAIN tree
    BY <2>2, <1>9
  <2> QED  BY <2>2, <2>3, <1>9 DEF Range
<1>10. ASSUME NEW p \in D, p # << >>
       PROVE  \E k \in 1 .. n : tree[p] \in Range(Subtree(tree, k))
  <2>1. PICK k \in Nat \ {0}, q \in Path : p = Join(<<k>>, q)
    BY <1>0, <1>10, FirstStep
  <2>2. <<k>> \in D
    <3>1. <<k>> \in Path
      BY <1>0, ChildFacts
    <3> QED  BY <1>0, <2>1, <3>1 DEF Shape
  <2>3. k \in 1 .. n
    BY <1>3, <2>2
  <2>4. q \in DOMAIN Subtree(tree, k) /\ Subtree(tree, k)[q] = tree[p]
    BY <2>1, <2>2, SubtreeOK
  <2> QED  BY <2>3, <2>4 DEF Range
<1>11. Range(tree) = {Root(tree)} \cup GetBlocks(f)
  <2>1. GetBlocks(f) \subseteq Range(tree)
    BY <1>6, <1>9 DEF GetBlocks, Range
  <2>2. Root(tree) \in Range(tree)
    BY <1>0 DEF Root, Range
  <2>3. Range(tree) \subseteq {Root(tree)} \cup GetBlocks(f)
    BY <1>6, <1>10 DEF GetBlocks, Range, Root
  <2> QED  BY <2>1, <2>2, <2>3
<1> QED  BY <1>7, <1>8, <1>11 DEF f

\* Without a stable block the forest is only rearranged.
LEMMA PopNothing ==
    ASSUME NEW trees, ForestOK(trees), NEW anchor, ~ HasStable(trees, anchor)
    PROVE  /\ ForestOK(PopTrees(trees, anchor))
           /\ Range(PopTrees(trees, anchor)) = Range(trees)
<1> DEFINE a == Ranked(trees, anchor)
           b == Detached(trees, anchor)
<1>1. PopTrees(trees, anchor) = a \o b
  BY DEF PopTrees
<1>2. /\ ForestOK(a) /\ Range(a) = {trees[i] : i \in Attached(trees, anchor)}
      /\ ForestOK(b)
      /\ Range(b) = {trees[i] : i \in DOMAIN trees \ Attached(trees, anchor)}
  BY RankedFacts, DetachedFacts
<1> HIDE DEF a, b
<1>3. ForestOK(a \o b) /\ Range(a \o b) = Range(a) \cup Range(b)
  BY <1>2, ForestConcat
<1>4. Range(a) \cup Range(b) = Range(trees)
  BY <1>2 DEF Range, Attached
<1> QED  BY <1>1, <1>3, <1>4

\* With one, it is the root of a tree on the anchor, whose subtrees are kept;
\* the other trees on the anchor are not.
LEMMA PopStable ==
    ASSUME NEW trees, ForestOK(trees), NEW anchor, HasStable(trees, anchor)
    PROVE  /\ ForestOK(PopTrees(trees, anchor))
           /\ \E i \in Attached(trees, anchor) :
                /\ StableBlock(trees, anchor) = Root(trees[i])
                /\ Range(PopTrees(trees, anchor))
                     = {trees[j] : j \in DOMAIN trees \ Attached(trees, anchor)}
                         \cup Range(Subtrees(trees[i]))
<1> DEFINE r == Ranked(trees, anchor)
           b == Detached(trees, anchor)
           t == Last(r)
           f == Subtrees(t)
<1>1. PopTrees(trees, anchor) = b \o f /\ StableBlock(trees, anchor) = Root(t)
  BY DEF PopTrees, StableBlock
<1>2. /\ ForestOK(r) /\ Range(r) = {trees[i] : i \in Attached(trees, anchor)}
      /\ ForestOK(b)
      /\ Range(b) = {trees[i] : i \in DOMAIN trees \ Attached(trees, anchor)}
  BY RankedFacts, DetachedFacts
<1>3. Len(r) >= 1
  BY DEF HasStable
<1> HIDE DEF r, b
<1>4. t \in Range(r)
  <2>1. Len(r) \in DOMAIN r
    BY <1>2, <1>3, ForestIndices
  <2> QED  BY <2>1 DEF Last, Range
<1> HIDE DEF t
<1>5. PICK i \in Attached(trees, anchor) : t = trees[i]
  BY <1>2, <1>4
<1>6. TreeOK(t)
  BY <1>5 DEF ForestOK, Attached
<1>7. ForestOK(f)
  BY <1>6, SubtreesOK
<1>8. ForestOK(b \o f) /\ Range(b \o f) = Range(b) \cup Range(f)
  BY <1>2, <1>7, ForestConcat
<1> QED  BY <1>1, <1>2, <1>5, <1>8 DEF f

LEMMA PopOK ==
    ASSUME NEW trees, ForestOK(trees), NEW anchor
    PROVE  /\ ForestOK(PopTrees(trees, anchor))
           /\ GetBlocks(PopTrees(trees, anchor)) \subseteq GetBlocks(trees)
           /\ HasStable(trees, anchor) =>
                /\ StableBlock(trees, anchor) \in GetBlocks(trees)
                /\ Prev[StableBlock(trees, anchor)] = anchor
<1>1. \A x : x \in GetBlocks(trees) <=> \E t \in Range(trees) : x \in Range(t)
  BY DEF GetBlocks, Range
<1>2. CASE ~ HasStable(trees, anchor)
  BY <1>2, PopNothing DEF GetBlocks, Range
<1>3. CASE HasStable(trees, anchor)
  <2> DEFINE p == PopTrees(trees, anchor)
  <2>1. PICK i \in Attached(trees, anchor) :
          /\ StableBlock(trees, anchor) = Root(trees[i])
          /\ Range(p) = {trees[j] : j \in DOMAIN trees \ Attached(trees, anchor)}
                           \cup Range(Subtrees(trees[i]))
    BY <1>3, PopStable
  <2>2. ForestOK(p)
    BY <1>3, PopStable
  <2>3. /\ i \in DOMAIN trees /\ TreeOK(trees[i]) /\ Prev[Root(trees[i])] = anchor
        /\ Range(trees[i]) = {Root(trees[i])} \cup GetBlocks(Subtrees(trees[i]))
    BY SubtreesOK DEF Attached, IsAttached, ForestOK
  <2> HIDE DEF p
  <2>4. GetBlocks(p) \subseteq GetBlocks(trees)
    <3> SUFFICES ASSUME NEW x \in GetBlocks(p) PROVE x \in GetBlocks(trees)
      OBVIOUS
    <3>1. PICK t \in Range(p) : x \in Range(t)
      BY DEF GetBlocks, Range
    <3>2. CASE t \in Range(Subtrees(trees[i]))
      <4>1. x \in GetBlocks(Subtrees(trees[i]))
        BY <3>1, <3>2 DEF GetBlocks, Range
      <4> QED  BY <2>3, <4>1 DEF GetBlocks
    <3>3. ASSUME NEW j \in DOMAIN trees, t = trees[j] PROVE x \in GetBlocks(trees)
      BY <3>1, <3>3 DEF GetBlocks
    <3> QED  BY <2>1, <3>2, <3>3
  <2>5. Root(trees[i]) \in GetBlocks(trees)
    BY <2>3 DEF GetBlocks
  <2> QED  BY <2>1, <2>2, <2>3, <2>4, <2>5 DEF p
<1> QED  BY <1>2, <1>3

-----------------------------------------------------------------------------
(* Blocks and the UTXO set.                                                 *)

\* A run of insert_tx whose set is in order.
RunOK(run) ==
    /\ run = [set |-> run.set, failure |-> run.failure]
    /\ SetOK(run.set)

LEMMA StartOK ==
    ASSUME NEW s, SetOK(s)
    PROVE  RunOK(Start(s)) /\ Start(s).set = s /\ Start(s).failure = "none"
BY DEF RunOK, Start

\* insert_tx fails, or not, as its three tests say.
LEMMA FailureCases ==
    ASSUME NEW s, NEW t, InsertFailure(s, t) = "none"
    PROVE  ~ IndexBroken(s, t) /\ ~ InputMissing(s, t) /\ ~ AlreadyInserted(s, t)
BY DEF InsertFailure

LEMMA NoFailureCases ==
    ASSUME NEW s, NEW t, InsertFailure(s, t) # "none"
    PROVE  IndexBroken(s, t) \/ InputMissing(s, t) \/ AlreadyInserted(s, t)
BY DEF InsertFailure

LEMMA ApplyTxCases ==
    ASSUME NEW run, RunOK(run), NEW t, NEW height
    PROVE  LET r == ApplyTx(run, t, height)
           IN  \/ run.failure # "none" /\ r = run
               \/ /\ run.failure = "none" /\ InsertFailure(run.set, t) # "none"
                  /\ r.set = run.set /\ r.failure = InsertFailure(run.set, t)
                  /\ r = [set |-> r.set, failure |-> r.failure]
               \/ /\ run.failure = "none" /\ InsertFailure(run.set, t) = "none"
                  /\ r.set = InsertTx(run.set, t, height) /\ r.failure = "none"
                  /\ r = [set |-> r.set, failure |-> r.failure]
<1> DEFINE s == run.set
           e == run.failure
           f == InsertFailure(run.set, t)
           i == InsertTx(run.set, t, height)
           r == ApplyTx(run, t, height)
<1>1. run = [set |-> s, failure |-> e]
  BY DEF RunOK
<1>2. r = IF e # "none" THEN run
          ELSE IF f # "none" THEN [run EXCEPT !.failure = f]
          ELSE [set |-> i, failure |-> "none"]
  BY DEF ApplyTx
<1> HIDE DEF s, e, f, i, r
<1>3. [run EXCEPT !.failure = f] = [set |-> s, failure |-> f]
  BY <1>1
<1>4. CASE e # "none"
  BY <1>2, <1>4 DEF e, r
<1>5. CASE e = "none" /\ f # "none"
  <2>1. r = [set |-> s, failure |-> f]
    BY <1>2, <1>3, <1>5
  <2>2. r.set = s /\ r.failure = f /\ r = [set |-> r.set, failure |-> r.failure]
    BY <2>1
  <2> QED  BY <1>5, <2>2 DEF s, e, f, r
<1>6. CASE e = "none" /\ f = "none"
  <2>1. r = [set |-> i, failure |-> "none"]
    BY <1>2, <1>6
  <2>2. r.set = i /\ r.failure = "none" /\ r = [set |-> r.set, failure |-> r.failure]
    BY <2>1
  <2> QED  BY <1>6, <2>2 DEF s, e, f, i, r
<1> QED  BY <1>4, <1>5, <1>6

LEMMA ApplyTxOK ==
    ASSUME NEW run, RunOK(run), NEW t \in TxId, NEW height
    PROVE  /\ RunOK(ApplyTx(run, t, height))
           /\ ApplyTx(run, t, height).set.strict = run.set.strict
<1> DEFINE r == ApplyTx(run, t, height)
<1>1. CASE InsertFailure(run.set, t) = "none" /\ run.failure = "none"
  <2>1. r.set = InsertTx(run.set, t, height) /\ r = [set |-> r.set, failure |-> r.failure]
    BY <1>1, ApplyTxCases
  <2>2. ~ AlreadyInserted(run.set, t)
    BY <1>1, FailureCases
  <2>3. SetOK(InsertTx(run.set, t, height))
    BY <2>2, InsertOK DEF RunOK
  <2>4. InsertTx(run.set, t, height).strict = run.set.strict
    BY InsertIsSet
  <2> HIDE DEF r
  <2> QED  BY <2>1, <2>3, <2>4 DEF RunOK, r
<1>2. CASE ~ (InsertFailure(run.set, t) = "none" /\ run.failure = "none")
  <2>1. r.set = run.set /\ r = [set |-> r.set, failure |-> r.failure]
    BY <1>2, ApplyTxCases DEF RunOK
  <2> HIDE DEF r
  <2> QED  BY <2>1 DEF RunOK, r
<1> QED  BY <1>1, <1>2

\* The run of ApplyTxs, one transaction at a time.
LEMMA ApplyTxsRun ==
    ASSUME NEW run, NEW txs \in Seq(TxId), NEW height
    PROVE  \E f : /\ f[0] = run
                  /\ \A n \in 1 .. Len(txs) : f[n] = ApplyTx(f[n - 1], txs[n], height)
                  /\ ApplyTxs(run, txs, height) = f[Len(txs)]
<1> DEFINE N == Len(txs)
           Is(f, m) == f = [n \in 0 .. m |->
                              IF n = 0 THEN run ELSE ApplyTx(f[n - 1], txs[n], height)]
           T == {m \in Nat : \E f : Is(f, m)}
<1>1. 0 \in T
  <2> DEFINE f == [n \in 0 .. 0 |-> run]
  <2>1. Is(f, 0)
    OBVIOUS
  <2> QED  BY <2>1
<1>2. ASSUME NEW m \in Nat, m \in T PROVE m + 1 \in T
  <2>1. PICK f : Is(f, m)
    BY <1>2
  <2> DEFINE g == [n \in 0 .. m + 1 |-> IF n <= m THEN f[n]
                                        ELSE ApplyTx(f[m], txs[m + 1], height)]
  <2>2. \A n \in 0 .. m + 1 : n # 0 => n - 1 \in 0 .. m /\ g[n - 1] = f[n - 1]
    OBVIOUS
  <2>3. \A n \in 0 .. m : f[n] = IF n = 0 THEN run ELSE ApplyTx(f[n - 1], txs[n], height)
    BY <2>1
  <2> HIDE DEF Is
  <2>4. ASSUME NEW n \in 0 .. m + 1
        PROVE  g[n] = IF n = 0 THEN run ELSE ApplyTx(g[n - 1], txs[n], height)
    <3>1. CASE n = 0
      BY <2>3, <3>1
    <3>2. CASE n # 0 /\ n <= m
      <4>1. n \in 0 .. m /\ g[n] = f[n] /\ g[n - 1] = f[n - 1]
        BY <2>2, <3>2
      <4> HIDE DEF g
      <4> QED  BY <2>3, <3>2, <4>1
    <3>3. CASE n = m + 1
      <4>1. n # 0 /\ n - 1 = m /\ g[n] = ApplyTx(f[m], txs[m + 1], height) /\ g[n - 1] = f[m]
        BY <2>2, <3>3
      <4> HIDE DEF g
      <4> QED  BY <3>3, <4>1
    <3> QED  BY <3>1, <3>2, <3>3
  <2>5. DOMAIN g = 0 .. m + 1 /\ g = [n \in 0 .. m + 1 |-> g[n]]
    OBVIOUS
  <2> HIDE DEF g
  <2>6. g = [n \in 0 .. m + 1 |-> IF n = 0 THEN run ELSE ApplyTx(g[n - 1], txs[n], height)]
    BY <2>4, <2>5
  <2>7. Is(g, m + 1)
    BY <2>6 DEF Is
  <2> QED  BY <2>7
<1>3. N \in Nat
  OBVIOUS
<1> HIDE DEF T
<1>4. N \in T
  BY <1>1, <1>2, <1>3, NatSetInduction
<1> DEFINE f == CHOOSE f : Is(f, N)
<1>5. Is(f, N)
  BY <1>4 DEF T
<1>6. ApplyTxs(run, txs, height) = f[N]
  BY DEF ApplyTxs
<1> HIDE DEF f
<1>7. f[0] = run
  BY <1>3, <1>5
<1>8. ASSUME NEW n \in 1 .. N PROVE f[n] = ApplyTx(f[n - 1], txs[n], height)
  <2>1. n \in 0 .. N /\ n # 0
    BY <1>3
  <2> QED  BY <1>5, <2>1
<1> QED  BY <1>6, <1>7, <1>8

\* Inserting a block keeps the set in order, whether it fails or not.
LEMMA ApplyTxsOK ==
    ASSUME NEW run, RunOK(run), NEW txs \in Seq(TxId), NEW height
    PROVE  /\ RunOK(ApplyTxs(run, txs, height))
           /\ ApplyTxs(run, txs, height).set.strict = run.set.strict
<1>1. PICK f : /\ f[0] = run
               /\ \A n \in 1 .. Len(txs) : f[n] = ApplyTx(f[n - 1], txs[n], height)
               /\ ApplyTxs(run, txs, height) = f[Len(txs)]
  BY ApplyTxsRun
<1> DEFINE T == {n \in Nat : n <= Len(txs) =>
                                RunOK(f[n]) /\ f[n].set.strict = run.set.strict}
<1>2. 0 \in T
  BY <1>1
<1>3. ASSUME NEW n \in Nat, n \in T PROVE n + 1 \in T
  <2> SUFFICES ASSUME n + 1 <= Len(txs)
               PROVE  RunOK(f[n + 1]) /\ f[n + 1].set.strict = run.set.strict
    OBVIOUS
  <2>1. n + 1 \in 1 .. Len(txs) /\ n <= Len(txs) /\ (n + 1) - 1 = n
    OBVIOUS
  <2>2. f[n + 1] = ApplyTx(f[n], txs[n + 1], height) /\ txs[n + 1] \in TxId
    BY <1>1, <2>1
  <2>3. RunOK(f[n]) /\ f[n].set.strict = run.set.strict
    BY <1>3, <2>1
  <2> QED  BY <2>2, <2>3, ApplyTxOK
<1> HIDE DEF T
<1>4. Len(txs) \in T
  BY <1>2, <1>3, NatSetInduction
<1> QED  BY <1>1, <1>4 DEF T

LEMMA ApplyBlockOK ==
    ASSUME NEW run, RunOK(run), NEW block \in Block, NEW height
    PROVE  /\ RunOK(ApplyBlock(run, block, height))
           /\ ApplyBlock(run, block, height).set.strict = run.set.strict
<1>1. TxData[block] \in Seq(TxId)
  BY TxDataAssumption
<1> QED  BY <1>1, ApplyTxsOK DEF ApplyBlock


-----------------------------------------------------------------------------
(* The UTXO set and the ledger.                                             *)

\* The unspent outputs a set stands for.
Pairs(s) == {<<u[1], u[2]>> : u \in IntoSet(s)}

LEMMA PairsFacts ==
    ASSUME NEW s
    PROVE  Pairs(s) = {<<o, s.utxos[o].txout>> : o \in DOMAIN s.utxos}
<1> DEFINE I == {<<o, s.utxos[o].txout, s.utxos[o].height>> : o \in DOMAIN s.utxos}
           P == {<<o, s.utxos[o].txout>> : o \in DOMAIN s.utxos}
<1>1. ASSUME NEW x \in {<<u[1], u[2]>> : u \in I} PROVE x \in P
  <2>1. PICK u \in I : x = <<u[1], u[2]>>
    BY <1>1
  <2>2. PICK o \in DOMAIN s.utxos : u = <<o, s.utxos[o].txout, s.utxos[o].height>>
    OBVIOUS
  <2> QED  BY <2>1, <2>2
<1>2. ASSUME NEW x \in P PROVE x \in {<<u[1], u[2]>> : u \in I}
  <2>1. PICK o \in DOMAIN s.utxos : x = <<o, s.utxos[o].txout>>
    BY <1>2
  <2> DEFINE u == <<o, s.utxos[o].txout, s.utxos[o].height>>
  <2>2. u \in I /\ u[1] = o /\ u[2] = s.utxos[o].txout
    OBVIOUS
  <2> HIDE DEF u, I
  <2> QED  BY <2>1, <2>2
<1> HIDE DEF I
<1>3. {<<u[1], u[2]>> : u \in I} = P
  BY <1>1, <1>2
<1> QED  BY <1>3 DEF Pairs, IntoSet, I

LEMMA OutputsAreCreated ==
    ASSUME NEW t \in TxId
    PROVE  /\ L!Outputs(t) = {<<o, Tx[t].outputs[o.vout + 1]>> : o \in Created(t)}
           /\ {u[1] : u \in L!Outputs(t)} = Created(t)
<1> DEFINE out == Tx[t].outputs
           O(i) == [txid |-> t, vout |-> i - 1]
<1>1. out \in Seq(TxOut) /\ DOMAIN out \subseteq Nat
  BY TxAssumption
<1>2. \A i \in DOMAIN out : O(i).vout + 1 = i
  BY <1>1
<1> HIDE DEF O
<1>3. L!Outputs(t) = {<<O(i), out[i]>> : i \in DOMAIN out} /\ Created(t) = {O(i) : i \in DOMAIN out}
  BY DEF L!Outputs, Created, O
<1> HIDE DEF out
<1>4. {<<O(i), out[i]>> : i \in DOMAIN out} = {<<o, out[o.vout + 1]>> : o \in {O(i) : i \in DOMAIN out}}
  BY <1>2
<1> DEFINE A == {<<O(i), out[i]>> : i \in DOMAIN out}
<1>5. {u[1] : u \in A} = {O(i) : i \in DOMAIN out}
  <2>1. \A i \in DOMAIN out : <<O(i), out[i]>> \in A /\ <<O(i), out[i]>>[1] = O(i)
    OBVIOUS
  <2>2. \A u \in A : \E i \in DOMAIN out : u[1] = O(i)
    OBVIOUS
  <2> HIDE DEF A
  <2> QED  BY <2>1, <2>2
<1> QED  BY <1>3, <1>4, <1>5 DEF out

\* insert_tx is a step of the ledger.
LEMMA InsertIsStep ==
    ASSUME NEW s, NEW t \in TxId, NEW height
    PROVE  Pairs(InsertTx(s, t, height)) = L!AfterTx(Pairs(s), t)
<1> DEFINE r == InsertTx(s, t, height)
           D == (DOMAIN s.utxos \ Spent(s, t)) \cup Created(t)
<1>1. EntriesAfter(s, t, height, r)
  BY InsertEntries
<1> HIDE DEF r
<1>2. Pairs(r) = {<<o, r.utxos[o].txout>> : o \in D}
  BY <1>1, PairsFacts DEF EntriesAfter
<1>3. Pairs(s) = {<<o, s.utxos[o].txout>> : o \in DOMAIN s.utxos}
  BY PairsFacts
<1>4. L!AfterTx(Pairs(s), t) = {u \in Pairs(s) : u[1] \notin Tx[t].inputs \cup Created(t)}
                            \cup {<<o, Tx[t].outputs[o.vout + 1]>> : o \in Created(t)}
  BY OutputsAreCreated DEF L!AfterTx
<1>5. \A o \in DOMAIN s.utxos : o \in Spent(s, t) <=> o \in Tx[t].inputs
  BY DEF Spent
<1>6. ASSUME NEW x \in Pairs(r) PROVE x \in L!AfterTx(Pairs(s), t)
  <2>1. PICK o \in D : x = <<o, r.utxos[o].txout>>
    BY <1>2, <1>6
  <2>2. CASE o \in Created(t)
    BY <1>1, <1>4, <2>1, <2>2 DEF EntriesAfter
  <2>3. CASE o \notin Created(t)
    <3>1. o \in DOMAIN s.utxos \ Spent(s, t) /\ r.utxos[o] = s.utxos[o]
      BY <1>1, <2>1, <2>3 DEF EntriesAfter
    <3>2. x = <<o, s.utxos[o].txout>> /\ x \in Pairs(s) /\ x[1] = o
      BY <1>3, <2>1, <3>1
    <3> QED  BY <1>4, <1>5, <2>3, <3>1, <3>2
  <2> QED  BY <2>2, <2>3
<1>7. ASSUME NEW x \in L!AfterTx(Pairs(s), t) PROVE x \in Pairs(r)
  <2>1. CASE x \in {<<o, Tx[t].outputs[o.vout + 1]>> : o \in Created(t)}
    <3>1. PICK o \in Created(t) : x = <<o, Tx[t].outputs[o.vout + 1]>>
      BY <2>1
    <3>2. r.utxos[o].txout = Tx[t].outputs[o.vout + 1]
      BY <1>1 DEF EntriesAfter
    <3> QED  BY <1>2, <3>1, <3>2
  <2>2. CASE x \in Pairs(s) /\ x[1] \notin Tx[t].inputs \cup Created(t)
    <3>1. PICK o \in DOMAIN s.utxos : x = <<o, s.utxos[o].txout>>
      BY <1>3, <2>2
    <3>2. o \notin Tx[t].inputs /\ o \notin Created(t)
      BY <2>2, <3>1
    <3>3. r.utxos[o] = s.utxos[o] /\ o \in D
      BY <1>1, <1>5, <3>2 DEF EntriesAfter
    <3> QED  BY <1>2, <3>1, <3>3
  <2> QED  BY <1>4, <1>7, <2>1, <2>2
<1> QED  BY <1>6, <1>7 DEF r

\* A strict set that takes a transaction holds what it spends, and one that
\* holds it and does not have the outputs yet takes it.
LEMMA PairsKeys ==
    ASSUME NEW s
    PROVE  {u[1] : u \in Pairs(s)} = DOMAIN s.utxos
<1> DEFINE D == DOMAIN s.utxos
           v(o) == s.utxos[o].txout
           A == {<<o, v(o)>> : o \in D}
<1>1. \A o \in D : <<o, v(o)>> \in A /\ <<o, v(o)>>[1] = o
  OBVIOUS
<1>2. \A u \in A : u[1] \in D
  OBVIOUS
<1>3. Pairs(s) = A
  BY PairsFacts
<1> HIDE DEF A, D
<1>4. {u[1] : u \in A} = D
  BY <1>1, <1>2
<1> QED  BY <1>3, <1>4 DEF D

\* The run of After, one transaction at a time.
IsRunOf(f, outputs, txs) ==
    /\ f[0] = outputs
    /\ \A n \in 1 .. Len(txs) : f[n] = L!AfterTx(f[n - 1], txs[n])

LEMMA AfterRun ==
    ASSUME NEW outputs, NEW txs \in Seq(TxId)
    PROVE  \E f : IsRunOf(f, outputs, txs) /\ L!After(outputs, txs) = f[Len(txs)]
<1> DEFINE N == Len(txs)
           Is(f, m) == f = [n \in 0 .. m |-> IF n = 0 THEN outputs ELSE L!AfterTx(f[n - 1], txs[n])]
           T == {m \in Nat : \E f : Is(f, m)}
<1>1. 0 \in T
  <2> DEFINE f == [n \in 0 .. 0 |-> outputs]
  <2>1. Is(f, 0)
    OBVIOUS
  <2> QED  BY <2>1
<1>2. ASSUME NEW m \in Nat, m \in T PROVE m + 1 \in T
  <2>1. PICK f : Is(f, m)
    BY <1>2
  <2> DEFINE g == [n \in 0 .. m + 1 |-> IF n <= m THEN f[n] ELSE L!AfterTx(f[m], txs[m + 1])]
  <2>2. \A n \in 0 .. m + 1 : n # 0 => n - 1 \in 0 .. m /\ g[n - 1] = f[n - 1]
    OBVIOUS
  <2>3. \A n \in 0 .. m : f[n] = IF n = 0 THEN outputs ELSE L!AfterTx(f[n - 1], txs[n])
    BY <2>1
  <2> HIDE DEF Is
  <2>4. ASSUME NEW n \in 0 .. m + 1
        PROVE  g[n] = IF n = 0 THEN outputs ELSE L!AfterTx(g[n - 1], txs[n])
    <3>1. CASE n = 0
      BY <2>3, <3>1
    <3>2. CASE n # 0 /\ n <= m
      <4>1. n \in 0 .. m /\ g[n] = f[n] /\ g[n - 1] = f[n - 1]
        BY <2>2, <3>2
      <4> HIDE DEF g
      <4> QED  BY <2>3, <3>2, <4>1
    <3>3. CASE n = m + 1
      <4>1. n # 0 /\ n - 1 = m /\ g[n] = L!AfterTx(f[m], txs[m + 1]) /\ g[n - 1] = f[m]
        BY <2>2, <3>3
      <4> HIDE DEF g
      <4> QED  BY <3>3, <4>1
    <3> QED  BY <3>1, <3>2, <3>3
  <2>5. DOMAIN g = 0 .. m + 1 /\ g = [n \in 0 .. m + 1 |-> g[n]]
    OBVIOUS
  <2> HIDE DEF g
  <2>6. g = [n \in 0 .. m + 1 |-> IF n = 0 THEN outputs ELSE L!AfterTx(g[n - 1], txs[n])]
    BY <2>4, <2>5
  <2>7. Is(g, m + 1)
    BY <2>6 DEF Is
  <2> QED  BY <2>7
<1>3. N \in Nat
  OBVIOUS
<1> HIDE DEF T
<1>4. N \in T
  BY <1>1, <1>2, <1>3, NatSetInduction
<1> DEFINE f == CHOOSE f : Is(f, N)
<1>5. Is(f, N)
  BY <1>4 DEF T
<1>6. L!After(outputs, txs) = f[N]
  BY DEF L!After
<1> HIDE DEF f
<1>7. f[0] = outputs
  BY <1>3, <1>5
<1>8. ASSUME NEW n \in 1 .. N PROVE f[n] = L!AfterTx(f[n - 1], txs[n])
  <2>1. n \in 0 .. N /\ n # 0
    BY <1>3
  <2> QED  BY <1>5, <2>1
<1> QED  BY <1>6, <1>7, <1>8 DEF IsRunOf

\* There is one run only, so a part of the transactions leads to its middle.
LEMMA AfterPart ==
    ASSUME NEW outputs, NEW txs \in Seq(TxId), NEW f, IsRunOf(f, outputs, txs),
           NEW part \in Seq(TxId), Len(part) <= Len(txs),
           \A n \in 1 .. Len(part) : part[n] = txs[n]
    PROVE  L!After(outputs, part) = f[Len(part)]
<1>1. PICK g : IsRunOf(g, outputs, part) /\ L!After(outputs, part) = g[Len(part)]
  BY AfterRun
<1> DEFINE T == {n \in Nat : n <= Len(part) => g[n] = f[n]}
<1>2. 0 \in T
  BY <1>1 DEF IsRunOf
<1>3. ASSUME NEW n \in Nat, n \in T PROVE n + 1 \in T
  <2> SUFFICES ASSUME n + 1 <= Len(part) PROVE g[n + 1] = f[n + 1]
    OBVIOUS
  <2>1. n + 1 \in 1 .. Len(part) /\ n + 1 \in 1 .. Len(txs) /\ n <= Len(part) /\ (n + 1) - 1 = n
    OBVIOUS
  <2>2. g[n] = f[n]
    BY <1>3, <2>1
  <2>3. g[n + 1] = L!AfterTx(g[n], part[n + 1])
    BY <1>1, <2>1 DEF IsRunOf
  <2>4. f[n + 1] = L!AfterTx(f[n], txs[n + 1])
    BY <2>1 DEF IsRunOf
  <2> QED  BY <2>1, <2>2, <2>3, <2>4
<1> HIDE DEF T
<1>4. Len(part) \in T
  BY <1>2, <1>3, NatSetInduction
<1> QED  BY <1>1, <1>4 DEF T


\* While a block is inserted without failure, the set follows the ledger; a
\* strict set moreover sees to it that every input is there to be spent.
LEMMA ApplyIsAfter ==
    ASSUME NEW run, RunOK(run), NEW txs \in Seq(TxId), NEW height,
           ApplyTxs(run, txs, height).failure = "none"
    PROVE  /\ Pairs(ApplyTxs(run, txs, height).set) = L!After(Pairs(run.set), txs)
           /\ run.set.strict => L!Spendable(Pairs(run.set), txs)
<1> DEFINE N == Len(txs)
<1>0. N \in Nat /\ DOMAIN txs = 1 .. N /\ \A n \in 1 .. N : txs[n] \in TxId
  OBVIOUS
<1>1. PICK f : /\ f[0] = run
               /\ \A n \in 1 .. N : f[n] = ApplyTx(f[n - 1], txs[n], height)
               /\ ApplyTxs(run, txs, height) = f[N]
  BY ApplyTxsRun
<1>2. PICK g : /\ IsRunOf(g, Pairs(run.set), txs)
               /\ L!After(Pairs(run.set), txs) = g[N]
  BY AfterRun
<1> HIDE DEF N
<1>3. \A n \in 0 .. N : RunOK(f[n]) /\ f[n].set.strict = run.set.strict
  <2> DEFINE T == {n \in Nat : n <= N => RunOK(f[n]) /\ f[n].set.strict = run.set.strict}
  <2>1. 0 \in T
    BY <1>1
  <2>2. ASSUME NEW n \in Nat, n \in T PROVE n + 1 \in T
    <3> SUFFICES ASSUME n + 1 <= N
                 PROVE  RunOK(f[n + 1]) /\ f[n + 1].set.strict = run.set.strict
      OBVIOUS
    <3>1. n + 1 \in 1 .. N /\ n <= N /\ (n + 1) - 1 = n
      BY <1>0
    <3>2. f[n + 1] = ApplyTx(f[n], txs[n + 1], height) /\ txs[n + 1] \in TxId
      BY <1>0, <1>1, <3>1
    <3>3. RunOK(f[n]) /\ f[n].set.strict = run.set.strict
      BY <2>2, <3>1
    <3> QED  BY <3>2, <3>3, ApplyTxOK
  <2> HIDE DEF T
  <2>3. Nat \subseteq T
    BY <2>1, <2>2, NatSetInduction
  <2>4. \A n \in 0 .. N : n \in Nat /\ n <= N
    BY <1>0
  <2> QED  BY <2>3, <2>4 DEF T
<1>4. \A n \in 0 .. N : f[n].failure = "none"
  <2> DEFINE T == {m \in Nat : m <= N => f[N - m].failure = "none"}
  <2>1. 0 \in T
    BY <1>0, <1>1
  <2>2. ASSUME NEW m \in Nat, m \in T PROVE m + 1 \in T
    <3> SUFFICES ASSUME m + 1 <= N PROVE f[N - (m + 1)].failure = "none"
      OBVIOUS
    <3> DEFINE n == N - (m + 1)
    <3>1. n \in 0 .. N /\ n + 1 \in 1 .. N /\ N - m = n + 1 /\ (n + 1) - 1 = n /\ m <= N
      BY <1>0
    <3> HIDE DEF n
    <3>2. f[n + 1].failure = "none"
      BY <2>2, <3>1
    <3>3. f[n + 1] = ApplyTx(f[n], txs[n + 1], height)
      BY <1>1, <3>1
    <3>4. RunOK(f[n])
      BY <1>3, <3>1
    <3>5. f[n].failure # "none" => f[n + 1] = f[n]
      BY <3>3, <3>4, ApplyTxCases
    <3> QED  BY <3>2, <3>5 DEF n
  <2> HIDE DEF T
  <2>3. Nat \subseteq T
    BY <2>1, <2>2, NatSetInduction
  <2>4. ASSUME NEW n \in 0 .. N PROVE f[n].failure = "none"
    <3> DEFINE m == N - n
    <3>1. m \in Nat /\ m <= N /\ N - m = n
      BY <1>0
    <3> HIDE DEF m
    <3>2. m \in T
      BY <2>3, <3>1
    <3> QED  BY <3>1, <3>2 DEF T
  <2> QED  BY <2>4
<1>5. ASSUME NEW n \in 1 .. N
      PROVE  /\ n - 1 \in 0 .. N
             /\ InsertFailure(f[n - 1].set, txs[n]) = "none"
             /\ Pairs(f[n].set) = L!AfterTx(Pairs(f[n - 1].set), txs[n])
  <2>1. n - 1 \in 0 .. N /\ n \in 0 .. N
    BY <1>0
  <2> DEFINE before == f[n - 1]
  <2>2. /\ RunOK(before) /\ f[n] = ApplyTx(before, txs[n], height)
        /\ f[n].failure = "none" /\ before.failure = "none" /\ txs[n] \in TxId
    BY <1>0, <1>1, <1>3, <1>4, <2>1
  <2> HIDE DEF before
  <2>3. InsertFailure(before.set, txs[n]) = "none" /\ f[n].set = InsertTx(before.set, txs[n], height)
    BY <2>2, ApplyTxCases
  <2> QED  BY <2>1, <2>2, <2>3, InsertIsStep DEF before
<1>6. \A n \in 0 .. N : Pairs(f[n].set) = g[n]
  <2> DEFINE T == {n \in Nat : n <= N => Pairs(f[n].set) = g[n]}
  <2>1. 0 \in T
    BY <1>1, <1>2 DEF IsRunOf
  <2>2. ASSUME NEW n \in Nat, n \in T PROVE n + 1 \in T
    <3> SUFFICES ASSUME n + 1 <= N PROVE Pairs(f[n + 1].set) = g[n + 1]
      OBVIOUS
    <3>1. n + 1 \in 1 .. N /\ n <= N /\ (n + 1) - 1 = n
      BY <1>0
    <3>2. g[n + 1] = L!AfterTx(g[n], txs[n + 1])
      BY <1>2, <3>1 DEF IsRunOf, N
    <3>3. Pairs(f[n].set) = g[n]
      BY <2>2, <3>1
    <3> QED  BY <1>5, <3>1, <3>2, <3>3
  <2> HIDE DEF T
  <2>3. Nat \subseteq T
    BY <2>1, <2>2, NatSetInduction
  <2>4. \A n \in 0 .. N : n \in Nat /\ n <= N
    BY <1>0
  <2> QED  BY <2>3, <2>4 DEF T
<1>7. ASSUME run.set.strict, NEW n \in DOMAIN txs
      PROVE  Tx[txs[n]].inputs
                \subseteq {u[1] : u \in L!After(Pairs(run.set), SubSeq(txs, 1, n - 1))}
  <2> DEFINE m == n - 1
             part == SubSeq(txs, 1, m)
             before == f[m]
  <2>1. n \in 1 .. N /\ m \in 0 .. N /\ m \in Nat /\ m <= N
    BY <1>0
  <2>2. part \in Seq(TxId) /\ Len(part) = m /\ \A k \in 1 .. m : part[k] = txs[k]
    BY <2>1 DEF N
  <2> HIDE DEF part
  <2>3. L!After(Pairs(run.set), part) = g[m]
    <3>1. Len(part) <= Len(txs) /\ \A k \in 1 .. Len(part) : part[k] = txs[k]
      BY <2>1, <2>2 DEF N
    <3>2. L!After(Pairs(run.set), part) = g[Len(part)]
      BY <1>2, <2>2, <3>1, AfterPart
    <3> QED  BY <2>2, <3>2
  <2>4. InsertFailure(before.set, txs[n]) = "none" /\ before.set.strict = run.set.strict
    BY <1>3, <1>5, <2>1
  <2>5. Pairs(before.set) = g[m]
    BY <1>6, <2>1
  <2> HIDE DEF before, m
  <2>6. Tx[txs[n]].inputs \subseteq DOMAIN before.set.utxos
    BY <1>7, <2>4, FailureCases DEF InputMissing
  <2> QED  BY <2>3, <2>5, <2>6, PairsKeys DEF part, m
<1>8. N \in 0 .. N
  BY <1>0
<1>9. Pairs(f[N].set) = g[N]
  BY <1>6, <1>8
<1> QED  BY <1>1, <1>2, <1>7, <1>9 DEF L!Spendable

LEMMA BlockIsAfter ==
    ASSUME NEW s, SetOK(s), NEW block \in Block, NEW height,
           ApplyBlock(Start(s), block, height).failure = "none"
    PROVE  /\ Pairs(ApplyBlock(Start(s), block, height).set)
                = L!After(Pairs(s), TxData[block])
           /\ s.strict => L!Spendable(Pairs(s), TxData[block])
<1> DEFINE run == Start(s)
           txs == TxData[block]
<1>1. txs \in Seq(TxId) /\ RunOK(run) /\ run.set = s
  BY TxDataAssumption, StartOK
<1>2. ApplyTxs(run, txs, height).failure = "none"
  BY DEF ApplyBlock
<1> HIDE DEF run, txs
<1>3. /\ Pairs(ApplyTxs(run, txs, height).set) = L!After(Pairs(run.set), txs)
      /\ run.set.strict => L!Spendable(Pairs(run.set), txs)
  BY <1>1, <1>2, ApplyIsAfter
<1> QED  BY <1>1, <1>3 DEF ApplyBlock, run, txs


-----------------------------------------------------------------------------
(* The state.                                                               *)

StateOK(s) ==
    /\ s = [height                   |-> s.height,
            latest_stable_block_hash |-> s.latest_stable_block_hash,
            utxos                    |-> s.utxos,
            unstable_blocks          |-> s.unstable_blocks]
    /\ s.height \in Nat \ {0}
    /\ s.latest_stable_block_hash \in Block
    /\ SetOK(s.utxos) /\ s.utxos.strict = TRUE
    /\ ForestOK(s.unstable_blocks)
    /\ GetBlocks(s.unstable_blocks) \subseteq Block

LEMMA NewStateOK ==
    /\ StateOK(NewState)
    /\ NewState.height = 1
    /\ NewState.latest_stable_block_hash = Genesis
    /\ Pairs(NewState.utxos) = L!After({}, TxData[Genesis])
    /\ GetBlocks(NewState.unstable_blocks) = {}
<1> DEFINE set == ApplyBlock(Start(New(TRUE)), Genesis, 1).set
           new == New(TRUE)
<1>1. NewState = [height |-> 1, latest_stable_block_hash |-> Genesis,
                  utxos |-> set, unstable_blocks |-> << >>]
  BY DEF NewState
<1>2. SetOK(new) /\ new.strict = TRUE /\ DOMAIN new.utxos = {}
  BY NewOK
<1>3. SetOK(set) /\ set.strict = TRUE
  <2>1. RunOK(Start(new)) /\ Start(new).set = new
    BY <1>2, StartOK
  <2>2. RunOK(ApplyBlock(Start(new), Genesis, 1)) /\ set.strict = TRUE
    BY <1>2, <2>1, ApplyBlockOK, GenesisAssumption
  <2> QED  BY <2>2 DEF RunOK
<1>4. Pairs(set) = L!After({}, TxData[Genesis])
  <2>1. Pairs(new) = {}
    BY <1>2, PairsFacts
  <2>2. Pairs(ApplyBlock(Start(new), Genesis, 1).set) = L!After(Pairs(new), TxData[Genesis])
    <3>1. ApplyBlock(Start(new), Genesis, 1).failure = "none"
      BY NewAssumption
    <3> HIDE DEF new
    <3> QED  BY <1>2, <3>1, BlockIsAfter, GenesisAssumption
  <2> QED  BY <2>1, <2>2
<1> HIDE DEF set
<1>5. << >> \in Seq({}) /\ DOMAIN << >> = {}
  OBVIOUS
<1>6. ForestOK(<< >>) /\ GetBlocks(<< >>) = {}
  BY <1>5 DEF ForestOK, GetBlocks
<1> DEFINE s == NewState
<1>7. /\ s.height = 1 /\ s.latest_stable_block_hash = Genesis
      /\ s.utxos = set /\ s.unstable_blocks = << >>
  BY <1>1
<1> HIDE DEF s
<1> QED  BY <1>1, <1>3, <1>4, <1>6, <1>7, GenesisAssumption DEF StateOK, s

\* What becomes stable is the successor of the last stable block: the
\* assertion of insert_block never fails.
LEMMA PoppedOK ==
    ASSUME NEW s, StateOK(s), NEW block \in Block
    PROVE  /\ ForestOK(Pushed(s, block))
           /\ GetBlocks(Pushed(s, block)) = GetBlocks(s.unstable_blocks) \cup {block}
           /\ GetBlocks(Pushed(s, block)) \subseteq Block
           /\ Stabilises(s, block) =>
                /\ Popped(s, block) \in GetBlocks(Pushed(s, block))
                /\ Popped(s, block) \in Block
                /\ Prev[Popped(s, block)] = s.latest_stable_block_hash
<1> DEFINE trees == s.unstable_blocks
           new == Push(trees, block)
           anchor == s.latest_stable_block_hash
<1>1. ForestOK(trees) /\ GetBlocks(trees) \subseteq Block
  BY DEF StateOK
<1>2. ForestOK(new) /\ GetBlocks(new) = GetBlocks(trees) \cup {block}
  BY <1>1, PushOK
<1>3. HasStable(new, anchor) =>
        /\ StableBlock(new, anchor) \in GetBlocks(new)
        /\ Prev[StableBlock(new, anchor)] = anchor
  <2> HIDE DEF new, anchor
  <2> QED  BY <1>2, PopOK
<1> QED  BY <1>1, <1>2, <1>3 DEF Pushed, Stabilises, Popped

LEMMA InsertState ==
    ASSUME NEW s, StateOK(s), NEW block \in Block, ~ InsertPanics(s, block)
    PROVE  LET r == InsertBlock(s, block)
               anchor == s.latest_stable_block_hash
           IN  /\ StateOK(r)
               /\ r.unstable_blocks = PopTrees(Pushed(s, block), anchor)
               /\ GetBlocks(r.unstable_blocks) \subseteq GetBlocks(s.unstable_blocks) \cup {block}
               /\ ~ Stabilises(s, block) =>
                    /\ r.height = s.height /\ r.latest_stable_block_hash = anchor
                    /\ r.utxos = s.utxos
               /\ Stabilises(s, block) =>
                    /\ r.height = s.height + 1
                    /\ r.latest_stable_block_hash = Popped(s, block)
                    /\ Prev[r.latest_stable_block_hash] = anchor
                    /\ Pairs(r.utxos) = L!After(Pairs(s.utxos), TxData[Popped(s, block)])
                    /\ L!Spendable(Pairs(s.utxos), TxData[Popped(s, block)])
<1> DEFINE r == InsertBlock(s, block)
           anchor == s.latest_stable_block_hash
           pushed == Pushed(s, block)
           trees == PopTrees(pushed, anchor)
           popped == Popped(s, block)
           set == Processed(s, block).set
<1>1. /\ ForestOK(pushed)
      /\ GetBlocks(pushed) = GetBlocks(s.unstable_blocks) \cup {block}
      /\ GetBlocks(pushed) \subseteq Block
      /\ Stabilises(s, block) => popped \in Block /\ Prev[popped] = anchor
  BY PoppedOK
<1> HIDE DEF pushed, anchor
<1>2. ForestOK(trees) /\ GetBlocks(trees) \subseteq GetBlocks(pushed)
  BY <1>1, PopOK
<1>3. ASSUME Stabilises(s, block)
      PROVE  /\ SetOK(set) /\ set.strict = TRUE
             /\ Pairs(set) = L!After(Pairs(s.utxos), TxData[popped])
             /\ L!Spendable(Pairs(s.utxos), TxData[popped])
  <2> DEFINE run == Start(s.utxos)
             set0 == s.utxos
             height == s.height
  <2>1. SetOK(set0) /\ set0.strict = TRUE
    BY DEF StateOK
  <2>2. RunOK(run) /\ run.set = set0
    BY <2>1, StartOK
  <2>3. popped \in Block
    BY <1>1, <1>3
  <2>4. /\ RunOK(ApplyBlock(run, popped, height))
        /\ ApplyBlock(run, popped, height).set.strict = TRUE
    <3> HIDE DEF run, popped, height, set0
    <3> QED  BY <2>1, <2>2, <2>3, ApplyBlockOK
  <2>5. ApplyBlock(Start(set0), popped, height).failure = "none"
    BY <1>3 DEF InsertPanics, Processed
  <2>6. /\ Pairs(ApplyBlock(Start(set0), popped, height).set) = L!After(Pairs(set0), TxData[popped])
        /\ L!Spendable(Pairs(set0), TxData[popped])
    <3> HIDE DEF popped, height, set0
    <3> QED  BY <2>1, <2>3, <2>5, BlockIsAfter
  <2> QED  BY <2>4, <2>6 DEF RunOK, Processed
<1>4. CASE ~ Stabilises(s, block)
  <2> DEFINE h == s.height
             u == s.utxos
             f == s.unstable_blocks
  <2>1. s = [height |-> h, latest_stable_block_hash |-> anchor, utxos |-> u, unstable_blocks |-> f]
    BY DEF StateOK, anchor
  <2>2. r = [s EXCEPT !.unstable_blocks = trees]
    BY <1>4 DEF InsertBlock, pushed, anchor
  <2>3. h \in Nat \ {0} /\ anchor \in Block /\ SetOK(u) /\ u.strict = TRUE
    BY DEF StateOK, anchor
  <2> HIDE DEF r, trees, h, u, f
  <2>4. r = [height |-> h, latest_stable_block_hash |-> anchor, utxos |-> u, unstable_blocks |-> trees]
    BY <2>1, <2>2
  <2>5. /\ r.height = h /\ r.latest_stable_block_hash = anchor /\ r.utxos = u
        /\ r.unstable_blocks = trees
    BY <2>4
  <2>6. StateOK(r)
    BY <1>1, <1>2, <2>3, <2>4, <2>5 DEF StateOK, trees
  <2> QED  BY <1>1, <1>2, <1>4, <2>5, <2>6 DEF r, trees, h, u, anchor, pushed
<1>5. CASE Stabilises(s, block)
  <2> DEFINE h == s.height + 1
  <2>1. r = [height |-> h, latest_stable_block_hash |-> popped, utxos |-> set,
             unstable_blocks |-> trees]
    BY <1>5 DEF InsertBlock, pushed, anchor
  <2>2. h \in Nat \ {0}
    BY DEF StateOK
  <2> HIDE DEF r, trees, h, set, popped
  <2>3. /\ r.height = h /\ r.latest_stable_block_hash = popped /\ r.utxos = set
        /\ r.unstable_blocks = trees
    BY <2>1
  <2>4. StateOK(r)
    BY <1>1, <1>2, <1>3, <1>5, <2>1, <2>2, <2>3 DEF StateOK, trees
  <2> QED  BY <1>1, <1>2, <1>3, <1>5, <2>3, <2>4 DEF r, trees, h, anchor, pushed, popped
<1> QED  BY <1>4, <1>5

LEMMA ReloadState ==
    ASSUME NEW s, StateOK(s)
    PROVE  LoadState(SaveState(s)) = s
<1> DEFINE h == s.height
           a == s.latest_stable_block_hash
           u == s.utxos
           f == s.unstable_blocks
           p == ToProto(u)
<1>1. s = [height |-> h, latest_stable_block_hash |-> a, utxos |-> u, unstable_blocks |-> f]
  BY DEF StateOK
<1>2. FromProto(p) = u
  BY ConsistentReload DEF StateOK, SetOK
<1>3. SaveState(s) = [s EXCEPT !.utxos = p]
  BY DEF SaveState
<1> HIDE DEF h, a, u, f, p
<1>4. SaveState(s) = [height |-> h, latest_stable_block_hash |-> a, utxos |-> p, unstable_blocks |-> f]
  BY <1>1, <1>3
<1> DEFINE t == SaveState(s)
<1> HIDE DEF t
<1>5. LoadState(t) = [t EXCEPT !.utxos = FromProto(p)]
  BY <1>4 DEF LoadState, t
<1> QED  BY <1>1, <1>2, <1>4, <1>5 DEF t


-----------------------------------------------------------------------------
(* The tree of all blocks.                                                  *)

\* The blocks that every set with block in it, and with a block the one before,
\* has.
Closed(C) == \A b \in C : Prev[b] \in Block => Prev[b] \in C
Reached(block) == {x \in Block : \A C \in SUBSET Block : block \in C /\ Closed(C) => x \in C}

LEMMA PastDef ==
    /\ DOMAIN Past = Block
    /\ \A b \in Block : Past[b] = {b} \cup (IF Prev[b] \in Block THEN Past[Prev[b]] ELSE {})
<1> DEFINE Is(f) == f = [b \in Block |-> {b} \cup (IF Prev[b] \in Block THEN f[Prev[b]] ELSE {})]
           r == [b \in Block |-> Reached(b)]
<1>1. ASSUME NEW b \in Block
      PROVE  Reached(b) = {b} \cup (IF Prev[b] \in Block THEN Reached(Prev[b]) ELSE {})
  <2>1. b \in Reached(b)
    BY DEF Reached
  <2>2. ASSUME Prev[b] \in Block, NEW x \in Reached(Prev[b]) PROVE x \in Reached(b)
    BY <2>2 DEF Reached, Closed
  <2>3. ASSUME NEW x \in Reached(b), x # b PROVE Prev[b] \in Block /\ x \in Reached(Prev[b])
    <3>1. Prev[b] \in Block
      <4>1. CASE Prev[b] \notin Block
        <5>1. {b} \in SUBSET Block /\ Closed({b})
          BY <4>1 DEF Closed
        <5> QED  BY <2>3, <5>1 DEF Reached
      <4> QED  BY <4>1
    <3>2. ASSUME NEW C \in SUBSET Block, Prev[b] \in C, Closed(C) PROVE x \in C
      <4>1. C \cup {b} \in SUBSET Block /\ Closed(C \cup {b})
        BY <3>2 DEF Closed
      <4>2. x \in C \cup {b}
        BY <2>3, <4>1 DEF Reached
      <4> QED  BY <2>3, <4>2
    <3>3. x \in Block
      BY <2>3 DEF Reached
    <3> QED  BY <3>1, <3>2, <3>3 DEF Reached
  <2> QED  BY <2>1, <2>2, <2>3
<1>2. \A b \in Block :
        r[b] = {b} \cup (IF Prev[b] \in Block THEN r[Prev[b]] ELSE {})
  BY <1>1
<1>3. r = [b \in Block |-> r[b]]
  OBVIOUS
<1> HIDE DEF r
<1>4. r = [b \in Block |-> {b} \cup (IF Prev[b] \in Block THEN r[Prev[b]] ELSE {})]
  BY <1>2, <1>3
<1>5. Is(r)
  BY <1>4
<1>6. Past = CHOOSE f : Is(f)
  BY DEF Past
<1>7. Is(Past)
  <2> HIDE DEF Is
  <2> QED  BY <1>5, <1>6
<1> QED  BY <1>7

\* Induction along the headers.
LEMMA FirstBlock ==
    ASSUME NEW B \in SUBSET Block, B # {}
    PROVE  \E b \in B : Prev[b] \notin B
BY PrevAssumption

LEMMA PastFacts ==
    ASSUME NEW b \in Block
    PROVE  /\ b \in Past[b]
           /\ Past[b] \subseteq Block
           /\ IsFiniteSet(Past[b])
           /\ \A x \in Past[b] : Past[x] \subseteq Past[b]
<1> DEFINE Good(x) == /\ Past[x] \subseteq Block /\ IsFiniteSet(Past[x])
                      /\ \A y \in Past[x] : Past[y] \subseteq Past[x]
           B == {x \in Block : ~ Good(x)}
<1>1. ASSUME B # {} PROVE FALSE
  <2>1. PICK x \in B : Prev[x] \notin B
    BY <1>1, FirstBlock
  <2>2. Past[x] = {x} \cup (IF Prev[x] \in Block THEN Past[Prev[x]] ELSE {})
    BY PastDef
  <2>3. IsFiniteSet({x})
    BY FS_Singleton
  <2>4. CASE Prev[x] \notin Block
    <3>1. Past[x] = {x}
      BY <2>2, <2>4
    <3>2. Good(x)
      BY <2>3, <3>1
    <3> QED  BY <3>2
  <2>5. CASE Prev[x] \in Block
    <3> DEFINE p == Past[Prev[x]]
    <3>1. Past[x] = {x} \cup p
      BY <2>2, <2>5
    <3>2. /\ p \subseteq Block /\ IsFiniteSet(p)
          /\ \A y \in p : Past[y] \subseteq p
      BY <2>1, <2>5
    <3> HIDE DEF p
    <3>3. IsFiniteSet({x} \cup p)
      BY <2>3, <3>2, FS_Union
    <3>4. Good(x)
      BY <3>1, <3>2, <3>3
    <3> QED  BY <3>4
  <2> QED  BY <2>4, <2>5
<1>2. Good(b)
  BY <1>1
<1>3. b \in Past[b]
  BY PastDef
<1> QED  BY <1>2, <1>3

\* The past of a block is a chain: of two blocks of it, one is in the past of
\* the other.
LEMMA PastIsChain ==
    ASSUME NEW b \in Block, NEW x \in Past[b], NEW y \in Past[b]
    PROVE  x \in Past[y] \/ y \in Past[x]
<1> DEFINE Good(c) == \A u, v \in Past[c] : u \in Past[v] \/ v \in Past[u]
           B == {c \in Block : ~ Good(c)}
<1>1. ASSUME B # {} PROVE FALSE
  <2>1. PICK c \in B : Prev[c] \notin B
    BY <1>1, FirstBlock
  <2>2. Past[c] = {c} \cup (IF Prev[c] \in Block THEN Past[Prev[c]] ELSE {})
    BY PastDef
  <2>3. ASSUME NEW u \in Past[c], NEW v \in Past[c] PROVE u \in Past[v] \/ v \in Past[u]
    <3>1. CASE u = c \/ v = c
      BY <3>1
    <3>2. CASE u # c /\ v # c
      <4>1. Prev[c] \in Block /\ u \in Past[Prev[c]] /\ v \in Past[Prev[c]]
        BY <2>2, <3>2
      <4>2. Good(Prev[c])
        BY <2>1, <4>1
      <4> QED  BY <4>1, <4>2
    <3> QED  BY <3>1, <3>2
  <2>4. Good(c)
    BY <2>3
  <2> QED  BY <2>4
<1>2. Good(b)
  BY <1>1
<1> QED  BY <1>2

\* No block is in the past of the one before it, so each adds one to its past.
LEMMA PastGrows ==
    ASSUME NEW b \in Block
    PROVE  /\ Cardinality(Past[b]) \in Nat \ {0}
           /\ Prev[b] \in Block =>
                /\ b \notin Past[Prev[b]]
                /\ Cardinality(Past[b]) = Cardinality(Past[Prev[b]]) + 1
           /\ Prev[b] \notin Block => Cardinality(Past[b]) = 1
<1>1. ASSUME NEW c \in Block, Prev[c] \in Block PROVE c \notin Past[Prev[c]]
  <2> DEFINE B == {x \in Past[c] : c \in Past[x]}
  <2>1. c \in B /\ B \subseteq Block
    BY PastFacts
  <2>2. PICK x \in B : Prev[x] \notin B
    BY <2>1, FirstBlock
  <2>3. ASSUME c \in Past[Prev[c]] PROVE FALSE
    <3>1. x \in Block /\ c \in Past[x] /\ x \in Past[c]
      BY <2>1, <2>2
    <3>2. Past[x] = {x} \cup (IF Prev[x] \in Block THEN Past[Prev[x]] ELSE {})
      BY <3>1, PastDef
    <3>3. Prev[x] \in Block /\ c \in Past[Prev[x]]
      BY <1>1, <2>3, <3>1, <3>2
    <3>4. Prev[x] \in Past[x]
      BY <3>2, <3>3, PastFacts
    <3>5. Prev[x] \in Past[c]
      BY <3>1, <3>4, PastFacts
    <3> QED  BY <2>2, <3>3, <3>5
  <2> QED  BY <2>3
<1>2. IsFiniteSet(Past[b]) /\ Past[b] # {}
  BY PastFacts
<1>3. Cardinality(Past[b]) \in Nat \ {0}
  BY <1>2, FS_CardinalityType, FS_EmptySet
<1>4. ASSUME Prev[b] \in Block
      PROVE  Cardinality(Past[b]) = Cardinality(Past[Prev[b]]) + 1
  <2> DEFINE p == Past[Prev[b]]
  <2>1. IsFiniteSet(p) /\ b \notin p
    BY <1>1, <1>4, PastFacts
  <2>2. Past[b] = p \cup {b}
    BY <1>4, PastDef
  <2> HIDE DEF p
  <2>3. Cardinality(p \cup {b}) = Cardinality(p) + 1
    BY <2>1, FS_AddElement
  <2> QED  BY <2>2, <2>3 DEF p
<1>5. ASSUME Prev[b] \notin Block PROVE Cardinality(Past[b]) = 1
  <2>1. Past[b] = {b}
    BY <1>5, PastDef
  <2> QED  BY <2>1, FS_Singleton
<1> QED  BY <1>1, <1>3, <1>4, <1>5

\* A block of the past has a past of its own size, and each size has a block.
LEMMA PastSizes ==
    ASSUME NEW b \in Block
    PROVE  /\ \A x \in Past[b] : Cardinality(Past[x]) \in 1 .. Cardinality(Past[b])
           /\ \A x, y \in Past[b] : Cardinality(Past[x]) = Cardinality(Past[y]) => x = y
           /\ \A n \in 1 .. Cardinality(Past[b]) : \E x \in Past[b] : Cardinality(Past[x]) = n
<1>1. ASSUME NEW c \in Block, NEW x \in Past[c]
      PROVE  /\ x \in Block
             /\ Cardinality(Past[x]) \in 1 .. Cardinality(Past[c])
             /\ x # c => Cardinality(Past[x]) < Cardinality(Past[c])
  <2>1. x \in Block /\ Past[x] \subseteq Past[c] /\ IsFiniteSet(Past[c])
    BY PastFacts
  <2>2. Cardinality(Past[x]) <= Cardinality(Past[c])
    BY <2>1, FS_Subset
  <2>3. Cardinality(Past[x]) \in Nat \ {0} /\ Cardinality(Past[c]) \in Nat \ {0}
    BY <2>1, PastGrows
  <2>4. ASSUME x # c PROVE Cardinality(Past[x]) < Cardinality(Past[c])
    <3>1. Prev[c] \in Block /\ x \in Past[Prev[c]]
      BY <2>4, PastDef
    <3>2. Past[x] \subseteq Past[Prev[c]] /\ IsFiniteSet(Past[Prev[c]])
      BY <3>1, PastFacts
    <3>3. Cardinality(Past[x]) <= Cardinality(Past[Prev[c]])
      BY <3>2, FS_Subset
    <3>4. /\ Cardinality(Past[c]) = Cardinality(Past[Prev[c]]) + 1
          /\ Cardinality(Past[Prev[c]]) \in Nat
      BY <3>1, PastGrows
    <3> QED  BY <2>3, <3>3, <3>4
  <2> QED  BY <2>1, <2>2, <2>3, <2>4
<1>2. ASSUME NEW x \in Past[b], NEW y \in Past[b], Cardinality(Past[x]) = Cardinality(Past[y])
      PROVE  x = y
  <2>1. x \in Block /\ y \in Block
    BY <1>1
  <2>2. Cardinality(Past[x]) \in Nat /\ Cardinality(Past[y]) \in Nat
    BY <2>1, PastGrows
  <2>3. CASE x \in Past[y]
    BY <1>1, <1>2, <2>1, <2>2, <2>3
  <2>4. CASE y \in Past[x]
    BY <1>1, <1>2, <2>1, <2>2, <2>4
  <2> QED  BY <2>3, <2>4, PastIsChain
<1> DEFINE Good(c) == \A n \in 1 .. Cardinality(Past[c]) :
                         \E x \in Past[c] : Cardinality(Past[x]) = n
           B == {c \in Block : ~ Good(c)}
<1>3. ASSUME B # {} PROVE FALSE
  <2>1. PICK c \in B : Prev[c] \notin B
    BY <1>3, FirstBlock
  <2>2. ASSUME NEW n \in 1 .. Cardinality(Past[c])
        PROVE  \E x \in Past[c] : Cardinality(Past[x]) = n
    <3>1. CASE n = Cardinality(Past[c])
      BY <3>1, PastFacts
    <3>2. CASE n # Cardinality(Past[c])
      <4>1. Cardinality(Past[c]) \in Nat \ {0}
        BY PastGrows
      <4>2. Prev[c] \in Block
        BY <2>2, <3>2, <4>1, PastGrows
      <4>3. Cardinality(Past[c]) = Cardinality(Past[Prev[c]]) + 1 /\ Cardinality(Past[Prev[c]]) \in Nat
        BY <4>2, PastGrows
      <4>4. n \in 1 .. Cardinality(Past[Prev[c]])
        BY <2>2, <3>2, <4>1, <4>3
      <4>5. Good(Prev[c])
        BY <2>1, <4>2
      <4>6. PICK x \in Past[Prev[c]] : Cardinality(Past[x]) = n
        BY <4>4, <4>5
      <4> QED  BY <4>2, <4>6, PastDef
    <3> QED  BY <3>1, <3>2
  <2>3. Good(c)
    BY <2>2
  <2> QED  BY <2>3
<1>4. Good(b)
  BY <1>3
<1> QED  BY <1>1, <1>2, <1>4


-----------------------------------------------------------------------------
(* The chain to a block, and what it leaves unspent.                        *)

LEMMA ChainToFacts ==
    ASSUME NEW b \in Block
    PROVE  /\ ChainTo(b) \in Seq(Block)
           /\ Len(ChainTo(b)) = Cardinality(Past[b])
           /\ \A n \in 1 .. Cardinality(Past[b]) :
                /\ ChainTo(b)[n] \in Past[b]
                /\ Cardinality(Past[ChainTo(b)[n]]) = n
           /\ ChainTo(b)[Cardinality(Past[b])] = b
<1> DEFINE N == Cardinality(Past[b])
           At(n) == CHOOSE x \in Past[b] : Cardinality(Past[x]) = n
           c == ChainTo(b)
<1>1. N \in Nat \ {0} /\ Past[b] \subseteq Block /\ b \in Past[b]
  BY PastGrows, PastFacts
<1>2. \A n \in 1 .. N : At(n) \in Past[b] /\ Cardinality(Past[At(n)]) = n
  BY PastSizes
<1>3. c = [n \in 1 .. N |-> At(n)]
  BY DEF ChainTo
<1> HIDE DEF N, At
<1>4. c \in [1 .. N -> Block]
  BY <1>1, <1>2, <1>3
<1>5. c \in Seq(Block) /\ Len(c) = N
  BY <1>1, <1>4
<1> HIDE DEF c
<1>6. \A n \in 1 .. N : c[n] \in Past[b] /\ Cardinality(Past[c[n]]) = n
  BY <1>2, <1>3 DEF c
<1>7. N \in 1 .. N
  BY <1>1
<1>8. c[N] = b
  BY <1>1, <1>6, <1>7, PastSizes DEF N
<1> QED  BY <1>5, <1>6, <1>8 DEF c, N

LEMMA ChainToStep ==
    ASSUME NEW b \in Block, Prev[b] \in Block
    PROVE  /\ Len(ChainTo(b)) = Len(ChainTo(Prev[b])) + 1
           /\ \A n \in 1 .. Len(ChainTo(Prev[b])) : ChainTo(b)[n] = ChainTo(Prev[b])[n]
           /\ ChainTo(b)[Len(ChainTo(b))] = b
<1> DEFINE p == Prev[b]
           c == ChainTo(b)
           d == ChainTo(p)
           M == Cardinality(Past[p])
           N == Cardinality(Past[b])
<1>1. N = M + 1 /\ M \in Nat \ {0}
  BY PastGrows
<1>2. /\ Len(c) = N /\ c[N] = b
      /\ \A n \in 1 .. N : c[n] \in Past[b] /\ Cardinality(Past[c[n]]) = n
  BY ChainToFacts
<1>3. /\ Len(d) = M
      /\ \A n \in 1 .. M : d[n] \in Past[p] /\ Cardinality(Past[d[n]]) = n
  BY ChainToFacts
<1>4. Past[p] \subseteq Past[b]
  BY PastDef
<1> HIDE DEF c, d, M, N, p
<1>5. ASSUME NEW n \in 1 .. M PROVE c[n] = d[n]
  <2>1. n \in 1 .. N
    BY <1>1
  <2> QED  BY <1>2, <1>3, <1>4, <2>1, PastSizes
<1> QED  BY <1>1, <1>2, <1>3, <1>5 DEF c, d, p

\* The run of Replay, one block at a time.
IsReplay(f, chain) ==
    /\ f[0] = {}
    /\ \A n \in 1 .. Len(chain) : f[n] = L!After(f[n - 1], TxData[chain[n]])

LEMMA ReplayRun ==
    ASSUME NEW chain \in Seq(Block)
    PROVE  \E f : IsReplay(f, chain) /\ Replay(chain) = f[Len(chain)]
<1> DEFINE N == Len(chain)
           Is(f, m) == f = [n \in 0 .. m |->
                              IF n = 0 THEN {} ELSE L!After(f[n - 1], TxData[chain[n]])]
           T == {m \in Nat : \E f : Is(f, m)}
<1>1. 0 \in T
  <2> DEFINE f == [n \in 0 .. 0 |-> {}]
  <2>1. Is(f, 0)
    OBVIOUS
  <2> QED  BY <2>1
<1>2. ASSUME NEW m \in Nat, m \in T PROVE m + 1 \in T
  <2>1. PICK f : Is(f, m)
    BY <1>2
  <2> DEFINE g == [n \in 0 .. m + 1 |-> IF n <= m THEN f[n]
                                        ELSE L!After(f[m], TxData[chain[m + 1]])]
  <2>2. \A n \in 0 .. m + 1 : n # 0 => n - 1 \in 0 .. m /\ g[n - 1] = f[n - 1]
    OBVIOUS
  <2>3. \A n \in 0 .. m : f[n] = IF n = 0 THEN {} ELSE L!After(f[n - 1], TxData[chain[n]])
    BY <2>1
  <2> HIDE DEF Is
  <2>4. ASSUME NEW n \in 0 .. m + 1
        PROVE  g[n] = IF n = 0 THEN {} ELSE L!After(g[n - 1], TxData[chain[n]])
    <3>1. CASE n = 0
      BY <2>3, <3>1
    <3>2. CASE n # 0 /\ n <= m
      <4>1. n \in 0 .. m /\ g[n] = f[n] /\ g[n - 1] = f[n - 1]
        BY <2>2, <3>2
      <4> HIDE DEF g
      <4> QED  BY <2>3, <3>2, <4>1
    <3>3. CASE n = m + 1
      <4>1. n # 0 /\ n - 1 = m /\ g[n] = L!After(f[m], TxData[chain[m + 1]]) /\ g[n - 1] = f[m]
        BY <2>2, <3>3
      <4> HIDE DEF g
      <4> QED  BY <3>3, <4>1
    <3> QED  BY <3>1, <3>2, <3>3
  <2>5. DOMAIN g = 0 .. m + 1 /\ g = [n \in 0 .. m + 1 |-> g[n]]
    OBVIOUS
  <2> HIDE DEF g
  <2>6. g = [n \in 0 .. m + 1 |-> IF n = 0 THEN {} ELSE L!After(g[n - 1], TxData[chain[n]])]
    BY <2>4, <2>5
  <2>7. Is(g, m + 1)
    BY <2>6 DEF Is
  <2> QED  BY <2>7
<1>3. N \in Nat
  OBVIOUS
<1> HIDE DEF T
<1>4. N \in T
  BY <1>1, <1>2, <1>3, NatSetInduction
<1> DEFINE f == CHOOSE f : Is(f, N)
<1>5. Is(f, N)
  BY <1>4 DEF T
<1>6. Replay(chain) = f[N]
  BY DEF Replay
<1> HIDE DEF f
<1>7. f[0] = {}
  BY <1>3, <1>5
<1>8. ASSUME NEW n \in 1 .. N PROVE f[n] = L!After(f[n - 1], TxData[chain[n]])
  <2>1. n \in 0 .. N /\ n # 0
    BY <1>3
  <2> QED  BY <1>5, <2>1
<1> QED  BY <1>6, <1>7, <1>8 DEF IsReplay

\* A chain that goes on with one more block.
LEMMA ReplayStep ==
    ASSUME NEW short \in Seq(Block), NEW long \in Seq(Block),
           Len(long) = Len(short) + 1,
           \A n \in 1 .. Len(short) : long[n] = short[n]
    PROVE  Replay(long) = L!After(Replay(short), TxData[long[Len(long)]])
<1> DEFINE M == Len(short)
<1>0. M \in Nat
  OBVIOUS
<1>1. PICK f : IsReplay(f, long) /\ Replay(long) = f[Len(long)]
  BY ReplayRun
<1>2. PICK g : IsReplay(g, short) /\ Replay(short) = g[M]
  BY ReplayRun
<1> DEFINE T == {n \in Nat : n <= M => g[n] = f[n]}
<1>3. 0 \in T
  BY <1>1, <1>2 DEF IsReplay
<1>4. ASSUME NEW n \in Nat, n \in T PROVE n + 1 \in T
  <2> SUFFICES ASSUME n + 1 <= M PROVE g[n + 1] = f[n + 1]
    OBVIOUS
  <2>1. n + 1 \in 1 .. M /\ n + 1 \in 1 .. Len(long) /\ n <= M /\ (n + 1) - 1 = n
    BY <1>0
  <2>2. g[n] = f[n] /\ long[n + 1] = short[n + 1]
    BY <1>4, <2>1
  <2>3. g[n + 1] = L!After(g[n], TxData[short[n + 1]])
    BY <1>2, <2>1 DEF IsReplay
  <2>4. f[n + 1] = L!After(f[n], TxData[long[n + 1]])
    BY <1>1, <2>1 DEF IsReplay
  <2> QED  BY <2>1, <2>2, <2>3, <2>4
<1> HIDE DEF T
<1>5. M \in T
  BY <1>0, <1>3, <1>4, NatSetInduction
<1>6. g[M] = f[M]
  BY <1>5 DEF T
<1>7. M + 1 \in 1 .. Len(long) /\ (M + 1) - 1 = M
  BY <1>0
<1>8. f[M + 1] = L!After(f[M], TxData[long[M + 1]])
  BY <1>1, <1>7 DEF IsReplay
<1> QED  BY <1>1, <1>2, <1>6, <1>8

LEMMA UnspentStep ==
    ASSUME NEW b \in Block, Prev[b] \in Block
    PROVE  UnspentAfter(b) = L!After(UnspentAfter(Prev[b]), TxData[b])
<1> DEFINE c == ChainTo(b)
           d == ChainTo(Prev[b])
<1>1. c \in Seq(Block) /\ d \in Seq(Block)
  BY ChainToFacts
<1>2. Len(c) = Len(d) + 1 /\ (\A n \in 1 .. Len(d) : c[n] = d[n]) /\ c[Len(c)] = b
  BY ChainToStep
<1> HIDE DEF c, d
<1>3. Replay(c) = L!After(Replay(d), TxData[c[Len(c)]])
  BY <1>1, <1>2, ReplayStep
<1> QED  BY <1>2, <1>3 DEF UnspentAfter, c, d

LEMMA UnspentGenesis == UnspentAfter(Genesis) = L!After({}, TxData[Genesis])
<1> DEFINE c == ChainTo(Genesis)
<1>1. Genesis \in Block /\ Prev[Genesis] \notin Block
  BY GenesisAssumption, PrevAssumption
<1>2. Cardinality(Past[Genesis]) = 1
  BY <1>1, PastGrows
<1>3. c \in Seq(Block) /\ Len(c) = 1 /\ c[1] = Genesis
  BY <1>1, <1>2, ChainToFacts
<1> HIDE DEF c
<1>4. PICK f : IsReplay(f, c) /\ Replay(c) = f[Len(c)]
  BY <1>3, ReplayRun
<1>5. f[1] = L!After(f[0], TxData[c[1]]) /\ f[0] = {}
  <2>1. 1 \in 1 .. Len(c) /\ 1 - 1 = 0
    BY <1>3
  <2> QED  BY <1>4, <2>1 DEF IsReplay
<1> QED  BY <1>3, <1>4, <1>5 DEF UnspentAfter, c

-----------------------------------------------------------------------------
(* The state and the ledger of its chain.                                   *)

\* A state that is in order and stands for the chain of its last stable block,
\* every block of which spends what the chain before it leaves.
SpendableChain(block) ==
    \A b \in Past[block] \ {Genesis} :
        Prev[b] \in Block /\ L!Spendable(UnspentAfter(Prev[b]), TxData[b])

Anchored(s) ==
    /\ StateOK(s)
    /\ IsLedger(s)
    /\ Genesis \in Past[s.latest_stable_block_hash]
    /\ SpendableChain(s.latest_stable_block_hash)

LEMMA NewAnchored == Anchored(NewState)
<1> DEFINE s == NewState
<1>1. /\ StateOK(s) /\ s.height = 1 /\ s.latest_stable_block_hash = Genesis
      /\ Pairs(s.utxos) = L!After({}, TxData[Genesis])
  BY NewStateOK
<1> HIDE DEF s
<1>2. Genesis \in Block /\ Prev[Genesis] \notin Block
  BY GenesisAssumption, PrevAssumption
<1>3. Past[Genesis] = {Genesis} /\ Cardinality(Past[Genesis]) = 1
  BY <1>2, PastDef, PastGrows
<1>4. IsLedger(s)
  BY <1>1, <1>3, UnspentGenesis DEF IsLedger, Pairs, StateOK, SetOK, Consistent
<1> QED  BY <1>1, <1>3, <1>4 DEF Anchored, SpendableChain, s

LEMMA InsertAnchored ==
    ASSUME NEW s, Anchored(s), NEW block \in Block, ~ InsertPanics(s, block)
    PROVE  Anchored(InsertBlock(s, block))
<1> DEFINE r == InsertBlock(s, block)
           anchor == s.latest_stable_block_hash
           popped == Popped(s, block)
<1>0. StateOK(s) /\ anchor \in Block
  BY DEF Anchored, StateOK
<1>1. CASE ~ Stabilises(s, block)
  <2>1. /\ StateOK(r) /\ r.height = s.height /\ r.latest_stable_block_hash = anchor
        /\ r.utxos = s.utxos
    BY <1>0, <1>1, InsertState
  <2> HIDE DEF r, anchor
  <2> QED  BY <2>1 DEF Anchored, IsLedger, r, anchor
<1>2. CASE Stabilises(s, block)
  <2>1. /\ StateOK(r) /\ r.height = s.height + 1 /\ r.latest_stable_block_hash = popped
        /\ Prev[popped] = anchor
        /\ Pairs(r.utxos) = L!After(Pairs(s.utxos), TxData[popped])
        /\ L!Spendable(Pairs(s.utxos), TxData[popped])
    BY <1>0, <1>2, InsertState
  <2>2. popped \in Block
    BY <1>0, <1>2, PoppedOK
  <2>3. /\ s.height = Cardinality(Past[anchor]) /\ Pairs(s.utxos) = UnspentAfter(anchor)
        /\ Genesis \in Past[anchor] /\ SpendableChain(anchor)
    BY DEF Anchored, IsLedger, Pairs
  <2> HIDE DEF r, anchor, popped
  <2>4. Past[popped] = {popped} \cup Past[anchor]
    BY <1>0, <2>1, <2>2, PastDef
  <2>5. Cardinality(Past[popped]) = s.height + 1
    BY <1>0, <2>1, <2>2, <2>3, PastGrows
  <2>6. UnspentAfter(popped) = L!After(UnspentAfter(anchor), TxData[popped])
    BY <1>0, <2>1, <2>2, UnspentStep
  <2>7. SpendableChain(popped)
    BY <1>0, <2>1, <2>3, <2>4 DEF SpendableChain
  <2>8. IsLedger(r)
    BY <2>1, <2>3, <2>5, <2>6 DEF IsLedger, Pairs, StateOK, SetOK, Consistent
  <2> QED  BY <2>1, <2>3, <2>4, <2>7, <2>8 DEF Anchored, r
<1> QED  BY <1>1, <1>2


-----------------------------------------------------------------------------
(* The unstable blocks are not stable yet.                                  *)

LEMMA PastAntisymmetric ==
    ASSUME NEW x \in Block, NEW y \in Block, x \in Past[y], y \in Past[x]
    PROVE  x = y
<1>1. Past[x] \subseteq Past[y] /\ Past[y] \subseteq Past[x]
  BY PastFacts
<1>2. Cardinality(Past[x]) = Cardinality(Past[y])
  BY <1>1
<1> QED  BY <1>2, PastSizes, PastFacts

\* A block of a tree that is not its root is the successor of another one.
LEMMA InnerBlock ==
    ASSUME NEW tree, TreeOK(tree), NEW b \in Range(tree), b # Root(tree)
    PROVE  Prev[b] \in Range(tree)
<1>1. PICK p \in DOMAIN tree : tree[p] = b
  BY DEF Range
<1>2. p \in Path /\ p # << >>
  BY <1>1 DEF TreeOK, Shape, Root
<1>3. PICK q \in Path, k \in Nat \ {0} : p = Child(q, k)
  BY <1>2, IsChild
<1>4. q \in DOMAIN tree
  BY <1>1, <1>3, ParentInShape DEF TreeOK
<1>5. Prev[b] = tree[q]
  BY <1>1, <1>3 DEF TreeOK, Linked
<1> QED  BY <1>4, <1>5 DEF Range

\* The root of a tree is in the past of its blocks.
LEMMA RootIsFirst ==
    ASSUME NEW tree, TreeOK(tree), Range(tree) \subseteq Block, NEW b \in Range(tree)
    PROVE  Root(tree) \in Past[b]
<1> DEFINE B == {x \in Range(tree) : Root(tree) \notin Past[x]}
<1>1. ASSUME B # {} PROVE FALSE
  <2>1. PICK x \in B : Prev[x] \notin B
    BY <1>1, FirstBlock
  <2>2. x \in Block /\ x \in Past[x]
    BY PastFacts
  <2>3. x # Root(tree)
    BY <2>2
  <2>4. Prev[x] \in Range(tree)
    BY <2>3, InnerBlock
  <2>5. Root(tree) \in Past[Prev[x]]
    BY <2>1, <2>4
  <2>6. Past[x] = {x} \cup Past[Prev[x]]
    BY <2>2, <2>4, PastDef
  <2> QED  BY <2>5, <2>6
<1> QED  BY <1>1

\* The root is not among the blocks of its subtrees.
LEMMA RootNotBelow ==
    ASSUME NEW tree, TreeOK(tree), Range(tree) \subseteq Block
    PROVE  Root(tree) \notin GetBlocks(Subtrees(tree))
<1> DEFINE f == Subtrees(tree)
<1>1. /\ ForestOK(f) /\ \A i \in DOMAIN f : Prev[Root(f[i])] = Root(tree)
      /\ Range(tree) = {Root(tree)} \cup GetBlocks(f)
  BY SubtreesOK
<1> HIDE DEF f
<1>2. ASSUME NEW i \in DOMAIN f, Root(tree) \in Range(f[i]) PROVE FALSE
  <2>1. TreeOK(f[i]) /\ Range(f[i]) \subseteq Block
    BY <1>1 DEF ForestOK, GetBlocks
  <2>2. Root(f[i]) \in Past[Root(tree)]
    BY <1>2, <2>1, RootIsFirst
  <2>3. << >> \in DOMAIN f[i]
    BY <2>1 DEF TreeOK, Shape
  <2>4. Root(f[i]) \in Block /\ Root(tree) \in Block
    BY <1>1, <2>1, <2>3 DEF Root, Range
  <2>5. /\ Root(f[i]) \notin Past[Root(tree)]
    BY <1>1, <2>4, PastGrows
  <2> QED  BY <2>2, <2>5
<1> QED  BY <1>2 DEF GetBlocks, f

Unstable(s) == GetBlocks(s.unstable_blocks)
Stable(s) == Past[s.latest_stable_block_hash]

\* What a block that is not stable does: it becomes unstable, perhaps one
\* unstable block becomes stable, and some may be dropped.
LEMMA InsertUnstable ==
    ASSUME NEW s, StateOK(s), Unstable(s) \cap Stable(s) = {},
           NEW block \in Block, block \notin Stable(s), ~ InsertPanics(s, block)
    PROVE  LET r == InsertBlock(s, block)
           IN  /\ Unstable(r) \cap Stable(r) = {}
               /\ Unstable(r) \subseteq Unstable(s) \cup {block}
               /\ Stable(r) \subseteq Stable(s) \cup Unstable(s) \cup {block}
               /\ Stable(s) \subseteq Stable(r)
<1> DEFINE r == InsertBlock(s, block)
           anchor == s.latest_stable_block_hash
           pushed == Pushed(s, block)
           trees == PopTrees(pushed, anchor)
           popped == Popped(s, block)
<1>1. /\ ForestOK(pushed)
      /\ GetBlocks(pushed) = Unstable(s) \cup {block}
      /\ GetBlocks(pushed) \subseteq Block
  BY PoppedOK DEF Unstable
<1>2. /\ r.unstable_blocks = trees /\ Unstable(r) \subseteq Unstable(s) \cup {block}
      /\ ~ Stabilises(s, block) => r.latest_stable_block_hash = anchor
      /\ Stabilises(s, block) => r.latest_stable_block_hash = popped /\ Prev[popped] = anchor
  BY InsertState DEF Unstable
<1>3. anchor \in Block
  BY DEF StateOK
<1>4. CASE ~ Stabilises(s, block)
  BY <1>2, <1>4 DEF Stable
<1>5. CASE Stabilises(s, block)
  <2>1. PICK i \in Attached(pushed, anchor) :
          /\ popped = Root(pushed[i])
          /\ Range(trees) = {pushed[j] : j \in DOMAIN pushed \ Attached(pushed, anchor)}
                               \cup Range(Subtrees(pushed[i]))
    <3> HIDE DEF pushed, anchor
    <3>1. HasStable(pushed, anchor)
      BY <1>5 DEF Stabilises, pushed, anchor
    <3>2. PICK i \in Attached(pushed, anchor) :
            /\ StableBlock(pushed, anchor) = Root(pushed[i])
            /\ Range(PopTrees(pushed, anchor))
                 = {pushed[j] : j \in DOMAIN pushed \ Attached(pushed, anchor)}
                     \cup Range(Subtrees(pushed[i]))
      BY <1>1, <3>1, PopStable
    <3>3. popped = StableBlock(pushed, anchor)
      BY DEF Popped, pushed, anchor
    <3> QED  BY <3>2, <3>3
  <2>2. popped \in Block /\ popped \in GetBlocks(pushed) /\ Prev[popped] = anchor
    BY <1>1, <1>5, PoppedOK
  <2> HIDE DEF r, pushed, trees, popped, anchor
  <2>3. Past[popped] = {popped} \cup Past[anchor]
    BY <1>3, <2>2, PastDef
  <2>4. popped \notin GetBlocks(trees)
    <3>1. ASSUME NEW t \in Range(trees), popped \in Range(t) PROVE FALSE
      <4>1. CASE t \in Range(Subtrees(pushed[i]))
        <5>1. i \in DOMAIN pushed
          BY <2>1 DEF Attached
        <5>2. TreeOK(pushed[i]) /\ Range(pushed[i]) \subseteq Block
          BY <1>1, <5>1 DEF ForestOK, GetBlocks
        <5>3. popped \notin GetBlocks(Subtrees(pushed[i]))
          BY <2>1, <5>2, RootNotBelow
        <5>4. popped \in GetBlocks(Subtrees(pushed[i]))
          BY <3>1, <4>1 DEF GetBlocks, Range
        <5> QED  BY <5>3, <5>4
      <4>2. ASSUME NEW j \in DOMAIN pushed \ Attached(pushed, anchor), t = pushed[j] PROVE FALSE
        <5>1. TreeOK(t) /\ Prev[Root(t)] # anchor
          BY <1>1, <4>2 DEF ForestOK, Attached, IsAttached
        <5>2. anchor \in Range(t)
          BY <2>2, <3>1, <5>1, InnerBlock
        <5>3. anchor \in Unstable(s) \cup {block}
          BY <1>1, <4>2, <5>2 DEF GetBlocks
        <5>4. anchor \in Stable(s)
          BY <1>3, PastFacts DEF Stable, anchor
        <5> QED  BY <5>3, <5>4
      <4> QED  BY <2>1, <3>1, <4>1, <4>2
    <3> QED  BY <3>1 DEF GetBlocks, Range
  <2>5. Stable(r) = {popped} \cup Stable(s) /\ Unstable(r) = GetBlocks(trees)
    BY <1>2, <1>5, <2>3 DEF Stable, Unstable, anchor
  <2>6. Unstable(r) \cap Stable(s) = {}
    BY <1>2
  <2>7. popped \in Unstable(s) \cup {block}
    BY <1>1, <2>2
  <2> QED  BY <1>2, <2>4, <2>5, <2>6, <2>7 DEF r
<1> QED  BY <1>4, <1>5

=============================================================================
