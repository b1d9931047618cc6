-------------------------- MODULE Collation_proofs --------------------------
(***************************************************************************)
(* Names and keys of any length are in one order, that of the numbers the  *)
(* keys stand for, and extents in that of their addresses.  A fold of the  *)
(* bytes of a number is taken apart by counting through its places.        *)
(***************************************************************************)
EXTENDS Collation, SequenceTheorems, WellFoundedInduction, TLAPS

-----------------------------------------------------------------------------
(* The first difference of two strings.                                    *)

\* A set of numbers that is not empty has a least one.
LEMMA LeastNumber ==
  ASSUME NEW S \in SUBSET Nat, S # {}
  PROVE  Min(S) \in S /\ \A k \in S : Min(S) <= k
<1> DEFINE R == OpToRel(<, Nat)
<1>1. PICK m \in S : \A k \in S : ~(<<k, m>> \in R)
  BY NatLessThanWellFounded, WFMin
<1>2. \A k \in S : k < m => <<k, m>> \in R
  BY DEF OpToRel
<1> HIDE DEF R
<1>3. \A k \in S : ~(k < m)
  BY <1>1, <1>2, Zenon
<1>4. \A k \in S : m <= k
  BY <1>3
<1> QED BY <1>1, <1>4 DEF Min

\* A set of numbers that is not empty and goes no further than w has a greatest one.
LEMMA GreatestNumber ==
  ASSUME NEW S \in SUBSET Nat, S # {}, NEW w \in Nat, \A k \in S : k <= w
  PROVE  Max(S) \in S /\ \A k \in S : k <= Max(S)
<1> DEFINE T == {j \in Nat : \A k \in S : k <= j}
<1>1. T \in SUBSET Nat /\ w \in T
  OBVIOUS
<1>2. PICK m \in T : \A j \in T : m <= j
  BY <1>1, LeastNumber
<1>3. m \in Nat /\ \A k \in S : k <= m
  BY <1>2
<1>4. m \in S
  <2> SUFFICES ASSUME m \notin S
               PROVE  FALSE
    OBVIOUS
  <2>1. \A k \in S : k < m
    BY <1>3
  <2>2. m - 1 \in T
    <3>1. PICK e \in S : e \in Nat /\ e < m
      BY <2>1
    <3>2. m - 1 \in Nat /\ \A k \in S : k <= m - 1
      BY <1>3, <2>1, <3>1
    <3> QED BY <3>2
  <2> QED BY <1>2, <1>3, <2>2
<1> QED BY <1>3, <1>4 DEF Max

\* Strings are equal up to a place, and there they differ.
DifferAt(s, t, i) ==
  /\ i \in 1 .. Len(s) /\ i \in 1 .. Len(t) /\ s[i] # t[i]
  /\ \A j \in 1 .. (i - 1) : s[j] = t[j]

\* One begins with the other.
Agree(s, t) == \A i \in 1 .. Len(s) : i <= Len(t) => s[i] = t[i]

\* String s comes before t, as the place i shows.
BeforeAt(s, t, i) ==
  /\ \A j \in 1 .. (i - 1) : j <= Len(s) /\ j <= Len(t) /\ s[j] = t[j]
  /\ \/ i <= Len(s) /\ i <= Len(t) /\ s[i] < t[i]
     \/ i = Len(s) + 1 /\ i <= Len(t)

Before(s, t) == \E i \in Nat \ {0} : BeforeAt(s, t, i)

\* What FirstDifference looks at.
LEMMA Difference ==
  ASSUME NEW s \in Seq(Int), NEW t \in Seq(Int)
  PROVE  \/ \E i \in Nat : DifferAt(s, t, i) /\ FirstDifference(s, t) = Sign(s[i] - t[i])
         \/ Agree(s, t) /\ FirstDifference(s, t) = Sign(Len(s) - Len(t))
<1> DEFINE least == Min({Len(s), Len(t)})
           differ == {i \in 1 .. least : s[i] # t[i]}
<1>1. Len(s) \in Nat /\ Len(t) \in Nat
  OBVIOUS
<1>2. least \in {Len(s), Len(t)} /\ least <= Len(s) /\ least <= Len(t) /\ least \in Nat
  BY <1>1, LeastNumber
<1>3. FirstDifference(s, t) = IF differ = {} THEN Sign(Len(s) - Len(t))
                              ELSE Sign(s[Min(differ)] - t[Min(differ)])
  BY DEF FirstDifference
<1>4. CASE differ = {}
  <2>1. ASSUME NEW i \in 1 .. Len(s), i <= Len(t)
        PROVE  s[i] = t[i]
    <3>1. i \in 1 .. least
      BY <1>1, <1>2, <2>1
    <3> QED BY <1>4, <3>1
  <2>2. Agree(s, t)
    BY <2>1 DEF Agree
  <2> QED BY <1>3, <1>4, <2>2
<1>5. CASE differ # {}
  <2>1. PICK i : i = Min(differ)
    OBVIOUS
  <2>2. differ \in SUBSET Nat
    BY <1>2
  <2>3. i \in differ /\ \A k \in differ : i <= k
    BY <1>5, <2>1, <2>2, LeastNumber
  <2>4. i \in Nat /\ i \in 1 .. least /\ s[i] # t[i]
    BY <2>2, <2>3
  <2>5. i \in 1 .. Len(s) /\ i \in 1 .. Len(t)
    BY <1>1, <1>2, <2>4
  <2>6. ASSUME NEW j \in 1 .. (i - 1)
        PROVE  s[j] = t[j]
    <3>1. j \in 1 .. least /\ ~(i <= j)
      BY <1>2, <2>4
    <3> QED BY <2>3, <3>1
  <2>7. DifferAt(s, t, i)
    BY <2>4, <2>5, <2>6 DEF DifferAt
  <2>8. FirstDifference(s, t) = Sign(s[i] - t[i])
    BY <1>3, <1>5, <2>1
  <2> QED BY <2>4, <2>7, <2>8
<1> QED BY <1>4, <1>5

\* Its sign tells which comes first, and it is 0 for a string and itself.
LEMMA DifferenceOrders ==
  ASSUME NEW s \in Seq(Int), NEW t \in Seq(Int)
  PROVE  /\ FirstDifference(s, t) \in -1 .. 1
         /\ FirstDifference(s, t) = -1 => Before(s, t)
         /\ FirstDifference(s, t) = 1 => Before(t, s)
         /\ FirstDifference(s, t) = 0 => s = t
<1>0. Len(s) \in Nat /\ Len(t) \in Nat
  OBVIOUS
<1>1. ASSUME NEW i \in Nat, DifferAt(s, t, i), FirstDifference(s, t) = Sign(s[i] - t[i])
      PROVE  /\ FirstDifference(s, t) \in {-1, 1}
             /\ FirstDifference(s, t) = -1 => Before(s, t)
             /\ FirstDifference(s, t) = 1 => Before(t, s)
  <2>1. PICK a, b : a = s[i] /\ b = t[i] /\ a \in Int /\ b \in Int /\ a # b
    BY <1>0, <1>1 DEF DifferAt
  <2>2. \/ Sign(a - b) = 1 /\ b < a
        \/ Sign(a - b) = -1 /\ a < b
    BY <2>1 DEF Sign
  <2>3. /\ i \in 1 .. Len(s) /\ i \in 1 .. Len(t)
        /\ \A j \in 1 .. (i - 1) : s[j] = t[j]
    BY <1>1 DEF DifferAt
  <2>4. i \in Nat \ {0} /\ i <= Len(s) /\ i <= Len(t)
    BY <1>0, <2>3
  <2>5. \A j \in 1 .. (i - 1) : j <= Len(s) /\ j <= Len(t)
    BY <1>0, <2>4
  <2>6. a < b => Before(s, t)
    <3>1. a < b => BeforeAt(s, t, i)
      BY <2>1, <2>3, <2>4, <2>5 DEF BeforeAt
    <3> QED BY <2>4, <3>1 DEF Before
  <2>7. b < a => Before(t, s)
    <3>1. b < a => BeforeAt(t, s, i)
      BY <2>1, <2>3, <2>4, <2>5 DEF BeforeAt
    <3> QED BY <2>4, <3>1 DEF Before
  <2> QED BY <1>1, <2>1, <2>2, <2>6, <2>7
<1>2. ASSUME Agree(s, t), FirstDifference(s, t) = Sign(Len(s) - Len(t))
      PROVE  /\ FirstDifference(s, t) \in -1 .. 1
             /\ FirstDifference(s, t) = -1 => Before(s, t)
             /\ FirstDifference(s, t) = 1 => Before(t, s)
             /\ FirstDifference(s, t) = 0 => s = t
  <2>1. \/ Sign(Len(s) - Len(t)) = 1 /\ Len(t) < Len(s)
        \/ Sign(Len(s) - Len(t)) = -1 /\ Len(s) < Len(t)
        \/ Sign(Len(s) - Len(t)) = 0 /\ Len(s) = Len(t)
    BY <1>0 DEF Sign
  <2>2. Len(s) < Len(t) => BeforeAt(s, t, Len(s) + 1)
    BY <1>0, <1>2 DEF Agree, BeforeAt
  <2>3. Len(t) < Len(s) => BeforeAt(t, s, Len(t) + 1)
    BY <1>0, <1>2 DEF Agree, BeforeAt
  <2>4. Len(s) = Len(t) => s = t
    BY <1>0, <1>2, SeqEqual DEF Agree
  <2> QED BY <1>0, <1>2, <2>1, <2>2, <2>3, <2>4 DEF Before
<1> QED BY <1>1, <1>2, Difference

\* A string is not before one that is before it, nor before itself.
LEMMA BeforeAsymmetric ==
  ASSUME NEW s \in Seq(Int), NEW t \in Seq(Int), Before(s, t)
  PROVE  ~Before(t, s) /\ s # t
<1>0. Len(s) \in Nat /\ Len(t) \in Nat
  OBVIOUS
<1>1. PICK i \in Nat \ {0} : BeforeAt(s, t, i)
  BY DEF Before
<1>2. ASSUME NEW k \in Nat \ {0}, BeforeAt(t, s, k)
      PROVE  FALSE
  <2>1. CASE i < k
    BY <1>0, <1>1, <1>2, <2>1 DEF BeforeAt
  <2>2. CASE k < i
    BY <1>0, <1>1, <1>2, <2>2 DEF BeforeAt
  <2>3. CASE i = k
    BY <1>0, <1>1, <1>2, <2>3 DEF BeforeAt
  <2> QED BY <2>1, <2>2, <2>3
<1>3. s # t
  BY <1>0, <1>1 DEF BeforeAt
<1> QED BY <1>2, <1>3 DEF Before

\* What a string holds at a place.
LEMMA CharacterAt ==
  ASSUME NEW s \in Seq(Int), NEW i \in 1 .. Len(s)
  PROVE  s[i] \in Int
  OBVIOUS

\* The order goes on.
LEMMA BeforeTransitive ==
  ASSUME NEW s \in Seq(Int), NEW t \in Seq(Int), NEW u \in Seq(Int), Before(s, t), Before(t, u)
  PROVE  Before(s, u)
<1>0. Len(s) \in Nat /\ Len(t) \in Nat /\ Len(u) \in Nat
  OBVIOUS
<1>1. PICK i \in Nat \ {0} : BeforeAt(s, t, i)
  BY DEF Before
<1>2. PICK k \in Nat \ {0} : BeforeAt(t, u, k)
  BY DEF Before
<1>3. CASE i < k
  <2>1. ASSUME NEW j \in 1 .. i
        PROVE  j <= Len(t) /\ j <= Len(u) /\ t[j] = u[j]
    <3>1. j \in 1 .. (k - 1)
      BY ONLY i \in Nat, k \in Nat, <1>3, <2>1
    <3> QED BY <1>2, <3>1 DEF BeforeAt
  <2>2. \A j \in 1 .. (i - 1) : j <= Len(s) /\ j <= Len(u) /\ s[j] = u[j]
    BY <1>1, <2>1 DEF BeforeAt
  <2>3. t[i] = u[i] /\ i <= Len(t) /\ i <= Len(u)
    BY <1>1, <2>1
  <2>4. \/ i <= Len(s) /\ i <= Len(u) /\ s[i] < u[i]
        \/ i = Len(s) + 1 /\ i <= Len(u)
    BY <1>1, <2>3 DEF BeforeAt
  <2>5. BeforeAt(s, u, i)
    BY <2>2, <2>4 DEF BeforeAt
  <2> QED BY <2>5 DEF Before
<1>4. CASE k < i
  <2>1. ASSUME NEW j \in 1 .. k
        PROVE  j <= Len(s) /\ j <= Len(t) /\ s[j] = t[j]
    <3>1. j \in 1 .. (i - 1)
      BY ONLY i \in Nat, k \in Nat, <1>4, <2>1
    <3> QED BY <1>1, <3>1 DEF BeforeAt
  <2>2. \A j \in 1 .. (k - 1) : j <= Len(s) /\ j <= Len(u) /\ s[j] = u[j]
    BY <1>2, <2>1 DEF BeforeAt
  <2>3. s[k] = t[k] /\ k <= Len(s) /\ k <= Len(t)
    BY <1>2, <2>1
  <2>4. k <= Len(s) /\ k <= Len(u) /\ s[k] < u[k]
    BY <1>0, <1>2, <2>3 DEF BeforeAt
  <2>5. BeforeAt(s, u, k)
    BY <2>2, <2>4 DEF BeforeAt
  <2> QED BY <2>5 DEF Before
<1>5. CASE i = k
  <2>1. \A j \in 1 .. (i - 1) : j <= Len(s) /\ j <= Len(u) /\ s[j] = u[j]
    BY <1>1, <1>2, <1>5 DEF BeforeAt
  <2>2. \/ i <= Len(s) /\ i <= Len(t) /\ s[i] < t[i]
        \/ i = Len(s) + 1 /\ i <= Len(t)
    BY <1>1 DEF BeforeAt
  <2>3. (i <= Len(t) /\ i <= Len(u) /\ t[i] < u[i]) \/ i = Len(t) + 1
    BY <1>2, <1>5 DEF BeforeAt
  <2>4. \/ i <= Len(s) /\ i <= Len(u) /\ s[i] < u[i]
        \/ i = Len(s) + 1 /\ i <= Len(u)
    <3>1. i <= Len(t) /\ i <= Len(u) /\ t[i] < u[i]
      BY ONLY <1>0, i \in Nat, <2>2, <2>3
    <3>2. CASE i = Len(s) + 1
      BY <3>1, <3>2
    <3>3. CASE i <= Len(s) /\ s[i] < t[i]
      <4>1. i \in 1 .. Len(s) /\ i \in 1 .. Len(t) /\ i \in 1 .. Len(u)
        BY ONLY <1>0, i \in Nat \ {0}, <3>1, <3>3
      <4>2. s[i] \in Int /\ t[i] \in Int /\ u[i] \in Int
        BY ONLY s \in Seq(Int), t \in Seq(Int), u \in Seq(Int), <4>1, CharacterAt
      <4>3. s[i] < u[i]
        BY ONLY <3>1, <3>3, <4>2
      <4> QED BY <3>1, <3>3, <4>3
    <3> QED BY <2>2, <3>2, <3>3
  <2>5. BeforeAt(s, u, i)
    BY <2>1, <2>4 DEF BeforeAt
  <2> QED BY <2>5 DEF Before
<1> QED BY <1>3, <1>4, <1>5

\* So FirstDifference is a strict order: it answers in -1 .. 1, the other way round when it is
\* asked the other way round, 0 for the same string only, and it is transitive.
LEMMA DifferenceIsOrder ==
  ASSUME NEW s \in Seq(Int), NEW t \in Seq(Int)
  PROVE  /\ FirstDifference(s, t) \in -1 .. 1
         /\ FirstDifference(t, s) = -FirstDifference(s, t)
         /\ FirstDifference(s, t) = 0 <=> s = t
         /\ FirstDifference(s, t) = -1 <=> Before(s, t)
<1>1. /\ FirstDifference(s, t) \in -1 .. 1
      /\ FirstDifference(s, t) = -1 => Before(s, t)
      /\ FirstDifference(s, t) = 1 => Before(t, s)
      /\ FirstDifference(s, t) = 0 => s = t
  BY DifferenceOrders
<1>2. /\ FirstDifference(t, s) \in -1 .. 1
      /\ FirstDifference(t, s) = -1 => Before(t, s)
      /\ FirstDifference(t, s) = 1 => Before(s, t)
      /\ FirstDifference(t, s) = 0 => s = t
  BY DifferenceOrders
<1>3. Before(s, t) => ~Before(t, s) /\ s # t
  BY BeforeAsymmetric
<1>4. Before(t, s) => ~Before(s, t) /\ s # t
  BY BeforeAsymmetric
<1>5. /\ FirstDifference(s, t) = -1 <=> Before(s, t)
      /\ FirstDifference(s, t) = 1 <=> Before(t, s)
      /\ FirstDifference(s, t) = 0 <=> s = t
  BY <1>1, <1>3, <1>4
<1>6. /\ FirstDifference(t, s) = -1 <=> Before(t, s)
      /\ FirstDifference(t, s) = 1 <=> Before(s, t)
      /\ FirstDifference(t, s) = 0 <=> s = t
  BY <1>2, <1>3, <1>4
<1> QED BY <1>1, <1>2, <1>5, <1>6

-----------------------------------------------------------------------------
(* Names.                                                                  *)

\* Where two strings differ at a place both have, what follows them makes no difference.
LEMMA DifferenceStays ==
  ASSUME NEW s \in Seq(Int), NEW t \in Seq(Int), NEW x \in Seq(Int), NEW y \in Seq(Int),
         NEW p \in DOMAIN s \cap DOMAIN t, s[p] # t[p]
  PROVE  FirstDifference(s \o x, t \o y) = FirstDifference(s, t)
<1> DEFINE a == s \o x
           b == t \o y
<1>0. /\ Len(s) \in Nat /\ Len(t) \in Nat /\ a \in Seq(Int) /\ b \in Seq(Int)
      /\ Len(a) = Len(s) + Len(x) /\ Len(b) = Len(t) + Len(y) /\ Len(x) \in Nat /\ Len(y) \in Nat
  OBVIOUS
<1>1. /\ \A i \in 1 .. Len(s) : a[i] = s[i]
      /\ \A i \in 1 .. Len(t) : b[i] = t[i]
  OBVIOUS
<1>2. p \in 1 .. Len(s) /\ p \in 1 .. Len(t) /\ p \in Nat
  BY <1>0
<1> HIDE DEF a, b
<1>3. PICK i \in Nat : DifferAt(s, t, i) /\ FirstDifference(s, t) = Sign(s[i] - t[i])
  <2>1. ~Agree(s, t)
    BY <1>0, <1>2 DEF Agree
  <2> QED BY <2>1, Difference
<1>4. PICK k \in Nat : DifferAt(a, b, k) /\ FirstDifference(a, b) = Sign(a[k] - b[k])
  <2>1. ~Agree(a, b)
    BY <1>0, <1>1, <1>2 DEF Agree
  <2> QED BY <1>0, <2>1, Difference
<1>5. i \in 1 .. Len(s) /\ i \in 1 .. Len(t) /\ s[i] # t[i] /\ \A j \in 1 .. (i - 1) : s[j] = t[j]
  BY <1>3 DEF DifferAt
<1>6. k \in 1 .. Len(a) /\ k \in 1 .. Len(b) /\ a[k] # b[k] /\ \A j \in 1 .. (k - 1) : a[j] = b[j]
  BY <1>4 DEF DifferAt
<1>7. a[i] # b[i]
  BY <1>1, <1>5
<1>8. ~(i < k)
  <2>1. i < k => i \in 1 .. (k - 1)
    BY <1>0, <1>5
  <2> QED BY <1>6, <1>7, <2>1
<1>9. ~(k < i)
  <2>0. k >= 1 /\ i <= Len(s) /\ i <= Len(t)
    BY <1>0, <1>5, <1>6
  <2>1. ASSUME NEW m \in Nat, NEW n \in Nat, i <= m, i <= n, k < i
        PROVE  k \in 1 .. (i - 1) /\ k \in 1 .. m /\ k \in 1 .. n
    <3>1. k >= 1
      BY <2>0
    <3>2. k <= i - 1
      BY ONLY i \in Nat, k \in Nat, k < i
    <3>3. k <= m /\ k <= n
      BY ONLY i \in Nat, k \in Nat, m \in Nat, n \in Nat, k < i, i <= m, i <= n
    <3>4. k \in 1 .. (i - 1)
      BY ONLY i \in Nat, k \in Nat, <3>1, <3>2
    <3> QED BY ONLY i \in Nat, k \in Nat, m \in Nat, n \in Nat, <3>1, <3>3, <3>4
  <2>2. k < i => k \in 1 .. (i - 1) /\ k \in 1 .. Len(s) /\ k \in 1 .. Len(t)
    BY <1>0, <2>0, <2>1
  <2> QED BY <1>1, <1>5, <1>6, <2>2
<1>10. i = k
  BY <1>8, <1>9
<1>11. a[k] = s[i] /\ b[k] = t[i]
  BY <1>1, <1>5, <1>10
<1> QED BY <1>3, <1>4, <1>11 DEF a, b

LEMMA CapitalsAreString ==
  ASSUME NEW s \in Seq(Int)
  PROVE  InCapitals(s) \in Seq(Int) /\ Len(InCapitals(s)) = Len(s)
<1>1. DOMAIN s = 1 .. Len(s) /\ Len(s) \in Nat
  OBVIOUS
<1>2. \A i \in DOMAIN s : s[i] \in Int
  OBVIOUS
<1>3. \A i \in DOMAIN s : Upper(s[i]) \in Int
  BY <1>2 DEF Upper
<1>4. InCapitals(s) \in [1 .. Len(s) -> Int]
  BY <1>1, <1>3 DEF InCapitals
<1>5. DOMAIN InCapitals(s) = 1 .. Len(s)
  BY <1>1 DEF InCapitals
<1> QED BY <1>1, <1>4, <1>5

\* The capitals of a string and what follows it.
LEMMA CapitalsInOrder ==
  ASSUME NEW s \in Seq(Int), NEW x \in Seq(Int)
  PROVE  InCapitals(s \o x) = InCapitals(s) \o InCapitals(x)
<1>1. /\ Len(s) \in Nat /\ Len(x) \in Nat /\ DOMAIN s = 1 .. Len(s) /\ DOMAIN x = 1 .. Len(x)
      /\ DOMAIN (s \o x) = 1 .. (Len(s) + Len(x))
  OBVIOUS
<1>2. /\ InCapitals(s) \in Seq(Int) /\ Len(InCapitals(s)) = Len(s)
      /\ InCapitals(x) \in Seq(Int) /\ Len(InCapitals(x)) = Len(x)
  BY CapitalsAreString
<1>3. InCapitals(s \o x) \in Seq(Int) /\ Len(InCapitals(s \o x)) = Len(s) + Len(x)
  <2>1. s \o x \in Seq(Int) /\ Len(s \o x) = Len(s) + Len(x)
    OBVIOUS
  <2> QED BY <2>1, CapitalsAreString
<1>4. ASSUME NEW i \in 1 .. (Len(s) + Len(x))
      PROVE  InCapitals(s \o x)[i] = (InCapitals(s) \o InCapitals(x))[i]
  <2>1. InCapitals(s \o x)[i] = Upper((s \o x)[i])
    BY <1>1 DEF InCapitals
  <2>2. CASE i <= Len(s)
    <3>1. (s \o x)[i] = s[i] /\ i \in DOMAIN s
      BY <1>1, <2>2
    <3>2. (InCapitals(s) \o InCapitals(x))[i] = InCapitals(s)[i]
      BY <1>1, <1>2, <2>2
    <3>3. InCapitals(s)[i] = Upper(s[i])
      BY <3>1 DEF InCapitals
    <3> QED BY <2>1, <3>1, <3>2, <3>3
  <2>3. CASE ~(i <= Len(s))
    <3>1. (s \o x)[i] = x[i - Len(s)] /\ i - Len(s) \in DOMAIN x
      BY <1>1, <2>3
    <3>2. (InCapitals(s) \o InCapitals(x))[i] = InCapitals(x)[i - Len(s)]
      BY <1>1, <1>2, <2>3
    <3>3. InCapitals(x)[i - Len(s)] = Upper(x[i - Len(s)])
      BY <3>1 DEF InCapitals
    <3> QED BY <2>1, <3>1, <3>2, <3>3
  <2> QED BY <2>2, <2>3
<1>5. /\ InCapitals(s) \o InCapitals(x) \in Seq(Int)
      /\ Len(InCapitals(s) \o InCapitals(x)) = Len(s) + Len(x)
  <2> PICK c \in Seq(Int), d \in Seq(Int) : c = InCapitals(s) /\ d = InCapitals(x)
    BY <1>2
  <2>1. c \o d \in Seq(Int) /\ Len(c \o d) = Len(c) + Len(d)
    OBVIOUS
  <2> QED BY <1>2, <2>1
<1> QED BY <1>3, <1>4, <1>5, SeqEqual

\* Names of any length are in one order, in which two names are in the same place exactly when
\* they differ in the case of letters only (os_collate_ansi_string, and
\* os_collate_unicode_string when it is told their lengths in characters).  The tree of containers and the directories of names stay sorted under it.
THEOREM NamesSorted ==
  ASSUME NEW s \in Seq(Int), NEW t \in Seq(Int), NEW u \in Seq(Int)
  PROVE  /\ CollateAnsi(s, t) \in -1 .. 1
         /\ CollateAnsi(t, s) = -CollateAnsi(s, t)
         /\ CollateAnsi(s, t) = 0 <=> InCapitals(s) = InCapitals(t)
         /\ CollateAnsi(s, t) = -1 /\ CollateAnsi(t, u) = -1 => CollateAnsi(s, u) = -1
         /\ CollateUnicode(s, t) = CollateAnsi(s, t)
<1> DEFINE a == InCapitals(s)
           b == InCapitals(t)
           c == InCapitals(u)
<1>1. a \in Seq(Int) /\ b \in Seq(Int) /\ c \in Seq(Int)
  BY CapitalsAreString
<1>2. /\ CollateAnsi(s, t) = FirstDifference(a, b) /\ CollateAnsi(t, s) = FirstDifference(b, a)
      /\ CollateAnsi(t, u) = FirstDifference(b, c) /\ CollateAnsi(s, u) = FirstDifference(a, c)
      /\ CollateUnicode(s, t) = CollateAnsi(s, t)
  BY DEF CollateAnsi, CollateUnicode
<1> HIDE DEF a, b, c
<1>3. /\ FirstDifference(a, b) \in -1 .. 1
      /\ FirstDifference(b, a) = -FirstDifference(a, b)
      /\ FirstDifference(a, b) = 0 <=> a = b
      /\ FirstDifference(a, b) = -1 <=> Before(a, b)
  BY <1>1, DifferenceIsOrder
<1>4. /\ FirstDifference(b, c) = -1 <=> Before(b, c)
      /\ FirstDifference(a, c) = -1 <=> Before(a, c)
  BY <1>1, DifferenceIsOrder
<1>5. Before(a, b) /\ Before(b, c) => Before(a, c)
  BY <1>1, BeforeTransitive
<1> QED BY <1>2, <1>3, <1>4, <1>5 DEF a, b

-----------------------------------------------------------------------------
(* Binary keys.                                                            *)

LEMMA StrippedIsString ==
  ASSUME NEW b \in Seq(Nat)
  PROVE  WithoutZeros(b) \in Seq(Int) /\ Len(WithoutZeros(b)) \in Nat
<1> DEFINE from == {i \in DOMAIN b : b[i] # 0} \cup {Len(b) + 1}
           m == Min(from)
<1>1. Len(b) \in Nat /\ DOMAIN b = 1 .. Len(b)
  OBVIOUS
<1>2. from \in SUBSET Nat /\ from # {}
  BY <1>1
<1>3. m \in from
  BY <1>2, LeastNumber
<1>4. m \in Nat /\ 1 <= m /\ m <= Len(b) + 1
  BY <1>1, <1>3
<1>5. WithoutZeros(b) = SubSeq(b, m, Len(b))
  BY DEF WithoutZeros
<1> HIDE DEF m
<1>6. b \in Seq(Int)
  <2>1. \A i \in 1 .. Len(b) : b[i] \in Int
    OBVIOUS
  <2> QED BY <1>1, <2>1
<1>7. SubSeq(b, m, Len(b)) \in Seq(Int)
  BY <1>1, <1>4, <1>6
<1>8. Len(SubSeq(b, m, Len(b))) \in Nat
  BY <1>7
<1> QED BY <1>5, <1>7, <1>8

\* Binary keys of any length are in one order too: shorter ones first, once the zeros they
\* begin with are dropped (os_collate_binary).
THEOREM KeysSorted ==
  ASSUME NEW s \in Seq(Nat), NEW t \in Seq(Nat), NEW u \in Seq(Nat)
  PROVE  /\ CollateBinary(s, t) \in -1 .. 1
         /\ CollateBinary(t, s) = -CollateBinary(s, t)
         /\ CollateBinary(s, t) = 0 <=> WithoutZeros(s) = WithoutZeros(t)
         /\ CollateBinary(s, t) = -1 /\ CollateBinary(t, u) = -1 => CollateBinary(s, u) = -1
<1> DEFINE a == WithoutZeros(s)
           b == WithoutZeros(t)
           c == WithoutZeros(u)
           Compared2(x, y) == IF Len(x) # Len(y) THEN Sign(Len(x) - Len(y)) ELSE FirstDifference(x, y)
<1>1. /\ a \in Seq(Int) /\ b \in Seq(Int) /\ c \in Seq(Int)
      /\ Len(a) \in Nat /\ Len(b) \in Nat /\ Len(c) \in Nat
  BY StrippedIsString
<1>2. /\ CollateBinary(s, t) = Compared2(a, b) /\ CollateBinary(t, s) = Compared2(b, a)
      /\ CollateBinary(t, u) = Compared2(b, c) /\ CollateBinary(s, u) = Compared2(a, c)
  BY DEF CollateBinary
<1>3. ASSUME NEW x \in Seq(Int), NEW y \in Seq(Int), Len(x) \in Nat, Len(y) \in Nat
      PROVE  /\ Compared2(x, y) \in -1 .. 1
             /\ Compared2(y, x) = -Compared2(x, y)
             /\ Compared2(x, y) = 0 <=> x = y
             /\ Compared2(x, y) = -1 <=> Len(x) < Len(y) \/ (Len(x) = Len(y) /\ Before(x, y))
  <2>1. CASE Len(x) = Len(y)
    BY <1>3, <2>1, DifferenceIsOrder
  <2>2. CASE Len(x) < Len(y)
    BY <1>3, <2>2 DEF Sign
  <2>3. CASE Len(y) < Len(x)
    BY <1>3, <2>3 DEF Sign
  <2> QED BY <1>3, <2>1, <2>2, <2>3
<1> HIDE DEF a, b, c, Compared2
<1>4. /\ Compared2(a, b) \in -1 .. 1
      /\ Compared2(b, a) = -Compared2(a, b)
      /\ Compared2(a, b) = 0 <=> a = b
      /\ Compared2(a, b) = -1 <=> Len(a) < Len(b) \/ (Len(a) = Len(b) /\ Before(a, b))
  BY <1>1, <1>3
<1>5. /\ Compared2(b, c) = -1 <=> Len(b) < Len(c) \/ (Len(b) = Len(c) /\ Before(b, c))
      /\ Compared2(a, c) = -1 <=> Len(a) < Len(c) \/ (Len(a) = Len(c) /\ Before(a, c))
  BY <1>1, <1>3
<1>6. Before(a, b) /\ Before(b, c) => Before(a, c)
  BY <1>1, BeforeTransitive
<1>7. Compared2(a, b) = -1 /\ Compared2(b, c) = -1 => Compared2(a, c) = -1
  BY <1>1, <1>4, <1>5, <1>6
<1> QED BY <1>2, <1>4, <1>7 DEF a, b

-----------------------------------------------------------------------------
(* Counting, and what a fold makes of the bytes of a number.               *)

\* What holds of 0 and goes from each number to the next holds of all up to n.
LEMMA CountUp ==
  ASSUME NEW n \in Nat, NEW S, 0 \in S, \A m \in 0 .. n - 1 : m \in S => m + 1 \in S
  PROVE  \A m \in 0 .. n : m \in S
<1> DEFINE missed == {m \in 0 .. n : m \notin S}
<1> SUFFICES ASSUME missed # {}
             PROVE  FALSE
  OBVIOUS
<1>1. missed \in SUBSET Nat
  OBVIOUS
<1>2. PICK m \in missed : \A k \in missed : m <= k
  BY <1>1, LeastNumber
<1> HIDE DEF missed
<1>3. m \in 0 .. n /\ m \notin S
  BY <1>2 DEF missed
<1>4. m # 0 /\ m - 1 \in 0 .. n - 1
  BY <1>3
<1>5. m - 1 \notin missed
  BY <1>2, <1>3
<1>6. m - 1 \in S
  BY <1>4, <1>5 DEF missed
<1> QED BY <1>3, <1>4, <1>6

\* What holds of n + 1 and goes from each number to the one before holds of all from 1.
LEMMA CountDown ==
  ASSUME NEW n \in Nat, NEW S, n + 1 \in S, \A m \in 1 .. n : m + 1 \in S => m \in S
  PROVE  \A m \in 1 .. n + 1 : m \in S
<1> DEFINE T == {k \in 0 .. n : n + 1 - k \in S}
<1>1. 0 \in T
  OBVIOUS
<1>2. ASSUME NEW k \in 0 .. n - 1, k \in T
      PROVE  k + 1 \in T
  <2>1. n - k \in 1 .. n /\ (n - k) + 1 = n + 1 - k /\ n + 1 - (k + 1) = n - k
    OBVIOUS
  <2>2. n - k \in S
    BY <1>2, <2>1
  <2> QED BY <2>1, <2>2
<1> HIDE DEF T
<1>3. \A k \in 0 .. n : k \in T
  BY <1>1, <1>2, CountUp
<1>4. ASSUME NEW m \in 1 .. n + 1
      PROVE  m \in S
  <2>1. n + 1 - m \in 0 .. n /\ n + 1 - (n + 1 - m) = m
    OBVIOUS
  <2> QED BY <1>3, <2>1 DEF T
<1> QED BY <1>4

\* h has at each place of b the number that the bytes from there on stand for.
ReadsDown(b, h) ==
  /\ h[Len(b) + 1] = 0
  /\ \A m \in 1 .. Len(b) : h[m] = b[m] + Base * h[m + 1]

\* What the fold of a set of places is made of, with the lowest place outermost.
LowestFirst(b, g, s) == IF s = {} THEN 0 ELSE b[Min(s)] + Base * g[s \ {Min(s)}]

\* There is a function that the fold of the places from m on can be.
LEMMA FoldDownExists ==
  ASSUME NEW b \in Seq(Nat)
  PROVE  \E g : g = [s \in SUBSET (1 .. Len(b)) |-> LowestFirst(b, g, s)]
<1> DEFINE n == Len(b)
           Part(m) == SUBSET (m .. n)
           Folds(g, m) == g = [s \in Part(m) |-> LowestFirst(b, g, s)]
           S == {m \in 1 .. n + 1 : \E g : Folds(g, m)}
<1>0. n \in Nat
  OBVIOUS
<1>1. n + 1 \in S
  <2> DEFINE g == [s \in Part(n + 1) |-> 0]
  <2>1. (n + 1) .. n = {} /\ Part(n + 1) = {{}}
    BY <1>0
  <2>2. Folds(g, n + 1)
    BY <2>1 DEF LowestFirst
  <2> HIDE DEF Folds
  <2> QED BY <1>0, <2>2
<1>2. ASSUME NEW m \in 1 .. n, m + 1 \in S
      PROVE  m \in S
  <2>1. PICK f : Folds(f, m + 1)
    BY <1>2
  <2> DEFINE g == [s \in Part(m) |-> IF m \in s THEN b[m] + Base * f[s \ {m}] ELSE f[s]]
  <2>2. ASSUME NEW s \in Part(m), m \notin s
        PROVE  s \in Part(m + 1) /\ g[s] = f[s]
    BY <1>0, <2>2
  <2>3. ASSUME NEW s \in Part(m), m \notin s
        PROVE  g[s] = LowestFirst(b, g, s)
    <3>1. CASE s = {}
      BY <2>1, <2>2, <2>3, <3>1 DEF LowestFirst
    <3>2. CASE s # {}
      <4>1. Min(s) \in s
        BY <1>0, <3>2, LeastNumber
      <4>2. s \ {Min(s)} \in Part(m) /\ m \notin s \ {Min(s)}
        BY <2>3
      <4>3. g[s \ {Min(s)}] = f[s \ {Min(s)}]
        BY <2>2, <4>2
      <4>4. f[s] = LowestFirst(b, f, s)
        BY <2>1, <2>2, <2>3
      <4> QED BY <2>2, <2>3, <3>2, <4>3, <4>4 DEF LowestFirst
    <3> QED BY <3>1, <3>2
  <2>4. ASSUME NEW s \in Part(m), m \in s
        PROVE  g[s] = LowestFirst(b, g, s)
    <3>1. s \in SUBSET Nat /\ s # {} /\ \A k \in s : m <= k
      BY <1>0, <2>4
    <3>2. Min(s) = m
      <4>1. Min(s) \in s /\ Min(s) <= m
        BY <2>4, <3>1, LeastNumber
      <4>2. m <= Min(s) /\ Min(s) \in Nat
        BY <3>1, <4>1
      <4> QED BY <4>1, <4>2
    <3>3. s \ {m} \in Part(m) /\ m \notin s \ {m}
      OBVIOUS
    <3>4. g[s \ {m}] = f[s \ {m}]
      BY <2>2, <3>3
    <3> QED BY <2>4, <3>1, <3>2, <3>4 DEF LowestFirst
  <2>5. Folds(g, m)
    BY <2>3, <2>4
  <2> HIDE DEF Folds
  <2> QED BY <2>5
<1> HIDE DEF S
<1>3. 1 \in S
  <2> HIDE DEF n
  <2>1. \A m \in 1 .. n + 1 : m \in S
    BY <1>0, <1>1, <1>2, CountDown
  <2> QED BY <1>0, <2>1
<1>4. PICK g : Folds(g, 1)
  BY <1>3 DEF S
<1> QED BY <1>4

\* A number is read byte by byte, the lowest first (os_bstr_to_u64).
LEMMA LittleEndian ==
  ASSUME NEW b \in Seq(Nat)
  PROVE  \E h \in [1 .. Len(b) + 1 -> Nat] : ReadsDown(b, h) /\ BstrToU64(b) = h[1]
<1> DEFINE n == Len(b)
           g == CHOOSE f : f = [s \in SUBSET DOMAIN b |-> LowestFirst(b, f, s)]
           h == [m \in 1 .. n + 1 |-> g[m .. n]]
           S == {m \in 1 .. n + 1 : h[m] \in Nat}
<1>0. n \in Nat /\ DOMAIN b = 1 .. n /\ \A m \in 1 .. n : b[m] \in Nat
  OBVIOUS
<1>1. g = [s \in SUBSET (1 .. n) |-> LowestFirst(b, g, s)]
  BY <1>0, FoldDownExists
<1>2. BstrToU64(b) = g[1 .. n]
  BY <1>0 DEF BstrToU64, FoldRight, MapThenFoldSet, LowestFirst
<1> HIDE DEF n, g
<1>3. h[n + 1] = 0
  <2>1. (n + 1) .. n = {}
    BY <1>0
  <2>2. n + 1 \in 1 .. n + 1 /\ {} \in SUBSET (1 .. n)
    BY <1>0
  <2> QED BY <1>1, <2>1, <2>2 DEF LowestFirst
<1>4. ASSUME NEW m \in 1 .. n
      PROVE  h[m] = b[m] + Base * h[m + 1]
  <2> DEFINE s == m .. n
  <2>1. s \in SUBSET (1 .. n) /\ s \in SUBSET Nat /\ m \in s /\ \A k \in s : m <= k
    BY <1>0
  <2>2. Min(s) = m
    <3>1. Min(s) \in s /\ Min(s) <= m
      BY <2>1, LeastNumber
    <3> QED BY <2>1, <3>1
  <2>3. s \ {m} = (m + 1) .. n
    BY <1>0
  <2>4. m \in 1 .. n + 1 /\ m + 1 \in 1 .. n + 1
    BY <1>0
  <2>5. g[s] = b[m] + Base * g[s \ {m}]
    BY <1>1, <2>1, <2>2 DEF LowestFirst
  <2> QED BY <2>3, <2>4, <2>5
<1> HIDE DEF h
<1>5. \A m \in 1 .. n + 1 : m \in S
  <2>1. n + 1 \in S
    BY <1>0, <1>3
  <2>2. ASSUME NEW m \in 1 .. n, m + 1 \in S
        PROVE  m \in S
    <3>1. h[m] \in Nat
      <4>1. PICK x \in Nat, d \in Nat : x = h[m + 1] /\ d = b[m]
        BY <1>0, <2>2
      <4>2. d + Base * x \in Nat
        BY ONLY d \in Nat, x \in Nat, BytesAssumption
      <4> QED BY <1>4, <4>1, <4>2
    <3> QED BY <1>0, <3>1
  <2> HIDE DEF S
  <2> QED BY <1>0, <2>1, <2>2, CountDown
<1>6. h \in [1 .. n + 1 -> Nat] /\ h[1] = g[1 .. n]
  BY <1>0, <1>5 DEF h
<1>7. ReadsDown(b, h)
  BY <1>0, <1>3, <1>4 DEF ReadsDown, n
<1> QED BY <1>2, <1>6, <1>7 DEF n

\* The powers of the base are positive and grow.
LEMMA PowersGrow ==
  ASSUME NEW k \in 0 .. Width
  PROVE  /\ Base ^ k \in Nat \ {0}
         /\ \A i \in 0 .. k : Base ^ i <= Base ^ k
<1> DEFINE S == {m \in 0 .. Width : /\ Base ^ m \in Nat \ {0}
                                    /\ \A i \in 0 .. m : Base ^ i \in Nat /\ Base ^ i <= Base ^ m}
<1>1. 0 \in S
  BY BytesAssumption, PowersAssumption
<1>2. ASSUME NEW m \in 0 .. Width - 1, m \in S
      PROVE  m + 1 \in S
  <2>1. Base ^ (m + 1) = Base * Base ^ m /\ Base ^ m \in Nat \ {0}
    BY <1>2, PowersAssumption
  <2>2. Base ^ (m + 1) \in Nat \ {0} /\ Base ^ m <= Base ^ (m + 1)
    BY <2>1, BytesAssumption
  <2>3. ASSUME NEW i \in 0 .. m + 1
        PROVE  Base ^ i \in Nat /\ Base ^ i <= Base ^ (m + 1)
    <3>1. CASE i = m + 1
      BY <2>2, <3>1
    <3>2. CASE i \in 0 .. m
      <4>1. Base ^ i \in Nat /\ Base ^ i <= Base ^ m
        BY <1>2, <3>2
      <4> QED BY <2>1, <2>2, <4>1
    <3> QED BY <3>1, <3>2
  <2>4. m + 1 \in 0 .. Width
    BY BytesAssumption
  <2> QED BY <2>2, <2>3, <2>4
<1> HIDE DEF S
<1>3. \A m \in 0 .. Width : m \in S
  BY <1>1, <1>2, CountUp, BytesAssumption
<1> QED BY <1>3 DEF S

\* What is left of a number below its byte i.
Above(n, i) == n \div Base ^ (i - 1)

\* A number is taken apart byte by byte, and a number of Width bytes leaves nothing.
LEMMA TakenApart ==
  ASSUME NEW n \in Number
  PROVE  /\ Above(n, 1) = n /\ Above(n, Width + 1) = 0
         /\ \A i \in 1 .. Width + 1 : Above(n, i) \in Nat
         /\ \A i \in 1 .. Width : /\ Digit(n, i) \in Byte
                                  /\ Above(n, i) = Digit(n, i) + Base * Above(n, i + 1)
<1>0. n \in Nat /\ Base \in Nat \ {0, 1} /\ Width \in Nat \ {0}
  BY PowersGrow, BytesAssumption DEF Number
<1>1. ASSUME NEW i \in 1 .. Width + 1
      PROVE  Above(n, i) \in Nat /\ Base ^ (i - 1) \in Nat \ {0}
  <2>1. i - 1 \in 0 .. Width
    BY <1>0
  <2>2. Base ^ (i - 1) \in Nat \ {0}
    BY <2>1, PowersGrow
  <2> QED BY <1>0, <2>2 DEF Above
<1>2. ASSUME NEW i \in 1 .. Width
      PROVE  /\ Digit(n, i) \in Byte
             /\ Above(n, i) = Digit(n, i) + Base * Above(n, i + 1)
  <2>1. PICK p \in Nat \ {0} : p = Base ^ (i - 1) /\ Base ^ i = Base * p
    <3>1. i - 1 \in 0 .. Width - 1 /\ (i - 1) + 1 = i /\ i \in 1 .. Width + 1
      BY <1>0
    <3> QED BY <1>1, <3>1, PowersAssumption
  <2>2. Above(n, i + 1) = (n \div p) \div Base
    <3>1. Above(n, i + 1) = n \div (Base * p)
      BY <2>1 DEF Above
    <3>2. n \div (Base * p) = (n \div p) \div Base
      BY ONLY <1>0, p \in Nat \ {0}
    <3> QED BY <3>1, <3>2
  <2>3. PICK a \in Nat : a = n \div p /\ a = Above(n, i)
    BY <1>0, <2>1 DEF Above
  <2>4. Digit(n, i) = a % Base
    BY <2>1, <2>3 DEF Digit
  <2>5. a % Base \in 0 .. Base - 1 /\ a = Base * (a \div Base) + (a % Base)
    BY ONLY <1>0, a \in Nat
  <2>6. a \div Base \in Nat
    BY ONLY <1>0, a \in Nat
  <2> QED BY <1>0, <2>2, <2>3, <2>4, <2>5, <2>6 DEF Byte
<1>3. Above(n, 1) = n
  BY <1>0, PowersAssumption DEF Above
<1>4. Above(n, Width + 1) = 0
  <2>1. PICK p \in Nat \ {0} : p = Base ^ Width /\ n < p
    <3>1. Width \in 0 .. Width
      BY <1>0
    <3>2. Base ^ Width \in Nat \ {0}
      BY <3>1, PowersGrow
    <3> QED BY <3>2 DEF Number
  <2>2. n \div p = 0
    BY ONLY <1>0, p \in Nat \ {0}, <2>1
  <2> QED BY <1>0, <2>1, <2>2 DEF Above
<1> QED BY <1>1, <1>2, <1>3, <1>4

\* The bytes of a number, as few as it needs but at least one, stand for it again.
LEMMA ReadAsWritten ==
  ASSUME NEW n \in Number
  PROVE  /\ U64Size(n) \in 1 .. Width
         /\ \A i \in 2 .. Width : U64Size(n) < i => Digit(n, i) = 0
         /\ U64Size(n) = 1 \/ Digit(n, U64Size(n)) # 0
         /\ U64ToBstr(n) \in [1 .. U64Size(n) -> Byte]
         /\ BstrToU64(U64ToBstr(n)) = n
<1> DEFINE z == U64Size(n)
           b == U64ToBstr(n)
           used == {i \in 2 .. Width : Digit(n, i) # 0} \cup {1}
<1>0. Base \in Nat \ {0, 1} /\ Width \in Nat \ {0}
  BY BytesAssumption
<1>1. z \in used /\ \A i \in used : i <= z
  <2>1. used \in SUBSET Nat /\ 1 \in used /\ \A i \in used : i <= Width
    BY <1>0
  <2> HIDE DEF used
  <2>2. Max(used) \in used /\ \A i \in used : i <= Max(used)
    BY <1>0, <2>1, GreatestNumber
  <2> QED BY <2>2 DEF used, U64Size
<1>2. z \in 1 .. Width /\ z \in Nat
  BY <1>0, <1>1
<1>3. \A i \in 2 .. Width : z < i => Digit(n, i) = 0
  BY <1>1, <1>2
<1>4. z = 1 \/ Digit(n, z) # 0
  BY <1>1
<1>5. /\ Above(n, 1) = n /\ Above(n, Width + 1) = 0
      /\ \A i \in 1 .. Width + 1 : Above(n, i) \in Nat
      /\ \A i \in 1 .. Width : /\ Digit(n, i) \in Byte
                               /\ Above(n, i) = Digit(n, i) + Base * Above(n, i + 1)
  BY TakenApart
<1> HIDE DEF z, used
<1>6. b = [i \in 1 .. z |-> Digit(n, i)]
  BY DEF U64ToBstr, z
<1>7. b \in [1 .. z -> Byte] /\ Len(b) = z /\ b \in Seq(Nat)
  <2>1. b \in [1 .. z -> Byte]
    <3>1. \A i \in 1 .. z : Digit(n, i) \in Byte
      BY <1>0, <1>2, <1>5
    <3> QED BY <1>6, <3>1
  <2>2. b \in [1 .. z -> Nat]
    BY <1>0, <2>1 DEF Byte
  <2> QED BY <1>2, <2>1, <2>2
<1>8. Above(n, z + 1) = 0
  <2> DEFINE S == {i \in 1 .. Width + 1 : z < i => Above(n, i) = 0}
  <2>1. Width + 1 \in S
    BY <1>0, <1>5
  <2>2. ASSUME NEW i \in 1 .. Width, i + 1 \in S
        PROVE  i \in S
    <3>1. ASSUME z < i
          PROVE  Above(n, i) = 0
      <4>1. Digit(n, i) = 0 /\ Above(n, i + 1) = 0
        BY <1>2, <1>3, <2>2, <3>1
      <4> QED BY <1>0, <1>5, <4>1
    <3> QED BY <1>0, <3>1
  <2> HIDE DEF S
  <2>3. \A i \in 1 .. Width + 1 : i \in S
    BY <1>0, <2>1, <2>2, CountDown
  <2>4. z + 1 \in S
    BY <1>0, <1>2, <2>3
  <2> QED BY <1>2, <2>4 DEF S
<1>9. PICK h \in [1 .. z + 1 -> Nat] : ReadsDown(b, h) /\ BstrToU64(b) = h[1]
  BY <1>7, LittleEndian
<1>10. \A i \in 1 .. z + 1 : h[i] = Above(n, i)
  <2> DEFINE S == {i \in 1 .. z + 1 : h[i] = Above(n, i)}
  <2>1. z + 1 \in S
    BY <1>2, <1>7, <1>8, <1>9 DEF ReadsDown
  <2>2. ASSUME NEW i \in 1 .. z, i + 1 \in S
        PROVE  i \in S
    <3>1. h[i] = b[i] + Base * h[i + 1]
      BY <1>7, <1>9 DEF ReadsDown
    <3>2. b[i] = Digit(n, i) /\ h[i + 1] = Above(n, i + 1) /\ i \in 1 .. Width /\ i \in 1 .. z + 1
      <4>1. b[i] = Digit(n, i)
        BY <1>6
      <4>2. i \in 1 .. Width /\ i \in 1 .. z + 1
        BY <1>0, <1>2
      <4> QED BY <2>2, <4>1, <4>2
    <3>3. Above(n, i) = Digit(n, i) + Base * Above(n, i + 1)
      BY <1>5, <3>2
    <3> QED BY <3>1, <3>2, <3>3
  <2> HIDE DEF S
  <2>3. \A i \in 1 .. z + 1 : i \in S
    BY <1>2, <2>1, <2>2, CountDown
  <2> QED BY <2>3 DEF S
<1>11. BstrToU64(b) = n
  BY <1>2, <1>5, <1>9, <1>10
<1> QED BY <1>2, <1>3, <1>4, <1>7, <1>11 DEF z

\* A number of so many bytes is written in no more, and fits in 64 bits.
LEMMA WrittenAsShort ==
  ASSUME NEW b \in Seq(Byte), Len(b) \in 1 .. Width
  PROVE  /\ BstrToU64(b) \in Number
         /\ U64Size(BstrToU64(b)) <= Len(b)
<1> DEFINE n == BstrToU64(b)
           len == Len(b)
<1>0. Base \in Nat \ {0, 1} /\ Width \in Nat \ {0} /\ len \in 1 .. Width /\ len \in Nat
  BY BytesAssumption
<1>1. b \in Seq(Nat) /\ \A i \in 1 .. len : b[i] \in 0 .. Base - 1
  BY <1>0 DEF Byte
<1>2. PICK h \in [1 .. len + 1 -> Nat] : ReadsDown(b, h) /\ n = h[1]
  BY <1>1, LittleEndian
<1>3. h[len + 1] = 0 /\ \A i \in 1 .. len : h[i] = b[i] + Base * h[i + 1]
  BY <1>2 DEF ReadsDown
<1> HIDE DEF n, len
<1>4. \A i \in 1 .. len + 1 : h[i] < Base ^ (len + 1 - i)
  <2> DEFINE S == {i \in 1 .. len + 1 : h[i] < Base ^ (len + 1 - i)}
  <2>1. len + 1 \in S
    BY <1>0, <1>3, PowersAssumption
  <2>2. ASSUME NEW i \in 1 .. len, i + 1 \in S
        PROVE  i \in S
    <3>1. PICK p \in Nat \ {0} : p = Base ^ (len - i) /\ Base ^ (len + 1 - i) = Base * p
      <4>1. len - i \in 0 .. Width - 1 /\ len - i \in 0 .. Width /\ (len - i) + 1 = len + 1 - i
        BY <1>0
      <4> QED BY <4>1, PowersAssumption, PowersGrow
    <3>2. PICK x \in Nat, d \in 0 .. Base - 1 : x = h[i + 1] /\ d = b[i] /\ h[i] = d + Base * x
      <4>1. i + 1 \in 1 .. len + 1
        BY <1>0
      <4>2. h[i + 1] \in Nat /\ b[i] \in 0 .. Base - 1
        BY <1>1, <1>2, <4>1
      <4> QED BY <1>3, <4>2
    <3>3. x < p
      <4>1. len + 1 - (i + 1) = len - i
        BY <1>0
      <4> QED BY <2>2, <3>1, <3>2, <4>1
    <3>4. d + Base * x < Base * p
      BY ONLY <1>0, <3>3, p \in Nat \ {0}, x \in Nat, d \in 0 .. Base - 1
    <3> QED BY <1>0, <3>1, <3>2, <3>4
  <2> HIDE DEF S
  <2>3. \A i \in 1 .. len + 1 : i \in S
    BY <1>0, <2>1, <2>2, CountDown
  <2> QED BY <2>3 DEF S
<1>5. n \in Nat /\ n < Base ^ len
  <2>1. 1 \in 1 .. len + 1 /\ len + 1 - 1 = len
    BY <1>0
  <2> QED BY <1>2, <1>4, <2>1
<1>6. n \in Number
  <2>1. Base ^ Width \in Nat \ {0} /\ Base ^ len \in Nat \ {0} /\ Base ^ len <= Base ^ Width
    <3>1. Width \in 0 .. Width /\ len \in 0 .. Width
      BY <1>0
    <3> QED BY <3>1, PowersGrow
  <2> QED BY <1>5, <2>1 DEF Number
<1>7. U64Size(n) <= len
  <2> DEFINE z == U64Size(n)
  <2>1. z \in 1 .. Width /\ (z = 1 \/ Digit(n, z) # 0)
    BY <1>6, ReadAsWritten
  <2> HIDE DEF z
  <2>2. ASSUME z > len
        PROVE  Digit(n, z) = 0
    <3>1. PICK p \in Nat \ {0} : p = Base ^ (z - 1) /\ n < p
      <4>1. z - 1 \in 0 .. Width /\ len \in 0 .. Width /\ len \in 0 .. z - 1
        BY <1>0, <2>1, <2>2
      <4>2. Base ^ (z - 1) \in Nat \ {0} /\ Base ^ len <= Base ^ (z - 1) /\ Base ^ len \in Nat \ {0}
        BY <4>1, PowersGrow
      <4> QED BY <1>5, <4>2
    <3>2. n \div p = 0
      BY <1>5, <3>1
    <3>3. 0 % Base = 0
      BY <1>0
    <3> QED BY <3>1, <3>2, <3>3 DEF Digit
  <2> QED BY <1>0, <2>1, <2>2 DEF z
<1> QED BY <1>6, <1>7 DEF n, len

\* An extent is read back from the pair it was written as.
LEMMA PairReadBack ==
  ASSUME NEW a \in Number, NEW k \in Number \ {0}
  PROVE  PairExtent(ExtentPair(a, k)) = [addr |-> a, len |-> k]
<1> DEFINE s == U64ToBstr(a)
           t == U64ToBstr(k)
           z == U64Size(a)
           pair == <<z>> \o s \o t
<1>1. /\ s \in Seq(Byte) /\ Len(s) = z /\ z \in Nat /\ BstrToU64(s) = a
      /\ t \in Seq(Byte) /\ Len(t) \in Nat \ {0} /\ BstrToU64(t) = k
  <2>1. ASSUME NEW n \in Number
        PROVE  /\ U64ToBstr(n) \in Seq(Byte) /\ Len(U64ToBstr(n)) = U64Size(n)
               /\ U64Size(n) \in Nat \ {0} /\ BstrToU64(U64ToBstr(n)) = n
    <3>1. U64Size(n) \in Nat \ {0}
      BY ReadAsWritten, BytesAssumption
    <3> QED BY <3>1, ReadAsWritten
  <2> QED BY <2>1
<1> HIDE DEF s, t, z
<1>2. pair \in Seq(Nat) /\ Len(pair) = z + 1 + Len(t) /\ pair[1] = z
  BY <1>1, BytesAssumption DEF Byte
<1>3. \A i \in 1 .. z : pair[i + 1] = s[i]
  BY <1>1
<1>4. \A i \in 1 .. Len(t) : pair[z + 1 + i] = t[i]
  BY <1>1
<1> HIDE DEF pair
<1>5. SubSeq(pair, 2, z + 1) = s
  <2>1. SubSeq(pair, 2, z + 1) = [i \in 1 .. z |-> pair[i + 1]]
    BY <1>1, <1>2, SubSeqProperties
  <2> QED BY <1>1, <1>3, <2>1
<1>6. SubSeq(pair, z + 2, Len(pair)) = t
  <2>1. SubSeq(pair, z + 2, Len(pair)) = [i \in 1 .. Len(t) |-> pair[z + 1 + i]]
    BY <1>1, <1>2, SubSeqProperties
  <2>2. t = [i \in 1 .. Len(t) |-> t[i]]
    BY <1>1
  <2> QED BY <1>4, <2>1, <2>2
<1>7. PairExtent(pair) = [addr |-> a, len |-> k]
  <2>1. ~(Len(pair) <= pair[1] + 1)
    BY <1>1, <1>2
  <2>2. SubSeq(pair, 2, pair[1] + 1) = s /\ SubSeq(pair, pair[1] + 2, Len(pair)) = t
    BY <1>2, <1>5, <1>6
  <2> QED BY <1>1, <2>1, <2>2 DEF PairExtent
<1>8. ExtentPair(a, k) = pair
  BY <1>1 DEF ExtentPair, pair, s, t, z
<1> QED BY <1>7, <1>8

\* The byte that the fold from the other end takes last is the highest place.
HighestFirst(b, g, s) == IF s = {} THEN 0 ELSE g[s \ {Max(s)}] * Base + b[Max(s)]

\* h has at each place of b the number that the bytes up to there stand for.
ReadsUp(b, h) ==
  /\ h[0] = 0
  /\ \A m \in 1 .. Len(b) : h[m] = h[m - 1] * Base + b[m]

\* There is a function that the fold of the places up to m can be.
LEMMA FoldUpExists ==
  ASSUME NEW b \in Seq(Nat)
  PROVE  \E g : g = [s \in SUBSET (1 .. Len(b)) |-> HighestFirst(b, g, s)]
<1> DEFINE n == Len(b)
           Part(m) == SUBSET (1 .. m)
           Folds(g, m) == g = [s \in Part(m) |-> HighestFirst(b, g, s)]
           S == {m \in 0 .. n : \E g : Folds(g, m)}
<1>0. n \in Nat
  OBVIOUS
<1>1. 0 \in S
  <2> DEFINE g == [s \in Part(0) |-> 0]
  <2>1. 1 .. 0 = {} /\ Part(0) = {{}}
    OBVIOUS
  <2>2. Folds(g, 0)
    BY <2>1 DEF HighestFirst
  <2> HIDE DEF Folds
  <2> QED BY <1>0, <2>2
<1>2. ASSUME NEW m \in 0 .. n - 1, m \in S
      PROVE  m + 1 \in S
  <2>1. PICK f : Folds(f, m)
    BY <1>2
  <2> DEFINE k == m + 1
             g == [s \in Part(k) |-> IF k \in s THEN f[s \ {k}] * Base + b[k] ELSE f[s]]
  <2>2. ASSUME NEW s \in Part(k), k \notin s
        PROVE  s \in Part(m) /\ g[s] = f[s]
    BY <1>0, <2>2
  <2>3. ASSUME NEW s \in Part(k), k \notin s
        PROVE  g[s] = HighestFirst(b, g, s)
    <3>1. CASE s = {}
      BY <2>1, <2>2, <2>3, <3>1 DEF HighestFirst
    <3>2. CASE s # {}
      <4>1. Max(s) \in s
        <5>1. s \in SUBSET Nat /\ k \in Nat /\ \A i \in s : i <= k
          BY <1>0
        <5> HIDE DEF k
        <5> QED BY <3>2, <5>1, GreatestNumber
      <4>2. s \ {Max(s)} \in Part(k) /\ k \notin s \ {Max(s)}
        BY <2>3
      <4>3. g[s \ {Max(s)}] = f[s \ {Max(s)}]
        BY <2>2, <4>2
      <4>4. f[s] = HighestFirst(b, f, s)
        BY <2>1, <2>2, <2>3
      <4> QED BY <2>2, <2>3, <3>2, <4>3, <4>4 DEF HighestFirst
    <3> QED BY <3>1, <3>2
  <2>4. ASSUME NEW s \in Part(k), k \in s
        PROVE  g[s] = HighestFirst(b, g, s)
    <3>1. s \in SUBSET Nat /\ s # {} /\ k \in Nat /\ \A i \in s : i <= k
      BY <1>0, <2>4
    <3>2. Max(s) = k
      <4> HIDE DEF k
      <4>1. Max(s) \in s /\ k <= Max(s)
        BY <2>4, <3>1, GreatestNumber
      <4>2. Max(s) \in Nat /\ Max(s) <= k
        BY <3>1, <4>1
      <4> QED BY <3>1, <4>1, <4>2
    <3>3. s \ {k} \in Part(k) /\ k \notin s \ {k}
      OBVIOUS
    <3>4. g[s \ {k}] = f[s \ {k}]
      BY <2>2, <3>3
    <3> QED BY <2>4, <3>1, <3>2, <3>4 DEF HighestFirst
  <2>5. Folds(g, k)
    BY <2>3, <2>4
  <2>6. k \in 0 .. n
    BY <1>0
  <2> HIDE DEF Folds
  <2> QED BY <2>5, <2>6
<1> HIDE DEF S
<1>3. n \in S
  <2> HIDE DEF n
  <2>1. \A m \in 0 .. n : m \in S
    BY <1>0, <1>1, <1>2, CountUp
  <2> QED BY <1>0, <2>1
<1>4. PICK g : Folds(g, n)
  BY <1>3 DEF S
<1> QED BY <1>4

\* What a key stands for, read byte by byte from the highest one.
LEMMA BigEndianRead ==
  ASSUME NEW b \in Seq(Nat)
  PROVE  \E h \in [0 .. Len(b) -> Nat] : ReadsUp(b, h) /\ BigEndian(b) = h[Len(b)]
<1> DEFINE n == Len(b)
           g == CHOOSE f : f = [s \in SUBSET DOMAIN b |-> HighestFirst(b, f, s)]
           h == [m \in 0 .. n |-> g[1 .. m]]
           S == {m \in 0 .. n : h[m] \in Nat}
<1>0. n \in Nat /\ DOMAIN b = 1 .. n /\ \A m \in 1 .. n : b[m] \in Nat
  OBVIOUS
<1>1. g = [s \in SUBSET (1 .. n) |-> HighestFirst(b, g, s)]
  BY <1>0, FoldUpExists
<1>2. BigEndian(b) = g[1 .. n]
  BY <1>0 DEF BigEndian, FoldLeft, MapThenFoldSet, HighestFirst
<1> HIDE DEF n, g
<1>3. h[0] = 0
  <2>1. 1 .. 0 = {} /\ 0 \in 0 .. n /\ {} \in SUBSET (1 .. n)
    BY <1>0
  <2> QED BY <1>1, <2>1 DEF HighestFirst
<1>4. ASSUME NEW m \in 1 .. n
      PROVE  h[m] = h[m - 1] * Base + b[m]
  <2> DEFINE s == 1 .. m
  <2>1. s \in SUBSET (1 .. n) /\ s \in SUBSET Nat /\ m \in s /\ m \in Nat /\ \A k \in s : k <= m
    BY <1>0
  <2>2. Max(s) = m
    <3>1. Max(s) \in s /\ m <= Max(s)
      <4> HIDE DEF s
      <4> QED BY <2>1, GreatestNumber
    <3> QED BY <2>1, <3>1
  <2>3. s \ {m} = 1 .. (m - 1)
    BY <1>0
  <2>4. m \in 0 .. n /\ m - 1 \in 0 .. n
    BY <1>0
  <2>5. g[s] = g[s \ {m}] * Base + b[m]
    BY <1>1, <2>1, <2>2 DEF HighestFirst
  <2> QED BY <2>3, <2>4, <2>5
<1> HIDE DEF h
<1>5. \A m \in 0 .. n : m \in S
  <2>1. 0 \in S
    BY <1>0, <1>3
  <2>2. ASSUME NEW m \in 0 .. n - 1, m \in S
        PROVE  m + 1 \in S
    <3>1. m + 1 \in 1 .. n /\ m + 1 \in 0 .. n /\ (m + 1) - 1 = m
      BY <1>0
    <3>2. PICK x \in Nat, d \in Nat : x = h[m] /\ d = b[m + 1]
      BY <1>0, <2>2, <3>1
    <3>3. x * Base + d \in Nat
      BY ONLY d \in Nat, x \in Nat, BytesAssumption
    <3>4. h[m + 1] = x * Base + d
      BY <1>4, <3>1, <3>2
    <3> QED BY <3>1, <3>3, <3>4
  <2> HIDE DEF S
  <2> QED BY <1>0, <2>1, <2>2, CountUp
<1>6. h \in [0 .. n -> Nat]
  BY <1>0, <1>5 DEF h
<1>7. ReadsUp(b, h) /\ h[n] = g[1 .. n]
  <2>1. ReadsUp(b, h)
    BY <1>0, <1>3, <1>4 DEF ReadsUp, n
  <2>2. h[n] = g[1 .. n]
    BY <1>0 DEF h
  <2> QED BY <2>1, <2>2
<1> QED BY <1>2, <1>6, <1>7 DEF n

\* What is less stays less when each number is given one more byte.
LEMMA OneMoreByte ==
  ASSUME NEW x \in Nat, NEW y \in Nat, NEW d \in Byte, NEW e \in Byte,
         x < y \/ (x = y /\ d < e)
  PROVE  x * Base + d < y * Base + e
<1>1. d \in 0 .. Base - 1 /\ e \in 0 .. Base - 1
  BY DEF Byte
<1>2. CASE x < y
  BY ONLY <1>1, <1>2, BytesAssumption, x \in Nat, y \in Nat
<1>3. CASE x = y /\ d < e
  BY ONLY <1>1, <1>3, BytesAssumption, x \in Nat
<1> QED BY <1>2, <1>3

LEMMA BytesAreNumbers ==
  ASSUME NEW s \in Seq(Byte)
  PROVE  s \in Seq(Nat) /\ s \in Seq(Int)
<1>1. \A i \in 1 .. Len(s) : s[i] \in Nat
  BY BytesAssumption DEF Byte
<1>2. s \in [1 .. Len(s) -> Nat] /\ s \in [1 .. Len(s) -> Int] /\ Len(s) \in Nat
  BY <1>1
<1> QED BY <1>2

\* Of two keys of one length the one that comes first stands for less.
LEMMA EarlierIsLess ==
  ASSUME NEW s \in Seq(Byte), NEW t \in Seq(Byte), Len(s) = Len(t), Before(s, t)
  PROVE  BigEndian(s) < BigEndian(t) /\ BigEndian(s) \in Nat /\ BigEndian(t) \in Nat
<1> DEFINE n == Len(s)
<1>0. n \in Nat /\ Len(t) = n
  OBVIOUS
<1>1. PICK h \in [0 .. n -> Nat] : ReadsUp(s, h) /\ BigEndian(s) = h[n]
  BY BigEndianRead, BytesAreNumbers
<1>2. PICK g \in [0 .. n -> Nat] : ReadsUp(t, g) /\ BigEndian(t) = g[n]
  BY <1>0, BigEndianRead, BytesAreNumbers
<1>3. /\ h[0] = 0 /\ g[0] = 0
      /\ \A m \in 1 .. n : h[m] = h[m - 1] * Base + s[m] /\ g[m] = g[m - 1] * Base + t[m]
  BY <1>0, <1>1, <1>2 DEF ReadsUp
<1>4. PICK i \in Nat \ {0} : BeforeAt(s, t, i)
  BY DEF Before
<1>5. i \in 1 .. n /\ s[i] < t[i] /\ \A j \in 1 .. i - 1 : s[j] = t[j]
  BY <1>0, <1>4 DEF BeforeAt
<1>6. \A m \in 1 .. n : s[m] \in Byte /\ t[m] \in Byte
  BY <1>0
<1> HIDE DEF n
<1> DEFINE S == {m \in 0 .. n : IF m < i THEN h[m] = g[m] ELSE h[m] < g[m]}
<1>7. 0 \in S
  BY <1>0, <1>3, <1>5
<1>8. ASSUME NEW m \in 0 .. n - 1, m \in S
      PROVE  m + 1 \in S
  <2>1. m + 1 \in 1 .. n /\ m + 1 \in 0 .. n /\ (m + 1) - 1 = m /\ m \in 0 .. n
    BY <1>0
  <2>2. h[m] \in Nat /\ g[m] \in Nat /\ s[m + 1] \in Byte /\ t[m + 1] \in Byte
    BY <1>1, <1>2, <1>6, <2>1
  <2>3. h[m + 1] = h[m] * Base + s[m + 1] /\ g[m + 1] = g[m] * Base + t[m + 1]
    BY <1>3, <2>1
  <2>4. CASE m + 1 < i
    <3>1. h[m] = g[m] /\ s[m + 1] = t[m + 1]
      BY <1>5, <1>8, <2>1, <2>4
    <3> QED BY <2>1, <2>3, <2>4, <3>1
  <2>5. CASE i <= m + 1
    <3>1. h[m] < g[m] \/ (h[m] = g[m] /\ s[m + 1] < t[m + 1])
      <4>1. CASE i = m + 1
        BY <1>5, <1>8, <2>1, <4>1
      <4>2. CASE i <= m
        BY <1>5, <1>8, <2>1, <4>2
      <4> QED BY <1>5, <2>1, <2>5, <4>1, <4>2
    <3>2. h[m + 1] < g[m + 1]
      BY <2>2, <2>3, <3>1, OneMoreByte
    <3> QED BY <1>5, <2>1, <2>5, <3>2
  <2> QED BY <1>5, <2>1, <2>4, <2>5
<1> HIDE DEF S
<1>9. \A m \in 0 .. n : m \in S
  BY <1>0, <1>7, <1>8, CountUp
<1>10. n \in S /\ ~(n < i) /\ n \in 0 .. n
  BY <1>0, <1>5, <1>9
<1> QED BY <1>1, <1>2, <1>10 DEF S

\* A longer key that begins with no zero stands for more.
LEMMA LongerIsGreater ==
  ASSUME NEW s \in Seq(Byte), NEW t \in Seq(Byte), Len(t) < Len(s), s[1] # 0
  PROVE  BigEndian(t) < BigEndian(s) /\ BigEndian(s) \in Nat /\ BigEndian(t) \in Nat
<1> DEFINE n == Len(s)
           k == Len(t)
<1>0. n \in Nat /\ k \in Nat /\ k < n
  OBVIOUS
<1>1. PICK h \in [0 .. n -> Nat] : ReadsUp(s, h) /\ BigEndian(s) = h[n]
  BY BigEndianRead, BytesAreNumbers
<1>2. PICK g \in [0 .. k -> Nat] : ReadsUp(t, g) /\ BigEndian(t) = g[k]
  BY BigEndianRead, BytesAreNumbers
<1>3. h[0] = 0 /\ \A m \in 1 .. n : h[m] = h[m - 1] * Base + s[m]
  BY <1>1 DEF ReadsUp
<1>4. g[0] = 0 /\ \A m \in 1 .. k : g[m] = g[m - 1] * Base + t[m]
  BY <1>2 DEF ReadsUp
<1>5. (\A m \in 1 .. n : s[m] \in Byte) /\ \A m \in 1 .. k : t[m] \in Byte
  OBVIOUS
<1> HIDE DEF n, k
<1>6. 0 \in Byte
  BY BytesAssumption DEF Byte
<1>7. \A m \in 1 .. n : h[m] > 0
  <2> DEFINE S == {m \in 0 .. n : m = 0 \/ h[m] > 0}
  <2>1. 0 \in S
    BY <1>0
  <2>2. ASSUME NEW m \in 0 .. n - 1, m \in S
        PROVE  m + 1 \in S
    <3>1. m + 1 \in 1 .. n /\ m + 1 \in 0 .. n /\ (m + 1) - 1 = m /\ m \in 0 .. n
      BY <1>0
    <3>2. h[m] \in Nat /\ s[m + 1] \in Byte /\ h[m + 1] = h[m] * Base + s[m + 1]
      BY <1>1, <1>3, <1>5, <3>1
    <3>3. 0 < h[m] \/ (0 = h[m] /\ 0 < s[m + 1])
      <4>1. CASE m = 0
        <5>1. s[m + 1] # 0 /\ s[m + 1] \in Nat
          BY <3>2, <4>1, BytesAssumption DEF Byte
        <5> QED BY <1>3, <4>1, <5>1
      <4>2. CASE m # 0
        BY <2>2, <4>2
      <4> QED BY <4>1, <4>2
    <3>4. 0 * Base + 0 < h[m] * Base + s[m + 1]
      BY <1>6, <3>2, <3>3, OneMoreByte
    <3>5. 0 * Base + 0 = 0
      BY BytesAssumption
    <3> QED BY <3>1, <3>2, <3>4, <3>5
  <2> HIDE DEF S
  <2>3. \A m \in 0 .. n : m \in S
    BY <1>0, <2>1, <2>2, CountUp
  <2>4. \A m \in 1 .. n : m \in 0 .. n /\ m # 0
    BY <1>0
  <2> QED BY <2>3, <2>4 DEF S
<1>8. \A m \in 0 .. k : g[m] < h[n - k + m]
  <2> DEFINE S == {m \in 0 .. k : g[m] < h[n - k + m]}
  <2>1. 0 \in S
    <3>1. n - k \in 1 .. n /\ n - k + 0 = n - k
      BY <1>0
    <3> QED BY <1>0, <1>4, <1>7, <3>1
  <2>2. ASSUME NEW m \in 0 .. k - 1, m \in S
        PROVE  m + 1 \in S
    <3>1. /\ m + 1 \in 1 .. k /\ m + 1 \in 0 .. k /\ (m + 1) - 1 = m /\ m \in 0 .. k
          /\ n - k + (m + 1) \in 1 .. n /\ n - k + (m + 1) - 1 = n - k + m /\ n - k + m \in 0 .. n
      BY <1>0
    <3>2. /\ g[m] \in Nat /\ t[m + 1] \in Byte /\ g[m + 1] = g[m] * Base + t[m + 1]
      BY <1>2, <1>4, <1>5, <3>1
    <3>3. /\ h[n - k + m] \in Nat /\ s[n - k + (m + 1)] \in Byte
          /\ h[n - k + (m + 1)] = h[n - k + m] * Base + s[n - k + (m + 1)]
      <4> DEFINE i == n - k + (m + 1)
      <4>1. i \in 1 .. n /\ i - 1 = n - k + m /\ i - 1 \in 0 .. n
        BY <1>0
      <4> HIDE DEF i
      <4>2. h[i - 1] \in Nat /\ s[i] \in Byte /\ h[i] = h[i - 1] * Base + s[i]
        BY <1>1, <1>3, <1>5, <4>1
      <4> QED BY <4>1, <4>2 DEF i
    <3>4. g[m + 1] < h[n - k + (m + 1)]
      BY <2>2, <3>2, <3>3, OneMoreByte
    <3> QED BY <3>1, <3>4
  <2> HIDE DEF S
  <2>3. \A m \in 0 .. k : m \in S
    BY <1>0, <2>1, <2>2, CountUp
  <2> QED BY <2>3 DEF S
<1>9. k \in 0 .. k /\ n \in 0 .. n /\ n - k + k = n
  BY <1>0
<1> QED BY <1>1, <1>2, <1>8, <1>9

\* The zeros a key begins with count nothing.
LEMMA ZerosCountNothing ==
  ASSUME NEW b \in Seq(Byte)
  PROVE  /\ WithoutZeros(b) \in Seq(Byte)
         /\ Len(WithoutZeros(b)) # 0 => WithoutZeros(b)[1] # 0
         /\ BigEndian(WithoutZeros(b)) = BigEndian(b)
<1> DEFINE n == Len(b)
           from == {i \in DOMAIN b : b[i] # 0} \cup {n + 1}
           m == Min(from)
           c == WithoutZeros(b)
<1>1. n \in Nat /\ DOMAIN b = 1 .. n /\ \A i \in 1 .. n : b[i] \in Byte
  OBVIOUS
<1>2. m \in from /\ \A i \in from : m <= i
  <2>1. from \in SUBSET Nat /\ from # {}
    BY <1>1
  <2> HIDE DEF from
  <2> QED BY <2>1, LeastNumber
<1>3. c = SubSeq(b, m, n)
  BY DEF WithoutZeros
<1> HIDE DEF m, n, c
<1>4. m \in 1 .. n + 1 /\ (m # n + 1 => b[m] # 0)
  BY <1>1, <1>2
<1>5. \A i \in 1 .. m - 1 : b[i] = 0
  BY <1>1, <1>2, <1>4
<1>6. /\ c \in Seq(Byte) /\ Len(c) = n + 1 - m
      /\ \A i \in 1 .. n + 1 - m : c[i] = b[m + i - 1]
  <2>1. \A i \in m .. n : b[i] \in Byte
    BY <1>1, <1>4
  <2>2. m \in Int /\ n \in Int /\ m <= n + 1
    BY <1>1, <1>4
  <2>3. /\ SubSeq(b, m, n) \in Seq(Byte)
        /\ Len(SubSeq(b, m, n)) = IF m <= n THEN n - m + 1 ELSE 0
        /\ \A i \in 1 .. n - m + 1 : SubSeq(b, m, n)[i] = b[m + i - 1]
    BY <2>1, <2>2, SubSeqProperties
  <2>4. n - m + 1 = n + 1 - m /\ (~(m <= n) => n + 1 - m = 0)
    BY <2>2
  <2> QED BY <1>3, <2>2, <2>3, <2>4
<1>7. Len(c) # 0 => c[1] # 0
  <2>1. Len(c) # 0 => 1 \in 1 .. n + 1 - m /\ m + 1 - 1 = m /\ m # n + 1
    BY <1>1, <1>4, <1>6
  <2> QED BY <1>4, <1>6, <2>1
<1>8. PICK h \in [0 .. n -> Nat] : ReadsUp(b, h) /\ BigEndian(b) = h[n]
  BY BigEndianRead, BytesAreNumbers DEF n
<1>9. h[0] = 0 /\ \A i \in 1 .. n : h[i] = h[i - 1] * Base + b[i]
  BY <1>8 DEF ReadsUp, n
<1>10. PICK g \in [0 .. n + 1 - m -> Nat] : ReadsUp(c, g) /\ BigEndian(c) = g[n + 1 - m]
  BY <1>6, BigEndianRead, BytesAreNumbers
<1>11. g[0] = 0 /\ \A i \in 1 .. n + 1 - m : g[i] = g[i - 1] * Base + c[i]
  BY <1>6, <1>10 DEF ReadsUp
<1>12. h[m - 1] = 0
  <2> DEFINE S == {i \in 0 .. m - 1 : h[i] = 0}
  <2>0. m - 1 \in Nat
    BY <1>1, <1>4
  <2>1. 0 \in S
    BY <1>9, <2>0
  <2>2. ASSUME NEW i \in 0 .. (m - 1) - 1, i \in S
        PROVE  i + 1 \in S
    <3>1. i + 1 \in 1 .. n /\ i + 1 \in 1 .. m - 1 /\ i + 1 \in 0 .. m - 1 /\ (i + 1) - 1 = i
      BY <1>1, <1>4
    <3>2. h[i + 1] = 0 * Base + 0
      BY <1>5, <1>9, <2>2, <3>1
    <3>3. 0 * Base + 0 = 0
      BY BytesAssumption
    <3> QED BY <3>1, <3>2, <3>3
  <2> HIDE DEF S
  <2>3. \A i \in 0 .. m - 1 : i \in S
    BY <2>0, <2>1, <2>2, CountUp
  <2>4. m - 1 \in S
    BY <2>0, <2>3
  <2> QED BY <2>4 DEF S
<1>13. g[n + 1 - m] = h[n]
  <2> DEFINE S == {i \in 0 .. n + 1 - m : g[i] = h[m - 1 + i]}
  <2>0. n + 1 - m \in Nat
    BY <1>1, <1>4
  <2>1. 0 \in S
    <3>1. m - 1 + 0 = m - 1
      BY <1>4
    <3> QED BY <1>11, <1>12, <2>0, <3>1
  <2>2. ASSUME NEW i \in 0 .. (n + 1 - m) - 1, i \in S
        PROVE  i + 1 \in S
    <3>1. /\ i + 1 \in 1 .. n + 1 - m /\ i + 1 \in 0 .. n + 1 - m /\ (i + 1) - 1 = i
          /\ m - 1 + (i + 1) \in 1 .. n /\ m - 1 + (i + 1) - 1 = m - 1 + i
          /\ m + (i + 1) - 1 = m - 1 + (i + 1)
      BY <1>1, <1>4
    <3>2. g[i + 1] = g[i] * Base + c[i + 1] /\ c[i + 1] = b[m - 1 + (i + 1)]
      BY <1>6, <1>11, <3>1
    <3>3. h[m - 1 + (i + 1)] = h[m - 1 + i] * Base + b[m - 1 + (i + 1)]
      <4> DEFINE j == m - 1 + (i + 1)
      <4>1. j \in 1 .. n /\ j - 1 = m - 1 + i
        BY <1>1, <1>4
      <4> HIDE DEF j
      <4>2. h[j] = h[j - 1] * Base + b[j]
        BY <1>9, <4>1
      <4> QED BY <4>1, <4>2 DEF j
    <3> QED BY <2>2, <3>1, <3>2, <3>3
  <2> HIDE DEF S
  <2>3. \A i \in 0 .. n + 1 - m : i \in S
    BY <2>0, <2>1, <2>2, CountUp
  <2>4. n + 1 - m \in S /\ m - 1 + (n + 1 - m) = n
    BY <1>1, <1>4, <2>0, <2>3
  <2> QED BY <2>4 DEF S
<1> QED BY <1>6, <1>7, <1>8, <1>10, <1>13 DEF c

\* Keys of any length sort as the numbers they stand for, each read from its highest byte,
\* however many zeros they begin with (os_collate_binary).
THEOREM KeysSortAsNumbers ==
  ASSUME NEW s \in Seq(Byte), NEW t \in Seq(Byte)
  PROVE  /\ BigEndian(s) \in Nat /\ BigEndian(t) \in Nat
         /\ CollateBinary(s, t) = Sign(BigEndian(s) - BigEndian(t))
<1> DEFINE a == WithoutZeros(s)
           b == WithoutZeros(t)
<1>1. /\ a \in Seq(Byte) /\ (Len(a) # 0 => a[1] # 0) /\ BigEndian(a) = BigEndian(s)
      /\ b \in Seq(Byte) /\ (Len(b) # 0 => b[1] # 0) /\ BigEndian(b) = BigEndian(t)
  BY ZerosCountNothing
<1>2. CollateBinary(s, t) =
        IF Len(a) # Len(b) THEN Sign(Len(a) - Len(b)) ELSE FirstDifference(a, b)
  BY DEF CollateBinary
<1> HIDE DEF a, b
<1>3. ASSUME NEW u \in Seq(Byte)
      PROVE  BigEndian(u) \in Nat /\ Len(u) \in Nat /\ u \in Seq(Int)
  <2>1. u \in Seq(Nat) /\ u \in Seq(Int)
    BY BytesAreNumbers
  <2>2. PICK h \in [0 .. Len(u) -> Nat] : BigEndian(u) = h[Len(u)]
    BY <2>1, BigEndianRead
  <2>3. Len(u) \in Nat /\ Len(u) \in 0 .. Len(u)
    OBVIOUS
  <2> QED BY <2>1, <2>2, <2>3
<1>4. PICK x \in Nat, y \in Nat : x = BigEndian(a) /\ y = BigEndian(b)
  BY <1>1, <1>3
<1>5. PICK p \in Nat, q \in Nat : p = Len(a) /\ q = Len(b)
  BY <1>1, <1>3
<1>6. CASE p < q
  <2>1. x < y
    <3>1. b[1] # 0
      BY <1>1, <1>5, <1>6
    <3> QED BY <1>1, <1>4, <1>5, <1>6, <3>1, LongerIsGreater
  <2>2. Sign(p - q) = -1 /\ Sign(x - y) = -1
    BY <1>6, <2>1 DEF Sign
  <2> QED BY <1>1, <1>2, <1>3, <1>4, <1>5, <1>6, <2>2
<1>7. CASE q < p
  <2>1. y < x
    <3>1. a[1] # 0
      BY <1>1, <1>5, <1>7
    <3> QED BY <1>1, <1>4, <1>5, <1>7, <3>1, LongerIsGreater
  <2>2. Sign(p - q) = 1 /\ Sign(x - y) = 1
    BY <1>7, <2>1 DEF Sign
  <2> QED BY <1>1, <1>2, <1>3, <1>4, <1>5, <1>7, <2>2
<1>8. CASE p = q
  <2>1. a \in Seq(Int) /\ b \in Seq(Int)
    BY <1>1, <1>3
  <2> DEFINE d == FirstDifference(a, b)
  <2>2. /\ d \in -1 .. 1
        /\ d = -1 <=> Before(a, b)
        /\ d = 1 => Before(b, a)
        /\ d = 0 => a = b
    BY <2>1, DifferenceIsOrder, DifferenceOrders
  <2>3. d = Sign(x - y)
    <3> HIDE DEF d
    <3>1. CASE d = -1
      <4>1. x < y
        BY <1>1, <1>4, <1>5, <1>8, <2>2, <3>1, EarlierIsLess
      <4> QED BY <3>1, <4>1 DEF Sign
    <3>2. CASE d = 1
      <4>1. y < x
        BY <1>1, <1>4, <1>5, <1>8, <2>2, <3>2, EarlierIsLess
      <4> QED BY <3>2, <4>1 DEF Sign
    <3>3. CASE d = 0
      BY <1>4, <2>2, <3>3 DEF Sign
    <3> QED BY <2>2, <3>1, <3>2, <3>3
  <2> QED BY <1>1, <1>2, <1>3, <1>4, <1>5, <1>8, <2>3
<1> QED BY <1>1, <1>3, <1>6, <1>7, <1>8

-----------------------------------------------------------------------------
(* The calls of collate_key.                                               *)

Calls == InitOperands /\ [][Compare \/ Answered]_operands

\* What a call compares by a rule of names is two strings of numbers, and by the rule
\* "unicode" there is more of them behind either.
NamesAreStrings ==
  /\ operands.rule \in {"ansi", "unicode"} =>
       operands.key1 \in Seq(Int) /\ operands.key2 \in Seq(Int)
  /\ operands.rule = "unicode" =>
       operands.value1 \in Seq(Int) /\ operands.value2 \in Seq(Int)

LEMMA AnsiCompared ==
  ASSUME NamesAreStrings, operands.rule = "ansi"
  PROVE  NamesOrdered
<1>1. PICK s \in Seq(Int), t \in Seq(Int) : s = operands.key1 /\ t = operands.key2
  BY DEF NamesAreStrings
<1>2. /\ CollateAnsi(s, t) \in -1 .. 1
      /\ CollateAnsi(t, s) = -CollateAnsi(s, t)
      /\ CollateAnsi(s, t) = 0 <=> InCapitals(s) = InCapitals(t)
  BY NamesSorted
<1>3. Answer(operands) = CollateAnsi(s, t)
  BY <1>1 DEF Answer, CollateKey
<1>4. Answer(Turned(operands)) = CollateAnsi(t, s)
  BY <1>1 DEF Answer, CollateKey, Turned
<1> QED BY <1>1, <1>2, <1>3, <1>4 DEF CompareContainers, NamesOrdered

LEMMA UnicodeCompared ==
  ASSUME NamesAreStrings, operands.rule = "unicode"
  PROVE  NamesOrdered
<1>1. PICK s \in Seq(Int), t \in Seq(Int), x \in Seq(Int), y \in Seq(Int) :
        /\ s = operands.key1 /\ t = operands.key2
        /\ x = operands.value1 /\ y = operands.value2
  BY DEF NamesAreStrings
<1> DEFINE a == InCapitals(s)
           b == InCapitals(t)
           c == InCapitals(x)
           d == InCapitals(y)
<1>2. s \o x \in Seq(Int) /\ t \o y \in Seq(Int)
  OBVIOUS
<1>3. Answer(operands) = CollateUnicode(s \o x, t \o y)
  BY <1>1 DEF Answer, CollateKey
<1>4. Answer(Turned(operands)) = CollateUnicode(t \o y, s \o x)
  BY <1>1 DEF Answer, CollateKey, Turned
<1>5. /\ CollateUnicode(s \o x, t \o y) \in -1 .. 1
      /\ CollateUnicode(t \o y, s \o x) = -CollateUnicode(s \o x, t \o y)
  <2> DEFINE e == s \o x
             f == t \o y
  <2>1. e \in Seq(Int) /\ f \in Seq(Int)
    BY <1>2
  <2> HIDE DEF e, f
  <2>2. /\ CollateUnicode(e, f) = CollateAnsi(e, f) /\ CollateAnsi(e, f) \in -1 .. 1
        /\ CollateUnicode(f, e) = CollateAnsi(f, e) /\ CollateAnsi(f, e) = -CollateAnsi(e, f)
    BY <2>1, NamesSorted
  <2> QED BY <2>2 DEF e, f
<1>6. CollateUnicode(s \o x, t \o y) = FirstDifference(a \o c, b \o d)
  BY CapitalsInOrder DEF CollateUnicode
<1>7. a \in Seq(Int) /\ b \in Seq(Int) /\ c \in Seq(Int) /\ d \in Seq(Int)
  BY CapitalsAreString
<1> HIDE DEF a, b, c, d
<1>8. ASSUME NEW i \in DOMAIN a \cap DOMAIN b, a[i] # b[i]
      PROVE  Answer(operands) = FirstDifference(a, b)
  BY <1>3, <1>6, <1>7, <1>8, DifferenceStays
<1> QED BY <1>1, <1>3, <1>4, <1>5, <1>8 DEF NamesOrdered, a, b

LEMMA NamesCompared ==
  ASSUME NamesAreStrings
  PROVE  NamesOrdered
<1>1. CASE operands.rule \in {"ansi", "unicode"}
  BY <1>1, AnsiCompared, UnicodeCompared
<1>2. CASE operands.rule \notin {"ansi", "unicode"}
  BY <1>2 DEF NamesOrdered
<1> QED BY <1>1, <1>2

\* In every call of collate_key by the rule "ansi", names sort the same way from both sides
\* and are one exactly when they differ in the case of letters only, whatever the letters
\* are.  By the rule "unicode", of which it compares more than the names, what is behind
\* them decides only between names of which one begins the other, or is the other.
THEOREM NamesStayOrdered == Calls => []NamesOrdered
<1>1. InitOperands => NamesAreStrings
  BY DEF InitOperands, Nothing, NamesAreStrings
<1>2. ASSUME NamesAreStrings, [Compare \/ Answered]_operands
      PROVE  NamesAreStrings'
  <2>1. CASE UNCHANGED operands
    BY <1>2, <2>1 DEF NamesAreStrings
  <2>2. CASE Answered
    BY <2>2 DEF Answered, Nothing, NamesAreStrings
  <2>3. Names \subseteq Seq(Int)
    <3>2. ASSUME NEW k \in 1 .. 2, NEW f \in [1 .. k -> Letters]
          PROVE  f \in Seq(Int)
      <4>1. k \in Nat
        OBVIOUS
      <4>2. \A i \in 1 .. k : f[i] \in Int
        BY LettersAssumption
      <4>3. f \in [1 .. k -> Int]
        BY <4>2
      <4> QED BY <4>1, <4>3
    <3> QED BY <3>2 DEF Strings, Names
  <2>6. CASE operands' \in Compared({"ansi"}, Names, {<<>>})
    <3>1. operands'.rule = "ansi" /\ operands'.key1 \in Names /\ operands'.key2 \in Names
      BY <2>6 DEF Compared
    <3> QED BY <2>3, <3>1 DEF NamesAreStrings
  <2>7. CASE operands' \in {o \in Compared({"unicode"}, Names, Names) :
                              Len(o.value1) = Len(o.key1) /\ Len(o.value2) = Len(o.key2)}
    <3>1. /\ operands'.key1 \in Names /\ operands'.key2 \in Names
          /\ operands'.value1 \in Names /\ operands'.value2 \in Names
      BY <2>7 DEF Compared
    <3> QED BY <2>3, <3>1 DEF NamesAreStrings
  <2>4. CASE operands' \in Compared({"binary", "u64"}, Bytes, {<<>>})
    <3>1. operands'.rule \in {"binary", "u64"}
      BY <2>4 DEF Compared
    <3> QED BY <3>1 DEF NamesAreStrings
  <2>5. CASE operands' \in Compared({"extent"}, {U64ToBstr(n) : n \in Number},
                                    {U64ToBstr(n) : n \in Number \ {0}})
    <3>1. operands'.rule = "extent"
      BY <2>5 DEF Compared
    <3> QED BY <3>1 DEF NamesAreStrings
  <2> QED BY <1>2, <2>1, <2>2, <2>4, <2>5, <2>6, <2>7 DEF Compare
<1> QED BY <1>1, <1>2, NamesCompared, PTL DEF Calls

\* What a call compares by a rule of numbers is bytes, and by that of extents, numbers
\* written as bytes, of which no length is 0.
KeysAreBytes ==
  /\ operands.rule \in {"binary", "u64"} =>
       /\ operands.key1 \in Seq(Byte) /\ Len(operands.key1) \in 1 .. Width
       /\ operands.key2 \in Seq(Byte) /\ Len(operands.key2) \in 1 .. Width
  /\ operands.rule = "extent" =>
       /\ operands.key1 \in {U64ToBstr(n) : n \in Number}
       /\ operands.key2 \in {U64ToBstr(n) : n \in Number}
       /\ operands.value1 \in {U64ToBstr(n) : n \in Number \ {0}}
       /\ operands.value2 \in {U64ToBstr(n) : n \in Number \ {0}}

LEMMA BytesAreStrings ==
  ASSUME NEW b \in Bytes
  PROVE  b \in Seq(Byte) /\ Len(b) \in 1 .. Width
<1>1. PICK k \in 1 .. Width : b \in [1 .. k -> Byte]
  BY DEF Bytes, Strings
<1>2. k \in Nat
  BY BytesAssumption
<1>3. Len(b) = k /\ b \in Seq(Byte)
  BY <1>1, <1>2
<1> QED BY <1>1, <1>3

LEMMA KeysStayBytes ==
  ASSUME KeysAreBytes, [Compare \/ Answered]_operands
  PROVE  KeysAreBytes'
<1>1. CASE UNCHANGED operands
  BY <1>1 DEF KeysAreBytes
<1>2. CASE Answered
  BY <1>2 DEF Answered, Nothing, KeysAreBytes
<1>3. CASE \/ operands' \in Compared({"ansi"}, Names, {<<>>})
           \/ operands' \in {o \in Compared({"unicode"}, Names, Names) :
                                Len(o.value1) = Len(o.key1) /\ Len(o.value2) = Len(o.key2)}
  <2>1. operands'.rule \in {"ansi", "unicode"}
    BY <1>3 DEF Compared
  <2> QED BY <2>1 DEF KeysAreBytes
<1>4. CASE operands' \in Compared({"binary", "u64"}, Bytes, {<<>>})
  <2>1. operands'.rule \in {"binary", "u64"} /\ operands'.key1 \in Bytes /\ operands'.key2 \in Bytes
    BY <1>4 DEF Compared
  <2> QED BY <2>1, BytesAreStrings DEF KeysAreBytes
<1>5. CASE operands' \in Compared({"extent"}, {U64ToBstr(n) : n \in Number},
                                  {U64ToBstr(n) : n \in Number \ {0}})
  <2> DEFINE K == {U64ToBstr(n) : n \in Number}
             V == {U64ToBstr(n) : n \in Number \ {0}}
  <2> HIDE DEF K, V
  <2>1. operands' \in Compared({"extent"}, K, V)
    BY <1>5 DEF K, V
  <2>2. /\ operands'.rule = "extent" /\ operands'.key1 \in K /\ operands'.key2 \in K
        /\ operands'.value1 \in V /\ operands'.value2 \in V
    BY <2>1 DEF Compared
  <2> QED BY <2>2 DEF KeysAreBytes, K, V
<1> QED BY <1>1, <1>2, <1>3, <1>4, <1>5 DEF Compare

LEMMA NumbersCompared ==
  ASSUME KeysAreBytes
  PROVE  NumbersCompare
<1>1. ASSUME operands.rule = "binary"
      PROVE  Answer(operands) = Sign(BigEndian(operands.key1) - BigEndian(operands.key2))
  <2>1. operands.key1 \in Seq(Byte) /\ operands.key2 \in Seq(Byte)
    BY <1>1 DEF KeysAreBytes
  <2>2. Answer(operands) = CollateBinary(operands.key1, operands.key2)
    BY <1>1 DEF Answer, CollateKey
  <2> QED BY <2>1, <2>2, KeysSortAsNumbers
<1> DEFINE n == BstrToU64(operands.key1)
           k == BstrToU64(operands.key2)
<1>2. ASSUME operands.rule = "u64"
      PROVE  /\ Len(U64ToBstr(n)) \in 1 .. Len(operands.key1)
             /\ BstrToU64(U64ToBstr(n)) = n
             /\ k > 0 => PairExtent(ExtentPair(n, k)) = [addr |-> n, len |-> k]
             /\ Answer(operands) = CompareCaches(n, k)
             /\ Answer(operands) = CompareObjects(n, k)
  <2>1. /\ operands.key1 \in Seq(Byte) /\ Len(operands.key1) \in 1 .. Width
        /\ operands.key2 \in Seq(Byte) /\ Len(operands.key2) \in 1 .. Width
    BY <1>2 DEF KeysAreBytes
  <2>2. n \in Number /\ k \in Number /\ U64Size(n) <= Len(operands.key1)
    BY <2>1, WrittenAsShort
  <2>3. Answer(operands) = Sign(n - k)
    BY <1>2 DEF Answer, CollateKey, CollateU64
  <2> HIDE DEF n, k
  <2>4. n \in Int /\ k \in Int /\ Width \in Nat
    BY <2>2, BytesAssumption, PowersGrow DEF Number
  <2>5. Len(U64ToBstr(n)) = U64Size(n) /\ U64Size(n) \in 1 .. Width /\ BstrToU64(U64ToBstr(n)) = n
    <3>1. /\ U64Size(n) \in 1 .. Width /\ U64ToBstr(n) \in [1 .. U64Size(n) -> Byte]
          /\ BstrToU64(U64ToBstr(n)) = n
      BY <2>2, ReadAsWritten
    <3> QED BY <2>4, <3>1
  <2>6. Len(U64ToBstr(n)) \in 1 .. Len(operands.key1)
    BY <2>1, <2>2, <2>4, <2>5
  <2>7. k > 0 => PairExtent(ExtentPair(n, k)) = [addr |-> n, len |-> k]
    <3>1. k > 0 => k \in Number \ {0}
      BY <2>2, <2>4
    <3> QED BY <2>2, <3>1, PairReadBack
  <2>8. Sign(n - k) = CompareCaches(n, k) /\ Sign(n - k) = CompareObjects(n, k)
    BY <2>4 DEF Sign, CompareCaches, CompareObjects
  <2> QED BY <2>3, <2>5, <2>6, <2>7, <2>8
<1> HIDE DEF n, k
<1> QED BY <1>1, <1>2 DEF NumbersCompare, n, k

\* Two extents that end below 2^64 are the same to the search exactly when they have a block
\* in common, and else lie as their addresses do (os_collate_extent).
LEMMA ExtentsCompared ==
  ASSUME NEW k1, NEW v1, NEW k2, NEW v2, v1 # <<>>, v2 # <<>>,
         BstrToU64(k1) \in Nat, BstrToU64(v1) \in Nat \ {0},
         BstrToU64(k2) \in Nat, BstrToU64(v2) \in Nat \ {0},
         BstrToU64(k1) + BstrToU64(v1) < Base ^ Width,
         BstrToU64(k2) + BstrToU64(v2) < Base ^ Width
  PROVE  /\ CollateExtent(k1, v1, k2, v2) =
              IF BstrToU64(k1) < BstrToU64(k2) + BstrToU64(v2) /\ BstrToU64(k2) < BstrToU64(k1) + BstrToU64(v1)
              THEN 0 ELSE Sign(BstrToU64(k1) - BstrToU64(k2))
         /\ CollateExtent(k1, v1, k2, <<>>) = Sign(BstrToU64(k1) - BstrToU64(k2))
<1> DEFINE a == BstrToU64(k1)
           n == BstrToU64(v1)
           b == BstrToU64(k2)
           k == BstrToU64(v2)
<1>0. a \in Nat /\ n \in Nat \ {0} /\ b \in Nat /\ k \in Nat \ {0} /\ a + n < Base ^ Width /\ b + k < Base ^ Width
  OBVIOUS
<1> HIDE DEF a, n, b, k
<1>1. PICK m \in Nat \ {0} : m = Base ^ Width
  <2>1. Width \in 0 .. Width
    BY BytesAssumption
  <2> QED BY <2>1, PowersGrow
<1>2. (a + n) % m = a + n /\ (b + k) % m = b + k
  <2>1. PICK x \in Nat, y \in Nat : x = a + n /\ y = b + k /\ x < m /\ y < m
    BY <1>0, <1>1
  <2>2. x % m = x /\ y % m = y
    BY ONLY <2>1, m \in Nat \ {0}, x \in Nat, y \in Nat
  <2> QED BY <2>1, <2>2
<1>3. Wrap(a + n) = a + n /\ Wrap(b + k) = b + k
  BY <1>1, <1>2 DEF Wrap
<1>4. CollateExtent(k1, v1, k2, v2) = IF a >= b + k THEN 1 ELSE IF a + n <= b THEN -1 ELSE 0
  BY <1>3 DEF CollateExtent, a, n, b, k
<1>5. a >= b + k => Sign(a - b) = 1 /\ ~(a < b + k)
  BY <1>0 DEF Sign
<1>6. a + n <= b => Sign(a - b) = -1 /\ ~(b < a + n)
  BY <1>0 DEF Sign
<1>7. CollateExtent(k1, v1, k2, <<>>) = Sign(a - b)
  BY <1>0 DEF CollateExtent, CollateU64, Sign, a, b
<1>8. a < b + k /\ b < a + n => ~(a >= b + k) /\ ~(a + n <= b)
  BY <1>0
<1>9. ~(a < b + k) => a >= b + k
  BY <1>0
<1>10. ~(b < a + n) => a + n <= b
  BY <1>0
<1>11. CollateExtent(k1, v1, k2, v2) = IF a < b + k /\ b < a + n THEN 0 ELSE Sign(a - b)
  BY <1>4, <1>5, <1>6, <1>8, <1>9, <1>10
<1> QED BY <1>7, <1>11 DEF a, n, b, k

LEMMA ExtentsAnswered ==
  ASSUME KeysAreBytes
  PROVE  ExtentsOrdered
<1> SUFFICES ASSUME operands.rule = "extent"
             PROVE  ExtentsOrdered
  BY DEF ExtentsOrdered
<1> DEFINE k1 == operands.key1
           v1 == operands.value1
           k2 == operands.key2
           v2 == operands.value2
           a == BstrToU64(k1)
           n == BstrToU64(v1)
           b == BstrToU64(k2)
           k == BstrToU64(v2)
<1>1. ASSUME NEW x \in Number
      PROVE  U64ToBstr(x) # <<>> /\ BstrToU64(U64ToBstr(x)) \in Nat /\ BstrToU64(U64ToBstr(x)) = x
  <2>1. x \in Nat /\ Width \in Nat
    BY BytesAssumption, PowersGrow DEF Number
  <2>2. U64Size(x) \in Nat \ {0} /\ U64ToBstr(x) \in [1 .. U64Size(x) -> Byte] /\ BstrToU64(U64ToBstr(x)) = x
    BY <2>1, ReadAsWritten
  <2>3. Len(U64ToBstr(x)) # 0
    BY <2>2
  <2> QED BY <2>1, <2>2, <2>3
<1>2. a \in Nat /\ b \in Nat
  BY <1>1 DEF KeysAreBytes
<1>3. n \in Nat \ {0} /\ k \in Nat \ {0} /\ v1 # <<>> /\ v2 # <<>>
  BY <1>1 DEF KeysAreBytes
<1>4. Answer(operands) = CollateExtent(k1, v1, k2, v2)
  BY DEF Answer, CollateKey
<1>5. Answer([operands EXCEPT !.value2 = <<>>]) = CollateExtent(k1, v1, k2, <<>>)
  BY DEF Answer, CollateKey
<1>6. a + n < Base ^ Width /\ b + k < Base ^ Width =>
        /\ CollateExtent(k1, v1, k2, v2) = IF a < b + k /\ b < a + n THEN 0 ELSE Sign(a - b)
        /\ CollateExtent(k1, v1, k2, <<>>) = Sign(a - b)
  <2> HIDE DEF k1, k2, v1, v2
  <2> SUFFICES ASSUME a + n < Base ^ Width, b + k < Base ^ Width
               PROVE  /\ CollateExtent(k1, v1, k2, v2) = IF a < b + k /\ b < a + n THEN 0 ELSE Sign(a - b)
                      /\ CollateExtent(k1, v1, k2, <<>>) = Sign(a - b)
    OBVIOUS
  <2>1. a = BstrToU64(k1) /\ n = BstrToU64(v1) /\ b = BstrToU64(k2) /\ k = BstrToU64(v2)
    OBVIOUS
  <2> HIDE DEF a, b, n, k
  <2> QED BY <2>1, <1>2, <1>3, ExtentsCompared
<1> HIDE DEF a, b, n, k
<1> QED BY <1>4, <1>5, <1>6 DEF ExtentsOrdered, a, b, n, k

\* In every call of collate_key, keys of numbers compare as the numbers, and a number or an
\* extent survives being written as a key, whatever the base and the width of a number are.
THEOREM NumbersStayCompared == Calls => []NumbersCompare
<1>1. InitOperands => KeysAreBytes
  BY DEF InitOperands, Nothing, KeysAreBytes
<1> QED BY <1>1, KeysStayBytes, NumbersCompared, PTL DEF Calls

\* In every call of collate_key, extents compare equal exactly when they overlap, and else as
\* their addresses.
THEOREM ExtentsStayOrdered == Calls => []ExtentsOrdered
<1>1. InitOperands => KeysAreBytes
  BY DEF InitOperands, Nothing, KeysAreBytes
<1> QED BY <1>1, KeysStayBytes, ExtentsAnswered, PTL DEF Calls
=============================================================================
