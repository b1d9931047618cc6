----------------------------- MODULE Collation -----------------------------
(***************************************************************************)
(* The orders of keys (src/object_system/ofs_collate.c): how the index     *)
(* compares an entry with a key under each collation rule, how numbers     *)
(* become keys and values, and the comparisons the AVL trees are sorted    *)
(* by.  A byte is a digit below Base and a 64-bit number has Width of      *)
(* them, so that every operand can be tried.                               *)
(***************************************************************************)
EXTENDS Integers, Sequences, FiniteSetsExt, SequencesExt

CONSTANTS
  Base, Width,  \* 256 and 8
  Letters       \* the characters of names, a set of codes

ASSUME BytesAssumption == Base \in Nat \ {0, 1} /\ Width \in Nat \ {0}
ASSUME LettersAssumption == Letters \subseteq Int
\* What a power is: arithmetic, but the provers do not know it.
ASSUME PowersAssumption ==
  Base ^ 0 = 1 /\ \A k \in 0 .. Width - 1 : Base ^ (k + 1) = Base * Base ^ k

Byte == 0 .. Base - 1
Number == 0 .. Base ^ Width - 1

\* What arithmetic on 64 bits makes of a number.
Wrap(n) == n % Base ^ Width

Sign(n) == IF n > 0 THEN 1 ELSE IF n < 0 THEN -1 ELSE 0

\* The sign of the first difference, else of the difference in length.
FirstDifference(s1, s2) ==
  LET differ == {i \in 1 .. Min({Len(s1), Len(s2)}) : s1[i] # s2[i]}
  IN  IF differ = {} THEN Sign(Len(s1) - Len(s2))
      ELSE Sign(s1[Min(differ)] - s2[Min(differ)])

\* os_collate_binary drops the zeros a key begins with.
WithoutZeros(b) == SubSeq(b, Min({i \in DOMAIN b : b[i] # 0} \cup {Len(b) + 1}), Len(b))

CollateBinary_Unstripped(b1, b2) ==
  IF Len(b1) # Len(b2) THEN Sign(Len(b1) - Len(b2)) ELSE FirstDifference(b1, b2)
CollateBinary(b1, b2) ==
  LET s1 == WithoutZeros(b1)
      s2 == WithoutZeros(b2)
  IN  IF Len(s1) # Len(s2) THEN Sign(Len(s1) - Len(s2)) ELSE FirstDifference(s1, s2)

\* toupper and towupper; a char with its high bit set is negative.
Upper(c) == IF c \in 97 .. 122 THEN c - 32 ELSE c

InCapitals(s) == [i \in DOMAIN s |-> Upper(s[i])]

\* The strings differ in type only: both functions have the same text.
CollateAnsi_OneSide(s1, s2) == FirstDifference(InCapitals(s1), s2)
CollateAnsi(s1, s2) == FirstDifference(InCapitals(s1), InCapitals(s2))
CollateUnicode(s1, s2) == FirstDifference(InCapitals(s1), InCapitals(s2))

\* Little endian.
BstrToU64(b) == FoldRight(LAMBDA d, n : d + Base * n, b, 0)

Digit(n, i) == (n \div Base ^ (i - 1)) % Base

U64Size(n) == Max({i \in 2 .. Width : Digit(n, i) # 0} \cup {1})

U64ToBstr(n) == [i \in 1 .. U64Size(n) |-> Digit(n, i)]

CollateU64(b1, b2) == Sign(BstrToU64(b1) - BstrToU64(b2))

\* An extent in one string: the size of its address, the address, the length.
ExtentPair(addr, len) ==
  IF len = 0 THEN <<>>
  ELSE <<U64Size(addr)>> \o U64ToBstr(addr) \o U64ToBstr(len)

\* The length 0 says that the pair is not valid.
PairExtent(pair) ==
  IF Len(pair) <= pair[1] + 1 THEN [addr |-> 0, len |-> 0]
  ELSE [addr |-> BstrToU64(SubSeq(pair, 2, pair[1] + 1)),
        len |-> BstrToU64(SubSeq(pair, pair[1] + 2, Len(pair)))]

\* An extent against an extent; without one of the lengths, address against address.
CollateExtent_Inclusive(k1, v1, k2, v2) ==
  LET a1 == BstrToU64(k1)
      a2 == BstrToU64(k2)
  IN  IF v1 = <<>> \/ v2 = <<>> THEN CollateU64(k1, k2)
      ELSE IF a1 > Wrap(a2 + BstrToU64(v2)) THEN 1
      ELSE IF Wrap(a1 + BstrToU64(v1)) < a2 THEN -1
      ELSE 0
CollateExtent(k1, v1, k2, v2) ==
  LET a1 == BstrToU64(k1)
      a2 == BstrToU64(k2)
  IN  IF v1 = <<>> \/ v2 = <<>> THEN CollateU64(k1, k2)
      ELSE IF a1 >= Wrap(a2 + BstrToU64(v2)) THEN 1
      ELSE IF Wrap(a1 + BstrToU64(v1)) <= a2 THEN -1
      ELSE 0

\* collate_key: an entry of the index with a key, by the rule of the object.  The rule
\* "unicode" is told bytes where it counts characters, of two bytes each: it compares as
\* many characters again, those in memory behind either key, which its values stand for.
CollateKey(rule, entry, key, value) ==
  CASE rule = "binary"  -> CollateBinary(entry.key, key)
    [] rule = "ansi"    -> CollateAnsi(entry.key, key)
    [] rule = "unicode" -> CollateUnicode(entry.key \o entry.value, key \o value)
    [] rule = "u64"     -> CollateU64(entry.key, key)
    [] rule = "extent"  -> CollateExtent(entry.key, entry.value, key, value)
    [] OTHER            -> "INDEX_ERR_COLLATE"

\* The orders of the AVL trees: containers by name, objects and cached blocks by number.
CompareContainers(name1, name2) == CollateAnsi(name1, name2)
CompareObjects(id1, id2) == IF id1 > id2 THEN 1 ELSE IF id1 = id2 THEN 0 ELSE -1
CompareCaches(vbn1, vbn2) == IF vbn1 > vbn2 THEN 1 ELSE IF vbn1 < vbn2 THEN -1 ELSE 0

-----------------------------------------------------------------------------

VARIABLE operands   \* what a call compares: its rule, an entry of the index, and a key

Nothing == [rule |-> "none"]

Strings(S, n) == UNION {[1 .. k -> S] : k \in 1 .. n}

Bytes == Strings(Byte, Width)

Names == Strings(Letters, 2)

Compared(rules, K, V) == [rule : rules, key1 : K, value1 : V, key2 : K, value2 : V]

\* A call of collate_key, which keeps nothing.
Compare ==
  /\ operands = Nothing
  /\ \/ operands' \in Compared({"ansi"}, Names, {<<>>})
     \/ operands' \in {o \in Compared({"unicode"}, Names, Names) :
                         Len(o.value1) = Len(o.key1) /\ Len(o.value2) = Len(o.key2)}
     \/ operands' \in Compared({"binary", "u64"}, Bytes, {<<>>})
     \/ operands' \in Compared({"extent"}, {U64ToBstr(n) : n \in Number},
                               {U64ToBstr(n) : n \in Number \ {0}})

Answered ==
  /\ operands # Nothing
  /\ operands' = Nothing

InitOperands == operands = Nothing

\* The answer of a call, and that of the call the other way round.
Answer(o) == CollateKey(o.rule, [key |-> o.key1, value |-> o.value1], o.key2, o.value2)
Turned(o) == [rule |-> o.rule, key1 |-> o.key2, value1 |-> o.value2,
              key2 |-> o.key1, value2 |-> o.value1]

BigEndian(b) == FoldLeft(LAMBDA n, d : n * Base + d, 0, b)

\* Names sort the same way from both sides, with an answer avl_find can take, and two
\* names are one exactly when they differ in the case of letters only: that is how a
\* container is found by its name (os_collate_ansi_string).  By the rule "unicode" a name
\* is only told from one that differs from it at a place both have: equal names, and one
\* that the other begins with, are at the mercy of what is behind them (collate_key).
NamesOrdered ==
  operands.rule \in {"ansi", "unicode"} =>
    LET a == InCapitals(operands.key1)
        b == InCapitals(operands.key2)
    IN  /\ Answer(operands) \in -1 .. 1
        /\ Answer(Turned(operands)) = -Answer(operands)
        /\ operands.rule = "ansi" =>
             (CompareContainers(operands.key1, operands.key2) = 0 <=> a = b)
        /\ operands.rule = "unicode" /\ (\E i \in DOMAIN a \cap DOMAIN b : a[i] # b[i]) =>
             Answer(operands) = FirstDifference(a, b)

\* Keys of numbers compare as the numbers, however many zeros a binary key begins with
\* and whatever the sizes of others, which are the orders of the AVL trees too.  And a
\* number survives being written as a key, in as few bytes as it needs but at least one:
\* an entry with a key of no bytes ends its node (os_collate_binary, os_u64_to_bstr,
\* os_bstr_to_u64, os_extent_to_extent_pair, os_extent_pair_to_extent).
NumbersCompare ==
  /\ operands.rule = "binary" =>
       Answer(operands) = Sign(BigEndian(operands.key1) - BigEndian(operands.key2))
  /\ operands.rule = "u64" =>
       LET n == BstrToU64(operands.key1)
           k == BstrToU64(operands.key2)
       IN  /\ Len(U64ToBstr(n)) \in 1 .. Len(operands.key1)
           /\ BstrToU64(U64ToBstr(n)) = n
           /\ k > 0 => PairExtent(ExtentPair(n, k)) = [addr |-> n, len |-> k]
           /\ Answer(operands) = CompareCaches(n, k)
           /\ Answer(operands) = CompareObjects(n, k)

\* Extents that end below 2^64 compare equal exactly when they have a block in common,
\* and else as their addresses (os_collate_extent): extents of an index that have no
\* block in common are in one order, that of the search by address alone.
ExtentsOrdered ==
  operands.rule = "extent" =>
    LET a == BstrToU64(operands.key1)
        b == BstrToU64(operands.key2)
        n == BstrToU64(operands.value1)
        k == BstrToU64(operands.value2)
    IN  a + n < Base ^ Width /\ b + k < Base ^ Width =>
          /\ Answer(operands) = IF a < b + k /\ b < a + n THEN 0 ELSE Sign(a - b)
          /\ Answer([operands EXCEPT !.value2 = <<>>]) = Sign(a - b)
=============================================================================
