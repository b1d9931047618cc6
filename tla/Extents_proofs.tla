--------------------------- MODULE Extents_proofs ---------------------------
(***************************************************************************)
(* What the operators of Extents do to an index: what carving a run out of *)
(* an extent leaves, when a run overlaps an extent, that a search finds an *)
(* extent as long as there is one.                                         *)
(***************************************************************************)
EXTENDS Extents, WellFoundedInduction, TLAPS

\* An index of the kind the space manager keeps.
Index == {E \in SUBSET Extent : Disjoint(E) /\ \A e \in E : e.len > 0}

(***************************************************************************)
(* The run alloc_space gives lies inside the extent it was taken from, is  *)
(* not empty and no longer than the request.                               *)
(***************************************************************************)
LEMMA GivenRun ==
  ASSUME NEW e \in Extent, e.len > 0, NEW a \in Nat, NEW n \in Nat \ {0}
  PROVE  /\ GivenStart(e, a, n) \in Nat
         /\ GivenCount(e, a, n) \in 1 .. n
         /\ e.addr <= GivenStart(e, a, n)
         /\ GivenStart(e, a, n) + GivenCount(e, a, n) <= e.addr + e.len
         /\ Run(GivenStart(e, a, n), GivenCount(e, a, n)) \subseteq Blocks(e)
  BY DEF Extent, GivenStart, GivenCount, Overlap, Larger, Smaller, Run, Blocks

(***************************************************************************)
(* The pieces put back are extents, they do not meet, and with the run     *)
(* that was given they are exactly the blocks of the extent.               *)
(***************************************************************************)
LEMMA Carving ==
  ASSUME NEW e \in Extent, e.len > 0, NEW a \in Nat, NEW n \in Nat \ {0},
         NEW P, P = HeadPiece(e, a, n) \cup TailPiece(e, a, n)
  PROVE  /\ P \in Index
         /\ Covered(P) = Blocks(e) \ Run(GivenStart(e, a, n), GivenCount(e, a, n))
<1> DEFINE st == GivenStart(e, a, n)
           ct == GivenCount(e, a, n)
           end == e.addr + e.len
           hp == [addr |-> e.addr, len |-> st - e.addr]
           tp == [addr |-> st + n, len |-> e.addr + e.len - (st + n)]
<1>1. st \in Nat /\ ct \in 1 .. n /\ e.addr <= st /\ st + ct <= end /\ e.addr \in Nat /\ e.len \in Nat
  <2>1. e.addr \in Nat /\ e.len \in Nat
    BY DEF Extent
  <2>2. /\ st \in Nat /\ ct \in 1 .. n /\ e.addr <= st
        /\ st + ct <= end
    BY GivenRun
  <2> QED BY <2>1, <2>2
<1>2. ct = IF st + n < end THEN n ELSE end - st
  BY <1>1 DEF GivenCount
<1>3. HeadPiece(e, a, n) = IF st > e.addr THEN {hp} ELSE {}
  BY Zenon DEF HeadPiece
<1>4. TailPiece(e, a, n) = IF st + n < end THEN {tp} ELSE {}
  BY Zenon DEF TailPiece
<1> HIDE DEF st, ct
<1>5. st > e.addr => hp \in Extent /\ hp.len > 0 /\ Blocks(hp) = e.addr .. (st - 1)
  BY <1>1 DEF Extent, Blocks, Run
<1>6. st + n < end => tp \in Extent /\ tp.len > 0 /\ Blocks(tp) = (st + n) .. (end - 1)
  BY <1>1 DEF Extent, Blocks, Run
<1>7. P \in SUBSET Extent /\ \A p \in P : p.len > 0
  BY <1>3, <1>4, <1>5, <1>6
<1>8. Disjoint(P)
  <2>1. SUFFICES ASSUME NEW p \in P, NEW q \in P, p # q
                 PROVE  Blocks(p) \cap Blocks(q) = {}
    BY DEF Disjoint
  <2>2. st > e.addr /\ st + n < end /\ {p, q} = {hp, tp}
    BY <2>1, <1>3, <1>4
  <2>3. Blocks(hp) \cap Blocks(tp) = {}
    BY <2>2, <1>1, <1>5, <1>6
  <2> QED BY <2>2, <2>3
<1>9. Covered(P) = (e.addr .. (st - 1)) \cup ((st + ct) .. (end - 1))
  <2>1. Covered(P) = (IF st > e.addr THEN Blocks(hp) ELSE {})
                       \cup (IF st + n < end THEN Blocks(tp) ELSE {})
    BY <1>3, <1>4 DEF Covered
  <2>2. (IF st > e.addr THEN Blocks(hp) ELSE {}) = e.addr .. (st - 1)
    BY <1>1, <1>5
  <2>3. (IF st + n < end THEN Blocks(tp) ELSE {}) = (st + ct) .. (end - 1)
    BY <1>1, <1>2, <1>6
  <2> QED BY <2>1, <2>2, <2>3
<1>10. Blocks(e) \ Run(st, ct) = (e.addr .. (st - 1)) \cup ((st + ct) .. (end - 1))
  BY <1>1 DEF Blocks, Run
<1> QED BY <1>7, <1>8, <1>9, <1>10 DEF Index, st, ct

(***************************************************************************)
(* The order of the index calls a run equal to an extent exactly when they *)
(* share a block.                                                          *)
(***************************************************************************)
LEMMA OverlapIsSharing ==
  ASSUME NEW e \in Extent, e.len > 0, NEW a \in Nat, NEW n \in Nat \ {0}
  PROVE  Overlap(e, a, n) <=> Blocks(e) \cap Run(a, n) # {}
<1> DEFINE m == IF e.addr >= a THEN e.addr ELSE a
<1>1. e.addr \in Nat /\ e.len \in Nat
  BY DEF Extent
<1>2. Overlap(e, a, n) => m \in Blocks(e) \cap Run(a, n)
  BY <1>1 DEF Overlap, Larger, Smaller, Blocks, Run
<1>3. ASSUME NEW b \in Blocks(e) \cap Run(a, n)
      PROVE  Overlap(e, a, n)
  BY <1>1, <1>3 DEF Overlap, Larger, Smaller, Blocks, Run
<1> QED BY <1>2, <1>3

(***************************************************************************)
(* The search of the index finds nothing exactly when no block of the run  *)
(* is in the index.                                                        *)
(***************************************************************************)
LEMMA NoHits ==
  ASSUME NEW E \in Index, NEW a \in Nat, NEW n \in Nat \ {0}
  PROVE  Hits(E, a, n) = {} <=> Covered(E) \cap Run(a, n) = {}
<1>1. \A e \in E : Overlap(e, a, n) <=> Blocks(e) \cap Run(a, n) # {}
  BY OverlapIsSharing DEF Index
<1>2. Hits(E, a, n) = {} <=> \A e \in E : ~Overlap(e, a, n)
  BY DEF Hits
<1>3. Covered(E) \cap Run(a, n) = {} <=> \A e \in E : Blocks(e) \cap Run(a, n) = {}
  BY DEF Covered
<1> QED BY <1>1, <1>2, <1>3

(***************************************************************************)
(* Taking a run out of an extent of the index, as alloc_space does, leaves *)
(* an index without the blocks of the run and with all the others.         *)
(***************************************************************************)
LEMMA CarvedIndex ==
  ASSUME NEW E \in Index, NEW e \in E, NEW a \in Nat, NEW n \in Nat \ {0},
         NEW F, F = (E \ {e}) \cup HeadPiece(e, a, n) \cup TailPiece(e, a, n),
         NEW R, R = Run(GivenStart(e, a, n), GivenCount(e, a, n))
  PROVE  /\ F \in Index
         /\ R \subseteq Covered(E)
         /\ Covered(F) = Covered(E) \ R
<1> DEFINE P == HeadPiece(e, a, n) \cup TailPiece(e, a, n)
<1>1. e \in Extent /\ e.len > 0
  BY DEF Index
<1>2. P \in Index /\ Covered(P) = Blocks(e) \ R
  BY <1>1, Carving
<1>3. R \subseteq Blocks(e)
  BY <1>1, GivenRun
<1>4. F = (E \ {e}) \cup P
  OBVIOUS
<1> HIDE DEF P
<1>5. \A f \in E \ {e} : Blocks(f) \cap Blocks(e) = {}
  BY DEF Index, Disjoint
<1>6. \A p \in P : Blocks(p) \subseteq Blocks(e)
  BY <1>2 DEF Covered
<1>7. Disjoint(F)
  BY <1>2, <1>4, <1>5, <1>6, Zenon DEF Index, Disjoint
<1>8. F \in Index
  BY <1>2, <1>4, <1>7 DEF Index
<1>9. Covered(F) = Covered(E \ {e}) \cup Covered(P)
  BY <1>4 DEF Covered
<1>10. Covered(E) = Covered(E \ {e}) \cup Blocks(e)
  BY DEF Covered
<1>11. Covered(E \ {e}) \cap Blocks(e) = {}
  BY <1>5 DEF Covered
<1> QED BY <1>2, <1>3, <1>8, <1>9, <1>10, <1>11

(***************************************************************************)
(* Putting back a run none of whose blocks is free adds just its blocks.   *)
(***************************************************************************)
LEMMA GrownIndex ==
  ASSUME NEW E \in Index, NEW a \in Nat, NEW n \in Nat \ {0},
         Covered(E) \cap Run(a, n) = {},
         NEW F, F = E \cup {[addr |-> a, len |-> n]}
  PROVE  F \in Index /\ Covered(F) = Covered(E) \cup Run(a, n)
<1> DEFINE g == [addr |-> a, len |-> n]
<1>1. g \in Extent /\ g.len > 0 /\ Blocks(g) = Run(a, n)
  BY DEF Extent, Blocks
<1>2. F = E \cup {g}
  OBVIOUS
<1> HIDE DEF g
<1>3. Covered(F) = Covered(E) \cup Run(a, n)
  BY <1>1, <1>2 DEF Covered
<1>4. \A f \in E : Blocks(f) \cap Blocks(g) = {}
  BY <1>1 DEF Covered
<1>5. Disjoint(F)
  BY <1>2, <1>4, Zenon DEF Index, Disjoint
<1> QED BY <1>1, <1>2, <1>3, <1>5 DEF Index

(***************************************************************************)
(* A set of natural numbers that is not empty has a least one.             *)
(***************************************************************************)
LEMMA LeastNatural ==
  ASSUME NEW S \in SUBSET Nat, S # {}
  PROVE  \E m \in S : \A k \in S : m <= k
<1> DEFINE R == OpToRel(<, Nat)
<1>1. PICK m \in S : \A k \in S : ~(<<k, m>> \in R)
  BY NatLessThanWellFounded, WFMin
<1>2. \A k \in S : k < m => <<k, m>> \in R
  BY DEF OpToRel
<1> HIDE DEF R
<1>3. \A k \in S : ~(k < m)
  BY <1>1, <1>2, Zenon
<1>4. m \in Nat /\ \A k \in S : k \in Nat
  OBVIOUS
<1> QED BY <1>3, <1>4

(***************************************************************************)
(* An index that is not empty has a first extent, so a search that goes on *)
(* to the next extent and at last to the first finds one.                  *)
(***************************************************************************)
LEMMA FirstExists ==
  ASSUME NEW E \in Index, E # {}
  PROVE  FirstOf(E) # {}
<1> DEFINE A == {e.addr : e \in E}
<1>1. A \in SUBSET Nat /\ A # {}
  BY DEF Index, Extent
<1>2. PICK m \in A : \A k \in A : m <= k
  BY <1>1, LeastNatural
<1>3. PICK e \in E : e.addr = m
  BY <1>2
<1>4. ASSUME NEW f \in E
      PROVE  Comes(e, f)
  <2>1. e.addr <= f.addr /\ e.addr \in Nat /\ f.addr \in Nat /\ e.len \in Nat /\ f.len \in Nat
    BY <1>2, <1>3 DEF Index, Extent
  <2>2. e.len > 0 /\ f.len > 0
    BY DEF Index
  <2>3. ASSUME e.addr = f.addr
        PROVE  e = f
    <3>1. e.addr \in Blocks(e) /\ e.addr \in Blocks(f)
      BY <2>1, <2>2, <2>3 DEF Blocks, Run
    <3> QED BY <3>1 DEF Index, Disjoint
  <2> QED BY <2>1, <2>3 DEF Comes
<1> QED BY <1>4 DEF FirstOf

(***************************************************************************)
(* The search with its two fallbacks finds an extent of the index, if      *)
(* there is one.                                                           *)
(***************************************************************************)
LEMMA SearchFinds ==
  ASSUME NEW E \in Index, NEW a \in Nat, NEW n \in Nat \ {0}
  PROVE  /\ Picks(E, a, n) \subseteq E
         /\ E # {} => Picks(E, a, n) # {}
<1> DEFINE next == {e \in E : Larger(e, a, n)}
<1>1. next \in Index
  BY DEF Index, Disjoint
<1>2. next # {} => FirstOf(next) # {}
  BY <1>1, FirstExists
<1>3. E # {} => FirstOf(E) # {}
  BY FirstExists
<1> QED BY <1>2, <1>3, Zenon DEF Picks, Hits, FirstOf
=============================================================================
