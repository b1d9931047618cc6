-------------------------- MODULE SpacePool_proofs --------------------------
(***************************************************************************)
(* Proofs about SpacePool for devices and requests of every size, from the *)
(* lemmas about the index in Extents_proofs.                               *)
(***************************************************************************)
EXTENDS SpacePool, Extents_proofs, FiniteSetTheorems

\* How many blocks a run has.
LEMMA RunCardinality ==
  ASSUME NEW a \in Nat, NEW n \in Nat \ {0}
  PROVE  IsFiniteSet(Run(a, n)) /\ Cardinality(Run(a, n)) = n
<1>1. a + (n - 1) \in Int /\ ~(a > a + (n - 1)) /\ (a + (n - 1)) - a + 1 = n
  OBVIOUS
<1> QED BY <1>1, FS_Interval DEF Run

\* How many are left without some of them.
LEMMA CardinalityWithout ==
  ASSUME NEW S, IsFiniteSet(S), NEW R, R \subseteq S
  PROVE  /\ Cardinality(S \ R) = Cardinality(S) - Cardinality(R)
         /\ Cardinality(R) <= Cardinality(S)
         /\ Cardinality(S) \in Nat /\ Cardinality(R) \in Nat
<1>1. S \cap R = R /\ R \in SUBSET S
  OBVIOUS
<1>2. IsFiniteSet(R) /\ Cardinality(R) <= Cardinality(S)
  BY <1>1, FS_Subset
<1> QED BY <1>1, <1>2, FS_Difference, FS_CardinalityType

\* And with others.
LEMMA CardinalityWith ==
  ASSUME NEW S, IsFiniteSet(S), NEW R, IsFiniteSet(R), S \cap R = {}
  PROVE  Cardinality(S \cup R) = Cardinality(S) + Cardinality(R)
<1>1. Cardinality(S) \in Nat /\ Cardinality(R) \in Nat /\ Cardinality(S \cap R) = 0
  BY FS_CardinalityType, FS_EmptySet
<1>2. Cardinality(S \cup R) = Cardinality(S) + Cardinality(R) - Cardinality(S \cap R)
  BY FS_Union
<1> QED BY <1>1, <1>2

(***************************************************************************)
(* The inductive invariant.  No part is inductive alone: that the counter  *)
(* does not fall below the run that is given needs the exact count, the    *)
(* count needs that extents are disjoint, and that a release is disjoint   *)
(* from the index needs that a block is never both free and held.          *)
(***************************************************************************)
PoolInv ==
  /\ TypeOK
  /\ IndexWellFormed
  /\ Conservation
  /\ Accounting
  /\ HonestRefusals

\* What the parts of the invariant say of the index.
LEMMA PoolIndex ==
  ASSUME TypeOK, IndexWellFormed, Conservation
  PROVE  /\ ext \in Index
         /\ IsFiniteSet(Covered(ext))
         /\ Covered(ext) = {} => ext = {}
<1>1. ext \in Index
  BY DEF TypeOK, IndexWellFormed, Index
<1>2. IsFiniteSet(Device)
  <2>1. FirstBlk \in Int /\ EndBlk - 1 \in Int
    BY PoolAssumption
  <2> QED BY <2>1, FS_Interval DEF Device
<1>3. IsFiniteSet(Covered(ext))
  <2>1. Covered(ext) \in SUBSET Device
    BY DEF Conservation
  <2> QED BY <2>1, <1>2, FS_Subset
<1>4. ASSUME NEW e \in ext
      PROVE  Covered(ext) # {}
  <2>1. e.addr \in Blocks(e)
    BY <1>1 DEF Index, Extent, Blocks, Run
  <2> QED BY <2>1 DEF Covered
<1> QED BY <1>1, <1>3, <1>4

\* The device starts with all its blocks in one extent.
LEMMA InitPoolInv == Init => PoolInv
<1> SUFFICES ASSUME Init PROVE PoolInv
  OBVIOUS
<1> DEFINE e == [addr |-> FirstBlk, len |-> EndBlk - FirstBlk]
<1>1. FirstBlk \in Nat /\ EndBlk - FirstBlk \in Nat \ {0} /\ EndBlk \in Nat
  BY PoolAssumption
<1>2. ext = {e} /\ e \in Extent /\ e.len > 0
  BY <1>1 DEF Init, Extent
<1>3. Blocks(e) = Device /\ Blocks(e) = Run(FirstBlk, EndBlk - FirstBlk)
  BY <1>1 DEF Blocks, Run, Device
<1>4. Covered(ext) = Device
  BY <1>2, <1>3 DEF Covered
<1>5. Cardinality(Device) = EndBlk - FirstBlk
  BY <1>1, <1>3, RunCardinality
<1>6. TypeOK
  BY <1>1, <1>2 DEF Init, TypeOK
<1>7. IndexWellFormed
  BY <1>2 DEF IndexWellFormed, Disjoint
<1> QED BY <1>4, <1>5, <1>6, <1>7 DEF Init, PoolInv, Conservation, Accounting, HonestRefusals

\* An allocation keeps the invariant and moves a run from the index to a client.
LEMMA AllocPoolInv ==
  ASSUME PoolInv, NEW cnt \in 1 .. MaxCnt, Alloc(cnt)
  PROVE  /\ PoolInv'
         /\ \E s \in Device, n \in 1 .. MaxCnt :
              /\ Run(s, n) \subseteq Covered(ext)
              /\ Covered(ext') = Covered(ext) \ Run(s, n)
              /\ held' = held \cup Run(s, n)
<1>1. PICK e \in Picks(ext, first, cnt) : AllocFrom(e, cnt)
  BY DEF Alloc
<1> DEFINE st == GivenStart(e, first, cnt)
           ct == GivenCount(e, first, cnt)
           R  == Run(st, ct)
<1>2. ext \in Index /\ IsFiniteSet(Covered(ext))
  BY PoolIndex DEF PoolInv
<1>3. first \in Nat /\ total \in Nat /\ cnt \in Nat \ {0}
  <2>1. cnt \in Nat \ {0}
    BY PoolAssumption
  <2> QED BY <2>1 DEF PoolInv, TypeOK
<1>4. e \in ext /\ e \in Extent /\ e.len > 0
  BY <1>2, <1>3, SearchFinds DEF Index
<1>5. st \in Nat /\ ct \in Nat \ {0}
  <2>1. st \in Nat /\ ct \in 1 .. cnt
    BY <1>3, <1>4, GivenRun
  <2> QED BY <2>1, <1>3
<1>6. ext' \in Index /\ R \subseteq Covered(ext) /\ Covered(ext') = Covered(ext) \ R
  <2>1. ext' = (ext \ {e}) \cup HeadPiece(e, first, cnt) \cup TailPiece(e, first, cnt)
    BY <1>1 DEF AllocFrom
  <2>2. ASSUME NEW F, F = (ext \ {e}) \cup HeadPiece(e, first, cnt) \cup TailPiece(e, first, cnt)
        PROVE  F \in Index /\ R \subseteq Covered(ext) /\ Covered(F) = Covered(ext) \ R
    BY <1>2, <1>3, <1>4, <2>2, CarvedIndex
  <2> QED BY <2>1, <2>2, Zenon
<1>7. Cardinality(R) = ct
  BY <1>5, RunCardinality
<1>8. first' = st + ct /\ held' = held \cup R /\ ret' = "given"
      /\ total' = IF total < ct THEN total ELSE total - ct
  BY <1>1 DEF AllocFrom
<1> HIDE DEF st, ct, R
<1>9. Accounting'
  <2>1. total = Cardinality(Covered(ext))
    BY DEF PoolInv, Accounting
  <2>2. Cardinality(Covered(ext) \ R) = total - ct /\ ct <= total
    BY <1>2, <1>6, <1>7, <2>1, CardinalityWithout
  <2> QED BY <1>3, <1>5, <1>6, <1>8, <2>2 DEF Accounting
<1>10. total' \in Nat
  BY <1>3, <1>5, <1>8
<1>11. Conservation'
  BY <1>6, <1>8 DEF PoolInv, Conservation, Device
<1>12. held' \in SUBSET Device
  BY <1>6, <1>8 DEF PoolInv, Conservation, TypeOK
<1>13. TypeOK'
  BY <1>5, <1>6, <1>8, <1>10, <1>12 DEF TypeOK, Index, Device
<1>14. IndexWellFormed' /\ HonestRefusals'
  BY <1>6, <1>8 DEF IndexWellFormed, HonestRefusals, Index
<1>15. st \in Device /\ ct \in 1 .. MaxCnt
  <2>1. st \in R
    BY <1>5 DEF R, Run
  <2>2. ct \in 1 .. cnt
    BY <1>3, <1>4, GivenRun DEF ct
  <2> QED BY <1>6, <2>1, <2>2, PoolAssumption DEF PoolInv, Conservation
<1>16. R = Run(st, ct)
  BY DEF R
<1> QED BY <1>6, <1>8, <1>9, <1>11, <1>13, <1>14, <1>15, <1>16 DEF PoolInv

\* A refusal keeps the invariant, and nothing is free.
LEMMA RefusedPoolInv ==
  ASSUME PoolInv, AllocRefused
  PROVE  PoolInv' /\ ext = {}
<1>1. ext \in Index /\ IsFiniteSet(Covered(ext)) /\ (Covered(ext) = {} => ext = {})
  BY PoolIndex DEF PoolInv
<1>2. first \in Nat /\ total = Cardinality(Covered(ext))
  BY DEF PoolInv, TypeOK, Accounting
<1>3. total = 0 => ext = {}
  BY <1>1, <1>2, FS_EmptySet
<1>4. ASSUME NEW cnt \in 1 .. MaxCnt, Picks(ext, first, cnt) = {}
      PROVE  ext = {}
  <2>1. cnt \in Nat \ {0}
    BY PoolAssumption
  <2> QED BY <1>1, <1>2, <1>4, <2>1, SearchFinds
<1>5. ext = {}
  BY <1>3, <1>4 DEF AllocRefused
<1>6. Covered(ext) = {} /\ Cardinality({}) = 0
  BY <1>5, FS_EmptySet DEF Covered
<1>7. ext' = ext /\ held' = held /\ first' \in Nat /\ total' = 0 /\ ret' = "no free blocks"
  BY <1>2 DEF AllocRefused
<1>8. Covered(ext') = Covered(ext)
  BY <1>7
<1> QED BY <1>5, <1>6, <1>7, <1>8
        DEF PoolInv, TypeOK, IndexWellFormed, Conservation, Accounting, HonestRefusals, Device

\* A release keeps the invariant and moves the run back.
LEMMA FreePoolInv ==
  ASSUME PoolInv, NEW start \in Device, NEW cnt \in 1 .. MaxCnt, Free(start, cnt)
  PROVE  /\ PoolInv'
         /\ Covered(ext') = Covered(ext) \cup Run(start, cnt)
         /\ held' = held \ Run(start, cnt)
<1>1. ext \in Index /\ IsFiniteSet(Covered(ext))
  BY PoolIndex DEF PoolInv
<1>2. start \in Nat /\ cnt \in Nat \ {0} /\ total \in Nat
  <2>1. cnt \in Nat \ {0}
    BY PoolAssumption
  <2>2. start \in Nat
    BY PoolAssumption DEF Device
  <2> QED BY <2>1, <2>2 DEF PoolInv, TypeOK
<1>3. Run(start, cnt) \subseteq held /\ Covered(ext) \cap Run(start, cnt) = {}
  BY DEF Free, PoolInv, Conservation
<1>4. Hits(ext, start, cnt) = {}
  BY <1>1, <1>2, <1>3, NoHits
<1>5. /\ ext' = ext \cup {[addr |-> start, len |-> cnt]}
      /\ total' = total + cnt /\ held' = held \ Run(start, cnt)
      /\ ret' = "taken" /\ first' = first
  BY <1>4 DEF Free
<1>6. ext' \in Index /\ Covered(ext') = Covered(ext) \cup Run(start, cnt)
  BY <1>1, <1>2, <1>3, <1>5, GrownIndex
<1>7. Accounting'
  <2>1. IsFiniteSet(Run(start, cnt)) /\ Cardinality(Run(start, cnt)) = cnt
    BY <1>2, RunCardinality
  <2>2. Cardinality(Covered(ext) \cup Run(start, cnt)) = total + cnt
    BY <1>1, <1>3, <2>1, CardinalityWith DEF PoolInv, Accounting
  <2> QED BY <1>5, <1>6, <2>2 DEF Accounting
<1>8. Conservation'
  BY <1>3, <1>5, <1>6 DEF PoolInv, Conservation, Device
<1>9. TypeOK'
  <2>1. held' \in SUBSET Device /\ first' \in Nat
    BY <1>5, Zenon DEF PoolInv, TypeOK
  <2>2. total' \in Nat
    BY <1>2, <1>5
  <2> QED BY <1>5, <1>6, <2>1, <2>2 DEF TypeOK, Index, Device
<1>10. IndexWellFormed'
  BY <1>6 DEF IndexWellFormed, Index
<1> QED BY <1>5, <1>6, <1>7, <1>8, <1>9, <1>10 DEF PoolInv, HonestRefusals

\* A step that changes nothing keeps the invariant.
LEMMA StutterPoolInv ==
  ASSUME PoolInv, UNCHANGED vars
  PROVE  PoolInv'
  BY DEF PoolInv, TypeOK, IndexWellFormed, Conservation, Accounting, HonestRefusals, vars, Device

(***************************************************************************)
(* The invariant holds in every state of every run of a space manager.     *)
(***************************************************************************)
THEOREM Invariance == Spec => []PoolInv
<1>1. PoolInv /\ [Next]_vars => PoolInv'
  BY AllocPoolInv, RefusedPoolInv, FreePoolInv, StutterPoolInv DEF Next
<1> QED BY <1>1, InitPoolInv, PTL DEF Spec

(***************************************************************************)
(* Hence the parts: types; the index lists a block at most once ...        *)
(***************************************************************************)
THEOREM TypeCorrect == Spec => []TypeOK
  BY Invariance, PTL DEF PoolInv

\* No block is in two extents of the index, and no extent is empty (os_collate_extent).
THEOREM IndexStaysWellFormed == Spec => []IndexWellFormed
  BY Invariance, PTL DEF PoolInv

(***************************************************************************)
(* ... no block is lost, and none is given to two clients ...              *)
(***************************************************************************)
THEOREM BlocksAreConserved == Spec => []Conservation
  BY Invariance, PTL DEF PoolInv

(***************************************************************************)
(* ... total_free_blocks is exact ...                                      *)
(***************************************************************************)
THEOREM CounterIsExact == Spec => []Accounting
  BY Invariance, PTL DEF PoolInv

(***************************************************************************)
(* ... and a refusal means that nothing is left.                           *)
(***************************************************************************)
THEOREM RefusalsAreHonest == Spec => []HonestRefusals
  BY Invariance, PTL DEF PoolInv

(***************************************************************************)
(* The refinement: carving and indexing are a way to implement the pool of *)
(* blocks; a step of the space manager moves a run between free and held   *)
(* as BlockPool allows, or leaves both alone.                              *)
(***************************************************************************)
LEMMA PoolStep ==
  ASSUME PoolInv, [Next]_vars
  PROVE  [Pool!Next]_<<Covered(ext), held>>
<1>1. ASSUME NEW cnt \in 1 .. MaxCnt, Alloc(cnt)
      PROVE  Pool!Next
  BY <1>1, AllocPoolInv DEF Pool!Next, Pool!Allocate, Pool!Contiguous, Run
<1>2. ASSUME AllocRefused
      PROVE  UNCHANGED <<Covered(ext), held>>
  BY <1>2 DEF AllocRefused
<1>3. ASSUME NEW start \in Device, NEW cnt \in 1 .. MaxCnt, Free(start, cnt)
      PROVE  Pool!Next
  <2>1. Run(start, cnt) \subseteq held
    BY <1>3 DEF Free
  <2> QED BY <1>3, <2>1, FreePoolInv DEF Pool!Next, Pool!Release, Pool!Contiguous, Run
<1>4. ASSUME UNCHANGED vars
      PROVE  UNCHANGED <<Covered(ext), held>>
  BY <1>4 DEF vars
<1> QED BY <1>1, <1>2, <1>3, <1>4 DEF Next

THEOREM Implementation == Spec => ImplementsPool
<1>1. Init => Pool!Init
  BY InitPoolInv, FS_EmptySet DEF Init, PoolInv, Conservation, Pool!Init
<1>2. PoolInv /\ [Next]_vars => [Pool!Next]_<<Covered(ext), held>>
  BY PoolStep
<1> QED BY <1>1, <1>2, Invariance, PTL DEF Spec, ImplementsPool, Pool!Spec
=============================================================================
