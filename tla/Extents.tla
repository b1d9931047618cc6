------------------------------ MODULE Extents ------------------------------
(***************************************************************************)
(* Free space is kept as an index of extents: the key of an entry is the   *)
(* first block of a run of free blocks, its value the length of the run.   *)
(* The order of the index is os_collate_extent (ofs_collate.c), in which   *)
(* two extents that overlap compare equal, so the search of the index      *)
(* answers "is some of this range free" and an insertion is refused when   *)
(* any block of the new extent is already there.                           *)
(*                                                                         *)
(* The operators below are the pure part of alloc_space and free_space     *)
(* (ofs_space_manager.c): which extent a request is served from, which     *)
(* blocks it gets, and what is put back.  An index is a set of extents.    *)
(*                                                                         *)
(* Name_Variant is a plausible mistake in Name, used only to see that a    *)
(* property notices it.                                                    *)
(***************************************************************************)
EXTENDS Integers, FiniteSets

Extent == [addr : Nat, len : Nat]

Run(start, cnt) == start .. (start + cnt - 1)

Blocks(e) == Run(e.addr, e.len)

Covered(E) == UNION {Blocks(e) : e \in E}

\* os_collate_extent(e, (a, n)): e is compared with the range of n blocks at a.
Larger(e, a, n)  == e.addr >= a + n
Smaller(e, a, n) == ~Larger(e, a, n) /\ e.addr + e.len <= a
Overlap(e, a, n) == ~Larger(e, a, n) /\ ~Smaller(e, a, n)

Hits(E, a, n) == {e \in E : Overlap(e, a, n)}

\* The extent that comes first in the order of the index.
Comes(e, f) == e.addr < f.addr \/ (e.addr = f.addr /\ e.len <= f.len)
FirstOf(S) == {e \in S : \A f \in S : Comes(e, f)}

(***************************************************************************)
(* The extent alloc_space takes: one the search finds (which of several    *)
(* depends on where the nodes of the tree are split), else the next larger *)
(* one, else the first of the index.                                       *)
(***************************************************************************)
Picks_NoWrap(E, a, n) ==
  IF Hits(E, a, n) # {}
  THEN Hits(E, a, n)
  ELSE FirstOf({e \in E : Larger(e, a, n)})
Picks(E, a, n) ==
  IF Hits(E, a, n) # {}
  THEN Hits(E, a, n)
  ELSE LET next == {e \in E : Larger(e, a, n)}
       IN  IF next # {} THEN FirstOf(next) ELSE FirstOf(E)

\* The blocks alloc_space gives for a request of n blocks near a, out of e ...
GivenStart_AtHint(e, a, n) == IF a > e.addr THEN a ELSE e.addr
GivenStart(e, a, n) == IF Overlap(e, a, n) /\ a > e.addr THEN a ELSE e.addr
GivenCount(e, a, n) ==
  LET s == GivenStart(e, a, n)
  IN  IF s + n < e.addr + e.len THEN n ELSE e.addr + e.len - s

\* ... and the pieces of e before and after them that it inserts again.
HeadPiece_Whole(e, a, n) ==
  IF GivenStart(e, a, n) > e.addr THEN {e} ELSE {}
HeadPiece(e, a, n) ==
  LET s == GivenStart(e, a, n)
  IN  IF s > e.addr THEN {[addr |-> e.addr, len |-> s - e.addr]} ELSE {}

TailPiece_Dropped(e, a, n) == {}
TailPiece_Unchecked(e, a, n) ==
  LET t == GivenStart(e, a, n) + n
  IN  {[addr |-> t, len |-> e.addr + e.len - t]}
TailPiece(e, a, n) ==
  LET t == GivenStart(e, a, n) + n
  IN  IF t < e.addr + e.len THEN {[addr |-> t, len |-> e.addr + e.len - t]} ELSE {}

Disjoint(E) == \A e, f \in E : e # f => Blocks(e) \cap Blocks(f) = {}
=============================================================================
