----------------------------- MODULE SpacePool -----------------------------
(***************************************************************************)
(* One space manager (space_manager_t, ofs_space_manager.c): an index of   *)
(* free extents, the number of free blocks and a hint where the next       *)
(* allocation starts.  sm_alloc_space and sm_free_space hold the manager's *)
(* lock from their first to their last access, so each is one action.      *)
(* Here the index always has the blocks it needs for itself; the module    *)
(* SpaceManager models what it costs to update it.                         *)
(***************************************************************************)
EXTENDS Extents

CONSTANTS FirstBlk,  \* the first block that is free after the container is created
          EndBlk,    \* the block after the last one
          MaxCnt     \* the largest run asked for or given back at once

ASSUME PoolAssumption ==
  /\ FirstBlk \in Nat \ {0}
  /\ EndBlk \in Nat /\ EndBlk > FirstBlk
  /\ MaxCnt \in Nat \ {0}

VARIABLES ext,     \* the extents in the index
          first,   \* first_free_block: the hint
          total,   \* total_free_blocks
          held,    \* the blocks the clients of the manager hold
          ret      \* what the last call returned

vars == <<ext, first, total, held, ret>>

Device == FirstBlk .. (EndBlk - 1)

Init ==
  /\ ext = {[addr |-> FirstBlk, len |-> EndBlk - FirstBlk]}
  /\ first = FirstBlk
  /\ total = EndBlk - FirstBlk
  /\ held = {}
  /\ ret = "none"

\* sm_alloc_space gives blocks of e, one of the extents the search can find.
AllocFrom_AsAsked(e, cnt) ==
  LET s == GivenStart(e, first, cnt)
      n == GivenCount(e, first, cnt)
  IN  /\ ext' = (ext \ {e}) \cup HeadPiece(e, first, cnt) \cup TailPiece(e, first, cnt)
      /\ first' = s + n
      /\ total' = IF total < cnt THEN total ELSE total - cnt
      /\ held' = held \cup Run(s, n)
      /\ ret' = "given"

AllocFrom(e, cnt) ==
  LET s == GivenStart(e, first, cnt)
      n == GivenCount(e, first, cnt)
  IN  /\ ext' = (ext \ {e}) \cup HeadPiece(e, first, cnt) \cup TailPiece(e, first, cnt)
      /\ first' = s + n
      /\ total' = IF total < n THEN total ELSE total - n
      /\ held' = held \cup Run(s, n)
      /\ ret' = "given"

Alloc(cnt) == total # 0 /\ \E e \in Picks(ext, first, cnt) : AllocFrom(e, cnt)

\* NO_FREE_BLOCKS: the count is 0, or the index turned out to be empty.
AllocRefused ==
  /\ total = 0 \/ \E cnt \in 1 .. MaxCnt : Picks(ext, first, cnt) = {}
  /\ first' = IF total = 0 THEN first ELSE 0
  /\ total' = 0
  /\ ret' = "no free blocks"
  /\ UNCHANGED <<ext, held>>

\* sm_free_space: a client gives back a run of blocks it holds.
Free(start, cnt) ==
  /\ Run(start, cnt) \subseteq held
  /\ IF Hits(ext, start, cnt) = {}
     THEN /\ ext' = ext \cup {[addr |-> start, len |-> cnt]}
          /\ total' = total + cnt
          /\ held' = held \ Run(start, cnt)
          /\ ret' = "taken"
     ELSE ret' = "key exists" /\ UNCHANGED <<ext, total, held>>
  /\ UNCHANGED first

Next ==
  \/ \E cnt \in 1 .. MaxCnt : Alloc(cnt)
  \/ AllocRefused
  \/ \E start \in Device, cnt \in 1 .. MaxCnt : Free(start, cnt)

Spec == Init /\ [][Next]_vars
-----------------------------------------------------------------------------
TypeOK ==
  /\ ext \in SUBSET Extent
  /\ first \in Nat
  /\ total \in Nat
  /\ held \in SUBSET Device
  /\ ret \in {"none", "given", "no free blocks", "taken", "key exists"}

(***************************************************************************)
(* The index is a set of non-empty runs (alloc_space asserts len != 0) in  *)
(* which a block is listed at most once, whatever runs have been split and *)
(* given back in whatever order.                                           *)
(***************************************************************************)
IndexWellFormed == Disjoint(ext) /\ \A e \in ext : e.len > 0

(***************************************************************************)
(* Every block of the device is in the index or with a client, never in    *)
(* both: splitting an extent loses nothing and hands out nothing twice.    *)
(***************************************************************************)
Conservation ==
  /\ Covered(ext) \cup held = Device
  /\ Covered(ext) \cap held = {}

\* total_free_blocks, which decides alone whether a request is refused, is exact.
Accounting == total = Cardinality(Covered(ext))

(***************************************************************************)
(* A client is told "no free blocks" only when the index is empty, and     *)
(* giving back blocks it holds is never refused as an overlap.             *)
(***************************************************************************)
HonestRefusals ==
  /\ ret = "no free blocks" => ext = {}
  /\ ret # "key exists"

\* The manager implements the pool of blocks BlockPool; the covered blocks are its
\* free blocks and each call is one step of the pool, or none.
Pool == INSTANCE BlockPool WITH free <- Covered(ext)
ImplementsPool == Pool!Spec
=============================================================================
