----------------------------- MODULE IndexNode -----------------------------
(***************************************************************************)
(* The entries of one index block (index_block_t, ofs_btree.c).  A node is *)
(* a sequence of entries in key order that ends with an END entry; in an   *)
(* inner node every entry has the number of the child with smaller keys,   *)
(* the END entry that of the last child.  Positions are indices in this    *)
(* sequence, where the code has byte offsets; lengths are kept, because    *)
(* they decide when and where a node is split.                             *)
(***************************************************************************)
EXTENDS Integers, Sequences, FiniteSetsExt, SequencesExt

CONSTANTS Keys,      \* keys, in the order of the collation rule
          EntryLen,  \* the length of the entry of a key, without a child
          EndLen,    \* ENTRY_END_SIZE
          VbnLen     \* VBN_SIZE

NoBlock == 0
End == 0

\* Keys of 1 to KEY_MAX_SIZE bytes; End and NoBlock are no key and no block.
NodeAssumption ==
  /\ Keys \subseteq Nat \ {0}
  /\ EntryLen \in [Keys -> Nat \ {0}]
  /\ EndLen \in Nat /\ VbnLen \in Nat

Entry(key, child) == [key |-> key, child |-> child]
IsEnd(e) == e.key = End
IsNode(e) == e.child # NoBlock

\* init_ib, make_ib_small: a node without keys.
EmptyNode(child) == <<Entry(End, child)>>

Size(e) ==
  (IF IsEnd(e) THEN EndLen ELSE EntryLen[e.key]) + (IF IsNode(e) THEN VbnLen ELSE 0)

\* head.real_size without the head
RealSize(es) == MapThenSumSet(LAMBDA i : Size(es[i]), DOMAIN es)

\* Where a search for k stops in a node: at k, or at the first larger key, or at END.
PositionOf(es, k) == Min({i \in DOMAIN es : IsEnd(es[i]) \/ es[i].key >= k})

Middle_OfEntries(es) == (Len(es) + 1) \div 2

\* get_middle_ie: the entry in which the first half of the bytes ends.
Middle(es) ==
  Min({i \in DOMAIN es : IsEnd(es[i]) \/ RealSize(SubSeq(es, 1, i)) >= RealSize(es) \div 2})

\* copy_ib_tail: what a new node gets.
TailOf(es, mid) == SubSeq(es, mid + 1, Len(es))

\* cut_ib_tail: what the old node keeps; its END entry takes over the child of the middle.
HeadOf(es, mid) == Append(SubSeq(es, 1, mid - 1), Entry(End, es[mid].child))
=============================================================================
