------------------------------- MODULE BTree -------------------------------
(***************************************************************************)
(* A table of keys as a tree of index blocks (ofs_btree.c).  A call holds  *)
(* the table's attr_lock (or the space manager's lock) to its end, so one  *)
(* call runs at a time; its steps are the iterations of tree_insert_ie and *)
(* the stages of remove_node and remove_leaf, each of which ends with      *)
(* set_ib_dirty, where a block may be refused.                             *)
(***************************************************************************)
EXTENDS IndexNode

CONSTANTS Blocks,    \* block numbers of the container
          RootRoom,  \* bytes for entries in the root, which lies in the inode
          NodeRoom,  \* bytes for entries in any other node
          MaxDepth,  \* TREE_MAX_DEPTH
          Sessions   \* bound: how often the object is opened

\* An entry of KEY_MAX_SIZE and VALUE_MAX_SIZE takes less than a third of a node.
TreeAssumption ==
  /\ NodeAssumption
  /\ Blocks \subseteq Nat \ {0}
  /\ MaxDepth \in Nat \ {0} /\ Sessions \in Nat \ {0}
  /\ RootRoom \in Nat /\ NodeRoom \in Nat /\ RootRoom <= NodeRoom
  /\ \A k \in Keys : /\ 3 * (EntryLen[k] + VbnLen) + EndLen + VbnLen <= NodeRoom
                     /\ EntryLen[k] + VbnLen + EndLen + VbnLen <= RootRoom
ASSUME TreeAssumption

VARIABLES root,      \* root_cache.vbn
          node,      \* the entries of each node of the table, by block number
          dirty,     \* the nodes that were changed since the container was opened
          path,      \* cache_stack and position_stack: the nodes from the root down
          maxDepth,  \* max_depth of the handle
          call,      \* the call that runs, and its next stage
          session,   \* the number of times it was opened
          stored     \* history: the keys that the calls so far should have left

vars == <<root, node, dirty, path, maxDepth, call, session, stored>>

Idle == [at |-> "idle", op |-> "none", key |-> End, entry |-> Entry(End, NoBlock),
         swap |-> FALSE]
Calling(op, k) == [Idle EXCEPT !.op = op, !.key = k]

-----------------------------------------------------------------------------
(* The cursor.                                                             *)

Top(p) == p[Len(p)]
At(n, p) == n[Top(p).at][Top(p).pos]
Move(p, pos) == [p EXCEPT ![Len(p)].pos = pos]
Start == <<[at |-> root, pos |-> 1]>>
Push(n, p, pos) == Append(p, [at |-> At(n, p).child, pos |-> pos])
LastPos(n, b) == Len(n[b])

\* search_key_internal: the path to k or to where it would be in a leaf.
RECURSIVE SearchDown(_, _, _)
SearchDown(n, p, k) ==
  LET q == Move(p, PositionOf(n[Top(p).at], k))
  IN  IF At(n, q).key # k /\ IsNode(At(n, q)) THEN SearchDown(n, Push(n, q, 1), k) ELSE q

Search(k) == SearchDown(node, Start, k)
Found(k) == At(node, Search(k)).key = k

\* push_cache_stack until a leaf, at the first or at the last entry of each node.
RECURSIVE DownFirst(_, _)
DownFirst(n, p) == IF IsNode(At(n, p)) THEN DownFirst(n, Push(n, p, 1)) ELSE p

RECURSIVE DownLast(_, _)
DownLast(n, p) ==
  IF IsNode(At(n, p)) THEN DownLast(n, Push(n, p, LastPos(n, At(n, p).child))) ELSE p

\* pop_cache_stack while the entry is END; <<>> stands for the end of the table.
UpToKey_Once(n, p) ==
  IF ~IsEnd(At(n, p)) THEN p ELSE IF Len(p) = 1 THEN <<>> ELSE Front(p)

RECURSIVE UpToKey(_, _)
UpToKey(n, p) ==
  IF ~IsEnd(At(n, p)) THEN p ELSE IF Len(p) = 1 THEN <<>> ELSE UpToKey(n, Front(p))

\* The same backwards; position 0 is the BEGIN entry.
RECURSIVE UpToPrev(_, _)
UpToPrev(n, p) ==
  IF Top(p).pos > 0 THEN p
  ELSE IF Len(p) = 1 THEN <<>> ELSE UpToPrev(n, Move(Front(p), Top(Front(p)).pos - 1))

\* walk_tree for the next entry, the previous one, the first and the last.
NextIE(n, p) ==
  IF IsEnd(At(n, p)) THEN <<>> ELSE UpToKey(n, DownFirst(n, Move(p, Top(p).pos + 1)))
First(n) == UpToKey(n, DownFirst(n, Start))
PrevIE(n, p) ==
  LET q == IF IsNode(At(n, p)) THEN DownLast(n, p) ELSE p
  IN  UpToPrev(n, Move(q, Top(q).pos - 1))

RECURSIVE BackFrom(_, _)
BackFrom(n, p) ==
  IF Top(p).pos > 1 THEN Move(p, Top(p).pos - 1)
  ELSE IF Len(p) = 1 THEN <<>> ELSE BackFrom(n, Front(p))

LastKey(n) == BackFrom(n, DownLast(n, Move(Start, LastPos(n, root))))

\* push_cache_stack notes the depth of a leaf it comes to.
DepthSeen(n, p) ==
  IF Len(p) > 1 /\ ~IsNode(At(n, p)) THEN Len(p) - 1 ELSE maxDepth

-----------------------------------------------------------------------------
(* Blocks.  A change is a tree: its nodes n, those of them that are dirty  *)
(* (d) and the path p.                                                     *)

Fresh(n) == Blocks \ DOMAIN n

Moves_One(d, p) == IF Top(p).at \in d THEN 0 ELSE 1

\* The nodes at the end of the path that set_ib_dirty gives another block.
Moves(d, p) == Cardinality({i \in DOMAIN p : \A j \in i .. Len(p) : p[j].at \notin d})

\* set_ib_dirty, when the first m of its allocations succeed.
SetIbDirty(n, d, p, m) ==
  LET new(j) == CHOOSE b \in Fresh(n) : Cardinality({c \in Fresh(n) : c < b}) = j - 1
      moved == {i \in DOMAIN p : i > Len(p) - m}
      to == [i \in DOMAIN p |-> IF i \in moved THEN new(Len(p) - i + 1) ELSE p[i].at]
      relinked == {i \in DOMAIN p : /\ i < Len(p) /\ i + 1 \in moved
                                    /\ i \in moved \/ m = Moves(d, p)}
      left == {p[i].at : i \in moved}
      stay == DOMAIN n \ {p[i].at : i \in DOMAIN p}
      es(i) == IF i \in relinked THEN [n[p[i].at] EXCEPT ![p[i].pos].child = to[i + 1]]
               ELSE n[p[i].at]
  IN  [node |-> [b \in stay \cup Range(to) |->
                   IF b \in stay THEN n[b] ELSE es(CHOOSE i \in DOMAIN to : to[i] = b)],
       dirty |-> (d \ left) \cup {to[i] : i \in moved},
       path |-> [i \in DOMAIN p |-> [p[i] EXCEPT !.at = to[i]]]]

Store_KeepsRoot(t) == node' = t.node /\ dirty' = t.dirty /\ root' = root

Store(t) == node' = t.node /\ dirty' = t.dirty /\ root' = t.path[1].at

\* The call fails: the error goes up to the caller, what was changed stays.
Fail == path' = <<>> /\ call' = [call EXCEPT !.at = "failed"] /\ UNCHANGED <<maxDepth, stored>>

\* The call is done, or, for index_update_value, its first half.
Return ==
  /\ path' = <<>>
  /\ call' = IF call.op = "update" THEN [call EXCEPT !.at = "again"] ELSE Idle
  /\ stored' = IF call.op = "insert" THEN stored \cup {call.key} ELSE stored \ {call.key}

\* A change of n at p is made; if all blocks were there, Then goes on.
Change(n, d, p, Then(_)) ==
  \E m \in 0 .. Moves(d, p) :
    LET t == SetIbDirty(n, d, p, m)
    IN  /\ Store(t)
        /\ IF m = Moves(d, p) THEN Then(t) ELSE Fail

NoBlockLeft_Retries ==
  /\ path' = <<>>
  /\ call' = [call EXCEPT !.at = "again"]
  /\ UNCHANGED <<root, node, dirty, maxDepth, stored>>

\* alloc_obj_cache_and_block has no block, or the tree is too deep.
NoBlockLeft == Fail /\ UNCHANGED <<root, node, dirty>>

-----------------------------------------------------------------------------
(* Insertion.                                                              *)

\* search_key_internal and tree_insert_ie with an entry for k.
GoInsert(p) ==
  /\ path' = p
  /\ maxDepth' = DepthSeen(node, p)
  /\ UNCHANGED <<root, node, dirty, stored>>

\* index_insert_key_nolock: a key that is there is refused.
InsertKey(k) ==
  /\ call = Idle /\ ~Found(k)
  /\ call' = [Calling("insert", k) EXCEPT !.at = "insert", !.entry = Entry(k, NoBlock)]
  /\ GoInsert(Search(k))

Room(p) == IF Len(p) = 1 THEN RootRoom ELSE NodeRoom

Full == RealSize(node[Top(path).at]) + Size(call.entry) > Room(path)

\* tree_insert_ie: the entry goes before the current one.
InsertIE ==
  /\ call.at = "insert" /\ ~Full
  /\ LET b == Top(path).at
         n == [node EXCEPT ![b] = InsertAt(@, Top(path).pos, call.entry)]
     IN  Change(n, dirty, path, LAMBDA t :
           /\ UNCHANGED maxDepth
           /\ IF call.swap
              THEN path' = t.path /\ call' = [call EXCEPT !.at = "next"] /\ UNCHANGED stored
              ELSE Return)

\* reparent_root: the entries of the root move to a new node below it.
ReparentRoot ==
  /\ call.at = "insert" /\ Full /\ Len(path) = 1
  /\ \/ NoBlockLeft
     \/ /\ maxDepth < MaxDepth - 1
        /\ LET new == Min(Fresh(node))
               n == [b \in DOMAIN node \cup {new} |->
                       CASE b = root -> EmptyNode(new) [] b = new -> node[root] [] OTHER -> node[b]]
           IN  Change(n, dirty \cup {new}, Start, LAMBDA t :
                 /\ path' = Append(t.path, [at |-> new, pos |-> Top(path).pos])
                 /\ UNCHANGED <<maxDepth, call, stored>>)

\* split_ib: the tail of the node moves to a new node, the middle entry to the parent.
SplitIB ==
  /\ call.at = "insert" /\ Full /\ Len(path) > 1
  /\ \/ NoBlockLeft
     \/ LET es == node[Top(path).at]
            pos == Top(path).pos
            mid == Middle(es)
            new == Min(Fresh(node))
            tail == IF pos > mid THEN InsertAt(TailOf(es, mid), pos - mid, call.entry)
                    ELSE TailOf(es, mid)
            head == IF pos > mid THEN HeadOf(es, mid)
                    ELSE InsertAt(HeadOf(es, mid), pos, call.entry)
            up(p) == Top(Front(p))
            cut(t) == [t.node EXCEPT ![Top(t.path).at] = head,
                                     ![up(t.path).at][up(t.path).pos].child = new]
            n == [b \in DOMAIN node \cup {new} |-> IF b = new THEN tail ELSE node[b]]
            d == dirty \cup {new}
        IN  \E m \in 0 .. Moves(d, path) :
              LET t == SetIbDirty(n, d, path, m)
              IN  IF m < Moves(d, path) THEN Store(t) /\ Fail
                  ELSE /\ Store([t EXCEPT !.node = cut(t)])
                       /\ path' = Front(t.path)
                       /\ call' = [call EXCEPT !.entry = Entry(es[mid].key, Top(t.path).at)]
                       /\ UNCHANGED <<maxDepth, stored>>

-----------------------------------------------------------------------------
(* Removal.                                                                *)

\* index_remove_key_nolock and tree_remove_ie; the key may be in an inner node.
Removing(op, k) ==
  /\ call = Idle /\ Found(k)
  /\ call' = [Calling(op, k) EXCEPT !.at = IF IsNode(At(node, Search(k))) THEN "node" ELSE "leaf"]
  /\ path' = Search(k)
  /\ maxDepth' = DepthSeen(node, Search(k))
  /\ UNCHANGED <<root, node, dirty, stored>>

RemoveKey(k) == Removing("remove", k)

\* index_update_value: the entry is removed and inserted again.
UpdateValue(k) == Removing("update", k)

InsertAgain ==
  /\ call.at = "again"
  /\ call' = [call EXCEPT !.at = "insert", !.op = "insert", !.entry = Entry(call.key, NoBlock)]
  /\ GoInsert(Search(call.key))

\* remove_node, first half: the entry is replaced by its successor.
RemoveNode ==
  /\ call.at = "node"
  /\ LET next == NextIE(node, path)
         back == SubSeq(next, 1, Len(path))
         p == Move(back, Top(back).pos - 1)
         succ == Entry(At(node, next).key, At(node, path).child)
         n == [node EXCEPT ![Top(p).at] = RemoveAt(@, Top(p).pos)]
     IN  Change(n, dirty, p, LAMBDA t :
           /\ path' = t.path
           /\ maxDepth' = DepthSeen(node, next)
           /\ call' = [call EXCEPT !.at = "insert", !.entry = succ, !.swap = TRUE]
           /\ UNCHANGED stored)

\* remove_node, second half: on to the entry after the one that was inserted.
NextEntry ==
  /\ call.at = "next"
  /\ LET p == NextIE(node, path)
     IN  IF p = <<>> THEN Fail
         ELSE /\ path' = p
              /\ maxDepth' = DepthSeen(node, p)
              /\ call' = [call EXCEPT !.at = "leaf", !.swap = FALSE]
              /\ UNCHANGED stored
  /\ UNCHANGED <<root, node, dirty>>

\* check_removed_ib: the node p ends with has lost its last key, and is not the root.
Emptied_Never(n, p) == FALSE

Emptied(n, p) == Len(p) > 1 /\ IsEnd(n[Top(p).at][1])

\* remove_leaf, the entry itself.
RemoveLeaf ==
  /\ call.at = "leaf"
  /\ LET n == [node EXCEPT ![Top(path).at] = RemoveAt(@, Top(path).pos)]
     IN  Change(n, dirty, path, LAMBDA t :
           /\ UNCHANGED maxDepth
           /\ IF Emptied(t.node, t.path)
              THEN path' = t.path /\ call' = [call EXCEPT !.at = "empty"] /\ UNCHANGED stored
              ELSE Return)

\* check_removed_ib: the depth of the lowest node on the path that is not empty.
Kept == {i \in 1 .. Len(path) - 1 : ~IsEnd(node[path[i].at][1])}

Without_Leaf(i) == [b \in DOMAIN node \ {Top(path).at} |-> node[b]]

Without(i) == [b \in DOMAIN node \ {path[j].at : j \in i + 1 .. Len(path)} |-> node[b]]

\* check_removed_ib when nothing is left but the root.
RemoveAll ==
  /\ call.at = "empty" /\ Kept = {}
  /\ LET n == [Without(1) EXCEPT ![root] = EmptyNode(NoBlock)]
     IN  Change(n, dirty \cap DOMAIN n, Start, LAMBDA t : UNCHANGED maxDepth /\ Return)

\* remove_leaf: the entry whose child has gone is taken out; if that is the END entry,
\* the one before it, whose child END takes over.
OutOf(es, pos) == IF IsEnd(es[pos]) THEN pos - 1 ELSE pos
TakenOut(es, pos) ==
  RemoveAt(IF IsEnd(es[pos]) THEN [es EXCEPT ![pos].child = es[pos - 1].child] ELSE es,
           OutOf(es, pos))

\* get_current_ie: where it is inserted again, in the leaf before the removed one if that
\* was the last child of its parent, else in the leaf after it.
Beside_First(n, p, last) == UpToKey(n, DownFirst(n, p))

Beside(n, p, last) == IF last THEN DownLast(n, p) ELSE UpToKey(n, DownFirst(n, p))

\* check_removed_ib and remove_leaf: an empty leaf goes, with the empty nodes above it;
\* the entry that pointed to them is inserted in the leaf next to them.
RemoveEmpty ==
  /\ call.at = "empty" /\ Kept # {}
  /\ LET p == SubSeq(path, 1, Max(Kept))
         es == node[Top(p).at]
         out == OutOf(es, Top(p).pos)
         n == [Without(Len(p)) EXCEPT ![Top(p).at] = TakenOut(es, Top(p).pos)]
         beside(t) == Beside(t.node, t.path, IsEnd(es[Top(p).pos]))
     IN  Change(n, dirty \cap DOMAIN n, Move(p, out), LAMBDA t :
           /\ path' = beside(t)
           /\ maxDepth' = DepthSeen(t.node, beside(t))
           /\ call' = [call EXCEPT !.at = "insert", !.entry = Entry(es[out].key, NoBlock)]
           /\ UNCHANGED stored)

-----------------------------------------------------------------------------

\* The object is closed and opened: its nodes are on disk, its handle is new.
Reopen ==
  /\ call = Idle /\ session < Sessions
  /\ session' = session + 1
  /\ dirty' = {} /\ maxDepth' = 0
  /\ UNCHANGED <<root, node, path, call, stored>>

\* Exploration ends with the first call that fails.
Failed == call.at = "failed" /\ UNCHANGED vars

\* create_object_at_inode: an empty root.
Init ==
  /\ root = Min(Blocks)
  /\ node = [b \in {root} |-> EmptyNode(NoBlock)]
  /\ dirty = {root}
  /\ path = <<>>
  /\ maxDepth = 0
  /\ call = Idle
  /\ session = 1
  /\ stored = {}

Stage ==
  /\ \/ InsertIE \/ ReparentRoot \/ SplitIB \/ InsertAgain
     \/ RemoveNode \/ NextEntry \/ RemoveLeaf \/ RemoveAll \/ RemoveEmpty
  /\ UNCHANGED session

Next ==
  \/ \E k \in Keys : (InsertKey(k) \/ RemoveKey(k) \/ UpdateValue(k)) /\ UNCHANGED session
  \/ Stage
  \/ Reopen
  \/ Failed

\* WF_vars(Stage), with ENABLED Stage in full: a stage can be taken while a call runs.
Fairness == []<>(call.at \in {"idle", "failed"}) \/ []<><<Stage>>_vars

Spec == Init /\ [][Next]_vars /\ Fairness

-----------------------------------------------------------------------------
(* Properties.                                                             *)

RECURSIVE Forward(_, _)
Forward(n, p) == IF p = <<>> THEN <<>> ELSE <<At(n, p).key>> \o Forward(n, NextIE(n, p))

RECURSIVE Backward(_, _)
Backward(n, p) == IF p = <<>> THEN <<>> ELSE <<At(n, p).key>> \o Backward(n, PrevIE(n, p))

Links == {<<b, i>> \in (DOMAIN node) \X (1 .. Cardinality(Keys) + 1) :
            i \in DOMAIN node[b] /\ IsNode(node[b][i])}
ChildAt(l) == node[l[1]][l[2]].child

\* Every variable has its type.
TypeOK ==
  /\ root \in DOMAIN node /\ DOMAIN node \subseteq Blocks /\ dirty \subseteq DOMAIN node
  /\ \A b \in DOMAIN node : \A i \in DOMAIN node[b] :
       node[b][i].key \in Keys \cup {End} /\ node[b][i].child \in Blocks \cup {NoBlock}
  /\ \A i \in DOMAIN path : path[i].at \in DOMAIN node /\ path[i].pos \in DOMAIN node[path[i].at]
  /\ maxDepth \in 0 .. MaxDepth - 1
  /\ stored \subseteq Keys
  /\ DOMAIN call = DOMAIN Idle

\* Between two calls a walk (index_walk_all) in either direction meets exactly the
\* keys that were inserted and not removed since, each once and in order.
TreeIsTable ==
  call.at = "idle" =>
    LET keys == Forward(node, First(node))
    IN  /\ IsSorted(keys, <) /\ Range(keys) = stored
        /\ Backward(node, LastKey(node)) = Reverse(keys)

\* A search for any key (index_search_key_nolock) finds it, or leaves the cursor at
\* the next larger key, from where the space manager walks on; there is none exactly
\* when the cursor is at the END entry of the root.
SearchStopsNear ==
  call.at = "idle" =>
    \A k \in Keys :
      LET up == UpToKey(node, Search(k))
          above == {j \in stored : j >= k}
      IN  IF above = {} THEN up = <<>> ELSE up # <<>> /\ At(node, up).key = Min(above)

\* No node is larger than its block, with entries of different lengths: split_ib inserts
\* in one of the halves without testing whether there is room, so the middle has to be
\* that of the bytes, not of the entries.
NodesFit ==
  \A b \in DOMAIN node : RealSize(node[b]) <= IF b = root THEN RootRoom ELSE NodeRoom

\* Between two calls every block of the table but the root is the child of exactly one
\* entry, and no entry has a child that is not a block of the table: splits, moves
\* and removals neither lose a block nor free one that is in use.
LinkedOnce ==
  call.at = "idle" =>
    \A b \in Blocks :
      Cardinality({l \in Links : ChildAt(l) = b}) = IF b \in DOMAIN node \ {root} THEN 1 ELSE 0

\* Between two calls the leaves have one depth, and none but the root is empty;
\* remove_leaf relies on it, when it inserts in the leaf next to the one it removed.
LeavesAreEven ==
  call.at = "idle" =>
    /\ \A b \in DOMAIN node : b # root /\ ~IsNode(node[b][1]) => Len(node[b]) > 1
    /\ \A j, k \in Keys : LET depth(x) == Len(DownFirst(node, Search(x)))
                          IN  depth(j) = depth(k)

\* A node that is written to a new block has a parent that is written too; else the
\* tree on disk still has the old one.
DirtyUpToRoot ==
  call.at # "failed" => \A l \in Links : ChildAt(l) \in dirty => l[1] \in dirty

\* Every call comes to an end: the loop of tree_insert_ie, which splits until the entry
\* fits, and the removals that insert again.
CallsReturn == []<>(call.at \in {"idle", "failed"})
=============================================================================
