---------------------------- MODULE SpaceManager ----------------------------
(***************************************************************************)
(* The two space managers of a container and the block kept beside them    *)
(* (ofs_space_manager.c, with the block requests of ofs_btree.c).          *)
(*                                                                         *)
(* "sm" has the free blocks of the container; its index is the SPACE tree. *)
(* A block that is modified in a tree is first moved to a newly allocated  *)
(* block, so updating an index of free blocks itself needs free blocks:    *)
(*   - the SPACE tree takes its blocks from the second manager, "bsm",     *)
(*     whose index is the BASE tree;                                       *)
(*   - the BASE tree takes its blocks from base_blk, a single block.       *)
(* Before any other allocation reserve_base_space fills base_blk and bsm   *)
(* from sm.                                                                *)
(*                                                                         *)
(* Each manager has a lock; base_blk, and the reads of bsm's counter in    *)
(* reserve_base_space, have none.  A thread is inside at most one call of  *)
(* each manager, the one of bsm nested in the one of sm, so it has a frame *)
(* for each.  A step is what a thread does between two points where it can *)
(* meet another: taking or leaving a lock, or touching base_blk or a       *)
(* counter that is not protected.                                          *)
(***************************************************************************)
EXTENDS Extents, Sequences

CONSTANTS
  Thread, NoThread,
  EndBlk,      \* blocks are 0 .. EndBlk - 1; 0 is the super block
  MinBlk,      \* MIN_BLK_NUM: bsm is filled when it has no more blocks than this
  MaxBlk,      \* MAX_BLK_NUM: the number of blocks it is filled up to
  SpaceCap,    \* entries that fit in one node of the SPACE tree
  BaseCap      \* entries that fit in one node of the BASE tree

ASSUME SpaceManagerAssumption ==
  /\ NoThread \notin Thread
  /\ EndBlk \in Nat /\ EndBlk > 3
  /\ MinBlk \in Nat /\ MaxBlk \in Nat /\ MinBlk < MaxBlk
  /\ SpaceCap \in Nat \ {0} /\ BaseCap \in Nat \ {0}

VARIABLES
  mgr,         \* the managers: index, hint, count and lock
  tree,        \* the blocks each index is stored in
  base_blk,    \* the block kept for the BASE tree, 0 if none
  held,        \* blocks of all other objects
  user,        \* where each thread is in ofs_alloc_space or ofs_free_space
  frame        \* where it is in sm_alloc_space or sm_free_space of each manager

vars == <<mgr, tree, base_blk, held, user, frame>>

Mgr == {"sm", "bsm"}
Cap == [m \in Mgr |-> IF m = "sm" THEN SpaceCap ELSE BaseCap]
Size(m) == Cardinality(tree[m].clean \cup tree[m].dirty)

(***************************************************************************)
(* A frame: the call's operation and arguments, the extents it still has   *)
(* to insert, and `req`, the request of its tree that is under way for the *)
(* block `old`.  pc goes from "enter" through                              *)
(*   "removed"   an extent was taken out of its node; in a tree of several *)
(*               nodes another may be put into a second node after it      *)
(*   "ready"     the place of an insertion was found                       *)
(*   "split"     ... and the nodes there are being split                   *)
(*   "inserted"  the extent is in its node                                 *)
(* to "done", from where the caller reads `ret`, `start` and `cnt`.        *)
(***************************************************************************)
NoCall == [pc |-> "idle", op |-> "none", start |-> 0, cnt |-> 0, ret |-> "ok",
           left |-> {}, req |-> "none", old |-> 0]
AllocCall(n) == [NoCall EXCEPT !.pc = "enter", !.op = "alloc", !.cnt = n]
FreeCall(s, n) == [NoCall EXCEPT !.pc = "enter", !.op = "free", !.start = s, !.cnt = n]

\* create_system_objects, before the first object that is not BASE or SPACE.
Init ==
  /\ mgr = [sm  |-> [ext |-> {[addr |-> 3, len |-> EndBlk - 3]},
                     first |-> 3, total |-> EndBlk - 3, lock |-> NoThread],
            bsm |-> [ext |-> {}, first |-> 0, total |-> 0, lock |-> NoThread]]
  /\ tree = [sm  |-> [clean |-> {}, dirty |-> {2}],
             bsm |-> [clean |-> {}, dirty |-> {1}]]
  /\ base_blk = 0
  /\ held = {}
  /\ user = [t \in Thread |-> "idle"]
  /\ frame = [t \in Thread |-> [m \in Mgr |-> NoCall]]

-----------------------------------------------------------------------------
(***************************************************************************)
(* sm_alloc_space and sm_free_space of manager m.                          *)
(***************************************************************************)
Done(t, m) == frame[t][m].pc = "done"
Frame(t, m, f) == frame' = [frame EXCEPT ![t][m] = f]

EnterAlloc(t, m) ==
  LET M == mgr[m]
      f == frame[t][m]
      found == Picks(M.ext, M.first, f.cnt)
  IN  /\ f.pc = "enter" /\ f.op = "alloc"
      /\ M.lock = NoThread
      /\ IF M.total = 0 \/ found = {}
         THEN /\ mgr' = [mgr EXCEPT ![m].total = 0,
                                    ![m].first = IF M.total = 0 THEN @ ELSE 0]
              /\ Frame(t, m, [f EXCEPT !.pc = "done", !.ret = "no_free_blocks"])
         ELSE \E e \in found :
                /\ mgr' = [mgr EXCEPT ![m].ext = @ \ {e}, ![m].lock = t]
                /\ Frame(t, m, [f EXCEPT
                     !.pc = "removed",
                     !.start = GivenStart(e, M.first, f.cnt),
                     !.cnt = GivenCount(e, M.first, f.cnt),
                     !.left = HeadPiece(e, M.first, f.cnt) \cup TailPiece(e, M.first, f.cnt)])
      /\ UNCHANGED <<tree, base_blk, held, user>>

EnterFree_Unlocked(t, m) ==
  LET f == frame[t][m]
  IN  /\ f.pc = "enter" /\ f.op = "free"
      /\ Hits(mgr[m].ext, f.start, f.cnt) = {}
      /\ Frame(t, m, [f EXCEPT !.pc = "ready", !.left = {[addr |-> f.start, len |-> f.cnt]}])
      /\ UNCHANGED <<mgr, tree, base_blk, held, user>>

EnterFree(t, m) ==
  LET f == frame[t][m]
  IN  /\ f.pc = "enter" /\ f.op = "free"
      /\ mgr[m].lock = NoThread
      /\ IF Hits(mgr[m].ext, f.start, f.cnt) # {}
         THEN Frame(t, m, [f EXCEPT !.pc = "done", !.ret = "error"]) /\ UNCHANGED mgr
         ELSE /\ mgr' = [mgr EXCEPT ![m].lock = t]
              /\ Frame(t, m, [f EXCEPT !.pc = "ready",
                                       !.left = {[addr |-> f.start, len |-> f.cnt]}])
      /\ UNCHANGED <<tree, base_blk, held, user>>

\* The last change of the index, if any, is stored in blocks of this session: the
\* blocks from the node to the root are dirty (set_ib_dirty).
Settled(t, m) ==
  /\ frame[t][m].req = "none"
  /\ frame[t][m].pc \in {"removed", "inserted"} => tree[m].dirty # {}

CanInsert(t, m) ==
  /\ frame[t][m].pc \in {"removed", "ready", "split", "inserted"}
  /\ frame[t][m].left # {}
  /\ Settled(t, m)

\* tree_insert_ie: the entry is put into its node, then the path is made dirty.
Insert(t, m) ==
  /\ CanInsert(t, m)
  /\ \E piece \in frame[t][m].left :
       /\ mgr' = [mgr EXCEPT ![m].ext = @ \cup {piece}]
       /\ frame' = [frame EXCEPT ![t][m].left = @ \ {piece}, ![t][m].pc = "inserted"]
  /\ UNCHANGED <<tree, base_blk, held, user>>

Leave_KeepsLock(t, m) ==
  /\ frame[t][m].pc \in {"removed", "inserted"} /\ frame[t][m].left = {} /\ Settled(t, m)
  /\ frame' = [frame EXCEPT ![t][m].pc = "done"]
  /\ UNCHANGED <<mgr, tree, base_blk, held, user>>

\* The end of the call: count and hint are updated and the lock is left.
Leave(t, m) ==
  LET f == frame[t][m]
  IN  /\ f.pc \in {"removed", "inserted"}
      /\ f.left = {}
      /\ Settled(t, m)
      /\ mgr' = [mgr EXCEPT
           ![m].first = IF f.op = "alloc" THEN f.start + f.cnt ELSE @,
           ![m].total = IF f.op = "free" THEN @ + f.cnt ELSE IF @ < f.cnt THEN @ ELSE @ - f.cnt,
           ![m].lock = NoThread]
      /\ Frame(t, m, [f EXCEPT !.pc = "done"])
      /\ UNCHANGED <<tree, base_blk, held, user>>

-----------------------------------------------------------------------------
(***************************************************************************)
(* The blocks an index asks for while it is changed.                       *)
(***************************************************************************)
\* A node on the path of a change that is clean is moved to a new block; all nodes
\* of a path may be clean, or only those near its leaf.
Movable(t, m) ==
  IF frame[t][m].req = "none" /\ frame[t][m].pc \in {"removed", "split", "inserted"}
  THEN tree[m].clean ELSE {}

\* Some node may have no room for one more entry: every other node but the root
\* has at least one.
Full(m) == Cardinality(mgr[m].ext) >= Cap[m] + (IF Size(m) > 2 THEN Size(m) - 2 ELSE 0)

\* Nodes but the root that may have lost their last entry; they are dirty by then.
Emptied(t, m) ==
  IF frame[t][m].pc = "removed" /\ Settled(t, m) /\ Size(m) > 1
  THEN tree[m].dirty ELSE {}

\* What goes on where nodes are split: the insertion of a piece, or a removal, which
\* inserts the entry of a node that was emptied, or the successor of one that was not in
\* a leaf, into another node (remove_leaf, remove_node).
Splitting(t, m) ==
  {pc \in {"split", "removed"} :
     IF pc = "split" THEN CanInsert(t, m)
     ELSE frame[t][m].pc = "removed" /\ Settled(t, m) /\ Size(m) > 1}

\* What the index may lose when a request fails: an entry that is out of its node, or one
\* half of a node that is split, with what hangs from it.
Losable(t, m) ==
  IF frame[t][m].pc \in {"removed", "split"} /\ Size(m) > 1 THEN mgr[m].ext ELSE {}

\* SPACE tree, set_ib_dirty: a block for a node, then the node's old block is freed.
Move(t) == \E b \in Movable(t, "sm") :
  /\ frame' = [frame EXCEPT ![t].sm.req = "move", ![t].sm.old = b, ![t].bsm = AllocCall(1)]
  /\ UNCHANGED <<mgr, tree, base_blk, held, user>>

Moved_KeepsOld(t) ==
  /\ frame[t].sm.req = "move" /\ Done(t, "bsm") /\ frame[t].bsm.ret = "ok"
  /\ tree' = [tree EXCEPT !.sm = [clean |-> @.clean \ {frame[t].sm.old},
                                  dirty |-> @.dirty \cup {frame[t].bsm.start}]]
  /\ frame' = [frame EXCEPT ![t].sm.req = "none", ![t].sm.old = 0, ![t].bsm = NoCall]
  /\ UNCHANGED <<mgr, base_blk, held, user>>

Moved_FreesNew(t) ==
  LET new == frame[t].bsm.start
  IN  /\ frame[t].sm.req = "move" /\ Done(t, "bsm") /\ frame[t].bsm.ret = "ok"
      /\ tree' = [tree EXCEPT !.sm = [clean |-> @.clean \ {frame[t].sm.old},
                                      dirty |-> @.dirty \cup {new}]]
      /\ frame' = [frame EXCEPT ![t].sm.req = "drop", ![t].bsm = FreeCall(new, 1)]
      /\ UNCHANGED <<mgr, base_blk, held, user>>

Moved(t) ==
  LET new == frame[t].bsm.start
      old == frame[t].sm.old
  IN  /\ frame[t].sm.req = "move" /\ Done(t, "bsm") /\ frame[t].bsm.ret = "ok"
      /\ tree' = [tree EXCEPT !.sm = [clean |-> @.clean \ {old}, dirty |-> @.dirty \cup {new}]]
      /\ frame' = [frame EXCEPT ![t].sm.req = "drop", ![t].bsm = FreeCall(old, 1)]
      /\ UNCHANGED <<mgr, base_blk, held, user>>

Dropped(t) ==
  /\ frame[t].sm.req = "drop" /\ Done(t, "bsm") /\ frame[t].bsm.ret = "ok"
  /\ frame' = [frame EXCEPT ![t].sm.req = "none", ![t].sm.old = 0, ![t].bsm = NoCall]
  /\ UNCHANGED <<mgr, tree, base_blk, held, user>>

\* SPACE tree, reparent_root and split_ib: one more node.
Split(t) == \E pc \in Splitting(t, "sm") :
  /\ Full("sm")
  /\ frame' = [frame EXCEPT ![t].sm.pc = pc, ![t].sm.req = "split", ![t].bsm = AllocCall(1)]
  /\ UNCHANGED <<mgr, tree, base_blk, held, user>>

HasSplit(t) ==
  /\ frame[t].sm.req = "split" /\ Done(t, "bsm") /\ frame[t].bsm.ret = "ok"
  /\ tree' = [tree EXCEPT !.sm.dirty = @ \cup {frame[t].bsm.start}]
  /\ frame' = [frame EXCEPT ![t].sm.req = "none", ![t].bsm = NoCall]
  /\ UNCHANGED <<mgr, base_blk, held, user>>

\* SPACE tree, check_removed_ib: the block of an empty node is freed.
Shrink(t) == \E b \in Emptied(t, "sm") :
  /\ tree' = [tree EXCEPT !.sm.dirty = @ \ {b}]
  /\ frame' = [frame EXCEPT ![t].sm.req = "drop", ![t].sm.old = b, ![t].bsm = FreeCall(b, 1)]
  /\ UNCHANGED <<mgr, base_blk, held, user>>

(***************************************************************************)
(* A request of the SPACE tree failed and its operation gives up where it  *)
(* is.  reparent_root and split_ib turn the error into one of their own;   *)
(* from set_ib_dirty it comes back as it is, and sm_alloc_space takes "no  *)
(* free blocks" from bsm for its own.  Left out: reparent_root also frees  *)
(* the memory of the new node, which the cache goes on using, and after a  *)
(* second split of one removal was refused the successor may stand in two  *)
(* nodes.                                                                  *)
(***************************************************************************)
GiveUp(t) ==
  LET f == frame[t].sm
      ret == frame[t].bsm.ret
  IN  /\ f.req # "none" /\ Done(t, "bsm") /\ ret # "ok"
      /\ \E code \in IF f.pc = "split" \/ f.req = "split" THEN {"error"}
                     ELSE IF f.pc = "removed" /\ Size("sm") > 1 THEN {"error", ret} ELSE {ret},
            lost \in SUBSET Losable(t, "sm") :
           LET none == f.op = "alloc" /\ code = "no_free_blocks"
           IN  /\ mgr' = [mgr EXCEPT !.sm = [ext |-> @.ext \ lost,
                                             first |-> IF none THEN 0 ELSE @.first,
                                             total |-> IF none THEN 0 ELSE @.total,
                                             lock |-> NoThread]]
               /\ frame' = [frame EXCEPT
                    ![t].sm = [f EXCEPT !.pc = "done", !.ret = code, !.req = "none"],
                    ![t].bsm = NoCall]
      /\ UNCHANGED <<tree, base_blk, held, user>>

\* BASE tree: base_blk is taken without a look at what it is, and what is freed
\* becomes base_blk without a look at what that was.
BaseMove(t) == \E b \in Movable(t, "bsm") :
  /\ base_blk' = 0
  /\ tree' = [tree EXCEPT !.bsm = [clean |-> @.clean \ {b}, dirty |-> @.dirty \cup {base_blk}]]
  /\ frame' = [frame EXCEPT ![t].bsm.req = "drop", ![t].bsm.old = b]
  /\ UNCHANGED <<mgr, held, user>>

BaseDropped(t) ==
  /\ frame[t].bsm.req = "drop"
  /\ base_blk' = frame[t].bsm.old
  /\ frame' = [frame EXCEPT ![t].bsm.req = "none", ![t].bsm.old = 0]
  /\ UNCHANGED <<mgr, tree, held, user>>

BaseSplit(t) == \E pc \in Splitting(t, "bsm") :
  /\ Full("bsm")
  /\ base_blk' = 0
  /\ tree' = [tree EXCEPT !.bsm.dirty = @ \cup {base_blk}]
  /\ frame' = [frame EXCEPT ![t].bsm.pc = pc]
  /\ UNCHANGED <<mgr, held, user>>

BaseShrink(t) == \E b \in Emptied(t, "bsm") :
  /\ tree' = [tree EXCEPT !.bsm.dirty = @ \ {b}]
  /\ frame' = [frame EXCEPT ![t].bsm.req = "drop", ![t].bsm.old = b]
  /\ UNCHANGED <<mgr, base_blk, held, user>>

-----------------------------------------------------------------------------
(***************************************************************************)
(* ofs_alloc_space of one block, with reserve_base_space, and              *)
(* ofs_free_space, for an object that is neither SPACE nor BASE.           *)
(***************************************************************************)
Goto(t, pc) == user' = [user EXCEPT ![t] = pc]
Call(t, m, f) == frame' = [frame EXCEPT ![t][m] = f]
Return(t, m) == Call(t, m, NoCall)

AllocBlock(t) ==
  /\ user[t] = "idle"
  /\ IF base_blk = 0
     THEN Goto(t, "base_block") /\ Call(t, "sm", AllocCall(1))
     ELSE Goto(t, "check") /\ UNCHANGED frame
  /\ UNCHANGED <<mgr, tree, base_blk, held>>

GotBaseBlock(t) ==
  /\ user[t] = "base_block" /\ Done(t, "sm") /\ frame[t].sm.ret = "ok"
  /\ base_blk' = frame[t].sm.start
  /\ Goto(t, "check") /\ Return(t, "sm")
  /\ UNCHANGED <<mgr, tree, held>>

\* The condition of the loop, the first read of the counter of bsm.
CheckReserve(t) ==
  /\ user[t] = "check"
  /\ IF mgr.bsm.total <= MinBlk
     THEN Goto(t, "reserve") /\ UNCHANGED frame
     ELSE Goto(t, "block") /\ Call(t, "sm", AllocCall(1))
  /\ UNCHANGED <<mgr, tree, base_blk, held>>

\* The second read.  A difference below 0 is a very large uint32_t: every block.
Reserve(t) ==
  /\ user[t] = "reserve"
  /\ Goto(t, "reserved")
  /\ Call(t, "sm", AllocCall(IF mgr.bsm.total <= MaxBlk THEN MaxBlk - mgr.bsm.total ELSE EndBlk))
  /\ UNCHANGED <<mgr, tree, base_blk, held>>

GiveToBase(t) ==
  /\ user[t] = "reserved" /\ Done(t, "sm") /\ frame[t].sm.ret = "ok"
  /\ Goto(t, "giving")
  /\ frame' = [frame EXCEPT ![t].sm = NoCall,
                            ![t].bsm = FreeCall(frame[t].sm.start, frame[t].sm.cnt)]
  /\ UNCHANGED <<mgr, tree, base_blk, held>>

GivenToBase(t) ==
  /\ user[t] = "giving" /\ Done(t, "bsm") /\ frame[t].bsm.ret = "ok"
  /\ Goto(t, "check") /\ Return(t, "bsm")
  /\ UNCHANGED <<mgr, tree, base_blk, held>>

\* A result of 0 blocks is not an error to the callers: they use the block.
GotBlock(t) ==
  /\ user[t] = "block" /\ Done(t, "sm") /\ frame[t].sm.ret = "ok"
  /\ held' = held \cup {frame[t].sm.start}
  /\ Goto(t, "idle") /\ Return(t, "sm")
  /\ UNCHANGED <<mgr, tree, base_blk>>

\* $OBJID, the object that lists the others, always has a block.
FreeBlock(t) == \E b \in held :
  /\ user[t] = "idle"
  /\ held # {b}
  /\ held' = held \ {b}
  /\ Goto(t, "free") /\ Call(t, "sm", FreeCall(b, 1))
  /\ UNCHANGED <<mgr, tree, base_blk>>

FreedBlock(t) ==
  /\ user[t] = "free" /\ Done(t, "sm") /\ frame[t].sm.ret = "ok"
  /\ Goto(t, "idle") /\ Return(t, "sm")
  /\ UNCHANGED <<mgr, tree, base_blk, held>>

Fails(t) ==
  /\ \/ user[t] \in {"base_block", "reserved", "block", "free"}
        /\ Done(t, "sm") /\ frame[t].sm.ret # "ok"
     \/ user[t] = "giving" /\ Done(t, "bsm") /\ frame[t].bsm.ret # "ok"
  /\ Goto(t, "idle")
  /\ frame' = [frame EXCEPT ![t] = [m \in Mgr |-> NoCall]]
  /\ UNCHANGED <<mgr, tree, base_blk, held>>

\* close_container and ofs_open_nolock: every node was written, none is dirty; the
\* counters, the hints and base_blk go through the super block.
Reopen ==
  /\ \A t \in Thread : user[t] = "idle"
  /\ held # {}
  /\ \E m \in Mgr : tree[m].dirty # {}
  /\ tree' = [m \in Mgr |-> [clean |-> tree[m].clean \cup tree[m].dirty, dirty |-> {}]]
  /\ UNCHANGED <<mgr, base_blk, held, user, frame>>

InManager(t, m) == EnterAlloc(t, m) \/ EnterFree(t, m) \/ Insert(t, m) \/ Leave(t, m)
InTree(t) ==
  \/ Move(t) \/ Moved(t) \/ Dropped(t) \/ Split(t) \/ HasSplit(t) \/ Shrink(t) \/ GiveUp(t)
  \/ BaseMove(t) \/ BaseDropped(t) \/ BaseSplit(t) \/ BaseShrink(t)
InUser(t) ==
  \/ GotBaseBlock(t) \/ CheckReserve(t) \/ Reserve(t) \/ GiveToBase(t) \/ GivenToBase(t)
  \/ GotBlock(t) \/ FreedBlock(t) \/ Fails(t)
\* What a thread does once it has called.
Continue(t) == (\E m \in Mgr : InManager(t, m)) \/ InTree(t) \/ InUser(t)

Next == Reopen \/ \E t \in Thread : AllocBlock(t) \/ FreeBlock(t) \/ Continue(t)

\* The threads run, and a lock that becomes free again and again is taken at last.
Spec == Init /\ [][Next]_vars /\ \A t \in Thread : SF_vars(Continue(t))
-----------------------------------------------------------------------------
FrameType ==
  [pc : {"idle", "enter", "removed", "ready", "split", "inserted", "done"},
   op : {"none", "alloc", "free"}, start : Nat, cnt : Nat,
   ret : {"ok", "no_free_blocks", "error"}, left : SUBSET Extent,
   req : {"none", "move", "split", "drop"}, old : Nat]

TypeOK ==
  /\ \A m \in Mgr : /\ mgr[m].ext \in SUBSET Extent
                    /\ mgr[m].first \in Nat /\ mgr[m].total \in Nat
                    /\ mgr[m].lock \in Thread \cup {NoThread}
                    /\ tree[m].clean \in SUBSET Nat /\ tree[m].dirty \in SUBSET Nat
  /\ base_blk \in 0 .. (EndBlk - 1)
  /\ held \in SUBSET (0 .. (EndBlk - 1))
  /\ \A t \in Thread : \A m \in Mgr : frame[t][m] \in FrameType

(***************************************************************************)
(* Where the blocks are: the super block, the two pools, the two trees,    *)
(* base_blk and the other objects; and in the hands of a thread, between   *)
(* the place they left and the place they go to.                           *)
(***************************************************************************)
Nodes(m) == tree[m].clean \cup tree[m].dirty
Places == <<{0}, Covered(mgr.sm.ext), Covered(mgr.bsm.ext), Nodes("sm"), Nodes("bsm"),
            {base_blk} \ {0}, held>>

Carried(t, m) ==
  LET f == frame[t][m]
  IN  Covered(f.left)
      \cup (IF \/ f.op = "alloc" /\ f.pc # "enter" /\ f.ret = "ok"
               \/ f.op = "free" /\ f.pc = "enter"
            THEN Run(f.start, f.cnt) ELSE {})
      \cup (IF m = "bsm" /\ f.req = "drop" THEN {f.old} ELSE {})

Apart(S) ==
  /\ \A i, j \in DOMAIN S : i # j => S[i] \cap S[j] = {}
  /\ \A t \in Thread, m \in Mgr :
       /\ \A i \in DOMAIN S : S[i] \cap Carried(t, m) = {}
       /\ \A u \in Thread, n \in Mgr : <<t, m>> # <<u, n>> => Carried(t, m) \cap Carried(u, n) = {}

(***************************************************************************)
(* Through every nesting of the three sources of blocks, no block has two  *)
(* owners and none is lost.                                                *)
(***************************************************************************)
BlocksConserved ==
  /\ Apart(Places)
  /\ (UNION {Places[i] : i \in DOMAIN Places})
       \cup (UNION {Carried(t, m) : t \in Thread, m \in Mgr}) = 0 .. (EndBlk - 1)

(***************************************************************************)
(* Even when requests of the trees fail and calls give up where they are,  *)
(* no block that can be allocated has two owners.                          *)
(***************************************************************************)
NoBlockTwice == Apart([i \in 2 .. Len(Places) |-> Places[i] \ {0}])

(***************************************************************************)
(* The counter is set to 0 ("no space") only when there is no space.       *)
(***************************************************************************)
NoSpaceIsTrue == mgr.sm.lock = NoThread /\ mgr.sm.total = 0 => Covered(mgr.sm.ext) = {}

\* While nobody is inside a manager its counter is the number of blocks it has.
Accounting ==
  \A m \in Mgr : mgr[m].lock = NoThread =>
    mgr[m].total = Cardinality(Covered(mgr[m].ext))

\* A call ends.
CallsEnd == \A t \in Thread : user[t] # "idle" ~> user[t] = "idle"
=============================================================================
