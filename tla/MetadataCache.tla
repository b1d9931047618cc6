--------------------------- MODULE MetadataCache ---------------------------
(***************************************************************************)
(* The blocks of a container in memory (src/object_system/                 *)
(* ofs_metadata_cache.c), what opening and closing objects and containers  *)
(* does to them, and the way they get to disk.  The cache of a block is    *)
(* in two trees sorted by block number: that of its object, where reads    *)
(* look, and that of the container, which is written when the container is *)
(* closed.  A changed block is never written over what is on disk: its     *)
(* cache gets another number, and the super block names the new tree last. *)
(*                                                                         *)
(* An object is an inode, with the root of its tree in it, and at most one *)
(* node below; its contents are one value, in the root or in the node.     *)
(* Dir is $OBJID, whose root has the inode number of every object.  Trees  *)
(* and free space in full are BTree and SpaceManager: here a block number  *)
(* is the next that is free from the hint on, and no call starts that      *)
(* would find none.                                                        *)
(*                                                                         *)
(* A block freed since the container was opened may be given again         *)
(* (mem.reused), and an object opened again (mem.again).  Either may give  *)
(* a number a second cache (mem.clash), and what avl_add makes of the      *)
(* trees then is not defined: the exploration ends.  It also ends (ct =    *)
(* "lost") where the flush of a container that has given a block again is  *)
(* not completed: blocks the super block leads to may be written over.     *)
(***************************************************************************)
EXTENDS Integers, FiniteSets, FiniteSetsExt

CONSTANTS
  Objects,      \* ids of user objects
  Values,       \* contents of an object; 0 is what a new one has
  LastBlk       \* bound: blocks of the container

ASSUME CacheAssumption ==
  Objects \subseteq Nat \ {0} /\ 0 \in Values /\ LastBlk \in Nat \ {0}

VARIABLES
  disk,         \* what each block has on disk
  sb,           \* the super block: where the inode of $OBJID is, the free blocks, the hint
  ct,           \* what the container does
  mem,          \* [cache, info, free, hint, dir] of the open container, and what has
                \* happened since it was opened: fresh are the free blocks that were free
                \* then, met the objects that were open, [clash, again, reused] as above
  failed        \* a read or a write has failed

vars == <<disk, sb, ct, mem, failed>>

Dir == 0
NoObject == -1
NoBlk == 0

Blk == 1 .. LastBlk

Inode(v, c) == [kind |-> "inode", val |-> v, child |-> c]
Node(v) == [kind |-> "index", val |-> v]
DirInode(e) == [kind |-> "inode", entry |-> e]
\* A block torn by a crash, or never written; memory never written.
Bad == [kind |-> "bad"]

Closed == [inode |-> NoBlk, root |-> NoBlk, dirty |-> FALSE]

\* No container is open: free blocks are as the super block says.
Empty(s) ==
  [cache |-> [b \in {} |-> 0], info |-> [o \in Objects \cup {Dir} |-> Closed],
   free |-> s.free, hint |-> s.hint, fresh |-> s.free, dir |-> s.dir,
   clash |-> FALSE, met |-> {}, again |-> FALSE, reused |-> FALSE]

IsOpen(o) == mem.info[o] # Closed

-----------------------------------------------------------------------------
(* Steps of memory m.                                                      *)

\* insert_obj_cache.  avl_add does not say what becomes of a tree that has the number.
AddCache(m, b, c) ==
  IF b \in DOMAIN m.cache THEN [m EXCEPT !.clash = TRUE]
  ELSE [m EXCEPT !.cache = [x \in DOMAIN @ \cup {b} |-> IF x = b THEN c ELSE @[x]]]

RemoveCache(m, b) == [m EXCEPT !.cache = [x \in DOMAIN @ \ {b} |-> @[x]]]

\* change_obj_cache_vbn
Renumber(m, b, new) == AddCache(RemoveCache(m, b), new, m.cache[b])

Fresh_Unchecked(m) == IF m.hint \in Blk THEN m.hint ELSE 1

\* The block OFS_ALLOC_BLOCK gives.
Fresh(m) ==
  LET ahead == {b \in m.free : b >= m.hint}
  IN  Min(IF ahead # {} THEN ahead ELSE m.free)

Taken_Kept(m) == [m EXCEPT !.free = @ \ {Fresh(m)}, !.hint = Fresh(m) + 1]
Taken(m) ==
  LET b == Fresh(m)
  IN  [m EXCEPT !.free = @ \ {b}, !.fresh = @ \ {b}, !.hint = b + 1,
                !.reused = @ \/ b \in m.free \ m.fresh]

\* OFS_FREE_BLOCK
Freed(m, b) == [m EXCEPT !.free = @ \cup {b}]

OfRoot(m, o) == m.cache[m.info[o].inode].data

MoveRoot_InPlace(m, o) == [m EXCEPT !.info[o].dirty = TRUE]

\* set_ib_dirty of the root: its number changes in root_cache only.
MoveRoot(m, o) ==
  IF m.info[o].dirty THEN m
  ELSE Freed([Taken(m) EXCEPT !.info[o] = [@ EXCEPT !.root = Fresh(m), !.dirty = TRUE]],
             m.info[o].root)

\* A change of the root of o to d.
SetRoot(m, o, d) ==
  LET new == MoveRoot(m, o) IN [new EXCEPT !.cache[m.info[o].inode].data = d]

NodeOf(m, o) == OfRoot(m, o).child

\* A change of the node below to v, and set_ib_dirty from there to the root.
SetNode(m, o, v) ==
  LET b == NodeOf(m, o)
      changed(x, n) == [x EXCEPT !.cache[n] = [@ EXCEPT !.state = "dirty", !.data = Node(v)]]
  IN  IF m.cache[b].state = "dirty" THEN changed(m, b)
      ELSE SetRoot(Freed(changed(Renumber(Taken(m), b, Fresh(m)), Fresh(m)), b),
                   o, Inode(0, Fresh(m)))

\* validate_obj_inode: the inode is kept under the number its root has got, and what
\* leads to it is told; for $OBJID that is the super block in memory.
Validated(m, o) ==
  LET i == m.info[o]
      marked == [m EXCEPT !.cache[i.inode].state = "dirty"]
      moved == Renumber(marked, i.inode, i.root)
  IN  IF ~i.dirty THEN m
      ELSE IF i.root = i.inode THEN marked
      ELSE IF o = Dir THEN [moved EXCEPT !.dir = i.root]
      ELSE SetRoot(moved, Dir, DirInode([OfRoot(moved, Dir).entry EXCEPT ![o] = i.root]))

Released_Dropped(m, o) ==
  [m EXCEPT !.cache = [b \in {x \in DOMAIN @ : @[x].owner # o} |-> @[b]], !.info[o] = Closed]

\* release_obj_all_cache: what has to be written stays in the tree of the container.
Released(m, o) ==
  LET stays == {b \in DOMAIN m.cache : m.cache[b].owner # o \/ m.cache[b].state = "dirty"}
  IN  [m EXCEPT !.cache = [b \in stays |-> IF @[b].owner = o
                                           THEN [@[b] EXCEPT !.owner = NoObject] ELSE @[b]],
                !.info[o] = Closed]

CloseObjectOf(m, o) == Released(Validated(m, o), o)

Cache(o, state, data) == [owner |-> o, state |-> state, data |-> data]

\* open_object: the inode is read from disk.
OpenObjectOf(m, o, b) ==
  LET new == AddCache(m, b, Cache(o, "clean", disk[b]))
  IN  [new EXCEPT !.info[o] = [inode |-> b, root |-> b, dirty |-> FALSE]]

-----------------------------------------------------------------------------

Init ==
  /\ sb = [dir |-> 1, free |-> Blk \ {1}, hint |-> 2]
  /\ disk = [b \in Blk |-> IF b = 1 THEN DirInode([o \in Objects |-> NoBlk]) ELSE Bad]
  /\ ct = "closed"
  /\ mem = Empty(sb)
  /\ failed = FALSE

\* ofs_read_block_fixup: the block is sound and of the kind that is expected there.
Readable(b, kind) == disk[b].kind = kind

OpenContainer ==
  /\ ct = "closed" /\ Readable(sb.dir, "inode")
  /\ ct' = "open"
  /\ mem' = OpenObjectOf(Empty(sb), Dir, sb.dir)
  /\ UNCHANGED <<disk, sb, failed>>

\* The super block or an inode cannot be read: close_container, and nothing is written.
OpenFails ==
  /\ ct = "closed"
  /\ UNCHANGED vars

\* n blocks can be taken, the one that $OBJID needs when it changes first among them.
Room(n) == Cardinality(mem.free) + (IF mem.info[Dir].dirty THEN 1 ELSE 0) >= n

CreateObject(o) ==
  /\ ct = "open" /\ ~IsOpen(o) /\ OfRoot(mem, Dir).entry[o] = NoBlk /\ Room(3)
  /\ LET b == Fresh(mem)
         new == AddCache(Taken(mem), b, Cache(o, "dirty", Inode(0, NoBlk)))
         opened == [new EXCEPT !.info[o] = [inode |-> b, root |-> b, dirty |-> TRUE],
                               !.met = @ \cup {o}]
     IN  mem' = SetRoot(opened, Dir, DirInode([OfRoot(opened, Dir).entry EXCEPT ![o] = b]))
  /\ UNCHANGED <<disk, sb, ct, failed>>

OpenObject(o) ==
  /\ ct = "open" /\ ~IsOpen(o) /\ OfRoot(mem, Dir).entry[o] # NoBlk
  /\ LET b == OfRoot(mem, Dir).entry[o]
     IN  /\ b \in DOMAIN mem.cache \/ Readable(b, "inode")
         /\ mem' = [OpenObjectOf(mem, o, b) EXCEPT !.met = @ \cup {o},
                                                  !.again = @ \/ o \in mem.met]
  /\ UNCHANGED <<disk, sb, ct, failed>>

\* index_block_read2 of the node below the root, when the object has no cache of it.
ReadNode(o, well) ==
  /\ ct = "open" /\ IsOpen(o)
  /\ LET b == NodeOf(mem, o)
         held == b \in DOMAIN mem.cache /\ mem.cache[b].owner = o
     IN  /\ b # NoBlk /\ ~held
         /\ well => Readable(b, "index")
         /\ mem' = AddCache(mem, b, IF well THEN Cache(o, "clean", disk[b])
                                    ELSE Cache(o, "empty", Bad))
  /\ failed' = (failed \/ ~well)
  /\ UNCHANGED <<disk, sb, ct>>

\* An insertion, a removal or an update in the tree of o.
HasNode(o) == NodeOf(mem, o) \in DOMAIN mem.cache

Change(o, v) ==
  /\ ct = "open" /\ IsOpen(o)
  /\ \/ NodeOf(mem, o) = NoBlk /\ Room(2) /\ mem' = SetRoot(mem, o, Inode(v, NoBlk))
     \/ HasNode(o) /\ Room(3) /\ mem' = SetNode(mem, o, v)
  /\ UNCHANGED <<disk, sb, ct, failed>>

\* reparent_root: what the root had goes to a new node.
Grow(o) ==
  /\ ct = "open" /\ IsOpen(o) /\ NodeOf(mem, o) = NoBlk /\ Room(3)
  /\ LET b == Fresh(mem)
         v == OfRoot(mem, o).val
     IN  mem' = SetRoot(AddCache(Taken(mem), b, Cache(o, "dirty", Node(v))), o, Inode(0, b))
  /\ UNCHANGED <<disk, sb, ct, failed>>

\* check_removed_ib: the last entry of the node is gone.  Its cache stays under its number.
Shrink(o) ==
  /\ ct = "open" /\ IsOpen(o) /\ HasNode(o) /\ Room(2)
  /\ LET b == NodeOf(mem, o)
         gone == Freed([mem EXCEPT !.cache[b].state = "empty"], b)
     IN  mem' = SetRoot(gone, o, Inode(0, NoBlk))
  /\ UNCHANGED <<disk, sb, ct, failed>>

CloseObject(o) ==
  /\ ct = "open" /\ IsOpen(o) /\ Room(1)
  /\ mem' = CloseObjectOf(mem, o)
  /\ UNCHANGED <<disk, sb, ct, failed>>

CloseContainer ==
  /\ ct = "open" /\ Room(1)
  /\ ct' = "closing"
  /\ UNCHANGED <<disk, sb, mem, failed>>

\* close_container closes the objects in the order of their ids, $OBJID last.
CloseNext ==
  /\ ct = "closing"
  /\ LET users == {o \in Objects : IsOpen(o)}
     IN  IF users # {} THEN mem' = CloseObjectOf(mem, Min(users)) /\ UNCHANGED ct
         ELSE mem' = CloseObjectOf(mem, Dir) /\ ct' = "flush"
  /\ UNCHANGED <<disk, sb, failed>>

Dirty == {b \in DOMAIN mem.cache : mem.cache[b].state = "dirty"}

\* ofs_update_block_fixup of the next block, which puts d on the disk.
Written(d) == [disk EXCEPT ![Min(Dirty)] = d]

\* flush_fs_dirty_cache, in the order of the numbers.
FlushBlock ==
  /\ ct = "flush" /\ Dirty # {}
  /\ disk' = Written(mem.cache[Min(Dirty)].data)
  /\ mem' = RemoveCache(mem, Min(Dirty))
  /\ UNCHANGED <<sb, ct, failed>>

\* A write that fails ends the walk; flush_fs_cache goes on to the super block.
FlushFails ==
  /\ ct = "flush" /\ Dirty # {}
  /\ disk' \in {disk, Written(Bad)}
  /\ ct' = "super" /\ failed' = TRUE
  /\ UNCHANGED <<sb, mem>>

\* What free blocks have on disk is of no interest when the container is closed.
Forget(d, s) == [b \in Blk |-> IF b \in s.free THEN Bad ELSE d[b]]

\* What was freed and given again may be written now, and the super block on disk needs it.
Exposed == mem.reused /\ ct \in {"flush", "super"}

Undefined == mem.clash \/ ct = "lost"

Ended(d, s) ==
  /\ sb' = s /\ disk' = Forget(d, s)
  /\ ct' = IF Exposed /\ (s = sb \/ ct = "super") THEN "lost" ELSE "closed"
  /\ mem' = Empty(s)

SuperNow == [dir |-> mem.dir, free |-> mem.free, hint |-> mem.hint]

\* The super block is written when it has changed; then all caches are freed.
FlushSuper(well) ==
  /\ \/ ct = "super"
     \/ ct = "flush" /\ Dirty = {}
  /\ well \/ SuperNow.dir # sb.dir
  /\ Ended(disk, IF well /\ SuperNow.dir # sb.dir THEN SuperNow ELSE sb)
  /\ failed' = (failed \/ ~well)

\* The machine stops, perhaps in the middle of a write.
Crash ==
  /\ ct # "closed"
  /\ \E d \in {disk} \cup (IF ct = "flush" /\ Dirty # {} THEN {Written(Bad)} ELSE {}) : Ended(d, sb)
  /\ UNCHANGED failed

Step ==
  \/ OpenContainer \/ OpenFails \/ CloseContainer \/ CloseNext \/ FlushBlock \/ FlushFails \/ Crash
  \/ \E well \in BOOLEAN : FlushSuper(well)
  \/ \E o \in Objects :
       \/ CreateObject(o) \/ OpenObject(o) \/ Grow(o) \/ Shrink(o) \/ CloseObject(o)
       \/ \E well \in BOOLEAN : ReadNode(o, well)
       \/ \E v \in Values : Change(o, v)

Next ==
  \/ ~Undefined /\ Step
  \/ Undefined /\ UNCHANGED vars

Spec == Init /\ [][Next]_vars

-----------------------------------------------------------------------------

Datum ==
  {Inode(v, c) : v \in Values, c \in Blk \cup {NoBlk}} \cup {Node(v) : v \in Values}
    \cup {DirInode(e) : e \in [Objects -> Blk \cup {NoBlk}]} \cup {Bad}

\* Type invariant: open objects have the cache of their inode, numbers that may be given
\* are free.
TypeOK ==
  /\ \A b \in Blk : disk[b] \in Datum
  /\ sb.dir \in Blk /\ sb.free \subseteq Blk /\ sb.hint \in 1 .. LastBlk + 1
  /\ ct \in {"closed", "open", "closing", "flush", "super", "lost"}
  /\ mem.fresh \subseteq mem.free /\ mem.free \subseteq Blk
  /\ \A b \in DOMAIN mem.cache :
       mem.cache[b] \in [owner : Objects \cup {Dir, NoObject},
                         state : {"empty", "clean", "dirty"}, data : Datum]
  /\ \A o \in Objects \cup {Dir} :
       IsOpen(o) /\ ~mem.clash => mem.cache[mem.info[o].inode].owner = o

\* As long as no block that was freed in the session is given again and no object is opened
\* again, each cache that is added has a number of its own in the container, as avl_add
\* wants (insert_obj_cache).  A number can be that of the inode before its root moved, of an
\* emptied node, or of a block that a closed object left to be written: all of them keep
\* caches in the container although the first two are free.  In sessions that do give freed
\* blocks again, or open an object again, the code has no such guard and two caches meet.
EachBlockCachedOnce == ~mem.reused /\ ~mem.again => ~mem.clash

\* What avl.h asks of everyone who adds a node (avl_add): that none in the tree compares
\* equal to it.
NoNumberTwice == ~mem.clash

Unreadable == -2
Absent == -1

\* The contents of object o in the blocks at, where its inode is d.
ContentsOf(at, d) ==
  IF d.kind # "inode" THEN Unreadable
  ELSE IF d.child = NoBlk THEN d.val
  ELSE IF at[d.child].kind # "index" THEN Unreadable ELSE at[d.child].val

ContentsIn(at, d) ==
  [o \in Objects |->
     IF d.kind # "inode" THEN Unreadable
     ELSE IF d.entry[o] = NoBlk THEN Absent ELSE ContentsOf(at, at[d.entry[o]])]

\* What a start after a crash would find; while blocks it needs may be overwritten, nothing.
SavedContents ==
  IF Exposed \/ ct = "lost" THEN [o \in Objects |-> Unreadable] ELSE ContentsIn(disk, disk[sb.dir])

\* What is reached in memory: an open object has its root at hand.
Latest == [b \in Blk |-> IF b \in DOMAIN mem.cache THEN mem.cache[b].data ELSE disk[b]]

CurrentContents ==
  LET all == ContentsIn(Latest, IF IsOpen(Dir) THEN OfRoot(mem, Dir) ELSE Latest[mem.dir])
  IN  IF Undefined THEN SavedContents
      ELSE [o \in Objects |-> IF IsOpen(o) THEN ContentsOf(Latest, OfRoot(mem, o)) ELSE all[o]]

Promised == INSTANCE Store WITH
  Contents <- Values \cup {Absent}, current <- CurrentContents, saved <- SavedContents,
  ok <- ~failed /\ ~Undefined /\ ~Exposed

\* The caches, the trees on disk and the super block are a store: only calls change what
\* users see, and wherever the machine stops, the disk has what was saved last
\* (flush_fs_cache, set_ib_dirty, validate_obj_inode).  That is promised (ok) as long as the
\* disk fails no read or write, no number is cached twice, and outside the flushes of
\* sessions in which a freed block was given again: a crash in such a flush does lose what
\* was saved (alloc_space), but where it is completed the promise holds again.
ImplementsStore == Promised!Spec

\* Closing an object, and closing a container with objects still open, loses nothing that
\* users have changed, and when the container is closed all of it is saved, also of
\* objects closed before (close_object, close_container, release_obj_cache,
\* flush_fs_cache): also in sessions that give freed blocks again, or open objects again,
\* as long as no number is cached twice.
CloseSaves ==
  [][/\ ~failed' /\ ~mem'.clash
     /\ \/ \E o \in Objects : CloseObject(o)
        \/ ct \in {"closing", "flush", "super"} /\ ~Crash
     => /\ CurrentContents' = CurrentContents
        /\ ct' = "closed" => SavedContents' = CurrentContents]_vars
=============================================================================
