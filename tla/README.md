# A TLA+ development of the object file system

The repository is a C library that keeps *objects* (sorted tables and byte
streams, each a B-tree) in a *container* (a file used as a disk of 4 KiB blocks).
This directory holds its model: modules, TLC configurations, and proofs checked
by TLAPS. `src/` below is the root of the repository.

## 1. The system

| component | state | operations | works with |
|---|---|---|---|
| space manager (`ofs_space_manager.c`) | two managers `sm` and `bsm`, each an index of free extents, a hint, a counter, a lock; `base_blk` | `ofs_alloc_space`, `ofs_free_space`, `sm_alloc_space`, `sm_free_space`, `reserve_base_space` | its indexes are B-trees, which call it for their own blocks |
| B-tree (`ofs_btree.c`) | nodes, a cursor (stacks of nodes and positions) in each handle | search, insert, remove, update, walk | takes nodes from the metadata cache, blocks from the space manager, orders from collation |
| metadata cache (`ofs_metadata_cache.c`) | blocks per object and per container, each empty, clean, dirty or to be flushed | read, allocate, change number, release, flush | guarded blocks; on flush, the super block |
| guarded blocks and super block (`ofs_block_rw.c`, `ofs_block.h`) | copies of the super block with sequence numbers; foot marks | write and read one guarded block; ping-pong write and read | disk layer |
| object manager (`ofs_object_manager.c`) | objects, their reference counts, handles, inodes, locks | create, open, close, info, handle | container list, B-tree of `$OBJID`, cache |
| container manager (`ofs_container_manager.c`) | list of open containers, reference counts, flags | create, open, close, walk | all of the above |
| collation (`ofs_collate.c`) | none | orders of strings, numbers, extents | B-tree |
| AVL tree (`avl.c`) | nodes with links and balances | find, nearest, add, remove, update, walk all, destroy | lists of containers, objects and caches |
| tools (`src/tools`) | the threads of `perf` | the commands of the console | containers and objects |
| disk layer (`os_file_if.c`) | a stdio stream | positioned read and write | - |

Calls go downwards through this table but for one loop, which is where the
system is hard: the space manager keeps its free extents in B-trees, a B-tree
never overwrites a block of an earlier session but moves it to a new one
(`set_ib_dirty`), and the new block comes from the space manager. The loop is cut
by giving the SPACE tree its blocks from a small second pool, whose BASE tree
takes its blocks from one single block, `base_blk`.

What else is hard: locks that nest (`sm` before `bsm`) beside fields that have none
(`base_blk`, the counter tested by `reserve_base_space`); errors halfway through
a change that has already removed something; a cache that is written back only
when the container is closed; a super block that must survive a crash in its own
update; a removal in a B-tree that may have to insert and to split.

What makes each part correct:

* space manager: every block is in one place; the counter that alone decides
  whether a request is refused is exact; a refusal means that nothing is left;
  every call ends.
* super block: an open finds the last complete copy, whatever was damaged.
* B-tree: it is a sorted map; entries are found wherever nodes were split.
* cache: what was changed is what is read, now and after the next open.
* objects: what is in use is not freed, locks are left, no caller waits for ever.
* AVL tree: a search tree, balanced, that can be walked while nodes are taken out.

`PROJECT.json` lists the components, with those that are not modelled, and under
`hazards` the places in the code where these can go wrong.

## 2. Modules

| module | what it is |
|---|---|
| `Extents` | operators: the order of extents, which extent a request is served from, what is given and what is put back (`alloc_space`, `free_space`, `os_collate_extent`) |
| `BlockPool` | abstract: a set of blocks, of which runs are allocated and released |
| `SpacePool` | one space manager as a state machine over `Extents`; it implements `BlockPool` |
| `Extents_proofs` | lemmas about the operators of `Extents` |
| `SpacePool_proofs` | the proofs about `SpacePool` |
| `SpaceManager` | both managers, the two trees' requests for blocks, `base_blk`, several threads |
| `SpaceManager_proofs` | the proofs about `SpaceManager` |
| `Superblock` | the copies of the super block through creations, opens, closes and crashes |
| `Superblock_proofs` | the proofs about `Superblock` |
| `IndexNode` | operators: the entries of one index block, where a search stops, where a node is cut in two |
| `BTree` | a table as a tree of index blocks: cursor, search, insertion, removal, update, walks |
| `AVL` | the balanced tree of the lists and caches |
| `Collation` | operators: the orders of keys and the conversions of numbers and extents |
| `Collation_proofs` | the proofs about the orders of keys and what numbers are written and read as |
| `Store` | abstract: contents of objects, saved all at once |
| `MetadataCache` | blocks in memory and on disk through changes, closes, the flush and crashes; it implements `Store` |
| `MetadataCache_inv` | the invariant of `MetadataCache`, and one lemma for each step that changes memory or disk |
| `MetadataCache_proofs` | each call is a chain of those steps, each action keeps the invariant, and the theorems |
| `Objects` | containers and objects with references, handles and locks, under the commands of the tools |
| `Objects_proofs` | the proofs about `Objects` |
| `MC...` | these modules for TLC |

Operators called `Name_Variant` are plausible mistakes in `Name`. No specification
uses them; each is there to see that a property notices it.

### Extents, SpacePool

An index is a set of extents `[addr, len]`. In the order of the index, two extents
that overlap are equal, so a search finds any extent that overlaps the range
`[hint, hint + n)`; which one, when there are several, depends on the shape of the
tree, so `Picks` returns all of them and the action takes any. `AllocFrom` is the
rest of `alloc_space` and of `sm_alloc_space`; `HeadPiece` and `TailPiece` are the
insertions it makes. `Free` is `sm_free_space`. Both functions hold the lock of the
manager from first to last, hence one action each. `held` is a history variable:
the blocks the callers have. Callers release only what they hold; every caller
in `src/` does.

### SpaceManager

The index is as in `SpacePool`, but updating it may need blocks. A thread has a
frame (operation, arguments, pieces still to insert, request of the tree under
way) for each manager, because a call of `sm` may be waiting for a nested call of
`bsm`. The steps follow the code between points at which threads can meet: taking
and leaving a lock, and touching `base_blk` or an unprotected counter.

| code | actions |
|---|---|
| `sm_alloc_space`, `alloc_space`, `sm_free_space`, `free_space` | `EnterAlloc`, `EnterFree`, `Insert`, `Leave`, `GiveUp` |
| `set_ib_dirty` (a clean node moves) | `Move`, `Moved`, `Dropped`; for the BASE tree `BaseMove`, `BaseDropped` |
| `reparent_root`, `split_ib` | `Split`, `HasSplit`; `BaseSplit` |
| `check_removed_ib` | `Shrink`; `BaseShrink` |
| `reserve_base_space` | `AllocBlock`, `GotBaseBlock`, `CheckReserve`, `Reserve`, `GiveToBase`, `GivenToBase` |
| `ofs_alloc_space`, `ofs_free_space` for another object | `AllocBlock`, `GotBlock`, `FreeBlock`, `FreedBlock`, `Fails` |
| close and open | `Reopen`: every node is clean again; counters, hints and `base_blk` go through the super block |

Of a tree only its blocks are kept, clean or dirty, not its shape: any clean node
may be on the path of a change, a node may be full when the entries would not fit
otherwise, a dirty node may lose its last entry. `SpaceCap` and `BaseCap` are the
entries per node. A node splits where a piece is inserted, or where a removal inserts again
(`remove_leaf`, `remove_node`; `Splitting`), and that one may come when all pieces are in. A request
that is refused while the tree is being rebuilt may lose entries of the index with it
(`Losable`), and its code is that of the tree or, for a split, of the insertion. `ASSERT` is empty
in the Linux user build, so an assertion is not a guard. With an empty `base_blk`, `BaseSplit`
is given block 0, as in the code.

What is left out of a failure: `reparent_root`, when `set_ib_dirty` fails after it, frees the memory
of the new node (line 917) while the cache still points to it, and its block stays with the
tree; the model has the second and not the first. Nor has it what `longer_successor` shows, two copies of
one extent in the SPACE tree: here the index is a set.

### Superblock

`slot` holds the copies; a copy has a number in its head, one in its foot, and was
written completely or not. Because the disk layer is a stdio stream, a write is
`pending` until the next access: then it lands, is lost, or only its front is
written. `Found` is `get_last_correct_block`: the run of consecutive numbers from
slot 0, then backwards to the first copy that is sound. `Open` refuses one that is sound and
not whole, for that is the front of copy 0 over zeros: its foot, 0, is the number it should
be, and `fixup_block` puts `magic_num`, which lies there, right from the head; but the
version is in the two bytes before it and still 0, so `check_super_block` fails.
A container that has copy 0 only has no system objects, and the code does not open it; the model
does, and so has more behaviours there. `newest` and `trouble` are history variables.

### IndexNode, BTree

A node is the sequence of its entries, the last of which is END; a position is an
index in it, where the code has a byte offset. Lengths are kept, since they decide
when and where a node is split. `path` is the cursor: `cache_stack` with
`position_stack`. Every call is made under a lock that it holds to its end, so calls
do not interleave; `call` says which runs and what comes next. A step ends where the
code calls `set_ib_dirty`, because there a block may be refused: `Change` writes the
nodes and moves any number of those that are to move (`SetIbDirty`), and a call
that is refused one is over. Values, which only make entries longer, are left out.

| code | actions |
|---|---|
| `index_insert_key_nolock` | `InsertKey` |
| `tree_insert_ie`: the entry fits, the root is full, a node is full | `InsertIE`, `ReparentRoot`, `SplitIB` |
| `index_remove_key_nolock`, `index_update_value` | `RemoveKey`; `UpdateValue`, `InsertAgain` |
| `remove_node`: to its first `set_ib_dirty`, from its second walk | `RemoveNode`, `NextEntry`, with `InsertIE` in between |
| `remove_leaf`, `check_removed_ib`: the entry, the emptied tree, the emptied leaf | `RemoveLeaf`, `RemoveAll`, `RemoveEmpty`; then `InsertIE` |
| `walk_tree` forwards and backwards, `index_search_key_nolock` | `First`, `NextIE`, `LastKey`, `PrevIE`, `Search` with `UpToKey`, used by the properties |
| close and open | `Reopen`: no node is dirty any more, the handle is new |

An update of a key that is not there is an insertion (the code drops the result of
the removal). A new node takes the least number that the tree does not use (`Fresh`), which may be
one that it has freed in the same session; what comes of that in the cache and on the disk
belongs to `MetadataCache`. `stored` is a history variable: the keys that the calls so far
should have left.

### AVL, Collation

A node is named by its value and has the links of `avl_node_t`: two children, the
parent, the side on which it hangs, the balance. `Find`, `Nearest`, `Insert`,
`InsertHere`, `TakeOut` (`avl_remove`), `Update` and `Rotate` are its functions, with
their loops as recursive operators. Callers hold a lock of their own, so a call is a
step, except where control goes back to the caller between two turns:

| code | actions |
|---|---|
| `avl_add`, `avl_remove`, `avl_insert_here`, `avl_update` with `_lt` and `_gt` | `AddNode`, `RemoveNode`, `InsertBeside`, `UpdateNode` |
| `avl_walk_all`: its start, a callback that keeps or removes the node or stops | `StartWalk`, `Visit`, `EndWalk` |
| `avl_destroy_nodes`: the first call, another one, the last | `StartDestroy`, `DestroyNext`, `Destroyed` |

`avl_add` is modelled for a node that is not in the tree, which `avl.h` demands. Of one that is
(lines 653 to 659) the assertion is empty and the insertion goes to wherever an uninitialised
variable points, of which no outcome can be listed; that a caller comes to it is what
`NoNumberTwice` of the run `reopened` shows.

`Collation` is functions. Bytes are digits below `Base`, 64-bit numbers have `Width`
digits and wrap around (`Wrap`), a character with its high bit set is negative, as a
`char` is. `operands` holds one call's arguments, so that TLC tries all of them. By the rule
"unicode" `collate_key` gives `os_collate_unicode_string`, which counts characters of two bytes, the
lengths in bytes (lines 400 to 402). So it compares twice the length, and what is in memory behind
the keys counts too: the values of `operands`, any letters. `NamesOrdered` says of such keys
only what holds in spite of that: they are told apart where they differ at a place both have. Equal
keys may compare unequal. No index in `src/` uses `CR_UNICODE_STRING`, so no run is about it.

### Store, MetadataCache

The cache of a block is in two trees, of its object and of the container; `mem.cache`
is the second, and `owner` says in whose first it is. The number of a cache and the
number an object's root has got differ until the object is closed (`info.inode` and
`info.root`), which is the point of `Validated`. An object has a root and at most one
node below it, and one value for its contents; the directory `$OBJID` has a root only.

| code | actions |
|---|---|
| `ofs_create_object`, `ofs_open_object`, `close_object` | `CreateObject`, `OpenObject`, `CloseObject` with `Validated` (`validate_obj_inode`) and `Released` (`release_obj_all_cache`) |
| `index_block_read2` | `ReadNode`, with a read that fails |
| a change of a table: `set_ib_dirty`, `reparent_root`, `check_removed_ib` | `Change`, `Grow`, `Shrink` |
| `ofs_open_container`, `close_container` | `OpenContainer`, `OpenFails`; `CloseContainer`, `CloseNext` |
| `flush_fs_cache` | `FlushBlock`, `FlushFails`, `FlushSuper` |
| (the machine stops) | `Crash`, also in the middle of a write |

`alloc_space` is here the next free block from the hint (`Fresh`), which may be one that was freed
in this session (`mem.reused`), and an object may be opened again in it (`mem.again`). Where a number gets
a second cache (`mem.clash`), and where a flush that may have written over blocks the super
block needs is not completed (`ct` is "lost"), the exploration ends.
The refinement: `saved` of `Store` is what an open after a crash would read from the disk,
`current` is what is reached through the caches.

### Objects

A call takes its lock and looks (`Lock`), then acts on what it saw and leaves the lock
(one action per call); what it saw is kept in between, so that a lock taken too late
would show. A command is the sequence of its calls (`cmd_create`, `cmd_close`, ...), and
when a call fails the commands that have opened the container themselves close it.

| code | actions |
|---|---|
| `ofs_create_container`, `ofs_open_container`, `ofs_close_container` | `CreateContainer`, `OpenContainer`, `CloseContainer` |
| `ofs_get_container_handle`, `ofs_walk_all_opened_container` | `GetContainer`, `Walk` |
| `ofs_create_object`, `ofs_open_object`, `ofs_close_object` | `CreateObject`, `OpenObject`, `CloseObject` |
| `ofs_get_object_info`, `ofs_get_object_handle` | `GetObject` |
| `print_super_block`; a change or walk of a table | `Show`; `Use` |
| `parse_and_exec_cmd`, `quit` | `Execute`, `Exit` |
| `test_performance` and its threads | `StartPerf`, `StartWorker`, `CountWorker`, `StartFails`, `EndWorker`, `WaitOver` |

`stale` and `twice` are history variables: who has a pointer to freed memory, and
whether something has been put in a list that had it.

## 3. Runs

| run | instance | shows |
|---|---|---|
| `pool` | 7 blocks, runs of 1 to 3 | the five invariants of one manager, and that it implements `BlockPool` |
| `one_thread` | 11 blocks, nodes that never fill | every block has one place through all nesting and any number of sessions (`BlocksConserved`) |
| `small_nodes` | 9 blocks, nodes of 1 and 2 entries | with splits, shrinking and failures halfway, no block gets a second owner (`NoBlockTwice`) |
| `two_threads` | 7 blocks, 2 threads | counters stay exact and calls end under every interleaving of locked and unlocked steps |
| `super_block` | 4 slots, numbers modulo 12 | an open always finds the last complete copy (`ReadsNewest`); what it would find is never set back (`NeverSetBack`) |
| `btree` | 6 keys in any order over 2 sessions; 9 keys filled in any order; 10 keys in ascending order and then removed | the table is the sorted set of its keys for walks and searches (`TreeIsTable`, `SearchStopsNear`); the halves of a node that is split have room for the new entry, leaves are at one depth and not empty, no block is lost, a moved node has a moved parent; calls end |
| `avl` | 12 values; neighbours, updates, walks and destruction in trees of 8; keys of up to 3 digits | a balanced search tree after any operations, walks that see every node though callbacks remove them, destruction in an order that is safe; the orders are orders |
| `cache` | 2 objects, 5 blocks, any number of sessions | the container is a store (`ImplementsStore`) through crashes between and in all writes; no number is cached twice, unless a freed block is given again or an object opened again; closing loses nothing (`CloseSaves`) |
| `objects` | 1 container, 2 objects, the console and 2 threads of `perf` | nothing in use is freed, nothing is opened or created twice, and an object is lost only with its file or when the update of `$OBJID` fails at its close; commands end, but for the hang below |
| `longer_successor` | 12 keys, entries of several lengths | finding: a removal loses another key |
| `reopened` | as `cache`, one block more | finding: an object is opened again, and a number is cached twice |
| `no_space` | 10 blocks | finding: the counter is zeroed though there is space |

Bounds. Seven blocks and runs of three are the least with which a released run lies
around the hint and an extent is cut in three. In `SpaceManager`, `MinBlk` and
`MaxBlk` stand for 3 and 10: with 0..3 in their place bsm is refilled, emptied and
exhausted within eleven blocks. Node capacities of one or two make both trees
split twice and shrink; larger ones leave each tree a single node. The number of
sessions and of calls is not bounded. Four slots and twelve numbers are the least
multiple with which the numbers wrap around over slots of three generations.
Two threads are enough for each race listed: one between test and use of another.

In `BTree`, `TreeAssumption` gives a node room for three of the longest entries and the
root for one. The code's documented maxima (`KEY_MAX_SIZE`, `VALUE_MAX_SIZE`, a block of
4096) give that, though nothing enforces them; without it `split_ib` would write past
its block. Six keys, four of the greatest length and two short, make two levels, split
leaves on both sides and empty them from either end. `split_ib` cuts a node where half of its bytes
end, which with long entries first is not half of its entries: a leaf with three long entries and three
short ones, to which a long one comes, has room for it in either half only because of
that. `FillNext` makes all such leaves, with nine keys that come in any order. Ten long keys make three levels.
`GrowNext` and `FillNext` restrict the order of the calls, not what a call does. Lengths fall with the
key, so that no successor is longer than the entry it replaces: `longer_successor` is what happens
otherwise. `MaxDepth` is never the reason for a refusal that a lack of blocks would not be.
The exploration goes on to the first call that fails.

In `AVL`, twelve nodes are the least tree in which one removal makes two rotations. The
comparisons are tried with `Base` 2 and `Width` 3 in the place of 256 and 8: every key of up to
three bytes, with and without zeros in front, and every overflow of an extent's end. Names
have up to two characters, and unicode ones as many behind them.

`MetadataCache` has two bounds. Five blocks: the directory, an object with a node and room for
their moves, or two objects without; the hint passes the end in one session, so freed blocks are
given again. And no call starts when so few blocks are free that it may find none (`Room`):
refusals are the subject of `BTree` and `SpaceManager`.

What the code does not keep is in the model, and the properties name it. A block that was freed in a
session and given again may belong to the tree that the super block on disk names: a crash between
the first write of the flush and that of the super block leaves that tree overwritten. `ImplementsStore`
promises nothing in that time (`Exposed`), and all of it again when the flush is
completed. The block may also be the old number of a cache that is still there, and an object that is
opened again finds its old caches: `EachBlockCachedOnce` says that nothing else gives a number a
second cache, and `CloseSaves`, that even in these sessions nothing is lost at a close
as long as no number has two. The run `reopened` checks `NoNumberTwice`, without the condition.

In `Objects`, the console starts no command when a container or object has `MaxRef`
references, or a container as many lost read locks; two are enough for one user to
close while another stays. Two workers are enough for each race named in the
module: one between look and act of the other. Names do not interact but through the
lock of the list, so there is one.

`CHECK_DEADLOCK` is off in `objects` only, because there the console really stops: after
`close` or `list` of an object the lock of its container is left taken for reading, and
the next call that wants it for writing waits for ever.

Fairness. `SpaceManager!Spec` has strong fairness of `Continue(t)`, the steps of a
thread inside a call: a thread is scheduled for ever, and a lock that is free
again and again is obtained at last, as the rwlocks of pthreads give it. No thread
has to make a call. `CallsEnd` (nobody stays in a call for ever) rests on it.
`BTree!Fairness` is that of the one thread that runs the call: it goes on while it is
in one, that is, weak fairness of `Stage`, which is enabled throughout a call.
`Objects!Fairness` is weak fairness of the steps of each thread and of those of `perf`: the
threads run, and a thread that waits for a lock gets it when it stays free. No command
has to be given. `CallsReturn` says so with one exception, states in which
`ofs_get_object_info` has left a read lock behind.

### What the findings say

* `no_space`: releases split the SPACE tree, each taking a block from bsm, and
  nothing refills bsm on a release. After a reopen every node is clean, the next
  allocation needs a block to move one, bsm refuses, and `sm_alloc_space` takes
  that refusal for its own: `total_free_blocks` is 0 from then on, though the index
  is not empty. The extent it had removed is lost as well.
* `longer_successor`: the successor that takes a removed key's place makes an inner
  node split. `split_ib` leaves the cursor in the parent, and `remove_node` walks on from
  there: it removes the first entry of the next subtree, not the old copy of the
  successor. The call returns 0; one key is gone and another is there twice.
* `reopened`: the changed blocks of a closed object wait in the container's tree for
  the flush, but a read looks in the object's tree only. An object that is opened
  again in the same session is read from disk, as of the last session, and its caches are
  added to the container's tree beside those with the same numbers.

More places where the model shows what the code does, without a run of their
own: `reserve_base_space` of two threads may ask for 0 blocks, a unicode key is compared with what lies behind
it in memory, a crash in the flush of a session that has given a freed block again loses what was saved, an
object that has moved is lost when `$OBJID` cannot be updated at its close, a refused `set_ib_dirty` leaves a parent that leads to a freed block, and the
root of the BASE tree, when it splits, is given block 0.

## 4. Proofs

The theorems are about every value of the constants that the `ASSUME` of the module allows;
the runs show the same formulas on one instance.

| module | theorems | properties of the runs they state |
|---|---|---|
| `SpacePool_proofs` | `TypeCorrect`, `IndexStaysWellFormed`, `BlocksAreConserved`, `CounterIsExact`, `RefusalsAreHonest`, `Implementation` | all of `pool`, with the refinement of `BlockPool` |
| `SpaceManager_proofs` | `Types`, `CountersStayExact`; for one thread `OneOwner`, `Conservation` | all of `one_thread` and `small_nodes`, `Accounting` of `two_threads` |
| `Superblock_proofs` | `TypeOKAlways`, `ReadsNewestAlways`, `NeverSetBackEver` | all of `super_block` |
| `Objects_proofs` | `TypeOKAlways`, `MovedIsOpen`, `HeldIsLiveAlways`, `ListedOnceAlways`, `NothingLostEver` | all of `objects` but `CallsReturn` |
| `MetadataCache_proofs` | `TypeOKAlways`, `EachBlockCachedOnceAlways`, `ImplementsStoreAlways`, `CloseSavesAlways` | all of `cache`, with the refinement of `Store` |
| `Collation_proofs` | `NamesSorted`, `KeysSorted`, `KeysSortAsNumbers`, `NamesStayOrdered`, `NumbersStayCompared`, `ExtentsStayOrdered` | `NamesOrdered`, `NumbersCompare` and `ExtentsOrdered` of `avl`, all it checks of `Collation` |

In each module but the last they rest on one inductive invariant (`PoolInv`, `SpaceInv`, `SuperblockInv`,
`ObjectsInv`, `CacheInv`), which the theorem `Invariance` establishes. TLC finds each of them to hold on the
instance of its run.

### SpacePool

From `PoolAssumption` (the device starts after block 0 and has a block, requests are positive).
First the index alone, in `Extents_proofs`: `GivenRun` and `Carving` (the run given and the
pieces put back are exactly the extent), `OverlapIsSharing` and `NoHits` (the search
finds nothing exactly when no block is there), `CarvedIndex` and `GrownIndex` (the
index after an allocation and after a release), `FirstExists` and `SearchFinds`
(from the well-foundedness of <, a non-empty index has a first extent, so a search
with its two fallbacks finds one). Then `PoolInv`, the conjunction of the five
invariants. None is inductive alone: the counter stays natural because the run
given is covered by the index, whose cardinality it counts; the count needs the
extents disjoint; that a release does not overlap needs that no block is both
free and held. One lemma per action shows that it preserves `PoolInv` and which run
it moves, which is also the step of the refinement.

### SpaceManager

From `SpaceManagerAssumption`: the device has a block besides the first three, and the number of
blocks at which bsm is filled is below that up to which it is. The first two parts are about every step, the last two about those that lose no block.

Types, for any number of threads. `TypeInv` is `TypeOK` with what it needs to be inductive: every run
that a call has been given, or was given to put back, ends within the device, but not what an
allocation only asks for; a request of a tree belongs to a call that is under way. For each action
there is a lemma (`...Is`) that writes its assignments as whole managers, trees and calls.

One owner, for one thread. `NoBlockTwice` is not inductive: a call that returns a block says nothing
of where the thread will put it. `SpaceInv` adds:

* `Home`: the nine places a block can be in, the two indexes, the two trees, `base_blk`, the
  objects, the call of each manager and the old node of the BASE tree; no block has two of them
  (`OneHome`). Block 0 is in none but the BASE tree, which has it where `base_blk` was used up.
* `Nested`: where the thread is in `ofs_alloc_space` tells which calls it has made, what the call of bsm
  is for, and, between the two reads of the counter of bsm, what the first has seen.
* `FrameOK`: an allocation asks for at least one block (with two threads it may not); what it has got is apart from what it
  has still to put back; no run has block 0.
* `Fresh`: no node is clean and dirty, so a moved node leaves its block.

Three lemmas do for all actions: blocks stay or are lost (`Stay`), pass between two places (`Pass`) or
among three (`PassOn`). A failure loses blocks, but gives none to two owners.

No block lost, for one thread. `Conservation` has as premise that no step is one of three: the SPACE tree is
refused a block (`NeverGivesUp`), `base_blk` is used while it is 0, or it gets a block while it has
one (`OneByOne`). Every behaviour of the instance of `one_thread` is of this kind, those of `small_nodes` are not;
so where one thread loses a block, one of the three has happened. `NoneLost` adds to `SpaceInv` that all blocks
are in one of the places (`Found`), that the BASE tree has not got block 0, and what the thread awaits of its calls
(`Awaited`): a call that is done has put back everything; the
answer to a call for one block is one block, or the tree would keep the first and lose the
rest; a block that was to be freed is no longer with the call. That a free is never refused
follows from `OneHome`: what is given back is in no extent of the index.

With two threads `OneOwner` is not true: TLC finds `NoBlockTwice` violated
on the instance of `two_threads`, for `base_blk` has no lock.

Exact counters, for any number of threads. `CountersStayExact` has the premise
`[][NeverGivesUp]_vars`: no step is one in which the SPACE tree is refused a block. Every behaviour of the
instance of `two_threads` is of this kind; after such a refusal the blocks a call has taken out are
put nowhere and the counter is wrong, of which `NoSpaceIsTrue` of `no_space` is a consequence.
`Accounting` speaks of the moments when nobody holds the lock; `CountInv` says what is between them:

* `Exact`: the extents of an index share no block, and the counter is right when the lock is free.
* `Holds`: a call has the lock exactly while it is at work, so two threads never work on one index;
  and then the counter, the index, the pieces to put back and the run given or put back
  are in balance (`Balanced`), with nothing counted twice.
* `Idle`: where a thread makes no call of a manager. A request must not come upon a call that waits
  for an answer, or its balance would be forgotten.

The numbers are cardinalities of sets of blocks, so each step is shown by what it moves: a run carved out
(`CarvedNumber`), a piece put in or taken out (`PutIn`, `TakeOut`), and a release that
touches an extent nowhere (`NothingHit`). What other threads do leaves the balance of a call alone, as the lock is
the caller's own (`CountsMove`).

### Superblock

From `SuperblockAssumption`: at least two slots, and a modulus that is a proper multiple of
their number, as 2^16 is of a block size over an allocation size. `ReadsNewest` is not inductive,
for it says nothing of the slots an open does not take. `Trail` does: each slot has the copy
that its place and the last update demand, of this round or of the one before (`Old`), or in the first
round nothing yet; and only the slot of the next update may be spoiled. `Slotting`
is the arithmetic of it: where an update goes, and the one after it, also where
the number wraps around. From `Trail`, `get_last_correct_block` finds the newest copy: the run of consecutive numbers
that starts in slot 0 ends at the newest slot or at the next one, whose copy is not sound; and when the
next slot is slot 0, the search backwards goes from it to the last slot. Once an update
has followed one that was lost (`trouble` is "gap"), the trail may have a hole and nothing is promised
until the container is created anew, as `ReadsNewest` and `NeverSetBack` say themselves.

### Objects

From `ObjectsAssumption`: finitely many workers, each thread another, names and ids to speak of.
Nobody's pointer is freed because of four things that hold together. `Staged`: what is left of
a thread's command tells whether it holds a container and an object. `Alone`: the workers of `perf`
run while the console waits for them, and at no other time. `Locking`: what a call has
seen under the lock is still so when it acts on it, for nobody else has the lock. `Counting`:
a counter is at least the number of the threads that hold what it counts, which
is a cardinality; so the last reference is dropped when nobody holds the thing. The
lemmas about commands and counters come first, then one lemma per action. `NothingLostEver`
needs besides that only open objects have moved (`MovedIsOpen`): what a failed update of `$OBJID`
takes with it is then the object that is being closed, not one that others hold or nobody has open.

### MetadataCache

From `CacheAssumption` (ids are positive numbers, there is a block). All four theorems have the premise
`[]NoneAgain`: no session gives a freed block again, or opens an object again. Nothing in the code
forbids either, and without it none of them is true of every session: two caches may meet, and a block
of the saved tree may be written over before the super block is. What happens then is in the run `cache`. The
invariant is about three things at once, memory, disk and super block, so it is written as an operator of
them (`Good`), and what memory shows over the disk as `At`, `Ino`, `Rt`, `Ch` and `Cont`. It says:

* each object uses an inode, a root and a node, no two objects share one, and nothing in use
  is free to be given;
* the number of the root runs ahead of that of the inode exactly when the object has changed;
* what has changed is in blocks that the super block on disk has free, and what has not is as
  it is on disk. So a write of the flush touches nothing that a crash would bring back.

Neither `EachBlockCachedOnce` nor `ImplementsStore` can do without: a cache is added where there was
none because the block was free or of no open object; a crash brings back what was saved
because of the third. `CacheInv` states `Good` twice, for the memory there is (what users see)
and for an empty one over the same disk (what a start would find).

A call changes memory in several steps (a block is taken, the root moves, its node changes,
the directory is told, ...), and in between the object is neither old nor new; the last arguments
of `Good` name the object and the node that are under way. `MetadataCache_inv` has one lemma per step,
which says that it keeps `Good` and whose contents it changes. `MetadataCache_proofs` puts the
steps of a call in the order of the code, then has one lemma per action, and `StepKeeps`, which sums up what a step may change: nothing, one object, what is saved (all
at once), or everything back to what was saved. That is the step of the refinement.

### Collation

From `BytesAssumption` (there are two digits, a number has a place; a `char` is a byte and a number of
32 bits has half the places) or from `LettersAssumption` (a character is a number, below 0 where a
`char` has its high bit set), and `PowersAssumption`, which says what the provers do not know of `^`.
Strings may have any length. `Difference` says what `FirstDifference` looks at: the least
place where two strings differ (`LeastNumber`, from the well-foundedness of <), or their lengths.
`Before` is the order that makes, and a place shows it: the strings agree up to there, and then
one is smaller or ends. It is asymmetric and transitive by a comparison of two such places, and
`DifferenceIsOrder` makes it the answers -1, 0 and 1. `NamesSorted` and `KeysSorted` are that for
strings in capitals and for keys without the zeros they begin with. `NamesStayOrdered` is
`NamesOrdered` for the calls of `collate_key`; for unicode keys, with what is behind them, it needs
that a difference within both is the difference of the longer strings (`DifferenceStays`). TLC cannot show that the order is
transitive on one call's operands, which are two strings; the trees need it.

A number is a fold of its bytes, for which the provers have no induction. So a fold is unfolded
by counting (`CountUp`, `CountDown`): the least place at which a statement about the
places before it fails is a contradiction. In this way there is a function that
satisfies the equation of the fold (`FoldUpExists`, `FoldDownExists`), and what it computes at
each place is what the number is worth there (`LittleEndian`, `BigEndianRead`). Then `TakenApart`
and `ReadAsWritten`: a number of `Width` places is what its bytes, written from the lowest and
without the zeros at the end, are read as. `EarlierIsLess` and `LongerIsGreater` compare two numbers
by the first place at which their bytes differ, or by their lengths, which makes the order of
`KeysSorted` that of the numbers, and `NumbersCompared` and `ExtentsCompared` what the two properties
say of one call.

### Only model-checked

* Liveness (`CallsEnd`, `CallsReturn` and those of `btree`), which is out of the prover's reach.
* `BTree` and `AVL`, whose loops are recursive operators.
* That the premises of `Conservation` and `CountersStayExact` hold: when a request is refused depends on
  how much space the instance has. `one_thread` and `two_threads` check the conclusions without them.

## 5. Not modelled

* The log (`os_log.c`), parsing and printing of the tools, the server and client that pass
  commands over a socket, the platform layer, the lists, CUnit, the Windows and kernel
  builds. Nothing the object system promises depends on them. The lock of the log is not held
  when `total_lines` is tested, so two threads may rotate it at once.
* Allocation of memory never fails.
* Of `Extents` and `SpaceManager`: 64-bit block numbers and 32-bit counts are unbounded; the
  casts in `alloc_space` matter only for extents of 2^31 blocks and more.
* Of `BTree`: values, errors of a read or of a release, the walk that frees a tree's blocks,
  and `index_get_total_key`, which walks without the lock.
* Of `Superblock`: the fields that `check_super_block` compares are constant.
* Of `MetadataCache`: sequence numbers and foot marks of guarded blocks, which repeat those of
  the super block; here a block is sound or torn.
* Of `Objects`: limits of names and sizes; names of objects, `ofs_delete_object` (empty) and
  streams; a refused insertion of a new id in `$OBJID`, after which a freed block is still
  written.

## 6. Plan

1. done: `Extents`, `BlockPool`, `SpacePool` and its proofs; `SpaceManager`; `Superblock`.
2. done: `IndexNode`, `BTree`, `Collation`, `AVL`.
3. done: `Store`, `MetadataCache`.
4. done: `Objects`.
5. done: proofs about `SpacePool`, `SpaceManager`, `Superblock`, `Objects`, `MetadataCache` and `Collation`. Left: the lemmas of `IndexNode` (a split keeps the entries and their order).
