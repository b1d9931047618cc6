------------------------- MODULE MetadataCache_inv -------------------------
(***************************************************************************)
(* Proofs about MetadataCache, for any objects, contents and number of     *)
(* blocks, in sessions in which no freed block is given again and no       *)
(* object opened again (NoneAgain; in others a block may be cached twice). *)
(*                                                                         *)
(* Good says what memory m is to the disk d and the super block s.  Each   *)
(* object uses an inode, a root and a node (Ino, Rt, Ch), and no block has *)
(* two uses.  The root's number runs ahead of the inode's when the object  *)
(* has changed.  What is changed is in free blocks of s, what is not       *)
(* changed is as it is on disk.  One lemma per step of memory shows that   *)
(* it keeps Good and whose contents it changes; each action is a chain of  *)
(* such steps, in the order of the code.                                   *)
(***************************************************************************)
EXTENDS MetadataCache, FiniteSetTheorems, WellFoundedInduction, TLAPS

Owners == Objects \cup {Dir}
MaybeBlk == Blk \cup {NoBlk}

IsInode(d) == d.kind = "inode" /\ d = Inode(d.val, d.child) /\ d.val \in Values /\ d.child \in MaybeBlk
IsNode(d) == d.kind = "index" /\ d = Node(d.val) /\ d.val \in Values
IsDir(d) == d.kind = "inode" /\ d = DirInode(d.entry) /\ d.entry \in [Objects -> MaybeBlk]

-----------------------------------------------------------------------------
(* What memory m shows over disk d.                                        *)

Keys(m) == DOMAIN m.cache

Opened(m, o) == m.info[o] # Closed

\* What block b has.
At(m, d, b) == IF b \in Keys(m) THEN m.cache[b].data ELSE d[b]

\* Where the inode of o is, as what leads to it says.
Entry(m, d, o) ==
  IF o = Dir THEN m.dir
  ELSE IF At(m, d, m.dir).kind = "inode" THEN At(m, d, m.dir).entry[o] ELSE NoBlk

\* Where o has its inode, its root and the node below.
Ino(m, d, o) == IF Opened(m, o) THEN m.info[o].inode ELSE Entry(m, d, o)
Rt(m, d, o) == IF Opened(m, o) THEN m.info[o].root ELSE Entry(m, d, o)
Below(x) == IF x.kind = "inode" THEN x.child ELSE NoBlk
Ch(m, d, o) ==
  IF o = Dir \/ Ino(m, d, o) = NoBlk THEN NoBlk ELSE Below(At(m, d, Ino(m, d, o)))

Use(m, d, o) == {Ino(m, d, o), Rt(m, d, o), Ch(m, d, o)} \ {NoBlk}

\* The contents of user object o.
Cont(m, d, o) ==
  LET x == At(m, d, Ino(m, d, o))
      y == At(m, d, Ch(m, d, o))
  IN  IF o = Dir \/ Ino(m, d, o) = NoBlk THEN Absent
      ELSE IF x.kind # "inode" THEN Unreadable
      ELSE IF Ch(m, d, o) = NoBlk THEN x.val
      ELSE IF y.kind # "index" THEN Unreadable ELSE y.val

-----------------------------------------------------------------------------
(* The invariant, in parts.  While a call runs, x is the object that is    *)
(* not yet in $OBJID under its number (or $OBJID itself, when the super    *)
(* block does not have its number), and y a node that is on its way out.   *)

Caches == [owner : Owners \cup {NoObject}, state : {"empty", "clean", "dirty"}, data : Datum]

IsCache(c) == c = [b \in DOMAIN c |-> c[b]]

\* The fields of a container's memory.
IsMem(m) ==
  m = [cache |-> m.cache, info |-> m.info, free |-> m.free, hint |-> m.hint,
       fresh |-> m.fresh, dir |-> m.dir, clash |-> m.clash, met |-> m.met, again |-> m.again,
       reused |-> m.reused]

Mem(m) ==
  /\ IsMem(m) /\ ~m.clash
  /\ IsCache(m.cache) /\ Keys(m) \subseteq Blk
  /\ \A b \in Keys(m) : m.cache[b] \in Caches
  /\ m.info \in [Owners -> [inode : MaybeBlk, root : MaybeBlk, dirty : BOOLEAN]]
  /\ m.fresh \subseteq m.free /\ m.free \subseteq Blk /\ m.hint \in 1 .. LastBlk + 1
  /\ m.dir \in Blk /\ m.met \subseteq Objects

\* An open object has its inode in its cache, and its root has the number of the inode or
\* one that is not in use yet.
WellOpen(m, o) ==
  /\ m.info[o].inode \in Keys(m) /\ m.cache[m.info[o].inode].owner = o
  /\ o = Dir => IsDir(m.cache[m.info[o].inode].data)
  /\ o # Dir => IsInode(m.cache[m.info[o].inode].data) /\ o \in m.met
  /\ m.info[o].root \in Blk
  /\ m.info[o].root # m.info[o].inode => m.info[o].root \notin Keys(m) /\ m.info[o].dirty
OpenOK(m) == \A o \in Owners : Opened(m, o) => WellOpen(m, o)

Linked(m, d, x) ==
  \A o \in Owners : Opened(m, o) /\ (o # x \/ o = Dir) => Entry(m, d, o) = m.info[o].inode

\* Blocks are of the kind that is expected where they are used, unless the disk failed.
Kinds(m, d, f, y) ==
  \A o \in Owners :
    /\ ~Opened(m, o) /\ Ino(m, d, o) # NoBlk =>
         \/ IF o = Dir THEN IsDir(At(m, d, m.dir)) ELSE IsInode(At(m, d, Ino(m, d, o)))
         \/ f /\ At(m, d, Ino(m, d, o)) = Bad
    /\ Ch(m, d, o) \notin {NoBlk, y} =>
         IsNode(At(m, d, Ch(m, d, o))) \/ (f /\ At(m, d, Ch(m, d, o)) = Bad)

\* No block has two uses, but as inode and root of one object.
Apart(m, d) ==
  \A o \in Owners :
    /\ Ch(m, d, o) # NoBlk => Ch(m, d, o) \notin {Ino(m, d, o), Rt(m, d, o)}
    /\ \A p \in Owners \ {o} : Use(m, d, o) \cap Use(m, d, p) = {}

\* What is given next is in no use.
Unused(m, d, y) ==
  /\ Keys(m) \cap m.fresh = {}
  /\ \A o \in Owners :
       /\ Use(m, d, o) \cap m.fresh = {}
       /\ Rt(m, d, o) \notin m.free
       /\ Ch(m, d, o) # y => Ch(m, d, o) \notin m.free

\* Only open objects have caches, besides what closed ones have left to be written.
Held(m) ==
  \A b \in Keys(m) : IF m.cache[b].owner = NoObject THEN m.cache[b].state = "dirty"
                     ELSE Opened(m, m.cache[b].owner)

\* Who has the cache of a block that is in use.
Owned(m, d) ==
  /\ \A o \in Owners : \A b \in Use(m, d, o) \cap Keys(m) :
       m.cache[b].owner = IF Opened(m, o) THEN o ELSE NoObject
  /\ \A o \in Objects \ m.met : Use(m, d, o) \cap Keys(m) = {}

\* What is to be written goes to blocks that are free for s.
Moved(m, s) ==
  /\ m.fresh \subseteq s.free
  /\ \A b \in Keys(m) : m.cache[b].state = "dirty" => b \in s.free

\* What an object has not changed is as it is on disk.
RootKept(m, d, s, o) ==
  IF m.info[o].dirty THEN m.info[o].root \in s.free
  ELSE /\ m.cache[m.info[o].inode].data = d[m.info[o].inode]
       /\ \A b \in Use(m, d, o) \cap Keys(m) : m.cache[b].state # "dirty"
RootsKept(m, d, s) == \A o \in Owners : Opened(m, o) => RootKept(m, d, s, o)

AsOnDisk(m, d, f, b) ==
  (IsNode(d[b]) \/ (f /\ d[b] = Bad)) /\ (~f => m.cache[b].data = d[b])
NodesKept(m, d, f, y) ==
  \A o \in Owners : Ch(m, d, o) \in Keys(m) /\ Ch(m, d, o) # y
                     /\ m.cache[Ch(m, d, o)].state # "dirty" => AsOnDisk(m, d, f, Ch(m, d, o))

\* As long as $OBJID has not changed, all of the closed objects is on disk.
Untouched(m, s) == m.dir = s.dir /\ ~m.info[Dir].dirty
Saved(m, d, s, x) ==
  /\ s.dir \in Blk \ s.free
  /\ Opened(m, Dir) /\ x # Dir => m.dir = s.dir /\ (m.info[Dir].dirty => m.info[Dir].root # m.dir)
  /\ Untouched(m, s) =>
       \A o \in Owners :
         /\ ~Opened(m, o) => Use(m, d, o) \cap Keys(m) = {}
         /\ Opened(m, o) /\ o # x /\ m.info[o].dirty => m.info[o].root # m.info[o].inode

Good(m, d, s, f, x, y) ==
  /\ Mem(m) /\ OpenOK(m) /\ Linked(m, d, x) /\ Kinds(m, d, f, y) /\ Apart(m, d)
  /\ Unused(m, d, y) /\ Held(m) /\ Owned(m, d)
  /\ Moved(m, s) /\ RootsKept(m, d, s) /\ NodesKept(m, d, f, y) /\ Saved(m, d, s, x)

\* Between the calls.
Whole(m, d, s, f) == Good(m, d, s, f, NoObject, NoBlk)

CacheInv ==
  /\ disk \in [Blk -> Datum] /\ failed \in BOOLEAN
  /\ ct \in {"closed", "open", "closing", "flush", "super"}
  /\ sb = [dir |-> sb.dir, free |-> sb.free, hint |-> sb.hint]
  /\ Whole(Empty(sb), disk, sb, failed) /\ Whole(mem, disk, sb, failed)
  /\ ct = "closed" => mem = Empty(sb)
  /\ ct \in {"open", "closing"} => Opened(mem, Dir)
  /\ ct \in {"flush", "super"} => \A o \in Owners : ~Opened(mem, o)
  /\ ct = "closing" => mem.info[Dir].dirty \/ mem.free # {}
  /\ ct = "super" => failed
  /\ \A b \in sb.free : (b \in Keys(mem) \/ ct \notin {"flush", "super"}) => disk[b] = Bad

-----------------------------------------------------------------------------
(* What the steps of memory do to its fields.                              *)

\* A set of numbers has a least one.
LEMMA Least ==
  ASSUME NEW T, T \subseteq Nat, T # {}
  PROVE  Min(T) \in T /\ \A y \in T : Min(T) <= y
<1> DEFINE R == OpToRel(<, Nat)
<1>1. IsWellFoundedOn(R, Nat)
  BY NatLessThanWellFounded, Zenon
<1>2. \A x, y \in Nat : x < y => <<x, y>> \in R
  BY DEF OpToRel
<1> HIDE DEF R
<1>3. PICK x \in T : \A y \in T : ~(<<y, x>> \in R)
  BY <1>1, WFMin
<1>4. \A y \in T : ~(y < x)
  BY <1>2, <1>3
<1>5. \A y \in T : x <= y
  BY <1>4
<1> QED BY <1>5 DEF Min

\* Numbers and names.
LEMMA Basics ==
  /\ LastBlk \in Nat \ {0} /\ Blk \subseteq Nat /\ NoBlk \notin Blk /\ NoBlk = 0
  /\ Dir \in Owners /\ Dir \notin Objects /\ NoObject \notin Owners /\ Objects \subseteq Owners
  /\ \A o \in Owners : o # Dir => o \in Objects
  /\ 0 \in Values
  BY CacheAssumption DEF Blk, NoBlk, Dir, NoObject, Owners

\* The block that is given is free.
LEMMA FreshIsFree ==
  ASSUME NEW m, m.free \subseteq Blk, m.free # {}
  PROVE  Fresh(m) \in m.free
<1> DEFINE ahead == {b \in m.free : b >= m.hint}
           T == IF ahead # {} THEN ahead ELSE m.free
<1>1. T \subseteq m.free /\ T # {} /\ T \subseteq Nat
  BY Basics
<1>2. Fresh(m) = Min(T)
  BY DEF Fresh
<1> HIDE DEF T
<1> QED BY <1>1, <1>2, Least

\* The fields no step of a call changes but the last.
Alike(m, r) ==
  IsMem(r) /\ r.dir = m.dir /\ r.met = m.met /\ r.clash = m.clash /\ r.reused = m.reused
           /\ r.again = m.again /\ r.hint = m.hint /\ r.fresh = m.fresh

\* A block is taken: it is no longer free, and whether it is given a second time is noted.
LEMMA TakenIs ==
  ASSUME NEW m, Mem(m), m.free # {}, NEW r, r = Taken(m)
  PROVE  /\ IsMem(r) /\ r.cache = m.cache /\ r.info = m.info /\ r.dir = m.dir
         /\ r.met = m.met /\ r.clash = m.clash
         /\ r.free = m.free \ {Fresh(m)} /\ r.fresh = m.fresh \ {Fresh(m)}
         /\ r.hint \in 1 .. LastBlk + 1 /\ Fresh(m) \in Blk
         /\ m.reused => r.reused
         /\ ~r.reused => Fresh(m) \in m.fresh
<1>1. Fresh(m) \in m.free /\ Fresh(m) \in Blk
  BY FreshIsFree DEF Mem
<1>2. r = [cache |-> m.cache, info |-> m.info, free |-> m.free \ {Fresh(m)},
           hint |-> Fresh(m) + 1, fresh |-> m.fresh \ {Fresh(m)}, dir |-> m.dir,
           clash |-> m.clash, met |-> m.met, again |-> m.again,
           reused |-> m.reused \/ Fresh(m) \in m.free \ m.fresh]
  <2> DEFINE b == Fresh(m)
  <2>1. r = [m EXCEPT !.free = @ \ {b}, !.fresh = @ \ {b}, !.hint = b + 1,
                      !.reused = @ \/ b \in m.free \ m.fresh]
    BY DEF Taken
  <2> HIDE DEF b
  <2>2. IsMem(m)
    BY DEF Mem
  <2> QED BY <2>1, <2>2 DEF IsMem, b
<1>3. Fresh(m) + 1 \in 1 .. LastBlk + 1
  BY <1>1, Basics DEF Blk
<1>4. r.reused = (m.reused \/ Fresh(m) \in m.free \ m.fresh)
  BY <1>2
<1>5. (m.reused => r.reused) /\ (~r.reused => Fresh(m) \in m.fresh)
  BY <1>1, <1>4, Zenon
<1>6. IsMem(r) /\ r.cache = m.cache /\ r.info = m.info /\ r.dir = m.dir /\ r.met = m.met
      /\ r.clash = m.clash /\ r.free = m.free \ {Fresh(m)} /\ r.fresh = m.fresh \ {Fresh(m)}
      /\ r.hint = Fresh(m) + 1
  BY <1>2 DEF IsMem
<1> QED BY <1>1, <1>3, <1>5, <1>6, Zenon

\* A cache is added for a block: that it had one already is noted.
LEMMA AddCacheIs ==
  ASSUME NEW m, IsMem(m), NEW b, NEW c, b \notin Keys(m), NEW r, r = AddCache(m, b, c)
  PROVE  /\ Alike(m, r) /\ r.info = m.info /\ r.free = m.free
         /\ r.cache = [x \in Keys(m) \cup {b} |-> IF x = b THEN c ELSE m.cache[x]]
<1>1. r = [m EXCEPT !.cache = [x \in DOMAIN @ \cup {b} |-> IF x = b THEN c ELSE @[x]]]
  BY DEF AddCache, Keys
<1>2. r = [m EXCEPT !.cache = [x \in Keys(m) \cup {b} |-> IF x = b THEN c ELSE m.cache[x]]]
  BY <1>1 DEF IsMem, Keys
<1> QED BY <1>2 DEF IsMem, Alike

\* A cache leaves its block; all else stays.
LEMMA RemoveCacheIs ==
  ASSUME NEW m, IsMem(m), NEW b, NEW r, r = RemoveCache(m, b)
  PROVE  /\ Alike(m, r) /\ r.info = m.info /\ r.free = m.free
         /\ r.cache = [x \in Keys(m) \ {b} |-> m.cache[x]]
<1>1. r = [m EXCEPT !.cache = [x \in Keys(m) \ {b} |-> m.cache[x]]]
  BY DEF RemoveCache, Keys, IsMem
<1> QED BY <1>1 DEF IsMem, Alike

\* A block becomes free; all else stays.
LEMMA FreedIs ==
  ASSUME NEW m, IsMem(m), NEW b, NEW r, r = Freed(m, b)
  PROVE  Alike(m, r) /\ r.info = m.info /\ r.cache = m.cache /\ r.free = m.free \cup {b}
<1>1. r = [m EXCEPT !.free = m.free \cup {b}]
  BY DEF Freed, IsMem
<1> QED BY <1>1 DEF IsMem, Alike

\* A change of one cache.
Changed(m, b, c) == [m EXCEPT !.cache[b] = c]

\* A cache is changed in its place; all else stays.
LEMMA ChangedIs ==
  ASSUME NEW m, IsMem(m), IsCache(m.cache), NEW b \in Keys(m), NEW c, NEW r, r = Changed(m, b, c)
  PROVE  /\ Alike(m, r) /\ r.info = m.info /\ r.free = m.free
         /\ IsCache(r.cache) /\ Keys(r) = Keys(m)
         /\ r.cache[b] = c /\ \A z \in Keys(m) \ {b} : r.cache[z] = m.cache[z]
<1>1. r = [m EXCEPT !.cache = [m.cache EXCEPT ![b] = c]]
  BY DEF IsMem, Changed
<1>2. r.cache = [m.cache EXCEPT ![b] = c] /\ Alike(m, r) /\ r.info = m.info /\ r.free = m.free
  BY <1>1 DEF IsMem, Alike
<1>3. r.cache = [z \in Keys(m) |-> IF z = b THEN c ELSE m.cache[z]]
  BY <1>2 DEF Keys
<1> QED BY <1>2, <1>3 DEF IsCache, Keys

-----------------------------------------------------------------------------
(* Steps that keep the invariant.                                          *)

\* o is open, has its blocks and its contents as before.
Same(m, d, r, e, o) ==
  /\ Opened(r, o) <=> Opened(m, o)
  /\ Ino(r, e, o) = Ino(m, d, o) /\ Rt(r, e, o) = Rt(m, d, o) /\ Ch(r, e, o) = Ch(m, d, o)
  /\ Cont(r, e, o) = Cont(m, d, o)

\* What is seen depends on the caches, the open objects and where $OBJID is.
LEMMA SameFields ==
  ASSUME NEW m, NEW r, NEW d, r.cache = m.cache, r.info = m.info, r.dir = m.dir
  PROVE  /\ Keys(r) = Keys(m)
         /\ \A b : At(r, d, b) = At(m, d, b)
         /\ \A o \in Owners : Same(m, d, r, d, o) /\ Entry(r, d, o) = Entry(m, d, o)
                              /\ Use(r, d, o) = Use(m, d, o)
<1>1. Keys(r) = Keys(m) /\ \A b : At(r, d, b) = At(m, d, b)
  BY DEF At, Keys
<1>2. \A o \in Owners : (Opened(r, o) <=> Opened(m, o)) /\ Entry(r, d, o) = Entry(m, d, o)
  BY <1>1 DEF Opened, Entry
<1>3. \A o \in Owners : Ino(r, d, o) = Ino(m, d, o) /\ Rt(r, d, o) = Rt(m, d, o)
  BY <1>2 DEF Ino, Rt
<1>4. \A o \in Owners : Ch(r, d, o) = Ch(m, d, o)
  BY <1>1, <1>3 DEF Ch
<1>5. \A o \in Owners : Cont(r, d, o) = Cont(m, d, o) /\ Use(r, d, o) = Use(m, d, o)
  BY <1>1, <1>3, <1>4 DEF Cont, Use
<1> QED BY <1>1, <1>2, <1>3, <1>4, <1>5 DEF Same

\* Fewer blocks to give.
LEMMA GoodLess ==
  ASSUME NEW m, NEW r, NEW d, NEW s, NEW f, NEW x, NEW y, Good(m, d, s, f, x, y),
         IsMem(r), r.cache = m.cache, r.info = m.info, r.dir = m.dir, r.met = m.met,
         r.clash = m.clash, r.free \subseteq m.free, r.fresh \subseteq r.free,
         r.fresh \subseteq m.fresh, r.hint \in 1 .. LastBlk + 1
  PROVE  Good(r, d, s, f, x, y) /\ \A o \in Owners : Same(m, d, r, d, o)
<1>1. /\ Keys(r) = Keys(m)
      /\ \A b : At(r, d, b) = At(m, d, b)
      /\ \A o \in Owners : Same(m, d, r, d, o) /\ Entry(r, d, o) = Entry(m, d, o)
                           /\ Use(r, d, o) = Use(m, d, o)
  BY SameFields
<1>2. Mem(r)
  BY <1>1 DEF Good, Mem
<1>3. OpenOK(r)
  BY <1>1 DEF Good, OpenOK, WellOpen, Same
<1>4. Linked(r, d, x)
  BY <1>1 DEF Good, Linked, Same
<1>5. Kinds(r, d, f, y)
  BY <1>1 DEF Good, Kinds, Same
<1>6. Apart(r, d)
  BY <1>1 DEF Good, Apart, Same
<1>7. Unused(r, d, y)
  BY <1>1 DEF Good, Unused, Same
<1>8. Held(r)
  BY <1>1 DEF Good, Held, Opened
<1>9. Owned(r, d)
  BY <1>1, Basics DEF Good, Owned, Same
<1>10. Moved(r, s)
  BY <1>1 DEF Good, Moved
<1>11. RootsKept(r, d, s)
  BY <1>1 DEF Good, RootsKept, RootKept, Same
<1>12. NodesKept(r, d, f, y)
  BY <1>1 DEF Good, NodesKept, AsOnDisk, Same
<1>13. Saved(r, d, s, x)
  BY <1>1, Basics DEF Good, Saved, Untouched, Same
<1> QED
  BY <1>1, <1>2, <1>3, <1>4, <1>5, <1>6, <1>7, <1>8, <1>9, <1>10, <1>11, <1>12, <1>13 DEF Good

\* Where $OBJID, and the inode of an object, is.
LEMMA Places ==
  ASSUME NEW m, NEW d, NEW s, NEW f, NEW x, NEW y, Good(m, d, s, f, x, y), NEW o \in Owners
  PROVE  /\ m.dir \in Use(m, d, Dir) /\ Ino(m, d, Dir) = m.dir /\ m.dir \in Blk
         /\ Opened(m, o) => Ino(m, d, o) = m.info[o].inode /\ Ino(m, d, o) \in Keys(m)
                            /\ Ino(m, d, o) \in Use(m, d, o) /\ Ino(m, d, o) \in Blk
                            /\ Rt(m, d, o) = m.info[o].root /\ Rt(m, d, o) \in Use(m, d, o)
         /\ Use(m, d, o) \subseteq Blk
<1>1. m.dir \in Use(m, d, Dir) /\ Ino(m, d, Dir) = m.dir /\ m.dir \in Blk
  BY Basics DEF Good, Mem, OpenOK, WellOpen, Linked, Use, Ino, Entry
<1>2. Opened(m, o) => Ino(m, d, o) = m.info[o].inode /\ Ino(m, d, o) \in Keys(m)
                      /\ Ino(m, d, o) \in Use(m, d, o) /\ Ino(m, d, o) \in Blk
                      /\ Rt(m, d, o) = m.info[o].root /\ Rt(m, d, o) \in Use(m, d, o)
                      /\ Rt(m, d, o) \in Blk
  BY Basics DEF Good, Mem, OpenOK, WellOpen, Use, Ino, Rt
<1>3. o # Dir => Entry(m, d, o) \in MaybeBlk
  <2>1. IsDir(At(m, d, m.dir)) \/ At(m, d, m.dir) = Bad
    <3>1. CASE Opened(m, Dir)
      BY <3>1, Basics DEF Good, OpenOK, WellOpen, Linked, Entry, At, Keys
    <3>2. CASE ~Opened(m, Dir)
      BY <3>2, <1>1, Basics DEF Good, Kinds
    <3> QED BY <3>1, <3>2
  <2> QED BY <2>1, Basics DEF IsDir, Entry, Bad, MaybeBlk
<1>4. Ino(m, d, o) \in MaybeBlk /\ Rt(m, d, o) \in MaybeBlk
  BY <1>1, <1>2, <1>3 DEF Ino, Rt, MaybeBlk, Entry
<1>5. Ch(m, d, o) \in MaybeBlk
  <2>1. CASE o = Dir \/ Ino(m, d, o) = NoBlk
    BY <2>1 DEF Ch, MaybeBlk
  <2>2. CASE o # Dir /\ Ino(m, d, o) # NoBlk
    <3>1. IsInode(At(m, d, Ino(m, d, o))) \/ At(m, d, Ino(m, d, o)) = Bad
      BY <2>2, <1>2 DEF Good, Kinds, OpenOK, WellOpen, At, Keys
    <3> QED BY <2>2, <3>1 DEF Ch, Below, IsInode, Bad, MaybeBlk
  <2> QED BY <2>1, <2>2
<1> QED BY <1>1, <1>2, <1>4, <1>5 DEF Use, MaybeBlk

\* What is known of an open object.
LEMMA OpenFacts ==
  ASSUME NEW m, NEW d, NEW s, NEW f, NEW x, NEW y, Good(m, d, s, f, x, y),
         NEW o \in Owners, Opened(m, o)
  PROVE  /\ WellOpen(m, o) /\ RootKept(m, d, s, o)
         /\ m.info[o].inode \in Keys(m) /\ m.info[o].inode \in Blk
         /\ m.cache[m.info[o].inode] \in Caches
         /\ Ino(m, d, o) = m.info[o].inode /\ Ino(m, d, o) \in Use(m, d, o)
         /\ Rt(m, d, o) = m.info[o].root /\ Rt(m, d, o) \in Use(m, d, o) /\ Rt(m, d, o) \in Blk
<1>1. WellOpen(m, o) /\ RootKept(m, d, s, o)
  BY DEF Good, OpenOK, RootsKept
<1>2. m.info[o].inode \in Keys(m) /\ m.info[o].root \in Blk
  BY <1>1 DEF WellOpen
<1>3. m.cache[m.info[o].inode] \in Caches
  BY <1>2 DEF Good, Mem
<1>4. /\ Ino(m, d, o) = m.info[o].inode /\ Ino(m, d, o) \in Use(m, d, o) /\ Ino(m, d, o) \in Blk
      /\ Rt(m, d, o) = m.info[o].root /\ Rt(m, d, o) \in Use(m, d, o)
  BY Places
<1> QED BY <1>1, <1>2, <1>3, <1>4

\* The cache of its inode has the same owner and data in r.
SameInode(m, r, o) ==
  /\ r.info[o] = m.info[o] /\ (o \in m.met => o \in r.met) /\ m.info[o].inode \in Keys(r)
  /\ r.cache[m.info[o].inode].owner = m.cache[m.info[o].inode].owner
  /\ r.cache[m.info[o].inode].data = m.cache[m.info[o].inode].data
  /\ m.info[o].root \notin Keys(m) => m.info[o].root \notin Keys(r)

\* Then it stays well.
LEMMA OpenStays ==
  ASSUME NEW m, NEW r, NEW o, WellOpen(m, o), SameInode(m, r, o)
  PROVE  WellOpen(r, o)
  BY DEF WellOpen, SameInode

\* Its blocks have the same data, are as before to be written or not, and no more.
SameBlocks(m, r, d, o) ==
  /\ r.info[o] = m.info[o]
  /\ r.cache[m.info[o].inode].data = m.cache[m.info[o].inode].data
  /\ Use(r, d, o) \subseteq Use(m, d, o)
  /\ \A z \in Use(m, d, o) \cap Keys(r) : z \in Keys(m) /\ r.cache[z].state = m.cache[z].state

\* Then what is kept of it on disk stays so.
LEMMA RootStays ==
  ASSUME NEW m, NEW r, NEW d, NEW s, NEW o, RootKept(m, d, s, o), SameBlocks(m, r, d, o)
  PROVE  RootKept(r, d, s, o)
  BY DEF RootKept, SameBlocks

\* An object whose blocks are left alone stays as it is.
LEMMA FrameOf ==
  ASSUME NEW m, NEW d, NEW r, NEW e, NEW o \in Owners,
         r.info[o] = m.info[o], Entry(r, e, o) = Entry(m, d, o),
         \A b \in Use(m, d, o) : At(r, e, b) = At(m, d, b)
  PROVE  Same(m, d, r, e, o) /\ Use(r, e, o) = Use(m, d, o)
<1>1. Opened(r, o) <=> Opened(m, o)
  BY DEF Opened
<1>2. Ino(r, e, o) = Ino(m, d, o) /\ Rt(r, e, o) = Rt(m, d, o)
  BY <1>1 DEF Ino, Rt
<1>3. Ino(m, d, o) # NoBlk => At(r, e, Ino(m, d, o)) = At(m, d, Ino(m, d, o))
  BY DEF Use
<1>4. Ch(r, e, o) = Ch(m, d, o)
  BY <1>2, <1>3 DEF Ch
<1>5. Ch(m, d, o) # NoBlk => At(r, e, Ch(m, d, o)) = At(m, d, Ch(m, d, o))
  BY DEF Use
<1>6. Cont(r, e, o) = Cont(m, d, o) /\ Use(r, e, o) = Use(m, d, o)
  BY <1>2, <1>3, <1>4, <1>5 DEF Cont, Use
<1> QED BY <1>1, <1>2, <1>4, <1>6 DEF Same

\* What leads to an object is the same where the root of $OBJID has the same data.
LEMMA SameEntry ==
  ASSUME NEW m, NEW d, NEW r, NEW e, r.dir = m.dir, At(r, e, m.dir) = At(m, d, m.dir),
         NEW o \in Owners
  PROVE  Entry(r, e, o) = Entry(m, d, o)
  BY DEF Entry

\* Changes of blocks that no object uses are not seen.
LEMMA Frame ==
  ASSUME NEW m, NEW d, NEW s, NEW f, NEW x, NEW y, Good(m, d, s, f, x, y),
         NEW r, NEW e, r.info = m.info, r.dir = m.dir,
         \A o \in Owners : \A b \in Use(m, d, o) : At(r, e, b) = At(m, d, b)
  PROVE  \A o \in Owners : /\ Same(m, d, r, e, o) /\ Entry(r, e, o) = Entry(m, d, o)
                           /\ Use(r, e, o) = Use(m, d, o)
<1>1. At(r, e, m.dir) = At(m, d, m.dir)
  BY Places, Basics
<1>2. ASSUME NEW o \in Owners
      PROVE  Entry(r, e, o) = Entry(m, d, o)
  BY <1>1, SameEntry
<1> QED BY <1>2, FrameOf

\* Block n has been taken and is in no use.
Spare(m, d, s, n) ==
  /\ n \in Blk /\ n \notin Keys(m) /\ n \notin m.free /\ n \notin m.fresh /\ n \in s.free
  /\ \A o \in Owners : n \notin Use(m, d, o)

\* A cache for a block that is in no use.
LEMMA GoodAdded ==
  ASSUME NEW m, NEW d, NEW s, NEW f, NEW x, NEW y, Good(m, d, s, f, x, y),
         NEW r, Alike(m, r), r.info = m.info, r.free = m.free,
         NEW b, Spare(m, d, s, b), NEW c \in Caches, c.owner \in Owners, Opened(m, c.owner),
         r.cache = [z \in Keys(m) \cup {b} |-> IF z = b THEN c ELSE m.cache[z]]
  PROVE  /\ Good(r, d, s, f, x, y)
         /\ \A o \in Owners : Same(m, d, r, d, o) /\ Use(r, d, o) = Use(m, d, o)
<1> USE DEF Spare
<1>1. /\ Keys(r) = Keys(m) \cup {b} /\ r.cache[b] = c
      /\ \A z \in Keys(m) : r.cache[z] = m.cache[z]
  BY DEF Keys
<1>2. \A o \in Owners : \A z \in Use(m, d, o) : At(r, d, z) = At(m, d, z)
  BY <1>1 DEF At
<1>3. \A o \in Owners : /\ Same(m, d, r, d, o) /\ Entry(r, d, o) = Entry(m, d, o)
                        /\ Use(r, d, o) = Use(m, d, o)
  BY <1>2, Frame DEF Alike
<1>4. \A o \in Owners : Ch(m, d, o) # NoBlk => Ch(m, d, o) \in Use(m, d, o)
  BY DEF Use
<1>5. \A o \in Owners : Ino(m, d, o) # NoBlk => Ino(m, d, o) \in Use(m, d, o)
  BY DEF Use
<1>6. Mem(r)
  BY <1>1 DEF Good, Mem, Alike, IsCache, Keys
<1>7. ASSUME NEW p \in Owners, Opened(r, p)
      PROVE  WellOpen(r, p) /\ RootKept(r, d, s, p)
  <2>1. Opened(m, p)
    BY <1>3, <1>7 DEF Same
  <2>2. /\ WellOpen(m, p) /\ RootKept(m, d, s, p) /\ m.info[p].inode \in Keys(m)
        /\ m.info[p].root \in Use(m, d, p)
    BY <2>1, OpenFacts
  <2>3. r.info[p] = m.info[p] /\ m.info[p].root # b /\ r.met = m.met
    BY <2>2 DEF Alike
  <2>4. WellOpen(r, p)
    <3>1. SameInode(m, r, p)
      BY <1>1, <2>2, <2>3 DEF SameInode
    <3> QED BY <2>2, <3>1, OpenStays, Zenon
  <2>5. /\ Use(r, d, p) = Use(m, d, p)
        /\ \A z \in Use(m, d, p) \cap Keys(r) : z \in Keys(m) /\ r.cache[z].state = m.cache[z].state
    BY <1>1, <1>3
  <2>6. SameBlocks(m, r, d, p)
    BY <1>1, <2>2, <2>3, <2>5 DEF SameBlocks
  <2> QED BY <2>2, <2>4, <2>6, RootStays, Zenon
<1>8. Linked(r, d, x)
  BY <1>3 DEF Good, Linked, Same
<1>9. Kinds(r, d, f, y)
  BY <1>2, <1>3, <1>4, <1>5, Places DEF Good, Kinds, Same, Alike
<1>10. Apart(r, d)
  BY <1>3 DEF Good, Apart, Same
<1>11. Unused(r, d, y)
  BY <1>1, <1>3 DEF Good, Unused, Same, Alike
<1>12. Held(r)
  BY <1>1, Basics DEF Good, Held, Opened
<1>13. Owned(r, d)
  BY <1>1, <1>3, Basics DEF Good, Owned, Same, Alike
<1>14. Moved(r, s)
  BY <1>1 DEF Good, Moved, Alike
<1>15. OpenOK(r) /\ RootsKept(r, d, s)
  BY <1>7 DEF OpenOK, RootsKept
<1>16. NodesKept(r, d, f, y)
  BY <1>1, <1>3, <1>4, Basics DEF Good, NodesKept, AsOnDisk, Same
<1>17. Saved(r, d, s, x)
  BY <1>1, <1>3, Basics DEF Good, Saved, Untouched, Same, Alike
<1> QED
  BY <1>3, <1>6, <1>8, <1>9, <1>10, <1>11, <1>12, <1>13, <1>14, <1>15, <1>16, <1>17
     DEF Good

\* What is said of the objects when o is j.
Told(m, o, j) == [m.info EXCEPT ![o] = j]

\* A new object, not yet in $OBJID.
LEMMA GoodCreated ==
  ASSUME NEW m, NEW d, NEW s, NEW f, Good(m, d, s, f, NoObject, NoBlk),
         NEW o \in Objects, ~Opened(m, o), Ino(m, d, o) = NoBlk,
         NEW b, Spare(m, d, s, b),
         NEW c, c = Cache(o, "dirty", Inode(0, NoBlk)),
         NEW r, IsMem(r), r.dir = m.dir, r.clash = m.clash, r.hint = m.hint,
         r.fresh = m.fresh, r.free = m.free, r.met = m.met \cup {o},
         r.info = Told(m, o, [inode |-> b, root |-> b, dirty |-> TRUE]),
         r.cache = [z \in Keys(m) \cup {b} |-> IF z = b THEN c ELSE m.cache[z]]
  PROVE  /\ Good(r, d, s, f, o, NoBlk)
         /\ \A p \in Owners \ {o} : Same(m, d, r, d, p) /\ Use(r, d, p) = Use(m, d, p)
         /\ Opened(r, o) /\ Ino(r, d, o) = b /\ Rt(r, d, o) = b /\ Ch(r, d, o) = NoBlk
         /\ Cont(r, d, o) = 0
<1> USE DEF Spare, Told
<1>1. /\ Keys(r) = Keys(m) \cup {b} /\ r.cache[b] = c
      /\ \A z \in Keys(m) : r.cache[z] = m.cache[z]
  BY DEF Keys
<1>2. /\ c \in Caches /\ c.owner = o /\ c.state = "dirty" /\ c.data = Inode(0, NoBlk)
      /\ IsInode(c.data) /\ c.data.child = NoBlk /\ c.data.val = 0 /\ c.data.kind = "inode"
  BY Basics DEF Cache, Caches, Datum, IsInode, Inode, MaybeBlk
<1>3. /\ r.info[o] = [inode |-> b, root |-> b, dirty |-> TRUE]
      /\ \A p \in Owners \ {o} : r.info[p] = m.info[p]
      /\ r.info \in [Owners -> [inode : MaybeBlk, root : MaybeBlk, dirty : BOOLEAN]]
  BY Basics DEF Good, Mem, MaybeBlk
<1>4. \A p \in Owners : \A z \in Use(m, d, p) : At(r, d, z) = At(m, d, z)
  BY <1>1 DEF At
<1>5. At(r, d, m.dir) = At(m, d, m.dir)
  BY <1>4, Places, Basics
<1>6. ASSUME NEW p \in Owners
      PROVE  Entry(r, d, p) = Entry(m, d, p)
  BY <1>5, SameEntry
<1>7. ASSUME NEW p \in Owners \ {o}
      PROVE  Same(m, d, r, d, p) /\ Use(r, d, p) = Use(m, d, p)
  BY <1>3, <1>4, <1>6, FrameOf
<1>8. /\ Opened(r, o) /\ Ino(r, d, o) = b /\ Rt(r, d, o) = b /\ Ch(r, d, o) = NoBlk
      /\ Cont(r, d, o) = 0 /\ Use(r, d, o) = {b} /\ At(r, d, b) = c.data
  <2>1. Opened(r, o) /\ b # NoBlk /\ o # Dir
    BY <1>3, Basics DEF Opened, Closed
  <2>2. Ino(r, d, o) = b /\ Rt(r, d, o) = b /\ At(r, d, b) = c.data
    BY <1>1, <1>3, <2>1 DEF Ino, Rt, At
  <2>3. Ch(r, d, o) = NoBlk
    BY <1>2, <2>1, <2>2 DEF Ch, Below
  <2> QED BY <1>2, <2>1, <2>2, <2>3 DEF Cont, Use
<1>9. \A p \in Owners : Ch(m, d, p) # NoBlk => Ch(m, d, p) \in Use(m, d, p)
  BY DEF Use
<1>10. \A p \in Owners : Ino(m, d, p) # NoBlk => Ino(m, d, p) \in Use(m, d, p)
  BY DEF Use
<1>11. Mem(r)
  BY <1>1, <1>2, <1>3 DEF Good, Mem, IsCache, Keys
<1>12. ASSUME NEW p \in Owners, Opened(r, p)
       PROVE  WellOpen(r, p) /\ RootKept(r, d, s, p)
  <2>1. CASE p = o
    <3>1. p # Dir /\ r.info[p].inode = b /\ r.info[p].root = b /\ r.info[p].dirty = TRUE
      BY <1>3, <2>1, Basics
    <3> QED BY <1>1, <1>2, <2>1, <3>1 DEF WellOpen, RootKept
  <2>2. CASE p # o
    <3>1. Opened(m, p) /\ r.info[p] = m.info[p] /\ Use(r, d, p) = Use(m, d, p)
      BY <1>3, <1>7, <1>12, <2>2 DEF Opened
    <3>2. /\ WellOpen(m, p) /\ RootKept(m, d, s, p) /\ m.info[p].inode \in Keys(m)
          /\ m.info[p].root \in Use(m, d, p)
      BY <3>1, OpenFacts
    <3>3. m.info[p].root # b
      BY <3>2
    <3>4. WellOpen(r, p)
      <4>1. SameInode(m, r, p)
        BY <1>1, <3>1, <3>2, <3>3 DEF SameInode
      <4> QED BY <3>2, <4>1, OpenStays, Zenon
    <3>5. \A z \in Use(m, d, p) \cap Keys(r) : z \in Keys(m) /\ r.cache[z].state = m.cache[z].state
      BY <1>1
    <3>6. SameBlocks(m, r, d, p)
      BY <1>1, <3>1, <3>2, <3>5 DEF SameBlocks
    <3> QED BY <3>2, <3>4, <3>6, RootStays, Zenon
  <2> QED BY <2>1, <2>2
<1>13. Linked(r, d, o)
  BY <1>3, <1>6, <1>7, Basics DEF Good, Linked, Same
<1>14. Kinds(r, d, f, NoBlk)
  BY <1>3, <1>4, <1>5, <1>7, <1>8, <1>9, <1>10, Places DEF Good, Kinds, Same
<1>15. Apart(r, d)
  BY <1>7, <1>8 DEF Good, Apart, Same
<1>16. Unused(r, d, NoBlk)
  BY <1>1, <1>7, <1>8, Basics DEF Good, Mem, Unused, Same
<1>17. Held(r)
  BY <1>1, <1>2, <1>3, <1>8, Basics DEF Good, Held, Opened
<1>18. Owned(r, d)
  BY <1>1, <1>2, <1>7, <1>8, Basics DEF Good, Owned, Same
<1>19. Moved(r, s)
  BY <1>1 DEF Good, Moved
<1>20. OpenOK(r) /\ RootsKept(r, d, s)
  BY <1>12 DEF OpenOK, RootsKept
<1>21. NodesKept(r, d, f, NoBlk)
  BY <1>1, <1>7, <1>8, <1>9, Basics DEF Good, NodesKept, AsOnDisk, Same
<1>22. Saved(r, d, s, o)
  BY <1>1, <1>3, <1>7, <1>8, Basics DEF Good, Saved, Untouched, Same
<1> QED
  BY <1>7, <1>8, <1>11, <1>13, <1>14, <1>15, <1>16, <1>17, <1>18, <1>19, <1>20, <1>21,
     <1>22, Basics DEF Good

\* A record of an open object.
LEMMA InfoIs ==
  ASSUME NEW i \in MaybeBlk, NEW j \in MaybeBlk, NEW b \in BOOLEAN
  PROVE  [inode |-> i, root |-> j, dirty |-> b] \in [inode : MaybeBlk, root : MaybeBlk, dirty : BOOLEAN]
  OBVIOUS

\* The root of an object gets a block that is in no use, and its old one becomes free.
LEMMA GoodMoveRoot ==
  ASSUME NEW m, NEW d, NEW s, NEW f, NEW x, NEW y, Good(m, d, s, f, x, y),
         NEW o \in Owners, Opened(m, o), ~m.info[o].dirty,
         NEW n, Spare(m, d, s, n),
         NEW r, Alike(m, r), r.cache = m.cache, r.free = m.free \cup {m.info[o].root},
         r.info \in [Owners -> [inode : MaybeBlk, root : MaybeBlk, dirty : BOOLEAN]],
         r.info[o] = [inode |-> m.info[o].inode, root |-> n, dirty |-> TRUE],
         \A p \in Owners \ {o} : r.info[p] = m.info[p]
  PROVE  /\ Good(r, d, s, f, x, y)
         /\ \A p \in Owners \ {o} : Same(m, d, r, d, p) /\ Use(r, d, p) = Use(m, d, p)
         /\ Opened(r, o) /\ Ino(r, d, o) = Ino(m, d, o) /\ Ch(r, d, o) = Ch(m, d, o)
         /\ Rt(r, d, o) = n /\ Cont(r, d, o) = Cont(m, d, o)
         /\ Use(r, d, o) = Use(m, d, o) \cup {n}
<1> USE DEF Spare
<1>1. Keys(r) = Keys(m) /\ \A z : At(r, d, z) = At(m, d, z)
  BY DEF Keys, At
<1>2. /\ m.info[o] = [inode |-> m.info[o].inode, root |-> m.info[o].inode, dirty |-> FALSE]
      /\ m.info[o].inode \in Blk /\ m.info[o].inode \in Keys(m) /\ n # m.info[o].inode
  <2>1. m.info[o] \in [inode : MaybeBlk, root : MaybeBlk, dirty : BOOLEAN]
    BY DEF Good, Mem
  <2>2. m.info[o].root = m.info[o].inode /\ m.info[o].root \in Blk /\ m.info[o].inode \in Keys(m)
    BY DEF Good, OpenOK, WellOpen
  <2> QED BY <2>1, <2>2
<1>3. /\ r.info[o] = [inode |-> m.info[o].inode, root |-> n, dirty |-> TRUE]
      /\ \A p \in Owners \ {o} : r.info[p] = m.info[p]
      /\ r.info \in [Owners -> [inode : MaybeBlk, root : MaybeBlk, dirty : BOOLEAN]]
  OBVIOUS
<1>4. ASSUME NEW p \in Owners
      PROVE  Entry(r, d, p) = Entry(m, d, p)
  BY <1>1, SameEntry DEF Alike
<1>5. ASSUME NEW p \in Owners \ {o}
      PROVE  Same(m, d, r, d, p) /\ Use(r, d, p) = Use(m, d, p)
  BY <1>1, <1>3, <1>4, FrameOf
<1>6. /\ Opened(r, o) /\ Ino(r, d, o) = Ino(m, d, o) /\ Ch(r, d, o) = Ch(m, d, o)
      /\ Rt(r, d, o) = n /\ Cont(r, d, o) = Cont(m, d, o)
      /\ Ino(m, d, o) = m.info[o].inode /\ Rt(m, d, o) = m.info[o].inode
      /\ Use(r, d, o) = Use(m, d, o) \cup {n}
  <2>1. Opened(r, o) /\ n # NoBlk /\ Rt(r, d, o) = n
    BY <1>3, Basics DEF Opened, Closed, Rt
  <2>2. /\ Ino(r, d, o) = m.info[o].inode /\ Ino(m, d, o) = m.info[o].inode
        /\ Rt(m, d, o) = m.info[o].inode
    BY <1>2, <1>3, <2>1 DEF Ino, Rt
  <2>3. Ch(r, d, o) = Ch(m, d, o)
    BY <1>1, <2>2 DEF Ch
  <2> QED BY <1>1, <2>1, <2>2, <2>3 DEF Cont, Use
<1>7. Ch(m, d, o) # m.info[o].inode
  BY <1>2, <1>6, Basics DEF Good, Apart
<1>8. ASSUME NEW p \in Owners \ {o}
      PROVE  m.info[o].inode \notin Use(m, d, p)
  BY <1>2, <1>6, Places DEF Good, Apart
<1>9. \A p \in Owners : Ch(m, d, p) # NoBlk => Ch(m, d, p) \in Use(m, d, p)
  BY DEF Use
<1>10. Mem(r)
  BY <1>1, <1>2, <1>3 DEF Good, Mem, Alike
<1>11. OpenOK(r)
  BY <1>1, <1>2, <1>3, <1>5, <1>6 DEF Good, OpenOK, WellOpen, Same, Alike
<1>12. Linked(r, d, x)
  BY <1>2, <1>3, <1>4, <1>5, <1>6 DEF Good, Linked, Same
<1>13. Kinds(r, d, f, y)
  BY <1>1, <1>5, <1>6 DEF Good, Kinds, Same, Alike
<1>14. Apart(r, d)
  <2>1. ASSUME NEW p \in Owners, Ch(r, d, p) # NoBlk
        PROVE  Ch(r, d, p) \notin {Ino(r, d, p), Rt(r, d, p)}
    BY <1>5, <1>6, <1>9, <2>1 DEF Good, Apart, Same
  <2>2. ASSUME NEW p \in Owners, NEW q \in Owners \ {p}
        PROVE  Use(r, d, p) \cap Use(r, d, q) = {}
    BY <1>5, <1>6 DEF Good, Apart
  <2> QED BY <2>1, <2>2 DEF Apart
<1>15. Unused(r, d, y)
  <2>1. Keys(r) \cap r.fresh = {} /\ r.fresh = m.fresh
    BY <1>1 DEF Good, Unused, Alike
  <2>2. ASSUME NEW p \in Owners
        PROVE  Use(r, d, p) \cap r.fresh = {}
    BY <1>5, <1>6, <2>1 DEF Good, Unused
  <2>3. ASSUME NEW p \in Owners
        PROVE  Rt(r, d, p) \notin r.free
    <3>1. CASE p = o
      BY <1>2, <1>6, <3>1
    <3>2. CASE p # o
      <4>1. Rt(r, d, p) = Rt(m, d, p) /\ Rt(m, d, p) \notin m.free
        BY <1>5, <3>2 DEF Good, Unused, Same
      <4>2. Rt(m, d, p) # m.info[o].inode
        BY <1>2, <1>8, <3>2, Basics DEF Use
      <4> QED BY <1>2, <4>1, <4>2
    <3> QED BY <3>1, <3>2
  <2>4. ASSUME NEW p \in Owners, Ch(r, d, p) # y
        PROVE  Ch(r, d, p) \notin r.free
    <3>1. Ch(r, d, p) = Ch(m, d, p)
      BY <1>5, <1>6 DEF Same
    <3>2. Ch(m, d, p) # m.info[o].inode
      BY <1>2, <1>7, <1>8, <1>9, Basics
    <3> QED BY <1>2, <2>4, <3>1, <3>2 DEF Good, Unused
  <2> QED BY <2>1, <2>2, <2>3, <2>4 DEF Unused
<1>16. Held(r)
  <2>1. \A p \in Owners : Opened(r, p) <=> Opened(m, p)
    BY <1>5, <1>6 DEF Same
  <2> QED BY <1>1, <2>1 DEF Good, Held, Mem, Caches
<1>17. Owned(r, d)
  BY <1>1, <1>5, <1>6, Basics DEF Good, Owned, Same, Alike
<1>18. Moved(r, s)
  BY <1>1 DEF Good, Moved, Alike
<1>19. RootsKept(r, d, s)
  BY <1>1, <1>3, <1>5, <1>6 DEF Good, RootsKept, RootKept, Same
<1>20. NodesKept(r, d, f, y)
  BY <1>1, <1>5, <1>6 DEF Good, NodesKept, AsOnDisk, Same
<1>21. Saved(r, d, s, x)
  BY <1>1, <1>2, <1>3, <1>5, <1>6, Places, Basics DEF Good, Saved, Untouched, Same, Alike
<1> QED
  BY <1>5, <1>6, <1>10, <1>11, <1>12, <1>13, <1>14, <1>15, <1>16, <1>17, <1>18, <1>19, <1>20,
     <1>21 DEF Good

\* A change of the root of a user object that has a new root, and of the node below.
LEMMA GoodSetUser ==
  ASSUME NEW m, NEW d, NEW s, NEW f, NEW x, NEW y, Good(m, d, s, f, x, y),
         NEW o \in Objects, Opened(m, o), m.info[o].dirty, y \in {NoBlk, Ch(m, d, o)},
         NEW c \in MaybeBlk, NEW v \in Values,
         \/ c = NoBlk
         \/ c = Ch(m, d, o) /\ c # y
         \/ /\ c \in Keys(m) /\ m.cache[c].owner = o /\ m.cache[c].state = "dirty"
            /\ IsNode(m.cache[c].data) /\ c \notin m.free /\ c \notin m.fresh
            /\ \A p \in Owners : c \notin Use(m, d, p),
         NEW i, i = m.info[o].inode,
         NEW r, Alike(m, r), r.info = m.info, r.free = m.free,
         IsCache(r.cache), Keys(r) = Keys(m), \A z \in Keys(m) \ {i} : r.cache[z] = m.cache[z],
         r.cache[i] = [owner |-> m.cache[i].owner, state |-> m.cache[i].state, data |-> Inode(v, c)]
  PROVE  /\ Good(r, d, s, f, x, NoBlk)
         /\ \A p \in Owners \ {o} : Same(m, d, r, d, p)
         /\ Opened(r, o) /\ Ino(r, d, o) = Ino(m, d, o) /\ Rt(r, d, o) = Rt(m, d, o)
         /\ Ch(r, d, o) = c
         /\ c = NoBlk => Cont(r, d, o) = v
         /\ c # NoBlk => At(r, d, c) = At(m, d, c)
<1>1. /\ o \in Owners /\ o # Dir /\ i \in Keys(m) /\ i \in Blk /\ Ino(m, d, o) = i
      /\ i \in Use(m, d, o) /\ m.cache[i].owner = o /\ m.cache[i] \in Caches /\ o \in m.met
  <2>1. o \in Owners /\ o # Dir
    BY Basics
  <2>2. i \in Keys(m) /\ m.cache[i].owner = o /\ o \in m.met
    BY <2>1 DEF Good, OpenOK, WellOpen
  <2>3. Ino(m, d, o) = i /\ i \in Use(m, d, o) /\ i \in Blk
    BY <2>1, Places
  <2>4. m.cache[i] \in Caches
    BY <2>2 DEF Good, Mem
  <2> QED BY <2>1, <2>2, <2>3, <2>4
<1>2. /\ Inode(v, c) \in Datum /\ IsInode(Inode(v, c)) /\ Inode(v, c).kind = "inode"
      /\ Inode(v, c).val = v /\ Inode(v, c).child = c
  BY DEF Datum, IsInode, Inode, MaybeBlk
<1>3. Keys(r) = Keys(m) /\ \A z \in Keys(m) \ {i} : r.cache[z] = m.cache[z]
  OBVIOUS
<1>4. /\ r.cache[i].data = Inode(v, c) /\ r.cache[i].state = m.cache[i].state
      /\ r.cache[i].owner = o /\ r.cache[i] \in Caches
  BY <1>1, <1>2 DEF Caches
<1>5. \A z : z # i => At(r, d, z) = At(m, d, z)
  BY <1>3 DEF At
<1>6. i # m.dir /\ \A p \in Owners \ {o} : i \notin Use(m, d, p)
  BY <1>1, Places, Basics DEF Good, Apart
<1>7. ASSUME NEW p \in Owners
      PROVE  Entry(r, d, p) = Entry(m, d, p)
  BY <1>5, <1>6, SameEntry DEF Alike
<1>8. ASSUME NEW p \in Owners \ {o}
      PROVE  Same(m, d, r, d, p) /\ Use(r, d, p) = Use(m, d, p)
  BY <1>5, <1>6, <1>7, FrameOf
<1>9. /\ Opened(r, o) /\ Ino(r, d, o) = i /\ Rt(r, d, o) = Rt(m, d, o) /\ Ch(r, d, o) = c
      /\ c = NoBlk => Cont(r, d, o) = v
  <2>1. Opened(r, o) /\ Ino(r, d, o) = i /\ Rt(r, d, o) = Rt(m, d, o)
    BY DEF Opened, Ino, Rt
  <2>2. At(r, d, i) = Inode(v, c)
    BY <1>1, <1>3, <1>4 DEF At
  <2>3. Ch(r, d, o) = c
    BY <1>1, <1>2, <2>1, <2>2, Basics DEF Ch, Below
  <2> QED BY <1>1, <1>2, <2>1, <2>2, <2>3, Basics DEF Cont
<1>10. Rt(m, d, o) = m.info[o].root /\ Rt(m, d, o) \in Use(m, d, o) /\ Rt(m, d, o) \in Blk
  BY <1>1, OpenFacts
<1>11. c # NoBlk => c # i /\ c # Rt(m, d, o) /\ c \notin m.fresh /\ c \notin m.free
  <2>1. Ch(m, d, o) # NoBlk => /\ Ch(m, d, o) \in Use(m, d, o)
                               /\ Ch(m, d, o) \notin {Ino(m, d, o), Rt(m, d, o)}
    BY <1>1 DEF Use, Good, Apart
  <2>2. Ch(m, d, o) # y => Ch(m, d, o) \notin m.free
    BY <1>1 DEF Good, Unused
  <2> QED BY <1>1, <1>10, <2>1, <2>2 DEF Good, Unused
<1>12. Use(r, d, o) = {i, Rt(m, d, o), c} \ {NoBlk}
  BY <1>9 DEF Use
<1>13. ASSUME NEW p \in Owners \ {o}
       PROVE  c \notin Use(m, d, p)
  <2>1. Use(m, d, o) \cap Use(m, d, p) = {}
    BY <1>1 DEF Good, Apart
  <2>2. NoBlk \notin Use(m, d, p)
    BY DEF Use
  <2>3. Ch(m, d, o) = NoBlk \/ Ch(m, d, o) \in Use(m, d, o)
    BY DEF Use
  <2> QED BY <2>1, <2>2, <2>3
<1>14. \A p \in Owners : Ch(m, d, p) # NoBlk => Ch(m, d, p) \in Use(m, d, p)
  BY DEF Use
<1>15. \A p \in Owners : Ino(m, d, p) # NoBlk => Ino(m, d, p) \in Use(m, d, p)
  BY DEF Use
<1>16. ASSUME NEW p \in Owners \ {o}
       PROVE  Ch(m, d, p) = NoBlk \/ Ch(m, d, p) # y
  <2>1. Use(m, d, o) \cap Use(m, d, p) = {}
    BY <1>1 DEF Good, Apart
  <2>2. y # NoBlk => y \in Use(m, d, o)
    BY <1>1, <1>14
  <2> QED BY <1>14, <2>1, <2>2
<1>17. Mem(r)
  <2>1. \A z \in Keys(r) : r.cache[z] \in Caches
    BY <1>3, <1>4 DEF Good, Mem
  <2> QED BY <1>3, <2>1 DEF Good, Mem, Alike
<1>18. ASSUME NEW p \in Owners, Opened(r, p)
       PROVE  WellOpen(r, p) /\ RootKept(r, d, s, p)
  <2>1. Opened(m, p) /\ r.info[p] = m.info[p] /\ r.met = m.met
    BY <1>18 DEF Alike, Opened
  <2>2. /\ WellOpen(m, p) /\ RootKept(m, d, s, p) /\ m.info[p].inode \in Keys(m)
        /\ Ino(m, d, p) = m.info[p].inode /\ Ino(m, d, p) \in Use(m, d, p)
    BY <2>1, OpenFacts
  <2>3. CASE p = o
    <3>1. p # Dir /\ r.cache[m.info[p].inode].owner = p /\ IsInode(r.cache[m.info[p].inode].data)
      <4>1. p # Dir
        BY <1>1, <2>3
      <4>2. m.info[p].inode = i
        BY <2>3
      <4>3. r.cache[i].owner = p /\ IsInode(r.cache[i].data)
        BY <1>2, <1>4, <2>3, Zenon
      <4> QED BY <4>1, <4>2, <4>3
    <3>2. WellOpen(r, p)
      BY <1>3, <2>1, <2>2, <3>1 DEF WellOpen
    <3>3. m.info[p].dirty
      BY <2>3
    <3> QED BY <2>1, <2>2, <3>2, <3>3 DEF RootKept
  <2>4. CASE p # o
    <3>1. i \notin Use(m, d, p) /\ Use(r, d, p) = Use(m, d, p)
      BY <1>6, <1>8, <2>4
    <3>2. r.cache[m.info[p].inode] = m.cache[m.info[p].inode]
      BY <1>3, <2>2, <3>1
    <3>3. WellOpen(r, p)
      <4>1. SameInode(m, r, p)
        BY <1>3, <2>1, <2>2, <3>2 DEF SameInode
      <4> QED BY <2>2, <4>1, OpenStays, Zenon
    <3>4. \A z \in Use(m, d, p) \cap Keys(r) : z \in Keys(m) /\ r.cache[z].state = m.cache[z].state
      BY <1>3, <3>1
    <3>5. SameBlocks(m, r, d, p)
      BY <2>1, <3>1, <3>2, <3>4 DEF SameBlocks
    <3> QED BY <2>2, <3>3, <3>5, RootStays, Zenon
  <2> QED BY <2>3, <2>4
<1>19. Linked(r, d, x)
  BY <1>7, <1>8, <1>9 DEF Good, Linked, Same
<1>20. Kinds(r, d, f, NoBlk)
  <2>1. ASSUME NEW p \in Owners \ {o}, ~Opened(r, p), Ino(r, d, p) # NoBlk
        PROVE  \/ IF p = Dir THEN IsDir(At(r, d, r.dir)) ELSE IsInode(At(r, d, Ino(r, d, p)))
               \/ f /\ At(r, d, Ino(r, d, p)) = Bad
    BY <1>5, <1>6, <1>8, <1>15, <2>1 DEF Good, Kinds, Same, Alike
  <2>2. ASSUME NEW p \in Owners \ {o}, Ch(r, d, p) # NoBlk
        PROVE  IsNode(At(r, d, Ch(r, d, p))) \/ (f /\ At(r, d, Ch(r, d, p)) = Bad)
    BY <1>5, <1>6, <1>8, <1>14, <1>16, <2>2 DEF Good, Kinds, Same
  <2>3. ASSUME c # NoBlk
        PROVE  IsNode(At(r, d, c)) \/ (f /\ At(r, d, c) = Bad)
    BY <1>1, <1>5, <1>11, <2>3 DEF Good, Kinds, At, Keys
  <2> QED BY <1>9, <2>1, <2>2, <2>3 DEF Kinds
<1>21. Apart(r, d)
  <2>1. ASSUME NEW p \in Owners, Ch(r, d, p) # NoBlk
        PROVE  Ch(r, d, p) \notin {Ino(r, d, p), Rt(r, d, p)}
    BY <1>8, <1>9, <1>11, <2>1 DEF Good, Apart, Same
  <2>2. ASSUME NEW p \in Owners \ {o}
        PROVE  Use(r, d, o) \cap Use(r, d, p) = {}
    BY <1>1, <1>6, <1>8, <1>10, <1>12, <1>13 DEF Good, Apart
  <2>3. ASSUME NEW p \in Owners, NEW q \in Owners \ {p}
        PROVE  Use(r, d, p) \cap Use(r, d, q) = {}
    BY <1>8, <2>2 DEF Good, Apart
  <2> QED BY <2>1, <2>3 DEF Apart
<1>22. Unused(r, d, NoBlk)
  <2>1. Use(m, d, o) \cap m.fresh = {}
    BY <1>1 DEF Good, Unused
  <2>2. ASSUME NEW p \in Owners
        PROVE  Use(r, d, p) \cap r.fresh = {}
    BY <1>1, <1>8, <1>10, <1>11, <1>12, <2>1 DEF Good, Unused, Alike
  <2>3. ASSUME NEW p \in Owners, Ch(r, d, p) # NoBlk
        PROVE  Ch(r, d, p) \notin r.free
    BY <1>8, <1>9, <1>11, <1>16, <2>3 DEF Good, Unused, Same
  <2> QED BY <1>3, <1>8, <1>9, <2>2, <2>3 DEF Good, Unused, Same, Alike
<1>23. Held(r)
  BY <1>1, <1>3, <1>4, <1>9, Basics DEF Good, Held, Opened
<1>24. Owned(r, d)
  <2>1. ASSUME NEW p \in Owners, NEW b \in Use(r, d, p) \cap Keys(r)
        PROVE  r.cache[b].owner = IF Opened(r, p) THEN p ELSE NoObject
    <3>1. CASE p # o
      BY <1>1, <1>3, <1>6, <1>8, <3>1 DEF Good, Owned, Same
    <3>2. CASE p = o
      <4>1. b = c => c # NoBlk /\ r.cache[b].owner = o
        <5>1. NoBlk \notin Use(r, d, p) /\ (Ch(m, d, o) # NoBlk => Ch(m, d, o) \in Use(m, d, o))
          BY DEF Use
        <5>2. \A z \in Use(m, d, o) \cap Keys(m) : m.cache[z].owner = o
          BY <1>1 DEF Good, Owned
        <5> QED BY <1>3, <1>4, <5>1, <5>2
      <4>2. b # c => b \in {i, Rt(m, d, o)} /\ r.cache[b].owner = o
        BY <1>1, <1>3, <1>4, <1>10, <1>12, <3>2 DEF Good, Owned
      <4> QED BY <1>9, <3>2, <4>1, <4>2
    <3> QED BY <3>1, <3>2
  <2>2. ASSUME NEW p \in Objects \ r.met
        PROVE  Use(r, d, p) \cap Keys(r) = {}
    BY <1>1, <1>3, <1>8, Basics DEF Good, Owned, Alike
  <2> QED BY <2>1, <2>2 DEF Owned
<1>25. Moved(r, s)
  BY <1>3, <1>4 DEF Good, Moved, Alike
<1>26. OpenOK(r) /\ RootsKept(r, d, s)
  BY <1>18 DEF OpenOK, RootsKept
<1>27. NodesKept(r, d, f, NoBlk)
  <2>1. ASSUME NEW p \in Owners, Ch(r, d, p) \in Keys(r), Ch(r, d, p) # NoBlk,
               r.cache[Ch(r, d, p)].state # "dirty"
        PROVE  AsOnDisk(r, d, f, Ch(r, d, p))
    <3>1. CASE p # o
      BY <1>3, <1>6, <1>8, <1>14, <1>16, <2>1, <3>1 DEF Good, NodesKept, AsOnDisk, Same
    <3>2. CASE p = o
      <4>1. r.cache[c] = m.cache[c] /\ c = Ch(m, d, o) /\ c # y
        <5>1. Ch(r, d, p) = c /\ c # NoBlk /\ c \in Keys(m) /\ c # i
          BY <1>3, <1>9, <1>11, <2>1, <3>2
        <5>2. r.cache[c] = m.cache[c] /\ m.cache[c].state # "dirty"
          BY <1>3, <2>1, <5>1
        <5> QED BY <5>1, <5>2
      <4>2. AsOnDisk(m, d, f, c)
        BY <1>1, <1>3, <1>9, <2>1, <3>2, <4>1 DEF Good, NodesKept
      <4> QED BY <1>9, <3>2, <4>1, <4>2 DEF AsOnDisk
    <3> QED BY <3>1, <3>2
  <2> QED BY <2>1 DEF NodesKept
<1>28. Saved(r, d, s, x)
  BY <1>3, <1>8, <1>9, Basics DEF Good, Saved, Untouched, Same, Alike
<1> QED
  BY <1>1, <1>5, <1>8, <1>9, <1>11, <1>17, <1>19, <1>20, <1>21, <1>22, <1>23, <1>24, <1>25,
     <1>26, <1>27, <1>28 DEF Good

\* A change of the root of $OBJID: object o is found where its inode is.
LEMMA GoodSetDir ==
  ASSUME NEW m, NEW d, NEW s, NEW f, NEW o \in Objects, Good(m, d, s, f, o, NoBlk),
         Opened(m, Dir), m.info[Dir].dirty, Opened(m, o),
         NEW e \in [Objects -> MaybeBlk], e[o] = m.info[o].inode,
         \A p \in Objects \ {o} : e[p] = Entry(m, d, p), NEW i, i = m.dir,
         NEW r, Alike(m, r), r.info = m.info, r.free = m.free,
         IsCache(r.cache), Keys(r) = Keys(m), \A z \in Keys(m) \ {i} : r.cache[z] = m.cache[z],
         r.cache[i] = [owner |-> m.cache[i].owner, state |-> m.cache[i].state, data |-> DirInode(e)]
  PROVE  /\ Good(r, d, s, f, NoObject, NoBlk)
         /\ \A p \in Owners : Same(m, d, r, d, p)
<1>1. /\ o \in Owners /\ o # Dir /\ m.dir \in Keys(m) /\ m.dir \in Blk
      /\ m.dir = m.info[Dir].inode /\ Ino(m, d, Dir) = m.dir /\ m.dir \in Use(m, d, Dir)
  <2>1. Dir \in Owners /\ o \in Owners /\ o # Dir
    BY Basics
  <2>2. m.info[Dir].inode \in Keys(m) /\ Ino(m, d, Dir) = m.info[Dir].inode
    BY <2>1, OpenFacts
  <2>3. Ino(m, d, Dir) = m.dir /\ m.dir \in Blk /\ m.dir \in Use(m, d, Dir)
    BY <2>1, Places
  <2> QED BY <2>1, <2>2, <2>3
<1>2. /\ m.cache[m.dir].owner = Dir /\ IsDir(m.cache[m.dir].data) /\ m.cache[m.dir] \in Caches
      /\ m.cache[m.dir].data = At(m, d, m.dir)
  <2>1. WellOpen(m, Dir) /\ m.cache[m.dir] \in Caches
    BY <1>1, Basics, OpenFacts
  <2> QED BY <1>1, <2>1 DEF WellOpen, At
<1>4. /\ e[o] = m.info[o].inode /\ \A p \in Objects \ {o} : e[p] = Entry(m, d, p)
  OBVIOUS
<1>5. /\ DirInode(e) \in Datum /\ IsDir(DirInode(e)) /\ DirInode(e).kind = "inode"
      /\ DirInode(e).entry = e
  BY <1>4 DEF Datum, IsDir, DirInode, MaybeBlk
<1>6. /\ r.cache[m.dir].owner = Dir /\ r.cache[m.dir].state = m.cache[m.dir].state
      /\ r.cache[m.dir].data = DirInode(e) /\ r.cache[m.dir] \in Caches
  BY <1>2, <1>5 DEF Caches
<1>7. \A z : z # m.dir => At(r, d, z) = At(m, d, z)
  BY DEF At
<1>8. \A p \in Owners \ {Dir} : m.dir \notin Use(m, d, p)
  BY <1>1, Basics DEF Good, Apart
<1>9. ASSUME NEW p \in Owners
      PROVE  Entry(r, d, p) = IF p = o THEN m.info[o].inode ELSE Entry(m, d, p)
  <2>1. r.dir = m.dir /\ At(r, d, r.dir) = DirInode(e)
    BY <1>1, <1>6 DEF At, Alike
  <2>2. CASE p = Dir
    BY <1>1, <2>1, <2>2 DEF Entry
  <2>3. CASE p # Dir
    <3>1. Entry(r, d, p) = e[p]
      BY <1>5, <2>1, <2>3 DEF Entry
    <3> QED BY <1>4, <2>3, <3>1, Basics
  <2> QED BY <2>2, <2>3
<1>10. ASSUME NEW p \in Owners, p # Dir, p # o
       PROVE  Same(m, d, r, d, p) /\ Use(r, d, p) = Use(m, d, p)
  BY <1>7, <1>8, <1>9, <1>10, FrameOf
<1>11. /\ Opened(r, o) /\ Ino(r, d, o) = Ino(m, d, o) /\ Rt(r, d, o) = Rt(m, d, o)
       /\ Ino(m, d, o) = m.info[o].inode
  BY DEF Opened, Ino, Rt
<1>12. Same(m, d, r, d, o) /\ Use(r, d, o) = Use(m, d, o)
  <2>1. At(r, d, Ino(m, d, o)) = At(m, d, Ino(m, d, o))
    BY <1>1, <1>7, <1>8, Places
  <2>2. Ch(r, d, o) = Ch(m, d, o)
    BY <1>11, <2>1 DEF Ch
  <2>3. Ch(m, d, o) # NoBlk => At(r, d, Ch(m, d, o)) = At(m, d, Ch(m, d, o))
    BY <1>1, <1>7, <1>8 DEF Use
  <2> QED BY <1>11, <2>1, <2>2, <2>3 DEF Same, Use, Cont
<1>13. Same(m, d, r, d, Dir) /\ Use(r, d, Dir) = Use(m, d, Dir)
  <2>1. Opened(r, Dir) /\ Ino(r, d, Dir) = m.dir /\ Rt(r, d, Dir) = Rt(m, d, Dir)
    BY <1>1 DEF Opened, Ino, Rt
  <2>2. Ch(r, d, Dir) = NoBlk /\ Ch(m, d, Dir) = NoBlk
    BY DEF Ch
  <2>3. At(m, d, m.dir) = DirInode(At(m, d, m.dir).entry)
    BY <1>2 DEF IsDir
  <2> QED BY <1>1, <2>1, <2>2 DEF Same, Use, Cont
<1>14. \A p \in Owners : Same(m, d, r, d, p) /\ Use(r, d, p) = Use(m, d, p)
  BY <1>10, <1>12, <1>13
<1>15. \A p \in Owners : Ch(m, d, p) # NoBlk => Ch(m, d, p) \in Use(m, d, p) /\ Ch(m, d, p) # m.dir
  BY <1>1, <1>8, Basics DEF Use, Ch
<1>16. \A p \in Owners \ {Dir} : Ino(m, d, p) # NoBlk => Ino(m, d, p) # m.dir
  BY <1>8 DEF Use
<1>17. Mem(r)
  <2>1. \A z \in Keys(r) : r.cache[z] \in Caches
    BY <1>6 DEF Good, Mem
  <2> QED BY <2>1 DEF Good, Mem, Alike
<1>18. OpenOK(r)
  <2>1. ASSUME NEW p \in Owners, Opened(r, p)
        PROVE  WellOpen(r, p)
    <3>1. Opened(m, p) /\ r.info[p] = m.info[p] /\ r.met = m.met
      BY <2>1 DEF Alike, Opened
    <3>2. /\ WellOpen(m, p) /\ m.info[p].inode \in Keys(m)
          /\ Ino(m, d, p) = m.info[p].inode /\ Ino(m, d, p) \in Use(m, d, p)
      BY <3>1, OpenFacts
    <3>3. CASE p = Dir
      <4>1. /\ m.info[p].inode = m.dir /\ r.cache[m.dir].owner = p /\ IsDir(r.cache[m.dir].data)
            /\ r.info[p].inode = m.dir
        BY <1>1, <1>5, <1>6, <3>1, <3>3
      <4> QED BY <3>1, <3>2, <3>3, <4>1 DEF WellOpen
    <3>4. CASE p # Dir
      <4>1. r.cache[m.info[p].inode] = m.cache[m.info[p].inode]
        BY <1>8, <3>2, <3>4
      <4>2. SameInode(m, r, p)
        BY <3>1, <3>2, <4>1 DEF SameInode
      <4> QED BY <3>2, <4>2, OpenStays, Zenon
    <3> QED BY <3>3, <3>4
  <2> QED BY <2>1 DEF OpenOK
<1>19. Linked(r, d, NoObject)
  BY <1>9, <1>14 DEF Good, Linked, Same
<1>20. Kinds(r, d, f, NoBlk)
  BY <1>7, <1>13, <1>14, <1>15, <1>16 DEF Good, Kinds, Same
<1>21. Apart(r, d)
  BY <1>14 DEF Good, Apart, Same
<1>22. Unused(r, d, NoBlk)
  BY <1>14 DEF Good, Unused, Same, Alike
<1>23. Held(r)
  BY <1>1, <1>6, <1>14, Basics DEF Good, Held, Opened
<1>24. Owned(r, d)
  BY <1>1, <1>2, <1>6, <1>14, Basics DEF Good, Owned, Same, Alike
<1>25. Moved(r, s)
  BY <1>6 DEF Good, Moved, Alike
<1>26. RootsKept(r, d, s)
  <2>1. m.info[Dir].root \in s.free
    BY <1>1, Basics DEF Good, RootsKept, RootKept
  <2>2. ASSUME NEW p \in Owners, p # Dir, Opened(r, p)
        PROVE  IF r.info[p].dirty THEN r.info[p].root \in s.free
               ELSE /\ r.cache[r.info[p].inode].data = d[r.info[p].inode]
                    /\ \A b \in Use(r, d, p) \cap Keys(r) : r.cache[b].state # "dirty"
    <3>1. Opened(m, p) /\ m.info[p].inode \in Use(m, d, p) /\ m.info[p].inode \in Keys(m)
      BY <1>14, <2>2, Places DEF Same
    <3>2. \A b \in Use(m, d, p) : b # m.dir
      BY <1>8, <2>2
    <3> QED BY <1>14, <2>2, <3>1, <3>2 DEF Good, RootsKept, RootKept
  <2> QED BY <2>1, <2>2 DEF RootsKept, RootKept
<1>27. NodesKept(r, d, f, NoBlk)
  BY <1>14, <1>15, Basics DEF Good, NodesKept, AsOnDisk, Same
<1>28. Saved(r, d, s, NoObject)
  BY <1>1, <1>14, Basics DEF Good, Saved, Untouched, Same, Alike
<1> QED
  BY <1>14, <1>17, <1>18, <1>19, <1>20, <1>21, <1>22, <1>23, <1>24, <1>25, <1>26, <1>27, <1>28
     DEF Good

\* A change of a node that is to be written anyway.
LEMMA GoodNodeSet ==
  ASSUME NEW m, NEW d, NEW s, NEW f, NEW x, NEW y, Good(m, d, s, f, x, y),
         NEW o \in Objects, Opened(m, o), NEW b, b = Ch(m, d, o), b # NoBlk, b \in Keys(m),
         m.cache[b].state = "dirty", NEW v \in Values,
         NEW r, Alike(m, r), r.info = m.info, r.free = m.free,
         IsCache(r.cache), Keys(r) = Keys(m), \A z \in Keys(m) \ {b} : r.cache[z] = m.cache[z],
         r.cache[b] = [owner |-> m.cache[b].owner, state |-> "dirty", data |-> Node(v)]
  PROVE  /\ Good(r, d, s, f, x, y)
         /\ \A p \in Owners \ {o} : Same(m, d, r, d, p)
         /\ Cont(r, d, o) = v
<1>1. o \in Owners /\ o # Dir /\ b \in Use(m, d, o) /\ b \in Blk /\ m.cache[b] \in Caches
  BY Places, Basics DEF Use, Good, Mem
<1>2. /\ Node(v) \in Datum /\ IsNode(Node(v)) /\ Node(v).kind = "index" /\ Node(v).val = v
      /\ IsNode(At(r, d, b)) /\ At(r, d, b) = Node(v)
      /\ r.cache[b].owner = m.cache[b].owner /\ r.cache[b].state = "dirty" /\ r.cache[b] \in Caches
  BY <1>1 DEF Datum, IsNode, Node, Caches, At
<1>3. \A z : z # b => At(r, d, z) = At(m, d, z)
  BY DEF At
<1>4. \A p \in Owners \ {o} : b \notin Use(m, d, p)
  BY <1>1 DEF Good, Apart
<1>5. b # m.dir /\ b # Ino(m, d, o) /\ b # Rt(m, d, o)
  BY <1>1, <1>4, Places, Basics DEF Good, Apart
<1>6. ASSUME NEW p \in Owners
      PROVE  Entry(r, d, p) = Entry(m, d, p)
  BY <1>3, <1>5, SameEntry DEF Alike
<1>7. ASSUME NEW p \in Owners \ {o}
      PROVE  Same(m, d, r, d, p) /\ Use(r, d, p) = Use(m, d, p)
  BY <1>3, <1>4, <1>6, FrameOf
<1>8. /\ Opened(r, o) /\ Ino(r, d, o) = Ino(m, d, o) /\ Rt(r, d, o) = Rt(m, d, o)
      /\ Ch(r, d, o) = b /\ Use(r, d, o) = Use(m, d, o)
  <2>1. Opened(r, o) /\ Ino(r, d, o) = Ino(m, d, o) /\ Rt(r, d, o) = Rt(m, d, o)
    BY DEF Opened, Ino, Rt
  <2>2. Ch(r, d, o) = b
    BY <1>3, <1>5, <2>1 DEF Ch
  <2> QED BY <2>1, <2>2 DEF Use
<1>9. Cont(r, d, o) = v
  <2>1. Ino(m, d, o) # NoBlk /\ At(m, d, Ino(m, d, o)).kind = "inode"
    BY <1>1 DEF Ch, Below
  <2> QED BY <1>1, <1>2, <1>3, <1>5, <1>8, <2>1 DEF Cont
<1>10. \A p \in Owners : Opened(r, p) <=> Opened(m, p)
  BY DEF Opened
<1>11. \A p \in Owners : /\ Ino(r, d, p) = Ino(m, d, p) /\ Rt(r, d, p) = Rt(m, d, p)
                         /\ Ch(r, d, p) = Ch(m, d, p) /\ Use(r, d, p) = Use(m, d, p)
  BY <1>7, <1>8 DEF Same
<1>12. \A p \in Owners \ {o} : Ch(m, d, p) # NoBlk => Ch(m, d, p) # b
  BY <1>4 DEF Use
<1>13. \A p \in Owners : Ino(m, d, p) # NoBlk => Ino(m, d, p) # b
  BY <1>4, <1>5 DEF Use
<1>14. Mem(r)
  <2>1. \A z \in Keys(r) : r.cache[z] \in Caches
    BY <1>2 DEF Good, Mem
  <2> QED BY <2>1 DEF Good, Mem, Alike
<1>15. OpenOK(r)
  <2>1. ASSUME NEW p \in Owners, Opened(r, p)
        PROVE  WellOpen(r, p)
    <3>1. Opened(m, p) /\ r.info[p] = m.info[p] /\ r.met = m.met
      BY <2>1 DEF Alike, Opened
    <3>2. /\ WellOpen(m, p) /\ m.info[p].inode \in Keys(m) /\ m.info[p].inode \in Blk
          /\ Ino(m, d, p) = m.info[p].inode
      BY <3>1, OpenFacts
    <3>3. r.cache[m.info[p].inode] = m.cache[m.info[p].inode]
      BY <1>13, <3>2, Basics
    <3>4. SameInode(m, r, p)
      BY <3>1, <3>2, <3>3 DEF SameInode
    <3> QED BY <3>2, <3>4, OpenStays, Zenon
  <2> QED BY <2>1 DEF OpenOK
<1>16. Linked(r, d, x)
  BY <1>6, <1>10 DEF Good, Linked
<1>17. Kinds(r, d, f, y)
  BY <1>2, <1>3, <1>5, <1>8, <1>10, <1>11, <1>12, <1>13 DEF Good, Kinds, Alike
<1>18. Apart(r, d)
  BY <1>11 DEF Good, Apart
<1>19. Unused(r, d, y)
  BY <1>11 DEF Good, Unused, Alike
<1>20. Held(r)
  BY <1>2, <1>10, Basics DEF Good, Held, Opened
<1>21. Owned(r, d)
  BY <1>1, <1>2, <1>10, <1>11, Basics DEF Good, Owned, Alike
<1>22. Moved(r, s)
  BY <1>2 DEF Good, Moved, Alike
<1>23. RootsKept(r, d, s)
  BY <1>4, <1>10, <1>11, <1>13, Places DEF Good, RootsKept, RootKept
<1>24. NodesKept(r, d, f, y)
  BY <1>2, <1>11, <1>12, Basics DEF Good, NodesKept, AsOnDisk
<1>25. Saved(r, d, s, x)
  BY <1>10, <1>11, Basics DEF Good, Saved, Untouched, Alike
<1> QED
  BY <1>7, <1>9, <1>14, <1>15, <1>16, <1>17, <1>18, <1>19, <1>20, <1>21, <1>22, <1>23, <1>24,
     <1>25 DEF Good

\* A node leaves the tree: its cache is gone or emptied, and its block becomes free.
LEMMA GoodAbandoned ==
  ASSUME NEW m, NEW d, NEW s, NEW f, NEW x, Good(m, d, s, f, x, NoBlk),
         NEW o \in Objects, Opened(m, o), NEW b, b = Ch(m, d, o), b # NoBlk,
         NEW r, Alike(m, r), r.info = m.info, r.free = m.free \cup {b},
         IsCache(r.cache), Keys(r) \subseteq Keys(m), Keys(m) \ {b} \subseteq Keys(r),
         \A z \in Keys(m) \ {b} : r.cache[z] = m.cache[z],
         b \in Keys(r) => /\ r.cache[b].owner = m.cache[b].owner /\ r.cache[b].state = "empty"
                          /\ r.cache[b] \in Caches
  PROVE  /\ Good(r, d, s, f, x, b)
         /\ \A p \in Owners \ {o} : Same(m, d, r, d, p) /\ Use(r, d, p) = Use(m, d, p)
         /\ Opened(r, o) /\ Ino(r, d, o) = Ino(m, d, o) /\ Rt(r, d, o) = Rt(m, d, o)
         /\ Ch(r, d, o) = b /\ Use(r, d, o) = Use(m, d, o)
<1>1. o \in Owners /\ o # Dir /\ b \in Use(m, d, o) /\ b \in Blk
  BY Places, Basics DEF Use
<1>2. b \in Keys(m) => m.cache[b].owner = o
  BY <1>1 DEF Good, Owned
<1>3. \A z : z # b => At(r, d, z) = At(m, d, z)
  BY DEF At
<1>4. \A p \in Owners \ {o} : b \notin Use(m, d, p)
  BY <1>1 DEF Good, Apart
<1>5. b # m.dir /\ b # Ino(m, d, o) /\ b # Rt(m, d, o)
  BY <1>1, <1>4, Places, Basics DEF Good, Apart
<1>6. ASSUME NEW p \in Owners
      PROVE  Entry(r, d, p) = Entry(m, d, p)
  BY <1>3, <1>5, SameEntry DEF Alike
<1>7. ASSUME NEW p \in Owners \ {o}
      PROVE  Same(m, d, r, d, p) /\ Use(r, d, p) = Use(m, d, p)
  BY <1>3, <1>4, <1>6, FrameOf
<1>8. /\ Opened(r, o) /\ Ino(r, d, o) = Ino(m, d, o) /\ Rt(r, d, o) = Rt(m, d, o)
      /\ Ch(r, d, o) = b /\ Use(r, d, o) = Use(m, d, o)
  <2>1. Opened(r, o) /\ Ino(r, d, o) = Ino(m, d, o) /\ Rt(r, d, o) = Rt(m, d, o)
    BY DEF Opened, Ino, Rt
  <2>2. Ch(r, d, o) = b
    BY <1>3, <1>5, <2>1 DEF Ch
  <2> QED BY <2>1, <2>2 DEF Use
<1>10. \A p \in Owners : Opened(r, p) <=> Opened(m, p)
  BY DEF Opened
<1>11. \A p \in Owners : /\ Ino(r, d, p) = Ino(m, d, p) /\ Rt(r, d, p) = Rt(m, d, p)
                         /\ Ch(r, d, p) = Ch(m, d, p) /\ Use(r, d, p) = Use(m, d, p)
  BY <1>7, <1>8 DEF Same
<1>12. \A p \in Owners \ {o} : Ch(m, d, p) # NoBlk => Ch(m, d, p) # b
  BY <1>4 DEF Use
<1>13. \A p \in Owners : Ino(m, d, p) # NoBlk => Ino(m, d, p) # b
  BY <1>4, <1>5 DEF Use
<1>14. Mem(r)
  <2>1. \A z \in Keys(r) : r.cache[z] \in Caches
    BY DEF Good, Mem
  <2> QED BY <1>1, <2>1 DEF Good, Mem, Alike
<1>15. OpenOK(r)
  BY <1>10, <1>13, Places DEF Good, OpenOK, WellOpen, Alike
<1>16. Linked(r, d, x)
  BY <1>6, <1>10 DEF Good, Linked
<1>17. Kinds(r, d, f, b)
  BY <1>3, <1>5, <1>8, <1>10, <1>11, <1>12, <1>13 DEF Good, Kinds, Alike
<1>18. Apart(r, d)
  BY <1>11 DEF Good, Apart
<1>19. Unused(r, d, b)
  <2>1. \A p \in Owners : Rt(m, d, p) # b
    BY <1>4, <1>5, <1>1 DEF Use
  <2>2. Keys(r) \cap r.fresh = {}
    BY DEF Good, Unused, Alike
  <2>3. \A p \in Owners : Use(r, d, p) \cap r.fresh = {}
    BY <1>11 DEF Good, Unused, Alike
  <2>4. \A p \in Owners : Rt(r, d, p) \notin r.free
    BY <1>11, <2>1 DEF Good, Unused
  <2>5. ASSUME NEW p \in Owners, Ch(r, d, p) # b
        PROVE  Ch(r, d, p) \notin r.free
    BY <1>11, <2>5, Basics DEF Good, Unused, Mem
  <2> QED BY <2>2, <2>3, <2>4, <2>5 DEF Unused
<1>20. Held(r)
  BY <1>2, <1>8, <1>10, Basics DEF Good, Held, Opened
<1>21. Owned(r, d)
  BY <1>1, <1>2, <1>10, <1>11, Basics DEF Good, Owned, Alike
<1>22. Moved(r, s)
  BY DEF Good, Moved, Alike
<1>23. RootsKept(r, d, s)
  BY <1>4, <1>10, <1>11, <1>13, Places DEF Good, RootsKept, RootKept
<1>24. NodesKept(r, d, f, b)
  <2>1. ASSUME NEW p \in Owners, Ch(r, d, p) \in Keys(r), Ch(r, d, p) # b,
               r.cache[Ch(r, d, p)].state # "dirty"
        PROVE  AsOnDisk(r, d, f, Ch(r, d, p))
    <3>1. /\ Ch(r, d, p) = Ch(m, d, p) /\ Ch(m, d, p) \in Keys(m) \ {b}
          /\ r.cache[Ch(m, d, p)] = m.cache[Ch(m, d, p)] /\ Ch(m, d, p) # NoBlk
      BY <1>11, <2>1, Basics DEF Good, Mem
    <3>2. AsOnDisk(m, d, f, Ch(m, d, p))
      BY <2>1, <3>1 DEF Good, NodesKept
    <3> QED BY <3>1, <3>2 DEF AsOnDisk
  <2> QED BY <2>1 DEF NodesKept
<1>25. Saved(r, d, s, x)
  BY <1>10, <1>11, Basics DEF Good, Saved, Untouched, Alike
<1> QED
  BY <1>7, <1>8, <1>14, <1>15, <1>16, <1>17, <1>18, <1>19, <1>20, <1>21, <1>22, <1>23, <1>24,
     <1>25 DEF Good

\* The node of an open object is read.
LEMMA GoodRead ==
  ASSUME NEW m, NEW d, NEW s, NEW f \in BOOLEAN, NEW g \in BOOLEAN, Good(m, d, s, f, NoObject, NoBlk),
         f => g, NEW o \in Objects, Opened(m, o), NEW b, b = Ch(m, d, o), b # NoBlk, b \notin Keys(m),
         NEW c \in Caches, c.owner = o, c.state # "dirty",
         (IsNode(d[b]) /\ c.data = d[b]) \/ (c.data = Bad /\ g),
         NEW r, Alike(m, r), r.info = m.info, r.free = m.free,
         r.cache = [z \in Keys(m) \cup {b} |-> IF z = b THEN c ELSE m.cache[z]]
  PROVE  /\ Good(r, d, s, g, NoObject, NoBlk)
         /\ \A p \in Owners \ {o} : Same(m, d, r, d, p)
         /\ c.data = d[b] => Same(m, d, r, d, o)
<1>1. o \in Owners /\ o # Dir /\ b \in Use(m, d, o) /\ b \in Blk /\ o \in m.met
  BY Places, Basics DEF Use, Good, OpenOK, WellOpen
<1>2. /\ Keys(r) = Keys(m) \cup {b} /\ r.cache[b] = c
      /\ \A z \in Keys(m) : r.cache[z] = m.cache[z]
  BY DEF Keys
<1>3. /\ \A z : z # b => At(r, d, z) = At(m, d, z)
      /\ At(r, d, b) = c.data /\ At(m, d, b) = d[b]
  BY <1>2 DEF At
<1>4. \A p \in Owners \ {o} : b \notin Use(m, d, p)
  BY <1>1 DEF Good, Apart
<1>5. b # m.dir /\ b # Ino(m, d, o) /\ b # Rt(m, d, o)
  BY <1>1, <1>4, Places, Basics DEF Good, Apart
<1>6. ASSUME NEW p \in Owners
      PROVE  Entry(r, d, p) = Entry(m, d, p)
  BY <1>3, <1>5, SameEntry DEF Alike
<1>7. ASSUME NEW p \in Owners \ {o}
      PROVE  Same(m, d, r, d, p) /\ Use(r, d, p) = Use(m, d, p)
  BY <1>3, <1>4, <1>6, FrameOf
<1>8. /\ Opened(r, o) /\ Ino(r, d, o) = Ino(m, d, o) /\ Rt(r, d, o) = Rt(m, d, o)
      /\ Ch(r, d, o) = b /\ Use(r, d, o) = Use(m, d, o)
  <2>1. Opened(r, o) /\ Ino(r, d, o) = Ino(m, d, o) /\ Rt(r, d, o) = Rt(m, d, o)
    BY DEF Opened, Ino, Rt
  <2>2. Ch(r, d, o) = b
    BY <1>3, <1>5, <2>1 DEF Ch
  <2> QED BY <2>1, <2>2 DEF Use
<1>9. c.data = d[b] => Same(m, d, r, d, o)
  BY <1>3, <1>5, <1>8 DEF Same, Cont
<1>10. \A p \in Owners : Opened(r, p) <=> Opened(m, p)
  BY DEF Opened
<1>11. \A p \in Owners : /\ Ino(r, d, p) = Ino(m, d, p) /\ Rt(r, d, p) = Rt(m, d, p)
                         /\ Ch(r, d, p) = Ch(m, d, p) /\ Use(r, d, p) = Use(m, d, p)
  BY <1>7, <1>8 DEF Same
<1>12. \A p \in Owners \ {o} : Ch(m, d, p) # NoBlk => Ch(m, d, p) # b
  BY <1>4 DEF Use
<1>13. \A p \in Owners : Ino(m, d, p) # NoBlk => Ino(m, d, p) # b
  BY <1>4, <1>5 DEF Use
<1>14. IsNode(d[b]) \/ (f /\ d[b] = Bad)
  BY <1>1, <1>3 DEF Good, Kinds
<1>15. Mem(r)
  BY <1>1, <1>2 DEF Good, Mem, Alike, IsCache, Keys
<1>16. OpenOK(r)
  <2>1. ASSUME NEW p \in Owners, Opened(r, p)
        PROVE  m.info[p].root # b /\ m.info[p].inode # b
    BY <1>1, <1>4, <1>5, <1>10, <2>1, Places DEF Good
  <2> QED BY <1>2, <1>10, <2>1 DEF Good, OpenOK, WellOpen, Alike
<1>17. Linked(r, d, NoObject)
  BY <1>6, <1>10 DEF Good, Linked
<1>18. Kinds(r, d, g, NoBlk)
  <2>1. IsNode(At(r, d, b)) \/ (g /\ At(r, d, b) = Bad)
    BY <1>3
  <2> QED BY <1>3, <1>5, <1>8, <1>10, <1>11, <1>12, <1>13, <2>1 DEF Good, Kinds, Alike
<1>19. Apart(r, d)
  BY <1>11 DEF Good, Apart
<1>20. Unused(r, d, NoBlk)
  BY <1>1, <1>2, <1>11 DEF Good, Unused, Alike
<1>21. Held(r)
  BY <1>1, <1>2, Basics DEF Good, Held, Opened
<1>22. Owned(r, d)
  <2>1. ASSUME NEW p \in Owners, NEW z \in Use(r, d, p) \cap Keys(r)
        PROVE  r.cache[z].owner = IF Opened(r, p) THEN p ELSE NoObject
    <3>1. CASE z = b
      BY <1>1, <1>2, <1>4, <1>8, <1>11, <2>1, <3>1
    <3>2. CASE z # b
      BY <1>2, <1>10, <1>11, <2>1, <3>2 DEF Good, Owned
    <3> QED BY <3>1, <3>2
  <2>2. ASSUME NEW p \in Objects \ r.met
        PROVE  Use(r, d, p) \cap Keys(r) = {}
    BY <1>1, <1>2, <1>4, <1>11, Basics DEF Good, Owned, Alike
  <2> QED BY <2>1, <2>2 DEF Owned
<1>23. Moved(r, s)
  BY <1>2 DEF Good, Moved, Alike
<1>24. RootsKept(r, d, s)
  BY <1>2, <1>10, <1>11, <1>13, Places DEF Good, RootsKept, RootKept
<1>25. NodesKept(r, d, g, NoBlk)
  <2>1. ASSUME NEW p \in Owners, Ch(r, d, p) \in Keys(r), Ch(r, d, p) # NoBlk,
               r.cache[Ch(r, d, p)].state # "dirty"
        PROVE  AsOnDisk(r, d, g, Ch(r, d, p))
    <3>1. CASE p = o
      BY <1>2, <1>8, <1>14, <3>1 DEF AsOnDisk
    <3>2. CASE p # o
      <4>1. Ch(r, d, p) = Ch(m, d, p) /\ Ch(m, d, p) # b
        BY <1>11, <1>12, <2>1, <3>2
      <4>2. AsOnDisk(m, d, f, Ch(m, d, p)) /\ r.cache[Ch(m, d, p)] = m.cache[Ch(m, d, p)]
        BY <1>2, <2>1, <4>1 DEF Good, NodesKept
      <4> QED BY <4>1, <4>2 DEF AsOnDisk
    <3> QED BY <3>1, <3>2
  <2> QED BY <2>1 DEF NodesKept
<1>26. Saved(r, d, s, NoObject)
  <2>1. ASSUME NEW p \in Owners, ~Opened(m, p)
        PROVE  b \notin Use(m, d, p)
    BY <1>4, <2>1
  <2> QED BY <1>2, <1>10, <1>11, <2>1, Basics DEF Good, Saved, Untouched, Alike
<1> QED
  BY <1>7, <1>9, <1>15, <1>16, <1>17, <1>18, <1>19, <1>20, <1>21, <1>22, <1>23, <1>24, <1>25,
     <1>26 DEF Good

\* An object is opened: its inode is read from disk.
LEMMA GoodOpened ==
  ASSUME NEW m, NEW d, NEW s, NEW f, Good(m, d, s, f, NoObject, NoBlk),
         NEW o \in Owners, ~Opened(m, o), NEW b, b = Ino(m, d, o), b # NoBlk, b \notin Keys(m),
         Ch(m, d, o) \notin Keys(m), d[b] \in Datum, d[b].kind = "inode",
         o = Dir => m.dir = s.dir,
         NEW c, c = Cache(o, "clean", d[b]),
         NEW r, IsMem(r), r.dir = m.dir, r.clash = m.clash, r.hint = m.hint,
         r.fresh = m.fresh, r.free = m.free, r.met = m.met \cup ({o} \ {Dir}),
         r.info = Told(m, o, [inode |-> b, root |-> b, dirty |-> FALSE]),
         r.cache = [z \in Keys(m) \cup {b} |-> IF z = b THEN c ELSE m.cache[z]]
  PROVE  /\ Good(r, d, s, f, NoObject, NoBlk) /\ Opened(r, o)
         /\ \A p \in Owners : Cont(r, d, p) = Cont(m, d, p)
         /\ \A p \in Owners \ {o} : Opened(r, p) <=> Opened(m, p)
<1> USE DEF Told
<1>1. /\ b \in Use(m, d, o) /\ b \in Blk
      /\ o # Dir => o \in Objects
  BY Places, Basics DEF Use
<1>2. /\ Keys(r) = Keys(m) \cup {b} /\ r.cache[b] = c
      /\ \A z \in Keys(m) : r.cache[z] = m.cache[z]
  BY DEF Keys
<1>3. c \in Caches /\ c.owner = o /\ c.state = "clean" /\ c.data = d[b]
  BY DEF Cache, Caches
<1>4. \A z : At(r, d, z) = At(m, d, z)
  BY <1>2, <1>3 DEF At
<1>5. IF o = Dir THEN IsDir(d[b]) ELSE IsInode(d[b])
  <2>1. d[b] # Bad /\ At(m, d, b) = d[b]
    BY DEF At, Bad
  <2>2. o = Dir => b = m.dir
    BY Places
  <2> QED BY <2>1, <2>2 DEF Good, Kinds
<1>6. /\ r.info[o] = [inode |-> b, root |-> b, dirty |-> FALSE]
      /\ \A p \in Owners \ {o} : r.info[p] = m.info[p]
      /\ r.info \in [Owners -> [inode : MaybeBlk, root : MaybeBlk, dirty : BOOLEAN]]
  <2>1. m.info \in [Owners -> [inode : MaybeBlk, root : MaybeBlk, dirty : BOOLEAN]] /\ b \in MaybeBlk
    BY <1>1 DEF Good, Mem, MaybeBlk
  <2>2. r.info[o] = [inode |-> b, root |-> b, dirty |-> FALSE]
    BY <2>1
  <2>3. [inode |-> b, root |-> b, dirty |-> FALSE] \in [inode : MaybeBlk, root : MaybeBlk, dirty : BOOLEAN]
    BY <2>1, InfoIs
  <2> QED BY <2>1, <2>2, <2>3
<1>7. ASSUME NEW p \in Owners
      PROVE  Entry(r, d, p) = Entry(m, d, p)
  BY <1>4, SameEntry
<1>8. Opened(r, o) /\ r.info[o].inode = b /\ r.info[o].root = b /\ r.info[o].dirty = FALSE
  BY <1>1, <1>6, Basics DEF Opened, Closed
<1>9. ASSUME NEW p \in Owners \ {o}
      PROVE  Opened(r, p) <=> Opened(m, p)
  BY <1>6 DEF Opened
<1>10. Ino(m, d, o) = b /\ Rt(m, d, o) = b /\ Ino(r, d, o) = b /\ Rt(r, d, o) = b
       /\ Entry(m, d, o) = b
  BY <1>8 DEF Ino, Rt
<1>11. ASSUME NEW p \in Owners
       PROVE  Ino(r, d, p) = Ino(m, d, p) /\ Rt(r, d, p) = Rt(m, d, p)
  <2>1. CASE p = o
    BY <1>10, <2>1
  <2>2. CASE p # o
    BY <1>6, <1>7, <1>9, <2>2 DEF Ino, Rt
  <2> QED BY <2>1, <2>2
<1>12. ASSUME NEW p \in Owners
       PROVE  /\ Ch(r, d, p) = Ch(m, d, p) /\ Use(r, d, p) = Use(m, d, p)
              /\ Cont(r, d, p) = Cont(m, d, p)
  <2>1. Ch(r, d, p) = Ch(m, d, p)
    BY <1>4, <1>11 DEF Ch
  <2> QED BY <1>4, <1>11, <2>1 DEF Use, Cont
<1>13. ASSUME NEW p \in Owners \ {o}
       PROVE  b \notin Use(m, d, p)
  BY <1>1 DEF Good, Apart
<1>14. ASSUME NEW p \in Owners
       PROVE  Ch(m, d, p) # b
  BY <1>1, <1>10, <1>13, Basics DEF Good, Apart, Use
<1>15. Use(m, d, o) \cap Keys(m) = {}
  BY <1>10 DEF Use
<1>16. Mem(r)
  <2>1. \A z \in Keys(m) : m.cache[z] \in Caches
    BY DEF Good, Mem
  <2>2. \A z \in Keys(r) : r.cache[z] \in Caches
    BY <1>1, <1>2, <1>3, <2>1
  <2> QED BY <1>1, <1>2, <1>3, <1>6, <2>2 DEF Good, Mem, IsCache, Keys
<1>17. OpenOK(r)
  <2>1. ASSUME NEW p \in Owners \ {o}, Opened(r, p)
        PROVE  m.info[p].root # b /\ m.info[p].inode # b
    BY <1>9, <1>13, <2>1, Places DEF Good
  <2>2. ASSUME NEW p \in Owners \ {o}, Opened(r, p)
        PROVE  WellOpen(r, p)
    BY <1>2, <1>6, <1>9, <2>1, <2>2 DEF Good, OpenOK, WellOpen
  <2>3. /\ r.info[o].inode \in Keys(r) /\ r.cache[r.info[o].inode].owner = o
        /\ o = Dir => IsDir(r.cache[r.info[o].inode].data)
        /\ o # Dir => IsInode(r.cache[r.info[o].inode].data) /\ o \in r.met
        /\ r.info[o].root \in Blk /\ r.info[o].root = r.info[o].inode
    BY <1>1, <1>2, <1>3, <1>5, <1>8
  <2>4. WellOpen(r, o)
    BY <2>3 DEF WellOpen
  <2> QED BY <2>2, <2>4 DEF OpenOK
<1>18. Linked(r, d, NoObject)
  BY <1>6, <1>7, <1>8, <1>9, <1>10 DEF Good, Linked
<1>19. Kinds(r, d, f, NoBlk)
  BY <1>4, <1>8, <1>9, <1>11, <1>12 DEF Good, Kinds
<1>20. Apart(r, d)
  BY <1>11, <1>12 DEF Good, Apart
<1>21. Unused(r, d, NoBlk)
  BY <1>1, <1>2, <1>11, <1>12 DEF Good, Unused
<1>22. Held(r)
  BY <1>2, <1>3, <1>6, <1>8, Basics DEF Good, Held, Opened
<1>23. Owned(r, d)
  <2>1. ASSUME NEW p \in Owners, NEW z \in Use(r, d, p) \cap Keys(r)
        PROVE  r.cache[z].owner = IF Opened(r, p) THEN p ELSE NoObject
    <3>1. CASE z = b
      BY <1>2, <1>3, <1>8, <1>12, <1>13, <2>1, <3>1
    <3>2. CASE z # b
      BY <1>2, <1>9, <1>12, <1>15, <2>1, <3>2 DEF Good, Owned
    <3> QED BY <3>1, <3>2
  <2>2. ASSUME NEW p \in Objects \ r.met
        PROVE  Use(r, d, p) \cap Keys(r) = {}
    BY <1>2, <1>12, <1>13, Basics DEF Good, Owned
  <2> QED BY <2>1, <2>2 DEF Owned
<1>24. Moved(r, s)
  BY <1>2, <1>3 DEF Good, Moved
<1>25. RootsKept(r, d, s)
  <2>1. ASSUME NEW p \in Owners \ {o}, Opened(r, p)
        PROVE  m.info[p].inode # b
    BY <1>9, <1>13, <2>1, Places DEF Good
  <2>2. ASSUME NEW p \in Owners \ {o}, Opened(r, p)
        PROVE  IF r.info[p].dirty THEN r.info[p].root \in s.free
               ELSE /\ r.cache[r.info[p].inode].data = d[r.info[p].inode]
                    /\ \A z \in Use(r, d, p) \cap Keys(r) : r.cache[z].state # "dirty"
    BY <1>2, <1>3, <1>6, <1>9, <1>12, <1>13, <2>1, <2>2, Places DEF Good, RootsKept, RootKept
  <2>3. /\ ~r.info[o].dirty /\ r.cache[r.info[o].inode].data = d[r.info[o].inode]
        /\ \A z \in Use(r, d, o) \cap Keys(r) : r.cache[z].state # "dirty"
    BY <1>2, <1>3, <1>8, <1>12, <1>15
  <2> QED BY <2>2, <2>3 DEF RootsKept, RootKept
<1>26. NodesKept(r, d, f, NoBlk)
  <2>1. ASSUME NEW p \in Owners, Ch(r, d, p) \in Keys(r), Ch(r, d, p) # NoBlk,
               r.cache[Ch(r, d, p)].state # "dirty"
        PROVE  AsOnDisk(r, d, f, Ch(r, d, p))
    <3>1. Ch(r, d, p) = Ch(m, d, p) /\ Ch(m, d, p) # b
      BY <1>12, <1>14
    <3>2. AsOnDisk(m, d, f, Ch(m, d, p)) /\ r.cache[Ch(m, d, p)] = m.cache[Ch(m, d, p)]
      BY <1>2, <2>1, <3>1 DEF Good, NodesKept
    <3> QED BY <3>1, <3>2 DEF AsOnDisk
  <2> QED BY <2>1 DEF NodesKept
<1>27. Saved(r, d, s, NoObject)
  <2>1. s.dir \in Blk \ s.free
    BY DEF Good, Saved
  <2>2. Opened(r, Dir) => r.dir = s.dir /\ (r.info[Dir].dirty => r.info[Dir].root # r.dir)
    BY <1>6, <1>8, <1>9, Basics DEF Good, Saved
  <2>3. Untouched(r, s) => o = Dir \/ Untouched(m, s)
    BY <1>6, Basics DEF Untouched
  <2>4. o = Dir => Untouched(m, s)
    BY DEF Untouched, Opened, Closed
  <2>5. ASSUME Untouched(m, s), NEW p \in Owners
        PROVE  /\ ~Opened(r, p) => Use(r, d, p) \cap Keys(r) = {}
               /\ Opened(r, p) /\ r.info[p].dirty => r.info[p].root # r.info[p].inode
    <3>1. CASE p = o
      BY <1>8, <3>1
    <3>2. CASE p # o
      BY <1>2, <1>6, <1>9, <1>12, <1>13, <2>5, <3>2, Basics DEF Good, Saved
    <3> QED BY <3>1, <3>2
  <2> QED BY <2>1, <2>2, <2>3, <2>4, <2>5 DEF Saved
<1> QED
  BY <1>8, <1>9, <1>12, <1>16, <1>17, <1>18, <1>19, <1>20, <1>21, <1>22, <1>23, <1>24, <1>25,
     <1>26, <1>27 DEF Good

\* r is m with the cache i marked.
Marks(m, r, i) ==
  /\ Alike(m, r) /\ r.info = m.info /\ r.free = m.free
  /\ IsCache(r.cache) /\ Keys(r) = Keys(m) /\ \A z \in Keys(m) \ {i} : r.cache[z] = m.cache[z]
  /\ r.cache[i] = [owner |-> m.cache[i].owner, state |-> "dirty", data |-> m.cache[i].data]

\* The cache of an inode that has changed is marked.
LEMMA GoodMarked ==
  ASSUME NEW m, NEW d, NEW s, NEW f, Good(m, d, s, f, NoObject, NoBlk),
         NEW o \in Owners, Opened(m, o), m.info[o].dirty, NEW i, i = m.info[o].inode,
         m.info[o].root = i, NEW r, Marks(m, r, i)
  PROVE  Good(r, d, s, f, NoObject, NoBlk) /\ \A p \in Owners : Same(m, d, r, d, p)
<1>0. /\ Alike(m, r) /\ r.info = m.info /\ r.free = m.free
      /\ IsCache(r.cache) /\ Keys(r) = Keys(m) /\ \A z \in Keys(m) \ {i} : r.cache[z] = m.cache[z]
      /\ r.cache[i] = [owner |-> m.cache[i].owner, state |-> "dirty", data |-> m.cache[i].data]
  BY DEF Marks
<1> USE <1>0
<1>1. /\ i \in Keys(m) /\ m.cache[i].owner = o /\ m.cache[i] \in Caches
      /\ i \in Use(m, d, o) /\ i \in s.free
  <2>1. WellOpen(m, o) /\ RootKept(m, d, s, o) /\ m.cache[i] \in Caches /\ i \in Use(m, d, o)
    BY OpenFacts
  <2> QED BY <2>1 DEF WellOpen, RootKept
<1>2. /\ r.cache[i].owner = o /\ r.cache[i].data = m.cache[i].data /\ r.cache[i].state = "dirty"
      /\ r.cache[i] \in Caches
  BY <1>1 DEF Caches
<1>3. \A z : At(r, d, z) = At(m, d, z)
  BY <1>1, <1>2 DEF At
<1>4. \A p \in Owners : Same(m, d, r, d, p) /\ Entry(r, d, p) = Entry(m, d, p)
                        /\ Use(r, d, p) = Use(m, d, p)
  BY <1>3, Frame DEF Alike
<1>5. \A z \in Keys(m) : r.cache[z].owner = m.cache[z].owner /\ r.cache[z].data = m.cache[z].data
  BY <1>1, <1>2
<1>6. Mem(r)
  <2>1. \A z \in Keys(r) : r.cache[z] \in Caches
    BY <1>2 DEF Good, Mem
  <2> QED BY <2>1 DEF Good, Mem, Alike
<1>7. ASSUME NEW p \in Owners, Opened(r, p)
      PROVE  WellOpen(r, p) /\ RootKept(r, d, s, p)
  <2>1. Opened(m, p) /\ r.info[p] = m.info[p] /\ r.met = m.met /\ Use(r, d, p) = Use(m, d, p)
    BY <1>4, <1>7 DEF Alike, Opened
  <2>2. WellOpen(m, p) /\ RootKept(m, d, s, p) /\ m.info[p].inode \in Keys(m)
    BY <2>1, OpenFacts
  <2>3. WellOpen(r, p)
    <3>1. SameInode(m, r, p)
      BY <1>5, <2>1, <2>2 DEF SameInode
    <3> QED BY <2>2, <3>1, OpenStays, Zenon
  <2>4. CASE p = o
    <3>1. r.info[p].dirty /\ r.info[p].root \in s.free
      BY <1>1, <2>1, <2>4
    <3> QED BY <2>3, <3>1 DEF RootKept
  <2>5. CASE p # o
    <3>1. i \notin Use(m, d, p)
      BY <1>1, <2>5 DEF Good, Apart
    <3>2. \A z \in Use(m, d, p) \cap Keys(r) : z \in Keys(m) /\ r.cache[z].state = m.cache[z].state
      BY <3>1
    <3>3. SameBlocks(m, r, d, p)
      BY <1>5, <2>1, <2>2, <3>2 DEF SameBlocks
    <3> QED BY <2>2, <2>3, <3>3, RootStays, Zenon
  <2> QED BY <2>4, <2>5
<1>8. Linked(r, d, NoObject)
  BY <1>4 DEF Good, Linked, Same
<1>9. Kinds(r, d, f, NoBlk)
  BY <1>3, <1>4 DEF Good, Kinds, Same, Alike
<1>10. Apart(r, d)
  BY <1>4 DEF Good, Apart, Same
<1>11. Unused(r, d, NoBlk)
  BY <1>4 DEF Good, Unused, Same, Alike
<1>12. Held(r)
  BY <1>2, <1>5 DEF Good, Held, Opened
<1>13. Owned(r, d)
  BY <1>4, <1>5, Basics DEF Good, Owned, Same, Alike
<1>14. Moved(r, s)
  BY <1>1 DEF Good, Moved, Alike
<1>15. OpenOK(r) /\ RootsKept(r, d, s)
  BY <1>7 DEF OpenOK, RootsKept
<1>16. NodesKept(r, d, f, NoBlk)
  <2>1. ASSUME NEW p \in Owners, Ch(r, d, p) \in Keys(r), Ch(r, d, p) # NoBlk,
               r.cache[Ch(r, d, p)].state # "dirty"
        PROVE  AsOnDisk(r, d, f, Ch(r, d, p))
    <3>1. Ch(r, d, p) = Ch(m, d, p) /\ r.cache[Ch(m, d, p)] = m.cache[Ch(m, d, p)]
      BY <1>2, <1>4, <2>1 DEF Same
    <3>2. AsOnDisk(m, d, f, Ch(m, d, p))
      BY <2>1, <3>1 DEF Good, NodesKept
    <3> QED BY <3>1, <3>2 DEF AsOnDisk
  <2> QED BY <2>1 DEF NodesKept
<1>17. Saved(r, d, s, NoObject)
  BY <1>4, Basics DEF Good, Saved, Untouched, Same, Alike
<1> QED
  BY <1>4, <1>6, <1>8, <1>9, <1>10, <1>11, <1>12, <1>13, <1>14, <1>15, <1>16, <1>17 DEF Good

\* r is m with the inode i of o under the number n.
MovesTo(m, r, o, i, n) ==
  /\ IsMem(r) /\ r.met = m.met /\ r.clash = m.clash /\ r.hint = m.hint /\ r.fresh = m.fresh
  /\ r.free = m.free /\ r.dir = IF o = Dir THEN n ELSE m.dir
  /\ r.info = Told(m, o, [inode |-> n, root |-> n, dirty |-> TRUE])
  /\ IsCache(r.cache) /\ Keys(r) = (Keys(m) \ {i}) \cup {n}
  /\ \A z \in Keys(m) \ {i} : r.cache[z] = m.cache[z]
  /\ r.cache[n] = [owner |-> m.cache[i].owner, state |-> "dirty", data |-> m.cache[i].data]

\* The inode of an object that has changed gets the number of its root.
LEMMA GoodRenumbered ==
  ASSUME NEW m, NEW d, NEW s, NEW f, Good(m, d, s, f, NoObject, NoBlk),
         NEW o \in Owners, Opened(m, o), m.info[o].dirty, NEW i, i = m.info[o].inode,
         NEW n, n = m.info[o].root, n # i,
         NEW r, MovesTo(m, r, o, i, n)
  PROVE  /\ Good(r, d, s, f, o, NoBlk) /\ Opened(r, o)
         /\ \A p \in Owners : Cont(r, d, p) = Cont(m, d, p)
         /\ \A p \in Owners \ {o} : Same(m, d, r, d, p) /\ Entry(r, d, p) = Entry(m, d, p)
<1> USE DEF Told
<1>0. /\ IsMem(r) /\ r.met = m.met /\ r.clash = m.clash /\ r.hint = m.hint /\ r.fresh = m.fresh
      /\ r.free = m.free /\ r.dir = IF o = Dir THEN n ELSE m.dir
      /\ r.info = Told(m, o, [inode |-> n, root |-> n, dirty |-> TRUE])
      /\ IsCache(r.cache) /\ Keys(r) = (Keys(m) \ {i}) \cup {n}
      /\ \A z \in Keys(m) \ {i} : r.cache[z] = m.cache[z]
      /\ r.cache[n] = [owner |-> m.cache[i].owner, state |-> "dirty", data |-> m.cache[i].data]
  BY DEF MovesTo
<1> USE <1>0
<1>1. /\ i \in Keys(m) /\ m.cache[i].owner = o /\ m.cache[i] \in Caches
      /\ i \in Use(m, d, o) /\ i \in Blk /\ n \in Use(m, d, o) /\ n \in Blk /\ n \notin Keys(m)
      /\ n \in s.free /\ Ino(m, d, o) = i /\ Rt(m, d, o) = n
      /\ IF o = Dir THEN IsDir(m.cache[i].data) ELSE IsInode(m.cache[i].data) /\ o \in m.met
  <2>1. /\ WellOpen(m, o) /\ RootKept(m, d, s, o) /\ i \in Keys(m) /\ i \in Blk
        /\ m.cache[i] \in Caches /\ Ino(m, d, o) = i /\ Ino(m, d, o) \in Use(m, d, o)
        /\ Rt(m, d, o) = n /\ Rt(m, d, o) \in Use(m, d, o) /\ Rt(m, d, o) \in Blk
    BY OpenFacts
  <2> QED BY <2>1 DEF WellOpen, RootKept
<1>2. /\ r.cache[n].owner = o /\ r.cache[n].data = m.cache[i].data /\ r.cache[n].state = "dirty"
      /\ r.cache[n] \in Caches
  BY <1>1 DEF Caches
<1>3. /\ \A z : z \notin {i, n} => At(r, d, z) = At(m, d, z)
      /\ At(r, d, n) = m.cache[i].data /\ At(m, d, i) = m.cache[i].data
  BY <1>1, <1>2 DEF At
<1>4. /\ r.info[o] = [inode |-> n, root |-> n, dirty |-> TRUE]
      /\ \A p \in Owners \ {o} : r.info[p] = m.info[p]
      /\ r.info \in [Owners -> [inode : MaybeBlk, root : MaybeBlk, dirty : BOOLEAN]]
  <2>1. m.info \in [Owners -> [inode : MaybeBlk, root : MaybeBlk, dirty : BOOLEAN]] /\ n \in MaybeBlk
    BY <1>1 DEF Good, Mem, MaybeBlk
  <2>2. r.info[o] = [inode |-> n, root |-> n, dirty |-> TRUE]
    BY <2>1
  <2>3. [inode |-> n, root |-> n, dirty |-> TRUE] \in [inode : MaybeBlk, root : MaybeBlk, dirty : BOOLEAN]
    BY <2>1, InfoIs
  <2> QED BY <2>1, <2>2, <2>3
<1>5. Opened(r, o) /\ r.info[o].inode = n /\ r.info[o].root = n /\ r.info[o].dirty = TRUE
  BY <1>1, <1>4, Basics DEF Opened, Closed
<1>6. ASSUME NEW p \in Owners \ {o}
      PROVE  i \notin Use(m, d, p) /\ n \notin Use(m, d, p)
  BY <1>1 DEF Good, Apart
<1>7. /\ o = Dir => m.dir = i
      /\ o # Dir => m.dir \notin {i, n} /\ r.dir = m.dir
  BY <1>1, <1>6, Places, Basics
<1>8. At(r, d, r.dir) = At(m, d, m.dir)
  <2>1. CASE o = Dir
    BY <1>3, <1>7, <2>1
  <2>2. CASE o # Dir
    BY <1>3, <1>7, <2>2
  <2> QED BY <2>1, <2>2
<1>9. ASSUME NEW p \in Owners \ {o}
      PROVE  Entry(r, d, p) = Entry(m, d, p)
  <2>1. p = Dir => r.dir = m.dir
    BY <1>7
  <2> QED BY <1>8, <2>1 DEF Entry
<1>10. ASSUME NEW p \in Owners \ {o}
       PROVE  Same(m, d, r, d, p) /\ Use(r, d, p) = Use(m, d, p)
  <2>1. \A z \in Use(m, d, p) : At(r, d, z) = At(m, d, z)
    BY <1>3, <1>6
  <2>2. r.info[p] = m.info[p] /\ Entry(r, d, p) = Entry(m, d, p) /\ p \in Owners
    BY <1>4, <1>9
  <2> QED BY ONLY <2>1, <2>2, FrameOf
<1>11. Ino(r, d, o) = n /\ Rt(r, d, o) = n
  BY ONLY <1>5 DEF Ino, Rt
<1>32. /\ Linked(m, d, NoObject) /\ Kinds(m, d, f, NoBlk) /\ Apart(m, d) /\ Held(m)
       /\ Saved(m, d, s, NoObject)
  BY DEF Good
<1>12. Ch(m, d, o) # i /\ Ch(m, d, o) # n
  BY ONLY o \in Owners, <1>1, <1>32, Basics DEF Apart
<1>13. Ch(r, d, o) = Ch(m, d, o)
  BY ONLY o \in Owners, <1>1, <1>3, <1>11, Basics DEF Ch
<1>14. Cont(r, d, o) = Cont(m, d, o)
  BY ONLY o \in Owners, <1>1, <1>3, <1>11, <1>12, <1>13, Basics DEF Cont
<1>15. Use(r, d, o) \subseteq Use(m, d, o)
  BY <1>1, <1>11, <1>13 DEF Use
<1>16. \A p \in Owners : Ch(r, d, p) = Ch(m, d, p) /\ Rt(r, d, p) = Rt(m, d, p)
                         /\ Use(r, d, p) \subseteq Use(m, d, p)
  BY <1>1, <1>10, <1>11, <1>13, <1>15 DEF Same
<1>17. \A p \in Owners : Opened(r, p) <=> Opened(m, p)
  BY <1>5, <1>10 DEF Same
<1>18. \A p \in Owners : Ch(m, d, p) # NoBlk => Ch(m, d, p) \notin {i, n}
  BY <1>6, <1>12 DEF Use
<1>19. \A p \in Owners \ {o} : Ino(r, d, p) = Ino(m, d, p)
                               /\ (Ino(m, d, p) # NoBlk => Ino(m, d, p) \notin {i, n})
  BY <1>6, <1>10 DEF Same, Use
<1>20. Mem(r)
  <2>1. Keys(r) \subseteq Blk /\ r.dir \in Blk
    BY <1>1 DEF Good, Mem
  <2>2. \A z \in Keys(r) : r.cache[z] \in Caches
    BY <1>2 DEF Good, Mem
  <2> QED BY <1>4, <2>1, <2>2 DEF Good, Mem
<1>21. ASSUME NEW p \in Owners, Opened(r, p)
       PROVE  WellOpen(r, p) /\ RootKept(r, d, s, p)
  <2>1. CASE p = o
    <3>1. /\ r.info[p].inode = n /\ r.info[p].root = n /\ r.info[p].dirty = TRUE
          /\ r.met = m.met /\ n \in Keys(r)
      BY <1>5, <2>1
    <3> QED BY <1>1, <1>2, <2>1, <3>1 DEF WellOpen, RootKept
  <2>2. CASE p # o
    <3>1. /\ Opened(m, p) /\ r.info[p] = m.info[p] /\ Use(r, d, p) = Use(m, d, p)
          /\ i \notin Use(m, d, p) /\ n \notin Use(m, d, p)
      BY <1>4, <1>6, <1>10, <1>17, <1>21, <2>2
    <3>2. /\ WellOpen(m, p) /\ RootKept(m, d, s, p) /\ m.info[p].inode \in Keys(m)
          /\ Ino(m, d, p) = m.info[p].inode /\ Ino(m, d, p) \in Use(m, d, p)
          /\ Rt(m, d, p) = m.info[p].root /\ Rt(m, d, p) \in Use(m, d, p)
      BY <3>1, OpenFacts
    <3>3. /\ m.info[p].inode \in Keys(r) /\ m.info[p].root # n
          /\ r.cache[m.info[p].inode] = m.cache[m.info[p].inode]
      BY <3>1, <3>2
    <3>4. WellOpen(r, p)
      <4>1. SameInode(m, r, p)
        BY <3>1, <3>2, <3>3 DEF SameInode
      <4> QED BY <3>2, <4>1, OpenStays, Zenon
    <3>5. \A z \in Use(m, d, p) \cap Keys(r) : z \in Keys(m) /\ r.cache[z].state = m.cache[z].state
      BY <3>1
    <3>6. SameBlocks(m, r, d, p)
      BY <3>1, <3>2, <3>3, <3>5 DEF SameBlocks
    <3> QED BY <3>2, <3>4, <3>6, RootStays, Zenon
  <2> QED BY <2>1, <2>2, Zenon
<1>22. Linked(r, d, o)
  <2>1. o = Dir => Entry(r, d, o) = n
    BY DEF Entry
  <2> QED BY <1>4, <1>5, <1>9, <1>17, <1>32, <2>1, Basics DEF Linked
<1>23. Kinds(r, d, f, NoBlk)
  <2>1. ASSUME NEW p \in Owners, ~Opened(r, p), Ino(r, d, p) # NoBlk
        PROVE  \/ IF p = Dir THEN IsDir(At(r, d, r.dir)) ELSE IsInode(At(r, d, Ino(r, d, p)))
               \/ f /\ At(r, d, Ino(r, d, p)) = Bad
    BY ONLY <1>3, <1>5, <1>8, <1>17, <1>19, <1>32, <2>1 DEF Kinds
  <2>2. ASSUME NEW p \in Owners, Ch(r, d, p) # NoBlk
        PROVE  IsNode(At(r, d, Ch(r, d, p))) \/ (f /\ At(r, d, Ch(r, d, p)) = Bad)
    BY ONLY <1>3, <1>16, <1>18, <1>32, <2>2 DEF Kinds
  <2> QED BY <2>1, <2>2 DEF Kinds
<1>24. Apart(r, d)
  <2>1. ASSUME NEW p \in Owners, Ch(r, d, p) # NoBlk
        PROVE  Ch(r, d, p) \notin {Ino(r, d, p), Rt(r, d, p)}
    BY ONLY <1>11, <1>16, <1>18, <1>19, <1>32, <2>1 DEF Apart
  <2> QED BY ONLY <1>16, <1>32, <2>1 DEF Apart
<1>25. Unused(r, d, NoBlk)
  <2>1. n \notin m.fresh
    BY <1>1 DEF Good, Unused
  <2> QED BY <1>16, <2>1 DEF Good, Unused
<1>26. Held(r)
  <2>1. ASSUME NEW z \in Keys(m) \ {i}
        PROVE  IF r.cache[z].owner = NoObject THEN r.cache[z].state = "dirty"
               ELSE Opened(r, r.cache[z].owner)
    <3>1. r.cache[z] = m.cache[z] /\ z \in Keys(m)
      OBVIOUS
    <3>2. CASE m.cache[z].owner = o
      BY <1>5, <3>1, <3>2, Basics
    <3>3. CASE m.cache[z].owner # o
      <4>1. m.cache[z].owner \in Owners \cup {NoObject}
        BY <3>1 DEF Good, Mem, Caches
      <4> QED BY ONLY <1>17, <1>32, <3>1, <3>3, <4>1 DEF Held
    <3> QED BY <3>2, <3>3
  <2> QED BY <1>2, <1>5, <2>1, Basics DEF Held
<1>27. Owned(r, d)
  <2>1. ASSUME NEW p \in Owners, NEW z \in Use(r, d, p) \cap Keys(r)
        PROVE  r.cache[z].owner = IF Opened(r, p) THEN p ELSE NoObject
    <3>1. CASE z = n
      BY <1>2, <1>5, <1>6, <1>16, <2>1, <3>1
    <3>2. CASE z # n
      BY <1>16, <1>17, <2>1, <3>2 DEF Good, Owned
    <3> QED BY <3>1, <3>2
  <2>2. ASSUME NEW p \in Objects \ r.met
        PROVE  Use(r, d, p) \cap Keys(r) = {}
    BY <1>1, <1>6, <1>16, Basics DEF Good, Owned
  <2> QED BY <2>1, <2>2 DEF Owned
<1>28. Moved(r, s)
  BY <1>1 DEF Good, Moved
<1>29. OpenOK(r) /\ RootsKept(r, d, s)
  BY <1>21 DEF OpenOK, RootsKept
<1>30. NodesKept(r, d, f, NoBlk)
  <2>1. ASSUME NEW p \in Owners, Ch(r, d, p) \in Keys(r), Ch(r, d, p) # NoBlk,
               r.cache[Ch(r, d, p)].state # "dirty"
        PROVE  AsOnDisk(r, d, f, Ch(r, d, p))
    <3>1. Ch(r, d, p) = Ch(m, d, p) /\ r.cache[Ch(m, d, p)] = m.cache[Ch(m, d, p)]
          /\ Ch(m, d, p) \in Keys(m)
      BY <1>16, <1>18, <2>1
    <3>2. AsOnDisk(m, d, f, Ch(m, d, p))
      BY <2>1, <3>1 DEF Good, NodesKept
    <3> QED BY <3>1, <3>2 DEF AsOnDisk
  <2> QED BY <2>1 DEF NodesKept
<1>31. Saved(r, d, s, o)
  <2>1. s.dir \in Blk \ s.free
    BY DEF Good, Saved
  <2>2. o # Dir /\ Opened(r, Dir) => r.dir = s.dir /\ (r.info[Dir].dirty => r.info[Dir].root # r.dir)
    BY <1>4, <1>7, <1>17, Basics DEF Good, Saved
  <2>3. Untouched(r, s) => o # Dir /\ Untouched(m, s)
    BY <1>1, <1>4, <2>1, Basics DEF Untouched
  <2>4. ASSUME Untouched(m, s), NEW p \in Owners
        PROVE  /\ ~Opened(r, p) => Use(r, d, p) \cap Keys(r) = {}
               /\ Opened(r, p) /\ p # o /\ r.info[p].dirty => r.info[p].root # r.info[p].inode
    <3>1. /\ ~Opened(m, p) => Use(m, d, p) \cap Keys(m) = {}
          /\ Opened(m, p) /\ m.info[p].dirty => m.info[p].root # m.info[p].inode
      BY ONLY <1>32, p \in Owners, <2>4, Basics DEF Saved
    <3>2. CASE p = o
      BY ONLY <1>5, <3>2
    <3>3. CASE p # o
      BY <1>4, <1>6, <1>16, <1>17, <3>1, <3>3
    <3> QED BY <3>2, <3>3
  <2> QED BY <2>1, <2>2, <2>3, <2>4 DEF Saved
<1> QED
  BY <1>5, <1>9, <1>10, <1>14, <1>20, <1>22, <1>23, <1>24, <1>25, <1>26, <1>27, <1>28,
     <1>29, <1>30, <1>31 DEF Good, Same

\* r is m without what o has in memory: its caches that are to be written are nobody's.
LetsGo(m, o, r) ==
  /\ Alike(m, r) /\ r.free = m.free /\ r.info = Told(m, o, Closed)
  /\ IsCache(r.cache)
  /\ Keys(r) = {z \in Keys(m) : m.cache[z].owner # o \/ m.cache[z].state = "dirty"}
  /\ \A z \in Keys(r) :
       r.cache[z] = [owner |-> IF m.cache[z].owner = o THEN NoObject ELSE m.cache[z].owner,
                     state |-> m.cache[z].state, data |-> m.cache[z].data]

\* The inode of o has the number of its root, and is marked when o has changed.
Stored(m, o) ==
  /\ m.info[o].root = m.info[o].inode
  /\ m.info[o].dirty => m.cache[m.info[o].inode].state = "dirty"

\* An object is closed: what is to be written stays, the rest is as it is on disk.
LEMMA GoodReleased ==
  ASSUME NEW m, NEW d, NEW s, NEW f, NEW o \in Owners, NEW x,
         x = NoObject \/ (x = o /\ o = Dir), Good(m, d, s, f, x, NoBlk),
         Opened(m, o), Stored(m, o), NEW r, LetsGo(m, o, r)
  PROVE  /\ Good(r, d, s, f, NoObject, NoBlk) /\ ~Opened(r, o)
         /\ \A p \in Owners \ {o} : Opened(r, p) <=> Opened(m, p)
         /\ ~f => \A p \in Owners : Cont(r, d, p) = Cont(m, d, p)
<1>0. PICK i : i = m.info[o].inode
  OBVIOUS
<1> /\ i = m.info[o].inode /\ m.info[o].root = i
    /\ m.info[o].dirty => m.cache[i].state = "dirty"
  BY <1>0 DEF Stored
<1> /\ Alike(m, r) /\ r.free = m.free /\ r.info = Told(m, o, Closed)
    /\ IsCache(r.cache)
    /\ Keys(r) = {z \in Keys(m) : m.cache[z].owner # o \/ m.cache[z].state = "dirty"}
    /\ \A z \in Keys(r) :
         r.cache[z] = [owner |-> IF m.cache[z].owner = o THEN NoObject ELSE m.cache[z].owner,
                       state |-> m.cache[z].state, data |-> m.cache[z].data]
  BY DEF LetsGo
<1>1. /\ i \in Keys(m) /\ m.cache[i].owner = o /\ m.cache[i] \in Caches
      /\ i \in Use(m, d, o) /\ i \in Blk /\ Ino(m, d, o) = i /\ Rt(m, d, o) = i
      /\ IF o = Dir THEN IsDir(m.cache[i].data) ELSE IsInode(m.cache[i].data) /\ o \in m.met
      /\ Entry(m, d, o) = i
  <2>1. /\ WellOpen(m, o) /\ m.cache[i] \in Caches /\ i \in Keys(m) /\ i \in Blk
        /\ Ino(m, d, o) = i /\ Ino(m, d, o) \in Use(m, d, o) /\ Rt(m, d, o) = i
    BY OpenFacts
  <2>2. Entry(m, d, o) = i
    BY Basics DEF Good, Linked
  <2> QED BY <2>1, <2>2 DEF WellOpen
<1>2. /\ \A z \in Keys(m) : m.cache[z] \in Caches
      /\ \A z \in Keys(r) : z \in Keys(m) /\ r.cache[z] \in Caches
                            /\ r.cache[z].data = m.cache[z].data
                            /\ r.cache[z].state = m.cache[z].state
                            /\ r.cache[z].owner = IF m.cache[z].owner = o THEN NoObject
                                                  ELSE m.cache[z].owner
  <2>1. \A z \in Keys(m) : m.cache[z] \in Caches
    BY DEF Good, Mem
  <2>2. ASSUME NEW z \in Keys(r)
        PROVE  /\ z \in Keys(m) /\ r.cache[z].data = m.cache[z].data
               /\ r.cache[z].state = m.cache[z].state
               /\ r.cache[z].owner = IF m.cache[z].owner = o THEN NoObject ELSE m.cache[z].owner
    <3>1. r.cache[z] = [owner |-> IF m.cache[z].owner = o THEN NoObject ELSE m.cache[z].owner,
                        state |-> m.cache[z].state, data |-> m.cache[z].data]
      OBVIOUS
    <3> QED BY <3>1
  <2>3. ASSUME NEW z \in Keys(r)
        PROVE  r.cache[z] \in Caches
    <3>1. m.cache[z] \in Caches
      BY <2>1
    <3>2. /\ (IF m.cache[z].owner = o THEN NoObject ELSE m.cache[z].owner) \in Owners \cup {NoObject}
          /\ m.cache[z].state \in {"empty", "clean", "dirty"} /\ m.cache[z].data \in Datum
      BY <3>1 DEF Caches
    <3>3. r.cache[z] = [owner |-> IF m.cache[z].owner = o THEN NoObject ELSE m.cache[z].owner,
                        state |-> m.cache[z].state, data |-> m.cache[z].data]
      OBVIOUS
    <3> QED BY <3>2, <3>3 DEF Caches
  <2> QED BY <2>1, <2>2, <2>3
<1>3. \A z \in Keys(m) : m.cache[z].owner # o => z \in Keys(r)
  OBVIOUS
<1>4. \A z : (z \in Keys(m) => m.cache[z].owner # o) => At(r, d, z) = At(m, d, z)
  BY <1>2, <1>3 DEF At
<1>5. /\ r.info[o] = Closed /\ \A p \in Owners \ {o} : r.info[p] = m.info[p]
      /\ r.info \in [Owners -> [inode : MaybeBlk, root : MaybeBlk, dirty : BOOLEAN]]
      /\ ~Opened(r, o) /\ \A p \in Owners \ {o} : Opened(r, p) <=> Opened(m, p)
  <2>1. m.info \in [Owners -> [inode : MaybeBlk, root : MaybeBlk, dirty : BOOLEAN]]
    BY DEF Good, Mem
  <2>2. Closed \in [inode : MaybeBlk, root : MaybeBlk, dirty : BOOLEAN]
    BY InfoIs DEF Closed, MaybeBlk
  <2> QED BY <2>1, <2>2 DEF Opened, Told
<1>6. \A p \in Owners \ {o} : \A z \in Use(m, d, p) \cap Keys(m) : m.cache[z].owner # o
  BY Basics DEF Good, Owned
<1>7. At(r, d, i) = At(m, d, i)
  <2>1. CASE m.info[o].dirty
    BY <1>1, <1>2, <2>1 DEF At
  <2>2. CASE ~m.info[o].dirty
    <3>1. m.cache[i].data = d[i]
      BY <2>2 DEF Good, RootsKept, RootKept
    <3> QED BY <1>1, <1>2, <3>1 DEF At
  <2> QED BY <2>1, <2>2
<1>8. At(r, d, m.dir) = At(m, d, m.dir)
  <2>1. CASE o = Dir
    BY <1>1, <1>7, <2>1, Places
  <2>2. CASE o # Dir
    BY <1>4, <1>6, <2>2, Places, Basics
  <2> QED BY <2>1, <2>2
<1>9. ASSUME NEW p \in Owners
      PROVE  Entry(r, d, p) = Entry(m, d, p)
  BY <1>8, SameEntry DEF Alike
<1>10. ASSUME NEW p \in Owners \ {o}
       PROVE  Same(m, d, r, d, p) /\ Use(r, d, p) = Use(m, d, p)
  <2>1. \A z \in Use(m, d, p) : At(r, d, z) = At(m, d, z)
    BY <1>4, <1>6
  <2> QED BY <1>5, <1>9, <2>1, FrameOf
<1>11. Ino(r, d, o) = i /\ Rt(r, d, o) = i
  BY <1>1, <1>5, <1>9 DEF Ino, Rt
<1>12. Ch(r, d, o) = Ch(m, d, o)
  BY <1>1, <1>7, <1>11, Basics DEF Ch
<1>13. Use(r, d, o) = Use(m, d, o)
  BY <1>1, <1>11, <1>12 DEF Use
<1>14. \A p \in Owners : /\ Ino(r, d, p) = Ino(m, d, p) /\ Rt(r, d, p) = Rt(m, d, p)
                         /\ Ch(r, d, p) = Ch(m, d, p) /\ Use(r, d, p) = Use(m, d, p)
  BY <1>1, <1>10, <1>11, <1>12, <1>13 DEF Same
<1>15. \A z \in Use(m, d, o) \cap Keys(m) : m.cache[z].owner = o
  BY DEF Good, Owned
<1>16. Ch(m, d, o) # NoBlk =>
         At(r, d, Ch(m, d, o)) = At(m, d, Ch(m, d, o))
         \/ (f /\ At(r, d, Ch(m, d, o)) = Bad) \/ (f /\ IsNode(At(r, d, Ch(m, d, o))))
  <2> SUFFICES ASSUME Ch(m, d, o) # NoBlk
               PROVE  At(r, d, Ch(m, d, o)) = At(m, d, Ch(m, d, o))
                      \/ (f /\ At(r, d, Ch(m, d, o)) = Bad) \/ (f /\ IsNode(At(r, d, Ch(m, d, o))))
    OBVIOUS
  <2> DEFINE b == Ch(m, d, o)
  <2>1. CASE b \in Keys(m) /\ m.cache[b].state # "dirty"
    <3>1. AsOnDisk(m, d, f, b)
      BY <2>1 DEF Good, NodesKept
    <3>2. b \notin Keys(r)
      <4>1. b \in Use(m, d, o)
        BY DEF Use
      <4> QED BY <1>15, <2>1, <4>1
    <3> QED BY <2>1, <3>1, <3>2 DEF AsOnDisk, At
  <2>2. CASE ~(b \in Keys(m) /\ m.cache[b].state # "dirty")
    BY <1>2, <2>2 DEF At
  <2> QED BY <2>1, <2>2
<1>17. ~f => \A p \in Owners : Cont(r, d, p) = Cont(m, d, p)
  <2>1. ~f => Cont(r, d, o) = Cont(m, d, o)
    BY <1>1, <1>7, <1>11, <1>12, <1>16 DEF Cont
  <2> QED BY <1>10, <2>1 DEF Same
<1>18. \A p \in Owners : \A z \in Use(m, d, p) : p # o => At(r, d, z) = At(m, d, z)
  BY <1>4, <1>6
<1>19. Mem(r)
  <2>1. Keys(r) \subseteq Keys(m) /\ \A z \in Keys(r) : r.cache[z] \in Caches
    BY <1>2
  <2> QED BY <1>5, <2>1 DEF Good, Mem, Alike
<1>20. OpenOK(r)
  <2>1. ASSUME NEW p \in Owners, Opened(r, p)
        PROVE  WellOpen(r, p)
    <3>1. p # o /\ Opened(m, p) /\ r.info[p] = m.info[p] /\ r.met = m.met
      BY <1>3, <1>5, <2>1 DEF Alike
    <3>2. WellOpen(m, p)
      BY <3>1, OpenFacts
    <3>3. SameInode(m, r, p)
      BY <1>2, <3>1, <3>2 DEF WellOpen, SameInode
    <3> QED BY <3>2, <3>3, OpenStays
  <2> QED BY <2>1 DEF OpenOK
<1>21. Linked(r, d, NoObject)
  BY <1>5, <1>9 DEF Good, Linked
<1>22. Kinds(r, d, f, NoBlk)
  <2>1. ASSUME NEW p \in Owners, ~Opened(r, p), Ino(r, d, p) # NoBlk
        PROVE  \/ IF p = Dir THEN IsDir(At(r, d, r.dir)) ELSE IsInode(At(r, d, Ino(r, d, p)))
               \/ f /\ At(r, d, Ino(r, d, p)) = Bad
    <3>1. CASE p = o
      <4>1. At(r, d, i) = m.cache[i].data
        BY <1>1, <1>7 DEF At
      <4>2. p = Dir => r.dir = i
        BY <1>1, <3>1 DEF Alike, Entry
      <4> QED BY <1>1, <1>11, <3>1, <4>1, <4>2
    <3>2. CASE p # o
      <4>1. At(r, d, Ino(m, d, p)) = At(m, d, Ino(m, d, p)) /\ ~Opened(m, p)
        BY <1>5, <1>14, <1>18, <2>1, <3>2 DEF Use
      <4> QED BY <1>8, <1>14, <2>1, <4>1 DEF Good, Kinds, Alike
    <3> QED BY <3>1, <3>2
  <2>2. ASSUME NEW p \in Owners, Ch(r, d, p) # NoBlk
        PROVE  IsNode(At(r, d, Ch(r, d, p))) \/ (f /\ At(r, d, Ch(r, d, p)) = Bad)
    <3>1. IsNode(At(m, d, Ch(m, d, p))) \/ (f /\ At(m, d, Ch(m, d, p)) = Bad)
      BY <1>14, <2>2 DEF Good, Kinds
    <3>2. CASE p = o
      BY <1>14, <1>16, <2>2, <3>1, <3>2
    <3>3. CASE p # o
      BY <1>14, <1>18, <2>2, <3>1, <3>3 DEF Use
    <3> QED BY <3>2, <3>3
  <2> QED BY <2>1, <2>2 DEF Kinds
<1>23. Apart(r, d)
  BY <1>14 DEF Good, Apart
<1>24. Unused(r, d, NoBlk)
  BY <1>2, <1>14 DEF Good, Unused, Alike
<1>25. Held(r)
  BY <1>2, <1>5, Basics DEF Good, Held, Caches
<1>26. Owned(r, d)
  <2>1. ASSUME NEW p \in Owners, NEW z \in Use(r, d, p) \cap Keys(r)
        PROVE  r.cache[z].owner = IF Opened(r, p) THEN p ELSE NoObject
    <3>1. z \in Keys(m) /\ m.cache[z].owner = IF Opened(m, p) THEN p ELSE NoObject
      BY <1>2, <1>14, <2>1 DEF Good, Owned
    <3> QED BY <1>2, <1>5, <2>1, <3>1, Basics
  <2>2. ASSUME NEW p \in Objects \ r.met
        PROVE  Use(r, d, p) \cap Keys(r) = {}
    BY <1>2, <1>14, Basics DEF Good, Owned, Alike
  <2> QED BY <2>1, <2>2 DEF Owned
<1>27. Moved(r, s)
  BY <1>2 DEF Good, Moved, Alike
<1>28. RootsKept(r, d, s)
  <2>1. ASSUME NEW p \in Owners, Opened(r, p)
        PROVE  IF r.info[p].dirty THEN r.info[p].root \in s.free
               ELSE /\ r.cache[r.info[p].inode].data = d[r.info[p].inode]
                    /\ \A z \in Use(r, d, p) \cap Keys(r) : r.cache[z].state # "dirty"
    <3>1. p # o /\ Opened(m, p) /\ m.info[p].inode \in Keys(r)
      BY <1>3, <1>5, <2>1 DEF Good, OpenOK, WellOpen
    <3> QED BY <1>2, <1>5, <1>14, <3>1 DEF Good, RootsKept, RootKept
  <2> QED BY <2>1 DEF RootsKept, RootKept
<1>29. NodesKept(r, d, f, NoBlk)
  <2>1. ASSUME NEW p \in Owners, Ch(r, d, p) \in Keys(r), Ch(r, d, p) # NoBlk,
               r.cache[Ch(r, d, p)].state # "dirty"
        PROVE  AsOnDisk(r, d, f, Ch(r, d, p))
    <3>1. /\ Ch(r, d, p) = Ch(m, d, p) /\ r.cache[Ch(m, d, p)].data = m.cache[Ch(m, d, p)].data
          /\ Ch(m, d, p) \in Keys(m) /\ m.cache[Ch(m, d, p)].state # "dirty"
      BY <1>2, <1>14, <2>1
    <3>2. AsOnDisk(m, d, f, Ch(m, d, p))
      BY <2>1, <3>1 DEF Good, NodesKept
    <3> QED BY <3>1, <3>2 DEF AsOnDisk
  <2> QED BY <2>1 DEF NodesKept
<1>30. Saved(r, d, s, NoObject)
  <2>1. s.dir \in Blk \ s.free /\ r.dir = m.dir
    BY DEF Good, Saved, Alike
  <2>2. Opened(r, Dir) => r.dir = s.dir /\ (r.info[Dir].dirty => r.info[Dir].root # r.dir)
    BY <1>5, <2>1, Basics DEF Good, Saved
  <2>3. Untouched(r, s) => Untouched(m, s)
    <3>1. o = Dir /\ m.info[o].dirty => m.dir # s.dir
      BY <1>1, <2>1 DEF Good, RootsKept, RootKept, Entry
    <3>2. o # Dir => r.info[Dir] = m.info[Dir]
      BY <1>5, Basics
    <3> QED BY <2>1, <3>1, <3>2 DEF Untouched
  <2>4. ASSUME Untouched(m, s)
        PROVE  ~m.info[o].dirty
    <3>1. CASE o = Dir
      BY <2>4, <3>1 DEF Untouched
    <3>2. CASE o # Dir
      <4>1. o # x
        BY <3>2, Basics
      <4> QED BY <2>4, <4>1 DEF Good, Saved
    <3> QED BY <3>1, <3>2
  <2>5. ASSUME Untouched(m, s), NEW p \in Owners
        PROVE  /\ ~Opened(r, p) => Use(r, d, p) \cap Keys(r) = {}
               /\ Opened(r, p) /\ p # NoObject /\ r.info[p].dirty => r.info[p].root # r.info[p].inode
    <3>1. CASE p = o
      <4>1. \A z \in Use(m, d, o) \cap Keys(m) : m.cache[z].state # "dirty"
        BY <2>4, <2>5 DEF Good, RootsKept, RootKept
      <4> QED BY <1>5, <1>14, <1>15, <3>1, <4>1
    <3>2. CASE p # o
      BY <1>2, <1>5, <1>14, <2>5, <3>2 DEF Good, Saved
    <3> QED BY <3>1, <3>2
  <2> QED BY <2>1, <2>2, <2>3, <2>5 DEF Saved
<1> QED
  BY <1>5, <1>17, <1>19, <1>20, <1>21, <1>22, <1>23, <1>24, <1>25, <1>26, <1>27, <1>28, <1>29,
     <1>30 DEF Good

-----------------------------------------------------------------------------
(* No object is open.                                                      *)

AllClosed(m) == \A o \in Owners : ~Opened(m, o)

\* A block gets to disk, or is left in its cache.
LEMMA GoodFlushed ==
  ASSUME NEW m, NEW d, NEW s, NEW f \in BOOLEAN, NEW g \in BOOLEAN, Whole(m, d, s, f), f => g,
         AllClosed(m), NEW e, NEW r, Alike(m, r), r.info = m.info, r.free = m.free,
         IsCache(r.cache), Keys(r) \subseteq Keys(m), \A z \in Keys(r) : r.cache[z] = m.cache[z],
         \A z \in Blk : At(r, e, z) = At(m, d, z)
  PROVE  Whole(r, e, s, g) /\ AllClosed(r) /\ \A p \in Owners : Same(m, d, r, e, p)
<1>1. Good(m, d, s, f, NoObject, NoBlk)
  BY DEF Whole
<1>2. \A p \in Owners : Use(m, d, p) \subseteq Blk
  BY <1>1, Places
<1>3. \A p \in Owners : \A z \in Use(m, d, p) : At(r, e, z) = At(m, d, z)
  BY <1>2
<1>4. \A p \in Owners : Same(m, d, r, e, p) /\ Entry(r, e, p) = Entry(m, d, p)
                        /\ Use(r, e, p) = Use(m, d, p)
  BY <1>1, <1>3, Frame DEF Alike
<1>5. AllClosed(r)
  BY DEF AllClosed, Opened
<1>6. \A z \in Keys(m) : m.cache[z].owner = NoObject /\ m.cache[z].state = "dirty"
  BY <1>1 DEF Good, Mem, Held, Caches, AllClosed
<1>7. Mem(r)
  BY <1>1 DEF Good, Mem, Alike
<1>8. OpenOK(r) /\ Linked(r, e, NoObject) /\ RootsKept(r, e, s)
  BY <1>5 DEF OpenOK, WellOpen, Linked, RootsKept, RootKept, AllClosed
<1>9. Kinds(r, e, g, NoBlk)
  <2>1. \A p \in Owners : Ino(m, d, p) # NoBlk => Ino(m, d, p) \in Use(m, d, p)
    BY DEF Use
  <2>2. \A p \in Owners : Ch(m, d, p) # NoBlk => Ch(m, d, p) \in Use(m, d, p)
    BY DEF Use
  <2>3. At(r, e, r.dir) = At(m, d, m.dir)
    BY <1>1, <1>3, Places, Basics DEF Alike
  <2> QED BY <1>1, <1>3, <1>4, <2>1, <2>2, <2>3 DEF Good, Kinds, Same
<1>10. Apart(r, e)
  BY <1>1, <1>4 DEF Good, Apart, Same
<1>11. Unused(r, e, NoBlk)
  BY <1>1, <1>4 DEF Good, Unused, Same, Alike
<1>12. Held(r)
  BY <1>6 DEF Held
<1>13. Owned(r, e)
  BY <1>1, <1>4, <1>5, <1>6, Basics DEF Good, Owned, Same, Alike, AllClosed
<1>14. Moved(r, s)
  BY <1>1 DEF Good, Moved, Alike
<1>15. NodesKept(r, e, g, NoBlk)
  BY <1>6 DEF NodesKept
<1>16. Saved(r, e, s, NoObject)
  BY <1>1, <1>4, Basics DEF Good, Saved, Untouched, Same, Alike
<1> QED
  BY <1>4, <1>5, <1>7, <1>8, <1>9, <1>10, <1>11, <1>12, <1>13, <1>14, <1>15, <1>16 DEF Whole, Good

\* The memory of a container that is not open.
LEMMA EmptyIs ==
  ASSUME NEW t, NEW r, r = Empty(t)
  PROVE  /\ IsMem(r) /\ IsCache(r.cache) /\ Keys(r) = {} /\ AllClosed(r)
         /\ \A o \in Owners : r.info[o] = Closed
         /\ r.info \in [Owners -> [inode : MaybeBlk, root : MaybeBlk, dirty : BOOLEAN]]
         /\ r.free = t.free /\ r.fresh = t.free /\ r.hint = t.hint /\ r.dir = t.dir
         /\ ~r.clash /\ r.met = {} /\ ~r.reused
         /\ \A d, b : At(r, d, b) = d[b]
<1>1. /\ r.info = [o \in Owners |-> Closed] /\ r.cache = [b \in {} |-> 0] /\ IsMem(r)
      /\ r.free = t.free /\ r.fresh = t.free /\ r.hint = t.hint /\ r.dir = t.dir
      /\ r.clash = FALSE /\ r.met = {} /\ r.reused = FALSE
  BY DEF Empty, Owners, IsMem
<1>2. Closed \in [inode : MaybeBlk, root : MaybeBlk, dirty : BOOLEAN]
  BY InfoIs DEF Closed, MaybeBlk
<1>3. Keys(r) = {} /\ IsCache(r.cache) /\ \A o \in Owners : r.info[o] = Closed
  BY <1>1 DEF Keys, IsCache
<1> QED BY <1>1, <1>2, <1>3 DEF AllClosed, Opened, At

\* What is on disk is opened again: blocks that are not free have on disk what was seen.
LEMMA GoodReloaded ==
  ASSUME NEW m, NEW d, NEW s, NEW f \in BOOLEAN, NEW g \in BOOLEAN, Whole(m, d, s, f), f => g,
         AllClosed(m), NEW e, NEW t, t.dir = m.dir, t.free = m.free, t.hint \in 1 .. LastBlk + 1,
         \A z \in Blk \ m.free : e[z] = At(m, d, z) \/ (g /\ e[z] = Bad),
         NEW r, r = Empty(t)
  PROVE  /\ Whole(r, e, t, g)
         /\ (\A z \in Blk \ m.free : e[z] = At(m, d, z)) =>
              \A p \in Owners : Cont(r, e, p) = Cont(m, d, p)
<1>1. Good(m, d, s, f, NoObject, NoBlk)
  BY DEF Whole
<1>2. /\ IsMem(r) /\ IsCache(r.cache) /\ Keys(r) = {} /\ AllClosed(r)
      /\ \A o \in Owners : r.info[o] = Closed
      /\ r.info \in [Owners -> [inode : MaybeBlk, root : MaybeBlk, dirty : BOOLEAN]]
      /\ r.free = m.free /\ r.fresh = m.free /\ r.hint = t.hint /\ r.dir = m.dir
      /\ ~r.clash /\ r.met = {} /\ \A b : At(r, e, b) = e[b]
  BY EmptyIs
<1>3. \A p \in Owners : /\ ~Opened(m, p) /\ ~Opened(r, p)
                        /\ Ino(m, d, p) = Entry(m, d, p) /\ Rt(m, d, p) = Entry(m, d, p)
                        /\ Ino(r, e, p) = Entry(r, e, p) /\ Rt(r, e, p) = Entry(r, e, p)
  BY <1>2 DEF AllClosed, Ino, Rt
<1>4. \A p \in Owners : Use(m, d, p) \subseteq Blk \ m.free
  <2>1. ASSUME NEW p \in Owners
        PROVE  Use(m, d, p) \subseteq Blk /\ Rt(m, d, p) \notin m.free
               /\ (Ch(m, d, p) # NoBlk => Ch(m, d, p) \notin m.free)
    BY <1>1, Places DEF Good, Unused
  <2> QED BY <1>3, <2>1 DEF Use
<1>5. m.dir \in Blk \ m.free
  BY <1>1, <1>4, Places, Basics
<1>6. \A p \in Owners : \A z \in Use(m, d, p) : At(r, e, z) = At(m, d, z) \/ (g /\ At(r, e, z) = Bad)
  BY <1>2, <1>4
<1>7. At(r, e, m.dir) = At(m, d, m.dir) \/ (g /\ At(r, e, m.dir) = Bad)
  BY <1>2, <1>5
<1>8. \A p \in Owners : Entry(r, e, p) = Entry(m, d, p) \/ (Entry(r, e, p) = NoBlk /\ p # Dir)
  BY <1>2, <1>7 DEF Entry, Bad
<1>9. \A p \in Owners : Ino(r, e, p) # NoBlk => Ino(r, e, p) = Ino(m, d, p) /\ Ino(r, e, p) \in Use(m, d, p)
  BY <1>3, <1>8 DEF Use
<1>10. ASSUME NEW p \in Owners, Ch(r, e, p) # NoBlk
       PROVE  Ch(r, e, p) = Ch(m, d, p) /\ Ch(r, e, p) \in Use(m, d, p)
  <2>1. Ino(r, e, p) # NoBlk /\ p # Dir
    BY <1>10 DEF Ch
  <2>2. At(r, e, Ino(r, e, p)) = At(m, d, Ino(m, d, p)) \/ At(r, e, Ino(r, e, p)) = Bad
    BY <1>6, <1>9, <2>1
  <2>3. At(r, e, Ino(r, e, p)) # Bad
    BY <1>10, <2>1 DEF Ch, Below, Bad
  <2>4. Ch(r, e, p) = Ch(m, d, p)
    BY <1>9, <2>1, <2>2, <2>3 DEF Ch
  <2> QED BY <1>10, <2>4 DEF Use
<1>11. \A p \in Owners : Use(r, e, p) \subseteq Use(m, d, p)
  BY <1>3, <1>9, <1>10 DEF Use
<1>12. Mem(r)
  BY <1>1, <1>2 DEF Good, Mem
<1>13. OpenOK(r) /\ Linked(r, e, NoObject) /\ RootsKept(r, e, t)
  BY <1>3 DEF OpenOK, WellOpen, Linked, RootsKept, RootKept
<1>14. Kinds(r, e, g, NoBlk)
  <2>1. ASSUME NEW p \in Owners, Ino(r, e, p) # NoBlk
        PROVE  \/ IF p = Dir THEN IsDir(At(r, e, r.dir)) ELSE IsInode(At(r, e, Ino(r, e, p)))
               \/ g /\ At(r, e, Ino(r, e, p)) = Bad
    <3>1. \/ IF p = Dir THEN IsDir(At(m, d, m.dir)) ELSE IsInode(At(m, d, Ino(m, d, p)))
          \/ f /\ At(m, d, Ino(m, d, p)) = Bad
      BY <1>1, <1>3, <1>9, <2>1 DEF Good, Kinds
    <3>2. p = Dir => Ino(m, d, p) = m.dir /\ Ino(r, e, p) = r.dir
      BY <1>3 DEF Entry
    <3> QED BY <1>2, <1>6, <1>7, <1>9, <2>1, <3>1, <3>2
  <2>2. ASSUME NEW p \in Owners, Ch(r, e, p) # NoBlk
        PROVE  IsNode(At(r, e, Ch(r, e, p))) \/ (g /\ At(r, e, Ch(r, e, p)) = Bad)
    BY <1>1, <1>6, <1>10, <2>2 DEF Good, Kinds
  <2> QED BY <2>1, <2>2 DEF Kinds
<1>15. Apart(r, e)
  <2>1. ASSUME NEW p \in Owners, Ch(r, e, p) # NoBlk
        PROVE  Ch(r, e, p) \notin {Ino(r, e, p), Rt(r, e, p)}
    BY <1>1, <1>3, <1>8, <1>10, <2>1 DEF Good, Apart
  <2> QED BY <1>1, <1>11, <2>1 DEF Good, Apart
<1>16. Unused(r, e, NoBlk)
  <2>1. NoBlk \notin m.free
    BY <1>1, Basics DEF Good, Mem
  <2> QED BY <1>2, <1>3, <1>4, <1>9, <1>10, <1>11, <2>1 DEF Unused
<1>17. Held(r) /\ Owned(r, e) /\ NodesKept(r, e, g, NoBlk)
  BY <1>2 DEF Held, Owned, NodesKept
<1>18. Moved(r, t)
  BY <1>2 DEF Moved
<1>19. Saved(r, e, t, NoObject)
  BY <1>2, <1>3, <1>5, Basics DEF Saved
<1>20. ASSUME \A z \in Blk \ m.free : e[z] = At(m, d, z), NEW p \in Owners
       PROVE  Cont(r, e, p) = Cont(m, d, p)
  <2>1. \A q \in Owners : \A z \in Use(m, d, q) : At(r, e, z) = At(m, d, z)
    BY <1>2, <1>4, <1>20
  <2>2. At(r, e, m.dir) = At(m, d, m.dir)
    BY <1>2, <1>5, <1>20
  <2>3. Entry(r, e, p) = Entry(m, d, p)
    BY <1>2, <2>2, SameEntry
  <2>4. Ino(r, e, p) = Ino(m, d, p)
    BY <1>3, <2>3
  <2>5. Ch(r, e, p) = Ch(m, d, p)
    BY <2>1, <2>4 DEF Ch, Use
  <2> QED BY <2>1, <2>4, <2>5 DEF Cont, Use
<1> QED
  BY <1>12, <1>13, <1>14, <1>15, <1>16, <1>17, <1>18, <1>19, <1>20 DEF Whole, Good
=============================================================================
