-------------------------- MODULE MetadataCache_proofs --------------------------
(***************************************************************************)
(* The theorems about MetadataCache.  Each call is a chain of the steps of *)
(* MetadataCache_inv, in the order of the code, and so is each action: no  *)
(* block is cached twice; what users see, and what they would see after a  *)
(* crash, changes as Store says; and closing saves.                        *)
(***************************************************************************)
EXTENDS MetadataCache_inv
-----------------------------------------------------------------------------
(* Blocks that are taken.                                                  *)

\* As long as no block is given again, what OFS_ALLOC_BLOCK gives is in no use.
LEMMA GoodTaken ==
  ASSUME NEW m, NEW d, NEW s, NEW f, NEW x, NEW y, Good(m, d, s, f, x, y),
         m.free # {}, NEW r, r = Taken(m), ~r.reused, NEW n, n = Fresh(m)
  PROVE  /\ Good(r, d, s, f, x, y) /\ ~m.reused
         /\ \A o \in Owners : Same(m, d, r, d, o)
         /\ n \in m.free /\ Spare(r, d, s, n)
<1>1. /\ IsMem(r) /\ r.cache = m.cache /\ r.info = m.info /\ r.dir = m.dir
      /\ r.met = m.met /\ r.clash = m.clash
      /\ r.free = m.free \ {n} /\ r.fresh = m.fresh \ {n}
      /\ r.hint \in 1 .. LastBlk + 1 /\ n \in Blk
      /\ ~m.reused /\ n \in m.fresh
  BY TakenIs DEF Good
<1>2. n \in m.free /\ r.fresh \subseteq r.free
  BY <1>1 DEF Good, Mem
<1>3. Good(r, d, s, f, x, y) /\ \A o \in Owners : Same(m, d, r, d, o)
  BY <1>1, <1>2, GoodLess
<1>4. n \notin Keys(r) /\ n \in s.free
  BY <1>1 DEF Good, Unused, Moved, Keys
<1>5. \A o \in Owners : n \notin Use(r, d, o)
  BY <1>1, <1>3 DEF Good, Unused, Same, Use
<1> QED BY <1>1, <1>2, <1>3, <1>4, <1>5 DEF Spare

\* MoveRoot gives an object that has changed a root of its own.
LEMMA GoodMove ==
  ASSUME NEW m, NEW d, NEW s, NEW f, NEW x, NEW y, Good(m, d, s, f, x, y),
         NEW o \in Owners, Opened(m, o), m.free # {} \/ m.info[o].dirty,
         NEW r, r = MoveRoot(m, o), ~r.reused
  PROVE  /\ Good(r, d, s, f, x, y) /\ ~m.reused
         /\ r.cache = m.cache /\ r.dir = m.dir /\ r.met = m.met
         /\ \A p \in Owners \ {o} : r.info[p] = m.info[p]
         /\ r.info[o].dirty /\ r.info[o].inode = m.info[o].inode
         /\ \A p \in Owners : /\ Opened(r, p) <=> Opened(m, p)
                              /\ Ino(r, d, p) = Ino(m, d, p) /\ Ch(r, d, p) = Ch(m, d, p)
                              /\ Cont(r, d, p) = Cont(m, d, p)
         /\ \A n : /\ n \in Keys(m) /\ (\A p \in Owners : n \notin Use(m, d, p))
                     => \A p \in Owners : n \notin Use(r, d, p)
                   /\ n \in Keys(m) /\ (\A p \in Owners : n \notin Use(m, d, p))
                      /\ n \notin m.free => n \notin r.free
                   /\ n \in r.fresh => n \in m.fresh
<1>1. CASE m.info[o].dirty
  <2>1. r = m
    BY <1>1 DEF MoveRoot
  <2> QED BY <1>1, <2>1
<1>2. CASE ~m.info[o].dirty
  <2>1. PICK n, t : n = Fresh(m) /\ t = Taken(m)
    OBVIOUS
  <2>2. IsMem(t) /\ t.info = m.info
    BY <1>2, <2>1, TakenIs DEF Good
  <2>3. PICK u : /\ u = [t EXCEPT !.info[o] = [@ EXCEPT !.root = n, !.dirty = TRUE]]
                 /\ r = Freed(u, m.info[o].root)
    BY <1>2, <2>1 DEF MoveRoot
  <2>4. /\ Alike(t, u) /\ u.cache = t.cache /\ u.free = t.free
        /\ u.info = [m.info EXCEPT ![o] = [@ EXCEPT !.root = n, !.dirty = TRUE]]
    BY <2>2, <2>3 DEF IsMem, Alike
  <2>5. /\ Alike(u, r) /\ r.info = u.info /\ r.cache = u.cache
        /\ r.free = u.free \cup {m.info[o].root}
    <3>1. IsMem(u)
      BY <2>4 DEF Alike
    <3>2. r = Freed(u, m.info[o].root)
      BY <2>3
    <3> QED BY <3>1, <3>2, FreedIs
  <2>6. Alike(t, r) /\ ~t.reused
    BY <2>4, <2>5 DEF Alike
  <2>7. /\ Good(t, d, s, f, x, y) /\ ~m.reused
        /\ t.cache = m.cache /\ t.info = m.info /\ t.dir = m.dir /\ t.met = m.met
        /\ t.free = m.free \ {n} /\ n \in m.free
        /\ \A p \in Owners : Same(m, d, t, d, p)
        /\ Spare(t, d, s, n)
    <3>1. m.free # {} /\ t = Taken(m) /\ n = Fresh(m) /\ ~t.reused
      BY <1>2, <2>1, <2>6
    <3>2. Good(t, d, s, f, x, y) /\ \A p \in Owners : Same(m, d, t, d, p)
      BY <3>1, GoodTaken
    <3>3. Mem(m)
      BY DEF Good
    <3>4. /\ t.cache = m.cache /\ t.info = m.info /\ t.dir = m.dir /\ t.met = m.met
          /\ t.free = m.free \ {n}
      BY <3>1, <3>3, TakenIs
    <3>5. ~m.reused /\ n \in m.free /\ Spare(t, d, s, n)
      BY <3>1, GoodTaken
    <3> QED BY <3>2, <3>4, <3>5
  <2>8. Opened(t, o) /\ ~t.info[o].dirty
    BY <1>2, <2>7 DEF Opened
  <2>9. /\ r.cache = t.cache /\ r.free = t.free \cup {t.info[o].root}
    BY <2>4, <2>5, <2>7
  <2>11. m.info \in [Owners -> [inode : MaybeBlk, root : MaybeBlk, dirty : BOOLEAN]]
    BY DEF Good, Mem
  <2>12. /\ \A p \in Owners \ {o} : r.info[p] = m.info[p]
         /\ r.info[o] = [inode |-> m.info[o].inode, root |-> n, dirty |-> TRUE]
         /\ r.info \in [Owners -> [inode : MaybeBlk, root : MaybeBlk, dirty : BOOLEAN]]
    <3>1. r.info = [m.info EXCEPT ![o] = [@ EXCEPT !.root = n, !.dirty = TRUE]]
      BY <2>4, <2>5
    <3>2. m.info[o] \in [inode : MaybeBlk, root : MaybeBlk, dirty : BOOLEAN] /\ n \in MaybeBlk
      BY <2>7, <2>11 DEF MaybeBlk, Spare
    <3>3. r.info[o] = [m.info[o] EXCEPT !.root = n, !.dirty = TRUE]
      BY <2>11, <3>1
    <3>4. r.info[o] = [inode |-> m.info[o].inode, root |-> n, dirty |-> TRUE]
      BY <3>2, <3>3
    <3>5. [inode |-> m.info[o].inode, root |-> n, dirty |-> TRUE]
            \in [inode : MaybeBlk, root : MaybeBlk, dirty : BOOLEAN]
      BY <3>2, InfoIs
    <3> QED BY <2>11, <3>1, <3>4, <3>5
  <2>10. /\ Good(r, d, s, f, x, y)
         /\ \A p \in Owners \ {o} : Same(t, d, r, d, p) /\ Use(r, d, p) = Use(t, d, p)
         /\ Opened(r, o) /\ Ino(r, d, o) = Ino(t, d, o) /\ Ch(r, d, o) = Ch(t, d, o)
         /\ Rt(r, d, o) = n /\ Cont(r, d, o) = Cont(t, d, o)
         /\ Use(r, d, o) = Use(t, d, o) \cup {n}
    <3>1. /\ r.info[o] = [inode |-> t.info[o].inode, root |-> n, dirty |-> TRUE]
          /\ \A p \in Owners \ {o} : r.info[p] = t.info[p]
      BY <2>7, <2>12
    <3> QED BY <2>6, <2>7, <2>8, <2>9, <2>12, <3>1, GoodMoveRoot
  <2>14. r.info[o].dirty /\ r.info[o].inode = m.info[o].inode
    BY <2>12
  <2>15. \A p \in Owners : /\ Opened(r, p) <=> Opened(m, p)
                           /\ Ino(r, d, p) = Ino(m, d, p) /\ Ch(r, d, p) = Ch(m, d, p)
                           /\ Cont(r, d, p) = Cont(m, d, p)
    BY <2>7, <2>10 DEF Same
  <2>16. \A p \in Owners : Use(t, d, p) = Use(m, d, p)
    BY <2>7 DEF Same, Use
  <2>17. m.info[o].root \in Use(m, d, o)
    BY Places
  <2>18. ASSUME NEW k \in Keys(m), \A p \in Owners : k \notin Use(m, d, p)
         PROVE  /\ \A p \in Owners : k \notin Use(r, d, p)
                /\ k \notin m.free => k \notin r.free
    <3>1. k # n
      BY <2>7 DEF Keys, Spare
    <3> QED BY <2>7, <2>9, <2>10, <2>16, <2>17, <2>18, <3>1
  <2>19. r.fresh \subseteq m.fresh
    <3>1. t.fresh = m.fresh \ {n}
      BY <1>2, <2>1, TakenIs DEF Good
    <3> QED BY <2>6, <3>1 DEF Alike
  <2> QED BY <2>6, <2>7, <2>9, <2>12, <2>14, <2>15, <2>10, <2>18, <2>19 DEF Alike
<1> QED BY <1>1, <1>2

\* The root of a user object is set: it has node c below, or contents v of its own.
LEMMA GoodSetRoot ==
  ASSUME NEW m, NEW d, NEW s, NEW f, NEW x, NEW y, Good(m, d, s, f, x, y),
         NEW o \in Objects, Opened(m, o), m.free # {} \/ m.info[o].dirty, y \in {NoBlk, Ch(m, d, o)},
         NEW c \in MaybeBlk, NEW v \in Values,
         \/ c = NoBlk
         \/ c = Ch(m, d, o) /\ c # y
         \/ /\ c \in Keys(m) /\ m.cache[c].owner = o /\ m.cache[c].state = "dirty"
            /\ IsNode(m.cache[c].data) /\ c \notin m.free
            /\ \A p \in Owners : c \notin Use(m, d, p),
         NEW r, r = SetRoot(m, o, Inode(v, c)), ~r.reused
  PROVE  /\ Good(r, d, s, f, x, NoBlk) /\ ~m.reused
         /\ \A p \in Owners : Opened(r, p) <=> Opened(m, p)
         /\ \A p \in Owners \ {o} : Cont(r, d, p) = Cont(m, d, p)
         /\ Cont(r, d, o) = IF c = NoBlk THEN v
                            ELSE IF At(m, d, c).kind = "index" THEN At(m, d, c).val ELSE Unreadable
<1>1. o \in Owners /\ o # Dir
  BY Basics
<1>2. PICK k, i : k = MoveRoot(m, o) /\ i = m.info[o].inode
  OBVIOUS
<1>3. PICK w : w = [k.cache[i] EXCEPT !.data = Inode(v, c)]
  OBVIOUS
<1>4. r = Changed(k, i, w)
  BY <1>2, <1>3 DEF SetRoot, Changed
<1>5. r.reused = k.reused
  BY <1>4 DEF Changed
<1>6. /\ Good(k, d, s, f, x, y) /\ ~m.reused
      /\ k.cache = m.cache /\ k.dir = m.dir /\ k.met = m.met
      /\ k.info[o].dirty /\ k.info[o].inode = m.info[o].inode
  BY <1>1, <1>2, <1>5, GoodMove
<1>7. \A p \in Owners : /\ Opened(k, p) <=> Opened(m, p)
                        /\ Ino(k, d, p) = Ino(m, d, p) /\ Ch(k, d, p) = Ch(m, d, p)
                        /\ Cont(k, d, p) = Cont(m, d, p)
  BY <1>1, <1>2, <1>5, GoodMove
<1>8. /\ c \in Keys(m) /\ (\A p \in Owners : c \notin Use(m, d, p))
           => \A p \in Owners : c \notin Use(k, d, p)
      /\ c \in Keys(m) /\ (\A p \in Owners : c \notin Use(m, d, p)) /\ c \notin m.free
           => c \notin k.free
  BY <1>1, <1>2, <1>5, GoodMove
<1>9. Keys(k) = Keys(m) /\ \A z : At(k, d, z) = At(m, d, z)
  BY <1>6 DEF Keys, At
<1>10. c \in Keys(m) => c \notin k.fresh
  BY <1>6, <1>9 DEF Good, Unused
<1>11. IsMem(k) /\ IsCache(k.cache) /\ i \in Keys(k) /\ k.cache[i] \in Caches
  <2>1. IsMem(k) /\ IsCache(k.cache)
    BY <1>6 DEF Good, Mem
  <2>2. Opened(k, o) /\ k.info[o].inode = i
    BY <1>1, <1>2, <1>6, <1>7
  <2> QED BY ONLY <1>1, <1>6, <2>1, <2>2, OpenFacts
<1>12. w = [owner |-> k.cache[i].owner, state |-> k.cache[i].state, data |-> Inode(v, c)]
  BY <1>3, <1>11 DEF Caches
<1>13. /\ Alike(k, r) /\ r.info = k.info /\ r.free = k.free
       /\ IsCache(r.cache) /\ Keys(r) = Keys(k)
       /\ r.cache[i] = w /\ \A z \in Keys(k) \ {i} : r.cache[z] = k.cache[z]
  BY <1>4, <1>11, ChangedIs
<1>14. /\ Opened(k, o) /\ y \in {NoBlk, Ch(k, d, o)} /\ i = k.info[o].inode
       /\ \/ c = NoBlk
          \/ c = Ch(k, d, o) /\ c # y
          \/ /\ c \in Keys(k) /\ k.cache[c].owner = o /\ k.cache[c].state = "dirty"
             /\ IsNode(k.cache[c].data) /\ c \notin k.free /\ c \notin k.fresh
             /\ \A p \in Owners : c \notin Use(k, d, p)
  BY <1>1, <1>2, <1>6, <1>7, <1>8, <1>9, <1>10
<1>15. /\ Good(r, d, s, f, x, NoBlk)
       /\ \A p \in Owners \ {o} : Same(k, d, r, d, p)
       /\ Opened(r, o) /\ Ino(r, d, o) = Ino(k, d, o) /\ Rt(r, d, o) = Rt(k, d, o)
       /\ Ch(r, d, o) = c
       /\ c = NoBlk => Cont(r, d, o) = v
       /\ c # NoBlk => At(r, d, c) = At(k, d, c)
  <2>1. k.info[o].dirty /\ Good(k, d, s, f, x, y)
    BY <1>6
  <2>2. r.cache[i] = [owner |-> k.cache[i].owner, state |-> k.cache[i].state, data |-> Inode(v, c)]
    BY <1>12, <1>13
  <2> QED BY ONLY o \in Objects, c \in MaybeBlk, v \in Values, <1>13, <1>14, <2>1, <2>2, GoodSetUser
<1>16. c # NoBlk => Cont(r, d, o) = IF At(m, d, c).kind = "index" THEN At(m, d, c).val ELSE Unreadable
  <2>1. c # NoBlk => Ino(r, d, o) # NoBlk /\ At(r, d, Ino(r, d, o)).kind = "inode"
    BY <1>1, <1>15 DEF Ch, Below
  <2> QED BY <1>1, <1>9, <1>15, <2>1 DEF Cont
<1> QED BY <1>6, <1>7, <1>15, <1>16 DEF Same

\* The root of $OBJID is set: o is found under the number of its inode.
LEMMA GoodTold ==
  ASSUME NEW m, NEW d, NEW s, NEW f, NEW o \in Objects, Good(m, d, s, f, o, NoBlk),
         Opened(m, Dir), Opened(m, o), m.free # {} \/ m.info[Dir].dirty,
         NEW e \in [Objects -> MaybeBlk], e[o] = m.info[o].inode,
         \A p \in Objects \ {o} : e[p] = OfRoot(m, Dir).entry[p],
         NEW r, r = SetRoot(m, Dir, DirInode(e)), ~r.reused
  PROVE  /\ Good(r, d, s, f, NoObject, NoBlk) /\ ~m.reused
         /\ \A p \in Owners : (Opened(r, p) <=> Opened(m, p)) /\ Cont(r, d, p) = Cont(m, d, p)
         /\ r.info[Dir].dirty /\ \A p \in Objects : r.info[p] = m.info[p]
         /\ \A z \in Keys(m) \ {m.dir} : z \in Keys(r) /\ r.cache[z] = m.cache[z]
<1>1. /\ o \in Owners /\ o # Dir /\ Dir \in Owners /\ m.info[Dir].inode = m.dir
      /\ m.dir \in Keys(m) /\ IsDir(m.cache[m.dir].data) /\ m.info[o].inode \in MaybeBlk
  <2>1. o \in Owners /\ o # Dir /\ Dir \in Owners
    BY Basics
  <2>2. m.info[o].inode \in MaybeBlk
    BY <2>1 DEF Good, Mem
  <2>3. m.info[Dir].inode = m.dir
    BY <2>1, Basics DEF Good, Linked, Entry
  <2>4. WellOpen(m, Dir) /\ m.info[Dir].inode \in Keys(m)
    BY <2>1, OpenFacts
  <2> QED BY <2>1, <2>2, <2>3, <2>4 DEF WellOpen
<1>2. PICK k, i : k = MoveRoot(m, Dir) /\ i = m.dir
  OBVIOUS
<1>4. /\ e \in [Objects -> MaybeBlk] /\ e[o] = m.info[o].inode
      /\ \A p \in Objects \ {o} : e[p] = Entry(m, d, p)
  <2>1. OfRoot(m, Dir) = m.cache[m.dir].data /\ At(m, d, m.dir) = m.cache[m.dir].data
    BY <1>1 DEF OfRoot, At
  <2>2. /\ OfRoot(m, Dir).entry \in [Objects -> MaybeBlk]
        /\ \A p \in Objects : OfRoot(m, Dir).entry[p] = Entry(m, d, p)
    BY <1>1, <2>1, Basics DEF IsDir, Entry
  <2> QED BY <2>2
<1>5. PICK w : w = [k.cache[i] EXCEPT !.data = DirInode(e)]
  OBVIOUS
<1>6. r = Changed(k, i, w)
  BY <1>1, <1>2, <1>5 DEF SetRoot, Changed
<1>7. r.reused = k.reused
  BY <1>6 DEF Changed
<1>8. /\ Good(k, d, s, f, o, NoBlk) /\ ~m.reused
      /\ k.cache = m.cache /\ k.dir = m.dir /\ k.met = m.met
      /\ k.info[Dir].dirty /\ k.info[Dir].inode = m.info[Dir].inode
  BY <1>1, <1>2, <1>7, GoodMove
<1>9. /\ \A p \in Owners \ {Dir} : k.info[p] = m.info[p]
      /\ \A p \in Owners : (Opened(k, p) <=> Opened(m, p)) /\ Cont(k, d, p) = Cont(m, d, p)
  BY <1>1, <1>2, <1>7, GoodMove
<1>10. Keys(k) = Keys(m) /\ \A z : At(k, d, z) = At(m, d, z)
  BY <1>8 DEF Keys, At
<1>11. ASSUME NEW p \in Owners
       PROVE  Entry(k, d, p) = Entry(m, d, p)
  BY <1>8, <1>10, SameEntry
<1>12. IsMem(k) /\ IsCache(k.cache) /\ i \in Keys(k) /\ k.cache[i] \in Caches
  BY <1>1, <1>2, <1>8, <1>10 DEF Good, Mem
<1>13. w = [owner |-> k.cache[i].owner, state |-> k.cache[i].state, data |-> DirInode(e)]
  BY <1>5, <1>12 DEF Caches
<1>14. /\ Alike(k, r) /\ r.info = k.info /\ r.free = k.free
       /\ IsCache(r.cache) /\ Keys(r) = Keys(k)
       /\ r.cache[i] = w /\ \A z \in Keys(k) \ {i} : r.cache[z] = k.cache[z]
  BY <1>6, <1>12, ChangedIs
<1>15. /\ Opened(k, Dir) /\ Opened(k, o) /\ e[o] = k.info[o].inode /\ i = k.dir
       /\ \A p \in Objects \ {o} : e[p] = Entry(k, d, p)
  BY <1>1, <1>2, <1>4, <1>8, <1>9, <1>11, Basics
<1>16. Good(r, d, s, f, NoObject, NoBlk) /\ \A p \in Owners : Same(k, d, r, d, p)
  BY <1>4, <1>8, <1>13, <1>14, <1>15, GoodSetDir
<1> QED BY <1>2, <1>8, <1>9, <1>10, <1>14, <1>16, Basics DEF Same

-----------------------------------------------------------------------------
(* An object is closed.                                                    *)

\* set_inode of the root that has moved is a change of the cache of the inode.
LEMMA RenumberedIs ==
  ASSUME NEW m, IsMem(m), IsCache(m.cache), NEW i \in Keys(m), NEW n, n \notin Keys(m),
         NEW r, r = Renumber(m, i, n)
  PROVE  /\ Alike(m, r) /\ r.info = m.info /\ r.free = m.free
         /\ IsCache(r.cache) /\ Keys(r) = (Keys(m) \ {i}) \cup {n}
         /\ r.cache[n] = m.cache[i] /\ \A z \in Keys(m) \ {i} : r.cache[z] = m.cache[z]
<1>1. PICK k : k = RemoveCache(m, i)
  OBVIOUS
<1>2. PICK c : c = m.cache[i]
  OBVIOUS
<1>3. /\ Alike(m, k) /\ k.info = m.info /\ k.free = m.free
      /\ k.cache = [x \in Keys(m) \ {i} |-> m.cache[x]]
  BY <1>1, RemoveCacheIs
<1>4. Keys(k) = Keys(m) \ {i} /\ IsMem(k) /\ \A z \in Keys(k) : k.cache[z] = m.cache[z]
  BY <1>3 DEF Keys, Alike
<1>5. r = AddCache(k, n, c)
  BY <1>1, <1>2 DEF Renumber
<1>6. n \notin Keys(k)
  BY <1>4
<1>7. /\ Alike(k, r) /\ r.info = k.info /\ r.free = k.free
      /\ r.cache = [x \in Keys(k) \cup {n} |-> IF x = n THEN c ELSE k.cache[x]]
  BY <1>4, <1>5, <1>6, AddCacheIs
<1>8. /\ Keys(r) = Keys(k) \cup {n} /\ IsCache(r.cache) /\ r.cache[n] = c
      /\ \A z \in Keys(k) : r.cache[z] = k.cache[z]
  BY <1>6, <1>7 DEF Keys, IsCache
<1> QED BY <1>2, <1>3, <1>4, <1>7, <1>8 DEF Alike

\* The caches that stay when o is released.
Kept(m, o) ==
  [b \in {z \in Keys(m) : m.cache[z].owner # o \/ m.cache[z].state = "dirty"} |->
     IF m.cache[b].owner = o THEN [m.cache[b] EXCEPT !.owner = NoObject] ELSE m.cache[b]]

Replaced(m, c, j) == [m EXCEPT !.cache = c, !.info = j]

\* Released changes the caches and the record of the object.
LEMMA ReleasedKept ==
  ASSUME NEW m, IsMem(m), NEW o
  PROVE  Released(m, o) = Replaced(m, Kept(m, o), Told(m, o, Closed))
  BY DEF Released, Kept, Keys, IsMem, Told, Replaced

\* The caches that are left when an object is released, block by block.
LEMMA ReleasedIs ==
  ASSUME NEW m, IsMem(m), IsCache(m.cache), \A b \in Keys(m) : m.cache[b] \in Caches,
         NEW o, NEW r, r = Released(m, o)
  PROVE  LetsGo(m, o, r)
<1>1. PICK stays : stays = {z \in Keys(m) : m.cache[z].owner # o \/ m.cache[z].state = "dirty"}
  OBVIOUS
<1>2. PICK c : c = Kept(m, o)
  OBVIOUS
<1>3. PICK j : j = Told(m, o, Closed)
  OBVIOUS
<1>4. r = Replaced(m, c, j)
  BY <1>2, <1>3, ReleasedKept
<1>5. Alike(m, r) /\ r.free = m.free /\ r.info = j /\ r.cache = c
  BY <1>4 DEF IsMem, Alike, Replaced
<1>6. DOMAIN c = stays /\ IsCache(c)
  BY <1>1, <1>2 DEF IsCache, Kept
<1>7. ASSUME NEW z \in stays
      PROVE  c[z] = [owner |-> IF m.cache[z].owner = o THEN NoObject ELSE m.cache[z].owner,
                     state |-> m.cache[z].state, data |-> m.cache[z].data]
  <2>1. m.cache[z] = [owner |-> m.cache[z].owner, state |-> m.cache[z].state, data |-> m.cache[z].data]
    BY <1>1 DEF Caches
  <2>2. c[z] = IF m.cache[z].owner = o THEN [m.cache[z] EXCEPT !.owner = NoObject] ELSE m.cache[z]
    BY <1>1, <1>2 DEF Kept
  <2>3. CASE m.cache[z].owner = o
    BY <2>1, <2>2, <2>3
  <2>4. CASE m.cache[z].owner # o
    BY <2>1, <2>2, <2>4
  <2> QED BY <2>3, <2>4
<1> QED BY <1>1, <1>3, <1>5, <1>6, <1>7 DEF Keys, LetsGo

\* Memories that differ in what they say of o alone.
ButFor(a, b, o) ==
  /\ IsMem(a) /\ IsMem(b) /\ a.cache = b.cache /\ a.free = b.free /\ a.hint = b.hint
  /\ a.fresh = b.fresh /\ a.dir = b.dir /\ a.clash = b.clash /\ a.met = b.met
  /\ a.reused = b.reused /\ a.again = b.again
  /\ a.info = [p \in Owners |-> a.info[p]] /\ b.info = [p \in Owners |-> b.info[p]]
  /\ \A p \in Owners \ {o} : a.info[p] = b.info[p]

\* A change of what a memory says of an object.
ChangedInfo(m, o, j) == [m EXCEPT !.info[o] = j]

\* The root of another object is set in both alike.
LEMMA SetRootButFor ==
  ASSUME NEW a, NEW b, NEW o \in Owners, NEW p \in Owners \ {o}, ButFor(a, b, o), NEW x,
         NEW v, v = SetRoot(a, p, x), NEW w, w = SetRoot(b, p, x)
  PROVE  ButFor(v, w, o) /\ v.info[o] = a.info[o] /\ w.info[o] = b.info[o]
<1>1. PICK k, l : k = MoveRoot(a, p) /\ l = MoveRoot(b, p)
  OBVIOUS
<1>2. a.info[p] = b.info[p]
  BY DEF ButFor
<1>3. ButFor(k, l, o) /\ k.info[o] = a.info[o] /\ l.info[o] = b.info[o]
  <2>1. CASE a.info[p].dirty
    BY <1>1, <1>2, <2>1 DEF MoveRoot
  <2>2. CASE ~a.info[p].dirty
    <3>1. PICK n, j : n = Fresh(a) /\ j = [a.info[p] EXCEPT !.root = n, !.dirty = TRUE]
      BY Zenon
    <3>2. n = Fresh(b)
      BY <3>1 DEF Fresh, ButFor
    <3>3. PICK s, t : s = Taken(a) /\ t = Taken(b)
      OBVIOUS
    <3>4. /\ s = [cache |-> a.cache, info |-> a.info, free |-> a.free \ {n}, hint |-> n + 1,
                  fresh |-> a.fresh \ {n}, dir |-> a.dir, clash |-> a.clash, met |-> a.met,
                  again |-> a.again, reused |-> a.reused \/ n \in a.free \ a.fresh]
          /\ t = [cache |-> b.cache, info |-> b.info, free |-> b.free \ {n}, hint |-> n + 1,
                  fresh |-> b.fresh \ {n}, dir |-> b.dir, clash |-> b.clash, met |-> b.met,
                  again |-> b.again, reused |-> b.reused \/ n \in b.free \ b.fresh]
      BY <3>1, <3>2, <3>3 DEF Taken, ButFor, IsMem
    <3>5. ButFor(s, t, o) /\ s.info = a.info /\ t.info = b.info
      BY <3>4 DEF ButFor, IsMem
    <3>6. PICK y, z : y = ChangedInfo(s, p, j) /\ z = ChangedInfo(t, p, j)
      OBVIOUS
    <3>7. k = Freed(y, a.info[p].root) /\ l = Freed(z, a.info[p].root)
      <4>1. k = Freed([s EXCEPT !.info[p] = [a.info[p] EXCEPT !.root = n, !.dirty = TRUE]], a.info[p].root)
        BY <1>1, <2>2, <3>1, <3>3, <3>5 DEF MoveRoot
      <4>2. l = Freed([t EXCEPT !.info[p] = [b.info[p] EXCEPT !.root = n, !.dirty = TRUE]], b.info[p].root)
        BY <1>1, <1>2, <2>2, <3>2, <3>3, <3>5 DEF MoveRoot
      <4> QED BY <1>2, <3>1, <3>6, <4>1, <4>2 DEF ChangedInfo
    <3>8. /\ y = [s EXCEPT !.info = [s.info EXCEPT ![p] = j]]
          /\ z = [t EXCEPT !.info = [t.info EXCEPT ![p] = j]]
      BY <3>5, <3>6 DEF ButFor, IsMem, ChangedInfo
    <3>9. /\ s.info = [q \in Owners |-> s.info[q]] /\ t.info = [q \in Owners |-> t.info[q]]
          /\ \A q \in Owners \ {o} : s.info[q] = t.info[q]
      BY <3>5 DEF ButFor
    <3>10. /\ [s.info EXCEPT ![p] = j] = [q \in Owners |-> IF q = p THEN j ELSE s.info[q]]
           /\ [t.info EXCEPT ![p] = j] = [q \in Owners |-> IF q = p THEN j ELSE t.info[q]]
      BY <3>9
    <3>11. /\ IsMem(y) /\ IsMem(z) /\ y.cache = s.cache /\ z.cache = t.cache
           /\ y.info = [q \in Owners |-> IF q = p THEN j ELSE s.info[q]]
           /\ z.info = [q \in Owners |-> IF q = p THEN j ELSE t.info[q]]
           /\ Alike(s, y) /\ Alike(t, z) /\ y.free = s.free /\ z.free = t.free
      BY <3>5, <3>8, <3>10 DEF ButFor, IsMem, Alike
    <3>12. /\ Alike(y, k) /\ k.info = y.info /\ k.cache = y.cache /\ k.free = y.free \cup {a.info[p].root}
           /\ Alike(z, l) /\ l.info = z.info /\ l.cache = z.cache /\ l.free = z.free \cup {a.info[p].root}
      BY <3>7, <3>11, FreedIs
    <3>13. /\ k.info = [q \in Owners |-> k.info[q]] /\ l.info = [q \in Owners |-> l.info[q]]
           /\ \A q \in Owners \ {o} : k.info[q] = l.info[q]
      BY <3>9, <3>11, <3>12
    <3>14. k.info[o] = a.info[o] /\ l.info[o] = b.info[o]
      BY <3>5, <3>9, <3>11, <3>12
    <3> QED BY <3>5, <3>11, <3>12, <3>13, <3>14 DEF ButFor, Alike
  <2> QED BY <2>1, <2>2
<1>4. PICK i, c : /\ i = a.info[p].inode
                  /\ c = [k.cache EXCEPT ![i] = [@ EXCEPT !.data = x]]
  OBVIOUS
<1>5. v = [k EXCEPT !.cache = c] /\ w = [l EXCEPT !.cache = c]
  BY <1>1, <1>2, <1>3, <1>4 DEF SetRoot, ButFor, IsMem
<1> QED BY <1>3, <1>5 DEF ButFor, IsMem

\* SetRoot keeps the types, and of the records only the one it is about.
LEMMA ChangedInfoIs ==
  ASSUME NEW m, IsMem(m), m.info = [p \in Owners |-> m.info[p]], NEW o \in Owners, NEW j,
         NEW r, r = ChangedInfo(m, o, j)
  PROVE  /\ Alike(m, r) /\ r.cache = m.cache /\ r.free = m.free /\ r.info[o] = j
         /\ r.info = Told(m, o, j) /\ ButFor(m, r, o)
<1>1. r = [m EXCEPT !.info = [m.info EXCEPT ![o] = j]]
  BY DEF IsMem, ChangedInfo
<1>2. /\ Alike(m, r) /\ r.cache = m.cache /\ r.free = m.free
      /\ r.info = Told(m, o, j)
  BY <1>1 DEF IsMem, Alike, Told
<1>3. /\ r.info = [p \in Owners |-> r.info[p]] /\ r.info[o] = j
      /\ \A p \in Owners \ {o} : r.info[p] = m.info[p]
  BY <1>2 DEF Told
<1> QED BY <1>2, <1>3 DEF ButFor, Alike

\* What a memory says of an object is not looked at when the object is released.
LEMMA ReleasedButFor ==
  ASSUME NEW a, NEW b, NEW o \in Owners, ButFor(a, b, o)
  PROVE  Released(a, o) = Released(b, o)
<1>1. Told(a, o, Closed) = Told(b, o, Closed)
  <2>1. /\ a.info = [p \in Owners |-> a.info[p]] /\ b.info = [p \in Owners |-> b.info[p]]
        /\ \A p \in Owners \ {o} : a.info[p] = b.info[p]
    BY DEF ButFor
  <2>2. /\ Told(a, o, Closed) = [p \in Owners |-> IF p = o THEN Closed ELSE a.info[p]]
        /\ Told(b, o, Closed) = [p \in Owners |-> IF p = o THEN Closed ELSE b.info[p]]
    BY <2>1 DEF Told
  <2> QED BY <2>1, <2>2
<1>2. Kept(a, o) = Kept(b, o)
  BY DEF Kept, Keys, ButFor
<1>3. /\ Released(a, o) = Replaced(a, Kept(a, o), Told(a, o, Closed))
      /\ Released(b, o) = Replaced(b, Kept(b, o), Told(b, o, Closed))
  BY ReleasedKept DEF ButFor
<1>4. PICK c, j : c = Kept(a, o) /\ j = Told(a, o, Closed)
  OBVIOUS
<1>5. /\ Released(a, o) = Replaced(a, c, j) /\ Released(b, o) = Replaced(b, c, j)
  BY <1>1, <1>2, <1>3, <1>4
<1>6. /\ IsMem(a) /\ IsMem(b) /\ a.free = b.free /\ a.hint = b.hint /\ a.fresh = b.fresh
      /\ a.dir = b.dir /\ a.clash = b.clash /\ a.met = b.met /\ a.reused = b.reused
      /\ a.again = b.again
  BY DEF ButFor
<1>7. PICK x, y : x = Replaced(a, c, j) /\ y = Replaced(b, c, j)
  OBVIOUS
<1>8. Alike(a, x) /\ x.free = a.free /\ x.info = j /\ x.cache = c
  BY ONLY <1>6, <1>7 DEF IsMem, Alike, Replaced
<1>9. Alike(b, y) /\ y.free = b.free /\ y.info = j /\ y.cache = c
  BY ONLY <1>6, <1>7 DEF IsMem, Alike, Replaced
<1>10. x = y
  BY ONLY <1>6, <1>8, <1>9 DEF IsMem, Alike
<1> QED BY <1>5, <1>7, <1>10

\* Released of an object whose inode has the number of its root, and is marked.
LEMMA GoodDropped ==
  ASSUME NEW m, NEW d, NEW s, NEW f, NEW o \in Owners, NEW x,
         x = NoObject \/ (x = o /\ o = Dir), Good(m, d, s, f, x, NoBlk), Opened(m, o),
         Stored(m, o), NEW r, r = Released(m, o)
  PROVE  /\ Good(r, d, s, f, NoObject, NoBlk) /\ ~Opened(r, o)
         /\ \A p \in Owners \ {o} : (Opened(r, p) <=> Opened(m, p)) /\ r.info[p] = m.info[p]
         /\ r.free = m.free /\ r.reused = m.reused
         /\ ~f => \A p \in Owners : Cont(r, d, p) = Cont(m, d, p)
<1>1. /\ IsMem(m) /\ IsCache(m.cache) /\ \A b \in Keys(m) : m.cache[b] \in Caches
      /\ m.info \in [Owners -> [inode : MaybeBlk, root : MaybeBlk, dirty : BOOLEAN]]
  BY DEF Good, Mem
<1>3. LetsGo(m, o, r)
  BY <1>1, ReleasedIs
<1>4. /\ Good(r, d, s, f, NoObject, NoBlk) /\ ~Opened(r, o)
      /\ \A p \in Owners \ {o} : Opened(r, p) <=> Opened(m, p)
      /\ ~f => \A p \in Owners : Cont(r, d, p) = Cont(m, d, p)
  BY <1>3, GoodReleased
<1>5. \A p \in Owners \ {o} : r.info[p] = m.info[p]
  BY <1>1, <1>3 DEF Told, LetsGo
<1> QED BY <1>3, <1>4, <1>5 DEF Alike, LetsGo

\* The root of $OBJID, with n for o.
EntrySet(m, o, n) == [OfRoot(m, Dir).entry EXCEPT ![o] = n]

\* What a call that closes o must find and leaves.
Closes(m, d, s, f, o, r) ==
  /\ Good(r, d, s, f, NoObject, NoBlk) /\ ~m.reused /\ ~Opened(r, o)
  /\ \A p \in Owners \ {o} : Opened(r, p) <=> Opened(m, p)
  /\ ~f => \A p \in Owners : Cont(r, d, p) = Cont(m, d, p)
  /\ o # Dir => r.info[Dir].dirty \/ (r.info[Dir] = m.info[Dir] /\ r.free = m.free)

\* The object has not changed, or its inode has the number of its root.
LEMMA GoodClosedInPlace ==
  ASSUME NEW m, NEW d, NEW s, NEW f, Good(m, d, s, f, NoObject, NoBlk), NEW o \in Owners,
         Opened(m, o), ~m.info[o].dirty \/ m.info[o].root = m.info[o].inode,
         NEW r, r = CloseObjectOf(m, o), ~r.reused
  PROVE  Closes(m, d, s, f, o, r)
<1>1. CASE ~m.info[o].dirty
  <2>1. r = Released(m, o)
    BY <1>1 DEF CloseObjectOf, Validated
  <2>2. Stored(m, o)
    BY <1>1 DEF Good, OpenOK, WellOpen, Stored
  <2>3. NoObject # o
    BY Basics
  <2>4. /\ Good(r, d, s, f, NoObject, NoBlk) /\ ~Opened(r, o)
        /\ \A p \in Owners \ {o} : (Opened(r, p) <=> Opened(m, p)) /\ r.info[p] = m.info[p]
        /\ r.free = m.free /\ r.reused = m.reused
        /\ ~f => \A p \in Owners : Cont(r, d, p) = Cont(m, d, p)
    BY <1>1, <2>1, <2>2, <2>3, GoodDropped
  <2> QED BY <2>4, Basics DEF Closes
<1>2. CASE m.info[o].dirty
  <2>1. PICK i, w : i = m.info[o].inode /\ w = [m.cache[i] EXCEPT !.state = "dirty"]
    OBVIOUS
  <2>2. PICK k : k = Changed(m, i, w)
    OBVIOUS
  <2>3. r = Released(k, o)
    BY <1>2, <2>1, <2>2 DEF CloseObjectOf, Validated, Changed
  <2>4. IsMem(m) /\ IsCache(m.cache) /\ i \in Keys(m) /\ m.cache[i] \in Caches
    <3>1. IsMem(m) /\ IsCache(m.cache)
      BY DEF Good, Mem
    <3> QED BY <2>1, <3>1, OpenFacts
  <2>5. w = [owner |-> m.cache[i].owner, state |-> "dirty", data |-> m.cache[i].data]
    BY <2>1, <2>4 DEF Caches
  <2>6. /\ Alike(m, k) /\ k.info = m.info /\ k.free = m.free
        /\ IsCache(k.cache) /\ Keys(k) = Keys(m)
        /\ k.cache[i] = w /\ \A z \in Keys(m) \ {i} : k.cache[z] = m.cache[z]
    BY <2>2, <2>4, ChangedIs
  <2>7. m.info[o].root = i
    BY <1>2, <2>1
  <2>8. Good(k, d, s, f, NoObject, NoBlk) /\ \A p \in Owners : Same(m, d, k, d, p)
    <3>1. Marks(m, k, i)
      BY <2>5, <2>6 DEF Marks
    <3>2. Good(m, d, s, f, NoObject, NoBlk) /\ Opened(m, o)
      OBVIOUS
    <3>3. m.info[o].dirty /\ i = m.info[o].inode /\ m.info[o].root = i
      BY ONLY <1>2, <2>1, <2>7
    <3> QED BY ONLY o \in Owners, <3>1, <3>2, <3>3, GoodMarked, Zenon
  <2>9. /\ Opened(k, o) /\ k.info[o].root = k.info[o].inode /\ k.cache[k.info[o].inode].state = "dirty"
        /\ k.info = m.info /\ k.free = m.free /\ k.reused = m.reused
    <3>1. k.reused = m.reused
      BY ONLY <2>6 DEF Alike
    <3>2. Opened(k, o)
      BY <2>8 DEF Same
    <3>3. w.state = "dirty"
      BY ONLY <2>5
    <3>4. k.info = m.info /\ k.free = m.free /\ k.cache[i] = w
      BY <2>6
    <3>5. i = m.info[o].inode /\ m.info[o].root = i
      BY <2>1, <2>7
    <3> QED BY ONLY <3>1, <3>2, <3>3, <3>4, <3>5
  <2>10. Stored(k, o)
    BY <2>9 DEF Stored
  <2>11. /\ Good(r, d, s, f, NoObject, NoBlk) /\ ~Opened(r, o)
         /\ \A p \in Owners \ {o} : (Opened(r, p) <=> Opened(k, p)) /\ r.info[p] = k.info[p]
         /\ r.free = k.free /\ r.reused = k.reused
         /\ ~f => \A p \in Owners : Cont(r, d, p) = Cont(k, d, p)
    BY <2>3, <2>8, <2>9, <2>10, GoodDropped
  <2> QED BY <2>8, <2>9, <2>11, Basics DEF Closes, Same
<1> QED BY <1>1, <1>2

\* The inode gets the number of the root, and what leads to it is told.
LEMMA GoodClosedMoved ==
  ASSUME NEW m, NEW d, NEW s, NEW f, Good(m, d, s, f, NoObject, NoBlk), NEW o \in Owners,
         Opened(m, o), m.info[o].dirty, m.info[o].root # m.info[o].inode,
         Opened(m, Dir), o # Dir => m.free # {} \/ m.info[Dir].dirty,
         NEW r, r = CloseObjectOf(m, o), ~r.reused
  PROVE  Closes(m, d, s, f, o, r)
<1>1. PICK i, n, w : /\ i = m.info[o].inode /\ n = m.info[o].root
                     /\ w = [m.cache[i] EXCEPT !.state = "dirty"]
  OBVIOUS
<1>2. PICK k, v : k = Changed(m, i, w) /\ v = Renumber(k, i, n)
  OBVIOUS
<1>3. PICK u : u = IF o = Dir THEN [v EXCEPT !.dir = n] ELSE v
  OBVIOUS
<1>4. IsMem(m) /\ IsCache(m.cache) /\ i \in Keys(m) /\ m.cache[i] \in Caches
  <2>1. IsMem(m) /\ IsCache(m.cache)
    BY DEF Good, Mem
  <2> QED BY <1>1, <2>1, OpenFacts
<1>5. w = [owner |-> m.cache[i].owner, state |-> "dirty", data |-> m.cache[i].data]
  BY <1>1, <1>4 DEF Caches
<1>6. /\ Alike(m, k) /\ k.info = m.info /\ k.free = m.free
      /\ IsCache(k.cache) /\ Keys(k) = Keys(m)
      /\ k.cache[i] = w /\ \A z \in Keys(m) \ {i} : k.cache[z] = m.cache[z]
  BY <1>2, <1>4, ChangedIs
<1>7. n \notin Keys(m) /\ n # i /\ n \in Blk /\ n \in MaybeBlk
  BY <1>1 DEF Good, OpenOK, WellOpen, MaybeBlk
<1>8. /\ Alike(k, v) /\ v.info = k.info /\ v.free = k.free
      /\ IsCache(v.cache) /\ Keys(v) = (Keys(k) \ {i}) \cup {n}
      /\ v.cache[n] = k.cache[i] /\ \A z \in Keys(k) \ {i} : v.cache[z] = k.cache[z]
  BY <1>2, <1>4, <1>6, <1>7, RenumberedIs DEF Alike
<1>9. /\ IsMem(u) /\ u.cache = v.cache /\ u.info = m.info /\ u.free = m.free /\ u.met = m.met
      /\ u.clash = m.clash /\ u.hint = m.hint /\ u.fresh = m.fresh /\ u.reused = m.reused
      /\ u.dir = IF o = Dir THEN n ELSE m.dir
  <2>1. IsMem(v)
    BY <1>8 DEF Alike
  <2>2. CASE o = Dir
    BY <1>3, <1>6, <1>8, <2>1, <2>2 DEF Alike, IsMem
  <2>3. CASE o # Dir
    BY <1>3, <1>6, <1>8, <2>1, <2>3 DEF Alike
  <2> QED BY <2>2, <2>3
<1>10. u.info = [p \in Owners |-> u.info[p]]
  BY <1>9 DEF Good, Mem
<1>11. PICK j, g : j = [inode |-> n, root |-> n, dirty |-> TRUE] /\ g = ChangedInfo(u, o, j)
  OBVIOUS
<1>12. /\ Alike(u, g) /\ g.cache = u.cache /\ g.free = u.free /\ g.info[o] = j
       /\ g.info = Told(m, o, j) /\ ButFor(u, g, o)
  <2>1. Told(u, o, j) = Told(m, o, j)
    BY <1>9 DEF Told
  <2> QED BY <1>9, <1>10, <1>11, <2>1, ChangedInfoIs
<1>13. /\ Good(g, d, s, f, o, NoBlk) /\ Opened(g, o)
       /\ \A p \in Owners : Cont(g, d, p) = Cont(m, d, p)
       /\ \A p \in Owners \ {o} : Same(m, d, g, d, p) /\ Entry(g, d, p) = Entry(m, d, p)
  <2>1. /\ IsMem(g) /\ g.met = m.met /\ g.clash = m.clash /\ g.hint = m.hint
        /\ g.fresh = m.fresh /\ g.free = m.free /\ g.dir = IF o = Dir THEN n ELSE m.dir
        /\ g.info = Told(m, o, [inode |-> n, root |-> n, dirty |-> TRUE])
    BY <1>9, <1>11, <1>12 DEF Alike
  <2>2. /\ IsCache(g.cache) /\ Keys(g) = (Keys(m) \ {i}) \cup {n}
        /\ \A z \in Keys(m) \ {i} : g.cache[z] = m.cache[z]
        /\ g.cache[n] = [owner |-> m.cache[i].owner, state |-> "dirty", data |-> m.cache[i].data]
    BY <1>5, <1>6, <1>8, <1>9, <1>12 DEF Keys
  <2>3. MovesTo(m, g, o, i, n)
    BY <2>1, <2>2 DEF MovesTo
  <2>4. i = m.info[o].inode /\ n = m.info[o].root /\ n # i
    BY <1>1, <1>7
  <2>5. Good(m, d, s, f, NoObject, NoBlk) /\ Opened(m, o) /\ m.info[o].dirty
    OBVIOUS
  <2> QED BY ONLY o \in Owners, <2>3, <2>4, <2>5, GoodRenumbered
<1>14. /\ g.info[o].inode = n /\ g.info[o].root = n /\ g.info[o].dirty = TRUE
       /\ g.cache[n].state = "dirty" /\ n \in Keys(g)
       /\ \A p \in Owners \ {o} : g.info[p] = m.info[p]
  <2>1. g.info[o].inode = n /\ g.info[o].root = n /\ g.info[o].dirty = TRUE
    BY <1>11, <1>12
  <2>2. g.cache[n].state = "dirty" /\ n \in Keys(g)
    BY <1>5, <1>6, <1>8, <1>9, <1>12 DEF Keys
  <2>3. \A p \in Owners \ {o} : g.info[p] = m.info[p]
    BY <1>9, <1>12 DEF ButFor
  <2> QED BY <2>1, <2>2, <2>3
<1>15. CASE o = Dir
  <2>1. r = Released(u, o)
    BY <1>1, <1>2, <1>3, <1>15 DEF CloseObjectOf, Validated, Changed
  <2>2. r = Released(g, o)
    BY <1>12, <2>1, ReleasedButFor
  <2>5. Stored(g, o)
    BY <1>14 DEF Stored
  <2>3. /\ Good(r, d, s, f, NoObject, NoBlk) /\ ~Opened(r, o)
        /\ \A p \in Owners \ {o} : (Opened(r, p) <=> Opened(g, p)) /\ r.info[p] = g.info[p]
        /\ r.free = g.free /\ r.reused = g.reused
        /\ ~f => \A p \in Owners : Cont(r, d, p) = Cont(g, d, p)
    BY <1>13, <1>15, <2>2, <2>5, GoodDropped
  <2>4. ~m.reused
    BY <1>9, <1>12, <2>3 DEF Alike
  <2> QED BY <1>13, <1>15, <2>3, <2>4 DEF Closes, Same
<1>16. CASE o # Dir
  <2>1. PICK e : e = EntrySet(u, o, n)
    OBVIOUS
  <2>2. PICK t, q : t = SetRoot(u, Dir, DirInode(e)) /\ q = SetRoot(g, Dir, DirInode(e))
    OBVIOUS
  <2>3. r = Released(t, o)
    <3>1. v = Renumber([m EXCEPT !.cache[i].state = "dirty"], i, n) /\ u = v
      BY <1>1, <1>2, <1>3, <1>16 DEF Changed
    <3>2. Validated(m, o) = SetRoot(v, Dir, DirInode([OfRoot(v, Dir).entry EXCEPT ![o] = n]))
      BY <1>1, <1>16, <3>1 DEF Validated
    <3>3. Validated(m, o) = t
      BY <2>1, <2>2, <3>1, <3>2 DEF EntrySet
    <3> QED BY <3>3 DEF CloseObjectOf
  <2>4. ButFor(t, q, o) /\ q.info[o] = g.info[o]
    BY <1>12, <1>16, <2>2, SetRootButFor, Basics
  <2>5. r = Released(q, o)
    BY <2>3, <2>4, ReleasedButFor
  <2>6. r.reused = q.reused
    <3>1. IsMem(q) /\ r = Replaced(q, Kept(q, o), Told(q, o, Closed))
      BY <2>4, <2>5, ReleasedKept DEF ButFor
    <3> QED BY <3>1 DEF Replaced, IsMem
  <2>7. o \in Objects /\ Opened(g, Dir) /\ (g.free # {} \/ g.info[Dir].dirty) /\ g.free = m.free
    BY <1>9, <1>12, <1>13, <1>14, <1>16, Basics DEF Same
  <2>8. OfRoot(u, Dir) = OfRoot(g, Dir) /\ IsDir(OfRoot(g, Dir))
    BY <1>12, <1>13, <1>16, <2>7, Basics DEF OfRoot, ButFor, Good, OpenOK, WellOpen
  <2>9. /\ e \in [Objects -> MaybeBlk] /\ e[o] = g.info[o].inode
        /\ \A p \in Objects \ {o} : e[p] = OfRoot(g, Dir).entry[p]
    BY <1>7, <1>14, <2>1, <2>7, <2>8 DEF IsDir, EntrySet
  <2>10. /\ Good(q, d, s, f, NoObject, NoBlk) /\ ~g.reused
         /\ \A p \in Owners : (Opened(q, p) <=> Opened(g, p)) /\ Cont(q, d, p) = Cont(g, d, p)
         /\ q.info[Dir].dirty
         /\ \A z \in Keys(g) \ {g.dir} : z \in Keys(q) /\ q.cache[z] = g.cache[z]
    BY <1>13, <2>2, <2>6, <2>7, <2>9, GoodTold
  <2>11. n # g.dir
    BY <1>1, <1>9, <1>12, <1>16, Places, Basics DEF Good, Apart, Alike
  <2>12. Opened(q, o) /\ Stored(q, o)
    BY <1>13, <1>14, <2>4, <2>10, <2>11, Basics DEF Stored
  <2>13. /\ Good(r, d, s, f, NoObject, NoBlk) /\ ~Opened(r, o)
         /\ \A p \in Owners \ {o} : (Opened(r, p) <=> Opened(q, p)) /\ r.info[p] = q.info[p]
         /\ ~f => \A p \in Owners : Cont(r, d, p) = Cont(q, d, p)
    BY <2>5, <2>10, <2>12, GoodDropped
  <2>14. ~m.reused
    BY <1>9, <1>12, <2>10 DEF Alike
  <2> QED BY <1>13, <1>16, <2>10, <2>13, <2>14, Basics DEF Closes, Same
<1> QED BY <1>15, <1>16

-----------------------------------------------------------------------------
(* Calls that take blocks.                                                 *)

\* A call that finds two blocks still finds one when it has taken one.
LEMMA RoomLeft ==
  ASSUME NEW T, NEW b
  PROVE  /\ Cardinality(T) >= 1 => T # {}
         /\ Cardinality(T) >= 2 => T \ {b} # {}
<1>1. Cardinality({}) = 0 /\ Cardinality({b}) = 1
  BY FS_EmptySet, FS_Singleton
<1>2. T \ {b} = {} => T = {} \/ T = {b}
  OBVIOUS
<1> QED BY <1>1, <1>2

\* A block given a second time is not forgotten.
LEMMA ReusedStays ==
  ASSUME NEW m, IsMem(m), NEW o, NEW x, NEW r, r = SetRoot(m, o, x), ~r.reused
  PROVE  ~m.reused
<1>1. PICK k, i : k = MoveRoot(m, o) /\ i = m.info[o].inode
  OBVIOUS
<1>2. CASE m.info[o].dirty
  <2>1. r = [m EXCEPT !.cache[i].data = x]
    BY <1>1, <1>2 DEF SetRoot, MoveRoot
  <2>2. PICK c : c = [m.cache EXCEPT ![i].data = x]
    BY Zenon
  <2>3. r = [m EXCEPT !.cache = c]
    BY <2>1, <2>2 DEF IsMem
  <2> QED BY <2>3 DEF IsMem
<1>3. CASE ~m.info[o].dirty
  <2>1. PICK n, t : n = Fresh(m) /\ t = Taken(m)
    OBVIOUS
  <2>2. IsMem(t) /\ t.reused = (m.reused \/ n \in m.free \ m.fresh)
    <3>1. t = [cache |-> m.cache, info |-> m.info, free |-> m.free \ {n}, hint |-> n + 1,
               fresh |-> m.fresh \ {n}, dir |-> m.dir, clash |-> m.clash, met |-> m.met,
               again |-> m.again, reused |-> m.reused \/ n \in m.free \ m.fresh]
      BY <2>1 DEF Taken, IsMem
    <3> QED BY <3>1 DEF IsMem
  <2>3. PICK j : j = [t.info EXCEPT ![o] = [@ EXCEPT !.root = n, !.dirty = TRUE]]
    BY Zenon
  <2>4. PICK u : u = [t EXCEPT !.info = j]
    OBVIOUS
  <2>5. IsMem(u) /\ u.reused = t.reused
    BY <2>2, <2>4 DEF IsMem
  <2>6. k = Freed(u, m.info[o].root)
    BY <1>1, <1>3, <2>1, <2>2, <2>3, <2>4 DEF MoveRoot, IsMem
  <2>7. Alike(u, k)
    BY <2>5, <2>6, FreedIs
  <2>8. PICK c : c = [k.cache EXCEPT ![i].data = x]
    BY Zenon
  <2>9. r = [k EXCEPT !.cache = c]
    BY <1>1, <2>7, <2>8 DEF SetRoot, IsMem, Alike
  <2>10. r.reused = k.reused
    BY <2>7, <2>9 DEF IsMem, Alike
  <2> QED BY <2>2, <2>5, <2>7, <2>10 DEF Alike
<1> QED BY <1>2, <1>3

\* What a change of object o leaves of the others.
Keeps(m, d, r, o) ==
  /\ \A p \in Owners : Opened(m, p) => Opened(r, p)
  /\ \A p \in Owners \ {o} : Cont(r, d, p) = Cont(m, d, p)

\* CreateObject: the inode, then what $OBJID says.
Created(m, o, b, c) ==
  [AddCache(Taken(m), b, c) EXCEPT !.info[o] = [inode |-> b, root |-> b, dirty |-> TRUE],
                                   !.met = @ \cup {o}]

\* A new object is a cache, a record and an object that was met; all else is as when the block was taken.
LEMMA CreatedIs ==
  ASSUME NEW m, Mem(m), m.free # {}, NEW b, b = Fresh(m), b \notin Keys(m), NEW c, NEW o \in Objects,
         NEW t, t = Taken(m), NEW u, u = Created(m, o, b, c)
  PROVE  /\ IsMem(u) /\ u.dir = t.dir /\ u.clash = t.clash /\ u.hint = t.hint
         /\ u.fresh = t.fresh /\ u.free = t.free /\ u.met = t.met \cup {o}
         /\ u.info = Told(t, o, [inode |-> b, root |-> b, dirty |-> TRUE])
         /\ u.cache = [z \in Keys(t) \cup {b} |-> IF z = b THEN c ELSE t.cache[z]]
         /\ u.reused = t.reused
<1>1. IsMem(t) /\ Keys(t) = Keys(m)
  BY TakenIs DEF Keys
<1>2. PICK v : v = AddCache(t, b, c)
  OBVIOUS
<1>3. /\ Alike(t, v) /\ v.info = t.info /\ v.free = t.free
      /\ v.cache = [z \in Keys(t) \cup {b} |-> IF z = b THEN c ELSE t.cache[z]]
  BY <1>1, <1>2, AddCacheIs
<1>4. PICK j : j = Told(t, o, [inode |-> b, root |-> b, dirty |-> TRUE])
  OBVIOUS
<1>5. u = [v EXCEPT !.info = j, !.met = v.met \cup {o}]
  <2>1. u = [v EXCEPT !.info[o] = [inode |-> b, root |-> b, dirty |-> TRUE], !.met = @ \cup {o}]
    BY <1>2 DEF Created
  <2> QED BY <1>3, <1>4, <2>1 DEF Told, IsMem, Alike
<1> QED BY <1>3, <1>4, <1>5 DEF IsMem, Alike

\* A cache for a block changes nothing of which blocks were given again.
LEMMA AddCacheReused ==
  ASSUME NEW m, IsMem(m), NEW b, NEW c, NEW r, r = AddCache(m, b, c)
  PROVE  IsMem(r) /\ r.reused = m.reused /\ r.info = m.info /\ r.dir = m.dir
<1>1. CASE b \in Keys(m)
  <2>1. r = [m EXCEPT !.clash = TRUE]
    BY <1>1 DEF AddCache, Keys
  <2> QED BY <2>1 DEF IsMem
<1>2. CASE b \notin Keys(m)
  <2>1. /\ Alike(m, r) /\ r.info = m.info /\ r.free = m.free
        /\ r.cache = [x \in Keys(m) \cup {b} |-> IF x = b THEN c ELSE m.cache[x]]
    BY <1>2, AddCacheIs
  <2> QED BY <2>1 DEF Alike
<1> QED BY <1>1, <1>2

\* create_object: an inode in a block of its own, and its number in $OBJID; no other object changes.
LEMMA GoodNewObject ==
  ASSUME NEW m, NEW d, NEW s, NEW f, Whole(m, d, s, f), Opened(m, Dir),
         NEW o \in Objects, ~Opened(m, o), OfRoot(m, Dir).entry[o] = NoBlk, Cardinality(m.free) >= 2,
         NEW b, b = Fresh(m), NEW u, u = Created(m, o, b, Cache(o, "dirty", Inode(0, NoBlk))),
         NEW r, r = SetRoot(u, Dir, DirInode(EntrySet(u, o, b))), ~r.reused
  PROVE  /\ Whole(r, d, s, f) /\ Keeps(m, d, r, o) /\ Cont(r, d, o) = 0
<1>1. /\ m.free # {} /\ Mem(m) /\ Good(m, d, s, f, NoObject, NoBlk) /\ m.free \ {b} # {}
      /\ b \in m.free
  <2>1. m.free # {} /\ m.free \ {b} # {}
    BY RoomLeft
  <2> QED BY <2>1, FreshIsFree DEF Whole, Good, Mem
<1>2. PICK t, c : t = Taken(m) /\ c = Cache(o, "dirty", Inode(0, NoBlk))
  OBVIOUS
<1>3. /\ IsMem(t) /\ t.cache = m.cache /\ t.info = m.info /\ t.dir = m.dir
      /\ t.free = m.free \ {b} /\ b \in Blk
  BY <1>1, <1>2, TakenIs
<1>4. IsMem(u) /\ u.reused = t.reused
  <2>1. PICK v : v = AddCache(t, b, c)
    OBVIOUS
  <2>2. IsMem(v) /\ v.reused = t.reused
    BY <1>3, <2>1, AddCacheReused
  <2>3. PICK j : j = [v.info EXCEPT ![o] = [inode |-> b, root |-> b, dirty |-> TRUE]]
    OBVIOUS
  <2>4. u = [v EXCEPT !.info = j, !.met = v.met \cup {o}]
    <3>1. u = [v EXCEPT !.info[o] = [inode |-> b, root |-> b, dirty |-> TRUE], !.met = @ \cup {o}]
      BY <1>2, <2>1 DEF Created
    <3> QED BY <2>2, <2>3, <3>1 DEF IsMem
  <2> QED BY <2>2, <2>4 DEF IsMem
<1>5. ~t.reused
  BY <1>4, ReusedStays
<1>6. /\ Good(t, d, s, f, NoObject, NoBlk) /\ Spare(t, d, s, b)
      /\ \A p \in Owners : Same(m, d, t, d, p)
  BY <1>1, <1>2, <1>5, GoodTaken
<1>7. b \notin Keys(m)
  BY <1>3, <1>6 DEF Spare, Keys
<1>8. /\ IsMem(u) /\ u.dir = t.dir /\ u.clash = t.clash /\ u.hint = t.hint
      /\ u.fresh = t.fresh /\ u.free = t.free /\ u.met = t.met \cup {o}
      /\ u.info = Told(t, o, [inode |-> b, root |-> b, dirty |-> TRUE])
      /\ u.cache = [z \in Keys(t) \cup {b} |-> IF z = b THEN c ELSE t.cache[z]]
  <2>1. Mem(m) /\ m.free # {} /\ b = Fresh(m) /\ t = Taken(m) /\ u = Created(m, o, b, c)
    BY <1>1, <1>2
  <2> QED BY ONLY o \in Objects, <1>7, <2>1, CreatedIs
<1>9. Opened(t, Dir) /\ ~Opened(t, o) /\ o \in Owners /\ o # Dir /\ Dir \in Owners
  BY <1>6, Basics DEF Same
<1>10. Entry(m, d, o) = NoBlk /\ Ino(t, d, o) = NoBlk
  <2>1. m.dir \in Keys(m) /\ m.info[Dir].inode = m.dir /\ IsDir(m.cache[m.dir].data)
    BY <1>1, <1>9, Places DEF Good, OpenOK, WellOpen
  <2>2. Entry(m, d, o) = OfRoot(m, Dir).entry[o]
    BY <1>9, <2>1 DEF Entry, At, OfRoot, IsDir
  <2>3. Ino(m, d, o) = NoBlk
    BY <2>2 DEF Ino
  <2> QED BY <1>6, <1>9, <2>2, <2>3 DEF Same
<1>11. /\ Good(u, d, s, f, o, NoBlk)
       /\ \A p \in Owners \ {o} : Same(t, d, u, d, p)
       /\ Opened(u, o) /\ Ino(u, d, o) = b /\ Rt(u, d, o) = b /\ Ch(u, d, o) = NoBlk
       /\ Cont(u, d, o) = 0
  BY <1>2, <1>6, <1>8, <1>9, <1>10, GoodCreated
<1>12. Opened(u, Dir) /\ u.free # {} /\ u.info[o].inode = b
  BY <1>1, <1>3, <1>8, <1>9, <1>11 DEF Same, Ino
<1>13. PICK e : e = EntrySet(u, o, b)
  OBVIOUS
<1>14. /\ e \in [Objects -> MaybeBlk] /\ e[o] = u.info[o].inode
       /\ \A p \in Objects \ {o} : e[p] = OfRoot(u, Dir).entry[p]
  <2>1. IsDir(OfRoot(u, Dir))
    BY <1>9, <1>11, <1>12, OpenFacts DEF WellOpen, OfRoot
  <2>2. b \in MaybeBlk
    BY <1>3 DEF MaybeBlk
  <2> QED BY <1>12, <1>13, <2>1, <2>2 DEF IsDir, EntrySet
<1>15. /\ Good(r, d, s, f, NoObject, NoBlk)
       /\ \A p \in Owners : (Opened(r, p) <=> Opened(u, p)) /\ Cont(r, d, p) = Cont(u, d, p)
  BY <1>11, <1>12, <1>13, <1>14, GoodTold
<1> QED BY <1>6, <1>9, <1>11, <1>15 DEF Whole, Keeps, Same

-----------------------------------------------------------------------------
(* Calls that read.                                                        *)

\* Memory v, where the objects met have been opened so far, some of them again or none.
Marked(v, met, a) == [v EXCEPT !.met = met, !.again = a]

\* An object that was not met since the container was opened is read from disk.
LEMMA GoodObjectOpened ==
  ASSUME NEW m, NEW s, NEW f, Whole(m, disk, s, f), disk \in [Blk -> Datum],
         NEW o \in Owners, ~Opened(m, o), o # Dir => Opened(m, Dir) /\ o \notin m.met,
         o = Dir => m.dir = s.dir /\ Keys(m) = {},
         NEW b, b = Ino(m, disk, o), b # NoBlk, Readable(b, "inode"),
         NEW v, v = OpenObjectOf(m, o, b), NEW met, met = v.met \cup ({o} \ {Dir}),
         NEW a, NEW r, r = Marked(v, met, a)
  PROVE  /\ Whole(r, disk, s, f) /\ Opened(r, o) /\ r.reused = m.reused
         /\ \A p \in Owners : Opened(m, p) => Opened(r, p)
         /\ \A p \in Owners : Cont(r, disk, p) = Cont(m, disk, p)
<1>1. Good(m, disk, s, f, NoObject, NoBlk) /\ IsMem(m) /\ Use(m, disk, o) \subseteq Blk
  BY Places DEF Whole, Good, Mem
<1>2. b \in Blk /\ disk[b] \in Datum /\ disk[b].kind = "inode"
  BY <1>1 DEF Use, Readable
<1>3. b \notin Keys(m) /\ Ch(m, disk, o) \notin Keys(m)
  <2>1. CASE o = Dir
    BY <2>1
  <2>2. CASE o # Dir
    <3>1. Use(m, disk, o) \cap Keys(m) = {}
      BY <1>1, <2>2, Basics DEF Good, Owned
    <3>2. NoBlk \notin Keys(m)
      BY <1>1, Basics DEF Good, Mem
    <3> QED BY <3>1, <3>2 DEF Use
  <2> QED BY <2>1, <2>2
<1>4. PICK c, u, j : /\ c = Cache(o, "clean", disk[b]) /\ u = AddCache(m, b, c)
                     /\ j = Told(m, o, [inode |-> b, root |-> b, dirty |-> FALSE])
  OBVIOUS
<1>5. /\ Alike(m, u) /\ u.info = m.info /\ u.free = m.free
      /\ u.cache = [z \in Keys(m) \cup {b} |-> IF z = b THEN c ELSE m.cache[z]]
  <2>1. IsMem(m) /\ b \notin Keys(m) /\ u = AddCache(m, b, c)
    BY <1>1, <1>3, <1>4
  <2> QED BY ONLY <2>1, AddCacheIs
<1>6. r = [u EXCEPT !.info = j, !.met = m.met \cup ({o} \ {Dir}), !.again = a]
  <2>1. v = [u EXCEPT !.info[o] = [inode |-> b, root |-> b, dirty |-> FALSE]]
    BY <1>4 DEF OpenObjectOf
  <2>2. v = [u EXCEPT !.info = j]
    BY <1>4, <1>5, <2>1 DEF IsMem, Alike, Told
  <2> QED BY <1>5, <2>2 DEF IsMem, Alike, Marked
<1>7. /\ IsMem(r) /\ r.dir = m.dir /\ r.clash = m.clash /\ r.hint = m.hint
      /\ r.fresh = m.fresh /\ r.free = m.free /\ r.met = m.met \cup ({o} \ {Dir})
      /\ r.info = Told(m, o, [inode |-> b, root |-> b, dirty |-> FALSE])
      /\ r.cache = [z \in Keys(m) \cup {b} |-> IF z = b THEN c ELSE m.cache[z]]
      /\ r.reused = m.reused
  <2>1. r = [cache |-> u.cache, info |-> j, free |-> u.free, hint |-> u.hint, fresh |-> u.fresh,
             dir |-> u.dir, clash |-> u.clash, met |-> m.met \cup ({o} \ {Dir}),
             again |-> a, reused |-> u.reused]
    BY ONLY <1>5, <1>6 DEF IsMem, Alike
  <2>2. IsMem(r)
    BY ONLY <2>1 DEF IsMem
  <2>3. j = Told(m, o, [inode |-> b, root |-> b, dirty |-> FALSE])
    BY <1>4
  <2> QED BY ONLY <1>5, <2>1, <2>2, <2>3 DEF Alike
<1>8. /\ Good(r, disk, s, f, NoObject, NoBlk) /\ Opened(r, o)
      /\ \A p \in Owners : Cont(r, disk, p) = Cont(m, disk, p)
      /\ \A p \in Owners \ {o} : Opened(r, p) <=> Opened(m, p)
  <2>1. /\ b = Ino(m, disk, o) /\ b # NoBlk /\ ~Opened(m, o) /\ (o = Dir => m.dir = s.dir)
        /\ o \in Owners /\ c = Cache(o, "clean", disk[b])
    BY <1>4
  <2> QED BY ONLY <1>1, <1>2, <1>3, <1>7, <2>1, GoodOpened
<1> QED BY <1>7, <1>8 DEF Whole

\* The root of an open object, and the node below.
LEMMA RootOf ==
  ASSUME NEW m, NEW d, NEW s, NEW f, Whole(m, d, s, f), NEW o \in Objects, Opened(m, o)
  PROVE  /\ IsInode(OfRoot(m, o)) /\ NodeOf(m, o) = Ch(m, d, o) /\ OfRoot(m, o) = At(m, d, Ino(m, d, o))
         /\ m.info[o].inode \in Keys(m) /\ Ino(m, d, o) = m.info[o].inode /\ Ino(m, d, o) # NoBlk
         /\ Ch(m, d, o) # NoBlk => Ch(m, d, o) \in Use(m, d, o)
         /\ Ch(m, d, o) \in MaybeBlk
<1>1. Good(m, d, s, f, NoObject, NoBlk) /\ o \in Owners /\ o # Dir
  BY Basics DEF Whole
<1>2. /\ Ino(m, d, o) = m.info[o].inode /\ Ino(m, d, o) \in Keys(m) /\ Ino(m, d, o) \in Blk
  BY <1>1, Places
<1>3. IsInode(OfRoot(m, o)) /\ OfRoot(m, o) = At(m, d, Ino(m, d, o))
  BY <1>1, <1>2 DEF Good, OpenOK, WellOpen, OfRoot, At
<1>4. Ino(m, d, o) # NoBlk
  BY <1>2, Basics
<1>5. Ch(m, d, o) = OfRoot(m, o).child
  BY <1>1, <1>3, <1>4 DEF Ch, Below, IsInode
<1> QED BY <1>2, <1>3, <1>4, <1>5 DEF NodeOf, Use, IsInode

\* A node that cannot be read is an empty one, and the disk has failed.
LEMMA GoodNodeRead ==
  ASSUME NEW m, NEW s, NEW f \in BOOLEAN, Whole(m, disk, s, f), disk \in [Blk -> Datum],
         NEW o \in Objects, Opened(m, o), NEW b, b = NodeOf(m, o), b # NoBlk,
         b \in Keys(m) => m.cache[b].owner # o,
         NEW well \in BOOLEAN, well => Readable(b, "index"),
         NEW r, r = AddCache(m, b, IF well THEN Cache(o, "clean", disk[b]) ELSE Cache(o, "empty", Bad))
  PROVE  /\ Whole(r, disk, s, f \/ ~well) /\ r.reused = m.reused
         /\ \A p \in Owners : Opened(m, p) => Opened(r, p)
         /\ well => \A p \in Owners : Cont(r, disk, p) = Cont(m, disk, p)
<1>1. Good(m, disk, s, f, NoObject, NoBlk) /\ IsMem(m) /\ o \in Owners
  BY Basics DEF Whole, Good, Mem
<1>2. b = Ch(m, disk, o) /\ b \in Use(m, disk, o) /\ b \in Blk
  BY RootOf, Basics DEF MaybeBlk
<1>3. b \notin Keys(m)
  BY <1>1, <1>2 DEF Good, Owned
<1>4. PICK c : c = IF well THEN Cache(o, "clean", disk[b]) ELSE Cache(o, "empty", Bad)
  OBVIOUS
<1>5. /\ Alike(m, r) /\ r.info = m.info /\ r.free = m.free
      /\ r.cache = [z \in Keys(m) \cup {b} |-> IF z = b THEN c ELSE m.cache[z]]
  BY <1>1, <1>3, <1>4, AddCacheIs
<1>6. IsNode(disk[b]) \/ disk[b] = Bad
  BY <1>1, <1>2, <1>3 DEF Good, Kinds, At
<1>7. disk[b] \in Datum /\ Bad \in Datum
  BY <1>2 DEF Datum
<1>8. c \in Caches /\ c.owner = o /\ c.state # "dirty"
  BY <1>1, <1>4, <1>7 DEF Cache, Caches
<1>9. (IsNode(disk[b]) /\ c.data = disk[b]) \/ (c.data = Bad /\ (f \/ ~well))
  BY <1>4, <1>6 DEF Cache, Readable, Bad
<1>10. PICK g \in BOOLEAN : (g <=> f \/ ~well) /\ g = (f \/ ~well)
  OBVIOUS
<1>11. /\ Good(r, disk, s, g, NoObject, NoBlk)
       /\ \A p \in Owners \ {o} : Same(m, disk, r, disk, p)
       /\ c.data = disk[b] => Same(m, disk, r, disk, o)
  <2>1. /\ b # NoBlk /\ b = Ch(m, disk, o) /\ o \in Objects /\ Opened(m, o) /\ f \in BOOLEAN
        /\ g \in BOOLEAN /\ (f => g)
        /\ (IsNode(disk[b]) /\ c.data = disk[b]) \/ (c.data = Bad /\ g)
    BY <1>2, <1>9, <1>10
  <2> QED BY ONLY <1>1, <1>3, <1>5, <1>8, <2>1, GoodRead
<1>12. well => c.data = disk[b]
  BY <1>4 DEF Cache
<1>13. \A p \in Owners : Opened(m, p) => Opened(r, p)
  BY <1>5 DEF Opened
<1> QED BY <1>5, <1>10, <1>11, <1>12, <1>13 DEF Whole, Alike, Same

-----------------------------------------------------------------------------
(* Calls that change a tree.                                               *)

\* What SetNode does to a node that has not changed yet: it gets block n, b becomes free.
NodeSet(c, v) == [c EXCEPT !.state = "dirty", !.data = Node(v)]
NodeMoved(t, b, n, v) ==
  LET p == Renumber(t, b, n) IN Freed(Changed(p, n, NodeSet(p.cache[n], v)), b)

\* A node that moves: its cache gets the new number and the new contents, its old block is free.
LEMMA NodeMovedIs ==
  ASSUME NEW t, IsMem(t), IsCache(t.cache), NEW b \in Keys(t), t.cache[b] \in Caches, NEW n, NEW v,
         NEW u, u = NodeMoved(t, b, n, v)
  PROVE  /\ IsMem(u) /\ u.reused = t.reused
         /\ n \notin Keys(t) =>
              /\ Alike(t, u) /\ u.info = t.info /\ u.free = t.free \cup {b}
              /\ IsCache(u.cache) /\ Keys(u) = (Keys(t) \ {b}) \cup {n}
              /\ u.cache[n] = [owner |-> t.cache[b].owner, state |-> "dirty", data |-> Node(v)]
              /\ \A z \in Keys(t) \ {b} : u.cache[z] = t.cache[z]
<1>5. PICK p, w, q : /\ p = Renumber(t, b, n) /\ w = NodeSet(p.cache[n], v)
                     /\ q = Changed(p, n, w) /\ u = Freed(q, b)
  BY DEF NodeMoved
<1>1. IsMem(p) /\ p.reused = t.reused
  <2>1. PICK k, c : k = RemoveCache(t, b) /\ c = t.cache[b]
    OBVIOUS
  <2>2. IsMem(k) /\ k.reused = t.reused
    <3>1. Alike(t, k) /\ k.info = t.info /\ k.free = t.free /\ k.cache = [x \in Keys(t) \ {b} |-> t.cache[x]]
      BY <2>1, RemoveCacheIs
    <3> QED BY <3>1 DEF Alike
  <2>3. p = AddCache(k, n, c)
    BY <1>5, <2>1 DEF Renumber
  <2> QED BY <2>2, <2>3, AddCacheReused
<1>2. IsMem(q) /\ q.reused = p.reused
  <2>1. PICK c : c = [p.cache EXCEPT ![n] = w]
    OBVIOUS
  <2>2. q = [p EXCEPT !.cache = c]
    BY <1>1, <1>5, <2>1 DEF Changed, IsMem
  <2> QED BY <1>1, <2>2 DEF IsMem
<1>3. Alike(q, u) /\ u.info = q.info /\ u.cache = q.cache /\ u.free = q.free \cup {b}
  BY <1>2, <1>5, FreedIs
<1>4. ASSUME n \notin Keys(t)
      PROVE  /\ Alike(t, u) /\ u.info = t.info /\ u.free = t.free \cup {b}
             /\ IsCache(u.cache) /\ Keys(u) = (Keys(t) \ {b}) \cup {n}
             /\ u.cache[n] = [owner |-> t.cache[b].owner, state |-> "dirty", data |-> Node(v)]
             /\ \A z \in Keys(t) \ {b} : u.cache[z] = t.cache[z]
  <2>1. /\ Alike(t, p) /\ p.info = t.info /\ p.free = t.free
        /\ IsCache(p.cache) /\ Keys(p) = (Keys(t) \ {b}) \cup {n}
        /\ p.cache[n] = t.cache[b] /\ \A z \in Keys(t) \ {b} : p.cache[z] = t.cache[z]
    BY <1>4, <1>5, RenumberedIs
  <2>2. w = [owner |-> t.cache[b].owner, state |-> "dirty", data |-> Node(v)]
    BY <1>5, <2>1 DEF Caches, NodeSet
  <2>3. n \in Keys(p)
    BY <2>1
  <2>4. /\ Alike(p, q) /\ q.info = p.info /\ q.free = p.free
        /\ IsCache(q.cache) /\ Keys(q) = Keys(p)
        /\ q.cache[n] = w /\ \A z \in Keys(p) \ {n} : q.cache[z] = p.cache[z]
    BY <1>1, <1>5, <2>1, <2>3, ChangedIs
  <2>5. \A z \in Keys(t) \ {b} : z \in Keys(p) \ {n}
    BY <1>4, <2>1
  <2>6. Alike(t, u) /\ u.info = t.info /\ u.free = t.free \cup {b}
    BY <1>3, <2>1, <2>4 DEF Alike
  <2>7. IsCache(u.cache) /\ Keys(u) = (Keys(t) \ {b}) \cup {n}
    BY <1>3, <2>1, <2>4 DEF Keys
  <2>8. \A z \in Keys(t) \ {b} : u.cache[z] = t.cache[z]
    BY <1>3, <2>1, <2>4, <2>5
  <2> QED BY <1>3, <2>2, <2>4, <2>6, <2>7, <2>8
<1> QED BY <1>1, <1>2, <1>3, <1>4 DEF Alike

\* An object that has no node gets other contents.
LEMMA GoodRootChanged ==
  ASSUME NEW m, NEW d, NEW s, NEW f, Whole(m, d, s, f), NEW o \in Objects, Opened(m, o),
         m.free # {}, NodeOf(m, o) = NoBlk, NEW v \in Values,
         NEW r, r = SetRoot(m, o, Inode(v, NoBlk)), ~r.reused
  PROVE  Whole(r, d, s, f) /\ Keeps(m, d, r, o) /\ Cont(r, d, o) = v
<1>1. Good(m, d, s, f, NoObject, NoBlk) /\ NoBlk \in MaybeBlk
  BY DEF Whole, MaybeBlk
<1>2. PICK c : c = NoBlk
  OBVIOUS
<1>3. /\ Good(r, d, s, f, NoObject, NoBlk)
      /\ \A p \in Owners : Opened(r, p) <=> Opened(m, p)
      /\ \A p \in Owners \ {o} : Cont(r, d, p) = Cont(m, d, p)
      /\ Cont(r, d, o) = IF c = NoBlk THEN v
                         ELSE IF At(m, d, c).kind = "index" THEN At(m, d, c).val ELSE Unreadable
  BY <1>1, <1>2, GoodSetRoot
<1> QED BY <1>2, <1>3 DEF Whole, Keeps

\* A node that was to be written anyway is changed.
LEMMA GoodDirtyNode ==
  ASSUME NEW m, NEW d, NEW s, NEW f, Whole(m, d, s, f), NEW o \in Objects, Opened(m, o),
         NEW b, b = NodeOf(m, o), b \in Keys(m), m.cache[b].state = "dirty",
         NEW v \in Values, NEW r, r = SetNode(m, o, v)
  PROVE  Whole(r, d, s, f) /\ Keeps(m, d, r, o) /\ Cont(r, d, o) = v
<1>1. /\ Good(m, d, s, f, NoObject, NoBlk) /\ IsMem(m) /\ IsCache(m.cache) /\ m.cache[b] \in Caches
      /\ Keys(m) \subseteq Blk
  BY DEF Whole, Good, Mem
<1>2. b = Ch(m, d, o) /\ b # NoBlk
  BY <1>1, RootOf, Basics
<1>3. PICK w : w = [m.cache[b] EXCEPT !.state = "dirty", !.data = Node(v)]
  BY Zenon
<1>4. r = Changed(m, b, w)
  BY <1>3 DEF SetNode, Changed
<1>5. w = [owner |-> m.cache[b].owner, state |-> "dirty", data |-> Node(v)]
  BY <1>1, <1>3 DEF Caches
<1>6. /\ Alike(m, r) /\ r.info = m.info /\ r.free = m.free
      /\ IsCache(r.cache) /\ Keys(r) = Keys(m)
      /\ r.cache[b] = w /\ \A z \in Keys(m) \ {b} : r.cache[z] = m.cache[z]
  BY <1>1, <1>4, ChangedIs
<1>7. /\ Good(r, d, s, f, NoObject, NoBlk)
      /\ \A p \in Owners \ {o} : Same(m, d, r, d, p)
      /\ Cont(r, d, o) = v
  BY <1>1, <1>2, <1>5, <1>6, GoodNodeSet
<1>8. \A p \in Owners : Opened(m, p) => Opened(r, p)
  BY <1>6 DEF Opened
<1> QED BY <1>7, <1>8 DEF Whole, Keeps, Same

\* A node is changed the first time: its cache gets a block that is free, its old block
\* becomes free, and the root says where it is.
LEMMA GoodMovedNode ==
  ASSUME NEW m, NEW d, NEW s, NEW f, Whole(m, d, s, f), NEW o \in Objects, Opened(m, o),
         m.free # {}, NEW b, b = NodeOf(m, o), b \in Keys(m), m.cache[b].state # "dirty",
         NEW v \in Values, NEW r, r = SetNode(m, o, v), ~r.reused
  PROVE  Whole(r, d, s, f) /\ Keeps(m, d, r, o) /\ Cont(r, d, o) = v
<1>1. /\ Good(m, d, s, f, NoObject, NoBlk) /\ Mem(m) /\ IsCache(m.cache)
      /\ m.cache[b] \in Caches /\ Keys(m) \subseteq Blk /\ o \in Owners
  BY Basics DEF Whole, Good, Mem
<1>2. b = Ch(m, d, o) /\ b # NoBlk /\ b \in Use(m, d, o) /\ m.cache[b].owner = o
  <2>1. b = Ch(m, d, o) /\ b # NoBlk /\ b \in Use(m, d, o)
    BY <1>1, RootOf, Basics
  <2> QED BY <1>1, <2>1 DEF Good, Owned
<1>3. PICK n, t : n = Fresh(m) /\ t = Taken(m)
  OBVIOUS
<1>4. /\ IsMem(t) /\ t.cache = m.cache /\ t.info = m.info /\ t.dir = m.dir /\ n \in Blk
      /\ IsCache(t.cache) /\ b \in Keys(t) /\ t.cache[b] \in Caches
  BY <1>1, <1>3, TakenIs DEF Keys
<1>5. PICK u : u = NodeMoved(t, b, n, v)
  OBVIOUS
<1>8. r = SetRoot(u, o, Inode(0, n))
  BY <1>3, <1>5 DEF SetNode, Changed, NodeMoved, NodeSet
<1>9. /\ IsMem(u) /\ u.reused = t.reused
      /\ n \notin Keys(t) =>
           /\ Alike(t, u) /\ u.info = t.info /\ u.free = t.free \cup {b}
           /\ IsCache(u.cache) /\ Keys(u) = (Keys(t) \ {b}) \cup {n}
           /\ u.cache[n] = [owner |-> t.cache[b].owner, state |-> "dirty", data |-> Node(v)]
           /\ \A z \in Keys(t) \ {b} : u.cache[z] = t.cache[z]
  BY <1>4, <1>5, NodeMovedIs
<1>10. ~t.reused
  BY <1>8, <1>9, ReusedStays
<1>11. /\ Good(t, d, s, f, NoObject, NoBlk) /\ Spare(t, d, s, n)
       /\ \A x \in Owners : Same(m, d, t, d, x)
  BY <1>1, <1>3, <1>10, GoodTaken
<1>12. n \notin Keys(t) /\ b # n
  BY <1>4, <1>11 DEF Spare, Keys
<1>13. /\ Alike(t, u) /\ u.info = t.info /\ u.free = t.free \cup {b}
       /\ IsCache(u.cache) /\ Keys(u) = (Keys(t) \ {b}) \cup {n}
       /\ u.cache[n] = [owner |-> t.cache[b].owner, state |-> "dirty", data |-> Node(v)]
       /\ \A z \in Keys(t) \ {b} : u.cache[z] = t.cache[z]
  BY <1>9, <1>12
<1>14. PICK c, g : c = [owner |-> o, state |-> "dirty", data |-> Node(v)] /\ g = AddCache(t, n, c)
  OBVIOUS
<1>15. c \in Caches /\ c.owner = o
  <2>1. Node(v) \in Datum
    BY DEF Datum
  <2> QED BY <1>1, <1>14, <2>1 DEF Caches
<1>16. /\ Alike(t, g) /\ g.info = t.info /\ g.free = t.free
       /\ g.cache = [z \in Keys(t) \cup {n} |-> IF z = n THEN c ELSE t.cache[z]]
  BY <1>4, <1>12, <1>14, AddCacheIs
<1>17. Opened(t, c.owner) /\ c.owner \in Owners
  BY <1>1, <1>11, <1>15 DEF Same
<1>18. /\ Good(g, d, s, f, NoObject, NoBlk)
       /\ \A x \in Owners : Same(t, d, g, d, x) /\ Use(g, d, x) = Use(t, d, x)
  BY <1>11, <1>15, <1>16, <1>17, GoodAdded
<1>19. /\ b = Ch(g, d, o) /\ b # NoBlk /\ Opened(g, o) /\ Keys(g) = Keys(t) \cup {n}
       /\ g.cache[n] = c /\ \A z \in Keys(t) : g.cache[z] = t.cache[z]
  BY <1>1, <1>2, <1>11, <1>12, <1>16, <1>18 DEF Same, Keys
<1>20. /\ Alike(g, u) /\ u.info = g.info /\ u.free = g.free \cup {b}
       /\ Keys(u) \subseteq Keys(g) /\ Keys(g) \ {b} \subseteq Keys(u) /\ b \notin Keys(u)
       /\ \A z \in Keys(g) \ {b} : u.cache[z] = g.cache[z]
  <2>1. Alike(g, u) /\ u.info = g.info /\ u.free = g.free \cup {b}
    BY <1>13, <1>16 DEF Alike
  <2>2. u.cache[n] = c
    BY <1>2, <1>4, <1>13, <1>14
  <2> QED BY <1>12, <1>13, <1>19, <2>1, <2>2
<1>21. /\ Good(u, d, s, f, NoObject, b)
       /\ \A x \in Owners \ {o} : Same(g, d, u, d, x) /\ Use(u, d, x) = Use(g, d, x)
       /\ Opened(u, o) /\ Ch(u, d, o) = b /\ Use(u, d, o) = Use(g, d, o)
  BY <1>13, <1>18, <1>19, <1>20, GoodAbandoned
<1>22. /\ n \in Keys(u) /\ u.cache[n].owner = o /\ u.cache[n].state = "dirty"
       /\ u.cache[n].data = Node(v) /\ IsNode(u.cache[n].data) /\ n \notin u.free
       /\ \A x \in Owners : n \notin Use(u, d, x)
  <2>1. u.cache[n].owner = o /\ u.cache[n].state = "dirty" /\ u.cache[n].data = Node(v)
    BY <1>2, <1>4, <1>13
  <2>2. IsNode(Node(v))
    BY DEF Node, IsNode
  <2>3. \A x \in Owners : Use(u, d, x) = Use(t, d, x)
    BY <1>18, <1>21
  <2> QED BY <1>11, <1>12, <1>13, <2>1, <2>2, <2>3 DEF Spare
<1>23. /\ n \in MaybeBlk /\ n # NoBlk /\ 0 \in Values /\ u.free # {} /\ b \in {NoBlk, Ch(u, d, o)}
  BY <1>4, <1>13, <1>21, Basics DEF MaybeBlk
<1>24. PICK j : j = 0
  OBVIOUS
<1>25. /\ Good(r, d, s, f, NoObject, NoBlk)
       /\ \A x \in Owners : Opened(r, x) <=> Opened(u, x)
       /\ \A x \in Owners \ {o} : Cont(r, d, x) = Cont(u, d, x)
       /\ Cont(r, d, o) = IF n = NoBlk THEN j
                          ELSE IF At(u, d, n).kind = "index" THEN At(u, d, n).val ELSE Unreadable
  <2>1. r = SetRoot(u, o, Inode(j, n)) /\ j \in Values
    BY <1>8, <1>23, <1>24
  <2> QED BY <1>21, <1>22, <1>23, <2>1, GoodSetRoot
<1>26. At(u, d, n).kind = "index" /\ At(u, d, n).val = v
  BY <1>22 DEF At, Node
<1> QED BY <1>1, <1>11, <1>18, <1>21, <1>23, <1>25, <1>26 DEF Whole, Keeps, Same

\* The contents of an object go from its root to a new node.
LEMMA GoodGrown ==
  ASSUME NEW m, NEW d, NEW s, NEW f, Whole(m, d, s, f), NEW o \in Objects, Opened(m, o),
         Cardinality(m.free) >= 2, NodeOf(m, o) = NoBlk, NEW v, v = OfRoot(m, o).val,
         NEW b, b = Fresh(m), NEW g, g = AddCache(Taken(m), b, Cache(o, "dirty", Node(v))),
         NEW r, r = SetRoot(g, o, Inode(0, b)), ~r.reused
  PROVE  Whole(r, d, s, f) /\ Keeps(m, d, r, o) /\ Cont(r, d, o) = Cont(m, d, o)
<1>1. /\ Good(m, d, s, f, NoObject, NoBlk) /\ Mem(m) /\ o \in Owners /\ o # Dir
      /\ m.free # {} /\ m.free \ {b} # {} /\ b \in m.free
  <2>1. m.free # {} /\ m.free \ {b} # {}
    BY RoomLeft
  <2> QED BY <2>1, FreshIsFree, Basics DEF Whole, Good, Mem
<1>2. /\ v \in Values /\ Ch(m, d, o) = NoBlk /\ Cont(m, d, o) = v
  <2>1. /\ IsInode(OfRoot(m, o)) /\ Ch(m, d, o) = NoBlk /\ Ino(m, d, o) # NoBlk
        /\ OfRoot(m, o) = At(m, d, Ino(m, d, o))
    BY RootOf
  <2> QED BY <1>1, <2>1 DEF IsInode, Cont
<1>3. PICK t, c : t = Taken(m) /\ c = Cache(o, "dirty", Node(v))
  OBVIOUS
<1>4. /\ IsMem(t) /\ t.cache = m.cache /\ t.info = m.info
      /\ t.free = m.free \ {b} /\ b \in Blk
  BY <1>1, <1>3, TakenIs
<1>5. IsMem(g) /\ g.reused = t.reused /\ g.info = t.info /\ g.dir = t.dir
  BY <1>3, <1>4, AddCacheReused
<1>6. ~t.reused
  BY <1>5, ReusedStays
<1>7. /\ Good(t, d, s, f, NoObject, NoBlk) /\ Spare(t, d, s, b)
      /\ \A x \in Owners : Same(m, d, t, d, x)
  BY <1>1, <1>3, <1>6, GoodTaken
<1>8. /\ Alike(t, g) /\ g.info = t.info /\ g.free = t.free
      /\ g.cache = [z \in Keys(t) \cup {b} |-> IF z = b THEN c ELSE t.cache[z]]
  <2>1. b \notin Keys(t)
    BY <1>7 DEF Spare
  <2> QED BY <1>3, <1>4, <2>1, AddCacheIs
<1>9. c \in Caches /\ c.owner = o /\ c.state = "dirty" /\ c.data = Node(v) /\ IsNode(c.data)
  <2>1. Node(v) \in Datum /\ IsNode(Node(v))
    BY <1>2 DEF Datum, Node, IsNode
  <2> QED BY <1>1, <1>3, <2>1 DEF Caches, Cache
<1>10. Opened(t, c.owner) /\ c.owner \in Owners
  BY <1>1, <1>7, <1>9 DEF Same
<1>11. /\ Good(g, d, s, f, NoObject, NoBlk)
       /\ \A x \in Owners : Same(t, d, g, d, x) /\ Use(g, d, x) = Use(t, d, x)
  BY <1>7, <1>8, <1>9, <1>10, GoodAdded
<1>12. /\ b \in Keys(g) /\ g.cache[b] = c /\ b \notin g.free /\ Opened(g, o) /\ g.free # {}
       /\ \A x \in Owners : b \notin Use(g, d, x)
  BY <1>1, <1>4, <1>7, <1>8, <1>9, <1>10, <1>11 DEF Keys, Spare, Same
<1>13. b \in MaybeBlk /\ b # NoBlk /\ NoBlk \in {NoBlk, Ch(g, d, o)}
  BY <1>4, Basics DEF MaybeBlk
<1>14. PICK j : j = 0
  OBVIOUS
<1>15. /\ Good(r, d, s, f, NoObject, NoBlk)
       /\ \A x \in Owners : Opened(r, x) <=> Opened(g, x)
       /\ \A x \in Owners \ {o} : Cont(r, d, x) = Cont(g, d, x)
       /\ Cont(r, d, o) = IF b = NoBlk THEN j
                          ELSE IF At(g, d, b).kind = "index" THEN At(g, d, b).val ELSE Unreadable
  <2>1. r = SetRoot(g, o, Inode(j, b)) /\ j \in Values
    BY <1>14, Basics
  <2> QED BY <1>9, <1>11, <1>12, <1>13, <2>1, GoodSetRoot
<1>16. At(g, d, b).kind = "index" /\ At(g, d, b).val = v
  BY <1>9, <1>12 DEF At, Node
<1> QED BY <1>2, <1>7, <1>11, <1>13, <1>15, <1>16 DEF Whole, Keeps, Same

\* The node is gone: its cache stays, emptied, its block becomes free.
Emptied(m, b) == Changed(m, b, [m.cache[b] EXCEPT !.state = "empty"])

\* An object whose node is empty goes back to a root of its own: its contents are the first value again.
LEMMA GoodShrunk ==
  ASSUME NEW m, NEW d, NEW s, NEW f, Whole(m, d, s, f), NEW o \in Objects, Opened(m, o),
         NEW b, b = NodeOf(m, o), b \in Keys(m), NEW g, g = Freed(Emptied(m, b), b),
         NEW r, r = SetRoot(g, o, Inode(0, NoBlk)), ~r.reused
  PROVE  Whole(r, d, s, f) /\ Keeps(m, d, r, o) /\ Cont(r, d, o) = 0
<1>1. /\ Good(m, d, s, f, NoObject, NoBlk) /\ IsMem(m) /\ IsCache(m.cache)
      /\ m.cache[b] \in Caches /\ Keys(m) \subseteq Blk /\ o \in Owners
  BY Basics DEF Whole, Good, Mem
<1>2. b = Ch(m, d, o) /\ b # NoBlk
  BY <1>1, RootOf, Basics
<1>3. PICK w, q : w = [m.cache[b] EXCEPT !.state = "empty"] /\ q = Changed(m, b, w)
  BY Zenon
<1>4. w = [owner |-> m.cache[b].owner, state |-> "empty", data |-> m.cache[b].data]
  BY <1>1, <1>3 DEF Caches
<1>5. /\ Alike(m, q) /\ q.info = m.info /\ q.free = m.free
      /\ IsCache(q.cache) /\ Keys(q) = Keys(m)
      /\ q.cache[b] = w /\ \A z \in Keys(m) \ {b} : q.cache[z] = m.cache[z]
  BY <1>1, <1>3, ChangedIs
<1>6. g = Freed(q, b)
  BY <1>3 DEF Emptied
<1>7. Alike(q, g) /\ g.info = q.info /\ g.cache = q.cache /\ g.free = q.free \cup {b}
  BY <1>5, <1>6, FreedIs DEF Alike
<1>8. /\ Alike(m, g) /\ g.info = m.info /\ g.free = m.free \cup {b}
      /\ IsCache(g.cache) /\ Keys(g) = Keys(m) /\ g.cache[b] = w
      /\ \A z \in Keys(m) \ {b} : g.cache[z] = m.cache[z]
  BY <1>5, <1>7 DEF Alike, Keys
<1>9. w \in Caches /\ w.owner = m.cache[b].owner /\ w.state = "empty"
  BY <1>1, <1>4 DEF Caches
<1>10. /\ Keys(g) \subseteq Keys(m) /\ Keys(m) \ {b} \subseteq Keys(g)
       /\ b \in Keys(g) => /\ g.cache[b].owner = m.cache[b].owner /\ g.cache[b].state = "empty"
                           /\ g.cache[b] \in Caches
  BY <1>8, <1>9
<1>11. /\ Good(g, d, s, f, NoObject, b)
       /\ \A p \in Owners \ {o} : Same(m, d, g, d, p) /\ Use(g, d, p) = Use(m, d, p)
       /\ Opened(g, o) /\ Ch(g, d, o) = b
  BY <1>1, <1>2, <1>8, <1>10, GoodAbandoned
<1>12. PICK c, j : c = NoBlk /\ j = 0
  OBVIOUS
<1>13. c \in MaybeBlk /\ j \in Values /\ g.free # {} /\ b \in {NoBlk, Ch(g, d, o)}
  BY <1>8, <1>11, <1>12, Basics DEF MaybeBlk
<1>14. /\ Good(r, d, s, f, NoObject, NoBlk)
       /\ \A x \in Owners : Opened(r, x) <=> Opened(g, x)
       /\ \A x \in Owners \ {o} : Cont(r, d, x) = Cont(g, d, x)
       /\ Cont(r, d, o) = IF c = NoBlk THEN j
                          ELSE IF At(g, d, c).kind = "index" THEN At(g, d, c).val ELSE Unreadable
  <2>1. r = SetRoot(g, o, Inode(j, c))
    BY <1>12
  <2> QED BY <1>11, <1>12, <1>13, <2>1, GoodSetRoot
<1> QED BY <1>11, <1>12, <1>14 DEF Whole, Keeps, Same

-----------------------------------------------------------------------------
(* What users see.                                                         *)

\* What users see of object o, and what they would see after a crash.
Seen(o) == Cont(mem, disk, o)
SeenAfterCrash(o) == Cont(Empty(sb), disk, o)

\* What a step does to them, unless the disk fails.
SeenStays == ~failed' => \A p \in Objects : Seen(p)' = Seen(p)
SavedStays == ~failed' => \A p \in Objects : SeenAfterCrash(p)' = SeenAfterCrash(p)
SeenChanges(o, v) ==
  ~failed' => Seen(o)' = v /\ \A p \in Objects \ {o} : Seen(p)' = Seen(p)

-----------------------------------------------------------------------------
(* The first state, and steps that write nothing.                          *)

\* A container that was never open is as CacheInv says.
LEMMA InitInv == Init => CacheInv
<1> SUFFICES ASSUME Init PROVE CacheInv
  OBVIOUS
<1>1. PICK m : m = Empty(sb)
  OBVIOUS
<1>2. /\ IsMem(m) /\ IsCache(m.cache) /\ Keys(m) = {} /\ AllClosed(m)
      /\ \A o \in Owners : m.info[o] = Closed
      /\ m.info \in [Owners -> [inode : MaybeBlk, root : MaybeBlk, dirty : BOOLEAN]]
      /\ m.free = sb.free /\ m.fresh = sb.free /\ m.hint = sb.hint /\ m.dir = sb.dir
      /\ ~m.clash /\ m.met = {} /\ ~m.reused
      /\ \A d, b : At(m, d, b) = d[b]
  BY <1>1, EmptyIs
<1>3. sb = [dir |-> 1, free |-> Blk \ {1}, hint |-> 2] /\ sb.dir = 1 /\ sb.free = Blk \ {1} /\ sb.hint = 2
  BY DEF Init
<1>4. 1 \in Blk /\ 2 \in 1 .. LastBlk + 1 /\ NoBlk \in MaybeBlk
  BY Basics DEF Blk, MaybeBlk
<1>5. /\ disk = [b \in Blk |-> IF b = 1 THEN DirInode([o \in Objects |-> NoBlk]) ELSE Bad]
      /\ IsDir(disk[1]) /\ disk[1].entry = [o \in Objects |-> NoBlk]
      /\ \A b \in Blk \ {1} : disk[b] = Bad
  BY <1>4 DEF Init, IsDir, DirInode
<1>6. disk \in [Blk -> Datum]
  <2>1. [o \in Objects |-> NoBlk] \in [Objects -> Blk \cup {NoBlk}]
    OBVIOUS
  <2> QED BY <1>5, <2>1 DEF Datum
<1>7. \A o \in Owners : ~Opened(m, o)
  BY <1>2 DEF AllClosed
<1>8. \A o \in Objects : Entry(m, disk, o) = NoBlk /\ o # Dir
  BY <1>2, <1>3, <1>5, Basics DEF Entry, IsDir
<1>9. \A o \in Objects : Ino(m, disk, o) = NoBlk /\ Rt(m, disk, o) = NoBlk /\ Ch(m, disk, o) = NoBlk
  BY <1>7, <1>8, Basics DEF Ino, Rt, Ch
<1>10. Ino(m, disk, Dir) = 1 /\ Rt(m, disk, Dir) = 1 /\ Ch(m, disk, Dir) = NoBlk
  BY <1>2, <1>3, <1>7, Basics DEF Ino, Rt, Ch, Entry
<1>11. \A o \in Owners : Use(m, disk, o) = IF o = Dir THEN {1} ELSE {}
  BY <1>4, <1>9, <1>10, Basics DEF Use
<1>12. \A o \in Owners : Ch(m, disk, o) = NoBlk /\ (Ino(m, disk, o) # NoBlk => o = Dir)
                         /\ Rt(m, disk, o) \notin m.free
  BY <1>2, <1>3, <1>4, <1>9, <1>10, Basics
<1>13. Mem(m)
  BY <1>2, <1>3, <1>4 DEF Mem
<1>14. OpenOK(m) /\ Linked(m, disk, NoObject) /\ RootsKept(m, disk, sb)
  BY <1>7 DEF OpenOK, WellOpen, Linked, RootsKept, RootKept
<1>15. Kinds(m, disk, failed, NoBlk) /\ NodesKept(m, disk, failed, NoBlk)
  BY <1>2, <1>3, <1>5, <1>12 DEF Kinds, NodesKept
<1>16. Apart(m, disk)
  BY <1>11, <1>12, Basics DEF Apart
<1>17. Unused(m, disk, NoBlk) /\ Held(m) /\ Owned(m, disk)
  BY <1>2, <1>3, <1>11, <1>12, Basics DEF Unused, Held, Owned
<1>18. Moved(m, sb) /\ Saved(m, disk, sb, NoObject)
  <2>1. ~Opened(m, Dir) /\ sb.dir \in Blk \ sb.free
    BY <1>3, <1>4, <1>7, Basics
  <2>2. Moved(m, sb)
    BY <1>2 DEF Moved
  <2> QED BY <1>2, <1>7, <2>1, <2>2 DEF Saved
<1>19. Whole(m, disk, sb, failed)
  BY <1>13, <1>14, <1>15, <1>16, <1>17, <1>18 DEF Whole, Good
<1>20. mem = Empty(sb) /\ ct = "closed" /\ failed = FALSE
  BY DEF Init
<1> QED BY <1>1, <1>3, <1>5, <1>6, <1>19, <1>20 DEF CacheInv

\* The super block and the disk stay: then so does what was saved.
LEMMA StillOpen ==
  ASSUME CacheInv, UNCHANGED <<disk, sb>>, failed' \in BOOLEAN, failed => failed',
         Whole(mem', disk, sb, failed'),
         \/ ct \in {"closed", "open"} /\ ct' = "open"
         \/ ct \in {"open", "closing"} /\ ct' = "closing"
         \/ ct = "closing" /\ ct' = "flush",
         ct' \in {"open", "closing"} => Opened(mem', Dir),
         ct' = "flush" => AllClosed(mem'),
         ct' = "closing" => mem'.info[Dir].dirty \/ mem'.free # {}
  PROVE  CacheInv' /\ SavedStays
<1>1. PICK m, d, s, f, g : m = Empty(sb) /\ d = disk /\ s = sb /\ f = failed /\ g = failed'
  OBVIOUS
<1>2. Whole(m, d, s, f) /\ f \in BOOLEAN /\ g \in BOOLEAN /\ (f => g)
  BY <1>1 DEF CacheInv
<1>3. IsMem(m) /\ IsCache(m.cache) /\ Keys(m) = {} /\ AllClosed(m)
  BY <1>1, EmptyIs
<1>4. Alike(m, m)
  BY <1>3 DEF Alike
<1>5. Whole(m, d, s, g)
  BY <1>2, <1>3, <1>4, GoodFlushed
<1>6. Whole(Empty(sb'), disk', sb', failed') /\ Whole(mem', disk', sb', failed')
  BY <1>1, <1>5
<1>7. \A b \in sb'.free : disk'[b] = Bad
  BY DEF CacheInv
<1>8. CacheInv'
  <2>1. disk' \in [Blk -> Datum] /\ sb' = [dir |-> sb'.dir, free |-> sb'.free, hint |-> sb'.hint]
    BY DEF CacheInv
  <2>2. ct' \in {"open", "closing", "flush"}
    OBVIOUS
  <2> QED BY <1>6, <1>7, <2>1, <2>2 DEF CacheInv, AllClosed
<1>9. SavedStays
  BY DEF SavedStays, SeenAfterCrash
<1> QED BY <1>8, <1>9

\* OpenContainer shows what was saved.
LEMMA OpenContainerInv ==
  ASSUME CacheInv, OpenContainer
  PROVE  CacheInv' /\ SeenStays /\ SavedStays
<1>1. PICK m, s, f : m = Empty(sb) /\ s = sb /\ f = failed
  OBVIOUS
<1>2. /\ Whole(m, disk, s, f) /\ mem = m /\ disk \in [Blk -> Datum] /\ Dir \in Owners
  BY <1>1, Basics DEF CacheInv, OpenContainer
<1>3. /\ IsMem(m) /\ IsCache(m.cache) /\ Keys(m) = {} /\ ~Opened(m, Dir) /\ m.dir = s.dir
  BY <1>1, <1>2, EmptyIs DEF AllClosed
<1>4. PICK b : b = sb.dir
  OBVIOUS
<1>5. b = Ino(m, disk, Dir) /\ b # NoBlk /\ Readable(b, "inode")
  <2>1. m.dir \in Blk /\ Ino(m, disk, Dir) = m.dir
    BY <1>2, Places DEF Whole
  <2> QED BY <1>1, <1>3, <1>4, <2>1, Basics DEF OpenContainer
<1>6. mem' = OpenObjectOf(m, Dir, b)
  BY <1>1, <1>4 DEF OpenContainer
<1>8. PICK r, v, a : r = mem' /\ v = OpenObjectOf(m, Dir, b) /\ a = v.again
  OBVIOUS
<1>12. PICK met : met = v.met \cup ({Dir} \ {Dir})
  OBVIOUS
<1>7. r = Marked(v, met, a)
  <2>1. PICK u : u = AddCache(m, b, Cache(Dir, "clean", disk[b]))
    OBVIOUS
  <2>2. IsMem(u)
    BY <1>3, <2>1, AddCacheReused
  <2>3. PICK j : j = [u.info EXCEPT ![Dir] = [inode |-> b, root |-> b, dirty |-> FALSE]]
    OBVIOUS
  <2>4. v = [u EXCEPT !.info = j]
    BY <1>8, <2>1, <2>2, <2>3 DEF OpenObjectOf, IsMem
  <2>5. v = [v EXCEPT !.met = v.met, !.again = v.again]
    BY <2>2, <2>4 DEF IsMem
  <2>6. v.met \cup ({Dir} \ {Dir}) = v.met
    OBVIOUS
  <2> QED BY <1>6, <1>8, <1>12, <2>5, <2>6 DEF Marked
<1>9. /\ Whole(r, disk, s, f) /\ Opened(r, Dir)
      /\ \A p \in Owners : Cont(r, disk, p) = Cont(m, disk, p)
  <2>1. PICK o \in Owners : o = Dir
    BY <1>2
  <2>2. /\ ~Opened(m, o) /\ (o = Dir => m.dir = s.dir /\ Keys(m) = {}) /\ b = Ino(m, disk, o)
        /\ v = OpenObjectOf(m, o, b) /\ met = v.met \cup ({o} \ {Dir})
    BY <1>3, <1>5, <1>8, <1>12, <2>1
  <2> QED BY <1>2, <1>5, <1>7, <2>1, <2>2, GoodObjectOpened
<1>10. CacheInv' /\ SavedStays
  <2>1. UNCHANGED <<disk, sb>> /\ failed' = failed /\ ct = "closed" /\ ct' = "open"
    BY DEF OpenContainer
  <2>2. Whole(mem', disk, sb, failed') /\ Opened(mem', Dir) /\ failed' \in BOOLEAN
    BY <1>1, <1>8, <1>9, <2>1 DEF CacheInv
  <2> QED BY <2>1, <2>2, StillOpen
<1>11. SeenStays
  BY <1>2, <1>8, <1>9, Basics DEF SeenStays, Seen, OpenContainer
<1> QED BY <1>10, <1>11

\* A call of an open container that keeps the disk, the super block and what is open.
LEMMA CallInv ==
  ASSUME CacheInv, UNCHANGED <<disk, sb, ct>>, ct = "open", failed' \in BOOLEAN, failed => failed',
         Whole(mem', disk, sb, failed'), \A p \in Owners : Opened(mem, p) => Opened(mem', p)
  PROVE  CacheInv' /\ SavedStays
<1>1. Opened(mem, Dir) /\ Dir \in Owners
  BY Basics DEF CacheInv
<1> QED BY <1>1, StillOpen

\* The free blocks can be counted.
LEMMA FreeIsCounted ==
  ASSUME NEW m, NEW d, NEW s, NEW f, Whole(m, d, s, f)
  PROVE  Cardinality(m.free) \in Nat
<1>1. m.free \subseteq Blk
  BY DEF Whole, Good, Mem
<1>2. IsFiniteSet(Blk)
  BY FS_Interval, Basics DEF Blk
<1> QED BY <1>1, <1>2, FS_Subset, FS_CardinalityType

\* A call that finds room for n blocks finds n - 1 of them free, and the root of $OBJID can move.
LEMMA RoomIs ==
  ASSUME CacheInv
  PROVE  /\ Room(1) => mem.free # {} \/ mem.info[Dir].dirty
         /\ Room(2) => mem.free # {}
         /\ Room(3) => Cardinality(mem.free) >= 2
<1>1. Cardinality(mem.free) \in Nat
  BY FreeIsCounted DEF CacheInv
<1>2. Cardinality(mem.free) >= 1 => mem.free # {}
  BY RoomLeft
<1> QED BY <1>1, <1>2 DEF Room

\* CreateObject keeps CacheInv and shows the new object with its contents.
LEMMA CreateObjectInv ==
  ASSUME CacheInv, NEW o \in Objects, CreateObject(o), ~mem'.reused
  PROVE  CacheInv' /\ SavedStays /\ SeenChanges(o, 0)
<1>1. PICK m, d, s, f, r : m = mem /\ d = disk /\ s = sb /\ f = failed /\ r = mem'
  OBVIOUS
<1>2. PICK b : b = Fresh(m)
  OBVIOUS
<1>3. PICK u : u = Created(m, o, b, Cache(o, "dirty", Inode(0, NoBlk)))
  OBVIOUS
<1>4. r = SetRoot(u, Dir, DirInode(EntrySet(u, o, b)))
  BY <1>1, <1>2, <1>3 DEF CreateObject, Created, EntrySet
<1>5. /\ Whole(m, d, s, f) /\ Opened(m, Dir) /\ ~Opened(m, o)
      /\ OfRoot(m, Dir).entry[o] = NoBlk /\ Cardinality(m.free) >= 2 /\ ~r.reused
  BY <1>1, RoomIs DEF CreateObject, CacheInv, IsOpen, Opened
<1>6. Whole(r, d, s, f) /\ Keeps(m, d, r, o) /\ Cont(r, d, o) = 0
  BY <1>2, <1>3, <1>4, <1>5, GoodNewObject
<1>7. UNCHANGED <<disk, sb, ct, failed>> /\ ct = "open" /\ failed' \in BOOLEAN
  BY DEF CreateObject, CacheInv
<1>8. CacheInv' /\ SavedStays
  BY <1>1, <1>6, <1>7, CallInv DEF Keeps
<1> QED BY <1>1, <1>6, <1>7, <1>8, Basics DEF Keeps, SeenChanges, Seen

\* OpenObject keeps CacheInv and what users see.
LEMMA OpenObjectInv ==
  ASSUME CacheInv, NEW o \in Objects, OpenObject(o), ~mem'.again
  PROVE  CacheInv' /\ SavedStays /\ SeenStays
<1>1. PICK m, s, f, r : m = mem /\ s = sb /\ f = failed /\ r = mem'
  OBVIOUS
<1>2. PICK b : b = OfRoot(m, Dir).entry[o]
  OBVIOUS
<1>3. /\ Whole(m, disk, s, f) /\ Opened(m, Dir) /\ ~Opened(m, o) /\ disk \in [Blk -> Datum]
      /\ b # NoBlk
      /\ b \in Keys(m) \/ Readable(b, "inode")
      /\ mem' = [OpenObjectOf(mem, o, b) EXCEPT !.met = @ \cup {o}, !.again = @ \/ o \in mem.met]
  BY <1>1, <1>2 DEF OpenObject, CacheInv, IsOpen, Opened, Keys
<1>10. o \notin m.met
  <2>1. PICK u : u = AddCache(m, b, Cache(o, "clean", disk[b]))
    OBVIOUS
  <2>2. IsMem(m) /\ IsMem(u)
    BY <1>3, <2>1, AddCacheReused DEF Whole, Good, Mem
  <2>3. PICK j : j = [u.info EXCEPT ![o] = [inode |-> b, root |-> b, dirty |-> FALSE]]
    OBVIOUS
  <2>4. PICK v : v = [u EXCEPT !.info = j] /\ v = OpenObjectOf(m, o, b)
    BY <2>1, <2>2, <2>3 DEF OpenObjectOf, IsMem
  <2>5. IsMem(v)
    BY <2>2, <2>4 DEF IsMem
  <2>6. r = [v EXCEPT !.met = v.met \cup {o}, !.again = v.again \/ o \in m.met]
    BY <1>1, <1>3, <2>4
  <2>7. r.again = (v.again \/ o \in m.met)
    BY <2>5, <2>6 DEF IsMem
  <2> QED BY <1>1, <2>7
<1>4. o \in Owners /\ o # Dir /\ Dir \in Owners /\ {o} \ {Dir} = {o}
  BY Basics
<1>5. b = Ino(m, disk, o)
  <2>1. m.dir \in Keys(m) /\ m.info[Dir].inode = m.dir /\ IsDir(m.cache[m.dir].data)
    BY <1>3, <1>4, Places DEF Whole, Good, OpenOK, WellOpen
  <2>2. Entry(m, disk, o) = OfRoot(m, Dir).entry[o]
    BY <1>4, <2>1 DEF Entry, At, OfRoot, IsDir
  <2> QED BY <1>2, <1>3, <2>2 DEF Ino
<1>6. Readable(b, "inode")
  <2>1. Use(m, disk, o) \cap Keys(m) = {}
    BY <1>3, <1>10 DEF Whole, Good, Owned
  <2> QED BY <1>3, <1>5, <2>1 DEF Use
<1>11. PICK v, a : v = OpenObjectOf(m, o, b) /\ a = (v.again \/ o \in m.met)
  OBVIOUS
<1>13. PICK met : met = v.met \cup ({o} \ {Dir})
  OBVIOUS
<1>12. r = Marked(v, met, a)
  BY <1>1, <1>3, <1>4, <1>11, <1>13 DEF Marked
<1>7. /\ Whole(r, disk, s, f) /\ \A p \in Owners : Opened(m, p) => Opened(r, p)
      /\ \A p \in Owners : Cont(r, disk, p) = Cont(m, disk, p)
  BY <1>3, <1>4, <1>5, <1>6, <1>10, <1>11, <1>12, <1>13, GoodObjectOpened
<1>8. UNCHANGED <<disk, sb, ct, failed>> /\ ct = "open" /\ failed' \in BOOLEAN
  BY DEF OpenObject, CacheInv
<1>9. CacheInv' /\ SavedStays
  BY <1>1, <1>7, <1>8, CallInv
<1> QED BY <1>1, <1>7, <1>8, <1>9, Basics DEF SeenStays, Seen

\* ReadNode keeps CacheInv and what users see.
LEMMA ReadNodeInv ==
  ASSUME CacheInv, NEW o \in Objects, NEW well \in BOOLEAN, ReadNode(o, well)
  PROVE  CacheInv' /\ SavedStays /\ SeenStays
<1>1. PICK m, s, f, r : m = mem /\ s = sb /\ f = failed /\ r = mem'
  OBVIOUS
<1>2. PICK b : b = NodeOf(m, o)
  OBVIOUS
<1>3. /\ Whole(m, disk, s, f) /\ Opened(m, o) /\ disk \in [Blk -> Datum] /\ f \in BOOLEAN
      /\ b # NoBlk /\ (b \in Keys(m) => m.cache[b].owner # o) /\ (well => Readable(b, "index"))
      /\ r = AddCache(m, b, IF well THEN Cache(o, "clean", disk[b]) ELSE Cache(o, "empty", Bad))
  BY <1>1, <1>2 DEF ReadNode, CacheInv, IsOpen, Opened, Keys
<1>4. /\ Whole(r, disk, s, f \/ ~well) /\ r.reused = m.reused
      /\ \A p \in Owners : Opened(m, p) => Opened(r, p)
      /\ well => \A p \in Owners : Cont(r, disk, p) = Cont(m, disk, p)
  BY ONLY <1>2, <1>3, o \in Objects, well \in BOOLEAN, GoodNodeRead
<1>5. UNCHANGED <<disk, sb, ct>> /\ ct = "open" /\ failed' = (failed \/ ~well)
  BY DEF ReadNode
<1>6. failed' \in BOOLEAN /\ (failed => failed') /\ (~failed' => well)
  BY <1>1, <1>3, <1>5
<1>7. CacheInv' /\ SavedStays
  BY <1>1, <1>4, <1>5, <1>6, CallInv
<1> QED BY <1>1, <1>4, <1>5, <1>6, <1>7, Basics DEF SeenStays, Seen

\* Change keeps CacheInv and shows the new contents.
LEMMA ChangeInv ==
  ASSUME CacheInv, NEW o \in Objects, NEW v \in Values, Change(o, v), ~mem'.reused
  PROVE  CacheInv' /\ SavedStays /\ SeenChanges(o, v)
<1>1. PICK m, d, s, f, r : m = mem /\ d = disk /\ s = sb /\ f = failed /\ r = mem'
  OBVIOUS
<1>2. Whole(m, d, s, f) /\ Opened(m, o) /\ m.free # {} /\ ~r.reused
  <2>1. Cardinality(m.free) >= 2 => m.free # {}
    BY FS_EmptySet
  <2> QED BY <1>1, <2>1, RoomIs DEF Change, CacheInv, IsOpen, Opened
<1>3. Whole(r, d, s, f) /\ Keeps(m, d, r, o) /\ Cont(r, d, o) = v
  <2>1. CASE NodeOf(m, o) = NoBlk /\ r = SetRoot(m, o, Inode(v, NoBlk))
    BY <1>2, <2>1, GoodRootChanged
  <2>2. CASE NodeOf(m, o) \in Keys(m) /\ r = SetNode(m, o, v)
    <3>1. PICK b : b = NodeOf(m, o)
      OBVIOUS
    <3>2. CASE m.cache[b].state = "dirty"
      BY <1>2, <2>2, <3>1, <3>2, GoodDirtyNode
    <3>3. CASE m.cache[b].state # "dirty"
      BY <1>2, <2>2, <3>1, <3>3, GoodMovedNode
    <3> QED BY <3>2, <3>3
  <2> QED BY <1>1, <2>1, <2>2 DEF Change, HasNode, Keys
<1>4. UNCHANGED <<disk, sb, ct, failed>> /\ ct = "open" /\ failed' \in BOOLEAN
  BY DEF Change, CacheInv
<1>5. CacheInv' /\ SavedStays
  BY <1>1, <1>3, <1>4, CallInv DEF Keeps
<1> QED BY <1>1, <1>3, <1>4, <1>5, Basics DEF Keeps, SeenChanges, Seen

\* Grow keeps CacheInv and what users see.
LEMMA GrowInv ==
  ASSUME CacheInv, NEW o \in Objects, Grow(o), ~mem'.reused
  PROVE  CacheInv' /\ SavedStays /\ SeenStays
<1>1. PICK m, d, s, f, r : m = mem /\ d = disk /\ s = sb /\ f = failed /\ r = mem'
  OBVIOUS
<1>2. PICK b, v : b = Fresh(m) /\ v = OfRoot(m, o).val
  OBVIOUS
<1>3. PICK g : g = AddCache(Taken(m), b, Cache(o, "dirty", Node(v)))
  OBVIOUS
<1>4. /\ Whole(m, d, s, f) /\ Opened(m, o) /\ NodeOf(m, o) = NoBlk /\ ~r.reused
      /\ r = SetRoot(g, o, Inode(0, b))
  BY <1>1, <1>2, <1>3 DEF Grow, CacheInv, IsOpen, Opened
<1>5. Cardinality(m.free) >= 2
  BY <1>1, RoomIs DEF Grow
<1>6. Whole(r, d, s, f) /\ Keeps(m, d, r, o) /\ Cont(r, d, o) = Cont(m, d, o)
  BY <1>2, <1>3, <1>4, <1>5, GoodGrown
<1>7. UNCHANGED <<disk, sb, ct, failed>> /\ ct = "open" /\ failed' \in BOOLEAN
  BY DEF Grow, CacheInv
<1>8. CacheInv' /\ SavedStays
  BY <1>1, <1>6, <1>7, CallInv DEF Keeps
<1> QED BY <1>1, <1>6, <1>7, <1>8, Basics DEF Keeps, SeenStays, Seen

\* Shrink keeps CacheInv and what users see.
LEMMA ShrinkInv ==
  ASSUME CacheInv, NEW o \in Objects, Shrink(o), ~mem'.reused
  PROVE  CacheInv' /\ SavedStays /\ SeenChanges(o, 0)
<1>1. PICK m, d, s, f, r : m = mem /\ d = disk /\ s = sb /\ f = failed /\ r = mem'
  OBVIOUS
<1>2. PICK b : b = NodeOf(m, o)
  OBVIOUS
<1>3. PICK g : g = Freed(Emptied(m, b), b)
  OBVIOUS
<1>4. r = SetRoot(g, o, Inode(0, NoBlk))
  <2>1. IsMem(m)
    BY <1>1 DEF CacheInv, Whole, Good, Mem
  <2>2. Emptied(m, b) = [m EXCEPT !.cache[b].state = "empty"]
    BY <2>1 DEF Emptied, Changed, IsMem
  <2> QED BY <1>1, <1>2, <1>3, <2>2 DEF Shrink
<1>5. Whole(m, d, s, f) /\ Opened(m, o) /\ b \in Keys(m) /\ ~r.reused
  BY <1>1, <1>2 DEF Shrink, CacheInv, IsOpen, Opened, HasNode, Keys
<1>6. Whole(r, d, s, f) /\ Keeps(m, d, r, o) /\ Cont(r, d, o) = 0
  BY <1>2, <1>3, <1>4, <1>5, GoodShrunk
<1>7. UNCHANGED <<disk, sb, ct, failed>> /\ ct = "open" /\ failed' \in BOOLEAN
  BY DEF Shrink, CacheInv
<1>8. CacheInv' /\ SavedStays
  BY <1>1, <1>6, <1>7, CallInv DEF Keeps
<1> QED BY <1>1, <1>6, <1>7, <1>8, Basics DEF Keeps, SeenChanges, Seen

-----------------------------------------------------------------------------
(* Closing.                                                                *)

\* close_object keeps Good and what users see, whichever way it goes.
LEMMA GoodClosed ==
  ASSUME NEW m, NEW d, NEW s, NEW f, Whole(m, d, s, f), NEW o \in Owners, Opened(m, o),
         Opened(m, Dir), o # Dir => m.free # {} \/ m.info[Dir].dirty,
         NEW r, r = CloseObjectOf(m, o), ~r.reused
  PROVE  Closes(m, d, s, f, o, r)
<1>1. CASE ~m.info[o].dirty \/ m.info[o].root = m.info[o].inode
  BY <1>1, GoodClosedInPlace DEF Whole
<1>2. CASE m.info[o].dirty /\ m.info[o].root # m.info[o].inode
  BY <1>2, GoodClosedMoved DEF Whole
<1> QED BY <1>1, <1>2

\* CloseObject keeps CacheInv and what users see.
LEMMA CloseObjectInv ==
  ASSUME CacheInv, NEW o \in Objects, CloseObject(o), ~mem'.reused
  PROVE  CacheInv' /\ SavedStays /\ SeenStays
<1>1. PICK m, d, s, f, r : m = mem /\ d = disk /\ s = sb /\ f = failed /\ r = mem'
  OBVIOUS
<1>2. /\ Whole(m, d, s, f) /\ Opened(m, o) /\ Opened(m, Dir) /\ ~r.reused
      /\ m.free # {} \/ m.info[Dir].dirty
      /\ r = CloseObjectOf(m, o) /\ o \in Owners /\ Dir \in Owners /\ o # Dir
  BY <1>1, RoomIs, Basics DEF CloseObject, CacheInv, IsOpen, Opened
<1>3. Closes(m, d, s, f, o, r)
  BY <1>2, GoodClosed
<1>4. UNCHANGED <<disk, sb, ct, failed>> /\ ct = "open" /\ failed' \in BOOLEAN
  BY DEF CloseObject, CacheInv
<1>6. Whole(r, d, s, f) /\ Opened(r, Dir)
  BY <1>2, <1>3 DEF Closes, Whole
<1>7. CacheInv' /\ SavedStays
  BY <1>1, <1>4, <1>6, StillOpen
<1> QED BY <1>1, <1>3, <1>4, <1>7, Basics DEF Closes, SeenStays, Seen

\* CloseContainer, the start of the close, keeps CacheInv and what users see.
LEMMA CloseContainerInv ==
  ASSUME CacheInv, CloseContainer
  PROVE  CacheInv' /\ SavedStays /\ SeenStays
<1>1. /\ Whole(mem, disk, sb, failed) /\ Opened(mem, Dir) /\ (mem.free # {} \/ mem.info[Dir].dirty)
      /\ UNCHANGED <<disk, sb, mem, failed>> /\ ct = "open" /\ ct' = "closing" /\ failed \in BOOLEAN
  BY RoomIs DEF CloseContainer, CacheInv
<1>2. CacheInv' /\ SavedStays
  BY <1>1, StillOpen
<1> QED BY <1>1, <1>2 DEF SeenStays, Seen

\* CloseNext, which closes the objects left open and then $OBJID, keeps CacheInv and what users see.
LEMMA CloseNextInv ==
  ASSUME CacheInv, CloseNext, ~mem'.reused
  PROVE  CacheInv' /\ SavedStays /\ SeenStays
<1>1. PICK m, d, s, f, r : m = mem /\ d = disk /\ s = sb /\ f = failed /\ r = mem'
  OBVIOUS
<1>2. PICK users : users = {o \in Objects : IsOpen(o)}
  OBVIOUS
<1>3. /\ Whole(m, d, s, f) /\ Opened(m, Dir) /\ (m.free # {} \/ m.info[Dir].dirty) /\ ~r.reused
      /\ Dir \in Owners /\ users = {o \in Objects : Opened(m, o)}
      /\ UNCHANGED <<disk, sb, failed>> /\ ct = "closing" /\ failed' \in BOOLEAN
  BY <1>1, <1>2, Basics DEF CloseNext, CacheInv, IsOpen, Opened
<1>4. CASE users # {}
  <2>1. PICK o : o = Min(users)
    OBVIOUS
  <2>2. o \in users
    <3>1. users \subseteq Nat
      BY <1>3, CacheAssumption
    <3> QED BY <1>4, <2>1, <3>1, Least
  <2>3. /\ o \in Owners /\ o # Dir /\ Opened(m, o) /\ r = CloseObjectOf(m, o) /\ ct' = "closing"
    BY <1>1, <1>2, <1>3, <1>4, <2>1, <2>2, Basics DEF CloseNext
  <2>4. Closes(m, d, s, f, o, r)
    BY <1>3, <2>3, GoodClosed
  <2>5. Whole(r, d, s, f) /\ Opened(r, Dir) /\ (r.info[Dir].dirty \/ r.free # {})
    BY <1>3, <2>3, <2>4 DEF Closes, Whole
  <2>6. CacheInv' /\ SavedStays
    BY <1>1, <1>3, <2>3, <2>5, StillOpen
  <2> QED BY <1>1, <1>3, <2>4, <2>6, Basics DEF Closes, SeenStays, Seen
<1>5. CASE users = {}
  <2>1. r = CloseObjectOf(m, Dir) /\ ct' = "flush"
    BY <1>1, <1>2, <1>5 DEF CloseNext
  <2>2. Closes(m, d, s, f, Dir, r)
    BY <1>3, <2>1, GoodClosed
  <2>3. Whole(r, d, s, f) /\ AllClosed(r)
    <3>1. \A o \in Objects : ~Opened(m, o)
      BY <1>3, <1>5
    <3> QED BY <2>2, <3>1, Basics DEF Closes, Whole, AllClosed
  <2>4. CacheInv' /\ SavedStays
    BY <1>1, <1>3, <2>1, <2>3, StillOpen
  <2> QED BY <1>1, <1>3, <2>2, <2>4, Basics DEF Closes, SeenStays, Seen
<1> QED BY <1>4, <1>5

-----------------------------------------------------------------------------
(* Flushing, and the machine stopping.                                     *)

\* A block gets to a block that the super block has free.
LEMMA BlockWritten ==
  ASSUME CacheInv, ct = "flush", Dirty # {}
  PROVE  /\ Min(Dirty) \in Keys(mem) /\ Min(Dirty) \in Blk /\ Min(Dirty) \in sb.free
         /\ mem.cache[Min(Dirty)].data \in Datum
<1>1. Good(mem, disk, sb, failed, NoObject, NoBlk) /\ Keys(mem) \subseteq Blk
  BY DEF CacheInv, Whole, Good, Mem
<1>2. Dirty \subseteq Keys(mem) /\ Dirty \subseteq Nat
  BY <1>1, Basics DEF Dirty, Keys
<1>3. Min(Dirty) \in Dirty
  BY <1>2, Least
<1>4. mem.cache[Min(Dirty)] \in Caches /\ mem.cache[Min(Dirty)].state = "dirty"
  BY <1>1, <1>2, <1>3 DEF Good, Mem, Dirty
<1> QED BY <1>1, <1>2, <1>3, <1>4 DEF Good, Moved, Caches

\* What is on disk of blocks that are not free is left: after a crash all is as before.
LEMMA DiskKept ==
  ASSUME NEW s, NEW d, NEW f \in BOOLEAN, NEW g \in BOOLEAN, f => g, Whole(Empty(s), d, s, f),
         NEW e, \A b \in Blk \ s.free : e[b] = d[b]
  PROVE  Whole(Empty(s), e, s, g) /\ \A p \in Owners : Cont(Empty(s), e, p) = Cont(Empty(s), d, p)
<1>1. PICK m : m = Empty(s)
  OBVIOUS
<1>2. /\ Keys(m) = {} /\ AllClosed(m) /\ m.free = s.free /\ m.hint = s.hint /\ m.dir = s.dir
      /\ \A x, b : At(m, x, b) = x[b]
  BY <1>1, EmptyIs
<1>3. s.hint \in 1 .. LastBlk + 1 /\ s.dir = m.dir /\ s.free = m.free
  BY <1>1, <1>2 DEF Whole, Good, Mem
<1>4. \A z \in Blk \ m.free : e[z] = At(m, d, z)
  BY <1>2
<1>5. /\ Whole(m, e, s, g)
      /\ (\A z \in Blk \ m.free : e[z] = At(m, d, z)) =>
           \A p \in Owners : Cont(m, e, p) = Cont(m, d, p)
  BY <1>1, <1>2, <1>3, <1>4, GoodReloaded
<1> QED BY <1>1, <1>4, <1>5

\* FlushBlock keeps CacheInv, what users see and what a crash would leave.
LEMMA FlushBlockInv ==
  ASSUME CacheInv, FlushBlock
  PROVE  CacheInv' /\ SavedStays /\ SeenStays
<1>1. PICK m, d, s, f, e, r : m = mem /\ d = disk /\ s = sb /\ f = failed /\ e = disk' /\ r = mem'
  OBVIOUS
<1>2. PICK k, x : k = Min(Dirty) /\ x = m.cache[k].data
  OBVIOUS
<1>3. /\ k \in Keys(m) /\ k \in Blk /\ k \in s.free /\ x \in Datum
  BY <1>1, <1>2, BlockWritten DEF FlushBlock
<1>17. e = [d EXCEPT ![k] = x]
  BY <1>1, <1>2 DEF FlushBlock, Written
<1>4. /\ r = RemoveCache(m, k) /\ d \in [Blk -> Datum]
      /\ Whole(m, d, s, f) /\ Whole(Empty(s), d, s, f) /\ AllClosed(m) /\ f \in BOOLEAN
      /\ \A b \in s.free : b \in Keys(m) => d[b] = Bad
  BY <1>1, <1>2 DEF FlushBlock, CacheInv, AllClosed
<1>5. e[k] = x /\ (\A b \in Blk \ {k} : e[b] = d[b]) /\ e \in [Blk -> Datum]
  BY <1>3, <1>4, <1>17
<1>6. IsMem(m) /\ IsCache(m.cache)
  BY <1>4 DEF Whole, Good, Mem
<1>7. /\ Alike(m, r) /\ r.info = m.info /\ r.free = m.free
      /\ IsCache(r.cache) /\ Keys(r) = Keys(m) \ {k} /\ \A z \in Keys(r) : r.cache[z] = m.cache[z]
  <2>1. /\ Alike(m, r) /\ r.info = m.info /\ r.free = m.free
        /\ r.cache = [z \in Keys(m) \ {k} |-> m.cache[z]]
    BY <1>4, <1>6, RemoveCacheIs
  <2> QED BY <2>1 DEF Keys, IsCache
<1>8. \A z \in Blk : At(r, e, z) = At(m, d, z)
  BY <1>2, <1>3, <1>5, <1>7 DEF At
<1>16. PICK g \in BOOLEAN : g = f /\ (f => g)
  BY <1>4
<1>9. Whole(r, e, s, g) /\ AllClosed(r) /\ \A p \in Owners : Same(m, d, r, e, p)
  <2>1. Keys(r) \subseteq Keys(m)
    BY <1>7
  <2> QED BY ONLY <1>4, <1>7, <1>8, <1>16, <2>1, GoodFlushed
<1>10. Whole(Empty(s), e, s, g) /\ \A p \in Owners : Cont(Empty(s), e, p) = Cont(Empty(s), d, p)
  <2>1. \A b \in Blk \ s.free : e[b] = d[b]
    BY <1>3, <1>5
  <2> QED BY ONLY <1>4, <1>16, <2>1, DiskKept
<1>11. UNCHANGED <<sb, ct, failed>> /\ ct = "flush"
  BY DEF FlushBlock
<1>12. \A b \in s.free : b \in Keys(r) => e[b] = Bad
  <2>1. Keys(r) \subseteq Blk /\ Keys(r) \subseteq Keys(m) \ {k}
    BY <1>7, <1>9 DEF Whole, Good, Mem
  <2> QED BY <1>4, <1>5, <2>1
<1>13. CacheInv'
  <2>1. sb' = [dir |-> sb'.dir, free |-> sb'.free, hint |-> sb'.hint] /\ failed' \in BOOLEAN
    BY <1>11 DEF CacheInv
  <2> QED BY <1>1, <1>5, <1>9, <1>10, <1>11, <1>12, <1>16, <2>1 DEF CacheInv, AllClosed
<1>14. SavedStays
  BY <1>1, <1>10, <1>11, Basics DEF SavedStays, SeenAfterCrash
<1>15. SeenStays
  BY <1>1, <1>9, Basics DEF SeenStays, Seen, Same
<1> QED BY <1>13, <1>14, <1>15

\* FlushFails keeps CacheInv: the disk has failed, and nothing is promised.
LEMMA FlushFailsInv ==
  ASSUME CacheInv, FlushFails
  PROVE  CacheInv' /\ failed'
<1>1. PICK m, d, s, f, e, k : /\ m = mem /\ d = disk /\ s = sb /\ f = failed /\ e = disk'
                              /\ k = Min(Dirty)
  OBVIOUS
<1>2. k \in Keys(m) /\ k \in Blk /\ k \in s.free
  BY <1>1, BlockWritten DEF FlushFails
<1>3. /\ e = d \/ e = [d EXCEPT ![k] = Bad]
      /\ d \in [Blk -> Datum] /\ Bad \in Datum
      /\ Whole(m, d, s, f) /\ Whole(Empty(s), d, s, f) /\ AllClosed(m) /\ f \in BOOLEAN
      /\ \A b \in s.free : b \in Keys(m) => d[b] = Bad
  BY <1>1 DEF FlushFails, Written, CacheInv, AllClosed, Datum
<1>4. /\ e \in [Blk -> Datum] /\ (\A b \in Blk \ {k} : e[b] = d[b])
      /\ e[k] = d[k] \/ e[k] = Bad
  BY <1>2, <1>3
<1>5. IsMem(m) /\ IsCache(m.cache) /\ Alike(m, m)
  BY <1>3 DEF Whole, Good, Mem, Alike
<1>6. PICK g : g = TRUE
  OBVIOUS
<1>7. Whole(m, e, s, g)
  <2>1. \A z \in Blk : At(m, e, z) = At(m, d, z)
    BY <1>2, <1>4 DEF At
  <2>2. g \in BOOLEAN /\ (f => g)
    BY <1>6
  <2> QED BY <1>3, <1>5, <2>1, <2>2, GoodFlushed
<1>8. Whole(Empty(s), e, s, g)
  <2>1. \A b \in Blk \ s.free : e[b] = d[b]
    BY <1>2, <1>4
  <2>2. g \in BOOLEAN /\ (f => g)
    BY <1>6
  <2> QED BY <1>3, <2>1, <2>2, DiskKept
<1>9. UNCHANGED <<sb, mem>> /\ ct' = "super" /\ failed' = TRUE
  BY DEF FlushFails
<1>10. \A b \in s.free : b \in Keys(m) => e[b] = Bad
  <2>1. Keys(m) \subseteq Blk
    BY <1>3 DEF Whole, Good, Mem
  <2> QED BY <1>2, <1>3, <1>4, <2>1
<1>11. sb' = [dir |-> sb'.dir, free |-> sb'.free, hint |-> sb'.hint]
  BY <1>9 DEF CacheInv
<1> QED BY <1>1, <1>3, <1>4, <1>6, <1>7, <1>8, <1>9, <1>10, <1>11 DEF CacheInv, AllClosed

\* The container ends with super block t and disk e, which has what memory shows.
LEMMA EndedInv ==
  ASSUME CacheInv, ~mem.reused, NEW t, t = [dir |-> t.dir, free |-> t.free, hint |-> t.hint],
         NEW e, Ended(e, t), failed' \in BOOLEAN, Whole(Empty(t), Forget(e, t), t, failed'),
         \A b \in Blk : e[b] \in Datum
  PROVE  CacheInv'
<1>1. /\ sb' = t /\ disk' = Forget(e, t) /\ ct' = "closed" /\ mem' = Empty(t)
  BY DEF Ended, Exposed
<1>2. Bad \in Datum
  BY DEF Datum
<1>3. disk' \in [Blk -> Datum]
  BY <1>1, <1>2 DEF Forget
<1>4. t.free \subseteq Blk
  <2>1. PICK m : m = Empty(t)
    OBVIOUS
  <2>2. m.free = t.free
    BY <2>1, EmptyIs
  <2> QED BY <2>1, <2>2 DEF Whole, Good, Mem
<1>5. \A b \in t.free : disk'[b] = Bad
  BY <1>1, <1>4 DEF Forget
<1>6. Keys(mem') = {}
  BY <1>1, EmptyIs
<1> QED BY <1>1, <1>3, <1>5, <1>6 DEF CacheInv

\* What blocks that are free had is forgotten.
LEMMA Forgotten ==
  ASSUME NEW e, NEW t
  PROVE  \A b \in Blk \ t.free : Forget(e, t)[b] = e[b]
  BY DEF Forget

\* Crash keeps CacheInv and leaves what was saved.
LEMMA CrashInv ==
  ASSUME CacheInv, ~mem.reused, Crash
  PROVE  CacheInv' /\ SavedStays /\ (~failed' => \A p \in Objects : Seen(p)' = SeenAfterCrash(p))
<1>1. PICK d, s, f : d = disk /\ s = sb /\ f = failed
  OBVIOUS
<1>2. PICK e : /\ Ended(e, s)
               /\ e = d \/ (ct = "flush" /\ Dirty # {} /\ e = Written(Bad))
               /\ failed' = failed
  BY <1>1 DEF Crash
<1>3. /\ s = [dir |-> s.dir, free |-> s.free, hint |-> s.hint] /\ d \in [Blk -> Datum]
      /\ f \in BOOLEAN /\ Whole(Empty(s), d, s, f) /\ Bad \in Datum
  BY <1>1 DEF CacheInv, Datum
<1>4. (\A b \in Blk : e[b] \in Datum) /\ \A b \in Blk \ s.free : e[b] = d[b]
  <2>1. CASE e = d
    BY <1>3, <2>1
  <2>2. CASE ct = "flush" /\ Dirty # {} /\ e = Written(Bad)
    <3>1. PICK k : k = Min(Dirty)
      OBVIOUS
    <3>2. k \in Blk /\ k \in s.free
      BY <1>1, <2>2, <3>1, BlockWritten
    <3>3. e = [d EXCEPT ![k] = Bad]
      BY <1>1, <2>2, <3>1 DEF Written
    <3> QED BY <1>3, <3>2, <3>3
  <2> QED BY <1>2, <2>1, <2>2
<1>5. PICK h : h = Forget(e, s)
  OBVIOUS
<1>6. PICK g \in BOOLEAN : g = f /\ (f => g)
  BY <1>3
<1>7. Whole(Empty(s), h, s, g) /\ \A p \in Owners : Cont(Empty(s), h, p) = Cont(Empty(s), d, p)
  <2>1. \A b \in Blk \ s.free : h[b] = d[b]
    BY <1>4, <1>5, Forgotten
  <2> QED BY ONLY <1>3, <1>6, <2>1, DiskKept
<1>8. CacheInv'
  BY <1>1, <1>2, <1>3, <1>4, <1>5, <1>6, <1>7, EndedInv
<1>9. sb' = s /\ disk' = h /\ mem' = Empty(s)
  BY <1>2, <1>5 DEF Ended
<1> QED BY <1>1, <1>7, <1>8, <1>9, Basics DEF SavedStays, SeenAfterCrash, Seen

\* When nothing is left to be written, all is on disk.
LEMMA NothingLeft ==
  ASSUME NEW m, NEW d, NEW s, NEW f, Whole(m, d, s, f), AllClosed(m),
         {b \in Keys(m) : m.cache[b].state = "dirty"} = {}
  PROVE  Keys(m) = {} /\ \A b : At(m, d, b) = d[b]
<1>1. ASSUME NEW b \in Keys(m)
      PROVE  FALSE
  <2>1. m.cache[b].owner \in Owners \cup {NoObject}
    BY <1>1 DEF Whole, Good, Mem, Caches
  <2>2. CASE m.cache[b].owner = NoObject
    BY <1>1, <2>2 DEF Whole, Good, Held
  <2>3. CASE m.cache[b].owner # NoObject
    BY <1>1, <2>1, <2>3 DEF Whole, Good, Held, AllClosed
  <2> QED BY <2>2, <2>3
<1> QED BY <1>1 DEF At

\* The super block is written last: it names blocks that are all on disk.
LEMMA SuperWrittenInv ==
  ASSUME CacheInv, ~mem.reused, FlushSuper(TRUE), SuperNow.dir # sb.dir
  PROVE  /\ CacheInv' /\ SeenStays
         /\ ~failed' => \A p \in Objects : SeenAfterCrash(p)' = Seen(p)
<1>1. PICK m, d, s, f, t : m = mem /\ d = disk /\ s = sb /\ f = failed /\ t = SuperNow
  OBVIOUS
<1>2. PICK h : h = Forget(d, t)
  OBVIOUS
<1>3. /\ t = [dir |-> m.dir, free |-> m.free, hint |-> m.hint]
      /\ t.dir = m.dir /\ t.free = m.free /\ t.hint = m.hint
  BY <1>1 DEF SuperNow
<1>4. /\ Ended(d, t) /\ failed' = (failed \/ ~TRUE)
      /\ ct = "super" \/ (ct = "flush" /\ Dirty = {})
  BY <1>1 DEF FlushSuper
<1>5. /\ Whole(m, d, s, f) /\ AllClosed(m) /\ f \in BOOLEAN /\ d \in [Blk -> Datum]
      /\ (ct = "super" => f) /\ \A b \in s.free : b \in Keys(m) => d[b] = Bad
  BY <1>1, <1>4 DEF CacheInv, AllClosed
<1>6. t.hint \in 1 .. LastBlk + 1
  BY <1>3, <1>5 DEF Whole, Good, Mem
<1>7. PICK g \in BOOLEAN : g = f /\ (f => g)
  BY <1>5
<1>8. ct = "flush" => \A z \in Blk \ m.free : h[z] = At(m, d, z)
  <2>1. \A z \in Blk \ m.free : h[z] = d[z]
    BY <1>2, <1>3, Forgotten
  <2>2. ct = "flush" => \A z : At(m, d, z) = d[z]
    <3>1. ct = "flush" => {b \in Keys(m) : m.cache[b].state = "dirty"} = {}
      BY <1>1, <1>4 DEF Dirty, Keys
    <3> QED BY <1>5, <3>1, NothingLeft
  <2> QED BY <2>1, <2>2
<1>9. ct = "super" => \A z \in Blk \ m.free : h[z] = At(m, d, z) \/ (g /\ h[z] = Bad)
  <2>1. ASSUME ct = "super", NEW z \in Blk \ m.free
        PROVE  h[z] = At(m, d, z) \/ (g /\ h[z] = Bad)
    <3>1. h[z] = d[z]
      BY <1>2, <1>3, Forgotten
    <3>2. CASE z \notin Keys(m)
      BY <3>1, <3>2 DEF At
    <3>3. CASE z \in Keys(m)
      <4>1. m.cache[z].owner \in Owners \cup {NoObject}
        BY <1>5, <3>3 DEF Whole, Good, Mem, Caches
      <4>2. m.cache[z].owner = NoObject
        BY <1>5, <3>3, <4>1 DEF Whole, Good, Held, AllClosed
      <4>3. m.cache[z].state = "dirty"
        BY <1>5, <3>3, <4>2 DEF Whole, Good, Held
      <4>4. z \in s.free
        BY <1>5, <3>3, <4>3 DEF Whole, Good, Moved
      <4> QED BY <1>5, <1>7, <2>1, <3>1, <3>3, <4>4
    <3> QED BY <3>2, <3>3
  <2> QED BY <2>1
<1>10. \A z \in Blk \ m.free : h[z] = At(m, d, z) \/ (g /\ h[z] = Bad)
  BY <1>4, <1>8, <1>9
<1>11. PICK r : r = Empty(t)
  OBVIOUS
<1>12. /\ Whole(r, h, t, g)
       /\ (\A z \in Blk \ m.free : h[z] = At(m, d, z)) =>
            \A p \in Owners : Cont(r, h, p) = Cont(m, d, p)
  BY ONLY <1>3, <1>5, <1>6, <1>7, <1>10, <1>11, GoodReloaded
<1>13. CacheInv'
  <2>1. t = [dir |-> t.dir, free |-> t.free, hint |-> t.hint]
    BY <1>3
  <2>2. failed' = g /\ failed' \in BOOLEAN
    BY <1>1, <1>4, <1>7
  <2> QED BY <1>2, <1>4, <1>5, <1>11, <1>12, <2>1, <2>2, EndedInv
<1>14. sb' = t /\ disk' = h /\ mem' = r
  BY <1>2, <1>4, <1>11 DEF Ended
<1>15. ~failed' => ct = "flush"
  BY <1>1, <1>4, <1>5
<1> QED BY <1>1, <1>8, <1>11, <1>12, <1>13, <1>14, <1>15, Basics
        DEF SeenStays, SeenAfterCrash, Seen

\* Nothing has changed, or the super block cannot be written: it stays.
LEMMA SuperLeftInv ==
  ASSUME CacheInv, ~mem.reused, NEW well \in BOOLEAN, FlushSuper(well), ~well \/ SuperNow.dir = sb.dir
  PROVE  /\ CacheInv' /\ SeenStays /\ SavedStays
         /\ ~failed' => \A p \in Objects : SeenAfterCrash(p)' = Seen(p)
<1>1. PICK m, d, s, f : m = mem /\ d = disk /\ s = sb /\ f = failed
  OBVIOUS
<1>2. PICK h, r : h = Forget(d, s) /\ r = Empty(s)
  OBVIOUS
<1>3. /\ Ended(d, s) /\ failed' = (failed \/ ~well)
      /\ ct = "super" \/ (ct = "flush" /\ Dirty = {})
  BY <1>1 DEF FlushSuper
<1>4. /\ Whole(m, d, s, f) /\ Whole(r, d, s, f) /\ AllClosed(m) /\ f \in BOOLEAN /\ d \in [Blk -> Datum]
      /\ (ct = "super" => f) /\ s = [dir |-> s.dir, free |-> s.free, hint |-> s.hint]
  BY <1>1, <1>2, <1>3 DEF CacheInv, AllClosed
<1>5. PICK g \in BOOLEAN : g = failed' /\ (f => g)
  BY <1>1, <1>3, <1>4
<1>6. Whole(r, h, s, g) /\ \A p \in Owners : Cont(r, h, p) = Cont(r, d, p)
  <2>1. \A b \in Blk \ s.free : h[b] = d[b]
    BY <1>2, Forgotten
  <2> QED BY <1>2, <1>4, <1>5, <2>1, DiskKept
<1>7. CacheInv'
  BY <1>2, <1>3, <1>4, <1>5, <1>6, EndedInv
<1>8. sb' = s /\ disk' = h /\ mem' = r
  BY <1>2, <1>3 DEF Ended
<1>9. ~failed' => \A p \in Owners : Cont(r, d, p) = Cont(m, d, p)
  <2>1. ASSUME ~failed'
        PROVE  \A p \in Owners : Cont(r, d, p) = Cont(m, d, p)
    <3>1. Dirty = {} /\ m.dir = s.dir
      BY <1>1, <1>3, <1>4, <2>1 DEF SuperNow
    <3>2. Keys(m) = {}
      <4>1. {b \in Keys(m) : m.cache[b].state = "dirty"} = {}
        BY <1>1, <3>1 DEF Dirty, Keys
      <4> QED BY <1>4, <4>1, NothingLeft
    <3>3. r.dir = s.dir /\ Keys(r) = {} /\ \A o \in Owners : r.info[o] = Closed
      BY <1>2, EmptyIs
    <3>4. r.info \in [Owners -> [inode : MaybeBlk, root : MaybeBlk, dirty : BOOLEAN]]
      BY <1>2, EmptyIs
    <3>5. r.info = m.info
      BY <1>4, <3>3, <3>4 DEF AllClosed, Opened, Whole, Good, Mem
    <3>6. Good(m, d, s, f, NoObject, NoBlk) /\ r.dir = m.dir
      BY <1>4, <3>1, <3>3 DEF Whole
    <3>7. \A o \in Owners : \A b \in Use(m, d, o) : At(r, d, b) = At(m, d, b)
      BY <3>2, <3>3 DEF At
    <3>8. \A o \in Owners : /\ Same(m, d, r, d, o) /\ Entry(r, d, o) = Entry(m, d, o)
                            /\ Use(r, d, o) = Use(m, d, o)
      BY <3>5, <3>6, <3>7, Frame
    <3> QED BY <3>8 DEF Same
  <2> QED BY <2>1
<1> QED BY <1>1, <1>2, <1>6, <1>7, <1>8, <1>9, Basics DEF SeenStays, SavedStays, SeenAfterCrash, Seen

-----------------------------------------------------------------------------
(* The theorems.                                                           *)

\* What a step changes: nothing, one object, what is saved, or all to what was saved.
ChangesOne == SavedStays /\ \E o \in Objects, v \in Values : SeenChanges(o, v)
Saves == SeenStays /\ (~failed' => \A p \in Objects : SeenAfterCrash(p)' = Seen(p))
Crashes == SavedStays /\ (~failed' => \A p \in Objects : Seen(p)' = SeenAfterCrash(p))

\* In this session no block that was freed has been given again, and no object that was
\* open opened again.
NoneAgain == ~mem.reused /\ ~mem.again

\* Where the invariant holds the code says what comes next.
LEMMA Defined ==
  ASSUME CacheInv
  PROVE  ~Undefined
  BY DEF CacheInv, Whole, Good, Mem, Undefined

\* Every step keeps CacheInv, and changes what users see and what is saved as Store says.
LEMMA StepKeeps ==
  ASSUME CacheInv, NoneAgain, NoneAgain', Next
  PROVE  CacheInv' /\ ((SeenStays /\ SavedStays) \/ ChangesOne \/ Saves \/ Crashes)
<1>1. ~mem.reused /\ ~mem'.reused /\ ~mem'.again
  BY DEF NoneAgain
<1>17. Step
  BY Defined DEF Next
<1>2. CASE OpenContainer
  BY <1>2, OpenContainerInv
<1>3. CASE OpenFails
  <2>1. UNCHANGED <<disk, sb, ct, mem, failed>>
    BY <1>3 DEF OpenFails, vars
  <2> QED BY <2>1 DEF CacheInv, SeenStays, SavedStays, Seen, SeenAfterCrash
<1>4. CASE CloseContainer
  BY <1>4, CloseContainerInv
<1>5. CASE CloseNext
  BY <1>1, <1>5, CloseNextInv
<1>6. CASE FlushBlock
  BY <1>6, FlushBlockInv
<1>7. CASE FlushFails
  BY <1>7, FlushFailsInv DEF SeenStays, SavedStays
<1>8. CASE Crash
  BY <1>1, <1>8, CrashInv DEF Crashes
<1>9. ASSUME NEW well \in BOOLEAN, FlushSuper(well)
      PROVE  CacheInv' /\ Saves
  <2>1. CASE well /\ SuperNow.dir # sb.dir
    <3>1. well = TRUE
      BY <2>1
    <3> QED BY <1>1, <1>9, <2>1, <3>1, SuperWrittenInv DEF Saves
  <2>2. CASE ~well \/ SuperNow.dir = sb.dir
    BY <1>1, <1>9, <2>2, SuperLeftInv DEF Saves
  <2> QED BY <2>1, <2>2
<1>10. ASSUME NEW o \in Objects, CreateObject(o)
       PROVE  CacheInv' /\ ChangesOne
  BY <1>1, <1>10, CreateObjectInv, Basics DEF ChangesOne
<1>11. ASSUME NEW o \in Objects, OpenObject(o)
       PROVE  CacheInv' /\ SeenStays /\ SavedStays
  BY <1>1, <1>11, OpenObjectInv
<1>12. ASSUME NEW o \in Objects, Grow(o)
       PROVE  CacheInv' /\ SeenStays /\ SavedStays
  BY <1>1, <1>12, GrowInv
<1>13. ASSUME NEW o \in Objects, Shrink(o)
       PROVE  CacheInv' /\ ChangesOne
  BY <1>1, <1>13, ShrinkInv, Basics DEF ChangesOne
<1>14. ASSUME NEW o \in Objects, CloseObject(o)
       PROVE  CacheInv' /\ SeenStays /\ SavedStays
  BY <1>1, <1>14, CloseObjectInv
<1>15. ASSUME NEW o \in Objects, NEW well \in BOOLEAN, ReadNode(o, well)
       PROVE  CacheInv' /\ SeenStays /\ SavedStays
  BY <1>15, ReadNodeInv
<1>16. ASSUME NEW o \in Objects, NEW v \in Values, Change(o, v)
       PROVE  CacheInv' /\ ChangesOne
  BY <1>1, <1>16, ChangeInv DEF ChangesOne
<1> QED BY <1>2, <1>3, <1>4, <1>5, <1>6, <1>7, <1>8, <1>9, <1>10, <1>11, <1>12, <1>13, <1>14,
           <1>15, <1>16, <1>17 DEF Step

\* Every step, and a stutter, keeps CacheInv.
LEMMA StepInv == CacheInv /\ NoneAgain /\ NoneAgain' /\ [Next]_vars => CacheInv'
<1>1. CacheInv /\ NoneAgain /\ NoneAgain' /\ Next => CacheInv'
  BY StepKeeps
<1>2. CacheInv /\ UNCHANGED vars => CacheInv'
  BY DEF CacheInv, vars
<1> QED BY <1>1, <1>2

\* As long as no session gives a freed block again or opens an object again (NoneAgain;
\* alloc_space and open_object do not forbid it), what is in memory, on disk and in the
\* super block fits together in every state, whatever the calls, failures and crashes.
THEOREM Invariance == Spec /\ []NoneAgain => []CacheInv
<1>1. Init => CacheInv
  BY InitInv
<1>2. CacheInv /\ NoneAgain /\ NoneAgain' /\ [Next]_vars => CacheInv'
  BY StepInv
<1> QED BY <1>1, <1>2, PTL DEF Spec

\* Each part of the state has its type, and the cache of an open object's inode is its own,
\* as long as no session gives a freed block again or opens an object again.
THEOREM TypeOKAlways == Spec /\ []NoneAgain => []TypeOK
<1>1. CacheInv => TypeOK
  <2> SUFFICES ASSUME CacheInv PROVE TypeOK
    OBVIOUS
  <2>1. PICK m : m = Empty(sb)
    OBVIOUS
  <2>2. m.free = sb.free /\ m.hint = sb.hint /\ m.dir = sb.dir
    BY <2>1, EmptyIs
  <2>3. /\ sb.dir \in Blk /\ sb.free \subseteq Blk /\ sb.hint \in 1 .. LastBlk + 1
    BY <2>1, <2>2 DEF CacheInv, Whole, Good, Mem
  <2>4. mem.fresh \subseteq mem.free /\ mem.free \subseteq Blk
    BY DEF CacheInv, Whole, Good, Mem
  <2>5. \A b \in DOMAIN mem.cache :
          mem.cache[b] \in [owner : Objects \cup {Dir, NoObject},
                            state : {"empty", "clean", "dirty"}, data : Datum]
    <3>1. \A b \in Keys(mem) : mem.cache[b] \in Caches
      BY DEF CacheInv, Whole, Good, Mem
    <3>2. Owners \cup {NoObject} = Objects \cup {Dir, NoObject}
      BY DEF Owners
    <3> QED BY <3>1, <3>2 DEF Keys, Caches
  <2>6. \A o \in Objects \cup {Dir} : IsOpen(o) => mem.cache[mem.info[o].inode].owner = o
    BY DEF CacheInv, Whole, Good, OpenOK, WellOpen, Owners, IsOpen, Opened
  <2> QED BY <2>3, <2>4, <2>5, <2>6 DEF TypeOK, CacheInv
<1> QED BY <1>1, Invariance, PTL

\* No block number is given to a second cache while the container is open
\* (insert_obj_cache, change_obj_cache_vbn), as long as no session gives a freed block again
\* or opens an object again: that no number of a moved inode, of an emptied node or of what
\* a closed object left to be written is met by another way.
THEOREM EachBlockCachedOnceAlways == Spec /\ []NoneAgain => []EachBlockCachedOnce
<1>1. CacheInv => EachBlockCachedOnce
  BY DEF CacheInv, Whole, Good, Mem, EachBlockCachedOnce
<1> QED BY <1>1, Invariance, PTL

-----------------------------------------------------------------------------
(* The container implements Store.                                         *)

\* The contents of an object, by the definitions of the abstract state.
LEMMA ViewIs ==
  ASSUME NEW m, NEW d, NEW s, Whole(m, d, s, FALSE), NEW at, at = [b \in Blk |-> At(m, d, b)],
         NEW o \in Objects
  PROVE  /\ Opened(m, o) => ContentsOf(at, OfRoot(m, o)) = Cont(m, d, o)
         /\ ~Opened(m, o) => ContentsIn(at, At(m, d, m.dir))[o] = Cont(m, d, o)
<1>1. Good(m, d, s, FALSE, NoObject, NoBlk) /\ o \in Owners /\ o # Dir /\ Dir \in Owners
  BY Basics DEF Whole
<1>2. ASSUME Opened(m, o)
      PROVE  ContentsOf(at, OfRoot(m, o)) = Cont(m, d, o)
  <2>1. /\ IsInode(OfRoot(m, o)) /\ NodeOf(m, o) = Ch(m, d, o) /\ OfRoot(m, o) = At(m, d, Ino(m, d, o))
        /\ Ino(m, d, o) # NoBlk /\ Ch(m, d, o) \in MaybeBlk
    BY <1>2, RootOf
  <2>2. OfRoot(m, o).kind = "inode" /\ OfRoot(m, o).child = Ch(m, d, o)
    BY <2>1 DEF IsInode, NodeOf
  <2>3. Ch(m, d, o) # NoBlk => at[Ch(m, d, o)] = At(m, d, Ch(m, d, o))
    BY <2>1 DEF MaybeBlk
  <2> QED BY <1>1, <2>1, <2>2, <2>3 DEF ContentsOf, Cont
<1>3. ASSUME ~Opened(m, o)
      PROVE  ContentsIn(at, At(m, d, m.dir))[o] = Cont(m, d, o)
  <2>1. IsDir(At(m, d, m.dir))
    <3>1. m.dir \in Blk /\ Ino(m, d, Dir) = m.dir
      BY <1>1, Places
    <3>2. CASE Opened(m, Dir)
      <4>1. m.info[Dir].inode = m.dir /\ m.dir \in Keys(m)
        BY <1>1, <3>1, <3>2, Places
      <4> QED BY <1>1, <3>2, <4>1 DEF Good, OpenOK, WellOpen, At
    <3>3. CASE ~Opened(m, Dir)
      BY <1>1, <3>1, <3>3, Basics DEF Good, Kinds
    <3> QED BY <3>2, <3>3
  <2>2. PICK e : e = At(m, d, m.dir)
    OBVIOUS
  <2>3. e.kind = "inode" /\ Ino(m, d, o) = e.entry[o] /\ e.entry[o] \in MaybeBlk
    BY <1>1, <1>3, <2>1, <2>2 DEF IsDir, Ino, Entry
  <2>4. ContentsIn(at, e)[o] = IF e.entry[o] = NoBlk THEN Absent ELSE ContentsOf(at, at[e.entry[o]])
    BY <2>3 DEF ContentsIn
  <2>5. CASE e.entry[o] = NoBlk
    BY <2>2, <2>3, <2>4, <2>5 DEF Cont
  <2>6. CASE e.entry[o] # NoBlk
    <3>1. PICK x : x = At(m, d, Ino(m, d, o))
      OBVIOUS
    <3>2. IsInode(x) /\ at[e.entry[o]] = x /\ Ino(m, d, o) # NoBlk
      BY <1>1, <1>3, <2>3, <2>6, <3>1 DEF Good, Kinds, MaybeBlk
    <3>3. Ch(m, d, o) = x.child /\ x.kind = "inode" /\ x.child \in MaybeBlk
      BY <1>1, <3>1, <3>2 DEF Ch, Below, IsInode
    <3>4. x.child # NoBlk => at[x.child] = At(m, d, x.child)
      BY <3>3 DEF MaybeBlk
    <3>5. ContentsOf(at, x) = Cont(m, d, o)
      BY <1>1, <3>1, <3>2, <3>3, <3>4 DEF ContentsOf, Cont
    <3> QED BY <2>2, <2>4, <2>6, <3>2, <3>5
  <2> QED BY <2>5, <2>6
<1> QED BY <1>2, <1>3

\* The contents that stand for the abstract state are what users see, and would see after a crash.
LEMMA CurrentIs ==
  CacheInv /\ NoneAgain /\ ~failed =>
    /\ CurrentContents = [o \in Objects |-> Seen(o)]
    /\ SavedContents = [o \in Objects |-> SeenAfterCrash(o)]
<1> SUFFICES ASSUME CacheInv, NoneAgain, ~failed
             PROVE  /\ CurrentContents = [o \in Objects |-> Seen(o)]
                    /\ SavedContents = [o \in Objects |-> SeenAfterCrash(o)]
  OBVIOUS
<1>1. Whole(mem, disk, sb, FALSE) /\ Whole(Empty(sb), disk, sb, FALSE) /\ disk \in [Blk -> Datum]
  BY DEF CacheInv
<1>4. ~Undefined /\ ~Exposed
  BY Defined DEF NoneAgain, Exposed
<1>2. CurrentContents = [o \in Objects |-> Seen(o)]
  <2>1. PICK at, e : at = Latest /\ e = IF IsOpen(Dir) THEN OfRoot(mem, Dir) ELSE Latest[mem.dir]
    OBVIOUS
  <2>2. at = [b \in Blk |-> At(mem, disk, b)]
    BY <2>1 DEF Latest, At, Keys
  <2>3. e = At(mem, disk, mem.dir)
    <3>1. mem.dir \in Blk /\ Ino(mem, disk, Dir) = mem.dir
      BY <1>1, Places, Basics DEF Whole
    <3>2. CASE IsOpen(Dir)
      <4>1. mem.info[Dir].inode = mem.dir /\ mem.dir \in Keys(mem)
        <5>1. Good(mem, disk, sb, FALSE, NoObject, NoBlk) /\ Opened(mem, Dir)
          BY <1>1, <3>2 DEF Whole, IsOpen, Opened
        <5> QED BY <3>1, <5>1, OpenFacts, Basics
      <4> QED BY <2>1, <3>2, <4>1 DEF OfRoot, At
    <3>3. CASE ~IsOpen(Dir)
      BY <2>1, <2>2, <3>1, <3>3
    <3> QED BY <3>2, <3>3
  <2>4. PICK all : all = ContentsIn(at, e)
    OBVIOUS
  <2>5. CurrentContents = [o \in Objects |-> IF IsOpen(o) THEN ContentsOf(at, OfRoot(mem, o)) ELSE all[o]]
    BY <1>4, <2>1, <2>4 DEF CurrentContents
  <2>6. ASSUME NEW o \in Objects
        PROVE  (IF IsOpen(o) THEN ContentsOf(at, OfRoot(mem, o)) ELSE all[o]) = Seen(o)
    <3>1. IsOpen(o) <=> Opened(mem, o)
      BY DEF IsOpen, Opened
    <3>2. PICK m, d, s : m = mem /\ d = disk /\ s = sb
      OBVIOUS
    <3>3. /\ Opened(m, o) => ContentsOf(at, OfRoot(m, o)) = Cont(m, d, o)
          /\ ~Opened(m, o) => ContentsIn(at, At(m, d, m.dir))[o] = Cont(m, d, o)
      BY <1>1, <2>2, <3>2, ViewIs
    <3> QED BY <2>3, <2>4, <3>1, <3>2, <3>3 DEF Seen
  <2> QED BY <2>5, <2>6
<1>3. SavedContents = [o \in Objects |-> SeenAfterCrash(o)]
  <2>1. PICK m : m = Empty(sb)
    OBVIOUS
  <2>2. /\ m.dir = sb.dir /\ AllClosed(m) /\ \A d, b : At(m, d, b) = d[b]
    BY <2>1, EmptyIs
  <2>3. disk = [b \in Blk |-> At(m, disk, b)] /\ At(m, disk, m.dir) = disk[sb.dir]
    BY <1>1, <2>2
  <2>4. ASSUME NEW o \in Objects
        PROVE  ContentsIn(disk, disk[sb.dir])[o] = SeenAfterCrash(o)
    <3>1. PICK d, s : d = disk /\ s = sb
      OBVIOUS
    <3>2. ~Opened(m, o)
      BY <2>2, Basics DEF AllClosed
    <3>4. Whole(m, d, s, FALSE) /\ d = [b \in Blk |-> At(m, d, b)]
      BY <1>1, <2>1, <2>3, <3>1
    <3>3. /\ Opened(m, o) => ContentsOf(d, OfRoot(m, o)) = Cont(m, d, o)
          /\ ~Opened(m, o) => ContentsIn(d, At(m, d, m.dir))[o] = Cont(m, d, o)
      BY <3>4, ViewIs
    <3> QED BY <2>1, <2>3, <3>1, <3>2, <3>3 DEF SeenAfterCrash
  <2>5. ContentsIn(disk, disk[sb.dir]) = [o \in Objects |-> ContentsIn(disk, disk[sb.dir])[o]]
    BY DEF ContentsIn
  <2> QED BY <1>4, <2>4, <2>5 DEF SavedContents, Undefined
<1> QED BY <1>2, <1>3

\* The same in the next state.
LEMMA CurrentIsNext ==
  CacheInv' /\ NoneAgain' /\ ~failed' =>
    /\ CurrentContents' = [o \in Objects |-> Seen(o)']
    /\ SavedContents' = [o \in Objects |-> SeenAfterCrash(o)']
<1>1. (CacheInv /\ NoneAgain /\ ~failed =>
         /\ CurrentContents = [o \in Objects |-> Seen(o)]
         /\ SavedContents = [o \in Objects |-> SeenAfterCrash(o)])'
  BY CurrentIs, PTL
<1> QED BY <1>1

\* Calls of objects need an open container.
Call(o) ==
  \/ CreateObject(o) \/ OpenObject(o) \/ Grow(o) \/ Shrink(o) \/ CloseObject(o)
  \/ \E well \in BOOLEAN : ReadNode(o, well)
  \/ \E v \in Values : Change(o, v)

\* A call is an action of an open container, of one object.
LEMMA CallIs ==
  ASSUME NEW o \in Objects, Call(o)
  PROVE  ct = "open" /\ (failed => failed')
<1>1. CASE CreateObject(o) \/ OpenObject(o) \/ Grow(o)
  BY <1>1 DEF CreateObject, OpenObject, Grow
<1>2. CASE Shrink(o) \/ CloseObject(o)
  BY <1>2 DEF Shrink, CloseObject
<1>3. ASSUME NEW well \in BOOLEAN, ReadNode(o, well)
      PROVE  ct = "open" /\ (failed => failed')
  BY <1>3 DEF ReadNode
<1>4. ASSUME NEW v \in Values, Change(o, v)
      PROVE  ct = "open" /\ (failed => failed')
  BY <1>4 DEF Change
<1> QED BY <1>1, <1>2, <1>3, <1>4 DEF Call

\* A step is a call, a close, a step of the flush, or the end or the start of a session.
LEMMA NextIs ==
  ASSUME Step
  PROVE  \/ OpenContainer \/ OpenFails \/ CloseContainer \/ CloseNext \/ FlushBlock
         \/ FlushFails \/ Crash \/ \E well \in BOOLEAN : FlushSuper(well)
         \/ \E o \in Objects : Call(o)
  BY DEF Step, Call

\* A disk that has failed has failed for good.
LEMMA FailedStays ==
  ASSUME CacheInv, Next, failed
  PROVE  failed'
<1>5. Step
  BY Defined DEF Next
<1>1. CASE OpenContainer \/ OpenFails \/ CloseContainer \/ CloseNext
  BY <1>1 DEF OpenContainer, OpenFails, vars, CloseContainer, CloseNext
<1>2. CASE FlushBlock \/ FlushFails \/ Crash
  BY <1>2 DEF FlushBlock, FlushFails, Crash
<1>3. CASE \E well \in BOOLEAN : FlushSuper(well)
  BY <1>3 DEF FlushSuper
<1>4. CASE \E o \in Objects : Call(o)
  BY <1>4, CallIs
<1> QED BY <1>1, <1>2, <1>3, <1>4, <1>5, NextIs

\* What users see changes only as a call says, and what is saved only all at once: caches,
\* moved roots, emptied nodes and the flush implement the store of Store, whatever block is
\* written when the machine stops (set_ib_dirty, validate_obj_inode, flush_fs_cache), as long
\* as no session gives a freed block again or opens an object again.
THEOREM ImplementsStoreAlways == Spec /\ []NoneAgain => ImplementsStore
<1>1. Init => Promised!Init
  <2> SUFFICES ASSUME Init PROVE Promised!Init
    OBVIOUS
  <2>1. CacheInv /\ failed = FALSE /\ mem = Empty(sb) /\ ~Undefined
    BY InitInv, Defined DEF Init
  <2>3. NoneAgain /\ ~Exposed
    BY <2>1 DEF Empty, NoneAgain, Exposed
  <2>2. CurrentContents = SavedContents
    BY <2>1, <2>3, CurrentIs DEF Seen, SeenAfterCrash
  <2> QED BY <2>1, <2>2, <2>3 DEF Promised!Init
<1>2. /\ CacheInv /\ CacheInv' /\ NoneAgain /\ NoneAgain' /\ [Next]_vars
      => [Promised!Next]_(Promised!vars)
  <2> SUFFICES ASSUME CacheInv, CacheInv', NoneAgain, NoneAgain', [Next]_vars
               PROVE  [Promised!Next]_(Promised!vars)
    OBVIOUS
  <2>1. CASE failed'
    <3>1. (~failed /\ ~Undefined /\ ~Exposed)' = FALSE
      BY <2>1
    <3> QED BY <3>1 DEF Promised!Next, Promised!Fails
  <2>2. CASE ~failed'
    <3>1. (SeenStays /\ SavedStays) \/ ChangesOne \/ Saves \/ Crashes
      <4>1. CASE Next
        BY <4>1, StepKeeps
      <4>2. CASE UNCHANGED vars
        BY <4>2 DEF vars, SeenStays, SavedStays, Seen, SeenAfterCrash
      <4> QED BY <4>1, <4>2
    <3>2. ~failed
      <4>1. CASE Next
        BY <2>2, <4>1, FailedStays
      <4>2. CASE UNCHANGED vars
        BY <2>2, <4>2 DEF vars
      <4> QED BY <4>1, <4>2
    <3>3. /\ CurrentContents = [o \in Objects |-> Seen(o)]
          /\ SavedContents = [o \in Objects |-> SeenAfterCrash(o)]
          /\ CurrentContents' = [o \in Objects |-> Seen(o)']
          /\ SavedContents' = [o \in Objects |-> SeenAfterCrash(o)']
      BY <2>2, <3>2, CurrentIs, CurrentIsNext
    <3>4. (~failed /\ ~Undefined /\ ~Exposed)' = (~failed /\ ~Undefined /\ ~Exposed)
      <4>1. ~Undefined /\ ~Exposed
        BY Defined DEF NoneAgain, Exposed
      <4>2. (~Undefined /\ ~Exposed)'
        <5>1. (CacheInv => ~Undefined)'
          BY Defined, PTL
        <5> QED BY <5>1 DEF NoneAgain, Exposed
      <4> QED BY <2>2, <3>2, <4>1, <4>2
    <3>5. CASE SeenStays /\ SavedStays
      <4>1. CurrentContents' = CurrentContents /\ SavedContents' = SavedContents
        BY <2>2, <3>3, <3>5 DEF SeenStays, SavedStays
      <4> QED BY <3>4, <4>1 DEF Promised!vars
    <3>6. CASE ChangesOne
      <4>1. SavedContents' = SavedContents
        BY <2>2, <3>3, <3>6 DEF ChangesOne, SavedStays
      <4>2. PICK o \in Objects, v \in Values : SeenChanges(o, v)
        BY <3>6 DEF ChangesOne
      <4>3. CurrentContents' = [CurrentContents EXCEPT ![o] = v]
        BY <2>2, <3>3, <4>2 DEF SeenChanges
      <4>4. v \in Values \cup {Absent}
        OBVIOUS
      <4>5. Promised!Change(o)
        BY <4>1, <4>3, <4>4 DEF Promised!Change
      <4> QED BY <3>4, <4>5 DEF Promised!Next
    <3>7. CASE Saves
      <4>1. CurrentContents' = CurrentContents /\ SavedContents' = CurrentContents
        BY <2>2, <3>3, <3>7 DEF Saves, SeenStays
      <4> QED BY <3>4, <4>1 DEF Promised!Next, Promised!Save
    <3>8. CASE Crashes
      <4>1. CurrentContents' = SavedContents /\ SavedContents' = SavedContents
        BY <2>2, <3>3, <3>8 DEF Crashes, SavedStays
      <4>2. Promised!Crash
        BY <4>1 DEF Promised!Crash
      <4> QED BY <3>4, <4>2, Zenon DEF Promised!Next
    <3> QED BY <3>1, <3>5, <3>6, <3>7, <3>8
  <2> QED BY <2>1, <2>2
<1> QED BY <1>1, <1>2, Invariance, PTL DEF Spec, ImplementsStore, Promised!Spec

\* Closing changes nothing that users see, and when the container is closed, all that they
\* saw is what a start would find, unless the disk fails or the machine stops
\* (close_object, close_container, release_obj_cache, flush_fs_cache), as long as no session
\* gives a freed block again or opens an object again.
THEOREM CloseSavesAlways == Spec /\ []NoneAgain => CloseSaves
<1>1. ASSUME CacheInv, CacheInv', NoneAgain, NoneAgain', Next, ~failed',
             (\E o \in Objects : CloseObject(o)) \/ (ct \in {"closing", "flush", "super"} /\ ~Crash)
      PROVE  /\ CurrentContents' = CurrentContents
             /\ ct' = "closed" => SavedContents' = CurrentContents
  <2>1. SeenStays /\ (ct' = "closed" => Saves)
    <3>1. ~mem.reused /\ ~mem'.reused /\ Step
      BY <1>1, Defined DEF Next, NoneAgain
    <3>2. ASSUME NEW o \in Objects, CloseObject(o)
          PROVE  SeenStays /\ ct' # "closed"
      BY <3>1, <1>1, <3>2, CloseObjectInv DEF CloseObject
    <3>3. CASE ct \in {"closing", "flush", "super"} /\ ~Crash
      <4>1. CloseNext \/ FlushBlock \/ FlushFails \/ \E well \in BOOLEAN : FlushSuper(well)
        <5>1. ~OpenContainer /\ ~OpenFails /\ ~CloseContainer
          BY <3>3 DEF OpenContainer, OpenFails, CloseContainer
        <5>2. \A o \in Objects : ~Call(o)
          BY <3>3, CallIs
        <5> QED BY <3>1, <3>3, <5>1, <5>2, NextIs
      <4>2. CASE CloseNext
        <5>1. ct' # "closed"
          BY <4>2 DEF CloseNext
        <5> QED BY <1>1, <3>1, <4>2, <5>1, CloseNextInv
      <4>3. CASE FlushBlock
        BY <1>1, <3>3, <4>3, FlushBlockInv DEF FlushBlock
      <4>4. CASE FlushFails
        BY <1>1, <4>4 DEF FlushFails
      <4>5. ASSUME NEW well \in BOOLEAN, FlushSuper(well)
            PROVE  SeenStays /\ Saves
        <5>1. CASE well /\ SuperNow.dir # sb.dir
          <6>1. well = TRUE
            BY <5>1
          <6> QED BY <1>1, <3>1, <4>5, <5>1, <6>1, SuperWrittenInv DEF Saves
        <5>2. CASE ~well \/ SuperNow.dir = sb.dir
          BY <1>1, <3>1, <4>5, <5>2, SuperLeftInv DEF Saves
        <5> QED BY <5>1, <5>2
      <4> QED BY <4>1, <4>2, <4>3, <4>4, <4>5
    <3> QED BY <1>1, <3>2, <3>3
  <2>2. ~failed
    BY <1>1, FailedStays
  <2>3. /\ CurrentContents = [o \in Objects |-> Seen(o)]
        /\ CurrentContents' = [o \in Objects |-> Seen(o)']
        /\ SavedContents' = [o \in Objects |-> SeenAfterCrash(o)']
    BY <1>1, <2>2, CurrentIs, CurrentIsNext
  <2> QED BY <1>1, <2>1, <2>3 DEF SeenStays, Saves
<1>2. CacheInv /\ CacheInv' /\ NoneAgain /\ NoneAgain' /\ [Next]_vars =>
        [/\ ~failed' /\ ~mem'.clash
         /\ \/ \E o \in Objects : CloseObject(o)
            \/ ct \in {"closing", "flush", "super"} /\ ~Crash
         => /\ CurrentContents' = CurrentContents
            /\ ct' = "closed" => SavedContents' = CurrentContents]_vars
  BY <1>1
<1> QED BY <1>2, Invariance, PTL DEF Spec, CloseSaves
=============================================================================
