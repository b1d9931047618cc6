------------------------ MODULE SpaceManager_proofs ------------------------
(***************************************************************************)
(* Proofs about SpaceManager, for every device and all sizes of nodes and  *)
(* of the reserve.                                                         *)
(*                                                                         *)
(* That every block is one of the device holds for any number of threads.  *)
(* That no block has two owners is proved for one thread, through every    *)
(* nesting of the calls of the two managers and every failure: with two,   *)
(* base_blk is used without a lock, and it does not hold.                  *)
(* That the counters stay exact holds for any number of threads, as long   *)
(* as no request of the SPACE tree is refused.  With one thread, and as    *)
(* long as base_blk is used one by one besides, no block is lost.          *)
(***************************************************************************)
EXTENDS SpaceManager, Extents_proofs, FiniteSetTheorems

-----------------------------------------------------------------------------
(* The types, for any number of threads: all blocks are in the device.     *)

ManagerOf(ext, first, total, lock) ==
  [ext |-> ext, first |-> first, total |-> total, lock |-> lock]

TreeOf(clean, dirty) == [clean |-> clean, dirty |-> dirty]

FrameOf(pc, op, start, cnt, ret, left, req, old) ==
  [pc |-> pc, op |-> op, start |-> start, cnt |-> cnt, ret |-> ret, left |-> left, req |-> req,
   old |-> old]

Device == 0 .. (EndBlk - 1)

DeviceExtents == {e \in Extent : e.addr < EndBlk /\ e.addr + e.len <= EndBlk}

Within(s, n) == s + n <= EndBlk

WholeManager(M) == M = ManagerOf(M.ext, M.first, M.total, M.lock)
WholeTree(T) == T = TreeOf(T.clean, T.dirty)
WholeFrame(f) == f = FrameOf(f.pc, f.op, f.start, f.cnt, f.ret, f.left, f.req, f.old)

IsManager(M) ==
  /\ WholeManager(M)
  /\ M.ext \subseteq DeviceExtents /\ M.first \in Nat /\ M.total \in Nat
  /\ M.lock \in Thread \cup {NoThread}

IsTree(T) == WholeTree(T) /\ T.clean \subseteq Device /\ T.dirty \subseteq Device

\* The fields of a frame.  What a call gives back, or was given, ends in the device;
\* what it asks for need not.
InRange(pc, op, start, cnt, ret, left, req, old) ==
  /\ pc \in {"idle", "enter", "removed", "ready", "split", "inserted", "done"}
  /\ op \in {"none", "alloc", "free"} /\ ret \in {"ok", "no_free_blocks", "error"}
  /\ req \in {"none", "move", "split", "drop"}
  /\ left \subseteq DeviceExtents /\ start \in Device /\ cnt \in Nat /\ old \in Device
  /\ pc = "enter" => ret = "ok"
  /\ req # "none" => pc \in {"removed", "split", "inserted"}
  /\ (pc = "enter" /\ op = "alloc") \/ ret # "ok" \/ Within(start, cnt)

IsFrame(f) ==
  WholeFrame(f) /\ InRange(f.pc, f.op, f.start, f.cnt, f.ret, f.left, f.req, f.old)

Stages ==
  {"idle", "base_block", "check", "reserve", "reserved", "giving", "block", "free"}

ManagersOK == mgr = [m \in Mgr |-> mgr[m]] /\ \A m \in Mgr : IsManager(mgr[m])
TreesOK == tree = [m \in Mgr |-> tree[m]] /\ \A m \in Mgr : IsTree(tree[m])
FramesOK ==
  /\ frame = [t \in Thread |-> frame[t]]
  /\ \A t \in Thread : frame[t] = [m \in Mgr |-> frame[t][m]]
  /\ \A t \in Thread, m \in Mgr : IsFrame(frame[t][m])
RestOK == base_blk \in Device /\ held \in SUBSET Device /\ user \in [Thread -> Stages]

TypeInv == ManagersOK /\ TreesOK /\ FramesOK /\ RestOK

-----------------------------------------------------------------------------
(* What the assignments of the actions do to managers, trees and frames.   *)

\* The fields of a manager, a tree and a frame.
LEMMA Fields ==
  ASSUME NEW a, NEW b, NEW c, NEW d, NEW e, NEW l, NEW q, NEW o
  PROVE  /\ ManagerOf(a, b, c, d).ext = a /\ ManagerOf(a, b, c, d).first = b
         /\ ManagerOf(a, b, c, d).total = c /\ ManagerOf(a, b, c, d).lock = d
         /\ TreeOf(a, b).clean = a /\ TreeOf(a, b).dirty = b
         /\ FrameOf(a, b, c, d, e, l, q, o).pc = a /\ FrameOf(a, b, c, d, e, l, q, o).op = b
         /\ FrameOf(a, b, c, d, e, l, q, o).start = c /\ FrameOf(a, b, c, d, e, l, q, o).cnt = d
         /\ FrameOf(a, b, c, d, e, l, q, o).ret = e /\ FrameOf(a, b, c, d, e, l, q, o).left = l
         /\ FrameOf(a, b, c, d, e, l, q, o).req = q /\ FrameOf(a, b, c, d, e, l, q, o).old = o
         /\ WholeManager(ManagerOf(a, b, c, d)) /\ WholeTree(TreeOf(a, b))
         /\ WholeFrame(FrameOf(a, b, c, d, e, l, q, o))
  BY DEF ManagerOf, TreeOf, FrameOf, WholeManager, WholeTree, WholeFrame

\* An extent is taken out and the lock taken.
LEMMA SetExtLock ==
  ASSUME NEW M, WholeManager(M), NEW x, NEW y
  PROVE  [M EXCEPT !.ext = x, !.lock = y] = ManagerOf(x, M.first, M.total, y)
<1>1. PICK a, b, c, d : a = M.ext /\ b = M.first /\ c = M.total /\ d = M.lock
  OBVIOUS
<1>2. M = ManagerOf(a, b, c, d)
  BY <1>1 DEF WholeManager
<1>3. PICK r : r = [M EXCEPT !.ext = x, !.lock = y]
  OBVIOUS
<1>4. r = ManagerOf(x, b, c, y)
  BY ONLY <1>2, <1>3 DEF ManagerOf
<1> QED BY <1>1, <1>3, <1>4

\* An extent is put in.
LEMMA SetExt ==
  ASSUME NEW M, WholeManager(M), NEW x
  PROVE  [M EXCEPT !.ext = x] = ManagerOf(x, M.first, M.total, M.lock)
<1>1. PICK a, b, c, d : a = M.ext /\ b = M.first /\ c = M.total /\ d = M.lock
  OBVIOUS
<1>2. M = ManagerOf(a, b, c, d)
  BY <1>1 DEF WholeManager
<1>3. PICK r : r = [M EXCEPT !.ext = x]
  OBVIOUS
<1>4. r = ManagerOf(x, b, c, d)
  BY ONLY <1>2, <1>3 DEF ManagerOf
<1> QED BY <1>1, <1>3, <1>4

\* The lock is taken.
LEMMA SetLock ==
  ASSUME NEW M, WholeManager(M), NEW x
  PROVE  [M EXCEPT !.lock = x] = ManagerOf(M.ext, M.first, M.total, x)
<1>1. PICK a, b, c, d : a = M.ext /\ b = M.first /\ c = M.total /\ d = M.lock
  OBVIOUS
<1>2. M = ManagerOf(a, b, c, d)
  BY <1>1 DEF WholeManager
<1>3. PICK r : r = [M EXCEPT !.lock = x]
  OBVIOUS
<1>4. r = ManagerOf(a, b, c, x)
  BY ONLY <1>2, <1>3 DEF ManagerOf
<1> QED BY <1>1, <1>3, <1>4

\* There is no space.
LEMMA SetTotalFirst ==
  ASSUME NEW M, WholeManager(M), NEW x, NEW y
  PROVE  [M EXCEPT !.total = x, !.first = y] = ManagerOf(M.ext, y, x, M.lock)
<1>1. PICK a, b, c, d : a = M.ext /\ b = M.first /\ c = M.total /\ d = M.lock
  OBVIOUS
<1>2. M = ManagerOf(a, b, c, d)
  BY <1>1 DEF WholeManager
<1>3. PICK r : r = [M EXCEPT !.total = x, !.first = y]
  OBVIOUS
<1>4. r = ManagerOf(a, y, x, d)
  BY ONLY <1>2, <1>3 DEF ManagerOf
<1> QED BY <1>1, <1>3, <1>4

\* A call gives up.
LEMMA SetLockFirstTotal ==
  ASSUME NEW M, WholeManager(M), NEW x, NEW y, NEW z
  PROVE  [M EXCEPT !.lock = x, !.first = y, !.total = z] = ManagerOf(M.ext, y, z, x)
<1>1. PICK a, b, c, d : a = M.ext /\ b = M.first /\ c = M.total /\ d = M.lock
  OBVIOUS
<1>2. M = ManagerOf(a, b, c, d)
  BY <1>1 DEF WholeManager
<1>3. PICK r : r = [M EXCEPT !.lock = x, !.first = y, !.total = z]
  OBVIOUS
<1>4. r = ManagerOf(a, y, z, x)
  BY ONLY <1>2, <1>3 DEF ManagerOf
<1> QED BY <1>1, <1>3, <1>4

\* A call is refused.
LEMMA SetPcRet ==
  ASSUME NEW f, WholeFrame(f), NEW x, NEW y
  PROVE  [f EXCEPT !.pc = x, !.ret = y] = FrameOf(x, f.op, f.start, f.cnt, y, f.left, f.req, f.old)
<1>1. PICK a, b, c, d, e, l, q, o : a = f.pc /\ b = f.op /\ c = f.start /\ d = f.cnt /\ e = f.ret /\ l = f.left /\ q = f.req /\ o = f.old
  OBVIOUS
<1>2. f = FrameOf(a, b, c, d, e, l, q, o)
  BY <1>1 DEF WholeFrame
<1>3. PICK r : r = [f EXCEPT !.pc = x, !.ret = y]
  OBVIOUS
<1>4. r = FrameOf(x, b, c, d, y, l, q, o)
  BY ONLY <1>2, <1>3 DEF FrameOf
<1> QED BY <1>1, <1>3, <1>4

\* A call has got a run.
LEMMA SetGiven ==
  ASSUME NEW f, WholeFrame(f), NEW x, NEW y, NEW z, NEW w
  PROVE  [f EXCEPT !.pc = x, !.start = y, !.cnt = z, !.left = w] = FrameOf(x, f.op, y, z, f.ret, w, f.req, f.old)
<1>1. PICK a, b, c, d, e, l, q, o : a = f.pc /\ b = f.op /\ c = f.start /\ d = f.cnt /\ e = f.ret /\ l = f.left /\ q = f.req /\ o = f.old
  OBVIOUS
<1>2. f = FrameOf(a, b, c, d, e, l, q, o)
  BY <1>1 DEF WholeFrame
<1>3. PICK r : r = [f EXCEPT !.pc = x, !.start = y, !.cnt = z, !.left = w]
  OBVIOUS
<1>4. r = FrameOf(x, b, y, z, e, w, q, o)
  BY ONLY <1>2, <1>3 DEF FrameOf
<1> QED BY <1>1, <1>3, <1>4

\* A call has found its place.
LEMMA SetPcLeft ==
  ASSUME NEW f, WholeFrame(f), NEW x, NEW y
  PROVE  [f EXCEPT !.pc = x, !.left = y] = FrameOf(x, f.op, f.start, f.cnt, f.ret, y, f.req, f.old)
<1>1. PICK a, b, c, d, e, l, q, o : a = f.pc /\ b = f.op /\ c = f.start /\ d = f.cnt /\ e = f.ret /\ l = f.left /\ q = f.req /\ o = f.old
  OBVIOUS
<1>2. f = FrameOf(a, b, c, d, e, l, q, o)
  BY <1>1 DEF WholeFrame
<1>3. PICK r : r = [f EXCEPT !.pc = x, !.left = y]
  OBVIOUS
<1>4. r = FrameOf(x, b, c, d, e, y, q, o)
  BY ONLY <1>2, <1>3 DEF FrameOf
<1> QED BY <1>1, <1>3, <1>4

\* A call has put an extent in.
LEMMA SetLeftPc ==
  ASSUME NEW f, WholeFrame(f), NEW x, NEW y
  PROVE  [f EXCEPT !.left = x, !.pc = y] = FrameOf(y, f.op, f.start, f.cnt, f.ret, x, f.req, f.old)
<1>1. PICK a, b, c, d, e, l, q, o : a = f.pc /\ b = f.op /\ c = f.start /\ d = f.cnt /\ e = f.ret /\ l = f.left /\ q = f.req /\ o = f.old
  OBVIOUS
<1>2. f = FrameOf(a, b, c, d, e, l, q, o)
  BY <1>1 DEF WholeFrame
<1>3. PICK r : r = [f EXCEPT !.left = x, !.pc = y]
  OBVIOUS
<1>4. r = FrameOf(y, b, c, d, e, x, q, o)
  BY ONLY <1>2, <1>3 DEF FrameOf
<1> QED BY <1>1, <1>3, <1>4

\* A call goes on.
LEMMA SetPc ==
  ASSUME NEW f, WholeFrame(f), NEW x
  PROVE  [f EXCEPT !.pc = x] = FrameOf(x, f.op, f.start, f.cnt, f.ret, f.left, f.req, f.old)
<1>1. PICK a, b, c, d, e, l, q, o : a = f.pc /\ b = f.op /\ c = f.start /\ d = f.cnt /\ e = f.ret /\ l = f.left /\ q = f.req /\ o = f.old
  OBVIOUS
<1>2. f = FrameOf(a, b, c, d, e, l, q, o)
  BY <1>1 DEF WholeFrame
<1>3. PICK r : r = [f EXCEPT !.pc = x]
  OBVIOUS
<1>4. r = FrameOf(x, b, c, d, e, l, q, o)
  BY ONLY <1>2, <1>3 DEF FrameOf
<1> QED BY <1>1, <1>3, <1>4

\* A request for a node begins or ends.
LEMMA SetReqOld ==
  ASSUME NEW f, WholeFrame(f), NEW x, NEW y
  PROVE  [f EXCEPT !.req = x, !.old = y] = FrameOf(f.pc, f.op, f.start, f.cnt, f.ret, f.left, x, y)
<1>1. PICK a, b, c, d, e, l, q, o : a = f.pc /\ b = f.op /\ c = f.start /\ d = f.cnt /\ e = f.ret /\ l = f.left /\ q = f.req /\ o = f.old
  OBVIOUS
<1>2. f = FrameOf(a, b, c, d, e, l, q, o)
  BY <1>1 DEF WholeFrame
<1>3. PICK r : r = [f EXCEPT !.req = x, !.old = y]
  OBVIOUS
<1>4. r = FrameOf(a, b, c, d, e, l, x, y)
  BY ONLY <1>2, <1>3 DEF FrameOf
<1> QED BY <1>1, <1>3, <1>4

\* A request for a split ends, one for a move goes on.
LEMMA SetReq ==
  ASSUME NEW f, WholeFrame(f), NEW x
  PROVE  [f EXCEPT !.req = x] = FrameOf(f.pc, f.op, f.start, f.cnt, f.ret, f.left, x, f.old)
<1>1. PICK a, b, c, d, e, l, q, o : a = f.pc /\ b = f.op /\ c = f.start /\ d = f.cnt /\ e = f.ret /\ l = f.left /\ q = f.req /\ o = f.old
  OBVIOUS
<1>2. f = FrameOf(a, b, c, d, e, l, q, o)
  BY <1>1 DEF WholeFrame
<1>3. PICK r : r = [f EXCEPT !.req = x]
  OBVIOUS
<1>4. r = FrameOf(a, b, c, d, e, l, x, o)
  BY ONLY <1>2, <1>3 DEF FrameOf
<1> QED BY <1>1, <1>3, <1>4

\* A split asks for a block.
LEMMA SetPcReq ==
  ASSUME NEW f, WholeFrame(f), NEW x, NEW y
  PROVE  [f EXCEPT !.pc = x, !.req = y] = FrameOf(x, f.op, f.start, f.cnt, f.ret, f.left, y, f.old)
<1>1. PICK a, b, c, d, e, l, q, o : a = f.pc /\ b = f.op /\ c = f.start /\ d = f.cnt /\ e = f.ret /\ l = f.left /\ q = f.req /\ o = f.old
  OBVIOUS
<1>2. f = FrameOf(a, b, c, d, e, l, q, o)
  BY <1>1 DEF WholeFrame
<1>3. PICK r : r = [f EXCEPT !.pc = x, !.req = y]
  OBVIOUS
<1>4. r = FrameOf(x, b, c, d, e, l, y, o)
  BY ONLY <1>2, <1>3 DEF FrameOf
<1> QED BY <1>1, <1>3, <1>4

\* A call gives up.
LEMMA SetPcRetReq ==
  ASSUME NEW f, WholeFrame(f), NEW x, NEW y, NEW z
  PROVE  [f EXCEPT !.pc = x, !.ret = y, !.req = z] = FrameOf(x, f.op, f.start, f.cnt, y, f.left, z, f.old)
<1>1. PICK a, b, c, d, e, l, q, o : a = f.pc /\ b = f.op /\ c = f.start /\ d = f.cnt /\ e = f.ret /\ l = f.left /\ q = f.req /\ o = f.old
  OBVIOUS
<1>2. f = FrameOf(a, b, c, d, e, l, q, o)
  BY <1>1 DEF WholeFrame
<1>3. PICK r : r = [f EXCEPT !.pc = x, !.ret = y, !.req = z]
  OBVIOUS
<1>4. r = FrameOf(x, b, c, d, y, l, z, o)
  BY ONLY <1>2, <1>3 DEF FrameOf
<1> QED BY <1>1, <1>3, <1>4

\* A node of a tree is dirty, or no more.
LEMMA SetDirty ==
  ASSUME NEW T, WholeTree(T), NEW x
  PROVE  [T EXCEPT !.dirty = x] = TreeOf(T.clean, x)
<1>1. PICK a, b : a = T.clean /\ b = T.dirty
  OBVIOUS
<1>2. T = TreeOf(a, b)
  BY <1>1 DEF WholeTree
<1>3. PICK r : r = [T EXCEPT !.dirty = x]
  OBVIOUS
<1>4. r = TreeOf(a, x)
  BY ONLY <1>2, <1>3 DEF TreeOf
<1> QED BY <1>1, <1>3, <1>4

\* The frame of a call that begins, and of none.
LEMMA CallIs ==
  ASSUME NEW s, NEW n
  PROVE  /\ NoCall = FrameOf("idle", "none", 0, 0, "ok", {}, "none", 0)
         /\ AllocCall(n) = FrameOf("enter", "alloc", 0, n, "ok", {}, "none", 0)
         /\ FreeCall(s, n) = FrameOf("enter", "free", s, n, "ok", {}, "none", 0)
<1>1. NoCall = FrameOf("idle", "none", 0, 0, "ok", {}, "none", 0)
  BY DEF NoCall, FrameOf
<1>2. PICK a, f : a = AllocCall(n) /\ f = FreeCall(s, n)
  OBVIOUS
<1>3. a = FrameOf("enter", "alloc", 0, n, "ok", {}, "none", 0)
  BY <1>1, <1>2 DEF AllocCall, FrameOf
<1>4. f = FrameOf("enter", "free", s, n, "ok", {}, "none", 0)
  BY <1>1, <1>2 DEF FreeCall, FrameOf
<1> QED BY <1>1, <1>2, <1>3, <1>4

\* One manager, one tree, one frame or both frames of a thread change.
ManagerNow(m, M) == mgr' = [n \in Mgr |-> IF n = m THEN M ELSE mgr[n]]
TreeNow(m, T) == tree' = [n \in Mgr |-> IF n = m THEN T ELSE tree[n]]
FrameNow(t, m, f) ==
  frame' = [u \in Thread |-> IF u = t THEN [n \in Mgr |-> IF n = m THEN f ELSE frame[t][n]]
                             ELSE frame[u]]
BothNow(t, f, g) ==
  frame' = [u \in Thread |-> IF u = t THEN [n \in Mgr |-> IF n = "sm" THEN f ELSE g]
                             ELSE frame[u]]

\* A manager is replaced.
LEMMA PutManager ==
  ASSUME TypeInv, NEW m \in Mgr, NEW M, mgr' = [mgr EXCEPT ![m] = M]
  PROVE  ManagerNow(m, M)
  BY DEF TypeInv, ManagersOK, ManagerNow

\* A tree is replaced.
LEMMA PutTree ==
  ASSUME TypeInv, NEW m \in Mgr, NEW T, tree' = [tree EXCEPT ![m] = T]
  PROVE  TreeNow(m, T)
  BY DEF TypeInv, TreesOK, TreeNow

\* A frame is replaced.
LEMMA PutFrame ==
  ASSUME TypeInv, NEW t \in Thread, NEW m \in Mgr, NEW f, frame' = [frame EXCEPT ![t][m] = f]
  PROVE  FrameNow(t, m, f)
<1>1. frame' = [frame EXCEPT ![t] = [frame[t] EXCEPT ![m] = f]]
  OBVIOUS
<1>2. [frame[t] EXCEPT ![m] = f] = [n \in Mgr |-> IF n = m THEN f ELSE frame[t][n]]
  BY DEF TypeInv, FramesOK
<1> QED BY <1>1, <1>2 DEF TypeInv, FramesOK, FrameNow

\* Both are replaced.
LEMMA PutBoth ==
  ASSUME TypeInv, NEW t \in Thread, NEW f, NEW g,
         frame' = [frame EXCEPT ![t].sm = f, ![t].bsm = g]
  PROVE  BothNow(t, f, g)
<1>1. PICK k : k = frame[t]
  OBVIOUS
<1>2. k = [m \in Mgr |-> k[m]]
  BY <1>1 DEF TypeInv, FramesOK
<1>3. PICK h : h = [k EXCEPT !.sm = f, !.bsm = g]
  OBVIOUS
<1>4. frame' = [frame EXCEPT ![t] = h]
  BY <1>1, <1>3
<1>5. h = [n \in Mgr |-> IF n = "sm" THEN f ELSE g]
  BY <1>2, <1>3 DEF Mgr
<1>6. frame' = [u \in Thread |-> IF u = t THEN h ELSE frame[u]]
  BY <1>4 DEF TypeInv, FramesOK
<1> QED BY <1>5, <1>6 DEF BothNow

\* The parts of the managers, the trees and the frames.
LEMMA Parts ==
  ASSUME TypeInv, NEW m \in Mgr, NEW t \in Thread
  PROVE  /\ IsManager(mgr[m]) /\ IsTree(tree[m]) /\ IsFrame(frame[t][m])
         /\ WholeManager(mgr[m]) /\ WholeTree(tree[m]) /\ WholeFrame(frame[t][m])
<1>1. IsManager(mgr[m]) /\ IsTree(tree[m]) /\ IsFrame(frame[t][m])
  BY DEF TypeInv, ManagersOK, TreesOK, FramesOK
<1>2. WholeManager(mgr[m])
  BY <1>1 DEF IsManager
<1>3. WholeTree(tree[m])
  BY <1>1 DEF IsTree
<1>4. WholeFrame(frame[t][m])
  BY <1>1, Zenon DEF IsFrame
<1> QED BY <1>1, <1>2, <1>3, <1>4

\* A manager that is replaced by one.
LEMMA ManagerStep ==
  ASSUME ManagersOK, NEW m \in Mgr, NEW M, IsManager(M), ManagerNow(m, M)
  PROVE  ManagersOK' /\ mgr'[m] = M /\ \A n \in Mgr : n # m => mgr'[n] = mgr[n]
<1>1. \A n \in Mgr : mgr'[n] = IF n = m THEN M ELSE mgr[n]
  BY DEF ManagerNow
<1>2. mgr' = [n \in Mgr |-> mgr'[n]]
  BY DEF ManagerNow
<1>3. \A n \in Mgr : IsManager(mgr'[n])
  BY <1>1 DEF ManagersOK
<1> QED BY <1>1, <1>2, <1>3 DEF ManagersOK

\* A tree that is replaced by one.
LEMMA TreeStep ==
  ASSUME TreesOK, NEW m \in Mgr, NEW T, IsTree(T), TreeNow(m, T)
  PROVE  TreesOK' /\ tree'[m] = T /\ \A n \in Mgr : n # m => tree'[n] = tree[n]
<1>1. \A n \in Mgr : tree'[n] = IF n = m THEN T ELSE tree[n]
  BY DEF TreeNow
<1>2. tree' = [n \in Mgr |-> tree'[n]]
  BY DEF TreeNow
<1>3. \A n \in Mgr : IsTree(tree'[n])
  BY <1>1 DEF TreesOK
<1> QED BY <1>1, <1>2, <1>3 DEF TreesOK

\* Frames that are replaced.
LEMMA FramesStep ==
  ASSUME FramesOK, NEW t \in Thread, NEW h, h = [m \in Mgr |-> h[m]], \A m \in Mgr : IsFrame(h[m]),
         frame' = [u \in Thread |-> IF u = t THEN h ELSE frame[u]]
  PROVE  FramesOK' /\ frame'[t] = h
<1>1. \A u \in Thread : frame'[u] = IF u = t THEN h ELSE frame[u]
  OBVIOUS
<1>2. frame' = [u \in Thread |-> frame'[u]]
  BY <1>1
<1>3. \A u \in Thread : frame'[u] = [m \in Mgr |-> frame'[u][m]]
  <2> SUFFICES ASSUME NEW u \in Thread PROVE frame'[u] = [m \in Mgr |-> frame'[u][m]]
    OBVIOUS
  <2>1. CASE u = t
    BY <1>1, <2>1
  <2>2. CASE u # t
    BY <1>1, <2>2 DEF FramesOK
  <2> QED BY <2>1, <2>2
<1>4. \A u \in Thread, m \in Mgr : IsFrame(frame'[u][m])
  BY <1>1 DEF FramesOK
<1> QED BY <1>1, <1>2, <1>3, <1>4 DEF FramesOK

\* A frame that is replaced by one.
LEMMA FrameStep ==
  ASSUME FramesOK, NEW t \in Thread, NEW m \in Mgr, NEW f, IsFrame(f), FrameNow(t, m, f)
  PROVE  FramesOK' /\ frame'[t][m] = f /\ \A n \in Mgr : n # m => frame'[t][n] = frame[t][n]
<1>1. PICK h : h = [n \in Mgr |-> IF n = m THEN f ELSE frame[t][n]]
  OBVIOUS
<1>2. h = [n \in Mgr |-> h[n]] /\ \A n \in Mgr : h[n] = IF n = m THEN f ELSE frame[t][n]
  BY <1>1
<1>3. \A n \in Mgr : IsFrame(h[n])
  BY <1>2 DEF FramesOK
<1>4. frame' = [u \in Thread |-> IF u = t THEN h ELSE frame[u]]
  BY <1>1 DEF FrameNow
<1>5. FramesOK' /\ frame'[t] = h
  BY <1>2, <1>3, <1>4, FramesStep
<1> QED BY <1>2, <1>5

\* Two frames that are replaced by two.
LEMMA BothStep ==
  ASSUME FramesOK, NEW t \in Thread, NEW f, NEW g, IsFrame(f), IsFrame(g), BothNow(t, f, g)
  PROVE  FramesOK' /\ frame'[t]["sm"] = f /\ frame'[t]["bsm"] = g
<1>1. PICK h : h = [n \in Mgr |-> IF n = "sm" THEN f ELSE g]
  OBVIOUS
<1>2. h = [n \in Mgr |-> h[n]] /\ \A n \in Mgr : h[n] = IF n = "sm" THEN f ELSE g
  BY <1>1
<1>3. \A n \in Mgr : IsFrame(h[n])
  BY <1>2
<1>4. frame' = [u \in Thread |-> IF u = t THEN h ELSE frame[u]]
  BY <1>1 DEF BothNow
<1>5. FramesOK' /\ frame'[t] = h
  BY <1>2, <1>3, <1>4, FramesStep
<1> QED BY <1>2, <1>5 DEF Mgr

\* When a manager or a tree that is written out has its type.
LEMMA Typed ==
  ASSUME NEW a, NEW b, NEW c, NEW d
  PROVE  /\ a \subseteq DeviceExtents /\ b \in Nat /\ c \in Nat /\ d \in Thread \cup {NoThread} =>
              IsManager(ManagerOf(a, b, c, d))
         /\ a \subseteq Device /\ b \subseteq Device => IsTree(TreeOf(a, b))
<1>1. a \subseteq DeviceExtents /\ b \in Nat /\ c \in Nat /\ d \in Thread \cup {NoThread} =>
        IsManager(ManagerOf(a, b, c, d))
  BY Fields DEF IsManager
<1>2. a \subseteq Device /\ b \subseteq Device => IsTree(TreeOf(a, b))
  BY Fields DEF IsTree
<1> QED BY <1>1, <1>2

\* When a frame that is written out has its type.
LEMMA FrameTyped ==
  ASSUME NEW a, NEW b, NEW c, NEW d, NEW e, NEW l, NEW q, NEW o, InRange(a, b, c, d, e, l, q, o)
  PROVE  IsFrame(FrameOf(a, b, c, d, e, l, q, o))
  BY Fields DEF IsFrame

\* The calls that begin have their type.
LEMMA CallTyped ==
  ASSUME NEW s \in Device, NEW n \in Nat
  PROVE  /\ IsFrame(NoCall) /\ IsFrame(AllocCall(n))
         /\ Within(s, n) => IsFrame(FreeCall(s, n))
<1>1. 0 \in Device /\ Within(0, 0) 
  BY SpaceManagerAssumption DEF Device, Within
<1>2. InRange("idle", "none", 0, 0, "ok", {}, "none", 0)
  BY <1>1 DEF InRange
<1>3. InRange("enter", "alloc", 0, n, "ok", {}, "none", 0)
  BY <1>1 DEF InRange
<1>4. Within(s, n) => InRange("enter", "free", s, n, "ok", {}, "none", 0)
  BY <1>1 DEF InRange
<1>5. IsFrame(FrameOf("idle", "none", 0, 0, "ok", {}, "none", 0))
  BY <1>2, FrameTyped
<1>6. IsFrame(FrameOf("enter", "alloc", 0, n, "ok", {}, "none", 0))
  BY <1>3, FrameTyped
<1>7. Within(s, n) => IsFrame(FrameOf("enter", "free", s, n, "ok", {}, "none", 0))
  BY <1>4, FrameTyped
<1> QED BY <1>5, <1>6, <1>7, CallIs

-----------------------------------------------------------------------------
(* What each action does.                                                  *)

\* An allocation begins: it is refused, or an extent is taken out.
LEMMA EnterAllocIs ==
  ASSUME TypeInv, NEW t \in Thread, NEW m \in Mgr, EnterAlloc(t, m)
  PROVE  LET f == frame[t][m]
             M == mgr[m]
         IN  /\ f.pc = "enter" /\ f.op = "alloc" /\ UNCHANGED <<tree, base_blk, held, user>>
             /\ \/ /\ \E x \in {0, M.first} : ManagerNow(m, ManagerOf(M.ext, x, 0, M.lock))
                   /\ FrameNow(t, m, FrameOf("done", f.op, f.start, f.cnt, "no_free_blocks",
                                             f.left, f.req, f.old))
                \/ \E e \in M.ext :
                     /\ ManagerNow(m, ManagerOf(M.ext \ {e}, M.first, M.total, t))
                     /\ FrameNow(t, m,
                          FrameOf("removed", f.op, GivenStart(e, M.first, f.cnt),
                                  GivenCount(e, M.first, f.cnt), f.ret,
                                  HeadPiece(e, M.first, f.cnt) \cup TailPiece(e, M.first, f.cnt),
                                  f.req, f.old))
<1> DEFINE f == frame[t][m]
           M == mgr[m]
           start(e) == GivenStart(e, M.first, f.cnt)
           cnt(e) == GivenCount(e, M.first, f.cnt)
           left(e) == HeadPiece(e, M.first, f.cnt) \cup TailPiece(e, M.first, f.cnt)
           first == IF M.total = 0 THEN M.first ELSE 0
<1>1. WholeManager(M) /\ WholeFrame(f)
  BY Parts
<1>2. f.pc = "enter" /\ f.op = "alloc" /\ UNCHANGED <<tree, base_blk, held, user>>
  BY Zenon DEF EnterAlloc
<1>3. CASE /\ mgr' = [mgr EXCEPT ![m].total = 0, ![m].first = IF M.total = 0 THEN @ ELSE 0]
           /\ Frame(t, m, [f EXCEPT !.pc = "done", !.ret = "no_free_blocks"])
  <2>1. mgr' = [mgr EXCEPT ![m] = [M EXCEPT !.total = 0, !.first = first]]
    BY <1>3
  <2>2. [M EXCEPT !.total = 0, !.first = first] = ManagerOf(M.ext, first, 0, M.lock)
    BY <1>1, SetTotalFirst, Zenon
  <2>3. ManagerNow(m, ManagerOf(M.ext, first, 0, M.lock))
    BY <2>1, <2>2, PutManager, Zenon
  <2>4. [f EXCEPT !.pc = "done", !.ret = "no_free_blocks"]
          = FrameOf("done", f.op, f.start, f.cnt, "no_free_blocks", f.left, f.req, f.old)
    BY <1>1, SetPcRet, Zenon
  <2>5. FrameNow(t, m, FrameOf("done", f.op, f.start, f.cnt, "no_free_blocks", f.left, f.req, f.old))
    BY <1>3, <2>4, PutFrame, Zenon DEF Frame
  <2>6. first \in {0, M.first}
    OBVIOUS
  <2> QED BY <1>2, <2>3, <2>5, <2>6, Zenon
<1>4. ASSUME NEW e \in Picks(M.ext, M.first, f.cnt),
             mgr' = [mgr EXCEPT ![m].ext = @ \ {e}, ![m].lock = t],
             Frame(t, m, [f EXCEPT !.pc = "removed", !.start = start(e), !.cnt = cnt(e),
                                   !.left = left(e)])
      PROVE  /\ e \in M.ext /\ ManagerNow(m, ManagerOf(M.ext \ {e}, M.first, M.total, t))
             /\ FrameNow(t, m, FrameOf("removed", f.op, start(e), cnt(e), f.ret, left(e), f.req, f.old))
  <2>1. e \in M.ext
    BY <1>4 DEF Picks, Hits, FirstOf
  <2>2. mgr' = [mgr EXCEPT ![m] = [M EXCEPT !.ext = M.ext \ {e}, !.lock = t]]
    BY <1>4
  <2>3. [M EXCEPT !.ext = M.ext \ {e}, !.lock = t] = ManagerOf(M.ext \ {e}, M.first, M.total, t)
    BY <1>1, SetExtLock, Zenon
  <2>4. ManagerNow(m, ManagerOf(M.ext \ {e}, M.first, M.total, t))
    BY <2>2, <2>3, PutManager, Zenon
  <2>5. [f EXCEPT !.pc = "removed", !.start = start(e), !.cnt = cnt(e), !.left = left(e)]
          = FrameOf("removed", f.op, start(e), cnt(e), f.ret, left(e), f.req, f.old)
    BY <1>1, SetGiven, Zenon
  <2>6. FrameNow(t, m, FrameOf("removed", f.op, start(e), cnt(e), f.ret, left(e), f.req, f.old))
    BY <1>4, <2>5, PutFrame, Zenon DEF Frame
  <2> QED BY <2>1, <2>4, <2>6
<1> QED BY <1>2, <1>3, <1>4, Zenon DEF EnterAlloc

\* A free begins: it is refused, or the run is what is left to insert.
LEMMA EnterFreeIs ==
  ASSUME TypeInv, NEW t \in Thread, NEW m \in Mgr, EnterFree(t, m)
  PROVE  LET f == frame[t][m]
             M == mgr[m]
         IN  /\ f.pc = "enter" /\ f.op = "free" /\ UNCHANGED <<tree, base_blk, held, user>>
             /\ \/ /\ UNCHANGED mgr /\ Hits(M.ext, f.start, f.cnt) # {}
                   /\ FrameNow(t, m, FrameOf("done", f.op, f.start, f.cnt, "error", f.left, f.req, f.old))
                \/ /\ ManagerNow(m, ManagerOf(M.ext, M.first, M.total, t))
                   /\ FrameNow(t, m, FrameOf("ready", f.op, f.start, f.cnt, f.ret,
                                             {[addr |-> f.start, len |-> f.cnt]}, f.req, f.old))
<1> DEFINE f == frame[t][m]
           M == mgr[m]
           e == [addr |-> f.start, len |-> f.cnt]
<1>1. WholeManager(M) /\ WholeFrame(f)
  BY Parts
<1>2. f.pc = "enter" /\ f.op = "free" /\ UNCHANGED <<tree, base_blk, held, user>>
  BY Zenon DEF EnterFree
<1>3. CASE /\ Hits(M.ext, f.start, f.cnt) # {}
           /\ Frame(t, m, [f EXCEPT !.pc = "done", !.ret = "error"]) /\ UNCHANGED mgr
  <2>1. [f EXCEPT !.pc = "done", !.ret = "error"]
          = FrameOf("done", f.op, f.start, f.cnt, "error", f.left, f.req, f.old)
    BY <1>1, SetPcRet, Zenon
  <2>2. FrameNow(t, m, FrameOf("done", f.op, f.start, f.cnt, "error", f.left, f.req, f.old))
    BY <1>3, <2>1, PutFrame, Zenon DEF Frame
  <2> QED BY <1>2, <1>3, <2>2, Zenon
<1>4. CASE /\ mgr' = [mgr EXCEPT ![m].lock = t]
           /\ Frame(t, m, [f EXCEPT !.pc = "ready", !.left = {e}])
  <2>1. mgr' = [mgr EXCEPT ![m] = [M EXCEPT !.lock = t]]
    BY <1>4
  <2>2. [M EXCEPT !.lock = t] = ManagerOf(M.ext, M.first, M.total, t)
    BY <1>1, SetLock, Zenon
  <2>3. ManagerNow(m, ManagerOf(M.ext, M.first, M.total, t))
    BY <2>1, <2>2, PutManager, Zenon
  <2>4. [f EXCEPT !.pc = "ready", !.left = {e}]
          = FrameOf("ready", f.op, f.start, f.cnt, f.ret, {e}, f.req, f.old)
    BY <1>1, SetPcLeft, Zenon
  <2>5. FrameNow(t, m, FrameOf("ready", f.op, f.start, f.cnt, f.ret, {e}, f.req, f.old))
    BY <1>4, <2>4, PutFrame, Zenon DEF Frame
  <2> QED BY <1>2, <2>3, <2>5, Zenon
<1> QED BY <1>3, <1>4, Zenon DEF EnterFree

\* An extent is put into the index.
LEMMA InsertIs ==
  ASSUME TypeInv, NEW t \in Thread, NEW m \in Mgr, Insert(t, m)
  PROVE  LET f == frame[t][m]
             M == mgr[m]
         IN  /\ f.pc \in {"removed", "ready", "split", "inserted"} /\ f.req = "none"
             /\ UNCHANGED <<tree, base_blk, held, user>>
             /\ \E piece \in f.left :
                  /\ ManagerNow(m, ManagerOf(M.ext \cup {piece}, M.first, M.total, M.lock))
                  /\ FrameNow(t, m, FrameOf("inserted", f.op, f.start, f.cnt, f.ret,
                                            f.left \ {piece}, f.req, f.old))
<1> DEFINE f == frame[t][m]
           M == mgr[m]
<1>1. WholeManager(M) /\ WholeFrame(f)
  BY Parts
<1>2. /\ f.pc \in {"removed", "ready", "split", "inserted"} /\ f.req = "none"
      /\ UNCHANGED <<tree, base_blk, held, user>>
  BY Zenon DEF Insert, CanInsert, Settled
<1>3. PICK piece \in f.left :
        /\ mgr' = [mgr EXCEPT ![m].ext = @ \cup {piece}]
        /\ frame' = [frame EXCEPT ![t][m].left = @ \ {piece}, ![t][m].pc = "inserted"]
  BY Zenon DEF Insert
<1>4. mgr' = [mgr EXCEPT ![m] = [M EXCEPT !.ext = M.ext \cup {piece}]]
  BY <1>3
<1>5. [M EXCEPT !.ext = M.ext \cup {piece}] = ManagerOf(M.ext \cup {piece}, M.first, M.total, M.lock)
  BY <1>1, SetExt, Zenon
<1>6. ManagerNow(m, ManagerOf(M.ext \cup {piece}, M.first, M.total, M.lock))
  BY <1>4, <1>5, PutManager, Zenon
<1>7. frame' = [frame EXCEPT ![t][m] = [f EXCEPT !.left = f.left \ {piece}, !.pc = "inserted"]]
  BY <1>3
<1>8. [f EXCEPT !.left = f.left \ {piece}, !.pc = "inserted"]
        = FrameOf("inserted", f.op, f.start, f.cnt, f.ret, f.left \ {piece}, f.req, f.old)
  BY <1>1, SetLeftPc, Zenon
<1>9. FrameNow(t, m, FrameOf("inserted", f.op, f.start, f.cnt, f.ret, f.left \ {piece}, f.req, f.old))
  BY <1>7, <1>8, PutFrame, Zenon
<1> QED BY <1>2, <1>6, <1>9, Zenon

\* A call ends.
LEMMA LeaveIs ==
  ASSUME TypeInv, NEW t \in Thread, NEW m \in Mgr, Leave(t, m)
  PROVE  LET f == frame[t][m]
             M == mgr[m]
         IN  /\ f.pc \in {"removed", "inserted"} /\ f.req = "none" /\ f.left = {}
             /\ UNCHANGED <<tree, base_blk, held, user>>
             /\ \E x \in {M.first, f.start + f.cnt}, y \in {M.total + f.cnt, M.total, M.total - f.cnt} :
                  /\ ManagerNow(m, ManagerOf(M.ext, x, y, NoThread))
                  /\ y = M.total - f.cnt => ~(M.total < f.cnt)
             /\ FrameNow(t, m, FrameOf("done", f.op, f.start, f.cnt, f.ret, f.left, f.req, f.old))
<1> DEFINE f == frame[t][m]
           M == mgr[m]
           x == IF f.op = "alloc" THEN f.start + f.cnt ELSE M.first
           y == IF f.op = "free" THEN M.total + f.cnt
                ELSE IF M.total < f.cnt THEN M.total ELSE M.total - f.cnt
<1>0. M.total \in Nat /\ f.cnt \in Nat
  BY Parts DEF IsManager, IsFrame, InRange
<1>1. WholeManager(M) /\ WholeFrame(f)
  BY Parts
<1>2. /\ f.pc \in {"removed", "inserted"} /\ f.req = "none" /\ f.left = {}
      /\ UNCHANGED <<tree, base_blk, held, user>>
  BY Zenon DEF Leave, Settled
<1>3. /\ mgr' = [mgr EXCEPT ![m].first = IF f.op = "alloc" THEN f.start + f.cnt ELSE @,
                            ![m].total = IF f.op = "free" THEN @ + f.cnt
                                         ELSE IF @ < f.cnt THEN @ ELSE @ - f.cnt,
                            ![m].lock = NoThread]
      /\ Frame(t, m, [f EXCEPT !.pc = "done"])
  BY Zenon DEF Leave
<1>4. mgr' = [mgr EXCEPT ![m] = [M EXCEPT !.first = x, !.total = y, !.lock = NoThread]]
  BY <1>3
<1> HIDE DEF x, y
<1>5. [M EXCEPT !.first = x, !.total = y, !.lock = NoThread] = ManagerOf(M.ext, x, y, NoThread)
  <2>1. PICK K, u, v, w : K = M /\ u = x /\ v = y /\ w = NoThread
    OBVIOUS
  <2>2. PICK a, b, c, d : K = ManagerOf(a, b, c, d) /\ a = M.ext
    BY <1>1, <2>1 DEF WholeManager
  <2>3. PICK r : r = [K EXCEPT !.first = u, !.total = v, !.lock = w]
    OBVIOUS
  <2>4. r = ManagerOf(a, u, v, w)
    BY ONLY <2>2, <2>3 DEF ManagerOf
  <2> QED BY <2>1, <2>2, <2>3, <2>4
<1>6. ManagerNow(m, ManagerOf(M.ext, x, y, NoThread))
  BY <1>4, <1>5, PutManager, Zenon
<1>7. [f EXCEPT !.pc = "done"] = FrameOf("done", f.op, f.start, f.cnt, f.ret, f.left, f.req, f.old)
  BY <1>1, SetPc, Zenon
<1>8. FrameNow(t, m, FrameOf("done", f.op, f.start, f.cnt, f.ret, f.left, f.req, f.old))
  BY <1>3, <1>7, PutFrame, Zenon DEF Frame
<1>9. /\ x \in {M.first, f.start + f.cnt} /\ y \in {M.total + f.cnt, M.total, M.total - f.cnt}
      /\ y = M.total - f.cnt => ~(M.total < f.cnt)
  BY <1>0 DEF x, y
<1> QED BY <1>2, <1>6, <1>8, <1>9, Zenon

\* A node of the SPACE tree asks for a new block.
LEMMA MoveIs ==
  ASSUME TypeInv, NEW t \in Thread, Move(t)
  PROVE  LET f == frame[t]["sm"]
         IN  /\ f.pc \in {"removed", "split", "inserted"} /\ f.req = "none"
             /\ UNCHANGED <<mgr, tree, base_blk, held, user>>
             /\ \E b \in tree["sm"].clean :
                  BothNow(t, FrameOf(f.pc, f.op, f.start, f.cnt, f.ret, f.left, "move", b), AllocCall(1))
<1> DEFINE f == frame[t]["sm"]
<1>1. WholeFrame(f) /\ "sm" \in Mgr
  BY Parts DEF Mgr
<1>2. PICK b \in Movable(t, "sm") :
        frame' = [frame EXCEPT ![t].sm.req = "move", ![t].sm.old = b, ![t].bsm = AllocCall(1)]
  BY Zenon DEF Move
<1>3. /\ f.pc \in {"removed", "split", "inserted"} /\ f.req = "none" /\ b \in tree["sm"].clean
      /\ UNCHANGED <<mgr, tree, base_blk, held, user>>
  BY <1>2, Zenon DEF Movable, Move
<1>4. frame' = [frame EXCEPT ![t].sm = [f EXCEPT !.req = "move", !.old = b], ![t].bsm = AllocCall(1)]
  BY <1>2
<1>5. [f EXCEPT !.req = "move", !.old = b]
        = FrameOf(f.pc, f.op, f.start, f.cnt, f.ret, f.left, "move", b)
  BY <1>1, SetReqOld, Zenon
<1>6. BothNow(t, FrameOf(f.pc, f.op, f.start, f.cnt, f.ret, f.left, "move", b), AllocCall(1))
  BY <1>4, <1>5, PutBoth, Zenon
<1> QED BY <1>3, <1>6, Zenon

\* The old node is given up for the new one.
LEMMA MovedIs ==
  ASSUME TypeInv, NEW t \in Thread, Moved(t)
  PROVE  LET f == frame[t]["sm"]
             g == frame[t]["bsm"]
             T == tree["sm"]
         IN  /\ f.req = "move" /\ g.pc = "done" /\ g.ret = "ok"
             /\ UNCHANGED <<mgr, base_blk, held, user>>
             /\ TreeNow("sm", TreeOf(T.clean \ {f.old}, T.dirty \cup {g.start}))
             /\ BothNow(t, FrameOf(f.pc, f.op, f.start, f.cnt, f.ret, f.left, "drop", f.old),
                        FreeCall(f.old, 1))
<1> DEFINE f == frame[t]["sm"]
           g == frame[t]["bsm"]
           T == tree["sm"]
<1>1. WholeFrame(f) /\ WholeTree(T) /\ "sm" \in Mgr
  BY Parts DEF Mgr
<1>2. /\ f.req = "move" /\ g.pc = "done" /\ g.ret = "ok" /\ UNCHANGED <<mgr, base_blk, held, user>>
      /\ tree' = [tree EXCEPT !.sm = [clean |-> @.clean \ {f.old}, dirty |-> @.dirty \cup {g.start}]]
      /\ frame' = [frame EXCEPT ![t].sm.req = "drop", ![t].bsm = FreeCall(f.old, 1)]
  BY Zenon DEF Moved, Done
<1>3. tree' = [tree EXCEPT !["sm"] = TreeOf(T.clean \ {f.old}, T.dirty \cup {g.start})]
  BY <1>2 DEF TreeOf
<1>4. TreeNow("sm", TreeOf(T.clean \ {f.old}, T.dirty \cup {g.start}))
  BY <1>1, <1>3, PutTree, Zenon
<1>5. frame' = [frame EXCEPT ![t].sm = [f EXCEPT !.req = "drop"], ![t].bsm = FreeCall(f.old, 1)]
  BY <1>2
<1>6. [f EXCEPT !.req = "drop"] = FrameOf(f.pc, f.op, f.start, f.cnt, f.ret, f.left, "drop", f.old)
  BY <1>1, SetReq, Zenon
<1>7. BothNow(t, FrameOf(f.pc, f.op, f.start, f.cnt, f.ret, f.left, "drop", f.old), FreeCall(f.old, 1))
  BY <1>5, <1>6, PutBoth, Zenon
<1> QED BY <1>2, <1>4, <1>7, Zenon

\* The old node has been freed.
LEMMA DroppedIs ==
  ASSUME TypeInv, NEW t \in Thread, Dropped(t)
  PROVE  LET f == frame[t]["sm"]
         IN  /\ f.req = "drop" /\ UNCHANGED <<mgr, tree, base_blk, held, user>>
             /\ BothNow(t, FrameOf(f.pc, f.op, f.start, f.cnt, f.ret, f.left, "none", 0), NoCall)
<1> DEFINE f == frame[t]["sm"]
<1>1. WholeFrame(f)
  BY Parts DEF Mgr
<1>2. /\ f.req = "drop" /\ UNCHANGED <<mgr, tree, base_blk, held, user>>
      /\ frame' = [frame EXCEPT ![t].sm.req = "none", ![t].sm.old = 0, ![t].bsm = NoCall]
  BY Zenon DEF Dropped
<1>3. frame' = [frame EXCEPT ![t].sm = [f EXCEPT !.req = "none", !.old = 0], ![t].bsm = NoCall]
  BY <1>2
<1>4. [f EXCEPT !.req = "none", !.old = 0]
        = FrameOf(f.pc, f.op, f.start, f.cnt, f.ret, f.left, "none", 0)
  BY <1>1, SetReqOld, Zenon
<1>5. BothNow(t, FrameOf(f.pc, f.op, f.start, f.cnt, f.ret, f.left, "none", 0), NoCall)
  BY <1>3, <1>4, PutBoth, Zenon
<1> QED BY <1>2, <1>5, Zenon

\* Where a split leaves its call.
LEMMA SplittingIs ==
  ASSUME NEW t, NEW m, NEW p \in Splitting(t, m)
  PROVE  /\ frame[t][m].pc \in {"removed", "ready", "split", "inserted"} /\ frame[t][m].req = "none"
         /\ p \in {"removed", "split"} /\ (p = "removed" => frame[t][m].pc = "removed")
<1>1. p \in {"split", "removed"} /\ (p = "split" => CanInsert(t, m))
  BY DEF Splitting
<1>2. p = "removed" => frame[t][m].pc = "removed" /\ Settled(t, m)
  BY DEF Splitting
<1> QED BY <1>1, <1>2 DEF CanInsert, Settled

\* A split of the SPACE tree asks for a block.
LEMMA SplitIs ==
  ASSUME TypeInv, NEW t \in Thread, Split(t)
  PROVE  LET f == frame[t]["sm"]
         IN  /\ f.pc \in {"removed", "ready", "split", "inserted"} /\ f.req = "none"
             /\ UNCHANGED <<mgr, tree, base_blk, held, user>>
             /\ \E p \in {"removed", "split"} :
                  /\ p = "removed" => f.pc = "removed"
                  /\ BothNow(t, FrameOf(p, f.op, f.start, f.cnt, f.ret, f.left, "split", f.old),
                             AllocCall(1))
<1> DEFINE f == frame[t]["sm"]
<1>1. WholeFrame(f)
  BY Parts DEF Mgr
<1>2. PICK p \in Splitting(t, "sm") :
        /\ UNCHANGED <<mgr, tree, base_blk, held, user>>
        /\ frame' = [frame EXCEPT ![t].sm.pc = p, ![t].sm.req = "split", ![t].bsm = AllocCall(1)]
  BY Zenon DEF Split
<1>3. /\ f.pc \in {"removed", "ready", "split", "inserted"} /\ f.req = "none"
      /\ p \in {"removed", "split"} /\ (p = "removed" => f.pc = "removed")
  BY SplittingIs
<1>4. frame' = [frame EXCEPT ![t].sm = [f EXCEPT !.pc = p, !.req = "split"], ![t].bsm = AllocCall(1)]
  BY <1>2
<1>5. [f EXCEPT !.pc = p, !.req = "split"]
        = FrameOf(p, f.op, f.start, f.cnt, f.ret, f.left, "split", f.old)
  BY <1>1, SetPcReq, Zenon
<1>6. BothNow(t, FrameOf(p, f.op, f.start, f.cnt, f.ret, f.left, "split", f.old), AllocCall(1))
  BY <1>4, <1>5, PutBoth, Zenon
<1> QED BY <1>2, <1>3, <1>6, Zenon

\* The block becomes a node.
LEMMA HasSplitIs ==
  ASSUME TypeInv, NEW t \in Thread, HasSplit(t)
  PROVE  LET f == frame[t]["sm"]
             g == frame[t]["bsm"]
             T == tree["sm"]
         IN  /\ f.req = "split" /\ g.pc = "done" /\ g.ret = "ok"
             /\ UNCHANGED <<mgr, base_blk, held, user>>
             /\ TreeNow("sm", TreeOf(T.clean, T.dirty \cup {g.start}))
             /\ BothNow(t, FrameOf(f.pc, f.op, f.start, f.cnt, f.ret, f.left, "none", f.old), NoCall)
<1> DEFINE f == frame[t]["sm"]
           g == frame[t]["bsm"]
           T == tree["sm"]
<1>1. WholeFrame(f) /\ WholeTree(T) /\ "sm" \in Mgr
  BY Parts DEF Mgr
<1>2. /\ f.req = "split" /\ g.pc = "done" /\ g.ret = "ok" /\ UNCHANGED <<mgr, base_blk, held, user>>
      /\ tree' = [tree EXCEPT !.sm.dirty = @ \cup {g.start}]
      /\ frame' = [frame EXCEPT ![t].sm.req = "none", ![t].bsm = NoCall]
  BY Zenon DEF HasSplit, Done
<1>3. tree' = [tree EXCEPT !["sm"] = [T EXCEPT !.dirty = T.dirty \cup {g.start}]]
  BY <1>2
<1>4. TreeNow("sm", TreeOf(T.clean, T.dirty \cup {g.start}))
  <2>1. [T EXCEPT !.dirty = T.dirty \cup {g.start}] = TreeOf(T.clean, T.dirty \cup {g.start})
    BY <1>1, SetDirty, Zenon
  <2> QED BY <1>1, <1>3, <2>1, PutTree, Zenon
<1>5. frame' = [frame EXCEPT ![t].sm = [f EXCEPT !.req = "none"], ![t].bsm = NoCall]
  BY <1>2
<1>6. [f EXCEPT !.req = "none"] = FrameOf(f.pc, f.op, f.start, f.cnt, f.ret, f.left, "none", f.old)
  BY <1>1, SetReq, Zenon
<1>7. BothNow(t, FrameOf(f.pc, f.op, f.start, f.cnt, f.ret, f.left, "none", f.old), NoCall)
  BY <1>5, <1>6, PutBoth, Zenon
<1> QED BY <1>2, <1>4, <1>7, Zenon

\* The block of an empty node of the SPACE tree is freed.
LEMMA ShrinkIs ==
  ASSUME TypeInv, NEW t \in Thread, Shrink(t)
  PROVE  LET f == frame[t]["sm"]
             T == tree["sm"]
         IN  /\ f.pc = "removed" /\ f.req = "none" /\ UNCHANGED <<mgr, base_blk, held, user>>
             /\ \E b \in T.dirty :
                  /\ TreeNow("sm", TreeOf(T.clean, T.dirty \ {b}))
                  /\ BothNow(t, FrameOf(f.pc, f.op, f.start, f.cnt, f.ret, f.left, "drop", b),
                             FreeCall(b, 1))
<1> DEFINE f == frame[t]["sm"]
           T == tree["sm"]
<1>1. WholeFrame(f) /\ WholeTree(T) /\ "sm" \in Mgr
  BY Parts DEF Mgr
<1>2. PICK b \in Emptied(t, "sm") :
        /\ tree' = [tree EXCEPT !.sm.dirty = @ \ {b}]
        /\ frame' = [frame EXCEPT ![t].sm.req = "drop", ![t].sm.old = b, ![t].bsm = FreeCall(b, 1)]
  BY Zenon DEF Shrink
<1>3. f.pc = "removed" /\ f.req = "none" /\ b \in T.dirty /\ UNCHANGED <<mgr, base_blk, held, user>>
  BY <1>2, Zenon DEF Emptied, Settled, Shrink
<1>4. tree' = [tree EXCEPT !["sm"] = [T EXCEPT !.dirty = T.dirty \ {b}]]
  BY <1>2
<1>5. TreeNow("sm", TreeOf(T.clean, T.dirty \ {b}))
  <2>1. [T EXCEPT !.dirty = T.dirty \ {b}] = TreeOf(T.clean, T.dirty \ {b})
    BY <1>1, SetDirty, Zenon
  <2> QED BY <1>1, <1>4, <2>1, PutTree, Zenon
<1>6. frame' = [frame EXCEPT ![t].sm = [f EXCEPT !.req = "drop", !.old = b], ![t].bsm = FreeCall(b, 1)]
  BY <1>2
<1>7. [f EXCEPT !.req = "drop", !.old = b]
        = FrameOf(f.pc, f.op, f.start, f.cnt, f.ret, f.left, "drop", b)
  BY <1>1, SetReqOld, Zenon
<1>8. BothNow(t, FrameOf(f.pc, f.op, f.start, f.cnt, f.ret, f.left, "drop", b), FreeCall(b, 1))
  BY <1>6, <1>7, PutBoth, Zenon
<1> QED BY <1>3, <1>5, <1>8, Zenon

\* A request failed and its call gives up.
LEMMA GiveUpIs ==
  ASSUME TypeInv, NEW t \in Thread, GiveUp(t)
  PROVE  LET f == frame[t]["sm"]
             g == frame[t]["bsm"]
             M == mgr["sm"]
         IN  /\ f.req # "none" /\ g.pc = "done" /\ g.ret # "ok"
             /\ UNCHANGED <<tree, base_blk, held, user>>
             /\ \E E \in SUBSET M.ext, x \in {0, M.first}, y \in {0, M.total} :
                  ManagerNow("sm", ManagerOf(E, x, y, NoThread))
             /\ \E code \in {"error", g.ret} :
                  BothNow(t, FrameOf("done", f.op, f.start, f.cnt, code, f.left, "none", f.old), NoCall)
<1> DEFINE f == frame[t]["sm"]
           g == frame[t]["bsm"]
           M == mgr["sm"]
           Codes == IF f.pc = "split" \/ f.req = "split" THEN {"error"}
                    ELSE IF f.pc = "removed" /\ Size("sm") > 1 THEN {"error", g.ret} ELSE {g.ret}
           Refused(code) == f.op = "alloc" /\ code = "no_free_blocks"
           First(code) == IF Refused(code) THEN 0 ELSE M.first
           Total(code) == IF Refused(code) THEN 0 ELSE M.total
<1>1. WholeFrame(f) /\ "sm" \in Mgr
  BY Parts DEF Mgr
<1>2. f.req # "none" /\ g.pc = "done" /\ g.ret # "ok" /\ UNCHANGED <<tree, base_blk, held, user>>
  BY Zenon DEF GiveUp, Done
<1>3. PICK code \in Codes, lost \in SUBSET Losable(t, "sm") :
        /\ mgr' = [mgr EXCEPT !.sm = [ext |-> @.ext \ lost,
                                      first |-> IF Refused(code) THEN 0 ELSE @.first,
                                      total |-> IF Refused(code) THEN 0 ELSE @.total,
                                      lock |-> NoThread]]
        /\ frame' = [frame EXCEPT ![t].sm = [f EXCEPT !.pc = "done", !.ret = code, !.req = "none"],
                                  ![t].bsm = NoCall]
  BY Zenon DEF GiveUp
<1>4. code \in {"error", g.ret} /\ First(code) \in {0, M.first} /\ Total(code) \in {0, M.total}
  OBVIOUS
<1>5. mgr' = [mgr EXCEPT !["sm"] = ManagerOf(M.ext \ lost, First(code), Total(code), NoThread)]
  BY <1>3 DEF ManagerOf
<1> HIDE DEF First, Total, Codes
<1>6. ManagerNow("sm", ManagerOf(M.ext \ lost, First(code), Total(code), NoThread))
  BY <1>1, <1>5, PutManager, Zenon
<1>7. M.ext \ lost \in SUBSET M.ext
  OBVIOUS
<1>8. [f EXCEPT !.pc = "done", !.ret = code, !.req = "none"]
        = FrameOf("done", f.op, f.start, f.cnt, code, f.left, "none", f.old)
  BY <1>1, SetPcRetReq, Zenon
<1>9. BothNow(t, FrameOf("done", f.op, f.start, f.cnt, code, f.left, "none", f.old), NoCall)
  BY <1>3, <1>8, PutBoth, Zenon
<1> QED BY <1>2, <1>4, <1>6, <1>7, <1>9, Zenon

\* A node of the BASE tree takes base_blk for its new block.
LEMMA BaseMoveIs ==
  ASSUME TypeInv, NEW t \in Thread, BaseMove(t)
  PROVE  LET g == frame[t]["bsm"]
             T == tree["bsm"]
         IN  /\ g.pc \in {"removed", "split", "inserted"} /\ g.req = "none"
             /\ base_blk' = 0 /\ UNCHANGED <<mgr, held, user>>
             /\ \E b \in T.clean :
                  /\ TreeNow("bsm", TreeOf(T.clean \ {b}, T.dirty \cup {base_blk}))
                  /\ FrameNow(t, "bsm",
                       FrameOf(g.pc, g.op, g.start, g.cnt, g.ret, g.left, "drop", b))
<1> DEFINE g == frame[t]["bsm"]
           T == tree["bsm"]
<1>1. WholeFrame(g) /\ WholeTree(T) /\ "bsm" \in Mgr
  BY Parts DEF Mgr
<1>2. PICK b \in Movable(t, "bsm") :
        /\ tree' = [tree EXCEPT !.bsm = [clean |-> @.clean \ {b}, dirty |-> @.dirty \cup {base_blk}]]
        /\ frame' = [frame EXCEPT ![t].bsm.req = "drop", ![t].bsm.old = b]
  BY Zenon DEF BaseMove
<1>3. /\ g.pc \in {"removed", "split", "inserted"} /\ g.req = "none" /\ b \in T.clean
      /\ base_blk' = 0 /\ UNCHANGED <<mgr, held, user>>
  BY <1>2, Zenon DEF Movable, BaseMove
<1>4. tree' = [tree EXCEPT !["bsm"] = TreeOf(T.clean \ {b}, T.dirty \cup {base_blk})]
  BY <1>2 DEF TreeOf
<1>5. TreeNow("bsm", TreeOf(T.clean \ {b}, T.dirty \cup {base_blk}))
  BY <1>1, <1>4, PutTree, Zenon
<1>6. frame' = [frame EXCEPT ![t]["bsm"] = [g EXCEPT !.req = "drop", !.old = b]]
  BY <1>2
<1>7. [g EXCEPT !.req = "drop", !.old = b]
        = FrameOf(g.pc, g.op, g.start, g.cnt, g.ret, g.left, "drop", b)
  BY <1>1, SetReqOld, Zenon
<1>8. FrameNow(t, "bsm", FrameOf(g.pc, g.op, g.start, g.cnt, g.ret, g.left, "drop", b))
  BY <1>1, <1>6, <1>7, PutFrame, Zenon
<1> QED BY <1>3, <1>5, <1>8, Zenon

\* The old block becomes base_blk.
LEMMA BaseDroppedIs ==
  ASSUME TypeInv, NEW t \in Thread, BaseDropped(t)
  PROVE  LET g == frame[t]["bsm"]
         IN  /\ g.req = "drop" /\ base_blk' = g.old /\ UNCHANGED <<mgr, tree, held, user>>
             /\ FrameNow(t, "bsm", FrameOf(g.pc, g.op, g.start, g.cnt, g.ret, g.left, "none", 0))
<1> DEFINE g == frame[t]["bsm"]
<1>1. WholeFrame(g) /\ "bsm" \in Mgr
  BY Parts DEF Mgr
<1>2. /\ g.req = "drop" /\ base_blk' = g.old /\ UNCHANGED <<mgr, tree, held, user>>
      /\ frame' = [frame EXCEPT ![t].bsm.req = "none", ![t].bsm.old = 0]
  BY Zenon DEF BaseDropped
<1>3. frame' = [frame EXCEPT ![t]["bsm"] = [g EXCEPT !.req = "none", !.old = 0]]
  BY <1>2
<1>4. [g EXCEPT !.req = "none", !.old = 0]
        = FrameOf(g.pc, g.op, g.start, g.cnt, g.ret, g.left, "none", 0)
  BY <1>1, SetReqOld, Zenon
<1>5. FrameNow(t, "bsm", FrameOf(g.pc, g.op, g.start, g.cnt, g.ret, g.left, "none", 0))
  BY <1>1, <1>3, <1>4, PutFrame, Zenon
<1> QED BY <1>2, <1>5, Zenon

\* A split of the BASE tree takes base_blk.
LEMMA BaseSplitIs ==
  ASSUME TypeInv, NEW t \in Thread, BaseSplit(t)
  PROVE  LET g == frame[t]["bsm"]
             T == tree["bsm"]
         IN  /\ g.pc \in {"removed", "ready", "split", "inserted"} /\ g.req = "none"
             /\ base_blk' = 0 /\ UNCHANGED <<mgr, held, user>>
             /\ TreeNow("bsm", TreeOf(T.clean, T.dirty \cup {base_blk}))
             /\ \E p \in {"removed", "split"} :
                  /\ p = "removed" => g.pc = "removed"
                  /\ FrameNow(t, "bsm", FrameOf(p, g.op, g.start, g.cnt, g.ret, g.left, g.req, g.old))
<1> DEFINE g == frame[t]["bsm"]
           T == tree["bsm"]
<1>1. WholeFrame(g) /\ WholeTree(T) /\ "bsm" \in Mgr
  BY Parts DEF Mgr
<1>2. PICK p \in Splitting(t, "bsm") :
        /\ base_blk' = 0 /\ UNCHANGED <<mgr, held, user>>
        /\ tree' = [tree EXCEPT !.bsm.dirty = @ \cup {base_blk}]
        /\ frame' = [frame EXCEPT ![t].bsm.pc = p]
  BY Zenon DEF BaseSplit
<1>3. tree' = [tree EXCEPT !["bsm"] = [T EXCEPT !.dirty = T.dirty \cup {base_blk}]]
  BY <1>2
<1>4. [T EXCEPT !.dirty = T.dirty \cup {base_blk}] = TreeOf(T.clean, T.dirty \cup {base_blk})
  BY <1>1, SetDirty, Zenon
<1>5. TreeNow("bsm", TreeOf(T.clean, T.dirty \cup {base_blk}))
  BY <1>1, <1>3, <1>4, PutTree, Zenon
<1>6. frame' = [frame EXCEPT ![t]["bsm"] = [g EXCEPT !.pc = p]]
  BY <1>2
<1>7. [g EXCEPT !.pc = p] = FrameOf(p, g.op, g.start, g.cnt, g.ret, g.left, g.req, g.old)
  BY <1>1, SetPc, Zenon
<1>8. FrameNow(t, "bsm", FrameOf(p, g.op, g.start, g.cnt, g.ret, g.left, g.req, g.old))
  BY <1>1, <1>6, <1>7, PutFrame, Zenon
<1>9. /\ g.pc \in {"removed", "ready", "split", "inserted"} /\ g.req = "none"
      /\ p \in {"removed", "split"} /\ (p = "removed" => g.pc = "removed")
  BY SplittingIs
<1> QED BY <1>2, <1>5, <1>8, <1>9, Zenon

\* The block of an empty node of the BASE tree is freed.
LEMMA BaseShrinkIs ==
  ASSUME TypeInv, NEW t \in Thread, BaseShrink(t)
  PROVE  LET g == frame[t]["bsm"]
             T == tree["bsm"]
         IN  /\ g.pc = "removed" /\ g.req = "none" /\ UNCHANGED <<mgr, base_blk, held, user>>
             /\ \E b \in T.dirty :
                  /\ TreeNow("bsm", TreeOf(T.clean, T.dirty \ {b}))
                  /\ FrameNow(t, "bsm",
                       FrameOf(g.pc, g.op, g.start, g.cnt, g.ret, g.left, "drop", b))
<1> DEFINE g == frame[t]["bsm"]
           T == tree["bsm"]
<1>1. WholeFrame(g) /\ WholeTree(T) /\ "bsm" \in Mgr
  BY Parts DEF Mgr
<1>2. PICK b \in Emptied(t, "bsm") :
        /\ tree' = [tree EXCEPT !.bsm.dirty = @ \ {b}]
        /\ frame' = [frame EXCEPT ![t].bsm.req = "drop", ![t].bsm.old = b]
  BY Zenon DEF BaseShrink
<1>3. g.pc = "removed" /\ g.req = "none" /\ b \in T.dirty /\ UNCHANGED <<mgr, base_blk, held, user>>
  BY <1>2, Zenon DEF Emptied, Settled, BaseShrink
<1>4. tree' = [tree EXCEPT !["bsm"] = [T EXCEPT !.dirty = T.dirty \ {b}]]
  BY <1>2
<1>5. [T EXCEPT !.dirty = T.dirty \ {b}] = TreeOf(T.clean, T.dirty \ {b})
  BY <1>1, SetDirty, Zenon
<1>6. TreeNow("bsm", TreeOf(T.clean, T.dirty \ {b}))
  BY <1>1, <1>4, <1>5, PutTree, Zenon
<1>7. frame' = [frame EXCEPT ![t]["bsm"] = [g EXCEPT !.req = "drop", !.old = b]]
  BY <1>2
<1>8. [g EXCEPT !.req = "drop", !.old = b]
        = FrameOf(g.pc, g.op, g.start, g.cnt, g.ret, g.left, "drop", b)
  BY <1>1, SetReqOld, Zenon
<1>9. FrameNow(t, "bsm", FrameOf(g.pc, g.op, g.start, g.cnt, g.ret, g.left, "drop", b))
  BY <1>1, <1>7, <1>8, PutFrame, Zenon
<1> QED BY <1>3, <1>6, <1>9, Zenon

\* Where the thread is, in ofs_alloc_space or ofs_free_space.
UserNow(t, pc) == user' = [u \in Thread |-> IF u = t THEN pc ELSE user[u]]

\* The thread goes on.
LEMMA PutUser ==
  ASSUME TypeInv, NEW t \in Thread, NEW pc, Goto(t, pc)
  PROVE  UserNow(t, pc)
  BY DEF TypeInv, RestOK, Goto, UserNow

\* A call of a manager begins or is over.
LEMMA PutCall ==
  ASSUME TypeInv, NEW t \in Thread, NEW m \in Mgr, NEW f, Call(t, m, f)
  PROVE  FrameNow(t, m, f)
  BY PutFrame DEF Call

\* What the actions of ofs_alloc_space do, up to the reserve being filled.
LEMMA ReserveIs ==
  ASSUME TypeInv, NEW t \in Thread
  PROVE  /\ AllocBlock(t) =>
              /\ user[t] = "idle" /\ UNCHANGED <<mgr, tree, base_blk, held>>
              /\ \/ UserNow(t, "base_block") /\ FrameNow(t, "sm", AllocCall(1))
                 \/ UserNow(t, "check") /\ UNCHANGED frame
         /\ GotBaseBlock(t) =>
              /\ user[t] = "base_block" /\ UNCHANGED <<mgr, tree, held>>
              /\ frame[t]["sm"].pc = "done" /\ frame[t]["sm"].ret = "ok"
              /\ base_blk' = frame[t]["sm"].start
              /\ UserNow(t, "check") /\ FrameNow(t, "sm", NoCall)
         /\ CheckReserve(t) =>
              /\ user[t] = "check" /\ UNCHANGED <<mgr, tree, base_blk, held>>
              /\ \/ UserNow(t, "reserve") /\ mgr["bsm"].total <= MinBlk /\ UNCHANGED frame
                 \/ UserNow(t, "block") /\ FrameNow(t, "sm", AllocCall(1))
         /\ Reserve(t) =>
              /\ user[t] = "reserve" /\ UNCHANGED <<mgr, tree, base_blk, held>> /\ UserNow(t, "reserved")
              /\ FrameNow(t, "sm", AllocCall(IF mgr["bsm"].total <= MaxBlk
                                             THEN MaxBlk - mgr["bsm"].total ELSE EndBlk))
<1>1. "sm" \in Mgr
  BY DEF Mgr
<1>2. AllocBlock(t) =>
        /\ user[t] = "idle" /\ UNCHANGED <<mgr, tree, base_blk, held>>
        /\ \/ UserNow(t, "base_block") /\ FrameNow(t, "sm", AllocCall(1))
           \/ UserNow(t, "check") /\ UNCHANGED frame
  BY <1>1, PutUser, PutCall, Zenon DEF AllocBlock
<1>3. GotBaseBlock(t) =>
        /\ user[t] = "base_block" /\ UNCHANGED <<mgr, tree, held>>
        /\ frame[t]["sm"].pc = "done" /\ frame[t]["sm"].ret = "ok"
        /\ base_blk' = frame[t]["sm"].start
        /\ UserNow(t, "check") /\ FrameNow(t, "sm", NoCall)
  BY <1>1, PutUser, PutCall, Zenon DEF GotBaseBlock, Done, Return
<1>4. CheckReserve(t) =>
        /\ user[t] = "check" /\ UNCHANGED <<mgr, tree, base_blk, held>>
        /\ \/ UserNow(t, "reserve") /\ mgr["bsm"].total <= MinBlk /\ UNCHANGED frame
           \/ UserNow(t, "block") /\ FrameNow(t, "sm", AllocCall(1))
  BY <1>1, PutUser, PutCall, Zenon DEF CheckReserve
<1>5. Reserve(t) =>
        /\ user[t] = "reserve" /\ UNCHANGED <<mgr, tree, base_blk, held>> /\ UserNow(t, "reserved")
        /\ FrameNow(t, "sm", AllocCall(IF mgr["bsm"].total <= MaxBlk
                                       THEN MaxBlk - mgr["bsm"].total ELSE EndBlk))
  BY <1>1, PutUser, PutCall, Zenon DEF Reserve
<1> QED BY <1>2, <1>3, <1>4, <1>5

\* The blocks that were reserved are given to bsm.
LEMMA GiveIs ==
  ASSUME TypeInv, NEW t \in Thread, GiveToBase(t)
  PROVE  /\ user[t] = "reserved" /\ frame[t]["sm"].pc = "done" /\ frame[t]["sm"].ret = "ok"
         /\ UNCHANGED <<mgr, tree, base_blk, held>> /\ UserNow(t, "giving")
         /\ BothNow(t, NoCall, FreeCall(frame[t]["sm"].start, frame[t]["sm"].cnt))
  BY PutUser, PutBoth, Zenon DEF GiveToBase, Done

\* What the other actions of ofs_alloc_space, and those of ofs_free_space, do.
LEMMA BlockIs ==
  ASSUME TypeInv, NEW t \in Thread
  PROVE  /\ GivenToBase(t) =>
              /\ user[t] = "giving" /\ UNCHANGED <<mgr, tree, base_blk, held>>
              /\ UserNow(t, "check") /\ FrameNow(t, "bsm", NoCall)
         /\ GotBlock(t) =>
              /\ user[t] = "block" /\ UNCHANGED <<mgr, tree, base_blk>>
              /\ frame[t]["sm"].pc = "done" /\ frame[t]["sm"].ret = "ok"
              /\ held' = held \cup {frame[t]["sm"].start}
              /\ UserNow(t, "idle") /\ FrameNow(t, "sm", NoCall)
         /\ FreeBlock(t) =>
              /\ user[t] = "idle" /\ UNCHANGED <<mgr, tree, base_blk>> /\ UserNow(t, "free")
              /\ \E b \in held : held' = held \ {b} /\ FrameNow(t, "sm", FreeCall(b, 1))
         /\ FreedBlock(t) =>
              /\ user[t] = "free" /\ frame[t]["sm"].pc = "done"
              /\ UNCHANGED <<mgr, tree, base_blk, held>>
              /\ UserNow(t, "idle") /\ FrameNow(t, "sm", NoCall)
         /\ Fails(t) =>
              /\ \/ user[t] \in {"base_block", "reserved", "block", "free"} /\ frame[t]["sm"].pc = "done"
                 \/ user[t] = "giving" /\ frame[t]["bsm"].pc = "done"
              /\ UNCHANGED <<mgr, tree, base_blk, held>>
              /\ UserNow(t, "idle") /\ BothNow(t, NoCall, NoCall)
<1>1. "sm" \in Mgr /\ "bsm" \in Mgr
  BY DEF Mgr
<1>2. GivenToBase(t) =>
        /\ user[t] = "giving" /\ UNCHANGED <<mgr, tree, base_blk, held>>
        /\ UserNow(t, "check") /\ FrameNow(t, "bsm", NoCall)
  BY <1>1, PutUser, PutCall, Zenon DEF GivenToBase, Return
<1>3. GotBlock(t) =>
        /\ user[t] = "block" /\ UNCHANGED <<mgr, tree, base_blk>>
        /\ frame[t]["sm"].pc = "done" /\ frame[t]["sm"].ret = "ok"
        /\ held' = held \cup {frame[t]["sm"].start}
        /\ UserNow(t, "idle") /\ FrameNow(t, "sm", NoCall)
  BY <1>1, PutUser, PutCall, Zenon DEF GotBlock, Done, Return
<1>4. FreeBlock(t) =>
        /\ user[t] = "idle" /\ UNCHANGED <<mgr, tree, base_blk>> /\ UserNow(t, "free")
        /\ \E b \in held : held' = held \ {b} /\ FrameNow(t, "sm", FreeCall(b, 1))
  BY <1>1, PutUser, PutCall, Zenon DEF FreeBlock
<1>5. FreedBlock(t) =>
        /\ user[t] = "free" /\ frame[t]["sm"].pc = "done"
        /\ UNCHANGED <<mgr, tree, base_blk, held>>
        /\ UserNow(t, "idle") /\ FrameNow(t, "sm", NoCall)
  BY <1>1, PutUser, PutCall, Zenon DEF FreedBlock, Done, Return
<1>6. ASSUME Fails(t)
      PROVE  /\ \/ user[t] \in {"base_block", "reserved", "block", "free"} /\ frame[t]["sm"].pc = "done"
                \/ user[t] = "giving" /\ frame[t]["bsm"].pc = "done"
             /\ UNCHANGED <<mgr, tree, base_blk, held>>
             /\ UserNow(t, "idle") /\ BothNow(t, NoCall, NoCall)
  <2>1. frame' = [frame EXCEPT ![t] = [m \in Mgr |-> NoCall]]
    BY <1>6, Zenon DEF Fails
  <2>2. BothNow(t, NoCall, NoCall)
    BY <2>1 DEF TypeInv, FramesOK, BothNow
  <2> QED BY <1>6, <2>2, PutUser, Zenon DEF Fails, Done
<1> QED BY <1>2, <1>3, <1>4, <1>5, <1>6

-----------------------------------------------------------------------------
(* The types.                                                              *)

\* What is known of a frame.
LEMMA FrameFacts ==
  ASSUME TypeInv, NEW t \in Thread, NEW m \in Mgr, NEW f, f = frame[t][m]
  PROVE  InRange(f.pc, f.op, f.start, f.cnt, f.ret, f.left, f.req, f.old)
  BY Parts DEF IsFrame

\* What is known of a manager and of its tree.
LEMMA ManagerFacts ==
  ASSUME TypeInv, NEW m \in Mgr
  PROVE  /\ mgr[m].ext \subseteq DeviceExtents /\ mgr[m].first \in Nat /\ mgr[m].total \in Nat
         /\ mgr[m].lock \in Thread \cup {NoThread}
         /\ tree[m].clean \subseteq Device /\ tree[m].dirty \subseteq Device
  BY DEF TypeInv, ManagersOK, TreesOK, IsManager, IsTree

\* Steps that leave some variables alone.
LEMMA Kept ==
  ASSUME TypeInv
  PROVE  /\ UNCHANGED mgr => ManagersOK'
         /\ UNCHANGED tree => TreesOK'
         /\ UNCHANGED frame => FramesOK'
         /\ UNCHANGED <<base_blk, held, user>> => RestOK'
         /\ FramesOK /\ ManagersOK /\ TreesOK
  BY DEF TypeInv, ManagersOK, TreesOK, FramesOK, RestOK

\* The stage, base_blk and the other objects.
LEMMA RestStep ==
  ASSUME TypeInv, NEW t \in Thread, NEW pc \in Stages, UserNow(t, pc),
         base_blk' \in Device, held' \subseteq Device
  PROVE  RestOK'
  BY DEF TypeInv, RestOK, UserNow

\* What is carved out of an extent of the device is in the device.
LEMMA CarveTyped ==
  ASSUME NEW e \in DeviceExtents, NEW a \in Nat, NEW n \in Nat
  PROVE  /\ GivenStart(e, a, n) \in Device /\ GivenCount(e, a, n) \in Nat
         /\ Within(GivenStart(e, a, n), GivenCount(e, a, n))
         /\ HeadPiece(e, a, n) \cup TailPiece(e, a, n) \subseteq DeviceExtents
<1> DEFINE s == GivenStart(e, a, n)
           c == GivenCount(e, a, n)
           end == e.addr + e.len
<1>1. e.addr \in Nat /\ e.len \in Nat /\ e.addr < EndBlk /\ end <= EndBlk /\ EndBlk \in Nat
  BY SpaceManagerAssumption DEF DeviceExtents, Extent
<1>2. s \in Nat /\ e.addr <= s /\ s <= end /\ s < EndBlk
  BY <1>1 DEF GivenStart, Overlap, Larger, Smaller
<1>3. c = IF s + n < end THEN n ELSE end - s
  BY <1>1, <1>2 DEF GivenCount
<1>4. HeadPiece(e, a, n) \subseteq {[addr |-> e.addr, len |-> s - e.addr]}
  BY Zenon DEF HeadPiece
<1>5. TailPiece(e, a, n) =
        IF s + n < end THEN {[addr |-> s + n, len |-> e.addr + e.len - (s + n)]} ELSE {}
  BY Zenon DEF TailPiece
<1> HIDE DEF s, c
<1>6. s \in Device /\ c \in Nat /\ Within(s, c)
  BY <1>1, <1>2, <1>3 DEF Device, Within
<1>7. [addr |-> e.addr, len |-> s - e.addr] \in DeviceExtents
  BY <1>1, <1>2 DEF DeviceExtents, Extent
<1>8. s + n < end => [addr |-> s + n, len |-> e.addr + e.len - (s + n)] \in DeviceExtents
  BY <1>1, <1>2 DEF DeviceExtents, Extent
<1>9. HeadPiece(e, a, n) \cup TailPiece(e, a, n) \subseteq DeviceExtents
  <2>1. HeadPiece(e, a, n) \subseteq DeviceExtents
    BY <1>4, <1>7
  <2>2. CASE s + n < end
    BY <1>5, <1>8, <2>1, <2>2, Zenon
  <2>3. CASE ~(s + n < end)
    BY <1>5, <2>1, <2>3, Zenon
  <2> QED BY <2>2, <2>3
<1> QED BY <1>6, <1>9 DEF s, c

\* The calls that begin and end.
LEMMA CallsTyped ==
  ASSUME TypeInv, NEW t \in Thread, NEW m \in Mgr,
         EnterAlloc(t, m) \/ EnterFree(t, m) \/ Insert(t, m) \/ Leave(t, m)
  PROVE  TypeInv'
<1> DEFINE f == frame[t][m]
           M == mgr[m]
<1>1. InRange(f.pc, f.op, f.start, f.cnt, f.ret, f.left, f.req, f.old)
  BY FrameFacts
<1>2. /\ M.ext \subseteq DeviceExtents /\ M.first \in Nat /\ M.total \in Nat
      /\ M.lock \in Thread \cup {NoThread}
  BY ManagerFacts
<1>3. UNCHANGED <<tree, base_blk, held, user>> => TreesOK' /\ RestOK'
  BY Kept
<1>4. \A N : IsManager(N) /\ ManagerNow(m, N) => ManagersOK'
  BY Kept, ManagerStep, Zenon
<1>5. \A g : IsFrame(g) /\ FrameNow(t, m, g) => FramesOK'
  BY Kept, FrameStep, Zenon
<1>6. CASE EnterAlloc(t, m)
  <2>0. f.pc = "enter"
    BY <1>6, EnterAllocIs
  <2>1. IsFrame(FrameOf("done", f.op, f.start, f.cnt, "no_free_blocks", f.left, f.req, f.old))
    <3>1. InRange("done", f.op, f.start, f.cnt, "no_free_blocks", f.left, f.req, f.old)
      BY <1>1, <2>0 DEF InRange
    <3> QED BY <3>1, FrameTyped, Zenon
  <2>2. \A x \in {0, M.first} : IsManager(ManagerOf(M.ext, x, 0, M.lock))
    BY <1>2, Typed, SMT
  <2>3. ASSUME NEW e \in M.ext
        PROVE  /\ IsManager(ManagerOf(M.ext \ {e}, M.first, M.total, t))
               /\ f.pc = "enter" /\ f.op = "alloc" =>
                    IsFrame(FrameOf("removed", f.op, GivenStart(e, M.first, f.cnt),
                                    GivenCount(e, M.first, f.cnt), f.ret,
                                    HeadPiece(e, M.first, f.cnt) \cup TailPiece(e, M.first, f.cnt),
                                    f.req, f.old))
    <3>1. M.ext \ {e} \subseteq DeviceExtents /\ e \in DeviceExtents
      BY <1>2
    <3>2. IsManager(ManagerOf(M.ext \ {e}, M.first, M.total, t))
      BY <1>2, <3>1, Typed, SMT
    <3>3. PICK s, c, l : /\ s = GivenStart(e, M.first, f.cnt) /\ c = GivenCount(e, M.first, f.cnt)
                         /\ l = HeadPiece(e, M.first, f.cnt) \cup TailPiece(e, M.first, f.cnt)
      OBVIOUS
    <3>4. s \in Device /\ c \in Nat /\ Within(s, c) /\ l \subseteq DeviceExtents
      BY <1>1, <1>2, <3>1, <3>3, CarveTyped, Zenon DEF InRange
    <3>5. IsFrame(FrameOf("removed", f.op, s, c, f.ret, l, f.req, f.old))
      <4>1. InRange("removed", f.op, s, c, f.ret, l, f.req, f.old)
        BY <1>1, <3>4 DEF InRange
      <4> QED BY <4>1, FrameTyped, Zenon
    <3> QED BY <3>2, <3>3, <3>5, Zenon
  <2>4. ManagersOK' /\ FramesOK' /\ UNCHANGED <<tree, base_blk, held, user>>
    BY <1>4, <1>5, <1>6, <2>1, <2>2, <2>3, EnterAllocIs, Zenon
  <2> QED BY <1>3, <2>4 DEF TypeInv
<1>7. CASE EnterFree(t, m)
  <2>0. f.pc = "enter"
    BY <1>7, EnterFreeIs
  <2>1. IsFrame(FrameOf("done", f.op, f.start, f.cnt, "error", f.left, f.req, f.old))
    <3>1. InRange("done", f.op, f.start, f.cnt, "error", f.left, f.req, f.old)
      BY <1>1, <2>0 DEF InRange
    <3> QED BY <3>1, FrameTyped, Zenon
  <2>2. IsManager(ManagerOf(M.ext, M.first, M.total, t))
    BY <1>2, Typed, SMT
  <2>3. f.pc = "enter" /\ f.op = "free"
    BY <1>7, EnterFreeIs
  <2>4. {[addr |-> f.start, len |-> f.cnt]} \subseteq DeviceExtents
    BY <1>1, <2>3, SpaceManagerAssumption DEF DeviceExtents, Extent, Device, Within, InRange
  <2>5. PICK l : l = {[addr |-> f.start, len |-> f.cnt]}
    OBVIOUS
  <2>6. IsFrame(FrameOf("ready", f.op, f.start, f.cnt, f.ret, l, f.req, f.old))
    <3>1. InRange("ready", f.op, f.start, f.cnt, f.ret, l, f.req, f.old)
      BY <1>1, <2>3, <2>4, <2>5 DEF InRange
    <3> QED BY <3>1, FrameTyped, Zenon
  <2>7. ManagersOK' /\ FramesOK' /\ UNCHANGED <<tree, base_blk, held, user>>
    BY <1>4, <1>5, <1>7, <2>1, <2>2, <2>5, <2>6, EnterFreeIs, Kept, Zenon
  <2> QED BY <1>3, <2>7 DEF TypeInv
<1>8. CASE Insert(t, m)
  <2>1. ASSUME NEW piece \in f.left, f.pc \in {"removed", "ready", "split", "inserted"}
        PROVE  /\ IsManager(ManagerOf(M.ext \cup {piece}, M.first, M.total, M.lock))
               /\ IsFrame(FrameOf("inserted", f.op, f.start, f.cnt, f.ret, f.left \ {piece},
                                  f.req, f.old))
    <3>1. M.ext \cup {piece} \subseteq DeviceExtents /\ f.left \ {piece} \subseteq DeviceExtents
      BY <1>1, <1>2, <2>1 DEF InRange
    <3>2. IsManager(ManagerOf(M.ext \cup {piece}, M.first, M.total, M.lock))
      BY <1>2, <3>1, Typed, SMT
    <3>3. PICK l : l = f.left \ {piece}
      OBVIOUS
    <3>4. IsFrame(FrameOf("inserted", f.op, f.start, f.cnt, f.ret, l, f.req, f.old))
      <4>1. InRange("inserted", f.op, f.start, f.cnt, f.ret, l, f.req, f.old)
        BY <1>1, <2>1, <3>1, <3>3 DEF InRange
      <4> QED BY <4>1, FrameTyped, Zenon
    <3> QED BY <3>2, <3>3, <3>4
  <2>2. ManagersOK' /\ FramesOK' /\ UNCHANGED <<tree, base_blk, held, user>>
    BY <1>4, <1>5, <1>8, <2>1, InsertIs, Zenon
  <2> QED BY <1>3, <2>2 DEF TypeInv
<1>9. CASE Leave(t, m)
  <2>1. f.pc \in {"removed", "inserted"} /\ f.req = "none"
    BY <1>9, LeaveIs
  <2>2. IsFrame(FrameOf("done", f.op, f.start, f.cnt, f.ret, f.left, f.req, f.old))
    <3>1. InRange("done", f.op, f.start, f.cnt, f.ret, f.left, f.req, f.old)
      BY <1>1, <2>1 DEF InRange
    <3> QED BY <3>1, FrameTyped, Zenon
  <2>3. PICK x \in {M.first, f.start + f.cnt}, y \in {M.total + f.cnt, M.total, M.total - f.cnt} :
          /\ ManagerNow(m, ManagerOf(M.ext, x, y, NoThread))
          /\ y = M.total - f.cnt => ~(M.total < f.cnt)
    BY <1>9, LeaveIs
  <2>4. x \in Nat /\ y \in Nat
    BY <1>1, <1>2, <2>3 DEF Device, InRange
  <2>5. IsManager(ManagerOf(M.ext, x, y, NoThread))
    BY <1>2, <2>4, Typed, SMT
  <2>6. ManagersOK' /\ FramesOK' /\ UNCHANGED <<tree, base_blk, held, user>>
    BY <1>4, <1>5, <1>9, <2>2, <2>3, <2>5, LeaveIs, Zenon
  <2> QED BY <1>3, <2>6 DEF TypeInv
<1> QED BY <1>6, <1>7, <1>8, <1>9

\* The requests of the SPACE tree.
LEMMA RequestsTyped ==
  ASSUME TypeInv, NEW t \in Thread,
         Move(t) \/ Moved(t) \/ Dropped(t) \/ Split(t) \/ HasSplit(t) \/ Shrink(t) \/ GiveUp(t)
  PROVE  TypeInv'
<1> DEFINE f == frame[t]["sm"]
           g == frame[t]["bsm"]
           T == tree["sm"]
           M == mgr["sm"]
<1>0. "sm" \in Mgr /\ "bsm" \in Mgr /\ 0 \in Device /\ 0 \in Nat /\ 1 \in Nat
  BY SpaceManagerAssumption DEF Mgr, Device
<1>1. InRange(f.pc, f.op, f.start, f.cnt, f.ret, f.left, f.req, f.old)
  BY <1>0, FrameFacts
<1>2. g.start \in Device /\ g.ret \in {"ok", "no_free_blocks", "error"}
  <2>1. InRange(g.pc, g.op, g.start, g.cnt, g.ret, g.left, g.req, g.old)
    BY <1>0, FrameFacts
  <2> QED BY <2>1 DEF InRange
<1>3. /\ M.ext \subseteq DeviceExtents /\ M.first \in Nat /\ M.total \in Nat
      /\ T.clean \subseteq Device /\ T.dirty \subseteq Device
  BY <1>0, ManagerFacts
<1>4. /\ UNCHANGED mgr => ManagersOK'
      /\ UNCHANGED tree => TreesOK'
      /\ UNCHANGED <<base_blk, held, user>> => RestOK'
  BY Kept
<1>5. \A x, y : IsFrame(x) /\ IsFrame(y) /\ BothNow(t, x, y) => FramesOK'
  BY Kept, BothStep, Zenon
<1>6. \A X : IsTree(X) /\ TreeNow("sm", X) => TreesOK'
  BY <1>0, Kept, TreeStep, Zenon
<1>7. \A b \in Device : Within(b, 1)
  BY SpaceManagerAssumption DEF Device, Within
<1>8. IsFrame(NoCall) /\ IsFrame(AllocCall(1)) /\ \A b \in Device : IsFrame(FreeCall(b, 1))
  BY <1>0, <1>7, CallTyped, Zenon
<1>9. ASSUME NEW p \in {f.pc, "split"}, NEW q \in {"move", "split", "drop", "none"},
             NEW o \in Device, f.pc \in {"removed", "split", "ready", "inserted"},
             q = "none" \/ p = "split" \/ f.pc # "ready"
      PROVE  IsFrame(FrameOf(p, f.op, f.start, f.cnt, f.ret, f.left, q, o))
  <2>1. InRange(p, f.op, f.start, f.cnt, f.ret, f.left, q, o)
    BY <1>1, <1>9 DEF InRange
  <2> QED BY <2>1, FrameTyped, Zenon
<1>10. f.old \in Device /\ (f.req # "none" => f.pc \in {"removed", "split", "inserted"})
  BY <1>1 DEF InRange
<1>11. CASE Move(t)
  <2>1. PICK b \in T.clean :
          BothNow(t, FrameOf(f.pc, f.op, f.start, f.cnt, f.ret, f.left, "move", b), AllocCall(1))
    BY <1>11, MoveIs
  <2>2. IsFrame(FrameOf(f.pc, f.op, f.start, f.cnt, f.ret, f.left, "move", b))
    BY <1>3, <1>9, <1>11, <2>1, MoveIs
  <2>3. FramesOK'
    BY <1>5, <1>8, <2>1, <2>2, Zenon
  <2> QED BY <1>4, <1>11, <2>3, MoveIs DEF TypeInv
<1>12. CASE Moved(t)
  <2>1. IsTree(TreeOf(T.clean \ {f.old}, T.dirty \cup {g.start}))
    <3>1. T.clean \ {f.old} \subseteq Device /\ T.dirty \cup {g.start} \subseteq Device
      BY <1>2, <1>3
    <3> QED BY <3>1, Typed, Zenon
  <2>2. f.old \in Device /\ f.pc \in {"removed", "split", "inserted"}
    BY <1>10, <1>12, MovedIs
  <2>3. IsFrame(FrameOf(f.pc, f.op, f.start, f.cnt, f.ret, f.left, "drop", f.old))
    BY <1>9, <2>2
  <2>4. FramesOK'
    BY <1>5, <1>8, <1>12, <2>2, <2>3, MovedIs, Zenon
  <2>5. TreesOK'
    BY <1>6, <1>12, <2>1, MovedIs, Zenon
  <2> QED BY <1>4, <1>12, <2>4, <2>5, MovedIs DEF TypeInv
<1>13. CASE Dropped(t)
  <2>1. IsFrame(FrameOf(f.pc, f.op, f.start, f.cnt, f.ret, f.left, "none", 0))
    BY <1>0, <1>9, <1>10, <1>13, DroppedIs
  <2>2. FramesOK'
    BY <1>5, <1>8, <1>13, <2>1, DroppedIs, Zenon
  <2> QED BY <1>4, <1>13, <2>2, DroppedIs DEF TypeInv
<1>14. CASE Split(t)
  <2>1. f.pc \in {"removed", "split", "ready", "inserted"} /\ f.old \in Device
    BY <1>1, <1>14, SplitIs DEF InRange
  <2>2. PICK p \in {"removed", "split"} :
          /\ p = "removed" => f.pc = "removed"
          /\ BothNow(t, FrameOf(p, f.op, f.start, f.cnt, f.ret, f.left, "split", f.old), AllocCall(1))
    BY <1>14, SplitIs
  <2>3. IsFrame(FrameOf(p, f.op, f.start, f.cnt, f.ret, f.left, "split", f.old))
    BY <1>9, <2>1, <2>2
  <2>4. FramesOK'
    BY <1>5, <1>8, <2>2, <2>3, Zenon
  <2> QED BY <1>4, <1>14, <2>4, SplitIs DEF TypeInv
<1>15. CASE HasSplit(t)
  <2>1. IsTree(TreeOf(T.clean, T.dirty \cup {g.start}))
    <3>1. T.clean \subseteq Device /\ T.dirty \cup {g.start} \subseteq Device
      BY <1>2, <1>3
    <3> QED BY <3>1, Typed, Zenon
  <2>2. f.old \in Device /\ f.pc \in {"removed", "split", "inserted"}
    BY <1>10, <1>15, HasSplitIs
  <2>3. IsFrame(FrameOf(f.pc, f.op, f.start, f.cnt, f.ret, f.left, "none", f.old))
    BY <1>9, <2>2
  <2>4. FramesOK'
    BY <1>5, <1>8, <1>15, <2>3, HasSplitIs, Zenon
  <2>5. TreesOK'
    BY <1>6, <1>15, <2>1, HasSplitIs, Zenon
  <2> QED BY <1>4, <1>15, <2>4, <2>5, HasSplitIs DEF TypeInv
<1>16. CASE Shrink(t)
  <2>1. PICK b \in T.dirty :
          /\ TreeNow("sm", TreeOf(T.clean, T.dirty \ {b}))
          /\ BothNow(t, FrameOf(f.pc, f.op, f.start, f.cnt, f.ret, f.left, "drop", b),
                     FreeCall(b, 1))
    BY <1>16, ShrinkIs
  <2>2. IsTree(TreeOf(T.clean, T.dirty \ {b}))
    <3>1. T.clean \subseteq Device /\ T.dirty \ {b} \subseteq Device
      BY <1>3
    <3> QED BY <3>1, Typed, Zenon
  <2>3. b \in Device /\ f.pc = "removed"
    BY <1>3, <1>16, ShrinkIs
  <2>4. IsFrame(FrameOf(f.pc, f.op, f.start, f.cnt, f.ret, f.left, "drop", b))
    BY <1>9, <2>3
  <2>5. FramesOK'
    BY <1>5, <1>8, <2>1, <2>3, <2>4, Zenon
  <2>6. TreesOK'
    BY <1>6, <2>1, <2>2, Zenon
  <2> QED BY <1>4, <1>16, <2>5, <2>6, ShrinkIs DEF TypeInv
<1>17. CASE GiveUp(t)
  <2>1. PICK E \in SUBSET M.ext, x \in {0, M.first}, y \in {0, M.total} :
          ManagerNow("sm", ManagerOf(E, x, y, NoThread))
    BY <1>17, GiveUpIs
  <2>2. PICK code \in {"error", g.ret} :
          BothNow(t, FrameOf("done", f.op, f.start, f.cnt, code, f.left, "none", f.old), NoCall)
    BY <1>17, GiveUpIs
  <2>3. IsManager(ManagerOf(E, x, y, NoThread))
    BY <1>0, <1>3, Typed, SMT
  <2>4. ManagersOK'
    BY <1>0, <2>1, <2>3, Kept, ManagerStep, Zenon
  <2>5. g.ret # "ok"
    BY <1>17, GiveUpIs
  <2>6. InRange("done", f.op, f.start, f.cnt, code, f.left, "none", f.old)
    BY <1>1, <1>2, <2>5 DEF InRange
  <2>7. FramesOK'
    BY <1>5, <1>8, <2>2, <2>6, FrameTyped, Zenon
  <2> QED BY <1>4, <1>17, <2>4, <2>7, GiveUpIs DEF TypeInv
<1> QED BY <1>11, <1>12, <1>13, <1>14, <1>15, <1>16, <1>17

\* The requests of the BASE tree.
LEMMA BaseTyped ==
  ASSUME TypeInv, NEW t \in Thread,
         BaseMove(t) \/ BaseDropped(t) \/ BaseSplit(t) \/ BaseShrink(t)
  PROVE  TypeInv'
<1> DEFINE g == frame[t]["bsm"]
           T == tree["bsm"]
<1>0. "bsm" \in Mgr /\ 0 \in Device /\ base_blk \in Device /\ held \subseteq Device
  BY SpaceManagerAssumption DEF Mgr, Device, TypeInv, RestOK
<1>1. InRange(g.pc, g.op, g.start, g.cnt, g.ret, g.left, g.req, g.old)
  BY <1>0, FrameFacts
<1>2. g.old \in Device /\ (g.req # "none" => g.pc \in {"removed", "split", "inserted"})
  BY <1>1 DEF InRange
<1>3. T.clean \subseteq Device /\ T.dirty \subseteq Device
  BY <1>0, ManagerFacts
<1>4. /\ UNCHANGED mgr => ManagersOK'
      /\ UNCHANGED tree => TreesOK'
  BY Kept
<1>5. UNCHANGED <<held, user>> /\ base_blk' \in Device => RestOK'
  BY DEF TypeInv, RestOK
<1>6. \A x : IsFrame(x) /\ FrameNow(t, "bsm", x) => FramesOK'
  BY <1>0, Kept, FrameStep, Zenon
<1>7. \A X : IsTree(X) /\ TreeNow("bsm", X) => TreesOK'
  BY <1>0, Kept, TreeStep, Zenon
<1>8. CASE BaseMove(t)
  <2>1. PICK b \in T.clean :
          /\ TreeNow("bsm", TreeOf(T.clean \ {b}, T.dirty \cup {base_blk}))
          /\ FrameNow(t, "bsm", FrameOf(g.pc, g.op, g.start, g.cnt, g.ret, g.left, "drop", b))
    BY <1>8, BaseMoveIs
  <2>2. /\ g.pc \in {"removed", "split", "inserted"} /\ g.req = "none"
        /\ base_blk' = 0 /\ UNCHANGED <<mgr, held, user>>
    BY <1>8, BaseMoveIs
  <2>3. T.clean \ {b} \subseteq Device /\ T.dirty \cup {base_blk} \subseteq Device /\ b \in Device
    BY <1>0, <1>3
  <2>4. TreesOK'
    BY <1>7, <2>1, <2>3, Typed, Zenon
  <2>5. InRange(g.pc, g.op, g.start, g.cnt, g.ret, g.left, "drop", b)
    BY <1>1, <2>2, <2>3 DEF InRange
  <2>6. FramesOK'
    BY <1>6, <2>1, <2>5, FrameTyped, Zenon
  <2> QED BY <1>0, <1>4, <1>5, <2>2, <2>4, <2>6 DEF TypeInv
<1>9. CASE BaseDropped(t)
  <2>1. InRange(g.pc, g.op, g.start, g.cnt, g.ret, g.left, "none", 0)
    BY <1>0, <1>1, <1>9, BaseDroppedIs DEF InRange
  <2>2. FramesOK'
    BY <1>6, <1>9, <2>1, BaseDroppedIs, FrameTyped, Zenon
  <2>3. base_blk' \in Device /\ UNCHANGED <<mgr, tree, held, user>>
    BY <1>2, <1>9, BaseDroppedIs
  <2> QED BY <1>4, <1>5, <2>2, <2>3 DEF TypeInv
<1>10. CASE BaseSplit(t)
  <2>1. /\ g.pc \in {"removed", "ready", "split", "inserted"} /\ g.req = "none"
        /\ base_blk' = 0 /\ UNCHANGED <<mgr, held, user>>
        /\ TreeNow("bsm", TreeOf(T.clean, T.dirty \cup {base_blk}))
    BY <1>10, BaseSplitIs
  <2>6. PICK p \in {"removed", "split"} :
          FrameNow(t, "bsm", FrameOf(p, g.op, g.start, g.cnt, g.ret, g.left, g.req, g.old))
    BY <1>10, BaseSplitIs
  <2>2. T.dirty \cup {base_blk} \subseteq Device
    BY <1>0, <1>3
  <2>3. TreesOK'
    BY <1>3, <1>7, <2>1, <2>2, Typed, Zenon
  <2>4. InRange(p, g.op, g.start, g.cnt, g.ret, g.left, g.req, g.old)
    BY <1>1, <2>1, <2>6 DEF InRange
  <2>5. FramesOK'
    BY <1>6, <2>4, <2>6, FrameTyped, Zenon
  <2> QED BY <1>0, <1>4, <1>5, <2>1, <2>3, <2>5 DEF TypeInv
<1>11. CASE BaseShrink(t)
  <2>1. PICK b \in T.dirty :
          /\ TreeNow("bsm", TreeOf(T.clean, T.dirty \ {b}))
          /\ FrameNow(t, "bsm", FrameOf(g.pc, g.op, g.start, g.cnt, g.ret, g.left, "drop", b))
    BY <1>11, BaseShrinkIs
  <2>2. g.pc = "removed" /\ g.req = "none" /\ UNCHANGED <<mgr, base_blk, held, user>>
    BY <1>11, BaseShrinkIs
  <2>3. T.dirty \ {b} \subseteq Device /\ b \in Device
    BY <1>3
  <2>4. TreesOK'
    BY <1>3, <1>7, <2>1, <2>3, Typed, Zenon
  <2>5. InRange(g.pc, g.op, g.start, g.cnt, g.ret, g.left, "drop", b)
    BY <1>1, <2>2, <2>3 DEF InRange
  <2>6. FramesOK'
    BY <1>6, <2>1, <2>5, FrameTyped, Zenon
  <2> QED BY <1>0, <1>4, <1>5, <2>2, <2>4, <2>6 DEF TypeInv
<1> QED BY <1>8, <1>9, <1>10, <1>11

\* The actions of ofs_alloc_space and ofs_free_space.
LEMMA UserTyped ==
  ASSUME TypeInv, NEW t \in Thread,
         AllocBlock(t) \/ FreeBlock(t) \/ GotBaseBlock(t) \/ CheckReserve(t) \/ Reserve(t)
           \/ GiveToBase(t) \/ GivenToBase(t) \/ GotBlock(t) \/ FreedBlock(t) \/ Fails(t)
  PROVE  TypeInv'
<1> DEFINE f == frame[t]["sm"]
           n == IF mgr["bsm"].total <= MaxBlk THEN MaxBlk - mgr["bsm"].total ELSE EndBlk
<1>0. /\ "sm" \in Mgr /\ "bsm" \in Mgr /\ 0 \in Device /\ 0 \in Nat /\ 1 \in Nat
      /\ \A b \in Device : Within(b, 1)
  BY SpaceManagerAssumption DEF Mgr, Device, Within
<1>1. base_blk \in Device /\ held \subseteq Device
  BY DEF TypeInv, RestOK
<1>2. InRange(f.pc, f.op, f.start, f.cnt, f.ret, f.left, f.req, f.old)
  BY <1>0, FrameFacts
<1>3. /\ UNCHANGED mgr => ManagersOK'
      /\ UNCHANGED tree => TreesOK'
      /\ UNCHANGED frame => FramesOK'
  BY Kept
<1>4. \A pc \in Stages : UserNow(t, pc) /\ base_blk' \in Device /\ held' \subseteq Device => RestOK'
  BY RestStep
<1>5. \A m \in Mgr : \A g : IsFrame(g) /\ FrameNow(t, m, g) => FramesOK'
  BY Kept, FrameStep, Zenon
<1>6. \A x, y : IsFrame(x) /\ IsFrame(y) /\ BothNow(t, x, y) => FramesOK'
  BY Kept, BothStep, Zenon
<1>7. IsFrame(NoCall) /\ IsFrame(AllocCall(1)) /\ \A b \in Device : IsFrame(FreeCall(b, 1))
  BY <1>0, CallTyped, Zenon
<1>8. {"idle", "base_block", "check", "reserve", "reserved", "giving", "block", "free"} \subseteq Stages
  BY DEF Stages
<1>9. CASE AllocBlock(t)
  <2>1. FramesOK'
    BY <1>0, <1>3, <1>5, <1>7, <1>9, ReserveIs, Zenon
  <2>2. \E pc \in Stages : UserNow(t, pc)
    BY <1>8, <1>9, ReserveIs
  <2> QED BY <1>1, <1>3, <1>4, <1>9, <2>1, <2>2, ReserveIs DEF TypeInv
<1>10. CASE GotBaseBlock(t)
  <2>1. FramesOK'
    BY <1>0, <1>5, <1>7, <1>10, ReserveIs, Zenon
  <2>2. base_blk' \in Device
    BY <1>2, <1>10, ReserveIs DEF InRange
  <2> QED BY <1>1, <1>3, <1>4, <1>8, <1>10, <2>1, <2>2, ReserveIs DEF TypeInv
<1>11. CASE CheckReserve(t)
  <2>1. FramesOK'
    BY <1>0, <1>3, <1>5, <1>7, <1>11, ReserveIs, Zenon
  <2>2. \E pc \in Stages : UserNow(t, pc)
    BY <1>8, <1>11, ReserveIs
  <2> QED BY <1>1, <1>3, <1>4, <1>11, <2>1, <2>2, ReserveIs DEF TypeInv
<1>12. CASE Reserve(t)
  <2>1. n \in Nat
    <3>1. mgr["bsm"].total \in Nat
      BY <1>0, ManagerFacts
    <3> QED BY <3>1, SpaceManagerAssumption
  <2>2. IsFrame(AllocCall(n))
    BY <1>0, <2>1, CallTyped, Zenon
  <2>3. FramesOK'
    BY <1>0, <1>5, <1>12, <2>2, ReserveIs, Zenon
  <2> QED BY <1>1, <1>3, <1>4, <1>8, <1>12, <2>3, ReserveIs DEF TypeInv
<1>13. CASE GiveToBase(t)
  <2>1. f.start \in Device /\ f.cnt \in Nat /\ Within(f.start, f.cnt)
    BY <1>2, <1>13, GiveIs DEF InRange
  <2>2. IsFrame(FreeCall(f.start, f.cnt))
    BY <2>1, CallTyped, Zenon
  <2>3. FramesOK'
    BY <1>6, <1>7, <1>13, <2>2, GiveIs, Zenon
  <2> QED BY <1>1, <1>3, <1>4, <1>8, <1>13, <2>3, GiveIs DEF TypeInv
<1>14. CASE GivenToBase(t)
  <2>1. FramesOK'
    BY <1>0, <1>5, <1>7, <1>14, BlockIs, Zenon
  <2> QED BY <1>1, <1>3, <1>4, <1>8, <1>14, <2>1, BlockIs DEF TypeInv
<1>15. CASE GotBlock(t)
  <2>1. FramesOK'
    BY <1>0, <1>5, <1>7, <1>15, BlockIs, Zenon
  <2>2. held' \subseteq Device
    BY <1>1, <1>2, <1>15, BlockIs DEF InRange
  <2> QED BY <1>1, <1>3, <1>4, <1>8, <1>15, <2>1, <2>2, BlockIs DEF TypeInv
<1>16. CASE FreeBlock(t)
  <2>1. PICK b \in held : held' = held \ {b} /\ FrameNow(t, "sm", FreeCall(b, 1))
    BY <1>16, BlockIs
  <2>2. FramesOK'
    BY <1>0, <1>1, <1>5, <1>7, <2>1, Zenon
  <2>3. held' \subseteq Device
    BY <1>1, <2>1
  <2> QED BY <1>1, <1>3, <1>4, <1>8, <1>16, <2>2, <2>3, BlockIs DEF TypeInv
<1>17. CASE FreedBlock(t)
  <2>1. FramesOK'
    BY <1>0, <1>5, <1>7, <1>17, BlockIs, Zenon
  <2> QED BY <1>1, <1>3, <1>4, <1>8, <1>17, <2>1, BlockIs DEF TypeInv
<1>18. CASE Fails(t)
  <2>1. FramesOK'
    BY <1>6, <1>7, <1>18, BlockIs, Zenon
  <2> QED BY <1>1, <1>3, <1>4, <1>8, <1>18, <2>1, BlockIs DEF TypeInv
<1> QED BY <1>9, <1>10, <1>11, <1>12, <1>13, <1>14, <1>15, <1>16, <1>17, <1>18

\* Close and reopen.
LEMMA ReopenTyped ==
  ASSUME TypeInv, Reopen
  PROVE  TypeInv'
<1>1. UNCHANGED <<mgr, base_blk, held, user, frame>>
  BY Zenon DEF Reopen
<1>2. tree' = [m \in Mgr |-> TreeOf(tree[m].clean \cup tree[m].dirty, {})]
  BY Zenon DEF Reopen, TreeOf
<1>3. \A m \in Mgr : IsTree(TreeOf(tree[m].clean \cup tree[m].dirty, {}))
  <2> SUFFICES ASSUME NEW m \in Mgr PROVE IsTree(TreeOf(tree[m].clean \cup tree[m].dirty, {}))
    OBVIOUS
  <2>1. tree[m].clean \cup tree[m].dirty \subseteq Device /\ {} \subseteq Device
    BY ManagerFacts
  <2> QED BY <2>1, Typed, Zenon
<1>4. TreesOK'
  BY <1>2, <1>3 DEF TreesOK
<1> QED BY <1>1, <1>4, Kept DEF TypeInv

\* Init.
LEMMA TypeInit ==
  ASSUME Init
  PROVE  TypeInv
<1>1. 0 \in Device /\ 0 \in Nat /\ EndBlk - 3 \in Nat /\ NoThread \in Thread \cup {NoThread}
  BY SpaceManagerAssumption DEF Device
<1>2. {[addr |-> 3, len |-> EndBlk - 3]} \subseteq DeviceExtents
  BY <1>1, SpaceManagerAssumption DEF DeviceExtents, Extent
<1>3. ManagersOK
  <2>1. PICK E : E = {[addr |-> 3, len |-> EndBlk - 3]}
    OBVIOUS
  <2>2. mgr = [sm  |-> ManagerOf(E, 3, EndBlk - 3, NoThread),
               bsm |-> ManagerOf({}, 0, 0, NoThread)]
    BY <2>1 DEF Init, ManagerOf
  <2>3. /\ mgr = [m \in Mgr |-> mgr[m]]
        /\ mgr["sm"] = ManagerOf(E, 3, EndBlk - 3, NoThread)
        /\ mgr["bsm"] = ManagerOf({}, 0, 0, NoThread)
    BY <2>2 DEF Mgr
  <2>4. E \subseteq DeviceExtents /\ 3 \in Nat /\ {} \subseteq DeviceExtents
    BY <1>2, <2>1
  <2>5. IsManager(ManagerOf(E, 3, EndBlk - 3, NoThread)) /\ IsManager(ManagerOf({}, 0, 0, NoThread))
    BY <1>1, <2>4, Typed, Zenon
  <2> QED BY <2>3, <2>5 DEF ManagersOK, Mgr
<1>4. TreesOK
  <2>1. tree = [sm |-> TreeOf({}, {2}), bsm |-> TreeOf({}, {1})]
    BY DEF Init, TreeOf
  <2>2. /\ tree = [m \in Mgr |-> tree[m]]
        /\ tree["sm"] = TreeOf({}, {2}) /\ tree["bsm"] = TreeOf({}, {1})
    BY <2>1 DEF Mgr
  <2>3. {2} \subseteq Device /\ {1} \subseteq Device /\ {} \subseteq Device
    BY SpaceManagerAssumption DEF Device
  <2>4. IsTree(TreeOf({}, {2})) /\ IsTree(TreeOf({}, {1}))
    BY <2>3, Typed, Zenon
  <2> QED BY <2>2, <2>4 DEF TreesOK, Mgr
<1>5. FramesOK
  <2>1. IsFrame(NoCall)
    BY <1>1, CallTyped, Zenon
  <2> QED BY <2>1 DEF Init, FramesOK
<1>6. RestOK
  BY <1>1 DEF Init, RestOK, Stages
<1> QED BY <1>3, <1>4, <1>5, <1>6 DEF TypeInv

\* A step of any thread.
LEMMA TypeStep ==
  ASSUME TypeInv, [Next]_vars
  PROVE  TypeInv'
<1>1. CASE Reopen
  BY <1>1, ReopenTyped
<1>2. ASSUME NEW t \in Thread, AllocBlock(t) \/ FreeBlock(t) \/ Continue(t)
      PROVE  TypeInv'
  BY <1>2, CallsTyped, RequestsTyped, BaseTyped, UserTyped, Zenon
     DEF Continue, InManager, InTree, InUser
<1>3. CASE UNCHANGED vars
  BY <1>3, Kept DEF vars, TypeInv
<1> QED BY <1>1, <1>2, <1>3 DEF Next

\* The type invariant of the module follows from it.
LEMMA TypeInvOK ==
  ASSUME TypeInv
  PROVE  TypeOK
<1>1. \A m \in Mgr : /\ mgr[m].ext \in SUBSET Extent
                     /\ mgr[m].first \in Nat /\ mgr[m].total \in Nat
                     /\ mgr[m].lock \in Thread \cup {NoThread}
                     /\ tree[m].clean \in SUBSET Nat /\ tree[m].dirty \in SUBSET Nat
  BY ManagerFacts, SpaceManagerAssumption DEF DeviceExtents, Device
<1>2. \A t \in Thread : \A m \in Mgr : frame[t][m] \in FrameType
  <2> SUFFICES ASSUME NEW t \in Thread, NEW m \in Mgr PROVE frame[t][m] \in FrameType
    OBVIOUS
  <2>1. PICK a, b, c, d, e, l, q, o :
          /\ frame[t][m] = FrameOf(a, b, c, d, e, l, q, o)
          /\ InRange(a, b, c, d, e, l, q, o)
    <3>1. WholeFrame(frame[t][m])
      BY Parts
    <3>2. \A f : f = frame[t][m] => InRange(f.pc, f.op, f.start, f.cnt, f.ret, f.left, f.req, f.old)
      BY FrameFacts
    <3> QED BY <3>1, <3>2, Zenon DEF WholeFrame
  <2>2. l \in SUBSET Extent /\ c \in Nat /\ o \in Nat
    BY <2>1, SpaceManagerAssumption DEF InRange, DeviceExtents, Device
  <2> QED BY <2>1, <2>2 DEF InRange, FrameOf, FrameType
<1> QED BY <1>1, <1>2 DEF TypeInv, RestOK, Device, TypeOK

(***************************************************************************)
(* Whatever the threads do, every block a manager, an index, a call or an  *)
(* object has is a block of the device, and counts never fall below zero.  *)
(***************************************************************************)
THEOREM Types == Spec => []TypeOK
<1>1. Init => TypeInv
  BY TypeInit
<1>2. TypeInv /\ [Next]_vars => TypeInv'
  BY TypeStep
<1>3. TypeInv => TypeOK
  BY TypeInvOK
<1> QED BY <1>1, <1>2, <1>3, PTL DEF Spec

-----------------------------------------------------------------------------
(* The invariant of one thread.                                            *)

\* No block of an index or a call is block 0, and none is in two extents of it.
Real(E) == E \in Index /\ \A e \in E : e.addr > 0

\* A call asks for some block, or gives some; what it has got is apart from what it
\* still has to put back.
FrameOK(f) ==
  /\ Real(f.left)
  /\ f.pc = "enter" => f.left = {} /\ f.cnt > 0 /\ f.op # "none" /\ (f.op = "free" => f.start > 0)
  /\ f.pc # "enter" /\ f.op = "alloc" /\ f.ret = "ok" =>
       f.start > 0 /\ f.cnt > 0 /\ Run(f.start, f.cnt) \cap Covered(f.left) = {}
  /\ f.pc = "idle" => f = NoCall

Pools == \A m \in Mgr : Real(mgr[m].ext)
Calls(t) == \A m \in Mgr : FrameOK(frame[t][m])

\* Block 0 is in no place but, where base_blk is used up, the BASE tree.
NotZero == 0 \notin Nodes("sm") /\ 0 \notin held

\* A node is clean or dirty.
Fresh == \A m \in Mgr : tree[m].clean \cap tree[m].dirty \subseteq {0}

\* Which calls are under way, by where the thread is: the call of bsm is that of the
\* tree of sm, or that of reserve_base_space.
Nested(t) ==
  /\ user[t] \in {"idle", "check", "reserve", "giving"} => frame[t]["sm"] = NoCall
  /\ user[t] \in {"base_block", "reserved", "block"} => frame[t]["sm"].op = "alloc"
  /\ user[t] # "giving" /\ frame[t]["sm"].req = "none" => frame[t]["bsm"] = NoCall
  /\ frame[t]["sm"].req \in {"move", "split"} => frame[t]["bsm"].op = "alloc"
  /\ frame[t]["sm"].req = "move" => frame[t]["sm"].old \in tree["sm"].clean
  /\ user[t] = "reserve" => mgr["bsm"].total <= MinBlk

Spots == {"sm", "bsm", "space", "base", "kept", "held", "sm_call", "bsm_call", "dropped"}

\* What a call has, but for the old node of the BASE tree.
Taken(f) ==
  Covered(f.left)
    \cup (IF \/ f.op = "alloc" /\ f.pc # "enter" /\ f.ret = "ok"
             \/ f.op = "free" /\ f.pc = "enter"
          THEN Run(f.start, f.cnt) ELSE {})

\* Where blocks are, as in Places and Carried.
Home(t) ==
  [p \in Spots |->
     CASE p = "sm"       -> Covered(mgr["sm"].ext)
       [] p = "bsm"      -> Covered(mgr["bsm"].ext)
       [] p = "space"    -> Nodes("sm")
       [] p = "base"     -> Nodes("bsm") \ {0}
       [] p = "kept"     -> {base_blk} \ {0}
       [] p = "held"     -> held
       [] p = "sm_call"  -> Taken(frame[t]["sm"])
       [] p = "bsm_call" -> Taken(frame[t]["bsm"])
       [] p = "dropped"  -> IF frame[t]["bsm"].req = "drop" THEN {frame[t]["bsm"].old} \ {0}
                            ELSE {}]

\* No block has two homes.
OneHome(H) == \A p, q \in Spots : p # q => H[p] \cap H[q] = {}

SpaceInv(t) ==
  TypeInv /\ Pools /\ Calls(t) /\ NotZero /\ Fresh /\ Nested(t) /\ OneHome(Home(t))

\* The homes, before and after a step.
LEMMA HomeAt ==
  ASSUME NEW t
  PROVE  /\ Home(t)["sm"] = Covered(mgr["sm"].ext) /\ Home(t)["bsm"] = Covered(mgr["bsm"].ext)
         /\ Home(t)["space"] = Nodes("sm") /\ Home(t)["base"] = Nodes("bsm") \ {0}
         /\ Home(t)["kept"] = {base_blk} \ {0} /\ Home(t)["held"] = held
         /\ Home(t)["sm_call"] = Taken(frame[t]["sm"])
         /\ Home(t)["bsm_call"] = Taken(frame[t]["bsm"])
         /\ Home(t)["dropped"] = IF frame[t]["bsm"].req = "drop" THEN {frame[t]["bsm"].old} \ {0}
                                 ELSE {}
  BY DEF Home, Spots

\* The homes after a step.
LEMMA HomeThen ==
  ASSUME NEW t
  PROVE  /\ Home(t)'["sm"] = Covered(mgr'["sm"].ext) /\ Home(t)'["bsm"] = Covered(mgr'["bsm"].ext)
         /\ Home(t)'["space"] = Nodes("sm")' /\ Home(t)'["base"] = Nodes("bsm")' \ {0}
         /\ Home(t)'["kept"] = {base_blk'} \ {0} /\ Home(t)'["held"] = held'
         /\ Home(t)'["sm_call"] = Taken(frame'[t]["sm"])
         /\ Home(t)'["bsm_call"] = Taken(frame'[t]["bsm"])
         /\ Home(t)'["dropped"] = IF frame'[t]["bsm"].req = "drop"
                                  THEN {frame'[t]["bsm"].old} \ {0} ELSE {}
  BY DEF Home, Spots

\* Homes that a step leaves alone.
LEMMA HomeSame ==
  ASSUME NEW t
  PROVE  /\ mgr'["sm"].ext = mgr["sm"].ext => Home(t)'["sm"] = Home(t)["sm"]
         /\ mgr'["bsm"].ext = mgr["bsm"].ext => Home(t)'["bsm"] = Home(t)["bsm"]
         /\ tree'["sm"] = tree["sm"] => Home(t)'["space"] = Home(t)["space"]
         /\ tree'["bsm"] = tree["bsm"] => Home(t)'["base"] = Home(t)["base"]
         /\ base_blk' = base_blk => Home(t)'["kept"] = Home(t)["kept"]
         /\ held' = held => Home(t)'["held"] = Home(t)["held"]
         /\ Taken(frame'[t]["sm"]) = Taken(frame[t]["sm"]) => Home(t)'["sm_call"] = Home(t)["sm_call"]
         /\ Taken(frame'[t]["bsm"]) = Taken(frame[t]["bsm"]) =>
              Home(t)'["bsm_call"] = Home(t)["bsm_call"]
         /\ frame'[t]["bsm"].req = frame[t]["bsm"].req /\ frame'[t]["bsm"].old = frame[t]["bsm"].old =>
              Home(t)'["dropped"] = Home(t)["dropped"]
<1>1. PICK H, G : H = Home(t) /\ G = Home(t)'
  OBVIOUS
<1>2. /\ H["sm"] = Covered(mgr["sm"].ext) /\ H["bsm"] = Covered(mgr["bsm"].ext)
      /\ H["space"] = Nodes("sm") /\ H["base"] = Nodes("bsm") \ {0}
      /\ H["kept"] = {base_blk} \ {0} /\ H["held"] = held
      /\ H["sm_call"] = Taken(frame[t]["sm"]) /\ H["bsm_call"] = Taken(frame[t]["bsm"])
  BY <1>1, HomeAt
<1>3. /\ G["sm"] = Covered(mgr'["sm"].ext) /\ G["bsm"] = Covered(mgr'["bsm"].ext)
      /\ G["space"] = Nodes("sm")' /\ G["base"] = Nodes("bsm")' \ {0}
      /\ G["kept"] = {base_blk'} \ {0} /\ G["held"] = held'
      /\ G["sm_call"] = Taken(frame'[t]["sm"]) /\ G["bsm_call"] = Taken(frame'[t]["bsm"])
  BY <1>1, HomeThen
<1>4. /\ tree'["sm"] = tree["sm"] => Nodes("sm")' = Nodes("sm")
      /\ tree'["bsm"] = tree["bsm"] => Nodes("bsm")' = Nodes("bsm")
  BY DEF Nodes
<1>5. /\ mgr'["sm"].ext = mgr["sm"].ext => G["sm"] = H["sm"]
      /\ mgr'["bsm"].ext = mgr["bsm"].ext => G["bsm"] = H["bsm"]
      /\ tree'["sm"] = tree["sm"] => G["space"] = H["space"]
      /\ tree'["bsm"] = tree["bsm"] => G["base"] = H["base"]
  BY ONLY <1>2, <1>3, <1>4
<1>6. /\ base_blk' = base_blk => G["kept"] = H["kept"]
      /\ held' = held => G["held"] = H["held"]
      /\ Taken(frame'[t]["sm"]) = Taken(frame[t]["sm"]) => G["sm_call"] = H["sm_call"]
      /\ Taken(frame'[t]["bsm"]) = Taken(frame[t]["bsm"]) => G["bsm_call"] = H["bsm_call"]
  BY ONLY <1>2, <1>3
<1>7. frame'[t]["bsm"].req = frame[t]["bsm"].req /\ frame'[t]["bsm"].old = frame[t]["bsm"].old =>
        Home(t)'["dropped"] = Home(t)["dropped"]
  <2>1. Home(t)["dropped"] = IF frame[t]["bsm"].req = "drop" THEN {frame[t]["bsm"].old} \ {0} ELSE {}
    BY HomeAt
  <2>2. Home(t)'["dropped"] = IF frame'[t]["bsm"].req = "drop"
                              THEN {frame'[t]["bsm"].old} \ {0} ELSE {}
    BY HomeThen
  <2> QED BY <2>1, <2>2
<1> QED BY <1>1, <1>5, <1>6, <1>7

\* Blocks stay where they are, or are lost.
LEMMA Stay ==
  ASSUME NEW H, NEW G, OneHome(H), \A p \in Spots : G[p] \subseteq H[p]
  PROVE  OneHome(G)
  BY DEF OneHome

\* Blocks go from one place to another.
LEMMA Pass ==
  ASSUME NEW H, NEW G, OneHome(H), NEW x \in Spots, NEW y \in Spots,
         \A p \in Spots \ {x, y} : G[p] \subseteq H[p],
         G[x] \cup G[y] \subseteq H[x] \cup H[y], G[x] \cap G[y] = {}
  PROVE  OneHome(G)
<1> SUFFICES ASSUME NEW p \in Spots, NEW q \in Spots, p # q PROVE G[p] \cap G[q] = {}
  BY DEF OneHome
<1>1. H[p] \cap H[q] = {}
  BY DEF OneHome
<1>2. \A r \in Spots \ {x, y} : G[r] \cap (G[x] \cup G[y]) = {}
  BY DEF OneHome
<1> QED BY <1>1, <1>2

\* Blocks are passed on among three places.
LEMMA PassOn ==
  ASSUME NEW H, NEW G, OneHome(H), NEW x \in Spots, NEW y \in Spots, NEW z \in Spots,
         \A p \in Spots \ {x, y, z} : G[p] \subseteq H[p],
         G[x] \cup G[y] \cup G[z] \subseteq H[x] \cup H[y] \cup H[z],
         G[x] \cap G[y] = {}, G[x] \cap G[z] = {}, G[y] \cap G[z] = {}
  PROVE  OneHome(G)
<1> SUFFICES ASSUME NEW p \in Spots, NEW q \in Spots, p # q PROVE G[p] \cap G[q] = {}
  BY DEF OneHome
<1>1. H[p] \cap H[q] = {}
  BY DEF OneHome
<1>2. \A r \in Spots \ {x, y, z} : G[r] \cap (G[x] \cup G[y] \cup G[z]) = {}
  BY DEF OneHome
<1> QED BY <1>1, <1>2

\* What a step replaces, after it.
LEMMA Now ==
  ASSUME NEW t \in Thread, NEW m \in Mgr, NEW x, NEW y
  PROVE  /\ ManagerNow(m, x) => mgr'[m] = x /\ \A n \in Mgr : n # m => mgr'[n] = mgr[n]
         /\ TreeNow(m, x) => tree'[m] = x /\ \A n \in Mgr : n # m => tree'[n] = tree[n]
         /\ FrameNow(t, m, x) =>
              frame'[t][m] = x /\ \A n \in Mgr : n # m => frame'[t][n] = frame[t][n]
         /\ BothNow(t, x, y) => frame'[t]["sm"] = x /\ frame'[t]["bsm"] = y
         /\ UserNow(t, x) => user'[t] = x
  BY DEF ManagerNow, TreeNow, FrameNow, BothNow, UserNow, Mgr

\* A manager and a call of it, replaced.
LEMMA CallNow ==
  ASSUME NEW t \in Thread, NEW m \in Mgr, NEW x, NEW y, ManagerNow(m, x), FrameNow(t, m, y)
  PROVE  /\ mgr'[m] = x /\ frame'[t][m] = y
         /\ \A n \in Mgr : n # m => mgr'[n] = mgr[n] /\ frame'[t][n] = frame[t][n]
<1>1. mgr'[m] = x /\ \A n \in Mgr : n # m => mgr'[n] = mgr[n]
  BY DEF ManagerNow
<1>2. frame'[t][m] = y /\ \A n \in Mgr : n # m => frame'[t][n] = frame[t][n]
  BY DEF FrameNow
<1> QED BY <1>1, <1>2

\* A call replaced.
LEMMA FrameThen ==
  ASSUME NEW t \in Thread, NEW m \in Mgr, NEW y, FrameNow(t, m, y)
  PROVE  frame'[t][m] = y /\ \A n \in Mgr : n # m => frame'[t][n] = frame[t][n]
  BY Now

\* The fields of the calls that begin, and of none.
LEMMA CallFields ==
  ASSUME NEW s, NEW n
  PROVE  /\ NoCall.pc = "idle" /\ NoCall.op = "none" /\ NoCall.left = {} /\ NoCall.req = "none"
         /\ AllocCall(n).pc = "enter" /\ AllocCall(n).op = "alloc" /\ AllocCall(n).left = {}
         /\ AllocCall(n).req = "none" /\ AllocCall(n).cnt = n
         /\ FreeCall(s, n).pc = "enter" /\ FreeCall(s, n).op = "free" /\ FreeCall(s, n).left = {}
         /\ FreeCall(s, n).req = "none" /\ FreeCall(s, n).start = s /\ FreeCall(s, n).cnt = n
  BY CallIs, Fields

\* The index of nothing.
LEMMA RealNothing == Real({}) /\ Covered({}) = {}
  BY DEF Real, Index, Disjoint, Covered

\* A call that begins asks for some block, or gives the run it was given.
LEMMA CallsBegin ==
  ASSUME NEW s, NEW n
  PROVE  /\ FrameOK(NoCall) /\ Taken(NoCall) = {} /\ Taken(AllocCall(n)) = {}
         /\ n > 0 => FrameOK(AllocCall(n))
         /\ n > 0 /\ s > 0 => FrameOK(FreeCall(s, n))
         /\ Taken(FreeCall(s, n)) = Run(s, n)
<1>1. FrameOK(NoCall) /\ Taken(NoCall) = {}
  BY CallFields, RealNothing DEF FrameOK, Taken
<1>2. Taken(AllocCall(n)) = {} /\ (n > 0 => FrameOK(AllocCall(n)))
  <2>1. PICK f : f = AllocCall(n)
    OBVIOUS
  <2>2. f.pc = "enter" /\ f.op = "alloc" /\ f.left = {} /\ f.cnt = n
    BY <2>1, CallFields
  <2>3. Taken(f) = {} /\ (n > 0 => FrameOK(f))
    BY <2>2, RealNothing DEF FrameOK, Taken
  <2> QED BY <2>1, <2>3
<1>3. Taken(FreeCall(s, n)) = Run(s, n)
  <2>1. PICK f : f = FreeCall(s, n)
    OBVIOUS
  <2>2. f.pc = "enter" /\ f.op = "free" /\ f.left = {} /\ f.start = s /\ f.cnt = n
    BY <2>1, CallFields
  <2>3. Taken(f) = Run(s, n)
    BY <2>2, RealNothing DEF Taken
  <2> QED BY <2>1, <2>3
<1>4. n > 0 /\ s > 0 => FrameOK(FreeCall(s, n))
  <2>1. PICK f : f = FreeCall(s, n)
    OBVIOUS
  <2>2. f.pc = "enter" /\ f.op = "free" /\ f.left = {} /\ f.start = s /\ f.cnt = n
    BY <2>1, CallFields
  <2>3. n > 0 /\ s > 0 => FrameOK(f)
    BY ONLY <2>2, RealNothing DEF FrameOK
  <2> QED BY <2>1, <2>3
<1> QED BY <1>1, <1>2, <1>3, <1>4

\* A run of one block, and the first block of a run.
LEMMA RunOf ==
  ASSUME NEW s \in Nat, NEW n \in Nat
  PROVE  Run(s, 1) = {s} /\ (n > 0 => s \in Run(s, n)) /\ (s > 0 => 0 \notin Run(s, n))
  BY DEF Run

\* No real index covers block 0.
LEMMA RealZero ==
  ASSUME NEW E, Real(E)
  PROVE  0 \notin Covered(E)
  BY DEF Real, Index, Covered, Blocks, Run, Extent

\* A step of a call of one manager, with blocks going between its index and the call.
LEMMA CallPass ==
  ASSUME NEW t, NEW m \in Mgr, OneHome(Home(t)), UNCHANGED <<tree, base_blk, held>>,
         \A n \in Mgr : n # m => mgr'[n] = mgr[n] /\ frame'[t][n] = frame[t][n],
         frame'[t][m].req = frame[t][m].req, frame'[t][m].old = frame[t][m].old,
         Covered(mgr'[m].ext) \cup Taken(frame'[t][m])
           \subseteq Covered(mgr[m].ext) \cup Taken(frame[t][m]),
         Covered(mgr'[m].ext) \cap Taken(frame'[t][m]) = {}
  PROVE  OneHome(Home(t))'
<1>2. CASE m = "sm"
  <2>1. mgr'["bsm"] = mgr["bsm"] /\ frame'[t]["bsm"] = frame[t]["bsm"]
    BY <1>2 DEF Mgr
  <2>2. /\ Home(t)'["bsm"] = Home(t)["bsm"] /\ Home(t)'["bsm_call"] = Home(t)["bsm_call"]
        /\ Home(t)'["space"] = Home(t)["space"] /\ Home(t)'["base"] = Home(t)["base"]
        /\ Home(t)'["kept"] = Home(t)["kept"] /\ Home(t)'["held"] = Home(t)["held"]
        /\ Home(t)'["dropped"] = Home(t)["dropped"]
    BY <2>1, HomeSame
  <2>3. \A p \in Spots \ {"sm", "sm_call"} : Home(t)'[p] \subseteq Home(t)[p]
    BY <2>2 DEF Spots
  <2>4. /\ Home(t)'["sm"] \cup Home(t)'["sm_call"] \subseteq Home(t)["sm"] \cup Home(t)["sm_call"]
        /\ Home(t)'["sm"] \cap Home(t)'["sm_call"] = {}
    BY <1>2, HomeAt, HomeThen
  <2>5. "sm" \in Spots /\ "sm_call" \in Spots
    BY DEF Spots
  <2> QED BY <2>3, <2>4, <2>5, Pass
<1>3. CASE m = "bsm"
  <2>1. mgr'["sm"] = mgr["sm"] /\ frame'[t]["sm"] = frame[t]["sm"]
    BY <1>3 DEF Mgr
  <2>2. /\ Home(t)'["sm"] = Home(t)["sm"] /\ Home(t)'["sm_call"] = Home(t)["sm_call"]
        /\ Home(t)'["space"] = Home(t)["space"] /\ Home(t)'["base"] = Home(t)["base"]
        /\ Home(t)'["kept"] = Home(t)["kept"] /\ Home(t)'["held"] = Home(t)["held"]
        /\ Home(t)'["dropped"] = Home(t)["dropped"]
    BY <1>3, <2>1, HomeSame
  <2>3. \A p \in Spots \ {"bsm", "bsm_call"} : Home(t)'[p] \subseteq Home(t)[p]
    BY <2>2 DEF Spots
  <2>4. /\ Home(t)'["bsm"] \cup Home(t)'["bsm_call"] \subseteq Home(t)["bsm"] \cup Home(t)["bsm_call"]
        /\ Home(t)'["bsm"] \cap Home(t)'["bsm_call"] = {}
    BY <1>3, HomeAt, HomeThen
  <2>5. "bsm" \in Spots /\ "bsm_call" \in Spots
    BY DEF Spots
  <2> QED BY <2>3, <2>4, <2>5, Pass
<1> QED BY <1>2, <1>3 DEF Mgr

\* A step of a call that is under way keeps the nesting.
LEMMA NestedKept ==
  ASSUME NEW t, NEW m \in Mgr, Nested(t), UNCHANGED user, frame[t][m].pc # "idle",
         \A n \in Mgr : n # m => frame'[t][n] = frame[t][n],
         frame'[t][m].op = frame[t][m].op,
         m = "bsm" \/ (frame'[t][m].req = frame[t][m].req /\ frame'[t][m].old = frame[t][m].old),
         tree'["sm"].clean = tree["sm"].clean
  PROVE  Nested(t)'
<1>1. NoCall.pc = "idle" /\ NoCall.req = "none"
  BY CallFields
<1>2. CASE m = "sm"
  <2>1. frame'[t]["bsm"] = frame[t]["bsm"] /\ frame[t]["sm"] # NoCall
    BY <1>1, <1>2 DEF Mgr
  <2> QED BY <1>2, <2>1 DEF Nested
<1>3. CASE m = "bsm"
  <2>1. frame'[t]["sm"] = frame[t]["sm"] /\ frame[t]["bsm"] # NoCall
    BY <1>1, <1>3 DEF Mgr
  <2> QED BY <1>1, <1>3, <2>1 DEF Nested
<1> QED BY <1>2, <1>3 DEF Mgr

\* A part of a real index is one, and two that do not meet make one.
LEMMA RealParts ==
  ASSUME NEW E, Real(E), NEW e \in E
  PROVE  /\ Real(E \ {e}) /\ e \in Extent /\ e.addr > 0 /\ e.len > 0
         /\ Covered(E) = Covered(E \ {e}) \cup Blocks(e) /\ Covered(E \ {e}) \cap Blocks(e) = {}
         /\ \A F : Real(F) /\ Covered(F) \cap Covered(E) = {} =>
              /\ Real(F \cup {e})
              /\ Covered(F \cup {e}) = Covered(F) \cup Blocks(e)
<1>1. Real(E \ {e}) /\ e \in Extent /\ e.addr > 0 /\ e.len > 0
  BY DEF Real, Index, Disjoint
<1>2. Covered(E) = Covered(E \ {e}) \cup Blocks(e)
  BY DEF Covered
<1>3. Covered(E \ {e}) \cap Blocks(e) = {}
  BY DEF Real, Index, Disjoint, Covered
<1>4. ASSUME NEW F, Real(F), Covered(F) \cap Covered(E) = {}
      PROVE  Real(F \cup {e}) /\ Covered(F \cup {e}) = Covered(F) \cup Blocks(e)
  <2>1. \A g \in F : Blocks(g) \cap Blocks(e) = {}
    BY <1>2, <1>4 DEF Covered
  <2>2. Disjoint(F \cup {e})
    BY <1>4, <2>1 DEF Real, Index, Disjoint
  <2>3. Real(F \cup {e})
    BY <1>1, <1>4, <2>2 DEF Real, Index
  <2>4. Covered(F \cup {e}) = Covered(F) \cup Blocks(e)
    BY DEF Covered
  <2> QED BY <2>3, <2>4
<1> QED BY <1>1, <1>2, <1>3, <1>4

\* A run that is carved out of an extent, and what is left of it.
Carves(e, a, n, s, c, l) ==
  /\ s = GivenStart(e, a, n) /\ c = GivenCount(e, a, n)
  /\ l = HeadPiece(e, a, n) \cup TailPiece(e, a, n)

\* What is carved out of a real extent.
LEMMA RealCarving ==
  ASSUME NEW e \in Extent, e.addr > 0, e.len > 0, NEW a \in Nat, NEW n \in Nat, n > 0,
         NEW s, NEW c, NEW l, Carves(e, a, n, s, c, l)
  PROVE  /\ Real(l) /\ s > 0 /\ c > 0 /\ Run(s, c) \cap Covered(l) = {} /\ (n = 1 => c = 1)
         /\ Covered(l) \cup Run(s, c) = Blocks(e)
<1>0. n \in Nat \ {0}
  OBVIOUS
<1>1. /\ s \in Nat /\ c \in 1 .. n /\ e.addr <= s /\ Run(s, c) \subseteq Blocks(e)
  BY <1>0, GivenRun, Zenon DEF Carves
<1>2. l \in Index /\ Covered(l) = Blocks(e) \ Run(s, c)
  BY <1>0, Carving DEF Carves
<1>3. \A p \in l : p.addr > 0
  <2> SUFFICES ASSUME NEW p \in l PROVE p.addr > 0
    OBVIOUS
  <2>1. p \in Extent /\ p.len > 0
    BY <1>2 DEF Index
  <2>2. p.addr \in Blocks(p)
    BY <2>1 DEF Extent, Blocks, Run
  <2>3. p.addr \in Blocks(e)
    BY <1>2, <2>2 DEF Covered
  <2> QED BY <2>1, <2>3 DEF Extent, Blocks, Run
<1>4. e.addr \in Nat
  BY DEF Extent
<1> QED BY <1>1, <1>2, <1>3, <1>4 DEF Real

\* The index of a manager and its call have no block in common.
LEMMA IndexApart ==
  ASSUME NEW t, NEW m \in Mgr, OneHome(Home(t))
  PROVE  Covered(mgr[m].ext) \cap Taken(frame[t][m]) = {}
<1>1. Home(t)["sm"] \cap Home(t)["sm_call"] = {} /\ Home(t)["bsm"] \cap Home(t)["bsm_call"] = {}
  BY DEF OneHome, Spots
<1> QED BY <1>1, HomeAt DEF Mgr

\* A step of the call of manager m: blocks go between its index and the call.
CallStep(t, m) ==
  /\ frame[t][m].pc # "idle" /\ UNCHANGED <<tree, base_blk, held, user>>
  /\ \A n \in Mgr : n # m => mgr'[n] = mgr[n] /\ frame'[t][n] = frame[t][n]
  /\ frame'[t][m].op = frame[t][m].op
  /\ frame'[t][m].req = frame[t][m].req /\ frame'[t][m].old = frame[t][m].old
  /\ Real(mgr'[m].ext) /\ FrameOK(frame'[t][m])
  /\ Covered(mgr'[m].ext) \cup Taken(frame'[t][m]) = Covered(mgr[m].ext) \cup Taken(frame[t][m])
  /\ Covered(mgr'[m].ext) \cap Taken(frame'[t][m]) = {}
  /\ frame'[t][m].pc = "done" => frame'[t][m].left = {}
  /\ frame[t][m].cnt = 1 => frame'[t][m].cnt = 1

\* It keeps the invariant.
LEMMA CallKeeps ==
  ASSUME NEW t \in Thread, NEW m \in Mgr, SpaceInv(t), TypeInv', CallStep(t, m)
  PROVE  SpaceInv(t)'
<1> USE DEF CallStep
<1>1. Pools'
  BY DEF SpaceInv, Pools
<1>2. Calls(t)'
  BY DEF SpaceInv, Calls
<1>3. NotZero' /\ Fresh'
  BY DEF SpaceInv, NotZero, Fresh, Nodes
<1>4. Nested(t)'
  BY NestedKept DEF SpaceInv
<1>5. OneHome(Home(t))'
  BY CallPass DEF SpaceInv
<1> QED BY <1>1, <1>2, <1>3, <1>4, <1>5 DEF SpaceInv

\* What a call that has begun has, and one that is refused.
LEMMA TakenIs ==
  ASSUME NEW f
  PROVE  /\ f.op = "alloc" /\ f.pc # "enter" /\ f.ret = "ok" =>
              Taken(f) = Covered(f.left) \cup Run(f.start, f.cnt)
         /\ f.op = "free" /\ f.pc = "enter" => Taken(f) = Covered(f.left) \cup Run(f.start, f.cnt)
         /\ f.op = "alloc" /\ f.pc = "enter" => Taken(f) = Covered(f.left)
         /\ f.op = "free" /\ f.pc # "enter" => Taken(f) = Covered(f.left)
         /\ f.op = "none" => Taken(f) = Covered(f.left)
         /\ f.ret # "ok" /\ f.pc # "enter" => Taken(f) = Covered(f.left)
  BY DEF Taken

\* An allocation begins.
LEMMA EnterAllocKeeps ==
  ASSUME NEW t \in Thread, NEW m \in Mgr, SpaceInv(t), EnterAlloc(t, m)
  PROVE  SpaceInv(t)' /\ CallStep(t, m)
<1> DEFINE f == frame[t][m]
           M == mgr[m]
           g == frame'[t][m]
           N == mgr'[m]
<1>0. TypeInv /\ TypeInv'
  BY CallsTyped DEF SpaceInv
<1>1. f.pc = "enter" /\ f.op = "alloc" /\ UNCHANGED <<tree, base_blk, held, user>>
  BY <1>0, EnterAllocIs
<1>2. FrameOK(f) /\ Real(M.ext) /\ OneHome(Home(t))
  BY DEF SpaceInv, Calls, Pools
<1>3. f.left = {} /\ f.cnt > 0 /\ Taken(f) = {} /\ f.pc # "idle"
  BY <1>1, <1>2, TakenIs, RealNothing DEF FrameOK
<1>4. ASSUME NEW x, ManagerNow(m, ManagerOf(M.ext, x, 0, M.lock)),
             FrameNow(t, m, FrameOf("done", f.op, f.start, f.cnt, "no_free_blocks",
                                    f.left, f.req, f.old))
      PROVE  SpaceInv(t)' /\ CallStep(t, m)
  <2>1. /\ N = ManagerOf(M.ext, x, 0, M.lock)
        /\ g = FrameOf("done", f.op, f.start, f.cnt, "no_free_blocks", f.left, f.req, f.old)
        /\ \A n \in Mgr : n # m => mgr'[n] = mgr[n] /\ frame'[t][n] = frame[t][n]
    BY <1>4, CallNow
  <2>2. /\ N.ext = M.ext /\ g.pc = "done" /\ g.op = f.op /\ g.ret = "no_free_blocks"
        /\ g.cnt = f.cnt /\ g.left = f.left /\ g.req = f.req /\ g.old = f.old
    BY <2>1, Fields
  <2>3. Taken(g) = {} /\ FrameOK(g)
    <3>1. Real(g.left) /\ Covered(g.left) = {}
      BY <1>3, <2>2, RealNothing
    <3>2. FrameOK(g)
      BY ONLY <2>2, <3>1 DEF FrameOK
    <3>3. Taken(g) = {}
      BY ONLY <2>2, <3>1, TakenIs
    <3> QED BY <3>2, <3>3
  <2> QED
    <3>1. CallStep(t, m)
      BY <1>0, <1>1, <1>2, <1>3, <2>1, <2>2, <2>3 DEF CallStep
    <3> QED BY <1>0, <3>1, CallKeeps, Zenon
<1>5. ASSUME NEW e \in M.ext, ManagerNow(m, ManagerOf(M.ext \ {e}, M.first, M.total, t)),
             FrameNow(t, m, FrameOf("removed", f.op, GivenStart(e, M.first, f.cnt),
                                    GivenCount(e, M.first, f.cnt), f.ret,
                                    HeadPiece(e, M.first, f.cnt) \cup TailPiece(e, M.first, f.cnt),
                                    f.req, f.old))
      PROVE  SpaceInv(t)' /\ CallStep(t, m)
  <2>0. PICK s, c, l : /\ s = GivenStart(e, M.first, f.cnt) /\ c = GivenCount(e, M.first, f.cnt)
                       /\ l = HeadPiece(e, M.first, f.cnt) \cup TailPiece(e, M.first, f.cnt)
    OBVIOUS
  <2>1. /\ N = ManagerOf(M.ext \ {e}, M.first, M.total, t)
        /\ g = FrameOf("removed", f.op, s, c, f.ret, l, f.req, f.old)
        /\ \A n \in Mgr : n # m => mgr'[n] = mgr[n] /\ frame'[t][n] = frame[t][n]
    BY <1>5, <2>0, CallNow
  <2>2. /\ N.ext = M.ext \ {e} /\ g.pc = "removed" /\ g.op = f.op /\ g.ret = f.ret
        /\ g.start = s /\ g.cnt = c /\ g.left = l /\ g.req = f.req /\ g.old = f.old
    BY <2>1, Fields
  <2>3. M.first \in Nat /\ f.cnt \in Nat /\ f.ret = "ok"
    BY <1>0, <1>1, FrameFacts, ManagerFacts DEF InRange
  <2>4. /\ Real(M.ext \ {e}) /\ e \in Extent /\ e.addr > 0 /\ e.len > 0
        /\ Covered(M.ext) = Covered(M.ext \ {e}) \cup Blocks(e)
        /\ Covered(M.ext \ {e}) \cap Blocks(e) = {}
    BY <1>2, RealParts
  <2>5. /\ Real(l) /\ s > 0 /\ c > 0 /\ Run(s, c) \cap Covered(l) = {} /\ (f.cnt = 1 => c = 1)
        /\ Covered(l) \cup Run(s, c) = Blocks(e)
    <3>1. PICK a, n : a = M.first /\ n = f.cnt
      OBVIOUS
    <3>2. a \in Nat /\ n \in Nat /\ n > 0
      BY <1>3, <2>3, <3>1
    <3>3. Carves(e, a, n, s, c, l)
      BY <2>0, <3>1 DEF Carves
    <3>4. e \in Extent /\ e.addr > 0 /\ e.len > 0
      BY <2>4
    <3> QED BY <3>1, <3>2, <3>3, <3>4, RealCarving
  <2>6. Taken(g) = Blocks(e) /\ FrameOK(g)
    BY <1>1, <2>2, <2>3, <2>5, TakenIs DEF FrameOK
  <2>7. f.cnt = 1 => g.cnt = 1
    BY <2>2, <2>5
  <2> QED
    <3>1. CallStep(t, m)
      BY <1>0, <1>1, <1>3, <2>1, <2>2, <2>4, <2>6, <2>7 DEF CallStep
    <3> QED BY <1>0, <3>1, CallKeeps, Zenon
<1> QED BY <1>0, <1>4, <1>5, EnterAllocIs, Zenon

\* A free begins.
LEMMA EnterFreeKeeps ==
  ASSUME NEW t \in Thread, NEW m \in Mgr, SpaceInv(t), EnterFree(t, m)
  PROVE  SpaceInv(t)' /\ CallStep(t, m)
<1> DEFINE f == frame[t][m]
           M == mgr[m]
           g == frame'[t][m]
           N == mgr'[m]
<1>0. TypeInv /\ TypeInv'
  BY CallsTyped DEF SpaceInv
<1>1. f.pc = "enter" /\ f.op = "free" /\ UNCHANGED <<tree, base_blk, held, user>>
  BY <1>0, EnterFreeIs
<1>2. FrameOK(f) /\ Real(M.ext) /\ OneHome(Home(t))
  BY DEF SpaceInv, Calls, Pools
<1>3. /\ f.left = {} /\ f.cnt > 0 /\ f.start > 0 /\ Taken(f) = Run(f.start, f.cnt) /\ f.pc # "idle"
  BY <1>1, <1>2, TakenIs, RealNothing DEF FrameOK
<1>4. Covered(M.ext) \cap Run(f.start, f.cnt) = {}
  BY <1>2, <1>3, IndexApart
<1>5. Hits(M.ext, f.start, f.cnt) = {}
  <2>1. f.start \in Nat /\ f.cnt \in Nat
    BY <1>0, FrameFacts DEF InRange, Device
  <2> QED BY <1>2, <1>3, <1>4, <2>1, NoHits DEF Real
<1>6. ASSUME ManagerNow(m, ManagerOf(M.ext, M.first, M.total, t)),
             FrameNow(t, m, FrameOf("ready", f.op, f.start, f.cnt, f.ret,
                                    {[addr |-> f.start, len |-> f.cnt]}, f.req, f.old))
      PROVE  SpaceInv(t)' /\ CallStep(t, m)
  <2>0. PICK e, l : e = [addr |-> f.start, len |-> f.cnt] /\ l = {e}
    OBVIOUS
  <2>1. /\ N = ManagerOf(M.ext, M.first, M.total, t)
        /\ g = FrameOf("ready", f.op, f.start, f.cnt, f.ret, l, f.req, f.old)
        /\ \A n \in Mgr : n # m => mgr'[n] = mgr[n] /\ frame'[t][n] = frame[t][n]
    BY <1>6, <2>0, CallNow
  <2>2. /\ N.ext = M.ext /\ g.pc = "ready" /\ g.op = f.op /\ g.cnt = f.cnt /\ g.left = l
        /\ g.req = f.req /\ g.old = f.old
    BY <2>1, Fields
  <2>3. f.start \in Nat /\ f.cnt \in Nat
    BY <1>0, FrameFacts DEF InRange, Device
  <2>4. e \in Extent /\ e.addr = f.start /\ e.len = f.cnt
    BY <2>0, <2>3 DEF Extent
  <2>5. Real(l) /\ Covered(l) = Run(f.start, f.cnt)
    BY <1>3, <2>0, <2>4 DEF Real, Index, Disjoint, Covered, Blocks
  <2>6. Taken(g) = Run(f.start, f.cnt) /\ FrameOK(g)
    BY <1>1, <2>2, <2>5, TakenIs DEF FrameOK
  <2> QED
    <3>1. CallStep(t, m)
      BY <1>0, <1>1, <1>2, <1>3, <1>4, <2>1, <2>2, <2>6 DEF CallStep
    <3> QED BY <1>0, <3>1, CallKeeps, Zenon
<1> QED BY <1>0, <1>5, <1>6, EnterFreeIs, Zenon

\* An extent is put in.
LEMMA InsertKeeps ==
  ASSUME NEW t \in Thread, NEW m \in Mgr, SpaceInv(t), Insert(t, m)
  PROVE  SpaceInv(t)' /\ CallStep(t, m)
<1> DEFINE f == frame[t][m]
           M == mgr[m]
           g == frame'[t][m]
           N == mgr'[m]
<1>0. TypeInv /\ TypeInv'
  BY CallsTyped DEF SpaceInv
<1>1. f.pc \in {"removed", "ready", "split", "inserted"} /\ UNCHANGED <<tree, base_blk, held, user>>
  BY <1>0, InsertIs
<1>2. PICK piece \in f.left :
        /\ ManagerNow(m, ManagerOf(M.ext \cup {piece}, M.first, M.total, M.lock))
        /\ FrameNow(t, m, FrameOf("inserted", f.op, f.start, f.cnt, f.ret, f.left \ {piece},
                                  f.req, f.old))
  BY <1>0, InsertIs
<1>3. FrameOK(f) /\ Real(M.ext) /\ OneHome(Home(t)) /\ Real(f.left)
  BY DEF SpaceInv, Calls, Pools, FrameOK
<1>4. /\ N = ManagerOf(M.ext \cup {piece}, M.first, M.total, M.lock)
      /\ g = FrameOf("inserted", f.op, f.start, f.cnt, f.ret, f.left \ {piece}, f.req, f.old)
      /\ \A n \in Mgr : n # m => mgr'[n] = mgr[n] /\ frame'[t][n] = frame[t][n]
  BY <1>2, CallNow
<1>5. /\ N.ext = M.ext \cup {piece} /\ g.pc = "inserted" /\ g.op = f.op /\ g.start = f.start
      /\ g.cnt = f.cnt /\ g.ret = f.ret /\ g.left = f.left \ {piece} /\ g.req = f.req /\ g.old = f.old
  BY <1>4, Fields
<1>6. Covered(M.ext) \cap Taken(f) = {} /\ Covered(f.left) \subseteq Taken(f)
  BY <1>3, IndexApart DEF Taken
<1>7. /\ Real(g.left) /\ Real(N.ext) /\ Covered(N.ext) = Covered(M.ext) \cup Blocks(piece)
      /\ Covered(f.left) = Covered(g.left) \cup Blocks(piece)
      /\ Covered(g.left) \cap Blocks(piece) = {}
  <2>1. Covered(M.ext) \cap Covered(f.left) = {}
    BY <1>6
  <2>2. PICK E, F : E = M.ext /\ F = f.left
    OBVIOUS
  <2>3. Real(E) /\ Real(F) /\ piece \in F /\ Covered(E) \cap Covered(F) = {}
    BY <1>3, <2>1, <2>2
  <2>4. /\ Real(F \ {piece}) /\ Real(E \cup {piece})
        /\ Covered(E \cup {piece}) = Covered(E) \cup Blocks(piece)
        /\ Covered(F) = Covered(F \ {piece}) \cup Blocks(piece)
        /\ Covered(F \ {piece}) \cap Blocks(piece) = {}
    BY <2>3, RealParts
  <2>5. N.ext = E \cup {piece} /\ g.left = F \ {piece}
    BY <1>5, <2>2
  <2> QED BY ONLY <2>2, <2>4, <2>5
<1>8. f.pc # "enter" /\ f.pc # "idle"
  BY <1>1
<1>9. CASE f.op = "alloc" /\ f.ret = "ok"
  <2>1. /\ Taken(f) = Covered(f.left) \cup Run(f.start, f.cnt)
        /\ Taken(g) = Covered(g.left) \cup Run(f.start, f.cnt)
    BY <1>5, <1>8, <1>9, TakenIs
  <2>2. f.start > 0 /\ f.cnt > 0 /\ Run(f.start, f.cnt) \cap Covered(f.left) = {}
    BY <1>3, <1>8, <1>9 DEF FrameOK
  <2>3. g.start > 0 /\ g.cnt > 0 /\ Run(g.start, g.cnt) \cap Covered(g.left) = {}
    BY <1>5, <1>7, <2>2
  <2>4. g.pc = "inserted" /\ Real(g.left)
    BY <1>5, <1>7
  <2>5. FrameOK(g)
    BY <2>3, <2>4 DEF FrameOK
  <2>6. /\ Covered(N.ext) \cup Taken(g) = Covered(M.ext) \cup Taken(f)
        /\ Covered(N.ext) \cap Taken(g) = {}
    BY ONLY <1>6, <1>7, <2>1, <2>2
  <2> QED
    <3>1. CallStep(t, m)
      BY ONLY <1>1, <1>4, <1>5, <1>7, <2>5, <2>6, Zenon DEF CallStep
    <3> QED BY <1>0, <3>1, CallKeeps, Zenon
<1>10. CASE ~(f.op = "alloc" /\ f.ret = "ok")
  <2>1. Taken(f) = Covered(f.left) /\ Taken(g) = Covered(g.left)
    BY <1>5, <1>8, <1>10 DEF Taken
  <2>2. FrameOK(g)
    BY <1>5, <1>7, <1>10 DEF FrameOK
  <2>3. /\ Covered(N.ext) \cup Taken(g) = Covered(M.ext) \cup Taken(f)
        /\ Covered(N.ext) \cap Taken(g) = {}
    BY ONLY <1>6, <1>7, <2>1
  <2> QED
    <3>1. CallStep(t, m)
      BY ONLY <1>1, <1>4, <1>5, <1>7, <2>2, <2>3, Zenon DEF CallStep
    <3> QED BY <1>0, <3>1, CallKeeps, Zenon
<1> QED BY <1>9, <1>10

\* A call ends.
LEMMA LeaveKeeps ==
  ASSUME NEW t \in Thread, NEW m \in Mgr, SpaceInv(t), Leave(t, m)
  PROVE  SpaceInv(t)' /\ CallStep(t, m)
<1> DEFINE f == frame[t][m]
           M == mgr[m]
           g == frame'[t][m]
           N == mgr'[m]
<1>0. TypeInv /\ TypeInv'
  BY CallsTyped DEF SpaceInv
<1>1. f.pc \in {"removed", "inserted"} /\ f.left = {} /\ UNCHANGED <<tree, base_blk, held, user>>
  BY <1>0, LeaveIs
<1>2. PICK x, y : ManagerNow(m, ManagerOf(M.ext, x, y, NoThread))
  BY <1>0, LeaveIs
<1>3. FrameNow(t, m, FrameOf("done", f.op, f.start, f.cnt, f.ret, f.left, f.req, f.old))
  BY <1>0, LeaveIs
<1>4. FrameOK(f) /\ Real(M.ext) /\ OneHome(Home(t))
  BY DEF SpaceInv, Calls, Pools
<1>5. /\ N = ManagerOf(M.ext, x, y, NoThread)
      /\ g = FrameOf("done", f.op, f.start, f.cnt, f.ret, f.left, f.req, f.old)
      /\ \A n \in Mgr : n # m => mgr'[n] = mgr[n] /\ frame'[t][n] = frame[t][n]
  BY <1>2, <1>3, CallNow
<1>6. /\ N.ext = M.ext /\ g.pc = "done" /\ g.op = f.op /\ g.start = f.start
      /\ g.cnt = f.cnt /\ g.ret = f.ret /\ g.left = f.left /\ g.req = f.req /\ g.old = f.old
  BY <1>5, Fields
<1>7. f.pc # "enter" /\ f.pc # "idle"
  BY <1>1
<1>8. Taken(g) = Taken(f)
  BY <1>6, <1>7 DEF Taken
<1>9. FrameOK(g)
  BY <1>4, <1>6, <1>7 DEF FrameOK
<1>10. Covered(M.ext) \cap Taken(f) = {}
  BY <1>4, IndexApart
<1>11. /\ Covered(N.ext) \cup Taken(g) = Covered(M.ext) \cup Taken(f)
       /\ Covered(N.ext) \cap Taken(g) = {}
  BY ONLY <1>6, <1>8, <1>10
<1> QED
  <2>1. CallStep(t, m)
    BY ONLY <1>1, <1>4, <1>5, <1>6, <1>7, <1>9, <1>11, Zenon DEF CallStep
  <2> QED BY <1>0, <2>1, CallKeeps, Zenon

-----------------------------------------------------------------------------
(* One thread: the requests of the two trees.                              *)

\* The parts of the invariant.
LEMMA Begin ==
  ASSUME NEW t, SpaceInv(t)
  PROVE  /\ TypeInv /\ Nested(t) /\ NotZero /\ Fresh /\ OneHome(Home(t))
         /\ FrameOK(frame[t]["sm"]) /\ FrameOK(frame[t]["bsm"])
  BY DEF SpaceInv, Calls, Mgr

\* The invariant from its parts, where no index changes.
LEMMA Assembled ==
  ASSUME NEW t, SpaceInv(t), TypeInv', \A m \in Mgr : mgr'[m].ext \subseteq mgr[m].ext,
         FrameOK(frame'[t]["sm"]), FrameOK(frame'[t]["bsm"]), NotZero', Fresh', Nested(t)',
         OneHome(Home(t))'
  PROVE  SpaceInv(t)'
<1>1. Pools'
  <2>1. ASSUME NEW m \in Mgr
        PROVE  Real(mgr'[m].ext)
    <3>1. Real(mgr[m].ext)
      BY DEF SpaceInv, Pools
    <3> QED BY <3>1 DEF Real, Index, Disjoint
  <2> QED BY <2>1 DEF Pools
<1>2. Calls(t)'
  BY DEF Calls, Mgr
<1> QED BY <1>1, <1>2 DEF SpaceInv

\* Both calls of a thread are replaced.
LEMMA BothThen ==
  ASSUME NEW t \in Thread, NEW x, NEW y, BothNow(t, x, y)
  PROVE  frame'[t]["sm"] = x /\ frame'[t]["bsm"] = y
  BY DEF BothNow, Mgr

\* The tree of sm is replaced, or that of bsm.
LEMMA TreeThen ==
  ASSUME NEW x
  PROVE  /\ TreeNow("sm", x) => tree'["sm"] = x /\ tree'["bsm"] = tree["bsm"]
         /\ TreeNow("bsm", x) => tree'["bsm"] = x /\ tree'["sm"] = tree["sm"]
  BY DEF TreeNow, Mgr

\* A call f that is under way becomes g: it asks for a block, or no longer.
Continues(f, g, p, q, o) ==
  /\ f.pc \notin {"idle", "enter"} /\ p \notin {"idle", "enter"}
  /\ g = FrameOf(p, f.op, f.start, f.cnt, f.ret, f.left, q, o)

\* It has what it had.
LEMMA SameCall ==
  ASSUME NEW f, NEW g, NEW p, NEW q, NEW o, FrameOK(f), Continues(f, g, p, q, o)
  PROVE  /\ FrameOK(g) /\ Taken(g) = Taken(f)
         /\ g.pc = p /\ g.op = f.op /\ g.req = q /\ g.old = o
<1>1. /\ g.pc = p /\ g.op = f.op /\ g.start = f.start /\ g.cnt = f.cnt /\ g.ret = f.ret
      /\ g.left = f.left /\ g.req = q /\ g.old = o
  BY Fields DEF Continues
<1> QED BY <1>1 DEF FrameOK, Taken, Continues

\* No block gets to another place.
LEMMA StayHome ==
  ASSUME NEW t, OneHome(Home(t)), \A m \in Mgr : mgr'[m].ext \subseteq mgr[m].ext,
         Nodes("sm")' \subseteq Nodes("sm"), Nodes("bsm")' \subseteq Nodes("bsm"),
         base_blk' = base_blk, held' \subseteq held,
         Taken(frame'[t]["sm"]) \subseteq Taken(frame[t]["sm"]),
         Taken(frame'[t]["bsm"]) \subseteq Taken(frame[t]["bsm"]),
         \/ frame'[t]["bsm"].req # "drop"
         \/ frame'[t]["bsm"].req = frame[t]["bsm"].req /\ frame'[t]["bsm"].old = frame[t]["bsm"].old
  PROVE  OneHome(Home(t))'
<1>1. \A m \in Mgr : Covered(mgr'[m].ext) \subseteq Covered(mgr[m].ext)
  BY DEF Covered
<1>2. /\ Home(t)'["sm"] \subseteq Home(t)["sm"] /\ Home(t)'["bsm"] \subseteq Home(t)["bsm"]
      /\ Home(t)'["kept"] \subseteq Home(t)["kept"]
  BY <1>1, HomeAt, HomeThen, HomeSame DEF Mgr
<1>3. /\ Home(t)'["space"] \subseteq Home(t)["space"] /\ Home(t)'["base"] \subseteq Home(t)["base"]
      /\ Home(t)'["held"] \subseteq Home(t)["held"]
      /\ Home(t)'["sm_call"] \subseteq Home(t)["sm_call"]
      /\ Home(t)'["bsm_call"] \subseteq Home(t)["bsm_call"]
  BY HomeAt, HomeThen
<1>4. Home(t)'["dropped"] \subseteq Home(t)["dropped"]
  <2>1. CASE frame'[t]["bsm"].req # "drop"
    BY <2>1, HomeThen
  <2>2. CASE frame'[t]["bsm"].req = frame[t]["bsm"].req /\ frame'[t]["bsm"].old = frame[t]["bsm"].old
    BY <2>2, HomeSame
  <2> QED BY <2>1, <2>2
<1>5. \A p \in Spots : Home(t)'[p] \subseteq Home(t)[p]
  BY <1>2, <1>3, <1>4 DEF Spots
<1> QED BY <1>5, Stay

\* The nesting, when a request of the SPACE tree begins or ends.
LEMMA NestedRequest ==
  ASSUME NEW t, Nested(t), UNCHANGED user, frame[t]["sm"].pc # "idle",
         NEW f, NEW g, f = frame'[t]["sm"], g = frame'[t]["bsm"], f.op = frame[t]["sm"].op,
         f.req = "none" => g = NoCall, f.req \in {"move", "split"} => g.op = "alloc",
         f.req = "move" => f.old \in tree'["sm"].clean
  PROVE  Nested(t)'
<1>1. frame[t]["sm"] # NoCall
  BY CallFields
<1> QED BY <1>1 DEF Nested

\* While the tree of sm has no request under way and its call is, bsm has no call.
LEMMA NoRequest ==
  ASSUME NEW t, Nested(t), frame[t]["sm"].pc # "idle", frame[t]["sm"].req = "none"
  PROVE  user[t] # "giving" /\ frame[t]["bsm"] = NoCall
  BY CallFields DEF Nested

\* A node of the SPACE tree is moved.
LEMMA MoveKeeps ==
  ASSUME NEW t \in Thread, SpaceInv(t), Move(t)
  PROVE  SpaceInv(t)'
<1> DEFINE f == frame[t]["sm"]
<1>0. TypeInv /\ TypeInv' /\ Nested(t) /\ NotZero /\ Fresh /\ OneHome(Home(t)) /\ FrameOK(f)
  BY Begin, RequestsTyped
<1>1. /\ f.pc \in {"removed", "split", "inserted"} /\ f.req = "none"
      /\ UNCHANGED <<mgr, tree, base_blk, held, user>>
  BY <1>0, MoveIs
<1>2. PICK b \in tree["sm"].clean :
        BothNow(t, FrameOf(f.pc, f.op, f.start, f.cnt, f.ret, f.left, "move", b), AllocCall(1))
  BY <1>0, MoveIs
<1>3. PICK g, h : g = frame'[t]["sm"] /\ h = frame'[t]["bsm"]
  OBVIOUS
<1>4. g = FrameOf(f.pc, f.op, f.start, f.cnt, f.ret, f.left, "move", b) /\ h = AllocCall(1)
  BY <1>2, <1>3, BothThen
<1>5. FrameOK(g) /\ Taken(g) = Taken(f) /\ g.op = f.op /\ g.req = "move" /\ g.old = b
  <2>1. Continues(f, g, f.pc, "move", b)
    BY <1>1, <1>4 DEF Continues
  <2> QED BY <1>0, <2>1, SameCall
<1>6. FrameOK(h) /\ Taken(h) = {} /\ h.op = "alloc" /\ h.req = "none"
  BY <1>4, CallsBegin, CallFields
<1>7. Nested(t)'
  BY <1>0, <1>1, <1>2, <1>3, <1>5, <1>6, NestedRequest
<1>8. OneHome(Home(t))'
  BY <1>0, <1>1, <1>3, <1>5, <1>6, StayHome DEF Nodes
<1>9. NotZero' /\ Fresh'
  BY <1>0, <1>1 DEF NotZero, Fresh, Nodes
<1> QED BY <1>0, <1>1, <1>3, <1>5, <1>6, <1>7, <1>8, <1>9, Assembled

\* A call that has got blocks: its first block is one of them, and not block 0.
LEMMA Answer ==
  ASSUME TypeInv, NEW t \in Thread, NEW m \in Mgr, NEW f, f = frame[t][m], FrameOK(f),
         f.pc = "done", f.op = "alloc", f.ret = "ok"
  PROVE  /\ f.start \in Nat /\ f.cnt \in Nat /\ f.start > 0 /\ f.cnt > 0
         /\ f.start \in Taken(f) /\ Run(f.start, f.cnt) \subseteq Taken(f)
<1>1. f.start \in Nat /\ f.cnt \in Nat
  BY FrameFacts DEF InRange, Device
<1>2. f.start > 0 /\ f.cnt > 0
  BY DEF FrameOK
<1>3. f.start \in Run(f.start, f.cnt)
  BY <1>1, <1>2, RunOf
<1>4. Run(f.start, f.cnt) \subseteq Taken(f)
  BY TakenIs
<1> QED BY <1>1, <1>2, <1>3, <1>4

\* A request of the SPACE tree, or the drop of a block, is part of a call under way.
LEMMA Requests ==
  ASSUME TypeInv, NEW t \in Thread, NEW m \in Mgr, frame[t][m].req # "none"
  PROVE  frame[t][m].pc \in {"removed", "split", "inserted"}
  BY FrameFacts DEF InRange

\* Blocks go between the SPACE tree and the call of bsm that it made.
LEMMA SpacePass ==
  ASSUME NEW t, OneHome(Home(t)), UNCHANGED <<base_blk, held>>,
         \A m \in Mgr : mgr'[m].ext = mgr[m].ext, tree'["bsm"] = tree["bsm"],
         Taken(frame'[t]["sm"]) = Taken(frame[t]["sm"]), frame'[t]["bsm"].req = "none",
         Nodes("sm")' \cup Taken(frame'[t]["bsm"]) \subseteq Nodes("sm") \cup Taken(frame[t]["bsm"]),
         Nodes("sm")' \cap Taken(frame'[t]["bsm"]) = {}
  PROVE  OneHome(Home(t))'
<1>1. mgr'["sm"].ext = mgr["sm"].ext /\ mgr'["bsm"].ext = mgr["bsm"].ext
  BY DEF Mgr
<1>2. /\ Home(t)'["sm"] = Home(t)["sm"] /\ Home(t)'["bsm"] = Home(t)["bsm"]
      /\ Home(t)'["base"] = Home(t)["base"] /\ Home(t)'["kept"] = Home(t)["kept"]
      /\ Home(t)'["held"] = Home(t)["held"] /\ Home(t)'["sm_call"] = Home(t)["sm_call"]
  BY <1>1, HomeSame
<1>3. Home(t)'["dropped"] = {}
  BY HomeThen
<1>4. \A p \in Spots \ {"space", "bsm_call"} : Home(t)'[p] \subseteq Home(t)[p]
  BY <1>2, <1>3 DEF Spots
<1>5. /\ Home(t)'["space"] \cup Home(t)'["bsm_call"] \subseteq Home(t)["space"] \cup Home(t)["bsm_call"]
      /\ Home(t)'["space"] \cap Home(t)'["bsm_call"] = {}
  BY HomeAt, HomeThen
<1>6. "space" \in Spots /\ "bsm_call" \in Spots
  BY DEF Spots
<1> QED BY <1>4, <1>5, <1>6, Pass

\* The SPACE tree and the call of bsm have no block in common.
LEMMA SpaceApart ==
  ASSUME NEW t, OneHome(Home(t))
  PROVE  Nodes("sm") \cap Taken(frame[t]["bsm"]) = {}
<1>1. Home(t)["space"] \cap Home(t)["bsm_call"] = {}
  BY DEF OneHome, Spots
<1> QED BY <1>1, HomeAt

\* A node has its new block, and its old one is given back.
LEMMA MovedKeeps ==
  ASSUME NEW t \in Thread, SpaceInv(t), Moved(t)
  PROVE  SpaceInv(t)'
<1> DEFINE f == frame[t]["sm"]
           g == frame[t]["bsm"]
           T == tree["sm"]
<1>0. /\ TypeInv /\ TypeInv' /\ Nested(t) /\ NotZero /\ Fresh /\ OneHome(Home(t))
      /\ FrameOK(f) /\ FrameOK(g) /\ "sm" \in Mgr /\ "bsm" \in Mgr
  BY Begin, RequestsTyped DEF Mgr
<1>1. /\ f.req = "move" /\ g.pc = "done" /\ g.ret = "ok" /\ UNCHANGED <<mgr, base_blk, held, user>>
      /\ TreeNow("sm", TreeOf(T.clean \ {f.old}, T.dirty \cup {g.start}))
      /\ BothNow(t, FrameOf(f.pc, f.op, f.start, f.cnt, f.ret, f.left, "drop", f.old),
                 FreeCall(f.old, 1))
  BY <1>0, MovedIs
<1>2. g.op = "alloc" /\ f.old \in T.clean
  BY <1>0, <1>1 DEF Nested
<1>3. PICK x, y, old, new :
        x = frame'[t]["sm"] /\ y = frame'[t]["bsm"] /\ old = f.old /\ new = g.start
  OBVIOUS
<1>4. x = FrameOf(f.pc, f.op, f.start, f.cnt, f.ret, f.left, "drop", old) /\ y = FreeCall(old, 1)
  BY <1>1, <1>3, BothThen
<1>5. tree'["sm"] = TreeOf(T.clean \ {old}, T.dirty \cup {new}) /\ tree'["bsm"] = tree["bsm"]
  BY <1>1, <1>3, TreeThen
<1>6. tree'["sm"].clean = T.clean \ {old} /\ tree'["sm"].dirty = T.dirty \cup {new}
  BY <1>5, Fields
<1>7. new \in Taken(g) /\ new > 0
  BY <1>0, <1>1, <1>2, <1>3, Answer
<1>8. old \in Nat /\ old > 0 /\ old \in Nodes("sm") /\ old \notin T.dirty /\ old # new
      /\ new \notin Nodes("sm")
  <2>1. old \in T.clean /\ T.clean \subseteq Device
    BY <1>0, <1>2, <1>3, ManagerFacts
  <2>2. new \notin Nodes("sm")
    BY <1>0, <1>7, SpaceApart
  <2>3. old \in Nodes("sm") /\ old # 0
    BY <1>0, <2>1 DEF Nodes, NotZero
  <2>4. old \in Nat
    BY <2>1 DEF Device
  <2>5. old \notin T.dirty
    BY <1>0, <2>1, <2>3 DEF Fresh
  <2> QED BY <2>2, <2>3, <2>4, <2>5
<1>9. f.pc \in {"removed", "split", "inserted"}
  BY <1>0, <1>1, Requests
<1>10. FrameOK(x) /\ Taken(x) = Taken(f) /\ x.op = f.op /\ x.req = "drop"
  <2>1. Continues(f, x, f.pc, "drop", old)
    BY <1>4, <1>9 DEF Continues
  <2> QED BY <1>0, <2>1, SameCall
<1>11. FrameOK(y) /\ Taken(y) = {old} /\ y.req = "none"
  BY <1>4, <1>8, CallsBegin, CallFields, RunOf
<1>12. Nested(t)'
  BY <1>0, <1>1, <1>3, <1>9, <1>10, NestedRequest
<1>13. Nodes("sm")' = (T.clean \ {old}) \cup T.dirty \cup {new}
  BY <1>6 DEF Nodes
<1>14. OneHome(Home(t))'
  <2>1. Nodes("sm")' \cup Taken(y) \subseteq Nodes("sm") \cup Taken(g)
    BY <1>7, <1>8, <1>11, <1>13 DEF Nodes
  <2>2. Nodes("sm")' \cap Taken(y) = {}
    BY <1>8, <1>11, <1>13
  <2> QED BY <1>0, <1>1, <1>3, <1>5, <1>10, <1>11, <2>1, <2>2, SpacePass
<1>15. NotZero' /\ Fresh'
  <2>1. NotZero'
    BY <1>0, <1>1, <1>7, <1>13 DEF NotZero, Nodes
  <2>2. T.clean \cap T.dirty \subseteq {0} /\ tree["bsm"].clean \cap tree["bsm"].dirty \subseteq {0}
    BY <1>0 DEF Fresh
  <2>3. new \notin T.clean
    BY <1>8 DEF Nodes
  <2> QED BY <1>5, <1>6, <2>1, <2>2, <2>3 DEF Fresh, Mgr
<1> QED BY <1>0, <1>1, <1>3, <1>10, <1>11, <1>12, <1>14, <1>15, Assembled

\* The old block of a node is given back.
LEMMA DroppedKeeps ==
  ASSUME NEW t \in Thread, SpaceInv(t), Dropped(t)
  PROVE  SpaceInv(t)'
<1> DEFINE f == frame[t]["sm"]
<1>0. /\ TypeInv /\ TypeInv' /\ Nested(t) /\ NotZero /\ Fresh /\ OneHome(Home(t))
      /\ FrameOK(f) /\ "sm" \in Mgr
  BY Begin, RequestsTyped DEF Mgr
<1>1. /\ f.req = "drop" /\ UNCHANGED <<mgr, tree, base_blk, held, user>>
      /\ BothNow(t, FrameOf(f.pc, f.op, f.start, f.cnt, f.ret, f.left, "none", 0), NoCall)
  BY <1>0, DroppedIs
<1>2. PICK x, y : x = frame'[t]["sm"] /\ y = frame'[t]["bsm"]
  OBVIOUS
<1>3. x = FrameOf(f.pc, f.op, f.start, f.cnt, f.ret, f.left, "none", 0) /\ y = NoCall
  BY <1>1, <1>2, BothThen
<1>4. f.pc \in {"removed", "split", "inserted"}
  BY <1>0, <1>1, Requests
<1>5. FrameOK(x) /\ Taken(x) = Taken(f) /\ x.op = f.op /\ x.req = "none"
  <2>1. Continues(f, x, f.pc, "none", 0)
    BY <1>3, <1>4 DEF Continues
  <2> QED BY <1>0, <2>1, SameCall
<1>6. FrameOK(y) /\ Taken(y) = {} /\ y.req = "none"
  BY <1>3, CallsBegin, CallFields
<1>7. Nested(t)'
  BY <1>0, <1>1, <1>2, <1>3, <1>4, <1>5, NestedRequest
<1>8. OneHome(Home(t))'
  BY <1>0, <1>1, <1>2, <1>5, <1>6, StayHome DEF Nodes
<1>9. NotZero' /\ Fresh'
  BY <1>0, <1>1 DEF NotZero, Fresh, Nodes
<1> QED BY <1>0, <1>1, <1>2, <1>5, <1>6, <1>7, <1>8, <1>9, Assembled

\* One more node is asked for.
LEMMA SplitKeeps ==
  ASSUME NEW t \in Thread, SpaceInv(t), Split(t)
  PROVE  SpaceInv(t)'
<1> DEFINE f == frame[t]["sm"]
<1>0. /\ TypeInv /\ TypeInv' /\ Nested(t) /\ NotZero /\ Fresh /\ OneHome(Home(t))
      /\ FrameOK(f) /\ "sm" \in Mgr
  BY Begin, RequestsTyped DEF Mgr
<1>1. /\ f.pc \in {"removed", "ready", "split", "inserted"} /\ f.req = "none"
      /\ UNCHANGED <<mgr, tree, base_blk, held, user>>
  BY <1>0, SplitIs
<1>2. PICK x, y : x = frame'[t]["sm"] /\ y = frame'[t]["bsm"]
  OBVIOUS
<1>4. PICK p \in {"removed", "split"} :
        BothNow(t, FrameOf(p, f.op, f.start, f.cnt, f.ret, f.left, "split", f.old), AllocCall(1))
  BY <1>0, SplitIs
<1>3. x = FrameOf(p, f.op, f.start, f.cnt, f.ret, f.left, "split", f.old) /\ y = AllocCall(1)
  BY <1>2, <1>4, BothThen
<1>5. FrameOK(x) /\ Taken(x) = Taken(f) /\ x.op = f.op /\ x.req = "split"
  <2>1. Continues(f, x, p, "split", f.old)
    BY <1>1, <1>3 DEF Continues
  <2> QED BY <1>0, <2>1, SameCall
<1>6. FrameOK(y) /\ Taken(y) = {} /\ y.op = "alloc" /\ y.req = "none"
  <2>1. FrameOK(AllocCall(1)) /\ Taken(AllocCall(1)) = {}
    BY CallsBegin
  <2>2. AllocCall(1).op = "alloc" /\ AllocCall(1).req = "none"
    BY CallFields
  <2> QED BY <1>3, <2>1, <2>2
<1>7. Nested(t)'
  BY <1>0, <1>1, <1>2, <1>5, <1>6, NestedRequest
<1>8. OneHome(Home(t))'
  BY <1>0, <1>1, <1>2, <1>5, <1>6, StayHome DEF Nodes
<1>9. NotZero' /\ Fresh'
  BY <1>0, <1>1 DEF NotZero, Fresh, Nodes
<1> QED BY <1>0, <1>1, <1>2, <1>5, <1>6, <1>7, <1>8, <1>9, Assembled

\* A node that is split has its new block.
LEMMA HasSplitKeeps ==
  ASSUME NEW t \in Thread, SpaceInv(t), HasSplit(t)
  PROVE  SpaceInv(t)'
<1> DEFINE f == frame[t]["sm"]
           g == frame[t]["bsm"]
           T == tree["sm"]
<1>0. /\ TypeInv /\ TypeInv' /\ Nested(t) /\ NotZero /\ Fresh /\ OneHome(Home(t))
      /\ FrameOK(f) /\ FrameOK(g) /\ "sm" \in Mgr /\ "bsm" \in Mgr
  BY Begin, RequestsTyped DEF Mgr
<1>1. /\ f.req = "split" /\ g.pc = "done" /\ g.ret = "ok" /\ UNCHANGED <<mgr, base_blk, held, user>>
      /\ TreeNow("sm", TreeOf(T.clean, T.dirty \cup {g.start}))
      /\ BothNow(t, FrameOf(f.pc, f.op, f.start, f.cnt, f.ret, f.left, "none", f.old), NoCall)
  BY <1>0, HasSplitIs
<1>2. g.op = "alloc"
  BY <1>0, <1>1 DEF Nested
<1>3. PICK x, y, new : x = frame'[t]["sm"] /\ y = frame'[t]["bsm"] /\ new = g.start
  OBVIOUS
<1>4. x = FrameOf(f.pc, f.op, f.start, f.cnt, f.ret, f.left, "none", f.old) /\ y = NoCall
  BY <1>1, <1>3, BothThen
<1>5. tree'["sm"] = TreeOf(T.clean, T.dirty \cup {new}) /\ tree'["bsm"] = tree["bsm"]
  BY <1>1, <1>3, TreeThen
<1>6. tree'["sm"].clean = T.clean /\ tree'["sm"].dirty = T.dirty \cup {new}
  BY <1>5, Fields
<1>7. new \in Taken(g) /\ new > 0
  BY <1>0, <1>1, <1>2, <1>3, Answer
<1>8. new \notin Nodes("sm")
  BY <1>0, <1>7, SpaceApart
<1>9. f.pc \in {"removed", "split", "inserted"}
  BY <1>0, <1>1, Requests
<1>10. FrameOK(x) /\ Taken(x) = Taken(f) /\ x.op = f.op /\ x.req = "none"
  <2>1. Continues(f, x, f.pc, "none", f.old)
    BY <1>4, <1>9 DEF Continues
  <2> QED BY <1>0, <2>1, SameCall
<1>11. FrameOK(y) /\ Taken(y) = {} /\ y.req = "none"
  <2>1. FrameOK(NoCall) /\ Taken(NoCall) = {}
    BY CallsBegin
  <2>2. NoCall.req = "none"
    BY CallFields
  <2> QED BY <1>4, <2>1, <2>2
<1>12. Nested(t)'
  BY <1>0, <1>1, <1>3, <1>4, <1>9, <1>10, NestedRequest
<1>13. Nodes("sm")' = T.clean \cup T.dirty \cup {new}
  BY <1>6 DEF Nodes
<1>14. OneHome(Home(t))'
  <2>1. Nodes("sm")' \cup Taken(y) \subseteq Nodes("sm") \cup Taken(g)
    BY <1>7, <1>11, <1>13 DEF Nodes
  <2>2. Nodes("sm")' \cap Taken(y) = {}
    BY <1>11
  <2> QED BY <1>0, <1>1, <1>3, <1>5, <1>10, <1>11, <2>1, <2>2, SpacePass
<1>15. NotZero' /\ Fresh'
  <2>1. NotZero'
    BY <1>0, <1>1, <1>7, <1>13 DEF NotZero, Nodes
  <2>2. T.clean \cap T.dirty \subseteq {0} /\ tree["bsm"].clean \cap tree["bsm"].dirty \subseteq {0}
    BY <1>0 DEF Fresh
  <2>3. new \notin T.clean
    BY <1>8 DEF Nodes
  <2> QED BY <1>5, <1>6, <2>1, <2>2, <2>3 DEF Fresh, Mgr
<1> QED BY <1>0, <1>1, <1>3, <1>10, <1>11, <1>12, <1>14, <1>15, Assembled

\* The block of an empty node is given back.
LEMMA ShrinkKeeps ==
  ASSUME NEW t \in Thread, SpaceInv(t), Shrink(t)
  PROVE  SpaceInv(t)'
<1> DEFINE f == frame[t]["sm"]
           g == frame[t]["bsm"]
           T == tree["sm"]
<1>0. /\ TypeInv /\ TypeInv' /\ Nested(t) /\ NotZero /\ Fresh /\ OneHome(Home(t))
      /\ FrameOK(f) /\ FrameOK(g) /\ "sm" \in Mgr
  BY Begin, RequestsTyped DEF Mgr
<1>1. f.pc = "removed" /\ f.req = "none" /\ UNCHANGED <<mgr, base_blk, held, user>>
  BY <1>0, ShrinkIs
<1>2. PICK b \in T.dirty :
        /\ TreeNow("sm", TreeOf(T.clean, T.dirty \ {b}))
        /\ BothNow(t, FrameOf(f.pc, f.op, f.start, f.cnt, f.ret, f.left, "drop", b), FreeCall(b, 1))
  BY <1>0, ShrinkIs
<1>3. PICK x, y : x = frame'[t]["sm"] /\ y = frame'[t]["bsm"]
  OBVIOUS
<1>4. x = FrameOf(f.pc, f.op, f.start, f.cnt, f.ret, f.left, "drop", b) /\ y = FreeCall(b, 1)
  BY <1>2, <1>3, BothThen
<1>5. tree'["sm"] = TreeOf(T.clean, T.dirty \ {b}) /\ tree'["bsm"] = tree["bsm"]
  BY <1>2, TreeThen
<1>6. tree'["sm"].clean = T.clean /\ tree'["sm"].dirty = T.dirty \ {b}
  BY <1>5, Fields
<1>8. b \in Nat /\ b > 0 /\ b \in Nodes("sm") /\ b \notin T.clean
  <2>1. T.dirty \subseteq Device
    BY <1>0, ManagerFacts
  <2>3. b \in Nodes("sm") /\ b # 0
    BY <1>0 DEF Nodes, NotZero
  <2>4. b \in Nat
    BY <2>1 DEF Device
  <2>5. b \notin T.clean
    <3>1. \A m \in Mgr : tree[m].clean \cap tree[m].dirty \subseteq {0}
      BY <1>0 DEF Fresh, Mgr
    <3>2. T.clean \cap T.dirty \subseteq {0}
      BY <1>0, <3>1
    <3> QED BY <2>3, <3>2
  <2> QED BY <2>3, <2>4, <2>5
<1>9. f.pc # "idle" /\ f.pc # "enter"
  BY <1>1
<1>10. FrameOK(x) /\ Taken(x) = Taken(f) /\ x.op = f.op /\ x.req = "drop"
  <2>1. Continues(f, x, f.pc, "drop", b)
    BY <1>4, <1>9 DEF Continues
  <2> QED BY <1>0, <2>1, SameCall
<1>11. FrameOK(y) /\ Taken(y) = {b} /\ y.req = "none"
  BY <1>4, <1>8, CallsBegin, CallFields, RunOf
<1>12. Nested(t)'
  BY <1>0, <1>1, <1>3, <1>9, <1>10, NestedRequest
<1>13. Nodes("sm")' = T.clean \cup (T.dirty \ {b})
  BY <1>6 DEF Nodes
<1>14. OneHome(Home(t))'
  <2>1. Nodes("sm")' \cup Taken(y) \subseteq Nodes("sm") \cup Taken(g)
    BY <1>8, <1>11, <1>13 DEF Nodes
  <2>2. Nodes("sm")' \cap Taken(y) = {}
    BY <1>8, <1>11, <1>13
  <2> QED BY <1>0, <1>1, <1>3, <1>5, <1>10, <1>11, <2>1, <2>2, SpacePass
<1>15. NotZero' /\ Fresh'
  <2>1. NotZero'
    BY <1>0, <1>1, <1>13 DEF NotZero, Nodes
  <2>2. T.clean \cap T.dirty \subseteq {0} /\ tree["bsm"].clean \cap tree["bsm"].dirty \subseteq {0}
    BY <1>0 DEF Fresh, Mgr
  <2> QED BY <1>5, <1>6, <2>1, <2>2 DEF Fresh, Mgr
<1> QED BY <1>0, <1>1, <1>3, <1>10, <1>11, <1>12, <1>14, <1>15, Assembled

\* The call of sm gives up: what it had taken out is lost.
LEMMA GiveUpKeeps ==
  ASSUME NEW t \in Thread, SpaceInv(t), GiveUp(t)
  PROVE  SpaceInv(t)'
<1> DEFINE f == frame[t]["sm"]
           g == frame[t]["bsm"]
           M == mgr["sm"]
<1>0. /\ TypeInv /\ TypeInv' /\ Nested(t) /\ NotZero /\ Fresh /\ OneHome(Home(t))
      /\ FrameOK(f) /\ FrameOK(g) /\ "sm" \in Mgr
  BY Begin, RequestsTyped DEF Mgr
<1>1. f.req # "none" /\ g.pc = "done" /\ g.ret # "ok" /\ UNCHANGED <<tree, base_blk, held, user>>
  BY <1>0, GiveUpIs
<1>2. PICK E \in SUBSET M.ext, v \in {0, M.first}, w \in {0, M.total} : ManagerNow("sm", ManagerOf(E, v, w, NoThread))
  BY <1>0, GiveUpIs
<1>3. PICK code \in {"error", g.ret} :
        BothNow(t, FrameOf("done", f.op, f.start, f.cnt, code, f.left, "none", f.old), NoCall)
  BY <1>0, GiveUpIs
<1>4. PICK x, y : x = frame'[t]["sm"] /\ y = frame'[t]["bsm"]
  OBVIOUS
<1>5. x = FrameOf("done", f.op, f.start, f.cnt, code, f.left, "none", f.old) /\ y = NoCall
  BY <1>3, <1>4, BothThen
<1>7. \A m \in Mgr : mgr'[m].ext \subseteq mgr[m].ext
  BY <1>2, Fields DEF ManagerNow
<1>8. f.pc \in {"removed", "split", "inserted"}
  BY <1>0, <1>1, Requests
<1>9. /\ x.pc = "done" /\ x.op = f.op /\ x.ret = code /\ x.left = f.left /\ x.req = "none"
  BY <1>5, Fields
<1>10. code # "ok"
  BY <1>1
<1>11. FrameOK(x) /\ Taken(x) \subseteq Taken(f)
  <2>1. FrameOK(x)
    BY <1>0, <1>9, <1>10 DEF FrameOK
  <2>2. Taken(x) = Covered(f.left)
    BY <1>9, <1>10, TakenIs
  <2> QED BY <2>1, <2>2 DEF Taken
<1>12. FrameOK(y) /\ Taken(y) = {} /\ y.req = "none"
  BY <1>5, CallsBegin, CallFields
<1>13. Nested(t)'
  BY <1>0, <1>1, <1>4, <1>5, <1>8, <1>9, NestedRequest
<1>14. OneHome(Home(t))'
  BY <1>0, <1>1, <1>4, <1>7, <1>11, <1>12, StayHome DEF Nodes
<1>15. NotZero' /\ Fresh'
  BY <1>0, <1>1 DEF NotZero, Fresh, Nodes
<1> QED BY <1>0, <1>4, <1>7, <1>11, <1>12, <1>13, <1>14, <1>15, Assembled

\* The homes of the blocks of the BASE tree, before (C, E, L) and after a step.
BaseHomes(t, B, C, D, E, K, L) ==
  /\ K = Home(t)'["dropped"] /\ L = Home(t)["dropped"]
  /\ B = Nodes("bsm")' \ {0} /\ C = Nodes("bsm") \ {0}
  /\ D = {base_blk'} \ {0} /\ E = {base_blk} \ {0}

\* Blocks go between the BASE tree, base_blk and the block the tree gives back.
LEMMA BasePass ==
  ASSUME NEW t, OneHome(Home(t)), UNCHANGED <<mgr, held>>, tree'["sm"] = tree["sm"],
         frame'[t]["sm"] = frame[t]["sm"], Taken(frame'[t]["bsm"]) = Taken(frame[t]["bsm"]),
         NEW B, NEW C, NEW D, NEW E, NEW K, NEW L, BaseHomes(t, B, C, D, E, K, L),
         B \cup D \cup K \subseteq C \cup E \cup L,
         B \cap D = {}, B \cap K = {}, D \cap K = {}
  PROVE  OneHome(Home(t))'
<1>1. /\ Home(t)'["sm"] = Home(t)["sm"] /\ Home(t)'["bsm"] = Home(t)["bsm"]
      /\ Home(t)'["space"] = Home(t)["space"] /\ Home(t)'["held"] = Home(t)["held"]
      /\ Home(t)'["sm_call"] = Home(t)["sm_call"] /\ Home(t)'["bsm_call"] = Home(t)["bsm_call"]
  BY HomeSame
<1>2. \A p \in Spots \ {"base", "kept", "dropped"} : Home(t)'[p] \subseteq Home(t)[p]
  BY <1>1 DEF Spots
<1>3. /\ Home(t)'["base"] = B /\ Home(t)'["kept"] = D /\ Home(t)["base"] = C /\ Home(t)["kept"] = E
      /\ Home(t)'["dropped"] = K /\ Home(t)["dropped"] = L
  BY HomeAt, HomeThen DEF BaseHomes
<1>4. "base" \in Spots /\ "kept" \in Spots /\ "dropped" \in Spots
  BY DEF Spots
<1>5. /\ Home(t)'["base"] \cup Home(t)'["kept"] \cup Home(t)'["dropped"]
           \subseteq Home(t)["base"] \cup Home(t)["kept"] \cup Home(t)["dropped"]
      /\ Home(t)'["base"] \cap Home(t)'["kept"] = {} /\ Home(t)'["base"] \cap Home(t)'["dropped"] = {}
      /\ Home(t)'["kept"] \cap Home(t)'["dropped"] = {}
  BY <1>3
<1> QED BY <1>2, <1>4, <1>5, PassOn

\* They have no block in common.
LEMMA BaseApart ==
  ASSUME NEW t, OneHome(Home(t)), NEW L, L = Home(t)["dropped"],
         NEW C, C = Nodes("bsm") \ {0}, NEW E, E = {base_blk} \ {0}
  PROVE  C \cap E = {} /\ C \cap L = {} /\ E \cap L = {}
<1>1. /\ Home(t)["base"] \cap Home(t)["kept"] = {} /\ Home(t)["base"] \cap Home(t)["dropped"] = {}
      /\ Home(t)["kept"] \cap Home(t)["dropped"] = {}
  BY DEF OneHome, Spots
<1> QED BY <1>1, HomeAt

\* The block that is given back, if there is one.
LEMMA DroppedAt ==
  ASSUME NEW t, NEW f, f = frame[t]["bsm"]
  PROVE  /\ f.req = "drop" => Home(t)["dropped"] = {f.old} \ {0}
         /\ f.req # "drop" => Home(t)["dropped"] = {}
  BY HomeAt

\* The block that is given back after a step.
LEMMA DroppedThen ==
  ASSUME NEW t, NEW f, f = frame'[t]["bsm"]
  PROVE  /\ f.req = "drop" => Home(t)'["dropped"] = {f.old} \ {0}
         /\ f.req # "drop" => Home(t)'["dropped"] = {}
  BY HomeThen

\* The invariant after a step of the BASE tree.
LEMMA BaseKeeps ==
  ASSUME NEW t \in Thread, SpaceInv(t), TypeInv', UNCHANGED <<mgr, held, user>>,
         tree'["sm"] = tree["sm"], frame'[t]["sm"] = frame[t]["sm"],
         frame[t]["bsm"].pc # "idle", frame'[t]["bsm"].op = frame[t]["bsm"].op,
         FrameOK(frame'[t]["bsm"]), tree'["bsm"].clean \cap tree'["bsm"].dirty \subseteq {0},
         OneHome(Home(t))'
  PROVE  SpaceInv(t)'
<1>0. /\ Nested(t) /\ NotZero /\ Fresh /\ FrameOK(frame[t]["sm"])
  BY Begin
<1>1. Nested(t)'
  <2>1. \A n \in Mgr : n # "bsm" => frame'[t][n] = frame[t][n]
    BY DEF Mgr
  <2>2. "bsm" \in Mgr
    BY DEF Mgr
  <2> QED BY <1>0, <2>1, <2>2, NestedKept
<1>2. NotZero'
  BY <1>0 DEF NotZero, Nodes
<1>3. Fresh'
  BY <1>0 DEF Fresh, Mgr
<1> QED BY <1>0, <1>1, <1>2, <1>3, Assembled

\* A node of the BASE tree is moved to base_blk.
LEMMA BaseMoveKeeps ==
  ASSUME NEW t \in Thread, SpaceInv(t), BaseMove(t)
  PROVE  SpaceInv(t)'
<1> DEFINE g == frame[t]["bsm"]
           T == tree["bsm"]
<1>0. /\ TypeInv /\ TypeInv' /\ Fresh /\ OneHome(Home(t)) /\ FrameOK(g) /\ "bsm" \in Mgr
      /\ T.clean \cap T.dirty \subseteq {0}
  BY Begin, BaseTyped DEF Mgr, Fresh
<1>1. /\ g.pc \in {"removed", "split", "inserted"} /\ g.req = "none"
      /\ base_blk' = 0 /\ UNCHANGED <<mgr, held, user>>
  BY <1>0, BaseMoveIs
<1>2. PICK b \in T.clean :
        /\ TreeNow("bsm", TreeOf(T.clean \ {b}, T.dirty \cup {base_blk}))
        /\ FrameNow(t, "bsm", FrameOf(g.pc, g.op, g.start, g.cnt, g.ret, g.left, "drop", b))
  BY <1>0, BaseMoveIs
<1>3. PICK y : y = frame'[t]["bsm"]
  OBVIOUS
<1>4. /\ y = FrameOf(g.pc, g.op, g.start, g.cnt, g.ret, g.left, "drop", b)
      /\ frame'[t]["sm"] = frame[t]["sm"]
  BY <1>0, <1>2, <1>3, FrameThen DEF Mgr
<1>5. tree'["bsm"] = TreeOf(T.clean \ {b}, T.dirty \cup {base_blk}) /\ tree'["sm"] = tree["sm"]
  BY <1>2, TreeThen
<1>6. tree'["bsm"].clean = T.clean \ {b} /\ tree'["bsm"].dirty = T.dirty \cup {base_blk}
  BY <1>5, Fields
<1>7. FrameOK(y) /\ Taken(y) = Taken(g) /\ y.op = g.op /\ y.req = "drop" /\ y.old = b
  <2>1. Continues(g, y, g.pc, "drop", b)
    BY <1>1, <1>4 DEF Continues
  <2> QED BY <1>0, <2>1, SameCall
<1>8. PICK B, C, D, E, K, L : BaseHomes(t, B, C, D, E, K, L)
  BY DEF BaseHomes
<1>9. C \cap E = {} /\ C \cap L = {} /\ E \cap L = {}
  BY <1>0, <1>8, BaseApart DEF BaseHomes
<1>10. K = {b} \ {0} /\ L = {} /\ D = {}
  BY <1>1, <1>3, <1>7, <1>8, DroppedAt, DroppedThen DEF BaseHomes
<1>11. B = ((T.clean \ {b}) \cup T.dirty \cup {base_blk}) \ {0}
  BY <1>6, <1>8 DEF Nodes, BaseHomes
<1>12. C = (T.clean \cup T.dirty) \ {0}
  BY <1>8 DEF Nodes, BaseHomes
<1>13. B \cup D \cup K \subseteq C \cup E \cup L
  BY <1>8, <1>10, <1>11, <1>12 DEF BaseHomes
<1>14. B \cap D = {} /\ D \cap K = {}
  BY <1>10
<1>15. B \cap K = {}
  BY <1>0, <1>8, <1>9, <1>10, <1>11, <1>12 DEF BaseHomes
<1>16. OneHome(Home(t))'
  BY <1>0, <1>1, <1>3, <1>4, <1>5, <1>7, <1>8, <1>13, <1>14, <1>15, BasePass
<1>17. tree'["bsm"].clean \cap tree'["bsm"].dirty \subseteq {0}
  BY <1>0, <1>6, <1>8, <1>9, <1>12 DEF BaseHomes
<1> QED BY <1>0, <1>1, <1>3, <1>4, <1>5, <1>7, <1>16, <1>17, BaseKeeps

\* The old block of a node becomes base_blk.
LEMMA BaseDroppedKeeps ==
  ASSUME NEW t \in Thread, SpaceInv(t), BaseDropped(t)
  PROVE  SpaceInv(t)'
<1> DEFINE g == frame[t]["bsm"]
           T == tree["bsm"]
<1>0. /\ TypeInv /\ TypeInv' /\ Fresh /\ OneHome(Home(t)) /\ FrameOK(g) /\ "bsm" \in Mgr
      /\ T.clean \cap T.dirty \subseteq {0}
  BY Begin, BaseTyped DEF Mgr, Fresh
<1>1. /\ g.req = "drop" /\ base_blk' = g.old /\ UNCHANGED <<mgr, tree, held, user>>
      /\ FrameNow(t, "bsm", FrameOf(g.pc, g.op, g.start, g.cnt, g.ret, g.left, "none", 0))
  BY <1>0, BaseDroppedIs
<1>2. g.pc \in {"removed", "split", "inserted"}
  BY <1>0, <1>1, Requests
<1>3. PICK y : y = frame'[t]["bsm"]
  OBVIOUS
<1>4. /\ y = FrameOf(g.pc, g.op, g.start, g.cnt, g.ret, g.left, "none", 0)
      /\ frame'[t]["sm"] = frame[t]["sm"]
  BY <1>0, <1>1, <1>3, FrameThen DEF Mgr
<1>7. FrameOK(y) /\ Taken(y) = Taken(g) /\ y.op = g.op /\ y.req = "none"
  <2>1. Continues(g, y, g.pc, "none", 0)
    BY <1>2, <1>4 DEF Continues
  <2> QED BY <1>0, <2>1, SameCall
<1>8. PICK B, C, D, E, K, L : BaseHomes(t, B, C, D, E, K, L)
  BY DEF BaseHomes
<1>9. C \cap E = {} /\ C \cap L = {} /\ E \cap L = {}
  BY <1>0, <1>8, BaseApart DEF BaseHomes
<1>10. K = {} /\ L = {g.old} \ {0} /\ D = L
  BY <1>1, <1>3, <1>7, <1>8, DroppedAt, DroppedThen DEF BaseHomes
<1>11. B = C
  BY <1>1, <1>8 DEF Nodes, BaseHomes
<1>13. /\ B \cup D \cup K \subseteq C \cup E \cup L
       /\ B \cap D = {} /\ D \cap K = {} /\ B \cap K = {}
  BY <1>9, <1>10, <1>11
<1>16. OneHome(Home(t))'
  BY <1>0, <1>1, <1>3, <1>4, <1>7, <1>8, <1>13, BasePass
<1> QED BY <1>0, <1>1, <1>2, <1>3, <1>4, <1>7, <1>16, BaseKeeps

\* A node that is split takes base_blk.
LEMMA BaseSplitKeeps ==
  ASSUME NEW t \in Thread, SpaceInv(t), BaseSplit(t)
  PROVE  SpaceInv(t)'
<1> DEFINE g == frame[t]["bsm"]
           T == tree["bsm"]
<1>0. /\ TypeInv /\ TypeInv' /\ Fresh /\ OneHome(Home(t)) /\ FrameOK(g) /\ "bsm" \in Mgr
      /\ T.clean \cap T.dirty \subseteq {0}
  BY Begin, BaseTyped DEF Mgr, Fresh
<1>1. /\ g.pc \in {"removed", "ready", "split", "inserted"} /\ g.req = "none"
      /\ base_blk' = 0 /\ UNCHANGED <<mgr, held, user>>
      /\ TreeNow("bsm", TreeOf(T.clean, T.dirty \cup {base_blk}))
  BY <1>0, BaseSplitIs
<1>2. PICK p \in {"removed", "split"} :
        FrameNow(t, "bsm", FrameOf(p, g.op, g.start, g.cnt, g.ret, g.left, g.req, g.old))
  BY <1>0, BaseSplitIs
<1>3. PICK y : y = frame'[t]["bsm"]
  OBVIOUS
<1>4. /\ y = FrameOf(p, g.op, g.start, g.cnt, g.ret, g.left, g.req, g.old)
      /\ frame'[t]["sm"] = frame[t]["sm"]
  BY <1>0, <1>2, <1>3, FrameThen DEF Mgr
<1>5. tree'["bsm"] = TreeOf(T.clean, T.dirty \cup {base_blk}) /\ tree'["sm"] = tree["sm"]
  BY <1>1, TreeThen
<1>6. tree'["bsm"].clean = T.clean /\ tree'["bsm"].dirty = T.dirty \cup {base_blk}
  BY <1>5, Fields
<1>7. FrameOK(y) /\ Taken(y) = Taken(g) /\ y.op = g.op /\ y.req = g.req
  <2>1. Continues(g, y, p, g.req, g.old)
    BY <1>1, <1>4 DEF Continues
  <2> QED BY <1>0, <2>1, SameCall
<1>8. PICK B, C, D, E, K, L : BaseHomes(t, B, C, D, E, K, L)
  BY DEF BaseHomes
<1>9. C \cap E = {} /\ C \cap L = {} /\ E \cap L = {}
  BY <1>0, <1>8, BaseApart DEF BaseHomes
<1>10. K = {} /\ L = {} /\ D = {}
  BY <1>1, <1>3, <1>7, <1>8, DroppedAt, DroppedThen DEF BaseHomes
<1>11. B = (T.clean \cup T.dirty \cup {base_blk}) \ {0}
  BY <1>6, <1>8 DEF Nodes, BaseHomes
<1>12. C = (T.clean \cup T.dirty) \ {0}
  BY <1>8 DEF Nodes, BaseHomes
<1>13. /\ B \cup D \cup K \subseteq C \cup E \cup L
       /\ B \cap D = {} /\ D \cap K = {} /\ B \cap K = {}
  BY <1>8, <1>10, <1>11, <1>12 DEF BaseHomes
<1>16. OneHome(Home(t))'
  BY <1>0, <1>1, <1>3, <1>4, <1>5, <1>7, <1>8, <1>13, BasePass
<1>17. tree'["bsm"].clean \cap tree'["bsm"].dirty \subseteq {0}
  BY <1>0, <1>6, <1>8, <1>9, <1>12 DEF BaseHomes
<1>18. g.pc # "idle"
  BY <1>1
<1> QED BY <1>0, <1>1, <1>3, <1>4, <1>5, <1>7, <1>16, <1>17, <1>18, BaseKeeps

\* The block of an empty node of the BASE tree is given back.
LEMMA BaseShrinkKeeps ==
  ASSUME NEW t \in Thread, SpaceInv(t), BaseShrink(t)
  PROVE  SpaceInv(t)'
<1> DEFINE g == frame[t]["bsm"]
           T == tree["bsm"]
<1>0. /\ TypeInv /\ TypeInv' /\ Fresh /\ OneHome(Home(t)) /\ FrameOK(g) /\ "bsm" \in Mgr
      /\ T.clean \cap T.dirty \subseteq {0}
  BY Begin, BaseTyped DEF Mgr, Fresh
<1>1. g.pc = "removed" /\ g.req = "none" /\ UNCHANGED <<mgr, base_blk, held, user>>
  BY <1>0, BaseShrinkIs
<1>2. PICK b \in T.dirty :
        /\ TreeNow("bsm", TreeOf(T.clean, T.dirty \ {b}))
        /\ FrameNow(t, "bsm", FrameOf(g.pc, g.op, g.start, g.cnt, g.ret, g.left, "drop", b))
  BY <1>0, BaseShrinkIs
<1>3. PICK y : y = frame'[t]["bsm"]
  OBVIOUS
<1>4. /\ y = FrameOf(g.pc, g.op, g.start, g.cnt, g.ret, g.left, "drop", b)
      /\ frame'[t]["sm"] = frame[t]["sm"]
  BY <1>0, <1>2, <1>3, FrameThen DEF Mgr
<1>5. tree'["bsm"] = TreeOf(T.clean, T.dirty \ {b}) /\ tree'["sm"] = tree["sm"]
  BY <1>2, TreeThen
<1>6. tree'["bsm"].clean = T.clean /\ tree'["bsm"].dirty = T.dirty \ {b}
  BY <1>5, Fields
<1>7. FrameOK(y) /\ Taken(y) = Taken(g) /\ y.op = g.op /\ y.req = "drop" /\ y.old = b
  <2>1. Continues(g, y, g.pc, "drop", b)
    BY <1>1, <1>4 DEF Continues
  <2> QED BY <1>0, <2>1, SameCall
<1>8. PICK B, C, D, E, K, L : BaseHomes(t, B, C, D, E, K, L)
  BY DEF BaseHomes
<1>9. C \cap E = {} /\ C \cap L = {} /\ E \cap L = {}
  BY <1>0, <1>8, BaseApart DEF BaseHomes
<1>10. K = {b} \ {0} /\ L = {} /\ D = E
  BY <1>1, <1>3, <1>7, <1>8, DroppedAt, DroppedThen DEF BaseHomes
<1>11. B = (T.clean \cup (T.dirty \ {b})) \ {0}
  BY <1>6, <1>8 DEF Nodes, BaseHomes
<1>12. C = (T.clean \cup T.dirty) \ {0}
  BY <1>8 DEF Nodes, BaseHomes
<1>13. B \cup D \cup K \subseteq C \cup E \cup L
  BY <1>10, <1>11, <1>12
<1>14. B \cap D = {} /\ D \cap K = {}
  BY <1>9, <1>10, <1>11, <1>12
<1>15. B \cap K = {}
  BY <1>0, <1>10, <1>11
<1>16. OneHome(Home(t))'
  BY <1>0, <1>1, <1>3, <1>4, <1>5, <1>7, <1>8, <1>13, <1>14, <1>15, BasePass
<1>17. tree'["bsm"].clean \cap tree'["bsm"].dirty \subseteq {0}
  BY <1>0, <1>6
<1>18. g.pc # "idle"
  BY <1>1
<1> QED BY <1>0, <1>1, <1>3, <1>4, <1>5, <1>7, <1>16, <1>17, <1>18, BaseKeeps

-----------------------------------------------------------------------------
(* One thread: ofs_alloc_space and ofs_free_space.                         *)

\* The calls of a thread that is at a place of ofs_alloc_space or ofs_free_space.
Placed(u, x, y) ==
  /\ u \in {"idle", "check", "reserve", "giving"} => x = NoCall
  /\ u \in {"base_block", "reserved", "block"} => x.op = "alloc"
  /\ x.req = "none" /\ (u # "giving" => y = NoCall)

\* The nesting after such a step.
LEMMA NestedUser ==
  ASSUME NEW t, NEW u, NEW x, NEW y, u = user'[t], x = frame'[t]["sm"], y = frame'[t]["bsm"],
         Placed(u, x, y), u = "reserve" => mgr'["bsm"].total <= MinBlk
  PROVE  Nested(t)'
  BY DEF Nested, Placed

\* Such a step, where no block is passed on.
LEMMA UserKeeps ==
  ASSUME NEW t \in Thread, SpaceInv(t), TypeInv', UNCHANGED <<mgr, tree, base_blk, held>>,
         NEW u, NEW x, NEW y, u = user'[t], x = frame'[t]["sm"], y = frame'[t]["bsm"],
         Placed(u, x, y), u = "reserve" => mgr["bsm"].total <= MinBlk,
         FrameOK(x), FrameOK(y), Taken(x) = {}, Taken(y) = {}, y.req # "drop"
  PROVE  SpaceInv(t)'
<1>0. NotZero /\ Fresh /\ OneHome(Home(t))
  BY Begin
<1>1. NotZero' /\ Fresh'
  BY <1>0 DEF NotZero, Fresh, Nodes
<1>2. OneHome(Home(t))'
  BY <1>0, StayHome DEF Nodes
<1>3. Nested(t)'
  BY NestedUser
<1> QED BY <1>1, <1>2, <1>3, Assembled

\* Blocks go between the call of sm and another place.
LEMMA UserPass ==
  ASSUME NEW t, OneHome(Home(t)), UNCHANGED <<mgr, tree>>, frame'[t]["bsm"].req # "drop",
         NEW p \in {"kept", "held", "bsm_call"},
         p # "kept" => base_blk' = base_blk, p # "held" => held' = held,
         p # "bsm_call" => Taken(frame'[t]["bsm"]) = {},
         Home(t)'[p] \cup Home(t)'["sm_call"] \subseteq Home(t)[p] \cup Home(t)["sm_call"],
         Home(t)'[p] \cap Home(t)'["sm_call"] = {}
  PROVE  OneHome(Home(t))'
<1>1. /\ Home(t)'["sm"] = Home(t)["sm"] /\ Home(t)'["bsm"] = Home(t)["bsm"]
      /\ Home(t)'["space"] = Home(t)["space"] /\ Home(t)'["base"] = Home(t)["base"]
  BY HomeSame
<1>2. /\ p # "kept" => Home(t)'["kept"] = Home(t)["kept"]
      /\ p # "held" => Home(t)'["held"] = Home(t)["held"]
  BY HomeSame
<1>3. Home(t)'["dropped"] = {} /\ (p # "bsm_call" => Home(t)'["bsm_call"] = {})
  BY HomeThen
<1>4. \A q \in Spots \ {p, "sm_call"} : Home(t)'[q] \subseteq Home(t)[q]
  BY <1>1, <1>2, <1>3 DEF Spots
<1>5. p \in Spots /\ "sm_call" \in Spots
  BY DEF Spots
<1> QED BY <1>4, <1>5, Pass

\* While sm has no call, or one that has ended, bsm has none that it asked for.
LEMMA Alone ==
  ASSUME TypeInv, NEW t \in Thread, Nested(t), user[t] # "giving",
         frame[t]["sm"] = NoCall \/ frame[t]["sm"].pc = "done"
  PROVE  frame[t]["bsm"] = NoCall /\ frame[t]["sm"].req = "none"
<1>1. frame[t]["sm"].req = "none"
  BY CallFields, Requests DEF Mgr
<1> QED BY <1>1 DEF Nested

\* What the fields of a call that asks for one block, and of none, are.
LEMMA PlainCalls ==
  ASSUME NEW n
  PROVE  /\ FrameOK(NoCall) /\ Taken(NoCall) = {} /\ NoCall.req = "none" /\ NoCall.op = "none"
         /\ FrameOK(AllocCall(1)) /\ Taken(AllocCall(n)) = {} /\ AllocCall(n).req = "none"
         /\ AllocCall(n).op = "alloc" /\ (n > 0 => FrameOK(AllocCall(n)))
<1>1. FrameOK(NoCall) /\ Taken(NoCall) = {} /\ NoCall.req = "none" /\ NoCall.op = "none"
  BY CallsBegin, CallFields
<1>2. Taken(AllocCall(n)) = {} /\ AllocCall(n).req = "none" /\ AllocCall(n).op = "alloc"
  BY CallsBegin, CallFields
<1>3. FrameOK(AllocCall(1)) /\ (n > 0 => FrameOK(AllocCall(n)))
  BY CallsBegin
<1> QED BY <1>1, <1>2, <1>3

\* A block is asked for.
LEMMA AllocBlockKeeps ==
  ASSUME NEW t \in Thread, SpaceInv(t), AllocBlock(t)
  PROVE  SpaceInv(t)'
<1>0. TypeInv /\ TypeInv' /\ Nested(t) /\ "sm" \in Mgr /\ "bsm" \in Mgr
  BY Begin, UserTyped DEF Mgr
<1>1. user[t] = "idle" /\ UNCHANGED <<mgr, tree, base_blk, held>>
  BY <1>0, ReserveIs
<1>2. frame[t]["sm"] = NoCall /\ frame[t]["bsm"] = NoCall
  <2>1. frame[t]["sm"] = NoCall
    BY <1>0, <1>1 DEF Nested
  <2> QED BY <1>0, <1>1, <2>1, Alone
<1>3. PICK u, x, y : u = user'[t] /\ x = frame'[t]["sm"] /\ y = frame'[t]["bsm"]
  OBVIOUS
<1>4. CASE UserNow(t, "base_block") /\ FrameNow(t, "sm", AllocCall(1))
  <2>1. u = "base_block"
    BY <1>3, <1>4, Now, Zenon DEF Mgr
  <2>2. x = AllocCall(1) /\ y = NoCall
    BY <1>0, <1>2, <1>3, <1>4, FrameThen
  <2>3. FrameOK(x) /\ FrameOK(y) /\ Taken(x) = {} /\ Taken(y) = {} /\ y.req # "drop"
    BY <2>2, PlainCalls
  <2>4. Placed(u, x, y)
    BY <2>1, <2>2, PlainCalls DEF Placed
  <2> QED BY <1>0, <1>1, <1>3, <2>1, <2>3, <2>4, UserKeeps
<1>5. CASE UserNow(t, "check") /\ UNCHANGED frame
  <2>1. u = "check"
    BY <1>3, <1>5, Now, Zenon DEF Mgr
  <2>2. x = NoCall /\ y = NoCall
    BY <1>2, <1>3, <1>5
  <2>3. FrameOK(x) /\ FrameOK(y) /\ Taken(x) = {} /\ Taken(y) = {} /\ y.req # "drop"
    BY <2>2, PlainCalls
  <2>4. Placed(u, x, y)
    BY <2>1, <2>2, PlainCalls DEF Placed
  <2> QED BY <1>0, <1>1, <1>3, <2>1, <2>3, <2>4, UserKeeps
<1> QED BY <1>0, <1>4, <1>5, ReserveIs, Zenon

\* Where a thread is after a step.
LEMMA UserThen ==
  ASSUME NEW t \in Thread, NEW pc, UserNow(t, pc)
  PROVE  user'[t] = pc
  BY DEF UserNow

\* The block for base_blk.
LEMMA GotBaseBlockKeeps ==
  ASSUME NEW t \in Thread, SpaceInv(t), GotBaseBlock(t)
  PROVE  SpaceInv(t)'
<1> DEFINE f == frame[t]["sm"]
<1>0. /\ TypeInv /\ TypeInv' /\ Nested(t) /\ NotZero /\ Fresh /\ OneHome(Home(t)) /\ FrameOK(f)
      /\ "sm" \in Mgr /\ "bsm" \in Mgr
  BY Begin, UserTyped DEF Mgr
<1>1. /\ user[t] = "base_block" /\ UNCHANGED <<mgr, tree, held>>
      /\ f.pc = "done" /\ f.ret = "ok" /\ base_blk' = f.start
      /\ UserNow(t, "check") /\ FrameNow(t, "sm", NoCall)
  BY <1>0, ReserveIs
<1>2. f.op = "alloc" /\ frame[t]["bsm"] = NoCall
  BY <1>0, <1>1, Alone DEF Nested
<1>3. PICK u, x, y : u = user'[t] /\ x = frame'[t]["sm"] /\ y = frame'[t]["bsm"]
  OBVIOUS
<1>4. u = "check" /\ x = NoCall /\ y = NoCall
  BY <1>0, <1>1, <1>2, <1>3, FrameThen, UserThen
<1>5. FrameOK(x) /\ FrameOK(y) /\ Taken(x) = {} /\ Taken(y) = {} /\ y.req # "drop"
  BY <1>4, PlainCalls
<1>6. Placed(u, x, y)
  BY <1>4, PlainCalls DEF Placed
<1>7. Nested(t)'
  BY <1>3, <1>4, <1>6, NestedUser
<1>8. f.start \in Taken(f)
  BY <1>0, <1>1, <1>2, Answer
<1>9. OneHome(Home(t))'
  <2>1. Home(t)'["kept"] = {f.start} \ {0} /\ Home(t)'["sm_call"] = {} /\ Home(t)["sm_call"] = Taken(f)
    BY <1>1, <1>3, <1>5, HomeAt, HomeThen
  <2> QED BY <1>0, <1>1, <1>3, <1>5, <1>8, <2>1, UserPass
<1>10. NotZero' /\ Fresh'
  BY <1>0, <1>1 DEF NotZero, Fresh, Nodes
<1> QED BY <1>0, <1>1, <1>3, <1>5, <1>7, <1>9, <1>10, Assembled

\* The condition of the loop of reserve_base_space.
LEMMA CheckReserveKeeps ==
  ASSUME NEW t \in Thread, SpaceInv(t), CheckReserve(t)
  PROVE  SpaceInv(t)'
<1>0. TypeInv /\ TypeInv' /\ Nested(t) /\ "sm" \in Mgr /\ "bsm" \in Mgr
  BY Begin, UserTyped DEF Mgr
<1>1. user[t] = "check" /\ UNCHANGED <<mgr, tree, base_blk, held>>
  BY <1>0, ReserveIs
<1>2. frame[t]["sm"] = NoCall /\ frame[t]["bsm"] = NoCall
  <2>1. frame[t]["sm"] = NoCall
    BY <1>0, <1>1 DEF Nested
  <2> QED BY <1>0, <1>1, <2>1, Alone
<1>3. PICK u, x, y : u = user'[t] /\ x = frame'[t]["sm"] /\ y = frame'[t]["bsm"]
  OBVIOUS
<1>4. CASE UserNow(t, "block") /\ FrameNow(t, "sm", AllocCall(1))
  <2>1. u = "block" /\ x = AllocCall(1) /\ y = NoCall
    BY <1>0, <1>2, <1>3, <1>4, FrameThen, UserThen
  <2>3. FrameOK(x) /\ FrameOK(y) /\ Taken(x) = {} /\ Taken(y) = {} /\ y.req # "drop"
    BY <2>1, PlainCalls
  <2>4. Placed(u, x, y)
    BY <2>1, PlainCalls DEF Placed
  <2> QED BY <1>0, <1>1, <1>3, <2>1, <2>3, <2>4, UserKeeps
<1>5. CASE UserNow(t, "reserve") /\ mgr["bsm"].total <= MinBlk /\ UNCHANGED frame
  <2>1. u = "reserve" /\ x = NoCall /\ y = NoCall
    BY <1>2, <1>3, <1>5, UserThen
  <2>3. FrameOK(x) /\ FrameOK(y) /\ Taken(x) = {} /\ Taken(y) = {} /\ y.req # "drop"
    BY <2>1, PlainCalls
  <2>4. Placed(u, x, y)
    BY <2>1, PlainCalls DEF Placed
  <2> QED BY <1>0, <1>1, <1>3, <1>5, <2>3, <2>4, UserKeeps
<1> QED BY <1>0, <1>4, <1>5, ReserveIs, Zenon

\* The blocks for bsm are asked for: there is room for some, as nobody has given bsm
\* any since the condition was read.
LEMMA ReserveKeeps ==
  ASSUME NEW t \in Thread, SpaceInv(t), Reserve(t)
  PROVE  SpaceInv(t)'
<1> DEFINE total == mgr["bsm"].total
           n == IF total <= MaxBlk THEN MaxBlk - total ELSE EndBlk
<1>0. TypeInv /\ TypeInv' /\ Nested(t) /\ "sm" \in Mgr /\ "bsm" \in Mgr
  BY Begin, UserTyped DEF Mgr
<1>1. /\ user[t] = "reserve" /\ UNCHANGED <<mgr, tree, base_blk, held>> /\ UserNow(t, "reserved")
      /\ FrameNow(t, "sm", AllocCall(n))
  BY <1>0, ReserveIs
<1>2. frame[t]["bsm"] = NoCall /\ total <= MinBlk
  <2>1. frame[t]["sm"] = NoCall /\ total <= MinBlk
    BY <1>0, <1>1 DEF Nested
  <2> QED BY <1>0, <1>1, <2>1, Alone
<1>3. PICK u, x, y, k : u = user'[t] /\ x = frame'[t]["sm"] /\ y = frame'[t]["bsm"] /\ k = n
  OBVIOUS
<1>4. k > 0
  <2>1. total \in Nat
    BY <1>0, ManagerFacts
  <2> QED BY <1>2, <1>3, <2>1, SpaceManagerAssumption
<1>5. u = "reserved" /\ x = AllocCall(k) /\ y = NoCall
  BY <1>0, <1>1, <1>2, <1>3, FrameThen, UserThen
<1>6. FrameOK(x) /\ FrameOK(y) /\ Taken(x) = {} /\ Taken(y) = {} /\ y.req # "drop"
  BY <1>4, <1>5, PlainCalls
<1>7. Placed(u, x, y)
  BY <1>5, PlainCalls DEF Placed
<1> QED BY <1>0, <1>1, <1>3, <1>5, <1>6, <1>7, UserKeeps

\* They are given to bsm.
LEMMA GiveToBaseKeeps ==
  ASSUME NEW t \in Thread, SpaceInv(t), GiveToBase(t)
  PROVE  SpaceInv(t)'
<1> DEFINE f == frame[t]["sm"]
<1>0. /\ TypeInv /\ TypeInv' /\ Nested(t) /\ NotZero /\ Fresh /\ OneHome(Home(t)) /\ FrameOK(f)
      /\ "sm" \in Mgr /\ "bsm" \in Mgr
  BY Begin, UserTyped DEF Mgr
<1>1. /\ user[t] = "reserved" /\ UNCHANGED <<mgr, tree, base_blk, held>>
      /\ f.pc = "done" /\ f.ret = "ok" /\ UserNow(t, "giving")
      /\ BothNow(t, NoCall, FreeCall(f.start, f.cnt))
  BY <1>0, GiveIs
<1>2. f.op = "alloc" /\ frame[t]["bsm"] = NoCall
  BY <1>0, <1>1, Alone DEF Nested
<1>3. PICK u, x, y, s, n :
        /\ u = user'[t] /\ x = frame'[t]["sm"] /\ y = frame'[t]["bsm"] /\ s = f.start /\ n = f.cnt
  OBVIOUS
<1>4. u = "giving" /\ x = NoCall /\ y = FreeCall(s, n)
  BY <1>1, <1>3, BothThen, UserThen
<1>5. s > 0 /\ n > 0 /\ Run(s, n) \subseteq Taken(f)
  BY <1>0, <1>1, <1>2, <1>3, Answer
<1>6. FrameOK(x) /\ Taken(x) = {} /\ Placed(u, x, y)
  BY <1>4, PlainCalls DEF Placed
<1>7. FrameOK(y) /\ Taken(y) = Run(s, n) /\ y.req # "drop"
  BY <1>4, <1>5, CallsBegin, CallFields
<1>8. Nested(t)'
  BY <1>3, <1>4, <1>6, NestedUser
<1>9. OneHome(Home(t))'
  <2>1. /\ Home(t)'["bsm_call"] = Run(s, n) /\ Home(t)'["sm_call"] = {}
        /\ Home(t)["sm_call"] = Taken(f)
    BY <1>3, <1>6, <1>7, HomeAt, HomeThen
  <2> QED BY <1>0, <1>1, <1>3, <1>5, <1>7, <2>1, UserPass
<1>10. NotZero' /\ Fresh'
  BY <1>0, <1>1 DEF NotZero, Fresh, Nodes
<1> QED BY <1>0, <1>1, <1>3, <1>6, <1>7, <1>8, <1>9, <1>10, Assembled

\* The caller gets its block.
LEMMA GotBlockKeeps ==
  ASSUME NEW t \in Thread, SpaceInv(t), GotBlock(t)
  PROVE  SpaceInv(t)'
<1> DEFINE f == frame[t]["sm"]
<1>0. /\ TypeInv /\ TypeInv' /\ Nested(t) /\ NotZero /\ Fresh /\ OneHome(Home(t)) /\ FrameOK(f)
      /\ "sm" \in Mgr /\ "bsm" \in Mgr
  BY Begin, UserTyped DEF Mgr
<1>1. /\ user[t] = "block" /\ UNCHANGED <<mgr, tree, base_blk>>
      /\ f.pc = "done" /\ f.ret = "ok" /\ held' = held \cup {f.start}
      /\ UserNow(t, "idle") /\ FrameNow(t, "sm", NoCall)
  BY <1>0, BlockIs
<1>2. f.op = "alloc" /\ frame[t]["bsm"] = NoCall
  BY <1>0, <1>1, Alone DEF Nested
<1>3. PICK u, x, y : u = user'[t] /\ x = frame'[t]["sm"] /\ y = frame'[t]["bsm"]
  OBVIOUS
<1>4. u = "idle" /\ x = NoCall /\ y = NoCall
  BY <1>0, <1>1, <1>2, <1>3, FrameThen, UserThen
<1>5. FrameOK(x) /\ FrameOK(y) /\ Taken(x) = {} /\ Taken(y) = {} /\ y.req # "drop"
  BY <1>4, PlainCalls
<1>6. Placed(u, x, y)
  BY <1>4, PlainCalls DEF Placed
<1>7. Nested(t)'
  BY <1>3, <1>4, <1>6, NestedUser
<1>8. f.start \in Taken(f) /\ f.start > 0
  BY <1>0, <1>1, <1>2, Answer
<1>9. OneHome(Home(t))'
  <2>1. /\ Home(t)'["held"] = held \cup {f.start} /\ Home(t)'["sm_call"] = {}
        /\ Home(t)["held"] = held /\ Home(t)["sm_call"] = Taken(f)
    BY <1>1, <1>3, <1>5, HomeAt, HomeThen
  <2> QED BY <1>0, <1>1, <1>3, <1>5, <1>8, <2>1, UserPass
<1>10. NotZero' /\ Fresh'
  BY <1>0, <1>1, <1>8 DEF NotZero, Fresh, Nodes
<1> QED BY <1>0, <1>1, <1>3, <1>5, <1>7, <1>9, <1>10, Assembled

\* An object gives a block back.
LEMMA FreeBlockKeeps ==
  ASSUME NEW t \in Thread, SpaceInv(t), FreeBlock(t)
  PROVE  SpaceInv(t)'
<1>0. /\ TypeInv /\ TypeInv' /\ Nested(t) /\ NotZero /\ Fresh /\ OneHome(Home(t))
      /\ "sm" \in Mgr /\ "bsm" \in Mgr
  BY Begin, UserTyped DEF Mgr
<1>1. user[t] = "idle" /\ UNCHANGED <<mgr, tree, base_blk>> /\ UserNow(t, "free")
  BY <1>0, BlockIs
<1>2. PICK b \in held : held' = held \ {b} /\ FrameNow(t, "sm", FreeCall(b, 1))
  BY <1>0, BlockIs
<1>3. frame[t]["sm"] = NoCall /\ frame[t]["bsm"] = NoCall
  <2>1. frame[t]["sm"] = NoCall
    BY <1>0, <1>1 DEF Nested
  <2> QED BY <1>0, <1>1, <2>1, Alone
<1>4. PICK u, x, y : u = user'[t] /\ x = frame'[t]["sm"] /\ y = frame'[t]["bsm"]
  OBVIOUS
<1>5. u = "free" /\ x = FreeCall(b, 1) /\ y = NoCall
  BY <1>0, <1>1, <1>2, <1>3, <1>4, FrameThen, UserThen
<1>6. b \in Nat /\ b > 0
  <2>1. held \subseteq Device
    BY <1>0 DEF TypeInv, RestOK
  <2>2. b # 0
    BY <1>0 DEF NotZero
  <2> QED BY <2>1, <2>2 DEF Device
<1>7. FrameOK(x) /\ Taken(x) = {b} /\ x.req = "none"
  BY <1>5, <1>6, CallsBegin, CallFields, RunOf
<1>8. FrameOK(y) /\ Taken(y) = {} /\ y.req # "drop" /\ Placed(u, x, y)
  BY <1>5, <1>7, PlainCalls DEF Placed
<1>9. Nested(t)'
  BY <1>4, <1>5, <1>8, NestedUser
<1>10. OneHome(Home(t))'
  <2>1. /\ Home(t)'["held"] = held \ {b} /\ Home(t)'["sm_call"] = {b} /\ Home(t)["held"] = held
    BY <1>2, <1>4, <1>7, HomeAt, HomeThen
  <2> QED BY <1>0, <1>1, <1>2, <1>4, <1>8, <2>1, UserPass
<1>11. NotZero' /\ Fresh'
  BY <1>0, <1>1, <1>2 DEF NotZero, Fresh, Nodes
<1> QED BY <1>0, <1>1, <1>4, <1>7, <1>8, <1>9, <1>10, <1>11, Assembled

\* A call has ended and nothing is kept of it.
LEMMA EndKeeps ==
  ASSUME NEW t \in Thread, SpaceInv(t), GivenToBase(t) \/ FreedBlock(t) \/ Fails(t)
  PROVE  SpaceInv(t)'
<1>0. TypeInv /\ TypeInv' /\ Nested(t) /\ "sm" \in Mgr /\ "bsm" \in Mgr
  BY Begin, UserTyped DEF Mgr
<1>1. PICK u, x, y : u = user'[t] /\ x = frame'[t]["sm"] /\ y = frame'[t]["bsm"]
  OBVIOUS
<1>2. UNCHANGED <<mgr, tree, base_blk, held>>
  BY <1>0, BlockIs
<1>3. u \in {"check", "idle"} /\ x = NoCall /\ y = NoCall
  <2>1. CASE GivenToBase(t)
    <3>1. user[t] = "giving" /\ UserNow(t, "check") /\ FrameNow(t, "bsm", NoCall)
      BY <1>0, <2>1, BlockIs
    <3>2. frame[t]["sm"] = NoCall
      BY <1>0, <3>1 DEF Nested
    <3> QED BY <1>0, <1>1, <3>1, <3>2, FrameThen, UserThen
  <2>2. CASE FreedBlock(t)
    <3>1. /\ user[t] = "free" /\ frame[t]["sm"].pc = "done"
          /\ UserNow(t, "idle") /\ FrameNow(t, "sm", NoCall)
      BY <1>0, <2>2, BlockIs
    <3>2. frame[t]["bsm"] = NoCall
      BY <1>0, <3>1, Alone
    <3> QED BY <1>0, <1>1, <3>1, <3>2, FrameThen, UserThen
  <2>3. CASE Fails(t)
    <3>1. UserNow(t, "idle") /\ BothNow(t, NoCall, NoCall)
      BY <1>0, <2>3, BlockIs
    <3> QED BY <1>1, <3>1, BothThen, UserThen
  <2> QED BY <2>1, <2>2, <2>3
<1>4. FrameOK(x) /\ FrameOK(y) /\ Taken(x) = {} /\ Taken(y) = {} /\ y.req # "drop"
  BY <1>3, PlainCalls
<1>5. Placed(u, x, y)
  BY <1>3, PlainCalls DEF Placed
<1>6. u # "reserve"
  BY <1>3
<1> QED BY <1>0, <1>1, <1>2, <1>4, <1>5, <1>6, UserKeeps

\* Close and reopen: the nodes of the trees are where they were.
LEMMA ReopenKeeps ==
  ASSUME NEW t \in Thread, SpaceInv(t), Reopen
  PROVE  SpaceInv(t)'
<1>0. TypeInv /\ TypeInv' /\ Nested(t) /\ NotZero /\ Fresh /\ OneHome(Home(t))
      /\ FrameOK(frame[t]["sm"]) /\ FrameOK(frame[t]["bsm"])
  BY Begin, ReopenTyped
<1>1. UNCHANGED <<mgr, base_blk, held, user, frame>> /\ user[t] = "idle"
  BY Zenon DEF Reopen
<1>2. tree' = [m \in Mgr |-> TreeOf(tree[m].clean \cup tree[m].dirty, {})]
  BY Zenon DEF Reopen, TreeOf
<1>3. \A m \in Mgr : tree'[m].clean = tree[m].clean \cup tree[m].dirty /\ tree'[m].dirty = {}
  <2> SUFFICES ASSUME NEW m \in Mgr
               PROVE  tree'[m].clean = tree[m].clean \cup tree[m].dirty /\ tree'[m].dirty = {}
    OBVIOUS
  <2>1. PICK c : c = tree[m].clean \cup tree[m].dirty
    OBVIOUS
  <2>2. tree'[m] = TreeOf(c, {})
    BY <1>2, <2>1
  <2> QED BY <2>1, <2>2 DEF TreeOf
<1>4. Nodes("sm")' = Nodes("sm") /\ Nodes("bsm")' = Nodes("bsm")
  BY <1>3 DEF Nodes, Mgr
<1>5. NotZero' /\ Fresh'
  BY <1>0, <1>1, <1>3, <1>4 DEF NotZero, Fresh
<1>6. Nested(t)'
  <2>1. frame[t]["sm"] = NoCall
    BY <1>0, <1>1 DEF Nested
  <2>2. frame[t]["sm"].req = "none"
    BY <2>1, CallFields
  <2> QED BY <1>0, <1>1, <2>1, <2>2 DEF Nested
<1>7. OneHome(Home(t))'
  BY <1>0, <1>1, <1>4, StayHome
<1> QED BY <1>0, <1>1, <1>5, <1>6, <1>7, Assembled

\* The invariant at the start.
LEMMA SpaceInit ==
  ASSUME NEW t \in Thread, Init
  PROVE  SpaceInv(t)
<1>0. TypeInv
  BY TypeInit
<1>1. PICK e : e = [addr |-> 3, len |-> EndBlk - 3]
  OBVIOUS
<1>2. e \in Extent /\ e.addr = 3 /\ e.len > 0
  BY <1>1, SpaceManagerAssumption DEF Extent
<1>3. mgr["sm"].ext = {e} /\ mgr["bsm"].ext = {}
  BY <1>1 DEF Init
<1>4. Nodes("sm") = {2} /\ Nodes("bsm") = {1}
  BY DEF Init, Nodes
<1>5. frame[t]["sm"] = NoCall /\ frame[t]["bsm"] = NoCall /\ base_blk = 0 /\ held = {} /\ user[t] = "idle"
  BY DEF Init, Mgr
<1>6. Real({e}) /\ Covered({e}) = Blocks(e)
  BY <1>2 DEF Real, Index, Disjoint, Covered
<1>7. Blocks(e) \cap {0, 1, 2} = {}
  BY <1>2 DEF Blocks, Run
<1>8. Pools
  BY <1>3, <1>6, RealNothing DEF Pools, Mgr
<1>9. Calls(t)
  BY <1>5, PlainCalls DEF Calls, Mgr
<1>10. NotZero /\ Fresh
  <2>1. NotZero
    BY <1>4, <1>5 DEF NotZero
  <2>2. tree["sm"].clean = {} /\ tree["bsm"].clean = {}
    BY DEF Init
  <2> QED BY <2>1, <2>2 DEF Fresh, Mgr
<1>11. Nested(t)
  BY <1>5, CallFields DEF Nested
<1>12. OneHome(Home(t))
  <2>1. /\ Home(t)["sm"] = Blocks(e) /\ Home(t)["bsm"] = {} /\ Home(t)["space"] = {2}
        /\ Home(t)["base"] = {1} /\ Home(t)["kept"] = {} /\ Home(t)["held"] = {}
        /\ Home(t)["sm_call"] = {} /\ Home(t)["bsm_call"] = {} /\ Home(t)["dropped"] = {}
    <3>1. Home(t)["sm"] = Blocks(e) /\ Home(t)["bsm"] = {}
      BY <1>3, <1>6, HomeAt, RealNothing
    <3>2. Home(t)["space"] = {2} /\ Home(t)["base"] = {1}
      <4>1. Home(t)["space"] = Nodes("sm") /\ Home(t)["base"] = Nodes("bsm") \ {0}
        BY HomeAt
      <4> QED BY <1>4, <4>1
    <3>3. Home(t)["kept"] = {} /\ Home(t)["held"] = {}
      BY <1>5, HomeAt
    <3>4. Home(t)["sm_call"] = {} /\ Home(t)["bsm_call"] = {}
      BY <1>5, HomeAt, PlainCalls
    <3>5. Home(t)["dropped"] = {}
      BY <1>5, PlainCalls, DroppedAt
    <3> QED BY <3>1, <3>2, <3>3, <3>4, <3>5
  <2>2. \A p \in Spots \ {"sm", "space", "base"} : Home(t)[p] = {}
    BY <2>1 DEF Spots
  <2> SUFFICES ASSUME NEW p \in Spots, NEW q \in Spots, p # q
               PROVE  Home(t)[p] \cap Home(t)[q] = {}
    BY DEF OneHome
  <2>3. CASE p \notin {"sm", "space", "base"} \/ q \notin {"sm", "space", "base"}
    BY <2>2, <2>3
  <2>4. CASE p \in {"sm", "space", "base"} /\ q \in {"sm", "space", "base"}
    BY <1>7, <2>1, <2>4
  <2> QED BY <2>3, <2>4
<1> QED BY <1>0, <1>8, <1>9, <1>10, <1>11, <1>12 DEF SpaceInv

\* A step of the only thread.
LEMMA SpaceStep ==
  ASSUME NEW t, Thread = {t}, SpaceInv(t), [Next]_vars
  PROVE  SpaceInv(t)'
<1>0. t \in Thread
  OBVIOUS
<1>1. CASE Reopen
  BY <1>0, <1>1, ReopenKeeps
<1>2. CASE AllocBlock(t) \/ FreeBlock(t) \/ InUser(t)
  BY <1>0, <1>2, AllocBlockKeeps, FreeBlockKeeps, GotBaseBlockKeeps, CheckReserveKeeps,
     ReserveKeeps, GiveToBaseKeeps, GotBlockKeeps, EndKeeps, Zenon DEF InUser
<1>3. CASE InTree(t)
  BY <1>0, <1>3, MoveKeeps, MovedKeeps, DroppedKeeps, SplitKeeps, HasSplitKeeps, ShrinkKeeps,
     GiveUpKeeps, BaseMoveKeeps, BaseDroppedKeeps, BaseSplitKeeps, BaseShrinkKeeps, Zenon
     DEF InTree
<1>4. CASE \E m \in Mgr : InManager(t, m)
  BY <1>0, <1>4, EnterAllocKeeps, EnterFreeKeeps, InsertKeeps, LeaveKeeps, Zenon DEF InManager
<1>5. CASE UNCHANGED vars
  <2>1. UNCHANGED <<mgr, tree, base_blk, held, user, frame>>
    BY <1>5 DEF vars
  <2>2. TypeInv'
    BY <1>5, TypeStep DEF SpaceInv
  <2>3. Pools' /\ Calls(t)'
    BY <2>1 DEF SpaceInv, Pools, Calls
  <2>4. NotZero' /\ Fresh' /\ Nested(t)'
    BY <2>1 DEF SpaceInv, NotZero, Fresh, Nested, Nodes
  <2>5. OneHome(Home(t))'
    BY <2>1, Begin, StayHome DEF Nodes
  <2> QED BY <2>2, <2>3, <2>4, <2>5 DEF SpaceInv
<1>6. CASE \E u \in Thread : AllocBlock(u) \/ FreeBlock(u) \/ Continue(u)
  <2>1. AllocBlock(t) \/ FreeBlock(t) \/ Continue(t)
    BY <1>6
  <2> QED BY <1>2, <1>3, <1>4, <2>1 DEF Continue
<1> QED BY <1>1, <1>5, <1>6 DEF Next

\* No call has block 0.
LEMMA TakenNotZero ==
  ASSUME TypeInv, NEW t \in Thread, NEW m \in Mgr, NEW f, f = frame[t][m], FrameOK(f)
  PROVE  0 \notin Taken(f)
<1>1. f.start \in Nat /\ f.cnt \in Nat
  BY FrameFacts DEF InRange, Device
<1>2. 0 \notin Covered(f.left)
  BY RealZero DEF FrameOK
<1>3. f.start > 0 => 0 \notin Run(f.start, f.cnt)
  BY <1>1, RunOf
<1>4. \/ f.op = "alloc" /\ f.pc # "enter" /\ f.ret = "ok"
      \/ f.op = "free" /\ f.pc = "enter"
      => f.start > 0
  BY DEF FrameOK
<1> QED BY <1>2, <1>3, <1>4 DEF Taken

\* The blocks that a call carries.
LEMMA CarriedIs ==
  ASSUME NEW t
  PROVE  /\ Carried(t, "sm") = Home(t)["sm_call"]
         /\ Carried(t, "bsm") \subseteq Home(t)["bsm_call"] \cup Home(t)["dropped"] \cup {0}
<1>1. Carried(t, "sm") = Taken(frame[t]["sm"])
  BY DEF Carried, Taken
<1>2. Carried(t, "bsm") = Taken(frame[t]["bsm"])
                            \cup (IF frame[t]["bsm"].req = "drop" THEN {frame[t]["bsm"].old} ELSE {})
  BY DEF Carried, Taken
<1>3. /\ Home(t)["sm_call"] = Taken(frame[t]["sm"]) /\ Home(t)["bsm_call"] = Taken(frame[t]["bsm"])
      /\ Home(t)["dropped"] = IF frame[t]["bsm"].req = "drop" THEN {frame[t]["bsm"].old} \ {0} ELSE {}
  BY HomeAt
<1>4. Carried(t, "bsm") \subseteq Home(t)["bsm_call"] \cup Home(t)["dropped"] \cup {0}
  <2>1. CASE frame[t]["bsm"].req = "drop"
    BY <1>2, <1>3, <2>1
  <2>2. CASE frame[t]["bsm"].req # "drop"
    BY <1>2, <1>3, <2>2
  <2> QED BY <2>1, <2>2
<1> QED BY <1>1, <1>3, <1>4

\* With one home for every block, and none for block 0, no block is in two places.
LEMMA NoTwoPlaces ==
  ASSUME NEW t, Thread = {t}, SpaceInv(t)
  PROVE  NoBlockTwice
<1>0. TypeInv /\ OneHome(Home(t)) /\ FrameOK(frame[t]["sm"]) /\ t \in Thread /\ "sm" \in Mgr
  BY Begin DEF Mgr
<1>1. PICK S, H, X, Y : /\ S = [i \in 2 .. Len(Places) |-> Places[i] \ {0}] /\ H = Home(t)
                        /\ X = Carried(t, "sm") /\ Y = Carried(t, "bsm")
  OBVIOUS
<1>2. DOMAIN S = 2 .. 7
  BY <1>1 DEF Places
<1>3. /\ S[2] = Places[2] \ {0} /\ S[3] = Places[3] \ {0} /\ S[4] = Places[4] \ {0}
      /\ S[5] = Places[5] \ {0} /\ S[6] = Places[6] \ {0} /\ S[7] = Places[7] \ {0}
  BY <1>1, <1>2
<1>4. /\ Places[2] = Covered(mgr.sm.ext) /\ Places[3] = Covered(mgr.bsm.ext)
      /\ Places[4] = Nodes("sm") /\ Places[5] = Nodes("bsm")
      /\ Places[6] = {base_blk} \ {0} /\ Places[7] = held
  BY DEF Places
<1>5. PICK spot : spot = [i \in 2 .. 7 |-> CASE i = 2 -> "sm" [] i = 3 -> "bsm" [] i = 4 -> "space"
                                               [] i = 5 -> "base" [] i = 6 -> "kept" [] i = 7 -> "held"]
  OBVIOUS
<1>6. /\ spot[2] = "sm" /\ spot[3] = "bsm" /\ spot[4] = "space"
      /\ spot[5] = "base" /\ spot[6] = "kept" /\ spot[7] = "held"
  BY <1>5
<1>7. \A i \in 2 .. 7 : /\ spot[i] \in Spots \ {"sm_call", "bsm_call", "dropped"}
                        /\ S[i] \subseteq H[spot[i]] /\ 0 \notin S[i]
  <2>1. /\ S[2] \subseteq H["sm"] /\ S[3] \subseteq H["bsm"] /\ S[4] \subseteq H["space"]
        /\ S[5] \subseteq H["base"] /\ S[6] \subseteq H["kept"] /\ S[7] \subseteq H["held"]
    BY <1>1, <1>3, <1>4, HomeAt
  <2>2. 0 \notin S[2] /\ 0 \notin S[3] /\ 0 \notin S[4] /\ 0 \notin S[5] /\ 0 \notin S[6] /\ 0 \notin S[7]
    BY <1>3
  <2> QED BY <1>6, <2>1, <2>2 DEF Spots
<1>8. \A i, j \in 2 .. 7 : i # j => spot[i] # spot[j]
  BY <1>6
<1>9. \A p, q \in Spots : p # q => H[p] \cap H[q] = {}
  BY <1>0, <1>1 DEF OneHome
<1>10. X = H["sm_call"] /\ Y \subseteq H["bsm_call"] \cup H["dropped"] \cup {0} /\ 0 \notin X
  <2>1. X = H["sm_call"] /\ Y \subseteq H["bsm_call"] \cup H["dropped"] \cup {0}
    BY <1>1, CarriedIs
  <2>2. PICK f : f = frame[t]["sm"]
    OBVIOUS
  <2>3. 0 \notin Taken(f)
    BY <1>0, <2>2, TakenNotZero
  <2>4. H["sm_call"] = Taken(f)
    BY <1>1, <2>2, HomeAt
  <2> QED BY <2>1, <2>3, <2>4
<1>11. "sm_call" \in Spots /\ "bsm_call" \in Spots /\ "dropped" \in Spots
  BY DEF Spots
<1>12. \A i, j \in 2 .. 7 : i # j => S[i] \cap S[j] = {}
  BY <1>7, <1>8, <1>9
<1>13. \A i \in 2 .. 7 : S[i] \cap X = {} /\ S[i] \cap Y = {}
  BY <1>7, <1>9, <1>10, <1>11
<1>14. X \cap Y = {}
  BY <1>9, <1>10, <1>11
<1>15. \A u \in Thread, m \in Mgr : Carried(u, m) = IF m = "sm" THEN X ELSE Y
  BY <1>1 DEF Mgr
<1>16. \A u, v \in Thread, m, n \in Mgr :
         <<u, m>> # <<v, n>> => Carried(u, m) \cap Carried(v, n) = {}
  BY <1>14, <1>15 DEF Mgr
<1>17. Apart(S)
  BY <1>2, <1>12, <1>13, <1>15, <1>16 DEF Apart
<1> QED BY <1>1, <1>17 DEF NoBlockTwice

\* The inductive invariant holds, whatever the one thread does.
THEOREM Invariance ==
  ASSUME NEW t, Thread = {t}
  PROVE  Spec => []SpaceInv(t)
<1>1. Init => SpaceInv(t)
  BY SpaceInit
<1>2. SpaceInv(t) /\ [Next]_vars => SpaceInv(t)'
  BY SpaceStep
<1> QED BY <1>1, <1>2, PTL DEF Spec

(***************************************************************************)
(* With one thread no block that can be allocated has two owners, in any   *)
(* nesting of the three sources of blocks and after every failure: not in  *)
(* the index of free blocks of a manager and in a tree, not in base_blk    *)
(* and in an object, not in a call and in the place it left.               *)
(***************************************************************************)
THEOREM OneOwner ==
  ASSUME NEW t, Thread = {t}
  PROVE  Spec => []NoBlockTwice
<1>1. SpaceInv(t) => NoBlockTwice
  BY NoTwoPlaces
<1> QED BY <1>1, Invariance, PTL

-----------------------------------------------------------------------------
(* The counters, for any number of threads.  Here an extent may be empty,  *)
(* for two threads may ask for 0 blocks.                                   *)

\* The number of blocks in an index.
Number(E) == Cardinality(Covered(E))

\* Blocks of the device can be counted.
LEMMA Countable ==
  ASSUME NEW E, E \subseteq DeviceExtents
  PROVE  IsFiniteSet(Covered(E)) /\ Number(E) \in Nat
<1>1. Covered(E) \subseteq Device
  <2>1. \A e \in DeviceExtents : Blocks(e) \subseteq Device
    BY SpaceManagerAssumption DEF DeviceExtents, Extent, Blocks, Run, Device
  <2> QED BY <2>1 DEF Covered
<1>2. IsFiniteSet(Device)
  BY FS_Interval, SpaceManagerAssumption DEF Device
<1>3. IsFiniteSet(Covered(E))
  BY <1>1, <1>2, FS_Subset
<1> QED BY <1>3, FS_CardinalityType DEF Number

\* Two indexes that share no block have the blocks of both.
LEMMA NumberApart ==
  ASSUME NEW E, NEW F, E \subseteq DeviceExtents, F \subseteq DeviceExtents,
         Covered(E) \cap Covered(F) = {}
  PROVE  /\ Covered(E \cup F) = Covered(E) \cup Covered(F)
         /\ Number(E \cup F) = Number(E) + Number(F)
<1>1. Covered(E \cup F) = Covered(E) \cup Covered(F)
  BY DEF Covered
<1>2. IsFiniteSet(Covered(E)) /\ IsFiniteSet(Covered(F)) /\ Number(E) \in Nat /\ Number(F) \in Nat
  BY Countable
<1>3. Cardinality(Covered(E) \cup Covered(F))
        = Cardinality(Covered(E)) + Cardinality(Covered(F)) - Cardinality({})
  BY <1>2, FS_Union
<1>4. Cardinality({}) = 0
  BY FS_EmptySet
<1>5. Number(E \cup F) = Number(E) + Number(F) - 0
  BY ONLY <1>1, <1>3, <1>4, Zenon DEF Number
<1>6. \A x, y \in Nat : x + y - 0 = x + y
  OBVIOUS
<1> QED BY <1>1, <1>2, <1>5, <1>6, Zenon

\* An extent has as many blocks as it is long; nothing has none.
LEMMA NumberOf ==
  ASSUME NEW e \in DeviceExtents
  PROVE  Covered({e}) = Blocks(e) /\ Number({e}) = e.len /\ Covered({}) = {} /\ Number({}) = 0
<1>1. Covered({e}) = Blocks(e) /\ Covered({}) = {}
  BY DEF Covered
<1>2. e.addr \in Int /\ e.len \in Nat
  BY DEF DeviceExtents, Extent
<1>3. Cardinality(e.addr .. (e.addr + e.len - 1)) = e.len
  <2>1. PICK b : b = e.addr + e.len - 1
    OBVIOUS
  <2>2. b \in Int /\ (IF e.addr > b THEN 0 ELSE b - e.addr + 1) = e.len
    BY <1>2, <2>1
  <2> QED BY <1>2, <2>1, <2>2, FS_Interval
<1>4. Cardinality({}) = 0
  BY FS_EmptySet
<1> QED BY <1>1, <1>3, <1>4 DEF Number, Blocks, Run

\* An extent is put into an index that has none of its blocks.
LEMMA PutIn ==
  ASSUME NEW E, E \subseteq DeviceExtents, Disjoint(E), NEW e \in DeviceExtents,
         Covered(E) \cap Blocks(e) = {}
  PROVE  /\ Disjoint(E \cup {e}) /\ Covered(E \cup {e}) = Covered(E) \cup Blocks(e)
         /\ Number(E \cup {e}) = Number(E) + e.len
<1>1. Covered({e}) = Blocks(e) /\ Number({e}) = e.len
  BY NumberOf
<1>2. Covered(E \cup {e}) = Covered(E) \cup Blocks(e) /\ Number(E \cup {e}) = Number(E) + e.len
  BY <1>1, NumberApart
<1>3. \A f \in E : Blocks(f) \subseteq Covered(E)
  BY DEF Covered
<1>4. Disjoint(E \cup {e})
  BY <1>3 DEF Disjoint
<1> QED BY <1>2, <1>4

\* An extent is taken out of an index.
LEMMA TakeOut ==
  ASSUME NEW E, E \subseteq DeviceExtents, Disjoint(E), NEW e \in E
  PROVE  /\ Disjoint(E \ {e}) /\ Covered(E \ {e}) \cap Blocks(e) = {}
         /\ Covered(E) = Covered(E \ {e}) \cup Blocks(e)
         /\ Number(E) = Number(E \ {e}) + e.len
<1>1. Disjoint(E \ {e})
  BY DEF Disjoint
<1>2. Covered(E \ {e}) \cap Blocks(e) = {}
  BY DEF Disjoint, Covered
<1>3. (E \ {e}) \cup {e} = E /\ E \ {e} \subseteq DeviceExtents /\ e \in DeviceExtents
  OBVIOUS
<1> QED BY <1>1, <1>2, <1>3, PutIn

\* What is carved out of an extent and what is left of it are all its blocks, however
\* long it is and whatever is asked for.
LEMMA CarvedNumber ==
  ASSUME NEW e \in DeviceExtents, NEW a \in Nat, NEW n \in Nat,
         NEW l, l = HeadPiece(e, a, n) \cup TailPiece(e, a, n)
  PROVE  /\ Disjoint(l) /\ Covered(l) \subseteq Blocks(e)
         /\ e.len = Number(l) + GivenCount(e, a, n)
<1> DEFINE s == GivenStart(e, a, n)
           end == e.addr + e.len
           h == [addr |-> e.addr, len |-> s - e.addr]
           r == [addr |-> s + n, len |-> e.addr + e.len - (s + n)]
<1>1. e.addr \in Nat /\ e.len \in Nat /\ end <= EndBlk /\ e.addr < EndBlk /\ EndBlk \in Nat
  BY SpaceManagerAssumption DEF DeviceExtents, Extent
<1>2. s \in Nat /\ e.addr <= s /\ s <= end
  BY <1>1 DEF GivenStart, Overlap, Larger, Smaller
<1>3. /\ HeadPiece(e, a, n) = IF s > e.addr THEN {h} ELSE {}
      /\ TailPiece(e, a, n) = IF s + n < end THEN {r} ELSE {}
      /\ GivenCount(e, a, n) = IF s + n < end THEN n ELSE end - s
  <2>1. HeadPiece(e, a, n) = IF s > e.addr THEN {h} ELSE {}
    BY DEF HeadPiece
  <2>2. TailPiece(e, a, n) = IF s + n < end THEN {r} ELSE {}
    BY Zenon DEF TailPiece
  <2>3. GivenCount(e, a, n) = IF s + n < end THEN n ELSE end - s
    BY <1>1, <1>2 DEF GivenCount
  <2> QED BY <2>1, <2>2, <2>3
<1> HIDE DEF s
<1>4. s > e.addr => /\ h \in DeviceExtents /\ h.len = s - e.addr
                    /\ Blocks(h) \subseteq Blocks(e) /\ Blocks(h) \cap (s .. end) = {}
  BY <1>1, <1>2 DEF DeviceExtents, Extent, Blocks, Run
<1>5. s + n < end => /\ r \in DeviceExtents /\ r.len = end - (s + n)
                     /\ Blocks(r) \subseteq Blocks(e) /\ Blocks(r) \subseteq s .. end
  BY <1>1, <1>2 DEF DeviceExtents, Extent, Blocks, Run
<1> HIDE DEF h, r, end
<1>6. Disjoint({}) /\ {} \subseteq DeviceExtents /\ Covered({}) = {} /\ Number({}) = 0
  BY NumberOf DEF Disjoint
<1>7. PICK H : H = HeadPiece(e, a, n)
  OBVIOUS
<1>8. /\ H \subseteq DeviceExtents /\ Disjoint(H) /\ Number(H) = s - e.addr
      /\ Covered(H) \subseteq Blocks(e) /\ Covered(H) \cap (s .. end) = {}
  <2>1. CASE s > e.addr
    <3>1. H = {} \cup {h} /\ h \in DeviceExtents /\ h.len = s - e.addr
      BY <1>3, <1>4, <1>7, <2>1
    <3>2. Disjoint(H) /\ Covered(H) = Blocks(h) /\ Number(H) = h.len
      BY <1>6, <3>1, PutIn, NumberOf
    <3> QED BY <1>4, <2>1, <3>1, <3>2
  <2>2. CASE ~(s > e.addr)
    BY <1>1, <1>2, <1>3, <1>6, <1>7, <2>2
  <2> QED BY <2>1, <2>2
<1>9. CASE s + n < end
  <2>1. l = H \cup {r} /\ Covered(H) \cap Blocks(r) = {}
    BY <1>3, <1>5, <1>7, <1>8, <1>9
  <2>2. /\ Disjoint(H \cup {r}) /\ Covered(H \cup {r}) = Covered(H) \cup Blocks(r)
        /\ Number(H \cup {r}) = Number(H) + r.len
    BY <1>5, <1>8, <1>9, <2>1, PutIn
  <2>3. e.len = Number(l) + GivenCount(e, a, n)
    <3>1. Number(l) = (s - e.addr) + (end - (s + n))
      BY <1>5, <1>8, <1>9, <2>1, <2>2
    <3>2. GivenCount(e, a, n) = n
      BY <1>3, <1>9
    <3>3. e.len = ((s - e.addr) + (end - (s + n))) + n
      BY <1>1, <1>2 DEF end
    <3> QED BY <3>1, <3>2, <3>3
  <2> QED BY <1>5, <1>8, <1>9, <2>1, <2>2, <2>3
<1>10. CASE ~(s + n < end)
  <2>1. l = H /\ GivenCount(e, a, n) = end - s
    BY <1>3, <1>7, <1>10
  <2>2. e.len = (s - e.addr) + (end - s)
    BY <1>1, <1>2 DEF end
  <2> QED BY <1>8, <2>1, <2>2
<1> QED BY <1>9, <1>10

\* Where the search finds nothing, no block is there.
LEMMA NothingHit ==
  ASSUME NEW E, E \subseteq DeviceExtents, NEW a \in Nat, NEW n \in Nat, Hits(E, a, n) = {}
  PROVE  Covered(E) \cap Run(a, n) = {}
<1>1. ASSUME NEW e \in E
      PROVE  Blocks(e) \cap Run(a, n) = {}
  <2>1. ~Overlap(e, a, n) /\ e.addr \in Nat /\ e.len \in Nat
    BY DEF Hits, DeviceExtents, Extent
  <2>2. e.addr >= a + n \/ e.addr + e.len <= a
    BY <2>1 DEF Overlap, Larger, Smaller
  <2> QED BY <2>1, <2>2 DEF Blocks, Run
<1> QED BY <1>1 DEF Covered

\* An index that is not empty has a first extent.
LEMMA FirstOfSome ==
  ASSUME NEW E, E \subseteq Extent, E # {}
  PROVE  FirstOf(E) # {}
<1>0. \A e \in E : e.addr \in Nat /\ e.len \in Nat
  BY DEF Extent
<1> DEFINE A == {e.addr : e \in E}
<1>1. A \in SUBSET Nat /\ A # {}
  BY <1>0
<1>2. PICK m \in A : \A k \in A : m <= k
  BY <1>1, LeastNatural
<1> DEFINE B == {e.len : e \in {f \in E : f.addr = m}}
<1>3. B \in SUBSET Nat /\ B # {}
  BY <1>0, <1>2
<1>4. PICK k \in B : \A j \in B : k <= j
  BY <1>3, LeastNatural
<1>5. PICK e \in E : e.addr = m /\ e.len = k
  BY <1>4
<1>6. ASSUME NEW f \in E
      PROVE  Comes(e, f)
  <2>1. m <= f.addr /\ m \in Nat /\ f.addr \in Nat
    BY <1>0, <1>1, <1>2
  <2>2. f.addr = m => k <= f.len
    BY <1>4
  <2> QED BY <1>5, <2>1, <2>2 DEF Comes
<1> QED BY <1>5, <1>6 DEF FirstOf

\* The search finds nothing in an empty index only.
LEMMA NothingPicked ==
  ASSUME NEW E, E \subseteq Extent, NEW a, NEW n, Picks(E, a, n) = {}
  PROVE  E = {}
<1> DEFINE next == {e \in E : Larger(e, a, n)}
<1>1. next \subseteq Extent
  OBVIOUS
<1>2. next # {} => FirstOf(next) # {}
  BY <1>1, FirstOfSome
<1>3. E # {} => FirstOf(E) # {}
  BY FirstOfSome
<1> QED BY <1>2, <1>3 DEF Picks

\* A call holds the lock of its manager from when it has found what to change to its end.
Working(f) == f.pc \in {"removed", "ready", "split", "inserted"}

\* What a call that holds the lock has still to put back is apart from what is there, and
\* the counter is that of before the call.
Balanced(M, f) ==
  /\ Disjoint(f.left) /\ Covered(M.ext) \cap Covered(f.left) = {}
  /\ \/ f.op = "free" /\ M.total + f.cnt = Number(M.ext) + Number(f.left)
     \/ f.op = "alloc" /\ M.total = Number(M.ext) + Number(f.left) + f.cnt

Holds(t, M, f) == (Working(f) <=> M.lock = t) /\ (Working(f) => Balanced(M, f))

Exact(M) == Disjoint(M.ext) /\ (M.lock = NoThread => M.total = Number(M.ext))

\* Where a thread makes no call of a manager.
Idle(t) ==
  /\ user[t] \in {"idle", "check", "reserve", "giving"} => frame[t]["sm"] = NoCall
  /\ user[t] # "giving" /\ frame[t]["sm"].req = "none" => frame[t]["bsm"] = NoCall

CountInv ==
  /\ TypeInv
  /\ \A m \in Mgr : Exact(mgr[m])
  /\ \A t \in Thread : Idle(t)
  /\ \A t \in Thread, m \in Mgr : Holds(t, mgr[m], frame[t][m])

\* Nothing changes for the other threads.
Others(t) == \A u \in Thread \ {t} : user'[u] = user[u] /\ \A m \in Mgr : frame'[u][m] = frame[u][m]

\* Which steps do so.
LEMMA OthersStay ==
  ASSUME TypeInv, NEW t \in Thread, UNCHANGED user \/ \E pc : UserNow(t, pc),
         UNCHANGED frame \/ (\E m \in Mgr : \E f : FrameNow(t, m, f)) \/ \E f, g : BothNow(t, f, g)
  PROVE  Others(t)
<1> SUFFICES ASSUME NEW u \in Thread \ {t}
             PROVE  user'[u] = user[u] /\ frame'[u] = frame[u]
  BY DEF Others
<1>1. user'[u] = user[u]
  BY DEF UserNow
<1>2. ASSUME NEW m \in Mgr, NEW f, FrameNow(t, m, f)
      PROVE  frame'[u] = frame[u]
  BY <1>2 DEF FrameNow
<1>3. ASSUME NEW f, NEW g, BothNow(t, f, g)
      PROVE  frame'[u] = frame[u]
  BY <1>3 DEF BothNow
<1> QED BY <1>1, <1>2, <1>3

\* A call that goes on, or one that holds no lock.
Alike(f, g) ==
  /\ Working(g) <=> Working(f)
  /\ Working(f) => g.op = f.op /\ g.left = f.left /\ g.cnt = f.cnt

\* A step that changes no index, no lock and no counter.
LEMMA CountsStay ==
  ASSUME CountInv, TypeInv', NEW t \in Thread, Others(t), Idle(t)',
         \A m \in Mgr : Alike(frame[t][m], frame'[t][m]),
         \A m \in Mgr : /\ mgr'[m].ext = mgr[m].ext /\ mgr'[m].total = mgr[m].total
                        /\ mgr'[m].lock = mgr[m].lock
  PROVE  CountInv'
<1>1. \A m \in Mgr : Exact(mgr'[m])
  BY DEF CountInv, Exact
<1>2. ASSUME NEW u \in Thread
      PROVE  Idle(u)'
  <2>1. CASE u = t
    BY <2>1
  <2>2. CASE u # t
    <3>1. user'[u] = user[u] /\ frame'[u]["sm"] = frame[u]["sm"] /\ frame'[u]["bsm"] = frame[u]["bsm"]
      BY <2>2 DEF Others, Mgr
    <3> QED BY <3>1 DEF CountInv, Idle
  <2> QED BY <2>1, <2>2
<1>3. ASSUME NEW u \in Thread, NEW m \in Mgr
      PROVE  Holds(u, mgr'[m], frame'[u][m])
  <2>1. Alike(frame[u][m], frame'[u][m])
    <3>1. CASE u = t
      BY <3>1
    <3>2. CASE u # t
      BY <3>2 DEF Others, Alike
    <3> QED BY <3>1, <3>2
  <2>2. Holds(u, mgr[m], frame[u][m])
    BY DEF CountInv
  <2>3. PICK M, N, f, g : M = mgr[m] /\ N = mgr'[m] /\ f = frame[u][m] /\ g = frame'[u][m]
    OBVIOUS
  <2>4. N.ext = M.ext /\ N.total = M.total /\ N.lock = M.lock
    BY <2>3
  <2>5. Balanced(M, f) /\ Working(f) => Balanced(N, g)
    BY <2>1, <2>3, <2>4 DEF Alike, Balanced
  <2>6. Holds(u, N, g)
    BY <2>1, <2>2, <2>3, <2>4, <2>5 DEF Alike, Holds
  <2> QED BY <2>3, <2>6
<1> QED BY <1>1, <1>2, <1>3 DEF CountInv

\* A call that does not hold the lock, where nobody does.
LEMMA NoHold ==
  ASSUME NEW t \in Thread, NEW M, NEW f, M.lock = NoThread, f.pc = "done"
  PROVE  Holds(t, M, f)
<1>1. t # NoThread
  BY SpaceManagerAssumption
<1> QED BY <1>1 DEF Holds, Working

\* A step of a call that holds the lock, takes it or leaves it.
LEMMA CountsMove ==
  ASSUME CountInv, TypeInv', NEW t \in Thread, NEW m \in Mgr, NEW N, NEW g,
         ManagerNow(m, N), FrameNow(t, m, g), UNCHANGED user,
         frame[t][m].pc # "idle", g.req = frame[t][m].req,
         mgr[m].lock \in {t, NoThread}, N.lock \in {t, NoThread},
         Exact(N), Holds(t, N, g)
  PROVE  CountInv'
<1>1. /\ mgr'[m] = N /\ frame'[t][m] = g
      /\ \A n \in Mgr : n # m => mgr'[n] = mgr[n] /\ frame'[t][n] = frame[t][n]
  BY CallNow
<1>2. Others(t)
  BY OthersStay DEF CountInv
<1>3. \A n \in Mgr : Exact(mgr'[n])
  BY <1>1 DEF CountInv
<1>4. ASSUME NEW u \in Thread
      PROVE  Idle(u)'
  <2>1. CASE u # t
    <3>1. user'[u] = user[u] /\ frame'[u]["sm"] = frame[u]["sm"] /\ frame'[u]["bsm"] = frame[u]["bsm"]
      BY <1>2, <2>1 DEF Others, Mgr
    <3> QED BY <3>1 DEF CountInv, Idle
  <2>2. CASE u = t
    <3>1. frame[t][m] # NoCall /\ Idle(t)
      BY CallFields DEF CountInv
    <3>2. CASE m = "sm"
      <4>1. frame'[t]["bsm"] = frame[t]["bsm"] /\ frame'[t]["sm"].req = frame[t]["sm"].req
        BY <1>1, <3>2 DEF Mgr
      <4> QED BY <2>2, <3>1, <3>2, <4>1 DEF Idle
    <3>3. CASE m = "bsm"
      <4>1. frame'[t]["sm"] = frame[t]["sm"]
        BY <1>1, <3>3 DEF Mgr
      <4> QED BY <2>2, <3>1, <3>3, <4>1 DEF Idle
    <3> QED BY <3>2, <3>3 DEF Mgr
  <2> QED BY <2>1, <2>2
<1>5. ASSUME NEW u \in Thread, NEW n \in Mgr
      PROVE  Holds(u, mgr'[n], frame'[u][n])
  <2>1. CASE n # m
    <3>1. mgr'[n] = mgr[n] /\ frame'[u][n] = frame[u][n]
      BY <1>1, <1>2, <2>1 DEF Others
    <3> QED BY <3>1 DEF CountInv
  <2>2. CASE n = m /\ u = t
    BY <1>1, <2>2
  <2>3. CASE n = m /\ u # t
    <3>1. Holds(u, mgr[m], frame[u][m]) /\ u # NoThread
      BY SpaceManagerAssumption DEF CountInv
    <3>2. ~Working(frame[u][m])
      BY <2>3, <3>1 DEF Holds
    <3>3. frame'[u][m] = frame[u][m]
      BY <1>2, <2>3 DEF Others
    <3> QED BY <1>1, <2>3, <3>1, <3>2, <3>3 DEF Holds
  <2> QED BY <2>1, <2>2, <2>3
<1> QED BY <1>3, <1>4, <1>5 DEF CountInv
\* An allocation is refused only where nothing is free, and no call holds the lock then.
LEMMA RefusedWhenEmpty ==
  ASSUME TypeInv, NEW t \in Thread, NEW m \in Mgr, EnterAlloc(t, m)
  PROVE  /\ mgr[m].lock = NoThread
         /\ frame'[t][m].pc = "done" => mgr[m].total = 0 \/ mgr[m].ext = {}
<1> DEFINE f == frame[t][m]
           M == mgr[m]
           start(e) == GivenStart(e, M.first, f.cnt)
           cnt(e) == GivenCount(e, M.first, f.cnt)
           left(e) == HeadPiece(e, M.first, f.cnt) \cup TailPiece(e, M.first, f.cnt)
<1>1. M.lock = NoThread
  BY Zenon DEF EnterAlloc
<1>2. ASSUME NEW e,
             Frame(t, m, [f EXCEPT !.pc = "removed", !.start = start(e), !.cnt = cnt(e),
                                   !.left = left(e)])
      PROVE  frame'[t][m].pc = "removed"
  <2>1. [f EXCEPT !.pc = "removed", !.start = start(e), !.cnt = cnt(e), !.left = left(e)]
          = FrameOf("removed", f.op, start(e), cnt(e), f.ret, left(e), f.req, f.old)
    BY Parts, SetGiven, Zenon
  <2>2. PICK g : g = FrameOf("removed", f.op, start(e), cnt(e), f.ret, left(e), f.req, f.old)
    OBVIOUS
  <2>3. FrameNow(t, m, g)
    BY <1>2, <2>1, <2>2, PutFrame, Zenon DEF Frame
  <2>4. frame'[t][m] = g
    BY <2>3, FrameThen
  <2> QED BY <2>2, <2>4, Fields
<1>3. (M.total = 0 \/ Picks(M.ext, M.first, f.cnt) = {}) \/ frame'[t][m].pc = "removed"
  BY <1>2, Zenon DEF EnterAlloc
<1>4. M.ext \subseteq Extent
  BY ManagerFacts DEF DeviceExtents
<1>5. Picks(M.ext, M.first, f.cnt) = {} => M.ext = {}
  BY <1>4, NothingPicked
<1> QED BY <1>1, <1>3, <1>5

\* A release that goes on has found none of its blocks, and no call holds the lock then.
LEMMA GoesOnWhenApart ==
  ASSUME TypeInv, NEW t \in Thread, NEW m \in Mgr, EnterFree(t, m)
  PROVE  /\ mgr[m].lock = NoThread
         /\ frame'[t][m].pc = "ready" => Hits(mgr[m].ext, frame[t][m].start, frame[t][m].cnt) = {}
<1> DEFINE f == frame[t][m]
           M == mgr[m]
<1>1. M.lock = NoThread
  BY Zenon DEF EnterFree
<1>2. ASSUME Frame(t, m, [f EXCEPT !.pc = "done", !.ret = "error"])
      PROVE  frame'[t][m].pc = "done"
  <2>1. [f EXCEPT !.pc = "done", !.ret = "error"]
          = FrameOf("done", f.op, f.start, f.cnt, "error", f.left, f.req, f.old)
    BY Parts, SetPcRet, Zenon
  <2>2. PICK g : g = FrameOf("done", f.op, f.start, f.cnt, "error", f.left, f.req, f.old)
    OBVIOUS
  <2>3. FrameNow(t, m, g)
    BY <1>2, <2>1, <2>2, PutFrame, Zenon DEF Frame
  <2>4. frame'[t][m] = g
    BY <2>3, FrameThen
  <2> QED BY <2>2, <2>4, Fields
<1>3. Hits(M.ext, f.start, f.cnt) = {} \/ frame'[t][m].pc = "done"
  BY <1>2, Zenon DEF EnterFree
<1> QED BY <1>1, <1>3

\* An allocation begins.
LEMMA EnterAllocCounts ==
  ASSUME CountInv, TypeInv', NEW t \in Thread, NEW m \in Mgr, EnterAlloc(t, m)
  PROVE  CountInv'
<1> DEFINE f == frame[t][m]
           M == mgr[m]
<1>0. TypeInv /\ Exact(M) /\ Idle(t) /\ M.lock = NoThread
  BY RefusedWhenEmpty DEF CountInv
<1>1. f.pc = "enter" /\ f.op = "alloc" /\ UNCHANGED <<tree, base_blk, held, user>>
  BY <1>0, EnterAllocIs
<1>2. M.ext \subseteq DeviceExtents /\ M.first \in Nat /\ M.total \in Nat
  BY <1>0, ManagerFacts
<1>3. ASSUME NEW x, ManagerNow(m, ManagerOf(M.ext, x, 0, M.lock)),
             FrameNow(t, m, FrameOf("done", f.op, f.start, f.cnt, "no_free_blocks",
                                    f.left, f.req, f.old))
      PROVE  CountInv'
  <2>1. PICK N, g : /\ N = ManagerOf(M.ext, x, 0, M.lock)
                    /\ g = FrameOf("done", f.op, f.start, f.cnt, "no_free_blocks", f.left, f.req, f.old)
    OBVIOUS
  <2>2. N.ext = M.ext /\ N.total = 0 /\ N.lock = M.lock /\ g.pc = "done" /\ g.req = f.req
    BY <2>1, Fields
  <2>3. frame'[t][m] = g
    BY <1>3, <2>1, FrameThen
  <2>4. M.total = 0 \/ M.ext = {}
    BY <1>0, <2>2, <2>3, RefusedWhenEmpty
  <2>5. Number({}) = 0
    BY FS_EmptySet DEF Number, Covered
  <2>6. M.total = 0
    BY <1>0, <2>4, <2>5 DEF Exact
  <2>7. Exact(N)
    BY <1>0, <2>2, <2>6 DEF Exact
  <2>8. Holds(t, N, g)
    <3>1. N.lock = NoThread /\ g.pc = "done"
      BY <1>0, <2>2, Zenon
    <3> QED BY <3>1, NoHold, Zenon
  <2> QED BY <1>0, <1>1, <1>3, <2>1, <2>2, <2>7, <2>8, CountsMove
<1>4. ASSUME NEW e \in M.ext, ManagerNow(m, ManagerOf(M.ext \ {e}, M.first, M.total, t)),
             FrameNow(t, m, FrameOf("removed", f.op, GivenStart(e, M.first, f.cnt),
                                    GivenCount(e, M.first, f.cnt), f.ret,
                                    HeadPiece(e, M.first, f.cnt) \cup TailPiece(e, M.first, f.cnt),
                                    f.req, f.old))
      PROVE  CountInv'
  <2>0. PICK s, c, l : /\ s = GivenStart(e, M.first, f.cnt) /\ c = GivenCount(e, M.first, f.cnt)
                       /\ l = HeadPiece(e, M.first, f.cnt) \cup TailPiece(e, M.first, f.cnt)
    OBVIOUS
  <2>1. PICK N, g : /\ N = ManagerOf(M.ext \ {e}, M.first, M.total, t)
                    /\ g = FrameOf("removed", f.op, s, c, f.ret, l, f.req, f.old)
    OBVIOUS
  <2>2. /\ N.ext = M.ext \ {e} /\ N.total = M.total /\ N.lock = t
        /\ g.pc = "removed" /\ g.op = "alloc" /\ g.cnt = c /\ g.left = l /\ g.req = f.req
    <3>1. N.ext = M.ext \ {e} /\ N.total = M.total /\ N.lock = t
      BY <2>1, Fields
    <3>2. g.pc = "removed" /\ g.op = f.op /\ g.cnt = c /\ g.left = l /\ g.req = f.req
      BY <2>1, Fields
    <3> QED BY <1>1, <3>1, <3>2
  <2>3. /\ Disjoint(N.ext) /\ Covered(N.ext) \cap Blocks(e) = {}
        /\ M.total = Number(N.ext) + e.len
    <3>1. PICK E : E = M.ext
      OBVIOUS
    <3>2. E \subseteq DeviceExtents /\ Disjoint(E) /\ e \in E /\ M.total = Number(E) /\ N.ext = E \ {e}
      BY <1>0, <1>2, <2>2, <3>1 DEF Exact
    <3>3. /\ Disjoint(E \ {e}) /\ Covered(E \ {e}) \cap Blocks(e) = {}
          /\ Number(E) = Number(E \ {e}) + e.len
      BY <3>2, TakeOut, Zenon
    <3> QED BY <3>2, <3>3, Zenon
  <2>4. Disjoint(l) /\ Covered(l) \subseteq Blocks(e) /\ e.len = Number(l) + c
    <3>1. f.cnt \in Nat /\ e \in DeviceExtents
      BY <1>0, <1>2, FrameFacts DEF InRange
    <3> QED BY <1>2, <2>0, <3>1, CarvedNumber
  <2>5. M.total = Number(N.ext) + Number(l) + c
    <3>1. l \subseteq DeviceExtents /\ N.ext \subseteq DeviceExtents /\ c \in Nat
      <4>1. f.cnt \in Nat /\ e \in DeviceExtents
        BY <1>0, <1>2, FrameFacts DEF InRange
      <4>2. l \subseteq DeviceExtents /\ c \in Nat
        BY <1>2, <2>0, <4>1, CarveTyped
      <4> QED BY <1>2, <2>2, <4>2
    <3>2. Number(l) \in Nat /\ Number(N.ext) \in Nat
      BY <3>1, Countable
    <3> QED BY <2>3, <2>4, <3>1, <3>2
  <2>6. Balanced(N, g)
    BY <2>2, <2>3, <2>4, <2>5 DEF Balanced
  <2>7. Exact(N) /\ Holds(t, N, g)
    BY <2>2, <2>3, <2>6, SpaceManagerAssumption DEF Exact, Holds, Working
  <2> QED BY <1>0, <1>1, <1>4, <2>0, <2>1, <2>2, <2>7, CountsMove
<1> QED BY <1>0, <1>3, <1>4, EnterAllocIs, Zenon

\* A release begins.
LEMMA EnterFreeCounts ==
  ASSUME CountInv, TypeInv', NEW t \in Thread, NEW m \in Mgr, EnterFree(t, m)
  PROVE  CountInv'
<1> DEFINE f == frame[t][m]
           M == mgr[m]
<1>0. TypeInv /\ Exact(M) /\ Idle(t) /\ M.lock = NoThread
  BY GoesOnWhenApart DEF CountInv
<1>1. f.pc = "enter" /\ f.op = "free" /\ UNCHANGED <<tree, base_blk, held, user>>
  BY <1>0, EnterFreeIs
<1>2. CASE /\ UNCHANGED mgr
           /\ FrameNow(t, m, FrameOf("done", f.op, f.start, f.cnt, "error", f.left, f.req, f.old))
  <2>1. PICK g : g = FrameOf("done", f.op, f.start, f.cnt, "error", f.left, f.req, f.old)
    OBVIOUS
  <2>2. g.pc = "done" /\ g.req = f.req
    BY <2>1, Fields
  <2>3. ManagerNow(m, M)
    BY <1>0, <1>2 DEF TypeInv, ManagersOK, ManagerNow
  <2>4. Holds(t, M, g)
    <3>1. M.lock = NoThread /\ g.pc = "done"
      BY <1>0, <2>2, Zenon
    <3> QED BY <3>1, NoHold, Zenon
  <2> QED BY <1>0, <1>1, <1>2, <2>1, <2>2, <2>3, <2>4, CountsMove
<1>3. CASE /\ ManagerNow(m, ManagerOf(M.ext, M.first, M.total, t))
           /\ FrameNow(t, m, FrameOf("ready", f.op, f.start, f.cnt, f.ret,
                                     {[addr |-> f.start, len |-> f.cnt]}, f.req, f.old))
  <2>0. PICK e : e = [addr |-> f.start, len |-> f.cnt]
    OBVIOUS
  <2>1. PICK N, g : /\ N = ManagerOf(M.ext, M.first, M.total, t)
                    /\ g = FrameOf("ready", f.op, f.start, f.cnt, f.ret, {e}, f.req, f.old)
    OBVIOUS
  <2>2. /\ N.ext = M.ext /\ N.total = M.total /\ N.lock = t
        /\ g.pc = "ready" /\ g.op = "free" /\ g.cnt = f.cnt /\ g.left = {e} /\ g.req = f.req
    <3>1. N.ext = M.ext /\ N.total = M.total /\ N.lock = t
      BY <2>1, Fields
    <3>2. g.pc = "ready" /\ g.op = f.op /\ g.cnt = f.cnt /\ g.left = {e} /\ g.req = f.req
      BY <2>1, Fields
    <3> QED BY <1>1, <3>1, <3>2
  <2>3. frame'[t][m] = g
    BY <1>3, <2>0, <2>1, FrameThen
  <2>4. f.start \in Nat /\ f.cnt \in Nat /\ M.ext \subseteq DeviceExtents
    BY <1>0, FrameFacts, ManagerFacts DEF InRange, Device
  <2>5. Covered(M.ext) \cap Run(f.start, f.cnt) = {}
    <3>1. PICK E : E = M.ext
      OBVIOUS
    <3>2. Hits(E, f.start, f.cnt) = {}
      BY <1>0, <2>2, <2>3, <3>1, GoesOnWhenApart, Zenon
    <3>3. Covered(E) \cap Run(f.start, f.cnt) = {}
      BY <2>4, <3>1, <3>2, NothingHit
    <3> QED BY <3>1, <3>3
  <2>6. e \in DeviceExtents
    <3>1. f.start \in Device /\ Within(f.start, f.cnt)
      BY <1>0, <1>1, FrameFacts DEF InRange
    <3> QED BY <2>0, <2>4, <3>1, SpaceManagerAssumption DEF DeviceExtents, Extent, Device, Within
  <2>7. Covered({e}) = Run(f.start, f.cnt) /\ Number({e}) = f.cnt
    BY <2>0, <2>6, NumberOf DEF Blocks
  <2>8. Disjoint({e}) /\ M.total = Number(M.ext)
    BY <1>0 DEF Exact, Disjoint
  <2>9. Balanced(N, g)
    BY <2>2, <2>5, <2>7, <2>8 DEF Balanced
  <2>10. Exact(N) /\ Holds(t, N, g)
    BY <1>0, <2>2, <2>9, SpaceManagerAssumption DEF Exact, Holds, Working
  <2> QED BY <1>0, <1>1, <1>3, <2>0, <2>1, <2>2, <2>10, CountsMove
<1> QED BY <1>0, <1>2, <1>3, EnterFreeIs, Zenon
\* An extent is put back.
LEMMA InsertCounts ==
  ASSUME CountInv, TypeInv', NEW t \in Thread, NEW m \in Mgr, Insert(t, m)
  PROVE  CountInv'
<1> DEFINE f == frame[t][m]
           M == mgr[m]
<1>0. TypeInv /\ Exact(M) /\ Holds(t, M, f)
  BY DEF CountInv
<1>1. f.pc \in {"removed", "ready", "split", "inserted"} /\ UNCHANGED <<tree, base_blk, held, user>>
  BY <1>0, InsertIs
<1>2. M.lock = t /\ Balanced(M, f) /\ f.pc # "idle"
  BY <1>0, <1>1 DEF Holds, Working
<1>3. PICK p \in f.left :
        /\ ManagerNow(m, ManagerOf(M.ext \cup {p}, M.first, M.total, M.lock))
        /\ FrameNow(t, m, FrameOf("inserted", f.op, f.start, f.cnt, f.ret, f.left \ {p}, f.req, f.old))
  BY <1>0, InsertIs
<1>4. PICK N, g : /\ N = ManagerOf(M.ext \cup {p}, M.first, M.total, M.lock)
                  /\ g = FrameOf("inserted", f.op, f.start, f.cnt, f.ret, f.left \ {p}, f.req, f.old)
  OBVIOUS
<1>5. /\ N.ext = M.ext \cup {p} /\ N.total = M.total /\ N.lock = M.lock
      /\ g.pc = "inserted" /\ g.op = f.op /\ g.cnt = f.cnt /\ g.left = f.left \ {p} /\ g.req = f.req
  BY <1>4, Fields
<1>6. PICK E, L : E = M.ext /\ L = f.left
  OBVIOUS
<1>7. /\ E \subseteq DeviceExtents /\ L \subseteq DeviceExtents /\ Disjoint(E) /\ Disjoint(L)
      /\ Covered(E) \cap Covered(L) = {} /\ p \in L
  <2>1. E \subseteq DeviceExtents
    BY <1>0, <1>6, ManagerFacts
  <2>2. L \subseteq DeviceExtents
    BY <1>0, <1>6, FrameFacts DEF InRange
  <2> QED BY <1>0, <1>2, <1>6, <2>1, <2>2 DEF Exact, Balanced
<1>8. /\ Disjoint(L \ {p}) /\ Covered(L \ {p}) \cap Blocks(p) = {}
      /\ Covered(L) = Covered(L \ {p}) \cup Blocks(p) /\ Number(L) = Number(L \ {p}) + p.len
  BY <1>7, TakeOut, Zenon
<1>9. /\ Disjoint(E \cup {p}) /\ Covered(E \cup {p}) = Covered(E) \cup Blocks(p)
      /\ Number(E \cup {p}) = Number(E) + p.len
  <2>1. p \in DeviceExtents /\ Covered(E) \cap Blocks(p) = {}
    BY <1>7, <1>8
  <2> QED BY <1>7, <2>1, PutIn, Zenon
<1>10. Covered(E \cup {p}) \cap Covered(L \ {p}) = {}
  BY <1>7, <1>8, <1>9
<1>11. PICK a, b, c : a = Number(E) /\ b = Number(L \ {p}) /\ c = p.len
  OBVIOUS
<1>12. a \in Nat /\ b \in Nat /\ c \in Nat /\ M.total \in Nat /\ f.cnt \in Nat
  <2>1. a \in Nat /\ b \in Nat
    BY <1>7, <1>11, Countable
  <2>2. c \in Nat
    BY <1>7, <1>11 DEF DeviceExtents, Extent
  <2>3. M.total \in Nat
    BY <1>0, ManagerFacts
  <2>4. f.cnt \in Nat
    BY <1>0, FrameFacts DEF InRange
  <2> QED BY <2>1, <2>2, <2>3, <2>4
<1>13. /\ Number(L) = b + c /\ Number(E \cup {p}) = a + c
  BY <1>8, <1>9, <1>11
<1>14. \/ f.op = "free" /\ M.total + f.cnt = a + (b + c)
       \/ f.op = "alloc" /\ M.total = a + (b + c) + f.cnt
  BY <1>2, <1>6, <1>11, <1>13 DEF Balanced
<1>15. \/ f.op = "free" /\ M.total + f.cnt = (a + c) + b
       \/ f.op = "alloc" /\ M.total = (a + c) + b + f.cnt
  BY <1>12, <1>14
<1>16. Balanced(N, g)
  BY <1>5, <1>6, <1>8, <1>10, <1>11, <1>13, <1>15 DEF Balanced
<1>17. Exact(N) /\ Holds(t, N, g)
  BY <1>2, <1>5, <1>6, <1>9, <1>16, SpaceManagerAssumption DEF Exact, Holds, Working
<1> QED BY <1>0, <1>1, <1>2, <1>3, <1>4, <1>5, <1>17, CountsMove

\* What a call makes of the counter at its end.
LEMMA LastCount ==
  ASSUME TypeInv, NEW t \in Thread, NEW m \in Mgr, Leave(t, m)
  PROVE  /\ frame[t][m].left = {}
         /\ mgr'[m].total = IF frame[t][m].op = "free" THEN mgr[m].total + frame[t][m].cnt
                            ELSE IF mgr[m].total < frame[t][m].cnt THEN mgr[m].total
                            ELSE mgr[m].total - frame[t][m].cnt
<1> DEFINE f == frame[t][m]
           M == mgr[m]
           x == IF f.op = "alloc" THEN f.start + f.cnt ELSE M.first
           y == IF f.op = "free" THEN M.total + f.cnt
                ELSE IF M.total < f.cnt THEN M.total ELSE M.total - f.cnt
<1>1. f.left = {}
  BY Zenon DEF Leave
<1>2. mgr' = [mgr EXCEPT ![m].first = IF f.op = "alloc" THEN f.start + f.cnt ELSE @,
                         ![m].total = IF f.op = "free" THEN @ + f.cnt
                                      ELSE IF @ < f.cnt THEN @ ELSE @ - f.cnt,
                         ![m].lock = NoThread]
  BY Zenon DEF Leave
<1>3. mgr' = [mgr EXCEPT ![m] = [M EXCEPT !.first = x, !.total = y, !.lock = NoThread]]
  BY <1>2
<1> HIDE DEF x, y
<1>4. mgr'[m] = [M EXCEPT !.first = x, !.total = y, !.lock = NoThread]
  BY <1>3 DEF TypeInv, ManagersOK
<1>5. [M EXCEPT !.first = x, !.total = y, !.lock = NoThread].total = y
  <2>1. PICK K, u, v, w : K = M /\ u = x /\ v = y /\ w = NoThread
    OBVIOUS
  <2>2. PICK a, b, c, d : K = ManagerOf(a, b, c, d)
    BY <2>1, Parts DEF WholeManager
  <2>3. [K EXCEPT !.first = u, !.total = v, !.lock = w].total = v
    BY ONLY <2>2 DEF ManagerOf
  <2> QED BY <2>1, <2>3
<1>6. mgr'[m].total = y
  BY <1>4, <1>5
<1> QED BY <1>1, <1>6 DEF y

\* A call ends.
LEMMA LeaveCounts ==
  ASSUME CountInv, TypeInv', NEW t \in Thread, NEW m \in Mgr, Leave(t, m)
  PROVE  CountInv'
<1> DEFINE f == frame[t][m]
           M == mgr[m]
<1>0. TypeInv /\ Exact(M) /\ Holds(t, M, f)
  BY DEF CountInv
<1>1. f.pc \in {"removed", "inserted"} /\ UNCHANGED <<tree, base_blk, held, user>>
  BY <1>0, LeaveIs
<1>2. M.lock = t /\ Balanced(M, f) /\ f.pc # "idle"
  BY <1>0, <1>1 DEF Holds, Working
<1>3. PICK x, y :
        /\ ManagerNow(m, ManagerOf(M.ext, x, y, NoThread))
        /\ FrameNow(t, m, FrameOf("done", f.op, f.start, f.cnt, f.ret, f.left, f.req, f.old))
  BY <1>0, LeaveIs
<1>4. PICK N, g : /\ N = ManagerOf(M.ext, x, y, NoThread)
                  /\ g = FrameOf("done", f.op, f.start, f.cnt, f.ret, f.left, f.req, f.old)
  OBVIOUS
<1>5. N.ext = M.ext /\ N.total = y /\ N.lock = NoThread /\ g.pc = "done" /\ g.req = f.req
  BY <1>4, Fields
<1>6. mgr'[m] = N
  BY <1>3, <1>4, CallNow
<1>7. /\ f.left = {}
      /\ y = IF f.op = "free" THEN M.total + f.cnt
             ELSE IF M.total < f.cnt THEN M.total ELSE M.total - f.cnt
  BY <1>0, <1>5, <1>6, LastCount
<1>8. Number(f.left) = 0 /\ Number(M.ext) \in Nat /\ M.total \in Nat /\ f.cnt \in Nat
  <2>1. Number({}) = 0
    BY FS_EmptySet DEF Number, Covered
  <2>2. M.ext \subseteq DeviceExtents /\ M.total \in Nat
    BY <1>0, ManagerFacts
  <2>3. f.cnt \in Nat
    BY <1>0, FrameFacts DEF InRange
  <2> QED BY <1>7, <2>1, <2>2, <2>3, Countable
<1>9. y = Number(M.ext)
  <2>1. \/ f.op = "free" /\ M.total + f.cnt = Number(M.ext) + Number(f.left)
        \/ f.op = "alloc" /\ M.total = Number(M.ext) + Number(f.left) + f.cnt
    BY <1>2 DEF Balanced
  <2>2. PICK a, b, c : a = Number(M.ext) /\ b = M.total /\ c = f.cnt
    OBVIOUS
  <2>3. CASE f.op = "free"
    <3>1. b + c = a + 0 /\ y = b + c
      BY <1>7, <1>8, <2>1, <2>2, <2>3
    <3> QED BY <1>8, <2>2, <3>1
  <2>4. CASE f.op = "alloc"
    <3>1. b = a + 0 + c /\ y = IF b < c THEN b ELSE b - c
      BY <1>7, <1>8, <2>1, <2>2, <2>4
    <3> QED BY <1>8, <2>2, <3>1
  <2> QED BY <2>1, <2>3, <2>4
<1>10. Exact(N)
  BY <1>0, <1>5, <1>9 DEF Exact
<1>11. Holds(t, N, g)
  BY <1>5, NoHold
<1> QED BY <1>0, <1>1, <1>2, <1>3, <1>4, <1>5, <1>10, <1>11, CountsMove
\* Steps between calls change calls only, each for one that holds the lock as it does.
LEMMA CallsCount ==
  ASSUME CountInv, TypeInv', NEW t \in Thread, UNCHANGED mgr,
         UNCHANGED user \/ (\E pc : UserNow(t, pc)), Idle(t)'
  PROVE  /\ UNCHANGED frame => CountInv'
         /\ \A m \in Mgr : \A f : FrameNow(t, m, f) /\ Alike(frame[t][m], f) => CountInv'
         /\ \A f, g : BothNow(t, f, g) /\ Alike(frame[t]["sm"], f) /\ Alike(frame[t]["bsm"], g)
                        => CountInv'
<1>0. TypeInv
  BY DEF CountInv
<1>1. ASSUME UNCHANGED frame
      PROVE  CountInv'
  <2>1. Others(t)
    BY <1>0, <1>1, OthersStay
  <2>2. \A m \in Mgr : Alike(frame[t][m], frame'[t][m])
    BY <1>1 DEF Alike
  <2> QED BY <2>1, <2>2, CountsStay
<1>2. ASSUME NEW m \in Mgr, NEW f, FrameNow(t, m, f), Alike(frame[t][m], f)
      PROVE  CountInv'
  <2>1. Others(t)
    BY <1>0, <1>2, OthersStay
  <2>2. frame'[t][m] = f /\ \A n \in Mgr : n # m => frame'[t][n] = frame[t][n]
    BY <1>2, FrameThen
  <2>3. \A n \in Mgr : Alike(frame[t][n], frame'[t][n])
    BY <1>2, <2>2 DEF Alike
  <2> QED BY <2>1, <2>3, CountsStay
<1>3. ASSUME NEW f, NEW g, BothNow(t, f, g), Alike(frame[t]["sm"], f), Alike(frame[t]["bsm"], g)
      PROVE  CountInv'
  <2>1. Others(t)
    BY <1>0, <1>3, OthersStay
  <2>2. frame'[t]["sm"] = f /\ frame'[t]["bsm"] = g
    BY <1>3, BothThen
  <2>3. \A n \in Mgr : Alike(frame[t][n], frame'[t][n])
    BY <1>3, <2>2 DEF Mgr
  <2> QED BY <2>1, <2>3, CountsStay
<1> QED BY <1>1, <1>2, <1>3

\* A call with a request, or without one, holds the lock as before.
LEMMA AlikeCall ==
  ASSUME NEW f, Working(f), NEW p \in {"removed", "ready", "split", "inserted"},
         NEW s, NEW r, NEW q, NEW o,
         NEW g, g = FrameOf(p, f.op, s, f.cnt, r, f.left, q, o)
  PROVE  Alike(f, g)
<1>1. g.pc = p /\ g.op = f.op /\ g.cnt = f.cnt /\ g.left = f.left
  BY Fields
<1> QED BY <1>1 DEF Alike, Working

\* A call that begins, and none, holds no lock.
LEMMA NoLock ==
  ASSUME NEW s, NEW n
  PROVE  ~Working(NoCall) /\ ~Working(AllocCall(n)) /\ ~Working(FreeCall(s, n))
  BY CallFields DEF Working

\* A call of sm that makes a request is under way, and bsm has no call yet; bsm makes it
\* and answers, and then has none.
LEMMA RequestIdle ==
  ASSUME NEW t \in Thread, TypeInv, Idle(t), UNCHANGED user, frame[t]["sm"].pc # "idle",
         NEW f, NEW g, f = frame'[t]["sm"], g = frame'[t]["bsm"], f.req # "none" \/ g = NoCall
  PROVE  Idle(t)' /\ (frame[t]["sm"].req = "none" => frame[t]["bsm"] = NoCall)
<1>1. frame[t]["sm"] # NoCall
  BY CallFields
<1> QED BY <1>1 DEF Idle

\* The SPACE tree asks for a block or gives one back.
LEMMA RequestsCount ==
  ASSUME CountInv, TypeInv', NEW t \in Thread,
         Move(t) \/ Moved(t) \/ Dropped(t) \/ Split(t) \/ HasSplit(t) \/ Shrink(t)
  PROVE  CountInv'
<1> DEFINE f == frame[t]["sm"]
           g == frame[t]["bsm"]
<1>0. TypeInv /\ Idle(t) /\ "sm" \in Mgr /\ "bsm" \in Mgr
  BY DEF CountInv, Mgr
<1>1. f.req # "none" => f.pc \in {"removed", "split", "inserted"}
  BY <1>0, Requests
<1>2. ASSUME NEW p \in {"removed", "ready", "split", "inserted"}, NEW q, NEW o, NEW h,
             BothNow(t, FrameOf(p, f.op, f.start, f.cnt, f.ret, f.left, q, o), h),
             UNCHANGED <<mgr, user>>, Working(f), q # "none" \/ h = NoCall,
             f.req = "none" \/ g.pc = "done", ~Working(h)
      PROVE  CountInv'
  <2>1. PICK k : k = FrameOf(p, f.op, f.start, f.cnt, f.ret, f.left, q, o)
    OBVIOUS
  <2>2. k.req = q /\ Alike(f, k)
    <3>1. k.req = q
      BY <2>1, Fields
    <3>2. Alike(f, k)
      BY <1>2, <2>1, AlikeCall, Zenon
    <3> QED BY <3>1, <3>2
  <2>3. BothNow(t, k, h) /\ frame'[t]["sm"] = k /\ frame'[t]["bsm"] = h
    BY <1>2, <2>1, BothThen
  <2>4. Idle(t)' /\ (f.req = "none" => g = NoCall)
    <3>1. f.pc # "idle"
      BY <1>2 DEF Working
    <3> QED BY <1>0, <1>2, <2>2, <2>3, <3>1, RequestIdle
  <2>5. ~Working(g)
    <3>1. g = NoCall \/ g.pc = "done"
      BY <1>2, <2>4
    <3> QED BY <3>1, CallFields DEF Working
  <2>6. Alike(g, h)
    BY <1>2, <2>5 DEF Alike
  <2> QED BY <1>2, <2>2, <2>3, <2>4, <2>6, CallsCount
<1>3. \A s, n : ~Working(NoCall) /\ ~Working(AllocCall(n)) /\ ~Working(FreeCall(s, n))
  BY NoLock
<1>4. CASE Move(t)
  <2>1. f.pc \in {"removed", "split", "inserted"} /\ f.req = "none" /\ UNCHANGED <<mgr, user>>
    BY <1>0, <1>4, MoveIs
  <2>2. PICK b : BothNow(t, FrameOf(f.pc, f.op, f.start, f.cnt, f.ret, f.left, "move", b), AllocCall(1))
    BY <1>0, <1>4, MoveIs
  <2>3. Working(f)
    BY <2>1 DEF Working
  <2> QED BY <1>2, <1>3, <2>1, <2>2, <2>3
<1>5. CASE Moved(t)
  <2>1. /\ f.req = "move" /\ g.pc = "done" /\ UNCHANGED <<mgr, user>>
        /\ BothNow(t, FrameOf(f.pc, f.op, f.start, f.cnt, f.ret, f.left, "drop", f.old), FreeCall(f.old, 1))
    BY <1>0, <1>5, MovedIs
  <2>2. Working(f) /\ f.pc \in {"removed", "split", "inserted"}
    BY <1>1, <2>1 DEF Working
  <2> QED BY <1>2, <1>3, <2>1, <2>2
<1>6. CASE Dropped(t)
  <2>1. /\ f.req = "drop" /\ UNCHANGED <<mgr, user>>
        /\ BothNow(t, FrameOf(f.pc, f.op, f.start, f.cnt, f.ret, f.left, "none", 0), NoCall)
    BY <1>0, <1>6, DroppedIs
  <2>2. g.pc = "done"
    BY <1>6 DEF Dropped, Done
  <2>3. Working(f) /\ f.pc \in {"removed", "split", "inserted"}
    BY <1>1, <2>1 DEF Working
  <2> QED BY <1>2, <1>3, <2>1, <2>2, <2>3
<1>7. CASE Split(t)
  <2>1. f.pc \in {"removed", "ready", "split", "inserted"} /\ f.req = "none" /\ UNCHANGED <<mgr, user>>
    BY <1>0, <1>7, SplitIs
  <2>2. Working(f)
    BY <2>1 DEF Working
  <2>3. PICK p \in {"removed", "split"} :
          BothNow(t, FrameOf(p, f.op, f.start, f.cnt, f.ret, f.left, "split", f.old), AllocCall(1))
    BY <1>0, <1>7, SplitIs
  <2> QED BY <1>2, <1>3, <2>1, <2>2, <2>3
<1>8. CASE HasSplit(t)
  <2>1. /\ f.req = "split" /\ g.pc = "done" /\ UNCHANGED <<mgr, user>>
        /\ BothNow(t, FrameOf(f.pc, f.op, f.start, f.cnt, f.ret, f.left, "none", f.old), NoCall)
    BY <1>0, <1>8, HasSplitIs
  <2>2. Working(f) /\ f.pc \in {"removed", "split", "inserted"}
    BY <1>1, <2>1 DEF Working
  <2> QED BY <1>2, <1>3, <2>1, <2>2
<1>9. CASE Shrink(t)
  <2>1. f.pc = "removed" /\ f.req = "none" /\ UNCHANGED <<mgr, user>>
    BY <1>0, <1>9, ShrinkIs
  <2>2. PICK b : BothNow(t, FrameOf(f.pc, f.op, f.start, f.cnt, f.ret, f.left, "drop", b), FreeCall(b, 1))
    BY <1>0, <1>9, ShrinkIs
  <2>3. Working(f)
    BY <2>1 DEF Working
  <2> QED BY <1>2, <1>3, <2>1, <2>2, <2>3
<1> QED BY <1>4, <1>5, <1>6, <1>7, <1>8, <1>9

\* The BASE tree takes base_blk or fills it.
LEMMA BaseCounts ==
  ASSUME CountInv, TypeInv', NEW t \in Thread,
         BaseMove(t) \/ BaseDropped(t) \/ BaseSplit(t) \/ BaseShrink(t)
  PROVE  CountInv'
<1> DEFINE g == frame[t]["bsm"]
<1>0. TypeInv /\ Idle(t) /\ "sm" \in Mgr /\ "bsm" \in Mgr
  BY DEF CountInv, Mgr
<1>1. g.req # "none" => g.pc \in {"removed", "split", "inserted"}
  BY <1>0, Requests
<1>2. ASSUME NEW p \in {"removed", "ready", "split", "inserted"}, NEW q, NEW o,
             FrameNow(t, "bsm", FrameOf(p, g.op, g.start, g.cnt, g.ret, g.left, q, o)),
             UNCHANGED <<mgr, user>>, Working(g)
      PROVE  CountInv'
  <2>1. PICK k : k = FrameOf(p, g.op, g.start, g.cnt, g.ret, g.left, q, o)
    OBVIOUS
  <2>2. Alike(g, k)
    BY <1>2, <2>1, AlikeCall, Zenon
  <2>3. FrameNow(t, "bsm", k) /\ frame'[t]["sm"] = frame[t]["sm"]
    BY <1>0, <1>2, <2>1, FrameThen
  <2>4. g # NoCall
    BY <1>2, CallFields DEF Working
  <2>5. Idle(t)'
    BY <1>0, <1>2, <2>3, <2>4 DEF Idle
  <2> QED BY <1>0, <1>2, <2>2, <2>3, <2>5, CallsCount
<1>3. CASE BaseMove(t)
  <2>1. g.pc \in {"removed", "split", "inserted"} /\ UNCHANGED <<mgr, user>>
    BY <1>0, <1>3, BaseMoveIs
  <2>2. PICK b : FrameNow(t, "bsm", FrameOf(g.pc, g.op, g.start, g.cnt, g.ret, g.left, "drop", b))
    BY <1>0, <1>3, BaseMoveIs
  <2>3. Working(g)
    BY <2>1 DEF Working
  <2> QED BY <1>2, <2>1, <2>2, <2>3
<1>4. CASE BaseDropped(t)
  <2>1. /\ g.req = "drop" /\ UNCHANGED <<mgr, user>>
        /\ FrameNow(t, "bsm", FrameOf(g.pc, g.op, g.start, g.cnt, g.ret, g.left, "none", 0))
    BY <1>0, <1>4, BaseDroppedIs
  <2>2. Working(g) /\ g.pc \in {"removed", "split", "inserted"}
    BY <1>1, <2>1 DEF Working
  <2> QED BY <1>2, <2>1, <2>2
<1>5. CASE BaseSplit(t)
  <2>1. g.pc \in {"removed", "ready", "split", "inserted"} /\ UNCHANGED <<mgr, user>>
    BY <1>0, <1>5, BaseSplitIs
  <2>2. Working(g)
    BY <2>1 DEF Working
  <2>3. PICK p \in {"removed", "split"} :
          FrameNow(t, "bsm", FrameOf(p, g.op, g.start, g.cnt, g.ret, g.left, g.req, g.old))
    BY <1>0, <1>5, BaseSplitIs
  <2> QED BY <1>2, <2>1, <2>2, <2>3
<1>6. CASE BaseShrink(t)
  <2>1. g.pc = "removed" /\ UNCHANGED <<mgr, user>>
    BY <1>0, <1>6, BaseShrinkIs
  <2>2. PICK b : FrameNow(t, "bsm", FrameOf(g.pc, g.op, g.start, g.cnt, g.ret, g.left, "drop", b))
    BY <1>0, <1>6, BaseShrinkIs
  <2>3. Working(g)
    BY <2>1 DEF Working
  <2> QED BY <1>2, <2>1, <2>2, <2>3
<1> QED BY <1>3, <1>4, <1>5, <1>6
\* A thread goes on outside the managers, where none of its calls holds a lock.
LEMMA UserCount ==
  ASSUME CountInv, TypeInv', NEW t \in Thread, UNCHANGED mgr, NEW pc, UserNow(t, pc),
         UNCHANGED frame \/ (\E m \in Mgr : \E f : FrameNow(t, m, f)) \/ (\E f, g : BothNow(t, f, g)),
         ~Working(frame[t]["sm"]), ~Working(frame[t]["bsm"]),
         ~Working(frame'[t]["sm"]), ~Working(frame'[t]["bsm"]),
         pc \in {"idle", "check", "reserve", "giving"} => frame'[t]["sm"] = NoCall,
         pc # "giving" => frame'[t]["bsm"] = NoCall
  PROVE  CountInv'
<1>1. Others(t)
  BY OthersStay DEF CountInv
<1>2. user'[t] = pc
  BY Now DEF Mgr
<1>3. Idle(t)'
  BY <1>2 DEF Idle
<1>4. \A m \in Mgr : Alike(frame[t][m], frame'[t][m])
  BY DEF Alike, Mgr
<1> QED BY <1>1, <1>3, <1>4, CountsStay

\* ofs_alloc_space and ofs_free_space between their calls.
LEMMA UsersCount ==
  ASSUME CountInv, TypeInv', NEW t \in Thread,
         AllocBlock(t) \/ FreeBlock(t) \/ GotBaseBlock(t) \/ CheckReserve(t) \/ Reserve(t)
           \/ GiveToBase(t) \/ GivenToBase(t) \/ GotBlock(t) \/ FreedBlock(t) \/ Fails(t)
  PROVE  CountInv'
<1> DEFINE f == frame[t]["sm"]
           g == frame[t]["bsm"]
<1>0. TypeInv /\ Idle(t) /\ "sm" \in Mgr /\ "bsm" \in Mgr
  BY DEF CountInv, Mgr
<1>1. /\ ~Working(NoCall) /\ \A s, n : ~Working(AllocCall(n)) /\ ~Working(FreeCall(s, n))
      /\ \A k : k.pc = "done" => ~Working(k)
  BY NoLock DEF Working
<1>2. /\ user[t] \in {"idle", "check", "reserve", "giving"} => f = NoCall
      /\ user[t] # "giving" /\ (f = NoCall \/ f.pc = "done") => g = NoCall
  <2>1. f = NoCall \/ f.pc = "done" => f.req = "none"
    BY <1>0, CallFields, Requests
  <2> QED BY <1>0, <2>1 DEF Idle
<1>3. ASSUME NEW x, FrameNow(t, "sm", x)
      PROVE  frame'[t]["sm"] = x /\ frame'[t]["bsm"] = g
  BY <1>3, FrameThen DEF Mgr
<1>4. ASSUME UNCHANGED mgr, user[t] # "giving", f = NoCall \/ f.pc = "done",
             NEW pc \in {"idle", "check", "base_block", "reserve", "reserved", "block", "free"},
             UserNow(t, pc), NEW x, FrameNow(t, "sm", x) \/ (UNCHANGED frame /\ x = f),
             ~Working(x), pc \in {"idle", "check", "reserve"} => x = NoCall
      PROVE  CountInv'
  <2>1. g = NoCall /\ ~Working(f) /\ ~Working(g)
    BY <1>1, <1>2, <1>4
  <2>2. frame'[t]["sm"] = x /\ frame'[t]["bsm"] = NoCall
    BY <1>3, <1>4, <2>1
  <2>3. UNCHANGED frame \/ \E m \in Mgr : \E h : FrameNow(t, m, h)
    BY <1>0, <1>4
  <2> QED BY <1>1, <1>4, <2>1, <2>2, <2>3, UserCount
<1>5. CASE AllocBlock(t)
  <2>1. user[t] = "idle" /\ UNCHANGED mgr
    BY <1>0, <1>5, ReserveIs
  <2>2. CASE UserNow(t, "base_block") /\ FrameNow(t, "sm", AllocCall(1))
    BY <1>1, <1>2, <1>4, <2>1, <2>2
  <2>3. CASE UserNow(t, "check") /\ UNCHANGED frame
    BY <1>1, <1>2, <1>4, <2>1, <2>3
  <2> QED BY <1>0, <1>5, <2>2, <2>3, ReserveIs
<1>6. CASE GotBaseBlock(t)
  <2>1. /\ user[t] = "base_block" /\ UNCHANGED mgr /\ f.pc = "done"
        /\ UserNow(t, "check") /\ FrameNow(t, "sm", NoCall)
    BY <1>0, <1>6, ReserveIs
  <2> QED BY <1>1, <1>4, <2>1
<1>7. CASE CheckReserve(t)
  <2>1. user[t] = "check" /\ UNCHANGED mgr
    BY <1>0, <1>7, ReserveIs
  <2>2. CASE UserNow(t, "reserve") /\ UNCHANGED frame
    BY <1>1, <1>2, <1>4, <2>1, <2>2
  <2>3. CASE UserNow(t, "block") /\ FrameNow(t, "sm", AllocCall(1))
    BY <1>1, <1>2, <1>4, <2>1, <2>3
  <2> QED BY <1>0, <1>7, <2>2, <2>3, ReserveIs
<1>8. CASE Reserve(t)
  <2>1. user[t] = "reserve" /\ UNCHANGED mgr /\ UserNow(t, "reserved")
    BY <1>0, <1>8, ReserveIs
  <2>2. PICK n : FrameNow(t, "sm", AllocCall(n))
    BY <1>0, <1>8, ReserveIs
  <2> QED BY <1>1, <1>2, <1>4, <2>1, <2>2
<1>9. CASE GiveToBase(t)
  <2>1. /\ user[t] = "reserved" /\ UNCHANGED mgr /\ f.pc = "done" /\ UserNow(t, "giving")
        /\ BothNow(t, NoCall, FreeCall(f.start, f.cnt))
    BY <1>0, <1>9, GiveIs
  <2>2. frame'[t]["sm"] = NoCall /\ frame'[t]["bsm"] = FreeCall(f.start, f.cnt)
    BY <2>1, BothThen
  <2>3. ~Working(f) /\ ~Working(g) /\ ~Working(frame'[t]["sm"]) /\ ~Working(frame'[t]["bsm"])
    BY <1>1, <1>2, <2>1, <2>2
  <2> QED BY <2>1, <2>2, <2>3, UserCount
<1>10. CASE GivenToBase(t)
  <2>1. /\ user[t] = "giving" /\ UNCHANGED mgr /\ UserNow(t, "check") /\ FrameNow(t, "bsm", NoCall)
    BY <1>0, <1>10, BlockIs
  <2>2. g.pc = "done"
    BY <1>10 DEF GivenToBase, Done
  <2>3. frame'[t]["sm"] = f /\ frame'[t]["bsm"] = NoCall
    BY <1>0, <2>1, FrameThen
  <2>4. ~Working(f) /\ ~Working(g) /\ f = NoCall
    BY <1>1, <1>2, <2>1, <2>2
  <2>5. \E m \in Mgr : \E h : FrameNow(t, m, h)
    BY <1>0, <2>1
  <2> QED BY <1>1, <2>1, <2>3, <2>4, <2>5, UserCount
<1>11. CASE GotBlock(t)
  <2>1. /\ user[t] = "block" /\ UNCHANGED mgr /\ f.pc = "done"
        /\ UserNow(t, "idle") /\ FrameNow(t, "sm", NoCall)
    BY <1>0, <1>11, BlockIs
  <2> QED BY <1>1, <1>4, <2>1
<1>12. CASE FreeBlock(t)
  <2>1. user[t] = "idle" /\ UNCHANGED mgr /\ UserNow(t, "free")
    BY <1>0, <1>12, BlockIs
  <2>2. PICK b : FrameNow(t, "sm", FreeCall(b, 1))
    BY <1>0, <1>12, BlockIs
  <2> QED BY <1>1, <1>2, <1>4, <2>1, <2>2
<1>13. CASE FreedBlock(t)
  <2>1. /\ user[t] = "free" /\ UNCHANGED mgr /\ f.pc = "done"
        /\ UserNow(t, "idle") /\ FrameNow(t, "sm", NoCall)
    BY <1>0, <1>13, BlockIs
  <2> QED BY <1>1, <1>4, <2>1
<1>14. CASE Fails(t)
  <2>1. /\ \/ user[t] \in {"base_block", "reserved", "block", "free"} /\ f.pc = "done"
           \/ user[t] = "giving" /\ g.pc = "done"
        /\ UNCHANGED mgr /\ UserNow(t, "idle") /\ BothNow(t, NoCall, NoCall)
    BY <1>0, <1>14, BlockIs
  <2>2. frame'[t]["sm"] = NoCall /\ frame'[t]["bsm"] = NoCall
    BY <2>1, BothThen
  <2>3. ~Working(f) /\ ~Working(g)
    BY <1>1, <1>2, <2>1
  <2> QED BY <1>1, <2>1, <2>2, <2>3, UserCount
<1> QED BY <1>5, <1>6, <1>7, <1>8, <1>9, <1>10, <1>11, <1>12, <1>13, <1>14

\* A container is closed and opened again.
LEMMA ReopenCounts ==
  ASSUME CountInv, TypeInv', Reopen \/ UNCHANGED vars
  PROVE  CountInv'
<1>1. UNCHANGED <<mgr, user, frame>>
  BY DEF Reopen, vars
<1>2. \A m \in Mgr : Exact(mgr'[m])
  BY <1>1 DEF CountInv
<1>3. \A t \in Thread : Idle(t)'
  BY <1>1 DEF CountInv, Idle
<1>4. \A t \in Thread, m \in Mgr : Holds(t, mgr'[m], frame'[t][m])
  BY <1>1 DEF CountInv
<1> QED BY <1>2, <1>3, <1>4 DEF CountInv

\* A container that was created has counted its blocks.
LEMMA CountInit ==
  ASSUME Init
  PROVE  CountInv
<1>1. TypeInv
  BY TypeInit
<1>2. PICK e : e = [addr |-> 3, len |-> EndBlk - 3]
  OBVIOUS
<1>3. e \in DeviceExtents /\ e.len = EndBlk - 3
  BY <1>2, SpaceManagerAssumption DEF DeviceExtents, Extent
<1>4. /\ mgr["sm"].ext = {e} /\ mgr["sm"].total = EndBlk - 3 /\ mgr["sm"].lock = NoThread
      /\ mgr["bsm"].ext = {} /\ mgr["bsm"].total = 0 /\ mgr["bsm"].lock = NoThread
  BY <1>2 DEF Init
<1>5. Number({e}) = EndBlk - 3 /\ Number({}) = 0 /\ Disjoint({e}) /\ Disjoint({})
  BY <1>3, NumberOf DEF Disjoint
<1>6. \A m \in Mgr : Exact(mgr[m])
  BY <1>4, <1>5 DEF Exact, Mgr
<1>7. \A t \in Thread, m \in Mgr : frame[t][m] = NoCall
  BY DEF Init
<1>8. \A t \in Thread : Idle(t)
  BY <1>7 DEF Idle, Mgr
<1>9. ASSUME NEW t \in Thread, NEW m \in Mgr
      PROVE  Holds(t, mgr[m], frame[t][m])
  <2>1. ~Working(frame[t][m])
    BY <1>7, NoLock
  <2>2. mgr[m].lock # t
    BY <1>4, SpaceManagerAssumption DEF Mgr
  <2> QED BY <2>1, <2>2 DEF Holds
<1> QED BY <1>1, <1>6, <1>8, <1>9 DEF CountInv

\* No call of the SPACE tree gives up, in any thread.
NeverGivesUp == \A t \in Thread : ~GiveUp(t)

\* A step of any thread in which no request of the SPACE tree is refused.
LEMMA CountStep ==
  ASSUME CountInv, [Next]_vars, [NeverGivesUp]_vars
  PROVE  CountInv'
<1>1. TypeInv'
  BY TypeStep DEF CountInv
<1>2. CASE Reopen \/ UNCHANGED vars
  BY <1>1, <1>2, ReopenCounts
<1>3. ASSUME NEW t \in Thread, AllocBlock(t) \/ FreeBlock(t) \/ Continue(t), NeverGivesUp
      PROVE  CountInv'
  <2>1. ~GiveUp(t)
    BY <1>3 DEF NeverGivesUp
  <2> QED BY <1>1, <1>3, <2>1, EnterAllocCounts, EnterFreeCounts, InsertCounts, LeaveCounts,
             RequestsCount, BaseCounts, UsersCount, Zenon
          DEF Continue, InManager, InTree, InUser
<1> QED BY <1>2, <1>3 DEF Next

(***************************************************************************)
(* However many threads there are and whatever they ask for: as long as no *)
(* request of the SPACE tree is refused, the counter of each manager is    *)
(* the number of blocks in its index whenever no call holds its lock.      *)
(* After a refusal it is not, which is what NoSpaceIsTrue is about.        *)
(***************************************************************************)
THEOREM CountersStayExact == Spec /\ [][NeverGivesUp]_vars => []Accounting
<1>1. Init => CountInv
  BY CountInit
<1>2. CountInv /\ [Next]_vars /\ [NeverGivesUp]_vars => CountInv'
  BY CountStep
<1>3. CountInv => Accounting
  BY DEF CountInv, Exact, Number, Accounting
<1> QED BY <1>1, <1>2, <1>3, PTL DEF Spec
-----------------------------------------------------------------------------
(* No block is lost, for one thread.                                       *)

\* The old node of the BASE tree while it is dropped, and all the places a block can be in.
OldNode(t) == IF frame[t]["bsm"].req = "drop" THEN {frame[t]["bsm"].old} ELSE {}

Found(t) ==
  Covered(mgr["sm"].ext) \cup Covered(mgr["bsm"].ext) \cup Nodes("sm") \cup Nodes("bsm")
    \cup {base_blk} \cup held \cup Taken(frame[t]["sm"]) \cup Taken(frame[t]["bsm"]) \cup OldNode(t)

\* What a thread at u awaits of its calls x of sm and y of bsm: one that is done has put
\* back all it had, one for a node or an object gives one block, and one to free frees.
Awaited(u, x, y) ==
  /\ x.pc = "done" => x.left = {}
  /\ y.pc = "done" => y.left = {}
  /\ u \in {"base_block", "block"} => x.cnt = 1
  /\ u = "free" => x.op = "free"
  /\ u = "giving" \/ x.req = "drop" => y.op = "free"
  /\ x.req \in {"move", "split"} => y.cnt = 1
  /\ y.req = "drop" => y.old # 0

NoneLost(t) ==
  /\ 1 .. (EndBlk - 1) \subseteq Found(t) /\ 0 \notin Nodes("bsm")
  /\ Awaited(user[t], frame[t]["sm"], frame[t]["bsm"])

\* A step that loses no block.
LEMMA NoneLostIf ==
  ASSUME NEW t, NoneLost(t), Found(t) \subseteq Found(t)' \cup {0}, 0 \notin Nodes("bsm")',
         NEW u, NEW x, NEW y, u = user'[t], x = frame'[t]["sm"], y = frame'[t]["bsm"],
         Awaited(u, x, y)
  PROVE  NoneLost(t)'
<1>1. 1 .. (EndBlk - 1) \subseteq Found(t)'
  BY DEF NoneLost
<1> QED BY <1>1 DEF NoneLost

\* The call of a manager loses none.
LEMMA CallLosesNone ==
  ASSUME NEW t \in Thread, NEW m \in Mgr, NoneLost(t), CallStep(t, m)
  PROVE  NoneLost(t)'
<1> USE DEF CallStep
<1>1. Nodes("sm")' = Nodes("sm") /\ Nodes("bsm")' = Nodes("bsm")
  BY DEF Nodes
<1>2. OldNode(t)' = OldNode(t)
  BY DEF OldNode, Mgr
<1>3. PICK u, x, y : u = user'[t] /\ x = frame'[t]["sm"] /\ y = frame'[t]["bsm"]
  OBVIOUS
<1>4. Covered(mgr'["sm"].ext) \cup Covered(mgr'["bsm"].ext) \cup Taken(x) \cup Taken(y)
        = Covered(mgr["sm"].ext) \cup Covered(mgr["bsm"].ext)
            \cup Taken(frame[t]["sm"]) \cup Taken(frame[t]["bsm"])
  BY <1>3 DEF Mgr
<1>5. Found(t)' = Found(t)
  BY <1>1, <1>2, <1>3, <1>4 DEF Found
<1>6. Awaited(u, x, y)
  BY <1>3 DEF NoneLost, Awaited, Mgr
<1>7. 0 \notin Nodes("bsm")'
  BY <1>1 DEF NoneLost
<1> QED BY <1>3, <1>5, <1>6, <1>7, NoneLostIf

\* A request of the SPACE tree loses none if what leaves the tree is in the call of bsm,
\* and what it has got in the tree.
LEMMA SpaceLosesNone ==
  ASSUME NEW t \in Thread, NoneLost(t), \A m \in Mgr : mgr'[m].ext = mgr[m].ext,
         UNCHANGED <<base_blk, held>>, tree'["bsm"] = tree["bsm"], frame[t]["bsm"].req # "drop",
         NEW u, NEW x, NEW y, u = user'[t], x = frame'[t]["sm"], y = frame'[t]["bsm"],
         Awaited(u, x, y), Taken(x) = Taken(frame[t]["sm"]),
         Nodes("sm") \cup Taken(frame[t]["bsm"]) \subseteq Nodes("sm")' \cup Taken(y)
  PROVE  NoneLost(t)'
<1>1. Nodes("bsm")' = Nodes("bsm")
  BY DEF Nodes
<1>2. OldNode(t) = {}
  BY DEF OldNode
<1>3. mgr'["sm"].ext = mgr["sm"].ext /\ mgr'["bsm"].ext = mgr["bsm"].ext
  BY DEF Mgr
<1>4. Found(t) \subseteq Found(t)'
  BY <1>1, <1>2, <1>3 DEF Found
<1>5. 0 \notin Nodes("bsm")'
  BY <1>1 DEF NoneLost
<1> QED BY <1>4, <1>5, NoneLostIf

\* Nor does one of the BASE tree, if what leaves it or base_blk is in the other or dropped.
LEMMA BaseLosesNone ==
  ASSUME NEW t \in Thread, NoneLost(t), UNCHANGED <<mgr, held>>, tree'["sm"] = tree["sm"],
         NEW u, NEW x, NEW y, u = user'[t], x = frame'[t]["sm"], y = frame'[t]["bsm"],
         Awaited(u, x, y), x = frame[t]["sm"], Taken(y) = Taken(frame[t]["bsm"]),
         0 \notin Nodes("bsm")',
         Nodes("bsm") \cup {base_blk} \cup OldNode(t)
           \subseteq Nodes("bsm")' \cup {base_blk'} \cup OldNode(t)' \cup {0}
  PROVE  NoneLost(t)'
<1>1. Nodes("sm")' = Nodes("sm")
  BY DEF Nodes
<1>2. Found(t) \subseteq Found(t)' \cup {0}
  BY <1>1 DEF Found
<1> QED BY <1>2, NoneLostIf

\* Nor do the actions of a thread outside the managers, if what leaves one of its places is
\* in another.
LEMMA UserLosesNone ==
  ASSUME NEW t \in Thread, NoneLost(t), UNCHANGED <<mgr, tree>>, frame[t]["bsm"].req # "drop",
         NEW u, NEW x, NEW y, u = user'[t], x = frame'[t]["sm"], y = frame'[t]["bsm"],
         Awaited(u, x, y),
         {base_blk} \cup held \cup Taken(frame[t]["sm"]) \cup Taken(frame[t]["bsm"])
           \subseteq {base_blk'} \cup held' \cup Taken(x) \cup Taken(y) \cup {0}
  PROVE  NoneLost(t)'
<1>1. Nodes("sm")' = Nodes("sm") /\ Nodes("bsm")' = Nodes("bsm")
  BY DEF Nodes
<1>2. OldNode(t) = {}
  BY DEF OldNode
<1>3. Found(t) \subseteq Found(t)' \cup {0}
  BY <1>1, <1>2 DEF Found
<1>4. 0 \notin Nodes("bsm")'
  BY <1>1 DEF NoneLost
<1> QED BY <1>3, <1>4, NoneLostIf
\* While sm has a call, the thread does not give blocks to bsm.
LEMMA Busy ==
  ASSUME TypeInv, NEW t \in Thread, Nested(t),
         frame[t]["sm"].pc # "idle" \/ frame[t]["sm"].req # "none"
  PROVE  user[t] # "giving"
  BY CallFields DEF Nested

\* What is awaited when the call f of sm goes on as x, with y the new call of bsm.
LEMMA AwaitedStep ==
  ASSUME NEW u, NEW f, NEW g, NEW x, NEW y, Awaited(u, f, g), u # "giving",
         x.op = f.op, x.cnt = f.cnt, x.pc # "done", y.pc # "done", y.req # "drop",
         x.req = "drop" => y.op = "free", x.req \in {"move", "split"} => y.cnt = 1
  PROVE  Awaited(u, x, y)
  BY DEF Awaited

\* The calls that the SPACE tree makes.
LEMMA BlockCalls ==
  ASSUME NEW b \in Nat
  PROVE  /\ NoCall.pc # "done" /\ NoCall.req = "none"
         /\ AllocCall(1).pc # "done" /\ AllocCall(1).req = "none" /\ AllocCall(1).cnt = 1
         /\ FreeCall(b, 1).pc # "done" /\ FreeCall(b, 1).req = "none"
         /\ FreeCall(b, 1).op = "free" /\ Taken(FreeCall(b, 1)) = {b}
<1>1. Taken(FreeCall(b, 1)) = {b}
  BY CallsBegin, RunOf
<1> QED BY <1>1, CallFields

\* What a call of bsm that is done has: the block it was asked for, or nothing.
LEMMA OneGiven ==
  ASSUME TypeInv, NEW t \in Thread, NEW m \in Mgr, NEW f, f = frame[t][m], f.pc = "done", f.left = {}
  PROVE  /\ f.req = "none"
         /\ f.op = "alloc" /\ f.ret = "ok" => Taken(f) = Run(f.start, f.cnt)
         /\ f.op = "alloc" /\ f.ret = "ok" /\ f.cnt = 1 => Taken(f) = {f.start}
         /\ f.op = "free" \/ f.ret # "ok" => Taken(f) = {}
<1>1. f.req = "none" /\ f.start \in Nat
  BY FrameFacts DEF InRange, Device
<1>2. Covered(f.left) = {}
  BY RealNothing
<1>3. Run(f.start, 1) = {f.start}
  BY <1>1, RunOf
<1> QED BY <1>1, <1>2, <1>3 DEF Taken

\* The requests of the SPACE tree begin.
LEMMA AsksLoseNone ==
  ASSUME NEW t \in Thread, SpaceInv(t), NoneLost(t), Move(t) \/ Split(t) \/ Shrink(t)
  PROVE  NoneLost(t)'
<1> DEFINE f == frame[t]["sm"]
           g == frame[t]["bsm"]
           T == tree["sm"]
<1>0. TypeInv /\ Nested(t) /\ FrameOK(f) /\ "sm" \in Mgr /\ "bsm" \in Mgr
  BY Begin DEF Mgr
<1>1. /\ f.pc \in {"removed", "ready", "split", "inserted"} /\ f.req = "none"
      /\ UNCHANGED <<mgr, base_blk, held, user>>
  BY <1>0, MoveIs, SplitIs, ShrinkIs
<1>2. g = NoCall /\ user[t] # "giving"
  BY <1>0, <1>1, NoRequest
<1>3. Taken(g) = {} /\ g.req # "drop"
  BY <1>2, PlainCalls
<1>4. PICK u, x, y : u = user'[t] /\ x = frame'[t]["sm"] /\ y = frame'[t]["bsm"]
  OBVIOUS
<1>5. u # "giving" /\ Awaited(u, f, g)
  BY <1>1, <1>2, <1>4 DEF NoneLost
<1>6. ASSUME UNCHANGED tree, y = AllocCall(1), NEW p \in {"removed", "ready", "split", "inserted"},
             NEW q \in {"move", "split"}, NEW o,
             x = FrameOf(p, f.op, f.start, f.cnt, f.ret, f.left, q, o)
      PROVE  NoneLost(t)'
  <2>1. Taken(x) = Taken(f)
    <3>1. Continues(f, x, p, q, o)
      BY <1>1, <1>6 DEF Continues
    <3> QED BY <1>0, <3>1, SameCall
  <2>2. Awaited(u, x, y)
    <3>1. y.pc # "done" /\ y.req # "drop" /\ y.cnt = 1
      BY <1>6, BlockCalls
    <3>2. x.op = f.op /\ x.cnt = f.cnt /\ x.pc # "done" /\ x.req # "drop"
      BY <1>6, Fields
    <3> QED BY <1>5, <3>1, <3>2, AwaitedStep
  <2>3. Nodes("sm")' = Nodes("sm")
    BY <1>6 DEF Nodes
  <2> QED BY <1>1, <1>3, <1>4, <1>6, <2>1, <2>2, <2>3, SpaceLosesNone
<1>7. CASE Move(t)
  <2>1. /\ UNCHANGED tree
        /\ \E b : BothNow(t, FrameOf(f.pc, f.op, f.start, f.cnt, f.ret, f.left, "move", b), AllocCall(1))
    BY <1>0, <1>7, MoveIs
  <2>2. PICK b : /\ x = FrameOf(f.pc, f.op, f.start, f.cnt, f.ret, f.left, "move", b)
                 /\ y = AllocCall(1)
    BY <1>4, <2>1, BothThen
  <2> QED BY <1>1, <1>6, <2>1, <2>2
<1>8. CASE Split(t)
  <2>1. /\ UNCHANGED tree
        /\ \E p \in {"removed", "split"} :
             BothNow(t, FrameOf(p, f.op, f.start, f.cnt, f.ret, f.left, "split", f.old), AllocCall(1))
    BY <1>0, <1>8, SplitIs
  <2>2. PICK p \in {"removed", "split"} :
          /\ x = FrameOf(p, f.op, f.start, f.cnt, f.ret, f.left, "split", f.old)
          /\ y = AllocCall(1)
    BY <1>4, <2>1, BothThen
  <2> QED BY <1>6, <2>1, <2>2
<1>9. CASE Shrink(t)
  <2>1. PICK b \in T.dirty :
          /\ TreeNow("sm", TreeOf(T.clean, T.dirty \ {b}))
          /\ BothNow(t, FrameOf(f.pc, f.op, f.start, f.cnt, f.ret, f.left, "drop", b), FreeCall(b, 1))
    BY <1>0, <1>9, ShrinkIs
  <2>2. /\ x = FrameOf(f.pc, f.op, f.start, f.cnt, f.ret, f.left, "drop", b) /\ y = FreeCall(b, 1)
    BY <1>4, <2>1, BothThen
  <2>3. /\ tree'["sm"] = TreeOf(T.clean, T.dirty \ {b}) /\ tree'["bsm"] = tree["bsm"]
    BY <2>1, TreeThen
  <2>4. tree'["sm"].clean = T.clean /\ tree'["sm"].dirty = T.dirty \ {b}
    BY <2>3, Fields
  <2>5. b \in Nat
    BY <1>0, ManagerFacts DEF Device
  <2>6. Taken(y) = {b} /\ y.pc # "done" /\ y.req = "none" /\ y.op = "free"
    BY <2>2, <2>5, BlockCalls
  <2>7. Nodes("sm") \subseteq Nodes("sm")' \cup Taken(y)
    BY <2>4, <2>6 DEF Nodes
  <2>8. Taken(x) = Taken(f)
    <3>1. Continues(f, x, f.pc, "drop", b)
      BY <1>1, <2>2 DEF Continues
    <3> QED BY <1>0, <3>1, SameCall
  <2>9. Awaited(u, x, y)
    <3>1. x.op = f.op /\ x.cnt = f.cnt /\ x.pc # "done" /\ x.req = "drop"
      BY <1>1, <2>2, Fields
    <3> QED BY <1>5, <2>6, <3>1, AwaitedStep
  <2> QED BY <1>1, <1>3, <1>4, <2>3, <2>7, <2>8, <2>9, SpaceLosesNone
<1> QED BY <1>7, <1>8, <1>9

\* The requests of the SPACE tree are answered.
LEMMA AnswersLoseNone ==
  ASSUME NEW t \in Thread, SpaceInv(t), NoneLost(t), Moved(t) \/ HasSplit(t) \/ Dropped(t)
  PROVE  NoneLost(t)'
<1> DEFINE f == frame[t]["sm"]
           g == frame[t]["bsm"]
           T == tree["sm"]
<1>0. TypeInv /\ Nested(t) /\ FrameOK(f) /\ "sm" \in Mgr /\ "bsm" \in Mgr
  BY Begin DEF Mgr
<1>1. /\ f.req # "none" /\ g.pc = "done" /\ g.ret = "ok" /\ UNCHANGED <<mgr, base_blk, held, user>>
  BY <1>0, MovedIs, HasSplitIs, DroppedIs, Zenon DEF Dropped, Done
<1>2. f.pc \in {"removed", "split", "inserted"} /\ user[t] # "giving"
  BY <1>0, <1>1, Requests, Busy
<1>3. PICK u, x, y : u = user'[t] /\ x = frame'[t]["sm"] /\ y = frame'[t]["bsm"]
  OBVIOUS
<1>4. u # "giving" /\ Awaited(u, f, g)
  BY <1>1, <1>2, <1>3 DEF NoneLost
<1>5. g.left = {}
  BY <1>1, <1>4 DEF Awaited
<1>6. g.req = "none"
  BY <1>0, <1>1, <1>5, OneGiven
<1>7. \A q, o : x = FrameOf(f.pc, f.op, f.start, f.cnt, f.ret, f.left, q, o) => Taken(x) = Taken(f)
  <2> SUFFICES ASSUME NEW q, NEW o, x = FrameOf(f.pc, f.op, f.start, f.cnt, f.ret, f.left, q, o)
               PROVE  Taken(x) = Taken(f)
    OBVIOUS
  <2>1. Continues(f, x, f.pc, q, o)
    BY <1>2 DEF Continues
  <2> QED BY <1>0, <2>1, SameCall
<1>8. CASE Moved(t)
  <2>1. /\ f.req = "move" /\ TreeNow("sm", TreeOf(T.clean \ {f.old}, T.dirty \cup {g.start}))
        /\ BothNow(t, FrameOf(f.pc, f.op, f.start, f.cnt, f.ret, f.left, "drop", f.old),
                   FreeCall(f.old, 1))
    BY <1>0, <1>8, MovedIs
  <2>2. /\ x = FrameOf(f.pc, f.op, f.start, f.cnt, f.ret, f.left, "drop", f.old)
        /\ y = FreeCall(f.old, 1)
    BY <1>3, <2>1, BothThen
  <2>3. /\ tree'["sm"] = TreeOf(T.clean \ {f.old}, T.dirty \cup {g.start}) /\ tree'["bsm"] = tree["bsm"]
    BY <2>1, TreeThen
  <2>4. tree'["sm"].clean = T.clean \ {f.old} /\ tree'["sm"].dirty = T.dirty \cup {g.start}
    BY <2>3, Fields
  <2>5. Taken(g) = {g.start}
    <3>1. g.op = "alloc" /\ g.cnt = 1
      BY <1>0, <1>4, <2>1 DEF Nested, Awaited
    <3> QED BY <1>0, <1>1, <1>5, <3>1, OneGiven
  <2>6. f.old \in Nat
    BY <1>0, FrameFacts DEF InRange, Device
  <2>7. Taken(y) = {f.old} /\ y.pc # "done" /\ y.req = "none" /\ y.op = "free"
    BY <2>2, <2>6, BlockCalls
  <2>8. Nodes("sm") \cup Taken(g) \subseteq Nodes("sm")' \cup Taken(y)
    BY <2>4, <2>5, <2>7 DEF Nodes
  <2>9. Awaited(u, x, y)
    <3>1. x.op = f.op /\ x.cnt = f.cnt /\ x.pc # "done" /\ x.req = "drop"
      BY <1>2, <2>2, Fields
    <3> QED BY <1>4, <2>7, <3>1, AwaitedStep
  <2> QED BY <1>1, <1>3, <1>6, <1>7, <2>2, <2>3, <2>8, <2>9, SpaceLosesNone
<1>9. CASE HasSplit(t)
  <2>1. /\ f.req = "split" /\ TreeNow("sm", TreeOf(T.clean, T.dirty \cup {g.start}))
        /\ BothNow(t, FrameOf(f.pc, f.op, f.start, f.cnt, f.ret, f.left, "none", f.old), NoCall)
    BY <1>0, <1>9, HasSplitIs
  <2>2. /\ x = FrameOf(f.pc, f.op, f.start, f.cnt, f.ret, f.left, "none", f.old) /\ y = NoCall
    BY <1>3, <2>1, BothThen
  <2>3. /\ tree'["sm"] = TreeOf(T.clean, T.dirty \cup {g.start}) /\ tree'["bsm"] = tree["bsm"]
    BY <2>1, TreeThen
  <2>4. tree'["sm"].clean = T.clean /\ tree'["sm"].dirty = T.dirty \cup {g.start}
    BY <2>3, Fields
  <2>5. Taken(g) = {g.start}
    <3>1. g.op = "alloc" /\ g.cnt = 1
      BY <1>0, <1>4, <2>1 DEF Nested, Awaited
    <3> QED BY <1>0, <1>1, <1>5, <3>1, OneGiven
  <2>6. Nodes("sm") \cup Taken(g) \subseteq Nodes("sm")' \cup Taken(y)
    BY <2>4, <2>5 DEF Nodes
  <2>7. Awaited(u, x, y)
    <3>1. x.op = f.op /\ x.cnt = f.cnt /\ x.pc # "done" /\ x.req = "none"
      BY <1>2, <2>2, Fields
    <3>2. y.pc # "done" /\ y.req # "drop"
      BY <2>2, CallFields
    <3> QED BY <1>4, <3>1, <3>2, AwaitedStep
  <2> QED BY <1>1, <1>3, <1>6, <1>7, <2>2, <2>3, <2>6, <2>7, SpaceLosesNone
<1>10. CASE Dropped(t)
  <2>1. /\ f.req = "drop" /\ UNCHANGED tree
        /\ BothNow(t, FrameOf(f.pc, f.op, f.start, f.cnt, f.ret, f.left, "none", 0), NoCall)
    BY <1>0, <1>10, DroppedIs
  <2>2. x = FrameOf(f.pc, f.op, f.start, f.cnt, f.ret, f.left, "none", 0) /\ y = NoCall
    BY <1>3, <2>1, BothThen
  <2>3. Taken(g) = {}
    <3>1. g.op = "free"
      BY <1>4, <2>1 DEF Awaited
    <3> QED BY <1>0, <1>1, <1>5, <3>1, OneGiven
  <2>4. Nodes("sm")' = Nodes("sm")
    BY <2>1 DEF Nodes
  <2>5. Awaited(u, x, y)
    <3>1. x.op = f.op /\ x.cnt = f.cnt /\ x.pc # "done" /\ x.req = "none"
      BY <1>2, <2>2, Fields
    <3>2. y.pc # "done" /\ y.req # "drop"
      BY <2>2, CallFields
    <3> QED BY <1>4, <3>1, <3>2, AwaitedStep
  <2> QED BY <1>1, <1>3, <1>6, <1>7, <2>1, <2>2, <2>3, <2>4, <2>5, SpaceLosesNone
<1> QED BY <1>8, <1>9, <1>10
\* What is awaited when the call g of bsm goes on as y.
LEMMA AwaitedBase ==
  ASSUME NEW u, NEW f, NEW g, NEW y, Awaited(u, f, g),
         y.op = g.op, y.cnt = g.cnt, y.pc # "done", y.req = "drop" => y.old # 0
  PROVE  Awaited(u, f, y)
  BY DEF Awaited

\* base_blk is one block, or 0 when it has none: it is used while it has one, and takes one
\* while it has none.
OneByOne == \A t \in Thread :
  /\ BaseMove(t) \/ BaseSplit(t) => base_blk # 0
  /\ BaseDropped(t) \/ GotBaseBlock(t) => base_blk = 0

\* The BASE tree loses no block, as long as it keeps to that.
LEMMA BaseTreeLosesNone ==
  ASSUME NEW t \in Thread, SpaceInv(t), NoneLost(t), OneByOne,
         BaseMove(t) \/ BaseDropped(t) \/ BaseSplit(t) \/ BaseShrink(t)
  PROVE  NoneLost(t)'
<1> DEFINE g == frame[t]["bsm"]
           T == tree["bsm"]
<1>0. TypeInv /\ FrameOK(g) /\ "sm" \in Mgr /\ "bsm" \in Mgr /\ "sm" # "bsm" /\ 0 \notin Nodes("bsm")
  BY Begin DEF Mgr, NoneLost
<1>1. UNCHANGED <<mgr, held, user>>
  BY <1>0, BaseMoveIs, BaseDroppedIs, BaseSplitIs, BaseShrinkIs
<1>2. PICK u, x, y : u = user'[t] /\ x = frame'[t]["sm"] /\ y = frame'[t]["bsm"]
  OBVIOUS
<1>3. Awaited(u, frame[t]["sm"], g)
  BY <1>1, <1>2 DEF NoneLost
<1>4. ASSUME NEW p, NEW q, NEW o, g.pc \in {"removed", "ready", "split", "inserted"},
             p \in {"removed", "ready", "split", "inserted"}, q = "drop" => o # 0,
             FrameNow(t, "bsm", FrameOf(p, g.op, g.start, g.cnt, g.ret, g.left, q, o))
      PROVE  /\ x = frame[t]["sm"] /\ Taken(y) = Taken(g) /\ Awaited(u, x, y)
             /\ OldNode(t)' = IF q = "drop" THEN {o} ELSE {}
  <2>1. y = FrameOf(p, g.op, g.start, g.cnt, g.ret, g.left, q, o) /\ x = frame[t]["sm"]
    BY <1>0, <1>2, <1>4, FrameThen
  <2>2. y.pc = p /\ y.op = g.op /\ y.cnt = g.cnt /\ y.req = q /\ y.old = o
    BY <2>1, Fields
  <2>3. Taken(y) = Taken(g)
    <3>1. Continues(g, y, p, q, o)
      BY <1>4, <2>1 DEF Continues
    <3> QED BY <1>0, <3>1, SameCall
  <2>4. Awaited(u, x, y)
    BY <1>3, <1>4, <2>1, <2>2, AwaitedBase
  <2>5. OldNode(t)' = IF q = "drop" THEN {o} ELSE {}
    BY <1>2, <2>2 DEF OldNode
  <2> QED BY <2>1, <2>3, <2>4, <2>5
<1>5. CASE BaseMove(t)
  <2>1. /\ g.pc \in {"removed", "split", "inserted"} /\ g.req = "none" /\ base_blk' = 0
        /\ base_blk # 0
    BY <1>0, <1>5, BaseMoveIs DEF OneByOne
  <2>2. PICK b \in T.clean :
          /\ TreeNow("bsm", TreeOf(T.clean \ {b}, T.dirty \cup {base_blk}))
          /\ FrameNow(t, "bsm", FrameOf(g.pc, g.op, g.start, g.cnt, g.ret, g.left, "drop", b))
    BY <1>0, <1>5, BaseMoveIs
  <2>3. tree'["bsm"] = TreeOf(T.clean \ {b}, T.dirty \cup {base_blk}) /\ tree'["sm"] = tree["sm"]
    BY <2>2, TreeThen
  <2>4. tree'["bsm"].clean = T.clean \ {b} /\ tree'["bsm"].dirty = T.dirty \cup {base_blk}
    BY <2>3, Fields
  <2>5. b # 0 /\ 0 \notin Nodes("bsm")'
    BY <1>0, <2>1, <2>2, <2>4 DEF Nodes
  <2>6. x = frame[t]["sm"] /\ Taken(y) = Taken(g) /\ Awaited(u, x, y) /\ OldNode(t)' = {b}
    BY <1>4, <2>1, <2>2, <2>5
  <2>7. Nodes("bsm") \cup {base_blk} \cup OldNode(t)
          \subseteq Nodes("bsm")' \cup {base_blk'} \cup OldNode(t)' \cup {0}
    BY <2>1, <2>4, <2>6 DEF Nodes, OldNode
  <2> QED BY <1>1, <1>2, <2>3, <2>5, <2>6, <2>7, BaseLosesNone
<1>6. CASE BaseDropped(t)
  <2>1. /\ g.req = "drop" /\ base_blk' = g.old /\ UNCHANGED tree /\ base_blk = 0
        /\ FrameNow(t, "bsm", FrameOf(g.pc, g.op, g.start, g.cnt, g.ret, g.left, "none", 0))
    BY <1>0, <1>6, BaseDroppedIs DEF OneByOne
  <2>2. g.pc \in {"removed", "split", "inserted"}
    BY <1>0, <2>1, Requests
  <2>3. x = frame[t]["sm"] /\ Taken(y) = Taken(g) /\ Awaited(u, x, y)
    BY <1>4, <2>1, <2>2
  <2>4. Nodes("bsm")' = Nodes("bsm") /\ OldNode(t) = {base_blk'}
    BY <2>1 DEF Nodes, OldNode
  <2>5. Nodes("bsm") \cup {base_blk} \cup OldNode(t)
          \subseteq Nodes("bsm")' \cup {base_blk'} \cup OldNode(t)' \cup {0}
    BY <2>1, <2>4
  <2> QED BY <1>0, <1>1, <1>2, <2>1, <2>3, <2>4, <2>5, BaseLosesNone
<1>7. CASE BaseSplit(t)
  <2>1. /\ g.pc \in {"removed", "ready", "split", "inserted"} /\ g.req = "none" /\ base_blk' = 0
        /\ TreeNow("bsm", TreeOf(T.clean, T.dirty \cup {base_blk})) /\ base_blk # 0
    BY <1>0, <1>7, BaseSplitIs DEF OneByOne
  <2>7. PICK p \in {"removed", "split"} :
          FrameNow(t, "bsm", FrameOf(p, g.op, g.start, g.cnt, g.ret, g.left, "none", g.old))
    BY <1>0, <1>7, <2>1, BaseSplitIs
  <2>2. x = frame[t]["sm"] /\ Taken(y) = Taken(g) /\ Awaited(u, x, y) /\ OldNode(t)' = {}
    BY <1>4, <2>1, <2>7
  <2>3. tree'["bsm"] = TreeOf(T.clean, T.dirty \cup {base_blk}) /\ tree'["sm"] = tree["sm"]
    BY <2>1, TreeThen
  <2>4. tree'["bsm"].clean = T.clean /\ tree'["bsm"].dirty = T.dirty \cup {base_blk}
    BY <2>3, Fields
  <2>5. 0 \notin Nodes("bsm")'
    BY <1>0, <2>1, <2>4 DEF Nodes
  <2>6. Nodes("bsm") \cup {base_blk} \cup OldNode(t)
          \subseteq Nodes("bsm")' \cup {base_blk'} \cup OldNode(t)' \cup {0}
    BY <2>1, <2>4 DEF Nodes, OldNode
  <2> QED BY <1>1, <1>2, <2>2, <2>3, <2>5, <2>6, BaseLosesNone
<1>8. CASE BaseShrink(t)
  <2>1. g.pc = "removed" /\ g.req = "none" /\ UNCHANGED base_blk
    BY <1>0, <1>8, BaseShrinkIs
  <2>2. PICK b \in T.dirty :
          /\ TreeNow("bsm", TreeOf(T.clean, T.dirty \ {b}))
          /\ FrameNow(t, "bsm", FrameOf(g.pc, g.op, g.start, g.cnt, g.ret, g.left, "drop", b))
    BY <1>0, <1>8, BaseShrinkIs
  <2>3. tree'["bsm"] = TreeOf(T.clean, T.dirty \ {b}) /\ tree'["sm"] = tree["sm"]
    BY <2>2, TreeThen
  <2>4. tree'["bsm"].clean = T.clean /\ tree'["bsm"].dirty = T.dirty \ {b}
    BY <2>3, Fields
  <2>5. b # 0 /\ 0 \notin Nodes("bsm")'
    BY <1>0, <2>2, <2>4 DEF Nodes
  <2>6. x = frame[t]["sm"] /\ Taken(y) = Taken(g) /\ Awaited(u, x, y) /\ OldNode(t)' = {b}
    BY <1>4, <2>1, <2>2, <2>5
  <2>7. Nodes("bsm") \cup {base_blk} \cup OldNode(t)
          \subseteq Nodes("bsm")' \cup {base_blk'} \cup OldNode(t)' \cup {0}
    BY <2>1, <2>4, <2>6 DEF Nodes, OldNode
  <2> QED BY <1>1, <1>2, <2>3, <2>5, <2>6, <2>7, BaseLosesNone
<1> QED BY <1>5, <1>6, <1>7, <1>8
\* A thread asks for blocks, or gives one back.
LEMMA BeginsLoseNone ==
  ASSUME NEW t \in Thread, SpaceInv(t), NoneLost(t),
         AllocBlock(t) \/ CheckReserve(t) \/ Reserve(t) \/ FreeBlock(t)
  PROVE  NoneLost(t)'
<1>0. TypeInv /\ Nested(t) /\ "sm" \in Mgr /\ "bsm" \in Mgr /\ "sm" # "bsm"
  BY Begin DEF Mgr
<1>1. user[t] \in {"idle", "check", "reserve"} /\ UNCHANGED <<mgr, tree, base_blk>>
  BY <1>0, ReserveIs, BlockIs
<1>2. frame[t]["sm"] = NoCall /\ frame[t]["bsm"] = NoCall
  <2>1. frame[t]["sm"] = NoCall
    BY <1>0, <1>1 DEF Nested
  <2> QED BY <1>0, <1>1, <2>1, Alone
<1>3. Taken(frame[t]["sm"]) = {} /\ Taken(frame[t]["bsm"]) = {} /\ frame[t]["bsm"].req # "drop"
  BY <1>2, PlainCalls
<1>4. PICK u, x, y : u = user'[t] /\ x = frame'[t]["sm"] /\ y = frame'[t]["bsm"]
  OBVIOUS
<1>5. CASE FreeBlock(t)
  <2>1. UserNow(t, "free")
    BY <1>0, <1>5, BlockIs
  <2>2. PICK b \in held : held' = held \ {b} /\ FrameNow(t, "sm", FreeCall(b, 1))
    BY <1>0, <1>5, BlockIs
  <2>3. u = "free" /\ x = FreeCall(b, 1) /\ y = NoCall
    BY <1>0, <1>2, <1>4, <2>1, <2>2, FrameThen, UserThen
  <2>4. b \in Nat
    BY <1>0, <2>2 DEF TypeInv, RestOK, Device
  <2>5. Taken(x) = {b} /\ Awaited(u, x, y)
    BY <2>3, <2>4, BlockCalls DEF Awaited
  <2>6. {base_blk} \cup held \cup Taken(frame[t]["sm"]) \cup Taken(frame[t]["bsm"])
          \subseteq {base_blk'} \cup held' \cup Taken(x) \cup Taken(y) \cup {0}
    BY <1>1, <1>3, <2>2, <2>5
  <2> QED BY <1>1, <1>3, <1>4, <2>5, <2>6, UserLosesNone
<1>6. CASE AllocBlock(t) \/ CheckReserve(t) \/ Reserve(t)
  <2>1. /\ UNCHANGED held
        /\ \/ UserNow(t, "base_block") /\ FrameNow(t, "sm", AllocCall(1))
           \/ UserNow(t, "block") /\ FrameNow(t, "sm", AllocCall(1))
           \/ (UserNow(t, "check") \/ UserNow(t, "reserve")) /\ UNCHANGED frame
           \/ UserNow(t, "reserved") /\ \E n : FrameNow(t, "sm", AllocCall(n))
    BY <1>0, <1>6, ReserveIs, Zenon
  <2>2. y = NoCall /\ \/ u \in {"check", "reserve"} /\ x = NoCall
                      \/ u \in {"base_block", "block"} /\ x = AllocCall(1)
                      \/ u = "reserved" /\ \E n : x = AllocCall(n)
    BY <1>0, <1>2, <1>4, <2>1, FrameThen, UserThen
  <2>3. Awaited(u, x, y)
    BY <2>2, CallFields DEF Awaited
  <2>4. {base_blk} \cup held \cup Taken(frame[t]["sm"]) \cup Taken(frame[t]["bsm"])
          \subseteq {base_blk'} \cup held' \cup Taken(x) \cup Taken(y) \cup {0}
    BY <1>1, <1>3, <2>1
  <2> QED BY <1>1, <1>3, <1>4, <2>3, <2>4, UserLosesNone
<1> QED BY <1>5, <1>6

\* A thread gets its blocks, or has given one back.
LEMMA EndsLoseNone ==
  ASSUME NEW t \in Thread, SpaceInv(t), NoneLost(t), OneByOne,
         \/ GotBaseBlock(t) \/ GotBlock(t) \/ GiveToBase(t)
         \/ GivenToBase(t) \/ FreedBlock(t) \/ Fails(t)
  PROVE  NoneLost(t)'
<1> DEFINE f == frame[t]["sm"]
           g == frame[t]["bsm"]
<1>0. TypeInv /\ Nested(t) /\ "sm" \in Mgr /\ "bsm" \in Mgr /\ "sm" # "bsm"
  BY Begin DEF Mgr
<1>1. Awaited(user[t], f, g) /\ UNCHANGED <<mgr, tree>>
  BY <1>0, ReserveIs, GiveIs, BlockIs DEF NoneLost
<1>2. PICK u, x, y : u = user'[t] /\ x = frame'[t]["sm"] /\ y = frame'[t]["bsm"]
  OBVIOUS
<1>3. Awaited("idle", NoCall, NoCall) /\ Awaited("check", NoCall, NoCall)
  BY CallFields DEF Awaited
<1>4. CASE user[t] # "giving" /\ f.pc = "done"
  <2>1. g = NoCall /\ Taken(g) = {} /\ g.req # "drop" /\ f.left = {}
    <3>1. g = NoCall
      BY <1>0, <1>4, Alone
    <3> QED BY <1>1, <1>4, <3>1, PlainCalls DEF Awaited
  <2>2. CASE GotBaseBlock(t)
    <3>1. /\ user[t] = "base_block" /\ f.ret = "ok" /\ base_blk' = f.start /\ UNCHANGED held
          /\ UserNow(t, "check") /\ FrameNow(t, "sm", NoCall)
      BY <1>0, <2>2, ReserveIs
    <3>2. u = "check" /\ x = NoCall /\ y = NoCall
      BY <1>0, <1>2, <2>1, <3>1, FrameThen, UserThen
    <3>3. Taken(f) = {f.start}
      <4>1. f.op = "alloc" /\ f.cnt = 1
        BY <1>0, <1>1, <3>1 DEF Nested, Awaited
      <4> QED BY <1>0, <1>4, <2>1, <3>1, <4>1, OneGiven
    <3>4. base_blk = 0
      BY <2>2 DEF OneByOne
    <3>5. {base_blk} \cup held \cup Taken(f) \cup Taken(g)
            \subseteq {base_blk'} \cup held' \cup Taken(x) \cup Taken(y) \cup {0}
      BY <2>1, <3>1, <3>3, <3>4
    <3> QED BY <1>1, <1>2, <1>3, <2>1, <3>2, <3>5, UserLosesNone
  <2>3. CASE GotBlock(t)
    <3>1. /\ user[t] = "block" /\ f.ret = "ok" /\ held' = held \cup {f.start} /\ UNCHANGED base_blk
          /\ UserNow(t, "idle") /\ FrameNow(t, "sm", NoCall)
      BY <1>0, <2>3, BlockIs
    <3>2. u = "idle" /\ x = NoCall /\ y = NoCall
      BY <1>0, <1>2, <2>1, <3>1, FrameThen, UserThen
    <3>3. Taken(f) = {f.start}
      <4>1. f.op = "alloc" /\ f.cnt = 1
        BY <1>0, <1>1, <3>1 DEF Nested, Awaited
      <4> QED BY <1>0, <1>4, <2>1, <3>1, <4>1, OneGiven
    <3>4. {base_blk} \cup held \cup Taken(f) \cup Taken(g)
            \subseteq {base_blk'} \cup held' \cup Taken(x) \cup Taken(y) \cup {0}
      BY <2>1, <3>1, <3>3
    <3> QED BY <1>1, <1>2, <1>3, <2>1, <3>2, <3>4, UserLosesNone
  <2>4. CASE GiveToBase(t)
    <3>1. /\ user[t] = "reserved" /\ f.ret = "ok" /\ UNCHANGED <<base_blk, held>>
          /\ UserNow(t, "giving") /\ BothNow(t, NoCall, FreeCall(f.start, f.cnt))
      BY <1>0, <2>4, GiveIs
    <3>2. u = "giving" /\ x = NoCall /\ y = FreeCall(f.start, f.cnt)
      BY <1>2, <3>1, BothThen, UserThen
    <3>3. Taken(f) = Run(f.start, f.cnt)
      <4>1. f.op = "alloc"
        BY <1>0, <3>1 DEF Nested
      <4> QED BY <1>0, <1>4, <2>1, <3>1, <4>1, OneGiven
    <3>4. Taken(y) = Taken(f)
      BY <3>2, <3>3, CallsBegin
    <3>5. Awaited(u, x, y)
      BY <3>2, CallFields DEF Awaited
    <3>6. {base_blk} \cup held \cup Taken(f) \cup Taken(g)
            \subseteq {base_blk'} \cup held' \cup Taken(x) \cup Taken(y) \cup {0}
      BY <2>1, <3>1, <3>4
    <3> QED BY <1>1, <1>2, <2>1, <3>5, <3>6, UserLosesNone
  <2>5. CASE FreedBlock(t)
    <3>1. /\ user[t] = "free" /\ UNCHANGED <<base_blk, held>>
          /\ UserNow(t, "idle") /\ FrameNow(t, "sm", NoCall)
      BY <1>0, <2>5, BlockIs
    <3>2. u = "idle" /\ x = NoCall /\ y = NoCall
      BY <1>0, <1>2, <2>1, <3>1, FrameThen, UserThen
    <3>3. Taken(f) = {}
      <4>1. f.op = "free"
        BY <1>1, <3>1 DEF Awaited
      <4> QED BY <1>0, <1>4, <2>1, <4>1, OneGiven
    <3>4. {base_blk} \cup held \cup Taken(f) \cup Taken(g)
            \subseteq {base_blk'} \cup held' \cup Taken(x) \cup Taken(y) \cup {0}
      BY <2>1, <3>1, <3>3
    <3> QED BY <1>1, <1>2, <1>3, <2>1, <3>2, <3>4, UserLosesNone
  <2>6. CASE Fails(t)
    <3>1. UNCHANGED <<base_blk, held>> /\ UserNow(t, "idle") /\ BothNow(t, NoCall, NoCall)
      BY <1>0, <2>6, BlockIs
    <3>2. u = "idle" /\ x = NoCall /\ y = NoCall
      BY <1>2, <3>1, BothThen, UserThen
    <3>3. Taken(f) = {}
      <4>1. f.ret # "ok"
        BY <1>4, <2>6, Zenon DEF Fails
      <4> QED BY <1>0, <1>4, <2>1, <4>1, OneGiven
    <3>4. {base_blk} \cup held \cup Taken(f) \cup Taken(g)
            \subseteq {base_blk'} \cup held' \cup Taken(x) \cup Taken(y) \cup {0}
      BY <2>1, <3>1, <3>3
    <3> QED BY <1>1, <1>2, <1>3, <2>1, <3>2, <3>4, UserLosesNone
  <2>7. CASE GivenToBase(t)
    BY <1>0, <1>4, <2>7, BlockIs
  <2> QED BY <2>2, <2>3, <2>4, <2>5, <2>6, <2>7
<1>5. CASE user[t] = "giving" /\ g.pc = "done"
  <2>1. f = NoCall /\ Taken(f) = {} /\ g.left = {} /\ g.op = "free"
    <3>1. f = NoCall
      BY <1>0, <1>5 DEF Nested
    <3> QED BY <1>1, <1>5, <3>1, PlainCalls DEF Awaited
  <2>2. Taken(g) = {} /\ g.req # "drop"
    BY <1>0, <1>5, <2>1, OneGiven
  <2>3. /\ UNCHANGED <<base_blk, held>> /\ u \in {"idle", "check"} /\ x = NoCall /\ y = NoCall
    <3>1. CASE GivenToBase(t)
      <4>1. UNCHANGED <<base_blk, held>> /\ UserNow(t, "check") /\ FrameNow(t, "bsm", NoCall)
        BY <1>0, <3>1, BlockIs
      <4> QED BY <1>0, <1>2, <2>1, <4>1, FrameThen, UserThen
    <3>2. CASE Fails(t)
      <4>1. UNCHANGED <<base_blk, held>> /\ UserNow(t, "idle") /\ BothNow(t, NoCall, NoCall)
        BY <1>0, <3>2, BlockIs
      <4> QED BY <1>2, <4>1, BothThen, UserThen
    <3> QED BY <1>0, <1>5, <3>1, <3>2, ReserveIs, GiveIs, BlockIs
  <2>4. {base_blk} \cup held \cup Taken(f) \cup Taken(g)
          \subseteq {base_blk'} \cup held' \cup Taken(x) \cup Taken(y) \cup {0}
    BY <2>1, <2>2, <2>3
  <2> QED BY <1>1, <1>2, <1>3, <2>2, <2>3, <2>4, UserLosesNone
<1>6. \/ user[t] # "giving" /\ f.pc = "done"
      \/ user[t] = "giving" /\ g.pc = "done"
  <2>1. CASE GivenToBase(t)
    BY <1>0, <2>1, BlockIs, Zenon DEF GivenToBase, Done
  <2>2. CASE ~GivenToBase(t)
    BY <1>0, <2>2, ReserveIs, GiveIs, BlockIs
  <2> QED BY <2>1, <2>2
<1> QED BY <1>4, <1>5, <1>6
\* A container that is closed and opened has the blocks it had.
LEMMA ReopenLosesNone ==
  ASSUME NEW t \in Thread, NoneLost(t), Reopen
  PROVE  NoneLost(t)'
<1>1. UNCHANGED <<mgr, base_blk, held, user, frame>>
  BY Zenon DEF Reopen
<1>2. tree' = [m \in Mgr |-> TreeOf(tree[m].clean \cup tree[m].dirty, {})]
  BY Zenon DEF Reopen, TreeOf
<1>3. \A m \in Mgr : tree'[m].clean \cup tree'[m].dirty = tree[m].clean \cup tree[m].dirty
  <2> SUFFICES ASSUME NEW m \in Mgr
               PROVE  tree'[m].clean \cup tree'[m].dirty = tree[m].clean \cup tree[m].dirty
    OBVIOUS
  <2>1. PICK c : c = tree[m].clean \cup tree[m].dirty
    OBVIOUS
  <2>2. tree'[m] = TreeOf(c, {})
    BY <1>2, <2>1
  <2> QED BY <2>1, <2>2 DEF TreeOf
<1>4. Nodes("sm")' = Nodes("sm") /\ Nodes("bsm")' = Nodes("bsm")
  BY <1>3 DEF Nodes, Mgr
<1>5. Found(t)' = Found(t)
  BY <1>1, <1>4 DEF Found, OldNode
<1> QED BY <1>1, <1>4, <1>5 DEF NoneLost

\* At first every block is in a tree or in the index of sm.
LEMMA NoneLostInit ==
  ASSUME NEW t \in Thread, Init
  PROVE  NoneLost(t)
<1>1. PICK e : e = [addr |-> 3, len |-> EndBlk - 3]
  OBVIOUS
<1>2. e.addr = 3 /\ e.len = EndBlk - 3 /\ Covered({e}) = Blocks(e)
  BY <1>1 DEF Covered
<1>3. mgr["sm"].ext = {e} /\ Nodes("sm") = {2} /\ Nodes("bsm") = {1}
  BY <1>1 DEF Init, Nodes
<1>4. 3 .. (EndBlk - 1) \subseteq Blocks(e)
  BY <1>2, SpaceManagerAssumption DEF Blocks, Run
<1>5. 1 .. (EndBlk - 1) \subseteq {1, 2} \cup (3 .. (EndBlk - 1))
  BY SpaceManagerAssumption
<1>6. 1 .. (EndBlk - 1) \subseteq Found(t)
  BY <1>2, <1>3, <1>4, <1>5 DEF Found
<1>7. user[t] = "idle" /\ frame[t]["sm"] = NoCall /\ frame[t]["bsm"] = NoCall
  BY DEF Init, Mgr
<1>8. Awaited(user[t], frame[t]["sm"], frame[t]["bsm"])
  BY <1>7, CallFields DEF Awaited
<1> QED BY <1>3, <1>6, <1>8 DEF NoneLost

\* No step of the only thread loses a block, as long as no request is refused and base_blk
\* is used one by one.
LEMMA NoneLostStep ==
  ASSUME NEW t, Thread = {t}, SpaceInv(t), NoneLost(t), [Next]_vars,
         [NeverGivesUp /\ OneByOne]_vars
  PROVE  NoneLost(t)'
<1>0. t \in Thread
  OBVIOUS
<1>1. CASE UNCHANGED vars
  <2>1. UNCHANGED <<mgr, tree, base_blk, held, user, frame>>
    BY <1>1 DEF vars
  <2>2. Found(t)' = Found(t) /\ Nodes("bsm")' = Nodes("bsm")
    BY <2>1 DEF Found, OldNode, Nodes
  <2> QED BY <2>1, <2>2 DEF NoneLost
<1>2. CASE NeverGivesUp /\ OneByOne /\ Next
  <2>1. CASE Reopen
    BY <1>0, <2>1, ReopenLosesNone
  <2>2. CASE AllocBlock(t) \/ FreeBlock(t) \/ InUser(t)
    BY <1>0, <1>2, <2>2, BeginsLoseNone, EndsLoseNone, Zenon DEF InUser
  <2>3. CASE InTree(t)
    <3>1. ~GiveUp(t)
      BY <1>0, <1>2, Zenon DEF NeverGivesUp
    <3> QED BY <1>0, <1>2, <2>3, <3>1, AsksLoseNone, AnswersLoseNone, BaseTreeLosesNone, Zenon DEF InTree
  <2>4. CASE \E m \in Mgr : InManager(t, m)
    <3>1. PICK m \in Mgr : InManager(t, m)
      BY <2>4
    <3>2. CallStep(t, m)
      BY <1>0, <3>1, EnterAllocKeeps, EnterFreeKeeps, InsertKeeps, LeaveKeeps, Zenon DEF InManager
    <3> QED BY <1>0, <3>2, CallLosesNone
  <2>5. CASE \E u \in Thread : AllocBlock(u) \/ FreeBlock(u) \/ Continue(u)
    <3>1. AllocBlock(t) \/ FreeBlock(t) \/ Continue(t)
      BY <2>5
    <3> QED BY <2>2, <2>3, <2>4, <3>1 DEF Continue
  <2> QED BY <1>2, <2>1, <2>5 DEF Next
<1> QED BY <1>1, <1>2

\* What an index or a call of the device has is in the device.
LEMMA InDevice ==
  ASSUME TypeInv, NEW t \in Thread, NEW m \in Mgr, NEW f, f = frame[t][m], FrameOK(f)
  PROVE  Covered(mgr[m].ext) \subseteq Device /\ Nodes(m) \subseteq Device /\ Taken(f) \subseteq Device
<1>1. \A E : E \subseteq DeviceExtents => Covered(E) \subseteq Device
  BY SpaceManagerAssumption DEF DeviceExtents, Extent, Covered, Blocks, Run, Device
<1>2. InRange(f.pc, f.op, f.start, f.cnt, f.ret, f.left, f.req, f.old)
  BY FrameFacts
<1>3. \/ f.op = "alloc" /\ f.pc # "enter" /\ f.ret = "ok"
      \/ f.op = "free" /\ f.pc = "enter"
      => Run(f.start, f.cnt) \subseteq Device
  <2>1. \/ f.op = "alloc" /\ f.pc # "enter" /\ f.ret = "ok"
        \/ f.op = "free" /\ f.pc = "enter"
        => Within(f.start, f.cnt)
    BY <1>2 DEF InRange
  <2>2. f.start \in Nat /\ f.cnt \in Nat
    BY <1>2 DEF InRange, Device
  <2> QED BY <2>1, <2>2, SpaceManagerAssumption DEF Within, Run, Device
<1>4. Taken(f) \subseteq Device
  BY <1>1, <1>2, <1>3 DEF InRange, Taken
<1> QED BY <1>1, <1>4, ManagerFacts DEF Nodes

\* Where no block is lost and none has two homes, the blocks are conserved.
LEMMA ConservedIf ==
  ASSUME NEW t, Thread = {t}, SpaceInv(t), NoneLost(t)
  PROVE  BlocksConserved
<1>0. /\ TypeInv /\ NotZero /\ FrameOK(frame[t]["sm"]) /\ FrameOK(frame[t]["bsm"])
      /\ t \in Thread /\ "sm" \in Mgr /\ "bsm" \in Mgr
  BY Begin DEF Mgr
<1>1. PICK P, X, Y : P = Places /\ X = Carried(t, "sm") /\ Y = Carried(t, "bsm")
  OBVIOUS
<1>2. DOMAIN P = 1 .. 7 /\ Len(P) = 7
  BY <1>1 DEF Places
<1>3. /\ P[1] = {0} /\ P[2] = Covered(mgr["sm"].ext) /\ P[3] = Covered(mgr["bsm"].ext)
      /\ P[4] = Nodes("sm") /\ P[5] = Nodes("bsm") /\ P[6] = {base_blk} \ {0} /\ P[7] = held
  BY <1>1 DEF Places
<1>4. /\ X = Taken(frame[t]["sm"])
      /\ Y = Taken(frame[t]["bsm"]) \cup OldNode(t)
  <2>1. X = Taken(frame[t]["sm"])
    BY <1>1 DEF Carried, Taken
  <2>2. Y = Taken(frame[t]["bsm"]) \cup OldNode(t)
    BY <1>1 DEF Carried, Taken, OldNode
  <2> QED BY <2>1, <2>2
<1>5. \A i \in 2 .. 7 : 0 \notin P[i]
  <2>1. 0 \notin Covered(mgr["sm"].ext) /\ 0 \notin Covered(mgr["bsm"].ext)
    BY <1>0, RealZero DEF SpaceInv, Pools
  <2>2. 0 \notin Nodes("sm") /\ 0 \notin Nodes("bsm") /\ 0 \notin held
    BY <1>0 DEF NotZero, NoneLost
  <2> QED BY <1>3, <2>1, <2>2
<1>6. 0 \notin X /\ 0 \notin Y
  <2>1. 0 \notin Taken(frame[t]["sm"]) /\ 0 \notin Taken(frame[t]["bsm"])
    BY <1>0, TakenNotZero
  <2>2. 0 \notin OldNode(t)
    BY DEF NoneLost, Awaited, OldNode
  <2> QED BY <1>4, <2>1, <2>2
<1>7. \A u \in Thread, m \in Mgr : Carried(u, m) = IF m = "sm" THEN X ELSE Y
  BY <1>1 DEF Mgr
<1>8. Apart(P)
  <2>1. PICK S : S = [i \in 2 .. 7 |-> P[i] \ {0}]
    OBVIOUS
  <2>2. Apart(S)
    BY <1>1, <1>2, <2>1, NoTwoPlaces DEF NoBlockTwice
  <2>3. DOMAIN S = 2 .. 7 /\ \A i \in 2 .. 7 : S[i] = P[i]
    BY <1>5, <2>1
  <2>4. \A i, j \in 2 .. 7 : i # j => P[i] \cap P[j] = {}
    BY <2>2, <2>3 DEF Apart
  <2>5. \A u \in Thread, m \in Mgr :
          /\ \A i \in 2 .. 7 : P[i] \cap Carried(u, m) = {}
          /\ \A v \in Thread, n \in Mgr : <<u, m>> # <<v, n>> => Carried(u, m) \cap Carried(v, n) = {}
    BY <2>2, <2>3 DEF Apart
  <2>6. \A i, j \in 1 .. 7 : i # j => P[i] \cap P[j] = {}
    BY <1>3, <1>5, <2>4
  <2>7. \A u \in Thread, m \in Mgr : P[1] \cap Carried(u, m) = {}
    BY <1>3, <1>6, <1>7
  <2> QED BY <1>2, <2>5, <2>6, <2>7 DEF Apart
<1>9. UNION {P[i] : i \in 1 .. 7}
        = P[1] \cup P[2] \cup P[3] \cup P[4] \cup P[5] \cup P[6] \cup P[7]
  OBVIOUS
<1>10. UNION {Carried(u, m) : u \in Thread, m \in Mgr} = X \cup Y
  BY <1>0, <1>1, <1>7 DEF Mgr
<1>11. (UNION {P[i] : i \in 1 .. 7}) \cup (X \cup Y) = Found(t) \cup {0}
  <2>1. PICK A, B, C, F, R, U :
          /\ A = Taken(frame[t]["sm"]) /\ B = Taken(frame[t]["bsm"]) /\ C = OldNode(t)
          /\ F = Found(t) /\ R = {base_blk} /\ U = UNION {P[i] : i \in 1 .. 7}
    OBVIOUS
  <2>2. F = P[2] \cup P[3] \cup P[4] \cup P[5] \cup R \cup P[7] \cup A \cup B \cup C
    BY <1>3, <2>1, Zenon DEF Found
  <2>3. P[6] \cup P[1] = R \cup {0} /\ P[1] = {0}
    BY <1>3, <2>1
  <2>4. U = P[1] \cup P[2] \cup P[3] \cup P[4] \cup P[5] \cup P[6] \cup P[7] /\ X = A /\ Y = B \cup C
    BY <1>4, <1>9, <2>1
  <2>5. U \cup (X \cup Y) = F \cup {0}
    BY ONLY <2>2, <2>3, <2>4
  <2> QED BY <2>1, <2>5
<1>12. Found(t) \cup {0} = 0 .. (EndBlk - 1)
  <2>1. Found(t) \subseteq Device
    <3>1. OldNode(t) \subseteq Device
      BY <1>0, FrameFacts DEF InRange, OldNode
    <3>2. base_blk \in Device /\ held \subseteq Device
      BY <1>0 DEF TypeInv, RestOK
    <3> QED BY <1>0, <3>1, <3>2, InDevice DEF Found
  <2>2. 0 .. (EndBlk - 1) \subseteq {0} \cup (1 .. (EndBlk - 1)) /\ 0 \in Device
    BY SpaceManagerAssumption DEF Device
  <2> QED BY <2>1, <2>2 DEF NoneLost, Device
<1> QED BY <1>1, <1>2, <1>8, <1>10, <1>11, <1>12 DEF BlocksConserved

(***************************************************************************)
(* With one thread no block is lost, through every nesting of the three    *)
(* sources of blocks and any number of sessions, as long as no request of  *)
(* the SPACE tree is refused and base_blk is used while it has a block and *)
(* takes one while it has none.  Where a block is lost, one of these failed.*)
(***************************************************************************)
THEOREM Conservation ==
  ASSUME NEW t, Thread = {t}
  PROVE  Spec /\ [][NeverGivesUp /\ OneByOne]_vars => []BlocksConserved
<1>1. Init => SpaceInv(t) /\ NoneLost(t)
  BY SpaceInit, NoneLostInit
<1>2. SpaceInv(t) /\ NoneLost(t) /\ [Next]_vars /\ [NeverGivesUp /\ OneByOne]_vars
        => (SpaceInv(t) /\ NoneLost(t))'
  BY SpaceStep, NoneLostStep
<1>3. SpaceInv(t) /\ NoneLost(t) => BlocksConserved
  BY ConservedIf
<1> QED BY <1>1, <1>2, <1>3, PTL DEF Spec
=============================================================================
