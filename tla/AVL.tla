------------------------------- MODULE AVL -------------------------------
(***************************************************************************)
(* The balanced tree of src/public/avl.c, in which the containers, the     *)
(* objects of a container and the cached blocks are kept.  A node has a    *)
(* link to each child, to its parent, the side on which it hangs and its   *)
(* balance; here it is named by its value.  Values compare by <, as the    *)
(* comparison functions of Collation do.  The tree has no lock of its own, *)
(* its callers hold one: each call is a step, and so is each turn of the   *)
(* two iterations that give control back to the caller in between.         *)
(***************************************************************************)
EXTENDS Integers, FiniteSets, FiniteSetsExt

CONSTANTS
  Values,       \* what nodes may be worth
  Few           \* iterations, updates and neighbours are tried in trees of these only

ASSUME ValuesAssumption == Few \subseteq Values /\ Values \subseteq Nat \ {0}

VARIABLES
  tree,         \* [root, node, num]; node maps what is in the tree to its links
  busy          \* the iteration that is under way

vars == <<tree, busy>>

None == 0       \* NULL

Side == {0, 1}
Before == 0
After == 1

ChildToBalance(c) == IF c = 0 THEN -1 ELSE 1
BalanceToChild(b) == IF b = 1 THEN 1 ELSE 0

Child(t, n, s) == t.node[n].child[s]

In(t) == DOMAIN t.node

Empty == [root |-> None, node |-> [n \in {} |-> 0], num |-> 0]

\* n, perhaps no node, becomes what hangs on side s of p, or the root.
Link(t, p, s, n) ==
  LET down == IF p = None THEN [t EXCEPT !.root = n] ELSE [t EXCEPT !.node[p].child[s] = n]
  IN  IF n = None THEN down
      ELSE [down EXCEPT !.node[n].parent = p, !.node[n].side = s]

SetBalance(t, n, b) == [t EXCEPT !.node[n].bal = b]

\* As far as possible to one side.
RECURSIVE Deepest(_, _, _)
Deepest(t, n, s) == IF Child(t, n, s) = None THEN n ELSE Deepest(t, Child(t, n, s), s)

Lowest(t) == IF t.root = None THEN None ELSE Deepest(t, t.root, 0)
Highest(t) == IF t.root = None THEN None ELSE Deepest(t, t.root, 1)

\* A walk that gives up when it does not come from the right side at once.
Climb_OneStep(t, n, from) ==
  LET up == t.node[n].parent IN IF t.node[n].side = from THEN up ELSE None

RECURSIVE Climb(_, _, _)
Climb(t, n, from) ==
  LET up == t.node[n].parent
  IN  IF up = None \/ t.node[n].side = from THEN up ELSE Climb(t, up, from)

\* avl_walk: the next node in a direction.
Walk(t, n, d) ==
  IF Child(t, n, d) # None THEN Deepest(t, Child(t, n, d), 1 - d) ELSE Climb(t, n, 1 - d)

\* avl_find: the node, and when there is none the place where it would hang.
RECURSIVE Descend(_, _, _, _, _)
Descend(t, v, n, prev, s) ==
  IF n = None THEN [found |-> None, at |-> prev, side |-> s]
  ELSE IF n = v THEN [found |-> n, at |-> None, side |-> 0]
  ELSE LET d == IF v < n THEN 0 ELSE 1 IN Descend(t, v, Child(t, n, d), n, d)

Find(t, v) == Descend(t, v, t.root, None, 0)

Nearest_SameSide(t, place, d) == place.at

\* avl_nearest, of a place that avl_find gave.
Nearest(t, place, d) ==
  IF place.at = None THEN None
  ELSE IF place.side # d THEN place.at ELSE Walk(t, place.at, d)

(***************************************************************************)
(* avl_rotation of n, whose balance would be 2 or -2.  The tree and        *)
(* whether what hung at n has become less high.                            *)
(***************************************************************************)
Rotate(t, n, balance) ==
  LET left == IF balance < 0 THEN 0 ELSE 1
      right == 1 - left
      leftHeavy == ChildToBalance(left)
      rightHeavy == -leftHeavy
      up == t.node[n].parent
      side == t.node[n].side
      child == Child(t, n, left)
      bal == t.node[child].bal + rightHeavy
      gchild == Child(t, child, right)
      single == Link(Link(Link(t, n, left, gchild), up, side, child), child, right, n)
      opened == Link(Link(t, n, left, Child(t, gchild, right)),
                     child, right, Child(t, gchild, left))
      double == Link(Link(Link(opened, up, side, gchild), gchild, left, child),
                     gchild, right, n)
      lean == t.node[gchild].bal
  IN  IF t.node[child].bal # rightHeavy
      THEN [tree |-> [single EXCEPT !.node[n].bal = -bal, !.node[child].bal = bal],
            shorter |-> bal = 0]
      ELSE [tree |-> [double EXCEPT
                        !.node[child].bal = IF lean = rightHeavy THEN leftHeavy ELSE 0,
                        !.node[n].bal = IF lean = leftHeavy THEN rightHeavy ELSE 0,
                        !.node[gchild].bal = 0],
            shorter |-> TRUE]

\* The side s of n has become higher.
RECURSIVE Grown(_, _, _)
Grown(t, n, s) ==
  IF n = None THEN t
  ELSE LET old == t.node[n].bal
           new == old + ChildToBalance(s)
       IN  IF new = 0 THEN SetBalance(t, n, 0)
           ELSE IF old # 0 THEN Rotate(t, n, new).tree
           ELSE Grown(SetBalance(t, n, new), t.node[n].parent, t.node[n].side)

\* avl_insert: v becomes a leaf at the place.
Insert(t, v, n, s) ==
  LET leaf == [child |-> [c \in Side |-> None], parent |-> n, side |-> s, bal |-> 0]
      new == [t EXCEPT !.node = [x \in In(t) \cup {v} |-> IF x = v THEN leaf ELSE @[x]],
                       !.num = @ + 1]
  IN  Grown(Link(new, n, s, v), n, s)

\* avl_add of a node that is not there, as avl.h demands: where avl_find finds one, the
\* assertion is empty and the insertion goes to a place that was never set.
Add(t, v) == LET place == Find(t, v) IN Insert(t, v, place.at, place.side)

\* avl_insert_here: beside a node that is next to v.
InsertHere(t, v, here, d) ==
  IF Child(t, here, d) = None THEN Insert(t, v, here, d)
  ELSE Insert(t, v, Deepest(t, Child(t, here, d), 1 - d), 1 - d)

\* A removal that adjusts the parent only.
Shrunk_Parent(t, n, s) ==
  IF n = None THEN t
  ELSE LET new == t.node[n].bal - ChildToBalance(s)
       IN  IF new \in -1 .. 1 THEN SetBalance(t, n, new) ELSE Rotate(t, n, new).tree

\* The side s of n has become less high.
RECURSIVE Shrunk(_, _, _)
Shrunk(t, n, s) ==
  IF n = None THEN t
  ELSE LET old == t.node[n].bal
           new == old - ChildToBalance(s)
           turned == Rotate(t, n, new)
           up == t.node[n].parent
           side == t.node[n].side
       IN  IF old = 0 THEN SetBalance(t, n, new)
           ELSE IF new = 0 THEN Shrunk(SetBalance(t, n, new), up, side)
           ELSE IF turned.shorter THEN Shrunk(turned.tree, up, side)
           ELSE turned.tree

\* The tree with the places of a and b exchanged.
Exchanged(t, a, b) ==
  LET name(x) == IF x = a THEN b ELSE IF x = b THEN a ELSE x
  IN  [t EXCEPT
         !.root = name(@),
         !.node = [x \in {name(y) : y \in In(t)} |->
                     [@[name(x)] EXCEPT !.parent = name(@),
                                        !.child = [s \in Side |-> name(@[s])]]]]

\* avl_remove of a node with at most one child.
Detach(t, v) ==
  LET up == t.node[v].parent
      side == t.node[v].side
      rest == IF Child(t, v, 0) # None THEN Child(t, v, 0) ELSE Child(t, v, 1)
      without == Link(t, up, side, rest)
  IN  Shrunk([without EXCEPT !.node = [x \in In(t) \ {v} |-> @[x]], !.num = @ - 1], up, side)

\* avl_remove: a node with two children first changes places with its neighbour
\* on the higher side.
TakeOut(t, v) ==
  LET left == BalanceToChild(t.node[v].bal)
      neighbour == Deepest(t, Child(t, v, left), 1 - left)
  IN  IF \E s \in Side : Child(t, v, s) = None THEN Detach(t, v)
      ELSE Detach(Exchanged(t, v, neighbour), v)

Update_OneSide(t, v, w, sides) ==
  LET new == Exchanged(t, v, w)
      nb == Walk(new, w, Before)
  IN  IF nb # None /\ w < nb THEN Add(TakeOut(new, w), w) ELSE new

\* avl_update, avl_update_lt and avl_update_gt, after the node v has become worth w:
\* it is put in again when it is out of order with a neighbour on one of the sides.
Update(t, v, w, sides) ==
  LET new == Exchanged(t, v, w)
      wrong(s) == LET nb == Walk(new, w, s)
                  IN  nb # None /\ IF s = Before THEN w < nb ELSE w > nb
  IN  IF \E s \in sides : wrong(s) THEN Add(TakeOut(new, w), w) ELSE new

(***************************************************************************)
(* avl_destroy_nodes: each call gives a node to the caller, who frees it,  *)
(* children before parents.  The cookie is the parent of the node given    *)
(* last and the side on which that node hung.                              *)
(***************************************************************************)
Cookie(t, n) == [at |-> t.node[n].parent, side |-> t.node[n].side]

\* A node without a left child, or the only child it has.
LeafOf(t, n) == IF Child(t, n, 1) = None THEN n ELSE Child(t, n, 1)

NextGiven_Up(t, p, s) == p

\* The node to give next, after the one on side s of p.
NextGiven(t, p, s) ==
  IF s = 1 \/ Child(t, p, 1) = None THEN p
  ELSE LeafOf(t, Deepest(t, Child(t, p, 1), 0))

Given(t, n) ==
  /\ tree' = [t EXCEPT !.node = [x \in In(t) \ {n} |-> @[x]]]
  /\ busy' = [kind |-> "destroy", cookie |-> Cookie(t, n)]

-----------------------------------------------------------------------------

Idle == [kind |-> "none"]

Init == tree = Empty /\ busy = Idle

AddNode(v) ==
  /\ busy = Idle /\ v \notin In(tree)
  /\ tree' = Add(tree, v)
  /\ UNCHANGED busy

RemoveNode(v) ==
  /\ busy = Idle /\ v \in In(tree)
  /\ tree' = TakeOut(tree, v)
  /\ UNCHANGED busy

InFew == In(tree) \subseteq Few

\* v goes next to its neighbour on either side.
InsertBeside(v, d) ==
  /\ busy = Idle /\ InFew /\ v \notin In(tree)
  /\ LET here == Nearest(tree, Find(tree, v), 1 - d)
     IN  here # None /\ tree' = InsertHere(tree, v, here, d)
  /\ UNCHANGED busy

UpdateNode(v, w) ==
  /\ busy = Idle /\ InFew /\ v \in In(tree) /\ w \notin In(tree)
  /\ \E sides \in {Side, {IF w < v THEN Before ELSE After}} : tree' = Update(tree, v, w, sides)
  /\ UNCHANGED busy

\* avl_walk_all
StartWalk ==
  /\ busy = Idle /\ InFew /\ tree.num > 0
  /\ busy' = [kind |-> "walk", at |-> Lowest(tree), unseen |-> In(tree)]
  /\ UNCHANGED tree

\* One callback, which leaves the node, takes it out of the tree, or stops the walk.
Visit(how) ==
  /\ busy.kind = "walk" /\ busy.at # None
  /\ tree' = IF how = "removed" THEN TakeOut(tree, busy.at) ELSE tree
  /\ busy' = IF how = "stop" THEN Idle
             ELSE [busy EXCEPT !.at = Walk(tree, busy.at, After), !.unseen = @ \ {busy.at}]

EndWalk ==
  /\ busy.kind = "walk" /\ busy.at = None
  /\ busy' = Idle
  /\ UNCHANGED tree

\* The first call of avl_destroy_nodes.
StartDestroy ==
  /\ busy = Idle /\ InFew /\ tree.root # None
  /\ Given(tree, LeafOf(tree, Lowest(tree)))

\* Another call: the link to the node given last goes.
DestroyNext ==
  /\ busy.kind = "destroy" /\ busy.cookie.at # None
  /\ LET p == busy.cookie.at
         s == busy.cookie.side
         t == [tree EXCEPT !.node[p].child[s] = None, !.num = @ - 1]
     IN  Given(t, NextGiven(t, p, s))

\* The last call gives no node; avl_destroy ends the tree, and avl_create makes one.
Destroyed ==
  /\ busy.kind = "destroy" /\ busy.cookie.at = None
  /\ tree' = [tree EXCEPT !.root = None, !.num = 0]
  /\ busy' = Idle

Next ==
  \/ \E v \in Values : AddNode(v) \/ RemoveNode(v)
  \/ \E v \in Few, d \in Side : InsertBeside(v, d)
  \/ \E v, w \in Few : UpdateNode(v, w)
  \/ StartWalk
  \/ \E how \in {"kept", "removed", "stop"} : Visit(how)
  \/ EndWalk
  \/ StartDestroy
  \/ DestroyNext
  \/ Destroyed

Spec == Init /\ [][Next]_vars

-----------------------------------------------------------------------------

\* Types: links lead to nodes, balances are -1, 0 or 1.
Typed ==
  /\ tree.root \in Values \cup {None}
  /\ tree.num \in Nat
  /\ tree.node \in [In(tree) -> [child : [Side -> Values \cup {None}],
                                 parent : Values \cup {None},
                                 side : Side, bal : -1 .. 1]]

\* The nodes at and below n, when links do not come back to a node.
RECURSIVE Below(_, _)
Below(t, n) ==
  IF n = None THEN {} ELSE {n} \cup UNION {Below(t, Child(t, n, s)) : s \in Side}

RECURSIVE Height(_, _)
Height(t, n) ==
  IF n = None THEN 0 ELSE 1 + Max({Height(t, Child(t, n, s)) : s \in Side})

\* A search tree of all its nodes (avl_insert, avl_remove, avl_update, avl_rotation):
\* whatever was added, removed or updated, in any order, is reached from the root, all
\* on the left of a node is less and all on the right greater, the way up undoes the way
\* down, and avl_numnodes is their number.
SearchTree ==
  busy.kind # "destroy" =>
    /\ Typed
    /\ Below(tree, tree.root) = In(tree)
    /\ tree.num = Cardinality(In(tree))
    /\ \A n \in In(tree), s \in Side :
         /\ \A x \in Below(tree, Child(tree, n, s)) : IF s = 0 THEN x < n ELSE x > n
         /\ Child(tree, n, s) # None => Cookie(tree, Child(tree, n, s)) = [at |-> n, side |-> s]
         /\ tree.root = n => Cookie(tree, n) = [at |-> None, side |-> 0]

\* The height of a tree stays logarithmic (avl_rotation): the balance a node records is
\* the difference of the heights below it, however many rotations a removal needs.
Balanced ==
  busy.kind # "destroy" =>
    \A n \in In(tree) :
      tree.node[n].bal = Height(tree, Child(tree, n, 1)) - Height(tree, Child(tree, n, 0))

\* What avl_find and avl_nearest promise (avl.h:230-251): a value that is there is
\* found, and of another the place gives the next smaller and the next greater one.
NearestFound ==
  busy = Idle =>
    /\ tree.num > 0 => Lowest(tree) = Min(In(tree)) /\ Highest(tree) = Max(In(tree))
    /\ \A v \in Values :
         LET place == Find(tree, v)
             less == {n \in In(tree) : n < v}
             more == {n \in In(tree) : n > v}
         IN  IF v \in In(tree) THEN place.found = v
             ELSE /\ place.found = None
                  /\ Nearest(tree, place, Before) = IF less = {} THEN None ELSE Max(less)
                  /\ Nearest(tree, place, After) = IF more = {} THEN None ELSE Min(more)

\* avl_walk_all comes to every node once and in order even when callbacks take nodes
\* out of the tree, as those that free cached blocks and close objects do: the node it
\* kept for its next turn is the first it has not yet visited, and is still there.
WalkVisitsAll ==
  busy.kind = "walk" =>
    /\ busy.unseen \subseteq In(tree)
    /\ busy.at = IF busy.unseen = {} THEN None ELSE Min(busy.unseen)

\* avl_destroy_nodes gives each node once and never a node before those below it: what
\* is left hangs together, and the cookie is not a node the caller has freed.
DestroyGivesAll ==
  busy.kind = "destroy" =>
    LET c == busy.cookie
        left == [tree EXCEPT !.node[c.at].child[c.side] = None]
    IN  IF c.at = None THEN In(tree) = {} /\ tree.num = 1
        ELSE c.at \in In(tree) /\ Below(left, tree.root) = In(tree)
               /\ tree.num = Cardinality(In(tree)) + 1
=============================================================================
