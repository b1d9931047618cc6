------------------------------ MODULE MCBTree ------------------------------
(***************************************************************************)
(* BTree for TLC.  A leaf and an inner node have room for three entries of *)
(* the greatest length, the least the documented maxima of keys and values *)
(* allow; the root has room for one.  A behaviour makes any calls on a few *)
(* keys, or fills a table in any order, or lets a table grow and shrink.   *)
(***************************************************************************)
EXTENDS BTree

CONSTANTS FewKeys,   \* the keys of the behaviours that make any calls
          FillKeys,  \* the keys of a table that is filled in any order
          GrowKeys   \* the keys of the table that grows and shrinks

VARIABLE way

\* Long entries and then short ones: a leaf has three to six entries, so that half of the
\* bytes is not half of the entries; and no successor is longer than the entry it replaces.
Falling == [k \in Keys |-> IF k <= 10 THEN 5 ELSE 1]

\* Lengths with which an inner node is full and a longer entry follows a short one.
Uneven == <<5, 4, 5, 4, 4, 3, 1, 4, 3, 5, 3, 5>>

\* A table that is filled in any order, where a key leaves only the full table: long and
\* short entries meet in a node in every way.
FillNext ==
  /\ Next
  /\ session' = 1
  /\ call = Idle => /\ call'.op # "update"
                    /\ call'.op # "none" => call'.key \in FillKeys
                    /\ call'.op = "remove" => stored = FillKeys

FewNext == Next /\ (call = Idle => call'.op = "none" \/ call'.key \in FewKeys)

\* A table that grows by ascending keys and shrinks when it has all of them, all in one
\* session: trees of three levels whose inner nodes split.
Growing == \E k \in GrowKeys : stored = {j \in GrowKeys : j < k}

GrowNext ==
  /\ Next
  /\ session' = 1
  /\ call = Idle => /\ call'.op # "update"
                    /\ call'.op # "none" => call'.key \in GrowKeys
                    /\ call'.op = "remove" => ~Growing
                    /\ call'.op = "insert" => stored = {j \in GrowKeys : j < call'.key}

MCInit == Init /\ way \in {"few", "fill", "grow"}

MCNext == UNCHANGED way /\ CASE way = "few" -> FewNext [] way = "fill" -> FillNext [] OTHER -> GrowNext

MCSpec == MCInit /\ [][MCNext]_<<vars, way>> /\ Fairness

GrowSpec == MCInit /\ way = "grow" /\ [][MCNext]_<<vars, way>> /\ Fairness
=============================================================================
