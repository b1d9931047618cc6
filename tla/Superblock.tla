----------------------------- MODULE Superblock -----------------------------
(***************************************************************************)
(* The copies of the super block (the ping-pong updates of ofs_block_rw.c) *)
(* over the life of a container: it is created, opened, closed, and may    *)
(* crash at any time.                                                      *)
(*                                                                         *)
(* Block 0 has room for several copies.  Update n goes to slot             *)
(* n % Slots, so that the copy before it survives a write that fails.  A   *)
(* copy carries its sequence number in the head and once more in its last  *)
(* two bytes; a copy of which only the front was written shows that.  The  *)
(* sequence number has 16 bits.                                            *)
(*                                                                         *)
(* The disk layer writes through a stdio stream (os_file_if.c), so a write *)
(* is `pending` until the next access or the close of the file, and is     *)
(* lost, cut short or done when the process dies before.                   *)
(***************************************************************************)
EXTENDS Integers

CONSTANTS Slots,     \* block_size / alloc_size
          SeqMod,    \* 2^16
          None

ASSUME SuperblockAssumption ==
  /\ Slots \in Nat \ {0, 1}
  /\ SeqMod \in Nat /\ SeqMod > Slots /\ SeqMod % Slots = 0
  /\ None \notin Int

VARIABLES
  slot,      \* the copies on the disk
  seq,       \* seq_no of the copy in memory
  pending,   \* the sequence number of the copy that is being written, or None
  mode,      \* where the container is in its life
  newest,    \* history: the sequence number of the last copy that reached the disk
  trouble    \* history: a write was "lost" since the last open, or one went on after it ("gap")

vars == <<slot, seq, pending, mode, newest, trouble>>

Place == 0 .. (Slots - 1)
Seq16 == 0 .. (SeqMod - 1)

\* A copy: the number in its head, None if it was never written; the number in its
\* foot, which is 0 in a block of zeros; and whether the two were written together.
Blank     == [head |-> None, foot |-> 0, whole |-> FALSE]
Copy(n)   == [head |-> n, foot |-> n, whole |-> TRUE]
Front(n, old) == [head |-> n, foot |-> old.foot, whole |-> FALSE]

\* fixup_block leaves the number of the next update in memory.
Succ_NoWrap(n) == n + 1
Succ(n) == (n + 1) % SeqMod

SlotOf(n) == n % Slots

-----------------------------------------------------------------------------
(***************************************************************************)
(* get_last_correct_block.  The newest copy ends the run of consecutive    *)
(* numbers that starts at slot 0; from there back, around the end, the     *)
(* first copy that is not damaged is taken, but none beyond a slot that    *)
(* was never written.                                                      *)
(***************************************************************************)
InRun(i) ==
  /\ \A j \in 0 .. i : slot[j].head # None
  /\ \A j \in 1 .. i : slot[j].head = slot[j - 1].head + 1

RunEnd == CHOOSE i \in Place : /\ i = 0 \/ InRun(i)
                               /\ i = Slots - 1 \/ ~InRun(i + 1)

Back_Forward(k) == (RunEnd + k) % Slots
Back(k) == (RunEnd - k) % Slots
Sound(i) == slot[i].head # None /\ slot[i].foot = slot[i].head

Found ==
  LET Taken(k) == Sound(Back(k)) /\ \A j \in 0 .. (k - 1) :
                    slot[Back(j)].head # None /\ ~Sound(Back(j))
  IN  IF \E k \in Place : Taken(k) THEN Back(CHOOSE k \in Place : Taken(k)) ELSE None
-----------------------------------------------------------------------------
Init ==
  /\ slot = [i \in Place |-> Blank]
  /\ seq = 0
  /\ pending = None
  /\ mode = "closed"
  /\ newest = None
  /\ trouble = "none"

\* A write is handed to the disk layer; fixup_block advances the number even when
\* that reports an error, which is the case when Lose follows.
Write(n) ==
  /\ pending = None
  /\ pending' = n
  /\ seq' = Succ(n)
  /\ trouble' = IF trouble = "none" THEN "none" ELSE "gap"

\* ofs_create_container: the file is emptied and gets its first copy.
Create ==
  /\ mode = "closed" /\ pending = None
  /\ slot' = [i \in Place |-> Blank]
  /\ pending' = 0 /\ seq' = 1
  /\ newest' = None /\ trouble' = "none"
  /\ mode' = "made"

\* ... then, with the system objects there, the next; the caller gets the container.
Created ==
  /\ mode = "made"
  /\ Write(seq)
  /\ mode' = "open"
  /\ UNCHANGED <<slot, newest>>

\* close_container writes the super block if FLAG_DIRTY is set ...
CloseDirty ==
  /\ mode = "open"
  /\ Write(seq)
  /\ mode' = "closing"
  /\ UNCHANGED <<slot, newest>>

\* ... and closes the file; also when creating the system objects failed.
Close ==
  /\ mode \in {"made", "open", "closing"}
  /\ pending = None
  /\ mode' = "closed"
  /\ UNCHANGED <<slot, seq, pending, newest, trouble>>

\* ofs_open_container.  A copy with a foot that fits and no end is the front of number 0 in
\* a block of zeros: its foot (magic_num) is put right from the head by fixup_block, but the
\* version, the two bytes before the foot, is 0 still, and check_super_block refuses it.
Open_SameSeq ==
  /\ mode = "closed"
  /\ Found # None /\ slot[Found].whole
  /\ seq' = slot[Found].head
  /\ mode' = "open"
  /\ trouble' = IF trouble = "lost" THEN "none" ELSE trouble
  /\ UNCHANGED <<slot, pending, newest>>

Open ==
  /\ mode = "closed"
  /\ Found # None /\ slot[Found].whole
  /\ seq' = Succ(slot[Found].head)
  /\ mode' = "open"
  /\ trouble' = IF trouble = "lost" THEN "none" ELSE trouble
  /\ UNCHANGED <<slot, pending, newest>>

\* What becomes of the pending write: it reaches the disk ...
Landed ==
  /\ slot' = [slot EXCEPT ![SlotOf(pending)] = Copy(pending)]
  /\ newest' = pending

Land ==
  /\ pending # None
  /\ Landed
  /\ pending' = None
  /\ UNCHANGED <<seq, mode, trouble>>

\* ... or it does not, or only its front.
Spoiled ==
  /\ \/ UNCHANGED slot
     \/ slot' = [slot EXCEPT ![SlotOf(pending)] = Front(pending, @)]
  /\ UNCHANGED newest

Lose ==
  /\ pending # None
  /\ Spoiled
  /\ pending' = None
  /\ mode' = IF newest = None THEN "closed" ELSE mode
  /\ trouble' = IF trouble = "none" THEN "lost" ELSE trouble
  /\ UNCHANGED seq

Crash ==
  /\ mode # "closed"
  /\ IF pending = None THEN UNCHANGED <<slot, newest>> ELSE Landed \/ Spoiled
  /\ pending' = None
  /\ mode' = "closed"
  /\ UNCHANGED <<seq, trouble>>

Next == Create \/ Created \/ CloseDirty \/ Close \/ Open \/ Land \/ Lose \/ Crash

Spec == Init /\ [][Next]_vars
-----------------------------------------------------------------------------
TypeOK ==
  /\ slot \in [Place -> [head : Seq16 \cup {None}, foot : Seq16, whole : BOOLEAN]]
  /\ seq \in Seq16
  /\ pending \in Seq16 \cup {None}
  /\ mode \in {"closed", "made", "open", "closing"}
  /\ newest \in Seq16 \cup {None}
  /\ trouble \in {"none", "lost", "gap"}

(***************************************************************************)
(* Whatever write the process died in, however often, and wherever the     *)
(* 16-bit number has wrapped around, the copy an open would take now is    *)
(* the last one that reached the disk, and it is complete.                 *)
(***************************************************************************)
ReadsNewest ==
  newest # None /\ trouble # "gap" =>
    Found # None /\ slot[Found] = Copy(newest)

(***************************************************************************)
(* Unless the container is created anew, what an open would take changes   *)
(* only to the copy that is being written: the state on the disk is never  *)
(* set back.                                                               *)
(***************************************************************************)
What == IF Found = None THEN None ELSE slot[Found].head
NeverSetBack ==
  [][newest # None /\ newest' # None /\ trouble # "gap" /\ ~Create => What' \in {What, pending}]_vars
=============================================================================
