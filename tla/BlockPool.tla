----------------------------- MODULE BlockPool -----------------------------
(***************************************************************************)
(* What a space manager promises its clients: every block of the device    *)
(* is either free or held by a client.  An allocation moves a contiguous   *)
(* run of free blocks, no longer than was asked for, to the client; a      *)
(* release moves blocks the client holds back.  Nothing else happens.      *)
(***************************************************************************)
EXTENDS Integers

CONSTANTS Device,    \* the blocks being managed
          MaxCnt     \* the largest request

VARIABLES free, held

Contiguous(start, cnt) == start .. (start + cnt - 1)

Init == free = Device /\ held = {}

Allocate(start, cnt) ==
  /\ Contiguous(start, cnt) \subseteq free
  /\ free' = free \ Contiguous(start, cnt)
  /\ held' = held \cup Contiguous(start, cnt)

Release(start, cnt) ==
  /\ Contiguous(start, cnt) \subseteq held
  /\ held' = held \ Contiguous(start, cnt)
  /\ free' = free \cup Contiguous(start, cnt)

Next == \E start \in Device, cnt \in 1 .. MaxCnt :
          Allocate(start, cnt) \/ Release(start, cnt)

Spec == Init /\ [][Next]_<<free, held>>
=============================================================================
