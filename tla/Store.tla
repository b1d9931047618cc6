------------------------------- MODULE Store -------------------------------
(***************************************************************************)
(* What a container promises its users: each object has contents, closing  *)
(* the container saves the contents of all objects at once, and after a    *)
(* crash they are those that were saved last.  When the disk has failed,   *)
(* or what was saved may be overwritten, nothing is promised until all is  *)
(* saved as a whole again.                                                 *)
(***************************************************************************)
CONSTANTS Objects, Contents

VARIABLES
  current,      \* what the users of each object see
  saved,        \* what they would see after a crash
  ok            \* the promise holds

vars == <<current, saved, ok>>

Init == current = saved /\ ok = TRUE

Change(o) ==
  /\ \E c \in Contents : current' = [current EXCEPT ![o] = c]
  /\ UNCHANGED saved

Save == saved' = current /\ UNCHANGED current

Crash == current' = saved /\ UNCHANGED saved

Fails == ok' = FALSE

Next ==
  \/ UNCHANGED ok /\ ((\E o \in Objects : Change(o)) \/ Crash)
  \/ Save /\ ok' \in {ok, TRUE}
  \/ Fails

Spec == Init /\ [][Next]_vars
=============================================================================
