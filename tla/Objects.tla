------------------------------ MODULE Objects ------------------------------
(***************************************************************************)
(* Opening and closing containers and objects                              *)
(* (ofs_container_manager.c, ofs_object_manager.c) under the commands of   *)
(* the tools (src/tools).  There is one list of open containers, under a   *)
(* lock of its own; each container has its open objects under its lock.    *)
(* Whoever opens one that is open gets a reference to it.                  *)
(*                                                                         *)
(* The console executes one command at a time; a command is a sequence of  *)
(* calls.  `perf' starts workers, which insert keys in one object all      *)
(* together, and waits until they are done; then the same for removing.    *)
(* A call takes its lock and looks what is there; later it acts on what it *)
(* saw and leaves the lock.  What is in the blocks is MetadataCache.       *)
(***************************************************************************)
EXTENDS Integers, FiniteSets, Sequences

CONSTANTS
  Names,        \* of containers
  Ids,          \* of user objects
  Workers,      \* the threads of perf
  Console, NoThread,
  MaxRef        \* bound: references, and locks, that commands leave

ASSUME ObjectsAssumption ==
  /\ IsFiniteSet(Workers) /\ Console \notin Workers /\ NoThread \notin Workers \cup {Console}
  /\ Names # {} /\ Ids # {}
  /\ MaxRef \in Nat

VARIABLES
  file,         \* of each name: whether a container can be opened there, its objects
  ct,           \* the containers in memory, and in g_container_list when listed
  moved,        \* the open objects whose root has gone to another block
  g,            \* who has g_container_list_rwlock
  thr,          \* the threads: what is left of the command, and its variables
  perf,         \* the variables of test_performance
  stale,        \* threads with a pointer to memory that has been freed
  twice         \* something that is in a list has been put there again

vars == <<file, ct, moved, g, thr, perf, stale, twice>>

Threads == Workers \cup {Console}

\* The calls of each command, with and without an object.
cmd_create == {<<"create_ct">>, <<"get_ct", "create_obj">>}
cmd_open == {<<"open_ct">>, <<"get_ct", "open_obj">>}
cmd_close == {<<"get_ct", "close_ct">>, <<"get_ct", "get_obj", "close_obj">>}
cmd_list == {<<"walk">>, <<"get_ct">>, <<"get_ct", "get_obj">>}
print_super_block == <<"open_ct", "show", "close_ct">>
cmd_insert_key == <<"open_ct", "open_obj", "use", "close_obj", "close_ct">>
cmd_remove_key == <<"open_ct", "open_obj", "use", "close_obj", "close_ct">>
dump_cmd == <<"open_ct", "open_obj", "use", "close_obj", "close_ct">>

Commands ==
  cmd_create \cup cmd_open \cup cmd_close \cup cmd_list
    \cup {print_super_block, cmd_insert_key, cmd_remove_key, dump_cmd}

\* The calls of a worker of perf, which then counts itself out.
test_insert_key_performance ==
  <<"open_ct", "create_obj", "use", "close_obj", "close_ct", "end">>
test_remove_key_performance ==
  <<"open_ct", "open_obj", "use", "close_obj", "close_ct", "end">>

Work == [insert |-> test_insert_key_performance, remove |-> test_remove_key_performance]

Idle(n, i) ==
  [todo |-> <<>>, within |-> FALSE, saw |-> 0, n |-> n, i |-> i, ct |-> FALSE, obj |-> FALSE]

Nobody == Idle(CHOOSE n \in Names : TRUE, CHOOSE i \in Ids : TRUE)

Shut ==
  [listed |-> FALSE, ref |-> 0, ids |-> {}, refs |-> [i \in Ids |-> 0],
   writer |-> NoThread, readers |-> 0]

Init ==
  /\ file = [n \in Names |-> [good |-> FALSE, ids |-> {}]]
  /\ ct = [n \in Names |-> Shut]
  /\ moved = [n \in Names |-> {}]
  /\ g = NoThread
  /\ thr = [t \in Threads |-> Nobody]
  /\ perf = [phase |-> "none", left |-> {}, counted |-> TRUE, cnt |-> 0]
  /\ stale = {} /\ twice = FALSE

-----------------------------------------------------------------------------
(* A call.                                                                 *)

Call(t) == Head(thr[t].todo)
Ct(t) == ct[thr[t].n]

ListCalls == {"create_ct", "open_ct", "close_ct", "get_ct", "walk"}
ObjectCalls_NoCreate == {"open_obj", "close_obj", "show"}
ObjectCalls == {"create_obj", "open_obj", "close_obj", "show"}

\* What the call reads under its lock.
Seen(t) ==
  LET c == Ct(t)
  IN  CASE Call(t) \in ListCalls -> c.ref
        [] Call(t) = "create_obj" /\ thr[t].i \in c.ids -> 1
        [] OTHER -> c.refs[thr[t].i]

Looks(t) == thr' = [thr EXCEPT ![t].within = TRUE, ![t].saw = Seen(t)]

Lock(t) ==
  /\ thr[t].todo # <<>> /\ ~thr[t].within
  /\ \/ /\ Call(t) \in ListCalls /\ g = NoThread
        /\ g' = t /\ UNCHANGED ct
     \/ /\ Call(t) \in ObjectCalls /\ Ct(t).writer = NoThread /\ Ct(t).readers = 0
        /\ ct' = [ct EXCEPT ![thr[t].n].writer = t] /\ UNCHANGED g
     \/ /\ Call(t) = "get_obj" /\ Ct(t).writer = NoThread
        /\ ct' = [ct EXCEPT ![thr[t].n].readers = @ + 1] /\ UNCHANGED g
     \/ /\ Call(t) \notin ListCalls \cup ObjectCalls \cup {"get_obj"}
        /\ UNCHANGED <<ct, g>>
  /\ Looks(t)
  /\ UNCHANGED <<file, moved, perf, stale, twice>>

Within(t, call) == thr[t].todo # <<>> /\ thr[t].within /\ Call(t) = call

\* The command goes on with the rest of its calls.
Go(t, rest, hasCt, hasObj) ==
  thr' = [thr EXCEPT ![t] =
            IF rest = <<>> THEN Idle(@.n, @.i)
            ELSE [@ EXCEPT !.todo = rest, !.within = FALSE, !.saw = 0,
                           !.ct = hasCt, !.obj = hasObj]]

Succeeds(t, hasCt, hasObj) == Go(t, Tail(thr[t].todo), hasCt, hasObj)

Closes(t) == thr[t].ct /\ \E k \in DOMAIN thr[t].todo : thr[t].todo[k] = "close_ct"

Fails_Uncounted(t) == Go(t, IF Closes(t) THEN <<"close_ct">> ELSE <<>>, thr[t].ct, FALSE)

\* The container is closed by the commands that have opened it themselves.
Fails(t) ==
  LET end == IF t \in Workers THEN <<"end">> ELSE <<>>
      close == IF t \in Workers THEN <<"close_ct", "end">> ELSE <<"close_ct">>
  IN  Go(t, IF Closes(t) THEN close ELSE end, thr[t].ct, FALSE)

-----------------------------------------------------------------------------
(* Calls under the lock of the list.                                       *)

Holders(n) == {t \in Threads : thr[t].n = n /\ thr[t].ct}

Listing_Zero(n, ids) == [Shut EXCEPT !.listed = TRUE, !.ids = ids]
Listing(n, ids) == [Shut EXCEPT !.listed = TRUE, !.ref = 1, !.ids = ids]

\* ofs_create_container: the file is made empty, and is a container when it is closed.
CreateContainer(t) ==
  /\ Within(t, "create_ct")
  /\ LET n == thr[t].n
     IN  \/ /\ thr[t].saw > 0
            /\ Fails(t) /\ UNCHANGED <<file, ct, twice>>
         \/ /\ thr[t].saw = 0
            /\ file' = [file EXCEPT ![n] = [good |-> FALSE, ids |-> {}]]
            /\ ct' = [ct EXCEPT ![n] = Listing(n, {})]
            /\ twice' = (twice \/ ct[n].listed)
            /\ Succeeds(t, TRUE, FALSE)
         \/ /\ thr[t].saw = 0
            /\ \E f \in {file[n]} \cup [good : BOOLEAN, ids : {{}}] : file' = [file EXCEPT ![n] = f]
            /\ Fails(t) /\ UNCHANGED <<ct, twice>>
  /\ g' = NoThread
  /\ UNCHANGED <<moved, perf, stale>>

OpenContainer_NoRef(t) ==
  /\ Within(t, "open_ct")
  /\ LET n == thr[t].n
     IN  \/ /\ thr[t].saw > 0
            /\ Succeeds(t, TRUE, FALSE) /\ UNCHANGED <<ct, twice>>
         \/ /\ thr[t].saw = 0 /\ file[n].good
            /\ ct' = [ct EXCEPT ![n] = Listing(n, file[n].ids)]
            /\ twice' = (twice \/ ct[n].listed)
            /\ Succeeds(t, TRUE, FALSE)
         \/ /\ thr[t].saw = 0
            /\ Fails(t) /\ UNCHANGED <<ct, twice>>
  /\ g' = NoThread
  /\ UNCHANGED <<file, moved, perf, stale>>

\* ofs_open_container
OpenContainer(t) ==
  /\ Within(t, "open_ct")
  /\ LET n == thr[t].n
     IN  \/ /\ thr[t].saw > 0
            /\ ct' = [ct EXCEPT ![n].ref = thr[t].saw + 1]
            /\ Succeeds(t, TRUE, FALSE) /\ UNCHANGED twice
         \/ /\ thr[t].saw = 0 /\ file[n].good
            /\ ct' = [ct EXCEPT ![n] = Listing(n, file[n].ids)]
            /\ twice' = (twice \/ ct[n].listed)
            /\ Succeeds(t, TRUE, FALSE)
         \/ /\ thr[t].saw = 0
            /\ Fails(t) /\ UNCHANGED <<ct, twice>>
  /\ g' = NoThread
  /\ UNCHANGED <<file, moved, perf, stale>>

\* ofs_get_container_handle: the pointer is not counted.
GetContainer(t) ==
  /\ Within(t, "get_ct")
  /\ \/ thr[t].saw > 0 /\ Succeeds(t, TRUE, FALSE)
     \/ thr[t].saw = 0 /\ Fails(t)
  /\ g' = NoThread
  /\ UNCHANGED <<file, ct, moved, perf, stale, twice>>

\* ofs_walk_all_opened_container
Walk(t) ==
  /\ Within(t, "walk")
  /\ g' = NoThread
  /\ Succeeds(t, FALSE, FALSE)
  /\ UNCHANGED <<file, ct, moved, perf, stale, twice>>

\* validate_obj_inode of the objects S when they are closed: the inode of one that has moved
\* gets its new number in $OBJID by index_update_value, which removes the key and inserts
\* it.  Nobody looks whether it is there after that.
Updated(n, S) == {ct[n].ids \ lost : lost \in SUBSET (S \cap moved[n])}

Saved_OpenObjects(n) ==
  file' = [file EXCEPT ![n] = [good |-> TRUE, ids |-> {i \in ct[n].ids : ct[n].refs[i] > 0}]]

\* close_container closes what is open of n, and writes.
Saved(n) ==
  \E ids \in Updated(n, Ids) : file' = [file EXCEPT ![n] = [good |-> TRUE, ids |-> ids]]

\* ofs_close_container
CloseContainer(t) ==
  /\ Within(t, "close_ct")
  /\ LET n == thr[t].n
     IN  \/ /\ thr[t].saw # 1
            /\ ct' = [ct EXCEPT ![n].ref = IF thr[t].saw = 0 THEN @ ELSE thr[t].saw - 1]
            /\ UNCHANGED <<file, moved, stale>>
         \/ /\ thr[t].saw = 1
            /\ ct' = [ct EXCEPT ![n] = Shut]
            /\ moved' = [moved EXCEPT ![n] = {}]
            /\ Saved(n)
            /\ stale' = stale \cup (Holders(n) \ {t})
  /\ Succeeds(t, FALSE, FALSE)
  /\ g' = NoThread
  /\ UNCHANGED <<perf, twice>>

-----------------------------------------------------------------------------
(* Calls under the lock of a container.                                    *)

Unlocked(n) == [ct EXCEPT ![n].writer = NoThread]

\* ofs_create_object: the id is looked for among the open objects and in $OBJID.
CreateObject(t) ==
  /\ Within(t, "create_obj")
  /\ LET n == thr[t].n
         i == thr[t].i
     IN  \/ /\ thr[t].saw = 0
            /\ ct' = [Unlocked(n) EXCEPT ![n].ids = @ \cup {i}, ![n].refs[i] = 1]
            /\ twice' = (twice \/ i \in ct[n].ids)
            /\ Succeeds(t, TRUE, TRUE)
         \/ /\ ct' = Unlocked(n)
            /\ Fails(t) /\ UNCHANGED twice
  /\ UNCHANGED <<file, moved, g, perf, stale>>

\* ofs_open_object
OpenObject(t) ==
  /\ Within(t, "open_obj")
  /\ LET n == thr[t].n
         i == thr[t].i
     IN  \/ /\ thr[t].saw > 0 \/ i \in ct[n].ids
            /\ ct' = [Unlocked(n) EXCEPT ![n].refs[i] = thr[t].saw + 1]
            /\ twice' = (twice \/ (thr[t].saw = 0 /\ ct[n].refs[i] > 0))
            /\ Succeeds(t, TRUE, TRUE)
         \/ /\ ct' = Unlocked(n)
            /\ Fails(t) /\ UNCHANGED twice
  /\ UNCHANGED <<file, moved, g, perf, stale>>

\* ofs_close_object: with the last handle the object goes.
CloseObject(t) ==
  /\ Within(t, "close_obj")
  /\ LET n == thr[t].n
         i == thr[t].i
         sharing == {x \in Holders(n) \ {t} : thr[x].obj /\ thr[x].i = i}
     IN  \/ /\ thr[t].saw # 1
            /\ ct' = [Unlocked(n) EXCEPT ![n].refs[i] = thr[t].saw - 1]
            /\ UNCHANGED <<moved, stale>>
         \/ /\ thr[t].saw = 1
            /\ \E ids \in Updated(n, {i}) :
                 ct' = [Unlocked(n) EXCEPT ![n].ids = ids, ![n].refs[i] = 0]
            /\ moved' = [moved EXCEPT ![n] = @ \ {i}]
            /\ stale' = stale \cup sharing
  /\ Succeeds(t, TRUE, FALSE)
  /\ UNCHANGED <<file, g, perf, twice>>

\* ofs_get_object_info and ofs_get_object_handle: the lock is taken a second time
\* where it should be left.
GetObject(t) ==
  /\ Within(t, "get_obj")
  /\ ct' = [ct EXCEPT ![thr[t].n].readers = @ + 1]
  /\ \/ thr[t].saw > 0 /\ Succeeds(t, TRUE, TRUE)
     \/ thr[t].saw = 0 /\ Fails(t)
  /\ UNCHANGED <<file, moved, g, perf, stale, twice>>

\* print_super_block
Show(t) ==
  /\ Within(t, "show")
  /\ ct' = Unlocked(thr[t].n)
  /\ Succeeds(t, TRUE, FALSE)
  /\ UNCHANGED <<file, moved, g, perf, stale, twice>>

\* Keys are inserted, removed or listed, under the lock of the object.
Use(t) ==
  /\ Within(t, "use")
  /\ \/ moved' = [moved EXCEPT ![thr[t].n] = @ \cup {thr[t].i}]
     \/ UNCHANGED moved
  /\ Succeeds(t, TRUE, TRUE)
  /\ UNCHANGED <<file, ct, g, perf, stale, twice>>

Step(t) ==
  \/ Lock(t)
  \/ CreateContainer(t) \/ OpenContainer(t) \/ GetContainer(t) \/ CloseContainer(t)
  \/ Walk(t) \/ CreateObject(t) \/ OpenObject(t) \/ CloseObject(t) \/ GetObject(t)
  \/ Show(t) \/ Use(t)

-----------------------------------------------------------------------------
(* The console.                                                            *)

Ready == thr[Console].todo = <<>> /\ perf.phase = "none"

Execute(command, n, i) ==
  /\ Ready
  /\ ct[n].ref < MaxRef /\ ct[n].refs[i] < MaxRef /\ ct[n].readers < MaxRef
  /\ thr' = [thr EXCEPT ![Console] = [Idle(n, i) EXCEPT !.todo = command]]
  /\ UNCHANGED <<file, ct, moved, g, perf, stale, twice>>

StartPerf(n, i) ==
  /\ Ready
  /\ thr' = [thr EXCEPT ![Console] = Idle(n, i)]
  /\ perf' = [phase |-> "insert", left |-> Workers, counted |-> TRUE, cnt |-> 0]
  /\ UNCHANGED <<file, ct, moved, g, stale, twice>>

\* thread_create; the worker is counted afterwards, and may be done by then.
StartWorker(w) ==
  /\ perf.phase # "none" /\ perf.counted /\ w \in perf.left
  /\ LET c == thr[Console]
     IN  thr' = [thr EXCEPT ![w] = [Idle(c.n, c.i) EXCEPT !.todo = Work[perf.phase]]]
  /\ perf' = [perf EXCEPT !.left = @ \ {w}, !.counted = FALSE]
  /\ UNCHANGED <<file, ct, moved, g, stale, twice>>

CountWorker ==
  /\ ~perf.counted
  /\ perf' = [perf EXCEPT !.counted = TRUE, !.cnt = @ + 1]
  /\ UNCHANGED <<file, ct, moved, g, thr, stale, twice>>

\* thread_create fails: no more are started.
StartFails ==
  /\ perf.phase # "none" /\ perf.counted /\ perf.left # {}
  /\ perf' = [perf EXCEPT !.left = {}]
  /\ UNCHANGED <<file, ct, moved, g, thr, stale, twice>>

EndWorker(w) ==
  /\ Within(w, "end")
  /\ perf' = [perf EXCEPT !.cnt = @ - 1]
  /\ thr' = [thr EXCEPT ![w] = Nobody]
  /\ UNCHANGED <<file, ct, moved, g, stale, twice>>

Running == {w \in Workers : thr[w].todo # <<>>}

\* The parameters of the workers are set anew for the next round, or freed.
WaitOver ==
  /\ perf.phase # "none" /\ perf.left = {} /\ perf.counted
  /\ perf.cnt = 0
  /\ perf' = [phase |-> IF perf.phase = "insert" THEN "remove" ELSE "none",
              left |-> IF perf.phase = "insert" THEN Workers ELSE {},
              counted |-> TRUE, cnt |-> 0]
  /\ stale' = stale \cup Running
  /\ UNCHANGED <<file, ct, moved, g, thr, twice>>

\* ofs_exit_system: quit closes what is open.  The tools may be started again.
Exit ==
  /\ Ready
  /\ \E ids \in [Names -> SUBSET Ids] :
       /\ \A n \in Names : ids[n] \in Updated(n, Ids)
       /\ file' = [n \in Names |-> IF ct[n].listed THEN [good |-> TRUE, ids |-> ids[n]] ELSE file[n]]
  /\ ct' = [n \in Names |-> Shut]
  /\ moved' = [n \in Names |-> {}]
  /\ stale' = stale \cup {t \in Threads : thr[t].ct}
  /\ UNCHANGED <<g, thr, perf, twice>>

Next ==
  \/ \E t \in Threads : Step(t)
  \/ \E command \in Commands, n \in Names, i \in Ids : Execute(command, n, i)
  \/ \E n \in Names, i \in Ids : StartPerf(n, i)
  \/ \E w \in Workers : StartWorker(w) \/ EndWorker(w)
  \/ CountWorker \/ StartFails \/ WaitOver \/ Exit

\* Threads run, a call that waits for a lock gets it when nobody has it, and the
\* console goes on with perf; but nobody has to give a command.
Fairness ==
  /\ \A t \in Threads : WF_vars(Step(t))
  /\ \A w \in Workers : WF_vars(EndWorker(w))
  /\ WF_vars(StartFails \/ \E w \in Workers : StartWorker(w))
  /\ WF_vars(CountWorker) /\ WF_vars(WaitOver)

Spec == Init /\ [][Next]_vars /\ Fairness

-----------------------------------------------------------------------------

\* Type invariant: a container that is not listed has no state, and has references as
\* long as it is listed; what has moved is open.
TypeOK ==
  /\ \A n \in Names :
       /\ file[n] \in [good : BOOLEAN, ids : SUBSET Ids]
       /\ ct[n] \in [listed : BOOLEAN, ref : Nat, ids : SUBSET Ids, refs : [Ids -> Nat],
                     writer : Threads \cup {NoThread}, readers : Nat]
       /\ ct[n].listed <=> ct[n].ref > 0
       /\ ~ct[n].listed => ct[n] = Shut
  /\ \A n \in Names : moved[n] \subseteq {i \in Ids : ct[n].refs[i] > 0}
  /\ g \in Threads \cup {NoThread}
  /\ perf.cnt \in -Cardinality(Workers) .. Cardinality(Workers)

\* No thread has a pointer to a container or an object that has been freed, whichever of
\* its users closes it last, and none uses the parameters of perf when they are freed
\* (ofs_close_nolock, ofs_close_object_nolock, test_performance).
HeldIsLive == stale = {}

\* Of the threads that find at the same time that an object or a container is not open
\* or not there, one opens or creates it: none is twice in its list, and no object is
\* created when there is one (ofs_open_nolock, ofs_create_object_nolock,
\* ofs_open_object_nolock).
ListedOnce == ~twice

\* The objects that can be opened in a container, now or after it is opened.
Present(n) ==
  IF ct[n].listed THEN ct[n].ids ELSE IF file[n].good THEN file[n].ids ELSE {}

\* The last handle of object i of container n goes, and its root has moved meanwhile.
Renumbered(n, i) == i \in moved[n] /\ i \notin moved'[n]

\* Whoever closes a container, and whatever is open then: an object is lost only with the
\* file, when the container is created anew, or when it has moved itself and goes with its
\* own last handle, where the update of $OBJID may fail; never with another one
\* (close_container, close_object, validate_obj_inode).
NothingLost ==
  [][\A n \in Names : \A i \in Present(n) \ Present(n)' :
       \/ \E t \in Threads : thr[t].n = n /\ CreateContainer(t)
       \/ Renumbered(n, i)]_vars

Busy(t) == thr[t].todo # <<>> \/ (t = Console /\ perf.phase # "none")

\* Every command comes to its end, and perf when its workers have, unless
\* ofs_get_object_info has left the lock of a container taken for reading
\* (test_performance, ofs_get_object_info).
CallsReturn ==
  \A t \in Threads :
    Busy(t) ~> (~Busy(t) \/ \E n \in Names : ct[n].readers > 0)
=============================================================================
