--------------------------- MODULE Objects_proofs ---------------------------
(***************************************************************************)
(* Proofs about Objects, for all containers, objects and workers.          *)
(*                                                                         *)
(* Nobody's pointer is freed under it because of four things that hold     *)
(* together: where a thread is in its command tells what it holds          *)
(* (Staged); the console and the workers are never at work at the same     *)
(* time (Alone); what a call has read is still so when it acts on it,      *)
(* because it has the lock (Locking); and a counter is at least the number *)
(* of the workers that hold what it counts (Counting).                     *)
(***************************************************************************)
EXTENDS Objects, FiniteSetTheorems, TLAPS

-----------------------------------------------------------------------------
(* The invariant.                                                          *)

\* What is left of a command when the thread holds nothing, a container, and an object
\* of it: for a worker, and for the console.
FreeWorker ==
  {<<"open_ct", "create_obj", "use", "close_obj", "close_ct", "end">>,
   <<"open_ct", "open_obj", "use", "close_obj", "close_ct", "end">>,
   <<"end">>}
CtWorker ==
  {<<"create_obj", "use", "close_obj", "close_ct", "end">>,
   <<"open_obj", "use", "close_obj", "close_ct", "end">>,
   <<"close_ct", "end">>}
ObjWorker ==
  {<<"use", "close_obj", "close_ct", "end">>,
   <<"close_obj", "close_ct", "end">>}
CtConsole ==
  {<<"create_obj">>, <<"open_obj">>, <<"close_ct">>, <<"get_obj", "close_obj">>,
   <<"get_obj">>, <<"show", "close_ct">>, <<"open_obj", "use", "close_obj", "close_ct">>}
ObjConsole ==
  {<<"use", "close_obj", "close_ct">>, <<"close_obj", "close_ct">>, <<"close_obj">>}

Free(t) == IF t \in Workers THEN FreeWorker ELSE Commands
WithCt(t) == IF t \in Workers THEN CtWorker ELSE CtConsole
WithObj(t) == IF t \in Workers THEN ObjWorker ELSE ObjConsole

\* r may be the variables of t.
AtStage(t, r) ==
  \/ ~r.ct /\ ~r.obj /\ r.todo \in Free(t) \cup {<<>>}
  \/ r.ct /\ ~r.obj /\ r.todo \in WithCt(t)
  \/ r.ct /\ r.obj /\ r.todo \in WithObj(t)

Staged == \A t \in Threads : AtStage(t, thr[t])

Plans(t) == Free(t) \cup WithCt(t) \cup WithObj(t) \cup {<<>>}

FileOK == file \in [Names -> [good : BOOLEAN, ids : SUBSET Ids]]

Containers ==
  [listed : BOOLEAN, ref : Nat, ids : SUBSET Ids, refs : [Ids -> Nat],
   writer : Threads \cup {NoThread}, readers : Nat]

CtOK == ct \in [Names -> Containers]

ThrOK ==
  /\ DOMAIN thr = Threads
  /\ \A t \in Threads :
       thr[t] \in [todo : Plans(t), within : BOOLEAN, saw : Nat, n : Names, i : Ids,
                   ct : BOOLEAN, obj : BOOLEAN]

PerfOK ==
  perf \in [phase : {"none", "insert", "remove"}, left : SUBSET Workers,
            counted : BOOLEAN, cnt : Int]

Typed == FileOK /\ CtOK /\ ThrOK /\ PerfOK /\ g \in Threads \cup {NoThread}

\* A container that is not in the list has no state.
Lists ==
  \A n \in Names : (ct[n].listed <=> ct[n].ref > 0) /\ (~ct[n].listed => ct[n] = Shut)

\* The workers run in the rounds of perf only, and the console waits for them.
Alone ==
  /\ perf.phase = "none" => Running = {} /\ perf.left = {} /\ perf.counted
  /\ perf.phase # "none" => thr[Console].todo = <<>>
  /\ perf.left \cap Running = {}
  /\ perf.cnt + (IF perf.counted THEN 0 ELSE 1) = Cardinality(Running)
  /\ ~perf.counted => Workers # {}

\* What t has read under the lock it has is still so.
Locked(t) ==
  thr[t].todo # <<>> /\ thr[t].within =>
    /\ Call(t) \in ListCalls => g = t
    /\ Call(t) \in ObjectCalls => Ct(t).writer = t
    /\ Call(t) \in ListCalls \cup ObjectCalls \cup {"get_obj"} => thr[t].saw = Seen(t)

Locking == \A t \in Threads : Locked(t)

CtUsers(n) == {w \in Workers : thr[w].n = n /\ thr[w].ct}
ObjUsers(n, i) == {w \in CtUsers(n) : thr[w].i = i /\ thr[w].obj}

\* What is held is counted: that of a worker by a reference of its own.
Counting ==
  /\ \A n \in Names : Cardinality(CtUsers(n)) <= ct[n].ref
  /\ \A n \in Names, i \in Ids : Cardinality(ObjUsers(n, i)) <= ct[n].refs[i]
  /\ thr[Console].ct => ct[thr[Console].n].ref > 0
  /\ thr[Console].obj => ct[thr[Console].n].refs[thr[Console].i] > 0

ObjectsInv ==
  Typed /\ Lists /\ Staged /\ Alone /\ Locking /\ Counting /\ HeldIsLive /\ ListedOnce

-----------------------------------------------------------------------------
(* The commands: which call comes next, and what is left after it.         *)

\* A worker's commands when it holds nothing: the next one opens its container, or the script ends.
LEMMA FreeWorkerNext ==
  ASSUME NEW s \in FreeWorker
  PROVE  /\ s # <<>>
         /\ s = <<"end">> \/ (Head(s) = "open_ct" /\ Tail(s) \in CtWorker)
<1>1. CASE s = <<"open_ct", "create_obj", "use", "close_obj", "close_ct", "end">>
  BY <1>1 DEF CtWorker
<1>2. CASE s = <<"open_ct", "open_obj", "use", "close_obj", "close_ct", "end">>
  BY <1>2 DEF CtWorker
<1>3. CASE s = <<"end">>
  BY <1>3 DEF CtWorker
<1> QED BY <1>1, <1>2, <1>3, Zenon
        DEF FreeWorker

\* A worker's commands when it holds a container: it closes it and ends, or takes an object.
LEMMA CtWorkerNext ==
  ASSUME NEW s \in CtWorker
  PROVE  /\ s # <<>>
         /\ \/ Head(s) = "close_ct" /\ Tail(s) = <<"end">>
            \/ /\ Head(s) \in {"create_obj", "open_obj"} /\ Tail(s) \in ObjWorker
               /\ \E k \in DOMAIN s : s[k] = "close_ct"
<1>1. CASE s = <<"create_obj", "use", "close_obj", "close_ct", "end">>
  <2>1. 4 \in DOMAIN s /\ s[4] = "close_ct"
    BY <1>1
  <2> QED BY <1>1, <2>1 DEF ObjWorker
<1>2. CASE s = <<"open_obj", "use", "close_obj", "close_ct", "end">>
  <2>1. 4 \in DOMAIN s /\ s[4] = "close_ct"
    BY <1>2
  <2> QED BY <1>2, <2>1 DEF ObjWorker
<1>3. CASE s = <<"close_ct", "end">>
  BY <1>3 DEF ObjWorker
<1> QED BY <1>1, <1>2, <1>3, Zenon
        DEF CtWorker

\* A worker's commands when it holds an object: it uses it, or closes it.
LEMMA ObjWorkerNext ==
  ASSUME NEW s \in ObjWorker
  PROVE  /\ s # <<>>
         /\ \/ Head(s) = "use" /\ Tail(s) \in ObjWorker
            \/ Head(s) = "close_obj" /\ Tail(s) \in CtWorker
<1>1. CASE s = <<"use", "close_obj", "close_ct", "end">>
  BY <1>1 DEF ObjWorker, CtWorker
<1>2. CASE s = <<"close_obj", "close_ct", "end">>
  BY <1>2 DEF ObjWorker, CtWorker
<1> QED BY <1>1, <1>2, Zenon
        DEF ObjWorker

\* What a command of the console begins with, and what is left of it then.
LEMMA CommandsNext ==
  ASSUME NEW s \in Commands
  PROVE  /\ s # <<>>
         /\ \/ Head(s) = "walk" /\ Tail(s) = <<>>
            \/ /\ Head(s) \in {"create_ct", "open_ct", "get_ct"}
               /\ Tail(s) \in CtConsole \cup {<<>>}
<1>1. CASE s = <<"create_ct">>
  BY <1>1 DEF CtConsole
<1>2. CASE s = <<"get_ct", "create_obj">>
  BY <1>2 DEF CtConsole
<1>3. CASE s = <<"open_ct">>
  BY <1>3 DEF CtConsole
<1>4. CASE s = <<"get_ct", "open_obj">>
  BY <1>4 DEF CtConsole
<1>5. CASE s = <<"get_ct", "close_ct">>
  BY <1>5 DEF CtConsole
<1>6. CASE s = <<"get_ct", "get_obj", "close_obj">>
  BY <1>6 DEF CtConsole
<1>7. CASE s = <<"walk">>
  BY <1>7 DEF CtConsole
<1>8. CASE s = <<"get_ct">>
  BY <1>8 DEF CtConsole
<1>9. CASE s = <<"get_ct", "get_obj">>
  BY <1>9 DEF CtConsole
<1>10. CASE s = <<"open_ct", "show", "close_ct">>
  BY <1>10 DEF CtConsole
<1>11. CASE s = <<"open_ct", "open_obj", "use", "close_obj", "close_ct">>
  BY <1>11 DEF CtConsole
<1> QED BY <1>1, <1>2, <1>3, <1>4, <1>5, <1>6, <1>7, <1>8, <1>9, <1>10, <1>11, Zenon
        DEF Commands, cmd_create, cmd_open, cmd_close, cmd_list, print_super_block,
            cmd_insert_key, cmd_remove_key, dump_cmd

\* The console's commands when it holds a container.
LEMMA CtConsoleNext ==
  ASSUME NEW s \in CtConsole
  PROVE  /\ s # <<>>
         /\ \/ Head(s) = "close_ct" /\ Tail(s) = <<>>
            \/ Head(s) = "show" /\ Tail(s) \in CtConsole
            \/ /\ Head(s) \in {"create_obj", "open_obj", "get_obj"}
               /\ Tail(s) \in ObjConsole \cup {<<>>}
<1>1. CASE s = <<"create_obj">>
  BY <1>1 DEF CtConsole, ObjConsole
<1>2. CASE s = <<"open_obj">>
  BY <1>2 DEF CtConsole, ObjConsole
<1>3. CASE s = <<"close_ct">>
  BY <1>3 DEF CtConsole, ObjConsole
<1>4. CASE s = <<"get_obj", "close_obj">>
  BY <1>4 DEF CtConsole, ObjConsole
<1>5. CASE s = <<"get_obj">>
  BY <1>5 DEF CtConsole, ObjConsole
<1>6. CASE s = <<"show", "close_ct">>
  BY <1>6 DEF CtConsole, ObjConsole
<1>7. CASE s = <<"open_obj", "use", "close_obj", "close_ct">>
  BY <1>7 DEF CtConsole, ObjConsole
<1> QED BY <1>1, <1>2, <1>3, <1>4, <1>5, <1>6, <1>7, Zenon
        DEF CtConsole

\* The console's commands when it holds an object.
LEMMA ObjConsoleNext ==
  ASSUME NEW s \in ObjConsole
  PROVE  /\ s # <<>>
         /\ \/ Head(s) = "use" /\ Tail(s) \in ObjConsole
            \/ Head(s) = "close_obj" /\ Tail(s) \in CtConsole \cup {<<>>}
<1>1. CASE s = <<"use", "close_obj", "close_ct">>
  BY <1>1 DEF ObjConsole, CtConsole
<1>2. CASE s = <<"close_obj", "close_ct">>
  BY <1>2 DEF ObjConsole, CtConsole
<1>3. CASE s = <<"close_obj">>
  BY <1>3 DEF ObjConsole, CtConsole
<1> QED BY <1>1, <1>2, <1>3, Zenon
        DEF ObjConsole

Rest(t) == Tail(thr[t].todo)

\* What a thread holds at a call, and what may be left after it.
LEMMA Stages ==
  ASSUME Staged, NEW t \in Threads, thr[t].todo # <<>>
  PROVE  /\ Call(t) \in {"create_ct", "open_ct", "get_ct"} =>
              /\ ~thr[t].ct /\ ~thr[t].obj
              /\ Rest(t) \in WithCt(t) \/ (t \notin Workers /\ Rest(t) = <<>>)
         /\ Call(t) \in {"create_ct", "get_ct"} => t \notin Workers
         /\ Call(t) = "walk" => ~thr[t].ct /\ ~thr[t].obj /\ t \notin Workers /\ Rest(t) = <<>>
         /\ Call(t) \in {"create_obj", "open_obj"} =>
              /\ thr[t].ct /\ ~thr[t].obj
              /\ Rest(t) \in WithObj(t) \/ (t \notin Workers /\ Rest(t) = <<>>)
              /\ t \in Workers => \E k \in DOMAIN thr[t].todo : thr[t].todo[k] = "close_ct"
         /\ Call(t) = "get_obj" =>
              thr[t].ct /\ ~thr[t].obj /\ t \notin Workers /\ Rest(t) \in WithObj(t) \cup {<<>>}
         /\ Call(t) = "show" =>
              thr[t].ct /\ ~thr[t].obj /\ t \notin Workers /\ Rest(t) \in WithCt(t)
         /\ Call(t) = "use" => thr[t].ct /\ thr[t].obj /\ Rest(t) \in WithObj(t)
         /\ Call(t) = "close_obj" =>
              /\ thr[t].ct /\ thr[t].obj
              /\ Rest(t) \in WithCt(t) \/ (t \notin Workers /\ Rest(t) = <<>>)
         /\ Call(t) = "close_ct" =>
              /\ thr[t].ct /\ ~thr[t].obj
              /\ t \in Workers => Rest(t) = <<"end">>
              /\ t \notin Workers => Rest(t) = <<>>
         /\ Call(t) = "end" =>
              ~thr[t].ct /\ ~thr[t].obj /\ t \in Workers /\ thr[t].todo = <<"end">>
<1> DEFINE r == thr[t]
<1>0. AtStage(t, r)
  BY DEF Staged
<1> HIDE DEF r
<1>1. CASE r.todo \in FreeWorker /\ t \in Workers /\ ~r.ct /\ ~r.obj
  BY <1>1, FreeWorkerNext DEF WithCt, Call, Rest, r
<1>2. CASE r.todo \in CtWorker /\ t \in Workers /\ r.ct /\ ~r.obj
  BY <1>2, CtWorkerNext DEF WithObj, Call, Rest, r
<1>3. CASE r.todo \in ObjWorker /\ t \in Workers /\ r.ct /\ r.obj
  BY <1>3, ObjWorkerNext DEF WithCt, WithObj, Call, Rest, r
<1>4. CASE r.todo \in Commands /\ t \notin Workers /\ ~r.ct /\ ~r.obj
  BY <1>4, CommandsNext DEF WithCt, Call, Rest, r
<1>5. CASE r.todo \in CtConsole /\ t \notin Workers /\ r.ct /\ ~r.obj
  BY <1>5, CtConsoleNext DEF WithCt, WithObj, Call, Rest, r
<1>6. CASE r.todo \in ObjConsole /\ t \notin Workers /\ r.ct /\ r.obj
  BY <1>6, ObjConsoleNext DEF WithCt, WithObj, Call, Rest, r
<1>7. r.todo # <<>>
  BY DEF r
<1> QED BY <1>0, <1>1, <1>2, <1>3, <1>4, <1>5, <1>6, <1>7 DEF AtStage, Free, WithCt, WithObj

-----------------------------------------------------------------------------
(* How a thread leaves a call.                                             *)

\* t goes on with its command, as one that may be there, and the others stay.
Moved(t) ==
  /\ ThrOK' /\ AtStage(t, thr'[t])
  /\ \A x \in Threads \ {t} : thr'[x] = thr[x]
  /\ thr'[t].n = thr[t].n /\ thr'[t].i = thr[t].i /\ ~thr'[t].within
  /\ t \in Workers => thr'[t].todo # <<>>

\* A thread that goes on with commands that fit what it now holds is in a legal stage again.
LEMMA Goes ==
  ASSUME ThrOK, NEW t \in Threads, NEW rest, NEW hasCt \in BOOLEAN, NEW hasObj \in BOOLEAN,
         Go(t, rest, hasCt, hasObj),
         \/ rest = <<>> /\ t \notin Workers
         \/ ~hasCt /\ ~hasObj /\ rest \in Free(t)
         \/ hasCt /\ ~hasObj /\ rest \in WithCt(t)
         \/ hasCt /\ hasObj /\ rest \in WithObj(t)
  PROVE  Moved(t) /\ (thr'[t].ct => hasCt) /\ (thr'[t].obj => hasObj)
<1>1. rest \in Plans(t) /\ (t \in Workers => rest # <<>>)
  BY FreeWorkerNext, CtWorkerNext, ObjWorkerNext DEF Plans, Free, WithCt, WithObj
<1>2. CASE rest = <<>>
  <2>1. thr' = [thr EXCEPT ![t] = Idle(thr[t].n, thr[t].i)]
    BY <1>2 DEF Go
  <2>2. thr[t].n \in Names /\ thr[t].i \in Ids /\ <<>> \in Plans(t)
    BY DEF ThrOK, Plans
  <2> QED BY <1>1, <1>2, <2>1, <2>2 DEF Idle, ThrOK, Moved, AtStage
<1>3. CASE rest # <<>>
  <2>1. thr' = [thr EXCEPT ![t] = [@ EXCEPT !.todo = rest, !.within = FALSE, !.saw = 0,
                                           !.ct = hasCt, !.obj = hasObj]]
    BY <1>3 DEF Go
  <2>2. thr'[t] = [todo |-> rest, within |-> FALSE, saw |-> 0, n |-> thr[t].n,
                   i |-> thr[t].i, ct |-> hasCt, obj |-> hasObj]
    BY <2>1 DEF ThrOK
  <2>3. ThrOK'
    <3>1. thr[t].n \in Names /\ thr[t].i \in Ids
      BY DEF ThrOK
    <3>2. thr'[t] \in [todo : Plans(t), within : BOOLEAN, saw : Nat, n : Names, i : Ids,
                       ct : BOOLEAN, obj : BOOLEAN]
      BY ONLY hasCt \in BOOLEAN, hasObj \in BOOLEAN, <1>1, <2>2, <3>1
    <3>3. DOMAIN thr' = Threads /\ \A x \in Threads \ {t} : thr'[x] = thr[x]
      BY <2>1 DEF ThrOK
    <3> QED BY <3>2, <3>3 DEF ThrOK
  <2>4. AtStage(t, thr'[t])
    BY <1>3, <2>2 DEF AtStage
  <2>5. \A x \in Threads \ {t} : thr'[x] = thr[x]
    BY <2>1 DEF ThrOK
  <2> QED BY <1>1, <2>2, <2>3, <2>4, <2>5 DEF Moved
<1> QED BY <1>2, <1>3

\* A call that succeeds.
LEMMA Advances ==
  ASSUME ThrOK, Staged, NEW t \in Threads, thr[t].todo # <<>>,
         NEW hasCt \in BOOLEAN, NEW hasObj \in BOOLEAN, Succeeds(t, hasCt, hasObj),
         \/ Call(t) \in {"walk", "close_ct"} /\ ~hasCt /\ ~hasObj
         \/ Call(t) \in {"create_ct", "open_ct", "get_ct", "show", "close_obj"} /\ hasCt /\ ~hasObj
         \/ Call(t) \in {"create_obj", "open_obj", "get_obj", "use"} /\ hasCt /\ hasObj
  PROVE  Moved(t) /\ (thr'[t].ct => hasCt) /\ (thr'[t].obj => hasObj)
<1>1. AtStage(t, thr[t])
  BY DEF Staged
<1>2. <<"end">> \in FreeWorker
  BY Zenon DEF FreeWorker
<1>3. \/ Rest(t) = <<>> /\ t \notin Workers
      \/ ~hasCt /\ ~hasObj /\ Rest(t) \in Free(t)
      \/ hasCt /\ ~hasObj /\ Rest(t) \in WithCt(t)
      \/ hasCt /\ hasObj /\ Rest(t) \in WithObj(t)
  <2>1. CASE Call(t) \in {"walk", "close_ct"}
    <3>1. ~hasCt /\ ~hasObj
      BY <2>1
    <3>2. (Rest(t) = <<>> /\ t \notin Workers) \/ (Rest(t) = <<"end">> /\ t \in Workers)
      BY <2>1, Stages
    <3> QED BY <1>2, <3>1, <3>2 DEF Free
  <2>2. CASE Call(t) \in {"create_ct", "open_ct", "get_ct", "show", "close_obj"}
    <3>1. hasCt /\ ~hasObj
      BY <2>2
    <3>2. CASE Call(t) \in {"create_ct", "open_ct", "get_ct"}
      BY <3>1, <3>2, Stages
    <3>3. CASE Call(t) \in {"show", "close_obj"}
      BY <3>1, <3>3, Stages
    <3> QED BY <2>2, <3>2, <3>3
  <2>3. CASE Call(t) \in {"create_obj", "open_obj", "get_obj", "use"}
    BY <2>3, Stages
  <2> QED BY <2>1, <2>2, <2>3
<1> QED BY <1>3, Goes DEF Succeeds, Rest

\* A call that fails.
LEMMA Retreats ==
  ASSUME ThrOK, Staged, NEW t \in Threads, thr[t].todo # <<>>, Fails(t),
         Call(t) \in {"create_ct", "open_ct", "get_ct", "create_obj", "open_obj", "get_obj"}
  PROVE  Moved(t) /\ (thr'[t].ct => thr[t].ct) /\ ~thr'[t].obj
<1>1. AtStage(t, thr[t])
  BY DEF Staged
<1>2. <<"end">> \in FreeWorker /\ <<"close_ct", "end">> \in CtWorker /\ <<"close_ct">> \in CtConsole
  BY Zenon DEF FreeWorker, CtWorker, CtConsole
<1>3. thr[t].ct \in BOOLEAN
  BY DEF ThrOK
<1>4. t \in Workers /\ thr[t].ct => Closes(t)
  BY Stages DEF Closes
<1>5. Closes(t) => thr[t].ct
  BY DEF Closes
<1> DEFINE end == IF t \in Workers THEN <<"end">> ELSE <<>>
           close == IF t \in Workers THEN <<"close_ct", "end">> ELSE <<"close_ct">>
           rest == IF Closes(t) THEN close ELSE end
<1>6. Go(t, rest, thr[t].ct, FALSE)
  BY DEF Fails
<1>7. \/ rest = <<>> /\ t \notin Workers
      \/ ~thr[t].ct /\ rest \in Free(t)
      \/ thr[t].ct /\ rest \in WithCt(t)
  BY <1>2, <1>3, <1>4, <1>5 DEF Free, WithCt
<1> HIDE DEF rest
<1> QED BY <1>3, <1>6, <1>7, Goes

-----------------------------------------------------------------------------
(* Counting.                                                               *)

\* Adding one element to a finite set adds at most one to the number of elements of its subsets.
LEMMA Grown ==
  ASSUME NEW S, IsFiniteSet(S), NEW x, NEW T \in SUBSET (S \cup {x})
  PROVE  Cardinality(T) \in Nat /\ Cardinality(T) <= Cardinality(S) + 1
<1>1. /\ IsFiniteSet(S \cup {x}) /\ Cardinality(S) \in Nat
      /\ Cardinality(S \cup {x}) \in {Cardinality(S), Cardinality(S) + 1}
  BY FS_AddElement, FS_CardinalityType
<1>2. IsFiniteSet(T) /\ Cardinality(T) <= Cardinality(S \cup {x}) /\ Cardinality(T) \in Nat
  BY <1>1, FS_Subset, FS_CardinalityType
<1> QED BY <1>1, <1>2

\* A subset of a finite set has no more elements.
LEMMA Kept ==
  ASSUME NEW S, IsFiniteSet(S), NEW T \in SUBSET S
  PROVE  Cardinality(T) \in Nat /\ Cardinality(T) <= Cardinality(S)
  BY FS_Subset, FS_CardinalityType

\* A subset that lacks an element has one element less, at least.
LEMMA Shrunk ==
  ASSUME NEW S, IsFiniteSet(S), NEW x \in S, NEW T \in SUBSET (S \ {x})
  PROVE  Cardinality(T) \in Nat /\ Cardinality(T) <= Cardinality(S) - 1
<1>1. IsFiniteSet(S \ {x}) /\ Cardinality(S \ {x}) = Cardinality(S) - 1
  BY FS_RemoveElement
<1> QED BY <1>1, Kept

\* A set with an element has one element, with another one two.
LEMMA Members ==
  ASSUME NEW S, IsFiniteSet(S), NEW x \in S
  PROVE  /\ Cardinality(S) >= 1
         /\ \A y \in S : y # x => Cardinality(S) >= 2
<1>1. Cardinality(S) \in Nat /\ Cardinality(S) # 0
  BY FS_EmptySet, FS_CardinalityType
<1>2. ASSUME NEW y \in S, y # x
      PROVE  Cardinality(S) >= 2
  <2>1. IsFiniteSet(S \ {x}) /\ Cardinality(S \ {x}) = Cardinality(S) - 1 /\ y \in S \ {x}
    BY <1>2, FS_RemoveElement
  <2>2. Cardinality(S \ {x}) \in Nat /\ Cardinality(S \ {x}) # 0
    BY <2>1, FS_EmptySet, FS_CardinalityType
  <2> QED BY <1>1, <2>1, <2>2
<1> QED BY <1>1, <1>2

\* The users of a container or an object, and the running workers, can be counted.
LEMMA UsersFinite ==
  ASSUME NEW n, NEW i
  PROVE  /\ IsFiniteSet(CtUsers(n)) /\ Cardinality(CtUsers(n)) \in Nat
         /\ IsFiniteSet(ObjUsers(n, i)) /\ Cardinality(ObjUsers(n, i)) \in Nat
         /\ IsFiniteSet(Running) /\ Cardinality(Running) \in Nat
  BY FS_Subset, FS_CardinalityType, ObjectsAssumption DEF CtUsers, ObjUsers, Running

\* Who has nothing to do holds nothing.
LEMMA IdleHoldsNothing ==
  ASSUME Staged, NEW t \in Threads, thr[t].todo = <<>>
  PROVE  ~thr[t].ct /\ ~thr[t].obj
<1>1. thr[t].todo \notin WithCt(t) \cup WithObj(t)
  BY CtWorkerNext, ObjWorkerNext, CtConsoleNext, ObjConsoleNext DEF WithCt, WithObj
<1> QED BY <1>1 DEF Staged, AtStage

\* While one thread is at work, another one is only when both are workers; and those
\* that hold something are at work.
LEMMA AtWork ==
  ASSUME Staged, Alone, NEW t \in Threads, thr[t].todo # <<>>, NEW x \in Threads \ {t},
         thr[x].todo # <<>> \/ thr[x].ct \/ thr[x].obj
  PROVE  t \in Workers /\ x \in Workers
<1>1. thr[x].todo # <<>>
  BY IdleHoldsNothing
<1>2. \A w \in Workers : thr[w].todo # <<>> => perf.phase # "none"
  BY DEF Alone, Running
<1> QED BY <1>1, <1>2 DEF Alone, Threads

\* A reference is there for each that holds the container, and one for each that holds
\* an object of it.
LEMMA HeldIsCounted ==
  ASSUME ObjectsInv, NEW t \in Threads, thr[t].ct
  PROVE  /\ ct[thr[t].n].ref > 0
         /\ thr[t].obj => ct[thr[t].n].refs[thr[t].i] > 0
<1> DEFINE n == thr[t].n
           i == thr[t].i
<1>1. n \in Names /\ i \in Ids
  BY DEF ObjectsInv, Typed, ThrOK
<1>2. ct[n].ref \in Nat /\ ct[n].refs[i] \in Nat
  BY <1>1 DEF ObjectsInv, Typed, CtOK, Containers
<1>3. CASE t = Console
  BY <1>3 DEF ObjectsInv, Counting
<1>4. CASE t \in Workers
  <2>1. t \in CtUsers(n) /\ (thr[t].obj => t \in ObjUsers(n, i))
    BY <1>4 DEF CtUsers, ObjUsers
  <2>2. Cardinality(CtUsers(n)) <= ct[n].ref /\ Cardinality(ObjUsers(n, i)) <= ct[n].refs[i]
    BY <1>1 DEF ObjectsInv, Counting
  <2> QED BY <1>2, <2>1, <2>2, UsersFinite, Members
<1> QED BY <1>3, <1>4 DEF Threads

\* With one reference, the one that has it is the only one.
LEMMA LastHolder ==
  ASSUME ObjectsInv, NEW t \in Threads, thr[t].ct, NEW x \in Threads \ {t},
         thr[x].ct, thr[x].n = thr[t].n
  PROVE  /\ t \in Workers /\ x \in Workers /\ ct[thr[t].n].ref >= 2
         /\ thr[t].obj /\ thr[x].obj /\ thr[x].i = thr[t].i =>
              ct[thr[t].n].refs[thr[t].i] >= 2
<1> DEFINE n == thr[t].n
           i == thr[t].i
<1>1. n \in Names /\ i \in Ids
  BY DEF ObjectsInv, Typed, ThrOK
<1>2. ct[n].ref \in Nat /\ ct[n].refs[i] \in Nat
  BY <1>1 DEF ObjectsInv, Typed, CtOK, Containers
<1>3. thr[t].todo # <<>>
  BY IdleHoldsNothing DEF ObjectsInv
<1>4. t \in Workers /\ x \in Workers
  BY <1>3, AtWork DEF ObjectsInv
<1>5. /\ t \in CtUsers(n) /\ x \in CtUsers(n)
      /\ thr[t].obj /\ thr[x].obj /\ thr[x].i = i => t \in ObjUsers(n, i) /\ x \in ObjUsers(n, i)
  BY <1>4 DEF CtUsers, ObjUsers
<1>6. Cardinality(CtUsers(n)) <= ct[n].ref /\ Cardinality(ObjUsers(n, i)) <= ct[n].refs[i]
  BY <1>1 DEF ObjectsInv, Counting
<1> QED BY <1>2, <1>4, <1>5, <1>6, UsersFinite, Members

-----------------------------------------------------------------------------
(* What a step of one thread leaves as it is.                              *)

\* The container and the object that t is about.
Name(t) == thr[t].n
Id(t) == thr[t].i

\* A step of a thread that is at work leaves the console and the workers apart.
LEMMA MovedAlone ==
  ASSUME ObjectsInv, NEW t \in Threads, thr[t].todo # <<>>, Moved(t), UNCHANGED perf
  PROVE  Staged' /\ Alone'
<1>1. Staged'
  BY DEF Moved, Staged, ObjectsInv
<1>2. Running' = Running
  BY DEF Running, Moved, Threads
<1>3. perf.phase # "none" => thr'[Console].todo = <<>>
  <2>1. CASE t = Console
    BY <2>1 DEF ObjectsInv, Alone
  <2>2. CASE t # Console
    BY <2>2 DEF ObjectsInv, Alone, Moved, Threads
  <2> QED BY <2>1, <2>2
<1> QED BY <1>1, <1>2, <1>3 DEF ObjectsInv, Alone

\* A step of thread t adds no user but t, and t only where it takes what it did not hold.
LEMMA MovedUsers ==
  ASSUME ObjectsInv, NEW t \in Threads, Moved(t), NEW n \in Names, NEW i \in Ids
  PROVE  /\ CtUsers(n)' \subseteq CtUsers(n) \cup {t}
         /\ n # Name(t) \/ (thr'[t].ct => thr[t].ct) => CtUsers(n)' \subseteq CtUsers(n)
         /\ ~thr'[t].ct => CtUsers(n)' \subseteq CtUsers(n) \ {t}
         /\ t \notin Workers => CtUsers(n)' = CtUsers(n)
         /\ ObjUsers(n, i)' \subseteq ObjUsers(n, i) \cup {t}
         /\ n # Name(t) \/ i # Id(t) \/ (thr'[t].obj => thr[t].ct /\ thr[t].obj) =>
              ObjUsers(n, i)' \subseteq ObjUsers(n, i)
         /\ ~thr'[t].obj => ObjUsers(n, i)' \subseteq ObjUsers(n, i) \ {t}
         /\ t \notin Workers => ObjUsers(n, i)' = ObjUsers(n, i)
<1>1. \A x \in Workers : x # t => thr'[x] = thr[x]
  BY DEF Moved, Threads
<1>2. thr'[t].n = Name(t) /\ thr'[t].i = Id(t)
  BY DEF Moved, Name, Id
<1> QED BY <1>1, <1>2 DEF CtUsers, ObjUsers, Name, Id

\* The references to the containers after a step of t.
LEMMA CtCount ==
  ASSUME ObjectsInv, NEW t \in Threads, thr[t].todo # <<>>, Moved(t), CtOK',
         \A m \in Names \ {Name(t)} : ct'[m].ref = ct[m].ref,
         \/ /\ ct'[Name(t)].ref = ct[Name(t)].ref
            /\ thr'[t].ct => thr[t].ct \/ (t \notin Workers /\ ct[Name(t)].ref > 0)
         \/ ct'[Name(t)].ref = ct[Name(t)].ref + 1
         \/ ct'[Name(t)].ref = ct[Name(t)].ref - 1 /\ thr[t].ct /\ ~thr'[t].ct
  PROVE  /\ \A m \in Names : Cardinality(CtUsers(m)') <= ct'[m].ref
         /\ thr'[Console].ct => ct'[thr'[Console].n].ref > 0
<1>1. Name(t) \in Names /\ thr'[t].n = Name(t)
  BY DEF ObjectsInv, Typed, ThrOK, Name, Moved
<1>2. \A m \in Names : ct[m].ref \in Nat /\ ct'[m].ref \in Nat /\ Cardinality(CtUsers(m)) <= ct[m].ref
  BY DEF ObjectsInv, Typed, CtOK, Containers, Counting
<1>3. ASSUME NEW m \in Names
      PROVE  Cardinality(CtUsers(m)') <= ct'[m].ref
  <2>0. /\ ct[m].ref \in Nat /\ ct'[m].ref \in Nat
        /\ Cardinality(CtUsers(m)) \in Nat /\ Cardinality(CtUsers(m)) <= ct[m].ref
    BY <1>2, UsersFinite
  <2>1. CASE m # Name(t)
    <3>1. CtUsers(m)' \subseteq CtUsers(m) /\ ct'[m].ref = ct[m].ref
      BY <1>1, <2>1, MovedUsers, ObjectsAssumption
    <3>2. Cardinality(CtUsers(m)') \in Nat /\ Cardinality(CtUsers(m)') <= Cardinality(CtUsers(m))
      BY <3>1, UsersFinite, Kept
    <3> QED BY <2>0, <3>1, <3>2
  <2>2. CASE m = Name(t) /\ ct'[m].ref = ct[m].ref
                         /\ (thr'[t].ct => thr[t].ct \/ (t \notin Workers /\ ct[m].ref > 0))
    <3>1. CtUsers(m)' \subseteq CtUsers(m)
      BY <2>2, MovedUsers, ObjectsAssumption
    <3>2. Cardinality(CtUsers(m)') \in Nat /\ Cardinality(CtUsers(m)') <= Cardinality(CtUsers(m))
      BY <3>1, UsersFinite, Kept
    <3> QED BY <2>0, <2>2, <3>2
  <2>3. CASE m = Name(t) /\ ct'[m].ref = ct[m].ref + 1
    <3>1. CtUsers(m)' \subseteq CtUsers(m) \cup {t}
      BY MovedUsers, ObjectsAssumption
    <3>2. Cardinality(CtUsers(m)') \in Nat /\ Cardinality(CtUsers(m)') <= Cardinality(CtUsers(m)) + 1
      BY <3>1, UsersFinite, Grown
    <3> QED BY <2>0, <2>3, <3>2
  <2>4. CASE m = Name(t) /\ ct'[m].ref = ct[m].ref - 1 /\ thr[t].ct /\ ~thr'[t].ct
    <3>1. CtUsers(m)' \subseteq CtUsers(m) \ {t}
      BY <2>4, MovedUsers, ObjectsAssumption
    <3>2. CASE t \in Workers
      <4>1. t \in CtUsers(m)
        BY <2>4, <3>2 DEF CtUsers, Name
      <4>2. Cardinality(CtUsers(m)') \in Nat /\ Cardinality(CtUsers(m)') <= Cardinality(CtUsers(m)) - 1
        BY <3>1, <4>1, UsersFinite, Shrunk
      <4> QED BY <2>0, <2>4, <4>2
    <3>3. CASE t \notin Workers
      <4>1. \A x \in Workers : ~thr[x].ct
        BY <3>3, AtWork DEF ObjectsInv, Threads
      <4>2. CtUsers(m)' = {}
        BY <3>1, <4>1 DEF CtUsers
      <4>3. Cardinality(CtUsers(m)') = 0
        BY <4>2, FS_EmptySet
      <4>4. ct[m].ref > 0
        BY <2>4, HeldIsCounted DEF Name
      <4> QED BY <2>0, <2>4, <4>3, <4>4
    <3> QED BY <3>2, <3>3
  <2> QED BY <2>1, <2>2, <2>3, <2>4
<1>4. thr'[Console].ct => ct'[thr'[Console].n].ref > 0
  <2>1. CASE t = Console
    <3>1. thr[t].ct => ct[Name(t)].ref > 0
      BY HeldIsCounted DEF Name
    <3> QED BY <1>1, <1>2, <2>1, <3>1, ObjectsAssumption
  <2>2. CASE t # Console
    <3>1. ~thr[Console].ct /\ thr'[Console] = thr[Console]
      BY <2>2, AtWork, ObjectsAssumption DEF ObjectsInv, Moved, Threads
    <3> QED BY <3>1
  <2> QED BY <2>1, <2>2
<1> QED BY <1>3, <1>4

\* The references to the objects.
LEMMA ObjCount ==
  ASSUME ObjectsInv, NEW t \in Threads, thr[t].todo # <<>>, Moved(t), CtOK',
         \A m \in Names, j \in Ids :
           m # Name(t) \/ j # Id(t) => ct'[m].refs[j] = ct[m].refs[j],
         NEW was, was = ct[Name(t)].refs[Id(t)], NEW is, is = ct'[Name(t)].refs[Id(t)],
         \/ /\ is = was
            /\ thr'[t].obj => (thr[t].ct /\ thr[t].obj) \/ (t \notin Workers /\ was > 0)
         \/ is = was + 1
         \/ is = was - 1 /\ thr[t].ct /\ thr[t].obj /\ ~thr'[t].obj
  PROVE  /\ \A m \in Names, j \in Ids : Cardinality(ObjUsers(m, j)') <= ct'[m].refs[j]
         /\ thr'[Console].obj => ct'[thr'[Console].n].refs[thr'[Console].i] > 0
<1>1. Name(t) \in Names /\ thr'[t].n = Name(t) /\ Id(t) \in Ids /\ thr'[t].i = Id(t)
  BY DEF ObjectsInv, Typed, ThrOK, Name, Id, Moved
<1>2. \A m \in Names, j \in Ids :
        /\ ct[m].refs[j] \in Nat /\ ct'[m].refs[j] \in Nat
        /\ Cardinality(ObjUsers(m, j)) <= ct[m].refs[j]
  BY DEF ObjectsInv, Typed, CtOK, Containers, Counting
<1>3. ASSUME NEW m \in Names, NEW j \in Ids
      PROVE  Cardinality(ObjUsers(m, j)') <= ct'[m].refs[j]
  <2>0. /\ ct[m].refs[j] \in Nat /\ ct'[m].refs[j] \in Nat
        /\ Cardinality(ObjUsers(m, j)) \in Nat /\ Cardinality(ObjUsers(m, j)) <= ct[m].refs[j]
    BY <1>2, UsersFinite
  <2>1. CASE m # Name(t) \/ j # Id(t)
    <3>1. ObjUsers(m, j)' \subseteq ObjUsers(m, j) /\ ct'[m].refs[j] = ct[m].refs[j]
      BY <2>1, MovedUsers
    <3>2. /\ Cardinality(ObjUsers(m, j)') \in Nat
          /\ Cardinality(ObjUsers(m, j)') <= Cardinality(ObjUsers(m, j))
      BY <3>1, UsersFinite, Kept
    <3> QED BY <2>0, <3>1, <3>2
  <2>2. CASE /\ m = Name(t) /\ j = Id(t) /\ ct'[m].refs[j] = ct[m].refs[j]
             /\ thr'[t].obj => (thr[t].ct /\ thr[t].obj) \/ t \notin Workers
    <3>1. ObjUsers(m, j)' \subseteq ObjUsers(m, j)
      BY <2>2, MovedUsers
    <3>2. /\ Cardinality(ObjUsers(m, j)') \in Nat
          /\ Cardinality(ObjUsers(m, j)') <= Cardinality(ObjUsers(m, j))
      BY <3>1, UsersFinite, Kept
    <3> QED BY <2>0, <2>2, <3>2
  <2>3. CASE m = Name(t) /\ j = Id(t) /\ ct'[m].refs[j] = ct[m].refs[j] + 1
    <3>1. ObjUsers(m, j)' \subseteq ObjUsers(m, j) \cup {t}
      BY MovedUsers
    <3>2. /\ Cardinality(ObjUsers(m, j)') \in Nat
          /\ Cardinality(ObjUsers(m, j)') <= Cardinality(ObjUsers(m, j)) + 1
      BY <3>1, UsersFinite, Grown
    <3> QED BY <2>0, <2>3, <3>2
  <2>4. CASE /\ m = Name(t) /\ j = Id(t) /\ ct'[m].refs[j] = ct[m].refs[j] - 1
             /\ thr[t].ct /\ thr[t].obj /\ ~thr'[t].obj
    <3>1. ObjUsers(m, j)' \subseteq ObjUsers(m, j) \ {t}
      BY <2>4, MovedUsers
    <3>2. CASE t \in Workers
      <4>1. t \in ObjUsers(m, j)
        BY <2>4, <3>2 DEF CtUsers, ObjUsers, Name, Id
      <4>2. /\ Cardinality(ObjUsers(m, j)') \in Nat
            /\ Cardinality(ObjUsers(m, j)') <= Cardinality(ObjUsers(m, j)) - 1
        BY <3>1, <4>1, UsersFinite, Shrunk
      <4> QED BY <2>0, <2>4, <4>2
    <3>3. CASE t \notin Workers
      <4>1. \A x \in Workers : ~thr[x].obj
        BY <3>3, AtWork DEF ObjectsInv, Threads
      <4>2. ObjUsers(m, j)' = {}
        BY <3>1, <4>1 DEF ObjUsers, CtUsers
      <4>3. Cardinality(ObjUsers(m, j)') = 0
        BY <4>2, FS_EmptySet
      <4>4. ct[m].refs[j] > 0
        <5>1. thr[t].ct /\ thr[t].obj /\ m = thr[t].n /\ j = thr[t].i
          BY <2>4 DEF Name, Id
        <5> QED BY ONLY ObjectsInv, t \in Threads, <5>1, HeldIsCounted
      <4> QED BY <2>0, <2>4, <4>3, <4>4
    <3> QED BY <3>2, <3>3
  <2> QED BY <2>1, <2>2, <2>3, <2>4
<1>4. thr'[Console].obj => ct'[thr'[Console].n].refs[thr'[Console].i] > 0
  <2>1. CASE t = Console
    <3>1. thr[t].ct /\ thr[t].obj => ct[Name(t)].refs[Id(t)] > 0
      BY ONLY ObjectsInv, t \in Threads, HeldIsCounted DEF Name, Id
    <3> QED BY <1>1, <1>2, <2>1, <3>1, ObjectsAssumption
  <2>2. CASE t # Console
    <3>1. ~thr[Console].obj /\ thr'[Console] = thr[Console]
      BY <2>2, AtWork, ObjectsAssumption DEF ObjectsInv, Moved, Threads
    <3> QED BY <3>1
  <2> QED BY <2>1, <2>2
<1> QED BY <1>3, <1>4

\* The same when a container has had no users but t, and t holds no object of it now.
LEMMA ObjCountAlone ==
  ASSUME ObjectsInv, NEW t \in Threads, thr[t].todo # <<>>, Moved(t), CtOK', ~thr'[t].obj,
         \A m \in Names \ {Name(t)} : ct'[m].refs = ct[m].refs,
         \A x \in Threads \ {t} : ~(thr[x].ct /\ thr[x].n = Name(t))
  PROVE  /\ \A m \in Names, j \in Ids : Cardinality(ObjUsers(m, j)') <= ct'[m].refs[j]
         /\ thr'[Console].obj => ct'[thr'[Console].n].refs[thr'[Console].i] > 0
<1>1. \A m \in Names, j \in Ids :
        /\ ct[m].refs[j] \in Nat /\ ct'[m].refs[j] \in Nat
        /\ Cardinality(ObjUsers(m, j)) <= ct[m].refs[j]
  BY DEF ObjectsInv, Typed, CtOK, Containers, Counting
<1>2. ASSUME NEW m \in Names, NEW j \in Ids
      PROVE  Cardinality(ObjUsers(m, j)') <= ct'[m].refs[j]
  <2>0. /\ ct[m].refs[j] \in Nat /\ ct'[m].refs[j] \in Nat
        /\ Cardinality(ObjUsers(m, j)) \in Nat /\ Cardinality(ObjUsers(m, j)) <= ct[m].refs[j]
    BY <1>1, UsersFinite
  <2>1. CASE m # Name(t)
    <3>1. ObjUsers(m, j)' \subseteq ObjUsers(m, j) /\ ct'[m].refs = ct[m].refs
      BY <2>1, MovedUsers
    <3>2. /\ Cardinality(ObjUsers(m, j)') \in Nat
          /\ Cardinality(ObjUsers(m, j)') <= Cardinality(ObjUsers(m, j))
      BY <3>1, UsersFinite, Kept
    <3> QED BY <2>0, <3>1, <3>2
  <2>2. CASE m = Name(t)
    <3>1. ObjUsers(m, j)' \subseteq ObjUsers(m, j) \ {t}
      BY MovedUsers
    <3>2. ObjUsers(m, j) \ {t} = {}
      BY <2>2 DEF ObjUsers, CtUsers, Threads
    <3>3. ObjUsers(m, j)' = {}
      BY <3>1, <3>2
    <3>4. Cardinality(ObjUsers(m, j)') = 0
      BY <3>3, FS_EmptySet
    <3> QED BY <2>0, <3>4
  <2> QED BY <2>1, <2>2
<1>3. ~thr'[Console].obj
  <2>1. CASE t # Console
    BY <2>1, AtWork, ObjectsAssumption DEF ObjectsInv, Moved, Threads
  <2> QED BY <2>1
<1> QED BY <1>2, <1>3

-----------------------------------------------------------------------------
(* What has been read under a lock.                                        *)

\* What a call under the lock of a container reads is not changed.
SameObjects(n) == ct'[n].ids = ct[n].ids /\ ct'[n].refs = ct[n].refs /\ ct'[n].writer = ct[n].writer

\* What a thread read under a lock stays so while others leave that list and its counter alone.
LEMMA LockedKept ==
  ASSUME NEW x \in Threads, Locked(x), thr'[x] = thr[x],
         Call(x) \in ListCalls /\ thr[x].within => g' = g /\ ct'[Name(x)].ref = ct[Name(x)].ref,
         Call(x) \in ObjectCalls \cup {"get_obj"} /\ thr[x].within => SameObjects(Name(x))
  PROVE  Locked(x)'
<1>1. Call(x)' = Call(x)
  BY DEF Call
<1>2. (Call(x) \in ListCalls) <=> (Call(x)' \in ListCalls)
  BY <1>1
<1>3. (Call(x) \in ObjectCalls) <=> (Call(x)' \in ObjectCalls)
  BY <1>1
<1>4. ASSUME thr[x].within, Call(x) \in ListCalls \cup ObjectCalls \cup {"get_obj"}
      PROVE  Seen(x)' = Seen(x)
  <2>1. CASE Call(x) \in ListCalls
    <3>1. Call(x) # "create_obj"
      BY <2>1 DEF ListCalls
    <3> QED BY <1>1, <1>4, <2>1, <3>1 DEF Seen, Ct, Name
  <2>2. CASE Call(x) \notin ListCalls
    <3>1. Seen(x) = IF Call(x) = "create_obj" /\ thr[x].i \in ct[Name(x)].ids
                    THEN 1 ELSE ct[Name(x)].refs[thr[x].i]
      BY <2>2 DEF Seen, Ct, Name
    <3>2. Seen(x)' = IF Call(x)' = "create_obj" /\ thr'[x].i \in ct'[Name(x)].ids
                     THEN 1 ELSE ct'[Name(x)].refs[thr'[x].i]
      BY <1>1, <2>2 DEF Seen, Ct, Name
    <3>3. SameObjects(Name(x))
      BY <1>4, <2>2
    <3> QED BY <1>1, <3>1, <3>2, <3>3 DEF SameObjects
  <2> QED BY <2>1, <2>2
<1> QED BY <1>1, <1>4 DEF Locked, Ct, Name, SameObjects

\* A call under the lock of the list, then one under the lock of a container, then one
\* that changes nothing that another has read.
LEMMA LockingStep ==
  ASSUME ObjectsInv, NEW t \in Threads, thr[t].todo # <<>>, thr[t].within, Moved(t),
         \/ /\ Call(t) \in ListCalls
            /\ \A m \in Names \ {Name(t)} : SameObjects(m)
            /\ \/ SameObjects(Name(t))
               \/ \A x \in Threads \ {t} : ~(thr[x].ct /\ thr[x].n = Name(t))
         \/ /\ Call(t) \in ObjectCalls /\ g' = g
            /\ \A m \in Names : ct'[m].ref = ct[m].ref
            /\ \A m \in Names \ {Name(t)} : SameObjects(m)
         \/ /\ g' = g
            /\ \A m \in Names : ct'[m].ref = ct[m].ref /\ SameObjects(m)
  PROVE  Locking'
<1> SUFFICES ASSUME NEW x \in Threads PROVE Locked(x)'
  BY DEF Locking
<1>1. CASE x = t
  BY <1>1 DEF Moved, Locked
<1>2. CASE x # t
  <2>1. /\ Locked(x) /\ Locked(t) /\ thr'[x] = thr[x] /\ Name(x) \in Names
    BY <1>2 DEF ObjectsInv, Locking, Moved, Typed, ThrOK, Name
  <2>2. CASE thr[x].todo = <<>>
    BY <2>1, <2>2 DEF Locked
  <2>3. CASE thr[x].todo # <<>>
    <3>1. x \in Workers
      BY <1>2, <2>3, AtWork DEF ObjectsInv
    <3>2. Call(x) # "get_obj" /\ (Call(x) \in ObjectCalls => thr[x].ct)
      BY <2>3, <3>1, Stages DEF ObjectCalls, ObjectsInv
    <3>3. thr[x].within /\ Call(x) \in ListCalls => g = x
      BY <2>1, <2>3 DEF Locked
    <3>4. thr[x].within /\ Call(x) \in ObjectCalls => ct[Name(x)].writer = x
      BY <2>1, <2>3 DEF Locked, Ct, Name
    <3>5. CASE /\ Call(t) \in ListCalls
               /\ \A m \in Names \ {Name(t)} : SameObjects(m)
               /\ \/ SameObjects(Name(t))
                  \/ \A y \in Threads \ {t} : ~(thr[y].ct /\ thr[y].n = Name(t))
      <4>1. g = t
        BY <2>1, <3>5 DEF Locked
      <4>2. ~(thr[x].within /\ Call(x) \in ListCalls)
        BY <1>2, <3>3, <4>1
      <4>3. Call(x) \in ObjectCalls => SameObjects(Name(x))
        BY <1>2, <2>1, <3>2, <3>5 DEF Name
      <4> QED BY <2>1, <3>2, <4>2, <4>3, LockedKept
    <3>6. CASE /\ Call(t) \in ObjectCalls /\ g' = g
               /\ \A m \in Names : ct'[m].ref = ct[m].ref
               /\ \A m \in Names \ {Name(t)} : SameObjects(m)
      <4>1. ct[Name(t)].writer = t
        BY <2>1, <3>6 DEF Locked, Ct, Name
      <4>2. thr[x].within /\ Call(x) \in ObjectCalls => Name(x) # Name(t)
        BY <1>2, <3>4, <4>1
      <4> QED BY <2>1, <3>2, <3>6, <4>2, LockedKept
    <3>7. CASE g' = g /\ \A m \in Names : ct'[m].ref = ct[m].ref /\ SameObjects(m)
      BY <2>1, <3>7, LockedKept
    <3> QED BY <3>5, <3>6, <3>7
  <2> QED BY <2>2, <2>3
<1> QED BY <1>1, <1>2

-----------------------------------------------------------------------------
(* The calls under the lock of the list.                                   *)

\* The fields of a thread and of its container, with their types.
LEMMA Typing ==
  ASSUME ObjectsInv, NEW t \in Threads
  PROVE  /\ Name(t) \in Names /\ Id(t) \in Ids /\ thr[t].saw \in Nat
         /\ thr[t].ct \in BOOLEAN /\ thr[t].obj \in BOOLEAN
         /\ ct[Name(t)].ref \in Nat /\ ct[Name(t)].refs[Id(t)] \in Nat
         /\ \A i \in Ids : ct[Name(t)].refs[i] \in Nat
  BY DEF ObjectsInv, Typed, ThrOK, CtOK, Containers, Name, Id

\* A call that leaves the counters and the lists as they are.
LEMMA QuietStep ==
  ASSUME ObjectsInv, NEW t \in Threads, thr[t].todo # <<>>, thr[t].within, Moved(t),
         FileOK', CtOK', Lists', UNCHANGED <<perf, stale, twice>>,
         IF Call(t) \in ListCalls THEN g' = NoThread ELSE g' = g,
         \A m \in Names : ct'[m].ref = ct[m].ref /\ ct'[m].refs = ct[m].refs,
         \/ \A m \in Names : SameObjects(m)
         \/ Call(t) \in ObjectCalls /\ \A m \in Names \ {Name(t)} : SameObjects(m),
         thr'[t].ct => thr[t].ct \/ (t \notin Workers /\ ct[Name(t)].ref > 0),
         thr'[t].obj => (thr[t].ct /\ thr[t].obj) \/ (t \notin Workers /\ ct[Name(t)].refs[Id(t)] > 0)
  PROVE  ObjectsInv'
<1>1. Staged' /\ Alone'
  BY MovedAlone
<1>2. Locking'
  <2>1. CASE Call(t) \in ListCalls
    <3>1. Call(t) \notin ObjectCalls
      BY <2>1 DEF ListCalls, ObjectCalls
    <3> QED BY <2>1, <3>1, Typing, LockingStep
  <2>2. CASE Call(t) \notin ListCalls
    BY <2>2, LockingStep
  <2> QED BY <2>1, <2>2
<1>3. Counting'
  <2>1. /\ \A m \in Names : Cardinality(CtUsers(m)') <= ct'[m].ref
        /\ thr'[Console].ct => ct'[thr'[Console].n].ref > 0
    BY Typing, CtCount
  <2>2. /\ \A m \in Names, j \in Ids : Cardinality(ObjUsers(m, j)') <= ct'[m].refs[j]
        /\ thr'[Console].obj => ct'[thr'[Console].n].refs[thr'[Console].i] > 0
    BY Typing, ObjCount
  <2> QED BY <2>1, <2>2 DEF Counting
<1>4. Typed'
  BY DEF Moved, Typed, ObjectsInv, PerfOK
<1>5. HeldIsLive' /\ ListedOnce'
  BY DEF ObjectsInv, HeldIsLive, ListedOnce
<1> QED BY <1>1, <1>2, <1>3, <1>4, <1>5 DEF ObjectsInv

\* A container is put in the list.
LEMMA ListedStep ==
  ASSUME ObjectsInv, NEW t \in Threads, thr[t].todo # <<>>, thr[t].within, Moved(t),
         Call(t) \in {"create_ct", "open_ct"}, thr[t].saw = 0, ~thr'[t].obj,
         NEW ids \in SUBSET Ids, ct' = [ct EXCEPT ![Name(t)] = Listing(Name(t), ids)],
         twice' = (twice \/ ct[Name(t)].listed), g' = NoThread, UNCHANGED <<perf, stale>>, FileOK'
  PROVE  ObjectsInv'
<1> DEFINE n == Name(t)
<1>1. n \in Names /\ ct[n].ref = 0 /\ ~ct[n].listed
  BY Typing DEF ObjectsInv, Locking, Locked, ListCalls, Ct, Name, Seen, Lists
<1>2. /\ Listing(n, ids).listed = TRUE /\ Listing(n, ids).ref = 1
      /\ Listing(n, ids) \in Containers
  <2> DEFINE none == [i \in Ids |-> 0]
  <2>1. Shut = [listed |-> FALSE, ref |-> 0, ids |-> {}, refs |-> none,
                writer |-> NoThread, readers |-> 0]
    BY Zenon DEF Shut
  <2>2. none \in [Ids -> Nat]
    OBVIOUS
  <2> HIDE DEF none
  <2> QED BY <2>1, <2>2 DEF Listing, Containers
<1>3. /\ CtOK' /\ ct'[n] = Listing(n, ids) /\ ct'[n].ref = ct[n].ref + 1
      /\ \A m \in Names \ {n} : ct'[m] = ct[m]
  BY <1>1, <1>2 DEF ObjectsInv, Typed, CtOK, Containers
<1>4. Lists'
  BY <1>2, <1>3 DEF ObjectsInv, Lists
<1>5. \A x \in Threads \ {t} : ~(thr[x].ct /\ thr[x].n = n)
  BY <1>1, HeldIsCounted
<1>6. Staged' /\ Alone'
  BY MovedAlone
<1>7. Locking'
  BY <1>3, <1>5, LockingStep DEF ListCalls, SameObjects
<1>8. Counting'
  <2>1. /\ \A m \in Names : Cardinality(CtUsers(m)') <= ct'[m].ref
        /\ thr'[Console].ct => ct'[thr'[Console].n].ref > 0
    BY <1>3, CtCount
  <2>2. /\ \A m \in Names, j \in Ids : Cardinality(ObjUsers(m, j)') <= ct'[m].refs[j]
        /\ thr'[Console].obj => ct'[thr'[Console].n].refs[thr'[Console].i] > 0
    BY <1>3, <1>5, ObjCountAlone
  <2> QED BY <2>1, <2>2 DEF Counting
<1>9. Typed'
  BY <1>3 DEF Moved, Typed, ObjectsInv, PerfOK
<1>10. HeldIsLive' /\ ListedOnce'
  BY <1>1 DEF ObjectsInv, HeldIsLive, ListedOnce
<1> QED BY <1>4, <1>6, <1>7, <1>8, <1>9, <1>10 DEF ObjectsInv

\* A call under the lock of the list fails.
LEMMA FailsUnderList ==
  ASSUME ObjectsInv, NEW t \in Threads, thr[t].todo # <<>>, thr[t].within, Fails(t),
         Call(t) \in {"create_ct", "open_ct", "get_ct"},
         FileOK', UNCHANGED <<ct, perf, stale, twice>>, g' = NoThread
  PROVE  ObjectsInv'
<1>1. Moved(t) /\ (thr'[t].ct => thr[t].ct) /\ ~thr'[t].obj
  BY Retreats DEF ObjectsInv, Typed
<1>2. CtOK' /\ Lists' /\ \A m \in Names : SameObjects(m)
  BY DEF ObjectsInv, Typed, CtOK, Containers, Lists, SameObjects
<1>3. Call(t) \in ListCalls
  BY DEF ListCalls
<1> QED BY <1>1, <1>2, <1>3, QuietStep

\* ofs_create_container keeps the invariant: the container is listed with one user, the caller.
LEMMA CreateContainerInv ==
  ASSUME ObjectsInv, NEW t \in Threads, CreateContainer(t)
  PROVE  ObjectsInv'
<1> DEFINE n == Name(t)
<1>1. /\ thr[t].todo # <<>> /\ thr[t].within /\ Call(t) = "create_ct" /\ g' = NoThread
      /\ UNCHANGED <<perf, stale>>
  BY DEF CreateContainer, Within
<1>2. FileOK /\ n \in Names
  BY Typing DEF ObjectsInv, Typed
<1>3. CASE Fails(t) /\ UNCHANGED <<file, ct, twice>>
  <2>1. FileOK'
    BY <1>2, <1>3 DEF FileOK
  <2> QED BY <1>1, <1>3, <2>1, FailsUnderList
<1>4. CASE /\ thr[t].saw = 0 /\ file' = [file EXCEPT ![n] = [good |-> FALSE, ids |-> {}]]
           /\ ct' = [ct EXCEPT ![n] = Listing(n, {})] /\ twice' = (twice \/ ct[n].listed)
           /\ Succeeds(t, TRUE, FALSE)
  <2>1. Moved(t) /\ ~thr'[t].obj
    BY <1>1, <1>4, Advances DEF ObjectsInv, Typed
  <2>2. FileOK'
    BY <1>2, <1>4 DEF FileOK
  <2>3. {} \in SUBSET Ids
    OBVIOUS
  <2> QED BY <1>1, <1>4, <2>1, <2>2, <2>3, ListedStep
<1>5. CASE /\ \E f \in {file[n]} \cup [good : BOOLEAN, ids : {{}}] : file' = [file EXCEPT ![n] = f]
           /\ Fails(t) /\ UNCHANGED <<ct, twice>>
  <2>1. PICK f \in {file[n]} \cup [good : BOOLEAN, ids : {{}}] : file' = [file EXCEPT ![n] = f]
    BY <1>5
  <2>2. FileOK'
    BY <1>2, <2>1 DEF FileOK
  <2> QED BY <1>1, <1>5, <2>2, FailsUnderList
<1> QED BY <1>3, <1>4, <1>5 DEF CreateContainer, Name

\* ofs_open_container keeps the invariant: it counts up, or lists the container with one user.
LEMMA OpenContainerInv ==
  ASSUME ObjectsInv, NEW t \in Threads, OpenContainer(t)
  PROVE  ObjectsInv'
<1> DEFINE n == Name(t)
<1>1. /\ thr[t].todo # <<>> /\ thr[t].within /\ Call(t) = "open_ct" /\ g' = NoThread
      /\ UNCHANGED <<file, perf, stale>> /\ Call(t) \in ListCalls
  BY DEF OpenContainer, Within, ListCalls
<1>2. FileOK' /\ n \in Names /\ file[n].ids \in SUBSET Ids /\ CtOK /\ Lists
  BY <1>1, Typing DEF ObjectsInv, Typed, FileOK
<1>3. CASE /\ thr[t].saw > 0 /\ ct' = [ct EXCEPT ![n].ref = thr[t].saw + 1]
           /\ Succeeds(t, TRUE, FALSE) /\ UNCHANGED twice
  <2>1. Moved(t) /\ ~thr'[t].obj
    BY <1>1, <1>3, Advances DEF ObjectsInv, Typed
  <2>2. thr[t].saw = ct[n].ref /\ ct[n].ref \in Nat
    BY <1>1, Typing DEF ObjectsInv, Locking, Locked, Seen, Ct, Name, ListCalls
  <2>3. /\ CtOK' /\ Lists' /\ ct'[n].ref = ct[n].ref + 1 /\ SameObjects(n)
        /\ \A m \in Names \ {n} : ct'[m] = ct[m]
    <3>1. CtOK' /\ ct'[n] = [ct[n] EXCEPT !.ref = ct[n].ref + 1]
      BY <1>2, <1>3, <2>2 DEF CtOK, Containers
    <3>2. /\ ct'[n].ref = ct[n].ref + 1 /\ ct'[n].listed = ct[n].listed /\ SameObjects(n)
          /\ \A m \in Names \ {n} : ct'[m] = ct[m]
      BY <1>2, <1>3, <3>1 DEF CtOK, Containers, SameObjects
    <3>3. Lists'
      BY <1>2, <1>3, <2>2, <3>1, <3>2 DEF Lists
    <3> QED BY <3>1, <3>2, <3>3
  <2>4. \A m \in Names : SameObjects(m) /\ ct'[m].refs = ct[m].refs
    BY <2>3 DEF SameObjects
  <2>5. Staged' /\ Alone' /\ Locking'
    BY <1>1, <1>2, <2>1, <2>4, MovedAlone, LockingStep
  <2>6. Counting'
    <3>1. /\ \A m \in Names : Cardinality(CtUsers(m)') <= ct'[m].ref
          /\ thr'[Console].ct => ct'[thr'[Console].n].ref > 0
      BY <1>1, <2>1, <2>3, CtCount
    <3>2. /\ \A m \in Names, j \in Ids : Cardinality(ObjUsers(m, j)') <= ct'[m].refs[j]
          /\ thr'[Console].obj => ct'[thr'[Console].n].refs[thr'[Console].i] > 0
      BY <1>1, <1>2, <2>1, <2>3, <2>4, ObjCount
    <3> QED BY <3>1, <3>2 DEF Counting
  <2>7. Typed' /\ HeldIsLive' /\ ListedOnce'
    BY <1>1, <1>2, <1>3, <2>1, <2>3
       DEF Moved, Typed, ObjectsInv, PerfOK, HeldIsLive, ListedOnce
  <2> QED BY <2>3, <2>5, <2>6, <2>7 DEF ObjectsInv
<1>4. CASE /\ thr[t].saw = 0 /\ ct' = [ct EXCEPT ![n] = Listing(n, file[n].ids)]
           /\ twice' = (twice \/ ct[n].listed) /\ Succeeds(t, TRUE, FALSE)
  <2>1. Moved(t) /\ ~thr'[t].obj
    BY <1>1, <1>4, Advances DEF ObjectsInv, Typed
  <2> QED BY <1>1, <1>2, <1>4, <2>1, ListedStep
<1>5. CASE Fails(t) /\ UNCHANGED <<ct, twice>>
  BY <1>1, <1>2, <1>5, FailsUnderList
<1> QED BY <1>3, <1>4, <1>5 DEF OpenContainer, Name

\* A read of one container's details under g_container_list_lock changes no list.
LEMMA GetContainerInv ==
  ASSUME ObjectsInv, NEW t \in Threads, GetContainer(t)
  PROVE  ObjectsInv'
<1>1. /\ thr[t].todo # <<>> /\ thr[t].within /\ Call(t) = "get_ct" /\ g' = NoThread
      /\ UNCHANGED <<file, ct, perf, stale, twice>> /\ Call(t) \in ListCalls
  BY DEF GetContainer, Within, ListCalls
<1>2. FileOK' /\ CtOK' /\ Lists' /\ \A m \in Names : SameObjects(m)
  BY <1>1 DEF ObjectsInv, Typed, FileOK, CtOK, Containers, Lists, SameObjects
<1>3. CASE thr[t].saw > 0 /\ Succeeds(t, TRUE, FALSE)
  <2>1. Moved(t) /\ ~thr'[t].obj
    BY <1>1, <1>3, Advances DEF ObjectsInv, Typed
  <2>2. ct[Name(t)].ref > 0
    BY <1>1, <1>3 DEF ObjectsInv, Locking, Locked, Seen, Ct, Name, ListCalls
  <2>3. t \notin Workers
    BY <1>1, Stages DEF ObjectsInv
  <2> QED BY <1>1, <1>2, <2>1, <2>2, <2>3, QuietStep
<1>4. CASE Fails(t)
  BY <1>1, <1>2, <1>4, FailsUnderList
<1> QED BY <1>3, <1>4 DEF GetContainer

\* A walk over the list of containers changes no list.
LEMMA WalkInv ==
  ASSUME ObjectsInv, NEW t \in Threads, Walk(t)
  PROVE  ObjectsInv'
<1>1. /\ thr[t].todo # <<>> /\ thr[t].within /\ Call(t) = "walk" /\ g' = NoThread
      /\ UNCHANGED <<file, ct, perf, stale, twice>> /\ Call(t) \in ListCalls
  BY DEF Walk, Within, ListCalls
<1>2. FileOK' /\ CtOK' /\ Lists' /\ \A m \in Names : SameObjects(m)
  BY <1>1 DEF ObjectsInv, Typed, FileOK, CtOK, Containers, Lists, SameObjects
<1>3. Moved(t) /\ ~thr'[t].ct /\ ~thr'[t].obj
  BY <1>1, Advances DEF Walk, ObjectsInv, Typed
<1> QED BY <1>1, <1>2, <1>3, QuietStep

\* The update of $OBJID brings no object, and loses some that have moved at most.
LEMMA UpdatedIs ==
  ASSUME CtOK, NEW n \in Names, NEW S
  PROVE  /\ Updated(n, S) \subseteq SUBSET Ids
         /\ \A ids \in Updated(n, S) :
              ids \subseteq ct[n].ids /\ ct[n].ids \ ids \subseteq S \cap moved[n]
<1>1. ct[n].ids \subseteq Ids
  BY DEF CtOK, Containers
<1> QED BY <1>1 DEF Updated

\* ofs_close_container keeps the invariant: the container leaves the list with its last user.
LEMMA CloseContainerInv ==
  ASSUME ObjectsInv, NEW t \in Threads, CloseContainer(t)
  PROVE  ObjectsInv'
<1> DEFINE n == Name(t)
<1>1. /\ thr[t].todo # <<>> /\ thr[t].within /\ Call(t) = "close_ct" /\ g' = NoThread
      /\ UNCHANGED <<perf, twice>> /\ Call(t) \in ListCalls /\ Succeeds(t, FALSE, FALSE)
  BY DEF CloseContainer, Within, ListCalls
<1>2. n \in Names /\ CtOK /\ Lists /\ FileOK
  BY Typing DEF ObjectsInv, Typed
<1>3. Moved(t) /\ ~thr'[t].ct /\ ~thr'[t].obj
  BY <1>1, Advances DEF ObjectsInv, Typed
<1>4. thr[t].ct /\ thr[t].saw = ct[n].ref /\ ct[n].ref \in Nat /\ ct[n].ref > 0
  <2>1. thr[t].ct
    BY <1>1, Stages DEF ObjectsInv
  <2>2. thr[t].saw = ct[n].ref
    BY <1>1 DEF ObjectsInv, Locking, Locked, Seen, Ct, Name, ListCalls
  <2> QED BY <2>1, <2>2, Typing, HeldIsCounted DEF Name
<1>5. CASE /\ thr[t].saw # 1 /\ UNCHANGED <<file, stale>>
           /\ ct' = [ct EXCEPT ![n].ref = IF thr[t].saw = 0 THEN @ ELSE thr[t].saw - 1]
  <2>1. CtOK' /\ ct'[n] = [ct[n] EXCEPT !.ref = ct[n].ref - 1]
    <3>1. ct[n] \in Containers
      BY <1>2 DEF CtOK
    <3>2. (IF thr[t].saw = 0 THEN ct[n].ref ELSE thr[t].saw - 1) = ct[n].ref - 1
      BY <1>4
    <3>3. ct' = [ct EXCEPT ![n] = [ct[n] EXCEPT !.ref = ct[n].ref - 1]]
      BY <1>5, <3>2, Zenon
    <3>4. ct[n].ref - 1 \in Nat
      BY <1>4
    <3>5. [ct[n] EXCEPT !.ref = ct[n].ref - 1] \in Containers
      BY ONLY <3>1, <3>4 DEF Containers
    <3> QED BY ONLY <1>2, <3>3, <3>5 DEF CtOK
  <2>2. /\ ct'[n].ref = ct[n].ref - 1 /\ ct'[n].listed = ct[n].listed /\ SameObjects(n)
        /\ \A m \in Names \ {n} : ct'[m] = ct[m]
    BY <1>2, <1>5, <2>1 DEF CtOK, Containers, SameObjects
  <2>3. Lists'
    BY <1>2, <1>4, <1>5, <2>1, <2>2 DEF Lists
  <2>4. \A m \in Names : SameObjects(m) /\ ct'[m].refs = ct[m].refs
    BY <2>2 DEF SameObjects
  <2>5. Staged' /\ Alone' /\ Locking'
    BY <1>1, <1>2, <1>3, <2>4, MovedAlone, LockingStep
  <2>6. Counting'
    <3>1. /\ \A m \in Names : Cardinality(CtUsers(m)') <= ct'[m].ref
          /\ thr'[Console].ct => ct'[thr'[Console].n].ref > 0
      BY <1>1, <1>3, <1>4, <2>1, <2>2, CtCount
    <3>2. /\ \A m \in Names, j \in Ids : Cardinality(ObjUsers(m, j)') <= ct'[m].refs[j]
          /\ thr'[Console].obj => ct'[thr'[Console].n].refs[thr'[Console].i] > 0
      BY <1>1, <1>2, <1>3, <2>1, <2>4, ObjCount
    <3> QED BY <3>1, <3>2 DEF Counting
  <2>7. Typed' /\ HeldIsLive' /\ ListedOnce'
    BY <1>1, <1>2, <1>3, <1>5, <2>1
       DEF Moved, Typed, ObjectsInv, FileOK, PerfOK, HeldIsLive, ListedOnce
  <2> QED BY <1>5, <2>3, <2>5, <2>6, <2>7 DEF ObjectsInv
<1>6. CASE /\ thr[t].saw = 1 /\ Saved(n) /\ ct' = [ct EXCEPT ![n] = Shut]
           /\ moved' = [moved EXCEPT ![n] = {}]
           /\ stale' = stale \cup (Holders(n) \ {t})
  <2>1. \A x \in Threads \ {t} : ~(thr[x].ct /\ thr[x].n = n)
    <3> SUFFICES ASSUME NEW x \in Threads \ {t}, thr[x].ct, thr[x].n = thr[t].n PROVE FALSE
      BY DEF Name
    <3>1. ct[n].ref >= 2
      BY <1>4, LastHolder DEF Name
    <3> QED BY <1>4, <1>6, <3>1
  <2>2. Holders(n) \ {t} = {}
    BY <2>1 DEF Holders
  <2>3. /\ Shut \in Containers
        /\ ~Shut.listed /\ Shut.ref = 0
    BY DEF Shut, Containers
  <2>4. /\ CtOK' /\ ct'[n] = Shut /\ ct'[n].ref = ct[n].ref - 1
        /\ \A m \in Names \ {n} : ct'[m] = ct[m]
    BY <1>2, <1>4, <1>6, <2>3 DEF CtOK, Containers
  <2>5. Lists'
    BY <1>2, <2>3, <2>4 DEF Lists
  <2>6. Staged' /\ Alone' /\ Locking'
    BY <1>1, <1>3, <2>1, <2>4, MovedAlone, LockingStep DEF SameObjects
  <2>7. Counting'
    <3>1. /\ \A m \in Names : Cardinality(CtUsers(m)') <= ct'[m].ref
          /\ thr'[Console].ct => ct'[thr'[Console].n].ref > 0
      BY <1>1, <1>3, <1>4, <2>4, CtCount
    <3>2. /\ \A m \in Names, j \in Ids : Cardinality(ObjUsers(m, j)') <= ct'[m].refs[j]
          /\ thr'[Console].obj => ct'[thr'[Console].n].refs[thr'[Console].i] > 0
      BY <1>1, <1>3, <2>1, <2>4, ObjCountAlone
    <3> QED BY <3>1, <3>2 DEF Counting
  <2>8. Updated(n, Ids) \subseteq SUBSET Ids
    BY <1>2, UpdatedIs
  <2>9. FileOK'
    BY <1>2, <1>6, <2>8 DEF FileOK, Saved
  <2>10. Typed' /\ HeldIsLive' /\ ListedOnce'
    BY <1>1, <1>3, <1>6, <2>2, <2>4, <2>9
       DEF Moved, Typed, ObjectsInv, PerfOK, HeldIsLive, ListedOnce
  <2> QED BY <2>4, <2>5, <2>6, <2>7, <2>10 DEF ObjectsInv
<1> QED BY <1>5, <1>6 DEF CloseContainer, Name

-----------------------------------------------------------------------------
(* The calls under the lock of a container.                                *)

\* The lock of n is left, and i has r handles; the objects are ids, or as before.
Counted(n, i, r) == [Unlocked(n) EXCEPT ![n].refs[i] = r]
Created(n, i, r, ids) == [Unlocked(n) EXCEPT ![n].ids = ids, ![n].refs[i] = r]

\* Nothing else has been counted.
OnlyRefsOf(n, i, r) ==
  /\ ct'[n].refs[i] = r
  /\ \A m \in Names : ct'[m].ref = ct[m].ref
  /\ \A m \in Names \ {n} : SameObjects(m)
  /\ \A m \in Names, j \in Ids : m # n \/ j # i => ct'[m].refs[j] = ct[m].refs[j]

\* What a change of one object's counter and of the ids leaves alone.
LEMMA ObjectsChanged ==
  ASSUME CtOK, Lists, NEW n \in Names, ct[n].listed, NEW i \in Ids, NEW r \in Nat,
         NEW ids \in SUBSET Ids,
         ct' = Created(n, i, r, ids) \/ ct' = Counted(n, i, r)
  PROVE  CtOK' /\ Lists' /\ OnlyRefsOf(n, i, r)
<1> DEFINE u == Unlocked(n)[n]
           refs == [u.refs EXCEPT ![i] = r]
<1>1. /\ Unlocked(n) \in [Names -> Containers] /\ u.refs = ct[n].refs
      /\ u.listed = ct[n].listed /\ u.ref = ct[n].ref
      /\ \A m \in Names \ {n} : Unlocked(n)[m] = ct[m]
  <2>1. Unlocked(n) \in [Names -> Containers]
    BY DEF CtOK, Containers, Unlocked
  <2>2. u = [ct[n] EXCEPT !.writer = NoThread] /\ \A m \in Names \ {n} : Unlocked(n)[m] = ct[m]
    BY DEF CtOK, Containers, Unlocked
  <2>3. ct[n] \in Containers
    BY DEF CtOK
  <2>4. u.refs = ct[n].refs /\ u.listed = ct[n].listed /\ u.ref = ct[n].ref
    BY <2>2, <2>3 DEF Containers
  <2> QED BY <2>1, <2>2, <2>4
<1>2. u \in Containers /\ u.ids \in SUBSET Ids /\ refs \in [Ids -> Nat] /\ refs[i] = r
  BY <1>1 DEF Containers
<1>10. refs = [u.refs EXCEPT ![i] = r]
  OBVIOUS
<1> HIDE DEF u, refs
<1>3. PICK new \in SUBSET Ids : ct' = [Unlocked(n) EXCEPT ![n] = [u EXCEPT !.ids = new, !.refs = refs]]
  <2>1. CASE ct' = Created(n, i, r, ids)
    <3>1. ct' = [Unlocked(n) EXCEPT ![n] = [u EXCEPT !.ids = ids, !.refs = refs]]
      <4>1. Unlocked(n) \in [Names -> Containers]
        BY <1>1
      <4>2. Created(n, i, r, ids) = [Unlocked(n) EXCEPT ![n] = [u EXCEPT !.ids = ids, !.refs = refs]]
        BY <4>1 DEF Created, u, refs
      <4> QED BY <2>1, <4>2
    <3> QED BY <3>1
  <2>2. CASE ct' = Counted(n, i, r)
    <3>1. [u EXCEPT !.ids = u.ids, !.refs = refs] = [u EXCEPT !.refs = refs]
      BY <1>2 DEF Containers
    <3>2. ct' = [Unlocked(n) EXCEPT ![n] = [u EXCEPT !.refs = refs]]
      BY <1>1, <2>2 DEF Counted, u, refs
    <3> QED BY <1>2, <3>1, <3>2
  <2> QED BY <2>1, <2>2
<1> DEFINE d == [u EXCEPT !.ids = new, !.refs = refs]
<1>4. ct' = [Unlocked(n) EXCEPT ![n] = d]
  BY <1>3
<1>5. d \in Containers /\ d.listed = u.listed /\ d.ref = u.ref /\ d.refs = refs
  BY <1>2 DEF Containers
<1> HIDE DEF d
<1>6. CtOK' /\ ct'[n] = d /\ \A m \in Names \ {n} : ct'[m] = ct[m]
  BY <1>1, <1>4, <1>5 DEF CtOK
<1>7. \A m \in Names, j \in Ids : m # n \/ j # i => ct'[m].refs[j] = ct[m].refs[j]
  BY <1>1, <1>2, <1>5, <1>6, <1>10 DEF Containers
<1>8. Lists'
  BY <1>1, <1>5, <1>6 DEF Lists
<1>9. \A m \in Names : ct'[m].ref = ct[m].ref
  BY <1>1, <1>5, <1>6
<1> QED BY <1>2, <1>5, <1>6, <1>7, <1>8, <1>9 DEF OnlyRefsOf, SameObjects

\* The handles of an object are counted.
LEMMA ObjectStep ==
  ASSUME ObjectsInv, NEW t \in Threads, thr[t].todo # <<>>, thr[t].within, Moved(t),
         Call(t) \in ObjectCalls, UNCHANGED <<file, g, perf>>, HeldIsLive', ListedOnce',
         NEW r \in Nat, NEW ids \in SUBSET Ids,
         ct' = Created(Name(t), Id(t), r, ids) \/ ct' = Counted(Name(t), Id(t), r),
         thr[t].ct,
         \/ r = ct[Name(t)].refs[Id(t)] + 1
         \/ r = ct[Name(t)].refs[Id(t)] - 1 /\ thr[t].obj /\ ~thr'[t].obj
  PROVE  ObjectsInv'
<1> DEFINE n == Name(t)
           i == Id(t)
<1>1. n \in Names /\ i \in Ids /\ CtOK /\ Lists
  BY Typing DEF ObjectsInv, Typed
<1>2. ct[n].listed
  BY <1>1, HeldIsCounted DEF Lists, Name
<1>3. /\ CtOK' /\ Lists' /\ ct'[n].refs[i] = r
      /\ \A m \in Names : ct'[m].ref = ct[m].ref
      /\ \A m \in Names \ {n} : SameObjects(m)
      /\ \A m \in Names, j \in Ids : m # n \/ j # i => ct'[m].refs[j] = ct[m].refs[j]
  <2>1. CtOK' /\ Lists' /\ OnlyRefsOf(n, i, r)
    BY <1>1, <1>2, ObjectsChanged
  <2> QED BY <2>1 DEF OnlyRefsOf
<1>4. Staged' /\ Alone' /\ Locking'
  BY <1>3, MovedAlone, LockingStep
<1>5. Counting'
  <2>1. /\ \A m \in Names : Cardinality(CtUsers(m)') <= ct'[m].ref
        /\ thr'[Console].ct => ct'[thr'[Console].n].ref > 0
    BY <1>1, <1>3, CtCount
  <2>2. /\ \A m \in Names, j \in Ids : Cardinality(ObjUsers(m, j)') <= ct'[m].refs[j]
        /\ thr'[Console].obj => ct'[thr'[Console].n].refs[thr'[Console].i] > 0
    BY <1>1, <1>3, ObjCount
  <2> QED BY <2>1, <2>2 DEF Counting
<1>6. Typed'
  BY <1>3 DEF Moved, Typed, ObjectsInv, FileOK, PerfOK
<1> QED BY <1>3, <1>4, <1>5, <1>6 DEF ObjectsInv

\* A call under the lock of a container that leaves it as it is.
LEMMA UnlockStep ==
  ASSUME ObjectsInv, NEW t \in Threads, thr[t].todo # <<>>, thr[t].within, Moved(t),
         Call(t) \in ObjectCalls, UNCHANGED <<file, g, perf, stale, twice>>,
         ct' = Unlocked(Name(t)), thr[t].ct, ~thr'[t].obj
  PROVE  ObjectsInv'
<1> DEFINE n == Name(t)
<1>1. n \in Names /\ CtOK /\ Lists
  BY Typing DEF ObjectsInv, Typed
<1>2. ct[n].listed
  BY <1>1, HeldIsCounted DEF Lists, Name
<1>3. /\ CtOK' /\ \A m \in Names \ {n} : ct'[m] = ct[m]
      /\ ct'[n].refs = ct[n].refs /\ ct'[n].ref = ct[n].ref /\ ct'[n].listed = ct[n].listed
  BY <1>1 DEF CtOK, Containers, Unlocked
<1>4. Lists'
  BY <1>1, <1>2, <1>3 DEF Lists
<1>5. FileOK' /\ Call(t) \notin ListCalls
  BY DEF ObjectsInv, Typed, FileOK, ListCalls, ObjectCalls
<1> QED BY <1>3, <1>4, <1>5, QuietStep DEF SameObjects

\* What a call has read, and that its container is in the list.
LEMMA ReadUnderLock ==
  ASSUME ObjectsInv, NEW t \in Threads, thr[t].todo # <<>>, thr[t].within,
         Call(t) \in {"create_obj", "open_obj", "close_obj", "get_obj"}
  PROVE  thr[t].saw = IF Call(t) = "create_obj" /\ Id(t) \in ct[Name(t)].ids
                      THEN 1 ELSE ct[Name(t)].refs[Id(t)]
<1>1. thr[t].saw = Seen(t) /\ Call(t) \notin ListCalls
  BY DEF ObjectsInv, Locking, Locked, ObjectCalls, ListCalls
<1> QED BY <1>1 DEF Seen, Ct, Name, Id

\* ofs_create_object keeps the invariant.
LEMMA CreateObjectInv ==
  ASSUME ObjectsInv, NEW t \in Threads, CreateObject(t)
  PROVE  ObjectsInv'
<1> DEFINE n == Name(t)
           i == Id(t)
<1>1. /\ thr[t].todo # <<>> /\ thr[t].within /\ Call(t) = "create_obj"
      /\ UNCHANGED <<file, g, perf, stale>> /\ Call(t) \in ObjectCalls
  BY DEF CreateObject, Within, ObjectCalls
<1>2. thr[t].ct /\ n \in Names /\ i \in Ids /\ ct[n].ids \in SUBSET Ids /\ CtOK
  BY <1>1, Stages, Typing DEF ObjectsInv, Typed, CtOK, Containers
<1>3. CASE /\ thr[t].saw = 0 /\ twice' = (twice \/ i \in ct[n].ids) /\ Succeeds(t, TRUE, TRUE)
           /\ ct' = [Unlocked(n) EXCEPT ![n].ids = @ \cup {i}, ![n].refs[i] = 1]
  <2>1. Moved(t)
    BY <1>1, <1>3, Advances DEF ObjectsInv, Typed
  <2>2. i \notin ct[n].ids /\ ct[n].refs[i] = 0
    BY <1>1, <1>3, ReadUnderLock
  <2>3. Unlocked(n)[n].ids = ct[n].ids
    BY <1>2 DEF CtOK, Containers, Unlocked
  <2>4. Unlocked(n) \in [Names -> Containers]
    BY <1>2 DEF CtOK, Containers, Unlocked
  <2>5. ct' = Created(n, i, 1, ct[n].ids \cup {i})
    BY <1>2, <1>3, <2>3, <2>4 DEF Created
  <2>6. HeldIsLive' /\ ListedOnce'
    BY <1>1, <1>3, <2>2 DEF ObjectsInv, HeldIsLive, ListedOnce
  <2>7. ct[n].ids \cup {i} \in SUBSET Ids
    BY <1>2
  <2> QED BY <1>1, <1>2, <2>1, <2>2, <2>5, <2>6, <2>7, ObjectStep
<1>4. CASE ct' = Unlocked(n) /\ Fails(t) /\ UNCHANGED twice
  <2>1. Moved(t) /\ ~thr'[t].obj
    BY <1>1, <1>4, Retreats DEF ObjectsInv, Typed
  <2> QED BY <1>1, <1>2, <1>4, <2>1, UnlockStep
<1> QED BY <1>3, <1>4 DEF CreateObject, Name, Id

\* ofs_open_object keeps the invariant: it counts up, or lists the object with one user.
LEMMA OpenObjectInv ==
  ASSUME ObjectsInv, NEW t \in Threads, OpenObject(t)
  PROVE  ObjectsInv'
<1> DEFINE n == Name(t)
           i == Id(t)
<1>1. /\ thr[t].todo # <<>> /\ thr[t].within /\ Call(t) = "open_obj"
      /\ UNCHANGED <<file, g, perf, stale>> /\ Call(t) \in ObjectCalls
  BY DEF OpenObject, Within, ObjectCalls
<1>2. thr[t].ct /\ n \in Names /\ i \in Ids /\ ct[n].refs[i] \in Nat
  BY <1>1, Stages, Typing DEF ObjectsInv
<1>3. thr[t].saw = ct[n].refs[i]
  BY <1>1, ReadUnderLock
<1>4. CASE /\ ct' = [Unlocked(n) EXCEPT ![n].refs[i] = thr[t].saw + 1]
           /\ twice' = (twice \/ (thr[t].saw = 0 /\ ct[n].refs[i] > 0))
           /\ Succeeds(t, TRUE, TRUE)
  <2>1. Moved(t)
    BY <1>1, <1>4, Advances DEF ObjectsInv, Typed
  <2>2. ct' = Counted(n, i, thr[t].saw + 1) /\ thr[t].saw + 1 \in Nat
    BY <1>2, <1>3, <1>4 DEF Counted
  <2>3. HeldIsLive' /\ ListedOnce'
    <3>1. ~(thr[t].saw = 0 /\ ct[n].refs[i] > 0)
      BY <1>2, <1>3
    <3> QED BY <1>1, <1>4, <3>1 DEF ObjectsInv, HeldIsLive, ListedOnce
  <2> QED BY <1>1, <1>2, <1>3, <2>1, <2>2, <2>3, ObjectStep
<1>5. CASE ct' = Unlocked(n) /\ Fails(t) /\ UNCHANGED twice
  <2>1. Moved(t) /\ ~thr'[t].obj
    BY <1>1, <1>5, Retreats DEF ObjectsInv, Typed
  <2> QED BY <1>1, <1>2, <1>5, <2>1, UnlockStep
<1> QED BY <1>4, <1>5 DEF OpenObject, Name, Id

\* ofs_close_object keeps the invariant: the object leaves the list with its last user.
LEMMA CloseObjectInv ==
  ASSUME ObjectsInv, NEW t \in Threads, CloseObject(t)
  PROVE  ObjectsInv'
<1> DEFINE n == Name(t)
           i == Id(t)
           sharing == {x \in Holders(n) \ {t} : thr[x].obj /\ thr[x].i = i}
<1>1. /\ thr[t].todo # <<>> /\ thr[t].within /\ Call(t) = "close_obj"
      /\ UNCHANGED <<file, g, perf, twice>> /\ Call(t) \in ObjectCalls
      /\ Succeeds(t, TRUE, FALSE)
  BY DEF CloseObject, Within, ObjectCalls
<1>2. \/ /\ thr[t].saw # 1 /\ stale' = stale
         /\ ct' = [Unlocked(n) EXCEPT ![n].refs[i] = thr[t].saw - 1]
      \/ /\ thr[t].saw = 1 /\ stale' = stale \cup sharing
         /\ \E ids \in Updated(n, {i}) :
              ct' = [Unlocked(n) EXCEPT ![n].ids = ids, ![n].refs[i] = 0]
  BY Zenon DEF CloseObject, Name, Id
<1>3. thr[t].ct /\ thr[t].obj /\ n \in Names /\ i \in Ids /\ ct[n].refs[i] \in Nat
  BY <1>1, Stages, Typing DEF ObjectsInv
<1>4. thr[t].saw = ct[n].refs[i] /\ ct[n].refs[i] > 0
  BY <1>1, <1>3, ReadUnderLock, HeldIsCounted DEF Name, Id
<1>5. Moved(t) /\ ~thr'[t].obj
  BY <1>1, Advances DEF ObjectsInv, Typed
<1>6. thr[t].saw = 1 => sharing = {}
  <2> SUFFICES ASSUME thr[t].saw = 1, NEW x \in sharing PROVE FALSE
    OBVIOUS
  <2>1. x \in Threads \ {t} /\ thr[x].ct /\ thr[x].obj /\ thr[x].n = thr[t].n /\ thr[x].i = thr[t].i
    BY DEF Holders, Name, Id
  <2>2. ct[n].refs[i] >= 2
    BY <1>3, <2>1, LastHolder DEF Name, Id
  <2> QED BY <1>4, <2>2
<1>7. HeldIsLive' /\ ListedOnce'
  BY <1>1, <1>2, <1>6 DEF ObjectsInv, HeldIsLive, ListedOnce
<1>8. /\ thr[t].saw - 1 \in Nat
      /\ \E ids \in SUBSET Ids :
           ct' = Created(n, i, thr[t].saw - 1, ids) \/ ct' = Counted(n, i, thr[t].saw - 1)
  <2>1. CASE thr[t].saw # 1
    BY <1>2, <1>3, <1>4, <2>1 DEF Counted
  <2>2. CASE thr[t].saw = 1
    <3>1. PICK ids \in Updated(n, {i}) : ct' = Created(n, i, 0, ids)
      BY <1>2, <2>2 DEF Created
    <3>2. ids \in SUBSET Ids /\ thr[t].saw - 1 = 0
      BY <1>3, <2>2, UpdatedIs DEF ObjectsInv, Typed
    <3> QED BY <3>1, <3>2
  <2> QED BY <2>1, <2>2
<1> QED BY <1>1, <1>3, <1>4, <1>5, <1>7, <1>8, ObjectStep

\* A read of one object's details under the container's lock changes no list.
LEMMA GetObjectInv ==
  ASSUME ObjectsInv, NEW t \in Threads, GetObject(t)
  PROVE  ObjectsInv'
<1> DEFINE n == Name(t)
<1>1. /\ thr[t].todo # <<>> /\ thr[t].within /\ Call(t) = "get_obj"
      /\ UNCHANGED <<file, g, perf, stale, twice>> /\ ct' = [ct EXCEPT ![n].readers = @ + 1]
  BY DEF GetObject, Within, Name
<1>2. thr[t].ct /\ t \notin Workers /\ n \in Names /\ CtOK /\ Lists /\ ct[n].listed
  BY <1>1, Stages, Typing, HeldIsCounted DEF ObjectsInv, Typed, Lists, Name
<1>3. /\ CtOK' /\ ct'[n] = [ct[n] EXCEPT !.readers = @ + 1]
      /\ \A m \in Names \ {n} : ct'[m] = ct[m]
  <2>1. /\ ct'[n] = [ct[n] EXCEPT !.readers = @ + 1] /\ DOMAIN ct' = Names
        /\ \A m \in Names \ {n} : ct'[m] = ct[m]
    BY <1>1, <1>2 DEF CtOK
  <2>2. ct'[n] \in Containers
    BY <1>2, <2>1 DEF CtOK, Containers
  <2>3. ct' \in [Names -> Containers]
    BY <1>1, <1>2, <2>1, <2>2 DEF CtOK
  <2> QED BY <2>1, <2>3 DEF CtOK
<1>4. ct'[n].ref = ct[n].ref /\ ct'[n].listed = ct[n].listed /\ SameObjects(n)
  <2>1. ct[n] \in Containers
    BY <1>2 DEF CtOK
  <2> QED BY ONLY <1>3, <2>1 DEF Containers, SameObjects
<1>5. Lists' /\ \A m \in Names : SameObjects(m) /\ ct'[m].ref = ct[m].ref /\ ct'[m].refs = ct[m].refs
  BY <1>2, <1>3, <1>4 DEF Lists, SameObjects
<1>6. FileOK' /\ Call(t) \notin ListCalls
  BY <1>1 DEF ObjectsInv, Typed, FileOK, ListCalls
<1>7. CASE thr[t].saw > 0 /\ Succeeds(t, TRUE, TRUE)
  <2>1. Moved(t)
    BY <1>1, <1>7, Advances DEF ObjectsInv, Typed
  <2>2. ct[n].refs[Id(t)] > 0
    BY <1>1, <1>7, ReadUnderLock
  <2> QED BY <1>1, <1>2, <1>3, <1>5, <1>6, <2>1, <2>2, QuietStep
<1>8. CASE Fails(t)
  <2>1. Moved(t) /\ ~thr'[t].obj
    BY <1>1, <1>8, Retreats DEF ObjectsInv, Typed
  <2> QED BY <1>1, <1>2, <1>3, <1>5, <1>6, <2>1, QuietStep
<1> QED BY <1>7, <1>8 DEF GetObject

\* A walk over a container's objects changes no list.
LEMMA ShowInv ==
  ASSUME ObjectsInv, NEW t \in Threads, Show(t)
  PROVE  ObjectsInv'
<1>1. /\ thr[t].todo # <<>> /\ thr[t].within /\ Call(t) = "show" /\ Call(t) \in ObjectCalls
      /\ UNCHANGED <<file, g, perf, stale, twice>> /\ ct' = Unlocked(Name(t))
      /\ Succeeds(t, TRUE, FALSE)
  BY DEF Show, Within, Name, ObjectCalls
<1>2. Moved(t) /\ ~thr'[t].obj
  BY <1>1, Advances DEF ObjectsInv, Typed
<1>3. thr[t].ct
  BY <1>1, Stages DEF ObjectsInv
<1> QED BY <1>1, <1>2, <1>3, UnlockStep

\* Reading or writing an object's data changes no list and no counter.
LEMMA UseInv ==
  ASSUME ObjectsInv, NEW t \in Threads, Use(t)
  PROVE  ObjectsInv'
<1>1. /\ thr[t].todo # <<>> /\ thr[t].within /\ Call(t) = "use" /\ Succeeds(t, TRUE, TRUE)
      /\ UNCHANGED <<file, ct, g, perf, stale, twice>>
  BY DEF Use, Within
<1>2. Moved(t)
  BY <1>1, Advances DEF ObjectsInv, Typed
<1>3. thr[t].ct /\ thr[t].obj
  BY <1>1, Stages DEF ObjectsInv
<1>4. FileOK' /\ CtOK' /\ Lists' /\ \A m \in Names : SameObjects(m)
  BY <1>1 DEF ObjectsInv, Typed, FileOK, CtOK, Lists, SameObjects
<1>5. Call(t) \notin ListCalls
  BY <1>1 DEF ListCalls
<1> QED BY <1>1, <1>2, <1>3, <1>4, <1>5, QuietStep

-----------------------------------------------------------------------------
(* Taking a lock.                                                          *)

\* What a lock changes of the containers.
OnlyLocked(t) ==
  /\ CtOK' /\ Lists'
  /\ \A m \in Names :
       ct'[m].ref = ct[m].ref /\ ct'[m].refs = ct[m].refs /\ ct'[m].ids = ct[m].ids
  /\ \/ g' = t /\ g = NoThread /\ Call(t) \in ListCalls /\ ct' = ct
     \/ /\ g' = g /\ Call(t) \in ObjectCalls
        /\ ct[Name(t)].writer = NoThread /\ ct'[Name(t)].writer = t
        /\ \A m \in Names \ {Name(t)} : SameObjects(m)
     \/ /\ g' = g /\ Call(t) \notin ListCalls \cup ObjectCalls
        /\ \A m \in Names : SameObjects(m)

\* Waiting for a lock and taking it changes the owner of that lock and nothing else of the lists.
LEMMA LockChanges ==
  ASSUME ObjectsInv, NEW t \in Threads, Lock(t)
  PROVE  OnlyLocked(t)
<1> DEFINE n == Name(t)
<1>1. n \in Names /\ CtOK /\ Lists
  BY Typing DEF ObjectsInv, Typed
<1>2. Call(t) \in ObjectCalls \cup {"get_obj"} => ct[n].listed
  <2>1. Call(t) \in ObjectCalls \cup {"get_obj"} => thr[t].ct
    BY Stages DEF Lock, ObjectsInv, ObjectCalls
  <2> QED BY <1>1, <2>1, HeldIsCounted DEF Lists, Name
<1>3. CASE Call(t) \in ListCalls /\ g = NoThread /\ g' = t /\ UNCHANGED ct
  BY <1>1, <1>3 DEF OnlyLocked, CtOK, Lists
<1>4. CASE /\ Call(t) \in ObjectCalls /\ ct[n].writer = NoThread
           /\ ct' = [ct EXCEPT ![n].writer = t] /\ UNCHANGED g
  <2>1. CtOK' /\ ct'[n] = [ct[n] EXCEPT !.writer = t] /\ \A m \in Names \ {n} : ct'[m] = ct[m]
    <3>1. ct[n] \in Containers
      BY <1>1 DEF CtOK
    <3>2. /\ ct' = [ct EXCEPT ![n] = [ct[n] EXCEPT !.writer = t]]
          /\ [ct[n] EXCEPT !.writer = t] \in Containers
      BY <1>4, <3>1 DEF Containers
    <3> QED BY ONLY <1>1, <3>2 DEF CtOK
  <2>2. /\ ct'[n].writer = t /\ ct'[n].listed = ct[n].listed /\ ct'[n].ref = ct[n].ref
        /\ ct'[n].ids = ct[n].ids /\ ct'[n].refs = ct[n].refs
    BY <1>1, <2>1 DEF CtOK, Containers
  <2>3. Lists'
    BY <1>1, <1>2, <1>4, <2>1, <2>2 DEF Lists
  <2> QED BY <1>4, <2>1, <2>2, <2>3 DEF OnlyLocked, SameObjects
<1>5. CASE Call(t) = "get_obj" /\ ct' = [ct EXCEPT ![n].readers = @ + 1] /\ UNCHANGED g
  <2>1. /\ ct'[n] = [ct[n] EXCEPT !.readers = @ + 1] /\ DOMAIN ct' = Names
        /\ \A m \in Names \ {n} : ct'[m] = ct[m]
    BY <1>1, <1>5 DEF CtOK
  <2>2. /\ ct'[n] \in Containers /\ ct'[n].listed = ct[n].listed /\ ct'[n].ref = ct[n].ref
        /\ ct'[n].ids = ct[n].ids /\ ct'[n].refs = ct[n].refs /\ ct'[n].writer = ct[n].writer
    BY <1>1, <2>1 DEF CtOK, Containers
  <2>3. ct' \in [Names -> Containers]
    BY <1>1, <1>5, <2>1, <2>2 DEF CtOK
  <2>4. Lists'
    BY <1>1, <1>2, <1>5, <2>1, <2>2 DEF Lists
  <2>5. Call(t) \notin ListCalls \cup ObjectCalls
    BY <1>5 DEF ListCalls, ObjectCalls
  <2> QED BY <1>5, <2>1, <2>2, <2>3, <2>4, <2>5 DEF OnlyLocked, SameObjects, CtOK
<1>6. CASE Call(t) \notin ListCalls \cup ObjectCalls \cup {"get_obj"} /\ UNCHANGED <<ct, g>>
  BY <1>1, <1>6 DEF OnlyLocked, SameObjects, CtOK, Lists
<1> QED BY <1>3, <1>4, <1>5, <1>6 DEF Lock, Ct, Name

\* Taking a lock keeps the invariant: what is read under it is so.
LEMMA LockInv ==
  ASSUME ObjectsInv, NEW t \in Threads, Lock(t)
  PROVE  ObjectsInv'
<1>1. /\ thr[t].todo # <<>> /\ ~thr[t].within /\ UNCHANGED <<file, perf, stale, twice>>
      /\ thr' = [thr EXCEPT ![t].within = TRUE, ![t].saw = Seen(t)]
  BY DEF Lock, Looks
<1>2. OnlyLocked(t)
  BY LockChanges
<1>3. ThrOK /\ Staged /\ Seen(t) \in Nat
  BY Typing DEF ObjectsInv, Typed, Seen, Ct, Name, Id, ListCalls
<1>4. /\ thr'[t] = [thr[t] EXCEPT !.within = TRUE, !.saw = Seen(t)]
      /\ \A x \in Threads \ {t} : thr'[x] = thr[x]
      /\ DOMAIN thr' = Threads
  BY <1>1, <1>3 DEF ThrOK
<1>5. /\ thr'[t].todo = thr[t].todo /\ thr'[t].n = thr[t].n /\ thr'[t].i = thr[t].i
      /\ thr'[t].ct = thr[t].ct /\ thr'[t].obj = thr[t].obj /\ thr'[t].saw = Seen(t)
  BY <1>3, <1>4 DEF ThrOK
<1>6. \A x \in Threads : /\ thr'[x].todo = thr[x].todo /\ thr'[x].n = thr[x].n
                         /\ thr'[x].i = thr[x].i /\ thr'[x].ct = thr[x].ct
                         /\ thr'[x].obj = thr[x].obj
  BY <1>4, <1>5
<1>7. ThrOK'
  <2>1. thr[t] \in [todo : Plans(t), within : BOOLEAN, saw : Nat, n : Names, i : Ids,
                    ct : BOOLEAN, obj : BOOLEAN]
    BY <1>3 DEF ThrOK
  <2>2. thr'[t] \in [todo : Plans(t), within : BOOLEAN, saw : Nat, n : Names, i : Ids,
                     ct : BOOLEAN, obj : BOOLEAN]
    BY <1>3, <1>4, <2>1
  <2> QED BY <1>3, <1>4, <2>2 DEF ThrOK, Plans
<1>8. Staged'
  BY <1>3, <1>6 DEF Staged, AtStage
<1>9. Running' = Running /\ Console \in Threads /\ Workers \subseteq Threads
  BY <1>6 DEF Running, Threads
<1>10. Alone'
  BY <1>1, <1>6, <1>9 DEF ObjectsInv, Alone
<1>11. \A n, i : CtUsers(n)' = CtUsers(n) /\ ObjUsers(n, i)' = ObjUsers(n, i)
  BY <1>6, <1>9 DEF CtUsers, ObjUsers
<1>12. Counting'
  BY <1>2, <1>6, <1>9, <1>11 DEF ObjectsInv, Counting, OnlyLocked, Typed, ThrOK
<1>13. Locking'
  <2> SUFFICES ASSUME NEW x \in Threads PROVE Locked(x)'
    BY DEF Locking
  <2>1. CASE x = t
    <3>1. Call(t)' = Call(t)
      BY <1>5 DEF Call
    <3>2. Seen(t)' = Seen(t)
      BY <1>2, <1>5, <3>1, Typing DEF Seen, Ct, Name, OnlyLocked, ListCalls
    <3>3. Call(t) \in ListCalls => g' = t
      BY <1>2 DEF OnlyLocked, ListCalls, ObjectCalls
    <3>4. Call(t) \in ObjectCalls => ct'[thr'[t].n].writer = t
      BY <1>2, <1>5 DEF OnlyLocked, ListCalls, ObjectCalls, Name
    <3> QED BY <1>5, <2>1, <3>1, <3>2, <3>3, <3>4 DEF Locked, Ct
  <2>2. CASE x # t
    <3>1. Locked(x) /\ thr'[x] = thr[x] /\ Name(x) \in Names
      BY <1>4, <2>2, Typing DEF ObjectsInv, Locking
    <3>2. CASE thr[x].todo = <<>>
      BY <3>1, <3>2 DEF Locked
    <3>3. CASE thr[x].todo # <<>>
      <4>1. Call(x) # "get_obj"
        <5>1. x \in Workers
          BY <1>1, <2>2, <3>3, AtWork DEF ObjectsInv
        <5> QED BY <1>3, <3>3, <5>1, Stages
      <4>2. Call(x) \in ListCalls /\ thr[x].within => g' = g /\ ct'[Name(x)].ref = ct[Name(x)].ref
        BY <1>2, <2>2, <3>1, <3>3, ObjectsAssumption DEF Locked, OnlyLocked, Threads
      <4>3. Call(x) \in ObjectCalls /\ thr[x].within => SameObjects(Name(x))
        BY <1>2, <2>2, <3>1, <3>3, ObjectsAssumption
           DEF Locked, OnlyLocked, SameObjects, Threads, Ct, Name
      <4> QED BY <3>1, <4>1, <4>2, <4>3, LockedKept
    <3> QED BY <3>2, <3>3
  <2> QED BY <2>1, <2>2
<1>14. Typed' /\ HeldIsLive' /\ ListedOnce'
  BY <1>1, <1>2, <1>7 DEF ObjectsInv, Typed, FileOK, PerfOK, HeldIsLive, ListedOnce, OnlyLocked
<1> QED BY <1>2, <1>8, <1>10, <1>12, <1>13, <1>14 DEF ObjectsInv, OnlyLocked

-----------------------------------------------------------------------------
(* The console, and the rounds of perf.                                    *)

\* What does not change when a thread that holds nothing begins or ends a command.
Elsewhere == UNCHANGED <<file, ct, g, stale, twice>>

\* The variables of a thread that begins the calls s.
Begun(n, i, s) == [Idle(n, i) EXCEPT !.todo = s]

\* The record of a thread at the start of a command, field by field.
LEMMA BegunIs ==
  ASSUME NEW n, NEW i, NEW s
  PROVE  /\ Begun(n, i, s) = [todo |-> s, within |-> FALSE, saw |-> 0, n |-> n, i |-> i,
                              ct |-> FALSE, obj |-> FALSE]
         /\ Idle(n, i) = Begun(n, i, <<>>)
<1>1. ASSUME NEW q, NEW r, r = [Idle(n, i) EXCEPT !.todo = q]
      PROVE  r = [todo |-> q, within |-> FALSE, saw |-> 0, n |-> n, i |-> i,
                  ct |-> FALSE, obj |-> FALSE]
  BY <1>1 DEF Idle
<1>2. \A q : Begun(n, i, q) = [todo |-> q, within |-> FALSE, saw |-> 0, n |-> n, i |-> i,
                              ct |-> FALSE, obj |-> FALSE]
  BY <1>1 DEF Begun
<1> QED BY <1>2 DEF Idle

\* A thread at the start of a command has the type of a thread.
LEMMA BegunOK ==
  ASSUME NEW t \in Threads, NEW s \in Plans(t), NEW n \in Names, NEW i \in Ids
  PROVE  Begun(n, i, s) \in [todo : Plans(t), within : BOOLEAN, saw : Nat, n : Names,
                             i : Ids, ct : BOOLEAN, obj : BOOLEAN]
<1>1. Begun(n, i, s) = [todo |-> s, within |-> FALSE, saw |-> 0, n |-> n, i |-> i,
                        ct |-> FALSE, obj |-> FALSE]
  BY BegunIs
<1> QED BY <1>1

\* A thread that holds no container gets new variables, which hold nothing.
LEMMA Begins ==
  ASSUME ObjectsInv, NEW t \in Threads, ~thr[t].ct, Elsewhere,
         NEW todo \in Free(t) \cup {<<>>}, NEW n \in Names, NEW i \in Ids,
         thr' = [thr EXCEPT ![t] = Begun(n, i, todo)], PerfOK', Alone'
  PROVE  ObjectsInv'
<1>1. ThrOK /\ Staged /\ Locking /\ Counting /\ Lists /\ CtOK
  BY DEF ObjectsInv, Typed
<1>2. /\ DOMAIN thr' = Threads /\ \A x \in Threads \ {t} : thr'[x] = thr[x]
      /\ thr'[t] = Begun(n, i, todo)
  BY <1>1 DEF ThrOK
<1>3. thr'[t] = [todo |-> todo, within |-> FALSE, saw |-> 0, n |-> n, i |-> i,
                 ct |-> FALSE, obj |-> FALSE]
  BY <1>2, BegunIs
<1>4. ThrOK'
  <2>1. thr'[t] \in [todo : Plans(t), within : BOOLEAN, saw : Nat, n : Names, i : Ids,
                     ct : BOOLEAN, obj : BOOLEAN]
    <3>1. todo \in Plans(t)
      BY DEF Plans
    <3> QED BY <1>2, <3>1, BegunOK
  <2> QED BY <1>1, <1>2, <2>1 DEF ThrOK, Plans
<1>5. Staged'
  <2>1. AtStage(t, thr'[t])
    BY <1>3 DEF AtStage
  <2> QED BY <1>1, <1>2, <2>1 DEF Staged, AtStage
<1>6. Locking'
  <2> SUFFICES ASSUME NEW x \in Threads PROVE Locked(x)'
    BY DEF Locking
  <2>1. CASE x = t
    BY <1>3, <2>1 DEF Locked
  <2>2. CASE x # t
    <3>1. thr'[x] = thr[x] /\ g' = g /\ ct' = ct
      BY <1>2, <2>2 DEF Elsewhere
    <3>2. Locked(x) /\ SameObjects(Name(x))
      BY <1>1, <3>1 DEF Locking, SameObjects
    <3> QED BY <3>1, <3>2, LockedKept
  <2> QED BY <2>1, <2>2
<1>7. \A m, j : CtUsers(m)' \subseteq CtUsers(m) /\ ObjUsers(m, j)' \subseteq ObjUsers(m, j)
  BY <1>2, <1>3 DEF CtUsers, ObjUsers, Threads
<1>8. /\ \A m \in Names : Cardinality(CtUsers(m)') <= ct'[m].ref
      /\ \A m \in Names, j \in Ids : Cardinality(ObjUsers(m, j)') <= ct'[m].refs[j]
  <2> SUFFICES ASSUME NEW m \in Names, NEW j \in Ids
               PROVE  /\ Cardinality(CtUsers(m)') <= ct'[m].ref
                      /\ Cardinality(ObjUsers(m, j)') <= ct'[m].refs[j]
    BY Zenon
  <2>1. Cardinality(CtUsers(m)) <= ct[m].ref /\ Cardinality(ObjUsers(m, j)) <= ct[m].refs[j]
    BY <1>1 DEF Counting
  <2>2. /\ Cardinality(CtUsers(m)') \in Nat /\ Cardinality(CtUsers(m)') <= Cardinality(CtUsers(m))
        /\ Cardinality(ObjUsers(m, j)') \in Nat
        /\ Cardinality(ObjUsers(m, j)') <= Cardinality(ObjUsers(m, j))
    BY <1>7, UsersFinite, Kept
  <2>3. ct[m].ref \in Nat /\ ct[m].refs[j] \in Nat /\ ct' = ct
    BY <1>1 DEF CtOK, Containers, Elsewhere
  <2>4. Cardinality(CtUsers(m)) \in Nat /\ Cardinality(ObjUsers(m, j)) \in Nat
    BY UsersFinite
  <2> QED BY <2>1, <2>2, <2>3, <2>4
<1>9. Counting'
  <2>1. Console \in Threads /\ (Console # t => thr'[Console] = thr[Console])
    BY <1>2 DEF Threads
  <2>2. thr'[Console].ct => ct'[thr'[Console].n].ref > 0
    BY <1>1, <1>3, <2>1 DEF Counting, Elsewhere
  <2>3. thr'[Console].obj => ct'[thr'[Console].n].refs[thr'[Console].i] > 0
    BY <1>1, <1>3, <2>1 DEF Counting, Elsewhere
  <2> QED BY <1>8, <2>2, <2>3 DEF Counting
<1>10. Typed' /\ Lists' /\ HeldIsLive' /\ ListedOnce'
  BY <1>4 DEF ObjectsInv, Typed, FileOK, CtOK, Lists, HeldIsLive, ListedOnce, Elsewhere
<1> QED BY <1>5, <1>6, <1>9, <1>10 DEF ObjectsInv

\* When the console takes a command nobody has anything to do, nor anything in the hand.
LEMMA ReadyIdle ==
  ASSUME ObjectsInv, Ready
  PROVE  /\ \A t \in Threads : thr[t].todo = <<>> /\ ~thr[t].ct /\ ~thr[t].obj
         /\ Running = {} /\ perf.left = {} /\ perf.counted /\ perf.cnt = 0
<1>1. Running = {} /\ perf.left = {} /\ perf.counted
  BY DEF ObjectsInv, Alone, Ready
<1>2. \A t \in Threads : thr[t].todo = <<>>
  BY <1>1 DEF Running, Ready, Threads
<1>3. perf.cnt \in Int /\ perf.cnt + 0 = 0
  BY <1>1, FS_EmptySet DEF ObjectsInv, Typed, PerfOK, Alone
<1> QED BY <1>1, <1>2, <1>3, IdleHoldsNothing DEF ObjectsInv

\* A command of the console begins with nothing held.
LEMMA ExecuteInv ==
  ASSUME ObjectsInv, NEW command \in Commands, NEW n \in Names, NEW i \in Ids,
         Execute(command, n, i)
  PROVE  ObjectsInv'
<1>1. /\ Ready /\ Elsewhere /\ UNCHANGED perf
      /\ thr' = [thr EXCEPT ![Console] = Begun(n, i, command)]
  BY DEF Execute, Elsewhere, Begun
<1>2. /\ Console \in Threads /\ Console \notin Workers /\ ~thr[Console].ct
      /\ command \in Free(Console)
  BY <1>1, ReadyIdle, ObjectsAssumption DEF Threads, Free
<1>3. Running' = Running
  BY <1>1, <1>2 DEF Running, ObjectsInv, Typed, ThrOK
<1>4. Alone' /\ PerfOK'
  BY <1>1, <1>3 DEF ObjectsInv, Typed, Alone, PerfOK, Ready
<1> QED BY <1>1, <1>2, <1>4, Begins

\* A performance test begins while the console holds nothing and no worker runs.
LEMMA StartPerfInv ==
  ASSUME ObjectsInv, NEW n \in Names, NEW i \in Ids, StartPerf(n, i)
  PROVE  ObjectsInv'
<1>1. /\ Ready /\ Elsewhere /\ thr' = [thr EXCEPT ![Console] = Begun(n, i, <<>>)]
      /\ perf' = [phase |-> "insert", left |-> Workers, counted |-> TRUE, cnt |-> 0]
  BY BegunIs DEF StartPerf, Elsewhere
<1>2. Console \in Threads /\ Console \notin Workers /\ ~thr[Console].ct
  BY <1>1, ReadyIdle, ObjectsAssumption DEF Threads
<1>3. Running' = {} /\ thr'[Console].todo = <<>>
  BY <1>1, <1>2, ReadyIdle, BegunIs DEF Running, ObjectsInv, Typed, ThrOK
<1>4. Alone' /\ PerfOK'
  BY <1>1, <1>3, FS_EmptySet DEF Alone, PerfOK
<1>5. <<>> \in Free(Console) \cup {<<>>}
  OBVIOUS
<1> QED BY <1>1, <1>2, <1>4, <1>5, Begins

\* A worker begins with nothing held, with the name and the id of the test.
LEMMA StartWorkerInv ==
  ASSUME ObjectsInv, NEW w \in Workers, StartWorker(w)
  PROVE  ObjectsInv'
<1> DEFINE c == thr[Console]
           todo == Work[perf.phase]
<1>1. /\ perf.phase # "none" /\ perf.counted /\ w \in perf.left /\ Elsewhere
      /\ thr' = [thr EXCEPT ![w] = Begun(c.n, c.i, todo)]
      /\ perf' = [perf EXCEPT !.left = @ \ {w}, !.counted = FALSE]
  BY DEF StartWorker, Elsewhere, Begun
<1>2. /\ w \in Threads /\ Console \in Threads /\ Console # w /\ PerfOK /\ ThrOK /\ Alone
      /\ c.n \in Names /\ c.i \in Ids
  BY ObjectsAssumption DEF Threads, ObjectsInv, Typed, ThrOK
<1>3. todo \in FreeWorker
  <2>1. todo \in {test_insert_key_performance, test_remove_key_performance}
    BY <1>1, <1>2 DEF PerfOK, Work
  <2> QED BY <2>1, Zenon DEF FreeWorker, test_insert_key_performance, test_remove_key_performance
<1>4. thr[w].todo = <<>> /\ ~thr[w].ct
  <2>1. thr[w].todo = <<>>
    BY <1>1, <1>2 DEF Alone, Running
  <2> QED BY <1>2, <2>1, IdleHoldsNothing DEF ObjectsInv
<1>5. Running' = Running \cup {w} /\ w \notin Running /\ thr'[Console].todo = <<>>
  <2>1. todo # <<>>
    BY <1>3, FreeWorkerNext
  <2> HIDE DEF todo
  <2> QED BY <1>1, <1>2, <1>4, <2>1, BegunIs DEF Running, ThrOK, Alone, Threads
<1>6. /\ perf'.phase = perf.phase /\ perf'.left = perf.left \ {w} /\ perf'.cnt = perf.cnt
      /\ perf'.counted = FALSE /\ PerfOK'
  BY <1>1, <1>2 DEF PerfOK
<1>7. Alone'
  <2>1. Cardinality(Running') = Cardinality(Running) + 1
    BY <1>5, UsersFinite, FS_AddElement
  <2>2. perf.cnt + 0 = Cardinality(Running) /\ perf.cnt \in Int
    BY <1>1, <1>2 DEF Alone, PerfOK
  <2>3. perf'.cnt + 1 = Cardinality(Running')
    BY <1>6, <2>1, <2>2
  <2>4. perf'.left \cap Running' = {}
    BY <1>2, <1>5, <1>6 DEF Alone
  <2> QED BY <1>1, <1>5, <1>6, <2>3, <2>4 DEF Alone
<1>8. todo \in Free(w) \cup {<<>>}
  BY <1>3 DEF Free
<1> HIDE DEF todo, c
<1> QED BY <1>1, <1>2, <1>4, <1>6, <1>7, <1>8, Begins

\* The rounds of perf go on, and no thread does anything.
LEMMA PerfInv ==
  ASSUME ObjectsInv, UNCHANGED <<file, ct, g, thr, twice>>, stale' = {}, PerfOK', Alone'
  PROVE  ObjectsInv'
<1>1. Typed' /\ Lists'
  BY DEF ObjectsInv, Typed, FileOK, CtOK, ThrOK, Lists
<1>2. Staged'
  BY DEF ObjectsInv, Staged, AtStage
<1>3. Locking'
  BY DEF ObjectsInv, Locking, Locked, Call, Ct, Seen
<1>4. \A n, i : CtUsers(n)' = CtUsers(n) /\ ObjUsers(n, i)' = ObjUsers(n, i)
  BY DEF CtUsers, ObjUsers
<1>5. Counting'
  BY <1>4 DEF ObjectsInv, Counting
<1> QED BY <1>1, <1>2, <1>3, <1>5 DEF ObjectsInv, HeldIsLive, ListedOnce

\* Counting a started worker keeps the invariant.
LEMMA CountWorkerInv ==
  ASSUME ObjectsInv, CountWorker
  PROVE  ObjectsInv'
<1>1. /\ ~perf.counted /\ perf' = [perf EXCEPT !.counted = TRUE, !.cnt = @ + 1]
      /\ UNCHANGED <<file, ct, g, thr, stale, twice>> /\ PerfOK /\ Alone /\ stale = {}
  BY DEF CountWorker, ObjectsInv, Typed, HeldIsLive
<1>2. perf.cnt \in Int /\ perf.cnt + 1 \in Int
  BY <1>1 DEF PerfOK
<1>3. /\ perf'.phase = perf.phase /\ perf'.left = perf.left /\ perf'.cnt = perf.cnt + 1
      /\ perf'.counted = TRUE /\ PerfOK'
  BY <1>1, <1>2 DEF PerfOK
<1>4. Running' = Running
  BY <1>1 DEF Running
<1>5. Alone'
  BY <1>1, <1>2, <1>3, <1>4 DEF Alone
<1> QED BY <1>1, <1>3, <1>5, PerfInv

\* Giving up on the workers that are left keeps the invariant.
LEMMA StartFailsInv ==
  ASSUME ObjectsInv, StartFails
  PROVE  ObjectsInv'
<1>1. /\ perf.counted /\ perf' = [perf EXCEPT !.left = {}]
      /\ UNCHANGED <<file, ct, g, thr, stale, twice>> /\ PerfOK /\ Alone /\ stale = {}
  BY DEF StartFails, ObjectsInv, Typed, HeldIsLive
<1>2. /\ perf'.phase = perf.phase /\ perf'.left = {} /\ perf'.cnt = perf.cnt
      /\ perf'.counted = perf.counted /\ PerfOK'
  BY <1>1 DEF PerfOK
<1>3. Running' = Running
  BY <1>1 DEF Running
<1>4. Alone'
  BY <1>1, <1>2, <1>3 DEF Alone
<1> QED BY <1>1, <1>2, <1>4, PerfInv

\* A worker ends with nothing held.
LEMMA EndWorkerInv ==
  ASSUME ObjectsInv, NEW w \in Workers, EndWorker(w)
  PROVE  ObjectsInv'
<1> DEFINE n == CHOOSE n \in Names : TRUE
           i == CHOOSE i \in Ids : TRUE
<1>1. /\ thr[w].todo # <<>> /\ Call(w) = "end" /\ Elsewhere /\ thr' = [thr EXCEPT ![w] = Nobody]
      /\ perf' = [perf EXCEPT !.cnt = @ - 1]
  BY DEF EndWorker, Within, Elsewhere
<1>2. /\ w \in Threads /\ Console \in Threads /\ Console # w /\ PerfOK /\ ThrOK /\ Alone /\ Staged
      /\ n \in Names /\ i \in Ids
  BY ObjectsAssumption DEF Threads, ObjectsInv, Typed
<1>3. ~thr[w].ct
  BY <1>1, <1>2, Stages
<1>4. Nobody = Begun(n, i, <<>>)
  BY BegunIs DEF Nobody
<1> HIDE DEF n, i
<1>5. thr'[Console] = thr[Console] /\ Running' = Running \ {w} /\ w \in Running
  BY <1>1, <1>2, <1>4, BegunIs DEF Running, ThrOK, Threads
<1>6. perf.cnt \in Int /\ perf.cnt - 1 \in Int
  BY <1>2 DEF PerfOK
<1>7. /\ perf'.phase = perf.phase /\ perf'.left = perf.left /\ perf'.cnt = perf.cnt - 1
      /\ perf'.counted = perf.counted /\ PerfOK'
  BY <1>1, <1>2, <1>6 DEF PerfOK
<1>8. Alone'
  <2>1. Cardinality(Running') = Cardinality(Running) - 1 /\ Cardinality(Running) \in Nat
    BY <1>5, UsersFinite, FS_RemoveElement
  <2>2. perf.cnt + (IF perf.counted THEN 0 ELSE 1) = Cardinality(Running)
    BY <1>2 DEF Alone
  <2>3. perf'.cnt + (IF perf'.counted THEN 0 ELSE 1) = Cardinality(Running')
    BY <1>6, <1>7, <2>1, <2>2
  <2> QED BY <1>2, <1>5, <1>7, <2>3 DEF Alone
<1>9. /\ <<>> \in Free(w) \cup {<<>>} /\ Elsewhere /\ n \in Names /\ i \in Ids
      /\ thr' = [thr EXCEPT ![w] = Begun(n, i, <<>>)] /\ w \in Threads
  BY <1>1, <1>2, <1>4
<1> QED BY <1>3, <1>7, <1>8, <1>9, Begins

\* The console goes on when every counted worker has ended, so no worker is at work then.
LEMMA WaitOverInv ==
  ASSUME ObjectsInv, WaitOver
  PROVE  ObjectsInv'
<1>1. /\ perf.phase # "none" /\ perf.counted /\ perf.cnt = 0
      /\ perf' = [phase |-> IF perf.phase = "insert" THEN "remove" ELSE "none",
                  left |-> IF perf.phase = "insert" THEN Workers ELSE {},
                  counted |-> TRUE, cnt |-> 0]
      /\ stale' = stale \cup Running
      /\ UNCHANGED <<file, ct, g, thr, twice>> /\ PerfOK /\ Alone /\ stale = {}
  BY DEF WaitOver, ObjectsInv, Typed, HeldIsLive
<1>2. Running = {}
  <2>1. Cardinality(Running) = 0
    BY <1>1 DEF Alone
  <2> QED BY <2>1, UsersFinite, FS_EmptySet
<1>3. Running' = {} /\ stale' = {} /\ thr'[Console].todo = <<>>
  BY <1>1, <1>2 DEF Running, Alone
<1>4. PerfOK'
  BY <1>1 DEF PerfOK
<1>5. Alone'
  <2>1. /\ perf'.phase = (IF perf.phase = "insert" THEN "remove" ELSE "none")
        /\ perf'.left = (IF perf.phase = "insert" THEN Workers ELSE {})
        /\ perf'.counted = TRUE /\ perf'.cnt = 0
    BY <1>1
  <2>2. Cardinality(Running') = 0
    BY <1>3, FS_EmptySet
  <2> QED BY <1>3, <2>1, <2>2 DEF Alone
<1> QED BY <1>1, <1>3, <1>4, <1>5, PerfInv

\* Nothing is open and nobody does anything: at the start, and after quit.
LEMMA NothingOpen ==
  ASSUME FileOK', ct' = [n \in Names |-> Shut], ThrOK', PerfOK', Alone',
         g' \in Threads \cup {NoThread}, stale' = {}, ~twice',
         \A t \in Threads : thr'[t].todo = <<>> /\ ~thr'[t].ct /\ ~thr'[t].obj
  PROVE  ObjectsInv'
<1>1. Shut \in Containers /\ ~Shut.listed /\ Shut.ref = 0 /\ Shut.refs = [i \in Ids |-> 0]
  BY DEF Shut, Containers
<1>2. CtOK' /\ Lists'
  BY <1>1 DEF CtOK, Lists
<1>3. Staged' /\ Locking'
  BY DEF Staged, AtStage, Locking, Locked
<1>4. \A n, i : CtUsers(n)' = {} /\ ObjUsers(n, i)' = {}
  BY DEF CtUsers, ObjUsers, Threads
<1>5. Counting'
  <2>1. \A n \in Names, i \in Ids : ct'[n].ref = 0 /\ ct'[n].refs[i] = 0
    BY <1>1
  <2>2. \A n, i : Cardinality(CtUsers(n)') = 0 /\ Cardinality(ObjUsers(n, i)') = 0
    BY <1>4, FS_EmptySet
  <2>3. Console \in Threads
    BY DEF Threads
  <2>4. Ids # {}
    BY ObjectsAssumption
  <2> QED BY <2>1, <2>2, <2>3, <2>4 DEF Counting
<1> QED BY <1>2, <1>3, <1>5 DEF ObjectsInv, Typed, HeldIsLive, ListedOnce

\* Leaving the program, with nothing in use, empties the lists.
LEMMA ExitInv ==
  ASSUME ObjectsInv, Exit
  PROVE  ObjectsInv'
<1>1. /\ Ready /\ ct' = [n \in Names |-> Shut] /\ UNCHANGED <<g, thr, perf, twice>>
      /\ stale' = stale \cup {t \in Threads : thr[t].ct}
  BY DEF Exit
<1>2. \A t \in Threads : thr[t].todo = <<>> /\ ~thr[t].ct /\ ~thr[t].obj
  BY <1>1, ReadyIdle
<1>3. FileOK'
  <2>1. PICK ids \in [Names -> SUBSET Ids] :
          file' = [n \in Names |-> IF ct[n].listed THEN [good |-> TRUE, ids |-> ids[n]] ELSE file[n]]
    BY DEF Exit
  <2>2. \A n \in Names : ids[n] \in SUBSET Ids /\ file[n] \in [good : BOOLEAN, ids : SUBSET Ids]
    BY DEF ObjectsInv, Typed, FileOK
  <2> QED BY <2>1, <2>2 DEF FileOK
<1>4. Running' = Running
  BY <1>1 DEF Running
<1>5. ThrOK' /\ PerfOK' /\ Alone'
  BY <1>1, <1>4 DEF ObjectsInv, Typed, ThrOK, PerfOK, Alone
<1>6. g' \in Threads \cup {NoThread} /\ stale' = {} /\ ~twice'
  BY <1>1, <1>2 DEF ObjectsInv, Typed, HeldIsLive, ListedOnce
<1> QED BY <1>1, <1>2, <1>3, <1>5, <1>6, NothingOpen

-----------------------------------------------------------------------------
(* The invariant holds.                                                    *)

\* The invariant holds when the program has started: nothing is listed and nobody holds anything.
LEMMA InitInv ==
  ASSUME Init
  PROVE  ObjectsInv
<1>1. Shut \in Containers /\ ~Shut.listed /\ Shut.ref = 0 /\ Shut.refs = [i \in Ids |-> 0]
  BY DEF Shut, Containers
<1>2. FileOK /\ CtOK /\ Lists
  BY <1>1 DEF Init, FileOK, CtOK, Lists
<1>3. PICK n \in Names, i \in Ids : Nobody = Begun(n, i, <<>>)
  <2> DEFINE n == CHOOSE n \in Names : TRUE
             i == CHOOSE i \in Ids : TRUE
  <2>1. n \in Names /\ i \in Ids
    BY ObjectsAssumption
  <2>2. Nobody = Begun(n, i, <<>>)
    BY BegunIs DEF Nobody
  <2> QED BY <2>1, <2>2
<1>4. /\ DOMAIN thr = Threads
      /\ \A t \in Threads : thr[t] = [todo |-> <<>>, within |-> FALSE, saw |-> 0, n |-> n,
                                      i |-> i, ct |-> FALSE, obj |-> FALSE]
  BY <1>3, BegunIs DEF Init
<1>5. ThrOK
  <2> SUFFICES ASSUME NEW t \in Threads
               PROVE  thr[t] \in [todo : Plans(t), within : BOOLEAN, saw : Nat, n : Names,
                                  i : Ids, ct : BOOLEAN, obj : BOOLEAN]
    BY <1>4 DEF ThrOK
  <2>1. <<>> \in Plans(t)
    BY DEF Plans
  <2>2. thr[t] = Begun(n, i, <<>>)
    BY <1>3 DEF Init
  <2> QED BY <2>1, <2>2, BegunOK
<1>6. Staged /\ Locking
  BY <1>4 DEF Staged, AtStage, Locking, Locked
<1>7. Running = {} /\ Console \in Threads
  BY <1>4 DEF Running, Threads
<1>8. PerfOK /\ Alone
  BY <1>4, <1>7, FS_EmptySet DEF Init, PerfOK, Alone
<1>9. Counting
  <2>1. \A m \in Names, j \in Ids : ct[m].ref = 0 /\ ct[m].refs[j] = 0
    BY <1>1 DEF Init
  <2>2. \A m, j : CtUsers(m) = {} /\ ObjUsers(m, j) = {}
    BY <1>4 DEF CtUsers, ObjUsers, Threads
  <2>3. \A m, j : Cardinality(CtUsers(m)) = 0 /\ Cardinality(ObjUsers(m, j)) = 0
    BY <2>2, FS_EmptySet
  <2>4. Ids # {}
    BY ObjectsAssumption
  <2> QED BY <1>4, <1>7, <2>1, <2>3, <2>4 DEF Counting
<1> QED BY <1>2, <1>5, <1>6, <1>8, <1>9
        DEF Init, ObjectsInv, Typed, HeldIsLive, ListedOnce

\* No call, and nothing the console does, breaks it.
LEMMA NextInv ==
  ASSUME ObjectsInv, [Next]_vars
  PROVE  ObjectsInv'
<1>1. ASSUME NEW t \in Threads, Step(t) PROVE ObjectsInv'
  BY <1>1, LockInv, CreateContainerInv, OpenContainerInv, GetContainerInv, CloseContainerInv,
     WalkInv, CreateObjectInv, OpenObjectInv, CloseObjectInv, GetObjectInv, ShowInv, UseInv
     DEF Step
<1>2. ASSUME NEW command \in Commands, NEW n \in Names, NEW i \in Ids, Execute(command, n, i)
      PROVE  ObjectsInv'
  BY <1>2, ExecuteInv
<1>3. ASSUME NEW n \in Names, NEW i \in Ids, StartPerf(n, i) PROVE ObjectsInv'
  BY <1>3, StartPerfInv
<1>4. ASSUME NEW w \in Workers, StartWorker(w) \/ EndWorker(w) PROVE ObjectsInv'
  BY <1>4, StartWorkerInv, EndWorkerInv
<1>5. CASE CountWorker \/ StartFails \/ WaitOver \/ Exit
  BY <1>5, CountWorkerInv, StartFailsInv, WaitOverInv, ExitInv
<1>6. CASE UNCHANGED vars
  <2>1. /\ UNCHANGED <<file, ct, g, thr, twice>> /\ stale' = {} /\ perf' = perf
        /\ Running' = Running
    BY <1>6 DEF vars, ObjectsInv, HeldIsLive, Running
  <2>2. PerfOK' /\ Alone'
    BY <2>1 DEF ObjectsInv, Typed, PerfOK, Alone
  <2> QED BY <2>1, <2>2, PerfInv
<1> QED BY <1>1, <1>2, <1>3, <1>4, <1>5, <1>6 DEF Next

\* What threads hold, what is counted and who has which lock agree in every state, with
\* any number of containers, objects and workers (ofs_open_container, ofs_close_container,
\* ofs_open_object, ofs_close_object, test_performance).
THEOREM Invariance == Spec => []ObjectsInv
<1>1. Init => ObjectsInv
  BY InitInv
<1>2. ObjectsInv /\ [Next]_vars => ObjectsInv'
  BY NextInv
<1> QED BY <1>1, <1>2, PTL DEF Spec

-----------------------------------------------------------------------------
(* What has moved is open.                                                 *)

MovedOpen ==
  /\ moved \in [Names -> SUBSET Ids]
  /\ \A n \in Names : \A i \in moved[n] : ct[n].refs[i] > 0

\* What is open stays open.
StayOpen == \A n \in Names, i \in Ids : ct[n].refs[i] > 0 => ct'[n].refs[i] > 0

\* The counters of container m, perhaps of another one, after a change of m.
LEMMA OthersStayOpen ==
  ASSUME ObjectsInv, NEW m \in Names,
         \A n \in Names \ {m} : ct'[n] = ct[n],
         \A i \in Ids : ct[m].refs[i] > 0 => ct'[m].refs[i] > 0
  PROVE  StayOpen
  BY DEF StayOpen

\* A container that gets into the list had no object open.
LEMMA ListingStaysOpen ==
  ASSUME ObjectsInv, NEW m \in Names, ct[m].ref = 0, NEW ids,
         ct' = [ct EXCEPT ![m] = Listing(m, ids)]
  PROVE  StayOpen
<1>1. CtOK /\ Lists
  BY DEF ObjectsInv, Typed
<1>2. ct[m] = Shut
  BY <1>1 DEF Lists
<1>3. \A i \in Ids : ct[m].refs[i] = 0
  BY <1>2 DEF Shut
<1>4. \A n \in Names \ {m} : ct'[n] = ct[n]
  BY <1>1 DEF CtOK
<1> QED BY <1>3, <1>4, OthersStayOpen

\* Calls that close nothing.
LEMMA ListCallsStayOpen ==
  ASSUME ObjectsInv, NEW t \in Threads, CreateContainer(t) \/ OpenContainer(t)
  PROVE  StayOpen
<1> DEFINE m == Name(t)
<1>1. m \in Names /\ CtOK /\ thr[t].saw = ct[m].ref
  <2>1. /\ thr[t].todo # <<>> /\ thr[t].within /\ Call(t) \in {"create_ct", "open_ct"}
    BY DEF CreateContainer, OpenContainer, Within
  <2>2. thr[t].saw = Seen(t) /\ Call(t) \in ListCalls
    BY <2>1 DEF ObjectsInv, Locking, Locked, ListCalls
  <2>3. thr[t].saw = ct[m].ref
    BY <2>1, <2>2 DEF Seen, Ct, Name
  <2> QED BY <2>3, Typing DEF ObjectsInv, Typed
<1>2. \/ ct' = ct
      \/ ct' = [ct EXCEPT ![m].ref = thr[t].saw + 1]
      \/ thr[t].saw = 0 /\ \E ids : ct' = [ct EXCEPT ![m] = Listing(m, ids)]
  <2>1. CASE CreateContainer(t)
    BY <2>1, Zenon DEF CreateContainer, Name
  <2>2. CASE OpenContainer(t)
    BY <2>2, Zenon DEF OpenContainer, Name
  <2> QED BY <2>1, <2>2
<1>3. CASE ct' = ct
  BY <1>3 DEF StayOpen
<1>4. CASE ct' = [ct EXCEPT ![m].ref = thr[t].saw + 1]
  BY <1>1, <1>4 DEF StayOpen, CtOK, Containers
<1>5. CASE thr[t].saw = 0 /\ \E ids : ct' = [ct EXCEPT ![m] = Listing(m, ids)]
  BY <1>1, <1>5, ListingStaysOpen
<1> QED BY <1>2, <1>3, <1>4, <1>5

LEMMA ObjectCallsStayOpen ==
  ASSUME ObjectsInv, NEW t \in Threads,
         CreateObject(t) \/ OpenObject(t) \/ GetObject(t) \/ Show(t)
  PROVE  StayOpen
<1> DEFINE m == Name(t)
           i == Id(t)
<1>1. m \in Names /\ i \in Ids /\ CtOK /\ thr[t].saw \in Nat
  BY Typing DEF ObjectsInv, Typed
<1>2. Unlocked(m) \in [Names -> Containers] /\ \A n \in Names : Unlocked(m)[n].refs = ct[n].refs
  BY <1>1 DEF CtOK, Containers, Unlocked
<1>3. \/ ct' = Unlocked(m)
      \/ ct' = [ct EXCEPT ![m].readers = @ + 1]
      \/ \E r \in Nat : ct' = [Unlocked(m) EXCEPT ![m].refs[i] = r + 1]
      \/ ct' = [Unlocked(m) EXCEPT ![m].ids = @ \cup {i}, ![m].refs[i] = 1]
  <2>1. CASE CreateObject(t)
    BY <2>1, Zenon DEF CreateObject, Name, Id
  <2>2. CASE OpenObject(t)
    BY <1>1, <2>2, Zenon DEF OpenObject, Name, Id
  <2>3. CASE GetObject(t)
    BY <2>3, Zenon DEF GetObject, Name, Id
  <2>4. CASE Show(t)
    BY <2>4, Zenon DEF Show, Name, Id
  <2> QED BY <2>1, <2>2, <2>3, <2>4
<1>4. CASE ct' = Unlocked(m)
  BY <1>2, <1>4 DEF StayOpen
<1>5. CASE ct' = [ct EXCEPT ![m].readers = @ + 1]
  BY <1>1, <1>5 DEF StayOpen, CtOK, Containers
<1>6. CASE \E r \in Nat : ct' = [Unlocked(m) EXCEPT ![m].refs[i] = r + 1]
  BY <1>1, <1>2, <1>6 DEF StayOpen, Containers
<1>7. CASE ct' = [Unlocked(m) EXCEPT ![m].ids = @ \cup {i}, ![m].refs[i] = 1]
  BY <1>1, <1>2, <1>7 DEF StayOpen, Containers
<1> QED BY <1>3, <1>4, <1>5, <1>6, <1>7

\* An object moves only while it is used, and what closes it forgets that it has.
LEMMA MovedStep ==
  ASSUME ObjectsInv, MovedOpen, NEW t \in Threads, Step(t)
  PROVE  MovedOpen'
<1> DEFINE m == Name(t)
           i == Id(t)
<1>1. m \in Names /\ i \in Ids /\ CtOK /\ thr[t].saw \in Nat
  BY Typing DEF ObjectsInv, Typed
<1>2. StayOpen /\ moved' = moved => MovedOpen'
  BY DEF StayOpen, MovedOpen
<1>3. CASE Lock(t)
  <2>1. \A n \in Names : ct'[n].refs = ct[n].refs
    BY <1>3, LockChanges DEF OnlyLocked
  <2>2. moved' = moved
    BY <1>3 DEF Lock
  <2> QED BY <1>2, <2>1, <2>2 DEF StayOpen
<1>4. CASE CreateContainer(t) \/ OpenContainer(t)
  <2>1. moved' = moved
    BY <1>4, Zenon DEF CreateContainer, OpenContainer
  <2> QED BY <1>2, <1>4, <2>1, ListCallsStayOpen
<1>5. CASE GetContainer(t) \/ Walk(t)
  BY <1>2, <1>5 DEF GetContainer, Walk, StayOpen
<1>6. CASE CreateObject(t) \/ OpenObject(t) \/ GetObject(t) \/ Show(t)
  <2>1. moved' = moved
    BY <1>6, Zenon DEF CreateObject, OpenObject, GetObject, Show
  <2> QED BY <1>2, <1>6, <2>1, ObjectCallsStayOpen
<1>7. CASE Use(t)
  <2>1. ct[m].refs[i] > 0
    <3>1. thr[t].todo # <<>> /\ thr[t].within /\ Call(t) = "use"
      BY <1>7 DEF Use, Within
    <3>2. thr[t].ct /\ thr[t].obj
      BY <3>1, Stages DEF ObjectsInv
    <3> QED BY <3>2, HeldIsCounted DEF Name, Id
  <2>2. ct' = ct /\ (moved' = moved \/ moved' = [moved EXCEPT ![m] = @ \cup {i}])
    BY <1>7 DEF Use, Name, Id
  <2> QED BY <1>1, <2>1, <2>2 DEF MovedOpen
<1>8. CASE CloseContainer(t)
  <2>1. \/ moved' = moved /\ ct' = [ct EXCEPT ![m].ref = IF thr[t].saw = 0 THEN @ ELSE thr[t].saw - 1]
        \/ moved' = [moved EXCEPT ![m] = {}] /\ ct' = [ct EXCEPT ![m] = Shut]
    BY <1>8, Zenon DEF CloseContainer, Name
  <2>2. CASE moved' = moved /\ ct' = [ct EXCEPT ![m].ref = IF thr[t].saw = 0 THEN @ ELSE thr[t].saw - 1]
    BY <1>1, <1>2, <2>2 DEF StayOpen, CtOK, Containers
  <2>3. CASE moved' = [moved EXCEPT ![m] = {}] /\ ct' = [ct EXCEPT ![m] = Shut]
    BY <1>1, <2>3 DEF MovedOpen, CtOK
  <2> QED BY <2>1, <2>2, <2>3
<1>9. CASE CloseObject(t)
  <2>1. thr[t].saw = ct[m].refs[i] /\ ct[m].refs[i] \in Nat /\ ct[m].refs[i] > 0 /\ ct[m].listed /\ Lists
    <3>1. thr[t].todo # <<>> /\ thr[t].within /\ Call(t) = "close_obj"
      BY <1>9 DEF CloseObject, Within
    <3>2. thr[t].ct /\ thr[t].obj
      BY <3>1, Stages DEF ObjectsInv
    <3> QED BY <1>1, <3>1, <3>2, ReadUnderLock, HeldIsCounted, Typing
            DEF ObjectsInv, Typed, Lists, Name, Id
  <2>2. CASE thr[t].saw # 1 /\ moved' = moved /\ ct' = [Unlocked(m) EXCEPT ![m].refs[i] = thr[t].saw - 1]
    <3>1. OnlyRefsOf(m, i, thr[t].saw - 1)
      <4>1. ct' = Counted(m, i, thr[t].saw - 1) /\ thr[t].saw - 1 \in Nat
        BY <2>1, <2>2 DEF Counted
      <4> QED BY <1>1, <2>1, <4>1, ObjectsChanged
    <3>2. thr[t].saw - 1 > 0
      BY <2>1, <2>2
    <3>3. StayOpen
      BY <3>1, <3>2 DEF OnlyRefsOf, StayOpen
    <3> QED BY <1>2, <2>2, <3>3
  <2>3. CASE /\ thr[t].saw = 1 /\ moved' = [moved EXCEPT ![m] = @ \ {i}]
             /\ \E ids \in Updated(m, {i}) :
                  ct' = [Unlocked(m) EXCEPT ![m].ids = ids, ![m].refs[i] = 0]
    <3>1. OnlyRefsOf(m, i, 0)
      <4>1. PICK ids \in Updated(m, {i}) : ct' = Created(m, i, 0, ids)
        BY <2>3 DEF Created
      <4>2. ids \in SUBSET Ids
        BY <1>1, UpdatedIs
      <4> QED BY <1>1, <2>1, <4>1, <4>2, ObjectsChanged
    <3>2. \A n \in Names, j \in Ids : n # m \/ j # i => ct'[n].refs[j] = ct[n].refs[j]
      BY <3>1 DEF OnlyRefsOf
    <3>3. /\ moved' \in [Names -> SUBSET Ids] /\ moved'[m] = moved[m] \ {i}
          /\ \A n \in Names \ {m} : moved'[n] = moved[n]
      BY <1>1, <2>3 DEF MovedOpen
    <3>4. ASSUME NEW n \in Names, NEW j \in moved'[n] PROVE ct'[n].refs[j] > 0
      <4>1. j \in Ids /\ j \in moved[n] /\ (n # m \/ j # i)
        BY <3>3, <3>4
      <4> QED BY <3>2, <4>1 DEF MovedOpen
    <3> QED BY <3>3, <3>4 DEF MovedOpen
  <2> QED BY <1>9, <2>2, <2>3, Zenon DEF CloseObject, Name, Id
<1> QED BY <1>3, <1>4, <1>5, <1>6, <1>7, <1>8, <1>9 DEF Step

\* What the console and perf do moves nothing.
LEMMA MovedNext ==
  ASSUME ObjectsInv, MovedOpen, [Next]_vars
  PROVE  MovedOpen'
<1>1. CASE \E t \in Threads : Step(t)
  BY <1>1, MovedStep
<1>2. CASE \/ \E command \in Commands, m \in Names, i \in Ids : Execute(command, m, i)
           \/ \E m \in Names, i \in Ids : StartPerf(m, i)
           \/ \E w \in Workers : StartWorker(w) \/ EndWorker(w)
           \/ CountWorker \/ StartFails \/ WaitOver \/ UNCHANGED vars
  <2>1. UNCHANGED <<ct, moved>>
    BY <1>2, Zenon DEF Execute, StartPerf, StartWorker, EndWorker, CountWorker, StartFails,
                       WaitOver, vars
  <2> QED BY <2>1 DEF MovedOpen
<1>3. CASE Exit
  <2>1. moved' = [n \in Names |-> {}]
    BY <1>3 DEF Exit
  <2> QED BY <2>1 DEF MovedOpen
<1> QED BY <1>1, <1>2, <1>3 DEF Next

\* What has moved is open, so that what is not open is lost by nobody's update of $OBJID
\* (validate_obj_inode).
THEOREM MovedIsOpen == Spec => []MovedOpen
<1>1. Init => MovedOpen
  BY DEF Init, MovedOpen
<1>2. ObjectsInv /\ MovedOpen /\ [Next]_vars => MovedOpen'
  BY MovedNext
<1> QED BY <1>1, <1>2, Invariance, PTL DEF Spec

\* A container has references exactly as long as it is in the list, what has moved in it is
\* open, and perf never counts more workers than there are (ofs_container_manager.c,
\* ofs_object_manager.c, test_performance).
THEOREM TypeOKAlways == Spec => []TypeOK
<1>1. ObjectsInv /\ MovedOpen => TypeOK
  <2> SUFFICES ASSUME ObjectsInv, MovedOpen PROVE TypeOK
    OBVIOUS
  <2>1. \A n \in Names :
          /\ file[n] \in [good : BOOLEAN, ids : SUBSET Ids] /\ ct[n] \in Containers
          /\ ct[n].listed <=> ct[n].ref > 0
          /\ ~ct[n].listed => ct[n] = Shut
    BY DEF ObjectsInv, Typed, FileOK, CtOK, Lists
  <2>2. perf.cnt \in -Cardinality(Workers) .. Cardinality(Workers)
    <3>1. /\ perf.cnt \in Int /\ perf.counted \in BOOLEAN
          /\ perf.cnt + (IF perf.counted THEN 0 ELSE 1) = Cardinality(Running)
          /\ ~perf.counted => Workers # {}
      BY DEF ObjectsInv, Typed, PerfOK, Alone
    <3>2. Cardinality(Running) \in Nat /\ Cardinality(Running) <= Cardinality(Workers)
      BY Kept, ObjectsAssumption DEF Running
    <3>3. Cardinality(Workers) \in Nat /\ (Workers # {} => Cardinality(Workers) # 0)
      BY ObjectsAssumption, FS_CardinalityType, FS_EmptySet
    <3> QED BY <3>1, <3>2, <3>3
  <2>3. \A n \in Names : moved[n] \subseteq {i \in Ids : ct[n].refs[i] > 0}
    BY DEF MovedOpen
  <2> QED BY <2>1, <2>2, <2>3 DEF TypeOK, Containers, ObjectsInv, Typed
<1> QED BY <1>1, Invariance, MovedIsOpen, PTL

\* No thread ever has a pointer to a container, an object or parameters of perf that have
\* been freed, whoever closes last (ofs_close_nolock, ofs_close_object_nolock,
\* test_performance).
THEOREM HeldIsLiveAlways == Spec => []HeldIsLive
<1>1. ObjectsInv => HeldIsLive
  BY DEF ObjectsInv
<1> QED BY <1>1, Invariance, PTL

\* Two threads that find at the same time that something is not open never both put it in
\* its list (ofs_open_nolock, ofs_create_object_nolock, ofs_open_object_nolock).
THEOREM ListedOnceAlways == Spec => []ListedOnce
<1>1. ObjectsInv => ListedOnce
  BY DEF ObjectsInv
<1> QED BY <1>1, Invariance, PTL

-----------------------------------------------------------------------------
(* What is in the containers.                                              *)

\* A step that leaves the files and what is listed, and takes no object away.
LEMMA KeepsPresent ==
  ASSUME file' = file, NEW n \in Names,
         ct'[n].listed = ct[n].listed, ct[n].ids \subseteq ct'[n].ids
  PROVE  Present(n) \subseteq Present(n)'
  BY DEF Present

\* Taking a lock loses no object.
LEMMA LockKeeps ==
  ASSUME ObjectsInv, NEW t \in Threads, Lock(t), NEW n \in Names
  PROVE  Present(n) \subseteq Present(n)'
<1>1. OnlyLocked(t) /\ file' = file /\ Lists
  BY LockChanges DEF Lock, ObjectsInv
<1>2. ct'[n].ids = ct[n].ids /\ ct'[n].ref = ct[n].ref /\ Lists'
  BY <1>1 DEF OnlyLocked
<1>3. (ct'[n].listed <=> ct'[n].ref > 0) /\ (ct[n].listed <=> ct[n].ref > 0)
  BY <1>1, <1>2 DEF Lists
<1>4. ct'[n].listed \in BOOLEAN /\ ct[n].listed \in BOOLEAN
  BY <1>1 DEF OnlyLocked, CtOK, Containers, ObjectsInv, Typed
<1> QED BY <1>1, <1>2, <1>3, <1>4, KeepsPresent

\* Creating a container loses no object of another one.
LEMMA CreateContainerKeeps ==
  ASSUME ObjectsInv, NEW t \in Threads, CreateContainer(t), NEW n \in Names, thr[t].n # n
  PROVE  Present(n) \subseteq Present(n)'
<1>1. Name(t) \in Names /\ Name(t) # n /\ CtOK /\ FileOK
  BY Typing DEF ObjectsInv, Typed, Name
<1>2. ct'[n] = ct[n] /\ file'[n] = file[n]
  BY <1>1 DEF CreateContainer, CtOK, FileOK, Name
<1> QED BY <1>2 DEF Present

\* Opening a container loses no object: a list is filled from the file.
LEMMA OpenContainerKeeps ==
  ASSUME ObjectsInv, NEW t \in Threads, OpenContainer(t), NEW n \in Names
  PROVE  Present(n) \subseteq Present(n)'
<1> DEFINE m == Name(t)
<1>1. /\ m \in Names /\ CtOK /\ Lists /\ file' = file
      /\ thr[t].saw = ct[m].ref /\ ct[m].ref \in Nat
  <2>1. /\ thr[t].todo # <<>> /\ thr[t].within /\ Call(t) = "open_ct" /\ Call(t) \in ListCalls
    BY DEF OpenContainer, Within, ListCalls
  <2>2. thr[t].saw = ct[m].ref
    BY <2>1 DEF ObjectsInv, Locking, Locked, Seen, Ct, Name
  <2> QED BY <2>2, Typing DEF OpenContainer, ObjectsInv, Typed
<1>2. CASE n # m
  <2>1. ct'[n] = ct[n]
    BY <1>1, <1>2 DEF OpenContainer, CtOK, Name
  <2> QED BY <1>1, <2>1 DEF Present
<1>3. CASE n = m /\ ct' = [ct EXCEPT ![m].ref = thr[t].saw + 1]
  <2>1. ct'[m].listed = ct[m].listed /\ ct'[m].ids = ct[m].ids
    BY <1>1, <1>3 DEF CtOK, Containers
  <2> QED BY <1>1, <1>3, <2>1, KeepsPresent
<1>4. CASE /\ n = m /\ thr[t].saw = 0 /\ file[m].good
           /\ ct' = [ct EXCEPT ![m] = Listing(m, file[m].ids)]
  <2>1. ~(ct[m].ref > 0)
    BY <1>1, <1>4
  <2>2. ~ct[m].listed
    BY <1>1, <2>1 DEF Lists
  <2>3. ct'[m] = Listing(m, file[m].ids)
    BY <1>1, <1>4 DEF CtOK
  <2>4. ct'[m].listed /\ ct'[m].ids = file[m].ids
    BY <2>3 DEF Listing, Shut
  <2> QED BY <1>1, <1>4, <2>2, <2>4 DEF Present
<1>5. CASE ct' = ct
  BY <1>1, <1>5 DEF Present
<1>6. \/ ct' = [ct EXCEPT ![m].ref = thr[t].saw + 1]
      \/ /\ thr[t].saw = 0 /\ file[m].good
         /\ ct' = [ct EXCEPT ![m] = Listing(m, file[m].ids)]
      \/ ct' = ct
  BY Zenon DEF OpenContainer, Name
<1> QED BY <1>2, <1>3, <1>4, <1>5, <1>6

\* What is not there any more has moved, and goes with its last handle.
OnlyMoved(n) == \A i \in Present(n) \ Present(n)' : Renumbered(n, i)

\* Closing a container: what leaves the list is in the file, but for updates that failed.
LEMMA CloseContainerKeeps ==
  ASSUME ObjectsInv, MovedOpen, NEW t \in Threads, CloseContainer(t), NEW n \in Names
  PROVE  OnlyMoved(n)
<1> DEFINE m == Name(t)
<1>1. /\ m \in Names /\ CtOK /\ Lists /\ FileOK
      /\ thr[t].saw = ct[m].ref /\ ct[m].ref \in Nat
  <2>1. /\ thr[t].todo # <<>> /\ thr[t].within /\ Call(t) = "close_ct" /\ Call(t) \in ListCalls
    BY DEF CloseContainer, Within, ListCalls
  <2>2. thr[t].saw = ct[m].ref
    BY <2>1 DEF ObjectsInv, Locking, Locked, Seen, Ct, Name
  <2> QED BY <2>2, Typing DEF ObjectsInv, Typed
<1>2. CASE thr[t].saw # 1
  <2>1. /\ ct' = [ct EXCEPT ![m].ref = IF thr[t].saw = 0 THEN @ ELSE thr[t].saw - 1]
        /\ file' = file
    BY <1>2, Zenon DEF CloseContainer, Name
  <2>2. ct'[n].listed = ct[n].listed /\ ct'[n].ids = ct[n].ids
    BY <1>1, <2>1 DEF CtOK, Containers
  <2>3. Present(n) \subseteq Present(n)'
    BY <2>1, <2>2, KeepsPresent
  <2> QED BY <2>3 DEF OnlyMoved
<1>3. CASE thr[t].saw = 1
  <2>1. /\ ct' = [ct EXCEPT ![m] = Shut] /\ moved' = [moved EXCEPT ![m] = {}] /\ Saved(m)
    BY <1>3, Zenon DEF CloseContainer, Name
  <2>2. PICK ids \in Updated(m, Ids) : file' = [file EXCEPT ![m] = [good |-> TRUE, ids |-> ids]]
    BY <2>1 DEF Saved
  <2>3. CASE n # m
    <3>1. ct'[n] = ct[n] /\ file'[n] = file[n]
      BY <1>1, <2>1, <2>2, <2>3 DEF CtOK, FileOK
    <3> QED BY <3>1 DEF OnlyMoved, Present
  <2>4. CASE n = m
    <3>5. ct[m].ref > 0
      BY <1>1, <1>3
    <3>1. ct[m].listed
      BY <1>1, <3>5 DEF Lists
    <3>2. ~ct'[m].listed /\ file'[m].good /\ file'[m].ids = ids
      BY <1>1, <2>1, <2>2 DEF CtOK, FileOK, Shut
    <3>3. Present(n) = ct[n].ids /\ Present(n)' = ids
      BY <2>4, <3>1, <3>2 DEF Present
    <3>4. ct[n].ids \ ids \subseteq moved[n]
      BY <1>1, <2>2, <2>4, UpdatedIs
    <3>6. moved'[n] = {}
      BY <1>1, <2>1, <2>4 DEF MovedOpen
    <3> QED BY <3>3, <3>4, <3>6 DEF OnlyMoved, Renumbered
  <2> QED BY <2>3, <2>4
<1> QED BY <1>2, <1>3

\* Closing an object: its own number may be lost.
LEMMA CloseObjectKeeps ==
  ASSUME ObjectsInv, MovedOpen, NEW t \in Threads, CloseObject(t), NEW n \in Names
  PROVE  OnlyMoved(n)
<1> DEFINE m == Name(t)
           i == Id(t)
<1>1. m \in Names /\ i \in Ids /\ CtOK /\ file' = file
  BY Typing DEF CloseObject, ObjectsInv, Typed
<1>2. /\ Unlocked(m) \in [Names -> Containers]
      /\ Unlocked(m)[n].listed = ct[n].listed /\ Unlocked(m)[n].ids = ct[n].ids
  BY <1>1 DEF CtOK, Containers, Unlocked
<1>3. CASE \E r : ct' = [Unlocked(m) EXCEPT ![m].refs[i] = r]
  <2>1. ct'[n].listed = ct[n].listed /\ ct'[n].ids = ct[n].ids
    BY <1>1, <1>2, <1>3 DEF Containers
  <2>2. Present(n) \subseteq Present(n)'
    BY <1>1, <2>1, KeepsPresent
  <2> QED BY <2>2 DEF OnlyMoved
<1>4. CASE /\ moved' = [moved EXCEPT ![m] = @ \ {i}]
           /\ \E ids \in Updated(m, {i}) :
                ct' = [Unlocked(m) EXCEPT ![m].ids = ids, ![m].refs[i] = 0]
  <2>1. PICK ids \in Updated(m, {i}) : ct' = [Unlocked(m) EXCEPT ![m].ids = ids, ![m].refs[i] = 0]
    BY <1>4
  <2>2. ct'[n].listed = ct[n].listed /\ ct'[n].ids = IF n = m THEN ids ELSE ct[n].ids
    BY <1>1, <1>2, <2>1 DEF Containers
  <2>3. CASE n # m
    <3>1. Present(n) \subseteq Present(n)'
      BY <1>1, <2>2, <2>3, KeepsPresent
    <3> QED BY <3>1 DEF OnlyMoved
  <2>4. CASE n = m
    <3>1. Present(n) \ Present(n)' \subseteq ct[n].ids \ ids
      BY <1>1, <2>2, <2>4 DEF Present
    <3>2. ct[n].ids \ ids \subseteq {i} \cap moved[n]
      BY <1>1, <2>4, UpdatedIs
    <3>3. i \notin moved'[n]
      BY <1>1, <1>4, <2>4 DEF MovedOpen
    <3> QED BY <3>1, <3>2, <3>3 DEF OnlyMoved, Renumbered
  <2> QED BY <2>3, <2>4
<1> QED BY <1>3, <1>4, Zenon DEF CloseObject, Name, Id

\* The other calls under the lock of a container.
LEMMA ObjectCallsKeep ==
  ASSUME ObjectsInv, NEW t \in Threads, NEW n \in Names,
         \/ CreateObject(t) \/ OpenObject(t) \/ GetObject(t) \/ Show(t)
  PROVE  Present(n) \subseteq Present(n)'
<1> DEFINE m == Name(t)
           i == Id(t)
<1>1. m \in Names /\ i \in Ids /\ CtOK /\ file' = file
  <2>1. file' = file
    BY Zenon DEF CreateObject, OpenObject, GetObject, Show
  <2> QED BY <2>1, Typing DEF ObjectsInv, Typed
<1>2. /\ Unlocked(m) \in [Names -> Containers]
      /\ Unlocked(m)[n].listed = ct[n].listed /\ Unlocked(m)[n].ids = ct[n].ids
  BY <1>1 DEF CtOK, Containers, Unlocked
<1>3. \/ ct' = Unlocked(m)
      \/ ct' = [ct EXCEPT ![m].readers = @ + 1]
      \/ \E r : ct' = [Unlocked(m) EXCEPT ![m].refs[i] = r]
      \/ ct' = [Unlocked(m) EXCEPT ![m].ids = @ \cup {i}, ![m].refs[i] = 1]
  <2>1. CASE CreateObject(t)
    BY <2>1, Zenon DEF CreateObject, Name, Id
  <2>2. CASE OpenObject(t)
    BY <2>2, Zenon DEF OpenObject, Name, Id
  <2>3. CASE GetObject(t)
    BY <2>3, Zenon DEF GetObject, Name, Id
  <2>4. CASE Show(t)
    BY <2>4, Zenon DEF Show, Name, Id
  <2> QED BY <2>1, <2>2, <2>3, <2>4
<1>4. ct'[n].listed = ct[n].listed /\ ct[n].ids \subseteq ct'[n].ids
  <2>1. CASE ct' = Unlocked(m)
    BY <1>2, <2>1
  <2>2. CASE ct' = [ct EXCEPT ![m].readers = @ + 1]
    BY <1>1, <2>2 DEF CtOK, Containers
  <2>3. CASE \E r : ct' = [Unlocked(m) EXCEPT ![m].refs[i] = r]
    BY <1>1, <1>2, <2>3 DEF Containers
  <2>4. CASE ct' = [Unlocked(m) EXCEPT ![m].ids = @ \cup {i}, ![m].refs[i] = 1]
    BY <1>1, <1>2, <2>4 DEF Containers
  <2> QED BY <1>3, <2>1, <2>2, <2>3, <2>4
<1> QED BY <1>1, <1>4, KeepsPresent

\* Leaving the program closes all containers.
LEMMA ExitKeeps ==
  ASSUME ObjectsInv, Exit, NEW n \in Names
  PROVE  OnlyMoved(n)
<1>1. CtOK /\ ct'[n] = Shut /\ ~Shut.listed /\ moved'[n] = {}
  BY DEF Exit, Shut, ObjectsInv, Typed
<1>2. PICK ids \in [Names -> SUBSET Ids] :
        /\ \A m \in Names : ids[m] \in Updated(m, Ids)
        /\ file' = [m \in Names |-> IF ct[m].listed THEN [good |-> TRUE, ids |-> ids[m]] ELSE file[m]]
  BY DEF Exit
<1>3. file'[n] = IF ct[n].listed THEN [good |-> TRUE, ids |-> ids[n]] ELSE file[n]
  BY <1>2
<1>4. ct[n].ids \ ids[n] \subseteq moved[n]
  BY <1>1, <1>2, UpdatedIs
<1>5. Present(n) \ Present(n)' \subseteq moved[n]
  BY <1>1, <1>3, <1>4 DEF Present
<1> QED BY <1>1, <1>5 DEF OnlyMoved, Renumbered

\* An object is lost with the file, when the container is created anew, or alone, with its
\* last handle after it has moved, when $OBJID cannot be updated; whatever else is open and
\* whoever closes it (close_container, close_object, validate_obj_inode).
THEOREM NothingLostEver == Spec => NothingLost
<1> DEFINE Kept_(n) == \A i \in Present(n) \ Present(n)' :
                         \/ \E t \in Threads : thr[t].n = n /\ CreateContainer(t)
                         \/ Renumbered(n, i)
<1>1. ASSUME ObjectsInv, MovedOpen, Next, NEW n \in Names
      PROVE  Kept_(n)
  <2>1. ASSUME NEW t \in Threads, Step(t) PROVE Kept_(n)
    <3>1. CASE Lock(t)
      BY <1>1, <3>1, LockKeeps
    <3>2. CASE CreateContainer(t)
      BY <1>1, <3>2, CreateContainerKeeps
    <3>3. CASE OpenContainer(t)
      BY <1>1, <3>3, OpenContainerKeeps
    <3>4. CASE CloseContainer(t) \/ CloseObject(t)
      BY <1>1, <3>4, CloseContainerKeeps, CloseObjectKeeps DEF OnlyMoved
    <3>5. CASE GetContainer(t) \/ Walk(t) \/ Use(t)
      BY <3>5 DEF GetContainer, Walk, Use, Present
    <3>6. CASE CreateObject(t) \/ OpenObject(t) \/ GetObject(t) \/ Show(t)
      BY <1>1, <3>6, ObjectCallsKeep
    <3> QED BY <2>1, <3>1, <3>2, <3>3, <3>4, <3>5, <3>6 DEF Step
  <2>2. CASE \/ \E command \in Commands, m \in Names, i \in Ids : Execute(command, m, i)
             \/ \E m \in Names, i \in Ids : StartPerf(m, i)
             \/ \E w \in Workers : StartWorker(w) \/ EndWorker(w)
             \/ CountWorker \/ StartFails \/ WaitOver
    <3>1. UNCHANGED <<file, ct>>
      BY <2>2, Zenon DEF Execute, StartPerf, StartWorker, EndWorker, CountWorker, StartFails,
                         WaitOver
    <3> QED BY <3>1 DEF Present
  <2>3. CASE Exit
    BY <1>1, <2>3, ExitKeeps DEF OnlyMoved
  <2> QED BY <1>1, <2>1, <2>2, <2>3 DEF Next
<1>2. ObjectsInv /\ MovedOpen /\ [Next]_vars => [\A n \in Names : Kept_(n)]_vars
  BY <1>1
<1> QED BY <1>2, Invariance, MovedIsOpen, PTL DEF Spec, NothingLost
=============================================================================
