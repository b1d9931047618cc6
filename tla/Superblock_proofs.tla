-------------------------- MODULE Superblock_proofs --------------------------
(***************************************************************************)
(* Proofs about Superblock, for any number of slots and any width of the   *)
(* sequence number that is a multiple of it.                               *)
(*                                                                         *)
(* As long as no update has been made after one that was lost, the slots   *)
(* hold the trail of the last Slots updates (Trail): each has the copy     *)
(* that its place demands, or none yet, and only the slot of the next      *)
(* update may have been spoiled.  From that get_last_correct_block finds   *)
(* the newest, on both sides of the wrap.                                  *)
(***************************************************************************)
EXTENDS Superblock, WellFoundedInduction, TLAPS

-----------------------------------------------------------------------------
(* The invariant.                                                          *)

\* The number of the update in slot 0 in the round of update n, and in the round before.
Base(n) == n - SlotOf(n)
BaseBefore(n) == IF Base(n) = 0 THEN SeqMod - Slots ELSE Base(n) - Slots

\* What slot i has when n is the last update: in the first round, perhaps, nothing yet.
Old(n, i) ==
  IF i <= SlotOf(n) THEN {Copy(Base(n) + i)}
  ELSE {Copy(BaseBefore(n) + i)} \cup (IF Base(n) = 0 THEN {Blank} ELSE {})

\* The slot of the update after n.
After(n) == SlotOf(Succ(n))

Trail(slots, n) ==
  \A i \in Place :
    \/ slots[i] \in Old(n, i)
    \/ i = After(n) /\ \E o \in Old(n, i) : slots[i] = Front(Succ(n), o)

\* Before the first update has reached the disk.
NothingYet ==
  /\ \A i \in Place : ~slot[i].whole
  /\ mode \in {"closed", "made"} /\ trouble # "gap"
  /\ mode = "made" => slot = [i \in Place |-> Blank] /\ pending = 0 /\ seq = 1 /\ trouble = "none"

\* The next update is the one after the newest.
InStep ==
  /\ pending # None => pending = Succ(newest) /\ seq = Succ(pending) /\ trouble = "none"
  /\ pending = None /\ mode # "closed" /\ trouble = "none" => seq = Succ(newest)

SuperblockInv ==
  /\ TypeOK
  /\ mode = "closed" => pending = None
  /\ newest = None => NothingYet
  /\ newest # None /\ trouble # "gap" => Trail(slot, newest) /\ InStep

-----------------------------------------------------------------------------
(* Slots and numbers.                                                      *)

\* The quotient and the remainder of a division.
LEMMA Division ==
  ASSUME NEW n \in Int, NEW s \in Nat \ {0}
  PROVE  /\ n \div s \in Int /\ n % s \in 0 .. (s - 1)
         /\ n - (n % s) = s * (n \div s)
<1>1. n % s \in 0 .. (s - 1) /\ n \div s \in Int
  OBVIOUS
<1>2. n - (n % s) = s * (n \div s)
  OBVIOUS
<1> QED BY <1>1, <1>2

\* The remainder of a number that is given with its quotient.
LEMMA Remainder ==
  ASSUME NEW s \in Nat \ {0}, NEW q \in Int, NEW r \in 0 .. (s - 1)
  PROVE  (s * q + r) % s = r
  OBVIOUS

\* Multiples of s that differ are at least s apart.
LEMMA Apart ==
  ASSUME NEW s \in Nat \ {0}, NEW q \in Int, NEW k \in Int, s * q < s * k
  PROVE  s * q + s <= s * k
  OBVIOUS

\* Where an update goes, and the update after it.
LEMMA Slotting ==
  ASSUME NEW n \in Seq16
  PROVE  /\ Slots \in Nat /\ Slots >= 2 /\ SeqMod \in Nat /\ SeqMod >= 2 * Slots
         /\ SlotOf(n) \in Place /\ n \in Nat /\ n < SeqMod
         /\ Base(n) \in Nat /\ n = Base(n) + SlotOf(n)
         /\ Base(n) = 0 \/ Base(n) >= Slots
         /\ Base(n) <= SeqMod - Slots
         /\ Succ(n) \in Seq16 /\ Succ(n) = IF n = SeqMod - 1 THEN 0 ELSE n + 1
         /\ After(n) = IF SlotOf(n) = Slots - 1 THEN 0 ELSE SlotOf(n) + 1
         /\ n = SeqMod - 1 => SlotOf(n) = Slots - 1
<1> DEFINE q == n \div Slots
           r == n % Slots
           k == SeqMod \div Slots
<1>1. /\ Slots \in Nat \ {0} /\ Slots >= 2 /\ SeqMod \in Nat /\ SeqMod > Slots
      /\ SeqMod % Slots = 0 /\ n \in Nat /\ n < SeqMod
  BY SuperblockAssumption DEF Seq16
<1>2. q \in Int /\ r \in 0 .. (Slots - 1) /\ n - r = Slots * q
  <2>1. n \in Int /\ Slots \in Nat \ {0}
    BY <1>1
  <2> QED BY <2>1, Division, Zenon
<1>3. k \in Int /\ SeqMod = Slots * k
  BY <1>1, Division
<1>4. SlotOf(n) = r /\ Base(n) = n - r
  BY DEF SlotOf, Base
<1> HIDE DEF q, r, k
<1>5. Slots * 0 = 0 /\ Slots * 1 = Slots /\ Slots * (-1) = -Slots
  BY <1>1
<1>6. n - r >= 0 /\ (n - r = 0 \/ n - r >= Slots)
  <2>1. n - r > -Slots
    BY <1>1, <1>2
  <2>2. ~(Slots * q < Slots * 0)
    BY <1>1, <1>2, <1>5, <2>1, Apart
  <2>3. Slots * 0 < Slots * q => Slots <= Slots * q
    BY <1>1, <1>2, <1>5, Apart
  <2>4. Slots * q \in Int
    BY <1>1, <1>2
  <2> QED BY <1>1, <1>2, <1>5, <2>2, <2>3, <2>4
<1>7. n - r <= SeqMod - Slots
  <2>1. Slots * q < Slots * k
    BY <1>1, <1>2, <1>3
  <2>2. Slots * q + Slots <= Slots * k
    BY <1>1, <1>2, <1>3, <2>1, Apart
  <2> QED BY <1>1, <1>2, <1>3, <2>2
<1>8. SeqMod >= 2 * Slots
  <2>1. Slots * 1 < Slots * k
    BY <1>1, <1>3, <1>5
  <2>2. Slots * 1 + Slots <= Slots * k
    BY <1>1, <1>3, <2>1, Apart
  <2> QED BY <1>1, <1>3, <1>5, <2>2
<1>9. Succ(n) \in Seq16 /\ Succ(n) = IF n = SeqMod - 1 THEN 0 ELSE n + 1
  <2>1. CASE n = SeqMod - 1
    <3>1. (SeqMod * 1 + 0) % SeqMod = 0
      BY <1>1, Remainder
    <3>2. n + 1 = SeqMod * 1 + 0
      BY <1>1, <2>1
    <3> QED BY <1>1, <2>1, <3>1, <3>2 DEF Succ, Seq16
  <2>2. CASE n # SeqMod - 1
    <3>1. n + 1 \in 0 .. (SeqMod - 1) /\ n + 1 = SeqMod * 0 + (n + 1)
      BY <1>1, <2>2
    <3>2. (SeqMod * 0 + (n + 1)) % SeqMod = n + 1
      BY <1>1, <3>1, Remainder
    <3> QED BY <1>1, <2>2, <3>1, <3>2 DEF Succ, Seq16
  <2> QED BY <2>1, <2>2
<1>10. n = SeqMod - 1 => r = Slots - 1
  <2> SUFFICES ASSUME n = SeqMod - 1 PROVE r = Slots - 1
    OBVIOUS
  <2> QED BY <1>1, <1>2, <1>7
<1>11. After(n) = IF r = Slots - 1 THEN 0 ELSE r + 1
  <2>1. CASE n = SeqMod - 1
    <3>1. (Slots * 0 + 0) % Slots = 0
      BY <1>1, Remainder
    <3> QED BY <1>1, <1>5, <1>9, <1>10, <2>1, <3>1 DEF After, SlotOf
  <2>2. CASE n # SeqMod - 1 /\ r = Slots - 1
    <3>1. n + 1 = Slots * (q + 1) + 0
      BY <1>1, <1>2, <2>2
    <3>2. (Slots * (q + 1) + 0) % Slots = 0
      BY <1>1, <1>2, Remainder
    <3> QED BY <1>9, <2>2, <3>1, <3>2 DEF After, SlotOf
  <2>3. CASE n # SeqMod - 1 /\ r # Slots - 1
    <3>1. n + 1 = Slots * q + (r + 1) /\ r + 1 \in 0 .. (Slots - 1)
      BY <1>1, <1>2, <2>3
    <3>2. (Slots * q + (r + 1)) % Slots = r + 1
      BY <1>1, <1>2, <3>1, Remainder
    <3> QED BY <1>9, <2>3, <3>1, <3>2 DEF After, SlotOf
  <2> QED BY <2>1, <2>2, <2>3
<1>12. n = Base(n) + SlotOf(n)
  BY <1>1, <1>2, <1>4
<1> QED BY <1>1, <1>2, <1>4, <1>6, <1>7, <1>8, <1>9, <1>10, <1>11, <1>12 DEF Place

\* Stepping back from the end of the run.
LEMMA SteppingBack ==
  ASSUME RunEnd \in Place
  PROVE  /\ Back(0) = RunEnd
         /\ Back(1) = IF RunEnd = 0 THEN Slots - 1 ELSE RunEnd - 1
<1>1. Slots \in Nat \ {0} /\ Slots >= 2
  BY SuperblockAssumption
<1>2. \A i \in 0 .. (Slots - 1) : (Slots * 0 + i) % Slots = i
  BY <1>1, Remainder
<1>3. \A i \in 0 .. (Slots - 1) : Slots * 0 + i = i
  BY <1>1
<1>4. CASE RunEnd = 0
  <2>1. (Slots * (-1) + (Slots - 1)) % Slots = Slots - 1
    BY <1>1, Remainder
  <2>2. Slots * (-1) + (Slots - 1) = RunEnd - 1
    BY <1>1, <1>4
  <2>3. RunEnd - 0 = RunEnd
    BY <1>4
  <2> QED BY <1>1, <1>2, <1>3, <1>4, <2>1, <2>2, <2>3 DEF Back, Place
<1>5. CASE RunEnd # 0
  <2>1. RunEnd - 0 = RunEnd /\ RunEnd - 1 \in 0 .. (Slots - 1)
    BY <1>1, <1>5 DEF Place
  <2> QED BY <1>1, <1>2, <1>3, <1>5, <2>1 DEF Back, Place
<1> QED BY <1>4, <1>5

-----------------------------------------------------------------------------
(* get_last_correct_block.                                                 *)

\* The induction that the proofs need: a set of numbers has a least one.
LEMMA Least ==
  ASSUME NEW T, T \subseteq Nat, T # {}
  PROVE  \E x \in T : \A y \in T : x <= y
<1> DEFINE R == OpToRel(<, Nat)
<1>1. IsWellFoundedOn(R, Nat)
  BY NatLessThanWellFounded, Zenon
<1>2. \A x, y \in Nat : x < y => <<x, y>> \in R
  BY DEF OpToRel
<1> HIDE DEF R
<1>3. PICK x \in T : \A y \in T : ~(<<y, x>> \in R)
  BY <1>1, WFMin
<1>4. \A y \in T : ~(y < x)
  BY <1>2, <1>3
<1>5. \A y \in T : x <= y
  BY <1>4
<1> QED BY <1>5

\* There is a place where the run ends, whatever is in the slots.
LEMMA RunEnds == RunEnd \in Place
<1> DEFINE Ends == {i \in Place : i = Slots - 1 \/ ~InRun(i + 1)}
<1>1. Slots \in Nat /\ Slots >= 2 /\ Place \subseteq Nat
  BY SuperblockAssumption DEF Place
<1>2. Slots - 1 \in Ends /\ Ends \subseteq Nat
  BY <1>1 DEF Place
<1>3. PICK i \in Ends : \A j \in Ends : i <= j
  BY <1>2, Least
<1>4. i = 0 \/ InRun(i)
  <2> SUFFICES ASSUME i # 0 PROVE InRun(i)
    OBVIOUS
  <2>1. i - 1 \in Place /\ i - 1 # Slots - 1 /\ ~(i <= i - 1) /\ (i - 1) + 1 = i
    BY <1>1, <1>3 DEF Place
  <2>2. i - 1 \notin Ends
    BY <1>3, <2>1
  <2> QED BY <2>1, <2>2
<1>5. \E x \in Place : (x = 0 \/ InRun(x)) /\ (x = Slots - 1 \/ ~InRun(x + 1))
  BY <1>3, <1>4
<1> QED BY <1>5 DEF RunEnd

\* The end of the run from slot 0 is the one place where the run stops.
LEMMA RunEndIs ==
  ASSUME NEW i \in Place, i = 0 \/ InRun(i), i = Slots - 1 \/ ~InRun(i + 1)
  PROVE  RunEnd = i
<1>1. Slots \in Nat
  BY SuperblockAssumption
<1>2. ASSUME NEW j \in Place, j = 0 \/ InRun(j), j = Slots - 1 \/ ~InRun(j + 1)
      PROVE  j = i
  <2>1. \A a, b \in Place : a < b /\ InRun(b) => InRun(a + 1)
    BY <1>1 DEF InRun, Place
  <2>2. ~(j < i)
    BY <1>1, <1>2, <2>1 DEF Place
  <2>3. ~(i < j)
    BY <1>1, <1>2, <2>1 DEF Place
  <2> QED BY <1>1, <2>2, <2>3 DEF Place
<1> QED BY <1>2 DEF RunEnd

\* The search back from the end of the run stops at the first sound copy.
LEMMA FoundIs ==
  ASSUME NEW k \in Place, Sound(Back(k)),
         \A j \in 0 .. (k - 1) : slot[Back(j)].head # None /\ ~Sound(Back(j))
  PROVE  Found = Back(k)
<1> DEFINE Taken(x) == Sound(Back(x)) /\ \A j \in 0 .. (x - 1) :
                          slot[Back(j)].head # None /\ ~Sound(Back(j))
<1>1. Slots \in Nat
  BY SuperblockAssumption
<1>2. Taken(k)
  OBVIOUS
<1>3. \A x \in Place : Taken(x) => x = k
  BY <1>1 DEF Place
<1>4. Found = IF \E x \in Place : Taken(x) THEN Back(CHOOSE x \in Place : Taken(x)) ELSE None
  BY DEF Found
<1> HIDE DEF Taken
<1> QED BY <1>2, <1>3, <1>4

\* A copy of update x carries x at its head and at its foot; a blank slot carries neither.
LEMMA CopyIs ==
  /\ \A x : Copy(x).head = x /\ Copy(x).foot = x
  /\ Blank.head = None /\ Blank.foot = 0
  BY DEF Copy, Blank

\* With the trail of n in the slots, get_last_correct_block finds the copy of update n:
\* where the run of consecutive numbers ends, or one before if the next was spoiled.
LEMMA FindsNewest ==
  ASSUME NEW n \in Seq16, Trail(slot, n)
  PROVE  Found = SlotOf(n) /\ slot[Found] = Copy(n)
<1> DEFINE p == SlotOf(n)
           b == Base(n)
           c == BaseBefore(n)
           next == Succ(n)
<1>1. /\ Slots \in Nat /\ Slots >= 2 /\ SeqMod \in Nat /\ SeqMod >= 2 * Slots
      /\ p \in 0 .. (Slots - 1) /\ n = b + p /\ n < SeqMod /\ b \in Nat
      /\ next = IF n = SeqMod - 1 THEN 0 ELSE n + 1
      /\ After(n) = IF p = Slots - 1 THEN 0 ELSE p + 1
      /\ n = SeqMod - 1 => p = Slots - 1
      /\ n \in Nat /\ next \in Nat /\ Place = 0 .. (Slots - 1)
  BY Slotting DEF Place, Seq16
<1>2. c \in Nat /\ (c = b - Slots \/ (b = 0 /\ c = SeqMod - Slots)) /\ c # b
  BY <1>1, Slotting DEF BaseBefore
<1>3. None \notin Int
  BY SuperblockAssumption
<1>4. \A i \in Place : i # After(n) /\ i <= p => slot[i] = Copy(b + i)
  BY DEF Trail, Old
<1>5. \A i \in Place : i # After(n) /\ i > p => slot[i] = Copy(c + i) \/ slot[i] = Blank
  <2> SUFFICES ASSUME NEW i \in Place, i # After(n), i > p
               PROVE  slot[i] = Copy(c + i) \/ slot[i] = Blank
    OBVIOUS
  <2>1. slot[i] \in Old(n, i)
    BY DEF Trail
  <2>2. ~(i <= p)
    BY <1>1
  <2> QED BY <2>1, <2>2 DEF Old
<1> HIDE DEF p, b, c, next
<1>6. p # After(n) /\ slot[p] = Copy(n)
  BY <1>1, <1>4
<1>7. Sound(p)
  BY <1>1, <1>3, <1>6 DEF Sound, Copy
<1>8. CASE \E o \in Old(n, After(n)) : slot[After(n)] = Front(next, o)
  <2> DEFINE a == After(n)
  <2>1. PICK o \in Old(n, a) : slot[a] = Front(next, o)
    BY <1>8
  <2>2. slot[a].head = next /\ slot[a].foot = o.foot
    BY <2>1 DEF Front
  <2>3. a \in Place /\ a # p
    BY <1>1
  <2>4. o.foot # next
    <3>1. CASE p = Slots - 1
      <4>1. a = 0 /\ o = Copy(b + 0)
        BY <1>1, <2>1, <3>1 DEF Old, b, p
      <4>2. o.foot = b /\ b # next
        BY <1>1, <3>1, <4>1 DEF Copy
      <4> QED BY <4>2
    <3>2. CASE p # Slots - 1
      <4>1. a = p + 1 /\ next = b + p + 1
        BY <1>1, <3>2
      <4>2. o = Copy(c + a) \/ o = Blank
        BY <1>1, <2>1, <4>1 DEF Old, b, p, c
      <4>3. o.foot = c + a \/ o.foot = 0
        BY <4>2 DEF Copy, Blank
      <4> QED BY <1>1, <1>2, <4>1, <4>3
    <3> QED BY <3>1, <3>2
  <2>5. slot[a].head # None /\ ~Sound(a)
    BY <1>1, <1>3, <2>2, <2>4 DEF Sound
  <2> HIDE DEF a
  <2>6. RunEnd = a
    <3>1. CASE p = Slots - 1
      <4>1. a = 0 /\ 1 \in Place /\ slot[1] = Copy(b + 1)
        BY <1>1, <1>4, <3>1 DEF a
      <4>2. slot[1].head = b + 1 /\ b + 1 # next + 1
        BY <1>1, <3>1, <4>1 DEF Copy
      <4>3. ~InRun(1)
        BY <2>2, <4>1, <4>2 DEF InRun
      <4> QED BY <1>1, <3>1, <4>1, <4>3, RunEndIs
    <3>2. CASE p # Slots - 1
      <4>1. a = p + 1 /\ next = b + p + 1
        BY <1>1, <3>2 DEF a
      <4>2. \A j \in 0 .. a : slot[j].head = b + j
        <5> SUFFICES ASSUME NEW j \in 0 .. a PROVE slot[j].head = b + j
          OBVIOUS
        <5>1. CASE j = a
          <6>1. next = b + a
            BY <1>1, <4>1
          <6> QED BY <2>2, <5>1, <6>1
        <5>2. CASE j # a
          <6>1. j \in Place /\ j # After(n) /\ j <= p
            BY <1>1, <4>1, <5>2 DEF a
          <6> QED BY <1>4, <6>1, CopyIs
        <5> QED BY <5>1, <5>2
      <4>3. InRun(a)
        BY <1>1, <1>3, <4>1, <4>2 DEF InRun
      <4>4. a # Slots - 1 => ~InRun(a + 1)
        <5> SUFFICES ASSUME a # Slots - 1, InRun(a + 1) PROVE FALSE
          OBVIOUS
        <5>1. a + 1 \in Place /\ a + 1 > p /\ a + 1 # After(n)
          BY <1>1, <2>3, <4>1 DEF a
        <5>2. slot[a + 1].head = c + (a + 1) \/ slot[a + 1].head = None
          BY <1>5, <5>1, CopyIs
        <5>3. slot[a + 1].head = slot[a].head + 1 /\ slot[a + 1].head # None
          BY <1>1, <4>1 DEF InRun
        <5> QED BY <1>1, <1>2, <2>2, <4>1, <5>2, <5>3
      <4> QED BY <2>3, <4>3, <4>4, RunEndIs
    <3> QED BY <3>1, <3>2
  <2>7. Back(0) = a /\ Back(1) = p /\ 1 \in Place
    BY <1>1, <2>3, <2>6, SteppingBack DEF a
  <2>8. \A j \in 0 .. (1 - 1) : slot[Back(j)].head # None /\ ~Sound(Back(j))
    BY <2>5, <2>7
  <2>9. Found = p
    BY <1>7, <2>7, <2>8, FoundIs
  <2> QED BY <1>6, <2>9 DEF p
<1>9. CASE slot[After(n)] \in Old(n, After(n))
  <2>1. \A i \in Place : i <= p => slot[i] = Copy(b + i)
    BY <1>1, <1>4, <1>9 DEF Old, p, b
  <2>2. \A i \in Place : i > p => slot[i] = Copy(c + i) \/ slot[i] = Blank
    BY <1>1, <1>5, <1>9 DEF Old, p, c
  <2>3. \A j \in 0 .. p : slot[j].head = b + j
    <3> SUFFICES ASSUME NEW j \in 0 .. p PROVE slot[j].head = b + j
      OBVIOUS
    <3>1. j \in Place /\ j <= p
      BY <1>1
    <3> QED BY <2>1, <3>1, CopyIs
  <2>4. InRun(p)
    BY <1>1, <1>3, <2>3 DEF InRun
  <2>5. p # Slots - 1 => ~InRun(p + 1)
    <3> SUFFICES ASSUME p # Slots - 1, InRun(p + 1) PROVE FALSE
      OBVIOUS
    <3>1. p + 1 \in Place /\ p + 1 > p
      BY <1>1
    <3>2. slot[p + 1].head = c + (p + 1) \/ slot[p + 1].head = None
      BY <2>2, <3>1, CopyIs
    <3>3. slot[p + 1].head = slot[p].head + 1 /\ slot[p + 1].head # None
      BY <1>1 DEF InRun
    <3>4. slot[p].head = b + p
      BY <1>1, <2>3
    <3> QED BY <1>1, <1>2, <3>2, <3>3, <3>4
  <2>6. RunEnd = p
    BY <1>1, <2>4, <2>5, RunEndIs
  <2>7. Back(0) = p /\ 0 \in Place
    BY <1>1, <2>6, SteppingBack
  <2>8. Found = p
    BY <1>7, <2>7, FoundIs
  <2> QED BY <1>6, <2>8 DEF p
<1>10. After(n) \in Place
  BY <1>1
<1> QED BY <1>8, <1>9, <1>10 DEF Trail, next

-----------------------------------------------------------------------------
(* Writes.                                                                 *)

SlotsOK == slot \in [Place -> [head : Seq16 \cup {None}, foot : Seq16, whole : BOOLEAN]]

\* The update after n has reached the disk.
LEMMA TrailGoesOn ==
  ASSUME NEW n \in Seq16, Trail(slot, n), SlotsOK,
         slot' = [slot EXCEPT ![After(n)] = Copy(Succ(n))]
  PROVE  Trail(slot', Succ(n))
<1> DEFINE m == Succ(n)
           p == SlotOf(n)
           b == Base(n)
<1>1. /\ Slots \in Nat /\ Slots >= 2 /\ SeqMod \in Nat /\ SeqMod >= 2 * Slots
      /\ p \in 0 .. (Slots - 1) /\ n = b + p /\ n < SeqMod /\ b \in Nat
      /\ b = 0 \/ b >= Slots
      /\ m = IF n = SeqMod - 1 THEN 0 ELSE n + 1
      /\ After(n) = IF p = Slots - 1 THEN 0 ELSE p + 1
      /\ n = SeqMod - 1 => p = Slots - 1
      /\ m \in Seq16 /\ m \in Nat /\ n \in Nat /\ Place = 0 .. (Slots - 1)
  BY Slotting DEF Place, Seq16
<1>2. SlotOf(m) = After(n) /\ After(n) \in Place
  BY <1>1 DEF After
<1>3. Base(m) = m - After(n)
  BY <1>2 DEF Base
<1>4. \A i \in Place : i # After(n) => slot'[i] = slot[i] /\ slot[i] \in Old(n, i)
  BY <1>2 DEF Trail, SlotsOK
<1>5. slot'[After(n)] = Copy(m)
  BY <1>2 DEF SlotsOK
<1> HIDE DEF m, p, b
<1>6. ASSUME NEW i \in Place PROVE slot'[i] \in Old(m, i)
  <2>1. CASE i = After(n)
    <3>1. i <= SlotOf(m) /\ Base(m) + i = m
      <4>1. m \in Nat /\ After(n) \in Nat
        BY <1>1
      <4> QED BY <1>2, <1>3, <2>1, <4>1
    <3> QED BY <1>5, <2>1, <3>1 DEF Old
  <2>2. CASE i # After(n) /\ p # Slots - 1
    <3>1. After(n) = p + 1 /\ m = n + 1 /\ Base(m) = b
      BY <1>1, <1>3, <2>2
    <3>2. BaseBefore(m) = BaseBefore(n)
      BY <3>1 DEF BaseBefore, b
    <3>3. i <= SlotOf(m) <=> i <= p
      BY <1>1, <1>2, <2>2, <3>1
    <3>4. Old(m, i) = Old(n, i)
      BY <3>1, <3>2, <3>3 DEF Old, p, b
    <3> QED BY <1>4, <2>2, <3>4
  <2>3. CASE i # After(n) /\ p = Slots - 1
    <3>1. After(n) = 0 /\ Base(m) = m /\ i <= p /\ ~(i <= SlotOf(m))
      BY <1>1, <1>2, <1>3, <2>3
    <3>2. slot'[i] = Copy(b + i)
      BY <1>4, <2>3, <3>1 DEF Old, p, b
    <3>3. BaseBefore(m) = b
      <4>1. CASE n = SeqMod - 1
        BY <1>1, <2>3, <3>1, <4>1 DEF BaseBefore
      <4>2. CASE n # SeqMod - 1
        BY <1>1, <2>3, <3>1, <4>2 DEF BaseBefore
      <4> QED BY <4>1, <4>2
    <3> QED BY <3>1, <3>2, <3>3 DEF Old
  <2> QED BY <2>1, <2>2, <2>3
<1> QED BY <1>6 DEF Trail, m

\* The update after n is lost, or cut short: the slot for it is spoiled once more.
LEMMA TrailSpoiled ==
  ASSUME NEW n \in Seq16, Trail(slot, n), SlotsOK,
         \/ slot' = slot
         \/ slot' = [slot EXCEPT ![After(n)] = Front(Succ(n), @)]
  PROVE  Trail(slot', n)
<1>1. CASE slot' = slot
  BY <1>1
<1>2. CASE slot' = [slot EXCEPT ![After(n)] = Front(Succ(n), @)]
  <2> DEFINE a == After(n)
  <2>1. a \in Place
    BY Slotting DEF Place
  <2>2. slot'[a] = Front(Succ(n), slot[a]) /\ \A i \in Place : i # a => slot'[i] = slot[i]
    BY <1>2, <2>1 DEF SlotsOK
  <2>3. PICK o \in Old(n, a) : slot[a] = o \/ slot[a] = Front(Succ(n), o)
    BY <2>1 DEF Trail
  <2>4. slot[a].foot = o.foot
    BY <2>3 DEF Front
  <2>5. slot'[a] = Front(Succ(n), o)
    BY <2>2, <2>4 DEF Front
  <2>6. \A i \in Place : \/ slot'[i] \in Old(n, i)
                         \/ i = a /\ \E x \in Old(n, i) : slot'[i] = Front(Succ(n), x)
    BY <2>2, <2>3, <2>5 DEF Trail
  <2> QED BY <2>6 DEF Trail
<1> QED BY <1>1, <1>2

\* The first update of a new container.
LEMMA TrailStarts ==
  ASSUME slot = [i \in Place |-> Blank], slot' = [slot EXCEPT ![SlotOf(0)] = Copy(0)]
  PROVE  Trail(slot', 0) /\ Succ(0) = 1 /\ SlotOf(0) = 0
<1>1. Slots \in Nat /\ Slots >= 2 /\ SeqMod \in Nat /\ SeqMod > Slots /\ 0 \in Seq16
  BY SuperblockAssumption DEF Seq16
<1>2. SlotOf(0) \in Nat /\ Base(0) \in Nat /\ 0 = Base(0) + SlotOf(0) /\ Succ(0) = 1
  BY <1>1, Slotting DEF Place
<1>3. SlotOf(0) = 0 /\ Base(0) = 0
  BY <1>2
<1>4. slot'[0] = Copy(0) /\ \A i \in Place : i # 0 => slot'[i] = Blank
  BY <1>1, <1>3 DEF Place
<1>5. \A i \in Place : slot'[i] \in Old(0, i)
  <2> SUFFICES ASSUME NEW i \in Place PROVE slot'[i] \in Old(0, i)
    OBVIOUS
  <2>1. CASE i = 0
    BY <1>3, <1>4, <2>1 DEF Old
  <2>2. CASE i # 0
    <3>1. ~(i <= 0)
      BY <1>1, <2>2 DEF Place
    <3> QED BY <1>3, <1>4, <2>2, <3>1 DEF Old
  <2> QED BY <2>1, <2>2
<1> QED BY <1>2, <1>3, <1>5 DEF Trail

\* The pending update is the one after the newest, or the first.
LEMMA Reaches ==
  ASSUME SuperblockInv, pending # None, Landed
  PROVE  /\ SlotsOK' /\ newest' = pending /\ newest' \in Seq16
         /\ trouble # "gap" =>
              Trail(slot', newest') /\ seq = Succ(newest') /\ trouble = "none"
<1>1. /\ SlotsOK /\ pending \in Seq16 /\ newest' = pending
      /\ slot' = [slot EXCEPT ![SlotOf(pending)] = Copy(pending)]
  BY DEF SuperblockInv, TypeOK, SlotsOK, Landed
<1>2. Copy(pending) \in [head : Seq16 \cup {None}, foot : Seq16, whole : BOOLEAN]
  BY <1>1 DEF Copy
<1>3. SlotsOK'
  BY <1>1, <1>2 DEF SlotsOK
<1>4. CASE newest = None
  <2>1. slot = [i \in Place |-> Blank] /\ pending = 0 /\ seq = 1 /\ trouble = "none"
    BY <1>4 DEF SuperblockInv, NothingYet
  <2>2. Trail(slot', 0) /\ Succ(0) = 1
    BY <1>1, <2>1, TrailStarts
  <2> QED BY <1>1, <1>3, <2>1, <2>2
<1>5. CASE newest # None /\ trouble # "gap"
  <2>1. /\ newest \in Seq16 /\ Trail(slot, newest) /\ pending = Succ(newest)
        /\ seq = Succ(pending) /\ trouble = "none"
    BY <1>5 DEF SuperblockInv, InStep, TypeOK
  <2>2. slot' = [slot EXCEPT ![After(newest)] = Copy(Succ(newest))]
    BY <1>1, <2>1 DEF After
  <2> QED BY <1>1, <1>3, <2>1, <2>2, TrailGoesOn
<1> QED BY <1>1, <1>3, <1>4, <1>5

\* A write that is lost or torn spoils only its own slot, which is not the newest copy's.
LEMMA Spoils ==
  ASSUME SuperblockInv, pending # None, Spoiled
  PROVE  /\ SlotsOK' /\ newest' = newest
         /\ newest = None => \A i \in Place : ~slot'[i].whole
         /\ newest # None /\ trouble # "gap" => Trail(slot', newest)
<1> DEFINE s == SlotOf(pending)
<1>1. SlotsOK /\ pending \in Seq16 /\ newest' = newest /\ s \in Place
  BY Slotting DEF SuperblockInv, TypeOK, SlotsOK, Spoiled
<1>2. slot' = slot \/ slot' = [slot EXCEPT ![s] = Front(pending, @)]
  BY DEF Spoiled
<1> HIDE DEF s
<1>3. /\ Front(pending, slot[s]) \in [head : Seq16 \cup {None}, foot : Seq16, whole : BOOLEAN]
      /\ ~Front(pending, slot[s]).whole
  BY <1>1 DEF Front, SlotsOK
<1>4. SlotsOK'
  BY <1>1, <1>2, <1>3 DEF SlotsOK
<1>5. newest = None => \A i \in Place : ~slot'[i].whole
  BY <1>1, <1>2, <1>3 DEF SlotsOK, SuperblockInv, NothingYet
<1>6. newest # None /\ trouble # "gap" => Trail(slot', newest)
  <2> SUFFICES ASSUME newest # None, trouble # "gap" PROVE Trail(slot', newest)
    OBVIOUS
  <2>1. newest \in Seq16 /\ Trail(slot, newest) /\ pending = Succ(newest)
    BY DEF SuperblockInv, InStep, TypeOK
  <2>2. slot' = slot \/ slot' = [slot EXCEPT ![After(newest)] = Front(Succ(newest), @)]
    BY <1>2, <2>1 DEF After, s
  <2> QED BY <1>1, <2>1, <2>2, TrailSpoiled
<1> QED BY <1>1, <1>4, <1>5, <1>6

-----------------------------------------------------------------------------
(* The invariant holds.                                                    *)

\* Numbers of sixteen bits.
LEMMA Numbers ==
  /\ Slots \in Nat /\ Slots >= 2 /\ 0 \in Seq16 /\ 1 \in Seq16 /\ None \notin Seq16
  /\ \A n \in Seq16 : Succ(n) \in Seq16 /\ SlotOf(n) \in Place
  BY SuperblockAssumption, Slotting DEF Seq16

\* The invariant holds on a device nothing was written to.
LEMMA InitInv ==
  ASSUME Init
  PROVE  SuperblockInv
<1>1. Blank \in [head : Seq16 \cup {None}, foot : Seq16, whole : BOOLEAN] /\ ~Blank.whole
  BY Numbers DEF Blank
<1> QED BY <1>1, Numbers DEF Init, SuperblockInv, TypeOK, NothingYet

\* An update is handed to the disk layer in a container that is open, or being made.
LEMMA WriteInv ==
  ASSUME SuperblockInv, Write(seq), mode # "closed", mode' \in {"open", "closing"},
         UNCHANGED <<slot, newest>>
  PROVE  SuperblockInv'
<1>1. pending = None /\ pending' = seq /\ seq' = Succ(seq)
  BY DEF Write
<1>2. trouble' = IF trouble = "none" THEN "none" ELSE "gap"
  BY DEF Write
<1>3. newest # None
  BY <1>1, Numbers DEF SuperblockInv, NothingYet
<1>4. TypeOK'
  BY <1>1, <1>2, Numbers DEF SuperblockInv, TypeOK
<1>5. trouble' # "gap" => Trail(slot, newest) /\ seq = Succ(newest) /\ trouble = "none"
  BY <1>1, <1>2, <1>3 DEF SuperblockInv, InStep
<1>6. trouble' # "gap" => Trail(slot', newest') /\ InStep'
  BY <1>1, <1>2, <1>5, Numbers DEF InStep, SuperblockInv, TypeOK
<1> QED BY <1>3, <1>4, <1>6 DEF SuperblockInv

\* What an open finds, and that nothing is found before the first update.
LEMMA OpenFinds ==
  ASSUME SuperblockInv, Found # None, slot[Found].whole
  PROVE  /\ newest # None /\ slot[Found].head \in Seq16
         /\ trouble # "gap" => slot[Found].head = newest
<1>1. Found \in Place /\ slot[Found].head # None
  <2>1. PICK k \in Place : Found = Back(k) /\ Sound(Back(k))
    BY DEF Found
  <2>2. Back(k) \in Place
    <3>1. RunEnd - k \in Int /\ Slots \in Nat \ {0}
      BY Numbers, RunEnds DEF Place
    <3>2. (RunEnd - k) % Slots \in 0 .. (Slots - 1)
      BY <3>1, Division
    <3> QED BY <3>2 DEF Back, Place
  <2> QED BY <2>1, <2>2 DEF Sound
<1>2. slot[Found].head \in Seq16 /\ newest # None
  BY <1>1 DEF SuperblockInv, TypeOK, NothingYet
<1>3. trouble # "gap" => slot[Found] = Copy(newest)
  BY <1>2, FindsNewest DEF SuperblockInv, TypeOK
<1> QED BY <1>2, <1>3, CopyIs

\* Making a new system keeps the invariant: every slot is blank.
LEMMA CreateInv ==
  ASSUME SuperblockInv, Create
  PROVE  SuperblockInv'
<1>1. Blank \in [head : Seq16 \cup {None}, foot : Seq16, whole : BOOLEAN] /\ ~Blank.whole
  BY Numbers DEF Blank
<1> QED BY <1>1, Numbers DEF Create, SuperblockInv, TypeOK, NothingYet

\* Opening the system keeps the invariant: the next update follows the newest copy.
LEMMA OpenInv ==
  ASSUME SuperblockInv, Open
  PROVE  SuperblockInv'
<1>1. /\ mode = "closed" /\ pending = None /\ mode' = "open" /\ UNCHANGED <<slot, pending, newest>>
      /\ seq' = Succ(slot[Found].head) /\ trouble' = IF trouble = "lost" THEN "none" ELSE trouble
  BY DEF Open, SuperblockInv
<1>2. /\ newest # None /\ slot[Found].head \in Seq16
      /\ trouble # "gap" => slot[Found].head = newest
  BY OpenFinds DEF Open
<1>3. TypeOK'
  BY <1>1, <1>2, Numbers DEF SuperblockInv, TypeOK
<1>4. trouble' # "gap" => Trail(slot', newest') /\ InStep'
  BY <1>1, <1>2 DEF SuperblockInv, InStep
<1> QED BY <1>1, <1>2, <1>3, <1>4 DEF SuperblockInv

\* A write that lands keeps the invariant: its copy is the newest and extends the trail.
LEMMA LandInv ==
  ASSUME SuperblockInv, Land
  PROVE  SuperblockInv'
<1>1. pending # None /\ Landed /\ pending' = None /\ UNCHANGED <<seq, mode, trouble>>
  BY DEF Land
<1>2. /\ SlotsOK' /\ newest' \in Seq16
      /\ trouble # "gap" => Trail(slot', newest') /\ seq = Succ(newest')
  BY <1>1, Reaches
<1>3. TypeOK'
  BY <1>1, <1>2 DEF SuperblockInv, TypeOK, SlotsOK
<1> QED BY <1>1, <1>2, <1>3, Numbers DEF SuperblockInv, InStep

\* A write that fails keeps the invariant.
LEMMA LoseInv ==
  ASSUME SuperblockInv, Lose
  PROVE  SuperblockInv'
<1>1. /\ pending # None /\ Spoiled /\ pending' = None /\ seq' = seq
      /\ mode' = IF newest = None THEN "closed" ELSE mode
      /\ trouble' = IF trouble = "none" THEN "lost" ELSE trouble
  BY DEF Lose
<1>2. /\ SlotsOK' /\ newest' = newest
      /\ newest = None => \A i \in Place : ~slot'[i].whole
      /\ newest # None /\ trouble # "gap" => Trail(slot', newest)
  BY <1>1, Spoils
<1>3. TypeOK'
  BY <1>1, <1>2 DEF SuperblockInv, TypeOK, SlotsOK
<1>4. newest' = None => NothingYet'
  BY <1>1, <1>2 DEF SuperblockInv, NothingYet
<1>5. newest' # None /\ trouble' # "gap" => Trail(slot', newest') /\ InStep'
  BY <1>1, <1>2 DEF SuperblockInv, InStep
<1>6. mode' = "closed" => pending' = None
  BY <1>1
<1> QED BY <1>3, <1>4, <1>5, <1>6 DEF SuperblockInv

\* A crash keeps the invariant, whether or not the write under way lands.
LEMMA CrashInv ==
  ASSUME SuperblockInv, Crash
  PROVE  SuperblockInv'
<1>1. /\ pending' = None /\ mode' = "closed" /\ UNCHANGED <<seq, trouble>>
      /\ IF pending = None THEN UNCHANGED <<slot, newest>> ELSE Landed \/ Spoiled
  BY DEF Crash
<1>2. CASE pending = None
  BY <1>1, <1>2 DEF SuperblockInv, TypeOK, NothingYet, InStep
<1>3. CASE pending # None /\ Landed
  <2>1. SlotsOK' /\ newest' \in Seq16 /\ (trouble # "gap" => Trail(slot', newest'))
    BY <1>3, Reaches
  <2>2. TypeOK'
    BY <1>1, <2>1 DEF SuperblockInv, TypeOK, SlotsOK
  <2> QED BY <1>1, <2>1, <2>2, Numbers DEF SuperblockInv, InStep
<1>4. CASE pending # None /\ Spoiled
  <2>1. /\ SlotsOK' /\ newest' = newest
        /\ newest = None => \A i \in Place : ~slot'[i].whole
        /\ newest # None /\ trouble # "gap" => Trail(slot', newest)
    BY <1>4, Spoils
  <2>2. TypeOK'
    BY <1>1, <2>1 DEF SuperblockInv, TypeOK, SlotsOK
  <2> QED BY <1>1, <2>1, <2>2 DEF SuperblockInv, NothingYet, InStep
<1> QED BY <1>1, <1>2, <1>3, <1>4

\* Every step keeps the invariant.
LEMMA NextInv ==
  ASSUME SuperblockInv, [Next]_vars
  PROVE  SuperblockInv'
<1>1. CASE Create
  BY <1>1, CreateInv
<1>2. CASE Created \/ CloseDirty
  BY <1>2, WriteInv DEF Created, CloseDirty
<1>3. CASE Close
  BY <1>3 DEF Close, SuperblockInv, TypeOK, NothingYet, InStep
<1>4. CASE Open
  BY <1>4, OpenInv
<1>5. CASE Land
  BY <1>5, LandInv
<1>6. CASE Lose
  BY <1>6, LoseInv
<1>7. CASE Crash
  BY <1>7, CrashInv
<1>8. CASE UNCHANGED vars
  BY <1>8 DEF vars, SuperblockInv, TypeOK, NothingYet, InStep
<1> QED BY <1>1, <1>2, <1>3, <1>4, <1>5, <1>6, <1>7, <1>8 DEF Next

\* In every state the slots hold the trail of the last updates, of which only the next may
\* be spoiled, unless an update has followed one that was lost (ofs_update_block_pingpong).
THEOREM Invariance == Spec => []SuperblockInv
<1>1. Init => SuperblockInv
  BY InitInv
<1>2. SuperblockInv /\ [Next]_vars => SuperblockInv'
  BY NextInv
<1> QED BY <1>1, <1>2, PTL DEF Spec

\* The numbers keep to 16 bits, in memory and in every copy (fixup_block).
THEOREM TypeOKAlways == Spec => []TypeOK
<1>1. SuperblockInv => TypeOK
  BY DEF SuperblockInv
<1> QED BY <1>1, Invariance, PTL

\* What the search finds is the newest copy, unless the numbers have a gap.
LEMMA WhatIs ==
  ASSUME SuperblockInv, newest # None, trouble # "gap"
  PROVE  Found # None /\ slot[Found] = Copy(newest) /\ What = newest
<1>1. newest \in Seq16 /\ Trail(slot, newest)
  BY DEF SuperblockInv, TypeOK
<1>2. Found = SlotOf(newest) /\ slot[Found] = Copy(newest)
  BY <1>1, FindsNewest
<1>3. Found # None
  BY <1>1, <1>2, Numbers, SuperblockAssumption DEF Place
<1> QED BY <1>2, <1>3, CopyIs DEF What

\* Whatever write the process died in, on both sides of the wrap of the number, an open
\* takes the copy that reached the disk last, and it is complete (get_last_correct_block).
THEOREM ReadsNewestAlways == Spec => []ReadsNewest
<1>1. SuperblockInv => ReadsNewest
  BY WhatIs DEF ReadsNewest
<1> QED BY <1>1, Invariance, PTL

\* The same of the next state.
LEMMA WhatIsNext == (SuperblockInv /\ newest # None /\ trouble # "gap" => What = newest)'
<1>1. SuperblockInv /\ newest # None /\ trouble # "gap" => What = newest
  BY WhatIs
<1> QED BY <1>1, PTL

\* What the search finds depends on the slots alone.
LEMMA SameSlots ==
  ASSUME slot' = slot
  PROVE  What' = What
<1> DEFINE Run(s, i) == /\ \A j \in 0 .. i : s[j].head # None
                        /\ \A j \in 1 .. i : s[j].head = s[j - 1].head + 1
           End(s) == CHOOSE i \in Place : /\ i = 0 \/ Run(s, i)
                                          /\ i = Slots - 1 \/ ~Run(s, i + 1)
           Prior(s, k) == (End(s) - k) % Slots
           Good(s, i) == s[i].head # None /\ s[i].foot = s[i].head
           Taken(s, k) == Good(s, Prior(s, k)) /\ \A j \in 0 .. (k - 1) :
                            s[Prior(s, j)].head # None /\ ~Good(s, Prior(s, j))
           Hit(s) == IF \E k \in Place : Taken(s, k)
                     THEN Prior(s, CHOOSE k \in Place : Taken(s, k)) ELSE None
           Seen(s) == IF Hit(s) = None THEN None ELSE s[Hit(s)].head
<1>1. What = Seen(slot)
  BY DEF What, Found, Back, Sound, RunEnd, InRun
<1>2. What' = Seen(slot')
  BY DEF What, Found, Back, Sound, RunEnd, InRun
<1> HIDE DEF Seen
<1> QED BY <1>1, <1>2

\* Until the container is created anew, what an open would take becomes the update that is
\* being written or stays: no crash, lost write or open sets the container back
\* (ofs_update_block_pingpong, ofs_read_block_pingpong).
THEOREM NeverSetBackEver == Spec => NeverSetBack
<1>1. ASSUME SuperblockInv, SuperblockInv', Next,
             newest # None, newest' # None, trouble # "gap", ~Create
      PROVE  What' \in {What, pending}
  <2>1. What = newest
    BY <1>1, WhatIs
  <2>2. CASE trouble' # "gap"
    <3>1. newest' \in {newest, pending}
      BY <1>1 DEF Next, Created, CloseDirty, Close, Open, Land, Lose, Crash, Landed, Spoiled
    <3> QED BY <1>1, <2>1, <2>2, <3>1, WhatIsNext
  <2>3. CASE trouble' = "gap"
    <3>1. slot' = slot
      BY <1>1, <2>3
         DEF Next, Created, CloseDirty, Close, Open, Land, Lose, Crash, SuperblockInv, TypeOK
    <3> QED BY <3>1, SameSlots
  <2> QED BY <2>2, <2>3
<1>2. SuperblockInv /\ SuperblockInv' /\ [Next]_vars =>
        [newest # None /\ newest' # None /\ trouble # "gap" /\ ~Create
           => What' \in {What, pending}]_vars
  BY <1>1
<1> QED BY <1>2, Invariance, PTL DEF Spec, NeverSetBack
=============================================================================
