----------------------------- MODULE SharedPtr -----------------------------
(***************************************************************************)
(* SmartPtr/smartptr.cc: a counting pointer.  A handle is a variable of    *)
(* type SharedPtr; it points to an object and to a count, which lies on    *)
(* the heap on its own.  Every member that changes something is a function *)
(* from the heap before to the heap after, so that swap is composed of the *)
(* moves std::swap makes.                                                  *)
(***************************************************************************)
EXTENDS Integers, FiniteSets

CONSTANTS Handles,
          Temp,       \* the temporary of std::swap
          Null,
          MaxNew,     \* bound: counts, and objects, that are allocated
          MaxCount    \* bound: how far a count goes, up or below zero

PointerAssumption ==
  /\ IsFiniteSet(Handles) /\ Temp \notin Handles
  /\ Null \notin Nat /\ MaxNew \in Nat /\ MaxCount \in Nat

VARIABLE heap

Cells == 1..MaxNew
Names == Handles \cup {Temp}

(* A size_t that goes below zero wraps around and comes back the same way, *)
(* and is only ever compared with zero: here it is an integer.             *)
(*                                                                         *)
(* ptr, cnt: the members of each handle; live: the handles that exist;     *)
(* count: the value of each count; freed: what delete was called on, for   *)
(* counts and objects; bad: null or freed memory was used.  The object     *)
(* made together with a count has its number.                              *)
Init ==
  heap = [ptr |-> [h \in Names |-> Null], cnt |-> [h \in Names |-> Null],
          live |-> {}, count |-> [c \in Cells |-> 0], used |-> 0,
          freedCounts |-> {}, freedObjects |-> {}, bad |-> FALSE]

Usable(s, c) == c # Null /\ c \notin s.freedCounts

Bad(s) == [s EXCEPT !.bad = TRUE]

Add(s, c, n) ==
  IF Usable(s, c) THEN [s EXCEPT !.count[c] = @ + n] ELSE Bad(s)

Point(s, h, p, c) == [s EXCEPT !.ptr[h] = p, !.cnt[h] = c]

(* The two plain constructors: a fresh count, of nobody or of one. *)
Default(s, h) ==
  LET c == s.used + 1
  IN  [Point(s, h, Null, c) EXCEPT !.live = @ \cup {h}, !.used = c, !.count[c] = 0]

FromNew(s, h) ==
  LET c == s.used + 1
  IN  [Point(s, h, c, c) EXCEPT !.live = @ \cup {h}, !.used = c, !.count[c] = 1]

Copy(s, h, g) ==
  Add([Point(s, h, s.ptr[g], s.cnt[g]) EXCEPT !.live = @ \cup {h}], s.cnt[g], 1)

Move(s, h, g) ==
  Point([Point(s, h, s.ptr[g], s.cnt[g]) EXCEPT !.live = @ \cup {h}], g, Null, Null)

(* The destructor compares the pointer to the count, not the count, with   *)
(* zero: it never deletes anything.                                        *)
Destruct(s, h) ==
  LET t == [s EXCEPT !.live = @ \ {h}]
  IN  IF s.cnt[h] = Null THEN t ELSE Add(t, s.cnt[h], -1)

(* delete of the object and of the count, once nobody is counted. *)
Drop(s, h) ==
  IF s.bad \/ s.count[s.cnt[h]] # 0 THEN s
  ELSE [s EXCEPT !.freedCounts = @ \cup {s.cnt[h]},
                 !.freedObjects = @ \cup ({s.ptr[h]} \ {Null})]

CopyAssignUncounted(s, h, g) ==  \* fault: the new owner is not counted
  IF s.ptr[h] = s.ptr[g] \/ s.cnt[h] = Null THEN s
  ELSE Point(Drop(Add(s, s.cnt[h], -1), h), h, s.ptr[g], s.cnt[g])

CopyAssign(s, h, g) ==
  IF s.ptr[h] = s.ptr[g] \/ s.cnt[h] = Null THEN s
  ELSE LET t == Drop(Add(s, s.cnt[h], -1), h)
       IN  Add(Point(t, h, s.ptr[g], s.cnt[g]), s.cnt[g], 1)

MoveAssign(s, h, g) ==
  IF s.ptr[h] = s.ptr[g] THEN s
  ELSE Point(Point(s, h, s.ptr[g], s.cnt[g]), g, Null, Null)

Swap(s, h, g) ==
  Destruct(MoveAssign(MoveAssign(Move(s, Temp, h), h, g), g, Temp), Temp)

-----------------------------------------------------------------------------
Fresh == Handles \ heap.live

Becomes(s) ==
  /\ ~heap.bad
  /\ \A c \in Cells : s.count[c] \in -MaxCount..MaxCount
  /\ heap' = s

Create ==
  \E h \in Fresh :
    \/ heap.used < MaxNew /\ (Becomes(Default(heap, h)) \/ Becomes(FromNew(heap, h)))
    \/ \E g \in heap.live : Becomes(Copy(heap, h, g)) \/ Becomes(Move(heap, h, g))

Assign ==
  \E h, g \in heap.live : Becomes(CopyAssign(heap, h, g)) \/ Becomes(MoveAssign(heap, h, g))

Swaps == \E h, g \in heap.live : Becomes(Swap(heap, h, g))

Destroys == \E h \in heap.live : Becomes(Destruct(heap, h))

Next == Create \/ Assign \/ Swaps \/ Destroys

Spec == Init /\ [][Next]_heap

Owners(c) == {h \in heap.live : heap.cnt[h] = c}

(* Until memory is misused, nobody's object is deleted and the count of an *)
(* object is at least the number of its owners, in spite of moves that     *)
(* forget to give their count back and of the default constructor, which   *)
(* counts nobody.                                                          *)
OwnedObjectsLive ==
  ~heap.bad => \A h \in heap.live : heap.ptr[h] # Null =>
    /\ heap.ptr[h] \notin heap.freedObjects
    /\ heap.cnt[h] = heap.ptr[h]
    /\ heap.count[heap.cnt[h]] >= Cardinality(Owners(heap.cnt[h]))
=============================================================================
