------------------------------ MODULE BlockPtr ------------------------------
(***************************************************************************)
(* Smart_Point/shared_ptr.h and cblock.h: a shared pointer whose counts    *)
(* lie in a control block.  (The conversion from weak_ptr is left out: the *)
(* header that it needs does not compile.)  Members are functions from the *)
(* heap before to the heap after.  A block and the object that is handed   *)
(* over together with it have the same number.                             *)
(***************************************************************************)
EXTENDS Integers, FiniteSets

CONSTANTS Handles,
          Temp,    \* tmp in operator=
          Null,
          MaxNew   \* bound: control blocks

BlockAssumption ==
  /\ IsFiniteSet(Handles) /\ Temp \notin Handles
  /\ Null \notin Nat \cup {"object"} /\ MaxNew \in Nat

VARIABLE blocks

Cells == 1..MaxNew
Names == Handles \cup {Temp}

(* data, block: the members of each handle; live: the handles there are;   *)
(* made: the objects there have been; shared_count: of each block, where   *)
(* weak_count stays 1, so that no block is freed; deletes: how often each  *)
(* object was deleted.                                                     *)
Init ==
  blocks = [data |-> [h \in Names |-> Null], block |-> [h \in Names |-> Null],
            live |-> {}, used |-> 0, made |-> {},
            shared_count |-> [c \in Cells |-> 0], deletes |-> [c \in Cells |-> 0]]

Point(s, h, d, b) == [s EXCEPT !.data[h] = d, !.block[h] = b]

Dec(s, h) ==
  LET b == s.block[h]
      d == s.data[h]
      t == [s EXCEPT !.shared_count[b] = @ - 1]
  IN  IF b = Null THEN s
      ELSE IF t.shared_count[b] > 0 THEN t
      ELSE IF d = Null THEN t
      ELSE [t EXCEPT !.data[h] = Null, !.deletes[d] = @ + 1]

Reset(s, h) == Point(Dec(s, h), h, Null, Null)

Swap(s, h, g) == Point(Point(s, h, s.data[g], s.block[g]), g, s.data[h], s.block[h])

(* A new block for a new object, or for nullptr, which only reset does. *)
Adopt(s, h, d) ==
  LET n == s.used + 1
  IN  [Point(s, h, IF d = Null THEN Null ELSE n, n) EXCEPT
         !.used = n, !.shared_count[n] = 1,
         !.made = IF d = Null THEN @ ELSE @ \cup {n}]

Copy(s, h, g) ==
  LET t == Point(s, h, s.data[g], s.block[g])
  IN  IF s.block[g] = Null THEN t ELSE [t EXCEPT !.shared_count[s.block[g]] = @ + 1]

Move(s, h, g) == Reset(Swap(Point(s, h, Null, Null), h, g), g)

CopyAssignOverwrites(s, h, g) == Copy(s, h, g)  \* fault: the old object is forgotten
CopyAssign(s, h, g) ==
  LET t == Dec(Swap(Copy(s, Temp, g), h, Temp), Temp) IN Point(t, Temp, Null, Null)

(* Also for h = g, where reset gives away what was to be kept. *)
MoveAssign(s, h, g) == Reset(Swap(s, h, g), g)

Becomes(s) == blocks' = s
BecomesLive(s, h) == blocks' = [s EXCEPT !.live = @ \cup {h}]

Create ==
  \E h \in Handles \ blocks.live :
    \/ BecomesLive(Point(blocks, h, Null, Null), h)
    \/ blocks.used < MaxNew /\ BecomesLive(Adopt(blocks, h, "object"), h)
    \/ \E g \in blocks.live :
         BecomesLive(Copy(blocks, h, g), h) \/ BecomesLive(Move(blocks, h, g), h)

Assign ==
  \E h, g \in blocks.live : Becomes(CopyAssign(blocks, h, g)) \/ Becomes(MoveAssign(blocks, h, g))

Resets ==
  \E h \in blocks.live :
    \/ Becomes(Reset(blocks, h))
    \/ /\ blocks.used < MaxNew
       /\ \E d \in {"object", Null} : Becomes(Adopt(Dec(blocks, h), h, d))

Destroys ==
  \E h \in blocks.live : blocks' = [Dec(blocks, h) EXCEPT !.live = @ \ {h}, !.data[h] = Null,
                                                         !.block[h] = Null]

Next == Create \/ Assign \/ Resets \/ Destroys

Spec == Init /\ [][Next]_blocks

Heaps ==
  [data : [Names -> Cells \cup {Null}], block : [Names -> Cells \cup {Null}],
   live : SUBSET Handles, used : 0..MaxNew, made : SUBSET Cells,
   shared_count : [Cells -> Nat], deletes : [Cells -> Nat]]

(* What each member keeps, of handles and the temporary of operator=       *)
(* alike: blocks are counted, a block that was made with an object is only *)
(* held together with it, and nothing is deleted that was not made.        *)
Holders(s, b) == {h \in Names : s.block[h] = b}

Sound(s) ==
  /\ s \in Heaps
  /\ \A h \in Names : s.block[h] # Null => s.block[h] <= s.used
  /\ \A h \in Names : s.data[h] = IF s.block[h] \in s.made THEN s.block[h] ELSE Null
  /\ \A b \in 1..s.used : s.shared_count[b] = Cardinality(Holders(s, b))
  /\ \A o \in s.made : /\ o <= s.used
                       /\ s.deletes[o] = IF Holders(s, o) = {} THEN 1 ELSE 0
  /\ \A c \in Cells : c > s.used => s.deletes[c] = 0

Settled == \A h \in Names \ blocks.live : blocks.block[h] = Null

Owners(b) == {h \in blocks.live : blocks.block[h] = b}

(* Whatever is copied, moved, swapped and reset, also from a pointer to    *)
(* itself or from an empty one: the count is the number of owners, and an  *)
(* object is deleted once, when the last of them goes, and not before.     *)
DeletedByLast ==
  /\ \A b \in 1..blocks.used : blocks.shared_count[b] = Cardinality(Owners(b))
  /\ \A o \in blocks.made : blocks.deletes[o] = IF Owners(o) = {} THEN 1 ELSE 0
  /\ \A h \in blocks.live : blocks.data[h] # Null => blocks.block[h] = blocks.data[h]

Inv == Sound(blocks) /\ Settled /\ DeletedByLast
=============================================================================
