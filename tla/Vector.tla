------------------------------- MODULE Vector -------------------------------
(***************************************************************************)
(* STL/vector.hpp, my::vector: the members that a program can instantiate  *)
(* (clear, pop_back and the copy constructor do not compile, operator= has *)
(* no body).  An array lies on the heap; its cells are raw, moved from, or *)
(* hold an item.  Growing copies to a new array and forgets the old one.   *)
(***************************************************************************)
EXTENDS Integers, Sequences

CONSTANTS Vectors, Items,
          MaxArrays  \* bound: arrays that are allocated

VectorAssumption == MaxArrays \in Nat

VARIABLES
  vec,       \* m_data (0 for nullptr), m_size and m_cap of the vectors there are
  array,     \* the arrays allocated so far, as sequences of cells
  freed,     \* those that were given back
  undefined, \* "no", or what made the behaviour undefined
  pushed     \* history: each item appended to a vector by a call that returned,
             \* and whether the call moved from it before it was copied

vars == <<vec, array, freed, undefined, pushed>>

Dead == [data |-> -1, size |-> 0, cap |-> 0]
Empty == [data |-> 0, size |-> 0, cap |-> 0]
Live == {v \in Vectors : vec[v] # Dead}

Init ==
  /\ vec = [v \in Vectors |-> Dead]
  /\ array = <<>> /\ freed = {}
  /\ undefined = "no"
  /\ pushed = [v \in Vectors |-> <<>>]

Construct(v) ==
  /\ v \notin Live
  /\ vec' = [vec EXCEPT ![v] = Empty]
  /\ UNCHANGED <<array, freed, undefined, pushed>>

MoveConstructShared(v, w) ==  \* fault: rhs is not emptied
  /\ v \notin Live /\ w \in Live
  /\ vec' = [vec EXCEPT ![v] = vec[w]]
  /\ pushed' = [pushed EXCEPT ![v] = pushed[w]]
  /\ UNCHANGED <<array, freed, undefined>>
MoveConstruct(v, w) ==
  /\ v \notin Live /\ w \in Live
  /\ vec' = [vec EXCEPT ![v] = vec[w], ![w] = Empty]
  /\ pushed' = [pushed EXCEPT ![v] = pushed[w], ![w] = <<>>]
  /\ UNCHANGED <<array, freed, undefined>>

Cells(here) == IF here.data = 0 THEN <<>> ELSE SubSeq(array[here.data], 1, here.size)

(* What the argument of an append, a reference, may lead to inside v.      *)
Elements(v) == {Cells(vec[v])[j] : j \in 1..vec[v].size}

(* emplace_back below m_cap, which may be more than was allocated. *)
AppendInPlace(v, x) ==
  LET here == vec[v]
  IN  /\ v \in Live /\ here.size < here.cap
      /\ IF here.size < Len(array[here.data])
         THEN array' = [array EXCEPT ![here.data][here.size + 1] = x] /\ UNCHANGED undefined
         ELSE undefined' = "overrun" /\ UNCHANGED array
      /\ vec' = [vec EXCEPT ![v].size = @ + 1]
      /\ pushed' = [pushed EXCEPT ![v] = Append(@, [item |-> x, lost |-> FALSE])]
      /\ UNCHANGED freed

MovedFrom(d, k) ==
  [i \in 1..Len(array) |->
     IF i = d THEN [j \in 1..Len(array[d]) |-> IF j <= k THEN "moved" ELSE array[d][j]]
     ELSE array[i]]

(* a | b. *)
BitOr(a, b) ==
  LET or[x \in 0..a] ==
        [y \in 0..b |->
           IF x = 0 THEN y
           ELSE 2 * or[x \div 2][y \div 2] + IF x % 2 = 1 \/ y % 2 = 1 THEN 1 ELSE 0]
  IN  or[a][b]

(* emplace_back at m_cap: new_size cells are allocated, new_cap recorded.  *)
(* The elements are moved before the new one is constructed: from x, or,   *)
(* where the argument is an element of v, from what the move left of it.   *)
AppendGrows(v, x, own) ==
  LET here     == vec[v]
      new_size == here.size + 1
      new_cap  == BitOr(new_size, here.size \div 2)
      made     == IF own THEN "moved" ELSE x
  IN  /\ v \in Live /\ here.size >= here.cap
      /\ Len(array) < MaxArrays
      /\ array' = Append(MovedFrom(here.data, here.size), Append(Cells(here), made))
      /\ vec' = [vec EXCEPT ![v] = [data |-> Len(array) + 1, size |-> new_size, cap |-> new_cap]]
      /\ pushed' = [pushed EXCEPT ![v] = Append(@, [item |-> x, lost |-> own])]
      /\ UNCHANGED <<freed, undefined>>

(* The constructor of cell k of the new array throws while the vector      *)
(* grows.  The handler destroys new_data[k], which was never made, once    *)
(* for each of the k elements that were; they stay moved from.             *)
GrowthThrows(v, k) ==
  LET here == vec[v]
  IN  /\ v \in Live /\ here.size >= here.cap
      /\ Len(array) < MaxArrays
      /\ k \in 0..here.size
      /\ array' = Append(MovedFrom(here.data, k), [j \in 1..(here.size + 1) |-> "raw"])
      /\ freed' = freed \cup {Len(array) + 1}
      /\ undefined' = IF k > 0 THEN "raw_destroyed" ELSE undefined
      /\ UNCHANGED <<vec, pushed>>

Destroy(v) ==
  /\ v \in Live
  /\ freed' = freed \cup ({vec[v].data} \ {0})
  /\ vec' = [vec EXCEPT ![v] = Dead]
  /\ pushed' = [pushed EXCEPT ![v] = <<>>]
  /\ UNCHANGED <<array, undefined>>

Next ==
  /\ undefined = "no"
  /\ \E v \in Vectors :
       \/ Construct(v) \/ Destroy(v)
       \/ \E w \in Vectors : MoveConstruct(v, w)
       \/ \E x \in Items \cup Elements(v) : AppendInPlace(v, x)
       \/ \E x \in Items : AppendGrows(v, x, FALSE)
       \/ \E x \in Elements(v) : AppendGrows(v, x, TRUE)
       \/ \E k \in 0..MaxArrays : GrowthThrows(v, k)

Spec == Init /\ [][Next]_vars

(* v holds what was appended to it, in order; but an element that it was   *)
(* asked to append to itself while it grew is moved from, and so are the   *)
(* first k.                                                                *)
Holds(v, k) ==
  /\ Len(pushed[v]) = vec[v].size
  /\ \A j \in 1..vec[v].size :
       array[vec[v].data][j] = IF j <= k \/ pushed[v][j].lost THEN "moved" ELSE pushed[v][j].item

(* Through growth, moves and appends that throw, a vector has an array of  *)
(* its own, not given back, with every item it was given but those that    *)
(* Holds excepts: a growth takes an item only from the caller who passed   *)
(* an element of the vector, and a growth that throws only from the vector *)
(* that grew, its first ones.  Memory is overrun by five elements at the   *)
(* earliest.                                                               *)
VectorKeepsItems ==
  /\ undefined # "overrun" => \A v \in Live :
       /\ vec[v].data \notin freed
       /\ \A w \in Live \ {v} : vec[v].data = vec[w].data => vec[v].data = 0
  /\ undefined = "no" => \A v \in Live : Holds(v, 0)
  /\ undefined = "raw_destroyed" => \E v \in Live :
       /\ \E k \in 1..vec[v].size : Holds(v, k)
       /\ \A w \in Live \ {v} : Holds(w, 0)
  /\ undefined = "overrun" => \E v \in Live : Len(pushed[v]) > 4
=============================================================================
