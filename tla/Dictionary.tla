----------------------------- MODULE Dictionary -----------------------------
(***************************************************************************)
(* What a search structure promises, whatever it is made of: a partial map *)
(* from keys to values and calls that take effect on it one at a time.     *)
(* STL/hash_map.h and Trees/AVL/AVL.c are shown to implement it, the tree  *)
(* with one value for all of its keys.                                     *)
(***************************************************************************)
CONSTANTS Keys, Values,
          Nothing   \* where a call has no key or no value

VARIABLES map,      \* the pairs that are stored
          answer    \* the last call, its key, the value given or found, and the result

TypeOK ==
  /\ map \in UNION {[K -> Values] : K \in SUBSET Keys}
  /\ answer \in [call : {"insert", "refuse", "delete", "find", "assign", "clear"},
                 key : Keys \cup {Nothing}, value : Values \cup {Nothing}, ok : BOOLEAN]

Empty == [k \in {} |-> Nothing]
Reply(call, k, v, ok) == [call |-> call, key |-> k, value |-> v, ok |-> ok]

Init == map = Empty /\ answer = Reply("clear", Nothing, Nothing, TRUE)

(* A key that is there keeps its value. *)
Insert(k, v) ==
  /\ answer' = Reply("insert", k, v, k \notin DOMAIN map)
  /\ map' = [x \in DOMAIN map \cup {k} |-> IF x \in DOMAIN map THEN map[x] ELSE v]

(* There is no memory for another pair. *)
Refuse(k, v) == answer' = Reply("refuse", k, v, FALSE) /\ UNCHANGED map

Delete(k) ==
  /\ answer' = Reply("delete", k, Nothing, k \in DOMAIN map)
  /\ map' = [x \in DOMAIN map \ {k} |-> map[x]]

Find(k) ==
  /\ answer' = IF k \in DOMAIN map THEN Reply("find", k, map[k], TRUE)
               ELSE Reply("find", k, Nothing, FALSE)
  /\ UNCHANGED map

(* Writing to the place of a key that is there; other keys have no place. *)
Assign(k, v) ==
  /\ answer' = Reply("assign", k, v, TRUE)
  /\ map' = [x \in DOMAIN map |-> IF x = k THEN v ELSE map[x]]

Clear == answer' = Reply("clear", Nothing, Nothing, TRUE) /\ map' = Empty

Next ==
  \/ \E k \in Keys : \/ Delete(k) \/ Find(k)
                     \/ \E v \in Values : Insert(k, v) \/ Refuse(k, v) \/ Assign(k, v)
  \/ Clear

Spec == Init /\ [][Next]_<<map, answer>>
=============================================================================
