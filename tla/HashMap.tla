------------------------------ MODULE HashMap ------------------------------
(***************************************************************************)
(* STL/hash_map.h: a table of chains.  Insertion puts a node at the head   *)
(* of its chain, and operator[] gives the place of a key's value or, for a *)
(* key that is missing, one place that all missing keys share.             *)
(***************************************************************************)
EXTENDS Integers, SequencesExt

CONSTANTS Keys,     \* bound: the keys used, integers, negative ones too
          Values,
          Size,     \* how many chains
          Width,    \* 2^w of the unsigned type that a key is converted to
          Nothing   \* no key, or no value

HashAssumption ==
  Keys \subseteq Int /\ Size \in Nat \ {0} /\ Width \in Nat \ {0}

VARIABLES table,        \* the chains
          ValueNULL,    \* the place that missing keys share
          answer        \* the last call, its key, the value given or found, and the result

vars == <<table, ValueNULL, answer>>

index(key) == (key % Width) % Size

Reply(call, key, value, ok) == [call |-> call, key |-> key, value |-> value, ok |-> ok]

(* ValueNULL is not initialised. *)
Init ==
  /\ table = [i \in 0..(Size - 1) |-> <<>>]
  /\ ValueNULL \in Values
  /\ answer = Reply("clear", Nothing, Nothing, TRUE)

Chain(key) == table[index(key)]

(* Where the walk along the chain finds the key: 0 if it does not. *)
Position(key) ==
  LET at == {i \in 1..Len(Chain(key)) : Chain(key)[i].k = key}
  IN  IF at = {} THEN 0 ELSE CHOOSE i \in at : \A j \in at : i <= j

Present(key) == Position(key) # 0

insertAgain(key, value) ==       \* fault: the chain is not searched first
  /\ table' = [table EXCEPT ![index(key)] = <<[k |-> key, v |-> value]>> \o @]
  /\ answer' = Reply("insert", key, value, ~Present(key))
  /\ UNCHANGED ValueNULL

insert(key, value) ==
  /\ table' = IF Present(key) THEN table
              ELSE [table EXCEPT ![index(key)] = <<[k |-> key, v |-> value]>> \o @]
  /\ answer' = Reply("insert", key, value, ~Present(key))
  /\ UNCHANGED ValueNULL

del(key) ==
  /\ table' = IF Present(key)
              THEN [table EXCEPT ![index(key)] = RemoveAt(@, Position(key))] ELSE table
  /\ answer' = Reply("delete", key, Nothing, Present(key))
  /\ UNCHANGED ValueNULL

find(key) ==
  /\ answer' = IF Present(key) THEN Reply("find", key, Chain(key)[Position(key)].v, TRUE)
               ELSE Reply("find", key, Nothing, FALSE)
  /\ UNCHANGED <<table, ValueNULL>>

(* map[key] = value, through the reference operator[] returns. *)
assign(key, value) ==
  /\ IF Present(key)
     THEN table' = [table EXCEPT ![index(key)][Position(key)].v = value]
          /\ UNCHANGED ValueNULL
     ELSE ValueNULL' = value /\ UNCHANGED table
  /\ answer' = Reply("assign", key, value, TRUE)

(* The destructor, and a new map. *)
Renew ==
  /\ table' = [i \in 0..(Size - 1) |-> <<>>]
  /\ ValueNULL' \in Values
  /\ answer' = Reply("clear", Nothing, Nothing, TRUE)

Next ==
  \/ \E key \in Keys : \/ del(key) \/ find(key)
                       \/ \E value \in Values : insert(key, value) \/ assign(key, value)
  \/ Renew

Spec == Init /\ [][Next]_vars

-----------------------------------------------------------------------------
(* Properties. *)

Nodes == UNION {ToSet(table[i]) : i \in 0..(Size - 1)}

(* The chains answer like one map, each call for the key it was given,     *)
(* however keys collide and in whatever order nodes are unlinked; a write  *)
(* through operator[] to a missing key is lost, and reaches no key that is *)
(* there.                                                                  *)
Map == INSTANCE Dictionary WITH
  map <- [k \in {n.k : n \in Nodes} |-> (CHOOSE n \in Nodes : n.k = k).v]
RefinesMap == Map!Spec
=============================================================================
