----------------------------- MODULE ObjectPool -----------------------------
(***************************************************************************)
(* ObjectPool/object_pool.h: a queue of free objects, handed out as        *)
(* shared pointers whose deleter puts the object back.  The pool grows     *)
(* when it runs empty; it is a static object and is destroyed at exit,     *)
(* whoever still holds an object then.  Objects are numbered in the order  *)
(* of their creation.  Every allocation of a call, and the initializer,    *)
(* may throw.  No call takes a lock: one thread is assumed.                *)
(***************************************************************************)
EXTENDS Integers, SequencesExt, FiniteSets

CONSTANTS DefaultSize,  \* kDefaultCacheSize
          ExtendSize,   \* kObjectPoolDefaultExtendSize
          MaxObjects    \* bound: objects there is memory for

PoolAssumption ==
  /\ DefaultSize \in Nat /\ ExtendSize \in Nat \ {0}
  /\ MaxObjects \in Nat /\ DefaultSize <= MaxObjects

VARIABLES state,        \* "none", "live", "destroyed", "undefined" or "terminated"
          queue,        \* the free objects
          held,         \* the objects somebody holds a pointer to
          created,      \* how many objects were made
          extended,     \* how many of them extended_cache_ has
          capacity,     \* capacity_
          throws        \* history: the calls an exception left, counted to MaxObjects

vars == <<state, queue, held, created, extended, capacity, throws>>

Numbers(first, last) == [i \in 1..(last - first + 1) |-> first + i - 1]

Init ==
  /\ state = "none"
  /\ queue = <<>> /\ held = {}
  /\ created = 0 /\ extended = 0 /\ capacity = 0
  /\ throws = 0

(* The first call of Instance().  Where it throws there is no pool, and    *)
(* the next call starts afresh.                                            *)
Construct ==
  /\ state = "none"
  /\ state' = "live"
  /\ queue' = Numbers(1, DefaultSize)
  /\ created' = DefaultSize
  /\ capacity' = DefaultSize
  /\ UNCHANGED <<held, extended, throws>>

(* Extend(num): each round makes an object, puts it into extended_cache_   *)
(* and into the queue, and initializes it; capacity_ is brought up to date *)
(* at the end.  After n rounds nothing may have failed, or new may fail in *)
(* the next one; or the last of them failed at the list, at the queue or   *)
(* in the initializer, and left its object where it was.                   *)
Rounds(n, fails) ==
  [queue    |-> queue \o Numbers(created + 1, created + (IF fails \in {"list", "queue"} THEN n - 1 ELSE n)),
   created  |-> created + n,
   extended |-> extended + (IF fails = "list" THEN n - 1 ELSE n),
   capacity |-> IF fails = "none" THEN DefaultSize + extended + n ELSE capacity,
   thrown   |-> IF fails = "none" THEN 0 ELSE 1]

Outcomes(num) ==
  {Rounds(num, "none")}
    \cup {Rounds(n, "new") : n \in 0..(num - 1)}
    \cup {Rounds(n, fails) : n \in 1..num, fails \in {"list", "queue", "initializer"}}

ExtendedEarly(num) ==    \* fault: capacity_ is set before the objects are made
  {[e EXCEPT !.capacity = DefaultSize + extended + num] :
     e \in {o \in Outcomes(num) : o.created <= MaxObjects}}
Extended(num) == {e \in Outcomes(num) : e.created <= MaxObjects}

Unextended ==
  [queue |-> queue, created |-> created, extended |-> extended, capacity |-> capacity,
   thrown |-> 0]

Store(e) ==
  /\ queue' = e.queue /\ created' = e.created
  /\ extended' = e.extended /\ capacity' = e.capacity
  /\ throws' = IF throws + e.thrown <= MaxObjects THEN throws + e.thrown ELSE MaxObjects

(* Get: with nothing in the queue the pool is extended first.  The object  *)
(* taken from the queue is lost where the initializer throws; where the    *)
(* shared pointer finds no memory it calls the deleter, which puts the     *)
(* object back, or loses it when that fails too.                           *)
Get ==
  /\ state = "live"
  /\ \E e \in IF queue = <<>> THEN Extended(ExtendSize) ELSE {Unextended} :
       LET taken == Head(e.queue)
           rest  == [e EXCEPT !.queue = Tail(@)]
       IN  \/ e.thrown = 1 /\ Store(e) /\ UNCHANGED held
           \/ e.thrown = 0 /\ Store(rest) /\ held' = held \cup {taken}
           \/ e.thrown = 0 /\ Store([rest EXCEPT !.thrown = 1]) /\ UNCHANGED held
           \/ /\ e.thrown = 0
              /\ Store([rest EXCEPT !.thrown = 1, !.queue = Append(@, taken)])
              /\ UNCHANGED held
  /\ UNCHANGED state

(* The last shared pointer to an object goes: its deleter pushes the       *)
(* object into the queue of the pool it came from, which may be gone.  An  *)
(* exception there leaves a destructor and ends the program.               *)
Release(o) ==
  /\ o \in held
  /\ held' = held \ {o}
  /\ \/ state = "live" /\ queue' = Append(queue, o) /\ UNCHANGED state
     \/ state = "live" /\ state' = "terminated" /\ queue' = <<>>
     \/ state = "destroyed" /\ state' = "undefined" /\ UNCHANGED queue
  /\ UNCHANGED <<created, extended, capacity, throws>>

set_capacity(c) ==
  /\ state = "live"
  /\ \E e \in IF capacity < c THEN Extended(c - capacity) ELSE {Unextended} : Store(e)
  /\ UNCHANGED <<state, held>>

Destroy ==
  /\ state = "live"
  /\ state' = "destroyed"
  /\ queue' = <<>>
  /\ UNCHANGED <<held, created, extended, capacity, throws>>

Next ==
  \/ Construct \/ Get \/ Destroy
  \/ \E o \in 1..MaxObjects : Release(o)
  \/ \E c \in 1..MaxObjects : set_capacity(c)

Spec == Init /\ [][Next]_vars

TypeOK ==
  /\ state \in {"none", "live", "destroyed", "undefined", "terminated"}
  /\ created \in 0..MaxObjects /\ extended \in Nat /\ capacity \in Nat
  /\ queue \in Seq(Nat) /\ held \in SUBSET (1..created)
  /\ throws \in 0..MaxObjects
  /\ state # "live" => queue = <<>>
  /\ state = "none" => held = {} /\ created = 0 /\ extended = 0 /\ throws = 0

(* The objects that are neither free nor held by somebody. *)
Lost == (1..created) \ (ToSet(queue) \cup held)

(* How many objects the destructor will not find. *)
Hidden == created - (DefaultSize + extended)

(* While the pool lives, an object is free, and then once in the queue, or *)
(* held by somebody, never both; and an exception, wherever in a call it   *)
(* is thrown, loses at most one object and hides at most one from the      *)
(* destructor.  capacity_ never promises more objects than extended_cache_ *)
(* and the first ones.                                                     *)
PoolAccounts ==
  state = "live" =>
    /\ \A i, j \in 1..Len(queue) : queue[i] = queue[j] => i = j
    /\ ToSet(queue) \cap held = {}
    /\ ToSet(queue) \subseteq 1..created
    /\ Cardinality(Lost) <= throws /\ Hidden \in 0..throws
    /\ capacity <= DefaultSize + extended

Inv == TypeOK /\ PoolAccounts
=============================================================================
