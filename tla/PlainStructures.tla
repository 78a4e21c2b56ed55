-------------------------- MODULE PlainStructures --------------------------
(***************************************************************************)
(* The stand-alone classes, and what is required of them.  The AVL tree,   *)
(* whose definitions are recursive operators, is left to Structures:       *)
(* theorems cannot be stated about it.                                     *)
(***************************************************************************)
EXTENDS Integers

CONSTANTS Nothing, Nil, HashKeys, Values, Size, Width,             \* HashMap
          DefaultSize, ExtendSize, MaxObjects,                     \* ObjectPool
          Handles, Temp, MaxNew, MaxCount,                         \* SharedPtr, BlockPtr
          Functors, Callables, MaxClones,                          \* Functor
          Iterators, MaxText,                                      \* LineReader
          Threads, MaxInstances,                                   \* Singletons
          Addresses, NoThread, NoObject, MaxWrites,                \* CopyOnWrite
          Vectors, Items, MaxArrays                                \* Vector

VARIABLES table, ValueNULL, mapAnswer,
          state, queue, held, created, extended, capacity, throws,
          heap, blocks,
          base, clone, deletes, dangling, misused, meant,
          text, next, eof, fail, line, open, lines,
          kind, once, pointer, instances, deleted, destroying, pc,
          ptr, uses, version, mutex, copying, tmp, writes, seen,
          vec, array, freed, undefined, pushed

Map      == INSTANCE HashMap WITH Keys <- HashKeys, answer <- mapAnswer
Pool     == INSTANCE ObjectPool
Pointer  == INSTANCE SharedPtr WITH Null <- Nil
Block    == INSTANCE BlockPtr WITH Null <- Nil
Callable == INSTANCE Functor
Reader   == INSTANCE LineReader
Single   == INSTANCE Singletons WITH Null <- Nil, created <- instances
Copy     == INSTANCE CopyOnWrite WITH Objects <- Addresses, pc <- copying, count <- uses
Vec      == INSTANCE Vector

ASSUME StructuresAssumption ==
  /\ Map!HashAssumption
  /\ Pool!PoolAssumption /\ Pointer!PointerAssumption
  /\ Block!BlockAssumption /\ Callable!FunctorAssumption /\ Reader!ReaderAssumption
  /\ Single!SingletonAssumption /\ Copy!CopyAssumption /\ Vec!VectorAssumption

(* The properties of the components, stated and explained in their modules; *)
(* Inv is a property with what makes it inductive.                         *)

(* STL/hash_map.h answers each call for its key as one map would. *)
MapIsDictionary == Map!RefinesMap

(* object_pool.h: each object is free once or held, never both, and an     *)
(* exception loses one at most.                                            *)
PoolAccounts == Pool!Inv

(* smartptr.cc: no object is deleted that a handle points to. *)
OwnedObjectsLive == Pointer!OwnedObjectsLive

(* shared_ptr.h and function.cpp: what is owned is deleted when its last   *)
(* owner lets it go, and once.                                             *)
OwnersDelete == Block!Inv /\ Callable!Inv

(* line_istream.h: every line of the stream comes out once, in order. *)
LinesDelivered == Reader!LinesDelivered

(* sington: one instance through pthread_once; no null pointers. *)
OneInstance == Single!Inv

(* copy_on_write.cc: a reader's object stays as it is. *)
SnapshotsStable == Copy!SnapshotStable

(* copy_on_write.cc: no write is lost, and an object is freed once, when   *)
(* nobody refers to it any more.                                           *)
CopiesAccount == Copy!Inv

(* vector.hpp: a vector keeps what was appended to it, but for what a      *)
(* growth takes of its own elements.                                       *)
VectorKeepsItems == Vec!VectorKeepsItems
=============================================================================
