----------------------------- MODULE Structures -----------------------------
(***************************************************************************)
(* The stand-alone structures of the repository side by side.  They share  *)
(* nothing: a behaviour is one of one of them, chosen at the start, and    *)
(* the others keep their initial state.                                    *)
(***************************************************************************)
EXTENDS PlainStructures, PlainPrograms

CONSTANTS Kinds,      \* the structures looked at
          Crash, Keys, MaxNodes                                    \* AVLTree

VARIABLES which,
          tree, crashed, treeAnswer

Tree == INSTANCE AVLTree WITH answer <- treeAnswer

treeVars == <<tree, crashed, treeAnswer>>
mapVars == <<table, ValueNULL, mapAnswer>>
pageVars == <<free, broken, request, result, given, taken, handed, emptyCalls>>
poolVars == <<state, queue, held, created, extended, capacity, throws>>
functorVars == <<base, clone, deletes, dangling, misused, meant>>
vectorVars == <<vec, array, freed, undefined, pushed>>
readerVars == <<text, next, eof, fail, line, open, lines>>
patternVars == <<pattern, roots, made, alive, refs, target, called, outcome>>
singleVars == <<kind, once, pointer, instances, deleted, destroying, pc>>
frameVars == <<packet_id, link, last, overrun>>
copyVars == <<ptr, uses, version, mutex, copying, tmp, writes, seen>>
vars == <<which, treeVars, mapVars, pageVars, poolVars, heap, blocks, functorVars,
          vectorVars, readerVars, patternVars, singleVars, frameVars, copyVars>>

Init ==
  /\ which \in Kinds
  /\ Tree!Init /\ Map!Init /\ Pages!Init /\ Pool!Init /\ Pointer!Init /\ Block!Init
  /\ Callable!Init /\ Vec!Init /\ Reader!Init /\ Pattern!Init /\ Single!Init /\ Frame!Init
  /\ Copy!Init
  /\ which # "map" => ValueNULL = CHOOSE v \in Values : TRUE
  /\ which # "reader" => text = <<>>
  /\ which # "pattern" => pattern = "chain"
  /\ which # "singleton" => kind = "once"
  /\ which # "copy" => ptr = CHOOSE o \in Addresses : TRUE

(* A step of one structure leaves the others alone. *)
Only(k) ==
  /\ which = k /\ UNCHANGED which
  /\ k # "tree" => UNCHANGED treeVars
  /\ k # "map" => UNCHANGED mapVars
  /\ k # "pages" => UNCHANGED pageVars
  /\ k # "pool" => UNCHANGED poolVars
  /\ k # "pointer" => UNCHANGED heap
  /\ k # "block" => UNCHANGED blocks
  /\ k # "functor" => UNCHANGED functorVars
  /\ k # "vector" => UNCHANGED vectorVars
  /\ k # "reader" => UNCHANGED readerVars
  /\ k # "pattern" => UNCHANGED patternVars
  /\ k # "singleton" => UNCHANGED singleVars
  /\ k # "frames" => UNCHANGED frameVars
  /\ k # "copy" => UNCHANGED copyVars

Next ==
  \/ Only("tree") /\ Tree!Next
  \/ Only("map") /\ Map!Next
  \/ Only("pages") /\ Pages!Next
  \/ Only("pool") /\ Pool!Next
  \/ Only("pointer") /\ Pointer!Next
  \/ Only("block") /\ Block!Next
  \/ Only("functor") /\ Callable!Next
  \/ Only("vector") /\ Vec!Next
  \/ Only("reader") /\ Reader!Next
  \/ Only("pattern") /\ Pattern!Next
  \/ Only("singleton") /\ Single!Next
  \/ Only("frames") /\ Frame!Next
  \/ Only("copy") /\ Copy!Next

Spec == Init /\ [][Next]_vars

(* The properties of the tree, stated and explained in its module. *)

(* Trees/AVL/AVL.c answers each call for its key as a set would, until it  *)
(* crashes.                                                                *)
TreeIsSet == Tree!RefinesSet

(* Trees/AVL/AVL.c: no call follows a null pointer. *)
TreeNeverCrashes == Tree!NeverCrashes
=============================================================================
