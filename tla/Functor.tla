------------------------------- MODULE Functor -------------------------------
(***************************************************************************)
(* STL/function.cpp, Functor<Ret(Arg...)>: a callable behind a pointer to  *)
(* its base class, which is cloned when the Functor is copied.             *)
(***************************************************************************)
EXTENDS Integers, FiniteSets

CONSTANTS Functors, Callables,
          MaxClones  \* bound: callables on the heap

FunctorAssumption == MaxClones \in Nat /\ "none" \notin Callables

VARIABLES
  base,     \* the pointer of each Functor there is, 0 for those there are not
  clone,    \* the callables on the heap
  deletes,  \* how often each was deleted
  dangling, \* the Functors whose base was deleted and not replaced
  misused,  \* such a base was copied or deleted again
  meant     \* history: the callable each Functor was last given

vars == <<base, clone, deletes, dangling, misused, meant>>

Made == {f \in Functors : base[f] # 0}
Clones == 1..MaxClones
None == "none"

Init ==
  /\ base = [f \in Functors |-> 0]
  /\ clone = [c \in Clones |-> None]
  /\ deletes = [c \in Clones |-> 0]
  /\ dangling = {} /\ misused = FALSE
  /\ meant = [f \in Functors |-> None]

Fresh == {c \in Clones : clone[c] = None}
NewClone == CHOOSE c \in Fresh : \A d \in Fresh : c <= d

Give(f, callable) ==
  /\ Fresh # {}
  /\ base' = [base EXCEPT ![f] = NewClone]
  /\ clone' = [clone EXCEPT ![NewClone] = callable]
  /\ meant' = [meant EXCEPT ![f] = callable]

Construct(f, callable) ==
  /\ f \notin Made
  /\ Give(f, callable)
  /\ UNCHANGED <<deletes, dangling, misused>>

Misuse == misused' = TRUE /\ UNCHANGED <<base, clone, deletes, dangling, meant>>

(* The copy constructor; a copy that throws makes no Functor. *)
CopyConstruct(f, g) ==
  /\ f \notin Made /\ g \in Made
  /\ IF g \in dangling THEN Misuse
     ELSE Give(f, clone[base[g]]) /\ UNCHANGED <<deletes, dangling, misused>>

Delete(f) == deletes' = [deletes EXCEPT ![base[f]] = @ + 1]

AssignShares(f, g) ==  \* fault: the pointer is copied, not the callable
  /\ f \in Made /\ g \in Made \ {f}
  /\ IF {f, g} \cap dangling # {} THEN Misuse
     ELSE /\ Delete(f)
          /\ base' = [base EXCEPT ![f] = base[g]]
          /\ meant' = [meant EXCEPT ![f] = meant[g]]
          /\ UNCHANGED <<clone, dangling, misused>>
(* operator=, but for an assignment to itself, which returns at once. *)
Assign(f, g) ==
  /\ f \in Made /\ g \in Made \ {f}
  /\ IF {f, g} \cap dangling # {} THEN Misuse
     ELSE Delete(f) /\ Give(f, clone[base[g]]) /\ UNCHANGED <<dangling, misused>>

(* copy() throws when the old callable is already deleted. *)
AssignThrows(f, g) ==
  /\ f \in Made \ dangling /\ g \in Made \ (dangling \cup {f})
  /\ Delete(f)
  /\ dangling' = dangling \cup {f}
  /\ UNCHANGED <<base, clone, misused, meant>>

Destruct(f) ==
  /\ f \in Made
  /\ IF f \in dangling THEN Misuse
     ELSE /\ Delete(f)
          /\ base' = [base EXCEPT ![f] = 0]
          /\ UNCHANGED <<clone, dangling, misused, meant>>

Next ==
  /\ ~misused
  /\ \E f \in Functors :
       \/ \E callable \in Callables : Construct(f, callable)
       \/ \E g \in Functors : CopyConstruct(f, g) \/ Assign(f, g) \/ AssignThrows(f, g)
       \/ Destruct(f)

Spec == Init /\ [][Next]_vars

TypeOK ==
  /\ base \in [Functors -> 0..MaxClones]
  /\ clone \in [Clones -> Callables \cup {None}] /\ deletes \in [Clones -> Nat]
  /\ dangling \subseteq Made /\ misused \in BOOLEAN
  /\ meant \in [Functors -> Callables \cup {None}]

(* Nobody points to memory that is still to be allocated, and no two       *)
(* Functors to one callable, not even to one that is gone.                 *)
PointersInv ==
  /\ \A c \in Fresh : deletes[c] = 0
  /\ \A f \in Made : base[f] \notin Fresh
  /\ \A f, g \in Made : base[f] = base[g] => f = g

(* Every Functor calls what it was last given, through a callable of its   *)
(* own; each callable is deleted when its Functor lets go of it, and once. *)
(* Only a Functor whose assignment threw is left with a callable that is   *)
(* gone.                                                                   *)
CallablesOwned ==
  /\ \A f \in Made \ dangling :
       /\ clone[base[f]] = meant[f]
       /\ deletes[base[f]] = 0
       /\ \A g \in Made \ {f} : base[g] # base[f]
  /\ \A c \in Clones \ Fresh :
       deletes[c] = IF \E f \in Made \ dangling : base[f] = c THEN 0 ELSE 1

Inv == TypeOK /\ PointersInv /\ CallablesOwned
=============================================================================
