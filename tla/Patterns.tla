------------------------------ MODULE Patterns ------------------------------
(***************************************************************************)
(* design_pattern: six programs in which objects keep lists of pointers to *)
(* each other and call each other through them (behavior/                  *)
(* chain_of_responsibility.cc, command.cc, mediator.cc, observer.cc,       *)
(* visitor.cc and structal/composite.cc; kind says which one is run).  The *)
(* classes are kept apart by their roles: a box holds a list (Handle,      *)
(* Invoker, ConcreteMediator, Subject, ObjectStructure, Picture), and what *)
(* it lists is a box again or a part.  All objects are managed by          *)
(* shared_ptr; whoever calls one holds such a pointer.                     *)
(***************************************************************************)
EXTENDS Integers, FiniteSets, SequencesExt

CONSTANTS Boxes, Parts,
          Receiver,   \* what commands act on
          None,
          Limit,      \* what each handler of the chain processes: less than that
          Requests,   \* what the chain is asked to process
          MaxRefs     \* bound: pointers in one list

VARIABLES
  kind,
  roots,    \* the objects the program holds a pointer to
  made,     \* the objects made so far
  alive,    \* those not destroyed yet
  refs,     \* the list of each box: p_, commands, colleagues_, observers_, ...
  target,   \* the weak pointer of each part: subjects_, receiver_, mediator_
  called,   \* the objects the last call reached, in order
  outcome   \* how it ended: "ok", "null" dereferenced, or "endless" recursion

vars == <<kind, roots, made, alive, refs, target, called, outcome>>

Objects == Boxes \cup Parts \cup {Receiver}

PatternAssumption ==
  /\ IsFiniteSet(Boxes) /\ IsFiniteSet(Parts)
  /\ Boxes \cap Parts = {} /\ Receiver \notin Boxes \cup Parts /\ None \notin Objects

(* The members of a list that lie in S, in their order. *)
Only(list, S) ==
  LET kept[i \in 0..Len(list)] ==
        IF i = 0 THEN <<>>
        ELSE IF list[i] \in S THEN Append(kept[i - 1], list[i]) ELSE kept[i - 1]
  IN  kept[Len(list)]

(* observers_, elements_, shapes_ and p_ own what they point to; commands  *)
(* and colleagues_ are lists of weak pointers.                             *)
Owning == kind \in {"chain", "observer", "visitor", "composite"}

(* A part of these is made with a weak pointer. *)
Pointing == kind \in {"command", "mediator", "observer"}

(* What a box may list, and what a part may point to. *)
Listed ==
  CASE kind = "chain" -> Boxes
    [] kind \in {"composite", "command"} -> Boxes \cup Parts
    [] OTHER -> Parts
Targets ==
  CASE kind \in {"observer", "mediator"} -> Boxes
    [] kind = "command" -> {Receiver}
    [] OTHER -> {}

Init ==
  /\ kind \in {"chain", "command", "mediator", "observer", "visitor", "composite"}
  /\ roots = {} /\ made = {} /\ alive = {}
  /\ refs = [b \in Boxes |-> <<>>]
  /\ target = [p \in Parts |-> None]
  /\ called = <<>> /\ outcome = "ok"

(* Counting keeps an object while the program or an object that is kept    *)
(* owns a pointer to it: for cycles of owners, for ever.                   *)
OwnsBoth(o, p) ==   \* fault: parts own what they point to as well
  \/ Owning /\ o \in Boxes /\ p \in ToSet(refs'[o])
  \/ o \in Parts /\ target'[o] = p
Owns(o, p) == Owning /\ o \in Boxes /\ p \in ToSet(refs'[o])

Kept(objects) ==
  UNION {S \in SUBSET objects : \A p \in S : p \in roots' \/ \E o \in S : Owns(o, p)}

Settle ==
  /\ alive' = Kept(alive \cup roots')
  /\ called' = <<>>
  /\ UNCHANGED <<kind, outcome>>

Make(o, t) ==
  /\ o \notin made
  /\ o \in Listed \cup Targets \cup Boxes
  /\ made' = made \cup {o}
  /\ roots' = roots \cup {o}
  /\ IF o \in Parts /\ Pointing
     THEN t \in Targets \cap roots /\ target' = [target EXCEPT ![o] = t]
     ELSE t = None /\ UNCHANGED target
  /\ UNCHANGED refs
  /\ Settle

(* The program lets its pointer go. *)
Drop(o) ==
  /\ o \in roots
  /\ roots' = roots \ {o}
  /\ UNCHANGED <<made, refs, target>>
  /\ Settle

(* Append of the lists; setNext replaces the pointer there is. *)
Put(b, o) ==
  /\ b \in roots /\ o \in roots \cap Listed
  /\ kind = "chain" \/ Len(refs[b]) < MaxRefs
  /\ refs' = [refs EXCEPT ![b] = IF kind = "chain" THEN <<o>> ELSE Append(@, o)]
  /\ UNCHANGED <<roots, made, target>>
  /\ Settle

(* Remove: a picture erases the first, the lists all; an invoker also      *)
(* takes nullptr, for all pointers that have expired.  setNext(nullptr)    *)
(* removes the one there is, and a mediator has no Remove.                 *)
Take(b, o) ==
  /\ b \in roots /\ kind # "mediator"
  /\ \/ o \in roots \cap Listed /\ kind # "chain"
     \/ o = None /\ kind \in {"chain", "command"}
  /\ refs' = [refs EXCEPT ![b] =
       CASE kind = "chain" -> <<>>
         [] kind = "composite" -> RemoveFirst(@, o)
         [] kind = "command" /\ o = None -> Only(@, alive)
         [] OTHER -> Only(@, Objects \ {o})]
  /\ UNCHANGED <<roots, made, target>>
  /\ Settle

Child(b, n) ==
  /\ kind = "composite" /\ b \in roots
  /\ n \in 1..Len(refs[b])
  /\ roots' = roots \cup {refs[b][n]}
  /\ UNCHANGED <<made, refs, target>>
  /\ Settle

Reaches(sequence, how) ==
  /\ outcome' = how
  /\ called' = IF how = "ok" THEN sequence ELSE <<>>
  /\ UNCHANGED <<kind, roots, made, alive, refs, target>>

Locked(b) == Only(refs[b], alive)

(* Update and Execute do nothing once the subject or receiver is gone. *)
Acts(p) == kind \in {"observer", "command"} => target[p] \in alive

Depth == Cardinality(Boxes)

BoxesAt(b) ==
  LET at[n \in 0..Depth] ==
        IF n = 0 THEN {b} ELSE UNION {ToSet(Locked(c)) \cap Boxes : c \in at[n - 1]}
  IN  at

calls[n \in 0..Depth] ==
  [o \in Objects |->
     CASE o \in Parts -> IF Acts(o) THEN <<o>> ELSE <<>>
       [] o \in Boxes /\ n > 0 ->
            FlattenSeq([i \in 1..Len(Locked(o)) |-> calls[n - 1][Locked(o)[i]]])
       [] OTHER -> <<>>]

(* Notify, Accept, Display and Execute of a box: its list in order, nested *)
(* boxes included; a box that comes to itself again recurses for ever.     *)
Announce(b) ==
  /\ kind \in {"observer", "visitor", "composite", "command"} /\ b \in roots
  /\ Reaches(calls[Depth][b], IF BoxesAt(b)[Depth] = {} THEN "ok" ELSE "endless")

(* Send of a colleague: mediator_.lock() is not tested. *)
Send(p) ==
  /\ kind = "mediator" /\ p \in roots \cap Parts
  /\ Reaches(IF target[p] \in alive THEN Only(Locked(target[p]), Objects \ {p}) ELSE <<>>,
             IF target[p] \in alive THEN "ok" ELSE "null")

(* Process: the first handler on the way that takes the request. *)
HandlerAt(b) ==
  LET at[n \in 0..Depth] ==
        IF n = 0 THEN b
        ELSE LET before == at[n - 1]
             IN  IF before = None \/ refs[before] = <<>> THEN None ELSE refs[before][1]
  IN  at

Process(b, request) ==
  /\ kind = "chain" /\ b \in roots
  /\ LET way    == [n \in 1..(Depth + 1) |-> HandlerAt(b)[n - 1]]
         takers == Only(way, {h \in Boxes : request < Limit[h]})
     IN  Reaches(IF takers = <<>> THEN <<>> ELSE <<Head(takers)>>,
                 IF takers = <<>> /\ way[Depth + 1] # None THEN "endless" ELSE "ok")

Next ==
  /\ outcome = "ok"
  /\ \/ \E o \in Objects : Drop(o) \/ \E t \in Boxes \cup {Receiver, None} : Make(o, t)
     \/ \E b \in Boxes :
          \/ \E o \in Objects \cup {None} : Put(b, o) \/ Take(b, o)
          \/ \E n \in 1..MaxRefs : Child(b, n)
          \/ Announce(b)
          \/ \E r \in Requests : Process(b, r)
     \/ \E p \in Parts : Send(p)

Spec == Init /\ [][Next]_vars

(* What is reached from some objects over any lists. *)
After(from) ==
  LET reach[n \in 0..Cardinality(Objects)] ==
        IF n = 0 THEN from
        ELSE LET near == reach[n - 1]
             IN  near \cup UNION {ToSet(refs[b]) : b \in near \cap Boxes}
  IN  reach[Cardinality(Objects)]

OnCycle(b) == b \in After(ToSet(refs[b]))

(* An object a call reaches is alive, and so is what it acts on; a list    *)
(* that owns its objects holds no dead one.  Whatever pointers are put in  *)
(* and dropped in whatever order, what the program can no longer reach is  *)
(* destroyed: there the weak pointers of observer, command and mediator    *)
(* are needed.  Only handlers and pictures can own each other in a cycle,  *)
(* and leave it behind.  Calls end, but for such cycles, for invokers that *)
(* execute each other, and for a message to a mediator that is gone.       *)
OwnedAndReached ==
  /\ \A i \in 1..Len(called) : called[i] \in alive
  /\ Owning => \A b \in alive \cap Boxes : ToSet(refs[b]) \subseteq alive
  /\ roots \subseteq alive
  /\ IF Owning
     THEN alive \ After(roots) \subseteq After({b \in Boxes \cap alive : OnCycle(b)})
     ELSE alive = roots
  /\ kind \in {"observer", "visitor"} => alive = After(roots)
  /\ outcome = "null" => kind = "mediator" /\ Boxes \cap (made \ alive) # {}
  /\ outcome = "endless" => /\ kind \in {"chain", "composite", "command"}
                            /\ \E b \in Boxes \cap alive : OnCycle(b)
=============================================================================
