----------------------------- MODULE Singletons -----------------------------
(***************************************************************************)
(* Two ways to one instance.  "once" is sington/Sington.h: instance() goes *)
(* through pthread_once.  "lazy" is sington/Sington1.h: Instance() creates *)
(* the instance if the pointer is null, GetInstance() throws in that case, *)
(* DestroyInstance() deletes it, and nothing is locked.  Every thread      *)
(* makes calls one after the other; instances are numbered.                *)
(***************************************************************************)
EXTENDS Integers

CONSTANTS Threads,
          Null,
          MaxInstances    \* bound: instances that are created

SingletonAssumption == Null \notin Nat

VARIABLES kind,       \* "once" or "lazy"
          once,       \* once_: "new", "running" or "done"
          pointer,    \* value_, m_pInstance
          created,    \* how many instances there have been
          deleted,    \* those that were deleted
          destroying, \* DestroyInstance has been called
          pc          \* where each thread is

vars == <<kind, once, pointer, created, deleted, destroying, pc>>

Init ==
  /\ kind \in {"once", "lazy"}
  /\ once = "new"
  /\ pointer = Null
  /\ created = 0 /\ deleted = {} /\ destroying = FALSE
  /\ pc = [t \in Threads |-> "idle"]

Goto(t, l) == pc' = [pc EXCEPT ![t] = l]

New == created < MaxInstances /\ created' = created + 1 /\ pointer' = created'

OnceRunsTwice(t) ==   \* fault: a flag that is only set when init is through
  /\ kind = "once" /\ pc[t] = "idle"
  /\ once # "done"
  /\ Goto(t, "init")
  /\ UNCHANGED <<kind, once, pointer, created, deleted, destroying>>

(* pthread_once: one thread runs init, the others wait for it. *)
OnceRuns(t) ==
  /\ kind = "once" /\ pc[t] = "idle"
  /\ once = "new"
  /\ once' = "running"
  /\ Goto(t, "init")
  /\ UNCHANGED <<kind, pointer, created, deleted, destroying>>

OncePasses(t) ==
  /\ kind = "once" /\ pc[t] = "idle"
  /\ once = "done"
  /\ Goto(t, "return")
  /\ UNCHANGED <<kind, once, pointer, created, deleted, destroying>>

init(t) ==
  /\ pc[t] = "init"
  /\ New
  /\ once' = "done"
  /\ Goto(t, "return")
  /\ UNCHANGED <<kind, deleted, destroying>>

(* The pointer is read again and given to the caller. *)
Return(t) ==
  /\ pc[t] = "return"
  /\ Goto(t, "idle")
  /\ UNCHANGED <<kind, once, pointer, created, deleted, destroying>>

Instance(t) ==
  /\ kind = "lazy" /\ pc[t] = "idle"
  /\ Goto(t, IF pointer = Null THEN "create" ELSE "return")
  /\ UNCHANGED <<kind, once, pointer, created, deleted, destroying>>

Create(t) ==
  /\ pc[t] = "create"
  /\ New
  /\ Goto(t, "return")
  /\ UNCHANGED <<kind, once, deleted, destroying>>

GetInstance(t) ==
  /\ kind = "lazy" /\ pc[t] = "idle"
  /\ pointer # Null
  /\ Goto(t, "return")
  /\ UNCHANGED <<kind, once, pointer, created, deleted, destroying>>

(* delete of a null pointer does nothing. *)
Delete(t) ==
  /\ kind = "lazy" /\ pc[t] = "idle"
  /\ deleted' = deleted \cup ({pointer} \ {Null})
  /\ destroying' = TRUE
  /\ Goto(t, "reset")
  /\ UNCHANGED <<kind, once, pointer, created>>

Reset(t) ==
  /\ pc[t] = "reset"
  /\ pointer' = Null
  /\ Goto(t, "idle")
  /\ UNCHANGED <<kind, once, created, deleted, destroying>>

Next ==
  \E t \in Threads :
    \/ OnceRuns(t) \/ OncePasses(t) \/ init(t) \/ Return(t)
    \/ Instance(t) \/ Create(t) \/ GetInstance(t) \/ Delete(t) \/ Reset(t)

Spec == Init /\ [][Next]_vars

TypeOK ==
  /\ kind \in {"once", "lazy"} /\ once \in {"new", "running", "done"}
  /\ created \in Nat /\ pointer \in 1..created \cup {Null}
  /\ destroying \in BOOLEAN
  /\ pc \in [Threads -> {"idle", "init", "return", "create", "reset"}]

(* pthread_once lets one thread through, and nobody out before that one    *)
(* has made the instance; the lazy pointer is only cleared by a destroyer. *)
CallsInv ==
  /\ kind = "once" =>
       /\ once = "done" <=> created = 1
       /\ once # "done" <=> created = 0
       /\ once = "done" => pointer # Null
       /\ \A t \in Threads : /\ pc[t] = "init" => once = "running"
                             /\ pc[t] = "return" => once = "done"
                             /\ pc[t] \notin {"create", "reset"}
       /\ \A t, u \in Threads : pc[t] = "init" /\ pc[u] = "init" => t = u
  /\ kind = "lazy" => \A t \in Threads : pc[t] # "init"
  /\ kind = "lazy" /\ ~destroying =>
       \A t \in Threads : pc[t] # "reset" /\ (pc[t] = "return" => pointer # Null)

(* Whoever calls Sington::instance(), and however the first calls overlap, *)
(* gets the one instance there ever is, and never a null pointer.  The     *)
(* lazy variant may make several under contention, but until somebody      *)
(* destroys it no caller gets a null pointer from it.                      *)
OneInstance ==
  /\ kind = "once" => /\ created <= 1
                      /\ \A t \in Threads : pc[t] = "return" => pointer # Null
  /\ kind = "lazy" /\ ~destroying =>
       \A t \in Threads : pc[t] = "return" => pointer # Null

Inv == TypeOK /\ CallsInv /\ OneInstance
=============================================================================
