----------------------------- MODULE CopyOnWrite -----------------------------
(***************************************************************************)
(* cppDemoPractice/SmartPtr/copy_on_write.cc: read copies the shared_ptr   *)
(* under the mutex and reads the object without it; write changes the      *)
(* object in place, under the mutex, if its shared_ptr is unique(), and a  *)
(* copy of it otherwise.  A reader drops its shared_ptr without the mutex, *)
(* so the count may fall at any time.  What write does to the object is    *)
(* modelled as one more version.  (UniqueAlways and WriteStartsAfresh,     *)
(* which Next does not use, are faulty forms of what follows them.)        *)
(***************************************************************************)
EXTENDS Integers, FiniteSets

CONSTANTS Threads,
          Objects,     \* addresses an obj may have
          NoThread, NoObject,
          MaxWrites    \* bound: how often write is called

CopyAssumption ==
  /\ IsFiniteSet(Threads)
  /\ NoThread \notin Threads
  /\ NoObject \notin Objects
  /\ MaxWrites \in Nat

VARIABLES
  ptr,      \* ptr_
  count,    \* use_count of the shared_ptrs to each object; 0: not allocated
  version,  \* the object's contents
  mutex,    \* the owner of mutex_
  pc, tmp,  \* where each thread is; tmp in read
  writes,   \* history: how many writes there were
  seen      \* history: the version each reader got hold of

vars == <<ptr, count, version, mutex, pc, tmp, writes, seen>>

Init ==
  /\ ptr \in Objects
  /\ count = [o \in Objects |-> IF o = ptr THEN 1 ELSE 0]
  /\ version = [o \in Objects |-> 0]
  /\ mutex = NoThread
  /\ pc = [t \in Threads |-> "idle"]
  /\ tmp = [t \in Threads |-> NoObject]
  /\ writes = 0
  /\ seen = [t \in Threads |-> 0]

Goto(t, to) == pc' = [pc EXCEPT ![t] = to]
At(t, from, to) == pc[t] = from /\ Goto(t, to)

Unlocked == mutex = NoThread

ReadLock(t) ==
  /\ At(t, "idle", "copyPtr")
  /\ Unlocked
  /\ mutex' = t
  /\ UNCHANGED <<ptr, count, version, tmp, writes, seen>>

\* tmp = ptr_, and the lock_guard ends
ReadCopies(t) ==
  /\ At(t, "copyPtr", "reading")
  /\ tmp' = [tmp EXCEPT ![t] = ptr]
  /\ count' = [count EXCEPT ![ptr] = @ + 1]
  /\ seen' = [seen EXCEPT ![t] = version[ptr]]
  /\ mutex' = NoThread
  /\ UNCHANGED <<ptr, version, writes>>

\* tmp goes out of scope
ReadEnds(t) ==
  /\ At(t, "reading", "idle")
  /\ count' = [count EXCEPT ![tmp[t]] = @ - 1]
  /\ tmp' = [tmp EXCEPT ![t] = NoObject]
  /\ UNCHANGED <<ptr, version, mutex, writes, seen>>

WriteLock(t) ==
  /\ writes < MaxWrites
  /\ At(t, "idle", "test")
  /\ Unlocked
  /\ mutex' = t
  /\ UNCHANGED <<ptr, count, version, tmp, writes, seen>>

UniqueAlways == TRUE
Unique == count[ptr] = 1

WriteFindsUnique(t) ==
  /\ Unique
  /\ At(t, "test", "write")
  /\ UNCHANGED <<ptr, count, version, mutex, tmp, writes, seen>>

WriteFindsShared(t) ==
  /\ ~Unique
  /\ At(t, "test", "copyObj")
  /\ UNCHANGED <<ptr, count, version, mutex, tmp, writes, seen>>

\* ptr_.reset(new obj(*ptr_))
WriteStartsAfresh(t) ==
  /\ At(t, "copyObj", "write")
  /\ \E o \in {x \in Objects : count[x] = 0} :
       /\ ptr' = o
       /\ version' = [version EXCEPT ![o] = 0]
       /\ count' = [count EXCEPT ![o] = 1, ![ptr] = @ - 1]
  /\ UNCHANGED <<mutex, tmp, writes, seen>>
WriteCopies(t) ==
  /\ At(t, "copyObj", "write")
  /\ \E o \in {x \in Objects : count[x] = 0} :
       /\ ptr' = o
       /\ version' = [version EXCEPT ![o] = version[ptr]]
       /\ count' = [count EXCEPT ![o] = 1, ![ptr] = @ - 1]
  /\ UNCHANGED <<mutex, tmp, writes, seen>>

Write(t) ==
  /\ At(t, "write", "idle")
  /\ version' = [version EXCEPT ![ptr] = @ + 1]
  /\ writes' = writes + 1
  /\ mutex' = NoThread
  /\ UNCHANGED <<ptr, count, tmp, seen>>

Next ==
  \E t \in Threads :
    \/ ReadLock(t) \/ ReadCopies(t) \/ ReadEnds(t)
    \/ WriteLock(t) \/ WriteFindsUnique(t) \/ WriteFindsShared(t)
    \/ WriteCopies(t) \/ Write(t)

Spec == Init /\ [][Next]_vars

-----------------------------------------------------------------------------
(* Properties                                                              *)

\* Every variable stays in its type.
TypeOK ==
  /\ ptr \in Objects
  /\ count \in [Objects -> Nat]
  /\ version \in [Objects -> Nat]
  /\ mutex \in Threads \union {NoThread}
  /\ pc \in [Threads -> {"idle", "copyPtr", "reading", "test", "copyObj",
                         "write"}]
  /\ tmp \in [Threads -> Objects \union {NoObject}]
  /\ writes \in Nat
  /\ seen \in [Threads -> Nat]

\* Where a thread is, what it holds: the mutex, a tmp, an object of its own.
ThreadInv(t) ==
  /\ mutex = t <=> pc[t] \in {"copyPtr", "test", "copyObj", "write"}
  /\ tmp[t] # NoObject <=> pc[t] = "reading"
  /\ pc[t] = "write" => \A u \in Threads : tmp[u] # ptr

Readers(o) == {t \in Threads : tmp[t] = o}

\* The count of each object is exact, although readers drop theirs without
\* the mutex: so an object is freed once, and only when nobody refers to it.
CountExact ==
  \A o \in Objects :
    count[o] = Cardinality(Readers(o)) + (IF o = ptr THEN 1 ELSE 0)

\* A reader's object never changes under it, whatever writers do meanwhile.
SnapshotStable ==
  \A t \in Threads : tmp[t] # NoObject => version[tmp[t]] = seen[t]

\* No write is lost: each one starts from the version the last one left,
\* whether it was made in place or on a copy.
NoLostWrite == version[ptr] = writes

\* The inductive invariant of copy_on_write.cc.
Inv ==
  /\ TypeOK
  /\ \A t \in Threads : ThreadInv(t)
  /\ CountExact
  /\ SnapshotStable
  /\ NoLostWrite
=============================================================================
