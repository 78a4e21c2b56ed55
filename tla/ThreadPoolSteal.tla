--------------------------- MODULE ThreadPoolSteal ---------------------------
(***************************************************************************)
(* ThreadPoolSteal.cc: each worker has a deque that all workers can reach  *)
(* through a vector.  Its owner uses the front, and a worker that finds    *)
(* neither a task of its own nor one in the pool's queue steals from the   *)
(* back of the others' in turn.  The constructor still appends to that     *)
(* vector while the workers it has started already read it, under no lock: *)
(* a read during an append sees the old vector or freed memory.            *)
(***************************************************************************)
EXTENDS JoinablePool

ASSUME WorkersAssumption ==
  IsFiniteSet(Workers) /\ Workers = 0..(Cardinality(Workers) - 1)

VARIABLES queue,      \* pool_queue_
          local,      \* the deque of each worker, its front first
          published,  \* work_stealing_queue_.size()
          growing,    \* the constructor is inside emplace_back
          probe,      \* i in pop_task_from_other_thread_queue
          crashed     \* a worker read the vector while it was reallocated

stealing == <<queue, local, published, growing, probe, crashed>>
vars == <<poolVars, stealing>>

Init ==
  /\ PoolInit
  /\ queue = <<>>
  /\ local = [w \in Workers |-> <<>>]
  /\ published = 0
  /\ growing = FALSE
  /\ probe = [w \in Workers |-> 0]
  /\ crashed = FALSE
-----------------------------------------------------------------------------
(* Constructor: for each i, emplace_back a deque, then start worker i      *)

EmplaceBegin ==
  /\ owner = "ctor" /\ ~growing
  /\ published \in Workers
  /\ \A w \in 0..(published - 1) : worker[w] # "unborn"
  /\ growing' = TRUE
  /\ UNCHANGED <<poolVars, queue, local, published, probe, crashed>>

EmplaceEnd ==
  /\ growing
  /\ growing' = FALSE
  /\ published' = published + 1
  /\ UNCHANGED <<poolVars, queue, local, probe, crashed>>

StartWorker(w) ==
  /\ ~growing /\ w < published
  /\ Spawn(w)
  /\ UNCHANGED stealing

CtorFails == ~growing /\ SpawnFails /\ UNCHANGED stealing

DestroyPool ==
  /\ Destroy
  /\ queue' = <<>>
  /\ local' = [w \in Workers |-> <<>>]
  /\ UNCHANGED <<published, growing, probe, crashed>>
-----------------------------------------------------------------------------
(* submit                                                                  *)

SubmitToPool(k) ==
  /\ ClientSubmits(k)
  /\ queue' = Append(queue, k)
  /\ UNCHANGED <<local, published, growing, probe, crashed>>

SubmitToLocal(w, k) ==
  /\ TaskSubmits(w, k)
  /\ local' = [local EXCEPT ![w] = <<k>> \o @]
  /\ UNCHANGED <<queue, published, growing, probe, crashed>>
-----------------------------------------------------------------------------
(* A worker                                                                *)

\* local_queue_ = work_stealing_queue_[index_].get()
WorkerStarts(w) == MovesOn(w, "start", "loop") /\ UNCHANGED stealing

PopsLocal(w) ==
  /\ local[w] # <<>>
  /\ Runs(w, "local", Head(local[w]))
  /\ local' = [local EXCEPT ![w] = Tail(@)]
  /\ UNCHANGED <<queue, published, growing, probe, crashed>>

LocalEmpty(w) ==
  local[w] = <<>> /\ MovesOn(w, "local", "pool") /\ UNCHANGED stealing

PopsPool(w) ==
  /\ queue # <<>>
  /\ Runs(w, "pool", Head(queue))
  /\ queue' = Tail(queue)
  /\ UNCHANGED <<local, published, growing, probe, crashed>>

PoolEmpty(w) ==
  /\ queue = <<>>
  /\ MovesOn(w, "pool", "steal")
  /\ probe' = [probe EXCEPT ![w] = 0]
  /\ UNCHANGED <<queue, local, published, growing, crashed>>

Victim(w) == (w + probe[w] + 1) % published

StealsNotLast(w) ==
  /\ probe[w] < published
  /\ LET q == local[Victim(w)]
     IN  /\ Len(q) > 1
         /\ Runs(w, "steal", q[Len(q)])
         /\ local' = [local EXCEPT ![Victim(w)] = SubSeq(q, 1, Len(q) - 1)]
  /\ UNCHANGED <<queue, published, growing, probe, crashed>>
Steals(w) ==
  /\ probe[w] < published
  /\ LET q == local[Victim(w)]
     IN  /\ q # <<>>
         /\ Runs(w, "steal", q[Len(q)])
         /\ local' = [local EXCEPT ![Victim(w)] = SubSeq(q, 1, Len(q) - 1)]
  /\ UNCHANGED <<queue, published, growing, probe, crashed>>

NextVictim(w) ==
  /\ probe[w] < published
  /\ local[Victim(w)] = <<>>
  /\ MovesOn(w, "steal", "steal")
  /\ probe' = [probe EXCEPT ![w] = @ + 1]
  /\ UNCHANGED <<queue, local, published, growing, crashed>>

\* every queue was tried in vain, and the worker yields
NothingToSteal(w) ==
  probe[w] >= published /\ MovesOn(w, "steal", "loop") /\ UNCHANGED stealing

\* emplace_back frees the old array under a worker that reads it
ReadsFreedVector(w) ==
  /\ growing
  /\ worker[w] \in {"start", "steal"}
  /\ crashed' = TRUE
  /\ UNCHANGED <<poolVars, queue, local, published, growing, probe>>
-----------------------------------------------------------------------------
OwnerStep ==
  /\ ~crashed
  /\ \/ EmplaceBegin \/ EmplaceEnd \/ DestroyPool
     \/ \E w \in Workers : StartWorker(w) \/ (Join(w) /\ UNCHANGED stealing)
     \/ Constructed /\ UNCHANGED stealing

WorkerStep(w) ==
  /\ ~crashed
  /\ \/ WorkerStarts(w) \/ PopsLocal(w) \/ LocalEmpty(w) \/ PopsPool(w)
     \/ PoolEmpty(w) \/ Steals(w) \/ NextVictim(w) \/ NothingToSteal(w)
     \/ (SeesDone(w) \/ EntersBody(w, "local") \/ Finishes(w))
        /\ UNCHANGED stealing
     \/ \E k \in Tasks : SubmitToLocal(w, k)

Next ==
  \/ OwnerStep
  \/ \E w \in Workers : WorkerStep(w)
  \/ /\ ~crashed
     /\ \/ CtorFails
        \/ DtorBegin /\ UNCHANGED stealing
        \/ \E k \in Tasks : SubmitToPool(k)
        \/ \E w \in Workers : ReadsFreedVector(w)

\* Every thread that can run is scheduled; clients may submit nothing and
\* nobody has to destroy the pool.
Fairness == WF_vars(OwnerStep) /\ \A w \in Workers : WF_vars(WorkerStep(w))

Spec == Init /\ [][Next]_vars /\ Fairness
=============================================================================
