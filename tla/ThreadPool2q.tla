---------------------------- MODULE ThreadPool2q ----------------------------
(***************************************************************************)
(* threadpool2q.cc: as ThreadPool2, but each worker has a thread_local     *)
(* std::queue, into which the tasks it runs submit and from which it takes *)
(* before it looks at the pool's queue.  Only its owner ever touches it.   *)
(***************************************************************************)
EXTENDS JoinablePool

VARIABLES queue,  \* pool_queue_
          local   \* local_queue_ of each worker

queues == <<queue, local>>
vars == <<poolVars, queues>>

Init ==
  /\ PoolInit
  /\ queue = <<>>
  /\ local = [w \in Workers |-> <<>>]

\* local_queue_.reset(new std::queue)
WorkerStarts(w) == MovesOn(w, "start", "loop") /\ UNCHANGED queues

\* submit in a thread that has no local_queue_
SubmitToPool(k) ==
  /\ ClientSubmits(k)
  /\ queue' = Append(queue, k)
  /\ UNCHANGED local

SubmitShared(w, k) ==
  /\ TaskSubmits(w, k)
  /\ queue' = Append(queue, k)
  /\ UNCHANGED local
SubmitToLocal(w, k) ==
  /\ TaskSubmits(w, k)
  /\ local' = [local EXCEPT ![w] = Append(@, k)]
  /\ UNCHANGED queue

PopsLocal(w) ==
  /\ local[w] # <<>>
  /\ Runs(w, "local", Head(local[w]))
  /\ local' = [local EXCEPT ![w] = Tail(@)]
  /\ UNCHANGED queue

LocalEmpty(w) ==
  local[w] = <<>> /\ MovesOn(w, "local", "pool") /\ UNCHANGED queues

PopsPool(w) ==
  /\ queue # <<>>
  /\ Runs(w, "pool", Head(queue))
  /\ queue' = Tail(queue)
  /\ UNCHANGED local

Misses(w) == queue = <<>> /\ MovesOn(w, "pool", "loop") /\ UNCHANGED queues

\* the thread_local queue is destroyed with its thread, tasks included
WorkerEndsKeeping(w) ==
  /\ done
  /\ At(w, "loop", "exited")
  /\ local' = [local EXCEPT ![w] = <<>>]
  /\ UNCHANGED <<done, owner, joined, task, status, queue>>
WorkerEnds(w) ==
  /\ done
  /\ At(w, "loop", "exited")
  /\ Mark({local[w][i] : i \in 1..Len(local[w])}, "dropped")
  /\ local' = [local EXCEPT ![w] = <<>>]
  /\ UNCHANGED <<done, owner, joined, task, queue>>

DestroyPool == Destroy /\ queue' = <<>> /\ UNCHANGED local

OwnerStep ==
  \/ (Constructed \/ \E w \in Workers : Spawn(w) \/ Join(w)) /\ UNCHANGED queues
  \/ DestroyPool

WorkerStep(w) ==
  \/ WorkerStarts(w) \/ PopsLocal(w) \/ LocalEmpty(w) \/ PopsPool(w)
  \/ Misses(w) \/ WorkerEnds(w)
  \/ (EntersBody(w, "local") \/ Finishes(w)) /\ UNCHANGED queues
  \/ \E k \in Tasks : SubmitToLocal(w, k)

Next ==
  \/ OwnerStep
  \/ (SpawnFails \/ DtorBegin) /\ UNCHANGED queues
  \/ \E k \in Tasks : SubmitToPool(k)
  \/ \E w \in Workers : WorkerStep(w)

\* Every thread that can run is scheduled; clients may submit nothing and
\* nobody has to destroy the pool.
Fairness == WF_vars(OwnerStep) /\ \A w \in Workers : WF_vars(WorkerStep(w))

Spec == Init /\ [][Next]_vars /\ Fairness
=============================================================================
