----------------------------- MODULE ThreadPool2 -----------------------------
(***************************************************************************)
(* threadpool2.cc: workers that poll one ConcurrentQueue.  The queue is    *)
(* the FIFO that module ConcurrentQueue is shown to implement, so a push   *)
(* and a try_pop are one step each.                                        *)
(***************************************************************************)
EXTENDS JoinablePool

VARIABLE queue  \* q_

vars == <<poolVars, queue>>

Init == PoolInit /\ queue = <<>>

\* a worker has nothing to do before its loop
WorkerStarts(w) == MovesOn(w, "start", "loop") /\ UNCHANGED queue

Submit(k) ==
  /\ ClientSubmits(k) \/ \E w \in Workers : TaskSubmits(w, k)
  /\ queue' = Append(queue, k)

PopsKeeping(w) ==
  /\ queue # <<>>
  /\ Runs(w, "pool", Head(queue))
  /\ UNCHANGED queue
Pops(w) ==
  /\ queue # <<>>
  /\ Runs(w, "pool", Head(queue))
  /\ queue' = Tail(queue)

\* try_pop fails and the worker yields
Misses(w) == queue = <<>> /\ MovesOn(w, "pool", "loop") /\ UNCHANGED queue

DestroyPool == Destroy /\ queue' = <<>>

OwnerStep ==
  \/ (Constructed \/ \E w \in Workers : Spawn(w) \/ Join(w)) /\ UNCHANGED queue
  \/ DestroyPool

WorkerStep(w) ==
  \/ WorkerStarts(w) \/ Pops(w) \/ Misses(w)
  \/ (SeesDone(w) \/ EntersBody(w, "pool") \/ Finishes(w)) /\ UNCHANGED queue
  \/ \E k \in Tasks : TaskSubmits(w, k) /\ Submit(k)

Next ==
  \/ OwnerStep
  \/ (SpawnFails \/ DtorBegin) /\ UNCHANGED queue
  \/ \E k \in Tasks : Submit(k)
  \/ \E w \in Workers : WorkerStep(w)

\* Every thread that can run is scheduled; clients may submit nothing and
\* nobody has to destroy the pool.
Fairness == WF_vars(OwnerStep) /\ \A w \in Workers : WF_vars(WorkerStep(w))

Spec == Init /\ [][Next]_vars /\ Fairness
=============================================================================
