-------------------------------- MODULE Pools --------------------------------
(***************************************************************************)
(* The three pools that poll and join, one at a time: kind says which one  *)
(* the program is built with.  ThreadPoolSteal has all the state there is; *)
(* ThreadPool2 uses only its pool queue and ThreadPool2q only that and the *)
(* queue of each worker.  So the properties they share are stated, and     *)
(* their differences told apart, in one place.                             *)
(***************************************************************************)
EXTENDS ThreadPoolSteal

VARIABLE kind  \* "shared": ThreadPool2, "private": ThreadPool2q, "stealing"

allVars == <<vars, kind>>

Shared  == INSTANCE ThreadPool2
Private == INSTANCE ThreadPool2q

PoolsInit ==
  /\ kind \in {"shared", "private", "stealing"}
  /\ Init /\ Shared!Init /\ Private!Init

OnlyStealing == <<published, growing, probe, crashed>>

OwnerMoves ==
  /\ \/ kind = "shared" /\ Shared!OwnerStep /\ UNCHANGED <<local, OnlyStealing>>
     \/ kind = "private" /\ Private!OwnerStep /\ UNCHANGED OnlyStealing
     \/ kind = "stealing" /\ OwnerStep
  /\ UNCHANGED kind

WorkerMoves(w) ==
  /\ \/ /\ kind = "shared"
        /\ Shared!WorkerStep(w)
        /\ UNCHANGED <<local, OnlyStealing>>
     \/ kind = "private" /\ Private!WorkerStep(w) /\ UNCHANGED OnlyStealing
     \/ kind = "stealing" /\ WorkerStep(w)
  /\ UNCHANGED kind

PoolsNext ==
  /\ \/ kind = "shared" /\ Shared!Next /\ UNCHANGED <<local, OnlyStealing>>
     \/ kind = "private" /\ Private!Next /\ UNCHANGED OnlyStealing
     \/ kind = "stealing" /\ Next
  /\ UNCHANGED kind

PoolsSpec ==
  /\ PoolsInit
  /\ [][PoolsNext]_allVars
  /\ WF_allVars(OwnerMoves)
  /\ \A w \in Workers : WF_allVars(WorkerMoves(w))
-----------------------------------------------------------------------------
(* Properties; those that all pools have alike are in JoinablePool         *)

\* Every variable stays in its type.
TypeOK ==
  /\ PoolTypeOK
  /\ queue \in Seq(Tasks)
  /\ local \in [Workers -> Seq(Tasks)]
  /\ published \in Nat
  /\ growing \in BOOLEAN /\ crashed \in BOOLEAN
  /\ probe \in [Workers -> Nat]

Holds(q, k) == \E i \in 1..Len(q) : q[i] = k
NoRepeat(q) == \A i, j \in 1..Len(q) : q[i] = q[j] => i = j

\* A queued task is in exactly one queue, at one place: the pool's if a
\* client submitted it or there are no others, else the queue of one worker,
\* even while its owner and thieves take from both ends of it.
QueuedOnce ==
  /\ \A k \in Tasks :
       status[k] = "queued" <=>
         Holds(queue, k) \/ \E w \in Workers : Holds(local[w], k)
  /\ \A k \in Tasks, u, w \in Workers :
       /\ Holds(local[u], k) => ~Holds(queue, k) /\ Parent[k] # NoTask
       /\ Holds(local[u], k) /\ Holds(local[w], k) => u = w
  /\ NoRepeat(queue) /\ \A w \in Workers : NoRepeat(local[w])

\* A stealing worker never reaches for a deque the constructor has not made:
\* each worker that runs, and each that has tasks, has its deque in the vector.
QueuesPublished ==
  kind = "stealing" =>
    \A w \in Workers :
      worker[w] # "unborn" \/ local[w] # <<>> => w < published

\* What the owner and each worker hold at each point of their code: the part
\* of the inductive invariant that is about single threads.
OwnerInv ==
  /\ kind \in {"shared", "private", "stealing"}
  /\ done => owner \in {"joining", "destroyed"}
  /\ growing => kind = "stealing" /\ owner = "ctor" /\ published \in Workers
  /\ published <= Cardinality(Workers)

WorkerInv(w) ==
  /\ task[w] # NoTask <=> worker[w] = "run"
  /\ w \in joined => worker[w] = "exited"
  /\ owner = "destroyed" => worker[w] \in {"unborn", "exited"}
  /\ kind = "shared" => local[w] = <<>>
  /\ kind = "private" /\ worker[w] \in {"unborn", "exited"} => local[w] = <<>>

\* No task is lost between the queues and the workers, or in two places.
TaskInOnePlace ==
  /\ TypeOK /\ OwnerInv /\ \A w \in Workers : WorkerInv(w)
  /\ QueuedOnce /\ OneWorkerPerTask /\ QueuesPublished

\* In ThreadPool2q nobody else looks into a worker's queue: a task that waits
\* in get() for a task it submitted itself waits for ever.
AwaitedChildNeverRuns ==
  kind = "private" => \A k \in Awaits : status[k] \notin {"running", "done"}

\* A queued task starts unless the pool closes or every worker is blocked in
\* get(); only in ThreadPool2q is one blocked worker enough, for its own
\* queue, while stealing frees the tasks behind a blocked worker.
Progress ==
  \A k \in Tasks :
    status[k] = "queued" ~>
      \/ status[k] # "queued" \/ done \/ crashed
      \/ \A w \in Workers : Blocked(w)
      \/ kind = "private" /\ \E w \in Workers : Holds(local[w], k) /\ Blocked(w)

\* main of ThreadPoolSteal.cc constructs a pool, submits a task and prints what
\* its future yields: constructing is not expected to end the process.
ConstructionIsSafe == ~crashed
=============================================================================
