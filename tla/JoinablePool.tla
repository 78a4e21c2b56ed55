---------------------------- MODULE JoinablePool ----------------------------
(***************************************************************************)
(* What threadpool2.cc, threadpool2q.cc and ThreadPoolSteal.cc have in     *)
(* common: a constructor that starts the workers and cleans up if one      *)
(* cannot be started, a destructor that joins them, the worker's           *)
(* `while (!done_)` loop, and tasks, which may submit other tasks and wait *)
(* in future::get for them.  Where a task is queued is left to the pool    *)
(* that extends this module.  A definition that no next-state relation     *)
(* uses, such as AllJoinedUnchecked, is the one after it with a plausible  *)
(* fault, against which a property is tried.                               *)
(***************************************************************************)
EXTENDS Naturals, Sequences, FiniteSets

CONSTANTS Workers,  \* as many as hardware_concurrency() says, maybe none
          Tasks, NoTask,
          Parent,   \* the task that submits a task, or NoTask for a client
          Awaits    \* the tasks whose parent calls get() on their future

ASSUME JoinableAssumption ==
  /\ NoTask \notin Tasks
  /\ Parent \in [Tasks -> Tasks \union {NoTask}]
  /\ Awaits \subseteq {k \in Tasks : Parent[k] # NoTask}

VARIABLES
  done,    \* done_
  owner,   \* where the thread is that constructs and destroys the pool
  joined,  \* the elements of threads_ already joined
  worker,  \* where each worker is
  task,    \* the task each worker runs
  status   \* history: how far each task has come

poolVars == <<done, owner, joined, worker, task, status>>

PoolInit ==
  /\ done = FALSE
  /\ owner = "ctor"
  /\ joined = {}
  /\ worker = [w \in Workers |-> "unborn"]
  /\ task = [w \in Workers |-> NoTask]
  /\ status = [k \in Tasks |-> "new"]

PoolTypeOK ==
  /\ done \in BOOLEAN
  /\ owner \in {"ctor", "open", "joining", "destroyed"}
  /\ joined \subseteq Workers
  /\ worker \in [Workers -> {"unborn", "start", "loop", "local", "pool",
                             "steal", "run", "exited"}]
  /\ task \in [Workers -> Tasks \union {NoTask}]
  /\ status \in [Tasks -> {"new", "queued", "running", "done", "dropped"}]

Goto(w, to) == worker' = [worker EXCEPT ![w] = to]
At(w, from, to) == worker[w] = from /\ Goto(w, to)

Mark(S, stage) ==
  status' = [k \in Tasks |-> IF k \in S THEN stage ELSE status[k]]
-----------------------------------------------------------------------------
(* Constructor and destructor                                              *)

Spawn(w) ==
  /\ owner = "ctor"
  /\ At(w, "unborn", "start")
  /\ UNCHANGED <<done, owner, joined, task, status>>

Constructed ==
  /\ owner = "ctor"
  /\ \A w \in Workers : worker[w] # "unborn"
  /\ owner' = "open"
  /\ UNCHANGED <<done, joined, worker, task, status>>

\* std::thread throws: the handler sets done_ and joins what was started
SpawnFails ==
  /\ owner = "ctor"
  /\ \E w \in Workers : worker[w] = "unborn"
  /\ owner' = "joining"
  /\ done' = TRUE
  /\ UNCHANGED <<joined, worker, task, status>>

DtorBeginForgetsDone ==
  /\ owner = "open"
  /\ owner' = "joining"
  /\ UNCHANGED <<done, joined, worker, task, status>>
DtorBegin ==
  /\ owner = "open"
  /\ owner' = "joining"
  /\ done' = TRUE
  /\ UNCHANGED <<joined, worker, task, status>>

Join(w) ==
  /\ owner = "joining"
  /\ worker[w] = "exited"
  /\ w \notin joined
  /\ joined' = joined \union {w}
  /\ UNCHANGED <<done, owner, worker, task, status>>

\* the loop over threads_ is through
AllJoinedUnchecked == TRUE
AllJoined == \A w \in Workers : worker[w] = "unborn" \/ w \in joined

\* the members are destroyed: what is queued breaks its promise
Destroy ==
  /\ owner = "joining"
  /\ AllJoined
  /\ owner' = "destroyed"
  /\ Mark({k \in Tasks : status[k] = "queued"}, "dropped")
  /\ UNCHANGED <<done, joined, worker, task>>
-----------------------------------------------------------------------------
(* The worker's loop and the tasks                                         *)

SeesDone(w) ==
  /\ done
  /\ At(w, "loop", "exited")
  /\ UNCHANGED <<done, owner, joined, task, status>>

\* done_ is false, so the body of the loop begins at its first pop
EntersBody(w, first) ==
  /\ ~done
  /\ At(w, "loop", first)
  /\ UNCHANGED <<done, owner, joined, task, status>>

MovesOn(w, from, to) ==
  /\ At(w, from, to)
  /\ UNCHANGED <<done, owner, joined, task, status>>

Runs(w, from, k) ==
  /\ At(w, from, "run")
  /\ task' = [task EXCEPT ![w] = k]
  /\ Mark({k}, "running")
  /\ UNCHANGED <<done, owner, joined>>

\* a client's submit, or one made by the task that w runs
ClientSubmits(k) ==
  /\ owner = "open"
  /\ Parent[k] = NoTask /\ status[k] = "new"
  /\ Mark({k}, "queued")
  /\ UNCHANGED <<done, owner, joined, worker, task>>

TaskSubmits(w, k) ==
  /\ worker[w] = "run"
  /\ Parent[k] = task[w] /\ status[k] = "new"
  /\ Mark({k}, "queued")
  /\ UNCHANGED <<done, owner, joined, worker, task>>

Children(w) == {k \in Tasks : Parent[k] = task[w]}

\* the task of w is blocked in get() until the future of k is ready
WaitsFor(w, k) ==
  /\ worker[w] = "run"
  /\ k \in Children(w) \intersect Awaits
  /\ status[k] \in {"queued", "running"}

Blocked(w) == \E k \in Tasks : WaitsFor(w, k)

\* packaged_task stores the result, or what the task throws
Finishes(w) ==
  /\ ~Blocked(w)
  /\ \A k \in Children(w) : status[k] # "new"
  /\ At(w, "run", "loop")
  /\ Mark({task[w]}, "done")
  /\ task' = [task EXCEPT ![w] = NoTask]
  /\ UNCHANGED <<done, owner, joined>>
-----------------------------------------------------------------------------
(* Properties every such pool has                                          *)

\* The destructor is through only when every worker that was started has
\* ended, so ~thread never meets a joinable thread (which would terminate)
\* and no worker looks at a member that is destroyed; and nobody is left
\* waiting in get() for a task that is gone.
QuietWhenDestroyed ==
  owner = "destroyed" =>
    /\ \A w \in Workers : worker[w] \in {"unborn", "exited"}
    /\ \A k \in Tasks : status[k] \in {"new", "done", "dropped"}

\* A task runs on one worker at a time, and only while it is marked so.
OneWorkerPerTask ==
  /\ \A k \in Tasks : status[k] = "running" <=> \E w \in Workers : task[w] = k
  /\ \A u, w \in Workers : task[u] = task[w] /\ task[u] # NoTask => u = w

\* The destructor, or the handler of a failed constructor, comes to an end
\* unless a worker it waits for is blocked in get() on a task that now no worker will run.
JoinEnds ==
  owner = "joining" ~>
    \/ owner = "destroyed"
    \/ \E w \in Workers, k \in Tasks : WaitsFor(w, k) /\ status[k] = "queued"

Pool == INSTANCE TaskPool WITH closing <- owner \in {"joining", "destroyed"}

\* Each pool implements TaskPool: a task runs at most once, and is dropped
\* only by a pool that is being destroyed.
RefinesTaskPool == Pool!Spec
=============================================================================
