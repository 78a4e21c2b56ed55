----------------------------- MODULE ThreadPool -----------------------------
(***************************************************************************)
(* threadpool.cc and threadpool_multiargs.cc: one queue, one mutex, one    *)
(* condition variable and n detached workers.  The second file differs     *)
(* only in wrapping a task as a packaged_task, which keeps what it throws. *)
(* The destructor joins nobody: a worker may look at m_, cv_ and q_ after  *)
(* they are destroyed, and the model lets that end in any way (crashed) or *)
(* pass unnoticed.                                                         *)
(* A definition such as WorkerTakesCopy, which Next does not use, is the   *)
(* one after it with a plausible fault, against which a property is tried. *)
(***************************************************************************)
EXTENDS Naturals, Sequences, FiniteSets

CONSTANTS Workers, Clients,
          Owner,      \* the thread that constructs and destroys the pool
          Tasks, NoTask,
          Throwing,   \* the tasks that throw
          Packaged,   \* the pool of threadpool_multiargs.cc
          NoThread

Threads == Workers \union Clients \union {Owner}

ASSUME PoolAssumption ==
  /\ IsFiniteSet(Workers) /\ IsFiniteSet(Clients)
  /\ Workers \intersect Clients = {}
  /\ Owner \notin Workers \union Clients
  /\ NoThread \notin Threads
  /\ NoTask \notin Tasks
  /\ Throwing \subseteq Tasks
  /\ Packaged \in BOOLEAN

VARIABLES
  mutex,     \* the owner of m_
  queue,     \* q_
  done,      \* done_
  waiting,   \* the workers blocked in cv_.wait
  gone,      \* the members of the pool are destroyed
  crashed,   \* std::terminate, or a destroyed member used
  pc, task,  \* where each thread is, with which task
  status     \* history: how far each task has come

vars == <<mutex, queue, done, waiting, gone, crashed, pc, task, status>>

Init ==
  /\ mutex = NoThread
  /\ queue = <<>>
  /\ done = FALSE
  /\ waiting = {}
  /\ gone = FALSE
  /\ crashed = FALSE
  /\ pc = [t \in Threads |-> IF t \in Workers THEN "unborn"
                             ELSE IF t = Owner THEN "ctor" ELSE "idle"]
  /\ task = [t \in Threads |-> NoTask]
  /\ status = [k \in Tasks |-> "new"]

Goto(t, to) == pc' = [pc EXCEPT ![t] = to]
At(t, from, to) == ~crashed /\ pc[t] = from /\ Goto(t, to)

UnlockedAlways == TRUE
Unlocked == mutex = NoThread

Lock(t, from, to) ==
  /\ At(t, from, to)
  /\ Unlocked
  /\ mutex' = t
  /\ UNCHANGED <<queue, done, waiting, gone, crashed, task, status>>

\* the destructors of the members: tasks still in q_ are lost
DestroyMembers ==
  /\ gone' = TRUE
  /\ queue' = <<>>
  /\ status' = [k \in Tasks |-> IF status[k] = "queued" THEN "dropped"
                                ELSE status[k]]
-----------------------------------------------------------------------------
(* The owner: constructor and destructor                                   *)

Spawn(w) ==
  /\ ~crashed /\ pc[Owner] = "ctor"
  /\ pc[w] = "unborn"
  /\ Goto(w, "lock")
  /\ UNCHANGED <<mutex, queue, done, waiting, gone, crashed, task, status>>

Constructed ==
  /\ \A w \in Workers : pc[w] # "unborn"
  /\ At(Owner, "ctor", "open")
  /\ UNCHANGED <<mutex, queue, done, waiting, gone, crashed, task, status>>

\* std::thread throws: no destructor runs, the members go, detached workers stay
SpawnFails ==
  /\ \E w \in Workers : pc[w] = "unborn"
  /\ At(Owner, "ctor", "destroyed")
  /\ DestroyMembers
  /\ UNCHANGED <<mutex, done, waiting, crashed, task>>

\* an object may be destroyed only once no submit on it is in progress
DtorBegin ==
  /\ \A c \in Clients : pc[c] = "idle"
  /\ At(Owner, "open", "dtorLock")
  /\ UNCHANGED <<mutex, queue, done, waiting, gone, crashed, task, status>>

DtorLock == Lock(Owner, "dtorLock", "dtorDone")

DtorSetsDoneSilently ==
  /\ At(Owner, "dtorDone", "dtorEnd")
  /\ done' = TRUE
  /\ mutex' = NoThread
  /\ UNCHANGED <<queue, waiting, gone, crashed, task, status>>
DtorSetsDone ==
  /\ At(Owner, "dtorDone", "dtorNotify")
  /\ done' = TRUE
  /\ mutex' = NoThread
  /\ UNCHANGED <<queue, waiting, gone, crashed, task, status>>

\* cv_.notify_all()
DtorNotify ==
  /\ ~crashed /\ pc[Owner] = "dtorNotify"
  /\ pc' = [t \in Threads |-> IF t = Owner THEN "dtorEnd"
                              ELSE IF t \in waiting THEN "lock" ELSE pc[t]]
  /\ waiting' = {}
  /\ UNCHANGED <<mutex, queue, done, gone, crashed, task, status>>

DtorEnd ==
  /\ At(Owner, "dtorEnd", "destroyed")
  /\ DestroyMembers
  /\ UNCHANGED <<mutex, done, waiting, crashed, task>>
-----------------------------------------------------------------------------
(* submit, called by a client while the pool is open                       *)

SubmitBegin(c, k) ==
  /\ pc[Owner] = "open"
  /\ status[k] = "new"
  /\ \A d \in Clients : task[d] # k
  /\ At(c, "idle", "lock")
  /\ task' = [task EXCEPT ![c] = k]
  /\ UNCHANGED <<mutex, queue, done, waiting, gone, crashed, status>>

SubmitLock(c) == Lock(c, "lock", "enqueue")

SubmitEnqueueMovedFrom(c) ==
  /\ At(c, "enqueue", "notify")
  /\ task' = [task EXCEPT ![c] = NoTask]
  /\ queue' = Append(queue, task'[c])
  /\ status' = [status EXCEPT ![task[c]] = "queued"]
  /\ mutex' = NoThread
  /\ UNCHANGED <<done, waiting, gone, crashed>>
SubmitEnqueue(c) ==
  /\ At(c, "enqueue", "notify")
  /\ queue' = Append(queue, task[c])
  /\ status' = [status EXCEPT ![task[c]] = "queued"]
  /\ task' = [task EXCEPT ![c] = NoTask]
  /\ mutex' = NoThread
  /\ UNCHANGED <<done, waiting, gone, crashed>>

\* cv_.notify_one(), after the lock_guard's scope
SubmitNotify(c) ==
  /\ ~crashed /\ pc[c] = "notify"
  /\ \/ waiting = {} /\ Goto(c, "idle") /\ UNCHANGED waiting
     \/ \E w \in waiting :
          /\ waiting' = waiting \ {w}
          /\ pc' = [pc EXCEPT ![c] = "idle", ![w] = "lock"]
  /\ UNCHANGED <<mutex, queue, done, gone, crashed, task, status>>
-----------------------------------------------------------------------------
(* A worker                                                                *)

\* the first line of the thread, l.lock() after a task, or cv_.wait's return
WorkerLock(w) == Lock(w, "lock", "check")

WorkerTakesCopy(w) ==
  /\ queue # <<>>
  /\ At(w, "check", "run")
  /\ task' = [task EXCEPT ![w] = Head(queue)]
  /\ status' = [status EXCEPT ![Head(queue)] = "running"]
  /\ mutex' = NoThread
  /\ UNCHANGED <<queue, done, waiting, gone, crashed>>
WorkerTakes(w) ==
  /\ queue # <<>>
  /\ At(w, "check", "run")
  /\ task' = [task EXCEPT ![w] = Head(queue)]
  /\ queue' = Tail(queue)
  /\ status' = [status EXCEPT ![Head(queue)] = "running"]
  /\ mutex' = NoThread
  /\ UNCHANGED <<done, waiting, gone, crashed>>

\* the task runs without the lock; a plain task that throws ends the process
WorkerRuns(w) ==
  /\ task[w] \notin Throwing \/ Packaged
  /\ At(w, "run", "lock")
  /\ status' = [status EXCEPT ![task[w]] = "done"]
  /\ task' = [task EXCEPT ![w] = NoTask]
  /\ UNCHANGED <<mutex, queue, done, waiting, gone, crashed>>

WorkerTerminates(w) ==
  /\ ~crashed /\ pc[w] = "run"
  /\ task[w] \in Throwing /\ ~Packaged
  /\ crashed' = TRUE
  /\ UNCHANGED <<mutex, queue, done, waiting, gone, pc, task, status>>

WorkerExitsEarly(w) ==
  /\ done
  /\ At(w, "check", "exited")
  /\ mutex' = NoThread
  /\ UNCHANGED <<queue, done, waiting, gone, crashed, task, status>>
WorkerExits(w) ==
  /\ queue = <<>> /\ done
  /\ At(w, "check", "exited")
  /\ mutex' = NoThread
  /\ UNCHANGED <<queue, done, waiting, gone, crashed, task, status>>

WorkerFindsNothing(w) ==
  /\ queue = <<>> /\ ~done
  /\ At(w, "check", "block")
  /\ UNCHANGED <<mutex, queue, done, waiting, gone, crashed, task, status>>

\* cv_.wait(l): releases m_ and blocks in one step
WorkerWaits(w) ==
  /\ At(w, "block", "wait")
  /\ waiting' = waiting \union {w}
  /\ mutex' = NoThread
  /\ UNCHANGED <<queue, done, gone, crashed, task, status>>

SpuriousWakeup(w) ==
  /\ At(w, "wait", "lock")
  /\ waiting' = waiting \ {w}
  /\ UNCHANGED <<mutex, queue, done, gone, crashed, task, status>>

\* a worker touches a member that is destroyed, which may do anything
UsesDestroyed(w) ==
  /\ gone /\ ~crashed
  /\ pc[w] \in {"lock", "check", "block", "wait"}
  /\ crashed' = TRUE
  /\ UNCHANGED <<mutex, queue, done, waiting, gone, pc, task, status>>
-----------------------------------------------------------------------------
OwnerStep == Constructed \/ DtorLock \/ DtorSetsDone \/ DtorNotify \/ DtorEnd
             \/ \E w \in Workers : Spawn(w)
ClientStep(c) == SubmitLock(c) \/ SubmitEnqueue(c) \/ SubmitNotify(c)
WorkerStep(w) == \/ WorkerLock(w) \/ WorkerTakes(w) \/ WorkerRuns(w)
                 \/ WorkerTerminates(w) \/ WorkerExits(w)
                 \/ WorkerFindsNothing(w) \/ WorkerWaits(w)

Next ==
  \/ OwnerStep \/ SpawnFails \/ DtorBegin
  \/ \E c \in Clients, k \in Tasks : SubmitBegin(c, k)
  \/ \E c \in Clients : ClientStep(c)
  \/ \E w \in Workers : WorkerStep(w) \/ SpuriousWakeup(w) \/ UsesDestroyed(w)

\* The scheduler runs every thread and a contended std::mutex is not withheld
\* from one thread for ever.  Nothing forces a submit or a destruction.
Fairness ==
  /\ WF_vars(OwnerStep) /\ SF_vars(DtorLock)
  /\ \A c \in Clients : WF_vars(ClientStep(c)) /\ SF_vars(SubmitLock(c))
  /\ \A w \in Workers : WF_vars(WorkerStep(w)) /\ SF_vars(WorkerLock(w))

Spec == Init /\ [][Next]_vars /\ Fairness
-----------------------------------------------------------------------------
(* Properties                                                              *)

\* Every variable stays in its type.
TypeOK ==
  /\ mutex \in Threads \union {NoThread}
  /\ queue \in Seq(Tasks)
  /\ done \in BOOLEAN /\ gone \in BOOLEAN /\ crashed \in BOOLEAN
  /\ waiting \subseteq Workers
  /\ pc \in [Threads -> {"unborn", "ctor", "idle", "open", "lock", "check",
                         "run", "block", "wait", "exited", "enqueue", "notify",
                         "dtorLock", "dtorDone", "dtorNotify", "dtorEnd",
                         "destroyed"}]
  /\ task \in [Threads -> Tasks \union {NoTask}]
  /\ status \in [Tasks -> {"new", "queued", "running", "done", "dropped"}]

\* A task is in q_, or in the hands of one worker, exactly while its status
\* says so, and nowhere twice: no task runs twice or falls between the two.
TasksInOnePlace ==
  /\ \A k \in Tasks :
       /\ status[k] = "queued" <=> \E i \in 1..Len(queue) : queue[i] = k
       /\ status[k] = "running" <=> \E w \in Workers : task[w] = k
  /\ \A i, j \in 1..Len(queue) : queue[i] = queue[j] => i = j
  /\ \A u, w \in Workers : task[u] = task[w] /\ task[u] # NoTask => u = w

\* notify_one is called without m_: still no queued task is forgotten.  While
\* a worker sleeps, every task in q_ is covered by a client that has yet to
\* notify or by a worker that has yet to look at q_ before it sleeps.
NoLostWakeup ==
  ~gone /\ waiting # {} =>
    Len(queue) <= Cardinality({c \in Clients : pc[c] = "notify"})
                + Cardinality({w \in Workers : pc[w] \in {"lock", "check", "run"}})

\* done_ is set under m_, so no worker sleeps through the notify_all that
\* follows it: a worker asleep once done_ is set has that wake-up coming.
ShutdownReachesSleepers == done /\ waiting # {} => pc[Owner] = "dtorNotify"

\* A worker leaves only a drained queue: unless the members are destroyed
\* under it, no task is dropped and none is left without a worker.
DrainsBeforeExit ==
  ~gone /\ (\E w \in Workers : pc[w] = "exited") => queue = <<>>

\* Where each thread can be, what it then holds and what it then knows: the
\* part of the inductive invariant that is about single threads.
WorkerInv(w) ==
  /\ pc[w] \in {"unborn", "lock", "check", "run", "block", "wait", "exited"}
  /\ mutex = w <=> pc[w] \in {"check", "block"}
  /\ w \in waiting <=> pc[w] = "wait"
  /\ task[w] # NoTask <=> pc[w] = "run"
  /\ pc[w] = "block" => queue = <<>> /\ ~done
  /\ pc[w] = "exited" => done

ClientInv(c) ==
  /\ pc[c] \in {"idle", "lock", "enqueue", "notify"}
  /\ mutex = c <=> pc[c] = "enqueue"
  /\ task[c] # NoTask <=> pc[c] \in {"lock", "enqueue"}
  /\ task[c] # NoTask => /\ status[task[c]] = "new"
                         /\ \A d \in Clients : task[d] = task[c] => d = c
  /\ pc[c] # "idle" => pc[Owner] = "open"

OwnerInv ==
  /\ pc[Owner] \in {"ctor", "open", "dtorLock", "dtorDone", "dtorNotify",
                    "dtorEnd", "destroyed"}
  /\ mutex = Owner <=> pc[Owner] = "dtorDone"
  /\ done => pc[Owner] \in {"dtorNotify", "dtorEnd", "destroyed"}
  /\ gone <=> pc[Owner] = "destroyed"
  /\ pc[Owner] = "ctor" => \A k \in Tasks : status[k] = "new"

\* The safety of the pool, inductive: its bookkeeping, every sleeper covered.
Inv ==
  /\ TypeOK /\ OwnerInv
  /\ \A w \in Workers : WorkerInv(w)
  /\ \A c \in Clients : ClientInv(c)
  /\ TasksInOnePlace /\ NoLostWakeup /\ ShutdownReachesSleepers

\* A task that was submitted gets a worker, unless the owner destroys the
\* pool or a task ends the process first.
SubmittedTasksStart ==
  \A k \in Tasks :
    status[k] = "queued" ~> status[k] # "queued" \/ gone \/ crashed

\* Once the destructor runs every worker ends, although nobody joins it.
WorkersEnd ==
  done ~> crashed \/ \A w \in Workers : pc[w] = "exited"

Pool == INSTANCE TaskPool
          WITH closing <- gone \/ pc[Owner] \in
                 {"dtorLock", "dtorDone", "dtorNotify", "dtorEnd"}

\* The pool implements TaskPool: at most one run of each task, after its
\* submit, and no task dropped before the pool is being destroyed.
RefinesTaskPool == Pool!Spec
=============================================================================
