--------------------------- MODULE ThreadPoolProofs ---------------------------
(* Proofs about threadpool.cc and threadpool_multiargs.cc for every number    *)
(* of workers, clients and tasks.                                             *)
EXTENDS ThreadPool, SequenceTheorems, FiniteSetTheorems, TLAPS

USE PoolAssumption DEF Threads

\* What the threads hold and know, and the shutdown's wake-up.
Bookkeeping ==
  /\ TypeOK /\ OwnerInv
  /\ \A w \in Workers : WorkerInv(w)
  /\ \A c \in Clients : ClientInv(c)
  /\ ShutdownReachesSleepers

\* The constructor's first state satisfies the inductive invariant.
LEMMA InitInv == Init => Inv
  <1> SUFFICES ASSUME Init PROVE Inv
    OBVIOUS
  <1>1. TypeOK
    <2>1. queue \in Seq(Tasks)
      BY EmptySeq DEF Init
    <2> QED
      BY <2>1 DEF Init, TypeOK
  <1>2. OwnerInv /\ \A w \in Workers : WorkerInv(w)
    BY DEF Init, OwnerInv, WorkerInv
  <1>3. \A c \in Clients : ClientInv(c)
    BY DEF Init, ClientInv
  <1>4. TasksInOnePlace /\ NoLostWakeup /\ ShutdownReachesSleepers
    BY DEF Init, TasksInOnePlace, NoLostWakeup, ShutdownReachesSleepers
  <1> QED
    BY <1>1, <1>2, <1>3, <1>4 DEF Inv
-----------------------------------------------------------------------------
(* The threads                                                               *)

\* The owner constructs the workers, sets done_ under the mutex and wakes all.
LEMMA OwnerKeeps ==
  ASSUME Inv,
         \/ Constructed \/ DtorBegin \/ DtorLock \/ DtorSetsDone \/ DtorNotify
         \/ \E w \in Workers : Spawn(w)
  PROVE  Bookkeeping'
  <1> USE DEF Inv, Constructed, DtorBegin, DtorLock, DtorSetsDone, DtorNotify,
              Spawn, Lock, Unlocked, At, Goto
  <1>1. TypeOK'
    BY DEF TypeOK
  <1>2. OwnerInv'
    BY DEF OwnerInv, TypeOK, ClientInv, WorkerInv
  <1>3. ASSUME NEW u \in Workers PROVE WorkerInv(u)'
    BY DEF WorkerInv, TypeOK, OwnerInv, ClientInv
  <1>4. ASSUME NEW d \in Clients PROVE ClientInv(d)'
    BY DEF ClientInv, TypeOK, OwnerInv, WorkerInv
  <1>5. ShutdownReachesSleepers'
    BY DEF ShutdownReachesSleepers, TypeOK, OwnerInv, WorkerInv
  <1> QED
    BY <1>1, <1>2, <1>3, <1>4, <1>5 DEF Bookkeeping

\* The members are destroyed, by the destructor or by a failing constructor.
LEMMA DestroyKeeps ==
  ASSUME Inv, SpawnFails \/ DtorEnd
  PROVE  Bookkeeping'
  <1> USE DEF Inv, SpawnFails, DtorEnd, DestroyMembers, At, Goto
  <1>0. queue' = <<>> /\ <<>> \in Seq(Tasks)
    BY EmptySeq
  <1>1. TypeOK'
    BY <1>0 DEF TypeOK
  <1>2. OwnerInv'
    BY DEF OwnerInv, TypeOK, ClientInv, WorkerInv
  <1>3. ASSUME NEW u \in Workers PROVE WorkerInv(u)'
    BY DEF WorkerInv, TypeOK, OwnerInv, ClientInv
  <1>4. ASSUME NEW d \in Clients PROVE ClientInv(d)'
    BY DEF ClientInv, TypeOK, OwnerInv, WorkerInv
  <1>5. ShutdownReachesSleepers'
    BY DEF ShutdownReachesSleepers, TypeOK, OwnerInv, WorkerInv
  <1> QED
    BY <1>1, <1>2, <1>3, <1>4, <1>5 DEF Bookkeeping

\* A client calls submit, takes the mutex and, in the end, notifies.
LEMMA SubmitKeeps ==
  ASSUME Inv, NEW c \in Clients,
         (\E k \in Tasks : SubmitBegin(c, k)) \/ SubmitLock(c) \/ SubmitNotify(c)
  PROVE  Bookkeeping'
  <1> USE DEF Inv, SubmitBegin, SubmitLock, SubmitNotify, Lock, Unlocked, At, Goto
  <1>1. TypeOK'
    BY DEF TypeOK
  <1>2. OwnerInv'
    BY DEF OwnerInv, TypeOK, ClientInv, WorkerInv
  <1>3. ASSUME NEW u \in Workers PROVE WorkerInv(u)'
    BY DEF WorkerInv, TypeOK, OwnerInv, ClientInv
  <1>4. ASSUME NEW d \in Clients PROVE ClientInv(d)'
    BY DEF ClientInv, TypeOK, OwnerInv, WorkerInv
  <1>5. ShutdownReachesSleepers'
    BY DEF ShutdownReachesSleepers, TypeOK, OwnerInv, WorkerInv
  <1> QED
    BY <1>1, <1>2, <1>3, <1>4, <1>5 DEF Bookkeeping

\* The task goes from the client to the queue.
LEMMA EnqueueKeeps ==
  ASSUME Inv, NEW c \in Clients, SubmitEnqueue(c)
  PROVE  Bookkeeping'
  <1> USE DEF Inv, SubmitEnqueue, At, Goto
  <1>0. task[c] \in Tasks /\ queue' \in Seq(Tasks) /\ mutex = c
    BY AppendProperties DEF TypeOK, ClientInv
  <1>1. TypeOK'
    BY <1>0 DEF TypeOK
  <1>2. OwnerInv'
    BY <1>0 DEF OwnerInv, TypeOK, ClientInv, WorkerInv
  <1>3. ASSUME NEW u \in Workers PROVE WorkerInv(u)'
    BY <1>0 DEF WorkerInv, TypeOK, OwnerInv, ClientInv
  <1>4. ASSUME NEW d \in Clients PROVE ClientInv(d)'
    BY <1>0 DEF ClientInv, TypeOK, OwnerInv, WorkerInv
  <1>5. ShutdownReachesSleepers'
    BY <1>0 DEF ShutdownReachesSleepers, TypeOK, OwnerInv, WorkerInv
  <1> QED
    BY <1>1, <1>2, <1>3, <1>4, <1>5 DEF Bookkeeping

\* A worker looks at the queue, blocks, wakes up, or ends.
LEMMA WorkerKeeps ==
  ASSUME Inv, NEW w \in Workers,
         \/ WorkerLock(w) \/ WorkerTerminates(w) \/ WorkerExits(w)
         \/ WorkerFindsNothing(w) \/ WorkerWaits(w) \/ SpuriousWakeup(w)
         \/ UsesDestroyed(w)
  PROVE  Bookkeeping'
  <1> USE DEF Inv, WorkerLock, WorkerTerminates, WorkerExits, WorkerFindsNothing,
              WorkerWaits, SpuriousWakeup, UsesDestroyed, Lock, Unlocked, At, Goto
  <1>1. TypeOK'
    BY DEF TypeOK
  <1>2. OwnerInv'
    BY DEF OwnerInv, TypeOK, ClientInv, WorkerInv
  <1>3. ASSUME NEW u \in Workers PROVE WorkerInv(u)'
    BY DEF WorkerInv, TypeOK, OwnerInv, ClientInv
  <1>4. ASSUME NEW d \in Clients PROVE ClientInv(d)'
    BY DEF ClientInv, TypeOK, OwnerInv, WorkerInv
  <1>5. ShutdownReachesSleepers'
    BY DEF ShutdownReachesSleepers, TypeOK, OwnerInv, WorkerInv
  <1> QED
    BY <1>1, <1>2, <1>3, <1>4, <1>5 DEF Bookkeeping

\* The oldest task goes from the queue to a worker.
LEMMA TakeKeeps ==
  ASSUME Inv, NEW w \in Workers, WorkerTakes(w)
  PROVE  Bookkeeping'
  <1> USE DEF Inv, WorkerTakes, At, Goto
  <1>0. /\ Head(queue) \in Tasks /\ queue' \in Seq(Tasks)
        /\ status[Head(queue)] = "queued"
    <2>1. /\ Head(queue) = queue[1] /\ 1 \in 1..Len(queue)
          /\ Head(queue) \in Tasks /\ queue' \in Seq(Tasks)
      BY HeadTailProperties, LenProperties, EmptySeq DEF TypeOK
    <2> QED
      BY <2>1 DEF TasksInOnePlace
  <1>1. TypeOK'
    BY <1>0 DEF TypeOK
  <1>2. OwnerInv'
    BY <1>0 DEF OwnerInv, TypeOK, ClientInv, WorkerInv
  <1>3. ASSUME NEW u \in Workers PROVE WorkerInv(u)'
    BY <1>0 DEF WorkerInv, TypeOK, OwnerInv, ClientInv
  <1>4. ASSUME NEW d \in Clients PROVE ClientInv(d)'
    BY <1>0 DEF ClientInv, TypeOK, OwnerInv, WorkerInv
  <1>5. ShutdownReachesSleepers'
    BY <1>0 DEF ShutdownReachesSleepers, TypeOK, OwnerInv, WorkerInv
  <1> QED
    BY <1>1, <1>2, <1>3, <1>4, <1>5 DEF Bookkeeping

\* A task ends, or what it throws goes into its future.
LEMMA RunKeeps ==
  ASSUME Inv, NEW w \in Workers, WorkerRuns(w)
  PROVE  Bookkeeping'
  <1> USE DEF Inv, WorkerRuns, At, Goto
  <1>0. task[w] \in Tasks /\ status[task[w]] = "running"
    BY DEF TypeOK, WorkerInv, TasksInOnePlace
  <1>1. TypeOK'
    BY <1>0 DEF TypeOK
  <1>2. OwnerInv'
    BY <1>0 DEF OwnerInv, TypeOK, ClientInv, WorkerInv
  <1>3. ASSUME NEW u \in Workers PROVE WorkerInv(u)'
    BY <1>0 DEF WorkerInv, TypeOK, OwnerInv, ClientInv
  <1>4. ASSUME NEW d \in Clients PROVE ClientInv(d)'
    BY <1>0 DEF ClientInv, TypeOK, OwnerInv, WorkerInv
  <1>5. ShutdownReachesSleepers'
    BY <1>0 DEF ShutdownReachesSleepers, TypeOK, OwnerInv, WorkerInv
  <1> QED
    BY <1>1, <1>2, <1>3, <1>4, <1>5 DEF Bookkeeping
-----------------------------------------------------------------------------
(* The tasks                                                                 *)

\* The steps that leave q_, the statuses and the tasks of the workers alone.
Elsewhere ==
  /\ UNCHANGED <<queue, status>>
  /\ \A w \in Workers : task'[w] = task[w]

\* They keep every task in its place.
LEMMA ElsewhereKeeps ==
  ASSUME Inv, Elsewhere
  PROVE  TasksInOnePlace'
  BY DEF Inv, TasksInOnePlace, Elsewhere

\* A task that was new is queued once.
LEMMA EnqueueInPlace ==
  ASSUME Inv, NEW c \in Clients, SubmitEnqueue(c)
  PROVE  TasksInOnePlace'
  <1> USE DEF SubmitEnqueue
  <1> DEFINE n == Len(queue)
  <1>1. /\ task[c] \in Tasks /\ status[task[c]] = "new" /\ queue \in Seq(Tasks)
        /\ \A w \in Workers : task'[w] = task[w]
    BY DEF Inv, TypeOK, ClientInv, At
  <1>2. /\ n \in Nat /\ Len(queue') = n + 1 /\ queue'[n + 1] = task[c]
        /\ \A i \in 1..n : queue'[i] = queue[i]
    BY <1>1, AppendProperties, LenProperties
  <1>3. status' = [status EXCEPT ![task[c]] = "queued"]
    OBVIOUS
  <1>4. \A i \in 1..n : queue[i] # task[c]
    BY <1>1 DEF Inv, TasksInOnePlace
  <1>5. ASSUME NEW k \in Tasks
        PROVE  /\ status'[k] = "queued" <=> \E i \in 1..Len(queue') : queue'[i] = k
               /\ status'[k] = "running" <=> \E w \in Workers : task'[w] = k
    <2>1. CASE k = task[c]
      <3>1. status'[k] = "queued" /\ n + 1 \in 1..Len(queue') /\ queue'[n + 1] = k
        BY <1>1, <1>2, <1>3, <2>1 DEF Inv, TypeOK
      <3>2. \A w \in Workers : task'[w] # k
        BY <1>1, <2>1 DEF Inv, TasksInOnePlace
      <3> QED
        BY <3>1, <3>2
    <2>2. CASE k # task[c]
      <3>1. status'[k] = status[k]
        BY <1>3, <2>2 DEF Inv, TypeOK
      <3>2. (\E i \in 1..Len(queue') : queue'[i] = k)
            <=> \E i \in 1..n : queue[i] = k
        BY <1>2, <2>2
      <3> QED
        BY <1>1, <3>1, <3>2 DEF Inv, TasksInOnePlace
    <2> QED
      BY <2>1, <2>2
  <1>6. ASSUME NEW i \in 1..Len(queue'), NEW j \in 1..Len(queue'),
               queue'[i] = queue'[j]
        PROVE  i = j
    BY <1>2, <1>4, <1>6 DEF Inv, TasksInOnePlace
  <1> QED
    BY <1>1, <1>5, <1>6 DEF Inv, TasksInOnePlace

\* The head of q_ leaves it as one worker takes it.
LEMMA TakeInPlace ==
  ASSUME Inv, NEW w \in Workers, WorkerTakes(w)
  PROVE  TasksInOnePlace'
  <1> USE DEF WorkerTakes
  <1> DEFINE n == Len(queue)
             h == Head(queue)
  <1>1. /\ queue \in Seq(Tasks) /\ n \in Nat \ {0} /\ h = queue[1] /\ h \in Tasks
        /\ Len(queue') = n - 1
        /\ \A i \in 1..(n - 1) : queue'[i] = queue[i + 1]
    BY HeadTailProperties, LenProperties, EmptySeq DEF Inv, TypeOK
  <1>2. task[w] = NoTask
    BY DEF Inv, WorkerInv, At
  <1>3. task' = [task EXCEPT ![w] = h] /\ status' = [status EXCEPT ![h] = "running"]
    OBVIOUS
  <1>4. 1 \in 1..n /\ \A i \in 2..n : i \in 1..n /\ queue[i] # h
    BY <1>1 DEF Inv, TasksInOnePlace
  <1>5. status[h] = "queued" /\ \A u \in Workers : task[u] # h
    BY <1>1, <1>4 DEF Inv, TasksInOnePlace
  <1>6. ASSUME NEW k \in Tasks
        PROVE  /\ status'[k] = "queued" <=> \E i \in 1..Len(queue') : queue'[i] = k
               /\ status'[k] = "running" <=> \E u \in Workers : task'[u] = k
    <2>1. CASE k = h
      <3>1. status'[k] = "running" /\ task'[w] = k
        BY <1>1, <1>3, <2>1 DEF Inv, TypeOK
      <3>2. \A i \in 1..Len(queue') : queue'[i] # k
        BY <1>1, <1>4, <2>1
      <3> QED
        BY <3>1, <3>2
    <2>2. CASE k # h
      <3>1. status'[k] = status[k] /\ \A u \in Workers : task'[u] = k <=> task[u] = k
        BY <1>2, <1>3, <2>2 DEF Inv, TypeOK
      <3>2. (\E i \in 1..Len(queue') : queue'[i] = k)
            <=> \E i \in 1..n : queue[i] = k
        <4>1. ASSUME NEW i \in 1..n, queue[i] = k
              PROVE  i - 1 \in 1..Len(queue') /\ queue'[i - 1] = k
          BY <1>1, <2>2, <4>1
        <4>2. \A i \in 1..Len(queue') : i + 1 \in 1..n /\ queue'[i] = queue[i + 1]
          BY <1>1
        <4> QED
          BY <4>1, <4>2
      <3> QED
        BY <3>1, <3>2 DEF Inv, TasksInOnePlace
    <2> QED
      BY <2>1, <2>2
  <1>7. ASSUME NEW i \in 1..Len(queue'), NEW j \in 1..Len(queue'),
               queue'[i] = queue'[j]
        PROVE  i = j
    <2>1. /\ i + 1 \in 1..n /\ j + 1 \in 1..n /\ i \in Int /\ j \in Int
          /\ queue[i + 1] = queue[j + 1]
      BY <1>1, <1>7
    <2>2. i + 1 = j + 1
      BY <2>1 DEF Inv, TasksInOnePlace
    <2> QED
      BY <2>1, <2>2
  <1>8. \A u, v \in Workers : task'[u] = task'[v] /\ task'[u] # NoTask => u = v
    BY <1>3, <1>5 DEF Inv, TypeOK, TasksInOnePlace
  <1> QED
    BY <1>6, <1>7, <1>8 DEF TasksInOnePlace

\* A task ends with the worker that had it.
LEMMA RunInPlace ==
  ASSUME Inv, NEW w \in Workers, WorkerRuns(w)
  PROVE  TasksInOnePlace'
  <1> USE DEF WorkerRuns
  <1>1. task[w] \in Tasks /\ task[w] # NoTask /\ status[task[w]] = "running"
    BY DEF Inv, TypeOK, WorkerInv, TasksInOnePlace, At
  <1>2. /\ queue' = queue /\ task' = [task EXCEPT ![w] = NoTask]
        /\ status' = [status EXCEPT ![task[w]] = "done"]
    OBVIOUS
  <1>3. ASSUME NEW k \in Tasks
        PROVE  /\ status'[k] = "queued" <=> \E i \in 1..Len(queue) : queue[i] = k
               /\ status'[k] = "running" <=> \E u \in Workers : task'[u] = k
    <2>1. CASE k = task[w]
      <3>1. status'[k] = "done" /\ ~\E i \in 1..Len(queue) : queue[i] = k
        BY <1>1, <1>2, <2>1 DEF Inv, TypeOK, TasksInOnePlace
      <3>2. \A u \in Workers : task'[u] # k
        BY <1>1, <1>2, <2>1 DEF Inv, TypeOK, TasksInOnePlace
      <3> QED
        BY <3>1, <3>2
    <2>2. CASE k # task[w]
      <3>1. status'[k] = status[k] /\ \A u \in Workers : task'[u] = k <=> task[u] = k
        BY <1>1, <1>2, <2>2 DEF Inv, TypeOK
      <3> QED
        BY <3>1 DEF Inv, TasksInOnePlace
    <2> QED
      BY <2>1, <2>2
  <1>4. \A u, v \in Workers : task'[u] = task'[v] /\ task'[u] # NoTask => u = v
    BY <1>2 DEF Inv, TypeOK, TasksInOnePlace
  <1> QED
    BY <1>2, <1>3, <1>4 DEF Inv, TasksInOnePlace

\* Destroyed with q_, a task is in no place.
LEMMA DestroyInPlace ==
  ASSUME Inv, SpawnFails \/ DtorEnd
  PROVE  TasksInOnePlace'
  <1>1. /\ queue' = <<>> /\ task' = task
        /\ status' = [k \in Tasks |-> IF status[k] = "queued" THEN "dropped"
                                      ELSE status[k]]
    BY DEF SpawnFails, DtorEnd, DestroyMembers
  <1>2. Len(queue') = 0
    BY <1>1, EmptySeq
  <1>3. \A k \in Tasks : status'[k] # "queued"
                         /\ (status'[k] = "running" <=> status[k] = "running")
    BY <1>1
  <1> QED
    BY <1>1, <1>2, <1>3 DEF Inv, TasksInOnePlace
-----------------------------------------------------------------------------
(* The sleepers                                                              *)

Notifiers == {c \in Clients : pc[c] = "notify"}
Lookers == {w \in Workers : pc[w] \in {"lock", "check", "run"}}

\* Counting a finite set that gains or loses an element.
LEMMA CountOne ==
  ASSUME NEW S, IsFiniteSet(S), NEW A \in SUBSET S, NEW x \in S
  PROVE  /\ Cardinality(A) \in Nat
         /\ x \notin A => Cardinality(A \union {x}) = Cardinality(A) + 1
         /\ x \in A => Cardinality(A \ {x}) = Cardinality(A) - 1
  BY FS_Subset, FS_AddElement, FS_RemoveElement, FS_CardinalityType

\* Counting two finite sets one of which contains the other.
LEMMA CountMore ==
  ASSUME NEW S, IsFiniteSet(S), NEW B \in SUBSET S, NEW A \in SUBSET B
  PROVE  /\ Cardinality(A) \in Nat /\ Cardinality(B) \in Nat
         /\ Cardinality(A) <= Cardinality(B)
  BY FS_Subset, FS_CardinalityType

\* The numbers that NoLostWakeup compares.
Counted ==
  /\ Len(queue) \in Nat
  /\ Cardinality(Notifiers) \in Nat /\ Cardinality(Lookers) \in Nat

\* They are numbers.
LEMMA Counts == Inv => Counted
  <1>1. Notifiers \in SUBSET Clients /\ Lookers \in SUBSET Workers
    BY DEF Notifiers, Lookers
  <1>2. Cardinality(Notifiers) \in Nat /\ Cardinality(Lookers) \in Nat
    BY <1>1, CountMore
  <1> QED
    BY <1>2, LenProperties DEF Inv, TypeOK, Counted

\* The property in those words.
LEMMA WakeupCounts ==
  NoLostWakeup <=>
    (~gone /\ waiting # {} =>
       Len(queue) <= Cardinality(Notifiers) + Cardinality(Lookers))
  BY DEF NoLostWakeup, Notifiers, Lookers

\* Both in the state after a step.
LEMMA WakeupCountsNext ==
  NoLostWakeup' <=>
    (~gone' /\ waiting' # {} =>
       Len(queue') <= Cardinality(Notifiers') + Cardinality(Lookers'))
  BY DEF NoLostWakeup, Notifiers, Lookers

\* Steps that lose none of those who will look at q_, add no task and put
\* nobody to sleep.
LEMMA CoverKept ==
  ASSUME Inv, waiting' \subseteq waiting, gone' = gone, queue' = queue,
         Notifiers \subseteq Notifiers', Lookers \subseteq Lookers'
  PROVE  NoLostWakeup'
  <1>1. Notifiers' \in SUBSET Clients /\ Lookers' \in SUBSET Workers
    BY DEF Notifiers, Lookers
  <1>2. /\ Cardinality(Notifiers) <= Cardinality(Notifiers')
        /\ Cardinality(Lookers) <= Cardinality(Lookers')
        /\ Cardinality(Notifiers') \in Nat /\ Cardinality(Lookers') \in Nat
    BY <1>1, CountMore
  <1> QED
    BY <1>2, Counts, WakeupCounts, WakeupCountsNext DEF Inv, Counted

\* Steps of the owner, and the end of the members.
LEMMA OwnerCovers ==
  ASSUME Inv,
         \/ Constructed \/ DtorBegin \/ DtorLock \/ DtorSetsDone \/ DtorNotify
         \/ SpawnFails \/ DtorEnd \/ \E w \in Workers : Spawn(w)
  PROVE  NoLostWakeup'
  <1>1. CASE DtorNotify \/ SpawnFails \/ DtorEnd
    BY <1>1, WakeupCountsNext DEF DtorNotify, SpawnFails, DtorEnd, DestroyMembers
  <1>2. CASE Constructed \/ DtorBegin \/ DtorLock \/ DtorSetsDone
             \/ \E w \in Workers : Spawn(w)
    <2> USE DEF Constructed, DtorBegin, DtorLock, DtorSetsDone, Spawn, Lock, At, Goto
    <2>1. Notifiers \subseteq Notifiers' /\ Lookers \subseteq Lookers'
      BY <1>2 DEF Inv, TypeOK, OwnerInv, Notifiers, Lookers
    <2>2. gone' = gone /\ queue' = queue /\ waiting' = waiting
      BY <1>2
    <2> QED
      BY <2>1, <2>2, CoverKept
  <1> QED
    BY <1>1, <1>2

\* Steps of a client: what it enqueues it has to notify, and does.
LEMMA ClientCovers ==
  ASSUME Inv, NEW c \in Clients,
         (\E k \in Tasks : SubmitBegin(c, k)) \/ ClientStep(c)
  PROVE  NoLostWakeup'
  <1>0. TypeOK /\ ClientInv(c)
    BY DEF Inv
  <1>1. CASE (\E k \in Tasks : SubmitBegin(c, k)) \/ SubmitLock(c)
    <2> USE DEF SubmitBegin, SubmitLock, Lock, At, Goto
    <2>1. Notifiers \subseteq Notifiers' /\ Lookers \subseteq Lookers'
      BY <1>0, <1>1 DEF TypeOK, Notifiers, Lookers
    <2>2. gone' = gone /\ queue' = queue /\ waiting' = waiting
      BY <1>1
    <2> QED
      BY <2>1, <2>2, CoverKept
  <1>2. CASE SubmitEnqueue(c)
    <2> USE DEF SubmitEnqueue, At, Goto
    <2>1. Notifiers' = Notifiers \union {c} /\ c \notin Notifiers
      BY <1>0, <1>2 DEF TypeOK, Notifiers
    <2>2. Lookers' = Lookers
      BY <1>0, <1>2 DEF TypeOK, Lookers
    <2>3. Cardinality(Notifiers') = Cardinality(Notifiers) + 1
      BY <2>1, CountOne DEF Notifiers
    <2>4. Len(queue') = Len(queue) + 1
      <3>1. task[c] \in Tasks
        BY <1>0, <1>2 DEF TypeOK, ClientInv
      <3> QED
        BY <1>0, <1>2, <3>1, AppendProperties DEF TypeOK
    <2>5. gone' = gone /\ waiting' = waiting
      BY <1>2
    <2> QED
      BY <2>2, <2>3, <2>4, <2>5, Counts, WakeupCounts, WakeupCountsNext
         DEF Counted, Inv
  <1>3. CASE SubmitNotify(c) /\ waiting = {}
    BY <1>3, WakeupCountsNext DEF SubmitNotify
  <1>4. CASE SubmitNotify(c) /\ waiting # {}
    <2>1. PICK w \in waiting : /\ waiting' = waiting \ {w}
                               /\ pc' = [pc EXCEPT ![c] = "idle", ![w] = "lock"]
      BY <1>4 DEF SubmitNotify
    <2>2. w \in Workers /\ pc[w] = "wait" /\ w # c /\ pc[c] = "notify"
      BY <1>4, <2>1 DEF Inv, TypeOK, WorkerInv, SubmitNotify
    <2>3. Notifiers' = Notifiers \ {c} /\ c \in Notifiers
      BY <1>0, <2>1, <2>2 DEF TypeOK, Notifiers
    <2>4. Lookers' = Lookers \union {w} /\ w \notin Lookers
      BY <1>0, <2>1, <2>2 DEF TypeOK, Lookers
    <2>5. Cardinality(Notifiers') = Cardinality(Notifiers) - 1
      BY <2>3, CountOne DEF Notifiers
    <2>6. Cardinality(Lookers') = Cardinality(Lookers) + 1
      BY <2>2, <2>4, CountOne DEF Lookers
    <2>7. gone' = gone /\ queue' = queue
      BY <1>4 DEF SubmitNotify
    <2> QED
      BY <1>4, <2>5, <2>6, <2>7, Counts, WakeupCounts, WakeupCountsNext
         DEF Counted, Inv
  <1> QED
    BY <1>1, <1>2, <1>3, <1>4 DEF ClientStep

\* Steps of a worker: it sleeps or ends only at an empty queue.
LEMMA WorkerCovers ==
  ASSUME Inv, NEW w \in Workers,
         WorkerStep(w) \/ SpuriousWakeup(w) \/ UsesDestroyed(w)
  PROVE  NoLostWakeup'
  <1> USE DEF At, Goto
  <1>0. TypeOK /\ WorkerInv(w)
    BY DEF Inv
  <1>1. CASE WorkerLock(w) \/ WorkerRuns(w) \/ WorkerTerminates(w)
             \/ SpuriousWakeup(w) \/ UsesDestroyed(w)
    <2> USE DEF WorkerLock, WorkerRuns, WorkerTerminates, SpuriousWakeup,
                UsesDestroyed, Lock
    <2>1. Notifiers \subseteq Notifiers' /\ Lookers \subseteq Lookers'
      BY <1>0, <1>1 DEF TypeOK, Notifiers, Lookers
    <2>2. gone' = gone /\ queue' = queue /\ waiting' \subseteq waiting
      BY <1>1
    <2> QED
      BY <2>1, <2>2, CoverKept
  <1>2. CASE WorkerTakes(w)
    <2> USE DEF WorkerTakes
    <2>1. Notifiers' = Notifiers /\ Lookers' = Lookers
      BY <1>0, <1>2 DEF TypeOK, Notifiers, Lookers
    <2>2. Len(queue') = Len(queue) - 1
      BY <1>0, <1>2, HeadTailProperties DEF TypeOK
    <2>3. gone' = gone /\ waiting' = waiting
      BY <1>2
    <2> QED
      BY <2>1, <2>2, <2>3, Counts, WakeupCounts, WakeupCountsNext DEF Counted, Inv
  <1>3. CASE WorkerExits(w) \/ WorkerFindsNothing(w) \/ WorkerWaits(w)
    <2>1. Len(queue') = 0
      BY <1>0, <1>3, EmptySeq
         DEF WorkerExits, WorkerFindsNothing, WorkerWaits, WorkerInv
    <2>2. Notifiers' \in SUBSET Clients /\ Lookers' \in SUBSET Workers
      BY DEF Notifiers, Lookers
    <2>3. Cardinality(Notifiers') \in Nat /\ Cardinality(Lookers') \in Nat
      BY <2>2, CountMore
    <2> QED
      BY <2>1, <2>3, WakeupCountsNext
  <1> QED
    BY <1>1, <1>2, <1>3 DEF WorkerStep
-----------------------------------------------------------------------------
(* The invariant                                                             *)

\* Every step of the pool keeps the inductive invariant.
LEMMA NextInv == Inv /\ [Next]_vars => Inv'
  <1> SUFFICES ASSUME Inv, [Next]_vars PROVE Inv'
    OBVIOUS
  <1>1. CASE UNCHANGED vars
    BY <1>1 DEF vars, Inv, TypeOK, OwnerInv, WorkerInv, ClientInv,
       TasksInOnePlace, NoLostWakeup, ShutdownReachesSleepers
  <1>2. CASE \/ Constructed \/ DtorBegin \/ DtorLock \/ DtorSetsDone \/ DtorNotify
             \/ \E w \in Workers : Spawn(w)
    <2>1. Elsewhere
      BY <1>2 DEF Elsewhere, Constructed, DtorBegin, DtorLock, DtorSetsDone,
         DtorNotify, Spawn, Lock
    <2> QED
      BY <1>2, <2>1, ElsewhereKeeps, OwnerKeeps, OwnerCovers DEF Inv, Bookkeeping
  <1>3. CASE SpawnFails \/ DtorEnd
    BY <1>3, DestroyInPlace, DestroyKeeps, OwnerCovers DEF Inv, Bookkeeping
  <1>4. ASSUME NEW c \in Clients,
               \/ \E k \in Tasks : SubmitBegin(c, k)
               \/ SubmitLock(c) \/ SubmitNotify(c)
        PROVE  Inv'
    <2>1. Elsewhere
      BY <1>4 DEF Elsewhere, SubmitBegin, SubmitLock, SubmitNotify, Lock, Inv, TypeOK
    <2> QED
      BY <1>4, <2>1, ElsewhereKeeps, SubmitKeeps, ClientCovers
         DEF Inv, Bookkeeping, ClientStep
  <1>5. ASSUME NEW c \in Clients, SubmitEnqueue(c) PROVE Inv'
    BY <1>5, EnqueueInPlace, EnqueueKeeps, ClientCovers
       DEF Inv, Bookkeeping, ClientStep
  <1>6. ASSUME NEW w \in Workers,
               \/ WorkerLock(w) \/ WorkerTerminates(w) \/ WorkerExits(w)
               \/ WorkerFindsNothing(w) \/ WorkerWaits(w) \/ SpuriousWakeup(w)
               \/ UsesDestroyed(w)
        PROVE  Inv'
    <2>1. Elsewhere
      BY <1>6 DEF Elsewhere, WorkerLock, WorkerTerminates, WorkerExits,
         WorkerFindsNothing, WorkerWaits, SpuriousWakeup, UsesDestroyed, Lock
    <2> QED
      BY <1>6, <2>1, ElsewhereKeeps, WorkerKeeps, WorkerCovers
         DEF Inv, Bookkeeping, WorkerStep
  <1>7. ASSUME NEW w \in Workers, WorkerTakes(w) PROVE Inv'
    BY <1>7, TakeInPlace, TakeKeeps, WorkerCovers DEF Inv, Bookkeeping, WorkerStep
  <1>8. ASSUME NEW w \in Workers, WorkerRuns(w) PROVE Inv'
    BY <1>8, RunInPlace, RunKeeps, WorkerCovers DEF Inv, Bookkeeping, WorkerStep
  <1> QED
    BY <1>1, <1>2, <1>3, <1>4, <1>5, <1>6, <1>7, <1>8
       DEF Next, OwnerStep, ClientStep, WorkerStep

\* In every execution of threadpool.cc, with any number of workers, clients
\* and tasks: a task is in one place, a queued task is never forgotten while
\* a worker sleeps, and no worker sleeps through the shutdown.
THEOREM PoolInvariant == Spec => []Inv
  BY InitInv, NextInv, PTL DEF Spec

\* A step keeps the queue drained once a worker has left.
LEMMA NextDrains == Inv /\ DrainsBeforeExit /\ [Next]_vars => DrainsBeforeExit'
  <1> SUFFICES ASSUME Inv, DrainsBeforeExit, [Next]_vars PROVE DrainsBeforeExit'
    OBVIOUS
  <1> USE DEF At, Goto, Lock
  <1>1. CASE queue' = <<>>
    BY <1>1 DEF DrainsBeforeExit
  <1>2. CASE \E c \in Clients : SubmitEnqueue(c)
    <2>1. ~done
      BY <1>2 DEF SubmitEnqueue, Inv, ClientInv, OwnerInv
    <2>2. \A w \in Workers : pc'[w] = pc[w]
      BY <1>2 DEF SubmitEnqueue, Inv, TypeOK
    <2> QED
      BY <2>1, <2>2 DEF Inv, WorkerInv, DrainsBeforeExit
  <1>3. CASE queue' # <<>> /\ ~\E c \in Clients : SubmitEnqueue(c)
    <2> USE <1>3 DEF Next, OwnerStep, ClientStep, WorkerStep, vars,
          Constructed, DtorBegin, DtorLock, DtorSetsDone, DtorNotify, Spawn,
          SpawnFails, DtorEnd, DestroyMembers, SubmitBegin, SubmitLock,
          SubmitNotify, WorkerLock, WorkerTakes, WorkerRuns, WorkerTerminates,
          WorkerExits, WorkerFindsNothing, WorkerWaits, SpuriousWakeup,
          UsesDestroyed
    <2>1. \A w \in Workers : pc'[w] = "exited" => pc[w] = "exited"
      BY DEF Inv, TypeOK
    <2>2. queue # <<>> /\ gone' = gone
      BY EmptySeq
    <2> QED
      BY <2>1, <2>2 DEF DrainsBeforeExit
  <1> QED
    BY <1>1, <1>2, <1>3

\* Workers leave only a drained queue, for every number of them.
THEOREM PoolDrains == Spec => []DrainsBeforeExit
  <1>1. Init => DrainsBeforeExit
    BY DEF Init, DrainsBeforeExit
  <1> QED
    BY <1>1, PoolInvariant, NextDrains, PTL DEF Spec
-----------------------------------------------------------------------------
(* The refinement of TaskPool                                                *)

Closing == gone \/ pc[Owner] \in {"dtorLock", "dtorDone", "dtorNotify", "dtorEnd"}

\* Every step is one of TaskPool's or hides in it.
LEMMA NextRefines == Inv /\ [Next]_vars => [Pool!Next]_Pool!vars
  <1> SUFFICES ASSUME Inv, [Next]_vars PROVE [Pool!Next]_Pool!vars
    OBVIOUS
  <1> USE DEF At, Goto, Lock
  <1>0. TypeOK /\ OwnerInv
    BY DEF Inv
  <1>1. CASE SpawnFails \/ DtorEnd
    <2>1. Closing' /\ status' = [k \in Tasks |-> IF status[k] = "queued" THEN "dropped"
                                                 ELSE status[k]]
      BY <1>1 DEF SpawnFails, DtorEnd, DestroyMembers, Closing
    <2>2. CASE SpawnFails
      <3>1. status' = status
        BY <1>0, <2>1, <2>2 DEF SpawnFails, OwnerInv, TypeOK
      <3> QED
        BY <2>1, <3>1 DEF Pool!Next, Pool!Close, Closing
    <2>3. CASE DtorEnd
      <3>1. Closing
        BY <2>3 DEF DtorEnd, Closing
      <3>2. Pool!Drop
        <4> DEFINE lost == {k \in Tasks : status[k] = "queued"}
        <4>1. status' = [k \in Tasks |-> IF k \in lost THEN "dropped" ELSE status[k]]
          BY <2>1
        <4> QED
          BY <2>1, <3>1, <4>1 DEF Pool!Drop, Closing
      <3> QED
        BY <3>2 DEF Pool!Next
    <2> QED
      BY <1>1, <2>2, <2>3
  <1>2. CASE DtorBegin
    BY <1>0, <1>2 DEF DtorBegin, TypeOK, Pool!Next, Pool!Close
  <1>3. ASSUME NEW c \in Clients, SubmitEnqueue(c) PROVE Pool!Next
    <2>1. task[c] \in Tasks /\ status[task[c]] = "new"
      BY <1>0, <1>3 DEF SubmitEnqueue, Inv, ClientInv, TypeOK
    <2>2. Closing' = Closing
      BY <1>0, <1>3 DEF SubmitEnqueue, TypeOK, Closing
    <2> QED
      BY <1>3, <2>1, <2>2 DEF SubmitEnqueue, Pool!Next, Pool!Submit, Pool!Move, Closing
  <1>4. ASSUME NEW w \in Workers, WorkerTakes(w) PROVE Pool!Next
    <2>1. Head(queue) \in Tasks /\ status[Head(queue)] = "queued"
      <3>1. Head(queue) = queue[1] /\ 1 \in 1..Len(queue) /\ Head(queue) \in Tasks
        BY <1>0, <1>4, HeadTailProperties, LenProperties, EmptySeq
           DEF TypeOK, WorkerTakes
      <3> QED
        BY <3>1 DEF Inv, TasksInOnePlace
    <2>2. Closing' = Closing
      BY <1>0, <1>4 DEF WorkerTakes, TypeOK, Closing
    <2> QED
      BY <1>4, <2>1, <2>2 DEF WorkerTakes, Pool!Next, Pool!Start, Pool!Move, Closing
  <1>5. ASSUME NEW w \in Workers, WorkerRuns(w) PROVE Pool!Next
    <2>1. task[w] \in Tasks /\ status[task[w]] = "running"
      BY <1>0, <1>5 DEF WorkerRuns, Inv, TypeOK, WorkerInv, TasksInOnePlace
    <2>2. Closing' = Closing
      BY <1>0, <1>5 DEF WorkerRuns, TypeOK, Closing
    <2> QED
      BY <1>5, <2>1, <2>2 DEF WorkerRuns, Pool!Next, Pool!Finish, Pool!Move, Closing
  <1>6. CASE \/ Constructed \/ DtorLock \/ DtorSetsDone \/ DtorNotify
             \/ \E w \in Workers : Spawn(w)
    BY <1>0, <1>6 DEF Constructed, DtorLock, DtorSetsDone, DtorNotify, Spawn,
       TypeOK, Pool!vars
  <1>7. ASSUME NEW c \in Clients,
               \/ \E k \in Tasks : SubmitBegin(c, k)
               \/ SubmitLock(c) \/ SubmitNotify(c)
        PROVE  UNCHANGED Pool!vars
    BY <1>0, <1>7 DEF SubmitBegin, SubmitLock, SubmitNotify, TypeOK, Pool!vars
  <1>8. ASSUME NEW w \in Workers,
               \/ WorkerLock(w) \/ WorkerTerminates(w) \/ WorkerExits(w)
               \/ WorkerFindsNothing(w) \/ WorkerWaits(w) \/ SpuriousWakeup(w)
               \/ UsesDestroyed(w)
        PROVE  UNCHANGED Pool!vars
    BY <1>0, <1>8 DEF WorkerLock, WorkerTerminates, WorkerExits,
       WorkerFindsNothing, WorkerWaits, SpuriousWakeup, UsesDestroyed,
       TypeOK, Pool!vars
  <1>9. CASE UNCHANGED vars
    BY <1>9 DEF vars, Pool!vars
  <1> QED
    BY <1>1, <1>2, <1>3, <1>4, <1>5, <1>6, <1>7, <1>8, <1>9
       DEF Next, OwnerStep, ClientStep, WorkerStep

\* threadpool.cc implements TaskPool: a task runs at most once, after its
\* submit, and none is dropped before the pool is being destroyed.
THEOREM PoolRefinesTaskPool == Spec => RefinesTaskPool
  <1>1. Init => Pool!Init
    BY DEF Init, Pool!Init
  <1> QED
    BY <1>1, PoolInvariant, NextRefines, PTL DEF Spec, RefinesTaskPool, Pool!Spec
=============================================================================
