----------------------------- MODULE PoolsProofs -----------------------------
(***************************************************************************)
(* Proofs about threadpool2.cc, threadpool2q.cc and ThreadPoolSteal.cc for *)
(* every number of workers and every tree of tasks that submit tasks.  A   *)
(* step of any of the three is first shown to be one of a few effects on   *)
(* the queues (CommonStep); the invariants are then proved for effects.    *)
(***************************************************************************)
EXTENDS Pools, SequenceTheorems, FiniteSetTheorems, TLAPS

USE JoinableAssumption, WorkersAssumption
-----------------------------------------------------------------------------
(* What the operations of the queues do to their contents                    *)

\* An empty queue holds nothing.
LEMMA HoldsNothing ==
  /\ \A k : ~Holds(<<>>, k)
  /\ NoRepeat(<<>>)
  /\ <<>> \in Seq(Tasks)
  <1>1. Len(<<>>) = 0 /\ <<>> \in Seq(Tasks)
    BY EmptySeq
  <1> QED
    BY <1>1 DEF Holds, NoRepeat

\* push, at the back of a queue.
LEMMA HoldsAppend ==
  ASSUME NEW s \in Seq(Tasks), NEW k \in Tasks
  PROVE  /\ Append(s, k) \in Seq(Tasks)
         /\ \A x : Holds(Append(s, k), x) <=> Holds(s, x) \/ x = k
         /\ NoRepeat(s) /\ ~Holds(s, k) => NoRepeat(Append(s, k))
  <1> DEFINE n == Len(s)
             r == Append(s, k)
  <1>1. /\ n \in Nat /\ r \in Seq(Tasks) /\ Len(r) = n + 1 /\ r[n + 1] = k
        /\ \A i \in 1..n : r[i] = s[i]
    BY AppendProperties, LenProperties
  <1>2. ASSUME NEW x PROVE Holds(r, x) <=> Holds(s, x) \/ x = k
    BY <1>1 DEF Holds
  <1>3. ASSUME NoRepeat(s), ~Holds(s, k) PROVE NoRepeat(r)
    BY <1>1, <1>3 DEF NoRepeat, Holds
  <1> QED
    BY <1>1, <1>2, <1>3

\* push_front of a stealing worker's own deque.
LEMMA HoldsCons ==
  ASSUME NEW s \in Seq(Tasks), NEW k \in Tasks
  PROVE  /\ <<k>> \o s \in Seq(Tasks)
         /\ \A x : Holds(<<k>> \o s, x) <=> Holds(s, x) \/ x = k
         /\ NoRepeat(s) /\ ~Holds(s, k) => NoRepeat(<<k>> \o s)
  <1> DEFINE n == Len(s)
             r == <<k>> \o s
  <1>1. <<k>> \in Seq(Tasks) /\ Len(<<k>>) = 1 /\ <<k>>[1] = k
    OBVIOUS
  <1>2. /\ n \in Nat /\ r \in Seq(Tasks) /\ Len(r) = n + 1
        /\ \A i \in 1..(n + 1) : r[i] = IF i <= 1 THEN <<k>>[i] ELSE s[i - 1]
    BY <1>1, ConcatProperties, LenProperties
  <1>3. r[1] = k /\ \A i \in 1..n : r[i + 1] = s[i]
    BY <1>1, <1>2
  <1>4. ASSUME NEW x PROVE Holds(r, x) <=> Holds(s, x) \/ x = k
    <2>1. ASSUME NEW i \in 1..Len(r), r[i] = x PROVE Holds(s, x) \/ x = k
      <3>1. i = 1 \/ (i - 1 \in 1..n /\ r[(i - 1) + 1] = x)
        BY <1>2, <2>1
      <3> QED
        BY <1>3, <3>1, <2>1 DEF Holds
    <2>2. ASSUME NEW i \in 1..n, s[i] = x PROVE Holds(r, x)
      <3>1. i + 1 \in 1..Len(r) /\ r[i + 1] = x
        BY <1>2, <1>3, <2>2
      <3> QED
        BY <3>1 DEF Holds
    <2>3. x = k => Holds(r, x)
      BY <1>2, <1>3 DEF Holds
    <2> QED
      BY <2>1, <2>2, <2>3 DEF Holds
  <1>5. ASSUME NoRepeat(s), ~Holds(s, k),
               NEW i \in 1..Len(r), NEW j \in 1..Len(r), r[i] = r[j]
        PROVE  i = j
    <2>1. CASE i = 1 /\ j # 1
      <3>1. j - 1 \in 1..n /\ s[j - 1] = k
        BY <1>2, <1>3, <1>5, <2>1
      <3> QED
        BY <1>5, <3>1 DEF Holds
    <2>2. CASE i # 1 /\ j = 1
      <3>1. i - 1 \in 1..n /\ s[i - 1] = k
        BY <1>2, <1>3, <1>5, <2>2
      <3> QED
        BY <1>5, <3>1 DEF Holds
    <2>3. CASE i # 1 /\ j # 1
      <3>1. i - 1 \in 1..n /\ j - 1 \in 1..n /\ s[i - 1] = s[j - 1]
        BY <1>2, <1>5, <2>3
      <3>2. i - 1 = j - 1
        BY <1>5, <3>1 DEF NoRepeat
      <3> QED
        BY <1>2, <3>2
    <2> QED
      BY <2>1, <2>2, <2>3
  <1> QED
    BY <1>2, <1>4, <1>5 DEF NoRepeat

\* pop, at the front of a queue.
LEMMA HoldsTail ==
  ASSUME NEW s \in Seq(Tasks), s # <<>>
  PROVE  /\ Head(s) \in Tasks /\ Tail(s) \in Seq(Tasks) /\ Holds(s, Head(s))
         /\ NoRepeat(s) => /\ NoRepeat(Tail(s))
                           /\ \A x : Holds(Tail(s), x) <=> Holds(s, x) /\ x # Head(s)
  <1> DEFINE n == Len(s)
             r == Tail(s)
  <1>1. /\ n \in Nat \ {0} /\ Head(s) = s[1] /\ s[1] \in Tasks
        /\ r \in Seq(Tasks) /\ Len(r) = n - 1
        /\ \A i \in 1..(n - 1) : r[i] = s[i + 1]
    BY HeadTailProperties, LenProperties, EmptySeq
  <1>2. Holds(s, Head(s))
    BY <1>1 DEF Holds
  <1>3. ASSUME NoRepeat(s), NEW x
        PROVE  Holds(r, x) <=> Holds(s, x) /\ x # Head(s)
    <2>1. ASSUME NEW i \in 1..(n - 1), r[i] = x PROVE Holds(s, x) /\ x # Head(s)
      <3>1. i + 1 \in 1..n /\ 1 \in 1..n /\ i + 1 # 1 /\ s[i + 1] = x
        BY <1>1, <2>1
      <3> QED
        BY <1>1, <1>3, <3>1 DEF Holds, NoRepeat
    <2>2. ASSUME NEW i \in 1..n, s[i] = x, x # Head(s) PROVE Holds(r, x)
      <3>1. i - 1 \in 1..(n - 1) /\ r[i - 1] = x
        BY <1>1, <2>2
      <3> QED
        BY <1>1, <3>1 DEF Holds
    <2> QED
      BY <1>1, <2>1, <2>2 DEF Holds
  <1>4. ASSUME NoRepeat(s), NEW i \in 1..Len(r), NEW j \in 1..Len(r), r[i] = r[j]
        PROVE  i = j
    <2>1. i + 1 \in 1..n /\ j + 1 \in 1..n /\ s[i + 1] = s[j + 1]
      BY <1>1, <1>4
    <2>2. i + 1 = j + 1
      BY <1>4, <2>1 DEF NoRepeat
    <2> QED
      BY <1>1, <2>2
  <1> QED
    BY <1>1, <1>2, <1>3, <1>4 DEF NoRepeat

\* A thief's pop, at the back of a deque.
LEMMA HoldsFront ==
  ASSUME NEW s \in Seq(Tasks), s # <<>>
  PROVE  LET last == s[Len(s)]
             r == SubSeq(s, 1, Len(s) - 1)
         IN  /\ last \in Tasks /\ r \in Seq(Tasks) /\ Holds(s, last)
             /\ NoRepeat(s) => /\ NoRepeat(r)
                               /\ \A x : Holds(r, x) <=> Holds(s, x) /\ x # last
  <1> DEFINE n == Len(s)
             last == s[n]
             r == SubSeq(s, 1, n - 1)
  <1>1. n \in Nat \ {0} /\ last \in Tasks
    BY LenProperties, EmptySeq, ElementOfSeq
  <1>2. /\ r \in Seq(Tasks) /\ Len(r) = n - 1
        /\ \A i \in 1..(n - 1) : r[i] = s[i]
    <2>1. /\ 1 \in Int /\ n - 1 \in Int
          /\ \A i \in 1..(n - 1) : s[i] \in Tasks
      BY <1>1, ElementOfSeq
    <2>2. /\ r \in Seq(Tasks)
          /\ Len(r) = IF 1 <= n - 1 THEN (n - 1) - 1 + 1 ELSE 0
          /\ \A i \in 1..((n - 1) - 1 + 1) : r[i] = s[1 + i - 1]
      BY <2>1, SubSeqProperties
    <2>3. Len(r) = n - 1
      <3>1. \A m \in Nat \ {0} :
              (IF 1 <= m - 1 THEN (m - 1) - 1 + 1 ELSE 0) = m - 1
        OBVIOUS
      <3> QED
        BY <1>1, <2>2, <3>1
    <2>4. \A i \in 1..(n - 1) : i \in 1..((n - 1) - 1 + 1) /\ 1 + i - 1 = i
      BY <1>1
    <2> QED
      BY <2>2, <2>3, <2>4
  <1>3. Holds(s, last)
    BY <1>1 DEF Holds
  <1>4. ASSUME NoRepeat(s), NEW x
        PROVE  Holds(r, x) <=> Holds(s, x) /\ x # last
    <2>1. ASSUME NEW i \in 1..(n - 1), r[i] = x PROVE Holds(s, x) /\ x # last
      <3>1. i \in 1..n /\ n \in 1..n /\ i # n /\ s[i] = x
        BY <1>1, <1>2, <2>1
      <3> QED
        BY <1>4, <3>1 DEF Holds, NoRepeat
    <2>2. ASSUME NEW i \in 1..n, s[i] = x, x # last PROVE Holds(r, x)
      <3>1. i \in 1..(n - 1) /\ r[i] = x
        BY <1>1, <1>2, <2>2
      <3> QED
        BY <1>2, <3>1 DEF Holds
    <2> QED
      BY <1>2, <2>1, <2>2 DEF Holds
  <1>5. ASSUME NoRepeat(s), NEW i \in 1..Len(r), NEW j \in 1..Len(r), r[i] = r[j]
        PROVE  i = j
    <2>1. i \in 1..n /\ j \in 1..n /\ s[i] = s[j]
      BY <1>1, <1>2, <1>5
    <2> QED
      BY <1>5, <2>1 DEF NoRepeat
  <1> QED
    BY <1>1, <1>2, <1>3, <1>4, <1>5 DEF NoRepeat
-----------------------------------------------------------------------------
(* What the steps of the three pools have in common                          *)

\* A worker goes from one place in its loop to another, or leaves the loop.
Wanders(w) ==
  \E from \in {"start", "loop", "local", "pool", "steal"},
     to \in {"loop", "local", "pool", "steal", "exited"} :
    /\ MovesOn(w, from, to)
    /\ to = "exited" => kind # "private"

\* A task is queued in the pool's queue.
QueuesInPool(k) ==
  /\ \/ ClientSubmits(k)
     \/ kind = "shared" /\ \E w \in Workers : TaskSubmits(w, k)
  /\ queue' = Append(queue, k)
  /\ UNCHANGED local

\* A task is queued in the worker's own queue, at one end of it.
QueuesInOwn(w, k) ==
  /\ kind # "shared"
  /\ TaskSubmits(w, k)
  /\ \/ local' = [local EXCEPT ![w] = Append(local[w], k)]
     \/ local' = [local EXCEPT ![w] = <<k>> \o local[w]]
  /\ UNCHANGED queue

\* The worker w takes the oldest task of the pool's queue.
TakesFromPool(w) ==
  /\ queue # <<>>
  /\ Runs(w, "pool", Head(queue))
  /\ queue' = Tail(queue)
  /\ UNCHANGED local

\* It takes one from either end of the queue of v: in ThreadPool2q of its own.
TakesFrom(w, v) ==
  /\ kind # "shared" /\ local[v] # <<>>
  /\ kind = "private" => v = w
  /\ UNCHANGED queue
  /\ \E from \in {"local", "steal"} :
       \/ /\ Runs(w, from, Head(local[v]))
          /\ local' = [local EXCEPT ![v] = Tail(local[v])]
       \/ /\ Runs(w, from, local[v][Len(local[v])])
          /\ local' = [local EXCEPT ![v] = SubSeq(local[v], 1, Len(local[v]) - 1)]

\* A worker of ThreadPool2q ends, and the tasks in its queue are dropped.
EndsWithQueue(w) ==
  /\ kind = "private" /\ done
  /\ At(w, "loop", "exited")
  /\ Mark({local[w][i] : i \in 1..Len(local[w])}, "dropped")
  /\ local' = [local EXCEPT ![w] = <<>>]
  /\ UNCHANGED <<done, owner, joined, task, queue>>

\* The queues are destroyed with the pool.
DestroysQueues ==
  /\ Destroy
  /\ queue' = <<>>
  /\ \/ kind # "stealing" /\ UNCHANGED local
     \/ local' = [w \in Workers |-> <<>>]

\* Steps that move no task.
MovesNoTask ==
  /\ UNCHANGED <<queue, local>>
  /\ \/ UNCHANGED poolVars
     \/ Constructed \/ DtorBegin \/ SpawnFails
     \/ \E w \in Workers : Spawn(w) \/ Join(w) \/ Wanders(w)

MovesTask ==
  \/ DestroysQueues
  \/ \E k \in Tasks : QueuesInPool(k)
  \/ \E w \in Workers :
       \/ TakesFromPool(w) \/ EndsWithQueue(w)
       \/ Finishes(w) /\ UNCHANGED <<queue, local>>
       \/ \E k \in Tasks : QueuesInOwn(w, k)
       \/ \E v \in Workers : TakesFrom(w, v)

\* The vector of deques, which only ThreadPoolSteal has.
VectorMoves ==
  \/ /\ UNCHANGED <<published, growing>>
     /\ kind = "stealing" /\ owner' # owner => ~growing
     /\ \A w \in Workers :
          kind = "stealing" /\ worker[w] = "unborn" /\ worker'[w] # "unborn" =>
            w < published
  \/ /\ kind = "stealing" /\ owner = "ctor" /\ ~growing /\ published \in Workers
     /\ growing' = TRUE /\ UNCHANGED <<poolVars, published>>
  \/ /\ growing
     /\ growing' = FALSE /\ published' = published + 1 /\ UNCHANGED poolVars

Rest ==
  /\ kind' = kind
  /\ crashed' \in {crashed, TRUE}
  /\ probe' \in {probe} \union {[probe EXCEPT ![w] = 0] : w \in Workers}
                \union {[probe EXCEPT ![w] = @ + 1] : w \in Workers}

CommonStep == (MovesNoTask \/ MovesTask) /\ VectorMoves /\ Rest

\* What ThreadPool2 has from JoinablePool is what Pools has from it.
LEMMA SharedSame ==
  /\ Shared!Constructed <=> Constructed
  /\ Shared!SpawnFails <=> SpawnFails
  /\ Shared!DtorBegin <=> DtorBegin
  /\ Shared!Destroy <=> Destroy
  /\ \A k : Shared!ClientSubmits(k) <=> ClientSubmits(k)
  /\ \A w :
       /\ Shared!Spawn(w) <=> Spawn(w)
       /\ Shared!Join(w) <=> Join(w)
       /\ Shared!Finishes(w) <=> Finishes(w)
       /\ Shared!SeesDone(w) <=> SeesDone(w)
       /\ \A to : Shared!EntersBody(w, to) <=> EntersBody(w, to)
       /\ \A from, k : Shared!Runs(w, from, k) <=> Runs(w, from, k)
       /\ \A k : Shared!TaskSubmits(w, k) <=> TaskSubmits(w, k)
  BY DEF Constructed, SpawnFails, DtorBegin, Destroy, AllJoined, Mark,
         ClientSubmits, Spawn, Join, Finishes, SeesDone, EntersBody, MovesOn,
         Runs, TaskSubmits, At, Goto, Blocked, WaitsFor, Children,
         Shared!Constructed, Shared!SpawnFails, Shared!DtorBegin,
         Shared!Destroy, Shared!AllJoined, Shared!Mark, Shared!ClientSubmits,
         Shared!Spawn, Shared!Join, Shared!Finishes, Shared!SeesDone,
         Shared!EntersBody, Shared!MovesOn, Shared!Runs, Shared!TaskSubmits,
         Shared!At, Shared!Goto, Shared!Blocked, Shared!WaitsFor,
         Shared!Children

\* Moving on from a known place to a known place is wandering.
LEMMA WandersFrom ==
  ASSUME NEW w \in Workers,
         NEW from \in {"start", "loop", "local", "pool", "steal"},
         NEW to \in {"loop", "local", "pool", "steal", "exited"},
         MovesOn(w, from, to), to = "exited" => kind # "private"
  PROVE  Wanders(w)
  BY DEF Wanders

\* A step of ThreadPool2.
LEMMA SharedCommon ==
  ASSUME kind = "shared", Shared!Next, UNCHANGED <<local, OnlyStealing, kind>>
  PROVE  CommonStep
  <1>1. VectorMoves /\ Rest
    BY DEF VectorMoves, Rest, OnlyStealing
  <1>2. CASE Shared!OwnerStep
    BY <1>1, <1>2, SharedSame DEF Shared!OwnerStep, Shared!DestroyPool,
       DestroysQueues, MovesNoTask, MovesTask, CommonStep
  <1>3. CASE (Shared!SpawnFails \/ Shared!DtorBegin) /\ UNCHANGED queue
    BY <1>1, <1>3, SharedSame DEF MovesNoTask, CommonStep
  <1>4. ASSUME NEW k \in Tasks, Shared!Submit(k) PROVE CommonStep
    BY <1>1, <1>4, SharedSame
       DEF Shared!Submit, QueuesInPool, MovesTask, CommonStep
  <1>5. ASSUME NEW w \in Workers, Shared!WorkerStep(w) PROVE CommonStep
    <2>1. CASE Shared!WorkerStarts(w) \/ Shared!Misses(w)
      <3>1. \/ MovesOn(w, "start", "loop") \/ MovesOn(w, "pool", "loop")
        BY <2>1 DEF Shared!WorkerStarts, Shared!Misses, Shared!MovesOn, MovesOn,
           Shared!At, At, Shared!Goto, Goto
      <3>2. Wanders(w) /\ UNCHANGED <<queue, local>>
        BY <2>1, <3>1, WandersFrom DEF Shared!WorkerStarts, Shared!Misses
      <3> QED
        BY <1>1, <3>2 DEF MovesNoTask, CommonStep
    <2>2. CASE Shared!Pops(w)
      BY <1>1, <2>2, SharedSame DEF Shared!Pops, TakesFromPool, MovesTask,
         CommonStep
    <2>3. CASE (Shared!SeesDone(w) \/ Shared!EntersBody(w, "pool")) /\ UNCHANGED queue
      BY <1>1, <2>3, SharedSame DEF SeesDone, EntersBody, MovesOn, Wanders,
         MovesNoTask, CommonStep
    <2>4. CASE Shared!Finishes(w) /\ UNCHANGED queue
      BY <1>1, <2>4, SharedSame DEF MovesTask, CommonStep
    <2> QED
      BY <1>4, <1>5, <2>1, <2>2, <2>3, <2>4 DEF Shared!WorkerStep
  <1> QED
    BY <1>2, <1>3, <1>4, <1>5 DEF Shared!Next

\* The same for ThreadPool2q.
LEMMA PrivateSame ==
  /\ Private!Constructed <=> Constructed
  /\ Private!SpawnFails <=> SpawnFails
  /\ Private!DtorBegin <=> DtorBegin
  /\ Private!Destroy <=> Destroy
  /\ \A k : Private!ClientSubmits(k) <=> ClientSubmits(k)
  /\ \A w :
       /\ Private!Spawn(w) <=> Spawn(w)
       /\ Private!Join(w) <=> Join(w)
       /\ Private!Finishes(w) <=> Finishes(w)
       /\ Private!SeesDone(w) <=> SeesDone(w)
       /\ \A to : Private!EntersBody(w, to) <=> EntersBody(w, to)
       /\ \A from, k : Private!Runs(w, from, k) <=> Runs(w, from, k)
       /\ \A k : Private!TaskSubmits(w, k) <=> TaskSubmits(w, k)
  BY DEF Constructed, SpawnFails, DtorBegin, Destroy, AllJoined, Mark,
         ClientSubmits, Spawn, Join, Finishes, SeesDone, EntersBody, MovesOn,
         Runs, TaskSubmits, At, Goto, Blocked, WaitsFor, Children,
         Private!Constructed, Private!SpawnFails, Private!DtorBegin,
         Private!Destroy, Private!AllJoined, Private!Mark,
         Private!ClientSubmits, Private!Spawn, Private!Join, Private!Finishes,
         Private!SeesDone, Private!EntersBody, Private!MovesOn, Private!Runs,
         Private!TaskSubmits, Private!At, Private!Goto, Private!Blocked,
         Private!WaitsFor, Private!Children

\* A step of ThreadPool2q.
LEMMA PrivateCommon ==
  ASSUME kind = "private", Private!Next, UNCHANGED <<OnlyStealing, kind>>
  PROVE  CommonStep
  <1>1. VectorMoves /\ Rest
    BY DEF VectorMoves, Rest, OnlyStealing
  <1>2. CASE Private!OwnerStep
    BY <1>1, <1>2, PrivateSame DEF Private!OwnerStep, Private!DestroyPool,
       Private!queues, DestroysQueues, MovesNoTask, MovesTask, CommonStep
  <1>3. CASE (Private!SpawnFails \/ Private!DtorBegin) /\ UNCHANGED Private!queues
    BY <1>1, <1>3, PrivateSame DEF Private!queues, MovesNoTask, CommonStep
  <1>4. ASSUME NEW k \in Tasks, Private!SubmitToPool(k) PROVE CommonStep
    BY <1>1, <1>4, PrivateSame
       DEF Private!SubmitToPool, QueuesInPool, MovesTask, CommonStep
  <1>5. ASSUME NEW w \in Workers, Private!WorkerStep(w) PROVE CommonStep
    <2>1. CASE Private!WorkerStarts(w) \/ Private!LocalEmpty(w) \/ Private!Misses(w)
      <3>1. /\ UNCHANGED <<queue, local>>
            /\ \/ MovesOn(w, "start", "loop") \/ MovesOn(w, "local", "pool")
               \/ MovesOn(w, "pool", "loop")
        BY <2>1 DEF Private!WorkerStarts, Private!LocalEmpty, Private!Misses,
           Private!queues, Private!MovesOn, MovesOn, Private!At, At,
           Private!Goto, Goto
      <3>2. Wanders(w)
        BY <3>1, WandersFrom
      <3> QED
        BY <1>1, <3>1, <3>2 DEF MovesNoTask, CommonStep
    <2>2. CASE Private!PopsPool(w)
      BY <1>1, <2>2, PrivateSame
         DEF Private!PopsPool, TakesFromPool, MovesTask, CommonStep
    <2>3. CASE Private!PopsLocal(w)
      <3>1. TakesFrom(w, w)
        BY <2>3, PrivateSame DEF Private!PopsLocal, TakesFrom
      <3> QED
        BY <1>1, <3>1 DEF MovesTask, CommonStep
    <2>4. CASE Private!WorkerEnds(w)
      <3>1. EndsWithQueue(w)
        BY <2>4 DEF Private!WorkerEnds, EndsWithQueue, Private!Mark, Mark,
           Private!At, At, Private!Goto, Goto
      <3> QED
        BY <1>1, <3>1 DEF MovesTask, CommonStep
    <2>5. CASE Private!EntersBody(w, "local") /\ UNCHANGED Private!queues
      BY <1>1, <2>5, PrivateSame DEF Private!queues, EntersBody, MovesOn,
         Wanders, MovesNoTask, CommonStep
    <2>6. CASE Private!Finishes(w) /\ UNCHANGED Private!queues
      BY <1>1, <2>6, PrivateSame DEF Private!queues, MovesTask, CommonStep
    <2>7. ASSUME NEW k \in Tasks, Private!SubmitToLocal(w, k) PROVE CommonStep
      <3>1. QueuesInOwn(w, k)
        BY <2>7, PrivateSame DEF Private!SubmitToLocal, QueuesInOwn
      <3> QED
        BY <1>1, <3>1 DEF MovesTask, CommonStep
    <2> QED
      BY <1>5, <2>1, <2>2, <2>3, <2>4, <2>5, <2>6, <2>7 DEF Private!WorkerStep
  <1> QED
    BY <1>2, <1>3, <1>4, <1>5 DEF Private!Next

\* The worker that a thief tries next exists.
LEMMA VictimExists ==
  ASSUME TypeOK, OwnerInv, NEW w \in Workers, probe[w] < published
  PROVE  Victim(w) \in Workers
  <1>1. /\ published \in Nat \ {0} /\ probe[w] \in Nat /\ w \in Nat
        /\ Cardinality(Workers) \in Nat /\ published <= Cardinality(Workers)
    BY FS_CardinalityType DEF TypeOK, OwnerInv
  <1>2. (w + probe[w] + 1) % published \in 0..(published - 1)
    BY <1>1
  <1> QED
    BY <1>1, <1>2 DEF Victim

\* A step of ThreadPoolSteal.
LEMMA StealingCommon ==
  ASSUME TaskInOnePlace, kind = "stealing", Next, UNCHANGED kind
  PROVE  CommonStep
  <1> USE DEF stealing
  <1>0. TypeOK /\ OwnerInv /\ QueuesPublished
    BY DEF TaskInOnePlace
  <1>1. CASE EmplaceBegin \/ EmplaceEnd
    BY <1>1 DEF EmplaceBegin, EmplaceEnd, poolVars, VectorMoves, Rest,
       MovesNoTask, CommonStep
  <1>2. CASE \E w \in Workers : ReadsFreedVector(w)
    BY <1>2 DEF ReadsFreedVector, poolVars, VectorMoves, Rest,
       MovesNoTask, CommonStep
  <1>3. CASE Constructed /\ UNCHANGED stealing
    <2>1. ~growing
      BY <1>0, <1>3 DEF Constructed, OwnerInv, QueuesPublished, TypeOK
    <2> QED
      BY <1>3, <2>1 DEF Constructed, VectorMoves, Rest, MovesNoTask, CommonStep
  <1>4. CASE CtorFails \/ (DtorBegin /\ UNCHANGED stealing)
    BY <1>0, <1>4 DEF OwnerInv, CtorFails, SpawnFails, DtorBegin, VectorMoves,
       Rest, MovesNoTask, CommonStep
  <1>5. CASE DestroyPool
    BY <1>0, <1>5 DEF OwnerInv, DestroyPool, Destroy, DestroysQueues,
       VectorMoves, Rest, MovesTask, CommonStep
  <1>6. ASSUME NEW k \in Tasks, SubmitToPool(k) PROVE CommonStep
    BY <1>6 DEF SubmitToPool, ClientSubmits, QueuesInPool, VectorMoves, Rest,
       MovesTask, CommonStep
  <1>7. ASSUME NEW w \in Workers, StartWorker(w) \/ (Join(w) /\ UNCHANGED stealing)
        PROVE  CommonStep
    <2>1. VectorMoves
      BY <1>0, <1>7 DEF StartWorker, Spawn, Join, At, Goto, VectorMoves, TypeOK,
         PoolTypeOK
    <2> QED
      BY <1>7, <2>1 DEF StartWorker, Rest, MovesNoTask, CommonStep
  <1>8. ASSUME NEW w \in Workers, WorkerStep(w) PROVE CommonStep
    <2>1. VectorMoves
      <3>1. /\ UNCHANGED <<published, growing, owner>>
            /\ \A v \in Workers : worker[v] = "unborn" => worker'[v] = "unborn"
        BY <1>0, <1>8 DEF WorkerStep, WorkerStarts, PopsLocal, LocalEmpty,
           PopsPool, PoolEmpty, Steals, NextVictim, NothingToSteal, SeesDone,
           EntersBody, Finishes, SubmitToLocal, MovesOn, Runs, TaskSubmits,
           At, Goto, TypeOK, PoolTypeOK
      <3> QED
        BY <1>0, <3>1 DEF VectorMoves, TypeOK, PoolTypeOK
    <2>2. CASE \/ WorkerStarts(w) \/ LocalEmpty(w) \/ PoolEmpty(w) \/ NextVictim(w)
               \/ NothingToSteal(w)
      BY <2>1, <2>2 DEF WorkerStarts, LocalEmpty, PoolEmpty, NextVictim,
         NothingToSteal, Wanders, Rest, MovesNoTask, CommonStep
    <2>3. CASE (SeesDone(w) \/ EntersBody(w, "local")) /\ UNCHANGED stealing
      BY <2>1, <2>3 DEF SeesDone, EntersBody, MovesOn, Wanders, Rest,
         MovesNoTask, CommonStep
    <2>4. CASE PopsLocal(w)
      <3>1. TakesFrom(w, w)
        BY <2>4 DEF PopsLocal, TakesFrom
      <3> QED
        BY <2>1, <2>4, <3>1 DEF PopsLocal, Rest, MovesTask, CommonStep
    <2>5. CASE PopsPool(w)
      BY <2>1, <2>5 DEF PopsPool, TakesFromPool, Rest, MovesTask, CommonStep
    <2>6. CASE Steals(w)
      <3>1. Victim(w) \in Workers
        BY <1>0, <2>6, VictimExists DEF Steals
      <3>2. TakesFrom(w, Victim(w))
        BY <2>6 DEF Steals, TakesFrom
      <3> QED
        BY <2>1, <2>6, <3>1, <3>2 DEF Steals, Rest, MovesTask, CommonStep
    <2>7. CASE Finishes(w) /\ UNCHANGED stealing
      BY <2>1, <2>7 DEF Rest, MovesTask, CommonStep
    <2>8. ASSUME NEW k \in Tasks, SubmitToLocal(w, k) PROVE CommonStep
      BY <2>1, <2>8 DEF SubmitToLocal, QueuesInOwn, Rest, MovesTask, CommonStep
    <2> QED
      BY <1>8, <2>2, <2>3, <2>4, <2>5, <2>6, <2>7, <2>8 DEF WorkerStep
  <1> QED
    BY <1>1, <1>2, <1>3, <1>4, <1>5, <1>6, <1>7, <1>8 DEF Next, OwnerStep

\* Whichever pool the program is built with, its step is a common one.
LEMMA NextCommon ==
  ASSUME TaskInOnePlace, PoolsNext
  PROVE  CommonStep
  BY SharedCommon, PrivateCommon, StealingCommon DEF PoolsNext

-----------------------------------------------------------------------------
(* Each effect keeps every task in one place                               *)

\* Everything but the vector of deques, which only MovesVector disturbs.
TasksAndThreads ==
  /\ PoolTypeOK
  /\ queue \in Seq(Tasks) /\ local \in [Workers -> Seq(Tasks)]
  /\ kind \in {"shared", "private", "stealing"}
  /\ done => owner \in {"joining", "destroyed"}
  /\ \A w \in Workers : WorkerInv(w)
  /\ QueuedOnce /\ OneWorkerPerTask

\* No worker that has nothing gets tasks into its queue without running one.
OnlyRunnersQueue ==
  kind = "stealing" =>
    \A w \in Workers :
      local'[w] # <<>> => local[w] # <<>> \/ worker[w] # "unborn"

\* The invariant has the part that the effects on tasks keep.
LEMMA HasParts == TaskInOnePlace => TasksAndThreads
  BY DEF TaskInOnePlace, TasksAndThreads, TypeOK, OwnerInv

\* Steps of the owner and moves of a worker in its loop.
LEMMA MovesNoTaskKeeps ==
  ASSUME TasksAndThreads, MovesNoTask, UNCHANGED kind
  PROVE  TasksAndThreads'
  <1> USE DEF TasksAndThreads
  <1>1. CASE UNCHANGED poolVars
    BY <1>1 DEF MovesNoTask, poolVars, PoolTypeOK, WorkerInv, QueuedOnce,
       OneWorkerPerTask
  <1>2. CASE Constructed \/ DtorBegin \/ SpawnFails
    <2>1. /\ UNCHANGED <<joined, worker, task, status, queue, local>>
          /\ done' \in BOOLEAN /\ owner' \in {"open", "joining"}
          /\ done' => owner' = "joining"
      <3>1. CASE Constructed
        BY <3>1 DEF MovesNoTask, Constructed, PoolTypeOK
      <3>2. CASE DtorBegin \/ SpawnFails
        BY <3>2 DEF MovesNoTask, DtorBegin, SpawnFails
      <3> QED
        BY <1>2, <3>1, <3>2
    <2>2. PoolTypeOK' /\ \A w \in Workers : WorkerInv(w)'
      BY <2>1 DEF PoolTypeOK, WorkerInv
    <2>3. QueuedOnce' /\ OneWorkerPerTask'
      BY <2>1 DEF QueuedOnce, OneWorkerPerTask
    <2> QED
      BY <2>1, <2>2, <2>3
  <1>3. ASSUME NEW w \in Workers, Spawn(w) PROVE TasksAndThreads'
    BY <1>3 DEF MovesNoTask, Spawn, At, Goto,
       PoolTypeOK, WorkerInv, QueuedOnce, OneWorkerPerTask
  <1>4. ASSUME NEW w \in Workers, Join(w) PROVE TasksAndThreads'
    BY <1>4 DEF MovesNoTask, Join,
       PoolTypeOK, WorkerInv, QueuedOnce, OneWorkerPerTask
  <1>5. ASSUME NEW w \in Workers, Wanders(w) PROVE TasksAndThreads'
    <2>1. PICK from \in {"start", "loop", "local", "pool", "steal"},
               to \in {"loop", "local", "pool", "steal", "exited"} :
            MovesOn(w, from, to) /\ (to = "exited" => kind # "private")
      BY <1>5 DEF Wanders
    <2> QED
      BY <2>1 DEF MovesNoTask, MovesOn, At, Goto,
         PoolTypeOK, WorkerInv, QueuedOnce, OneWorkerPerTask
  <1> QED
    BY <1>1, <1>2, <1>3, <1>4, <1>5 DEF MovesNoTask

\* The queues go with the pool, after every worker has ended.
LEMMA DestroyKeeps ==
  ASSUME TasksAndThreads, DestroysQueues, UNCHANGED kind
  PROVE  TasksAndThreads' /\ \A w \in Workers : local'[w] = <<>>
  <1> USE DEF TasksAndThreads
  <1>1. \A w \in Workers : worker[w] \in {"unborn", "exited"}
    BY DEF DestroysQueues, Destroy, AllJoined, WorkerInv
  <1>2. /\ local' \in [Workers -> Seq(Tasks)]
        /\ queue' = <<>> /\ \A w \in Workers : local'[w] = <<>>
    BY <1>1, HoldsNothing DEF DestroysQueues, WorkerInv
  <1>3. PoolTypeOK' /\ \A w \in Workers : WorkerInv(w)'
    BY <1>1, <1>2 DEF DestroysQueues, Destroy, Mark, PoolTypeOK, WorkerInv
  <1>4. QueuedOnce'
    BY <1>2, HoldsNothing DEF DestroysQueues, Destroy, Mark, PoolTypeOK,
       QueuedOnce
  <1>5. OneWorkerPerTask'
    BY DEF DestroysQueues, Destroy, Mark, PoolTypeOK, OneWorkerPerTask
  <1> QED
    BY <1>2, <1>3, <1>4, <1>5, HoldsNothing DEF DestroysQueues, Destroy

\* submit into the pool's queue: the task was in no queue before.
LEMMA QueuesInPoolKeeps ==
  ASSUME TasksAndThreads, NEW k \in Tasks, QueuesInPool(k), UNCHANGED kind
  PROVE  TasksAndThreads'
  <1> USE DEF TasksAndThreads
  <1>1. /\ status[k] = "new" /\ UNCHANGED <<done, owner, joined, worker, task, local>>
        /\ status' = [x \in Tasks |-> IF x \in {k} THEN "queued" ELSE status[x]]
    BY DEF QueuesInPool, ClientSubmits, TaskSubmits, Mark
  <1>2. ~Holds(queue, k) /\ \A w \in Workers : ~Holds(local[w], k)
    BY <1>1 DEF QueuedOnce
  <1>3. /\ queue' \in Seq(Tasks) /\ NoRepeat(queue')
        /\ \A x : Holds(queue', x) <=> Holds(queue, x) \/ x = k
    BY <1>2, HoldsAppend DEF QueuesInPool, QueuedOnce
  <1>4. PoolTypeOK' /\ \A w \in Workers : WorkerInv(w)'
    BY <1>1 DEF PoolTypeOK, WorkerInv
  <1>5. QueuedOnce'
    BY <1>1, <1>2, <1>3 DEF PoolTypeOK, QueuedOnce
  <1>6. OneWorkerPerTask'
    BY <1>1 DEF PoolTypeOK, OneWorkerPerTask
  <1> QED
    BY <1>1, <1>3, <1>4, <1>5, <1>6

\* A task that a worker queues itself is then in its own queue.
LEMMA PutsInOwn ==
  ASSUME local \in [Workers -> Seq(Tasks)],
         NEW w \in Workers, NEW k \in Tasks, QueuesInOwn(w, k)
  PROVE  /\ local' \in [Workers -> Seq(Tasks)]
         /\ \A x : Holds(local'[w], x) <=> Holds(local[w], x) \/ x = k
         /\ NoRepeat(local[w]) /\ ~Holds(local[w], k) => NoRepeat(local'[w])
         /\ \A v \in Workers : v # w => local'[v] = local[v]
  <1>1. CASE local' = [local EXCEPT ![w] = Append(local[w], k)]
    BY <1>1, HoldsAppend
  <1>2. CASE local' = [local EXCEPT ![w] = <<k>> \o local[w]]
    BY <1>2, HoldsCons
  <1> QED
    BY <1>1, <1>2 DEF QueuesInOwn

\* The task that w takes from the queue of v is one that was in it.
LEMMA TakesOneOf ==
  ASSUME local \in [Workers -> Seq(Tasks)],
         NEW w \in Workers, NEW v \in Workers, NoRepeat(local[v]), TakesFrom(w, v)
  PROVE  \E k \in Tasks, from \in {"local", "steal"} :
           /\ Runs(w, from, k) /\ Holds(local[v], k)
           /\ local' \in [Workers -> Seq(Tasks)] /\ NoRepeat(local'[v])
           /\ \A x : Holds(local'[v], x) <=> Holds(local[v], x) /\ x # k
           /\ \A u \in Workers : u # v => local'[u] = local[u]
  <1>1. local[v] \in Seq(Tasks) /\ local[v] # <<>>
    BY DEF TakesFrom
  <1>2. PICK from \in {"local", "steal"} :
          \/ /\ Runs(w, from, Head(local[v]))
             /\ local' = [local EXCEPT ![v] = Tail(local[v])]
          \/ /\ Runs(w, from, local[v][Len(local[v])])
             /\ local' = [local EXCEPT ![v] = SubSeq(local[v], 1, Len(local[v]) - 1)]
    BY DEF TakesFrom
  <1>3. CASE /\ Runs(w, from, Head(local[v]))
             /\ local' = [local EXCEPT ![v] = Tail(local[v])]
    BY <1>1, <1>3, HoldsTail
  <1>4. CASE /\ Runs(w, from, local[v][Len(local[v])])
             /\ local' = [local EXCEPT ![v] = SubSeq(local[v], 1, Len(local[v]) - 1)]
    BY <1>1, <1>4, HoldsFront
  <1> QED
    BY <1>2, <1>3, <1>4

\* submit into a worker's own queue, by the task that the worker runs.
LEMMA QueuesInOwnKeeps ==
  ASSUME TasksAndThreads, NEW w \in Workers, NEW k \in Tasks,
         QueuesInOwn(w, k), UNCHANGED kind
  PROVE  /\ TasksAndThreads'
         /\ \A v \in Workers :
              local'[v] # <<>> => local[v] # <<>> \/ worker[v] # "unborn"
  <1> USE DEF TasksAndThreads
  <1>1. /\ status[k] = "new" /\ worker[w] = "run" /\ Parent[k] = task[w]
        /\ UNCHANGED <<done, owner, joined, worker, task, queue>>
        /\ status' = [x \in Tasks |-> IF x \in {k} THEN "queued" ELSE status[x]]
    BY DEF QueuesInOwn, TaskSubmits, Mark
  <1>2. ~Holds(queue, k) /\ \A v \in Workers : ~Holds(local[v], k)
    BY <1>1 DEF QueuedOnce
  <1>3. Parent[k] # NoTask
    BY <1>1 DEF WorkerInv
  <1>4. /\ local' \in [Workers -> Seq(Tasks)] /\ NoRepeat(local'[w])
        /\ \A x : Holds(local'[w], x) <=> Holds(local[w], x) \/ x = k
        /\ \A v \in Workers : v # w => local'[v] = local[v]
    BY <1>2, PutsInOwn DEF QueuedOnce
  <1>5. PoolTypeOK' /\ \A v \in Workers : WorkerInv(v)'
    BY <1>1, <1>4 DEF PoolTypeOK, WorkerInv, QueuesInOwn
  <1>6. QueuedOnce'
    <2>1. \A x \in Tasks :
            status'[x] = "queued" <=>
              Holds(queue', x) \/ \E v \in Workers : Holds(local'[v], x)
      BY <1>1, <1>2, <1>4 DEF PoolTypeOK, QueuedOnce
    <2>2. \A x \in Tasks, u, v \in Workers :
            /\ Holds(local'[u], x) => ~Holds(queue', x) /\ Parent[x] # NoTask
            /\ Holds(local'[u], x) /\ Holds(local'[v], x) => u = v
      BY <1>1, <1>2, <1>3, <1>4 DEF QueuedOnce
    <2>3. NoRepeat(queue') /\ \A v \in Workers : NoRepeat(local'[v])
      BY <1>1, <1>4 DEF QueuedOnce
    <2> QED
      BY <2>1, <2>2, <2>3 DEF QueuedOnce
  <1>7. OneWorkerPerTask'
    BY <1>1 DEF PoolTypeOK, OneWorkerPerTask
  <1> QED
    BY <1>1, <1>4, <1>5, <1>6, <1>7

\* What taking a queued task does to the threads: nobody ran it before.
LEMMA TakenByOne ==
  ASSUME TasksAndThreads, NEW w \in Workers, NEW k \in Tasks, status[k] = "queued",
         NEW from \in {"local", "pool", "steal"}, Runs(w, from, k)
  PROVE  /\ PoolTypeOK' /\ OneWorkerPerTask'
         /\ \A v \in Workers :
              /\ task'[v] # NoTask <=> worker'[v] = "run"
              /\ v \in joined => worker'[v] = "exited"
              /\ owner = "destroyed" => worker'[v] \in {"unborn", "exited"}
              /\ worker'[v] \in {"unborn", "exited"} =>
                   v # w /\ worker[v] \in {"unborn", "exited"}
         /\ \A x \in Tasks : status'[x] = "queued" <=> status[x] = "queued" /\ x # k
         /\ UNCHANGED <<done, owner, joined>>
  <1> USE DEF TasksAndThreads
  <1>1. k # NoTask /\ \A v \in Workers : task[v] # k
    BY DEF OneWorkerPerTask
  <1>2. /\ worker[w] = from /\ worker' = [worker EXCEPT ![w] = "run"]
        /\ task[w] = NoTask /\ task' = [task EXCEPT ![w] = k]
        /\ UNCHANGED <<done, owner, joined>>
    BY DEF Runs, At, Goto, WorkerInv
  <1>3. status' = [x \in Tasks |-> IF x = k THEN "running" ELSE status[x]]
    BY DEF Runs, Mark
  <1>4. PoolTypeOK'
    BY <1>2, <1>3 DEF PoolTypeOK
  <1>5. task'[w] = k /\ \A v \in Workers : v # w => task'[v] = task[v]
    BY <1>2 DEF PoolTypeOK
  <1>6. \A x \in Tasks : status'[x] = IF x = k THEN "running" ELSE status[x]
    BY <1>3
  <1>7. ASSUME NEW x \in Tasks
        PROVE  status'[x] = "running" <=> \E v \in Workers : task'[v] = x
    <2>1. CASE x = k
      BY <1>5, <1>6, <2>1
    <2>2. CASE x # k
      <3>1. status[x] = "running" <=> \E v \in Workers : task[v] = x
        BY DEF OneWorkerPerTask
      <3> QED
        BY <1>2, <1>5, <1>6, <2>2, <3>1
    <2> QED
      BY <2>1, <2>2
  <1>8. ASSUME NEW u \in Workers, NEW v \in Workers, task'[u] = task'[v], task'[u] # NoTask
        PROVE  u = v
    BY <1>1, <1>5, <1>8 DEF OneWorkerPerTask
  <1>9. ASSUME NEW v \in Workers
        PROVE  /\ task'[v] # NoTask <=> worker'[v] = "run"
               /\ v \in joined => worker'[v] = "exited"
               /\ owner = "destroyed" => worker'[v] \in {"unborn", "exited"}
               /\ worker'[v] \in {"unborn", "exited"} =>
                    v # w /\ worker[v] \in {"unborn", "exited"}
    BY <1>1, <1>2 DEF WorkerInv, PoolTypeOK
  <1> QED
    BY <1>2, <1>4, <1>6, <1>7, <1>8, <1>9 DEF OneWorkerPerTask

\* A worker takes the oldest task of the pool's queue.
LEMMA TakesFromPoolKeeps ==
  ASSUME TasksAndThreads, NEW w \in Workers, TakesFromPool(w), UNCHANGED kind
  PROVE  TasksAndThreads'
  <1> USE DEF TasksAndThreads
  <1>1. PICK k \in Tasks :
          /\ Runs(w, "pool", k) /\ Holds(queue, k)
          /\ queue' \in Seq(Tasks) /\ NoRepeat(queue') /\ local' = local
          /\ \A x : Holds(queue', x) <=> Holds(queue, x) /\ x # k
    BY HoldsTail DEF TakesFromPool, QueuedOnce
  <1>2. status[k] = "queued" /\ \A v \in Workers : ~Holds(local[v], k)
    BY <1>1 DEF QueuedOnce
  <1>3. /\ PoolTypeOK' /\ OneWorkerPerTask' /\ UNCHANGED <<done, owner>>
        /\ \A v \in Workers : WorkerInv(v)'
        /\ \A x \in Tasks : status'[x] = "queued" <=> status[x] = "queued" /\ x # k
    BY <1>1, <1>2, TakenByOne DEF WorkerInv
  <1>4. QueuedOnce'
    BY <1>1, <1>2, <1>3 DEF QueuedOnce
  <1> QED
    BY <1>1, <1>3, <1>4

\* A worker takes a task from its own queue, or a thief from another's.
LEMMA TakesFromKeeps ==
  ASSUME TasksAndThreads, NEW w \in Workers, NEW v \in Workers,
         TakesFrom(w, v), UNCHANGED kind
  PROVE  /\ TasksAndThreads'
         /\ \A u \in Workers : local'[u] # <<>> => local[u] # <<>>
  <1> USE DEF TasksAndThreads
  <1>1. /\ local[v] \in Seq(Tasks) /\ local[v] # <<>> /\ NoRepeat(local[v])
        /\ kind # "shared" /\ (kind = "private" => v = w) /\ UNCHANGED queue
    BY DEF TakesFrom, QueuedOnce
  <1>2. PICK k \in Tasks, from \in {"local", "steal"} :
          /\ Runs(w, from, k) /\ Holds(local[v], k)
          /\ local' \in [Workers -> Seq(Tasks)] /\ NoRepeat(local'[v])
          /\ \A x : Holds(local'[v], x) <=> Holds(local[v], x) /\ x # k
          /\ \A u \in Workers : u # v => local'[u] = local[u]
    BY <1>1, TakesOneOf
  <1>3. /\ status[k] = "queued" /\ ~Holds(queue, k)
        /\ \A u \in Workers : u # v => ~Holds(local[u], k)
    BY <1>2 DEF QueuedOnce
  <1>4. /\ PoolTypeOK' /\ OneWorkerPerTask' /\ UNCHANGED <<done, owner, joined>>
        /\ \A u \in Workers :
             /\ task'[u] # NoTask <=> worker'[u] = "run"
             /\ u \in joined => worker'[u] = "exited"
             /\ owner = "destroyed" => worker'[u] \in {"unborn", "exited"}
             /\ worker'[u] \in {"unborn", "exited"} =>
                  u # w /\ worker[u] \in {"unborn", "exited"}
        /\ \A x \in Tasks : status'[x] = "queued" <=> status[x] = "queued" /\ x # k
    BY <1>2, <1>3, TakenByOne
  <1>5. ASSUME NEW u \in Workers PROVE WorkerInv(u)'
    <2>1. kind = "private" /\ worker'[u] \in {"unborn", "exited"} => local'[u] = <<>>
      BY <1>1, <1>2, <1>4 DEF WorkerInv
    <2> QED
      BY <1>1, <1>4, <2>1 DEF WorkerInv
  <1>6. QueuedOnce'
    <2>1. \A u \in Workers, x \in Tasks : Holds(local'[u], x) <=> Holds(local[u], x) /\ x # k
      BY <1>2, <1>3
    <2>2. \A u \in Workers : NoRepeat(local'[u])
      BY <1>2 DEF QueuedOnce
    <2> QED
      BY <1>1, <1>3, <1>4, <2>1, <2>2 DEF QueuedOnce
  <1>7. \A u \in Workers : local'[u] # <<>> => local[u] # <<>>
    BY <1>1, <1>2
  <1> QED
    BY <1>1, <1>2, <1>4, <1>5, <1>6, <1>7

\* A worker of ThreadPool2q ends and drops what only its queue held.
LEMMA EndsWithQueueKeeps ==
  ASSUME TasksAndThreads, NEW w \in Workers, EndsWithQueue(w), UNCHANGED kind
  PROVE  TasksAndThreads'
  <1> USE DEF TasksAndThreads
  <1>1. /\ worker[w] = "loop" /\ worker' = [worker EXCEPT ![w] = "exited"]
        /\ UNCHANGED <<done, owner, joined, task, queue>>
        /\ local' \in [Workers -> Seq(Tasks)] /\ local'[w] = <<>>
        /\ \A v \in Workers : v # w => local'[v] = local[v]
    BY HoldsNothing DEF EndsWithQueue, At, Goto
  <1>2. status' = [x \in Tasks |-> IF Holds(local[w], x) THEN "dropped" ELSE status[x]]
    BY DEF EndsWithQueue, Mark, Holds
  <1>3. \A x \in Tasks : Holds(local[w], x) => status[x] = "queued"
    BY DEF QueuedOnce
  <1>4. PoolTypeOK' /\ \A v \in Workers : WorkerInv(v)'
    BY <1>1, <1>2 DEF PoolTypeOK, WorkerInv
  <1>5. QueuedOnce'
    <2>1. ASSUME NEW v \in Workers, NEW x \in Tasks
          PROVE  Holds(local'[v], x) <=> Holds(local[v], x) /\ ~Holds(local[w], x)
      <3>1. CASE v = w
        BY <1>1, <3>1, HoldsNothing
      <3>2. CASE v # w
        <4>1. local'[v] = local[v] /\ ~(Holds(local[v], x) /\ Holds(local[w], x))
          BY <1>1, <3>2 DEF QueuedOnce
        <4> QED
          BY <4>1
      <3> QED
        BY <3>1, <3>2
    <2>2. \A v \in Workers : NoRepeat(local'[v])
      BY <1>1, HoldsNothing DEF QueuedOnce
    <2>3. \A x \in Tasks :
            status'[x] = "queued" <=> status[x] = "queued" /\ ~Holds(local[w], x)
      BY <1>2
    <2> QED
      BY <1>1, <2>1, <2>2, <2>3 DEF QueuedOnce
  <1>6. OneWorkerPerTask'
    BY <1>1, <1>2, <1>3 DEF PoolTypeOK, OneWorkerPerTask
  <1> QED
    BY <1>1, <1>4, <1>5, <1>6

\* A worker has run its task.
LEMMA FinishesKeeps ==
  ASSUME TasksAndThreads, NEW w \in Workers, Finishes(w),
         UNCHANGED <<queue, local, kind>>
  PROVE  TasksAndThreads'
  <1> USE DEF TasksAndThreads
  <1>1. /\ worker[w] = "run" /\ worker' = [worker EXCEPT ![w] = "loop"]
        /\ task' = [task EXCEPT ![w] = NoTask]
        /\ status' = [x \in Tasks |-> IF x \in {task[w]} THEN "done" ELSE status[x]]
        /\ UNCHANGED <<done, owner, joined>>
    BY DEF Finishes, At, Goto, Mark
  <1>2. task[w] \in Tasks /\ status[task[w]] = "running"
    BY <1>1 DEF PoolTypeOK, WorkerInv, OneWorkerPerTask
  <1>3. PoolTypeOK' /\ \A v \in Workers : WorkerInv(v)'
    BY <1>1 DEF PoolTypeOK, WorkerInv
  <1>4. QueuedOnce'
    BY <1>1, <1>2 DEF PoolTypeOK, QueuedOnce
  <1>5. OneWorkerPerTask'
    <2>1. task'[w] = NoTask /\ \A v \in Workers : v # w => task'[v] = task[v]
      BY <1>1 DEF PoolTypeOK
    <2>2. \A x \in Tasks : status'[x] = IF x = task[w] THEN "done" ELSE status[x]
      BY <1>1
    <2>3. \A x \in Tasks : x # NoTask
      OBVIOUS
    <2>4. ASSUME NEW x \in Tasks
          PROVE  status'[x] = "running" <=> \E v \in Workers : task'[v] = x
      <3>1. CASE x = task[w]
        <4>1. \A v \in Workers : task'[v] # x
          BY <2>1, <2>3, <3>1 DEF OneWorkerPerTask
        <4> QED
          BY <2>2, <3>1, <4>1
      <3>2. CASE x # task[w]
        <4>1. status[x] = "running" <=> \E v \in Workers : task[v] = x
          BY DEF OneWorkerPerTask
        <4> QED
          BY <2>1, <2>2, <2>3, <3>2, <4>1
      <3> QED
        BY <3>1, <3>2
    <2>5. ASSUME NEW u \in Workers, NEW v \in Workers,
                 task'[u] = task'[v], task'[u] # NoTask
          PROVE  u = v
      <3>1. task'[u] = task[u] /\ task'[v] = task[v]
        BY <2>1, <2>5
      <3> QED
        BY <2>5, <3>1 DEF OneWorkerPerTask
    <2> QED
      BY <2>4, <2>5 DEF OneWorkerPerTask
  <1> QED
    BY <1>1, <1>3, <1>4, <1>5

-----------------------------------------------------------------------------
\* What a step does to the vector of deques.
LEMMA VectorKeeps ==
  ASSUME TaskInOnePlace, VectorMoves, Rest, TasksAndThreads', OnlyRunnersQueue
  PROVE  TaskInOnePlace'
  <1>1. /\ Cardinality(Workers) \in Nat
        /\ \A i \in Workers : i \in Nat /\ i + 1 <= Cardinality(Workers)
    BY FS_CardinalityType
  <1>2. /\ published \in Nat /\ growing \in BOOLEAN
        /\ published <= Cardinality(Workers)
        /\ growing => /\ kind = "stealing" /\ owner = "ctor"
                      /\ published \in Workers
    BY DEF TaskInOnePlace, TypeOK, OwnerInv
  <1>3. crashed' \in BOOLEAN /\ probe' \in [Workers -> Nat] /\ kind' = kind
    <2>1. probe \in [Workers -> Nat] /\ crashed \in BOOLEAN
      BY DEF TaskInOnePlace, TypeOK
    <2>2. \A w \in Workers : /\ [probe EXCEPT ![w] = 0] \in [Workers -> Nat]
                             /\ [probe EXCEPT ![w] = @ + 1] \in [Workers -> Nat]
      BY <2>1
    <2>3. probe' \in [Workers -> Nat]
      BY <2>1, <2>2 DEF Rest
    <2>4. crashed' \in BOOLEAN
      BY <2>1 DEF Rest
    <2> QED
      BY <2>3, <2>4 DEF Rest
  <1>4. /\ published' \in Nat /\ growing' \in BOOLEAN
        /\ published' <= Cardinality(Workers)
        /\ growing' => /\ kind = "stealing" /\ owner' = "ctor"
                       /\ published' \in Workers
    <2>1. CASE /\ UNCHANGED <<published, growing>>
               /\ kind = "stealing" /\ owner' # owner => ~growing
      BY <1>2, <2>1
    <2>2. CASE /\ kind = "stealing" /\ owner = "ctor" /\ ~growing
               /\ published \in Workers
               /\ growing' = TRUE /\ UNCHANGED <<poolVars, published>>
      BY <1>2, <2>2 DEF poolVars
    <2>3. CASE growing /\ growing' = FALSE /\ published' = published + 1
      <3>1. published \in Workers
        BY <1>2, <2>3
      <3>2. published' \in Nat /\ published' <= Cardinality(Workers)
        BY <1>1, <1>2, <2>3, <3>1
      <3> QED
        BY <2>3, <3>2
    <2> QED
      BY <2>1, <2>2, <2>3 DEF VectorMoves
  <1>5. QueuesPublished'
    <2> SUFFICES ASSUME kind = "stealing", NEW w \in Workers,
                        worker'[w] # "unborn" \/ local'[w] # <<>>
                 PROVE  w < published'
      BY <1>3 DEF QueuesPublished
    <2>1. published <= published' /\ published' \in Nat /\ w \in Nat
      BY <1>1, <1>2, <1>4 DEF VectorMoves
    <2>2. worker[w] # "unborn" \/ local[w] # <<>> => w < published
      BY DEF TaskInOnePlace, QueuesPublished
    <2>3. worker[w] = "unborn" /\ worker'[w] # "unborn" => w < published
      BY DEF VectorMoves, poolVars
    <2>4. local'[w] # <<>> => local[w] # <<>> \/ worker[w] # "unborn"
      BY DEF OnlyRunnersQueue
    <2>5. w < published
      BY <2>2, <2>3, <2>4
    <2> QED
      BY <1>2, <2>1, <2>5
  <1> QED
    BY <1>3, <1>4, <1>5 DEF TaskInOnePlace, TasksAndThreads, TypeOK, OwnerInv

\* Every step of every pool keeps each task in one place.
LEMMA NextKeeps ==
  ASSUME TaskInOnePlace, PoolsNext
  PROVE  TaskInOnePlace'
  <1>1. /\ TasksAndThreads /\ CommonStep /\ VectorMoves /\ Rest
        /\ (MovesNoTask \/ MovesTask) /\ UNCHANGED kind
    BY HasParts, NextCommon DEF CommonStep, Rest
  <1>2. CASE MovesNoTask
    BY <1>1, <1>2, MovesNoTaskKeeps, VectorKeeps DEF MovesNoTask,
       OnlyRunnersQueue
  <1>3. CASE DestroysQueues
    BY <1>1, <1>3, DestroyKeeps, VectorKeeps DEF OnlyRunnersQueue
  <1>4. ASSUME NEW k \in Tasks, QueuesInPool(k) PROVE TaskInOnePlace'
    BY <1>1, <1>4, QueuesInPoolKeeps, VectorKeeps DEF QueuesInPool,
       OnlyRunnersQueue
  <1>5. ASSUME NEW w \in Workers, TakesFromPool(w) PROVE TaskInOnePlace'
    BY <1>1, <1>5, TakesFromPoolKeeps, VectorKeeps DEF TakesFromPool,
       OnlyRunnersQueue
  <1>6. ASSUME NEW w \in Workers, EndsWithQueue(w) PROVE TaskInOnePlace'
    BY <1>1, <1>6, EndsWithQueueKeeps, VectorKeeps DEF EndsWithQueue,
       OnlyRunnersQueue
  <1>7. ASSUME NEW w \in Workers, Finishes(w), UNCHANGED <<queue, local>>
        PROVE  TaskInOnePlace'
    BY <1>1, <1>7, FinishesKeeps, VectorKeeps DEF OnlyRunnersQueue
  <1>8. ASSUME NEW w \in Workers, NEW k \in Tasks, QueuesInOwn(w, k)
        PROVE  TaskInOnePlace'
    BY <1>1, <1>8, QueuesInOwnKeeps, VectorKeeps DEF OnlyRunnersQueue
  <1>9. ASSUME NEW w \in Workers, NEW v \in Workers, TakesFrom(w, v)
        PROVE  TaskInOnePlace'
    BY <1>1, <1>9, TakesFromKeeps, VectorKeeps DEF OnlyRunnersQueue
  <1> QED
    BY <1>1, <1>2, <1>3, <1>4, <1>5, <1>6, <1>7, <1>8, <1>9 DEF MovesTask

\* Before the constructor runs.
LEMMA InitKeeps == PoolsInit => TaskInOnePlace
  <1> SUFFICES ASSUME PoolsInit PROVE TaskInOnePlace
    OBVIOUS
  <1>1. /\ queue = <<>> /\ local = [w \in Workers |-> <<>>] /\ published = 0
        /\ growing = FALSE /\ crashed = FALSE /\ probe = [w \in Workers |-> 0]
        /\ PoolInit /\ kind \in {"shared", "private", "stealing"}
    BY DEF PoolsInit, Init
  <1>2. TypeOK
    BY <1>1, HoldsNothing DEF TypeOK, PoolTypeOK, PoolInit
  <1>3. OwnerInv /\ QueuesPublished /\ \A w \in Workers : WorkerInv(w)
    BY <1>1, FS_CardinalityType DEF OwnerInv, QueuesPublished, WorkerInv,
       PoolInit
  <1>4. QueuedOnce /\ OneWorkerPerTask
    BY <1>1, HoldsNothing DEF QueuedOnce, OneWorkerPerTask, PoolInit
  <1> QED
    BY <1>2, <1>3, <1>4 DEF TaskInOnePlace

\* No task is lost between the pool's queue, the workers' queues and the
\* workers, or in two of them, however thieves, submitters and the destructor
\* interleave; and no running worker's deque is missing from the vector.
THEOREM TasksInOnePlace == PoolsSpec => []TaskInOnePlace
  <1>1. TaskInOnePlace /\ UNCHANGED allVars => TaskInOnePlace'
    BY DEF allVars, vars, poolVars, stealing, TaskInOnePlace, TypeOK,
       PoolTypeOK, OwnerInv, WorkerInv, QueuedOnce, OneWorkerPerTask,
       QueuesPublished
  <1>2. TaskInOnePlace /\ [PoolsNext]_allVars => TaskInOnePlace'
    BY <1>1, NextKeeps
  <1> QED
    BY <1>2, InitKeeps, PTL DEF PoolsSpec

-----------------------------------------------------------------------------
(* The destructor leaves nothing behind                                    *)

\* In a destroyed pool nothing is queued any more, and nobody is left to queue.
LEMMA QuietKeeps ==
  ASSUME TaskInOnePlace, QuietWhenDestroyed, PoolsNext
  PROVE  QuietWhenDestroyed'
  <1> SUFFICES ASSUME owner' = "destroyed" PROVE QuietWhenDestroyed'
    BY DEF QuietWhenDestroyed
  <1>0. TasksAndThreads /\ TaskInOnePlace' /\ (MovesNoTask \/ MovesTask)
    BY HasParts, NextKeeps, NextCommon DEF CommonStep
  <1>1. /\ \A w \in Workers : worker'[w] \in {"unborn", "exited"}
        /\ \A w \in Workers : task'[w] = NoTask
        /\ \A k \in Tasks : status'[k] # "running"
        /\ status' \in [Tasks -> {"new", "queued", "running", "done", "dropped"}]
    <2>1. TypeOK' /\ OneWorkerPerTask' /\ \A w \in Workers : WorkerInv(w)'
      BY <1>0 DEF TaskInOnePlace
    <2>2. \A w \in Workers : worker'[w] \in {"unborn", "exited"} /\ task'[w] = NoTask
      BY <2>1 DEF WorkerInv
    <2>3. \A k \in Tasks : status'[k] # "running"
      BY <2>1, <2>2 DEF OneWorkerPerTask
    <2> QED
      BY <2>1, <2>2, <2>3 DEF TypeOK, PoolTypeOK
  <1>2. ASSUME owner = "destroyed" PROVE status' = status
    <2>1. \A w \in Workers : worker[w] \in {"unborn", "exited"}
      BY <1>0, <1>2 DEF TasksAndThreads, WorkerInv
    <2>2. CASE MovesNoTask
      BY <1>2, <2>2 DEF MovesNoTask, poolVars, Constructed, DtorBegin,
         SpawnFails, Spawn, Join, Wanders, MovesOn
    <2>3. ~MovesTask
      BY <1>2, <2>1 DEF MovesTask, DestroysQueues, Destroy, QueuesInPool,
         ClientSubmits, TaskSubmits, TakesFromPool, Runs, At, EndsWithQueue,
         Finishes, QueuesInOwn, TakesFrom
    <2> QED
      BY <1>0, <2>2, <2>3
  <1>3. ASSUME owner # "destroyed" PROVE \A k \in Tasks : status'[k] # "queued"
    <2>1. CASE MovesNoTask
      BY <1>0, <1>3, <2>1 DEF MovesNoTask, poolVars, Constructed, DtorBegin,
         SpawnFails, Spawn, Join, Wanders, MovesOn
    <2>2. CASE DestroysQueues
      BY <2>2 DEF DestroysQueues, Destroy, Mark
    <2>3. CASE MovesTask /\ ~DestroysQueues
      BY <1>3, <2>3 DEF MovesTask, QueuesInPool, ClientSubmits,
         TaskSubmits, TakesFromPool, Runs, EndsWithQueue, Finishes, QueuesInOwn,
         TakesFrom
    <2> QED
      BY <1>0, <2>1, <2>2, <2>3
  <1>4. \A k \in Tasks : status'[k] # "queued"
    BY <1>2, <1>3 DEF QuietWhenDestroyed
  <1> QED
    BY <1>1, <1>4 DEF QuietWhenDestroyed

\* When the destructor is through, all workers that were started have ended
\* and no task is queued or running: no thread uses a destroyed member, and
\* nobody waits in get() for a promise that is neither kept nor broken.
THEOREM PoolsGoQuiet == PoolsSpec => []QuietWhenDestroyed
  <1>1. PoolsInit => QuietWhenDestroyed
    BY DEF PoolsInit, Init, PoolInit, QuietWhenDestroyed
  <1>2. TaskInOnePlace /\ QuietWhenDestroyed /\ [PoolsNext]_allVars =>
          QuietWhenDestroyed'
    BY QuietKeeps DEF allVars, vars, poolVars, QuietWhenDestroyed
  <1> QED
    BY <1>1, <1>2, TasksInOnePlace, PTL DEF PoolsSpec

-----------------------------------------------------------------------------
\* Where the awaited tasks of ThreadPool2q are: behind the task that waits.
AwaitedInv ==
  kind = "private" =>
    /\ \A k \in Tasks : Holds(queue, k) => Parent[k] = NoTask
    /\ \A k \in Awaits, w \in Workers :
         Holds(local[w], k) => worker[w] = "run" /\ task[w] = Parent[k]
    /\ \A k \in Awaits : status[k] \notin {"running", "done"}

\* A task with an awaited child finishes only when the child has, so the child
\* stays queued behind it until that queue is dropped.
LEMMA AwaitedKeeps ==
  ASSUME TaskInOnePlace, AwaitedInv, PoolsNext
  PROVE  AwaitedInv'
  <1>0. TasksAndThreads /\ CommonStep /\ UNCHANGED kind
    BY HasParts, NextCommon DEF CommonStep, Rest
  <1> SUFFICES ASSUME kind = "private" PROVE AwaitedInv'
    BY <1>0 DEF AwaitedInv
  <1>a. /\ \A k \in Awaits : k \in Tasks /\ Parent[k] # NoTask
        /\ \A k \in Tasks : Holds(queue, k) => Parent[k] = NoTask
        /\ \A k \in Awaits, w \in Workers :
             Holds(local[w], k) => worker[w] = "run" /\ task[w] = Parent[k]
        /\ \A k \in Awaits : status[k] \notin {"running", "done"}
    BY DEF AwaitedInv
  <1>b. /\ queue \in Seq(Tasks) /\ local \in [Workers -> Seq(Tasks)]
        /\ PoolTypeOK /\ QueuedOnce /\ OneWorkerPerTask
        /\ \A w \in Workers : WorkerInv(w)
    BY <1>0 DEF TasksAndThreads
  <1>1. CASE MovesNoTask
    <2>1. /\ UNCHANGED <<queue, local, status, task>>
          /\ \A w \in Workers : worker[w] = "run" => worker'[w] = "run"
      BY <1>b, <1>1 DEF MovesNoTask, poolVars, Constructed, DtorBegin,
         SpawnFails, Spawn, Join, Wanders, MovesOn, At, Goto, PoolTypeOK
    <2> QED
      BY <1>a, <2>1 DEF AwaitedInv
  <1>2. CASE DestroysQueues
    <2>1. /\ queue' = <<>> /\ local' = [w \in Workers |-> <<>>] /\ UNCHANGED task
          /\ \A k \in Tasks : status'[k] = status[k] \/ status'[k] = "dropped"
      BY <1>0, <1>2, DestroyKeeps DEF DestroysQueues, Destroy, Mark,
         TasksAndThreads
    <2> QED
      BY <1>a, <2>1, HoldsNothing DEF AwaitedInv
  <1>3. ASSUME NEW k \in Tasks, QueuesInPool(k) PROVE AwaitedInv'
    <2>1. /\ Parent[k] = NoTask /\ UNCHANGED <<worker, task, local>>
          /\ \A x \in Tasks : status'[x] = status[x] \/ status'[x] = "queued"
          /\ \A x : Holds(queue', x) <=> Holds(queue, x) \/ x = k
      BY <1>b, <1>3, HoldsAppend DEF QueuesInPool, ClientSubmits, Mark
    <2> QED
      BY <1>a, <2>1 DEF AwaitedInv
  <1>4. ASSUME NEW w \in Workers, TakesFromPool(w) PROVE AwaitedInv'
    <2>1. PICK k \in Tasks :
            /\ Holds(queue, k) /\ Runs(w, "pool", k) /\ local' = local
            /\ \A x : Holds(queue', x) => Holds(queue, x)
      BY <1>b, <1>4, HoldsTail DEF TakesFromPool, QueuedOnce
    <2>2. k \notin Awaits
      BY <1>a, <2>1
    <2>3. /\ worker[w] = "pool"
          /\ \A v \in Workers :
               v # w => worker'[v] = worker[v] /\ task'[v] = task[v]
          /\ \A x \in Tasks : x # k => status'[x] = status[x]
      BY <1>b, <2>1 DEF Runs, At, Goto, Mark, PoolTypeOK
    <2> QED
      BY <1>a, <2>1, <2>2, <2>3 DEF AwaitedInv
  <1>5. ASSUME NEW w \in Workers, NEW v \in Workers, TakesFrom(w, v)
        PROVE  AwaitedInv'
    <2>1. v = w /\ local[w] \in Seq(Tasks) /\ local[w] # <<>> /\ NoRepeat(local[w])
      BY <1>b, <1>5 DEF TakesFrom, QueuedOnce
    <2>2. PICK k \in Tasks, from \in {"local", "steal"} :
            /\ Runs(w, from, k) /\ Holds(local[w], k)
            /\ local' \in [Workers -> Seq(Tasks)] /\ NoRepeat(local'[w])
            /\ \A x : Holds(local'[w], x) <=> Holds(local[w], x) /\ x # k
            /\ \A u \in Workers : u # w => local'[u] = local[u]
      BY <1>b, <1>5, <2>1, TakesOneOf
    <2>3. /\ worker[w] # "run" /\ queue' = queue
          /\ \A u \in Workers :
               u # w => worker'[u] = worker[u] /\ task'[u] = task[u]
          /\ \A x \in Tasks : x # k => status'[x] = status[x]
      BY <1>b, <1>5, <2>2 DEF TakesFrom, Runs, At, Goto, Mark, PoolTypeOK
    <2>4. k \notin Awaits
      BY <1>a, <2>2, <2>3
    <2> QED
      BY <1>a, <2>2, <2>3, <2>4 DEF AwaitedInv
  <1>6. ASSUME NEW w \in Workers, EndsWithQueue(w) PROVE AwaitedInv'
    <2>1. /\ queue' = queue /\ worker[w] = "loop" /\ local'[w] = <<>>
          /\ \A u \in Workers :
               u # w => worker'[u] = worker[u] /\ local'[u] = local[u]
          /\ UNCHANGED task
          /\ \A x \in Tasks : status'[x] = status[x] \/ status'[x] = "dropped"
      BY <1>b, <1>6 DEF EndsWithQueue, At, Goto, Mark, PoolTypeOK
    <2> QED
      BY <1>a, <2>1, HoldsNothing DEF AwaitedInv
  <1>7. ASSUME NEW w \in Workers, Finishes(w), UNCHANGED <<queue, local>>
        PROVE  AwaitedInv'
    <2>1. /\ worker[w] = "run" /\ ~Blocked(w) /\ task[w] \in Tasks
          /\ status[task[w]] = "running"
          /\ \A u \in Workers :
               u # w => worker'[u] = worker[u] /\ task'[u] = task[u]
          /\ \A x \in Tasks : x # task[w] => status'[x] = status[x]
      BY <1>b, <1>7 DEF Finishes, At, Goto, Mark, PoolTypeOK,
         OneWorkerPerTask, WorkerInv
    <2>2. \A k \in Awaits : ~Holds(local[w], k)
      <3> SUFFICES ASSUME NEW k \in Awaits, Holds(local[w], k) PROVE FALSE
        OBVIOUS
      <3>1. k \in Tasks /\ status[k] = "queued" /\ task[w] = Parent[k]
        BY <1>a, <1>b DEF QueuedOnce
      <3>2. WaitsFor(w, k)
        BY <2>1, <3>1 DEF WaitsFor, Children
      <3> QED
        BY <2>1, <3>1, <3>2 DEF Blocked
    <2>3. \A k \in Awaits : k # task[w]
      BY <1>a, <2>1
    <2> QED
      BY <1>7, <1>a, <2>1, <2>2, <2>3 DEF AwaitedInv
  <1>8. ASSUME NEW w \in Workers, NEW k \in Tasks, QueuesInOwn(w, k)
        PROVE  AwaitedInv'
    <2>1. /\ worker[w] = "run" /\ Parent[k] = task[w] /\ UNCHANGED <<queue, worker, task>>
          /\ \A x \in Tasks : status'[x] = status[x] \/ status'[x] = "queued"
      BY <1>8 DEF QueuesInOwn, TaskSubmits, Mark
    <2>2. /\ \A x : Holds(local'[w], x) <=> Holds(local[w], x) \/ x = k
          /\ \A u \in Workers : u # w => local'[u] = local[u]
      BY <1>b, <1>8, PutsInOwn
    <2> QED
      BY <1>a, <2>1, <2>2 DEF AwaitedInv
  <1> QED
    BY <1>0, <1>1, <1>2, <1>3, <1>4, <1>5, <1>6, <1>7, <1>8 DEF CommonStep,
       MovesTask

\* In ThreadPool2q a task that waits for a task it submitted waits for ever.
THEOREM PrivateChildNeverRuns == PoolsSpec => []AwaitedChildNeverRuns
  <1>1. PoolsInit => AwaitedInv
    BY HoldsNothing DEF PoolsInit, Init, PoolInit, AwaitedInv
  <1>2. TaskInOnePlace /\ AwaitedInv /\ [PoolsNext]_allVars => AwaitedInv'
    BY AwaitedKeeps DEF allVars, vars, poolVars, stealing, AwaitedInv
  <1>3. AwaitedInv => AwaitedChildNeverRuns
    BY DEF AwaitedInv, AwaitedChildNeverRuns
  <1> QED
    BY <1>1, <1>2, <1>3, TasksInOnePlace, PTL DEF PoolsSpec

-----------------------------------------------------------------------------
\* A step that leaves the tasks alone closes the pool or is a stutter.
LEMMA NextRefines ==
  ASSUME TaskInOnePlace, PoolsNext
  PROVE  Pool!Next \/ UNCHANGED Pool!vars
  <1>0. TasksAndThreads /\ CommonStep
    BY HasParts, NextCommon
  <1>b. /\ queue \in Seq(Tasks) /\ local \in [Workers -> Seq(Tasks)]
        /\ PoolTypeOK /\ QueuedOnce /\ OneWorkerPerTask
        /\ \A w \in Workers : WorkerInv(w)
        /\ status = [k \in Tasks |-> status[k]]
    BY <1>0 DEF TasksAndThreads, PoolTypeOK
  <1>1. CASE MovesNoTask
    <2>1. CASE DtorBegin \/ SpawnFails
      BY <2>1 DEF DtorBegin, SpawnFails, Pool!Next, Pool!Close
    <2>2. CASE Constructed
      BY <2>2 DEF Constructed, Pool!vars
    <2>3. CASE UNCHANGED poolVars \/ \E w \in Workers : Spawn(w) \/ Join(w) \/ Wanders(w)
      BY <2>3 DEF poolVars, Spawn, Join, Wanders, MovesOn, Pool!vars
    <2> QED
      BY <1>1, <2>1, <2>2, <2>3 DEF MovesNoTask
  <1>2. CASE DestroysQueues
    <2> DEFINE lost == {k \in Tasks : status[k] = "queued"}
    <2>1. /\ owner = "joining" /\ owner' = "destroyed"
          /\ status' = [k \in Tasks |-> IF k \in lost THEN "dropped" ELSE status[k]]
      BY <1>2 DEF DestroysQueues, Destroy, Mark
    <2>2. lost \in SUBSET {k \in Tasks : status[k] = "queued"}
      OBVIOUS
    <2>3. UNCHANGED (owner \in {"joining", "destroyed"})
      BY <2>1
    <2>4. Pool!Drop
      BY <2>1, <2>2, <2>3 DEF Pool!Drop
    <2> QED
      BY <2>4 DEF Pool!Next
  <1>3. ASSUME NEW k \in Tasks, status[k] = "new", Mark({k}, "queued"), UNCHANGED owner
        PROVE  Pool!Next
    BY <1>b, <1>3 DEF Mark, Pool!Next, Pool!Submit, Pool!Move
  <1>4. ASSUME NEW w \in Workers, NEW k \in Tasks, NEW from, Runs(w, from, k),
               status[k] = "queued"
        PROVE  Pool!Next
    BY <1>b, <1>4 DEF Runs, Mark, Pool!Next, Pool!Start, Pool!Move
  <1>5. ASSUME NEW w \in Workers, TakesFromPool(w) PROVE Pool!Next
    <2>1. Head(queue) \in Tasks /\ status[Head(queue)] = "queued"
      BY <1>b, <1>5, HoldsTail DEF TakesFromPool, QueuedOnce
    <2> QED
      BY <1>4, <1>5, <2>1 DEF TakesFromPool
  <1>6. ASSUME NEW w \in Workers, NEW v \in Workers, TakesFrom(w, v)
        PROVE  Pool!Next
    <2>2. PICK k \in Tasks, from \in {"local", "steal"} :
            Runs(w, from, k) /\ Holds(local[v], k)
      BY <1>b, <1>6, TakesOneOf DEF QueuedOnce
    <2>3. status[k] = "queued"
      BY <1>b, <2>2 DEF QueuedOnce
    <2> QED
      BY <1>4, <2>2, <2>3
  <1>7. ASSUME NEW w \in Workers, EndsWithQueue(w) PROVE Pool!Next
    <2> DEFINE lost == {local[w][i] : i \in 1..Len(local[w])}
    <2>1. /\ owner \in {"joining", "destroyed"} /\ UNCHANGED owner
          /\ status' = [k \in Tasks |-> IF k \in lost THEN "dropped" ELSE status[k]]
      BY <1>0, <1>7 DEF EndsWithQueue, Mark, TasksAndThreads
    <2>2. \A k \in lost : k \in Tasks /\ Holds(local[w], k)
      BY <1>b, ElementOfSeq DEF Holds
    <2>3. lost \in SUBSET {k \in Tasks : status[k] = "queued"}
      BY <1>b, <2>2 DEF QueuedOnce
    <2>4. Pool!Drop
      BY <2>1, <2>3 DEF Pool!Drop
    <2> QED
      BY <2>4 DEF Pool!Next
  <1>8. ASSUME NEW w \in Workers, Finishes(w) PROVE Pool!Next
    <2>1. /\ task[w] \in Tasks /\ status[task[w]] = "running" /\ UNCHANGED owner
          /\ status' = [status EXCEPT ![task[w]] = "done"]
      BY <1>b, <1>8 DEF Finishes, At, Mark, PoolTypeOK, WorkerInv,
         OneWorkerPerTask
    <2> QED
      BY <2>1 DEF Pool!Next, Pool!Finish, Pool!Move
  <1>9. ASSUME NEW k \in Tasks, QueuesInPool(k) \/ \E w \in Workers : QueuesInOwn(w, k)
        PROVE  Pool!Next
    BY <1>3, <1>9 DEF QueuesInPool, QueuesInOwn, ClientSubmits, TaskSubmits
  <1> QED
    BY <1>0, <1>1, <1>2, <1>5, <1>6, <1>7, <1>8, <1>9 DEF CommonStep, MovesTask

\* Each of the three pools implements TaskPool: a task runs at most once, after
\* its submit, and is dropped only by a pool that is being destroyed.
THEOREM PoolsRefineTaskPool == PoolsSpec => RefinesTaskPool
  <1>1. PoolsInit => Pool!Init
    BY DEF PoolsInit, Init, PoolInit, Pool!Init
  <1>2. UNCHANGED allVars => UNCHANGED Pool!vars
    BY DEF allVars, vars, poolVars, Pool!vars
  <1> QED
    BY <1>1, <1>2, TasksInOnePlace, NextRefines, PTL
       DEF PoolsSpec, RefinesTaskPool, Pool!Spec
=============================================================================
