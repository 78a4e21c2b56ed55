---------------------------- MODULE BoundedQueue ----------------------------
(***************************************************************************)
(* multi-thread/producer_cosumer.cpp (class ConcurrentQueue(int cap)) and  *)
(* concurrent_practice/produce_consumer.cc: producers and consumers that   *)
(* loop for ever around one bounded std::queue, with one mutex and a       *)
(* condition variable for each direction.  Both call notify_one while they *)
(* hold the mutex, and both check their condition again after each wait.   *)
(* (PutsSilently and UnlockedAlways, which Next does not use, are faulty   *)
(* forms of what follows them.)                                            *)
(***************************************************************************)
EXTENDS Integers, Sequences, FiniteSets

CONSTANTS Producers, Consumers,
          Capacity,  \* capicity_, max_size
          NoThread

Threads == Producers \union Consumers

ASSUME BoundedAssumption ==
  /\ IsFiniteSet(Producers) /\ Producers # {}
  /\ IsFiniteSet(Consumers) /\ Consumers # {}
  /\ Producers \intersect Consumers = {}
  /\ Capacity \in Nat \ {0}
  /\ NoThread \notin Threads

VARIABLES
  queue,     \* q_, q: each item is the thread that put it there
  mutex,     \* the owner of lock_, mutex
  notFull,   \* the producers blocked in cv1_, cv_not_full
  notEmpty,  \* the consumers blocked in cv2_, cv_not_empty
  pc         \* where each thread is

vars == <<queue, mutex, notFull, notEmpty, pc>>

Init ==
  /\ queue = <<>>
  /\ mutex = NoThread
  /\ notFull = {}
  /\ notEmpty = {}
  /\ pc = [t \in Threads |-> "lock"]

Goto(t, to) == pc' = [pc EXCEPT ![t] = to]
At(t, from, to) == pc[t] = from /\ Goto(t, to)

UnlockedAlways == TRUE
Unlocked == mutex = NoThread

Lock(t) ==
  /\ At(t, "lock", "check")
  /\ Unlocked
  /\ mutex' = t
  /\ UNCHANGED <<queue, notFull, notEmpty>>

\* push, notify_one and the end of the unique_lock, all in one hold of the mutex
PutsSilently(p) ==
  /\ Len(queue) < Capacity
  /\ At(p, "check", "lock")
  /\ queue' = Append(queue, p)
  /\ mutex' = NoThread
  /\ UNCHANGED <<notFull, notEmpty>>
Puts(p) ==
  /\ pc[p] = "check"
  /\ Len(queue) < Capacity
  /\ queue' = Append(queue, p)
  /\ mutex' = NoThread
  /\ UNCHANGED notFull
  /\ \/ /\ notEmpty = {}
        /\ Goto(p, "lock")
        /\ UNCHANGED notEmpty
     \/ \E c \in notEmpty :
          /\ notEmpty' = notEmpty \ {c}
          /\ pc' = [pc EXCEPT ![p] = "lock", ![c] = "lock"]

ProducerFindsFull(p) ==
  /\ Len(queue) >= Capacity
  /\ At(p, "check", "block")
  /\ UNCHANGED <<queue, mutex, notFull, notEmpty>>

\* wait releases the mutex and blocks in one step
ProducerWaits(p) ==
  /\ At(p, "block", "wait")
  /\ notFull' = notFull \union {p}
  /\ mutex' = NoThread
  /\ UNCHANGED <<queue, notEmpty>>

Gets(c) ==
  /\ pc[c] = "check"
  /\ queue # <<>>
  /\ queue' = Tail(queue)
  /\ mutex' = NoThread
  /\ UNCHANGED notEmpty
  /\ \/ /\ notFull = {}
        /\ Goto(c, "lock")
        /\ UNCHANGED notFull
     \/ \E p \in notFull :
          /\ notFull' = notFull \ {p}
          /\ pc' = [pc EXCEPT ![c] = "lock", ![p] = "lock"]

ConsumerFindsEmpty(c) ==
  /\ queue = <<>>
  /\ At(c, "check", "block")
  /\ UNCHANGED <<queue, mutex, notFull, notEmpty>>

ConsumerWaits(c) ==
  /\ At(c, "block", "wait")
  /\ notEmpty' = notEmpty \union {c}
  /\ mutex' = NoThread
  /\ UNCHANGED <<queue, notFull>>

SpuriousWakeup(t) ==
  /\ At(t, "wait", "lock")
  /\ notFull' = notFull \ {t}
  /\ notEmpty' = notEmpty \ {t}
  /\ UNCHANGED <<queue, mutex>>

ProducerStep(p) ==
  Lock(p) \/ Puts(p) \/ ProducerFindsFull(p) \/ ProducerWaits(p)
ConsumerStep(c) ==
  Lock(c) \/ Gets(c) \/ ConsumerFindsEmpty(c) \/ ConsumerWaits(c)

Next ==
  \/ \E p \in Producers : ProducerStep(p)
  \/ \E c \in Consumers : ConsumerStep(c)
  \/ \E t \in Threads : SpuriousWakeup(t)

\* Every thread that can run is scheduled, and a thread that asks for the
\* mutex again and again does not keep one that waits for it out for ever.
Fairness ==
  /\ \A p \in Producers : WF_vars(ProducerStep(p)) /\ SF_vars(Lock(p))
  /\ \A c \in Consumers : WF_vars(ConsumerStep(c)) /\ SF_vars(Lock(c))

Spec == Init /\ [][Next]_vars /\ Fairness
-----------------------------------------------------------------------------
(* Properties                                                              *)

\* Every variable stays in its type, and the queue within its capacity.
TypeOK ==
  /\ queue \in Seq(Producers)
  /\ Len(queue) <= Capacity
  /\ mutex \in Threads \union {NoThread}
  /\ notFull \in SUBSET Producers
  /\ notEmpty \in SUBSET Consumers
  /\ pc \in [Threads -> {"lock", "check", "block", "wait"}]

\* What each thread's place in the code says about the shared state.
ThreadInv(t) ==
  /\ mutex = t <=> pc[t] \in {"check", "block"}
  /\ t \in notFull \union notEmpty <=> pc[t] = "wait"
  /\ pc[t] = "block" /\ t \in Producers => Len(queue) = Capacity
  /\ pc[t] = "block" /\ t \in Consumers => Len(queue) = 0

\* One notify_one per item is enough: while a producer sleeps there is an
\* awake producer for each free slot, and while a consumer sleeps there is
\* an awake consumer for each item, so no slot and no item is forgotten.
SlotsCovered ==
  notFull # {} => Capacity - Len(queue) <= Cardinality(Producers \ notFull)
ItemsCovered ==
  notEmpty # {} => Len(queue) <= Cardinality(Consumers \ notEmpty)

\* The inductive invariant of the bounded queue.
Inv ==
  /\ TypeOK
  /\ \A t \in Threads : ThreadInv(t)
  /\ SlotsCovered
  /\ ItemsCovered

\* There is always a thread that is not blocked in a wait.
NoDeadlock == notFull \union notEmpty # Threads

\* Items flow for ever: some consumer gets one again and again, hence the
\* single consumer that both programs start, however the producers race it.
ItemsFlow == []<><<\E c \in Consumers : Gets(c)>>_vars
=============================================================================
