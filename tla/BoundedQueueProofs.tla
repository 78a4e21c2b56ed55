------------------------- MODULE BoundedQueueProofs -------------------------
(* Proofs about the bounded queues, for every capacity and every finite set  *)
(* of producers and consumers.                                               *)
EXTENDS BoundedQueue, FiniteSetTheorems, TLAPS

USE BoundedAssumption

\* A thread that leaves a set of sleepers makes the awake ones one more.
LEMMA WakeOne ==
  ASSUME NEW S, IsFiniteSet(S), NEW W, W \subseteq S, NEW x \in W
  PROVE  /\ Cardinality(S \ (W \ {x})) = Cardinality(S \ W) + 1
         /\ Cardinality(S \ W) \in Nat
  <1>1. S \ (W \ {x}) = (S \ W) \union {x} /\ x \notin S \ W
    OBVIOUS
  <1>2. IsFiniteSet(S \ W)
    BY FS_Subset
  <1> QED
    BY <1>1, <1>2, FS_AddElement, FS_CardinalityType

\* Cardinalities of the awake threads are numbers, and 0 only if all sleep.
LEMMA AwakeFacts ==
  ASSUME NEW S, IsFiniteSet(S), NEW W, W \subseteq S
  PROVE  /\ Cardinality(S \ W) \in Nat
         /\ Cardinality(S \ W) = 0 <=> W = S
  <1>1. IsFiniteSet(S \ W)
    BY FS_Subset
  <1> QED
    BY <1>1, FS_CardinalityType, FS_EmptySet

\* The program starts with nobody asleep.
LEMMA InitInv == Init => Inv
  BY DEF Init, Inv, TypeOK, ThreadInv, SlotsCovered, ItemsCovered, Threads

\* Taking the mutex, finding no room or no item.
LEMMA CheckInv ==
  ASSUME Inv, NEW t \in Threads,
         \/ Lock(t)
         \/ t \in Producers /\ ProducerFindsFull(t)
         \/ t \in Consumers /\ ConsumerFindsEmpty(t)
  PROVE  Inv'
  <1> USE DEF Inv, At, Goto, Lock, ProducerFindsFull, ConsumerFindsEmpty,
              Unlocked, Threads
  <1>1. TypeOK'
    BY DEF TypeOK
  <1>2. ASSUME NEW u \in Threads PROVE ThreadInv(u)'
    BY DEF ThreadInv, TypeOK
  <1>3. SlotsCovered' /\ ItemsCovered'
    BY DEF SlotsCovered, ItemsCovered
  <1> QED
    BY <1>1, <1>2, <1>3

\* A producer goes to sleep only while there is no free slot at all.
LEMMA ProducerWaitsInv ==
  ASSUME Inv, NEW p \in Producers, ProducerWaits(p)
  PROVE  Inv'
  <1> USE DEF Inv, At, Goto, ProducerWaits, Threads
  <1>1. TypeOK'
    BY DEF TypeOK
  <1>2. ASSUME NEW u \in Threads PROVE ThreadInv(u)'
    BY DEF ThreadInv, TypeOK
  <1>3. SlotsCovered'
    <2>1. Cardinality(Producers \ notFull') \in Nat
      BY <1>1, AwakeFacts DEF TypeOK
    <2> QED
      BY <2>1 DEF ThreadInv, SlotsCovered
  <1>4. ItemsCovered'
    BY DEF ItemsCovered
  <1> QED
    BY <1>1, <1>2, <1>3, <1>4

\* A consumer goes to sleep only while there is no item at all.
LEMMA ConsumerWaitsInv ==
  ASSUME Inv, NEW c \in Consumers, ConsumerWaits(c)
  PROVE  Inv'
  <1> USE DEF Inv, At, Goto, ConsumerWaits, Threads
  <1>1. TypeOK'
    BY DEF TypeOK
  <1>2. ASSUME NEW u \in Threads PROVE ThreadInv(u)'
    BY DEF ThreadInv, TypeOK
  <1>3. ItemsCovered'
    <2>1. Cardinality(Consumers \ notEmpty') \in Nat
      BY <1>1, AwakeFacts DEF TypeOK
    <2> QED
      BY <2>1 DEF ThreadInv, ItemsCovered
  <1>4. SlotsCovered'
    BY DEF SlotsCovered
  <1> QED
    BY <1>1, <1>2, <1>3, <1>4

\* A wake-up only adds to those awake.
LEMMA SpuriousInv ==
  ASSUME Inv, NEW t \in Threads, SpuriousWakeup(t)
  PROVE  Inv'
  <1> USE DEF Inv, At, Goto, SpuriousWakeup, Threads
  <1>1. TypeOK'
    BY DEF TypeOK
  <1>2. ASSUME NEW u \in Threads PROVE ThreadInv(u)'
    BY DEF ThreadInv, TypeOK
  <1>3. SlotsCovered'
    <2>1. CASE t \in notFull
      BY <2>1, WakeOne DEF SlotsCovered, TypeOK
    <2>2. CASE t \notin notFull
      BY <2>2 DEF SlotsCovered
    <2> QED
      BY <2>1, <2>2
  <1>4. ItemsCovered'
    <2>1. CASE t \in notEmpty
      BY <2>1, WakeOne DEF ItemsCovered, TypeOK
    <2>2. CASE t \notin notEmpty
      BY <2>2 DEF ItemsCovered
    <2> QED
      BY <2>1, <2>2
  <1> QED
    BY <1>1, <1>2, <1>3, <1>4

\* One item more, one free slot less, and one consumer woken if any sleeps.
LEMMA PutsInv ==
  ASSUME Inv, NEW p \in Producers, Puts(p)
  PROVE  Inv'
  <1> USE DEF Inv, Goto, Puts, Threads
  <1>1. /\ queue' \in Seq(Producers)
        /\ Len(queue) \in Nat
        /\ Len(queue') = Len(queue) + 1
    BY DEF TypeOK
  <1>2. TypeOK'
    BY <1>1 DEF TypeOK
  <1>3. ASSUME NEW u \in Threads PROVE ThreadInv(u)'
    BY <1>1 DEF ThreadInv, TypeOK
  <1>4. SlotsCovered'
    <2>1. Cardinality(Producers \ notFull) \in Nat
      BY AwakeFacts DEF TypeOK
    <2> QED
      BY <1>1, <2>1 DEF SlotsCovered, TypeOK
  <1>5. ItemsCovered'
    <2>1. CASE notEmpty = {}
      BY <2>1 DEF ItemsCovered
    <2>2. ASSUME NEW c \in notEmpty, notEmpty' = notEmpty \ {c}
          PROVE  ItemsCovered'
      <3>1. /\ Cardinality(Consumers \ notEmpty')
                 = Cardinality(Consumers \ notEmpty) + 1
            /\ Cardinality(Consumers \ notEmpty) \in Nat
        BY <2>2, WakeOne DEF TypeOK
      <3> QED
        BY <1>1, <2>2, <3>1 DEF ItemsCovered
    <2> QED
      BY <2>1, <2>2
  <1> QED
    BY <1>2, <1>3, <1>4, <1>5

\* One item less, one free slot more, and one producer woken if any sleeps.
LEMMA GetsInv ==
  ASSUME Inv, NEW c \in Consumers, Gets(c)
  PROVE  Inv'
  <1> USE DEF Inv, Goto, Gets, Threads
  <1>1. /\ queue' \in Seq(Producers)
        /\ Len(queue) \in Nat
        /\ Len(queue') = Len(queue) - 1
    BY DEF TypeOK
  <1>2. TypeOK'
    BY <1>1 DEF TypeOK
  <1>3. ASSUME NEW u \in Threads PROVE ThreadInv(u)'
    BY <1>1 DEF ThreadInv, TypeOK
  <1>4. ItemsCovered'
    <2>1. Cardinality(Consumers \ notEmpty) \in Nat
      BY AwakeFacts DEF TypeOK
    <2> QED
      BY <1>1, <2>1 DEF ItemsCovered, TypeOK
  <1>5. SlotsCovered'
    <2>1. CASE notFull = {}
      BY <2>1 DEF SlotsCovered
    <2>2. ASSUME NEW p \in notFull, notFull' = notFull \ {p}
          PROVE  SlotsCovered'
      <3>1. /\ Cardinality(Producers \ notFull')
                 = Cardinality(Producers \ notFull) + 1
            /\ Cardinality(Producers \ notFull) \in Nat
        BY <2>2, WakeOne DEF TypeOK
      <3> QED
        BY <1>1, <2>2, <3>1 DEF SlotsCovered, TypeOK
    <2> QED
      BY <2>1, <2>2
  <1> QED
    BY <1>2, <1>3, <1>4, <1>5

\* Every step preserves the inductive invariant.
LEMMA NextInv == Inv /\ [Next]_vars => Inv'
  <1> SUFFICES ASSUME Inv, [Next]_vars PROVE Inv'
    OBVIOUS
  <1>1. CASE UNCHANGED vars
    BY <1>1 DEF vars, Inv, TypeOK, ThreadInv, SlotsCovered, ItemsCovered
  <1>2. ASSUME NEW p \in Producers, ProducerStep(p) PROVE Inv'
    <2>1. p \in Threads
      BY DEF Threads
    <2> QED
      BY <1>2, <2>1, CheckInv, PutsInv, ProducerWaitsInv DEF ProducerStep
  <1>3. ASSUME NEW c \in Consumers, ConsumerStep(c) PROVE Inv'
    <2>1. c \in Threads
      BY DEF Threads
    <2> QED
      BY <1>3, <2>1, CheckInv, GetsInv, ConsumerWaitsInv DEF ConsumerStep
  <1>4. ASSUME NEW t \in Threads, SpuriousWakeup(t) PROVE Inv'
    BY <1>4, SpuriousInv
  <1> QED
    BY <1>1, <1>2, <1>3, <1>4 DEF Next

\* One notify_one per item and per slot is enough, for any number of threads.
THEOREM BoundedInvariant == Spec => []Inv
  BY InitInv, NextInv, PTL DEF Spec

\* No mix of producers and consumers ever sleeps all at once.
THEOREM BoundedNoDeadlock == Spec => []NoDeadlock
  <1>1. Inv => NoDeadlock
    <2> SUFFICES ASSUME Inv, notFull \union notEmpty = Threads PROVE FALSE
      BY DEF NoDeadlock
    <2>1. notFull = Producers /\ notEmpty = Consumers
      BY DEF Inv, TypeOK, Threads
    <2>2. /\ Cardinality(Producers \ notFull) = 0
          /\ Cardinality(Consumers \ notEmpty) = 0
      BY <2>1, AwakeFacts
    <2>3. Len(queue) \in Nat
      BY DEF Inv, TypeOK
    <2> QED
      BY <2>1, <2>2, <2>3 DEF Inv, SlotsCovered, ItemsCovered
  <1> QED
    BY <1>1, BoundedInvariant, PTL
=============================================================================
