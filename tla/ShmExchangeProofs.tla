-------------------------- MODULE ShmExchangeProofs --------------------------
(* Proofs about linux_learning/lec40 for every number of producers and        *)
(* consumers, every MAX_NUM, every length a user enters and every kill.       *)
EXTENDS ShmExchange, FiniteSetTheorems, TLAPS

USE ShmAssumption DEF Procs

InsideAt == {"inside", "input", "wipe", "wiped", "v", "exit"}

\* Counting a set of processes that gains or loses one.
LEMMA CountOne ==
  ASSUME NEW A \in SUBSET Procs, NEW p \in Procs
  PROVE  /\ Cardinality(A) \in Nat
         /\ Cardinality(A) = 0 <=> A = {}
         /\ p \notin A => Cardinality(A \union {p}) = Cardinality(A) + 1
         /\ p \in A => Cardinality(A \ {p}) = Cardinality(A) - 1
  <1>1. IsFiniteSet(A)
    BY FS_Union, FS_Subset
  <1> QED
    BY <1>1, FS_AddElement, FS_RemoveElement, FS_CardinalityType, FS_EmptySet

\* A set of processes with at most one element.
LEMMA AtMostOne ==
  ASSUME NEW A \in SUBSET Procs, Cardinality(A) <= 1,
         NEW p \in A, NEW q \in A
  PROVE  p = q
  <1> SUFFICES ASSUME p # q PROVE FALSE
    OBVIOUS
  <1>1. /\ Cardinality(A \ {p}) = Cardinality(A) - 1
        /\ Cardinality(A \ {p}) = 0 <=> A \ {p} = {}
        /\ Cardinality(A) \in Nat /\ Cardinality(A \ {p}) \in Nat
    BY CountOne
  <1> QED
    BY <1>1

\* Who is inside after one process moves.
LEMMA InsideMoves ==
  ASSUME TypeOK, NEW p \in Procs, NEW to, Goto(p, to)
  PROVE  Inside' = IF to \in InsideAt THEN Inside \union {p} ELSE Inside \ {p}
  BY DEF TypeOK, Goto, Inside, InsideAt

\* The kernel's first state satisfies the inductive invariant.
LEMMA InitInv == Init => Inv
  <1> SUFFICES ASSUME Init PROVE Inv
    OBVIOUS
  <1>1. Inside = {}
    BY DEF Init, Inside
  <1>2. SemaphoreBalanced
    BY <1>1, FS_EmptySet DEF Init, SemaphoreBalanced
  <1>3. TypeOK
    <2>1. /\ adj \in [Procs -> Int]
          /\ pc \in [Procs -> {"off", "p", "inside", "input", "wipe", "wiped", "v",
                              "exit", "clear", "cleared", "setall"}]
      BY DEF Init
    <2>2. /\ sem \in Nat /\ datalength \in Int /\ filled \in 0..MaxNum
          /\ kills \in 0..MaxKills /\ summed \in 0..2
      BY DEF Init
    <2> QED
      BY <2>1, <2>2 DEF Init, TypeOK
  <1> QED
    BY <1>1, <1>2, <1>3 DEF Init, Inv, SegmentInv, SumsWholeBatchesOnce

\* The steps between p and v, or outside, that touch no semaphore.
Moves(p) ==
  \/ ProducerStarts(p) \/ ProducerFindsBatch(p)
  \/ p \in Producers /\ (ProducerWipesData(p) \/ ProducerWipesLength(p))
  \/ ProducerGivesUp(p) \/ ProducerFills(p) \/ ProducerFilled(p)
  \/ (\E n \in Lengths : ProducerReadsLength(p, n))
  \/ ConsumerStarts(p) \/ ConsumerFindsNothing(p) \/ ConsumerSums(p)
  \/ ConsumerWipesData(p) \/ ConsumerWipesLength(p)

\* A producer's and a consumer's code, step by step, and the kill.
LEMMA NextCases ==
  ASSUME Next
  PROVE  \E p \in Procs :
           P(p) \/ V(p) \/ Exit(p) \/ Kill(p) \/ ProducerSetsAll(p) \/ Moves(p)
  BY DEF Next, ProducerStep, ConsumerStep, Moves

\* Every variable stays in its type.
LEMMA TypesNext ==
  ASSUME TypeOK, NEW p \in Procs,
         P(p) \/ V(p) \/ Exit(p) \/ Kill(p) \/ ProducerSetsAll(p) \/ Moves(p)
  PROVE  TypeOK'
  <1> USE DEF TypeOK, At, Goto, segment, history
  <1>1. CASE P(p)
    <2>1. intruded' \in BOOLEAN
      BY <1>1 DEF P
    <2> QED
      BY <1>1, <2>1 DEF P
  <1>2. CASE V(p)
    BY <1>2 DEF V
  <1>3. CASE Exit(p)
    BY <1>3 DEF Exit, Undone
  <1>4. CASE Kill(p)
    <2>1. torn' \in BOOLEAN
      BY <1>4 DEF Kill
    <2>2. sem' \in Nat /\ adj' \in [Procs -> Int]
      BY <1>4 DEF Kill, Undone
    <2> QED
      BY <1>4, <2>1, <2>2 DEF Kill
  <1>5. CASE ProducerSetsAll(p)
    BY <1>5 DEF ProducerSetsAll
  <1>6. CASE Moves(p)
    <2>1. CASE ProducerStarts(p) \/ ConsumerStarts(p) \/ ProducerFindsBatch(p)
               \/ ConsumerFindsNothing(p) \/ ProducerFilled(p)
      BY <2>1 DEF ProducerStarts, ConsumerStarts, ProducerFindsBatch,
         ConsumerFindsNothing, ProducerFilled
    <2>2. CASE \E n \in Lengths : ProducerReadsLength(p, n)
      BY <2>2 DEF ProducerReadsLength
    <2>3. CASE ProducerWipesData(p) \/ ProducerWipesLength(p)
      <3>1. intruded' \in BOOLEAN
        BY <2>3 DEF ProducerWipesData, ProducerWipesLength
      <3> QED
        BY <2>3, <3>1 DEF ProducerWipesData, ProducerWipesLength
    <2>4. CASE ProducerGivesUp(p) \/ ProducerFills(p)
      BY <2>4 DEF ProducerGivesUp, ProducerFills
    <2>5. CASE ConsumerSums(p) \/ ConsumerWipesData(p) \/ ConsumerWipesLength(p)
      BY <2>5 DEF ConsumerSums, ConsumerWipesData, ConsumerWipesLength
    <2> QED
      BY <1>6, <2>1, <2>2, <2>3, <2>4, <2>5 DEF Moves
  <1> QED
    BY <1>1, <1>2, <1>3, <1>4, <1>5, <1>6

\* Nobody enters or leaves in those steps.
LEMMA MovesFacts ==
  ASSUME TypeOK, NEW p \in Procs, Moves(p)
  PROVE  /\ UNCHANGED <<sem, adj, torn, Inside>>
         /\ intruded => intruded'
         /\ \A q \in Procs : q # p => pc'[q] = pc[q]
  <1>1. PICK to : Goto(p, to) /\ (to \in InsideAt <=> p \in Inside)
    BY DEF Moves, ProducerStarts, ProducerWipesData, ProducerWipesLength, ProducerFindsBatch,
       ProducerGivesUp, ProducerFills, ProducerFilled, ProducerReadsLength,
       ConsumerStarts, ConsumerFindsNothing, ConsumerSums, ConsumerWipesData,
       ConsumerWipesLength, At, Inside, InsideAt
  <1>2. Inside' = Inside
    BY <1>1, InsideMoves
  <1>3. \A q \in Procs : q # p => pc'[q] = pc[q]
    BY <1>1 DEF Goto, TypeOK
  <1>4. CASE p \in Producers /\ (ProducerWipesData(p) \/ ProducerWipesLength(p))
    BY <1>2, <1>3, <1>4 DEF ProducerWipesData, ProducerWipesLength
  <1>5. CASE ~(p \in Producers /\ (ProducerWipesData(p) \/ ProducerWipesLength(p)))
    BY <1>2, <1>3, <1>5 DEF Moves, ProducerStarts, ProducerFindsBatch,
       ProducerGivesUp, ProducerFills, ProducerFilled, ProducerReadsLength,
       ConsumerStarts, ConsumerFindsNothing, ConsumerSums, ConsumerWipesData,
       ConsumerWipesLength, segment, history
  <1> QED
    BY <1>4, <1>5

\* The semaphore and the kernel's undos follow who is inside.
LEMMA BalanceNext ==
  ASSUME Inv, NEW p \in Procs,
         P(p) \/ V(p) \/ Exit(p) \/ Kill(p) \/ ProducerSetsAll(p) \/ Moves(p)
  PROVE  SemaphoreBalanced' /\ (Permits = 1 /\ ~intruded' => Permits' = 1)
  <1> USE DEF At, segment, history
  <1>0. /\ TypeOK /\ Inside \in SUBSET Procs /\ Cardinality(Inside) \in Nat
        /\ sem \in Nat
    BY CountOne DEF Inv, TypeOK, Inside
  <1>1. CASE P(p)
    <2>1. Inside' = Inside \union {p} /\ p \notin Inside
      BY <1>0, <1>1, InsideMoves DEF P, InsideAt, Inside
    <2>2. Cardinality(Inside') = Cardinality(Inside) + 1
      BY <1>0, <2>1, CountOne
    <2>3. sem' = sem - 1 /\ adj' = [adj EXCEPT ![p] = @ + 1] /\ (intruded => intruded')
      BY <1>1 DEF P
    <2> QED
      BY <1>0, <2>1, <2>2, <2>3 DEF Inv, TypeOK, SemaphoreBalanced, Permits
  <1>2. CASE V(p)
    <2>1. Inside' = Inside \ {p} /\ p \in Inside
      BY <1>0, <1>2, InsideMoves DEF V, InsideAt, Inside
    <2>2. Cardinality(Inside') = Cardinality(Inside) - 1
      BY <1>0, <2>1, CountOne
    <2>3. sem' = sem + 1 /\ adj' = [adj EXCEPT ![p] = @ - 1] /\ intruded' = intruded
      BY <1>2 DEF V
    <2> QED
      BY <1>0, <2>1, <2>2, <2>3 DEF Inv, TypeOK, SemaphoreBalanced, Permits
  <1>3. CASE Exit(p)
    <2>1. Inside' = Inside \ {p} /\ p \in Inside
      BY <1>0, <1>3, InsideMoves DEF Exit, InsideAt, Inside
    <2>2. Cardinality(Inside') = Cardinality(Inside) - 1
      BY <1>0, <2>1, CountOne
    <2>3. /\ sem' = Undone(sem + adj[p]) /\ adj' = [adj EXCEPT ![p] = 0]
          /\ intruded' = intruded
      BY <1>0, <1>3 DEF Exit, TypeOK
    <2> QED
      BY <1>0, <2>1, <2>2, <2>3 DEF Inv, TypeOK, SemaphoreBalanced, Undone, Permits
  <1>4. CASE Kill(p)
    <2>1. Inside' = Inside \ {p}
      BY <1>0, <1>4, InsideMoves DEF Kill, InsideAt
    <2>2. Cardinality(Inside') = Cardinality(Inside) - (IF p \in Inside THEN 1 ELSE 0)
      <3>1. CASE p \in Inside
        BY <1>0, <2>1, <3>1, CountOne
      <3>2. CASE p \notin Inside
        <4>1. Inside' = Inside
          BY <2>1, <3>2
        <4> QED
          BY <1>0, <3>2, <4>1
      <3> QED
        BY <3>1, <3>2
    <2>3. /\ sem' = Undone(sem + adj[p]) /\ adj' = [adj EXCEPT ![p] = 0]
          /\ intruded' = intruded
      BY <1>4 DEF Kill
    <2> QED
      BY <1>0, <2>1, <2>2, <2>3 DEF Inv, TypeOK, SemaphoreBalanced, Undone, Permits
  <1>5. CASE ProducerSetsAll(p)
    <2>1. Inside' = Inside
      BY <1>0, <1>5, InsideMoves DEF ProducerSetsAll, InsideAt, Inside
    <2>2. sem' = 1 /\ adj' = [q \in Procs |-> 0] /\ (Inside # {} => intruded')
      BY <1>5 DEF ProducerSetsAll
    <2>3. Cardinality({}) = 0
      BY FS_EmptySet
    <2> QED
      BY <2>1, <2>2, <2>3 DEF SemaphoreBalanced, Permits
  <1>6. CASE Moves(p)
    BY <1>0, <1>6, MovesFacts DEF Inv, SemaphoreBalanced, Permits
  <1> QED
    BY <1>1, <1>2, <1>3, <1>4, <1>5, <1>6

\* While no producer has intruded, two processes inside are one.
LEMMA OneInside ==
  ASSUME TypeOK, SemaphoreBalanced, ~intruded, NEW p \in Inside, NEW q \in Inside
  PROVE  p = q
  <1>1. Inside \in SUBSET Procs /\ Cardinality(Inside) <= 1
    <2>1. Inside \in SUBSET Procs /\ Cardinality(Inside) \in Nat
      BY CountOne DEF Inside
    <2> QED
      BY <2>1 DEF TypeOK, SemaphoreBalanced
  <1> QED
    BY <1>1, AtMostOne

\* A consumer that looks at the segment finds nobody else at work on it.
LEMMA SumsFollow ==
  ASSUME TypeOK, SemaphoreBalanced, SegmentInv
  PROVE  SumsWholeBatchesOnce
  <1> SUFFICES ASSUME ~intruded, ~torn, NEW c \in Consumers, pc[c] = "inside",
                      datalength > 0
               PROVE  summed = 0 /\ filled = datalength
    BY DEF SegmentInv, SumsWholeBatchesOnce
  <1>1. \A q \in Procs : pc[q] \notin {"input", "wipe", "wiped"}
    BY OneInside DEF Inside
  <1>2. ~Clearing
    BY DEF SegmentInv, Inside
  <1> QED
    BY <1>1, <1>2 DEF SegmentInv, TypeOK

\* The segment follows the process inside.
LEMMA SegmentNext ==
  ASSUME Inv, NEW p \in Procs,
         P(p) \/ V(p) \/ Exit(p) \/ Kill(p) \/ ProducerSetsAll(p) \/ Moves(p)
  PROVE  SegmentInv'
  <1> SUFFICES ASSUME ~intruded'
               PROVE  SegmentInv'
    BY DEF SegmentInv
  <1> USE DEF At, Goto, segment, history
  <1>0. TypeOK /\ SegmentInv
    BY DEF Inv
  <1>1. CASE P(p)
    <2>1. ~intruded /\ ~Clearing /\ ~Clearing'
      BY <1>0, <1>1 DEF P, Clearing, TypeOK
    <2> QED
      BY <1>0, <1>1, <2>1 DEF P, TypeOK, SegmentInv
  <1>2. CASE V(p) \/ Exit(p) \/ ProducerSetsAll(p)
    <2>1. ~intruded /\ Clearing' = Clearing /\ Inside' \subseteq Inside
      BY <1>0, <1>2 DEF V, Exit, ProducerSetsAll, Clearing, Inside, TypeOK
    <2> QED
      BY <1>0, <1>2, <2>1 DEF V, Exit, ProducerSetsAll, TypeOK, SegmentInv
  <1>3. CASE Kill(p)
    <2>1. ~intruded /\ (Clearing' => Clearing) /\ Inside' \subseteq Inside
      BY <1>0, <1>3 DEF Kill, Clearing, Inside, TypeOK
    <2>2. ~torn' => Clearing' = Clearing
      BY <1>0, <1>3 DEF Kill, Clearing, TypeOK
    <2> QED
      BY <1>0, <1>3, <2>1, <2>2 DEF Kill, Inside, TypeOK, SegmentInv
  <1>4. CASE Moves(p) /\ Inside' = Inside /\ p \notin Inside
    <2>1. CASE ProducerStarts(p) \/ ConsumerStarts(p)
      <3>1. Clearing' = Clearing
        BY <1>0, <2>1 DEF ProducerStarts, ConsumerStarts, Clearing, TypeOK
      <3> QED
        BY <1>0, <1>4, <2>1, <3>1 DEF ProducerStarts, ConsumerStarts, TypeOK, SegmentInv
    <2>2. CASE p \in Producers /\ (ProducerWipesData(p) \/ ProducerWipesLength(p))
      <3>1. Inside' = {}
        BY <1>4, <2>2 DEF ProducerWipesData, ProducerWipesLength
      <3>2. \A q \in Procs : pc'[q] \notin {"input", "wipe", "wiped"}
        BY <3>1 DEF Inside
      <3>3. CASE ProducerWipesData(p)
        <4>1. Clearing' /\ ~intruded
          BY <1>0, <2>2, <3>3 DEF ProducerWipesData, Clearing, TypeOK
        <4> QED
          BY <1>0, <3>1, <3>2, <3>3, <4>1 DEF ProducerWipesData, SegmentInv
      <3>4. CASE ProducerWipesLength(p)
        BY <3>1, <3>2, <3>4 DEF ProducerWipesLength, SegmentInv
      <3> QED
        BY <2>2, <3>3, <3>4
    <2> QED
      BY <1>4, <2>1, <2>2 DEF Moves, ProducerFindsBatch, ProducerFills, ProducerFilled,
         ProducerGivesUp, ProducerReadsLength, ConsumerFindsNothing, ConsumerSums,
         ConsumerWipesData, ConsumerWipesLength, Inside
  <1>5. CASE \/ \E n \in Lengths : ProducerReadsLength(p, n)
             \/ ProducerFindsBatch(p) \/ ConsumerFindsNothing(p)
             \/ ProducerFills(p) \/ ProducerFilled(p) \/ ProducerGivesUp(p)
             \/ ConsumerSums(p) \/ ConsumerWipesData(p) \/ ConsumerWipesLength(p)
    <2> USE DEF ProducerReadsLength, ProducerFindsBatch, ConsumerFindsNothing,
                ProducerFills, ProducerFilled, ProducerGivesUp,
                ConsumerSums, ConsumerWipesData, ConsumerWipesLength
    <2>1. ~intruded /\ p \in Inside
      BY <1>5 DEF Inside
    <2>7. ~Clearing /\ ~Clearing'
      <3>1. ~Clearing
        BY <1>0, <2>1 DEF SegmentInv
      <3> QED
        BY <1>0, <1>5, <3>1 DEF Clearing, TypeOK
    <2>2. \A q \in Procs : q # p => pc'[q] = pc[q] /\ pc[q] \notin InsideAt
      BY <1>0, <1>5, <2>1, OneInside DEF Inv, Inside, InsideAt, TypeOK
    <2>3. CASE \E n \in Lengths : ProducerReadsLength(p, n)
      BY <1>0, <2>2, <2>3, <2>7 DEF TypeOK, SegmentInv, InsideAt
    <2>8. CASE ProducerFindsBatch(p) \/ ConsumerFindsNothing(p)
      BY <1>0, <2>1, <2>2, <2>7, <2>8 DEF TypeOK, SegmentInv, InsideAt
    <2>4. CASE ProducerFills(p) \/ ProducerFilled(p) \/ ProducerGivesUp(p)
      BY <1>0, <2>1, <2>2, <2>4, <2>7 DEF TypeOK, SegmentInv, InsideAt
    <2>5. CASE ConsumerSums(p)
      <3>1. \A q \in Procs : pc[q] \notin {"input", "wipe", "wiped"}
        BY <2>2, <2>5 DEF InsideAt
      <3>2. ~torn => summed = 0 /\ filled = datalength
        BY <1>0, <2>1, <2>5, <2>7, <3>1 DEF TypeOK, SegmentInv
      <3> QED
        BY <1>0, <2>1, <2>2, <2>5, <2>7, <3>2 DEF TypeOK, SegmentInv, InsideAt
    <2>6. CASE ConsumerWipesData(p) \/ ConsumerWipesLength(p)
      BY <1>0, <2>1, <2>2, <2>6, <2>7 DEF TypeOK, SegmentInv, InsideAt
    <2> QED
      BY <1>5, <2>3, <2>4, <2>5, <2>6, <2>8
  <1> QED
    <2>1. CASE Moves(p)
      <3>1. Inside' = Inside
        BY <1>0, <2>1, MovesFacts
      <3>2. CASE p \in Inside
        BY <1>5, <2>1, <3>2 DEF Moves, ProducerStarts, ConsumerStarts,
           ProducerWipesData, ProducerWipesLength, Inside
      <3> QED
        BY <1>4, <2>1, <3>1, <3>2
    <2> QED
      BY <1>1, <1>2, <1>3, <2>1

\* Every step keeps the inductive invariant.
LEMMA NextInv == Inv /\ [Next]_vars => Inv'
  <1> SUFFICES ASSUME Inv, [Next]_vars PROVE Inv'
    OBVIOUS
  <1>1. CASE UNCHANGED vars
    BY <1>1 DEF vars, segment, history, Inv, TypeOK, SemaphoreBalanced,
       SegmentInv, SumsWholeBatchesOnce, Inside, Clearing
  <1>2. CASE Next
    <2>1. TypeOK' /\ SemaphoreBalanced' /\ SegmentInv'
      BY <1>2, NextCases, TypesNext, BalanceNext, SegmentNext DEF Inv
    <2>2. TypeOK' /\ SemaphoreBalanced' /\ SegmentInv' => SumsWholeBatchesOnce'
      BY SumsFollow, PTL
    <2> QED
      BY <2>1, <2>2 DEF Inv
  <1> QED
    BY <1>1, <1>2

\* Whatever the processes, the lengths and the kills: while no producer starts
\* beside a process inside, one process is inside at a time and the kernel's
\* undos say which; and if none was killed there, or in a producer's memset,
\* a consumer sums whole batches, each once.
THEOREM ShmInvariant == Spec => []Inv
  BY InitInv, NextInv, PTL DEF Spec

\* A batch leaves the segment only through a consumer that summed it, a
\* producer that refuses its length or one that clears the segment.
LEMMA BatchStays ==
  ASSUME Inv, NEW p \in Procs,
         P(p) \/ V(p) \/ Exit(p) \/ Kill(p) \/ ProducerSetsAll(p) \/ Moves(p),
         BatchLeaves, ~(p \in Producers /\ ProducerWipesLength(p))
  PROVE  summed > 0 \/ intruded
  <1>1. \/ \E n \in Lengths : ProducerReadsLength(p, n)
        \/ ProducerGivesUp(p) \/ ConsumerWipesLength(p)
    BY DEF P, V, Exit, Kill, ProducerSetsAll, Moves, ProducerStarts,
       ProducerFindsBatch, ProducerWipesData, ProducerFills, ProducerFilled, ConsumerStarts,
       ConsumerFindsNothing, ConsumerSums, ConsumerWipesData, segment,
       BatchLeaves
  <1>2. ConsumerWipesLength(p)
    BY <1>1 DEF ProducerReadsLength, ProducerGivesUp, BatchLeaves, Inv, TypeOK
  <1> QED
    BY <1>2 DEF ConsumerWipesLength, At, Inv, SegmentInv

\* SEM_UNDO never loses the permit of the semaphore, and a batch leaves the
\* segment only summed, refused, or cleared by a producer that starts.
THEOREM ShmLosesNothing == Spec => NothingLost
  <1> DEFINE Kept ==
        /\ Permits = 1 /\ ~intruded' => Permits' = 1
        /\ BatchLeaves => \/ summed > 0 \/ intruded
                          \/ \E p \in Producers : ProducerWipesLength(p)
  <1>1. ASSUME Inv, [Next]_vars PROVE [Kept]_vars
    <2>1. CASE UNCHANGED vars
      BY <2>1
    <2>2. CASE Next
      <3>1. PICK p \in Procs :
              P(p) \/ V(p) \/ Exit(p) \/ Kill(p) \/ ProducerSetsAll(p) \/ Moves(p)
        BY <2>2, NextCases
      <3>2. Permits = 1 /\ ~intruded' => Permits' = 1
        BY <1>1, <3>1, BalanceNext
      <3>3. BatchLeaves => \/ summed > 0 \/ intruded
                           \/ \E q \in Producers : ProducerWipesLength(q)
        BY <1>1, <3>1, BatchStays
      <3> QED
        BY <3>2, <3>3
    <2> QED
      BY <1>1, <2>1, <2>2
  <1> QED
    BY <1>1, ShmInvariant, PTL DEF Spec, NothingLost
=============================================================================
