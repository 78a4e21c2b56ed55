----------------------------- MODULE ShmExchange -----------------------------
(***************************************************************************)
(* linux_learning/lec40: a producer and consumers exchange one batch of    *)
(* integers through a System V shared memory segment, under a System V     *)
(* semaphore whose operations carry SEM_UNDO.  Segment and semaphore       *)
(* outlive the processes; a process may be killed anywhere and started     *)
(* again.  A producer that starts clears the segment and sets the          *)
(* semaphore to 1, without the semaphore and whoever is inside.  (A        *)
(* definition that Next does not use is the one after it with a fault.)    *)
(***************************************************************************)
EXTENDS Integers, FiniteSets

CONSTANTS Producers, Consumers,
          MaxNum,    \* MAX_NUM
          Lengths,   \* what a user enters for datalength
          MaxKills   \* bound: how many times a process is killed

ASSUME ShmAssumption ==
  /\ IsFiniteSet(Producers) /\ IsFiniteSet(Consumers)
  /\ Producers \intersect Consumers = {}
  /\ MaxNum \in Nat \ {0}
  /\ Lengths \subseteq Int
  /\ MaxKills \in Nat

Procs == Producers \union Consumers

VARIABLES
  sem,         \* the semaphore's value
  adj,         \* what the kernel undoes for each process when it ends
  datalength,  \* shared->datalength
  filled,      \* how many elements of shared->data the producer has stored
  pc,          \* where each process is
  kills,
  summed,      \* history: how often its batch was summed, 2 for more than once
  torn,        \* history: a process was killed between its p and its v, or in its memset
  intruded     \* history: a producer started while another was between them, or came there

segment == <<datalength, filled>>
history == <<summed, torn, intruded>>
vars == <<sem, adj, segment, pc, kills, history>>

\* the kernel creates a semaphore with value 0 and a segment of zeros
Init ==
  /\ sem = 0
  /\ adj = [p \in Procs |-> 0]
  /\ datalength = 0
  /\ filled = 0
  /\ pc = [p \in Procs |-> "off"]
  /\ kills = 0
  /\ summed = 0
  /\ torn = FALSE
  /\ intruded = FALSE

Goto(p, to) == pc' = [pc EXCEPT ![p] = to]
At(p, from, to) == pc[p] = from /\ Goto(p, to)

\* the processes between semaphore_p and semaphore_v
Inside ==
  {p \in Procs : pc[p] \in {"inside", "input", "wipe", "wiped", "v", "exit"}}

\* a producer that starts has cleared data, and not yet datalength
Clearing == \E p \in Producers : pc[p] = "cleared"
-----------------------------------------------------------------------------
(* semaphore_p, semaphore_v and the end of a process                       *)

PNoUndo(p) ==
  /\ sem > 0
  /\ At(p, "p", "inside")
  /\ sem' = sem - 1
  /\ intruded' = (intruded \/ Clearing)
  /\ UNCHANGED <<adj, segment, kills, summed, torn>>
P(p) ==
  /\ sem > 0
  /\ At(p, "p", "inside")
  /\ sem' = sem - 1
  /\ adj' = [adj EXCEPT ![p] = @ + 1]
  /\ intruded' = (intruded \/ Clearing)
  /\ UNCHANGED <<segment, kills, summed, torn>>

VNoUndo(p) ==
  /\ At(p, "v", "p")
  /\ sem' = sem + 1
  /\ UNCHANGED <<adj, segment, kills, history>>
V(p) ==
  /\ At(p, "v", "p")
  /\ sem' = sem + 1
  /\ adj' = [adj EXCEPT ![p] = @ - 1]
  /\ UNCHANGED <<segment, kills, history>>

\* when p ends the kernel adds adj[p] to the value, which stops at 0
Undone(value) == IF value < 0 THEN 0 ELSE value

\* semaphore_v and exit(1) of a producer that was given too many integers
Exit(p) ==
  /\ At(p, "exit", "off")
  /\ sem' = Undone(sem + 1 + (adj[p] - 1))
  /\ adj' = [adj EXCEPT ![p] = 0]
  /\ UNCHANGED <<segment, kills, history>>

Kill(p) ==
  /\ kills < MaxKills
  /\ pc[p] # "off" /\ Goto(p, "off")
  /\ kills' = kills + 1
  /\ sem' = Undone(sem + adj[p])
  /\ adj' = [adj EXCEPT ![p] = 0]
  /\ torn' = (torn \/ p \in Inside \/ pc[p] = "cleared")
  /\ UNCHANGED <<segment, summed, intruded>>
-----------------------------------------------------------------------------
(* producer.c                                                              *)

ProducerStarts(p) ==
  /\ At(p, "off", "clear")
  /\ UNCHANGED <<sem, adj, segment, kills, history>>

\* memset(shared, 0, ...), outside the semaphore: it clears data before it
\* comes to datalength
ProducerWipesData(p) ==
  /\ At(p, "clear", "cleared")
  /\ filled' = 0
  /\ intruded' = (intruded \/ Inside # {})
  /\ UNCHANGED <<sem, adj, datalength, kills, summed, torn>>

ProducerWipesLength(p) ==
  /\ At(p, "cleared", "setall")
  /\ datalength' = 0
  /\ summed' = 0
  /\ intruded' = (intruded \/ Inside # {})
  /\ UNCHANGED <<sem, adj, filled, kills, torn>>

\* semctl(SETALL) with 1, which also forgets the undos of every process
ProducerSetsAll(p) ==
  /\ At(p, "setall", "p")
  /\ sem' = 1
  /\ adj' = [q \in Procs |-> 0]
  /\ intruded' = (intruded \/ Inside # {})
  /\ UNCHANGED <<segment, kills, summed, torn>>

ProducerFindsBatch(p) ==
  /\ datalength > 0
  /\ At(p, "inside", "v")
  /\ UNCHANGED <<sem, adj, segment, kills, history>>

ProducerIgnoresBatch(p, n) ==
  /\ At(p, "inside", "input")
  /\ datalength' = n
  /\ filled' = 0
  /\ summed' = 0
  /\ UNCHANGED <<sem, adj, kills, torn, intruded>>
\* scanf straight into shared->datalength, before any element is there
ProducerReadsLength(p, n) ==
  /\ datalength <= 0
  /\ At(p, "inside", "input")
  /\ datalength' = n
  /\ filled' = 0
  /\ summed' = 0
  /\ UNCHANGED <<sem, adj, kills, torn, intruded>>

ProducerGivesUp(p) ==
  /\ datalength > MaxNum
  /\ At(p, "input", "exit")
  /\ datalength' = 0
  /\ UNCHANGED <<sem, adj, filled, kills, history>>

ProducerFills(p) ==
  /\ datalength <= MaxNum
  /\ filled < datalength
  /\ At(p, "input", "input")
  /\ filled' = filled + 1
  /\ UNCHANGED <<sem, adj, datalength, kills, history>>

ProducerFillsShort(p) ==
  /\ datalength <= MaxNum
  /\ filled >= datalength - 1
  /\ At(p, "input", "v")
  /\ UNCHANGED <<sem, adj, segment, kills, history>>
ProducerFilled(p) ==
  /\ datalength <= MaxNum
  /\ filled >= datalength
  /\ At(p, "input", "v")
  /\ UNCHANGED <<sem, adj, segment, kills, history>>
-----------------------------------------------------------------------------
(* consumer.c                                                              *)

ConsumerStarts(c) ==
  /\ At(c, "off", "p")
  /\ UNCHANGED <<sem, adj, segment, kills, history>>

ConsumerFindsNothing(c) ==
  /\ datalength <= 0
  /\ At(c, "inside", "v")
  /\ UNCHANGED <<sem, adj, segment, kills, history>>

\* the sum over data[0..datalength-1] is printed
ConsumerSums(c) ==
  /\ datalength > 0
  /\ At(c, "inside", "wipe")
  /\ summed' = IF summed < 2 THEN summed + 1 ELSE 2
  /\ UNCHANGED <<sem, adj, segment, kills, torn, intruded>>

\* memset(shared, 0, ...) clears data before it comes to datalength
ConsumerWipesData(c) ==
  /\ At(c, "wipe", "wiped")
  /\ filled' = 0
  /\ UNCHANGED <<sem, adj, datalength, kills, history>>

ConsumerKeepsLength(c) ==
  /\ At(c, "wiped", "v")
  /\ UNCHANGED <<sem, adj, segment, kills, history>>
ConsumerWipesLength(c) ==
  /\ At(c, "wiped", "v")
  /\ datalength' = 0
  /\ UNCHANGED <<sem, adj, filled, kills, history>>
-----------------------------------------------------------------------------
ProducerStep(p) ==
  \/ ProducerWipesData(p) \/ ProducerWipesLength(p) \/ ProducerSetsAll(p) \/ P(p) \/ V(p)
  \/ Exit(p) \/ ProducerFindsBatch(p) \/ ProducerGivesUp(p) \/ ProducerFills(p)
  \/ ProducerFilled(p)

ConsumerStep(c) ==
  \/ P(c) \/ V(c) \/ ConsumerFindsNothing(c) \/ ConsumerSums(c)
  \/ ConsumerWipesData(c) \/ ConsumerWipesLength(c)

Next ==
  \/ \E p \in Producers : \/ ProducerStarts(p) \/ ProducerStep(p)
                          \/ \E n \in Lengths : ProducerReadsLength(p, n)
  \/ \E c \in Consumers : ConsumerStarts(c) \/ ConsumerStep(c)
  \/ \E p \in Procs : Kill(p)

\* Running processes are scheduled and the kernel serves semop in turn; the
\* user need not enter anything and nobody has to start a process.
Fairness ==
  /\ \A p \in Producers : WF_vars(ProducerStep(p)) /\ SF_vars(P(p))
  /\ \A c \in Consumers : WF_vars(ConsumerStep(c)) /\ SF_vars(P(c))

Spec == Init /\ [][Next]_vars /\ Fairness
-----------------------------------------------------------------------------
(* Properties                                                              *)

\* Every variable stays in its type.
TypeOK ==
  /\ sem \in Nat
  /\ adj \in [Procs -> Int]
  /\ datalength \in Int
  /\ filled \in 0..MaxNum
  /\ pc \in [Procs -> {"off", "p", "inside", "input", "wipe", "wiped", "v",
                       "exit", "clear", "cleared", "setall"}]
  /\ kills \in 0..MaxKills
  /\ summed \in 0..2
  /\ torn \in BOOLEAN /\ intruded \in BOOLEAN

\* At most one process is inside and the kernel knows which one it is.  Only
\* a producer that starts beside a process inside can break this.
SemaphoreBalanced ==
  ~intruded =>
    /\ sem + Cardinality(Inside) <= 1
    /\ \A p \in Procs : adj[p] = IF p \in Inside THEN 1 ELSE 0

\* A consumer sums only batches of which the producer stored every element,
\* and each batch once.  What shows a consumer half a batch, or the same batch
\* again, is a kill between p and v, where the semaphore is undone and the
\* segment is not, a kill in the memset of a producer, or a producer that
\* starts while another process is, or goes, inside.
SumsWholeBatchesOnce ==
  ~intruded /\ ~torn =>
    /\ summed <= 1
    /\ \A c \in Consumers :
         pc[c] = "inside" /\ datalength > 0 => summed = 0 /\ filled = datalength

\* What the segment holds, by where the process inside it is: the part of the
\* inductive invariant that SumsWholeBatchesOnce and NothingLost rest on.
SegmentInv ==
  ~intruded =>
    /\ Clearing => Inside = {}
    /\ \A p \in Procs : pc[p] \in {"wipe", "wiped"} => summed > 0
    /\ ~torn =>
         /\ summed <= 1
         /\ \A p \in Procs : pc[p] = "input" =>
              summed = 0 /\ (datalength <= 0 \/ filled <= datalength)
         /\ ~Clearing /\ (\A p \in Procs : pc[p] \notin {"input", "wipe", "wiped"}) =>
              datalength <= 0 \/ (summed = 0 /\ filled = datalength)

\* The safety of the exchange: types, one process inside, whole batches.
Inv == TypeOK /\ SemaphoreBalanced /\ SegmentInv /\ SumsWholeBatchesOnce

\* Once it is set, the semaphore's one permit is never lost, wherever the
\* process that holds it is killed: that is what SEM_UNDO is there for.  And
\* a batch leaves the segment only after it was summed, whoever was killed
\* meanwhile, unless the producer refuses its length or a producer that
\* starts clears it.
Permits == sem + Cardinality(Inside)
BatchLeaves == datalength \in 1..MaxNum /\ datalength' # datalength
NothingLost ==
  [][/\ Permits = 1 /\ ~intruded' => Permits' = 1
     /\ BatchLeaves => \/ summed > 0 \/ intruded
                       \/ \E p \in Producers : ProducerWipesLength(p)]_vars

\* A batch in the segment is summed in the end, as long as some consumer
\* runs and nothing was torn; and the producer then gets its turn again.
BatchesAreSummed ==
  /\ \A c \in Consumers :
       datalength \in 1..MaxNum /\ pc[c] = "p" ~>
         \/ summed > 0 \/ datalength = 0 \/ torn \/ intruded \/ pc[c] = "off"
         \/ \E p \in Producers : pc[p] = "input"
  /\ \A p \in Producers, c \in Consumers :
       pc[p] = "p" /\ datalength > 0 ~>
         \/ pc[p] = "inside" /\ datalength = 0
         \/ pc[p] = "off" \/ pc[c] = "off" \/ torn \/ intruded
=============================================================================
