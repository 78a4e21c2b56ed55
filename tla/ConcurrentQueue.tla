--------------------------- MODULE ConcurrentQueue ---------------------------
(***************************************************************************)
(* cppDemoPractice/ThreadPool/concurrent_queue.h: a singly linked queue    *)
(* with one mutex for its head, one for its tail and a dummy node at the   *)
(* end.  A pusher fills the old dummy under tail_mutex_ and appends a new  *)
(* one; a popper works under head_mutex_ and takes tail_mutex_ only for    *)
(* the instant in which it reads tail_.  Heap nodes are drawn from Nodes   *)
(* and come back to it when their unique_ptr frees them, so an address is  *)
(* used again.  `empty` is left out: it locks the non-mutable head_mutex_  *)
(* in a const member, so no program that calls it compiles.  A definition  *)
(* that Next does not use, such as SeesEmptyUntested, is the one after it  *)
(* with a plausible fault, against which a property is tried.              *)
(***************************************************************************)
EXTENDS Naturals, Sequences, FiniteSets

CONSTANTS Threads, Nodes, Values,
          NoThread,  \* an unlocked mutex
          NoNode,    \* the null pointer
          NoValue,   \* an empty Node::v, and an operation with no result yet
          Missed     \* what a try_pop returns on an empty queue

ASSUME QueueAssumption ==
  /\ IsFiniteSet(Threads)
  /\ NoThread \notin Threads
  /\ NoNode \notin Nodes
  /\ NoValue \notin Values
  /\ Missed \notin Values \union {NoValue}

VARIABLES
  head, tail,            \* head_ and tail_
  val, next,             \* Node::v and Node::next
  live,                  \* the nodes allocated and not freed
  headMutex, tailMutex,  \* the owner of head_mutex_ and tail_mutex_
  waiting,               \* the threads blocked inside cv_.wait
  pc, op,                \* where each thread is, in which operation
  node,                  \* the unique_ptr it owns: new_node or head_node
  item,                  \* the value it pushes, or its pop's result
  order,                 \* history: the nodes linked so far and not popped
  stale                 \* history: waiters that checked before a push they missed

shared == <<head, tail, val, next, live>>
vars == <<shared, headMutex, tailMutex, waiting, pc, op, node, item, order,
          stale>>

TryOps  == {"try_pop", "try_pop_ref"}
WaitOps == {"wait_and_pop", "wait_and_pop_ref"}
RefOps  == {"try_pop_ref", "wait_and_pop_ref"}
Ops     == TryOps \union WaitOps \union {"push"}

\* the constructor: one dummy node that is both head and tail
Init ==
  /\ head \in Nodes
  /\ tail = head
  /\ val = [n \in Nodes |-> NoValue]
  /\ next = [n \in Nodes |-> NoNode]
  /\ live = {head}
  /\ headMutex = NoThread
  /\ tailMutex = NoThread
  /\ waiting = {}
  /\ pc = [t \in Threads |-> "idle"]
  /\ op = [t \in Threads |-> "push"]
  /\ node = [t \in Threads |-> NoNode]
  /\ item = [t \in Threads |-> NoValue]
  /\ order = <<head>>
  /\ stale = {}

Goto(t, to) == pc' = [pc EXCEPT ![t] = to]
At(t, from, to) == pc[t] = from /\ Goto(t, to)

\* the mutex is free, so the lock_guard or unique_lock can take it
HeadUnlocked == headMutex = NoThread
TailUnlockedAlways == TRUE
TailUnlocked == tailMutex = NoThread

\* head_.get() == get_tail(), where get_tail holds tail_mutex_ for an instant
SeesEmptyUntested == TailUnlocked
SeesEmpty == TailUnlocked /\ head = tail
SeesItemUntested == TailUnlocked
SeesItem == TailUnlocked /\ head # tail
-----------------------------------------------------------------------------
(* push                                                                    *)

\* make_shared<T> and make_unique<Node>, before any lock
PushBegin(t, v) ==
  /\ At(t, "idle", "lockTail")
  /\ op' = [op EXCEPT ![t] = "push"]
  /\ item' = [item EXCEPT ![t] = v]
  /\ \E n \in Nodes \ live :
       /\ live' = live \union {n}
       /\ node' = [node EXCEPT ![t] = n]
  /\ UNCHANGED <<head, tail, val, next, headMutex, tailMutex, waiting, order,
                 stale>>

PushLock(t) ==
  /\ At(t, "lockTail", "setValue")
  /\ TailUnlocked
  /\ tailMutex' = t
  /\ UNCHANGED <<shared, headMutex, waiting, op, node, item, order, stale>>

\* tail_->v = new_val
PushValue(t) ==
  /\ At(t, "setValue", "setNext")
  /\ val' = [val EXCEPT ![tail] = item[t]]
  /\ UNCHANGED <<head, tail, next, live, headMutex, tailMutex, waiting, op,
                 node, item, order, stale>>

\* tail_->next = std::move(new_node)
PushNext(t) ==
  /\ At(t, "setNext", "setTail")
  /\ next' = [next EXCEPT ![tail] = node[t]]
  /\ UNCHANGED <<head, tail, val, live, headMutex, tailMutex, waiting, op,
                 node, item, order, stale>>

\* tail_ = new_tail_node, and the lock_guard goes out of scope
PushTail(t) ==
  /\ At(t, "setTail", "notify")
  /\ tail' = node[t]
  /\ tailMutex' = NoThread
  /\ node' = [node EXCEPT ![t] = NoNode]
  /\ item' = [item EXCEPT ![t] = NoValue]
  /\ order' = Append(order, node[t])
  /\ stale' = stale \union {u \in Threads : pc[u] = "block"}
  /\ UNCHANGED <<head, val, next, live, headMutex, waiting, op>>

\* cv_.notify_one(), called with no mutex held
PushNotify(t) ==
  /\ pc[t] = "notify"
  /\ \/ /\ waiting = {}
        /\ Goto(t, "idle")
        /\ UNCHANGED <<waiting, stale>>
     \/ \E u \in waiting :
          /\ waiting' = waiting \ {u}
          /\ stale' = stale \ {u}
          /\ pc' = [pc EXCEPT ![t] = "idle", ![u] = "lockHead"]
  /\ UNCHANGED <<shared, headMutex, tailMutex, op, node, item, order>>
-----------------------------------------------------------------------------
(* try_pop and wait_and_pop, each returning a pointer or filling T& res    *)

PopBegin(t) ==
  /\ At(t, "idle", "lockHead")
  /\ \E o \in TryOps \union WaitOps : op' = [op EXCEPT ![t] = o]
  /\ item' = [item EXCEPT ![t] = NoValue]
  /\ UNCHANGED <<shared, headMutex, tailMutex, waiting, node, order, stale>>

PopLock(t) ==
  /\ At(t, "lockHead", "check")
  /\ HeadUnlocked
  /\ headMutex' = t
  /\ UNCHANGED <<shared, tailMutex, waiting, op, node, item, order, stale>>

CheckFull(t) ==
  /\ At(t, "check", "pop")
  /\ SeesItem
  /\ UNCHANGED <<shared, headMutex, tailMutex, waiting, op, node, item, order,
                 stale>>

TryMisses(t) ==
  /\ At(t, "check", "idle")
  /\ op[t] \in TryOps
  /\ SeesEmpty
  /\ headMutex' = NoThread
  /\ item' = [item EXCEPT ![t] = Missed]
  /\ UNCHANGED <<shared, tailMutex, waiting, op, node, order, stale>>

\* the predicate of cv_.wait is false: the thread is about to block
WaitChecksEmpty(t) ==
  /\ At(t, "check", "block")
  /\ op[t] \in WaitOps
  /\ SeesEmpty
  /\ UNCHANGED <<shared, headMutex, tailMutex, waiting, op, node, item, order,
                 stale>>

\* cv_.wait releases head_mutex_ and blocks in one step
WaitBlocks(t) ==
  /\ At(t, "block", "asleep")
  /\ headMutex' = NoThread
  /\ waiting' = waiting \union {t}
  /\ UNCHANGED <<shared, tailMutex, op, node, item, order, stale>>

SpuriousWakeup(t) ==
  /\ At(t, "asleep", "lockHead")
  /\ waiting' = waiting \ {t}
  /\ stale' = stale \ {t}
  /\ UNCHANGED <<shared, headMutex, tailMutex, op, node, item, order>>

\* res = std::move(*head_->v) where there is a res, then pop_head(); the lock
\* is released on return and the popped node is still owned by the caller
PopHead(t) ==
  /\ At(t, "pop", "release")
  /\ node' = [node EXCEPT ![t] = head]
  /\ head' = next[head]
  /\ next' = [next EXCEPT ![head] = NoNode]
  /\ IF op[t] \in RefOps
     THEN /\ item' = [item EXCEPT ![t] = val[head]]
          /\ val' = [val EXCEPT ![head] = NoValue]
     ELSE UNCHANGED <<item, val>>
  /\ order' = Tail(order)
  /\ headMutex' = NoThread
  /\ UNCHANGED <<tail, live, tailMutex, waiting, op, stale>>

\* the caller returns head_node->v where it returns a pointer, and the
\* unique_ptr head_node frees the node
PopRelease(t) ==
  /\ At(t, "release", "idle")
  /\ item' = [item EXCEPT ![t] = IF op[t] \in RefOps THEN @ ELSE val[node[t]]]
  /\ live' = live \ {node[t]}
  /\ val' = [val EXCEPT ![node[t]] = NoValue]
  /\ node' = [node EXCEPT ![t] = NoNode]
  /\ UNCHANGED <<head, tail, next, headMutex, tailMutex, waiting, op, order,
                 stale>>
-----------------------------------------------------------------------------
Step(t) ==
  \/ PushLock(t) \/ PushValue(t) \/ PushNext(t) \/ PushTail(t) \/ PushNotify(t)
  \/ PopLock(t) \/ CheckFull(t) \/ TryMisses(t) \/ WaitChecksEmpty(t)
  \/ WaitBlocks(t) \/ PopHead(t) \/ PopRelease(t)

Next ==
  \E t \in Threads :
    \/ \E v \in Values : PushBegin(t, v)
    \/ PopBegin(t)
    \/ SpuriousWakeup(t)
    \/ Step(t)

Spec == Init /\ [][Next]_vars
-----------------------------------------------------------------------------
(* Properties                                                              *)

Pushing == {"lockTail", "setValue", "setNext", "setTail"}

\* Every variable stays in its type; head_ and tail_ are never null.
TypeOK ==
  /\ head \in Nodes /\ tail \in Nodes
  /\ val \in [Nodes -> Values \union {NoValue}]
  /\ next \in [Nodes -> Nodes \union {NoNode}]
  /\ live \in SUBSET Nodes
  /\ headMutex \in Threads \union {NoThread}
  /\ tailMutex \in Threads \union {NoThread}
  /\ waiting \in SUBSET Threads
  /\ pc \in [Threads -> {"idle", "notify", "lockHead", "check", "block",
                         "asleep", "pop", "release"} \union Pushing]
  /\ op \in [Threads -> Ops]
  /\ node \in [Threads -> Nodes \union {NoNode}]
  /\ item \in [Threads -> Values \union {NoValue, Missed}]
  /\ order \in Seq(Nodes)
  /\ stale \in SUBSET Threads

\* head_ leads through the next pointers to tail_ along the nodes in the
\* order their pushes were linked, each but the last holding its value:
\* whatever pushers and poppers interleave, no node is lost or reordered.
ListShape ==
  /\ order # <<>>
  /\ head = order[1]
  /\ tail = order[Len(order)]
  /\ \A i \in 1..(Len(order) - 1) :
       /\ next[order[i]] = order[i + 1]
       /\ val[order[i]] \in Values

\* Every allocated node has exactly one owner: the list, a pusher that has
\* not linked it yet or a popper that has not freed it yet.  So none leaks,
\* none is freed twice and none is freed while the list still reaches it.
NodesOwnedOnce ==
  /\ live = {order[i] : i \in 1..Len(order)}
            \union {node[t] : t \in {u \in Threads : node[u] # NoNode}}
  /\ \A i, j \in 1..Len(order) : order[i] = order[j] => i = j
  /\ \A t \in Threads : node[t] # NoNode =>
       /\ \A i \in 1..Len(order) : node[t] # order[i]
       /\ \A u \in Threads : node[u] = node[t] => u = t

\* A popper reads the fields of *head_ and of the node it took without
\* tail_mutex_: no pusher may be about to write those fields.
NoFieldRace ==
  \A t, u \in Threads :
    pc[u] \in {"setValue", "setNext"} =>
      /\ pc[t] = "pop" => head # tail
      /\ pc[t] = "release" => node[t] # tail

\* Who holds which mutex, and what a thread knows at each point of its code:
\* the part of the inductive invariant that is about single threads.
ThreadInv(t) ==
  /\ headMutex = t <=> pc[t] \in {"check", "block", "pop"}
  /\ tailMutex = t <=> pc[t] \in {"setValue", "setNext", "setTail"}
  /\ t \in waiting <=> pc[t] = "asleep"
  /\ node[t] # NoNode <=> pc[t] \in Pushing \union {"release"}
  /\ pc[t] \in Pushing => item[t] \in Values
  /\ pc[t] \in {"setNext", "setTail"} => val[tail] = item[t]
  /\ pc[t] = "setTail" => next[tail] = node[t]
  /\ pc[t] \in {"lockHead", "check", "block", "asleep", "pop"} =>
       item[t] = NoValue
  /\ pc[t] = "pop" => head # tail
  /\ pc[t] = "release" =>
       IF op[t] \in RefOps THEN item[t] \in Values
       ELSE item[t] = NoValue /\ val[node[t]] \in Values

\* The inductive invariant of concurrent_queue.h: list, ownership, threads.
Inv ==
  /\ TypeOK
  /\ ListShape
  /\ NodesOwnedOnce
  /\ \A t \in Threads : ThreadInv(t)

\* The threads that are sure to look at the queue again: pushers that still
\* owe their notify_one, and poppers that will (re)check before they block.
Notifiers == {t \in Threads : pc[t] = "notify"}
Checkers  == {t \in Threads : op[t] \in WaitOps
                               /\ pc[t] \in {"lockHead", "check", "pop"}}
\* A push links its node under tail_mutex_ and notifies under no mutex, while
\* a waiter checks and blocks under head_mutex_: a push that falls between a
\* waiter's check and its blocking wakes nobody.  That window is the only way
\* to strand an item: while some sleeping waiter has missed no push in it, each
\* item in the queue is covered by a notifier or a checker yet to come.
NoStranding ==
  waiting \ stale # {} =>
    Len(order) - 1 <= Cardinality(Notifiers) + Cardinality(Checkers)
-----------------------------------------------------------------------------
(* Refinement of AbstractQueue: a push takes effect when tail_ moves, a pop *)
(* when head_ moves and a failed try_pop when it reads tail_.               *)

Contents == [i \in 1..(Len(order) - 1) |-> val[order[i]]]

\* the pointer overloads return the value after they release head_mutex_
Outcome ==
  [t \in Threads |->
     IF pc[t] \in Pushing THEN NoValue
     ELSE IF pc[t] = "release" /\ op[t] \notin RefOps THEN val[node[t]]
     ELSE item[t]]

Queue == INSTANCE AbstractQueue WITH items <- Contents, outcome <- Outcome

\* concurrent_queue.h implements the FIFO queue: pops return values in push
\* order, each once, and a try_pop fails only at an instant of emptiness.
RefinesQueue == Queue!Spec
=============================================================================
