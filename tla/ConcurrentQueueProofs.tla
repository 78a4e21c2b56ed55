------------------------ MODULE ConcurrentQueueProofs ------------------------
(* Proofs about concurrent_queue.h for every set of threads, nodes, values.  *)
EXTENDS ConcurrentQueue, SequenceTheorems, FiniteSetTheorems, TLAPS

USE QueueAssumption

\* What Append does to length and elements.
LEMMA AppendFacts ==
  ASSUME NEW S, NEW s \in Seq(S), NEW x \in S
  PROVE  /\ Append(s, x) \in Seq(S)
         /\ Len(Append(s, x)) = Len(s) + 1
         /\ \A i \in 1..Len(s) : Append(s, x)[i] = s[i]
         /\ Append(s, x)[Len(s) + 1] = x
         /\ Append(s, x) # <<>>
  OBVIOUS

\* What Tail does to length and elements.
LEMMA TailFacts ==
  ASSUME NEW S, NEW s \in Seq(S), s # <<>>
  PROVE  /\ Tail(s) \in Seq(S)
         /\ Len(s) \in Nat \ {0}
         /\ Len(Tail(s)) = Len(s) - 1
         /\ \A i \in 1..(Len(s) - 1) : Tail(s)[i] = s[i + 1]
  OBVIOUS

\* The constructor establishes the inductive invariant.
LEMMA InitInv == Init => Inv
  <1> SUFFICES ASSUME Init PROVE Inv
    OBVIOUS
  <1>1. TypeOK
    BY DEF Init, TypeOK, Ops, TryOps, WaitOps, Pushing
  <1>2. ListShape
    BY DEF Init, ListShape
  <1>3. NodesOwnedOnce
    BY DEF Init, NodesOwnedOnce
  <1>4. \A t \in Threads : ThreadInv(t)
    BY DEF Init, ThreadInv, Pushing
  <1> QED
    BY <1>1, <1>2, <1>3, <1>4 DEF Inv

\* Steps that leave the list and the nodes a thread owns alone.
QuietStep(t) ==
  \/ PushLock(t) \/ PushNotify(t) \/ PopBegin(t) \/ PopLock(t) \/ CheckFull(t)
  \/ TryMisses(t) \/ WaitChecksEmpty(t) \/ WaitBlocks(t) \/ SpuriousWakeup(t)

LEMMA QuietInv ==
  ASSUME Inv, NEW t \in Threads, QuietStep(t)
  PROVE  Inv'
  <1> USE DEF Inv, Goto, At
  <1>1. UNCHANGED <<shared, node, order>>
    BY DEF QuietStep, PushLock, PushNotify, PopBegin, PopLock, CheckFull,
           TryMisses, WaitChecksEmpty, WaitBlocks, SpuriousWakeup
  <1>2. TypeOK'
    <2> USE <1>1 DEF TypeOK, shared, Pushing
    <2>1. CASE PushLock(t)
      BY <2>1 DEF PushLock
    <2>2. CASE PushNotify(t)
      BY <2>2 DEF PushNotify
    <2>3. CASE PopBegin(t)
      BY <2>3 DEF PopBegin, Ops
    <2>4. CASE PopLock(t)
      BY <2>4 DEF PopLock
    <2>5. CASE CheckFull(t)
      BY <2>5 DEF CheckFull
    <2>6. CASE TryMisses(t)
      BY <2>6 DEF TryMisses
    <2>7. CASE WaitChecksEmpty(t)
      BY <2>7 DEF WaitChecksEmpty
    <2>8. CASE WaitBlocks(t)
      BY <2>8 DEF WaitBlocks
    <2>9. CASE SpuriousWakeup(t)
      BY <2>9 DEF SpuriousWakeup
    <2> QED
      BY <2>1, <2>2, <2>3, <2>4, <2>5, <2>6, <2>7, <2>8, <2>9 DEF QuietStep
  <1>3. ListShape' /\ NodesOwnedOnce'
    BY <1>1 DEF shared, ListShape, NodesOwnedOnce
  <1>4. ASSUME NEW u \in Threads PROVE ThreadInv(u)'
    <2> USE <1>1 DEF ThreadInv, TypeOK, shared, Pushing, TryOps, WaitOps, RefOps
    <2>1. CASE PushLock(t)
      BY <2>1 DEF PushLock, TailUnlocked
    <2>2. CASE PushNotify(t)
      BY <2>2 DEF PushNotify
    <2>3. CASE PopBegin(t)
      BY <2>3 DEF PopBegin
    <2>4. CASE PopLock(t)
      BY <2>4 DEF PopLock, HeadUnlocked
    <2>5. CASE CheckFull(t)
      BY <2>5 DEF CheckFull, SeesItem
    <2>6. CASE TryMisses(t)
      BY <2>6 DEF TryMisses
    <2>7. CASE WaitChecksEmpty(t)
      BY <2>7 DEF WaitChecksEmpty
    <2>8. CASE WaitBlocks(t)
      BY <2>8 DEF WaitBlocks
    <2>9. CASE SpuriousWakeup(t)
      BY <2>9 DEF SpuriousWakeup
    <2> QED
      BY <2>1, <2>2, <2>3, <2>4, <2>5, <2>6, <2>7, <2>8, <2>9 DEF QuietStep
  <1> QED
    BY <1>2, <1>3, <1>4

\* A new node is owned by the pusher that allocated it and by nobody else.
LEMMA PushBeginInv ==
  ASSUME Inv, NEW t \in Threads, NEW v \in Values, PushBegin(t, v)
  PROVE  Inv'
  <1> USE DEF Inv, Goto, At, PushBegin
  <1>1. PICK n \in Nodes \ live :
          live' = live \union {n} /\ node' = [node EXCEPT ![t] = n]
    OBVIOUS
  <1>2. TypeOK'
    BY <1>1 DEF TypeOK, Ops, Pushing
  <1>3. ListShape'
    BY DEF ListShape
  <1>4. NodesOwnedOnce'
    <2>1. node[t] = NoNode
      BY DEF ThreadInv, Pushing
    <2>2. \A i \in 1..Len(order) : order[i] # n
      BY <1>1 DEF NodesOwnedOnce
    <2>3. \A u \in Threads : node[u] # n
      BY <1>1 DEF NodesOwnedOnce, TypeOK
    <2> QED
      BY <1>1, <2>1, <2>2, <2>3 DEF NodesOwnedOnce, TypeOK
  <1>5. ASSUME NEW u \in Threads PROVE ThreadInv(u)'
    BY <1>1 DEF ThreadInv, TypeOK, Pushing
  <1> QED
    BY <1>2, <1>3, <1>4, <1>5

\* Filling the dummy touches no node that holds an item, no popped node.
LEMMA PushValueInv ==
  ASSUME Inv, NEW t \in Threads, PushValue(t) \/ PushNext(t)
  PROVE  Inv'
  <1> USE DEF Inv, Goto, At, PushValue, PushNext
  <1>0. Len(order) \in Nat \ {0}
    BY DEF TypeOK, ListShape
  <1>1. TypeOK'
    BY DEF TypeOK, ThreadInv, Pushing
  <1>2. ListShape'
    <2>1. \A i \in 1..(Len(order) - 1) : order[i] # tail /\ order[i] \in Nodes
      BY <1>0 DEF ListShape, NodesOwnedOnce, TypeOK
    <2> QED
      BY <1>0, <2>1 DEF ListShape, TypeOK
  <1>3. NodesOwnedOnce'
    BY DEF NodesOwnedOnce
  <1>4. ASSUME NEW u \in Threads PROVE ThreadInv(u)'
    <2>1. node[u] # tail
      BY <1>0 DEF ListShape, NodesOwnedOnce, TypeOK
    <2> QED
      BY <2>1 DEF ThreadInv, TypeOK, Pushing
  <1> QED
    BY <1>1, <1>2, <1>3, <1>4

\* Moving tail_ hands the pusher's node over to the list.
LEMMA PushTailInv ==
  ASSUME Inv, NEW t \in Threads, PushTail(t)
  PROVE  Inv'
  <1> USE DEF Inv, Goto, At, PushTail
  <1>0. /\ node[t] \in Nodes
        /\ node[t] # NoNode
        /\ order \in Seq(Nodes)
        /\ Len(order) \in Nat \ {0}
    BY DEF TypeOK, ThreadInv, Pushing, ListShape
  <1>1. /\ order' \in Seq(Nodes)
        /\ Len(order') = Len(order) + 1
        /\ \A i \in 1..Len(order) : order'[i] = order[i]
        /\ order'[Len(order) + 1] = node[t]
        /\ order' # <<>>
    BY <1>0, AppendFacts
  <1>2. TypeOK'
    BY <1>0, <1>1 DEF TypeOK
  <1>3. ListShape'
    <2>1. next[tail] = node[t] /\ val[tail] \in Values
      BY DEF ThreadInv, Pushing
    <2> QED
      BY <1>0, <1>1, <2>1 DEF ListShape
  <1>4. NodesOwnedOnce'
    BY <1>0, <1>1 DEF NodesOwnedOnce, TypeOK
  <1>5. ASSUME NEW u \in Threads PROVE ThreadInv(u)'
    <2>1. head # node[t]
      BY <1>0 DEF ListShape, NodesOwnedOnce, TypeOK
    <2> QED
      BY <2>1 DEF ThreadInv, TypeOK, Pushing
  <1> QED
    BY <1>2, <1>3, <1>4, <1>5

\* Popping moves the old head from the list to the popper.
LEMMA PopHeadInv ==
  ASSUME Inv, NEW t \in Threads, PopHead(t)
  PROVE  Inv'
  <1> USE DEF Inv, Goto, At, PopHead
  <1>0. /\ order \in Seq(Nodes)
        /\ order # <<>>
        /\ Len(order) \in Nat \ {0}
        /\ head \in Nodes
        /\ head # tail
        /\ node[t] = NoNode
    BY DEF TypeOK, ThreadInv, Pushing, ListShape
  <1>1. Len(order) > 1
    BY <1>0 DEF ListShape
  <1>2. /\ order' \in Seq(Nodes)
        /\ Len(order') = Len(order) - 1
        /\ \A i \in 1..(Len(order) - 1) : order'[i] = order[i + 1]
        /\ order' # <<>>
    <2>1. order' = Tail(order)
      OBVIOUS
    <2>2. /\ order' \in Seq(Nodes)
          /\ Len(order') = Len(order) - 1
          /\ \A i \in 1..(Len(order) - 1) : order'[i] = order[i + 1]
      BY ONLY <1>0, <2>1, TailFacts, Zenon
    <2> QED
      BY ONLY <1>0, <1>1, <2>2
  <1>3. /\ next[head] = order[2]
        /\ next[head] \in Nodes
        /\ val[head] \in Values
        /\ \A i \in 2..Len(order) : order[i] # head /\ order[i] \in Nodes
    BY <1>0, <1>1 DEF ListShape, NodesOwnedOnce
  <1>4. TypeOK'
    BY <1>0, <1>2, <1>3 DEF TypeOK
  <1>5. ListShape'
    BY <1>0, <1>1, <1>2, <1>3 DEF ListShape, TypeOK
  <1>6. NodesOwnedOnce'
    <2>1. /\ head = order[1]
          /\ node' = [node EXCEPT ![t] = head]
          /\ \A u \in Threads : node[u] # NoNode =>
               \A i \in 1..Len(order) : node[u] # order[i]
      BY DEF ListShape, NodesOwnedOnce
    <2>2. live' = {order'[i] : i \in 1..Len(order')}
               \union {node'[u] : u \in {w \in Threads : node'[w] # NoNode}}
      <3>1. {order[i] : i \in 1..Len(order)}
              = {head} \union {order'[i] : i \in 1..Len(order')}
        <4>1. ASSUME NEW i \in 1..Len(order), i # 1
              PROVE  \E j \in 1..Len(order') : order[i] = order'[j]
          <5>1. i - 1 \in 1..Len(order') /\ order'[i - 1] = order[i]
            BY <1>0, <1>2, <4>1
          <5> QED
            BY <5>1
        <4>2. ASSUME NEW j \in 1..Len(order')
              PROVE  \E i \in 1..Len(order) : order[i] = order'[j]
          <5>1. j + 1 \in 1..Len(order) /\ order'[j] = order[j + 1]
            BY <1>0, <1>2
          <5> QED
            BY <5>1
        <4>3. 1 \in 1..Len(order) /\ order[1] = head
          BY <1>0, <2>1
        <4>4. ASSUME NEW x
              PROVE  x \in {order[i] : i \in 1..Len(order)}
                       <=> x \in {head} \union
                                {order'[j] : j \in 1..Len(order')}
          <5>1. x \in {order[i] : i \in 1..Len(order)}
                  <=> \E i \in 1..Len(order) : x = order[i]
            OBVIOUS
          <5>2. x \in {order'[j] : j \in 1..Len(order')}
                  <=> \E j \in 1..Len(order') : x = order'[j]
            OBVIOUS
          <5> QED
            BY ONLY <4>1, <4>2, <4>3, <5>1, <5>2, Zenon
        <4> QED
          BY ONLY <4>4
      <3>2. {node'[u] : u \in {w \in Threads : node'[w] # NoNode}}
              = {head} \union
                {node[u] : u \in {w \in Threads : node[w] # NoNode}}
        BY <1>0, <2>1 DEF TypeOK
      <3> QED
        BY <3>1, <3>2 DEF NodesOwnedOnce
    <2>3. \A i, j \in 1..Len(order') : order'[i] = order'[j] => i = j
      BY <1>0, <1>1, <1>2 DEF NodesOwnedOnce
    <2>4. ASSUME NEW u \in Threads, node'[u] # NoNode
          PROVE  /\ \A i \in 1..Len(order') : node'[u] # order'[i]
                 /\ \A w \in Threads : node'[w] = node'[u] => w = u
      BY <1>0, <1>1, <1>2, <1>3, <2>1, <2>4 DEF NodesOwnedOnce, TypeOK
    <2> QED
      BY <2>2, <2>3, <2>4 DEF NodesOwnedOnce
  <1>7. ASSUME NEW u \in Threads PROVE ThreadInv(u)'
    <2> USE DEF ThreadInv, TypeOK, Pushing
    <2>1. CASE u = t
      BY <1>0, <1>3, <2>1
    <2>2. CASE u # t
      <3>1. node[u] # NoNode => node[u] # head
        BY <1>0 DEF NodesOwnedOnce, ListShape
      <3>2. pc[u] # "pop" /\ headMutex # u
        BY <2>2
      <3> QED
        BY <1>0, <2>2, <3>1, <3>2
    <2> QED
      BY <2>1, <2>2
  <1> QED
    BY <1>4, <1>5, <1>6, <1>7

\* Freeing a popped node takes nothing from the list or from other threads.
LEMMA PopReleaseInv ==
  ASSUME Inv, NEW t \in Threads, PopRelease(t)
  PROVE  Inv'
  <1> USE DEF Inv, Goto, At, PopRelease
  <1>0. /\ order \in Seq(Nodes)
        /\ Len(order) \in Nat \ {0}
        /\ node[t] \in Nodes
        /\ node[t] # NoNode
        /\ node[t] # tail
        /\ \A i \in 1..Len(order) : order[i] # node[t]
        /\ \A u \in Threads : u # t => node[u] # node[t]
    BY DEF TypeOK, ThreadInv, Pushing, ListShape, NodesOwnedOnce
  <1>1. TypeOK'
    BY <1>0 DEF TypeOK, ThreadInv
  <1>2. ListShape'
    BY <1>0 DEF ListShape, TypeOK
  <1>3. NodesOwnedOnce'
    BY <1>0 DEF NodesOwnedOnce, TypeOK
  <1>4. ASSUME NEW u \in Threads PROVE ThreadInv(u)'
    BY <1>0 DEF ThreadInv, TypeOK, Pushing
  <1> QED
    BY <1>1, <1>2, <1>3, <1>4

\* Every step of every operation preserves the inductive invariant.
LEMMA NextInv == Inv /\ [Next]_vars => Inv'
  <1> SUFFICES ASSUME Inv, [Next]_vars PROVE Inv'
    OBVIOUS
  <1>1. CASE UNCHANGED vars
    BY <1>1 DEF vars, shared, Inv, TypeOK, ListShape, NodesOwnedOnce, ThreadInv
  <1>2. ASSUME NEW t \in Threads, NEW v \in Values, PushBegin(t, v) PROVE Inv'
    BY <1>2, PushBeginInv
  <1>3. ASSUME NEW t \in Threads, PopBegin(t) \/ SpuriousWakeup(t) PROVE Inv'
    BY <1>3, QuietInv DEF QuietStep
  <1>4. ASSUME NEW t \in Threads, Step(t) PROVE Inv'
    <2>1. CASE QuietStep(t)
      BY <2>1, QuietInv
    <2>2. CASE PushValue(t) \/ PushNext(t)
      BY <2>2, PushValueInv
    <2>3. CASE PushTail(t)
      BY <2>3, PushTailInv
    <2>4. CASE PopHead(t)
      BY <2>4, PopHeadInv
    <2>5. CASE PopRelease(t)
      BY <2>5, PopReleaseInv
    <2> QED
      BY <1>4, <2>1, <2>2, <2>3, <2>4, <2>5 DEF Step, QuietStep
  <1> QED
    BY <1>1, <1>2, <1>3, <1>4 DEF Next

\* In every execution of concurrent_queue.h, whatever the number of threads,
\* the linked list is whole, every node has one owner and the mutexes guard
\* what they should.
THEOREM QueueInvariant == Spec => []Inv
  BY InitInv, NextInv, PTL DEF Spec

\* Type correctness of the queue.
THEOREM QueueTypes == Spec => []TypeOK
  <1>1. Inv => TypeOK
    BY DEF Inv
  <1> QED
    BY <1>1, QueueInvariant, PTL

\* No node is lost, freed twice, leaked or freed while the list reaches it.
THEOREM QueueOwnership == Spec => [](ListShape /\ NodesOwnedOnce)
  <1>1. Inv => ListShape /\ NodesOwnedOnce
    BY DEF Inv
  <1> QED
    BY <1>1, QueueInvariant, PTL

\* The two-mutex discipline leaves no data race on the fields of a node.
THEOREM QueueNoRace == Spec => []NoFieldRace
  <1>1. Inv => NoFieldRace
    <2> SUFFICES ASSUME Inv PROVE NoFieldRace
      OBVIOUS
    <2>1. ASSUME NEW t \in Threads, pc[t] = "release" PROVE node[t] # tail
      BY <2>1 DEF Inv, TypeOK, ListShape, NodesOwnedOnce, ThreadInv, Pushing
    <2>2. ASSUME NEW t \in Threads, pc[t] = "pop" PROVE head # tail
      BY <2>2 DEF Inv, ThreadInv
    <2> QED
      BY <2>1, <2>2 DEF NoFieldRace
  <1> QED
    BY <1>1, QueueInvariant, PTL
-----------------------------------------------------------------------------
(* The refinement of AbstractQueue                                           *)

\* The items of the list as a sequence: all nodes but the dummy.
ContentsAreItems ==
  /\ Contents \in Seq(Values)
  /\ Len(order) \in Nat \ {0}
  /\ Len(Contents) = Len(order) - 1
  /\ \A i \in 1..(Len(order) - 1) :
       /\ Contents[i] = val[order[i]]
       /\ order[i] \in Nodes /\ order[i] # tail

\* The abstraction is a sequence of values, one for each node but the dummy.
LEMMA ContentsFacts == Inv => ContentsAreItems
  <1> SUFFICES ASSUME Inv PROVE ContentsAreItems
    OBVIOUS
  <1>1. Len(order) \in Nat \ {0}
    BY DEF Inv, TypeOK, ListShape
  <1>2. \A i \in 1..(Len(order) - 1) :
          val[order[i]] \in Values /\ order[i] \in Nodes /\ order[i] # tail
    BY <1>1 DEF Inv, TypeOK, ListShape, NodesOwnedOnce
  <1>3. Contents \in [1..(Len(order) - 1) -> Values]
    BY <1>2 DEF Contents
  <1>4. Contents \in Seq(Values)
    BY <1>1, <1>3, SeqDef
  <1>5. DOMAIN Contents = 1..(Len(order) - 1) /\ DOMAIN Contents = 1..Len(Contents)
    BY <1>3, <1>4, LenProperties
  <1>6. Len(Contents) = Len(order) - 1
    BY <1>1, <1>4, <1>5, LenProperties
  <1> QED
    BY <1>1, <1>2, <1>4, <1>6 DEF Contents, ContentsAreItems

\* The same in the state after a step.
LEMMA ContentsFactsNext == Inv' => ContentsAreItems'
  BY ContentsFacts, PTL

\* The constructor makes an empty queue.
LEMMA InitRefines == Init => Queue!Init
  <1> SUFFICES ASSUME Init PROVE Queue!Init
    OBVIOUS
  <1>1. Contents = <<>>
    BY InitInv, ContentsFacts DEF Init, ContentsAreItems
  <1>2. Outcome = [t \in Threads |-> NoValue]
    BY DEF Init, Outcome, Pushing
  <1> QED
    BY <1>1, <1>2 DEF Queue!Init

\* Steps before tail_ moves and between two looks at it show the callers
\* nothing; a call that begins forgets the result of the one before it.
LEMMA QuietRefines ==
  ASSUME Inv, Inv', NEW t \in Threads, QuietStep(t)
  PROVE  [Queue!Next]_Queue!vars
  <1> USE DEF Goto, At
  <1>0. TypeOK /\ TypeOK' /\ ThreadInv(t)
    BY DEF Inv
  <1>1. UNCHANGED <<shared, node, order>>
    BY DEF QuietStep, PushLock, PushNotify, PopBegin, PopLock, CheckFull,
           TryMisses, WaitChecksEmpty, WaitBlocks, SpuriousWakeup
  <1>2. UNCHANGED Contents
    BY <1>1 DEF shared, Contents
  <1>3. CASE PopBegin(t)
    <2>1. Outcome' = [Outcome EXCEPT ![t] = NoValue]
      BY <1>0, <1>1, <1>3 DEF PopBegin, Outcome, Pushing, TypeOK, shared, RefOps
    <2> QED
      BY <1>2, <2>1 DEF Queue!Begin, Queue!Next
  <1>4. CASE TryMisses(t)
    <2>1. Outcome[t] = NoValue
      BY <1>0, <1>4 DEF TryMisses, Outcome, ThreadInv, Pushing
    <2>2. Outcome' = [Outcome EXCEPT ![t] = Missed]
      BY <1>0, <1>1, <1>4 DEF TryMisses, Outcome, Pushing, TypeOK, shared
    <2>3. Contents = <<>>
      <3>1. head = tail
        BY <1>4 DEF TryMisses, SeesEmpty
      <3>2. Len(order) = 1
        <4>1. /\ Len(order) \in Nat \ {0} /\ order[1] = order[Len(order)]
              /\ \A i, j \in 1..Len(order) : order[i] = order[j] => i = j
          BY <3>1, ContentsFacts DEF ContentsAreItems, Inv, ListShape, NodesOwnedOnce
        <4>2. 1 \in 1..Len(order) /\ Len(order) \in 1..Len(order)
          BY <4>1
        <4> QED
          BY <4>1, <4>2
      <3> QED
        BY <3>2, ContentsFacts, EmptySeq DEF ContentsAreItems
    <2> QED
      BY <1>2, <2>1, <2>2, <2>3 DEF Queue!Miss, Queue!Next
  <1>5. CASE ~PopBegin(t) /\ ~TryMisses(t)
    <2>1. UNCHANGED <<val, op, item, node>>
      BY <1>1, <1>5 DEF QuietStep, PushLock, PushNotify, PopLock, CheckFull,
         WaitChecksEmpty, WaitBlocks, SpuriousWakeup, shared
    <2>2. ASSUME NEW u \in Threads
          PROVE  /\ pc'[u] \in Pushing <=> pc[u] \in Pushing
                 /\ pc'[u] = "release" <=> pc[u] = "release"
      <3>1. CASE PushNotify(t)
        <4>1. \A w \in waiting : pc[w] = "asleep"
          BY DEF Inv, TypeOK, ThreadInv
        <4> QED
          BY <1>0, <3>1, <4>1 DEF PushNotify, TypeOK, Pushing
      <3>2. CASE ~PushNotify(t)
        BY <1>0, <1>5, <3>2 DEF QuietStep, PushLock, PopLock, CheckFull,
           WaitChecksEmpty, WaitBlocks, SpuriousWakeup, TypeOK, Pushing
      <3> QED
        BY <3>1, <3>2
    <2>3. UNCHANGED Outcome
      BY <2>1, <2>2 DEF Outcome
    <2> QED
      BY <1>2, <2>3 DEF Queue!vars
  <1> QED
    BY <1>3, <1>4, <1>5

\* A push that has not moved tail_ yet, and the release of a popped node.
LEMMA HiddenRefines ==
  ASSUME Inv, NEW t \in Threads,
         PushValue(t) \/ PushNext(t) \/ PopRelease(t)
  PROVE  UNCHANGED <<Contents, Outcome>>
  <1> USE DEF Goto, At, PushValue, PushNext, PopRelease
  <1>0. TypeOK /\ ThreadInv(t) /\ (\A u \in Threads : ThreadInv(u))
    BY DEF Inv
  <1>1. \A i \in 1..(Len(order) - 1) :
          node[t] # order[i] /\ order[i] # tail /\ order[i] \in Nodes
    BY ContentsFacts DEF ContentsAreItems, Inv, NodesOwnedOnce, ThreadInv, TypeOK
  <1>2. UNCHANGED Contents
    BY <1>0, <1>1 DEF Contents, TypeOK
  <1>3. \A u \in Threads : pc[u] = "release" =>
          node[u] # tail /\ (u # t => node[u] # node[t])
    BY <1>0 DEF Inv, ListShape, NodesOwnedOnce, ThreadInv, TypeOK, Pushing
  <1>4. UNCHANGED Outcome
    BY <1>0, <1>3 DEF Outcome, Pushing, TypeOK, ThreadInv
  <1> QED
    BY <1>2, <1>4

\* A push takes effect when tail_ moves.
LEMMA PushTailRefines ==
  ASSUME Inv, Inv', NEW t \in Threads, PushTail(t)
  PROVE  Queue!Put(item[t])
  <1> USE DEF Goto, At, PushTail
  <1>0. TypeOK /\ ThreadInv(t) /\ node[t] \in Nodes
    BY DEF Inv, ThreadInv, TypeOK, Pushing
  <1>1. val[tail] = item[t] /\ item[t] \in Values /\ order[Len(order)] = tail
    BY <1>0 DEF ThreadInv, Pushing, Inv, ListShape
  <1>2. /\ Len(order') = Len(order) + 1
        /\ \A i \in 1..Len(order) : order'[i] = order[i]
    BY <1>0, AppendFacts DEF TypeOK
  <1>3. Contents' = Append(Contents, item[t])
    <2>1. /\ Contents \in Seq(Values) /\ Contents' \in Seq(Values)
          /\ Len(order) \in Nat \ {0}
          /\ Len(Contents) = Len(order) - 1 /\ Len(Contents') = Len(order)
      BY <1>2, ContentsFacts, ContentsFactsNext DEF ContentsAreItems
    <2>2. /\ Append(Contents, item[t]) \in Seq(Values)
          /\ Len(Append(Contents, item[t])) = Len(order)
      BY <1>1, <2>1, AppendProperties
    <2>3. ASSUME NEW i \in 1..Len(order)
          PROVE  Contents'[i] = Append(Contents, item[t])[i]
      <3>1. Contents'[i] = val[order[i]]
        BY <1>2, <2>1 DEF Contents
      <3>2. CASE i < Len(order)
        <4>1. i \in 1..Len(Contents) /\ Contents[i] = val[order[i]]
          BY <2>1, <3>2, ContentsFacts DEF ContentsAreItems
        <4>2. Append(Contents, item[t])[i] = Contents[i]
          BY <1>1, <2>1, <4>1, AppendProperties
        <4> QED
          BY <3>1, <4>1, <4>2
      <3>3. CASE i = Len(order)
        BY <2>1, <3>1, <3>3, AppendProperties, <1>1
      <3> QED
        BY <2>1, <3>2, <3>3
    <2> QED
      BY <2>1, <2>2, <2>3, SeqEqual
  <1>4. UNCHANGED Outcome
    BY <1>0 DEF Outcome, Pushing, TypeOK
  <1> QED
    BY <1>3, <1>4 DEF Queue!Put

\* A pop takes effect when head_ moves, and takes the oldest item.
LEMMA PopHeadRefines ==
  ASSUME Inv, Inv', NEW t \in Threads, PopHead(t)
  PROVE  Queue!Take(t)
  <1> USE DEF Goto, At, PopHead
  <1>0. TypeOK /\ ThreadInv(t) /\ head # tail /\ head = order[1]
    BY DEF Inv, ThreadInv, ListShape
  <1>1. /\ Contents \in Seq(Values) /\ Contents' \in Seq(Values)
        /\ Len(order) \in Nat \ {0} /\ Len(order') \in Nat \ {0}
        /\ Len(Contents) = Len(order) - 1 /\ Len(Contents') = Len(order') - 1
    BY ContentsFacts, ContentsFactsNext DEF ContentsAreItems
  <1>2. Len(order) > 1
    BY <1>0, <1>1 DEF Inv, ListShape
  <1>3. /\ Len(order') = Len(order) - 1
        /\ \A i \in 1..(Len(order) - 1) : order'[i] = order[i + 1]
    BY <1>0, <1>1, TailFacts DEF TypeOK, Inv, ListShape
  <1>4. \A i \in 2..Len(order) : order[i] # head /\ order[i] \in Nodes
    BY <1>0, <1>1 DEF Inv, NodesOwnedOnce, TypeOK
  <1>5. Contents # <<>> /\ Head(Contents) = val[head]
    BY <1>0, <1>1, <1>2, ContentsFacts DEF ContentsAreItems
  <1>6. Contents' = Tail(Contents)
    <2>1. /\ Tail(Contents) \in Seq(Values)
          /\ Len(Tail(Contents)) = Len(order) - 2
          /\ \A i \in 1..(Len(order) - 2) : Tail(Contents)[i] = Contents[i + 1]
      BY <1>1, <1>5, HeadTailProperties
    <2>2. ASSUME NEW i \in 1..(Len(order) - 2)
          PROVE  Contents'[i] = Tail(Contents)[i]
      <3>1. i + 1 \in 2..(Len(order) - 1) /\ order'[i] = order[i + 1]
        BY <1>1, <1>3
      <3>2. val'[order[i + 1]] = val[order[i + 1]]
        BY <1>0, <1>1, <1>4, <3>1 DEF TypeOK
      <3>3. Contents'[i] = val'[order'[i]]
        BY <1>1, <1>3 DEF Contents
      <3>4. Contents[i + 1] = val[order[i + 1]]
        BY <1>1, <3>1, ContentsFacts DEF ContentsAreItems
      <3> QED
        BY <2>1, <3>1, <3>2, <3>3, <3>4
    <2> QED
      <3>1. /\ Contents' \in Seq(Values) /\ Tail(Contents) \in Seq(Values)
            /\ Len(Contents') = Len(Tail(Contents))
            /\ \A i \in 1..Len(Contents') : Contents'[i] = Tail(Contents)[i]
        BY <1>1, <1>3, <2>1, <2>2
      <3> QED
        BY <3>1, SeqEqual
  <1>7. Outcome[t] = NoValue
    BY <1>0 DEF Outcome, ThreadInv, Pushing
  <1>8. Outcome' = [Outcome EXCEPT ![t] = Head(Contents)]
    <2>1. ASSUME NEW u \in Threads, pc[u] = "release" PROVE node[u] # head /\ node[u] \in Nodes
      <3>1. ThreadInv(u)
        BY DEF Inv
      <3>2. node[u] # NoNode
        BY <2>1, <3>1 DEF ThreadInv
      <3>3. node[u] \in Nodes
        BY <3>2 DEF Inv, TypeOK
      <3>4. 1 \in 1..Len(order) /\ order[1] = head
        BY <1>0, <1>1
      <3>5. node[u] # order[1]
        BY <3>2, <3>4 DEF Inv, NodesOwnedOnce
      <3> QED
        BY <3>3, <3>4, <3>5
    <2>2. ASSUME NEW u \in Threads, u # t PROVE Outcome'[u] = Outcome[u]
      <3>1. pc'[u] = pc[u] /\ node'[u] = node[u] /\ item'[u] = item[u]
        BY <1>0, <2>2 DEF TypeOK
      <3>2. pc[u] = "release" => val'[node[u]] = val[node[u]]
        BY <1>0, <2>1 DEF TypeOK
      <3> QED
        BY <3>1, <3>2 DEF Outcome
    <2>3. Outcome'[t] = val[head]
      BY <1>0 DEF Outcome, Pushing, TypeOK
    <2> QED
      BY <1>5, <2>2, <2>3 DEF Outcome
  <1> QED
    BY <1>5, <1>6, <1>7, <1>8 DEF Queue!Take

\* Every step is a step of the FIFO queue or shows its callers nothing.
LEMMA NextRefines == Inv /\ Inv' /\ [Next]_vars => [Queue!Next]_Queue!vars
  <1> SUFFICES ASSUME Inv, Inv', [Next]_vars PROVE [Queue!Next]_Queue!vars
    OBVIOUS
  <1>1. CASE UNCHANGED vars
    BY <1>1 DEF vars, shared, Contents, Outcome, Queue!vars
  <1>2. ASSUME NEW t \in Threads, NEW v \in Values, PushBegin(t, v)
        PROVE  Queue!Begin(t)
    <2>1. UNCHANGED Contents
      BY <1>2 DEF PushBegin, Contents
    <2>2. Outcome' = [Outcome EXCEPT ![t] = NoValue]
      <3>1. PICK n \in Nodes \ live : node' = [node EXCEPT ![t] = n]
        BY <1>2 DEF PushBegin
      <3> QED
        BY <1>2, <3>1 DEF PushBegin, At, Goto, Outcome, Pushing, Inv, TypeOK
    <2> QED
      BY <2>1, <2>2 DEF Queue!Begin
  <1>3. ASSUME NEW t \in Threads, PopBegin(t) \/ SpuriousWakeup(t) \/ Step(t)
        PROVE  [Queue!Next]_Queue!vars
    <2>1. CASE QuietStep(t)
      BY <2>1, QuietRefines
    <2>2. CASE PushValue(t) \/ PushNext(t) \/ PopRelease(t)
      BY <2>2, HiddenRefines DEF Queue!vars
    <2>3. CASE PushTail(t)
      BY <2>3, PushTailRefines DEF Queue!Next, Inv, ThreadInv, Pushing, PushTail, At
    <2>4. CASE PopHead(t)
      BY <2>4, PopHeadRefines DEF Queue!Next
    <2> QED
      BY <1>3, <2>1, <2>2, <2>3, <2>4 DEF Step, QuietStep
  <1> QED
    BY <1>1, <1>2, <1>3 DEF Next, Queue!Next

\* concurrent_queue.h is a linearizable FIFO queue: pops return the values in
\* the order of their pushes, each once, and a try_pop fails only at an
\* instant at which the queue is empty.
THEOREM QueueRefinesFIFO == Spec => RefinesQueue
  <1>1. Spec => Queue!Init
    BY InitRefines DEF Spec
  <1> QED
    BY <1>1, QueueInvariant, NextRefines, PTL DEF Spec, RefinesQueue, Queue!Spec
-----------------------------------------------------------------------------
(* No item is stranded                                                       *)

\* What makes NoStranding inductive: a thread about to block saw the queue
\* empty and holds head_mutex_, so the queue is empty unless a push came since.
Strand ==
  /\ NoStranding
  /\ \A t \in Threads :
       /\ pc[t] \in {"block", "asleep"} => op[t] \in WaitOps
       /\ pc[t] = "block" => t \in stale \/ Len(order) = 1

\* Counting a set of threads that gains or loses one of them.
LEMMA CountOne ==
  ASSUME NEW A \in SUBSET Threads, NEW t \in Threads
  PROVE  /\ Cardinality(A) \in Nat
         /\ t \notin A => Cardinality(A \union {t}) = Cardinality(A) + 1
         /\ t \in A => Cardinality(A \ {t}) = Cardinality(A) - 1
  BY FS_Subset, FS_AddElement, FS_RemoveElement, FS_CardinalityType

\* Counting two sets of threads one of which contains the other.
LEMMA CountMore ==
  ASSUME NEW B \in SUBSET Threads, NEW A \in SUBSET B
  PROVE  /\ Cardinality(A) \in Nat /\ Cardinality(B) \in Nat
         /\ Cardinality(A) <= Cardinality(B)
  BY FS_Subset, FS_CardinalityType

\* The numbers that NoStranding compares.
Counted ==
  /\ Len(order) \in Nat \ {0}
  /\ Cardinality(Notifiers) \in Nat /\ Cardinality(Checkers) \in Nat

\* They are numbers.
LEMMA StrandNumbers == Inv => Counted
  <1>1. Notifiers \in SUBSET Threads /\ Checkers \in SUBSET Threads
    BY DEF Notifiers, Checkers
  <1> QED
    BY <1>1, CountMore DEF Inv, TypeOK, ListShape, Counted

\* They are numbers after a step.
LEMMA StrandNumbersNext == Inv' => Counted'
  BY StrandNumbers, PTL

\* Steps that add no item, put no waiter to sleep and lose neither a notifier
\* nor a checker.
LEMMA StrandKept ==
  ASSUME Inv, Inv', NoStranding, waiting' \ stale' \subseteq waiting \ stale,
         Notifiers \subseteq Notifiers', Checkers \subseteq Checkers',
         Len(order') <= Len(order)
  PROVE  NoStranding'
  <1>1. Notifiers' \in SUBSET Threads /\ Checkers' \in SUBSET Threads
    BY DEF Notifiers, Checkers
  <1>2. /\ Cardinality(Notifiers) <= Cardinality(Notifiers')
        /\ Cardinality(Checkers) <= Cardinality(Checkers')
    BY <1>1, CountMore
  <1> QED
    BY <1>2, StrandNumbers, StrandNumbersNext DEF Counted, NoStranding

\* Every step of a thread but the four that change what is counted.
LEMMA StrandOther ==
  ASSUME Inv, Inv', Strand, NEW t \in Threads,
         \/ \E v \in Values : PushBegin(t, v)
         \/ PushLock(t) \/ PushValue(t) \/ PushNext(t) \/ PopBegin(t)
         \/ PopLock(t) \/ CheckFull(t) \/ TryMisses(t) \/ PopRelease(t)
         \/ SpuriousWakeup(t)
  PROVE  Strand'
  <1> USE DEF PushBegin, PushLock, PushValue, PushNext, PopBegin, PopLock,
              CheckFull, TryMisses, PopRelease, SpuriousWakeup, Goto, At, shared
  <1>0. TypeOK /\ ThreadInv(t)
    BY DEF Inv
  <1>1. order' = order /\ waiting' \ stale' \subseteq waiting \ stale
    OBVIOUS
  <1>2. Notifiers \subseteq Notifiers'
    BY <1>0 DEF Notifiers, TypeOK
  <1>3. Checkers \subseteq Checkers'
    BY <1>0 DEF Checkers, TypeOK, TryOps, WaitOps
  <1>4. NoStranding'
    BY <1>1, <1>2, <1>3, StrandKept, StrandNumbers DEF Counted, Strand
  <1>5. ASSUME NEW u \in Threads
        PROVE  /\ pc'[u] \in {"block", "asleep"} => op'[u] \in WaitOps
               /\ pc'[u] = "block" => u \in stale' \/ Len(order') = 1
    <2>1. CASE u = t
      BY <1>0, <2>1 DEF TypeOK
    <2>2. CASE u # t
      <3>1. pc'[u] = pc[u] /\ op'[u] = op[u] /\ (u \in stale' <=> u \in stale)
        BY <1>0, <2>2 DEF TypeOK
      <3> QED
        BY <1>1, <3>1 DEF Strand
    <2> QED
      BY <2>1, <2>2
  <1> QED
    BY <1>4, <1>5 DEF Strand

\* A push that links its node owes a wake-up from then on, and marks every
\* thread between its check and its blocking.
LEMMA StrandPush ==
  ASSUME Inv, Inv', Strand, NEW t \in Threads, PushTail(t)
  PROVE  Strand'
  <1> USE DEF PushTail, Goto, At
  <1>0. TypeOK
    BY DEF Inv
  <1>1. Notifiers' = Notifiers \union {t} /\ t \notin Notifiers
    BY <1>0 DEF Notifiers, TypeOK
  <1>2. Checkers' = Checkers
    BY <1>0 DEF Checkers, TypeOK
  <1>3. Len(order') = Len(order) + 1
    BY <1>0, AppendFacts DEF TypeOK, Inv, ThreadInv, Pushing
  <1>4. Cardinality(Notifiers') = Cardinality(Notifiers) + 1
    BY <1>1, CountOne DEF Notifiers
  <1>5. waiting' \ stale' \subseteq waiting \ stale
    OBVIOUS
  <1>6. NoStranding'
    BY <1>2, <1>3, <1>4, <1>5, StrandNumbers DEF Counted, Strand, NoStranding
  <1>7. \A u \in Threads : /\ pc'[u] \in {"block", "asleep"} => op'[u] \in WaitOps
                           /\ pc'[u] = "block" => u \in stale'
    BY <1>0 DEF Strand, TypeOK
  <1> QED
    BY <1>6, <1>7 DEF Strand

\* notify_one turns a sleeping waiter into one that checks again.
LEMMA StrandNotify ==
  ASSUME Inv, Inv', Strand, NEW t \in Threads, PushNotify(t)
  PROVE  Strand'
  <1>0. TypeOK /\ (\A u \in waiting : u \in Threads /\ pc[u] = "asleep")
    BY DEF Inv, TypeOK, ThreadInv
  <1>1. pc[t] = "notify" /\ order' = order /\ op' = op
    BY DEF PushNotify, shared
  <1>2. CASE waiting' = {}
    <2>1. \A u \in Threads : /\ pc'[u] \in {"block", "asleep"} => pc'[u] = pc[u]
                             /\ pc'[u] = "block" => (u \in stale' <=> u \in stale)
      BY <1>0, <1>1 DEF PushNotify, Goto, TypeOK
    <2> QED
      BY <1>1, <1>2, <2>1 DEF Strand, NoStranding
  <1>3. CASE waiting' # {}
    <2>1. PICK u \in waiting :
            /\ waiting' = waiting \ {u} /\ stale' = stale \ {u}
            /\ pc' = [pc EXCEPT ![t] = "idle", ![u] = "lockHead"]
      BY <1>3 DEF PushNotify
    <2>2. u \in Threads /\ u # t /\ pc[u] = "asleep"
      BY <1>0, <1>1
    <2>3. Notifiers' = Notifiers \ {t} /\ t \in Notifiers
      BY <1>0, <1>1, <2>1, <2>2 DEF Notifiers, TypeOK
    <2>4. Checkers' = Checkers \union {u} /\ u \notin Checkers
      BY <1>0, <1>1, <2>1, <2>2 DEF Checkers, TypeOK, Strand
    <2>5. /\ Cardinality(Notifiers') = Cardinality(Notifiers) - 1
          /\ Cardinality(Checkers') = Cardinality(Checkers) + 1
      BY <2>2, <2>3, <2>4, CountOne DEF Notifiers, Checkers
    <2>6. NoStranding'
      <3>1. waiting' \ stale' \subseteq waiting \ stale
        BY <2>1
      <3> QED
        BY <1>1, <2>5, <3>1, StrandNumbers DEF Counted, Strand, NoStranding
    <2>7. \A w \in Threads : /\ pc'[w] \in {"block", "asleep"} => pc'[w] = pc[w]
                             /\ pc'[w] = "block" => (w \in stale' <=> w \in stale)
      BY <1>0, <2>1, <2>2 DEF TypeOK
    <2> QED
      BY <1>1, <2>6, <2>7 DEF Strand
  <1> QED
    BY <1>2, <1>3

\* A waiter that finds the queue empty, and the instant at which it blocks.
LEMMA StrandBlock ==
  ASSUME Inv, Inv', Strand, NEW t \in Threads, WaitChecksEmpty(t) \/ WaitBlocks(t)
  PROVE  Strand'
  <1> USE DEF WaitChecksEmpty, WaitBlocks, Goto, At
  <1>0. TypeOK /\ order' = order /\ op' = op /\ stale' = stale
    BY DEF Inv, shared
  <1>1. CASE WaitChecksEmpty(t)
    <2>1. Len(order) = 1
      <3>1. order[1] = order[Len(order)] /\ Len(order) \in Nat \ {0}
        BY <1>1, StrandNumbers DEF Counted, SeesEmpty, Inv, ListShape
      <3>2. 1 \in 1..Len(order) /\ Len(order) \in 1..Len(order)
        BY <3>1
      <3> QED
        BY <3>1, <3>2 DEF Inv, NodesOwnedOnce
    <2>2. NoStranding'
      BY <1>0, <2>1, StrandNumbersNext DEF Counted, NoStranding
    <2> QED
      BY <1>0, <1>1, <2>1, <2>2 DEF Strand, TypeOK
  <1>2. CASE WaitBlocks(t)
    <2>1. Notifiers' = Notifiers
      BY <1>0, <1>2 DEF Notifiers, TypeOK
    <2>2. Checkers' = Checkers
      BY <1>0, <1>2 DEF Checkers, TypeOK
    <2>3. waiting \ stale # {} \/ waiting' \ stale' = {} \/ Len(order) = 1
      BY <1>0, <1>2 DEF Strand
    <2>4. NoStranding'
      <3>1. CASE Len(order) = 1
        BY <1>0, <3>1, StrandNumbersNext DEF Counted, NoStranding
      <3>2. CASE Len(order) # 1
        BY <1>0, <2>1, <2>2, <2>3, <3>2 DEF Strand, NoStranding
      <3> QED
        BY <3>1, <3>2
    <2> QED
      BY <1>0, <1>2, <2>4 DEF Strand, TypeOK
  <1> QED
    BY <1>1, <1>2

\* A pop takes one item, and one checker with it if it can wait.
LEMMA StrandPop ==
  ASSUME Inv, Inv', Strand, NEW t \in Threads, PopHead(t)
  PROVE  Strand'
  <1> USE DEF PopHead, Goto, At
  <1>0. TypeOK /\ op' = op /\ waiting' = waiting /\ stale' = stale
    BY DEF Inv
  <1>1. Notifiers' = Notifiers
    BY <1>0 DEF Notifiers, TypeOK
  <1>2. Checkers' = Checkers \ {t}
    BY <1>0 DEF Checkers, TypeOK
  <1>3. Len(order') = Len(order) - 1
    BY <1>0, TailFacts DEF TypeOK, Inv, ListShape
  <1>4. Cardinality(Checkers') >= Cardinality(Checkers) - 1
    <2>1. CASE t \in Checkers
      BY <1>2, <2>1, CountOne DEF Checkers
    <2>2. CASE t \notin Checkers
      <3>1. Checkers' = Checkers
        BY <1>2, <2>2
      <3> QED
        BY <3>1, StrandNumbers DEF Counted
    <2> QED
      BY <2>1, <2>2
  <1>5. NoStranding'
    BY <1>0, <1>1, <1>3, <1>4, StrandNumbers, StrandNumbersNext
       DEF Counted, Strand, NoStranding
  <1>6. \A u \in Threads : pc[u] # "block"
    BY <1>0 DEF Inv, ThreadInv, TypeOK
  <1> QED
    BY <1>0, <1>5, <1>6 DEF Strand, TypeOK

\* No step breaks the strengthened property.
LEMMA NextStrand == Inv /\ Inv' /\ Strand /\ [Next]_vars => Strand'
  <1> SUFFICES ASSUME Inv, Inv', Strand, [Next]_vars PROVE Strand'
    OBVIOUS
  <1>1. CASE UNCHANGED vars
    BY <1>1 DEF Strand, NoStranding, Notifiers, Checkers, vars
  <1>2. ASSUME NEW t \in Threads,
               \/ \E v \in Values : PushBegin(t, v)
               \/ PopBegin(t) \/ SpuriousWakeup(t) \/ Step(t)
        PROVE  Strand'
    BY <1>2, StrandOther, StrandPush, StrandNotify, StrandBlock, StrandPop DEF Step
  <1> QED
    BY <1>1, <1>2 DEF Next

\* An item in the queue waits for a sleeping thread only if every sleeping
\* thread missed a push between its check and its blocking: the lost wake-up
\* of concurrent_queue.h has no other cause.
THEOREM QueueStrandsOnlyStale == Spec => []NoStranding
  <1>1. Init => Strand
    BY DEF Init, Strand, NoStranding
  <1>2. Strand => NoStranding
    BY DEF Strand
  <1> QED
    BY <1>1, <1>2, QueueInvariant, NextStrand, PTL DEF Spec
=============================================================================
