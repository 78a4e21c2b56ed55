-------------------------- MODULE EpollServerProofs --------------------------
(* Proofs about the three epoll servers, for any clients, descriptor limits, *)
(* batch lengths and amounts read at a time.                                 *)
EXTENDS EpollServer, SequenceTheorems, FiniteSetTheorems, TLAPS

USE EpollAssumption DEF EpollAssumption

Watchable == {Listen} \cup Fds
Event == [fd : Watchable, events : SUBSET {"in", "out"}]

\* What the steps preserve; the rest of Inv follows from it.
IInv ==
  /\ TypeOK /\ DescriptorsInOrder /\ NoLostEdge
  /\ SetupInv /\ BacklogInv /\ ReadyInv /\ BatchInv
-----------------------------------------------------------------------------
(* Constants, and what each server does.                                     *)

\* The largest descriptor limit exists: the limits above it form a minimal set.
LEMMA LimitFacts ==
  /\ Max(FdLimits) \in Nat
  /\ \A n \in FdLimits : n <= Max(FdLimits)
  <1> DEFINE above(x) == {y \in FdLimits : y >= x}
             Aboves == {above(x) : x \in FdLimits}
  <1>0. FdLimits \subseteq Nat /\ FdLimits # {} /\ IsFiniteSet(FdLimits)
    OBVIOUS
  <1>1. PICK T \in Aboves : \A U \in Aboves : <<U, T>> \notin StrictSubsetOrdering(FdLimits)
    <2>1. Aboves \subseteq FiniteSubsetsOf(FdLimits) /\ Aboves # {}
      <3>0. \A w \in FdLimits : above(w) \in Aboves /\ above(w) \in SUBSET FdLimits
        OBVIOUS
      <3>1. Aboves \subseteq SUBSET FdLimits /\ Aboves # {}
        <4>1. Aboves \subseteq SUBSET FdLimits
          BY <3>0
        <4>2. Aboves # {}
          BY <1>0, <3>0
        <4> QED
          BY <4>1, <4>2
      <3>2. FiniteSubsetsOf(FdLimits) = SUBSET FdLimits
        BY <1>0, FS_FiniteSubsetsOfFinite
      <3> QED
        BY <3>1, <3>2
    <2>2. IsWellFoundedOn(StrictSubsetOrdering(FdLimits), FiniteSubsetsOf(FdLimits))
      BY FS_StrictSubsetOrderingWellFounded
    <2> HIDE DEF Aboves
    <2> QED
      BY <2>1, <2>2, WFMin
  <1>2. PICK x \in FdLimits : T = above(x)
    OBVIOUS
  <1>3. ASSUME NEW y \in FdLimits PROVE x >= y
    <2> SUFFICES ASSUME ~(x >= y) PROVE FALSE
      OBVIOUS
    <2>0. x \in Nat /\ y \in Nat /\ x < y
      BY <1>0
    <2>1. above(y) \subseteq T
      <3> SUFFICES ASSUME NEW z \in FdLimits, z >= y PROVE z >= x
        BY <1>2
      <3> z \in Nat
        BY <1>0
      <3> QED
        BY <2>0
    <2>2. x \in T /\ x \notin above(y)
      BY <1>2, <2>0
    <2>3. above(y) \in Aboves /\ <<above(y), T>> \in (SUBSET FdLimits) \X (SUBSET FdLimits)
      BY <1>2
    <2> HIDE DEF above, Aboves
    <2>4. <<above(y), T>> \in StrictSubsetOrdering(FdLimits)
      BY <2>1, <2>2, <2>3 DEF StrictSubsetOrdering
    <2> QED
      BY <1>1, <2>3, <2>4
  <1>4. \E z \in FdLimits : \A y \in FdLimits : z >= y
    BY <1>3
  <1>5. /\ Max(FdLimits) \in FdLimits
        /\ \A y \in FdLimits : Max(FdLimits) >= y
    BY <1>4 DEF Max
  <1> QED
    BY <1>5

LEMMA FdsFacts ==
  /\ Fds \subseteq Nat \ {0} /\ IsFiniteSet(Fds) /\ IsFiniteSet(Watchable)
  /\ Listen \notin Fds
  /\ \A n \in FdLimits : 1..n \subseteq Fds /\ Cardinality(1..n) = n /\ n \in Nat
  <1>1. IsFiniteSet(Fds)
    BY LimitFacts, FS_Interval DEF Fds
  <1>2. IsFiniteSet(Watchable)
    BY <1>1, FS_Singleton, FS_Union DEF Watchable
  <1>3. ASSUME NEW n \in FdLimits
        PROVE  1..n \subseteq Fds /\ Cardinality(1..n) = n /\ n \in Nat
    BY LimitFacts, FS_Interval DEF Fds
  <1> QED
    BY <1>1, <1>2, <1>3, LimitFacts DEF Fds, Listen

\* The setup calls: what matters is where "bind", "reuse" and "register" stand.
LEMMA SetupFacts ==
  ASSUME TypeOK
  PROVE  /\ Len(SetupCalls) = 7
         /\ \A i \in 1..7 : SetupCalls[i] = "register" <=> i = 7
         /\ variant # "c" => /\ SetupCalls[2] = "reuse"
                             /\ \A i \in 1..7 : SetupCalls[i] = "bind" => i = 4
  <1>1. CASE variant = "et"
    BY <1>1 DEF SetupCalls, SetupET
  <1>2. CASE variant = "lt"
    BY <1>2 DEF SetupCalls, SetupLT
  <1>3. CASE variant = "c"
    BY <1>3 DEF SetupCalls, SetupC
  <1> QED
    BY <1>1, <1>2, <1>3 DEF TypeOK

\* A server that does not register a client again registers it level triggered.
LEMMA ClientFacts ==
  ASSUME TypeOK
  PROVE  /\ "in" \in client.mask
         /\ client.recv \in Nat \ {0}
         /\ client.rearm \/ "et" \notin client.mask
  <1>1. CASE variant = "et"
    BY <1>1 DEF client, ClientET, TypeOK
  <1>2. CASE variant = "lt"
    BY <1>2 DEF client, ClientLT, TypeOK
  <1>3. CASE variant = "c"
    BY <1>3 DEF client, ClientC, TypeOK
  <1> QED
    BY <1>1, <1>2, <1>3 DEF TypeOK

LEMMA EventsFacts ==
  ASSUME TypeOK, NEW f
  PROVE  /\ Events(f) \subseteq {"in", "out"}
         /\ f = Listen => /\ "in" \in Events(f) <=> backlog # <<>>
                          /\ Events(f) # {} <=> backlog # <<>>
                          /\ LevelTriggered(f)
         /\ f # Listen => /\ "in" \in Events(f) <=> Readable(sock[f])
                          /\ client.rearm \/ LevelTriggered(f)
  BY ClientFacts DEF Events, ListenMask, LevelTriggered
-----------------------------------------------------------------------------
(* Sequences                                                                 *)

LEMMA ContainsFacts ==
  ASSUME NEW S, NEW q \in Seq(S), NEW f
  PROVE  Contains(q, f) <=> f \in ToSet(q)
  BY DEF Contains, ToSet

LEMMA EnlistFacts ==
  ASSUME NEW S, NEW q \in Seq(S), NEW f \in S
  PROVE  Enlist(q, f) \in Seq(S) /\ ToSet(Enlist(q, f)) = ToSet(q) \cup {f}
  <1>1. CASE Contains(q, f)
    BY <1>1, ContainsFacts DEF Enlist
  <1>2. CASE ~Contains(q, f)
    BY <1>2, AppendProperties DEF Enlist, ToSet
  <1> QED
    BY <1>1, <1>2

LEMMA ConcatFacts ==
  ASSUME NEW S, NEW q \in Seq(S), NEW r \in Seq(S)
  PROVE  q \o r \in Seq(S) /\ ToSet(q \o r) = ToSet(q) \cup ToSet(r)
  <1>1. Range(q \o r) = Range(q) \cup Range(r)
    BY RangeConcatenation
  <1>2. \A t : ToSet(t) = Range(t)
    BY DEF ToSet, Range
  <1> QED
    BY <1>1, <1>2, ConcatProperties

LEMMA ListingFacts ==
  ASSUME NEW S \in SUBSET Watchable, NEW q, NEW s \in Listing(S, q)
  PROVE  /\ s \in Seq(Watchable) /\ ToSet(s) = S
         /\ \A i, j \in 1..Len(s) : s[i] = s[j] => i = j
  <1>1. Cardinality(S) \in Nat
    BY FdsFacts, FS_Subset, FS_CardinalityType
  <1> QED
    BY <1>1 DEF Listing, IsInjective
-----------------------------------------------------------------------------
(* What the invariant says of descriptors and of the batch.                  *)

LEMMA WatchedFacts ==
  ASSUME IInv, NEW f \in watched, f # Listen
  PROVE  /\ f \in Fds /\ f \in OpenFds
         /\ sock[f] \in Clients /\ sock[f] # None /\ conn[sock[f]] = "open"
         /\ \A g \in Fds : sock[g] = sock[f] => g = f
  <1>1. f \in OpenFds /\ f \in Fds
    BY DEF IInv, DescriptorsInOrder, OpenFds
  <1>2. sock[f] # None /\ sock[f] \in Clients
    BY <1>1 DEF OpenFds, IInv, TypeOK
  <1>3. conn[sock[f]] = "open"
    BY <1>1, <1>2 DEF IInv, DescriptorsInOrder
  <1>4. \A g \in Fds : sock[g] = sock[f] => g = f
    BY <1>1, <1>2 DEF IInv, DescriptorsInOrder, OpenFds
  <1> QED
    BY <1>1, <1>2, <1>3, <1>4

LEMMA BatchFacts ==
  ASSUME IInv, pc \notin {"setup", "wait", "exited"}
  PROVE  /\ Len(batch) \in Nat \ {0} /\ batch # <<>>
         /\ Head(batch) = batch[1] /\ Current = batch[1].fd
         /\ \A i \in 1..Len(batch) : batch[i] \in Event /\ batch[i].fd \in watched
  <1>1. batch # <<>> /\ batch \in Seq(Event)
    BY DEF IInv, SetupInv, TypeOK, Event, Watchable
  <1>2. Len(batch) \in Nat \ {0} /\ Head(batch) = batch[1]
    BY <1>1, EmptySeq
  <1> QED
    BY <1>1, <1>2 DEF IInv, DescriptorsInOrder, Current

LEMMA InitInv == Init => IInv
  <1> SUFFICES ASSUME Init PROVE IInv
    OBVIOUS
  <1>0. /\ OpenFds = {} /\ <<>> \in Seq(Clients) /\ <<>> \in Seq(Watchable)
        /\ <<>> \in Seq(Event) /\ Len(<<>>) = 0
    BY EmptySeq DEF Init, OpenFds
  <1>1. TypeOK
    <2>1. PICK n \in FdLimits : n \in Nat \ {0} /\ 1..n \subseteq Fds
      BY FdsFacts
    <2>2. 1 \in Fds /\ 0 \in Piece
      BY <2>1 DEF Piece
    <2>3. /\ sock \in [Fds -> Clients \cup {None}] /\ buf \in [Clients -> Piece]
          /\ starts \in 1..MaxStarts
      BY <2>2 DEF Init
    <2>4. /\ variant \in Variants /\ nfds \in FdLimits /\ step \in 1..7
          /\ pc \in {"setup", "wait", "event", "setflags", "add", "mod", "exited"}
      BY DEF Init
    <2>7. reuse \in BOOLEAN /\ lingering \in BOOLEAN
      BY Zenon DEF Init
    <2>5. /\ backlog \in Seq(Clients) /\ ready \in Seq(Watchable) /\ batch \in Seq(Event)
      BY <1>0 DEF Init
    <2>6. /\ blocking \subseteq Fds /\ watched \subseteq Watchable
          /\ conn \in [Clients -> {"none", "pending", "open", "closed"}]
          /\ peer \in [Clients -> {"open", "fin", "rst"}]
          /\ new \in Fds /\ sent \in Piece
      BY <2>2 DEF Init
    <2> QED
      BY <2>3, <2>4, <2>5, <2>6, <2>7 DEF TypeOK, Watchable, Event
  <1>2. DescriptorsInOrder /\ NoLostEdge
    BY <1>0 DEF Init, DescriptorsInOrder, NoLostEdge
  <1>3. SetupInv
    BY <1>0 DEF Init, SetupInv
  <1>4. BacklogInv
    BY <1>0 DEF Init, BacklogInv, IsInjective, ToSet
  <1>5. ReadyInv
    BY <1>0, FdsFacts, FS_EmptySet DEF Init, ReadyInv, ToSet
  <1>6. BatchInv
    BY <1>0 DEF Init, BatchInv
  <1> QED
    BY <1>1, <1>2, <1>3, <1>4, <1>5, <1>6 DEF IInv

\* The kernel cleans up after a process that ends or is killed.
LEMMA ExitKeeps ==
  ASSUME IInv, Exit
  PROVE  IInv'
  <1> USE DEF Exit, server, network
  <1>0. /\ OpenFds' = {} /\ <<>> \in Seq(Clients) /\ <<>> \in Seq(Watchable)
        /\ <<>> \in Seq(Event) /\ Len(<<>>) = 0
    BY EmptySeq DEF OpenFds
  <1>1. TypeOK'
    BY <1>0 DEF IInv, TypeOK, Watchable, Event, Piece, Lingers
  <1>2. DescriptorsInOrder' /\ NoLostEdge'
    BY <1>0 DEF IInv, TypeOK, DescriptorsInOrder, NoLostEdge
  <1>3. SetupInv'
    BY <1>0 DEF SetupInv
  <1>4. BacklogInv'
    BY <1>0 DEF IInv, TypeOK, Piece, BacklogInv, IsInjective, ToSet
  <1>5. ReadyInv'
    BY <1>0, FdsFacts, FS_EmptySet DEF IInv, TypeOK, ReadyInv, ToSet
  <1>6. BatchInv'
    BY <1>0 DEF BatchInv
  <1> QED
    BY <1>1, <1>2, <1>3, <1>4, <1>5, <1>6 DEF IInv
-----------------------------------------------------------------------------
(* Handling the batch.                                                       *)

\* A step leaves a descriptor alone but for putting it on the ready list.
Undisturbed(f) ==
  /\ sock'[f] = sock[f] /\ (Readable(sock[f])' <=> Readable(sock[f]))
  /\ Contains(ready, f) => Contains(ready, f)'

LEMMA NextEventFacts ==
  ASSUME IInv, pc \notin {"setup", "wait", "exited"}, NextEvent
  PROVE  /\ batch' \in Seq(Event) /\ Len(batch') = Len(batch) - 1
         /\ \A i \in 1..Len(batch') : /\ i + 1 \in 1..Len(batch)
                                      /\ batch'[i] = batch[i + 1]
                                      /\ batch[i + 1].fd # Current
         /\ pc' \in {"wait", "event"}
         /\ batch' = <<>> <=> pc' = "wait"
  <1>1. batch # <<>> /\ batch \in Seq(Event) /\ Len(batch) \in Nat \ {0}
    BY BatchFacts DEF IInv, TypeOK, Event, Watchable
  <1>2. /\ batch' \in Seq(Event) /\ Len(batch') = Len(batch) - 1
        /\ \A i \in 1..Len(batch') : batch'[i] = batch[i + 1]
    BY <1>1, HeadTailProperties DEF NextEvent
  <1>3. ASSUME NEW i \in 1..Len(batch')
        PROVE  i + 1 \in 1..Len(batch) /\ batch[i + 1].fd # Current
    BY <1>1, <1>2, BatchFacts DEF IInv, BatchInv
  <1>4. batch' = <<>> <=> Len(batch') = 0
    BY <1>2, EmptySeq
  <1>5. pc' \in {"wait", "event"} /\ (Len(batch') = 0 <=> pc' = "wait")
    BY <1>1, <1>2 DEF NextEvent
  <1> QED
    BY <1>2, <1>3, <1>4, <1>5

\* The events that are left keep what is known of them if their descriptors
\* are left alone.
LEMMA BatchAdvances ==
  ASSUME IInv, pc \notin {"setup", "wait", "exited"}, NextEvent,
         UNCHANGED <<server, backlog>>,
         \A f \in watched \ {Listen, Current} : Undisturbed(f),
         Contains(ready, Listen) => Contains(ready, Listen)'
  PROVE  BatchInv'
  <1> USE DEF server
  <1>1. ASSUME NEW i \in 1..Len(batch') PROVE EventInv(i)'
    <2>0. PICK f : f = batch[i + 1].fd
      OBVIOUS
    <2>1. /\ i + 1 \in 1..Len(batch) /\ batch'[i] = batch[i + 1] /\ f # Current
          /\ i + 1 # 1 /\ f \in watched
      BY <2>0, NextEventFacts, BatchFacts
    <2>2. EventInv(i + 1)
      BY <2>1 DEF IInv, BatchInv
    <2>3. f # Listen => Undisturbed(f)
      BY <2>1
    <2>4. LevelTriggered(f)' <=> LevelTriggered(f)
      BY DEF LevelTriggered, client
    <2>5. LevelTriggered(f)' => Contains(ready, f)'
      BY <2>0, <2>1, <2>2, <2>3, <2>4 DEF EventInv, Undisturbed
    <2>6. f = Listen => backlog' # <<>>
      BY <2>0, <2>1, <2>2 DEF EventInv
    <2>7. f # Listen /\ "in" \in batch[i + 1].events => Readable(sock[f])'
      BY <2>0, <2>1, <2>2, <2>3 DEF EventInv, Undisturbed
    <2>8. f # Listen /\ "in" \notin batch[i + 1].events /\ Readable(sock[f])'
            => Contains(ready, f)'
      BY <2>0, <2>1, <2>2, <2>3 DEF EventInv, Undisturbed
    <2> QED
      BY <2>0, <2>1, <2>5, <2>6, <2>7, <2>8 DEF EventInv
  <1>2. ASSUME NEW i \in 1..Len(batch'), NEW j \in 1..Len(batch'),
               batch'[i].fd = batch'[j].fd
        PROVE  i = j
    <2>1. /\ i + 1 \in 1..Len(batch) /\ j + 1 \in 1..Len(batch)
          /\ batch[i + 1].fd = batch[j + 1].fd
      BY <1>2, NextEventFacts
    <2>2. i + 1 = j + 1
      BY <2>1 DEF IInv, BatchInv
    <2> QED
      BY <2>2
  <1>3. pc' \in {"wait", "event"}
    BY NextEventFacts
  <1> QED
    BY <1>1, <1>2, <1>3 DEF BatchInv

\* No edge is lost by going on to the next event if the current descriptor has
\* nothing more to be read or is on the ready list.
LEMMA EdgesAdvance ==
  ASSUME IInv, pc \notin {"setup", "wait", "exited"}, NextEvent,
         \A f \in watched' \ {Listen} :
           \/ f \in watched \ {Current} /\ Undisturbed(f)
           \/ Readable(sock[f])' => Contains(ready, f)'
  PROVE  NoLostEdge'
  <1> SUFFICES ASSUME NEW f \in watched' \ {Listen}, f \in watched \ {Current},
                      Undisturbed(f), Readable(sock[f])', ~Contains(ready, f)'
               PROVE  \E i \in 1..Len(batch') : batch'[i].fd = f
    BY DEF NoLostEdge
  <1>1. PICK i \in 1..Len(batch) : batch[i].fd = f
    BY DEF IInv, NoLostEdge, Undisturbed
  <1>2. i # 1
    BY <1>1, BatchFacts
  <1>3. Len(batch) \in Nat /\ i - 1 \in 1..Len(batch') /\ (i - 1) + 1 = i
    BY <1>1, <1>2, BatchFacts, NextEventFacts
  <1>4. batch'[i - 1] = batch[i]
    BY <1>3, NextEventFacts
  <1> QED
    BY <1>1, <1>3, <1>4
\* The same where the current event is not finished.
LEMMA BatchStays ==
  ASSUME IInv, pc \notin {"setup", "wait", "exited"},
         UNCHANGED <<server, batch, watched>>,
         \A f \in watched \ {Listen, Current} : Undisturbed(f),
         Contains(ready, Listen) => Contains(ready, Listen)',
         Current = Listen \/ backlog' = backlog,
         EventInv(1)'
  PROVE  /\ \A i, j \in 1..Len(batch') : batch'[i].fd = batch'[j].fd => i = j
         /\ \A i \in 1..Len(batch') : EventInv(i)'
         /\ NoLostEdge'
  <1> USE DEF server
  <1>1. ASSUME NEW i \in 1..Len(batch'), i # 1 PROVE EventInv(i)'
    <2>0. PICK f : f = batch[i].fd
      OBVIOUS
    <2>1. i \in 1..Len(batch) /\ f # Current /\ f \in watched
      BY <1>1, <2>0, BatchFacts DEF IInv, BatchInv
    <2>2. EventInv(i)
      BY <2>1 DEF IInv, BatchInv
    <2>3. f # Listen => Undisturbed(f)
      BY <2>1
    <2>4. LevelTriggered(f)' <=> LevelTriggered(f)
      BY DEF LevelTriggered, client
    <2>5. LevelTriggered(f)' => Contains(ready, f)'
      BY <2>0, <2>2, <2>3, <2>4 DEF EventInv, Undisturbed
    <2>6. f = Listen => backlog' # <<>>
      BY <1>1, <2>0, <2>1, <2>2 DEF EventInv
    <2>7. f # Listen /\ "in" \in batch[i].events => Readable(sock[f])'
      BY <1>1, <2>0, <2>2, <2>3 DEF EventInv, Undisturbed
    <2>8. f # Listen /\ "in" \notin batch[i].events /\ Readable(sock[f])'
            => Contains(ready, f)'
      BY <2>0, <2>2, <2>3 DEF EventInv, Undisturbed
    <2> QED
      BY <2>0, <2>5, <2>6, <2>7, <2>8 DEF EventInv
  <1>2. NoLostEdge'
    <2> SUFFICES ASSUME NEW f \in watched \ {Listen}, Readable(sock[f])',
                        ~Contains(ready, f)', f # Current
                 PROVE  \E i \in 1..Len(batch) : batch[i].fd = f
      BY BatchFacts DEF NoLostEdge
    <2> QED
      BY DEF IInv, NoLostEdge, Undisturbed
  <1> QED
    BY <1>1, <1>2 DEF IInv, BatchInv

-----------------------------------------------------------------------------
(* The server's steps.                                                       *)

\* A setup call, the last of which registers the listening socket.
LEMMA SetupCallKeeps ==
  ASSUME IInv, SetupCall
  PROVE  IInv'
  <1>1. /\ pc = "setup" /\ step \in 1..7 /\ step' \in 1..7 /\ step' <= step + 1
        /\ SetupCalls[step] = "register" <=> step = 7
        /\ pc' = IF step = 7 THEN "wait" ELSE "setup"
        /\ watched' = IF step = 7 THEN {Listen} ELSE watched
        /\ ready' \in IF step = 7 THEN {ready, <<Listen>>} ELSE {ready}
        /\ UNCHANGED <<server, starts, lingering, backlog, sock, blocking, new, batch,
                       conn, network, buf>>
    <2>1. step \in 1..7 /\ Len(SetupCalls) = 7
      BY SetupFacts DEF IInv, TypeOK
    <2>2. SetupCalls[step] = "register" <=> step = 7
      BY <2>1, SetupFacts DEF IInv
    <2>3. /\ step' \in 1..7 /\ step' <= step + 1
          /\ pc' = IF step = 7 THEN "wait" ELSE "setup"
      BY <2>1 DEF SetupCall
    <2>4. /\ watched' = IF step = 7 THEN {Listen} ELSE watched
          /\ ready' \in IF step = 7 THEN {ready, <<Listen>>} ELSE {ready}
      BY <2>2 DEF SetupCall
    <2> QED
      BY <2>1, <2>2, <2>3, <2>4 DEF SetupCall
  <1>2. reuse' = (reuse \/ SetupCalls[step] = "reuse") /\ reuse' \in BOOLEAN
    BY Zenon DEF SetupCall
  <1>3. OpenFds = {} /\ OpenFds' = {} /\ watched = {} /\ ready = <<>> /\ batch = <<>>
    BY <1>1 DEF IInv, SetupInv, OpenFds
  <1>4. Len(batch) = 0 /\ batch' = batch
    BY <1>1, <1>3, EmptySeq
  <1>5. /\ ready' \in Seq(Watchable) /\ ToSet(ready') \subseteq watched'
        /\ watched' \subseteq Watchable
    <2>1. <<Listen>> \in Seq(Watchable) /\ ToSet(<<Listen>>) = {Listen}
      BY DEF Watchable, ToSet
    <2>2. ready \in Seq(Watchable) /\ ToSet(ready) = {}
      BY <1>3, EmptySeq DEF ToSet
    <2> QED
      BY <1>1, <1>3, <2>1, <2>2 DEF Watchable
  <1>6. TypeOK'
    BY <1>1, <1>2, <1>5 DEF IInv, TypeOK, Watchable, server, network
  <1>7. DescriptorsInOrder' /\ NoLostEdge'
    BY <1>1, <1>3, <1>4 DEF IInv, DescriptorsInOrder, NoLostEdge
  <1>8. SetupInv'
    <2>1. variant # "c" /\ step' > 2 => reuse'
      <3>1. CASE step > 2
        BY <1>1, <1>2, <3>1 DEF IInv, SetupInv
      <3>2. CASE step = 2
        BY <1>2, <3>2, SetupFacts DEF IInv
      <3> QED
        BY <1>1, <3>1, <3>2
    <2> QED
      BY <1>1, <1>3, <2>1 DEF SetupInv, server
  <1>9. BacklogInv' /\ ReadyInv'
    BY <1>1, <1>3, <1>5 DEF IInv, BacklogInv, ReadyInv, server, network
  <1>10. BatchInv'
    BY <1>1, <1>4 DEF BatchInv
  <1> QED
    BY <1>6, <1>7, <1>8, <1>9, <1>10 DEF IInv

\* epoll_wait: what is ready is in the batch or on the ready list afterwards,
\* what is level triggered on the list in any case.
LEMMA WaitKeeps ==
  ASSUME IInv, Wait
  PROVE  IInv'
  <1> USE DEF server, network, descriptors
  <1> DEFINE Live == {f \in ToSet(ready) : Events(f) # {}}
             Count(q) == IF Len(q) < MaxEvents THEN Len(q) ELSE MaxEvents
             Again(q) == {f \in ToSet(q) : LevelTriggered(f)}
  <1>0. /\ pc = "wait" /\ batch = <<>> /\ pc \notin {"setup", "exited"}
        /\ ToSet(ready) \subseteq watched /\ watched \subseteq Watchable
        /\ Listen \in watched /\ OpenFds' = OpenFds
    BY DEF Wait, IInv, SetupInv, ReadyInv, TypeOK, Watchable, OpenFds
  <1>1. PICK live, taken, again, n :
          /\ live \in Listing(Live, ready) /\ n = Count(live)
          /\ taken = SubSeq(live, 1, n) /\ again \in Listing(Again(taken), taken)
          /\ ready' = SubSeq(live, n + 1, Len(live)) \o again
          /\ batch' = [i \in 1..n |-> [fd |-> taken[i], events |-> Events(taken[i])]]
          /\ pc' = IF n = 0 THEN "wait" ELSE "event"
    BY DEF Wait
  <1>2. /\ live \in Seq(Watchable) /\ ToSet(live) = Live /\ Len(live) \in Nat
        /\ \A i, j \in 1..Len(live) : live[i] = live[j] => i = j
        /\ \A i \in 1..Len(live) : live[i] \in Live
    <2>1. Live \in SUBSET Watchable
      BY <1>0
    <2>0. live \in Listing(Live, ready)
      BY <1>1
    <2> HIDE DEF Live
    <2>2. /\ live \in Seq(Watchable) /\ ToSet(live) = Live
          /\ \A i, j \in 1..Len(live) : live[i] = live[j] => i = j
      BY <2>0, <2>1, ListingFacts
    <2> QED
      BY <2>2 DEF ToSet
  <1>3. /\ n \in Nat /\ n <= Len(live) /\ taken \in Seq(Watchable) /\ Len(taken) = n
        /\ \A i \in 1..n : taken[i] = live[i]
    <2>1. n \in Nat /\ n <= Len(live)
      BY <1>1, <1>2
    <2>2. \A i \in 1..n : live[i] \in Watchable
      BY <1>2, <2>1
    <2> QED
      BY <1>1, <2>1, <2>2, SubSeqProperties
  <1>4. again \in Seq(Watchable) /\ ToSet(again) = Again(taken)
    <2>1. Again(taken) \in SUBSET Watchable
      BY <1>3 DEF ToSet
    <2>2. again \in Listing(Again(taken), taken)
      BY <1>1
    <2> HIDE DEF Again
    <2> QED
      BY <2>1, <2>2, ListingFacts
  <1>5. PICK rest : /\ rest = SubSeq(live, n + 1, Len(live)) /\ rest \in Seq(Watchable)
                    /\ Len(rest) = Len(live) - n
                    /\ \A i \in 1..(Len(live) - n) : rest[i] = live[n + i]
    <2>1. \A i \in (n + 1)..Len(live) : live[i] \in Watchable
      BY <1>2, <1>3
    <2>2. n + 1 \in Int /\ Len(live) \in Int
      BY <1>2, <1>3
    <2> DEFINE r == SubSeq(live, n + 1, Len(live))
    <2>3. /\ r \in Seq(Watchable)
          /\ Len(r) = IF n + 1 <= Len(live) THEN Len(live) - (n + 1) + 1 ELSE 0
          /\ \A i \in 1..(Len(live) - (n + 1) + 1) : r[i] = live[(n + 1) + i - 1]
      BY <2>1, <2>2, SubSeqProperties
    <2>4. /\ Len(r) = Len(live) - n
          /\ \A i \in 1..(Len(live) - n) : r[i] = live[n + i]
      BY <1>2, <1>3, <2>3
    <2> QED
      BY <2>3, <2>4
  <1>6. ready' \in Seq(Watchable) /\ ToSet(ready') = ToSet(rest) \cup Again(taken)
    <2>1. ready' = rest \o again
      BY <1>1, <1>5
    <2>2. rest \in Seq(Watchable) /\ again \in Seq(Watchable)
      BY <1>4, <1>5
    <2>3. ready' \in Seq(Watchable) /\ ToSet(ready') = ToSet(rest) \cup ToSet(again)
      BY <2>1, <2>2, ConcatFacts
    <2> QED
      BY <1>4, <2>3
  <1>7. /\ Len(batch') = n /\ batch' \in Seq(Event) /\ (batch' = <<>> <=> n = 0)
        /\ \A i \in 1..n : batch'[i].fd = live[i] /\ batch'[i].events = Events(live[i])
    <2>1. \A i \in 1..n : [fd |-> taken[i], events |-> Events(taken[i])] \in Event
      BY <1>2, <1>3, EventsFacts DEF IInv, Event
    <2>2. batch' \in Seq(Event) /\ Len(batch') = n
      BY <1>1, <1>3, <2>1
    <2> QED
      BY <1>1, <1>3, <2>2, EmptySeq
  <1>8. /\ ToSet(ready') \subseteq ToSet(ready)
        /\ \A i \in 1..n : LevelTriggered(live[i]) => live[i] \in ToSet(ready')
        /\ \A f \in Live : f \in ToSet(ready') \/ \E i \in 1..n : live[i] = f
    <2>1. ToSet(rest) \subseteq ToSet(ready)
      BY <1>2, <1>3, <1>5 DEF ToSet
    <2>2. ToSet(taken) \subseteq ToSet(ready)
      BY <1>2, <1>3 DEF ToSet
    <2>3. \A i \in 1..n : live[i] \in ToSet(taken)
      BY <1>3 DEF ToSet
    <2>4. ASSUME NEW f \in Live, ~\E i \in 1..n : live[i] = f PROVE f \in ToSet(rest)
      <3>1. PICK i \in 1..Len(live) : live[i] = f
        BY <1>2 DEF ToSet
      <3>2. i - n \in 1..(Len(live) - n) /\ n + (i - n) = i
        BY <1>2, <1>3, <2>4, <3>1
      <3>3. rest[i - n] = f
        BY <1>5, <3>1, <3>2
      <3> QED
        BY <1>5, <3>2, <3>3 DEF ToSet
    <2> QED
      BY <1>6, <2>1, <2>2, <2>3, <2>4
  <1>9. \A f : Contains(ready', f) <=> f \in ToSet(ready')
    BY <1>6, ContainsFacts
  <1> HIDE DEF Count, Again
  <1>10. UNCHANGED <<server, step, starts, reuse, lingering, backlog, descriptors,
                     conn, network, buf>>
    BY DEF Wait
  <1>11. TypeOK'
    BY <1>1, <1>6, <1>7, <1>10 DEF IInv, TypeOK, Watchable, Event
  <1>12. DescriptorsInOrder'
    <2>1. \A i \in 1..Len(batch') : batch'[i].fd \in watched'
      BY <1>0, <1>2, <1>3, <1>7, <1>10
    <2>2. pc' \notin {"setflags", "add"} /\ pc \notin {"setflags", "add"}
      BY <1>0, <1>1
    <2>3. UNCHANGED <<OpenFds, sock, conn, watched>>
      BY <1>0, <1>10
    <2>4. DescriptorsInOrder
      BY DEF IInv
    <2> QED
      BY <2>1, <2>2, <2>3, <2>4 DEF DescriptorsInOrder
  <1>13. NoLostEdge'
    <2> SUFFICES ASSUME NEW f \in watched \ {Listen}, Readable(sock[f])
                 PROVE  \/ f \in ToSet(ready')
                        \/ \E i \in 1..Len(batch') : batch'[i].fd = f
      BY <1>9, <1>10 DEF NoLostEdge, Readable
    <2>1. f \in ToSet(ready)
      BY <1>0, EmptySeq, ContainsFacts DEF IInv, NoLostEdge, TypeOK
    <2>2. Events(f) # {}
      BY EventsFacts DEF IInv
    <2> QED
      BY <1>3, <1>7, <1>8, <2>1, <2>2
  <1>14. SetupInv'
    BY <1>0, <1>1, <1>7, <1>10 DEF IInv, SetupInv
  <1>15. BacklogInv' /\ ReadyInv'
    BY <1>0, <1>8, <1>10 DEF IInv, BacklogInv, ReadyInv
  <1>16. BatchInv'
    <2>1. ASSUME NEW i \in 1..n PROVE EventInv(i)'
      <3>1. PICK f : f = live[i] /\ f \in Live
        BY <1>2, <1>3
      <3>2. batch'[i].fd = f /\ batch'[i].events = Events(f)
        BY <1>7, <3>1
      <3>3. LevelTriggered(f)' => Contains(ready', f)
        BY <1>8, <1>9, <1>10, <3>1 DEF LevelTriggered, client
      <3>4. f = Listen => backlog' # <<>>
        BY <1>10, <3>1, EventsFacts DEF IInv
      <3>5. f # Listen => ("in" \in Events(f) <=> Readable(sock[f])')
        BY <1>10, <3>1, EventsFacts DEF IInv, Readable
      <3> QED
        BY <3>2, <3>3, <3>4, <3>5 DEF EventInv
    <2>2. pc' \in {"wait", "event"}
      BY <1>1
    <2>3. \A i, j \in 1..n : batch'[i].fd = batch'[j].fd => i = j
      BY <1>2, <1>3, <1>7
    <2> QED
      BY <1>7, <2>1, <2>2, <2>3 DEF BatchInv
  <1> QED
    BY <1>11, <1>12, <1>13, <1>14, <1>15, <1>16 DEF IInv

\* close() on a connection frees its descriptor and touches no other.
LEMMA CloseFacts ==
  ASSUME IInv, NEW f \in OpenFds, CloseFd(f), UNCHANGED <<nfds, sent, backlog>>
  PROVE  /\ OpenFds' = OpenFds \ {f} /\ Cardinality(OpenFds') <= nfds
         /\ \A g \in OpenFds \ {f} : sock'[g] = sock[g] /\ conn'[sock[g]] = conn[sock[g]]
                                     /\ buf'[sock[g]] = buf[sock[g]]
         /\ \A g, h \in OpenFds' : sock'[g] = sock'[h] => g = h
         /\ {c \in Clients : conn'[c] = "open"} = {sock'[g] : g \in OpenFds'}
         /\ BacklogInv'
         /\ sock' \in [Fds -> Clients \cup {None}] /\ blocking' \subseteq Fds
         /\ conn' \in [Clients -> {"none", "pending", "open", "closed"}]
         /\ buf' \in [Clients -> Piece] /\ lingering' \in BOOLEAN
  <1>0. f \in Fds /\ sock[f] \in Clients /\ sock[f] # None /\ conn[sock[f]] = "open"
    BY DEF OpenFds, IInv, TypeOK, DescriptorsInOrder
  <1>1. /\ sock' = [sock EXCEPT ![f] = None] /\ blocking' = blocking \ {f}
        /\ conn' = [conn EXCEPT ![sock[f]] = "closed"]
        /\ buf' = [buf EXCEPT ![sock[f]] = 0]
    BY DEF CloseFd
  <1>2. lingering' \in BOOLEAN
    BY Zenon DEF CloseFd, Lingers
  <1>3. /\ sock' \in [Fds -> Clients \cup {None}] /\ blocking' \subseteq Fds
        /\ conn' \in [Clients -> {"none", "pending", "open", "closed"}]
        /\ buf' \in [Clients -> Piece]
    BY <1>0, <1>1 DEF IInv, TypeOK, Piece
  <1>4. OpenFds' = OpenFds \ {f}
    BY <1>0, <1>1 DEF OpenFds, IInv, TypeOK
  <1>5. Cardinality(OpenFds') <= nfds
    <2>1. IsFiniteSet(OpenFds)
      BY FdsFacts, FS_Subset DEF OpenFds
    <2>2. Cardinality(OpenFds') <= Cardinality(OpenFds)
      BY <1>4, <2>1, FS_Subset
    <2>3. Cardinality(OpenFds') \in Nat /\ Cardinality(OpenFds) \in Nat
      BY <1>4, <2>1, FS_CardinalityType, FS_Subset
    <2> QED
      BY <2>2, <2>3, FdsFacts DEF IInv, ReadyInv, TypeOK
  <1>6. \A g \in OpenFds \ {f} : sock'[g] = sock[g] /\ conn'[sock[g]] = conn[sock[g]]
                                 /\ buf'[sock[g]] = buf[sock[g]] /\ sock[g] # sock[f]
    BY <1>0, <1>1 DEF OpenFds, IInv, TypeOK, DescriptorsInOrder
  <1>7. \A g, h \in OpenFds' : sock'[g] = sock'[h] => g = h
    BY <1>4, <1>6 DEF IInv, DescriptorsInOrder
  <1>8. {c \in Clients : conn'[c] = "open"} = {sock'[g] : g \in OpenFds'}
    <2>1. {c \in Clients : conn[c] = "open"} = {sock[g] : g \in OpenFds}
      BY DEF IInv, DescriptorsInOrder
    <2>2. {c \in Clients : conn'[c] = "open"} = {c \in Clients : conn[c] = "open"} \ {sock[f]}
      BY <1>0, <1>1 DEF IInv, TypeOK
    <2> QED
      BY <1>4, <1>6, <2>1, <2>2
  <1>9. BacklogInv'
    BY <1>0, <1>1 DEF IInv, BacklogInv, TypeOK, Piece, ToSet, IsInjective
  <1> QED
    BY <1>2, <1>3, <1>4, <1>5, <1>6, <1>7, <1>8, <1>9

\* AcceptFails, Rearm and Writable: nothing changes but batch and ready list.
LEMMA QuietKeeps ==
  ASSUME IInv, AcceptFails \/ Rearm \/ Writable
  PROVE  IInv'
  <1>1. /\ pc \in {"event", "mod"} /\ NextEvent
        /\ UNCHANGED <<server, step, starts, reuse, lingering, backlog, descriptors,
                       conn, network, buf>>
    BY DEF AcceptFails, Rearm, Writable
  <1>2. PICK f \in Watchable : f = Current /\ f \in watched
    BY <1>1, BatchFacts DEF IInv, TypeOK, Watchable
  <1>3. EventInv(1)
    BY <1>1, BatchFacts DEF IInv, BatchInv
  <1>4. \/ UNCHANGED ready
        \/ ready' = Enlist(ready, f) /\ f # Listen
    BY <1>2 DEF AcceptFails, Rearm, Writable, IInv, BatchInv
  <1>5. /\ ready' \in Seq(Watchable) /\ ToSet(ready) \subseteq ToSet(ready')
        /\ ToSet(ready') \subseteq watched /\ ready \in Seq(Watchable)
    <2>1. ready \in Seq(Watchable) /\ ToSet(ready) \subseteq watched
      BY DEF IInv, TypeOK, ReadyInv, Watchable
    <2>2. Enlist(ready, f) \in Seq(Watchable) /\ ToSet(Enlist(ready, f)) = ToSet(ready) \cup {f}
      BY <2>1, EnlistFacts
    <2> QED
      BY <1>2, <1>4, <2>1, <2>2
  <1>6. \A g : /\ Contains(ready, g) => Contains(ready', g)
               /\ Contains(ready', g) <=> g \in ToSet(ready')
    BY <1>5, ContainsFacts
  <1>7. \A g : sock'[g] = sock[g] /\ (Readable(sock[g])' <=> Readable(sock[g]))
    BY <1>1 DEF Readable, descriptors, network
  <1>8. f # Listen /\ Readable(sock[f]) => Contains(ready', f)
    <2>1. CASE AcceptFails
      BY <1>2, <2>1 DEF AcceptFails
    <2>2. CASE Rearm
      <3>1. f # Listen /\ Readable(sock[f]) => ready' = Enlist(ready, f)
        BY <1>2, <2>2, EventsFacts DEF Rearm, IInv
      <3> QED
        BY <1>5, <1>6, <3>1, EnlistFacts
    <2>3. CASE Writable
      BY <1>2, <1>3, <1>6, <2>3, <1>1, BatchFacts DEF Writable, EventInv
    <2> QED
      BY <2>1, <2>2, <2>3
  <1>9. /\ \A g \in watched \ {Listen, Current} : Undisturbed(g)
        /\ Contains(ready, Listen) => Contains(ready, Listen)'
    BY <1>6, <1>7 DEF Undisturbed
  <1>10. BatchInv'
    BY <1>1, <1>9, BatchAdvances
  <1>11. NoLostEdge'
    <2>1. \A g \in watched' \ {Listen} :
            \/ g \in watched \ {Current} /\ Undisturbed(g)
            \/ Readable(sock[g])' => Contains(ready, g)'
      BY <1>1, <1>2, <1>7, <1>8, <1>9 DEF descriptors
    <2> QED
      BY <1>1, <2>1, EdgesAdvance
  <1>12. OpenFds' = OpenFds
    BY <1>1 DEF OpenFds, descriptors
  <1>13. TypeOK'
    BY <1>1, <1>5, NextEventFacts DEF IInv, TypeOK, Watchable, Event, server, descriptors, network
  <1>14. DescriptorsInOrder'
    <2>1. \A i \in 1..Len(batch') : batch'[i].fd \in watched
      BY <1>1, BatchFacts, NextEventFacts
    <2>2. pc \notin {"setflags", "add"} /\ pc' \notin {"setflags", "add"}
      BY <1>1, NextEventFacts
    <2> QED
      BY <1>1, <1>12, <2>1, <2>2 DEF IInv, DescriptorsInOrder, descriptors
  <1>15. SetupInv'
    BY <1>1, NextEventFacts DEF IInv, SetupInv, descriptors
  <1>16. BacklogInv' /\ ReadyInv'
    BY <1>1, <1>5, <1>12 DEF IInv, BacklogInv, ReadyInv, server, descriptors, network
  <1> QED
    BY <1>10, <1>11, <1>13, <1>14, <1>15, <1>16 DEF IInv

\* accept: below the limit a descriptor is free, and the lowest is taken.
LEMMA FreeDescriptor ==
  ASSUME IInv, ~OutOfFds
  PROVE  /\ \E f \in Fds \ OpenFds : \A g \in Fds \ OpenFds : f <= g
         /\ IsFiniteSet(OpenFds) /\ Cardinality(OpenFds) + 1 <= nfds
  <1>1. IsFiniteSet(OpenFds) /\ Cardinality(OpenFds) \in Nat /\ nfds \in Nat
    BY FdsFacts, FS_Subset, FS_CardinalityType DEF OpenFds, IInv, TypeOK
  <1>2. Cardinality(OpenFds) + 1 <= nfds
    BY <1>1 DEF OutOfFds, IInv, ReadyInv
  <1>3. Fds \ OpenFds # {}
    <2> SUFFICES ASSUME Fds \subseteq OpenFds PROVE FALSE
      OBVIOUS
    <2>1. 1..nfds \subseteq OpenFds /\ Cardinality(1..nfds) = nfds
      BY FdsFacts DEF IInv, TypeOK
    <2>2. nfds <= Cardinality(OpenFds)
      BY <1>1, <2>1, FS_Subset
    <2> QED
      BY <1>1, <1>2, <2>2
  <1>4. Fds \ OpenFds \subseteq Nat
    BY FdsFacts
  <1>5. \E f \in Fds \ OpenFds : \A g \in Fds \ OpenFds : ~(g < f)
    <2> DEFINE R == OpToRel(<, Nat)
    <2>1. \A a, b \in Nat : a < b => <<a, b>> \in R
      BY DEF OpToRel
    <2>2. IsWellFoundedOn(R, Nat)
      BY NatLessThanWellFounded
    <2> HIDE DEF R
    <2>3. \E f \in Fds \ OpenFds : \A g \in Fds \ OpenFds : <<g, f>> \notin R
      BY <1>3, <1>4, <2>2, WFMin
    <2> QED
      BY <1>4, <2>1, <2>3
  <1>6. \A f, g \in Fds \ OpenFds : ~(g < f) => f <= g
    BY <1>4
  <1> QED
    BY <1>1, <1>2, <1>5, <1>6

LEMMA AcceptKeeps ==
  ASSUME IInv, Accept
  PROVE  IInv'
  <1>1. /\ pc = "event" /\ Current = Listen /\ pc' = "setflags"
        /\ sock' = [sock EXCEPT ![new'] = Head(backlog)]
        /\ blocking' = blocking \cup {new'}
        /\ conn' = [conn EXCEPT ![Head(backlog)] = "open"]
        /\ backlog' = Tail(backlog)
        /\ UNCHANGED <<server, step, starts, reuse, lingering, watched, ready, batch,
                       network, buf>>
    BY DEF Accept
  <1>2. PICK n : n = new' /\ n \in Fds \ OpenFds
    BY FreeDescriptor DEF Accept
  <1>3. EventInv(1) /\ Current = batch[1].fd
    BY <1>1, BatchFacts DEF IInv, BatchInv
  <1>4. PICK c \in Clients :
          /\ c = Head(backlog) /\ backlog' \in Seq(Clients)
          /\ Len(backlog') = Len(backlog) - 1 /\ c = backlog[1] /\ Len(backlog) \in Nat \ {0}
          /\ \A i \in 1..Len(backlog') : backlog'[i] = backlog[i + 1]
    <2>1. backlog # <<>> /\ backlog \in Seq(Clients)
      BY <1>1, <1>3 DEF EventInv, IInv, TypeOK
    <2> QED
      BY <1>1, <2>1, HeadTailProperties, EmptySeq
  <1>5. conn[c] = "pending" /\ c # None
    BY <1>4 DEF IInv, BacklogInv, ToSet, None
  <1>6. /\ sock' \in [Fds -> Clients \cup {None}] /\ sock'[n] = c
        /\ \A f \in Fds \ {n} : sock'[f] = sock[f]
    BY <1>1, <1>2, <1>4 DEF IInv, TypeOK
  <1>7. OpenFds' = OpenFds \cup {n}
    BY <1>2, <1>5, <1>6 DEF OpenFds
  <1>8. /\ conn' \in [Clients -> {"none", "pending", "open", "closed"}]
        /\ \A d \in Clients : conn'[d] = IF d = c THEN "open" ELSE conn[d]
    BY <1>1, <1>4 DEF IInv, TypeOK
  <1>9. \A f \in OpenFds : sock[f] \in Clients /\ conn[sock[f]] = "open"
    BY DEF OpenFds, IInv, TypeOK, DescriptorsInOrder
  <1>10. TypeOK'
    BY <1>1, <1>2, <1>4, <1>6, <1>8 DEF IInv, TypeOK, server, network
  <1>11. DescriptorsInOrder'
    <2>1. \A f, g \in OpenFds' : sock'[f] = sock'[g] => f = g
      BY <1>2, <1>5, <1>6, <1>7, <1>9 DEF IInv, DescriptorsInOrder, OpenFds
    <2>2. {d \in Clients : conn'[d] = "open"} = {sock'[f] : f \in OpenFds'}
      <3>1. {d \in Clients : conn[d] = "open"} = {sock[f] : f \in OpenFds}
        BY DEF IInv, DescriptorsInOrder
      <3>2. {d \in Clients : conn'[d] = "open"} = {d \in Clients : conn[d] = "open"} \cup {c}
        BY <1>8
      <3>3. {sock'[f] : f \in OpenFds'} = {sock[f] : f \in OpenFds} \cup {c}
        BY <1>2, <1>6, <1>7 DEF OpenFds
      <3> QED
        BY <3>1, <3>2, <3>3
    <2> QED
      BY <1>1, <1>2, <1>7, <2>1, <2>2 DEF IInv, DescriptorsInOrder
  <1>12. SetupInv'
    BY <1>1 DEF IInv, SetupInv
  <1>13. BacklogInv'
    <2>0. /\ IsInjective(backlog) /\ \A d \in ToSet(backlog) : conn[d] = "pending"
          /\ DOMAIN backlog = 1..Len(backlog)
      BY DEF IInv, BacklogInv, TypeOK
    <2>1. /\ \A i, j \in 1..Len(backlog) : backlog[i] = backlog[j] => i = j
          /\ \A i \in 1..Len(backlog) : conn[backlog[i]] = "pending"
      BY <2>0 DEF IsInjective, ToSet
    <2>2. \A i \in 1..Len(backlog') : /\ i + 1 \in 1..Len(backlog) /\ i + 1 # 1
                                      /\ backlog'[i] \in Clients
      BY <1>4
    <2>3. \A i \in 1..Len(backlog') : backlog'[i] # c /\ conn[backlog'[i]] = "pending"
      BY <1>4, <2>1, <2>2
    <2>4. \A i, j \in 1..Len(backlog') : backlog'[i] = backlog'[j] => i = j
      BY <1>4, <2>1, <2>2
    <2>5. IsInjective(backlog') /\ \A d \in ToSet(backlog') : conn'[d] = "pending"
      BY <1>4, <1>8, <2>2, <2>3, <2>4 DEF IsInjective, ToSet
    <2> QED
      BY <1>1, <2>5 DEF IInv, BacklogInv, network
  <1>14. ReadyInv'
    <2>1. /\ IsFiniteSet(OpenFds) /\ Cardinality(OpenFds) + 1 <= nfds
      BY FreeDescriptor DEF Accept
    <2>2. Cardinality(OpenFds') = Cardinality(OpenFds) + 1
      BY <1>2, <1>7, <2>1, FS_AddElement
    <2> QED
      BY <1>1, <2>1, <2>2 DEF IInv, ReadyInv, server
  <1>15. /\ \A i, j \in 1..Len(batch') : batch'[i].fd = batch'[j].fd => i = j
         /\ \A i \in 1..Len(batch') : EventInv(i)'
         /\ NoLostEdge'
    <2>1. \A f \in watched \ {Listen, Current} : Undisturbed(f)
      BY <1>1, <1>2, <1>6, WatchedFacts DEF Undisturbed, Readable, network
    <2>2. LevelTriggered(Listen)' <=> LevelTriggered(Listen)
      BY <1>1 DEF LevelTriggered, client, server
    <2>3. EventInv(1)'
      BY <1>1, <1>3, <2>2 DEF EventInv
    <2> QED
      BY <1>1, <2>1, <2>3, BatchStays
  <1>16. BatchInv'
    <2>1. n \in OpenFds' \ watched'
      BY <1>1, <1>2, <1>7, FdsFacts DEF IInv, DescriptorsInOrder
    <2> QED
      BY <1>1, <1>2, <1>15, <2>1 DEF BatchInv, Current
  <1> QED
    BY <1>10, <1>11, <1>12, <1>13, <1>14, <1>15, <1>16 DEF IInv

\* fcntl: only the mode of the new descriptor may change.
LEMMA SetFlagsKeeps ==
  ASSUME IInv, SetFlags
  PROVE  IInv'
  <1>1. /\ pc = "setflags" /\ pc' = "add" /\ blocking' \subseteq blocking
        /\ UNCHANGED <<server, step, starts, reuse, lingering, backlog, sock, watched, new,
                       ready, batch, conn, network, buf>>
    BY DEF SetFlags
  <1>2. OpenFds' = OpenFds
    BY <1>1 DEF OpenFds
  <1>3. TypeOK'
    BY <1>1 DEF IInv, TypeOK, server, network
  <1>4. DescriptorsInOrder' /\ SetupInv' /\ BacklogInv' /\ ReadyInv'
    BY <1>1, <1>2
       DEF IInv, DescriptorsInOrder, SetupInv, BacklogInv, ReadyInv, server, network
  <1>5. EventInv(1) /\ Current = Listen
    BY <1>1, BatchFacts DEF IInv, BatchInv
  <1>6. EventInv(1)'
    <2>1. LevelTriggered(Listen)' <=> LevelTriggered(Listen)
      BY <1>1 DEF LevelTriggered, client, server
    <2> QED
      BY <1>1, <1>5, <2>1, BatchFacts DEF EventInv
  <1>7. /\ \A i, j \in 1..Len(batch') : batch'[i].fd = batch'[j].fd => i = j
        /\ \A i \in 1..Len(batch') : EventInv(i)'
        /\ NoLostEdge'
    <2>1. \A f \in watched \ {Listen, Current} : Undisturbed(f)
      BY <1>1 DEF Undisturbed, Readable, network
    <2> QED
      BY <1>1, <1>5, <1>6, <2>1, BatchStays
  <1>8. BatchInv'
    BY <1>1, <1>2, <1>7 DEF IInv, BatchInv, Current
  <1> QED
    BY <1>3, <1>4, <1>7, <1>8 DEF IInv

\* EPOLL_CTL_ADD: a client that is readable already goes on the ready list.
LEMMA AddClientKeeps ==
  ASSUME IInv, AddClient
  PROVE  IInv'
  <1>1. /\ pc = "add" /\ NextEvent /\ watched' = watched \cup {new}
        /\ ready' = IF Events(new) # {} THEN Enlist(ready, new) ELSE ready
        /\ UNCHANGED <<server, step, starts, reuse, lingering, backlog, sock, blocking, new,
                       conn, network, buf>>
    BY DEF AddClient
  <1>2. PICK n : n = new /\ n \in Fds /\ n \in OpenFds \ watched /\ n # Listen
    BY <1>1, FdsFacts DEF IInv, BatchInv, TypeOK
  <1>3. Current = Listen /\ OpenFds' = OpenFds
    BY <1>1 DEF IInv, BatchInv, OpenFds
  <1>4. /\ ready \in Seq(Watchable) /\ ToSet(ready) \subseteq watched
        /\ Enlist(ready, n) \in Seq(Watchable)
        /\ ToSet(Enlist(ready, n)) = ToSet(ready) \cup {n}
    <2>1. ready \in Seq(Watchable) /\ n \in Watchable /\ ToSet(ready) \subseteq watched
      BY <1>2 DEF IInv, TypeOK, ReadyInv, Watchable
    <2> QED
      BY <2>1, EnlistFacts
  <1>5. /\ ready' \in Seq(Watchable) /\ ToSet(ready) \subseteq ToSet(ready')
        /\ ToSet(ready') \subseteq watched'
    BY <1>1, <1>2, <1>4
  <1>6. \A g : /\ Contains(ready, g) => Contains(ready', g)
               /\ Contains(ready', g) <=> g \in ToSet(ready')
    BY <1>4, <1>5, ContainsFacts
  <1>7. \A g : sock'[g] = sock[g] /\ (Readable(sock[g])' <=> Readable(sock[g]))
    BY <1>1 DEF Readable, network
  <1>8. Readable(sock[n]) => Contains(ready', n)
    <2>1. Readable(sock[n]) => Events(n) # {}
      BY <1>2, EventsFacts DEF IInv
    <2> QED
      BY <1>1, <1>2, <1>4, <1>6, <2>1
  <1>9. /\ \A g \in watched \ {Listen, Current} : Undisturbed(g)
        /\ Contains(ready, Listen) => Contains(ready, Listen)'
    BY <1>6, <1>7 DEF Undisturbed
  <1>10. BatchInv'
    BY <1>1, <1>9, BatchAdvances
  <1>11. NoLostEdge'
    <2>1. \A g \in watched' \ {Listen} :
            \/ g \in watched \ {Current} /\ Undisturbed(g)
            \/ Readable(sock[g])' => Contains(ready, g)'
      BY <1>1, <1>2, <1>3, <1>7, <1>8, <1>9
    <2> QED
      BY <1>1, <2>1, EdgesAdvance
  <1>12. TypeOK'
    BY <1>1, <1>2, <1>5, NextEventFacts
       DEF IInv, TypeOK, Watchable, Event, server, network
  <1>13. DescriptorsInOrder'
    <2>1. \A i \in 1..Len(batch') : batch'[i].fd \in watched'
      BY <1>1, BatchFacts, NextEventFacts
    <2>2. pc' \notin {"setflags", "add"}
      BY <1>1, NextEventFacts
    <2>3. OpenFds' = watched' \ {Listen}
      BY <1>1, <1>2, <1>3 DEF IInv, DescriptorsInOrder
    <2> QED
      BY <1>1, <1>3, <2>1, <2>2, <2>3 DEF IInv, DescriptorsInOrder
  <1>14. SetupInv'
    BY <1>1, NextEventFacts DEF IInv, SetupInv
  <1>15. BacklogInv' /\ ReadyInv'
    BY <1>1, <1>3, <1>5 DEF IInv, BacklogInv, ReadyInv, server, network
  <1> QED
    BY <1>10, <1>11, <1>12, <1>13, <1>14, <1>15 DEF IInv

\* A connection that cannot be served is closed before epoll knows of it.
LEMMA DropNewKeeps ==
  ASSUME IInv, DropNew
  PROVE  IInv'
  <1>1. /\ pc \in {"setflags", "add"} /\ NextEvent
        /\ UNCHANGED <<server, step, starts, reuse, backlog, watched, new, ready, network>>
    BY DEF DropNew
  <1>2. PICK n : n = new /\ n \in OpenFds \ watched /\ n # Listen /\ Current = Listen
    BY <1>1, FdsFacts DEF IInv, BatchInv, OpenFds
  <1>3. /\ OpenFds' = OpenFds \ {n} /\ Cardinality(OpenFds') <= nfds
        /\ \A g \in OpenFds \ {n} : sock'[g] = sock[g] /\ conn'[sock[g]] = conn[sock[g]]
                                    /\ buf'[sock[g]] = buf[sock[g]]
        /\ \A g, h \in OpenFds' : sock'[g] = sock'[h] => g = h
        /\ {c \in Clients : conn'[c] = "open"} = {sock'[g] : g \in OpenFds'}
        /\ BacklogInv'
        /\ sock' \in [Fds -> Clients \cup {None}] /\ blocking' \subseteq Fds
        /\ conn' \in [Clients -> {"none", "pending", "open", "closed"}]
        /\ buf' \in [Clients -> Piece] /\ lingering' \in BOOLEAN
    <2>1. CloseFd(n) /\ UNCHANGED <<nfds, sent, backlog>>
      BY <1>1, <1>2 DEF DropNew, server, network
    <2> QED
      BY <1>2, <2>1, CloseFacts
  <1>4. \A g \in watched \ {Listen} : g \in OpenFds \ {n}
    BY <1>2, WatchedFacts
  <1>5. /\ \A g \in watched \ {Listen, Current} : Undisturbed(g)
        /\ Contains(ready, Listen) => Contains(ready, Listen)'
    BY <1>1, <1>3, <1>4 DEF Undisturbed, Readable, network
  <1>6. BatchInv'
    BY <1>1, <1>5, BatchAdvances
  <1>7. NoLostEdge'
    <2>1. \A g \in watched' \ {Listen} : g \in watched \ {Current} /\ Undisturbed(g)
      BY <1>1, <1>2, <1>5
    <2> QED
      BY <1>1, <2>1, EdgesAdvance
  <1>8. TypeOK'
    BY <1>1, <1>3, NextEventFacts DEF IInv, TypeOK, Watchable, Event, server, network
  <1>9. DescriptorsInOrder'
    <2>1. \A i \in 1..Len(batch') : batch'[i].fd \in watched'
      BY <1>1, BatchFacts, NextEventFacts
    <2>2. pc' \notin {"setflags", "add"}
      BY <1>1, NextEventFacts
    <2>3. OpenFds' = watched' \ {Listen}
      BY <1>1, <1>2, <1>3 DEF IInv, DescriptorsInOrder
    <2> QED
      BY <1>3, <2>1, <2>2, <2>3 DEF DescriptorsInOrder
  <1>10. SetupInv'
    BY <1>1, NextEventFacts DEF IInv, SetupInv
  <1>11. ReadyInv'
    BY <1>1, <1>3 DEF IInv, ReadyInv, server
  <1> QED
    BY <1>3, <1>6, <1>7, <1>8, <1>9, <1>10, <1>11 DEF IInv

\* recv at the end of a stream: the descriptor leaves epoll, its ready list
\* and the table together, and no later event of the batch is about it.
LEMMA RecvClosesKeeps ==
  ASSUME IInv, pc = "event", Current # Listen, CloseFd(Current), NextEvent,
         watched' = watched \ {Current},
         ready' \in Listing(ToSet(ready) \ {Current}, ready),
         UNCHANGED <<server, step, starts, reuse, backlog, new, network>>
  PROVE  IInv'
  <1>1. PICK f : f = Current /\ f \in watched /\ f # Listen /\ f \in OpenFds
    BY BatchFacts, WatchedFacts
  <1>2. /\ OpenFds' = OpenFds \ {f} /\ Cardinality(OpenFds') <= nfds
        /\ \A g \in OpenFds \ {f} : sock'[g] = sock[g] /\ conn'[sock[g]] = conn[sock[g]]
                                    /\ buf'[sock[g]] = buf[sock[g]]
        /\ \A g, h \in OpenFds' : sock'[g] = sock'[h] => g = h
        /\ {c \in Clients : conn'[c] = "open"} = {sock'[g] : g \in OpenFds'}
        /\ BacklogInv'
        /\ sock' \in [Fds -> Clients \cup {None}] /\ blocking' \subseteq Fds
        /\ conn' \in [Clients -> {"none", "pending", "open", "closed"}]
        /\ buf' \in [Clients -> Piece] /\ lingering' \in BOOLEAN
    <2>1. CloseFd(f) /\ UNCHANGED <<nfds, sent, backlog>>
      BY <1>1 DEF server, network
    <2> QED
      BY <1>1, <2>1, CloseFacts
  <1>3. /\ ready \in Seq(Watchable) /\ ToSet(ready) \subseteq watched
        /\ ready' \in Seq(Watchable) /\ ToSet(ready') = ToSet(ready) \ {f}
    <2>1. /\ ready \in Seq(Watchable) /\ ToSet(ready) \subseteq watched
          /\ ToSet(ready) \ {f} \in SUBSET Watchable
      BY DEF IInv, TypeOK, ReadyInv, Watchable
    <2>2. ready' \in Listing(ToSet(ready) \ {f}, ready)
      BY <1>1
    <2> QED
      BY <2>1, <2>2, ListingFacts
  <1>4. \A g : g # f => (Contains(ready, g) <=> Contains(ready', g))
    BY <1>3, ContainsFacts
  <1>5. \A g \in watched \ {Listen, f} : g \in OpenFds \ {f}
    BY WatchedFacts
  <1>6. /\ \A g \in watched \ {Listen, Current} : Undisturbed(g)
        /\ Contains(ready, Listen) => Contains(ready, Listen)'
    BY <1>1, <1>2, <1>4, <1>5 DEF Undisturbed, Readable, network
  <1>7. BatchInv'
    BY <1>6, BatchAdvances
  <1>8. NoLostEdge'
    <2>1. \A g \in watched' \ {Listen} : g \in watched \ {Current} /\ Undisturbed(g)
      BY <1>6
    <2> QED
      BY <2>1, EdgesAdvance
  <1>9. TypeOK'
    BY <1>2, <1>3, NextEventFacts DEF IInv, TypeOK, Watchable, Event, server, network
  <1>10. DescriptorsInOrder'
    <2>1. \A i \in 1..Len(batch') : batch'[i].fd \in watched'
      BY BatchFacts, NextEventFacts
    <2>2. pc' \notin {"setflags", "add"}
      BY NextEventFacts
    <2>3. OpenFds' = watched' \ {Listen}
      BY <1>1, <1>2 DEF IInv, DescriptorsInOrder
    <2> QED
      BY <1>2, <2>1, <2>2, <2>3 DEF DescriptorsInOrder
  <1>11. SetupInv'
    BY <1>1, NextEventFacts DEF IInv, SetupInv
  <1>12. ReadyInv'
    BY <1>1, <1>2, <1>3 DEF IInv, ReadyInv, server
  <1> QED
    BY <1>2, <1>7, <1>8, <1>9, <1>10, <1>11, <1>12 DEF IInv

\* recv on data: what it leaves in the buffer is seen to by the registration
\* that follows, or by the ready list where the client is level triggered.
LEMMA RecvReadsKeeps ==
  ASSUME IInv, pc = "event", Current # Listen, "in" \in Head(batch).events,
         NEW m \in Nat, m <= buf[sock[Current]],
         m = 0 => buf[sock[Current]] = 0 /\ peer[sock[Current]] = "open",
         buf' = [buf EXCEPT ![sock[Current]] = @ - m],
         IF m > 0 /\ client.rearm THEN pc' = "mod" /\ UNCHANGED batch ELSE NextEvent,
         UNCHANGED <<sock, blocking, watched, ready, conn, lingering,
                     server, step, starts, reuse, backlog, new, network>>
  PROVE  IInv'
  <1>1. PICK f : /\ f = Current /\ f \in watched /\ f # Listen /\ f \in OpenFds /\ f \in Fds
                 /\ batch[1].fd = f /\ "in" \in batch[1].events /\ EventInv(1)
                 /\ batch # <<>>
    BY BatchFacts, WatchedFacts DEF IInv, BatchInv
  <1>2. PICK c \in Clients : c = sock[f] /\ \A g \in Fds : sock[g] = c => g = f
    BY <1>1, WatchedFacts
  <1>3. /\ buf[c] \in Piece /\ buf[c] <= sent /\ sent \in Nat /\ buf'[c] = buf[c] - m
        /\ buf' \in [Clients -> Piece] /\ \A d \in Clients : buf'[d] <= sent
        /\ \A d \in Clients \ {c} : buf'[d] = buf[d]
    BY <1>1, <1>2 DEF IInv, TypeOK, BacklogInv, Piece
  <1>4. OpenFds' = OpenFds
    BY DEF OpenFds
  <1>5. \A g \in watched \ {Listen} : sock[g] \in Clients /\ (g # f => sock[g] # c)
    BY <1>2, WatchedFacts
  <1>6. /\ \A g \in watched \ {Listen, Current} : Undisturbed(g)
        /\ Contains(ready, Listen) => Contains(ready, Listen)'
    BY <1>1, <1>3, <1>5 DEF Undisturbed, Readable, network
  <1>7. BacklogInv' /\ ReadyInv'
    BY <1>3, <1>4 DEF IInv, BacklogInv, ReadyInv, server, network
  <1>8. CASE m > 0 /\ client.rearm
    <2>1. pc' = "mod" /\ batch' = batch
      BY <1>8
    <2>2. EventInv(1)'
      <3>1. LevelTriggered(f)' <=> LevelTriggered(f)
        BY DEF LevelTriggered, client, server
      <3> QED
        BY <1>1, <2>1, <3>1 DEF EventInv
    <2>3. /\ \A i, j \in 1..Len(batch') : batch'[i].fd = batch'[j].fd => i = j
          /\ \A i \in 1..Len(batch') : EventInv(i)'
          /\ NoLostEdge'
      BY <1>6, <2>1, <2>2, BatchStays
    <2>4. BatchInv'
      BY <2>1, <2>3 DEF BatchInv, Current
    <2>5. TypeOK'
      BY <1>3, <2>1 DEF IInv, TypeOK, server, network
    <2>6. DescriptorsInOrder' /\ SetupInv'
      BY <1>1, <1>4, <2>1 DEF IInv, DescriptorsInOrder, SetupInv
    <2> QED
      BY <1>7, <2>3, <2>4, <2>5, <2>6 DEF IInv
  <1>9. CASE ~(m > 0 /\ client.rearm)
    <2>1. NextEvent
      BY <1>9
    <2>2. Readable(sock[f])' => Contains(ready, f)'
      <3>1. CASE m = 0
        BY <1>1, <1>2, <1>3, <3>1 DEF Readable, network
      <3>2. CASE m > 0
        <4>1. LevelTriggered(f)
          BY <1>1, <1>9, <3>2, EventsFacts DEF IInv
        <4> QED
          BY <1>1, <4>1 DEF EventInv
      <3> QED
        BY <3>1, <3>2
    <2>3. BatchInv'
      BY <1>6, <2>1, BatchAdvances
    <2>4. NoLostEdge'
      <3>1. \A g \in watched' \ {Listen} :
              \/ g \in watched \ {Current} /\ Undisturbed(g)
              \/ Readable(sock[g])' => Contains(ready, g)'
        BY <1>1, <1>6, <2>2
      <3> QED
        BY <2>1, <3>1, EdgesAdvance
    <2>5. TypeOK'
      BY <1>3, <2>1, NextEventFacts DEF IInv, TypeOK, Watchable, Event, server, network
    <2>6. DescriptorsInOrder'
      <3>1. \A i \in 1..Len(batch') : batch'[i].fd \in watched'
        BY <2>1, BatchFacts, NextEventFacts
      <3>2. pc' \notin {"setflags", "add"}
        BY <2>1, NextEventFacts
      <3> QED
        BY <1>4, <3>1, <3>2 DEF IInv, DescriptorsInOrder
    <2>7. SetupInv'
      BY <2>1, NextEventFacts DEF IInv, SetupInv
    <2> QED
      BY <1>7, <2>3, <2>4, <2>5, <2>6, <2>7 DEF IInv
  <1> QED
    BY <1>8, <1>9

LEMMA RecvKeeps ==
  ASSUME IInv, Recv
  PROVE  IInv'
  <1> DEFINE c == sock[Current]
             m == IF buf[c] < client.recv THEN buf[c] ELSE client.recv
  <1>1. /\ pc = "event" /\ Current # Listen /\ "in" \in Head(batch).events
        /\ UNCHANGED <<server, step, starts, reuse, backlog, new, network>>
    BY DEF Recv
  <1>2. c \in Clients /\ buf[c] \in Nat /\ client.recv \in Nat \ {0}
    BY <1>1, BatchFacts, WatchedFacts, ClientFacts DEF IInv, TypeOK, Piece
  <1>3. m \in Nat /\ m <= buf[c] /\ (m = 0 => buf[c] = 0)
    BY <1>2
  <1>4. CASE m = 0 /\ peer[c] # "open"
    <2>1. /\ CloseFd(Current) /\ watched' = watched \ {Current} /\ NextEvent
          /\ ready' \in Listing(ToSet(ready) \ {Current}, ready)
      BY <1>4 DEF Recv
    <2> QED
      BY <1>1, <2>1, RecvClosesKeeps
  <1>5. CASE ~(m = 0 /\ peer[c] # "open")
    <2>1. /\ buf' = [buf EXCEPT ![c] = @ - m]
          /\ UNCHANGED <<sock, blocking, watched, ready, conn, lingering>>
          /\ IF m > 0 /\ client.rearm THEN pc' = "mod" /\ UNCHANGED batch ELSE NextEvent
      BY <1>5 DEF Recv
    <2>2. m = 0 => buf[c] = 0 /\ peer[c] = "open"
      BY <1>3, <1>5
    <2> HIDE DEF m
    <2> QED
      BY <1>1, <1>3, <2>1, <2>2, RecvReadsKeeps
  <1> QED
    BY <1>4, <1>5
-----------------------------------------------------------------------------
(* The clients, and whoever starts the server.                               *)

\* A descriptor that becomes readable between two steps of the server goes on
\* the ready list, so that neither the batch nor the list misses it.
LEMMA ArrivalKeeps ==
  ASSUME IInv, UNCHANGED <<server, process, descriptors, batch>>,
         backlog # <<>> => backlog' # <<>>,
         ready' \in Seq(Watchable), ToSet(ready) \subseteq ToSet(ready'),
         \A f \in watched \ {Listen} :
           /\ Readable(sock[f]) => Readable(sock[f])'
           /\ Readable(sock[f])' /\ ~Readable(sock[f]) => f \in ToSet(ready')
  PROVE  BatchInv' /\ NoLostEdge'
  <1> USE DEF server, process, descriptors
  <1>1. \A g : /\ Contains(ready, g) => Contains(ready, g)'
               /\ g \in ToSet(ready') => Contains(ready, g)'
    <2>1. ready \in Seq(Watchable)
      BY DEF IInv, TypeOK, Watchable
    <2> QED
      BY <2>1, ContainsFacts
  <1>2. ASSUME NEW i \in 1..Len(batch') PROVE EventInv(i)'
    <2>1. PICK f : f = batch[i].fd /\ f \in watched
      BY <1>2 DEF IInv, DescriptorsInOrder
    <2>2. EventInv(i)
      BY <1>2 DEF IInv, BatchInv
    <2>3. LevelTriggered(f)' <=> LevelTriggered(f)
      BY DEF LevelTriggered, client
    <2>4. LevelTriggered(f)' => Contains(ready, f)'
      BY <1>1, <2>1, <2>2, <2>3 DEF EventInv
    <2>5. f = Listen => backlog' # <<>> \/ (i = 1 /\ pc # "event")
      BY <2>1, <2>2 DEF EventInv
    <2>6. f # Listen /\ "in" \in batch[i].events
            => Readable(sock[f])' \/ (i = 1 /\ pc # "event")
      BY <2>1, <2>2 DEF EventInv
    <2>7. f # Listen /\ "in" \notin batch[i].events /\ Readable(sock[f])'
            => Contains(ready, f)'
      BY <1>1, <2>1, <2>2 DEF EventInv
    <2> QED
      BY <2>1, <2>4, <2>5, <2>6, <2>7 DEF EventInv
  <1>3. NoLostEdge'
    <2> SUFFICES ASSUME NEW f \in watched \ {Listen}, Readable(sock[f])',
                        ~Contains(ready, f)'
                 PROVE  \E i \in 1..Len(batch) : batch[i].fd = f
      BY DEF NoLostEdge
    <2> QED
      BY <1>1 DEF IInv, NoLostEdge
  <1>4. OpenFds' = OpenFds
    BY DEF OpenFds
  <1> QED
    BY <1>2, <1>3, <1>4 DEF IInv, BatchInv, Current

LEMMA ConnectKeeps ==
  ASSUME IInv, NEW c \in Clients, Connect(c)
  PROVE  IInv'
  <1>1. /\ pc # "exited" /\ conn[c] = "none" /\ conn' = [conn EXCEPT ![c] = "pending"]
        /\ backlog' = Append(backlog, c)
        /\ ready' = IF Listen \in watched THEN Enlist(ready, Listen) ELSE ready
        /\ UNCHANGED <<server, process, descriptors, batch, network, buf>>
    BY DEF Connect, Listening
  <1>2. /\ ready' \in Seq(Watchable) /\ ToSet(ready) \subseteq ToSet(ready')
        /\ ToSet(ready') \subseteq watched
    <2>1. ready \in Seq(Watchable) /\ Listen \in Watchable /\ ToSet(ready) \subseteq watched
      BY DEF IInv, TypeOK, ReadyInv, Watchable
    <2> QED
      BY <1>1, <2>1, EnlistFacts
  <1>3. /\ backlog' \in Seq(Clients) /\ backlog' # <<>> /\ Len(backlog') = Len(backlog) + 1
        /\ \A i \in 1..Len(backlog) : backlog'[i] = backlog[i]
        /\ backlog'[Len(backlog) + 1] = c /\ Len(backlog) \in Nat
    BY <1>1, AppendProperties DEF IInv, TypeOK
  <1>4. \A f : Readable(sock[f])' <=> Readable(sock[f])
    BY <1>1 DEF Readable, network, descriptors
  <1>5. BatchInv' /\ NoLostEdge'
    BY <1>1, <1>2, <1>3, <1>4, ArrivalKeeps
  <1>6. OpenFds' = OpenFds
    BY <1>1 DEF OpenFds, descriptors
  <1>7. conn' \in [Clients -> {"none", "pending", "open", "closed"}]
    BY <1>1 DEF IInv, TypeOK
  <1>8. TypeOK'
    BY <1>1, <1>2, <1>3, <1>7
       DEF IInv, TypeOK, Watchable, server, process, descriptors, network
  <1>9. DescriptorsInOrder'
    <2>1. {d \in Clients : conn'[d] = "open"} = {d \in Clients : conn[d] = "open"}
      BY <1>1 DEF IInv, TypeOK
    <2> QED
      BY <1>1, <1>6, <2>1 DEF IInv, DescriptorsInOrder, process, descriptors
  <1>10. SetupInv'
    BY <1>1, <1>6 DEF IInv, SetupInv, server, process, descriptors
  <1>11. BacklogInv'
    <2>0. /\ IsInjective(backlog) /\ \A d \in ToSet(backlog) : conn[d] = "pending"
          /\ DOMAIN backlog = 1..Len(backlog) /\ backlog \in Seq(Clients)
      BY DEF IInv, BacklogInv, TypeOK
    <2>1. /\ \A i, j \in 1..Len(backlog) : backlog[i] = backlog[j] => i = j
          /\ \A i \in 1..Len(backlog) : conn[backlog[i]] = "pending" /\ backlog[i] \in Clients
      BY <2>0 DEF IsInjective, ToSet
    <2>2. DOMAIN backlog' = 1..(Len(backlog) + 1)
      BY <1>3
    <2>3. \A i, j \in 1..(Len(backlog) + 1) : backlog'[i] = backlog'[j] => i = j
      BY <1>1, <1>3, <2>1
    <2>4. \A i \in 1..(Len(backlog) + 1) : conn'[backlog'[i]] = "pending"
      BY <1>1, <1>3, <2>1 DEF IInv, TypeOK
    <2>5. IsInjective(backlog') /\ \A d \in ToSet(backlog') : conn'[d] = "pending"
      BY <2>2, <2>3, <2>4 DEF IsInjective, ToSet
    <2> QED
      BY <1>1, <2>5 DEF IInv, BacklogInv, network
  <1>12. ReadyInv'
    BY <1>1, <1>2, <1>6 DEF IInv, ReadyInv, server, descriptors
  <1> QED
    BY <1>5, <1>8, <1>9, <1>10, <1>11, <1>12 DEF IInv

\* Data and the end of a stream are notified to the descriptor of their connection.
LEMMA NotifyFacts ==
  ASSUME IInv, NEW c \in Clients, Notify(c)
  PROVE  /\ ready' \in Seq(Watchable) /\ ToSet(ready) \subseteq ToSet(ready')
         /\ ToSet(ready') \subseteq watched
         /\ \A f \in watched \ {Listen} : sock[f] = c => f \in ToSet(ready')
         /\ watched = {} => ready' = ready
  <1>1. ready \in Seq(Watchable) /\ ToSet(ready) \subseteq watched
    BY DEF IInv, TypeOK, ReadyInv, Watchable
  <1>2. CASE \E f \in watched \ {Listen} : sock[f] = c
    <2>1. PICK f \in watched \ {Listen} : sock[f] = c
      BY <1>2
    <2>2. f \in Fds /\ f \in Watchable /\ \A g \in Fds : sock[g] = c => g = f
      BY <2>1, WatchedFacts DEF Watchable
    <2>3. (CHOOSE g \in Fds : sock[g] = c) = f
      BY <2>1, <2>2
    <2>4. ready' = Enlist(ready, f)
      BY <1>2, <2>3 DEF Notify
    <2>5. ready' \in Seq(Watchable) /\ ToSet(ready') = ToSet(ready) \cup {f}
      BY <1>1, <2>2, <2>4, EnlistFacts
    <2>6. \A g \in watched \ {Listen} : sock[g] = c => g = f
      BY <2>2, WatchedFacts
    <2> QED
      BY <1>1, <2>1, <2>5, <2>6
  <1>3. CASE ~\E f \in watched \ {Listen} : sock[f] = c
    BY <1>1, <1>3 DEF Notify
  <1> QED
    BY <1>2, <1>3

LEMMA SendKeeps ==
  ASSUME IInv, NEW c \in Clients,
         Send(c) \/ \E how \in {"fin", "rst"} : HangUp(c, how)
  PROVE  IInv'
  <1>1. /\ Notify(c) /\ conn[c] \in {"pending", "open"}
        /\ UNCHANGED <<server, process, descriptors, backlog, batch, conn>>
    BY DEF Send, HangUp
  <1>2. /\ ready' \in Seq(Watchable) /\ ToSet(ready) \subseteq ToSet(ready')
        /\ ToSet(ready') \subseteq watched
        /\ \A f \in watched \ {Listen} : sock[f] = c => f \in ToSet(ready')
        /\ watched = {} => ready' = ready
    BY <1>1, NotifyFacts
  <1>3. /\ sent' \in Piece /\ buf' \in [Clients -> Piece] /\ peer' \in [Clients -> {"open", "fin", "rst"}]
        /\ \A d \in Clients : buf'[d] <= sent'
        /\ \A d \in Clients \ {c} : buf'[d] = buf[d] /\ peer'[d] = peer[d]
        /\ Readable(c)'
    <2>1. sent \in Nat /\ MaxSent \in Nat /\ \A d \in Clients : buf[d] \in Nat /\ buf[d] <= sent
      BY DEF IInv, TypeOK, BacklogInv, Piece
    <2>2. CASE Send(c)
      <3>1. /\ sent' = sent + 1 /\ sent < MaxSent /\ peer' = peer
            /\ buf' = [buf EXCEPT ![c] = @ + 1]
        BY <2>2 DEF Send
      <3>2. \A d \in Clients : buf'[d] = IF d = c THEN buf[d] + 1 ELSE buf[d]
        BY <3>1 DEF IInv, TypeOK
      <3>3. sent' \in Piece /\ \A d \in Clients : buf'[d] \in Piece /\ buf'[d] <= sent'
        BY <2>1, <3>1, <3>2 DEF Piece
      <3>4. buf' \in [Clients -> Piece]
        BY <3>1, <3>3 DEF IInv, TypeOK
      <3>5. Readable(c)'
        BY <2>1, <3>2 DEF Readable
      <3> QED
        BY <3>1, <3>2, <3>3, <3>4, <3>5 DEF IInv, TypeOK
    <2>3. CASE \E how \in {"fin", "rst"} : HangUp(c, how)
      BY <2>1, <2>3 DEF HangUp, IInv, TypeOK, Readable
    <2> QED
      BY <2>2, <2>3
  <1>4. \A f \in watched \ {Listen} :
          /\ Readable(sock[f]) => Readable(sock[f])'
          /\ Readable(sock[f])' /\ ~Readable(sock[f]) => f \in ToSet(ready')
    <2> SUFFICES ASSUME NEW f \in watched \ {Listen}
                 PROVE  \/ sock[f] = c /\ Readable(sock[f])'
                        \/ Readable(sock[f])' <=> Readable(sock[f])
      BY <1>2
    <2>1. PICK d \in Clients : d = sock[f] /\ d = sock'[f]
      BY <1>1, WatchedFacts DEF descriptors
    <2> QED
      BY <1>3, <2>1 DEF Readable
  <1>5. BatchInv' /\ NoLostEdge'
    BY <1>1, <1>2, <1>4, ArrivalKeeps
  <1>6. OpenFds' = OpenFds
    BY <1>1 DEF OpenFds, descriptors
  <1>7. TypeOK'
    BY <1>1, <1>2, <1>3 DEF IInv, TypeOK, Watchable, server, process, descriptors
  <1>8. DescriptorsInOrder'
    BY <1>1, <1>6 DEF IInv, DescriptorsInOrder, process, descriptors
  <1>9. SetupInv'
    BY <1>1, <1>2, <1>6 DEF IInv, SetupInv, server, process, descriptors
  <1>10. BacklogInv' /\ ReadyInv'
    BY <1>1, <1>2, <1>3, <1>6 DEF IInv, BacklogInv, ReadyInv, server, descriptors
  <1> QED
    BY <1>5, <1>7, <1>8, <1>9, <1>10 DEF IInv

\* A restart begins with nothing but, perhaps, the port still occupied.
LEMMA RestartKeeps ==
  ASSUME IInv, Restart
  PROVE  IInv'
  <1>1. /\ pc = "exited" /\ pc' = "setup" /\ step' = 1 /\ starts' = starts + 1
        /\ starts < MaxStarts /\ reuse' = FALSE /\ lingering' \in {lingering, FALSE}
        /\ UNCHANGED <<server, backlog, descriptors, ready, batch, conn, network, buf>>
    BY DEF Restart
  <1>2. reuse' \in BOOLEAN /\ lingering' \in BOOLEAN
    BY Zenon DEF Restart, IInv, TypeOK
  <1>3. OpenFds' = OpenFds /\ watched = {} /\ batch = <<>> /\ Len(batch) = 0
    BY <1>1, EmptySeq DEF OpenFds, descriptors, IInv, SetupInv
  <1>4. TypeOK'
    BY <1>1, <1>2 DEF IInv, TypeOK, server, descriptors, network
  <1>5. DescriptorsInOrder' /\ NoLostEdge'
    BY <1>1, <1>3 DEF IInv, DescriptorsInOrder, NoLostEdge, descriptors
  <1>6. SetupInv'
    BY <1>1, <1>3 DEF IInv, SetupInv, server, descriptors
  <1>7. BacklogInv' /\ ReadyInv'
    BY <1>1, <1>3 DEF IInv, BacklogInv, ReadyInv, server, descriptors, network
  <1>8. BatchInv'
    BY <1>1, <1>3 DEF BatchInv
  <1> QED
    BY <1>4, <1>5, <1>6, <1>7, <1>8 DEF IInv
-----------------------------------------------------------------------------
(* The theorem.                                                              *)

LEMMA NextKeeps == IInv /\ [Next]_vars => IInv'
  <1> SUFFICES ASSUME IInv, [Next]_vars PROVE IInv'
    OBVIOUS
  <1>1. CASE UNCHANGED vars
    <2>1. UNCHANGED OpenFds
      BY <1>1 DEF vars, descriptors, OpenFds
    <2>2. \A c : Readable(c)' <=> Readable(c)
      BY <1>1 DEF vars, network, Readable
    <2>3. TypeOK' /\ DescriptorsInOrder' /\ SetupInv' /\ BacklogInv' /\ ReadyInv'
      BY <1>1, <2>1 DEF IInv, TypeOK, DescriptorsInOrder, SetupInv, BacklogInv, ReadyInv,
                        vars, server, process, descriptors, network
    <2>4. \A f : LevelTriggered(f)' <=> LevelTriggered(f)
      BY <1>1 DEF vars, server, LevelTriggered, client
    <2>5. BatchInv' /\ NoLostEdge'
      BY <1>1, <2>1, <2>2, <2>4 DEF IInv, BatchInv, EventInv, NoLostEdge, Current,
                                    vars, process, descriptors
    <2> QED
      BY <2>3, <2>5 DEF IInv
  <1>2. CASE Server
    <2>1. CASE SetupFails \/ WaitFails
      BY <2>1, ExitKeeps DEF SetupFails, WaitFails
    <2> QED
      BY <1>2, <2>1, SetupCallKeeps, WaitKeeps, AcceptKeeps, QuietKeeps, SetFlagsKeeps,
         AddClientKeeps, DropNewKeeps, RecvKeeps DEF Server
  <1>3. CASE World
    <2>1. CASE Kill
      BY <2>1, ExitKeeps DEF Kill
    <2> QED
      BY <1>3, <2>1, ConnectKeeps, SendKeeps, RestartKeeps DEF World
  <1> QED
    BY <1>1, <1>2, <1>3 DEF Next

\* What RecvNeverBlocks and RestartBinds say follows from the events of the
\* batch and from the order of the setup calls.
LEMMA IInvSuffices == IInv => Inv
  <1> SUFFICES ASSUME IInv PROVE Inv
    OBVIOUS
  <1>1. RecvNeverBlocks
    <2> SUFFICES ASSUME pc = "event", Current # Listen, "in" \in Head(batch).events
                 PROVE  Readable(sock[Current])
      BY DEF RecvNeverBlocks
    <2>1. EventInv(1) /\ Head(batch) = batch[1] /\ Current = batch[1].fd
      BY BatchFacts DEF IInv, BatchInv
    <2> QED
      BY <2>1 DEF EventInv
  <1>2. RestartBinds
    BY SetupFacts DEF RestartBinds, IInv, SetupInv, TypeOK, CanBind
  <1> QED
    BY <1>1, <1>2 DEF Inv, IInv

\* In all three servers, whatever clients, kills and failing calls do: no
\* descriptor is leaked or shared, no event outlives its descriptor, no client
\* that is readable is forgotten, recv is not called where it would block, and
\* a restarted epoll.cc or epoll_lt.cc can bind its port.
THEOREM ServersInOrder == Spec => []Inv
  <1>1. Spec => []IInv
    BY InitInv, NextKeeps, PTL DEF Spec
  <1> QED
    BY <1>1, IInvSuffices, PTL
=============================================================================
