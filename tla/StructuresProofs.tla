-------------------------- MODULE StructuresProofs --------------------------
(***************************************************************************)
(* The singletons, the object pool, the callable wrapper, the counting     *)
(* pointers, the hash map and the line reader keep what Structures states  *)
(* of them, for every number of objects, threads, handles, keys and        *)
(* characters.  They are taken one by one, as each keeps to its own        *)
(* variables.                                                              *)
(***************************************************************************)
EXTENDS PlainStructures, FiniteSetTheorems, SequenceTheorems,
        WellFoundedInduction, NaturalsInduction, TLAPS

(* Singletons                                                              *)

LEMMA SingleInit == Single!Init => Single!TypeOK /\ Single!CallsInv
  <1> SUFFICES ASSUME Single!Init PROVE Single!TypeOK /\ Single!CallsInv
    OBVIOUS
  <1>1. Single!TypeOK
    BY DEF Single!Init, Single!TypeOK
  <1>2. Single!CallsInv
    BY DEF Single!Init, Single!CallsInv
  <1> QED
    BY <1>1, <1>2

LEMMA SingleNext ==
  Single!SingletonAssumption /\ Single!TypeOK /\ Single!CallsInv /\ [Single!Next]_(Single!vars)
    => Single!TypeOK' /\ Single!CallsInv'
  <1> SUFFICES ASSUME Single!SingletonAssumption, Single!TypeOK, Single!CallsInv, [Single!Next]_(Single!vars)
               PROVE  Single!TypeOK' /\ Single!CallsInv'
    OBVIOUS
  <1> USE DEF Single!TypeOK, Single!CallsInv, Single!Goto
  <1>1. CASE UNCHANGED Single!vars
    BY <1>1 DEF Single!vars
  <1>2. ASSUME NEW t \in Threads,
               Single!OnceRuns(t) \/ Single!OncePasses(t) \/ Single!Return(t)
                 \/ Single!Instance(t) \/ Single!GetInstance(t)
        PROVE  Single!TypeOK' /\ Single!CallsInv'
    BY <1>2 DEF Single!OnceRuns, Single!OncePasses, Single!Return, Single!Instance,
       Single!GetInstance
  <1>3. ASSUME NEW t \in Threads, Single!init(t) \/ Single!Create(t)
        PROVE  Single!TypeOK' /\ Single!CallsInv'
    BY <1>3 DEF Single!init, Single!Create, Single!New, Single!SingletonAssumption
  <1>4. ASSUME NEW t \in Threads, Single!Delete(t) \/ Single!Reset(t)
        PROVE  Single!TypeOK' /\ Single!CallsInv'
    BY <1>4 DEF Single!Delete, Single!Reset
  <1> QED
    BY <1>1, <1>2, <1>3, <1>4 DEF Single!Next

\* sington: however the calls overlap, pthread_once makes one instance, and
\* the lazy variant hands out no null pointer until somebody destroys it.
THEOREM OnceMakesOne == Single!SingletonAssumption => (Single!Spec => []OneInstance)
  <1> SUFFICES ASSUME Single!SingletonAssumption PROVE Single!Spec => []Single!Inv
    BY DEF OneInstance
  <1>1. Single!TypeOK /\ Single!CallsInv => Single!Inv
    BY DEF Single!TypeOK, Single!CallsInv, Single!Inv, Single!OneInstance
  <1> QED
    BY <1>1, SingleInit, SingleNext, PTL DEF Single!Spec

(* ObjectPool                                                              *)

\* A queue of distinct objects; a new one is put behind it.
Distinct(s) == \A i, j \in 1..Len(s) : s[i] = s[j] => i = j

LEMMA NumbersFacts ==
  ASSUME NEW first \in Nat \ {0}, NEW end \in Nat, first <= end + 1
  PROVE  /\ Pool!Numbers(first, end) \in Seq(Nat)
         /\ Len(Pool!Numbers(first, end)) = end - first + 1
         /\ Distinct(Pool!Numbers(first, end))
         /\ Pool!ToSet(Pool!Numbers(first, end)) = first..end
  <1> DEFINE s == Pool!Numbers(first, end)
             n == end - first + 1
  <1>0. n \in Nat
    OBVIOUS
  <1>1. s = [i \in 1..n |-> first + i - 1]
    BY DEF Pool!Numbers
  <1>2. \A i \in 1..n : first + i - 1 \in first..end /\ first + i - 1 \in Nat
    OBVIOUS
  <1>3. s \in Seq(Nat) /\ Len(s) = n /\ DOMAIN s = 1..n
    BY <1>0, <1>1, <1>2
  <1>4. Distinct(s)
    BY <1>0, <1>1, <1>3 DEF Distinct
  <1>5. Pool!ToSet(s) = first..end
    <2>1. ASSUME NEW x \in first..end PROVE x \in Pool!ToSet(s)
      <3>1. x - first + 1 \in 1..n /\ s[x - first + 1] = x
        BY <1>1
      <3> QED
        BY <1>3, <3>1 DEF Pool!ToSet
    <2>2. Pool!ToSet(s) \subseteq first..end
      BY <1>1, <1>2, <1>3 DEF Pool!ToSet
    <2> QED
      BY <2>1, <2>2
  <1> QED
    BY <1>3, <1>4, <1>5

LEMMA JoinFacts ==
  ASSUME NEW s \in Seq(Nat), NEW t \in Seq(Nat), Distinct(s), Distinct(t),
         Pool!ToSet(s) \cap Pool!ToSet(t) = {}
  PROVE  /\ s \o t \in Seq(Nat)
         /\ Distinct(s \o t)
         /\ Pool!ToSet(s \o t) = Pool!ToSet(s) \cup Pool!ToSet(t)
  <1>1. /\ Len(s) \in Nat /\ Len(t) \in Nat /\ Len(s \o t) = Len(s) + Len(t)
        /\ \A i \in 1..(Len(s) + Len(t)) :
             (s \o t)[i] = IF i <= Len(s) THEN s[i] ELSE t[i - Len(s)]
        /\ DOMAIN (s \o t) = 1..(Len(s) + Len(t))
        /\ DOMAIN s = 1..Len(s) /\ DOMAIN t = 1..Len(t)
    OBVIOUS
  <1>2. s \o t \in Seq(Nat)
    OBVIOUS
  <1>3. \A i \in 1..Len(s), j \in 1..Len(t) : s[i] # t[j]
    BY <1>1 DEF Pool!ToSet
  <1>4. Distinct(s \o t)
    <2> SUFFICES ASSUME NEW i \in 1..(Len(s) + Len(t)), NEW j \in 1..(Len(s) + Len(t)),
                        (s \o t)[i] = (s \o t)[j]
                 PROVE  i = j
      BY <1>1 DEF Distinct
    <2>1. \A k \in 1..(Len(s) + Len(t)) : k > Len(s) => k - Len(s) \in 1..Len(t)
      BY <1>1
    <2> QED
      BY <1>1, <1>3, <2>1 DEF Distinct
  <1>5. Pool!ToSet(s \o t) = Pool!ToSet(s) \cup Pool!ToSet(t)
    <2>1. \A j \in 1..Len(t) : j + Len(s) \in 1..(Len(s) + Len(t)) /\ (s \o t)[j + Len(s)] = t[j]
      BY <1>1
    <2>2. \A i \in 1..Len(s) : i \in 1..(Len(s) + Len(t)) /\ (s \o t)[i] = s[i]
      BY <1>1
    <2>3. Pool!ToSet(s) \cup Pool!ToSet(t) \subseteq Pool!ToSet(s \o t)
      <3>1. Pool!ToSet(s) \subseteq Pool!ToSet(s \o t)
        BY <1>1, <2>2 DEF Pool!ToSet
      <3>2. Pool!ToSet(t) \subseteq Pool!ToSet(s \o t)
        <4> SUFFICES ASSUME NEW j \in 1..Len(t) PROVE t[j] \in Pool!ToSet(s \o t)
          BY <1>1 DEF Pool!ToSet
        <4>1. j + Len(s) \in DOMAIN (s \o t) /\ (s \o t)[j + Len(s)] = t[j]
          BY <1>1, <2>1
        <4> QED
          BY <4>1 DEF Pool!ToSet
      <3> QED
        BY <3>1, <3>2
    <2>4. \A k \in 1..(Len(s) + Len(t)) : k > Len(s) => k - Len(s) \in 1..Len(t)
      BY <1>1
    <2>5. Pool!ToSet(s \o t) \subseteq Pool!ToSet(s) \cup Pool!ToSet(t)
      BY <1>1, <2>4 DEF Pool!ToSet
    <2> QED
      BY <2>3, <2>5
  <1> QED
    BY <1>2, <1>4, <1>5

LEMMA TakeFirst ==
  ASSUME NEW s \in Seq(Nat), s # <<>>, Distinct(s)
  PROVE  /\ Tail(s) \in Seq(Nat) /\ Distinct(Tail(s)) /\ Head(s) \in Nat
         /\ Pool!ToSet(Tail(s)) = Pool!ToSet(s) \ {Head(s)} /\ Head(s) \in Pool!ToSet(s)
  <1>1. /\ Len(s) \in Nat \ {0} /\ Tail(s) \in Seq(Nat) /\ Len(Tail(s)) = Len(s) - 1
        /\ \A i \in 1..(Len(s) - 1) : Tail(s)[i] = s[i + 1]
        /\ DOMAIN s = 1..Len(s) /\ DOMAIN Tail(s) = 1..(Len(s) - 1)
        /\ Head(s) = s[1]
    OBVIOUS
  <1>2. \A i \in 1..(Len(s) - 1) : i + 1 \in 1..Len(s) /\ i + 1 # 1
    BY <1>1
  <1>3. Distinct(Tail(s))
    BY <1>1, <1>2 DEF Distinct
  <1>4. \A k \in 1..Len(s) : k # 1 => k - 1 \in 1..(Len(s) - 1) /\ Tail(s)[k - 1] = s[k]
    BY <1>1
  <1>5. Pool!ToSet(Tail(s)) = Pool!ToSet(s) \ {Head(s)}
    <2>1. Pool!ToSet(Tail(s)) \subseteq Pool!ToSet(s) \ {Head(s)}
      BY <1>1, <1>2 DEF Pool!ToSet, Distinct
    <2>2. Pool!ToSet(s) \ {Head(s)} \subseteq Pool!ToSet(Tail(s))
      <3> SUFFICES ASSUME NEW k \in 1..Len(s), s[k] # Head(s) PROVE s[k] \in Pool!ToSet(Tail(s))
        BY <1>1 DEF Pool!ToSet
      <3>1. k - 1 \in DOMAIN Tail(s) /\ Tail(s)[k - 1] = s[k]
        BY <1>1, <1>4
      <3> QED
        BY <3>1 DEF Pool!ToSet
    <2> QED
      BY <2>1, <2>2
  <1>6. Head(s) \in Pool!ToSet(s) /\ Head(s) \in Nat
    BY <1>1 DEF Pool!ToSet
  <1> QED
    BY <1>1, <1>3, <1>5, <1>6

LEMMA OInit == Pool!PoolAssumption /\ Pool!Init => Pool!Inv
  BY DEF Pool!PoolAssumption, Pool!Init, Pool!Inv, Pool!TypeOK, Pool!PoolAccounts

\* One object is put behind a queue that does not have it.
LEMMA PutBehind ==
  ASSUME NEW s \in Seq(Nat), Distinct(s), NEW o \in Nat, o \notin Pool!ToSet(s)
  PROVE  /\ Append(s, o) \in Seq(Nat) /\ Distinct(Append(s, o))
         /\ Pool!ToSet(Append(s, o)) = Pool!ToSet(s) \cup {o}
  <1>1. /\ <<o>> \in Seq(Nat) /\ Len(<<o>>) = 1 /\ DOMAIN <<o>> = 1..1 /\ <<o>>[1] = o
    OBVIOUS
  <1>2. Distinct(<<o>>)
    BY <1>1 DEF Distinct
  <1>3. Pool!ToSet(<<o>>) = {o}
    BY <1>1 DEF Pool!ToSet
  <1>4. Append(s, o) = s \o <<o>>
    BY <1>1, AppendIsConcat
  <1>5. Pool!ToSet(s) \cap Pool!ToSet(<<o>>) = {}
    BY <1>3
  <1>6. /\ s \o <<o>> \in Seq(Nat) /\ Distinct(s \o <<o>>)
        /\ Pool!ToSet(s \o <<o>>) = Pool!ToSet(s) \cup Pool!ToSet(<<o>>)
    BY <1>1, <1>2, <1>5, JoinFacts
  <1> QED
    BY <1>3, <1>4, <1>6

\* FiniteSets, as ObjectPool sees it, is FiniteSets.
LEMMA PoolCounting ==
  /\ \A X : Pool!IsFiniteSet(X) = IsFiniteSet(X) /\ Pool!Cardinality(X) = Cardinality(X)
  /\ Pool!Cardinality({}) = 0
  <1>1. \A X : Pool!IsFiniteSet(X) = IsFiniteSet(X)
    BY DEF Pool!IsFiniteSet, IsFiniteSet
  <1>2. \A X : Pool!Cardinality(X) = Cardinality(X)
    BY DEF Pool!Cardinality, Cardinality, Pool!IsFiniteSet, IsFiniteSet
  <1> QED
    BY <1>1, <1>2, FS_EmptySet

\* Counting the objects lost: one more than before at most, and never more
\* than there are.
LEMMA LostCount ==
  ASSUME NEW n \in Nat, NEW A \in SUBSET (1..n), NEW m \in Nat, NEW B \in SUBSET (1..m)
  PROVE  /\ Pool!Cardinality(A) \in Nat /\ Pool!Cardinality(A) <= n
         /\ B \subseteq A => Pool!Cardinality(B) <= Pool!Cardinality(A)
         /\ \A x : B \subseteq A \cup {x} => Pool!Cardinality(B) <= Pool!Cardinality(A) + 1
  <1>2. \A X : Pool!Cardinality(X) = Cardinality(X)
    BY PoolCounting
  <1>3. /\ IsFiniteSet(1..n) /\ Cardinality(1..n) = n
    BY FS_Interval
  <1>4. IsFiniteSet(A) /\ Cardinality(A) \in Nat /\ Cardinality(A) <= n
    BY <1>3, FS_Subset, FS_CardinalityType
  <1>5. ASSUME NEW x, B \subseteq A \cup {x} PROVE Cardinality(B) <= Cardinality(A) + 1
    <2>1. /\ IsFiniteSet(A \cup {x})
          /\ Cardinality(A \cup {x}) = IF x \in A THEN Cardinality(A) ELSE Cardinality(A) + 1
      BY <1>4, FS_AddElement
    <2>2. Cardinality(B) <= Cardinality(A \cup {x}) /\ IsFiniteSet(B)
      BY <1>5, <2>1, FS_Subset
    <2>3. Cardinality(B) \in Nat
      BY <2>2, FS_CardinalityType
    <2> QED
      BY <1>4, <2>1, <2>2, <2>3
  <1>6. B \subseteq A => Cardinality(B) <= Cardinality(A)
    BY <1>4, FS_Subset
  <1> QED
    BY <1>2, <1>4, <1>5, <1>6

\* What a call may do to a pool: its queue keeps distinct objects that nobody
\* holds; with no exception (thrown = 0) no object is lost, with one only one.
Hides(c, x) == c - (DefaultSize + x)
Alright(q, h, c, x, cap, thrown) ==
  /\ c \in created..MaxObjects /\ x \in Nat /\ cap \in Nat /\ thrown \in {0, 1}
  /\ q \in Seq(Nat) /\ Distinct(q) /\ Pool!ToSet(q) \subseteq 1..c
  /\ h \in SUBSET (1..c) /\ Pool!ToSet(q) \cap h = {}
  /\ thrown = 0 => (1..c) \ (Pool!ToSet(q) \cup h) \subseteq Pool!Lost
  /\ \E o : (1..c) \ (Pool!ToSet(q) \cup h) \subseteq Pool!Lost \cup {o}
  /\ cap <= DefaultSize + x /\ Hides(c, x) \in Nat
  /\ Hides(c, x) <= Hides(created, extended) + thrown

LEMMA HidesBound ==
  ASSUME NEW c \in Nat, NEW x \in Nat, NEW m \in Nat, c <= m, DefaultSize \in Nat
  PROVE  Hides(c, x) <= m
  BY DEF Hides

\* A living pool's accounts, with its facts in one place.
LEMMA PoolFacts ==
  ASSUME Pool!PoolAssumption, Pool!Inv, state = "live"
  PROVE  /\ DefaultSize \in Nat /\ ExtendSize \in Nat \ {0} /\ MaxObjects \in Nat
         /\ created \in Nat /\ created <= MaxObjects /\ extended \in Nat
         /\ capacity \in Nat /\ capacity <= DefaultSize + extended
         /\ queue \in Seq(Nat) /\ Distinct(queue) /\ Pool!ToSet(queue) \subseteq 1..created
         /\ held \in SUBSET (1..created) /\ Pool!ToSet(queue) \cap held = {}
         /\ throws \in 0..MaxObjects /\ Pool!Cardinality(Pool!Lost) <= throws
         /\ Hides(created, extended) \in Nat /\ Hides(created, extended) <= throws
         /\ Pool!Lost \in SUBSET (1..created)
  BY DEF Pool!PoolAssumption, Pool!Inv, Pool!TypeOK, Pool!PoolAccounts, Pool!Lost, Distinct,
     Pool!Hidden, Hides

\* A call that does only that keeps the accounts.
LEMMA AccountsKept ==
  ASSUME Pool!PoolAssumption, Pool!Inv, state = "live", state' = "live", NEW thrown,
         Alright(queue', held', created', extended', capacity', thrown),
         throws' = IF throws + thrown <= MaxObjects THEN throws + thrown ELSE MaxObjects
  PROVE  Pool!Inv'
  <1>0. /\ DefaultSize \in Nat /\ MaxObjects \in Nat
        /\ created \in Nat /\ created <= MaxObjects /\ extended \in Nat
        /\ throws \in 0..MaxObjects /\ Pool!Cardinality(Pool!Lost) <= throws
        /\ Hides(created, extended) \in Nat /\ Hides(created, extended) <= throws
        /\ Pool!Lost \in SUBSET (1..created)
    BY PoolFacts
  <1>a. /\ created' \in created..MaxObjects /\ extended' \in Nat /\ capacity' \in Nat
        /\ thrown \in {0, 1}
        /\ queue' \in Seq(Nat) /\ Distinct(queue') /\ Pool!ToSet(queue') \subseteq 1..created'
        /\ held' \in SUBSET (1..created') /\ Pool!ToSet(queue') \cap held' = {}
        /\ capacity' <= DefaultSize + extended' /\ Hides(created', extended') \in Nat
        /\ Hides(created', extended') <= Hides(created, extended) + thrown
    BY DEF Alright
  <1>1. created' \in 0..MaxObjects /\ created' \in Nat /\ throws' \in 0..MaxObjects
    BY <1>0, <1>a
  <1>2. /\ Pool!Lost' = (1..created') \ (Pool!ToSet(queue') \cup held')
        /\ thrown = 0 => Pool!Lost' \subseteq Pool!Lost
        /\ \E o : Pool!Lost' \subseteq Pool!Lost \cup {o}
    BY DEF Alright, Pool!Lost, Pool!ToSet
  <1>3. /\ Pool!Cardinality(Pool!Lost) \in Nat /\ Pool!Cardinality(Pool!Lost') \in Nat
        /\ Pool!Cardinality(Pool!Lost') <= created'
        /\ thrown = 0 => Pool!Cardinality(Pool!Lost') <= Pool!Cardinality(Pool!Lost)
        /\ Pool!Cardinality(Pool!Lost') <= Pool!Cardinality(Pool!Lost) + 1
    <2>1. Pool!Lost' \in SUBSET (1..created')
      BY <1>2
    <2>2. PICK o : Pool!Lost' \subseteq Pool!Lost \cup {o}
      BY <1>2
    <2> QED
      BY <1>0, <1>1, <1>2, <2>1, <2>2, LostCount
  <1>4. Pool!Cardinality(Pool!Lost') <= throws'
    <2>1. throws' = throws + thrown \/ throws' = MaxObjects
      OBVIOUS
    <2>2. CASE throws' = throws + thrown
      BY <1>0, <1>a, <1>3, <2>2
    <2>3. CASE throws' = MaxObjects
      <3>1. created' <= MaxObjects
        BY <1>0, <1>1
      <3> QED
        BY <1>0, <1>1, <1>3, <2>3, <3>1
    <2> QED
      BY <2>1, <2>2, <2>3
  <1>5. Pool!Hidden' \in 0..throws'
    <2>1. throws' = throws + thrown \/ throws' = MaxObjects
      OBVIOUS
    <2>2. Hides(created', extended') <= MaxObjects
      <3>1. created' \in Nat /\ extended' \in Nat /\ created' <= MaxObjects
        BY <1>0, <1>a, <1>1
      <3>2. MaxObjects \in Nat /\ DefaultSize \in Nat
        BY <1>0
      <3> QED
        BY <3>1, <3>2, HidesBound
    <2>3. Hides(created', extended') <= throws'
      BY <1>0, <1>a, <1>1, <2>1, <2>2
    <2>4. Pool!Hidden' = Hides(created', extended')
      BY DEF Pool!Hidden, Hides
    <2> QED
      BY <1>0, <1>a, <1>1, <2>3, <2>4
  <1>6. Pool!TypeOK'
    BY <1>a, <1>1 DEF Pool!TypeOK
  <1>7. Pool!PoolAccounts'
    BY <1>a, <1>4, <1>5 DEF Pool!PoolAccounts, Pool!ToSet, Distinct
  <1> QED
    BY <1>6, <1>7 DEF Pool!Inv

\* The extension of a pool, or none, does what it may.
Extension(e) ==
  /\ e = [queue |-> e.queue, created |-> e.created, extended |-> e.extended,
          capacity |-> e.capacity, thrown |-> e.thrown]
  /\ Alright(e.queue, held, e.created, e.extended, e.capacity, e.thrown)

LEMMA UnextendedFacts ==
  ASSUME Pool!PoolAssumption, Pool!Inv, state = "live"
  PROVE  Extension(Pool!Unextended)
  BY PoolFacts DEF Extension, Alright, Pool!Unextended, Pool!Lost

\* The numbers that n rounds put into the queue, and the one they may lose.
LEMMA RoundsFacts ==
  ASSUME Pool!PoolAssumption, Pool!Inv, state = "live",
         NEW n \in Nat, NEW fails \in {"none", "new", "list", "queue", "initializer"},
         fails \in {"list", "queue", "initializer"} => n > 0,
         created + n <= MaxObjects,
         NEW e, e = Pool!Rounds(n, fails)
  PROVE  Extension(e) /\ (n > 0 /\ e.thrown = 0 => e.queue # <<>>)
  <1>0. /\ DefaultSize \in Nat /\ MaxObjects \in Nat
        /\ created \in Nat /\ created <= MaxObjects /\ extended \in Nat
        /\ capacity \in Nat /\ capacity <= DefaultSize + extended
        /\ queue \in Seq(Nat) /\ Distinct(queue) /\ Pool!ToSet(queue) \subseteq 1..created
        /\ held \in SUBSET (1..created) /\ Pool!ToSet(queue) \cap held = {}
        /\ Hides(created, extended) \in Nat
    BY PoolFacts
  <1> DEFINE end  == created + (IF fails \in {"list", "queue"} THEN n - 1 ELSE n)
             more == Pool!Numbers(created + 1, end)
             q    == queue \o more
             m    == created + n
  <1>1. /\ end \in Nat /\ created <= end /\ m \in Nat /\ m \in created..MaxObjects
        /\ end = m \/ end + 1 = m
        /\ fails = "none" => end = m
        /\ created + 1 \in Nat \ {0} /\ created + 1 <= end + 1
    BY <1>0
  <1>2. e = [queue |-> q, created |-> m,
             extended |-> extended + (IF fails = "list" THEN n - 1 ELSE n),
             capacity |-> IF fails = "none" THEN DefaultSize + extended + n ELSE capacity,
             thrown |-> IF fails = "none" THEN 0 ELSE 1]
    BY DEF Pool!Rounds
  <1>3. /\ e.queue = q /\ e.created = m /\ e.extended \in Nat /\ e.capacity \in Nat
        /\ e.thrown \in {0, 1} /\ (e.thrown = 0 <=> fails = "none")
        /\ e.capacity <= DefaultSize + e.extended
        /\ e = [queue |-> e.queue, created |-> e.created, extended |-> e.extended,
                capacity |-> e.capacity, thrown |-> e.thrown]
    <2> HIDE DEF q, end
    <2> QED
      BY <1>0, <1>2
  <1>11. /\ Hides(m, e.extended) \in Nat
         /\ Hides(m, e.extended) <= Hides(created, extended) + e.thrown
    <2> HIDE DEF q, end
    <2>1. \/ e.extended = extended + n
          \/ fails = "list" /\ n > 0 /\ e.thrown = 1 /\ e.extended = extended + (n - 1)
      BY <1>2
    <2>2. CASE e.extended = extended + n
      <3>1. Hides(m, e.extended) = Hides(created, extended)
        BY <1>0, <2>2 DEF Hides, m
      <3> QED
        BY <1>0, <1>3, <3>1
    <2>3. CASE n > 0 /\ e.thrown = 1 /\ e.extended = extended + (n - 1)
      <3>1. Hides(m, e.extended) = Hides(created, extended) + 1
        BY <1>0, <2>3 DEF Hides, m
      <3> QED
        BY <1>0, <2>3, <3>1
    <2> QED
      BY <2>1, <2>2, <2>3
  <1> HIDE DEF end, m
  <1>4. /\ more \in Seq(Nat) /\ Distinct(more) /\ Pool!ToSet(more) = (created + 1)..end
    BY <1>1, NumbersFacts
  <1> HIDE DEF more
  <1>5. Pool!ToSet(queue) \cap Pool!ToSet(more) = {}
    BY <1>0, <1>1, <1>4
  <1>6. /\ q \in Seq(Nat) /\ Distinct(q)
        /\ Pool!ToSet(q) = Pool!ToSet(queue) \cup (created + 1)..end
    BY <1>0, <1>4, <1>5, JoinFacts
  <1> HIDE DEF q
  <1>7. /\ Pool!ToSet(q) \subseteq 1..m /\ Pool!ToSet(q) \cap held = {}
        /\ held \in SUBSET (1..m)
    BY <1>0, <1>1, <1>6
  <1>8. /\ (1..m) \ (Pool!ToSet(q) \cup held) \subseteq Pool!Lost \cup {m}
        /\ fails = "none" => (1..m) \ (Pool!ToSet(q) \cup held) \subseteq Pool!Lost
    BY <1>0, <1>1, <1>6 DEF Pool!Lost
  <1>9. Alright(q, held, m, e.extended, e.capacity, e.thrown)
    BY <1>1, <1>3, <1>6, <1>7, <1>8, <1>11 DEF Alright
  <1>10. n > 0 /\ fails = "none" => q # <<>>
    <2> SUFFICES ASSUME n > 0, fails = "none", q = <<>> PROVE FALSE
      OBVIOUS
    <2>1. created + 1 \in Pool!ToSet(q)
      BY <1>0, <1>1, <1>6 DEF m
    <2> QED
      BY <2>1 DEF Pool!ToSet
  <1> QED
    BY <1>3, <1>9, <1>10 DEF Extension

LEMMA ExtendedFacts ==
  ASSUME Pool!PoolAssumption, Pool!Inv, state = "live", NEW num \in Nat \ {0},
         NEW e \in Pool!Extended(num)
  PROVE  Extension(e) /\ (e.thrown = 1 \/ e.queue # <<>>)
  <1>0. created \in Nat /\ MaxObjects \in Nat
    BY PoolFacts
  <1>1. PICK n \in 0..num, fails \in {"none", "new", "list", "queue", "initializer"} :
          /\ e = Pool!Rounds(n, fails)
          /\ fails \in {"list", "queue", "initializer"} => n > 0
          /\ fails = "none" => n = num
    BY DEF Pool!Extended, Pool!Outcomes
  <1>2. e.created = created + n /\ e.thrown = IF fails = "none" THEN 0 ELSE 1
    BY <1>1 DEF Pool!Rounds
  <1>3. created + n <= MaxObjects
    BY <1>2 DEF Pool!Extended
  <1>4. Extension(e) /\ (n > 0 /\ e.thrown = 0 => e.queue # <<>>)
    BY <1>1, <1>3, RoundsFacts
  <1> QED
    BY <1>1, <1>2, <1>4

\* Storing an extension, with whoever holds what.
LEMMA StoreKeeps ==
  ASSUME Pool!PoolAssumption, Pool!Inv, state = "live", state' = "live",
         NEW e, Pool!Store(e),
         Alright(e.queue, held', e.created, e.extended, e.capacity, e.thrown)
  PROVE  Pool!Inv'
  BY AccountsKept DEF Pool!Store

LEMMA GetKeeps ==
  ASSUME Pool!PoolAssumption, Pool!Inv, Pool!Get
  PROVE  Pool!Inv'
  <1>0. state = "live" /\ state' = "live"
    BY DEF Pool!Get
  <1>1. PICK e \in IF queue = <<>> THEN Pool!Extended(ExtendSize) ELSE {Pool!Unextended} :
          LET taken == Head(e.queue)
              rest  == [e EXCEPT !.queue = Tail(@)]
          IN  \/ e.thrown = 1 /\ Pool!Store(e) /\ UNCHANGED held
              \/ e.thrown = 0 /\ Pool!Store(rest) /\ held' = held \cup {taken}
              \/ e.thrown = 0 /\ Pool!Store([rest EXCEPT !.thrown = 1]) /\ UNCHANGED held
              \/ /\ e.thrown = 0
                 /\ Pool!Store([rest EXCEPT !.thrown = 1, !.queue = Append(@, taken)])
                 /\ UNCHANGED held
    BY DEF Pool!Get
  <1>2. Extension(e) /\ (e.thrown = 1 \/ e.queue # <<>>)
    <2>1. CASE queue = <<>>
      <3>1. e \in Pool!Extended(ExtendSize) /\ ExtendSize \in Nat \ {0}
        BY <1>1, <2>1 DEF Pool!PoolAssumption
      <3> QED
        BY <1>0, <3>1, ExtendedFacts
    <2>2. CASE queue # <<>>
      <3>1. e = Pool!Unextended /\ Pool!Unextended.queue = queue
        BY <1>1, <2>2 DEF Pool!Unextended
      <3> QED
        BY <1>0, <2>2, <3>1, UnextendedFacts
    <2> QED
      BY <2>1, <2>2
  <1>3. CASE e.thrown = 1 /\ Pool!Store(e) /\ UNCHANGED held
    <2>1. Alright(e.queue, held', e.created, e.extended, e.capacity, e.thrown)
      BY <1>2, <1>3 DEF Extension
    <2> QED
      BY <1>0, <1>3, <2>1, StoreKeeps
  <1>4. CASE e.thrown = 0
    <2> DEFINE q == e.queue
               c == e.created
               x == e.extended
               cap == e.capacity
               taken == Head(q)
               back == Append(Tail(q), taken)
    <2>1. /\ q \in Seq(Nat) /\ q # <<>> /\ Distinct(q) /\ Pool!ToSet(q) \subseteq 1..c
          /\ c \in created..MaxObjects /\ x \in Nat /\ cap \in Nat
          /\ held \in SUBSET (1..c) /\ Pool!ToSet(q) \cap held = {}
          /\ (1..c) \ (Pool!ToSet(q) \cup held) \subseteq Pool!Lost
          /\ cap <= DefaultSize + x /\ Hides(c, x) \in Nat
          /\ Hides(created, extended) \in Nat /\ Hides(c, x) <= Hides(created, extended)
      <3>1. Hides(created, extended) \in Nat
        BY <1>0, PoolFacts
      <3> QED
        BY <1>2, <1>4, <3>1 DEF Extension, Alright
    <2>2. /\ Tail(q) \in Seq(Nat) /\ Distinct(Tail(q)) /\ taken \in Nat
          /\ Pool!ToSet(Tail(q)) = Pool!ToSet(q) \ {taken} /\ taken \in Pool!ToSet(q)
      BY <2>1, TakeFirst
    <2>3. /\ back \in Seq(Nat) /\ Distinct(back)
          /\ Pool!ToSet(back) = Pool!ToSet(Tail(q)) \cup {taken}
      BY <2>2, PutBehind
    <2>4. /\ Alright(Tail(q), held \cup {taken}, c, x, cap, 0)
          /\ Alright(Tail(q), held, c, x, cap, 1)
          /\ Alright(back, held, c, x, cap, 1)
      <3> HIDE DEF q, c, x, cap, taken, back
      <3>2. /\ Pool!ToSet(back) = Pool!ToSet(q)
            /\ Pool!ToSet(Tail(q)) \cup (held \cup {taken}) = Pool!ToSet(q) \cup held
            /\ (1..c) \ (Pool!ToSet(Tail(q)) \cup held) \subseteq Pool!Lost \cup {taken}
            /\ (1..c) \ (Pool!ToSet(q) \cup held) \subseteq Pool!Lost \cup {taken}
            /\ held \cup {taken} \in SUBSET (1..c)
            /\ Pool!ToSet(Tail(q)) \cap (held \cup {taken}) = {}
            /\ Pool!ToSet(Tail(q)) \subseteq 1..c /\ Pool!ToSet(Tail(q)) \cap held = {}
        BY <2>1, <2>2, <2>3
      <3>3. /\ Hides(c, x) <= Hides(created, extended) + 0
            /\ Hides(c, x) <= Hides(created, extended) + 1
        BY <2>1
      <3>4. Alright(Tail(q), held \cup {taken}, c, x, cap, 0)
        <4>1. /\ (1..c) \ (Pool!ToSet(Tail(q)) \cup (held \cup {taken})) \subseteq Pool!Lost
              /\ \E o : (1..c) \ (Pool!ToSet(Tail(q)) \cup (held \cup {taken}))
                         \subseteq Pool!Lost \cup {o}
          BY <2>1, <3>2
        <4> QED
          BY <2>1, <2>2, <3>2, <3>3, <4>1 DEF Alright
      <3>5. Alright(Tail(q), held, c, x, cap, 1)
        <4>2. 1 \in {0, 1} /\ 1 # 0
          OBVIOUS
        <4>1. \E o : (1..c) \ (Pool!ToSet(Tail(q)) \cup held) \subseteq Pool!Lost \cup {o}
          BY <3>2
        <4> QED
          BY <2>1, <2>2, <3>2, <3>3, <4>1, <4>2 DEF Alright
      <3>6. Alright(back, held, c, x, cap, 1)
        <4>1. \E o : (1..c) \ (Pool!ToSet(back) \cup held) \subseteq Pool!Lost \cup {o}
          BY <3>2
        <4> QED
          BY <2>1, <2>3, <3>2, <3>3, <4>1 DEF Alright
      <3> QED
        BY <3>4, <3>5, <3>6
    <2>5. e = [queue |-> q, created |-> c, extended |-> x, capacity |-> cap, thrown |-> 0]
      BY <1>2, <1>4 DEF Extension
    <2> HIDE DEF q, c, x, cap, taken, back
    <2>6. CASE held' = held \cup {taken} /\ Pool!Store([e EXCEPT !.queue = Tail(q)])
      <3> DEFINE r == [e EXCEPT !.queue = Tail(q)]
      <3>1. /\ r.queue = Tail(q) /\ r.created = c /\ r.extended = x /\ r.capacity = cap
            /\ r.thrown = 0
        BY <2>5
      <3>2. Alright(r.queue, held', r.created, r.extended, r.capacity, r.thrown)
        BY <2>4, <2>6, <3>1
      <3>3. Pool!Store(r)
        BY <2>6
      <3> HIDE DEF r
      <3> QED
        BY <1>0, <3>2, <3>3, StoreKeeps
    <2>7. CASE held' = held /\ Pool!Store([[e EXCEPT !.queue = Tail(q)] EXCEPT !.thrown = 1])
      <3> DEFINE r == [[e EXCEPT !.queue = Tail(q)] EXCEPT !.thrown = 1]
      <3>1. /\ r.queue = Tail(q) /\ r.created = c /\ r.extended = x /\ r.capacity = cap
            /\ r.thrown = 1
        BY <2>5
      <3>2. Alright(r.queue, held', r.created, r.extended, r.capacity, r.thrown)
        BY <2>4, <2>7, <3>1
      <3>3. Pool!Store(r)
        BY <2>7
      <3> HIDE DEF r
      <3> QED
        BY <1>0, <3>2, <3>3, StoreKeeps
    <2>8. CASE /\ held' = held
               /\ Pool!Store([[e EXCEPT !.queue = Tail(q)]
                              EXCEPT !.thrown = 1, !.queue = Append(@, taken)])
      <3> DEFINE r == [[e EXCEPT !.queue = Tail(q)] EXCEPT !.thrown = 1, !.queue = Append(@, taken)]
      <3>1. /\ r.queue = back /\ r.created = c /\ r.extended = x /\ r.capacity = cap
            /\ r.thrown = 1
        BY <2>5 DEF back
      <3>2. Alright(r.queue, held', r.created, r.extended, r.capacity, r.thrown)
        BY <2>4, <2>8, <3>1
      <3>3. Pool!Store(r)
        BY <2>8
      <3> HIDE DEF r
      <3> QED
        BY <1>0, <3>2, <3>3, StoreKeeps
    <2> QED
      BY <1>1, <1>4, <2>6, <2>7, <2>8 DEF q, taken
  <1> QED
    BY <1>1, <1>3, <1>4

LEMMA CapacityKeeps ==
  ASSUME Pool!PoolAssumption, Pool!Inv, NEW c \in Nat, Pool!set_capacity(c)
  PROVE  Pool!Inv'
  <1>0. state = "live" /\ state' = "live" /\ held' = held
    BY DEF Pool!set_capacity
  <1>1. PICK e \in IF capacity < c THEN Pool!Extended(c - capacity) ELSE {Pool!Unextended} :
          Pool!Store(e)
    BY DEF Pool!set_capacity
  <1>2. Extension(e)
    <2>1. CASE capacity < c
      <3>1. c - capacity \in Nat \ {0}
        BY <1>0, <2>1, PoolFacts
      <3> QED
        BY <1>0, <1>1, <2>1, <3>1, ExtendedFacts
    <2>2. CASE ~(capacity < c)
      BY <1>0, <1>1, <2>2, UnextendedFacts
    <2> QED
      BY <2>1, <2>2
  <1>3. Alright(e.queue, held', e.created, e.extended, e.capacity, e.thrown)
    BY <1>0, <1>2 DEF Extension
  <1> QED
    BY <1>0, <1>1, <1>3, StoreKeeps

LEMMA ReleaseKeeps ==
  ASSUME Pool!PoolAssumption, Pool!Inv, NEW o, Pool!Release(o)
  PROVE  Pool!Inv'
  <1>1. CASE state = "live" /\ queue' = Append(queue, o) /\ UNCHANGED state
    <2>0. /\ state' = "live" /\ created' = created /\ extended' = extended
          /\ capacity' = capacity /\ throws' = throws
          /\ held' = held \ {o} /\ o \in held
      BY <1>1 DEF Pool!Release
    <2>1. o \in Nat /\ o \in 1..created /\ o \notin Pool!ToSet(queue)
      BY <1>1, <2>0, PoolFacts
    <2>2. /\ queue' \in Seq(Nat) /\ Distinct(queue')
          /\ Pool!ToSet(queue') = Pool!ToSet(queue) \cup {o}
      BY <1>1, <2>1, PoolFacts, PutBehind
    <2>3. /\ created \in created..MaxObjects /\ extended \in Nat /\ capacity \in Nat
          /\ Pool!ToSet(queue) \subseteq 1..created 
          /\ held \in SUBSET (1..created) /\ Pool!ToSet(queue) \cap held = {}
          /\ capacity <= DefaultSize + extended /\ Hides(created, extended) \in Nat
          /\ Hides(created, extended) <= Hides(created, extended) + 0
          /\ throws \in 0..MaxObjects /\ MaxObjects \in Nat
      BY <1>1, PoolFacts
    <2>4. Alright(queue', held', created, extended, capacity, 0)
      <3>1. /\ Pool!ToSet(queue') \cup held' = Pool!ToSet(queue) \cup held
            /\ (1..created) \ (Pool!ToSet(queue) \cup held) = Pool!Lost
        BY <2>0, <2>2 DEF Pool!Lost
      <3>2. /\ Pool!ToSet(queue') \subseteq 1..created /\ held' \in SUBSET (1..created)
            /\ Pool!ToSet(queue') \cap held' = {}
        BY <2>0, <2>1, <2>2, <2>3
      <3> QED
        BY <2>2, <2>3, <3>1, <3>2 DEF Alright
    <2>5. throws' = IF throws + 0 <= MaxObjects THEN throws + 0 ELSE MaxObjects
      BY <2>0, <2>3
    <2> DEFINE none == 0
    <2> HIDE DEF none
    <2>6. /\ Alright(queue', held', created', extended', capacity', none)
          /\ throws' = IF throws + none <= MaxObjects THEN throws + none ELSE MaxObjects
      BY <2>0, <2>4, <2>5 DEF none
    <2> QED
      BY <1>1, <2>0, <2>6, AccountsKept
  <1>2. CASE state' # "live"
    <2>1. /\ state' \in {"undefined", "terminated"} /\ queue' = <<>>
          /\ created' = created /\ extended' = extended /\ capacity' = capacity
          /\ throws' = throws /\ held' \subseteq held
      BY <1>2 DEF Pool!Release, Pool!Inv, Pool!TypeOK
    <2>2. Pool!TypeOK'
      BY <2>1 DEF Pool!Inv, Pool!TypeOK
    <2>3. Pool!PoolAccounts'
      BY <2>1 DEF Pool!PoolAccounts
    <2> QED
      BY <2>2, <2>3 DEF Pool!Inv
  <1> QED
    BY <1>1, <1>2 DEF Pool!Release

LEMMA ONext == Pool!PoolAssumption /\ Pool!Inv /\ [Pool!Next]_(Pool!vars) => Pool!Inv'
  <1> SUFFICES ASSUME Pool!PoolAssumption, Pool!Inv, [Pool!Next]_(Pool!vars) PROVE Pool!Inv'
    OBVIOUS
  <1>1. CASE UNCHANGED Pool!vars
    BY <1>1 DEF Pool!vars, Pool!Inv, Pool!TypeOK, Pool!PoolAccounts, Pool!Lost, Pool!Hidden
  <1>2. CASE Pool!Construct
    <2>1. /\ state' = "live" /\ queue' = Pool!Numbers(1, DefaultSize) /\ held' = {}
          /\ created' = DefaultSize /\ capacity' = DefaultSize /\ extended' = 0 /\ throws' = 0
          /\ DefaultSize \in 0..MaxObjects /\ DefaultSize \in Nat
      BY <1>2 DEF Pool!Construct, Pool!PoolAssumption, Pool!Inv, Pool!TypeOK
    <2>2. /\ queue' \in Seq(Nat) /\ Distinct(queue')
          /\ Pool!ToSet(queue') = 1..DefaultSize
      BY <2>1, NumbersFacts DEF Pool!PoolAssumption
    <2>3. Pool!Lost' = {}
      BY <2>1, <2>2 DEF Pool!Lost, Pool!ToSet
    <2>4. Pool!Cardinality(Pool!Lost') <= 0
      BY <2>3, PoolCounting
    <2>5. Pool!TypeOK'
      <3>1. MaxObjects \in Nat
        BY DEF Pool!PoolAssumption
      <3> QED
        BY <2>1, <2>2, <3>1 DEF Pool!TypeOK
    <2>6. Pool!PoolAccounts'
      BY <2>1, <2>2, <2>4 DEF Pool!PoolAccounts, Pool!Hidden, Pool!ToSet, Distinct
    <2> QED
      BY <2>5, <2>6 DEF Pool!Inv
  <1>3. CASE Pool!Destroy
    BY <1>3 DEF Pool!Destroy, Pool!Inv, Pool!TypeOK, Pool!PoolAccounts
  <1>4. ASSUME NEW c \in 1..MaxObjects, Pool!set_capacity(c) PROVE Pool!Inv'
    BY <1>4, CapacityKeeps
  <1> QED
    BY <1>1, <1>2, <1>3, <1>4, GetKeeps, ReleaseKeeps DEF Pool!Next

\* object_pool.h: whatever is taken, put back and extended, every object of a
\* living pool is free once or held, never both, but for one at most that each
\* exception thrown in a call has cost; whichever of the call's allocations,
\* or the initializer, threw it.
THEOREM PoolKeepsAccounts == Pool!PoolAssumption => (Pool!Spec => []PoolAccounts)
  <1> SUFFICES ASSUME Pool!PoolAssumption PROVE Pool!Spec => []Pool!Inv
    BY DEF PoolAccounts
  <1> QED
    BY OInit, ONext, PTL DEF Pool!Spec

(* Functor                                                                 *)

\* Memory is found where there is some.
LEMMA NewCloneFacts ==
  ASSUME Callable!FunctorAssumption, Callable!Fresh # {}
  PROVE  Callable!NewClone \in Callable!Fresh
  <1>1. Callable!Fresh \subseteq Nat
    BY DEF Callable!FunctorAssumption, Callable!Fresh, Callable!Clones
  <1>2. \E c \in Callable!Fresh : \A d \in Callable!Fresh : ~(d < c)
    <2> DEFINE R == OpToRel(<, Nat)
    <2>1. \A a, b \in Nat : a < b => <<a, b>> \in R
      BY DEF OpToRel
    <2>2. IsWellFoundedOn(R, Nat)
      BY NatLessThanWellFounded
    <2> HIDE DEF R
    <2>3. \E c \in Callable!Fresh : \A d \in Callable!Fresh : <<d, c>> \notin R
      BY <1>1, <2>2, WFMin
    <2> QED
      BY <1>1, <2>1, <2>3
  <1>3. \E c \in Callable!Fresh : \A d \in Callable!Fresh : c <= d
    BY <1>1, <1>2
  <1> QED
    BY <1>3 DEF Callable!NewClone

LEMMA FInit == Callable!FunctorAssumption /\ Callable!Init => Callable!Inv
  <1> SUFFICES ASSUME Callable!FunctorAssumption, Callable!Init PROVE Callable!Inv
    OBVIOUS
  <1>1. Callable!Made = {} /\ Callable!Fresh = Callable!Clones /\ Callable!Clones \subseteq Nat \ {0}
    BY DEF Callable!FunctorAssumption, Callable!Init, Callable!Made, Callable!Fresh,
       Callable!Clones
  <1>2. Callable!TypeOK
    <2>1. base \in [Functors -> 0..MaxClones]
      BY DEF Callable!FunctorAssumption, Callable!Init
    <2>2. /\ clone \in [Callable!Clones -> Callables \cup {Callable!None}]
          /\ deletes \in [Callable!Clones -> Nat]
          /\ meant \in [Functors -> Callables \cup {Callable!None}]
      BY DEF Callable!Init
    <2> QED
      BY <2>1, <2>2 DEF Callable!Init, Callable!TypeOK
  <1> QED
    BY <1>1, <1>2 DEF Callable!Init, Callable!Inv, Callable!PointersInv,
       Callable!CallablesOwned

\* A Functor gets a callable of its own, having deleted the old one if it had one.
LEMMA GiveKeeps ==
  ASSUME Callable!FunctorAssumption, Callable!Inv, NEW f \in Functors, f \notin dangling,
         NEW callable \in Callables, Callable!Give(f, callable), UNCHANGED <<dangling, misused>>,
         IF f \in Callable!Made THEN Callable!Delete(f) ELSE deletes' = deletes
  PROVE  Callable!Inv'
  <1> DEFINE n == Callable!NewClone
  <1>0. n \in Callable!Fresh
    BY NewCloneFacts DEF Callable!Give
  <1>1. /\ n \in Callable!Clones /\ clone[n] = Callable!None
        /\ Callable!Clones \subseteq Nat \ {0} /\ Callable!None \notin Callables
    BY <1>0 DEF Callable!Fresh, Callable!FunctorAssumption, Callable!Clones,
       Callable!None
  <1>2. /\ base' = [base EXCEPT ![f] = n]
        /\ clone' = [clone EXCEPT ![n] = callable]
        /\ meant' = [meant EXCEPT ![f] = callable]
    BY DEF Callable!Give
  <1> HIDE DEF n
  <1>3. /\ base \in [Functors -> 0..MaxClones]
        /\ clone \in [Callable!Clones -> Callables \cup {Callable!None}]
        /\ deletes \in [Callable!Clones -> Nat] /\ dangling \subseteq Callable!Made
    BY DEF Callable!Inv, Callable!TypeOK
  <1>4. Callable!Made' = Callable!Made \cup {f} /\ Callable!Fresh' = Callable!Fresh \ {n} /\ n # 0
    BY <1>0, <1>1, <1>2, <1>3 DEF Callable!Made, Callable!Fresh
  <1>5. /\ \A g \in Callable!Made : base[g] \in Callable!Clones /\ base[g] # n
        /\ \A g \in Callable!Made \ {f} : base'[g] = base[g]
        /\ base'[f] = n
    <2>1. \A g \in Callable!Made : base[g] \in Callable!Clones
      BY <1>3 DEF Callable!Made, Callable!Clones, Callable!FunctorAssumption
    <2> QED
      BY <1>0, <1>2, <1>3, <2>1 DEF Callable!Inv, Callable!PointersInv, Callable!Made
  <1>6. /\ deletes' \in [Callable!Clones -> Nat] /\ deletes'[n] = 0
        /\ f \in Callable!Made => deletes'[base[f]] = deletes[base[f]] + 1
        /\ \A c \in Callable!Clones : ~(f \in Callable!Made /\ c = base[f]) => deletes'[c] = deletes[c]
    BY <1>0, <1>1, <1>3, <1>5 DEF Callable!Delete, Callable!Inv, Callable!PointersInv
  <1>7. Callable!TypeOK'
    <2>1. base' \in [Functors -> 0..MaxClones] /\ clone' \in [Callable!Clones -> Callables \cup {Callable!None}]
      BY <1>1, <1>2, <1>3 DEF Callable!Clones
    <2> QED
      BY <1>2, <1>3, <1>4, <1>6, <2>1 DEF Callable!Inv, Callable!TypeOK
  <1>8. Callable!PointersInv'
    <2>1. ASSUME NEW c \in Callable!Fresh' PROVE deletes'[c] = 0
      <3>1. c \in Callable!Fresh /\ c \in Callable!Clones /\ (f \in Callable!Made => c # base[f])
        BY <1>4 DEF Callable!Fresh, Callable!Inv, Callable!PointersInv
      <3> QED
        BY <1>6, <3>1 DEF Callable!Inv, Callable!PointersInv
    <2>2. ASSUME NEW g \in Callable!Made' PROVE base'[g] \notin Callable!Fresh'
      BY <1>4, <1>5 DEF Callable!Inv, Callable!PointersInv
    <2>3. ASSUME NEW g \in Callable!Made', NEW h \in Callable!Made', base'[g] = base'[h] PROVE g = h
      BY <1>4, <1>5, <2>3 DEF Callable!Inv, Callable!PointersInv
    <2> QED
      BY <2>1, <2>2, <2>3 DEF Callable!PointersInv
  <1>9. Callable!CallablesOwned'
    <2>1. ASSUME NEW g \in Callable!Made' \ dangling'
          PROVE  clone'[base'[g]] = meant'[g] /\ deletes'[base'[g]] = 0
      <3>1. CASE g = f
        BY <1>1, <1>2, <1>3, <1>5, <1>6, <3>1 DEF Callable!Inv, Callable!TypeOK
      <3>2. CASE g # f
        <4>1. /\ g \in Callable!Made \ dangling /\ base'[g] = base[g] /\ base[g] # n
              /\ base[g] \in Callable!Clones
              /\ f \in Callable!Made => base[g] # base[f]
          BY <1>4, <1>5, <3>2 DEF Callable!Inv, Callable!PointersInv
        <4>2. clone'[base[g]] = clone[base[g]] /\ meant'[g] = meant[g]
          BY <1>1, <1>2, <1>3, <3>2, <4>1 DEF Callable!Inv, Callable!TypeOK,
             Callable!Made
        <4>3. deletes'[base[g]] = deletes[base[g]]
          BY <1>6, <4>1
        <4> QED
          BY <4>1, <4>2, <4>3 DEF Callable!Inv, Callable!CallablesOwned
      <3> QED
        BY <3>1, <3>2
    <2>2. \A g \in Callable!Made' \ dangling' : \A h \in Callable!Made' \ {g} : base'[h] # base'[g]
      BY <1>8 DEF Callable!PointersInv
    <2>3. ASSUME NEW c \in Callable!Clones \ Callable!Fresh'
          PROVE  deletes'[c] = IF \E g \in Callable!Made' \ dangling' : base'[g] = c THEN 0 ELSE 1
      <3>1. CASE c = n
        BY <1>4, <1>5, <1>6, <3>1
      <3>2. CASE c # n /\ f \in Callable!Made /\ c = base[f]
        <4>1. deletes[c] = 0
          BY <3>2 DEF Callable!Inv, Callable!CallablesOwned
        <4>2. ~\E g \in Callable!Made' \ dangling' : base'[g] = c
          BY <1>4, <1>5, <3>2 DEF Callable!Inv, Callable!PointersInv
        <4> QED
          BY <1>3, <1>6, <3>2, <4>1, <4>2
      <3>3. CASE c # n /\ ~(f \in Callable!Made /\ c = base[f])
        <4>1. c \in Callable!Clones \ Callable!Fresh
          BY <1>4, <3>3
        <4>2. (\E g \in Callable!Made' \ dangling' : base'[g] = c)
              <=> (\E g \in Callable!Made \ dangling : base[g] = c)
          BY <1>4, <1>5, <3>3
        <4> QED
          BY <1>6, <3>3, <4>1, <4>2 DEF Callable!Inv, Callable!CallablesOwned
      <3> QED
        BY <3>1, <3>2, <3>3
    <2> QED
      BY <2>1, <2>2, <2>3 DEF Callable!CallablesOwned, Callable!Clones
  <1> QED
    BY <1>7, <1>8, <1>9 DEF Callable!Inv

\* A callable is deleted, and its Functor is gone or left without one.
LEMMA LetGoKeeps ==
  ASSUME Callable!FunctorAssumption, Callable!Inv, NEW f \in Callable!Made \ dangling, Callable!Delete(f),
         UNCHANGED <<clone, misused, meant>>,
         \/ base' = [base EXCEPT ![f] = 0] /\ dangling' = dangling
         \/ base' = base /\ dangling' = dangling \cup {f}
  PROVE  Callable!Inv'
  <1>1. /\ base \in [Functors -> 0..MaxClones]
        /\ clone \in [Callable!Clones -> Callables \cup {Callable!None}]
        /\ deletes \in [Callable!Clones -> Nat] /\ dangling \subseteq Callable!Made
        /\ f \in Functors
        /\ \A g \in Callable!Made : base[g] \in Callable!Clones
    BY DEF Callable!Inv, Callable!TypeOK, Callable!Made, Callable!Clones,
       Callable!FunctorAssumption
  <1>2. /\ Callable!Fresh' = Callable!Fresh
        /\ Callable!Made' \subseteq Callable!Made
        /\ Callable!Made' \ dangling' = (Callable!Made \ dangling) \ {f}
        /\ dangling' \subseteq Callable!Made'
        /\ \A g \in Callable!Made' : base'[g] = base[g]
    BY <1>1 DEF Callable!Made, Callable!Fresh
  <1>3. /\ deletes' \in [Callable!Clones -> Nat] /\ deletes'[base[f]] = deletes[base[f]] + 1
        /\ \A c \in Callable!Clones \ {base[f]} : deletes'[c] = deletes[c]
        /\ base[f] \notin Callable!Fresh
    BY <1>1 DEF Callable!Delete, Callable!Inv, Callable!PointersInv
  <1>4. Callable!TypeOK'
    <2>1. base' \in [Functors -> 0..MaxClones]
      BY <1>1 DEF Callable!FunctorAssumption
    <2> QED
      BY <1>1, <1>2, <1>3, <2>1 DEF Callable!Inv, Callable!TypeOK
  <1>5. Callable!PointersInv'
    BY <1>2, <1>3 DEF Callable!Inv, Callable!PointersInv, Callable!Fresh
  <1>6. Callable!CallablesOwned'
    <2>1. ASSUME NEW g \in Callable!Made' \ dangling'
          PROVE  clone'[base'[g]] = meant'[g] /\ deletes'[base'[g]] = 0
      <3>1. g \in Callable!Made \ dangling /\ g # f /\ base'[g] = base[g] /\ base[g] # base[f]
        BY <1>2 DEF Callable!Inv, Callable!PointersInv
      <3> QED
        BY <1>1, <1>3, <3>1 DEF Callable!Inv, Callable!CallablesOwned
    <2>2. \A g \in Callable!Made' \ dangling' : \A h \in Callable!Made' \ {g} : base'[h] # base'[g]
      BY <1>5 DEF Callable!PointersInv
    <2>3. ASSUME NEW c \in Callable!Clones \ Callable!Fresh'
          PROVE  deletes'[c] = IF \E g \in Callable!Made' \ dangling' : base'[g] = c THEN 0 ELSE 1
      <3>1. CASE c = base[f]
        <4>1. deletes[c] = 0
          BY <3>1 DEF Callable!Inv, Callable!CallablesOwned
        <4>2. ~\E g \in Callable!Made' \ dangling' : base'[g] = c
          BY <1>2, <3>1 DEF Callable!Inv, Callable!PointersInv
        <4> QED
          BY <1>1, <1>3, <3>1, <4>1, <4>2
      <3>2. CASE c # base[f]
        <4>1. (\E g \in Callable!Made' \ dangling' : base'[g] = c)
              <=> (\E g \in Callable!Made \ dangling : base[g] = c)
          BY <1>2, <3>2
        <4> QED
          BY <1>2, <1>3, <3>2, <4>1 DEF Callable!Inv, Callable!CallablesOwned
      <3> QED
        BY <3>1, <3>2
    <2> QED
      BY <2>1, <2>2, <2>3 DEF Callable!CallablesOwned, Callable!Clones
  <1> QED
    BY <1>4, <1>5, <1>6 DEF Callable!Inv

LEMMA FNext == Callable!FunctorAssumption /\ Callable!Inv /\ [Callable!Next]_(Callable!vars) => Callable!Inv'
  <1> SUFFICES ASSUME Callable!FunctorAssumption, Callable!Inv, [Callable!Next]_(Callable!vars)
               PROVE Callable!Inv'
    OBVIOUS
  <1>0. ASSUME UNCHANGED <<base, clone, deletes, dangling, meant>>, misused' \in BOOLEAN
        PROVE  Callable!Inv'
    BY <1>0 DEF Callable!Inv, Callable!TypeOK, Callable!PointersInv,
       Callable!CallablesOwned, Callable!Made, Callable!Fresh, Callable!Clones
  <1>1. CASE UNCHANGED Callable!vars
    BY <1>0, <1>1 DEF Callable!vars, Callable!Inv, Callable!TypeOK
  <1>2. \A g \in Callable!Made : g \in Functors
    BY DEF Callable!Made
  <1>3. \A g \in Callable!Made \ dangling : clone[base[g]] \in Callables
    <2> SUFFICES ASSUME NEW g \in Callable!Made \ dangling PROVE clone[base[g]] \in Callables
      OBVIOUS
    <2>1. base[g] \in Callable!Clones \ Callable!Fresh
      BY DEF Callable!Inv, Callable!TypeOK, Callable!PointersInv, Callable!Made,
         Callable!Clones, Callable!FunctorAssumption
    <2> QED
      BY <2>1 DEF Callable!Inv, Callable!TypeOK, Callable!Fresh
  <1>4. ASSUME NEW f \in Functors, NEW callable \in Callables, Callable!Construct(f, callable)
        PROVE Callable!Inv'
    <2>1. f \notin dangling
      BY <1>4 DEF Callable!Construct, Callable!Inv, Callable!TypeOK
    <2> QED
      BY <1>4, <2>1, GiveKeeps DEF Callable!Construct
  <1>5. ASSUME NEW f \in Functors, NEW g \in Functors, Callable!CopyConstruct(f, g)
        PROVE Callable!Inv'
    <2>1. CASE g \in dangling
      BY <1>0, <1>5, <2>1 DEF Callable!CopyConstruct, Callable!Misuse
    <2>2. CASE g \notin dangling
      <3>1. /\ Callable!Give(f, clone[base[g]]) /\ UNCHANGED <<deletes, dangling, misused>>
            /\ clone[base[g]] \in Callables /\ f \notin dangling /\ f \notin Callable!Made
        BY <1>3, <1>5, <2>2 DEF Callable!CopyConstruct, Callable!Inv, Callable!TypeOK
      <3> QED
        BY <3>1, GiveKeeps
    <2> QED
      BY <2>1, <2>2
  <1>6. ASSUME NEW f \in Functors, NEW g \in Functors, Callable!Assign(f, g) PROVE Callable!Inv'
    <2>1. CASE {f, g} \cap dangling # {}
      BY <1>0, <1>6, <2>1 DEF Callable!Assign, Callable!Misuse
    <2>2. CASE {f, g} \cap dangling = {}
      <3>1. /\ Callable!Give(f, clone[base[g]]) /\ Callable!Delete(f)
            /\ UNCHANGED <<dangling, misused>>
            /\ clone[base[g]] \in Callables /\ f \notin dangling /\ f \in Callable!Made
        BY <1>3, <1>6, <2>2 DEF Callable!Assign
      <3> QED
        BY <3>1, GiveKeeps
    <2> QED
      BY <2>1, <2>2
  <1>7. ASSUME NEW f \in Functors, NEW g \in Functors, Callable!AssignThrows(f, g)
        PROVE Callable!Inv'
    BY <1>7, LetGoKeeps DEF Callable!AssignThrows
  <1>8. ASSUME NEW f \in Functors, Callable!Destruct(f) PROVE Callable!Inv'
    <2>1. CASE f \in dangling
      BY <1>0, <1>8, <2>1 DEF Callable!Destruct, Callable!Misuse
    <2>2. CASE f \notin dangling
      BY <1>8, <2>2, LetGoKeeps DEF Callable!Destruct
    <2> QED
      BY <2>1, <2>2
  <1> QED
    BY <1>1, <1>4, <1>5, <1>6, <1>7, <1>8 DEF Callable!Next

LEMMA FunctorsOwn == Callable!FunctorAssumption => (Callable!Spec => []Callable!Inv)
  <1> SUFFICES ASSUME Callable!FunctorAssumption PROVE Callable!Spec => []Callable!Inv
    OBVIOUS
  <1> QED
    BY FInit, FNext, PTL DEF Callable!Spec

(* BlockPtr                                                                *)

\* FiniteSets, as BlockPtr sees it, is FiniteSets.
LEMMA SameCounting ==
  \A X : Block!IsFiniteSet(X) = IsFiniteSet(X) /\ Block!Cardinality(X) = Cardinality(X)
  <1>1. \A X : Block!IsFiniteSet(X) = IsFiniteSet(X)
    BY DEF Block!IsFiniteSet, IsFiniteSet
  <1>2. \A X : Block!Cardinality(X) = Cardinality(X)
    BY DEF Block!Cardinality, Cardinality, Block!IsFiniteSet, IsFiniteSet
  <1> QED
    BY <1>1, <1>2

Heap(d, b, l, u, m, c, x) ==
  [data |-> d, block |-> b, live |-> l, used |-> u, made |-> m, shared_count |-> c,
   deletes |-> x]

LEMMA NamesFacts ==
  ASSUME Block!BlockAssumption
  PROVE  /\ Block!IsFiniteSet(Block!Names) /\ Nil \notin Block!Cells /\ Block!Cells \subseteq Nat \ {0}
         /\ \A s : \A b : /\ Block!IsFiniteSet(Block!Holders(s, b))
                          /\ Block!Cardinality(Block!Holders(s, b)) \in Nat
  <1>1. Block!IsFiniteSet(Block!Names)
    BY SameCounting, FS_Singleton, FS_Union DEF Block!BlockAssumption, Block!Names
  <1>2. \A s : \A b : Block!Holders(s, b) \subseteq Block!Names
    BY DEF Block!Holders
  <1> QED
    BY SameCounting, <1>1, <1>2, FS_Subset, FS_CardinalityType
     DEF Block!BlockAssumption, Block!Cells

LEMMA PointFacts ==
  ASSUME NEW s \in Block!Heaps, NEW h \in Block!Names,
         NEW d \in Block!Cells \cup {Nil}, NEW b \in Block!Cells \cup {Nil}
  PROVE  /\ Block!Point(s, h, d, b) \in Block!Heaps
         /\ Block!Point(s, h, d, b) = Heap([s.data EXCEPT ![h] = d], [s.block EXCEPT ![h] = b],
                                     s.live, s.used, s.made, s.shared_count, s.deletes)
  <1> DEFINE t == [s EXCEPT !.data[h] = d]
  <1>1. t = Heap([s.data EXCEPT ![h] = d], s.block, s.live, s.used, s.made,
                 s.shared_count, s.deletes)
    BY DEF Block!Heaps, Heap
  <1>2. Block!Point(s, h, d, b) = [t EXCEPT !.block[h] = b]
    BY DEF Block!Point
  <1> HIDE DEF t
  <1>3. Block!Point(s, h, d, b) = Heap([s.data EXCEPT ![h] = d], [s.block EXCEPT ![h] = b],
                                 s.live, s.used, s.made, s.shared_count, s.deletes)
    BY <1>1, <1>2 DEF Heap
  <1> QED
    BY <1>3 DEF Block!Heaps, Heap

\* dec_shared_count and what follows it in reset, destructor and assignment.
LEMMA ResetFacts ==
  ASSUME Block!BlockAssumption, NEW s, Block!Sound(s), NEW h \in Block!Names
  PROVE  /\ s.block[h] = Nil => Block!Reset(s, h) = s
         /\ Block!Dec(s, h) \in Block!Heaps
         /\ s.block[h] # Nil =>
              \E x \in [Block!Cells -> Nat] :
                /\ Block!Reset(s, h) =
                     Heap([s.data EXCEPT ![h] = Nil], [s.block EXCEPT ![h] = Nil],
                          s.live, s.used, s.made,
                          [s.shared_count EXCEPT ![s.block[h]] = @ - 1], x)
                /\ x = IF s.shared_count[s.block[h]] - 1 > 0 \/ s.data[h] = Nil
                       THEN s.deletes
                       ELSE [s.deletes EXCEPT ![s.data[h]] = @ + 1]
  <1>1. /\ s \in Block!Heaps /\ (s.block[h] = Nil => s.data[h] = Nil)
        /\ s.block[h] \in Block!Cells \cup {Nil} /\ s.data[h] \in Block!Cells \cup {Nil}
    BY NamesFacts DEF Block!Sound, Block!Heaps
  <1>2. CASE s.block[h] = Nil
    <2>1. Block!Reset(s, h) = Block!Point(s, h, Nil, Nil)
      BY <1>2 DEF Block!Reset, Block!Dec
    <2>2. [s.data EXCEPT ![h] = Nil] = s.data /\ [s.block EXCEPT ![h] = Nil] = s.block
      BY <1>1, <1>2 DEF Block!Heaps
    <2>3. s = Heap(s.data, s.block, s.live, s.used, s.made, s.shared_count, s.deletes)
      BY <1>1 DEF Block!Heaps, Heap
    <2>4. Block!Dec(s, h) = s
      BY <1>2 DEF Block!Dec
    <2>5. Block!Point(s, h, Nil, Nil) =
            Heap([s.data EXCEPT ![h] = Nil], [s.block EXCEPT ![h] = Nil],
                 s.live, s.used, s.made, s.shared_count, s.deletes)
      BY <1>1, PointFacts
    <2>6. Block!Reset(s, h) = s
      BY <2>1, <2>2, <2>3, <2>5
    <2> QED
      BY <1>1, <1>2, <2>4, <2>6
  <1>3. CASE s.block[h] # Nil
    <2> DEFINE b == s.block[h]
               d == s.data[h]
               count == [s.shared_count EXCEPT ![b] = @ - 1]
               t == [s EXCEPT !.shared_count[b] = @ - 1]
    <2>1. t = Heap(s.data, s.block, s.live, s.used, s.made, count, s.deletes)
      BY <1>1 DEF Block!Heaps, Heap
    <2>2. Block!Dec(s, h) = IF t.shared_count[b] > 0 \/ d = Nil THEN t
                      ELSE [t EXCEPT !.data[h] = Nil, !.deletes[d] = @ + 1]
      BY <1>3 DEF Block!Dec
    <2>3. b \in Block!Cells /\ s.shared_count[b] \in Nat /\ count[b] = s.shared_count[b] - 1
          /\ s.shared_count[b] \in Nat \ {0}
      <3>1. b \in Block!Cells /\ s.shared_count \in [Block!Cells -> Nat] /\ b \in 1..s.used
        BY <1>1, <1>3, NamesFacts DEF Block!Sound, Block!Heaps
      <3>2. s.shared_count[b] = Block!Cardinality(Block!Holders(s, b)) /\ h \in Block!Holders(s, b)
        BY <3>1 DEF Block!Sound, Block!Holders
      <3>3. Block!Cardinality(Block!Holders(s, b)) # 0
        BY SameCounting, <3>2, NamesFacts, FS_EmptySet
      <3> QED
        BY <3>1, <3>2, <3>3
    <2>4. count \in [Block!Cells -> Nat] /\ t \in Block!Heaps
      BY <1>1, <2>1, <2>3 DEF Block!Heaps, Heap
    <2>5. Block!Reset(s, h) = Block!Point(Block!Dec(s, h), h, Nil, Nil)
      BY DEF Block!Reset
    <2> HIDE DEF t, count
    <2>6. CASE count[b] > 0 \/ d = Nil
      <3>1. Block!Dec(s, h) = t
        BY <2>1, <2>2, <2>6 DEF Heap
      <3>2. Block!Reset(s, h) = Heap([s.data EXCEPT ![h] = Nil], [s.block EXCEPT ![h] = Nil],
                               s.live, s.used, s.made, count, s.deletes)
        <4>1. Block!Point(t, h, Nil, Nil) =
                Heap([t.data EXCEPT ![h] = Nil], [t.block EXCEPT ![h] = Nil],
                     t.live, t.used, t.made, t.shared_count, t.deletes)
          BY <2>4, PointFacts
        <4>2. /\ t.data = s.data /\ t.block = s.block /\ t.live = s.live /\ t.used = s.used
              /\ t.made = s.made /\ t.shared_count = count /\ t.deletes = s.deletes
          BY <2>1 DEF Heap
        <4> QED
          BY <2>5, <3>1, <4>1, <4>2
      <3>3. s.deletes \in [Block!Cells -> Nat]
        BY <1>1 DEF Block!Heaps
      <3> QED
        BY <1>3, <2>3, <2>4, <2>6, <3>1, <3>2, <3>3 DEF count
    <2>7. CASE ~(count[b] > 0 \/ d = Nil)
      <3> DEFINE x == [s.deletes EXCEPT ![d] = @ + 1]
                 u == [t EXCEPT !.data[h] = Nil, !.deletes[d] = @ + 1]
      <3>1. Block!Dec(s, h) = u
        BY <2>1, <2>2, <2>7 DEF Heap
      <3>2. u = Heap([s.data EXCEPT ![h] = Nil], s.block, s.live, s.used, s.made, count, x)
        <4> DEFINE v == [t EXCEPT !.data[h] = Nil]
        <4>1. v = Heap([s.data EXCEPT ![h] = Nil], s.block, s.live, s.used, s.made, count,
                       s.deletes)
          BY <2>1 DEF Heap
        <4>2. u = [v EXCEPT !.deletes[d] = t.deletes[d] + 1] /\ t.deletes = s.deletes
          BY <2>1 DEF Heap
        <4> HIDE DEF v, u
        <4> QED
          BY <4>1, <4>2 DEF Heap
      <3>3. x \in [Block!Cells -> Nat]
        BY <1>1, <2>7 DEF Block!Heaps
      <3>4. u \in Block!Heaps
        BY <1>1, <2>4, <3>2, <3>3 DEF Block!Heaps, Heap
      <3> HIDE DEF u
      <3>5. [[s.data EXCEPT ![h] = Nil] EXCEPT ![h] = Nil] = [s.data EXCEPT ![h] = Nil]
        BY <1>1 DEF Block!Heaps
      <3>6. Block!Reset(s, h) = Heap([s.data EXCEPT ![h] = Nil], [s.block EXCEPT ![h] = Nil],
                               s.live, s.used, s.made, count, x)
        <4>1. Block!Point(u, h, Nil, Nil) =
                Heap([u.data EXCEPT ![h] = Nil], [u.block EXCEPT ![h] = Nil],
                     u.live, u.used, u.made, u.shared_count, u.deletes)
          BY <3>4, PointFacts
        <4>2. /\ u.data = [s.data EXCEPT ![h] = Nil] /\ u.block = s.block
              /\ u.live = s.live /\ u.used = s.used
              /\ u.made = s.made /\ u.shared_count = count /\ u.deletes = x
          BY <3>2 DEF Heap
        <4> HIDE DEF x
        <4> QED
          BY <2>5, <3>1, <3>5, <4>1, <4>2
      <3> QED
        BY <1>3, <2>3, <2>7, <3>1, <3>3, <3>4, <3>6 DEF count
    <2> QED
      BY <2>6, <2>7
  <1> QED
    BY <1>2, <1>3

\* One name changes its block: the holders of a block before and after.
LEMMA HoldersFacts ==
  ASSUME Block!BlockAssumption, NEW s \in Block!Heaps, NEW r, NEW h \in Block!Names,
         NEW v \in Block!Cells \cup {Nil},
         r.block = [s.block EXCEPT ![h] = v], NEW b \in Block!Cells
  PROVE  /\ Block!Holders(r, b) = IF v = b THEN Block!Holders(s, b) \cup {h} ELSE Block!Holders(s, b) \ {h}
         /\ h \in Block!Holders(s, b) <=> s.block[h] = b
         /\ s.block[h] # b /\ v = b =>
              Block!Cardinality(Block!Holders(r, b)) = Block!Cardinality(Block!Holders(s, b)) + 1
         /\ s.block[h] = b /\ v # b =>
              Block!Cardinality(Block!Holders(r, b)) = Block!Cardinality(Block!Holders(s, b)) - 1
         /\ (s.block[h] = b <=> v = b) => Block!Holders(r, b) = Block!Holders(s, b)
         /\ v = b => Block!Holders(r, b) # {}
  <1>1. Block!Holders(r, b) = IF v = b THEN Block!Holders(s, b) \cup {h} ELSE Block!Holders(s, b) \ {h}
    BY DEF Block!Holders, Block!Heaps
  <1>2. h \in Block!Holders(s, b) <=> s.block[h] = b
    BY DEF Block!Holders
  <1>3. Block!IsFiniteSet(Block!Holders(s, b)) /\ Block!Cardinality(Block!Holders(s, b)) \in Nat
    BY NamesFacts
  <1>4. s.block[h] # b /\ v = b =>
          Block!Cardinality(Block!Holders(r, b)) = Block!Cardinality(Block!Holders(s, b)) + 1
    BY SameCounting, <1>1, <1>2, <1>3, FS_AddElement
  <1>5. s.block[h] = b /\ v # b =>
          Block!Cardinality(Block!Holders(r, b)) = Block!Cardinality(Block!Holders(s, b)) - 1
    BY SameCounting, <1>1, <1>2, <1>3, FS_RemoveElement
  <1> QED
    BY <1>1, <1>2, <1>4, <1>5

LEMMA ResetSound ==
  ASSUME Block!BlockAssumption, NEW s, Block!Sound(s), NEW h \in Block!Names
  PROVE  LET r == Block!Reset(s, h)
         IN  /\ Block!Sound(r) /\ r.block = [s.block EXCEPT ![h] = Nil]
             /\ r.live = s.live /\ r.used = s.used /\ r.made = s.made
  <1> DEFINE r == Block!Reset(s, h)
  <1> SUFFICES /\ Block!Sound(r) /\ r.block = [s.block EXCEPT ![h] = Nil]
               /\ r.live = s.live /\ r.used = s.used /\ r.made = s.made
    OBVIOUS
  <1>0. /\ s \in Block!Heaps /\ s.block \in [Block!Names -> Block!Cells \cup {Nil}]
        /\ s.used \in 0..MaxNew
        /\ s.data \in [Block!Names -> Block!Cells \cup {Nil}] /\ s.made \in SUBSET Block!Cells
        /\ s.shared_count \in [Block!Cells -> Nat] /\ s.deletes \in [Block!Cells -> Nat]
        /\ s.live \in SUBSET Handles
    BY DEF Block!Sound, Block!Heaps
  <1>1. CASE s.block[h] = Nil
    <2>1. r = s
      BY <1>1, ResetFacts
    <2>2. [s.block EXCEPT ![h] = Nil] = s.block
      BY <1>0, <1>1
    <2> QED
      BY <2>1, <2>2
  <1>2. CASE s.block[h] # Nil
    <2> DEFINE b == s.block[h]
    <2>1. PICK x \in [Block!Cells -> Nat] :
            /\ r = Heap([s.data EXCEPT ![h] = Nil], [s.block EXCEPT ![h] = Nil],
                        s.live, s.used, s.made, [s.shared_count EXCEPT ![b] = @ - 1], x)
            /\ x = IF s.shared_count[b] - 1 > 0 \/ s.data[h] = Nil
                   THEN s.deletes ELSE [s.deletes EXCEPT ![s.data[h]] = @ + 1]
      BY <1>2, ResetFacts
    <2>2. /\ r.data = [s.data EXCEPT ![h] = Nil] /\ r.block = [s.block EXCEPT ![h] = Nil]
          /\ r.live = s.live /\ r.used = s.used /\ r.made = s.made /\ r.deletes = x
          /\ r.shared_count = [s.shared_count EXCEPT ![b] = @ - 1]
      BY <2>1 DEF Heap
    <2>3. /\ b \in Block!Cells /\ b \in 1..s.used /\ s.shared_count[b] \in Nat
          /\ s.shared_count[b] = Block!Cardinality(Block!Holders(s, b))
          /\ s.shared_count[b] # 0 /\ Block!Holders(s, b) # {}
      <3>1. b \in Block!Cells /\ b \in 1..s.used
        BY <1>0, <1>2, NamesFacts DEF Block!Sound
      <3>2. s.shared_count[b] = Block!Cardinality(Block!Holders(s, b)) /\ h \in Block!Holders(s, b)
        BY <3>1 DEF Block!Sound, Block!Holders
      <3> QED
        BY SameCounting, <1>0, <3>1, <3>2, NamesFacts, FS_EmptySet
    <2> HIDE DEF r
    <2>4. \A c \in Block!Cells : c # b => Block!Holders(r, c) = Block!Holders(s, c)
      BY <1>0, <2>2, <2>3, HoldersFacts, NamesFacts
    <2>5. Block!Cardinality(Block!Holders(r, b)) = s.shared_count[b] - 1
      BY <1>0, <2>2, <2>3, HoldersFacts, NamesFacts
    <2>6. Block!Holders(r, b) = {} <=> ~(s.shared_count[b] - 1 > 0)
      BY SameCounting, <2>3, <2>5, NamesFacts, FS_EmptySet
    <2>7. r.shared_count \in [Block!Cells -> Nat] /\ r.shared_count[b] = s.shared_count[b] - 1
      BY <1>0, <2>2, <2>3
    <2>8. r \in Block!Heaps
      <3>1. /\ r.data \in [Block!Names -> Block!Cells \cup {Nil}]
            /\ r.block \in [Block!Names -> Block!Cells \cup {Nil}]
        BY <1>0, <2>2
      <3> QED
        BY <1>0, <2>1, <2>2, <2>7, <3>1 DEF Block!Heaps, Heap
    <2>9. \A g \in Block!Names : g # h => r.block[g] = s.block[g] /\ r.data[g] = s.data[g]
      BY <1>0, <2>2
    <2>10. r.block[h] = Nil /\ r.data[h] = Nil
      BY <1>0, <2>2
    <2>11. \A c \in 1..r.used : r.shared_count[c] = Block!Cardinality(Block!Holders(r, c))
      <3> SUFFICES ASSUME NEW c \in 1..s.used PROVE r.shared_count[c] = Block!Cardinality(Block!Holders(r, c))
        BY <2>2
      <3>1. c \in Block!Cells
        BY <1>0 DEF Block!Cells, Block!BlockAssumption
      <3> QED
        BY <1>0, <2>2, <2>4, <2>5, <2>7, <3>1 DEF Block!Sound
    <2>12. ASSUME NEW o \in r.made
           PROVE  o <= r.used /\ r.deletes[o] = IF Block!Holders(r, o) = {} THEN 1 ELSE 0
      <3>1. o \in Block!Cells /\ o \in s.made /\ o <= s.used
            /\ s.deletes[o] = IF Block!Holders(s, o) = {} THEN 1 ELSE 0
        BY <1>0, <2>2 DEF Block!Sound
      <3>2. s.data[h] = Nil \/ s.data[h] = b
        BY <1>2 DEF Block!Sound
      <3>3. CASE o = b
        <4>1. s.data[h] = b /\ s.data[h] # Nil /\ s.deletes[b] = 0
          BY <1>2, <2>3, <3>1, <3>3 DEF Block!Sound
        <4>2. CASE s.shared_count[b] - 1 > 0
          BY <2>1, <2>2, <2>6, <3>1, <3>3, <4>1, <4>2
        <4>3. CASE ~(s.shared_count[b] - 1 > 0)
          <5>1. x = [s.deletes EXCEPT ![b] = @ + 1]
            BY <2>1, <4>1, <4>3
          <5>2. x[b] = 1
            BY <1>0, <2>3, <4>1, <5>1
          <5> QED
            BY <2>2, <2>6, <3>1, <3>3, <4>3, <5>2
        <4> QED
          BY <4>2, <4>3
      <3>4. CASE o # b
        BY <1>0, <2>1, <2>2, <2>4, <3>1, <3>2, <3>4
      <3> QED
        BY <3>3, <3>4
    <2>13. ASSUME NEW c \in Block!Cells, c > r.used PROVE r.deletes[c] = 0
      <3>1. s.data[h] = Nil \/ s.data[h] = b
        BY <1>2 DEF Block!Sound
      <3>2. c # b /\ s.deletes[c] = 0
        BY <1>0, <2>2, <2>3, <2>13, NamesFacts DEF Block!Sound
      <3> QED
        BY <1>0, <2>1, <2>2, <3>1, <3>2
    <2>14. Nil \notin r.made
      BY <1>0, <2>2, NamesFacts
    <2> QED
      BY <2>2, <2>8, <2>9, <2>10, <2>11, <2>12, <2>13, <2>14 DEF Block!Sound
  <1> QED
    BY <1>1, <1>2

LEMMA SoundTypes ==
  ASSUME Block!BlockAssumption, NEW s, Block!Sound(s)
  PROVE  /\ s \in Block!Heaps /\ s.block \in [Block!Names -> Block!Cells \cup {Nil}] /\ s.used \in 0..MaxNew
         /\ s.data \in [Block!Names -> Block!Cells \cup {Nil}] /\ s.made \in SUBSET Block!Cells
         /\ s.shared_count \in [Block!Cells -> Nat] /\ s.deletes \in [Block!Cells -> Nat]
         /\ s.live \in SUBSET Handles /\ 1..s.used \subseteq Block!Cells
         /\ Nil \notin Block!Cells /\ Block!Cells \subseteq Nat \ {0}
         /\ \A n \in Block!Names : s.block[n] \in Block!Cells \cup {Nil} /\ s.data[n] \in Block!Cells \cup {Nil}
  <1>1. /\ s \in Block!Heaps /\ s.block \in [Block!Names -> Block!Cells \cup {Nil}]
        /\ s.used \in 0..MaxNew
        /\ s.data \in [Block!Names -> Block!Cells \cup {Nil}] /\ s.made \in SUBSET Block!Cells
        /\ s.shared_count \in [Block!Cells -> Nat] /\ s.deletes \in [Block!Cells -> Nat]
        /\ s.live \in SUBSET Handles
    BY DEF Block!Sound, Block!Heaps
  <1>2. 1..s.used \subseteq Block!Cells
    BY <1>1 DEF Block!Cells, Block!BlockAssumption
  <1>3. \A n \in Block!Names : s.block[n] \in Block!Cells \cup {Nil} /\ s.data[n] \in Block!Cells \cup {Nil}
    BY <1>1
  <1> QED
    BY <1>1, <1>2, <1>3, NamesFacts

LEMMA SwapSound ==
  ASSUME Block!BlockAssumption, NEW s, Block!Sound(s), NEW h \in Block!Names, NEW g \in Block!Names
  PROVE  LET r == Block!Swap(s, h, g)
         IN  /\ Block!Sound(r)
             /\ r.block = [[s.block EXCEPT ![h] = s.block[g]] EXCEPT ![g] = s.block[h]]
             /\ r.live = s.live /\ r.used = s.used /\ r.made = s.made
  <1> DEFINE m == Block!Point(s, h, s.data[g], s.block[g])
             r == Block!Swap(s, h, g)
  <1> SUFFICES /\ Block!Sound(r)
               /\ r.block = [[s.block EXCEPT ![h] = s.block[g]] EXCEPT ![g] = s.block[h]]
               /\ r.live = s.live /\ r.used = s.used /\ r.made = s.made
    OBVIOUS
  <1>0. /\ s \in Block!Heaps /\ s.block \in [Block!Names -> Block!Cells \cup {Nil}]
        /\ s.used \in 0..MaxNew
        /\ s.data \in [Block!Names -> Block!Cells \cup {Nil}] /\ s.made \in SUBSET Block!Cells
        /\ 1..s.used \subseteq Block!Cells
        /\ s.block[h] \in Block!Cells \cup {Nil} /\ s.data[h] \in Block!Cells \cup {Nil}
        /\ s.block[g] \in Block!Cells \cup {Nil} /\ s.data[g] \in Block!Cells \cup {Nil}
    BY SoundTypes
  <1>1. /\ m \in Block!Heaps
        /\ m = Heap([s.data EXCEPT ![h] = s.data[g]], [s.block EXCEPT ![h] = s.block[g]],
                    s.live, s.used, s.made, s.shared_count, s.deletes)
    <2> DEFINE d == s.data[g]
               b == s.block[g]
    <2>1. d \in Block!Cells \cup {Nil} /\ b \in Block!Cells \cup {Nil} /\ s \in Block!Heaps
      BY <1>0
    <2> HIDE DEF d, b
    <2>2. /\ Block!Point(s, h, d, b) \in Block!Heaps
          /\ Block!Point(s, h, d, b) = Heap([s.data EXCEPT ![h] = d], [s.block EXCEPT ![h] = b],
                                      s.live, s.used, s.made, s.shared_count, s.deletes)
      BY <2>1, PointFacts
    <2> QED
      BY <2>2 DEF d, b
  <1>2. r = Block!Point(m, g, s.data[h], s.block[h])
    BY DEF Block!Swap
  <1> HIDE DEF m, r
  <1>3. /\ m.data = [s.data EXCEPT ![h] = s.data[g]]
        /\ m.block = [s.block EXCEPT ![h] = s.block[g]]
        /\ m.live = s.live /\ m.used = s.used /\ m.made = s.made
        /\ m.shared_count = s.shared_count /\ m.deletes = s.deletes
    BY <1>1 DEF Heap
  <1>4. /\ r \in Block!Heaps
        /\ r = Heap([m.data EXCEPT ![g] = s.data[h]], [m.block EXCEPT ![g] = s.block[h]],
                    m.live, m.used, m.made, m.shared_count, m.deletes)
    <2> DEFINE d == s.data[h]
               b == s.block[h]
    <2>1. d \in Block!Cells \cup {Nil} /\ b \in Block!Cells \cup {Nil} /\ m \in Block!Heaps
      BY <1>0, <1>1
    <2> HIDE DEF d, b
    <2>2. /\ Block!Point(m, g, d, b) \in Block!Heaps
          /\ Block!Point(m, g, d, b) = Heap([m.data EXCEPT ![g] = d], [m.block EXCEPT ![g] = b],
                                      m.live, m.used, m.made, m.shared_count, m.deletes)
      BY <2>1, PointFacts
    <2> QED
      BY <1>2, <2>2 DEF d, b
  <1>5. /\ r.data = [m.data EXCEPT ![g] = s.data[h]]
        /\ r.block = [m.block EXCEPT ![g] = s.block[h]]
        /\ r.live = s.live /\ r.used = s.used /\ r.made = s.made
        /\ r.shared_count = s.shared_count /\ r.deletes = s.deletes
    BY <1>3, <1>4 DEF Heap
  <1>6. ASSUME NEW b \in Block!Cells
        PROVE  /\ Block!Cardinality(Block!Holders(r, b)) = Block!Cardinality(Block!Holders(s, b))
               /\ Block!Holders(r, b) = {} <=> Block!Holders(s, b) = {}
    <2>1. /\ s.block[h] # b /\ s.block[g] = b =>
               Block!Cardinality(Block!Holders(m, b)) = Block!Cardinality(Block!Holders(s, b)) + 1
          /\ s.block[h] = b /\ s.block[g] # b =>
               Block!Cardinality(Block!Holders(m, b)) = Block!Cardinality(Block!Holders(s, b)) - 1
          /\ (s.block[h] = b <=> s.block[g] = b) => Block!Holders(m, b) = Block!Holders(s, b)
      <3> DEFINE v == s.block[g]
      <3>1. v \in Block!Cells \cup {Nil} /\ s \in Block!Heaps /\ m.block = [s.block EXCEPT ![h] = v]
        BY <1>0, <1>3
      <3> HIDE DEF v
      <3>2. /\ s.block[h] # b /\ v = b =>
                 Block!Cardinality(Block!Holders(m, b)) = Block!Cardinality(Block!Holders(s, b)) + 1
            /\ s.block[h] = b /\ v # b =>
                 Block!Cardinality(Block!Holders(m, b)) = Block!Cardinality(Block!Holders(s, b)) - 1
            /\ (s.block[h] = b <=> v = b) => Block!Holders(m, b) = Block!Holders(s, b)
        BY <3>1, HoldersFacts
      <3> QED
        BY <3>2 DEF v
    <2>2. m.block[g] = s.block[g]
      BY <1>0, <1>3
    <2>3. /\ s.block[g] # b /\ s.block[h] = b =>
               Block!Cardinality(Block!Holders(r, b)) = Block!Cardinality(Block!Holders(m, b)) + 1
          /\ s.block[g] = b /\ s.block[h] # b =>
               Block!Cardinality(Block!Holders(r, b)) = Block!Cardinality(Block!Holders(m, b)) - 1
          /\ (s.block[g] = b <=> s.block[h] = b) => Block!Holders(r, b) = Block!Holders(m, b)
      <3> DEFINE v == s.block[h]
      <3>1. v \in Block!Cells \cup {Nil} /\ m \in Block!Heaps /\ r.block = [m.block EXCEPT ![g] = v]
        BY <1>0, <1>1, <1>5
      <3> HIDE DEF v
      <3>2. /\ m.block[g] # b /\ v = b =>
                 Block!Cardinality(Block!Holders(r, b)) = Block!Cardinality(Block!Holders(m, b)) + 1
            /\ m.block[g] = b /\ v # b =>
                 Block!Cardinality(Block!Holders(r, b)) = Block!Cardinality(Block!Holders(m, b)) - 1
            /\ (m.block[g] = b <=> v = b) => Block!Holders(r, b) = Block!Holders(m, b)
        BY <3>1, HoldersFacts
      <3> QED
        BY <2>2, <3>2 DEF v
    <2>4. /\ Block!Cardinality(Block!Holders(s, b)) \in Nat
          /\ Block!Cardinality(Block!Holders(m, b)) \in Nat
          /\ Block!Cardinality(Block!Holders(r, b)) \in Nat
          /\ Block!IsFiniteSet(Block!Holders(s, b)) /\ Block!IsFiniteSet(Block!Holders(r, b))
      BY NamesFacts
    <2>5. Block!Cardinality(Block!Holders(r, b)) = Block!Cardinality(Block!Holders(s, b))
      BY <2>1, <2>3, <2>4
    <2> QED
      BY SameCounting, <2>4, <2>5, FS_EmptySet
  <1>7. /\ r.block[g] = s.block[h] /\ r.data[g] = s.data[h]
        /\ h # g => r.block[h] = s.block[g] /\ r.data[h] = s.data[g]
        /\ \A n \in Block!Names \ {h, g} : r.block[n] = s.block[n] /\ r.data[n] = s.data[n]
    BY <1>0, <1>3, <1>5
  <1>8. \A n \in Block!Names : \E k \in Block!Names : r.block[n] = s.block[k] /\ r.data[n] = s.data[k]
    BY <1>7
  <1>9. Block!Sound(r)
    <2>1. /\ \A n \in Block!Names : r.block[n] # Nil => r.block[n] <= r.used
          /\ \A n \in Block!Names : r.data[n] = IF r.block[n] \in r.made THEN r.block[n] ELSE Nil
      BY <1>5, <1>8 DEF Block!Sound
    <2>2. \A b \in 1..r.used : r.shared_count[b] = Block!Cardinality(Block!Holders(r, b))
      BY <1>0, <1>5, <1>6 DEF Block!Sound
    <2>3. \A o \in r.made : /\ o <= r.used
                            /\ r.deletes[o] = IF Block!Holders(r, o) = {} THEN 1 ELSE 0
      BY <1>0, <1>5, <1>6 DEF Block!Sound
    <2>4. \A c \in Block!Cells : c > r.used => r.deletes[c] = 0
      BY <1>5 DEF Block!Sound
    <2> QED
      BY <1>4, <2>1, <2>2, <2>3, <2>4 DEF Block!Sound
  <1> QED
    BY <1>3, <1>5, <1>9

\* An empty name comes to share what another has.
LEMMA CopySound ==
  ASSUME Block!BlockAssumption, NEW s, Block!Sound(s), NEW h \in Block!Names, NEW g \in Block!Names,
         s.block[h] = Nil
  PROVE  LET r == Block!Copy(s, h, g)
         IN  /\ Block!Sound(r) /\ r.block = [s.block EXCEPT ![h] = s.block[g]]
             /\ r.live = s.live /\ r.used = s.used /\ r.made = s.made
  <1> DEFINE b == s.block[g]
             t == Block!Point(s, h, s.data[g], b)
             r == Block!Copy(s, h, g)
  <1> SUFFICES /\ Block!Sound(r) /\ r.block = [s.block EXCEPT ![h] = b]
               /\ r.live = s.live /\ r.used = s.used /\ r.made = s.made
    OBVIOUS
  <1>0. /\ s \in Block!Heaps /\ s.block \in [Block!Names -> Block!Cells \cup {Nil}]
        /\ s.used \in 0..MaxNew
        /\ s.data \in [Block!Names -> Block!Cells \cup {Nil}] /\ s.made \in SUBSET Block!Cells
        /\ s.shared_count \in [Block!Cells -> Nat] /\ s.deletes \in [Block!Cells -> Nat]
        /\ s.live \in SUBSET Handles /\ 1..s.used \subseteq Block!Cells
        /\ Nil \notin Block!Cells /\ Block!Cells \subseteq Nat \ {0}
        /\ b \in Block!Cells \cup {Nil} /\ s.data[g] \in Block!Cells \cup {Nil}
    BY SoundTypes
  <1>1. /\ t \in Block!Heaps
        /\ t = Heap([s.data EXCEPT ![h] = s.data[g]], [s.block EXCEPT ![h] = b],
                    s.live, s.used, s.made, s.shared_count, s.deletes)
    <2> DEFINE d == s.data[g]
    <2>1. d \in Block!Cells \cup {Nil} /\ b \in Block!Cells \cup {Nil} /\ s \in Block!Heaps
      BY <1>0
    <2> HIDE DEF d, b
    <2>2. /\ Block!Point(s, h, d, b) \in Block!Heaps
          /\ Block!Point(s, h, d, b) = Heap([s.data EXCEPT ![h] = d], [s.block EXCEPT ![h] = b],
                                      s.live, s.used, s.made, s.shared_count, s.deletes)
      BY <2>1, PointFacts
    <2> QED
      BY <2>2 DEF d, b
  <1>2. r = IF b = Nil THEN t ELSE [t EXCEPT !.shared_count[b] = @ + 1]
    BY DEF Block!Copy
  <1> HIDE DEF t, r
  <1>3. CASE b = Nil
    <2>1. [s.data EXCEPT ![h] = s.data[g]] = s.data /\ [s.block EXCEPT ![h] = b] = s.block
      <3>1. s.data[h] = Nil /\ s.data[g] = Nil
        BY <1>0, <1>3 DEF Block!Sound
      <3> QED
        BY <1>0, <1>3, <3>1
    <2>2. s = Heap(s.data, s.block, s.live, s.used, s.made, s.shared_count, s.deletes)
      BY <1>0 DEF Block!Heaps, Heap
    <2> QED
      BY <1>1, <1>2, <1>3, <2>1, <2>2
  <1>4. CASE b # Nil
    <2> DEFINE count == [s.shared_count EXCEPT ![b] = @ + 1]
    <2>1. r = Heap([s.data EXCEPT ![h] = s.data[g]], [s.block EXCEPT ![h] = b],
                   s.live, s.used, s.made, count, s.deletes)
      BY <1>1, <1>2, <1>4 DEF Heap
    <2>2. b \in Block!Cells /\ b \in 1..s.used /\ count \in [Block!Cells -> Nat]
          /\ count[b] = s.shared_count[b] + 1
          /\ \A c \in Block!Cells : c # b => count[c] = s.shared_count[c]
      <3>1. b \in Block!Cells /\ b <= s.used
        BY <1>0, <1>4 DEF Block!Sound
      <3>2. b \in 1..s.used
        BY <1>0, <3>1 DEF Block!Cells
      <3> HIDE DEF b
      <3> QED
        BY <1>0, <3>1, <3>2
    <2> HIDE DEF count
    <2>3. /\ r.data = [s.data EXCEPT ![h] = s.data[g]] /\ r.block = [s.block EXCEPT ![h] = b]
          /\ r.live = s.live /\ r.used = s.used /\ r.made = s.made
          /\ r.shared_count = count /\ r.deletes = s.deletes
      BY <2>1 DEF Heap
    <2>4. r \in Block!Heaps
      <3>1. /\ r.data \in [Block!Names -> Block!Cells \cup {Nil}]
            /\ r.block \in [Block!Names -> Block!Cells \cup {Nil}]
        BY <1>0, <2>3
      <3> QED
        BY <1>0, <2>1, <2>2, <2>3, <3>1 DEF Block!Heaps, Heap
    <2>5. /\ Block!Cardinality(Block!Holders(r, b)) = Block!Cardinality(Block!Holders(s, b)) + 1
          /\ Block!Holders(r, b) # {} /\ Block!Holders(s, b) # {}
      <3>1. g \in Block!Holders(s, b)
        BY DEF Block!Holders
      <3> QED
        BY <1>0, <1>4, <2>2, <2>3, <3>1, HoldersFacts
    <2>6. \A c \in Block!Cells : c # b => Block!Holders(r, c) = Block!Holders(s, c)
      BY <1>0, <2>2, <2>3, HoldersFacts
    <2>7. \A n \in Block!Names : \E k \in Block!Names : r.block[n] = s.block[k] /\ r.data[n] = s.data[k]
      BY <1>0, <2>3
    <2>8. /\ \A n \in Block!Names : r.block[n] # Nil => r.block[n] <= r.used
          /\ \A n \in Block!Names : r.data[n] = IF r.block[n] \in r.made THEN r.block[n] ELSE Nil
      BY <2>3, <2>7 DEF Block!Sound
    <2>9. \A c \in 1..r.used : r.shared_count[c] = Block!Cardinality(Block!Holders(r, c))
      BY <1>0, <2>2, <2>3, <2>5, <2>6 DEF Block!Sound
    <2>10. \A o \in r.made : /\ o <= r.used
                             /\ r.deletes[o] = IF Block!Holders(r, o) = {} THEN 1 ELSE 0
      BY <1>0, <2>3, <2>5, <2>6 DEF Block!Sound
    <2>11. \A c \in Block!Cells : c > r.used => r.deletes[c] = 0
      BY <2>3 DEF Block!Sound
    <2> QED
      BY <2>3, <2>4, <2>8, <2>9, <2>10, <2>11 DEF Block!Sound
  <1> QED
    BY <1>3, <1>4

\* An empty name gets a new block.
LEMMA AdoptSound ==
  ASSUME Block!BlockAssumption, NEW s, Block!Sound(s), NEW h \in Block!Names, s.block[h] = Nil,
         s.used < MaxNew, NEW d
  PROVE  LET r == Block!Adopt(s, h, d)
         IN  /\ Block!Sound(r) /\ r.block = [s.block EXCEPT ![h] = s.used + 1] /\ r.live = s.live
  <1> DEFINE n == s.used + 1
             p == IF d = Nil THEN Nil ELSE n
             made == IF d = Nil THEN s.made ELSE s.made \cup {n}
             count == [s.shared_count EXCEPT ![n] = 1]
             t == Block!Point(s, h, p, n)
             r == Block!Adopt(s, h, d)
  <1> SUFFICES /\ Block!Sound(r) /\ r.block = [s.block EXCEPT ![h] = n] /\ r.live = s.live
    OBVIOUS
  <1>0. /\ s \in Block!Heaps /\ s.block \in [Block!Names -> Block!Cells \cup {Nil}]
        /\ s.used \in 0..MaxNew
        /\ s.data \in [Block!Names -> Block!Cells \cup {Nil}] /\ s.made \in SUBSET Block!Cells
        /\ s.shared_count \in [Block!Cells -> Nat] /\ s.deletes \in [Block!Cells -> Nat]
        /\ s.live \in SUBSET Handles /\ 1..s.used \subseteq Block!Cells
        /\ Nil \notin Block!Cells /\ Block!Cells \subseteq Nat \ {0}
    BY SoundTypes
  <1>1. n \in Block!Cells /\ n \notin 1..s.used /\ n \in 0..MaxNew /\ 1..n = (1..s.used) \cup {n}
        /\ n \in Nat
    BY <1>0 DEF Block!Cells, Block!BlockAssumption
  <1>2. /\ t \in Block!Heaps
        /\ t = Heap([s.data EXCEPT ![h] = p], [s.block EXCEPT ![h] = n],
                    s.live, s.used, s.made, s.shared_count, s.deletes)
    <2>1. p \in Block!Cells \cup {Nil} /\ n \in Block!Cells \cup {Nil} /\ s \in Block!Heaps
      BY <1>0, <1>1
    <2> HIDE DEF p, n
    <2> QED
      BY <2>1, PointFacts
  <1>3. r = [t EXCEPT !.used = n, !.shared_count[n] = 1,
                      !.made = IF d = Nil THEN @ ELSE @ \cup {n}]
    BY DEF Block!Adopt
  <1>4. t.made = s.made /\ t.shared_count = s.shared_count
    BY <1>2 DEF Heap
  <1>5. r = Heap([s.data EXCEPT ![h] = p], [s.block EXCEPT ![h] = n],
                 s.live, n, made, count, s.deletes)
    <2> HIDE DEF t, r, n, p
    <2> QED
      BY <1>2, <1>3, <1>4 DEF Heap
  <1>6. /\ p \in Block!Cells \cup {Nil} /\ made \in SUBSET Block!Cells
        /\ count \in [Block!Cells -> Nat]
        /\ p = IF n \in made THEN n ELSE Nil
        /\ \A o \in made : o \in s.made \/ (o = n /\ d # Nil)
        /\ s.made \subseteq made
        /\ \A c \in Block!Cells : c # n => (c \in made <=> c \in s.made)
        /\ count[n] = 1 /\ \A c \in Block!Cells : c # n => count[c] = s.shared_count[c]
    <2>1. n \notin s.made
      BY <1>0, <1>1 DEF Block!Sound
    <2> QED
      BY <1>0, <1>1, <2>1
  <1> HIDE DEF t, r, p, made, count
  <1>7. /\ r.data = [s.data EXCEPT ![h] = p] /\ r.block = [s.block EXCEPT ![h] = n]
        /\ r.live = s.live /\ r.used = n /\ r.made = made
        /\ r.shared_count = count /\ r.deletes = s.deletes
    BY <1>5 DEF Heap
  <1>8. r \in Block!Heaps
    <2>1. /\ r.data \in [Block!Names -> Block!Cells \cup {Nil}]
          /\ r.block \in [Block!Names -> Block!Cells \cup {Nil}]
      BY <1>0, <1>1, <1>6, <1>7
    <2> QED
      BY <1>0, <1>1, <1>5, <1>6, <1>7, <2>1 DEF Block!Heaps, Heap
  <1>9. Block!Holders(s, n) = {}
    BY <1>0, <1>1 DEF Block!Sound, Block!Holders
  <1>10. Block!Cardinality(Block!Holders(r, n)) = 1 /\ Block!Holders(r, n) # {}
    <2>1. /\ Block!Cardinality(Block!Holders(r, n)) = Block!Cardinality(Block!Holders(s, n)) + 1
          /\ Block!Holders(r, n) # {}
      BY <1>0, <1>1, <1>7, HoldersFacts
    <2> QED
      BY SameCounting, <1>9, <2>1, FS_EmptySet
  <1>11. ASSUME NEW c \in Block!Cells, c # n PROVE Block!Holders(r, c) = Block!Holders(s, c)
    <2>1. /\ s.block[h] # c /\ r.block = [s.block EXCEPT ![h] = n]
          /\ n \in Block!Cells \cup {Nil}
          /\ s \in Block!Heaps /\ c # n
      BY <1>0, <1>1, <1>7, <1>11
    <2> HIDE DEF n
    <2> QED
      BY <2>1, HoldersFacts
  <1>12. ASSUME NEW k \in Block!Names
         PROVE  /\ r.block[k] # Nil => r.block[k] <= r.used
                /\ r.data[k] = IF r.block[k] \in r.made THEN r.block[k] ELSE Nil
    <2>1. CASE k = h
      BY <1>0, <1>1, <1>6, <1>7, <2>1
    <2>2. CASE k # h
      <3>1. r.block[k] = s.block[k] /\ r.data[k] = s.data[k] /\ s.block[k] \in Block!Cells \cup {Nil}
        BY <1>0, <1>7, <2>2
      <3>2. s.block[k] # n /\ (s.block[k] # Nil => s.block[k] <= s.used)
            /\ s.data[k] = IF s.block[k] \in s.made THEN s.block[k] ELSE Nil
        BY <1>0, <1>1 DEF Block!Sound
      <3>3. s.block[k] \in made <=> s.block[k] \in s.made
        BY <1>0, <1>6, <3>1, <3>2
      <3>4. s.block[k] # Nil => s.block[k] <= n
        <4>1. s.block[k] # Nil => s.block[k] \in Nat
          BY <1>0, <3>1
        <4> QED
          BY <1>0, <3>2, <4>1
      <3> QED
        BY <1>7, <3>1, <3>2, <3>3, <3>4
    <2> QED
      BY <2>1, <2>2
  <1>13. \A c \in 1..r.used : r.shared_count[c] = Block!Cardinality(Block!Holders(r, c))
    BY <1>0, <1>1, <1>6, <1>7, <1>10, <1>11 DEF Block!Sound
  <1>14. ASSUME NEW o \in r.made
         PROVE  o <= r.used /\ r.deletes[o] = IF Block!Holders(r, o) = {} THEN 1 ELSE 0
    <2>1. CASE o \in s.made
      <3>1. o # n /\ o <= s.used /\ o \in Block!Cells
        BY <1>0, <1>1, <2>1 DEF Block!Sound
      <3> QED
        BY <1>0, <1>1, <1>7, <1>11, <2>1, <3>1 DEF Block!Sound
    <2>2. CASE o = n
      BY <1>0, <1>1, <1>7, <1>10, <2>2 DEF Block!Sound
    <2> QED
      BY <1>6, <1>7, <2>1, <2>2
  <1>15. \A c \in Block!Cells : c > r.used => r.deletes[c] = 0
    BY <1>0, <1>1, <1>7 DEF Block!Sound
  <1>16. Block!Sound(r)
    BY <1>8, <1>12, <1>13, <1>14, <1>15 DEF Block!Sound
  <1> QED
    BY <1>7, <1>16

LEMMA LiveSound ==
  ASSUME NEW s, Block!Sound(s), NEW l \in SUBSET Handles
  PROVE  LET r == [s EXCEPT !.live = l]
         IN  /\ Block!Sound(r) /\ r.block = s.block /\ r.live = l /\ r.used = s.used /\ r.made = s.made
  <1> DEFINE r == [s EXCEPT !.live = l]
  <1> SUFFICES /\ Block!Sound(r) /\ r.block = s.block /\ r.live = l /\ r.used = s.used
               /\ r.made = s.made
    OBVIOUS
  <1>1. /\ r \in Block!Heaps /\ r.data = s.data /\ r.block = s.block /\ r.live = l
        /\ r.used = s.used /\ r.made = s.made /\ r.shared_count = s.shared_count
        /\ r.deletes = s.deletes
    BY DEF Block!Sound, Block!Heaps
  <1> HIDE DEF r
  <1>2. \A b : Block!Holders(r, b) = Block!Holders(s, b)
    BY <1>1 DEF Block!Holders
  <1> QED
    BY <1>1, <1>2 DEF Block!Sound

\* What an operation leaves: a sound heap in which only live handles hold.
LEMMA StepKeeps ==
  ASSUME Block!BlockAssumption, NEW r, Block!Sound(r), NEW l \in SUBSET Handles,
         \A n \in Block!Names \ l : r.block[n] = Nil,
         blocks' = [r EXCEPT !.live = l]
  PROVE  Block!Sound(blocks') /\ Block!Settled'
  <1>1. /\ Block!Sound([r EXCEPT !.live = l])
        /\ [r EXCEPT !.live = l].block = r.block /\ [r EXCEPT !.live = l].live = l
    BY LiveSound
  <1> QED
    BY <1>1 DEF Block!Settled

LEMMA BecomesKeeps ==
  ASSUME Block!BlockAssumption, NEW r, Block!Sound(r),
         \A n \in Block!Names \ r.live : r.block[n] = Nil, Block!Becomes(r)
  PROVE  Block!Sound(blocks') /\ Block!Settled'
  BY DEF Block!Becomes, Block!Settled

LEMMA OwnersCounted ==
  ASSUME Block!BlockAssumption, Block!Sound(blocks), Block!Settled
  PROVE  Block!DeletedByLast
  <1>1. /\ 1..blocks.used \subseteq Block!Cells /\ Nil \notin Block!Cells
        /\ blocks.made \in SUBSET Block!Cells
        /\ blocks.live \in SUBSET Handles
    BY SoundTypes
  <1>2. ASSUME NEW b \in Block!Cells PROVE Block!Owners(b) = Block!Holders(blocks, b)
    BY <1>1 DEF Block!Owners, Block!Holders, Block!Settled, Block!Names
  <1>3. \A b \in 1..blocks.used : blocks.shared_count[b] = Block!Cardinality(Block!Owners(b))
    BY <1>1, <1>2 DEF Block!Sound
  <1>4. \A o \in blocks.made : blocks.deletes[o] = IF Block!Owners(o) = {} THEN 1 ELSE 0
    BY <1>1, <1>2 DEF Block!Sound
  <1>5. \A h \in blocks.live : blocks.data[h] # Nil => blocks.block[h] = blocks.data[h]
    BY <1>1 DEF Block!Sound, Block!Names
  <1> QED
    BY <1>3, <1>4, <1>5 DEF Block!DeletedByLast

\* The constructors: of a handle that holds nothing.
LEMMA CreateKeeps ==
  ASSUME Block!BlockAssumption, Block!Sound(blocks), Block!Settled, Block!Create
  PROVE  Block!Sound(blocks') /\ Block!Settled'
  <1>0. blocks.live \in SUBSET Handles /\ Handles \subseteq Block!Names
    BY SoundTypes DEF Block!Names
  <1>1. PICK h \in Handles \ blocks.live :
          \/ Block!BecomesLive(Block!Point(blocks, h, Nil, Nil), h)
          \/ blocks.used < MaxNew /\ Block!BecomesLive(Block!Adopt(blocks, h, "object"), h)
          \/ \E g \in blocks.live :
               Block!BecomesLive(Block!Copy(blocks, h, g), h) \/ Block!BecomesLive(Block!Move(blocks, h, g), h)
    BY DEF Block!Create
  <1>2. h \in Block!Names /\ blocks.block[h] = Nil /\ blocks.live \cup {h} \in SUBSET Handles
    BY <1>0 DEF Block!Settled
  <1>3. Block!Reset(blocks, h) = blocks
    BY <1>2, ResetFacts
  <1>4. Block!Point(blocks, h, Nil, Nil) = blocks
    BY <1>2, <1>3 DEF Block!Reset, Block!Dec
  <1>5. ASSUME NEW r, Block!Sound(r), r.live = blocks.live, Block!BecomesLive(r, h),
               \A n \in Block!Names \ (blocks.live \cup {h}) : r.block[n] = Nil
        PROVE  Block!Sound(blocks') /\ Block!Settled'
    BY <1>2, <1>5, StepKeeps DEF Block!BecomesLive
  <1>6. CASE Block!BecomesLive(Block!Point(blocks, h, Nil, Nil), h)
    BY <1>4, <1>5, <1>6 DEF Block!Settled
  <1>7. CASE blocks.used < MaxNew /\ Block!BecomesLive(Block!Adopt(blocks, h, "object"), h)
    <2> DEFINE r == Block!Adopt(blocks, h, "object")
    <2>1. Block!Sound(r) /\ r.block = [blocks.block EXCEPT ![h] = blocks.used + 1]
          /\ r.live = blocks.live
      BY <1>2, <1>7, AdoptSound
    <2> HIDE DEF r
    <2>2. \A n \in Block!Names \ (blocks.live \cup {h}) : r.block[n] = Nil
      BY <2>1, SoundTypes DEF Block!Settled
    <2> QED
      BY <1>5, <1>7, <2>1, <2>2 DEF r
  <1>8. ASSUME NEW g \in blocks.live, Block!BecomesLive(Block!Copy(blocks, h, g), h)
        PROVE  Block!Sound(blocks') /\ Block!Settled'
    <2> DEFINE r == Block!Copy(blocks, h, g)
    <2>1. Block!Sound(r) /\ r.block = [blocks.block EXCEPT ![h] = blocks.block[g]]
          /\ r.live = blocks.live
      BY <1>0, <1>2, CopySound
    <2> HIDE DEF r
    <2>2. \A n \in Block!Names \ (blocks.live \cup {h}) : r.block[n] = Nil
      BY <2>1, SoundTypes DEF Block!Settled
    <2> QED
      BY <1>5, <1>8, <2>1, <2>2 DEF r
  <1>9. ASSUME NEW g \in blocks.live, Block!BecomesLive(Block!Move(blocks, h, g), h)
        PROVE  Block!Sound(blocks') /\ Block!Settled'
    <2> DEFINE m == Block!Swap(blocks, h, g)
               r == Block!Reset(m, g)
    <2>1. /\ Block!Sound(m) /\ m.live = blocks.live
          /\ m.block = [[blocks.block EXCEPT ![h] = blocks.block[g]] EXCEPT ![g] = blocks.block[h]]
      BY <1>0, <1>2, SwapSound
    <2> HIDE DEF m
    <2>2. Block!Sound(r) /\ r.block = [m.block EXCEPT ![g] = Nil] /\ r.live = blocks.live
      BY <1>0, <2>1, ResetSound
    <2>3. Block!Move(blocks, h, g) = r
      BY <1>4 DEF Block!Move, m
    <2> HIDE DEF r
    <2>4. \A n \in Block!Names \ (blocks.live \cup {h}) : r.block[n] = Nil
      BY <2>1, <2>2, SoundTypes DEF Block!Settled
    <2> QED
      BY <1>5, <1>9, <2>2, <2>3, <2>4
  <1> QED
    BY <1>1, <1>6, <1>7, <1>8, <1>9

\* The assignments; that of a copy goes through a temporary.
LEMMA AssignKeeps ==
  ASSUME Block!BlockAssumption, Block!Sound(blocks), Block!Settled, Block!Assign
  PROVE  Block!Sound(blocks') /\ Block!Settled'
  <1>0. /\ blocks.live \in SUBSET Handles /\ Handles \subseteq Block!Names
        /\ Temp \in Block!Names /\ Temp \notin blocks.live
        /\ blocks.block \in [Block!Names -> Block!Cells \cup {Nil}]
    BY SoundTypes DEF Block!Names, Block!BlockAssumption
  <1>1. PICK h \in blocks.live, g \in blocks.live :
          Block!Becomes(Block!CopyAssign(blocks, h, g)) \/ Block!Becomes(Block!MoveAssign(blocks, h, g))
    BY DEF Block!Assign
  <1>2. h \in Block!Names /\ g \in Block!Names /\ blocks.block[Temp] = Nil
    BY <1>0 DEF Block!Settled
  <1>3. CASE Block!Becomes(Block!CopyAssign(blocks, h, g))
    <2> DEFINE c == Block!Copy(blocks, Temp, g)
               m == Block!Swap(c, h, Temp)
               r == Block!Reset(m, Temp)
    <2>1. /\ Block!Sound(c) /\ c.live = blocks.live
          /\ c.block = [blocks.block EXCEPT ![Temp] = blocks.block[g]]
      BY <1>0, <1>2, CopySound
    <2>2. Block!CopyAssign(blocks, h, g) = r
      BY DEF Block!CopyAssign, Block!Reset
    <2> HIDE DEF c
    <2>3. /\ Block!Sound(m) /\ m.live = blocks.live
          /\ m.block = [[c.block EXCEPT ![h] = c.block[Temp]] EXCEPT ![Temp] = c.block[h]]
      BY <1>0, <1>2, <2>1, SwapSound
    <2> HIDE DEF m
    <2>4. Block!Sound(r) /\ r.block = [m.block EXCEPT ![Temp] = Nil] /\ r.live = blocks.live
      BY <1>0, <2>3, ResetSound
    <2> HIDE DEF r
    <2>5. ASSUME NEW n \in Block!Names \ blocks.live PROVE r.block[n] = Nil
      <3>1. n # h /\ blocks.block[n] = Nil
        BY DEF Block!Settled
      <3>2. n = Temp => r.block[n] = Nil
        BY <1>0, <2>1, <2>3, <2>4
      <3>3. n # Temp => r.block[n] = blocks.block[n]
        BY <1>0, <2>1, <2>3, <2>4, <3>1
      <3> QED
        BY <3>1, <3>2, <3>3
    <2> QED
      BY <1>3, <2>2, <2>4, <2>5, BecomesKeeps
  <1>4. CASE Block!Becomes(Block!MoveAssign(blocks, h, g))
    <2> DEFINE m == Block!Swap(blocks, h, g)
               r == Block!Reset(m, g)
    <2>1. /\ Block!Sound(m) /\ m.live = blocks.live
          /\ m.block = [[blocks.block EXCEPT ![h] = blocks.block[g]] EXCEPT ![g] = blocks.block[h]]
      BY <1>2, SwapSound
    <2>2. Block!MoveAssign(blocks, h, g) = r
      BY DEF Block!MoveAssign
    <2> HIDE DEF m
    <2>3. Block!Sound(r) /\ r.block = [m.block EXCEPT ![g] = Nil] /\ r.live = blocks.live
      BY <1>2, <2>1, ResetSound
    <2> HIDE DEF r
    <2>4. ASSUME NEW n \in Block!Names \ blocks.live PROVE r.block[n] = Nil
      BY <1>0, <2>1, <2>3 DEF Block!Settled
    <2> QED
      BY <1>4, <2>2, <2>3, <2>4, BecomesKeeps
  <1> QED
    BY <1>1, <1>3, <1>4

LEMMA LiveFacts ==
  ASSUME NEW s \in Block!Heaps, NEW l
  PROVE  [s EXCEPT !.live = l] = Heap(s.data, s.block, l, s.used, s.made, s.shared_count, s.deletes)
  BY DEF Block!Heaps, Heap

\* reset and the destructor: the members that Dec leaves are overwritten.
LEMMA DecOverwritten ==
  ASSUME Block!BlockAssumption, NEW s, Block!Sound(s), NEW h \in Block!Names
  PROVE  /\ \A d : s.used < MaxNew => Block!Adopt(Block!Dec(s, h), h, d) = Block!Adopt(Block!Reset(s, h), h, d)
         /\ [Block!Dec(s, h) EXCEPT !.live = @ \ {h}, !.data[h] = Nil, !.block[h] = Nil]
              = [Block!Reset(s, h) EXCEPT !.live = s.live \ {h}]
         /\ Block!Dec(s, h).used = s.used
  <1> DEFINE t == Block!Dec(s, h)
             r == Block!Reset(s, h)
  <1>1. t \in Block!Heaps /\ Block!Sound(r) /\ r.live = s.live /\ r.used = s.used
    BY ResetFacts, ResetSound
  <1>2. Nil \in Block!Cells \cup {Nil}
    OBVIOUS
  <1>3. r = Block!Point(t, h, Nil, Nil)
    BY DEF Block!Reset
  <1> HIDE DEF t, r
  <1>4. r = Heap([t.data EXCEPT ![h] = Nil], [t.block EXCEPT ![h] = Nil],
                 t.live, t.used, t.made, t.shared_count, t.deletes)
    BY <1>1, <1>2, <1>3, PointFacts
  <1>5. /\ r.data = [t.data EXCEPT ![h] = Nil] /\ r.block = [t.block EXCEPT ![h] = Nil]
        /\ r.live = t.live /\ r.used = t.used /\ r.made = t.made
        /\ r.shared_count = t.shared_count /\ r.deletes = t.deletes /\ r \in Block!Heaps
    BY <1>1, <1>4 DEF Heap, Block!Sound
  <1>6. ASSUME NEW d, s.used < MaxNew PROVE Block!Adopt(t, h, d) = Block!Adopt(r, h, d)
    <2> DEFINE n == t.used + 1
               p == IF d = Nil THEN Nil ELSE n
    <2>1. n \in Block!Cells \cup {Nil} /\ p \in Block!Cells \cup {Nil}
      <3>1. t.used \in 0..MaxNew /\ t.used < MaxNew
        BY <1>1, <1>5, <1>6 DEF Block!Heaps
      <3>2. n \in Block!Cells
        BY <3>1 DEF Block!Cells, Block!BlockAssumption
      <3> QED
        BY <3>2
    <2> HIDE DEF n, p
    <2>2. Block!Point(t, h, p, n) = Heap([t.data EXCEPT ![h] = p], [t.block EXCEPT ![h] = n],
                                   t.live, t.used, t.made, t.shared_count, t.deletes)
      BY <1>1, <2>1, PointFacts
    <2>3. Block!Point(r, h, p, n) = Heap([r.data EXCEPT ![h] = p], [r.block EXCEPT ![h] = n],
                                   r.live, r.used, r.made, r.shared_count, r.deletes)
      BY <1>5, <2>1, PointFacts
    <2>4. [r.data EXCEPT ![h] = p] = [t.data EXCEPT ![h] = p]
          /\ [r.block EXCEPT ![h] = n] = [t.block EXCEPT ![h] = n]
      BY <1>1, <1>5 DEF Block!Heaps
    <2>5. Block!Point(t, h, p, n) = Block!Point(r, h, p, n)
      BY <1>5, <2>2, <2>3, <2>4
    <2> QED
      BY <1>5, <2>5 DEF Block!Adopt, n, p
  <1>7. [t EXCEPT !.live = @ \ {h}, !.data[h] = Nil, !.block[h] = Nil]
          = [r EXCEPT !.live = s.live \ {h}]
    <2>1. [r EXCEPT !.live = s.live \ {h}] =
            Heap(r.data, r.block, s.live \ {h}, r.used, r.made, r.shared_count, r.deletes)
      BY <1>5, LiveFacts
    <2> DEFINE v == [t EXCEPT !.live = @ \ {h}]
               w == [v EXCEPT !.data[h] = Nil]
               y == [w EXCEPT !.block[h] = Nil]
    <2>2. v = Heap(t.data, t.block, s.live \ {h}, t.used, t.made, t.shared_count, t.deletes)
      <3>1. [t EXCEPT !.live = t.live \ {h}] =
              Heap(t.data, t.block, t.live \ {h}, t.used, t.made, t.shared_count, t.deletes)
        BY <1>1, LiveFacts
      <3>2. t.live = s.live
        BY <1>1, <1>5
      <3> QED
        BY <3>1, <3>2
    <2> HIDE DEF v
    <2>3. w = Heap([t.data EXCEPT ![h] = Nil], t.block, s.live \ {h}, t.used, t.made,
                   t.shared_count, t.deletes)
      BY <2>2 DEF Heap
    <2> HIDE DEF w
    <2>4. y = Heap([t.data EXCEPT ![h] = Nil], [t.block EXCEPT ![h] = Nil], s.live \ {h},
                   t.used, t.made, t.shared_count, t.deletes)
      <3>1. y = [w EXCEPT !.block = [w.block EXCEPT ![h] = Nil]] /\ w.block = t.block
        BY <2>3 DEF Heap
      <3> HIDE DEF y
      <3>2. y = [w EXCEPT !.block = [t.block EXCEPT ![h] = Nil]]
        BY <3>1
      <3> QED
        BY <2>3, <3>2 DEF Heap
    <2>5. y = [t EXCEPT !.live = @ \ {h}, !.data[h] = Nil, !.block[h] = Nil]
      BY DEF v, w
    <2> HIDE DEF y
    <2> QED
      BY <1>5, <2>1, <2>4, <2>5
  <1> QED
    BY <1>1, <1>5, <1>6, <1>7 DEF t, r

LEMMA EndKeeps ==
  ASSUME Block!BlockAssumption, Block!Sound(blocks), Block!Settled, Block!Resets \/ Block!Destroys
  PROVE  Block!Sound(blocks') /\ Block!Settled'
  <1>0. /\ blocks.live \in SUBSET Handles /\ Handles \subseteq Block!Names
        /\ blocks.block \in [Block!Names -> Block!Cells \cup {Nil}]
    BY SoundTypes DEF Block!Names
  <1>1. ASSUME NEW h \in blocks.live
        PROVE  LET r == Block!Reset(blocks, h)
               IN  /\ Block!Sound(r) /\ r.live = blocks.live /\ r.block[h] = Nil
                   /\ r.used = blocks.used
                   /\ \A n \in Block!Names \ (blocks.live \ {h}) : r.block[n] = Nil
    <2> DEFINE r == Block!Reset(blocks, h)
    <2>1. /\ Block!Sound(r) /\ r.block = [blocks.block EXCEPT ![h] = Nil]
          /\ r.live = blocks.live /\ r.used = blocks.used
      BY <1>0, ResetSound
    <2> HIDE DEF r
    <2>2. r.block[h] = Nil /\ \A n \in Block!Names \ (blocks.live \ {h}) : r.block[n] = Nil
      BY <1>0, <2>1 DEF Block!Settled
    <2> QED
      BY <2>1, <2>2 DEF r
  <1>2. CASE Block!Resets
    <2>1. PICK h \in blocks.live :
            \/ Block!Becomes(Block!Reset(blocks, h))
            \/ /\ blocks.used < MaxNew
               /\ \E d \in {"object", Nil} : Block!Becomes(Block!Adopt(Block!Dec(blocks, h), h, d))
      BY <1>2 DEF Block!Resets
    <2> DEFINE r == Block!Reset(blocks, h)
    <2>2. /\ Block!Sound(r) /\ r.live = blocks.live /\ r.block[h] = Nil /\ r.used = blocks.used
          /\ \A n \in Block!Names \ blocks.live : r.block[n] = Nil
      BY <1>1
    <2>3. CASE Block!Becomes(r)
      BY <2>2, <2>3, BecomesKeeps
    <2>4. ASSUME NEW d, blocks.used < MaxNew, Block!Becomes(Block!Adopt(Block!Dec(blocks, h), h, d))
          PROVE  Block!Sound(blocks') /\ Block!Settled'
      <3> DEFINE a == Block!Adopt(r, h, d)
      <3>1. Block!Becomes(a)
        <4>1. h \in Block!Names
          BY <1>0
        <4>2. \A e : blocks.used < MaxNew =>
                        Block!Adopt(Block!Dec(blocks, h), h, e) = Block!Adopt(Block!Reset(blocks, h), h, e)
          BY <4>1, DecOverwritten
        <4> QED
          BY <2>4, <4>2
      <3> HIDE DEF r
      <3>2. Block!Sound(a) /\ a.block = [r.block EXCEPT ![h] = r.used + 1] /\ a.live = r.live
        BY <1>0, <2>2, <2>4, AdoptSound
      <3> HIDE DEF a
      <3>3. \A n \in Block!Names \ a.live : a.block[n] = Nil
        BY <2>2, <3>2, SoundTypes
      <3> QED
        BY <3>1, <3>2, <3>3, BecomesKeeps
    <2> QED
      BY <2>1, <2>3, <2>4
  <1>3. CASE Block!Destroys
    <2>1. PICK h \in blocks.live :
            blocks' = [Block!Dec(blocks, h) EXCEPT !.live = @ \ {h}, !.data[h] = Nil, !.block[h] = Nil]
      BY <1>3 DEF Block!Destroys
    <2>2. blocks' = [Block!Reset(blocks, h) EXCEPT !.live = blocks.live \ {h}]
      BY <1>0, <2>1, DecOverwritten
    <2>3. blocks.live \ {h} \in SUBSET Handles
      BY <1>0
    <2> QED
      BY <1>1, <2>2, <2>3, StepKeeps
  <1> QED
    BY <1>2, <1>3

LEMMA BlocksCounted == Block!BlockAssumption => (Block!Spec => []Block!Inv)
  <1> SUFFICES ASSUME Block!BlockAssumption PROVE Block!Spec => []Block!Inv
    OBVIOUS
  <1>1. Block!Init => Block!Inv
    <2> SUFFICES ASSUME Block!Init PROVE Block!Inv
      OBVIOUS
    <2>1. blocks \in Block!Heaps
      BY DEF Block!Init, Block!Heaps, Block!BlockAssumption
    <2>2. /\ blocks.used = 0 /\ blocks.made = {} /\ blocks.live = {}
          /\ \A c \in Block!Cells : blocks.deletes[c] = 0
          /\ \A h \in Block!Names : blocks.block[h] = Nil /\ blocks.data[h] = Nil
      BY DEF Block!Init
    <2>3. Block!Sound(blocks) /\ Block!Settled
      BY <2>1, <2>2, NamesFacts DEF Block!Sound, Block!Settled
    <2> QED
      BY <2>3, OwnersCounted DEF Block!Inv
  <1>2. Block!Inv /\ [Block!Next]_blocks => Block!Inv'
    <2> SUFFICES ASSUME Block!Inv, [Block!Next]_blocks PROVE Block!Inv'
      OBVIOUS
    <2>1. Block!Sound(blocks) /\ Block!Settled
      BY DEF Block!Inv
    <2>2. Block!Sound(blocks') /\ Block!Settled'
      <3>1. CASE Block!Create
        BY <2>1, <3>1, CreateKeeps
      <3>2. CASE Block!Assign
        BY <2>1, <3>2, AssignKeeps
      <3>3. CASE Block!Resets \/ Block!Destroys
        BY <2>1, <3>3, EndKeeps
      <3>4. CASE UNCHANGED blocks
        BY <2>1, <3>4 DEF Block!Settled
      <3> QED
        BY <3>1, <3>2, <3>3, <3>4 DEF Block!Next
    <2>3. (Block!BlockAssumption /\ Block!Sound(blocks) /\ Block!Settled => Block!DeletedByLast)'
      BY OwnersCounted, PTL
    <2> QED
      BY <2>2, <2>3 DEF Block!Inv
  <1> QED
    BY <1>1, <1>2, PTL DEF Block!Spec

\* shared_ptr.h with cblock.h, and function.cpp: however many handles are
\* copied, moved, assigned (to themselves, too), reset and destroyed, what
\* they own is deleted once, when the last of them lets it go.
THEOREM OwnersDeleteOnce ==
  Block!BlockAssumption /\ Callable!FunctorAssumption => (Block!Spec /\ Callable!Spec => []OwnersDelete)
  <1>1. /\ Block!BlockAssumption => (Block!Spec => []Block!Inv)
        /\ Callable!FunctorAssumption => (Callable!Spec => []Callable!Inv)
    BY BlocksCounted, FunctorsOwn
  <1> SUFFICES ASSUME Block!BlockAssumption, Callable!FunctorAssumption
               PROVE  Block!Spec /\ Callable!Spec => [](Block!Inv /\ Callable!Inv)
    BY DEF OwnersDelete
  <1>2. (Block!Spec => []Block!Inv) /\ (Callable!Spec => []Callable!Inv)
    BY <1>1
  <1> QED
    BY <1>2, PTL

(* HashMap                                                                 *)

\* Nodes, and the chain of number i: all its keys are of this chain, and no
\* key is in it twice.
Pairs == [k : HashKeys, v : Values]

GoodChain(s, i) ==
  /\ s \in Seq(Pairs)
  /\ \A p \in 1..Len(s) : Map!index(s[p].k) = i
  /\ \A p, q \in 1..Len(s) : s[p].k = s[q].k => p = q

TableInv ==
  /\ table \in [0..(Size - 1) -> Seq(Pairs)]
  /\ \A i \in 0..(Size - 1) : GoodChain(table[i], i)

\* A node is put before the others.
LEMMA PutFirst ==
  ASSUME NEW i, NEW s, GoodChain(s, i), NEW n \in Pairs, Map!index(n.k) = i,
         \A p \in 1..Len(s) : s[p].k # n.k
  PROVE  GoodChain(<<n>> \o s, i) /\ Map!ToSet(<<n>> \o s) = Map!ToSet(s) \cup {n}
  <1> DEFINE t == <<n>> \o s
  <1>0. s \in Seq(Pairs) /\ Len(s) \in Nat /\ DOMAIN s = 1..Len(s)
    BY DEF GoodChain
  <1>1. /\ t \in Seq(Pairs) /\ Len(t) = Len(s) + 1 /\ t[1] = n /\ DOMAIN t = 1..(Len(s) + 1)
        /\ \A p \in 1..Len(s) : p + 1 \in 1..(Len(s) + 1) /\ t[p + 1] = s[p]
        /\ \A p \in 2..(Len(s) + 1) : p - 1 \in 1..Len(s) /\ t[p] = s[p - 1]
    BY <1>0
  <1> HIDE DEF t
  <1>2. \A p \in 1..Len(t) : p = 1 \/ p \in 2..(Len(s) + 1)
    BY <1>0, <1>1
  <1>3. GoodChain(t, i)
    <2>1. \A p \in 1..Len(t) : Map!index(t[p].k) = i
      BY <1>1, <1>2 DEF GoodChain
    <2>2. ASSUME NEW p \in 1..Len(t), NEW q \in 1..Len(t), t[p].k = t[q].k PROVE p = q
      <3>1. CASE p = 1 \/ q = 1
        BY <1>1, <1>2, <2>2, <3>1
      <3>2. CASE p # 1 /\ q # 1
        <4>1. p \in 2..(Len(s) + 1) /\ q \in 2..(Len(s) + 1)
          BY <1>2, <3>2
        <4>2. p - 1 = q - 1
          BY <1>1, <2>2, <4>1 DEF GoodChain
        <4> QED
          BY <1>0, <4>1, <4>2
      <3> QED
        BY <3>1, <3>2
    <2> QED
      BY <1>1, <2>1, <2>2 DEF GoodChain
  <1>4. Map!ToSet(t) = Map!ToSet(s) \cup {n}
    <2>1. ASSUME NEW p \in 1..Len(t) PROVE t[p] \in Map!ToSet(s) \cup {n}
      <3>1. CASE p = 1
        BY <1>1, <3>1
      <3>2. CASE p \in 2..(Len(s) + 1)
        <4>1. p - 1 \in DOMAIN s /\ t[p] = s[p - 1]
          BY <1>0, <1>1, <3>2
        <4> QED
          BY <4>1 DEF Map!ToSet
      <3> QED
        BY <1>2, <3>1, <3>2
    <2>2. ASSUME NEW p \in 1..Len(s) PROVE s[p] \in Map!ToSet(t)
      <3>1. p + 1 \in DOMAIN t /\ t[p + 1] = s[p]
        BY <1>1
      <3> QED
        BY <3>1 DEF Map!ToSet
    <2>3. 1 \in DOMAIN t /\ t[1] = n
      BY <1>0, <1>1
    <2>4. Map!ToSet(s) \subseteq Map!ToSet(t) /\ n \in Map!ToSet(t)
      BY <1>0, <2>2, <2>3 DEF Map!ToSet
    <2>5. Map!ToSet(t) \subseteq Map!ToSet(s) \cup {n}
      BY <1>1, <2>1 DEF Map!ToSet
    <2> QED
      BY <2>4, <2>5
  <1> QED
    BY <1>3, <1>4 DEF t

LEMMA After ==
  ASSUME NEW S, NEW s \in Seq(S), NEW p \in 1..Len(s), NEW b, b = SubSeq(s, p + 1, Len(s))
  PROVE  b \in Seq(S) /\ Len(b) = Len(s) - p /\ \A q \in 1..(Len(s) - p) : b[q] = s[p + q]
  <1> DEFINE n == Len(s)
  <1>0. n \in Nat /\ p \in 1..n /\ (\A q \in 1..n : s[q] \in S) /\ b = SubSeq(s, p + 1, n)
    OBVIOUS
  <1> HIDE DEF n
  <1>1. p + 1 \in Int /\ n \in Int /\ \A q \in (p + 1)..n : s[q] \in S
    BY <1>0
  <1>2. /\ b \in Seq(S) /\ Len(b) = IF p + 1 <= n THEN n - (p + 1) + 1 ELSE 0
        /\ \A q \in 1..(n - (p + 1) + 1) : b[q] = s[p + 1 + q - 1]
    BY <1>0, <1>1, SubSeqProperties
  <1>3. n - (p + 1) + 1 = n - p /\ (~(p + 1 <= n) => n - p = 0)
    BY <1>0
  <1>4. \A q \in 1..(n - p) : p + 1 + q - 1 = p + q
    BY <1>0
  <1>5. Len(b) = n - p
    BY <1>0, <1>2, <1>3
  <1>6. ASSUME NEW q \in 1..(n - p) PROVE b[q] = s[p + q]
    <2>1. b[q] = s[p + 1 + q - 1]
      BY <1>2, <1>3
    <2> QED
      BY <1>4, <2>1
  <1> QED
    BY <1>2, <1>5, <1>6 DEF n

\* A node is unlinked.
LEMMA Unlink ==
  ASSUME NEW i, NEW s, GoodChain(s, i), NEW p \in 1..Len(s)
  PROVE  GoodChain(Map!RemoveAt(s, p), i) /\ Map!ToSet(Map!RemoveAt(s, p)) = Map!ToSet(s) \ {s[p]}
  <1> DEFINE t == Map!RemoveAt(s, p)
  <1>0. s \in Seq(Pairs) /\ Len(s) \in Nat \ {0} /\ DOMAIN s = 1..Len(s) /\ p \in Nat
    BY DEF GoodChain
  <1>1. /\ t \in Seq(Pairs) /\ Len(t) = Len(s) - 1 /\ DOMAIN t = 1..(Len(s) - 1)
        /\ \A q \in 1..(Len(s) - 1) : t[q] = IF q < p THEN s[q] ELSE s[q + 1]
    <2> DEFINE a == SubSeq(s, 1, p - 1)
               b == SubSeq(s, p + 1, Len(s))
    <2>1. /\ a \in Seq(Pairs) /\ Len(a) = p - 1
          /\ \A q \in 1..(p - 1) : a[q] = s[q]
      BY <1>0, SubSeqProperties
    <2>2. /\ b \in Seq(Pairs) /\ Len(b) = Len(s) - p
          /\ \A q \in 1..(Len(s) - p) : b[q] = s[p + q]
      <3>1. b = SubSeq(s, p + 1, Len(s))
        OBVIOUS
      <3> HIDE DEF b
      <3> QED
        BY <1>0, <3>1, After
    <2>3. t = a \o b
      BY DEF Map!RemoveAt
    <2> HIDE DEF a, b, t
    <2>4. t \in Seq(Pairs) /\ Len(t) = Len(s) - 1 /\ DOMAIN t = 1..(Len(s) - 1)
      <3>1. Len(t) = (p - 1) + (Len(s) - p) /\ t \in Seq(Pairs)
        <4>1. Len(a \o b) = Len(a) + Len(b) /\ a \o b \in Seq(Pairs)
          BY <2>1, <2>2, ConcatProperties
        <4> QED
          BY <2>1, <2>2, <2>3, <4>1
      <3>2. (p - 1) + (Len(s) - p) = Len(s) - 1
        <4>1. \A n \in Nat : \A o \in 1..n : (o - 1) + (n - o) = n - 1
          OBVIOUS
        <4> QED
          BY <1>0, <4>1
      <3> QED
        BY <3>1, <3>2
    <2>5. ASSUME NEW q \in 1..(Len(s) - 1) PROVE t[q] = IF q < p THEN s[q] ELSE s[q + 1]
      <3>1. t[q] = IF q <= Len(a) THEN a[q] ELSE b[q - Len(a)]
        BY <1>0, <2>1, <2>2, <2>3
      <3>2. CASE q < p
        BY <1>0, <2>1, <3>1, <3>2
      <3>3. CASE ~(q < p)
        <4>1. q - (p - 1) \in 1..(Len(s) - p) /\ p + (q - (p - 1)) = q + 1
          BY <1>0, <3>3
        <4> QED
          BY <1>0, <2>1, <2>2, <3>1, <3>3, <4>1
      <3> QED
        BY <3>2, <3>3
    <2> QED
      BY <2>4, <2>5
  <1> HIDE DEF t
  <1>2. \A q \in 1..Len(t) : /\ q \in 1..Len(s) /\ q + 1 \in 1..Len(s)
                             /\ t[q] = s[IF q < p THEN q ELSE q + 1]
    BY <1>0, <1>1
  <1>3. GoodChain(t, i)
    <2>1. \A q \in 1..Len(t) : Map!index(t[q].k) = i
      BY <1>2 DEF GoodChain
    <2>2. ASSUME NEW q \in 1..Len(t), NEW r \in 1..Len(t), t[q].k = t[r].k PROVE q = r
      <3>1. (IF q < p THEN q ELSE q + 1) = (IF r < p THEN r ELSE r + 1)
        BY <1>2, <2>2 DEF GoodChain
      <3> QED
        BY <1>0, <3>1
    <2> QED
      BY <1>1, <2>1, <2>2 DEF GoodChain
  <1>4. Map!ToSet(t) = Map!ToSet(s) \ {s[p]}
    <2>1. ASSUME NEW q \in 1..Len(t) PROVE t[q] \in Map!ToSet(s) \ {s[p]}
      <3> DEFINE r == IF q < p THEN q ELSE q + 1
      <3>1. r \in 1..Len(s) /\ t[q] = s[r] /\ r # p
        BY <1>0, <1>2
      <3>2. s[r] # s[p]
        BY <3>1 DEF GoodChain
      <3> QED
        BY <1>0, <3>1, <3>2 DEF Map!ToSet
    <2>2. ASSUME NEW q \in 1..Len(s), s[q] # s[p] PROVE s[q] \in Map!ToSet(t)
      <3> DEFINE r == IF q < p THEN q ELSE q - 1
      <3>1. r \in 1..(Len(s) - 1) /\ q # p
        BY <1>0, <2>2
      <3>2. t[r] = s[q]
        BY <1>0, <1>1, <3>1
      <3> QED
        BY <1>1, <3>1, <3>2 DEF Map!ToSet
    <2> QED
      BY <1>0, <1>1, <2>1, <2>2 DEF Map!ToSet
  <1> QED
    BY <1>3, <1>4 DEF t

\* A node is replaced by another of the same key.
LEMMA Overwrite ==
  ASSUME NEW i, NEW s, GoodChain(s, i), NEW p \in 1..Len(s), NEW m \in Pairs, m.k = s[p].k,
         NEW t \in Seq(Pairs), Len(t) = Len(s), t[p] = m,
         \A q \in 1..Len(s) : q # p => t[q] = s[q]
  PROVE  GoodChain(t, i) /\ Map!ToSet(t) = (Map!ToSet(s) \ {s[p]}) \cup {m}
  <1>0. s \in Seq(Pairs) /\ Len(s) \in Nat \ {0} /\ DOMAIN s = 1..Len(s) /\ p \in Nat
    BY DEF GoodChain
  <1>3. /\ t \in Seq(Pairs) /\ Len(t) = Len(s) /\ DOMAIN t = 1..Len(s)
        /\ t[p] = m /\ \A q \in 1..Len(s) : q # p => t[q] = s[q]
    BY <1>0
  <1>4. \A q \in 1..Len(s) : t[q].k = s[q].k
    BY <1>3
  <1>5. GoodChain(t, i)
    BY <1>3, <1>4 DEF GoodChain
  <1>6. \A q \in 1..Len(s) : q # p => s[q] # s[p]
    BY DEF GoodChain
  <1>7. Map!ToSet(t) = (Map!ToSet(s) \ {s[p]}) \cup {m}
    <2>1. Map!ToSet(t) \subseteq (Map!ToSet(s) \ {s[p]}) \cup {m}
      BY <1>0, <1>3, <1>6 DEF Map!ToSet
    <2>2. (Map!ToSet(s) \ {s[p]}) \cup {m} \subseteq Map!ToSet(t)
      BY <1>0, <1>3 DEF Map!ToSet
    <2> QED
      BY <2>1, <2>2
  <1> QED
    BY <1>5, <1>7

\* The nodes of a table are those of its chains, which have none in common.
NodesOf(t) == UNION {Map!ToSet(t[i]) : i \in 0..(Size - 1)}

LEMMA NodesFacts ==
  ASSUME TableInv
  PROVE  /\ \A n \in NodesOf(table) : \E i \in 0..(Size - 1) : n \in Map!ToSet(table[i])
         /\ \A i \in 0..(Size - 1) : \A n \in Map!ToSet(table[i]) :
              n \in NodesOf(table) /\ n \in Pairs /\ Map!index(n.k) = i
         /\ \A n, m \in NodesOf(table) : n.k = m.k => n = m
  <1>1. ASSUME NEW i \in 0..(Size - 1), NEW n \in Map!ToSet(table[i])
        PROVE  /\ n \in NodesOf(table) /\ n \in Pairs /\ Map!index(n.k) = i
               /\ \E p \in 1..Len(table[i]) : n = table[i][p]
    <2>1. table[i] \in Seq(Pairs) /\ DOMAIN table[i] = 1..Len(table[i])
      BY DEF TableInv
    <2>2. PICK p \in 1..Len(table[i]) : n = table[i][p]
      BY <2>1 DEF Map!ToSet
    <2>3. n \in Pairs /\ Map!index(n.k) = i
      BY <2>1, <2>2 DEF TableInv, GoodChain
    <2> QED
      BY <2>2, <2>3 DEF NodesOf
  <1>2. \A n \in NodesOf(table) : \E i \in 0..(Size - 1) : n \in Map!ToSet(table[i])
    BY DEF NodesOf
  <1>3. ASSUME NEW n \in NodesOf(table), NEW m \in NodesOf(table), n.k = m.k PROVE n = m
    <2>1. PICK i \in 0..(Size - 1) : n \in Map!ToSet(table[i])
      BY <1>2
    <2>2. PICK j \in 0..(Size - 1) : m \in Map!ToSet(table[j])
      BY <1>2
    <2>3. i = j
      BY <1>1, <1>3, <2>1, <2>2
    <2>4. PICK p \in 1..Len(table[i]) : n = table[i][p]
      BY <1>1, <2>1
    <2>5. PICK q \in 1..Len(table[i]) : m = table[i][q]
      BY <1>1, <2>2, <2>3
    <2>6. p = q
      BY <1>3, <2>4, <2>5 DEF TableInv, GoodChain
    <2> QED
      BY <2>4, <2>5, <2>6
  <1> QED
    BY <1>1, <1>2, <1>3

LEMMA ChainChanges ==
  ASSUME TableInv, NEW i \in 0..(Size - 1), NEW s, GoodChain(s, i),
         NEW gone, NEW new, gone \subseteq Map!ToSet(table[i]),
         Map!ToSet(s) = (Map!ToSet(table[i]) \ gone) \cup new,
         table' = [table EXCEPT ![i] = s]
  PROVE  TableInv' /\ NodesOf(table') = (NodesOf(table) \ gone) \cup new
  <1>1. /\ table' \in [0..(Size - 1) -> Seq(Pairs)] /\ table'[i] = s
        /\ \A j \in 0..(Size - 1) : j # i => table'[j] = table[j]
    BY DEF TableInv, GoodChain
  <1>2. TableInv'
    <2>1. \A j \in 0..(Size - 1) : GoodChain(table'[j], j)
      BY <1>1 DEF TableInv
    <2> QED
      BY <1>1, <2>1 DEF TableInv, GoodChain, Map!index
  <1>3. \A j \in 0..(Size - 1) : j # i => Map!ToSet(table[j]) \cap gone = {}
    BY NodesFacts
  <1>4. ASSUME NEW n \in NodesOf(table') PROVE n \in (NodesOf(table) \ gone) \cup new
    <2>1. PICK j \in 0..(Size - 1) : n \in Map!ToSet(table'[j])
      BY DEF NodesOf
    <2>2. CASE j = i
      BY <1>1, <2>1, <2>2, NodesFacts
    <2>3. CASE j # i
      BY <1>1, <1>3, <2>1, <2>3, NodesFacts
    <2> QED
      BY <2>2, <2>3
  <1>5. ASSUME NEW n \in (NodesOf(table) \ gone) \cup new PROVE n \in NodesOf(table')
    <2>1. CASE n \in new
      BY <1>1, <2>1 DEF NodesOf
    <2>2. CASE n \in NodesOf(table) \ gone
      <3>1. PICK j \in 0..(Size - 1) : n \in Map!ToSet(table[j])
        BY <2>2 DEF NodesOf
      <3>2. n \in Map!ToSet(table'[j])
        BY <1>1, <2>2, <3>1
      <3> QED
        BY <3>2 DEF NodesOf
    <2> QED
      BY <2>1, <2>2
  <1> QED
    BY <1>2, <1>4, <1>5

\* Where a key is looked for, it is found if it is in the table.
LEMMA Finding ==
  ASSUME Map!HashAssumption, TableInv, NEW key \in HashKeys
  PROVE  /\ Map!index(key) \in 0..(Size - 1)
         /\ Map!Present(key) <=> \E n \in NodesOf(table) : n.k = key
         /\ Map!Present(key) => /\ Map!Position(key) \in 1..Len(Map!Chain(key))
                            /\ Map!Chain(key)[Map!Position(key)].k = key
         /\ ~Map!Present(key) => \A p \in 1..Len(Map!Chain(key)) : Map!Chain(key)[p].k # key
  <1>1. Map!index(key) \in 0..(Size - 1)
    <2>1. key % Width \in 0..(Width - 1)
      BY DEF Map!HashAssumption
    <2>2. (key % Width) % Size \in 0..(Size - 1)
      BY <2>1 DEF Map!HashAssumption
    <2> QED
      BY <2>2 DEF Map!index
  <1> DEFINE spots == {i \in 1..Len(Map!Chain(key)) : Map!Chain(key)[i].k = key}
  <1>2. \A i, j \in spots : i = j
    BY <1>1 DEF TableInv, GoodChain, Map!Chain
  <1>3. /\ Map!Chain(key) \in Seq(Pairs) /\ Len(Map!Chain(key)) \in Nat
        /\ DOMAIN Map!Chain(key) = 1..Len(Map!Chain(key))
    BY <1>1 DEF TableInv, Map!Chain
  <1>4. spots # {} => Map!Position(key) \in spots
    <2> SUFFICES ASSUME NEW i \in spots PROVE Map!Position(key) \in spots
      OBVIOUS
    <2>1. i <= i
      BY <1>3
    <2>2. \A j \in spots : i <= j
      BY <1>2, <2>1
    <2>3. (CHOOSE k \in spots : \A j \in spots : k <= j) \in spots
      BY <2>2
    <2> QED
      BY <2>3 DEF Map!Position
  <1>5. spots = {} => Map!Position(key) = 0
    BY DEF Map!Position
  <1>6. Map!Present(key) <=> spots # {}
    BY <1>3, <1>4, <1>5 DEF Map!Present
  <1>7. spots # {} <=> \E n \in NodesOf(table) : n.k = key
    <2>1. ASSUME NEW i \in spots PROVE \E n \in NodesOf(table) : n.k = key
      <3>1. Map!Chain(key)[i] \in Map!ToSet(table[Map!index(key)])
        BY <1>3 DEF Map!ToSet, Map!Chain
      <3> QED
        BY <1>1, <3>1, NodesFacts
    <2>2. ASSUME NEW n \in NodesOf(table), n.k = key PROVE spots # {}
      <3>1. PICK i \in 0..(Size - 1) : n \in Map!ToSet(table[i])
        BY NodesFacts
      <3>2. n \in Map!ToSet(Map!Chain(key))
        BY <2>2, <3>1, NodesFacts DEF Map!Chain
      <3>3. PICK p \in 1..Len(Map!Chain(key)) : n = Map!Chain(key)[p]
        BY <1>3, <3>2 DEF Map!ToSet
      <3>4. p \in spots
        BY <2>2, <3>3
      <3> QED
        BY <3>4
    <2> QED
      BY <2>1, <2>2
  <1> QED
    BY <1>1, <1>4, <1>6, <1>7

\* The map that a set of nodes stands for.
MapOf(N) == [k \in {n.k : n \in N} |-> (CHOOSE n \in N : n.k = k).v]

UniqueKeys(N) == N \subseteq Pairs /\ \A n, m \in N : n.k = m.k => n = m

LEMMA MapAt ==
  ASSUME NEW N, UniqueKeys(N), NEW n \in N
  PROVE  n.k \in DOMAIN MapOf(N) /\ MapOf(N)[n.k] = n.v
  <1>1. (CHOOSE m \in N : m.k = n.k) = n
    BY DEF UniqueKeys
  <1> QED
    BY <1>1 DEF MapOf

LEMMA MapIs ==
  ASSUME NEW N, UniqueKeys(N), NEW D, NEW f, f = [k \in D |-> f[k]],
         D = {n.k : n \in N}, \A n \in N : n.v = f[n.k]
  PROVE  MapOf(N) = f
  <1>1. \A k \in D : (CHOOSE n \in N : n.k = k).v = f[k]
    BY DEF UniqueKeys
  <1>2. MapOf(N) = [k \in D |-> f[k]]
    BY <1>1 DEF MapOf
  <1> QED
    BY <1>2

LEMMA MapAdd ==
  ASSUME NEW N, UniqueKeys(N), NEW n \in Pairs, \A m \in N : m.k # n.k
  PROVE  /\ n.k \notin DOMAIN MapOf(N)
         /\ MapOf(N \cup {n}) =
              [x \in DOMAIN MapOf(N) \cup {n.k} |->
                 IF x \in DOMAIN MapOf(N) THEN MapOf(N)[x] ELSE n.v]
  <1> DEFINE D == DOMAIN MapOf(N) \cup {n.k}
             f == [x \in D |-> IF x \in DOMAIN MapOf(N) THEN MapOf(N)[x] ELSE n.v]
  <1>1. UniqueKeys(N \cup {n})
    BY DEF UniqueKeys
  <1>2. DOMAIN MapOf(N) = {m.k : m \in N} /\ n.k \notin DOMAIN MapOf(N)
    BY DEF MapOf
  <1>3. D = {m.k : m \in N \cup {n}}
    BY <1>2
  <1>4. \A m \in N \cup {n} : m.v = f[m.k]
    BY <1>2, MapAt
  <1>5. f = [x \in D |-> f[x]]
    OBVIOUS
  <1> HIDE DEF D, f
  <1>6. MapOf(N \cup {n}) = f
    BY <1>1, <1>3, <1>4, <1>5, MapIs
  <1> QED
    BY <1>2, <1>6 DEF D, f

LEMMA MapRemove ==
  ASSUME NEW N, UniqueKeys(N), NEW n \in N
  PROVE  /\ n.k \in DOMAIN MapOf(N)
         /\ MapOf(N \ {n}) = [x \in DOMAIN MapOf(N) \ {n.k} |-> MapOf(N)[x]]
  <1> DEFINE D == DOMAIN MapOf(N) \ {n.k}
             f == [x \in D |-> MapOf(N)[x]]
  <1>1. UniqueKeys(N \ {n})
    BY DEF UniqueKeys
  <1>2. DOMAIN MapOf(N) = {m.k : m \in N} /\ n.k \in DOMAIN MapOf(N)
    BY DEF MapOf
  <1>3. D = {m.k : m \in N \ {n}}
    BY <1>2 DEF UniqueKeys
  <1>4. \A m \in N \ {n} : m.v = f[m.k]
    BY <1>2, <1>3, MapAt
  <1>5. f = [x \in D |-> f[x]]
    OBVIOUS
  <1> HIDE DEF D, f
  <1>6. MapOf(N \ {n}) = f
    BY <1>1, <1>3, <1>4, <1>5, MapIs
  <1> QED
    BY <1>2, <1>6 DEF D, f

LEMMA MapWrite ==
  ASSUME NEW N, UniqueKeys(N), NEW n \in N, NEW w \in Values
  PROVE  LET m == [k |-> n.k, v |-> w]
         IN  MapOf((N \ {n}) \cup {m}) =
               [x \in DOMAIN MapOf(N) |-> IF x = n.k THEN w ELSE MapOf(N)[x]]
  <1> DEFINE m == [k |-> n.k, v |-> w]
             D == DOMAIN MapOf(N)
             f == [x \in D |-> IF x = n.k THEN w ELSE MapOf(N)[x]]
  <1>0. n \in Pairs /\ m \in Pairs /\ m.k = n.k /\ m.v = w
    BY DEF UniqueKeys, Pairs
  <1> HIDE DEF m
  <1>1. UniqueKeys((N \ {n}) \cup {m})
    BY <1>0 DEF UniqueKeys
  <1>2. D = {l.k : l \in N}
    BY DEF MapOf
  <1>3. D = {l.k : l \in (N \ {n}) \cup {m}}
    BY <1>0, <1>2
  <1>4. \A l \in (N \ {n}) \cup {m} : l.v = f[l.k]
    <2>1. m.v = f[m.k]
      BY <1>0, <1>2
    <2>2. ASSUME NEW l \in N \ {n} PROVE l.v = f[l.k]
      <3>1. l.k # n.k /\ l.k \in D
        BY <1>2 DEF UniqueKeys
      <3> QED
        BY <3>1, MapAt
    <2> QED
      BY <2>1, <2>2
  <1>5. f = [x \in D |-> f[x]]
    OBVIOUS
  <1> HIDE DEF D, f
  <1>6. MapOf((N \ {n}) \cup {m}) = f
    BY <1>1, <1>3, <1>4, <1>5, MapIs
  <1> QED
    BY <1>6 DEF D, f, m

\* Each call, as it is on the table and as it is on the map.
Stored == MapOf(NodesOf(table))

LEMMA StoredUnique == TableInv => UniqueKeys(NodesOf(table))
  BY NodesFacts DEF UniqueKeys

LEMMA InsertStep ==
  ASSUME Map!HashAssumption, TableInv, NEW key \in HashKeys, NEW value \in Values, Map!insert(key, value)
  PROVE  /\ TableInv'
         /\ Map!Present(key) <=> key \in DOMAIN Stored
         /\ Stored' = [x \in DOMAIN Stored \cup {key} |->
                        IF x \in DOMAIN Stored THEN Stored[x] ELSE value]
  <1>0. Map!Present(key) <=> key \in DOMAIN Stored
    BY Finding DEF Stored, MapOf
  <1>1. CASE Map!Present(key)
    <2>1. table' = table
      BY <1>1 DEF Map!insert
    <2>2. TableInv' /\ NodesOf(table') = NodesOf(table)
      BY <2>1 DEF TableInv, GoodChain, Map!index
    <2>3. Stored' = Stored
      BY <2>2 DEF Stored
    <2>4. Stored = [x \in DOMAIN Stored |-> Stored[x]]
      BY DEF Stored, MapOf
    <2> QED
      BY <1>0, <1>1, <2>2, <2>3, <2>4
  <1>2. CASE ~Map!Present(key)
    <2> DEFINE i == Map!index(key)
               n == [k |-> key, v |-> value]
               s == <<n>> \o table[i]
    <2>1. /\ i \in 0..(Size - 1) /\ n \in Pairs /\ n.k = key /\ n.v = value
          /\ table' = [table EXCEPT ![i] = s]
          /\ GoodChain(table[i], i)
          /\ \A p \in 1..Len(table[i]) : table[i][p].k # key
      BY <1>2, Finding DEF Map!insert, Pairs, TableInv, Map!Chain
    <2> HIDE DEF n, i
    <2>2. Map!index(n.k) = i
      BY <2>1 DEF i
    <2>3. GoodChain(s, i) /\ Map!ToSet(s) = Map!ToSet(table[i]) \cup {n}
      BY <2>1, <2>2, PutFirst
    <2> HIDE DEF s
    <2>4. TableInv' /\ NodesOf(table') = (NodesOf(table) \ {}) \cup {n}
      <3> DEFINE gone == {}
                 new == {n}
      <3>1. gone \subseteq Map!ToSet(table[i]) /\ Map!ToSet(s) = (Map!ToSet(table[i]) \ gone) \cup new
        BY <2>3
      <3> HIDE DEF gone, new
      <3>2. TableInv' /\ NodesOf(table') = (NodesOf(table) \ gone) \cup new
        BY <2>1, <2>3, <3>1, ChainChanges
      <3> QED
        BY <3>2 DEF gone, new
    <2>5. \A m \in NodesOf(table) : m.k # n.k
      BY <1>2, <2>1, Finding
    <2>6. /\ Stored' = MapOf(NodesOf(table) \cup {n})
          /\ UniqueKeys(NodesOf(table))
      BY <2>4, StoredUnique DEF Stored
    <2>7. Stored' = [x \in DOMAIN Stored \cup {n.k} |->
                       IF x \in DOMAIN Stored THEN Stored[x] ELSE n.v]
      <3> DEFINE N == NodesOf(table)
      <3>1. UniqueKeys(N) /\ n \in Pairs /\ \A m \in N : m.k # n.k
        BY <2>1, <2>5, <2>6
      <3>2. Stored = MapOf(N) /\ Stored' = MapOf(N \cup {n})
        BY <2>6 DEF Stored
      <3> HIDE DEF N
      <3> QED
        BY <3>1, <3>2, MapAdd
    <2> QED
      BY <1>0, <2>1, <2>4, <2>7
  <1> QED
    BY <1>1, <1>2

LEMMA DeleteStep ==
  ASSUME Map!HashAssumption, TableInv, NEW key \in HashKeys, Map!del(key)
  PROVE  /\ TableInv'
         /\ Map!Present(key) <=> key \in DOMAIN Stored
         /\ Stored' = [x \in DOMAIN Stored \ {key} |-> Stored[x]]
  <1>0. Map!Present(key) <=> key \in DOMAIN Stored
    BY Finding DEF Stored, MapOf
  <1>1. CASE ~Map!Present(key)
    <2>1. table' = table
      BY <1>1 DEF Map!del
    <2>2. TableInv' /\ NodesOf(table') = NodesOf(table)
      BY <2>1 DEF TableInv, GoodChain, Map!index
    <2>3. Stored' = Stored
      BY <2>2 DEF Stored
    <2>4. Stored = [x \in DOMAIN Stored |-> Stored[x]]
      BY DEF Stored, MapOf
    <2>5. DOMAIN Stored = DOMAIN Stored \ {key}
      BY <1>0, <1>1
    <2> QED
      BY <1>0, <2>2, <2>3, <2>4, <2>5
  <1>2. CASE Map!Present(key)
    <2> DEFINE i == Map!index(key)
               p == Map!Position(key)
               n == table[i][p]
               s == Map!RemoveAt(table[i], p)
    <2>1. /\ i \in 0..(Size - 1) /\ p \in 1..Len(table[i]) /\ n.k = key
          /\ table' = [table EXCEPT ![i] = s]
          /\ GoodChain(table[i], i)
      BY <1>2, Finding DEF Map!del, TableInv, Map!Chain
    <2>2. n \in Map!ToSet(table[i])
      BY <2>1 DEF Map!ToSet, GoodChain
    <2> HIDE DEF i, p
    <2>3. GoodChain(s, i) /\ Map!ToSet(s) = Map!ToSet(table[i]) \ {n}
      BY <2>1, Unlink
    <2> HIDE DEF s, n
    <2>4. TableInv' /\ NodesOf(table') = (NodesOf(table) \ {n}) \cup {}
      <3> DEFINE gone == {n}
                 new == {}
      <3>1. gone \subseteq Map!ToSet(table[i]) /\ Map!ToSet(s) = (Map!ToSet(table[i]) \ gone) \cup new
        BY <2>2, <2>3
      <3> HIDE DEF gone, new
      <3>2. TableInv' /\ NodesOf(table') = (NodesOf(table) \ gone) \cup new
        BY <2>1, <2>3, <3>1, ChainChanges
      <3> QED
        BY <3>2 DEF gone, new
    <2>5. n \in NodesOf(table)
      BY <2>1, <2>2, NodesFacts
    <2>6. /\ Stored' = MapOf(NodesOf(table) \ {n})
          /\ UniqueKeys(NodesOf(table))
      BY <2>4, StoredUnique DEF Stored
    <2>7. Stored' = [x \in DOMAIN Stored \ {n.k} |-> Stored[x]]
      <3> DEFINE N == NodesOf(table)
      <3>1. UniqueKeys(N) /\ n \in N
        BY <2>5, <2>6
      <3>2. Stored = MapOf(N) /\ Stored' = MapOf(N \ {n})
        BY <2>6 DEF Stored
      <3> HIDE DEF N
      <3> QED
        BY <3>1, <3>2, MapRemove
    <2> QED
      BY <1>0, <2>1, <2>4, <2>7
  <1> QED
    BY <1>1, <1>2

LEMMA AssignStep ==
  ASSUME Map!HashAssumption, TableInv, NEW key \in HashKeys, NEW value \in Values, Map!assign(key, value)
  PROVE  /\ TableInv'
         /\ Stored' = [x \in DOMAIN Stored |-> IF x = key THEN value ELSE Stored[x]]
  <1>0. Map!Present(key) <=> key \in DOMAIN Stored
    BY Finding DEF Stored, MapOf
  <1>1. CASE ~Map!Present(key)
    <2>1. table' = table
      BY <1>1 DEF Map!assign
    <2>2. TableInv' /\ NodesOf(table') = NodesOf(table)
      BY <2>1 DEF TableInv, GoodChain, Map!index
    <2>3. Stored' = Stored
      BY <2>2 DEF Stored
    <2>4. Stored = [x \in DOMAIN Stored |-> Stored[x]]
      BY DEF Stored, MapOf
    <2>5. Stored = [x \in DOMAIN Stored |-> IF x = key THEN value ELSE Stored[x]]
      BY <1>0, <1>1, <2>4
    <2> QED
      BY <2>2, <2>3, <2>5
  <1>2. CASE Map!Present(key)
    <2> DEFINE i == Map!index(key)
               p == Map!Position(key)
               n == table[i][p]
               m == [k |-> n.k, v |-> value]
               s == [table[i] EXCEPT ![p].v = value]
    <2>1. /\ i \in 0..(Size - 1) /\ p \in 1..Len(table[i]) /\ n.k = key
          /\ table' = [table EXCEPT ![i] = s]
          /\ GoodChain(table[i], i)
      BY <1>2, Finding DEF Map!assign, TableInv, Map!Chain
    <2>2. n \in Map!ToSet(table[i])
      BY <2>1 DEF Map!ToSet, GoodChain
    <2> HIDE DEF i, p
    <2>3. GoodChain(s, i) /\ Map!ToSet(s) = (Map!ToSet(table[i]) \ {n}) \cup {m}
      <3>1. n \in Pairs /\ m \in Pairs /\ m.k = n.k /\ m = [n EXCEPT !.v = value]
        <4>1. n \in Pairs
          BY <2>1 DEF GoodChain
        <4>2. \A r \in Pairs : /\ [r EXCEPT !.v = value] = [k |-> r.k, v |-> value]
                              /\ r.k \in HashKeys
          BY DEF Pairs
        <4> HIDE DEF n
        <4> QED
          BY <4>1, <4>2 DEF Pairs
      <3>2. s = [table[i] EXCEPT ![p] = m]
        BY <3>1
      <3> HIDE DEF m, n, s
      <3> QED
        <4>1. /\ s \in Seq(Pairs) /\ Len(s) = Len(table[i]) /\ s[p] = m
              /\ \A q \in 1..Len(table[i]) : q # p => s[q] = table[i][q]
          BY <2>1, <3>1, <3>2 DEF GoodChain
        <4>2. m.k = table[i][p].k
          BY <3>1 DEF n
        <4>3. GoodChain(s, i) /\ Map!ToSet(s) = (Map!ToSet(table[i]) \ {table[i][p]}) \cup {m}
          <5> DEFINE c == table[i]
          <5>1. GoodChain(c, i) /\ p \in 1..Len(c) /\ m \in Pairs /\ m.k = c[p].k
            BY <2>1, <3>1, <4>2
          <5>2. /\ s \in Seq(Pairs) /\ Len(s) = Len(c) /\ s[p] = m
                /\ \A q \in 1..Len(c) : q # p => s[q] = c[q]
            BY <4>1
          <5> HIDE DEF c
          <5>3. GoodChain(s, i) /\ Map!ToSet(s) = (Map!ToSet(c) \ {c[p]}) \cup {m}
            BY ONLY <5>1, <5>2, Overwrite
          <5> QED
            BY <5>3 DEF c
        <4> QED
          BY <4>3 DEF n
    <2> HIDE DEF s
    <2>4. TableInv' /\ NodesOf(table') = (NodesOf(table) \ {n}) \cup {m}
      <3>1. {n} \subseteq Map!ToSet(table[i])
        BY <2>2
      <3> HIDE DEF n, m
      <3> QED
        BY <2>1, <2>3, <3>1, ChainChanges
    <2>5. n \in NodesOf(table)
      BY <2>1, <2>2, NodesFacts
    <2> HIDE DEF n
    <2>6. /\ Stored' = MapOf((NodesOf(table) \ {n}) \cup {m})
          /\ UniqueKeys(NodesOf(table))
      BY <2>4, StoredUnique DEF Stored
    <2>7. Stored' = [x \in DOMAIN Stored |-> IF x = n.k THEN value ELSE Stored[x]]
      <3> DEFINE N == NodesOf(table)
      <3>1. UniqueKeys(N) /\ n \in N /\ m = [k |-> n.k, v |-> value]
        BY <2>5, <2>6
      <3>2. Stored = MapOf(N) /\ Stored' = MapOf((N \ {n}) \cup {m})
        BY <2>6 DEF Stored
      <3> HIDE DEF N, m
      <3> QED
        BY <3>1, <3>2, MapWrite
    <2> QED
      BY <2>1, <2>4, <2>7
  <1> QED
    BY <1>1, <1>2

LEMMA FindStep ==
  ASSUME Map!HashAssumption, TableInv, NEW key \in HashKeys, Map!find(key)
  PROVE  /\ TableInv' /\ Stored' = Stored
         /\ mapAnswer' = IF key \in DOMAIN Stored THEN Map!Reply("find", key, Stored[key], TRUE)
                      ELSE Map!Reply("find", key, Nothing, FALSE)
  <1>0. Map!Present(key) <=> key \in DOMAIN Stored
    BY Finding DEF Stored, MapOf
  <1>1. TableInv' /\ Stored' = Stored
    <2>1. table' = table
      BY DEF Map!find
    <2> QED
      BY <2>1 DEF TableInv, GoodChain, Map!index, Stored, NodesOf
  <1>2. CASE Map!Present(key)
    <2> DEFINE n == Map!Chain(key)[Map!Position(key)]
    <2>1. n \in Map!ToSet(table[Map!index(key)]) /\ n.k = key /\ Map!index(key) \in 0..(Size - 1)
      <3>1. /\ Map!Position(key) \in 1..Len(Map!Chain(key)) /\ n.k = key
            /\ Map!index(key) \in 0..(Size - 1)
        BY <1>2, Finding
      <3>2. Map!Chain(key) \in Seq(Pairs)
        BY <3>1 DEF TableInv, Map!Chain
      <3>3. Map!Position(key) \in DOMAIN Map!Chain(key)
        BY <3>1, <3>2
      <3> QED
        BY <3>1, <3>3 DEF Map!ToSet, Map!Chain
    <2>2. n \in NodesOf(table) /\ UniqueKeys(NodesOf(table))
      BY <2>1, NodesFacts, StoredUnique
    <2> HIDE DEF n
    <2>3. Stored[key] = n.v
      BY <2>1, <2>2, MapAt DEF Stored
    <2> QED
      BY <1>0, <1>1, <1>2, <2>3 DEF Map!find, n
  <1> QED
    BY <1>0, <1>1, <1>2 DEF Map!find

LEMMA EmptyTable ==
  ASSUME Map!HashAssumption
  PROVE  LET t == [i \in 0..(Size - 1) |-> <<>>]
         IN  /\ table = t => TableInv /\ Stored = [k \in {} |-> Nothing]
             /\ table' = t => TableInv' /\ Stored' = [k \in {} |-> Nothing]
  <1> DEFINE t == [i \in 0..(Size - 1) |-> <<>>]
  <1>1. /\ t \in [0..(Size - 1) -> Seq(Pairs)]
        /\ \A i \in 0..(Size - 1) : t[i] = <<>> /\ GoodChain(t[i], i)
    BY DEF GoodChain
  <1>2. NodesOf(t) = {}
    BY DEF NodesOf, Map!ToSet
  <1>3. MapOf({}) = [k \in {} |-> Nothing]
    <2>1. {n.k : n \in {}} = {}
      OBVIOUS
    <2> QED
      BY <2>1 DEF MapOf
  <1> HIDE DEF t
  <1>4. table = t => TableInv /\ Stored = [k \in {} |-> Nothing]
    BY <1>1, <1>2, <1>3 DEF TableInv, Stored
  <1>5. table' = t => TableInv' /\ Stored' = [k \in {} |-> Nothing]
    BY <1>1, <1>2, <1>3 DEF TableInv, Stored, GoodChain, Map!index
  <1> QED
    BY <1>4, <1>5 DEF t

\* Every call is the one of the same name on the map.
LEMMA StoredIsMap ==
  /\ Map!Map!Init <=> Stored = Map!Map!Empty /\ mapAnswer = Map!Map!Reply("clear", Nothing, Nothing, TRUE)
  /\ Map!Map!Clear <=> Stored' = Map!Map!Empty /\ mapAnswer' = Map!Map!Reply("clear", Nothing, Nothing, TRUE)
  /\ \A k, v : Map!Map!Insert(k, v) <=>
       /\ Stored' = [x \in DOMAIN Stored \cup {k} |-> IF x \in DOMAIN Stored THEN Stored[x] ELSE v]
       /\ mapAnswer' = Map!Map!Reply("insert", k, v, k \notin DOMAIN Stored)
  /\ \A k : Map!Map!Delete(k) <=>
       /\ Stored' = [x \in DOMAIN Stored \ {k} |-> Stored[x]]
       /\ mapAnswer' = Map!Map!Reply("delete", k, Nothing, k \in DOMAIN Stored)
  /\ \A k : Map!Map!Find(k) <=>
       /\ mapAnswer' = IF k \in DOMAIN Stored THEN Map!Map!Reply("find", k, Stored[k], TRUE)
                       ELSE Map!Map!Reply("find", k, Nothing, FALSE)
       /\ Stored' = Stored
  /\ \A k, v : Map!Map!Assign(k, v) <=>
       /\ Stored' = [x \in DOMAIN Stored |-> IF x = k THEN v ELSE Stored[x]]
       /\ mapAnswer' = Map!Map!Reply("assign", k, v, TRUE)
  BY Zenon DEF Map!Map!Init, Map!Map!Clear, Map!Map!Insert, Map!Map!Delete,
     Map!Map!Find, Map!Map!Assign, Stored, MapOf, NodesOf, Map!Nodes

LEMMA MapStep ==
  Map!HashAssumption /\ TableInv /\ [Map!Next]_(Map!vars) => TableInv' /\ [Map!Map!Next]_<<Stored, mapAnswer>>
  <1> SUFFICES ASSUME Map!HashAssumption, TableInv, [Map!Next]_(Map!vars)
               PROVE  TableInv' /\ [Map!Map!Next]_<<Stored, mapAnswer>>
    OBVIOUS
  <1>0. \A key \in HashKeys : Map!Present(key) <=> key \in DOMAIN Stored
    BY Finding DEF Stored, MapOf
  <1>1. \A call, k, v, ok : Map!Map!Reply(call, k, v, ok) = Map!Reply(call, k, v, ok)
    BY DEF Map!Map!Reply, Map!Reply
  <1>2. ASSUME NEW key \in HashKeys, Map!del(key) PROVE TableInv' /\ Map!Map!Next
    <2>1. mapAnswer' = Map!Map!Reply("delete", key, Nothing, key \in DOMAIN Stored)
      <3>1. Map!Present(key) = (key \in DOMAIN Stored)
        BY <1>0 DEF Map!Present
      <3>2. mapAnswer' = Map!Reply("delete", key, Nothing, Map!Present(key))
        BY <1>2 DEF Map!del
      <3> QED
        BY <1>1, <3>1, <3>2
    <2>2. TableInv' /\ Map!Map!Delete(key)
      BY <1>2, <2>1, DeleteStep, StoredIsMap
    <2> QED
      BY <2>2 DEF Map!Map!Next
  <1>3. ASSUME NEW key \in HashKeys, Map!find(key) PROVE TableInv' /\ Map!Map!Next
    <2>1. TableInv' /\ Map!Map!Find(key)
      BY <1>1, <1>3, FindStep, StoredIsMap
    <2> QED
      BY <2>1 DEF Map!Map!Next
  <1>4. ASSUME NEW key \in HashKeys, NEW value \in Values, Map!insert(key, value)
        PROVE  TableInv' /\ Map!Map!Next
    <2>1. mapAnswer' = Map!Map!Reply("insert", key, value, key \notin DOMAIN Stored)
      <3>1. mapAnswer' = Map!Reply("insert", key, value, ~Map!Present(key))
        BY <1>4 DEF Map!insert
      <3>2. mapAnswer' = Map!Reply("insert", key, value, key \notin DOMAIN Stored)
        <4>1. CASE Map!Present(key)
          <5>1. (~Map!Present(key)) = FALSE /\ (key \notin DOMAIN Stored) = FALSE
            BY <1>0, <4>1
          <5> QED
            BY <3>1, <5>1, Zenon
        <4>2. CASE ~Map!Present(key)
          <5>1. (~Map!Present(key)) = TRUE /\ (key \notin DOMAIN Stored) = TRUE
            BY <1>0, <4>2
          <5> QED
            BY <3>1, <5>1, Zenon
        <4> QED
          BY <4>1, <4>2
      <3> QED
        BY <1>1, <3>2
    <2>2. TableInv' /\ Map!Map!Insert(key, value)
      <3>1. TableInv' /\ Stored' = [x \in DOMAIN Stored \cup {key} |->
                                    IF x \in DOMAIN Stored THEN Stored[x] ELSE value]
        BY <1>4, InsertStep
      <3> QED
        BY <2>1, <3>1, StoredIsMap
    <2> QED
      BY <2>2 DEF Map!Map!Next
  <1>5. ASSUME NEW key \in HashKeys, NEW value \in Values, Map!assign(key, value)
        PROVE  TableInv' /\ Map!Map!Next
    <2>1. TableInv' /\ Map!Map!Assign(key, value)
      <3>1. mapAnswer' = Map!Map!Reply("assign", key, value, TRUE)
        BY <1>1, <1>5 DEF Map!assign
      <3> QED
        BY <1>5, <3>1, AssignStep, StoredIsMap
    <2> QED
      BY <2>1 DEF Map!Map!Next
  <1>6. ASSUME Map!Renew PROVE TableInv' /\ Map!Map!Next
    <2>1. TableInv' /\ Stored' = [k \in {} |-> Nothing] /\ mapAnswer' = Map!Map!Reply("clear", Nothing, Nothing, TRUE)
      BY <1>1, <1>6, EmptyTable DEF Map!Renew
    <2>2. Map!Map!Clear
      BY <2>1, StoredIsMap DEF Map!Map!Empty
    <2> QED
      BY <2>1, <2>2 DEF Map!Map!Next
  <1>7. ASSUME UNCHANGED Map!vars PROVE TableInv' /\ UNCHANGED <<Stored, mapAnswer>>
    BY <1>7 DEF Map!vars, TableInv, GoodChain, Map!index, Stored, NodesOf
  <1> QED
    BY <1>2, <1>3, <1>4, <1>5, <1>6, <1>7 DEF Map!Next

\* hash_map.h: the chains answer like one map from keys to values, every call
\* for its own key, however keys collide, are unlinked and overwritten through
\* operator[].
THEOREM MapFollowsDictionary == Map!HashAssumption => (Map!Spec => MapIsDictionary)
  <1> SUFFICES ASSUME Map!HashAssumption PROVE Map!Spec => Map!Map!Spec
    BY DEF MapIsDictionary, Map!RefinesMap
  <1>1. Map!Init => TableInv /\ Map!Map!Init
    <2> SUFFICES ASSUME Map!Init PROVE TableInv /\ Map!Map!Init
      OBVIOUS
    <2>1. TableInv /\ Stored = [k \in {} |-> Nothing] /\ mapAnswer = Map!Map!Reply("clear", Nothing, Nothing, TRUE)
      BY EmptyTable DEF Map!Init, Map!Map!Reply, Map!Reply
    <2> QED
      BY <2>1, StoredIsMap DEF Map!Map!Empty
  <1> DEFINE m == [k \in {n.k : n \in Map!Nodes} |-> (CHOOSE n \in Map!Nodes : n.k = k).v]
  <1>2. TableInv /\ [Map!Next]_(Map!vars) => TableInv' /\ [Map!Map!Next]_<<m, mapAnswer>>
    <2>1. Stored = m /\ Stored' = m'
      BY Zenon DEF Stored, MapOf, NodesOf, Map!Nodes
    <2> QED
      BY <2>1, MapStep
  <1> QED
    BY <1>1, <1>2, PTL DEF Map!Spec, Map!Map!Spec

(* LineReader                                                              *)

\* FiniteSets, as LineReader sees it, is FiniteSets.
LEMMA ReaderCounting ==
  \A X : Reader!IsFiniteSet(X) = IsFiniteSet(X) /\ Reader!Cardinality(X) = Cardinality(X)
  <1>1. \A X : Reader!IsFiniteSet(X) = IsFiniteSet(X)
    BY DEF Reader!IsFiniteSet, IsFiniteSet
  <1>2. \A X : Reader!Cardinality(X) = Cardinality(X)
    BY DEF Reader!Cardinality, Cardinality, Reader!IsFiniteSet, IsFiniteSet
  <1> QED
    BY <1>1, <1>2

\* The characters of the stream.
NewlineAt(k) == text[k]

\* Lines and newlines in terms of NewlineAt, and what a step leaves of them.
LEMMA NewlinesAre ==
  /\ Reader!Newlines = {i \in (next + 1)..Len(text) : NewlineAt(i)}
  /\ Reader!AllLines = {l \in (1..Len(text)) \X (0..Len(text)) :
                   /\ l[1] <= l[2] + 1
                   /\ l[1] = 1 \/ NewlineAt(l[1] - 1)
                   /\ \A k \in l[1]..l[2] : ~NewlineAt(k)
                   /\ l[2] = Len(text) \/ NewlineAt(l[2] + 1)}
  /\ text' = text => Reader!AllLines' = Reader!AllLines /\ \A k : NewlineAt(k)' = NewlineAt(k)
  BY DEF Reader!Newlines, Reader!AllLines, NewlineAt

\* What the stream is: everything before next was taken, up to a newline or to
\* the end; and an iterator that found nothing was at the end.
StreamInv ==
  /\ text \in Seq(BOOLEAN) /\ next \in 0..Len(text)
  /\ eof \in BOOLEAN /\ fail \in BOOLEAN
  /\ next = 0 \/ next = Len(text) \/ NewlineAt(next)
  /\ eof \/ fail => next = Len(text)

\* The lines that came out are those that begin where characters were taken.
LinesInv ==
  /\ open \subseteq Iterators
  /\ line \in [Iterators -> Int \X Int]
  /\ lines \in Seq(Int \X Int)
  /\ \A i \in open : line[i] \in Reader!AllLines
  /\ \A k \in 1..Len(lines) : lines[k] \in Reader!AllLines /\ lines[k][1] <= next
  /\ \A j, k \in 1..Len(lines) : j < k => lines[j][1] < lines[k][1]
  /\ \A l \in Reader!AllLines : l[1] <= next => \E k \in 1..Len(lines) : lines[k] = l

\* There is a first newline, if there is any.
LEMMA FirstNewlineFacts ==
  ASSUME StreamInv, Reader!Newlines # {}
  PROVE  /\ Reader!FirstNewline \in Reader!Newlines
         /\ \A j \in Reader!Newlines : Reader!FirstNewline <= j
  <1>1. Reader!Newlines \subseteq Nat
    BY NewlinesAre DEF StreamInv
  <1>2. \E i \in Reader!Newlines : \A j \in Reader!Newlines : ~(j < i)
    <2> DEFINE R == OpToRel(<, Nat)
    <2>1. \A a, b \in Nat : a < b => <<a, b>> \in R
      BY DEF OpToRel
    <2>2. IsWellFoundedOn(R, Nat)
      BY NatLessThanWellFounded
    <2> HIDE DEF R
    <2>3. \E i \in Reader!Newlines : \A j \in Reader!Newlines : <<j, i>> \notin R
      BY <1>1, <2>2, WFMin
    <2> QED
      BY <1>1, <2>1, <2>3
  <1>3. \E i \in Reader!Newlines : \A j \in Reader!Newlines : i <= j
    BY <1>1, <1>2
  <1> QED
    BY <1>3 DEF Reader!FirstNewline

\* What getline takes, when it does not fail, is the one line that begins where
\* it starts, and with it all that begin where it has taken characters.
LEMMA GetlineFacts ==
  ASSUME StreamInv, Reader!getline
  PROVE  /\ StreamInv'
         /\ fail' => next = Len(text) /\ next' = next
         /\ ~fail' =>
              /\ next < next'
              /\ <<next + 1, Reader!LineEnd>> \in Reader!AllLines
              /\ \A l \in Reader!AllLines :
                   next < l[1] /\ l[1] <= next' => l = <<next + 1, Reader!LineEnd>>
  <1> DEFINE N == Reader!Newlines
             f == Reader!FirstNewline
  <1>0. /\ text' = text /\ Len(text) \in Nat
        /\ next \in 0..Len(text) /\ (next = 0 \/ next = Len(text) \/ NewlineAt(next))
    BY DEF StreamInv, Reader!getline
  <1>1. N # {} => f \in (next + 1)..Len(text) /\ NewlineAt(f) /\ \A j \in N : f <= j
    BY FirstNewlineFacts, NewlinesAre
  <1>2. /\ next' = (IF N = {} THEN Len(text) ELSE f)
        /\ fail' \in BOOLEAN /\ eof' \in BOOLEAN
        /\ fail' <=> next = Len(text)
        /\ eof' <=> N = {}
    <2>1. next = Len(text) => N = {}
      BY <1>0, NewlinesAre
    <2>2. eof => next = Len(text)
      BY DEF StreamInv
    <2>3. fail' = (eof \/ next = Len(text)) /\ eof' = (eof \/ N = {})
      BY DEF Reader!getline, Reader!Fails
    <2>4. next' = (IF N = {} THEN Len(text) ELSE f)
      BY DEF Reader!getline
    <2> QED
      BY <2>1, <2>2, <2>3, <2>4
  <1>3. StreamInv'
    <2>1. next' \in 0..Len(text) /\ (next' = Len(text) \/ NewlineAt(next'))
      BY <1>0, <1>1, <1>2
    <2>2. next = Len(text) \/ N = {} => next' = Len(text)
      BY <1>0, <1>2, NewlinesAre
    <2> QED
      BY <1>0, <1>2, <2>1, <2>2, NewlinesAre DEF StreamInv
  <1>4. ASSUME fail' PROVE next = Len(text) /\ next' = next
    <2>1. next = Len(text)
      BY <1>2, <1>4
    <2>2. N = {}
      BY <1>0, <2>1, NewlinesAre
    <2> QED
      BY <1>2, <2>1, <2>2
  <1>5. ASSUME ~fail'
        PROVE  /\ next < next'
               /\ <<next + 1, Reader!LineEnd>> \in Reader!AllLines
               /\ \A l \in Reader!AllLines :
                    next < l[1] /\ l[1] <= next' => l = <<next + 1, Reader!LineEnd>>
    <2>1. next < Len(text) /\ (next = 0 \/ NewlineAt(next))
      BY <1>0, <1>2, <1>5
    <2>2. next < next'
      BY <1>0, <1>1, <1>2, <2>1
    <2>3. Reader!LineEnd = (IF N = {} THEN Len(text) ELSE f - 1)
      BY DEF Reader!LineEnd
    <2>4. <<next + 1, Reader!LineEnd>> \in Reader!AllLines
      <3>1. /\ Reader!LineEnd \in 0..Len(text) /\ next + 1 \in 1..Len(text)
            /\ next + 1 <= Reader!LineEnd + 1
        BY <1>0, <1>1, <2>1, <2>3
      <3>2. \A k \in (next + 1) .. Reader!LineEnd : ~NewlineAt(k)
        BY <1>0, <1>1, <2>3, NewlinesAre
      <3>3. Reader!LineEnd = Len(text) \/ NewlineAt(Reader!LineEnd + 1)
        BY <1>0, <1>1, <2>3
      <3>4. next + 1 = 1 \/ NewlineAt((next + 1) - 1)
        BY <1>0, <2>1
      <3> HIDE DEF N
      <3> QED
        BY <3>1, <3>2, <3>3, <3>4, NewlinesAre
    <2>5. ASSUME NEW l \in Reader!AllLines, next < l[1], l[1] <= next'
          PROVE  l = <<next + 1, Reader!LineEnd>>
      <3>1. /\ l \in (1..Len(text)) \X (0..Len(text)) /\ l[1] <= l[2] + 1
            /\ l[1] = 1 \/ NewlineAt(l[1] - 1)
            /\ \A k \in l[1]..l[2] : ~NewlineAt(k)
            /\ l[2] = Len(text) \/ NewlineAt(l[2] + 1)
        BY NewlinesAre
      <3>2. l[1] \in 1..Len(text) /\ l[2] \in 0..Len(text) /\ l = <<l[1], l[2]>>
        BY <3>1
      <3>3. l[1] = next + 1
        <4> SUFFICES ASSUME l[1] # next + 1 PROVE FALSE
          OBVIOUS
        <4>1. l[1] - 1 \in N
          BY <1>0, <2>5, <3>1, <3>2, NewlinesAre
        <4> QED
          BY <1>0, <1>1, <1>2, <2>5, <3>2, <4>1
      <3>4. CASE N = {}
        <4>1. l[2] = Len(text)
          <5> SUFFICES ASSUME l[2] # Len(text) PROVE FALSE
            OBVIOUS
          <5>1. l[2] + 1 \in N
            BY <1>0, <3>1, <3>2, <3>3, NewlinesAre
          <5> QED
            BY <3>4, <5>1
        <4> QED
          BY <2>3, <3>2, <3>3, <3>4, <4>1
      <3>5. CASE N # {}
        <4>1. l[2] < f
          BY <1>0, <1>1, <3>1, <3>2, <3>3, <3>5
        <4>2. l[2] + 1 \in N
          BY <1>0, <1>1, <3>1, <3>2, <3>3, <3>5, <4>1, NewlinesAre
        <4>3. l[2] = f - 1
          BY <1>0, <1>1, <3>2, <3>5, <4>1, <4>2
        <4> QED
          BY <2>3, <3>2, <3>3, <3>5, <4>3
      <3> QED
        BY <3>4, <3>5
    <2> QED
      BY <2>2, <2>4, <2>5
  <1> QED
    BY <1>3, <1>4, <1>5

LEMMA AdvanceKeeps ==
  ASSUME StreamInv, LinesInv, NEW i \in Iterators, Reader!Advance(i)
  PROVE  StreamInv' /\ LinesInv'
  <1>0. Reader!getline /\ text' = text /\ Reader!AllLines' = Reader!AllLines
    BY NewlinesAre DEF Reader!Advance, Reader!getline
  <1>1. StreamInv'
    BY <1>0, GetlineFacts
  <1>2. CASE fail'
    <2>1. next' = next /\ open' = open \ {i} /\ UNCHANGED <<line, lines>>
      BY <1>0, <1>2, GetlineFacts DEF Reader!Advance
    <2> QED
      BY <1>0, <1>1, <2>1 DEF LinesInv
  <1>3. CASE ~fail'
    <2> DEFINE l == <<next + 1, Reader!LineEnd>>
               n == Len(lines)
    <2>1. /\ next \in Int /\ next' \in Int /\ next < next' /\ l \in Reader!AllLines
          /\ l[1] = next + 1
          /\ \A m \in Reader!AllLines : next < m[1] /\ m[1] <= next' => m = l
      BY <1>0, <1>1, <1>3, GetlineFacts DEF StreamInv
    <2>2. l \in Int \X Int /\ \A m \in Reader!AllLines : m[1] \in Int
      BY <2>1, NewlinesAre
    <2>3. /\ open' = open \cup {i} /\ line' = [line EXCEPT ![i] = l]
          /\ lines' = Append(lines, l)
      BY <1>3 DEF Reader!Advance, LinesInv
    <2> HIDE DEF l
    <2>4. /\ lines \in Seq(Int \X Int) /\ lines' \in Seq(Int \X Int)
          /\ n \in Nat /\ Len(lines') = n + 1 /\ lines'[n + 1] = l
          /\ \A k \in 1..n : lines'[k] = lines[k]
          /\ \A k \in 1..n : lines[k] \in Reader!AllLines /\ lines[k][1] <= next
          /\ \A j, k \in 1..n : j < k => lines[j][1] < lines[k][1]
          /\ \A m \in Reader!AllLines : m[1] <= next => \E k \in 1..n : lines[k] = m
      <3>1. n \in Nat /\ lines \in Seq(Int \X Int)
        BY DEF LinesInv
      <3>2. /\ lines' \in Seq(Int \X Int) /\ Len(lines') = n + 1 /\ lines'[n + 1] = l
            /\ \A k \in 1..n : lines'[k] = lines[k]
        BY <2>2, <2>3, <3>1
      <3>3. /\ \A k \in 1..n : lines[k] \in Reader!AllLines /\ lines[k][1] <= next
            /\ \A j, k \in 1..n : j < k => lines[j][1] < lines[k][1]
            /\ \A m \in Reader!AllLines : m[1] <= next => \E k \in 1..n : lines[k] = m
        BY DEF LinesInv
      <3> HIDE DEF n
      <3> QED
        BY <3>1, <3>2, <3>3
    <2>5. /\ open' \subseteq Iterators /\ line' \in [Iterators -> Int \X Int]
          /\ \A j \in open' : line'[j] \in Reader!AllLines
      BY <2>1, <2>2, <2>3 DEF LinesInv
    <2> HIDE DEF n
    <2>6. \A k \in 1..Len(lines') : lines'[k] \in Reader!AllLines /\ lines'[k][1] <= next'
      <3> SUFFICES ASSUME NEW k \in 1..Len(lines')
                   PROVE  lines'[k] \in Reader!AllLines /\ lines'[k][1] <= next'
        OBVIOUS
      <3>1. CASE k = n + 1
        BY <2>1, <2>4, <3>1
      <3>2. CASE k \in 1..n
        <4>1. lines'[k] = lines[k] /\ lines[k] \in Reader!AllLines /\ lines[k][1] <= next
          BY <2>4, <3>2
        <4>2. lines[k][1] \in Int
          BY <2>2, <4>1
        <4> QED
          BY <2>1, <4>1, <4>2
      <3> QED
        BY <2>4, <3>1, <3>2
    <2>7. \A j, k \in 1..Len(lines') : j < k => lines'[j][1] < lines'[k][1]
      <3> SUFFICES ASSUME NEW j \in 1..Len(lines'), NEW k \in 1..Len(lines'), j < k
                   PROVE  lines'[j][1] < lines'[k][1]
        OBVIOUS
      <3>5. n \in Nat /\ Len(lines') = n + 1
        BY <2>4
      <3>6. j \in 1..n
        BY <3>5
      <3>1. j \in 1..n /\ lines'[j] = lines[j]
        BY <2>4, <3>6
      <3>2. lines[j] \in Reader!AllLines /\ lines[j][1] <= next
        BY <2>4, <3>1
      <3>3. CASE k = n + 1
        <4>1. lines'[k] = l /\ l[1] = next + 1 /\ next \in Int
          BY <2>1, <2>4, <3>3
        <4>2. lines[j][1] \in Int
          BY <2>2, <3>2
        <4> QED
          BY <3>1, <3>2, <4>1, <4>2
      <3>4. CASE k \in 1..n
        BY <2>4, <3>1, <3>4
      <3> QED
        BY <3>3, <3>4, <3>5
    <2>8. \A m \in Reader!AllLines : m[1] <= next' => \E k \in 1..Len(lines') : lines'[k] = m
      <3> SUFFICES ASSUME NEW m \in Reader!AllLines, m[1] <= next'
                   PROVE  \E k \in 1..Len(lines') : lines'[k] = m
        OBVIOUS
      <3>1. CASE m[1] <= next
        <4>1. PICK k \in 1..n : lines[k] = m
          BY <2>4, <3>1
        <4>2. n \in Nat /\ Len(lines') = n + 1
          BY <2>4
        <4>3. k \in 1..Len(lines')
          BY <4>2
        <4>4. lines'[k] = lines[k]
          BY <2>4
        <4> QED
          BY <4>1, <4>3, <4>4
      <3>2. CASE next < m[1]
        <4>1. m = l
          BY <2>1, <3>2
        <4>2. n \in Nat /\ Len(lines') = n + 1 /\ lines'[n + 1] = l
          BY <2>4
        <4>3. n + 1 \in 1..Len(lines')
          BY <4>2
        <4> QED
          BY <4>1, <4>2, <4>3
      <3> QED
        BY <2>1, <2>2, <3>1, <3>2
    <2> QED
      BY <1>0, <1>1, <2>4, <2>5, <2>6, <2>7, <2>8 DEF LinesInv
  <1> QED
    BY <1>2, <1>3

\* The lines that came out, being different ones, count all lines when the
\* stream has failed.
LEMMA AllLinesCounted ==
  ASSUME StreamInv, LinesInv, fail
  PROVE  Len(lines) = Reader!Cardinality(Reader!AllLines)
  <1> DEFINE n == Len(lines)
             F == [k \in 1..n |-> lines[k]]
  <1>1. n \in Nat /\ \A k \in 1..n : lines[k] \in Reader!AllLines
    BY DEF LinesInv
  <1>2. \A l \in Reader!AllLines : l[1] <= next
    BY NewlinesAre DEF StreamInv
  <1>3. F \in Surjection(1..n, Reader!AllLines)
    BY <1>1, <1>2 DEF LinesInv, Surjection
  <1>4. F \in Injection(1..n, Reader!AllLines)
    <2>1. \A j, k \in 1..n : j < k => lines[j] # lines[k]
      <3> SUFFICES ASSUME NEW j \in 1..n, NEW k \in 1..n, j < k, lines[j] = lines[k]
                   PROVE  FALSE
        OBVIOUS
      <3>1. lines[j][1] < lines[k][1] /\ lines[k][1] \in Int
        BY <1>1, NewlinesAre DEF LinesInv
      <3> QED
        BY <3>1
    <2> QED
      BY <1>1, <2>1 DEF Injection, IsInjective
  <1> HIDE DEF F
  <1>5. ExistsBijection(1..n, Reader!AllLines)
    BY <1>3, <1>4 DEF ExistsBijection, Bijection
  <1>6. IsFiniteSet(1..n) /\ Cardinality(1..n) = n
    BY <1>1, FS_Interval
  <1>7. Cardinality(Reader!AllLines) = n
    BY <1>5, <1>6, FS_Bijection
  <1> QED
    BY <1>7, ReaderCounting

\* line_istream.h: whatever iterators are copied and moved in whatever order,
\* every line comes out once and in order, and when the stream has failed all
\* lines have.
THEOREM ReaderDelivers == Reader!ReaderAssumption => (Reader!Spec => []LinesDelivered)
  <1> SUFFICES ASSUME Reader!ReaderAssumption PROVE Reader!Spec => []Reader!LinesDelivered
    BY DEF LinesDelivered
  <1>1. Reader!Init => StreamInv /\ LinesInv
    <2> SUFFICES ASSUME Reader!Init PROVE StreamInv /\ LinesInv
      OBVIOUS
    <2>1. PICK n \in 0..MaxText : text \in [1..n -> BOOLEAN]
      BY DEF Reader!Init, Reader!Texts
    <2>2. text \in Seq(BOOLEAN) /\ Len(text) = n /\ n \in Nat
      <3>1. n \in Nat
        BY DEF Reader!ReaderAssumption
      <3>2. text \in Seq(BOOLEAN)
        BY <2>1, <3>1, SeqDef
      <3> QED
        BY <2>1, <3>1, <3>2, LenProperties
    <2>3. StreamInv
      <3>1. next = 0 /\ eof = FALSE /\ fail = FALSE
        BY DEF Reader!Init
      <3>2. next \in 0..Len(text) /\ text \in Seq(BOOLEAN)
        BY <2>2, <3>1
      <3>3. eof \in BOOLEAN /\ fail \in BOOLEAN /\ ~eof /\ ~fail
        BY <3>1
      <3> QED
        BY <3>1, <3>2, <3>3 DEF StreamInv
    <2>4. LinesInv
      BY <2>2, EmptySeq, NewlinesAre DEF Reader!Init, LinesInv
    <2> QED
      BY <2>3, <2>4
  <1>2. StreamInv /\ LinesInv /\ [Reader!Next]_(Reader!vars) => StreamInv' /\ LinesInv'
    <2> SUFFICES ASSUME StreamInv, LinesInv, [Reader!Next]_(Reader!vars)
                 PROVE  StreamInv' /\ LinesInv'
      OBVIOUS
    <2>1. CASE UNCHANGED Reader!vars
      BY <2>1, NewlinesAre DEF Reader!vars, StreamInv, LinesInv
    <2>2. ASSUME NEW i \in Iterators, Reader!Begin(i) \/ Reader!Increment(i)
          PROVE  StreamInv' /\ LinesInv'
      BY <2>2, AdvanceKeeps DEF Reader!Begin, Reader!Increment
    <2>3. ASSUME NEW i \in Iterators, NEW j \in Iterators, Reader!Copy(i, j)
          PROVE  StreamInv' /\ LinesInv'
      <3>1. UNCHANGED <<text, next, eof, fail, lines>> /\ Reader!AllLines' = Reader!AllLines
        BY <2>3, NewlinesAre DEF Reader!Copy
      <3>2. StreamInv'
        BY <3>1, NewlinesAre DEF StreamInv
      <3>3. /\ open' \subseteq Iterators /\ line' \in [Iterators -> Int \X Int]
            /\ \A k \in open' : line'[k] \in Reader!AllLines
        BY <2>3 DEF Reader!Copy, LinesInv
      <3> QED
        BY <3>1, <3>2, <3>3 DEF LinesInv
    <2> QED
      BY <2>1, <2>2, <2>3 DEF Reader!Next
  <1>3. StreamInv /\ LinesInv => Reader!LinesDelivered
    BY AllLinesCounted DEF LinesInv, Reader!LinesDelivered
  <1> QED
    BY <1>1, <1>2, <1>3, PTL DEF Reader!Spec

(* SharedPtr                                                               *)

\* FiniteSets, as SharedPtr sees it, is FiniteSets.
LEMMA PointerCounting ==
  \A X : Pointer!IsFiniteSet(X) = IsFiniteSet(X) /\ Pointer!Cardinality(X) = Cardinality(X)
  <1>1. \A X : Pointer!IsFiniteSet(X) = IsFiniteSet(X)
    BY DEF Pointer!IsFiniteSet, IsFiniteSet
  <1>2. \A X : Pointer!Cardinality(X) = Cardinality(X)
    BY DEF Pointer!Cardinality, Cardinality, Pointer!IsFiniteSet, IsFiniteSet
  <1> QED
    BY <1>1, <1>2

Memories ==
  [ptr : [Pointer!Names -> Pointer!Cells \cup {Nil}],
   cnt : [Pointer!Names -> Pointer!Cells \cup {Nil}],
   live : SUBSET Pointer!Names, count : [Pointer!Cells -> Int], used : 0..MaxNew,
   freedCounts : SUBSET Pointer!Cells, freedObjects : SUBSET Pointer!Cells, bad : BOOLEAN]

\* t is a memory with these contents.
Holding(t, p, c, l, n, u, fc, fo, b) ==
  /\ t \in Memories
  /\ t.ptr = p /\ t.cnt = c /\ t.live = l /\ t.count = n /\ t.used = u
  /\ t.freedCounts = fc /\ t.freedObjects = fo /\ t.bad = b

CountedBy(s, c) == {h \in s.live : s.cnt[h] = c}

\* Who points to an object uses the count made with it, and owners of one count
\* point to the same.
WellFormed(s) ==
  /\ s \in Memories
  /\ \A h \in Pointer!Names : s.ptr[h] \in {Nil, s.cnt[h]}
  /\ \A h \in Pointer!Names : s.cnt[h] # Nil => s.cnt[h] <= s.used
  /\ \A c \in s.freedCounts : c <= s.used
  /\ s.freedObjects \subseteq s.freedCounts
  /\ \A h, g \in s.live : s.cnt[h] = s.cnt[g] => s.ptr[h] = s.ptr[g]

\* The count of an object that has owners is there, and counts them.
Counted(s) ==
  \A h \in s.live : s.ptr[h] # Nil =>
    /\ s.ptr[h] \notin s.freedCounts
    /\ Pointer!Cardinality(CountedBy(s, s.ptr[h])) <= s.count[s.ptr[h]]

Kept(s) == WellFormed(s) /\ (~s.bad => Counted(s))

LEMMA CountFacts ==
  ASSUME Pointer!PointerAssumption
  PROVE  /\ Pointer!IsFiniteSet(Pointer!Names)
         /\ Nil \notin Pointer!Cells /\ Pointer!Cells \subseteq Nat \ {0}
         /\ \A s \in Memories : \A c : /\ Pointer!IsFiniteSet(CountedBy(s, c))
                                       /\ Pointer!Cardinality(CountedBy(s, c)) \in Nat
  <1>1. Pointer!IsFiniteSet(Pointer!Names)
    BY PointerCounting, FS_AddElement DEF Pointer!PointerAssumption, Pointer!Names
  <1>2. \A s \in Memories : \A c : CountedBy(s, c) \subseteq Pointer!Names
    BY DEF CountedBy, Memories
  <1> QED
    BY PointerCounting, <1>1, <1>2, FS_Subset, FS_CardinalityType
     DEF Pointer!PointerAssumption, Pointer!Cells

\* The members, field by field.
LEMMA PointHolds ==
  ASSUME NEW s \in Memories, NEW h \in Pointer!Names,
         NEW p \in Pointer!Cells \cup {Nil}, NEW c \in Pointer!Cells \cup {Nil}
  PROVE  Holding(Pointer!Point(s, h, p, c), [s.ptr EXCEPT ![h] = p], [s.cnt EXCEPT ![h] = c],
                 s.live, s.count, s.used, s.freedCounts, s.freedObjects, s.bad)
  <1> DEFINE t == [s EXCEPT !.ptr[h] = p]
  <1>1. Holding(t, [s.ptr EXCEPT ![h] = p], s.cnt,
                 s.live, s.count, s.used, s.freedCounts, s.freedObjects, s.bad)
    BY DEF Holding, Memories
  <1>2. Pointer!Point(s, h, p, c) = [t EXCEPT !.cnt[h] = c]
    BY DEF Pointer!Point
  <1> HIDE DEF t
  <1>3. Holding([t EXCEPT !.cnt[h] = c], t.ptr, [t.cnt EXCEPT ![h] = c], t.live,
                t.count, t.used, t.freedCounts, t.freedObjects, t.bad)
    BY <1>1 DEF Holding, Memories
  <1> QED
    BY <1>1, <1>2, <1>3 DEF Holding

LEMMA AddHolds ==
  ASSUME Pointer!PointerAssumption, NEW s \in Memories, NEW c \in Pointer!Cells \cup {Nil},
         NEW n \in Int
  PROVE  /\ Pointer!Usable(s, c) =>
              /\ c \in Pointer!Cells
              /\ Holding(Pointer!Add(s, c, n), s.ptr, s.cnt, s.live,
                         [s.count EXCEPT ![c] = s.count[c] + n], s.used,
                         s.freedCounts, s.freedObjects, s.bad)
         /\ ~Pointer!Usable(s, c) =>
              Holding(Pointer!Add(s, c, n), s.ptr, s.cnt, s.live, s.count, s.used,
                      s.freedCounts, s.freedObjects, TRUE)
  <1>1. CASE Pointer!Usable(s, c)
    <2>1. c \in Pointer!Cells /\ Pointer!Add(s, c, n) = [s EXCEPT !.count[c] = @ + n]
      BY <1>1 DEF Pointer!Usable, Pointer!Add
    <2> QED
      BY <1>1, <2>1 DEF Holding, Memories
  <1>2. CASE ~Pointer!Usable(s, c)
    <2>1. Pointer!Add(s, c, n) = [s EXCEPT !.bad = TRUE]
      BY <1>2 DEF Pointer!Add, Pointer!Bad
    <2> QED
      BY <1>2, <2>1 DEF Holding, Memories
  <1> QED
    BY <1>1, <1>2

LEMMA LiveHolds ==
  ASSUME NEW s \in Memories, NEW l \in SUBSET Pointer!Names
  PROVE  Holding([s EXCEPT !.live = l], s.ptr, s.cnt, l, s.count, s.used,
                 s.freedCounts, s.freedObjects, s.bad)
  BY DEF Holding, Memories

LEMMA MoveHolds ==
  ASSUME NEW s \in Memories, NEW h \in Pointer!Names, NEW g \in Pointer!Names, h # g
  PROVE  Holding(Pointer!Move(s, h, g), [s.ptr EXCEPT ![h] = s.ptr[g], ![g] = Nil],
                 [s.cnt EXCEPT ![h] = s.cnt[g], ![g] = Nil],
                 s.live \cup {h}, s.count, s.used, s.freedCounts, s.freedObjects, s.bad)
  <1> DEFINE a == Pointer!Point(s, h, s.ptr[g], s.cnt[g])
             b == [a EXCEPT !.live = s.live \cup {h}]
  <1>0. s.ptr[g] \in Pointer!Cells \cup {Nil} /\ s.cnt[g] \in Pointer!Cells \cup {Nil}
        /\ s.ptr \in [Pointer!Names -> Pointer!Cells \cup {Nil}]
        /\ s.cnt \in [Pointer!Names -> Pointer!Cells \cup {Nil}]
        /\ s.live \cup {h} \in SUBSET Pointer!Names
    BY DEF Memories
  <1>1. Holding(a, [s.ptr EXCEPT ![h] = s.ptr[g]], [s.cnt EXCEPT ![h] = s.cnt[g]],
                s.live, s.count, s.used, s.freedCounts, s.freedObjects, s.bad)
    BY <1>0, PointHolds
  <1>2. Pointer!Move(s, h, g) = Pointer!Point([a EXCEPT !.live = @ \cup {h}], g, Nil, Nil)
    BY DEF Pointer!Move
  <1> HIDE DEF a
  <1>3. [a EXCEPT !.live = @ \cup {h}] = b
    BY <1>1 DEF Holding
  <1>4. Holding(b, a.ptr, a.cnt, s.live \cup {h}, a.count, a.used,
                a.freedCounts, a.freedObjects, a.bad)
    BY <1>0, <1>1, LiveHolds DEF Holding
  <1> HIDE DEF b
  <1>5. Holding(Pointer!Point(b, g, Nil, Nil), [b.ptr EXCEPT ![g] = Nil],
                [b.cnt EXCEPT ![g] = Nil], b.live, b.count, b.used,
                b.freedCounts, b.freedObjects, b.bad)
    <2>1. b \in Memories /\ Nil \in Pointer!Cells \cup {Nil}
      BY <1>4 DEF Holding
    <2> QED
      BY <2>1, PointHolds
  <1>6. /\ b.ptr = [s.ptr EXCEPT ![h] = s.ptr[g]] /\ b.cnt = [s.cnt EXCEPT ![h] = s.cnt[g]]
        /\ b.live = s.live \cup {h} /\ b.count = s.count /\ b.used = s.used
        /\ b.freedCounts = s.freedCounts /\ b.freedObjects = s.freedObjects /\ b.bad = s.bad
    BY <1>1, <1>4 DEF Holding
  <1>7. /\ [b.ptr EXCEPT ![g] = Nil] = [s.ptr EXCEPT ![h] = s.ptr[g], ![g] = Nil]
        /\ [b.cnt EXCEPT ![g] = Nil] = [s.cnt EXCEPT ![h] = s.cnt[g], ![g] = Nil]
    BY <1>6
  <1> HIDE DEF Holding
  <1> QED
    BY <1>2, <1>3, <1>5, <1>6, <1>7

\* A move hands the place among the owners over.
LEMMA MoveKeeps ==
  ASSUME Pointer!PointerAssumption, NEW s, Kept(s),
         NEW h \in Pointer!Names, NEW g \in s.live, h # g
  PROVE  Kept(Pointer!Move(s, h, g)) /\ Pointer!Move(s, h, g).live = s.live \cup {h}
  <1> DEFINE t == Pointer!Move(s, h, g)
  <1>0. /\ s \in Memories /\ g \in Pointer!Names /\ s.live \subseteq Pointer!Names
        /\ s.ptr \in [Pointer!Names -> Pointer!Cells \cup {Nil}]
        /\ s.cnt \in [Pointer!Names -> Pointer!Cells \cup {Nil}]
        /\ s.count \in [Pointer!Cells -> Int] /\ s.used \in Nat
    BY DEF Kept, WellFormed, Memories, Pointer!PointerAssumption
  <1>1. /\ t \in Memories /\ t.live = s.live \cup {h}
        /\ t.ptr = [s.ptr EXCEPT ![h] = s.ptr[g], ![g] = Nil]
        /\ t.cnt = [s.cnt EXCEPT ![h] = s.cnt[g], ![g] = Nil]
        /\ t.count = s.count /\ t.used = s.used /\ t.freedCounts = s.freedCounts
        /\ t.freedObjects = s.freedObjects /\ t.bad = s.bad
    BY <1>0, MoveHolds DEF Holding
  <1> HIDE DEF t
  <1>2. /\ t.ptr[h] = s.ptr[g] /\ t.cnt[h] = s.cnt[g] /\ t.ptr[g] = Nil /\ t.cnt[g] = Nil
        /\ \A x \in Pointer!Names \ {h, g} : t.ptr[x] = s.ptr[x] /\ t.cnt[x] = s.cnt[x]
    BY <1>0, <1>1
  <1>3. WellFormed(t)
    <2>1. \A x \in Pointer!Names : t.ptr[x] \in {Nil, t.cnt[x]}
      BY <1>0, <1>2 DEF Kept, WellFormed
    <2>2. \A x \in Pointer!Names : t.cnt[x] # Nil => t.cnt[x] <= t.used
      BY <1>0, <1>1, <1>2 DEF Kept, WellFormed
    <2>3. \A x, y \in t.live : t.cnt[x] = t.cnt[y] => t.ptr[x] = t.ptr[y]
      <3> SUFFICES ASSUME NEW x \in t.live, NEW y \in t.live, t.cnt[x] = t.cnt[y]
                   PROVE  t.ptr[x] = t.ptr[y]
        OBVIOUS
      <3>0. x \in Pointer!Names /\ y \in Pointer!Names
        BY <1>0, <1>1
      <3>1. CASE x = g \/ y = g
        BY <1>2, <2>1, <3>0, <3>1
      <3>2. CASE x # g /\ y # g
        <4>1. \A a, b \in s.live : s.cnt[a] = s.cnt[b] => s.ptr[a] = s.ptr[b]
          BY DEF Kept, WellFormed
        <4> QED
          BY <1>0, <1>1, <1>2, <3>0, <3>2, <4>1
      <3> QED
        BY <3>1, <3>2
    <2> QED
      BY <1>1, <2>1, <2>2, <2>3 DEF Kept, WellFormed
  <1>4. ASSUME ~t.bad PROVE Counted(t)
    <2>1. Counted(s)
      BY <1>1, <1>4 DEF Kept
    <2> SUFFICES ASSUME NEW x \in t.live, t.ptr[x] # Nil
                 PROVE  /\ t.ptr[x] \notin t.freedCounts
                        /\ Pointer!Cardinality(CountedBy(t, t.ptr[x])) <= t.count[t.ptr[x]]
      BY DEF Counted
    <2> DEFINE c == t.ptr[x]
    <2>2. PICK y \in s.live : s.ptr[y] = c /\ (x = h => y = g) /\ (x # h => y = x)
      BY <1>0, <1>1, <1>2
    <2>3. /\ c \in Pointer!Cells /\ c \notin s.freedCounts
          /\ Pointer!Cardinality(CountedBy(s, c)) <= s.count[c]
      BY <1>0, <2>1, <2>2 DEF Counted
    <2>4. Pointer!Cardinality(CountedBy(t, c)) <= Pointer!Cardinality(CountedBy(s, c))
      <3> DEFINE O == CountedBy(s, c)
      <3>1. Pointer!IsFiniteSet(O) /\ Pointer!Cardinality(O) \in Nat
        BY <1>0, CountFacts
      <3>2. CASE s.cnt[g] = c
        <4>1. g \in O
          BY <3>2 DEF CountedBy
        <4>2. CountedBy(t, c) \in SUBSET ((O \ {g}) \cup {h})
          BY <1>0, <1>1, <1>2, <2>3, CountFacts DEF CountedBy
        <4> HIDE DEF O
        <4>3. /\ Pointer!IsFiniteSet(O \ {g})
              /\ Pointer!Cardinality(O \ {g}) = Pointer!Cardinality(O) - 1
          BY PointerCounting, <3>1, <4>1, FS_RemoveElement
        <4>4. /\ Pointer!IsFiniteSet((O \ {g}) \cup {h})
              /\ Pointer!Cardinality((O \ {g}) \cup {h}) <= Pointer!Cardinality(O)
          <5> DEFINE P == O \ {g}
          <5> HIDE DEF P
          <5>1. /\ Pointer!IsFiniteSet(P)
                /\ Pointer!Cardinality(P) = Pointer!Cardinality(O) - 1
            BY <4>3 DEF P
          <5>2. /\ Pointer!IsFiniteSet(P \cup {h})
                /\ Pointer!Cardinality(P \cup {h}) =
                     IF h \in P THEN Pointer!Cardinality(P) ELSE Pointer!Cardinality(P) + 1
            BY PointerCounting, <5>1, FS_AddElement
          <5>3. Pointer!Cardinality(P \cup {h}) <= Pointer!Cardinality(O)
            BY <3>1, <5>1, <5>2
          <5> QED
            BY <5>2, <5>3 DEF P
        <4>5. Pointer!Cardinality(CountedBy(t, c)) <= Pointer!Cardinality((O \ {g}) \cup {h})
          BY PointerCounting, <4>2, <4>4, FS_Subset
        <4>6. /\ Pointer!Cardinality((O \ {g}) \cup {h}) \in Nat
              /\ Pointer!Cardinality(CountedBy(t, c)) \in Nat
          BY PointerCounting, <1>1, <4>4, FS_CardinalityType, CountFacts
        <4> QED
          BY <3>1, <4>4, <4>5, <4>6 DEF O
      <3>3. CASE s.cnt[g] # c
        <4>1. CountedBy(t, c) \in SUBSET O
          BY <1>0, <1>1, <1>2, <2>3, <3>3, CountFacts DEF CountedBy
        <4> QED
          BY PointerCounting, <3>1, <4>1, FS_Subset
      <3> QED
        BY <3>2, <3>3
    <2>5. /\ t \in Memories /\ Pointer!Cardinality(CountedBy(t, c)) \in Nat
          /\ Pointer!Cardinality(CountedBy(s, c)) \in Nat
      BY <1>0, <1>1, CountFacts
    <2> QED
      BY <1>0, <1>1, <2>3, <2>4, <2>5
  <1> QED
    BY <1>1, <1>3, <1>4 DEF Kept, t

LEMMA MoveAssignKeeps ==
  ASSUME Pointer!PointerAssumption, NEW s, Kept(s), NEW h \in s.live, NEW g \in s.live
  PROVE  Kept(Pointer!MoveAssign(s, h, g)) /\ Pointer!MoveAssign(s, h, g).live = s.live
  <1>1. CASE s.ptr[h] = s.ptr[g]
    BY <1>1 DEF Pointer!MoveAssign
  <1>2. CASE s.ptr[h] # s.ptr[g]
    <2> DEFINE a == Pointer!Point(s, h, s.ptr[g], s.cnt[g])
    <2>1. /\ s \in Memories /\ h \in Pointer!Names /\ g \in Pointer!Names
          /\ s.live \cup {h} = s.live
          /\ s.ptr[g] \in Pointer!Cells \cup {Nil} /\ s.cnt[g] \in Pointer!Cells \cup {Nil}
      BY DEF Kept, WellFormed, Memories
    <2>2. a \in Memories /\ a.live = s.live
      <3>1. Holding(a, [s.ptr EXCEPT ![h] = s.ptr[g]], [s.cnt EXCEPT ![h] = s.cnt[g]],
                    s.live, s.count, s.used, s.freedCounts, s.freedObjects, s.bad)
        BY <2>1, PointHolds
      <3> QED
        BY <3>1 DEF Holding
    <2>3. Pointer!MoveAssign(s, h, g) = Pointer!Point(a, g, Nil, Nil)
      BY <1>2 DEF Pointer!MoveAssign
    <2>4. Pointer!Move(s, h, g) = Pointer!Point([a EXCEPT !.live = @ \cup {h}], g, Nil, Nil)
      BY DEF Pointer!Move
    <2> HIDE DEF a
    <2>5. [a EXCEPT !.live = @ \cup {h}] = a
      BY <2>1, <2>2 DEF Memories
    <2>6. Pointer!MoveAssign(s, h, g) = Pointer!Move(s, h, g)
      BY <2>3, <2>4, <2>5
    <2>7. h # g
      BY <1>2
    <2> QED
      <3>1. Kept(Pointer!Move(s, h, g)) /\ Pointer!Move(s, h, g).live = s.live \cup {h}
        BY <2>1, <2>7, MoveKeeps
      <3> QED
        BY <2>1, <2>6, <3>1
  <1> QED
    BY <1>1, <1>2

\* The destructor takes one owner and one from its count.
LEMMA DestructKeeps ==
  ASSUME Pointer!PointerAssumption, NEW s, Kept(s), NEW h \in s.live
  PROVE  Kept(Pointer!Destruct(s, h)) /\ Pointer!Destruct(s, h).live = s.live \ {h}
  <1> DEFINE a == [s EXCEPT !.live = s.live \ {h}]
             t == Pointer!Destruct(s, h)
             d == s.cnt[h]
  <1>0. /\ s \in Memories /\ h \in Pointer!Names /\ s.live \subseteq Pointer!Names
        /\ s.ptr \in [Pointer!Names -> Pointer!Cells \cup {Nil}]
        /\ s.cnt \in [Pointer!Names -> Pointer!Cells \cup {Nil}]
        /\ s.count \in [Pointer!Cells -> Int] /\ s.used \in Nat
        /\ s.live \ {h} \in SUBSET Pointer!Names
    BY DEF Kept, WellFormed, Memories, Pointer!PointerAssumption
  <1>1. Holding(a, s.ptr, s.cnt, s.live \ {h}, s.count, s.used,
                s.freedCounts, s.freedObjects, s.bad)
    BY <1>0, LiveHolds
  <1>2. t = IF d = Nil THEN a ELSE Pointer!Add(a, d, -1)
    <2>1. [s EXCEPT !.live = @ \ {h}] = a
      OBVIOUS
    <2> QED
      BY <2>1 DEF Pointer!Destruct
  <1> HIDE DEF a
  <1>3. /\ t \in Memories /\ t.live = s.live \ {h} /\ t.ptr = s.ptr /\ t.cnt = s.cnt
        /\ t.used = s.used /\ t.freedCounts = s.freedCounts
        /\ t.freedObjects = s.freedObjects /\ (s.bad => t.bad)
        /\ ~t.bad => t.count = IF d = Nil THEN s.count
                               ELSE [s.count EXCEPT ![d] = s.count[d] + (-1)]
    <2>1. CASE d = Nil
      BY <1>1, <1>2, <2>1 DEF Holding
    <2>2. CASE d # Nil
      <3>1. /\ a \in Memories /\ d \in Pointer!Cells \cup {Nil}
            /\ -1 \in Int /\ t = Pointer!Add(a, d, -1)
        BY <1>0, <1>1, <1>2, <2>2 DEF Holding
      <3>2. CASE Pointer!Usable(a, d)
        <4>1. Holding(t, a.ptr, a.cnt, a.live,
                      [a.count EXCEPT ![d] = a.count[d] + (-1)], a.used,
                      a.freedCounts, a.freedObjects, a.bad)
          BY <3>1, <3>2, AddHolds
        <4> QED
          BY <1>1, <2>2, <4>1 DEF Holding
      <3>3. CASE ~Pointer!Usable(a, d)
        <4>1. Holding(t, a.ptr, a.cnt, a.live, a.count, a.used,
                      a.freedCounts, a.freedObjects, TRUE)
          BY <3>1, <3>3, AddHolds
        <4> QED
          BY <1>1, <4>1 DEF Holding
      <3> QED
        BY <3>2, <3>3
    <2> QED
      BY <2>1, <2>2
  <1> HIDE DEF t
  <1>4. WellFormed(t)
    BY <1>3 DEF Kept, WellFormed
  <1>5. ASSUME ~t.bad PROVE Counted(t)
    <2>1. Counted(s)
      BY <1>3, <1>5 DEF Kept
    <2> SUFFICES ASSUME NEW x \in t.live, t.ptr[x] # Nil
                 PROVE  /\ t.ptr[x] \notin t.freedCounts
                        /\ Pointer!Cardinality(CountedBy(t, t.ptr[x])) <= t.count[t.ptr[x]]
      BY DEF Counted
    <2> DEFINE c == t.ptr[x]
               O == CountedBy(s, c)
    <2>2. /\ c \in Pointer!Cells /\ c \notin s.freedCounts
          /\ Pointer!Cardinality(O) <= s.count[c]
      BY <1>0, <1>3, <2>1 DEF Counted
    <2>3. /\ Pointer!IsFiniteSet(O) /\ Pointer!Cardinality(O) \in Nat
      BY <1>0, CountFacts
    <2>4. CountedBy(t, c) = O \ {h}
      BY <1>3 DEF CountedBy
    <2>5. h \in O <=> d = c
      BY DEF CountedBy
    <2> HIDE DEF O
    <2>6. Pointer!Cardinality(O \ {h}) =
            IF h \in O THEN Pointer!Cardinality(O) - 1 ELSE Pointer!Cardinality(O)
      BY PointerCounting, <2>3, FS_RemoveElement
    <2>7. t.count[c] = IF d = c THEN s.count[c] - 1 ELSE s.count[c]
      BY <1>0, <1>3, <1>5, <2>2, CountFacts
    <2>8. s.count[c] \in Int
      BY <1>0, <2>2
    <2> QED
      BY <1>3, <2>2, <2>3, <2>4, <2>5, <2>6, <2>7, <2>8
  <1> QED
    BY <1>3, <1>4, <1>5 DEF Kept, t

LEMMA SwapKeeps ==
  ASSUME Pointer!PointerAssumption, NEW s, Kept(s), s.live \subseteq Handles,
         NEW h \in s.live, NEW g \in s.live
  PROVE  Kept(Pointer!Swap(s, h, g)) /\ Pointer!Swap(s, h, g).live = s.live
  <1> DEFINE a == Pointer!Move(s, Temp, h)
             b == Pointer!MoveAssign(a, h, g)
             c == Pointer!MoveAssign(b, g, Temp)
  <1>0. Temp \in Pointer!Names /\ Temp \notin s.live
    BY DEF Pointer!PointerAssumption, Pointer!Names
  <1>1. Kept(a) /\ a.live = s.live \cup {Temp}
    BY <1>0, MoveKeeps
  <1>2. Pointer!Swap(s, h, g) = Pointer!Destruct(c, Temp)
    BY DEF Pointer!Swap
  <1> HIDE DEF a
  <1>3. Kept(b) /\ b.live = a.live
    BY <1>1, MoveAssignKeeps
  <1> HIDE DEF b
  <1>4. Kept(c) /\ c.live = b.live
    BY <1>1, <1>3, MoveAssignKeeps
  <1> HIDE DEF c
  <1>5. Kept(Pointer!Destruct(c, Temp)) /\ Pointer!Destruct(c, Temp).live = c.live \ {Temp}
    BY <1>1, <1>3, <1>4, DestructKeeps
  <1> QED
    BY <1>0, <1>1, <1>2, <1>3, <1>4, <1>5

\* A copy is one owner more and is counted.
LEMMA CopyKeeps ==
  ASSUME Pointer!PointerAssumption, NEW s, Kept(s),
         NEW h \in Pointer!Names \ s.live, NEW g \in s.live
  PROVE  Kept(Pointer!Copy(s, h, g)) /\ Pointer!Copy(s, h, g).live = s.live \cup {h}
  <1> DEFINE a == Pointer!Point(s, h, s.ptr[g], s.cnt[g])
             b == [a EXCEPT !.live = s.live \cup {h}]
             t == Pointer!Copy(s, h, g)
             d == s.cnt[g]
  <1>0. /\ s \in Memories /\ g \in Pointer!Names /\ h \in Pointer!Names /\ h # g
        /\ s.live \subseteq Pointer!Names
        /\ s.ptr \in [Pointer!Names -> Pointer!Cells \cup {Nil}]
        /\ s.cnt \in [Pointer!Names -> Pointer!Cells \cup {Nil}]
        /\ s.ptr[g] \in Pointer!Cells \cup {Nil} /\ d \in Pointer!Cells \cup {Nil}
        /\ s.count \in [Pointer!Cells -> Int] /\ s.used \in Nat
        /\ s.live \cup {h} \in SUBSET Pointer!Names
    BY DEF Kept, WellFormed, Memories, Pointer!PointerAssumption
  <1>1. Holding(a, [s.ptr EXCEPT ![h] = s.ptr[g]], [s.cnt EXCEPT ![h] = s.cnt[g]],
                s.live, s.count, s.used, s.freedCounts, s.freedObjects, s.bad)
    BY <1>0, PointHolds
  <1>2. t = Pointer!Add([a EXCEPT !.live = @ \cup {h}], d, 1)
    BY DEF Pointer!Copy
  <1> HIDE DEF a
  <1>3. [a EXCEPT !.live = @ \cup {h}] = b
    BY <1>1 DEF Holding
  <1>4. Holding(b, a.ptr, a.cnt, s.live \cup {h}, a.count, a.used,
                a.freedCounts, a.freedObjects, a.bad)
    BY <1>0, <1>1, LiveHolds DEF Holding
  <1> HIDE DEF b
  <1>5. /\ t \in Memories /\ t.live = s.live \cup {h}
        /\ t.ptr = [s.ptr EXCEPT ![h] = s.ptr[g]] /\ t.cnt = [s.cnt EXCEPT ![h] = d]
        /\ t.used = s.used /\ t.freedCounts = s.freedCounts
        /\ t.freedObjects = s.freedObjects /\ (s.bad => t.bad)
        /\ ~t.bad => d \in Pointer!Cells /\ t.count = [s.count EXCEPT ![d] = s.count[d] + 1]
    <2>1. /\ b.ptr = [s.ptr EXCEPT ![h] = s.ptr[g]] /\ b.cnt = [s.cnt EXCEPT ![h] = s.cnt[g]]
          /\ b.live = s.live \cup {h} /\ b.count = s.count /\ b.used = s.used
          /\ b.freedCounts = s.freedCounts /\ b.freedObjects = s.freedObjects
          /\ b.bad = s.bad
      BY <1>1, <1>4 DEF Holding
    <2>0. b \in Memories /\ 1 \in Int
      BY <1>4 DEF Holding
    <2>2. CASE Pointer!Usable(b, d)
      <3>1. /\ d \in Pointer!Cells
            /\ Holding(Pointer!Add(b, d, 1), b.ptr, b.cnt, b.live,
                       [b.count EXCEPT ![d] = b.count[d] + 1], b.used,
                       b.freedCounts, b.freedObjects, b.bad)
        BY <1>0, <2>0, <2>2, AddHolds
      <3>2. Pointer!Add(b, d, 1) = t
        BY <1>2, <1>3
      <3> QED
        BY <2>1, <3>1, <3>2 DEF Holding
    <2>3. CASE ~Pointer!Usable(b, d)
      <3>1. Holding(Pointer!Add(b, d, 1), b.ptr, b.cnt, b.live, b.count, b.used,
                    b.freedCounts, b.freedObjects, TRUE)
        BY <1>0, <2>0, <2>3, AddHolds
      <3>2. Pointer!Add(b, d, 1) = t
        BY <1>2, <1>3
      <3> QED
        BY <2>1, <3>1, <3>2 DEF Holding
    <2> QED
      BY <2>2, <2>3
  <1> HIDE DEF t
  <1>6. /\ t.ptr[h] = s.ptr[g] /\ t.cnt[h] = d
        /\ \A x \in Pointer!Names \ {h} : t.ptr[x] = s.ptr[x] /\ t.cnt[x] = s.cnt[x]
    BY <1>0, <1>5
  <1>7. WellFormed(t)
    <2>1. \A x \in Pointer!Names : t.ptr[x] \in {Nil, t.cnt[x]}
      BY <1>0, <1>6 DEF Kept, WellFormed
    <2>2. \A x \in Pointer!Names : t.cnt[x] # Nil => t.cnt[x] <= t.used
      BY <1>0, <1>5, <1>6 DEF Kept, WellFormed
    <2>3. \A x, y \in t.live : t.cnt[x] = t.cnt[y] => t.ptr[x] = t.ptr[y]
      <3>1. \A x, y \in s.live : s.cnt[x] = s.cnt[y] => s.ptr[x] = s.ptr[y]
        BY DEF Kept, WellFormed
      <3> QED
        BY <1>0, <1>5, <1>6, <3>1
    <2> QED
      BY <1>5, <2>1, <2>2, <2>3 DEF Kept, WellFormed
  <1>8. ASSUME ~t.bad PROVE Counted(t)
    <2>1. Counted(s)
      BY <1>5, <1>8 DEF Kept
    <2> SUFFICES ASSUME NEW x \in t.live, t.ptr[x] # Nil
                 PROVE  /\ t.ptr[x] \notin t.freedCounts
                        /\ Pointer!Cardinality(CountedBy(t, t.ptr[x])) <= t.count[t.ptr[x]]
      BY DEF Counted
    <2> DEFINE c == t.ptr[x]
               O == CountedBy(s, c)
    <2>2. PICK y \in s.live : s.ptr[y] = c
      BY <1>0, <1>5, <1>6
    <2>3. c \in Pointer!Cells /\ c \notin s.freedCounts /\ Pointer!Cardinality(O) <= s.count[c]
      BY <1>0, <2>1, <2>2 DEF Counted
    <2>4. /\ Pointer!IsFiniteSet(O) /\ Pointer!Cardinality(O) \in Nat
          /\ Pointer!Cardinality(CountedBy(t, c)) \in Nat
      BY <1>0, <1>5, CountFacts
    <2>5. CountedBy(t, c) = IF d = c THEN O \cup {h} ELSE O
      BY <1>0, <1>5, <1>6 DEF CountedBy
    <2>6. t.count[c] = IF d = c THEN s.count[c] + 1 ELSE s.count[c]
      BY <1>0, <1>5, <1>8, <2>3
    <2> HIDE DEF O
    <2>7. Pointer!Cardinality(O \cup {h}) =
            IF h \in O THEN Pointer!Cardinality(O) ELSE Pointer!Cardinality(O) + 1
      BY PointerCounting, <2>4, FS_AddElement
    <2>8. s.count[c] \in Int
      BY <1>0, <2>3
    <2> QED
      BY <1>5, <2>3, <2>4, <2>5, <2>6, <2>7, <2>8
  <1> QED
    BY <1>5, <1>7, <1>8 DEF Kept, t

\* A count that was just allocated has no other owner.
LEMMA NewKeeps ==
  ASSUME Pointer!PointerAssumption, NEW s, Kept(s),
         NEW h \in Pointer!Names \ s.live, s.used < MaxNew,
         NEW t \in {Pointer!Default(s, h), Pointer!FromNew(s, h)}
  PROVE  Kept(t) /\ t.live = s.live \cup {h}
  <1> DEFINE c == s.used + 1
             p == IF t = Pointer!FromNew(s, h) THEN c ELSE Nil
             n == IF t = Pointer!FromNew(s, h) THEN 1 ELSE 0
             a == Pointer!Point(s, h, p, c)
  <1>0. /\ s \in Memories /\ h \in Pointer!Names /\ s.live \subseteq Pointer!Names
        /\ s.ptr \in [Pointer!Names -> Pointer!Cells \cup {Nil}]
        /\ s.cnt \in [Pointer!Names -> Pointer!Cells \cup {Nil}]
        /\ s.count \in [Pointer!Cells -> Int] /\ s.used \in Nat
        /\ s.live \cup {h} \in SUBSET Pointer!Names
        /\ MaxNew \in Nat /\ c \in Pointer!Cells /\ p \in Pointer!Cells \cup {Nil}
        /\ n \in {0, 1}
        /\ p = c => n = 1
    BY CountFacts DEF Kept, WellFormed, Memories, Pointer!PointerAssumption,
       Pointer!Cells
  <1>1. Holding(a, [s.ptr EXCEPT ![h] = p], [s.cnt EXCEPT ![h] = c],
                s.live, s.count, s.used, s.freedCounts, s.freedObjects, s.bad)
    BY <1>0, PointHolds
  <1>2. t = [a EXCEPT !.live = @ \cup {h}, !.used = c, !.count[c] = n]
    BY DEF Pointer!Default, Pointer!FromNew
  <1> HIDE DEF a
  <1>3. /\ t \in Memories /\ t.live = s.live \cup {h}
        /\ t.ptr = [s.ptr EXCEPT ![h] = p] /\ t.cnt = [s.cnt EXCEPT ![h] = c]
        /\ t.count = [s.count EXCEPT ![c] = n] /\ t.used = c
        /\ t.freedCounts = s.freedCounts /\ t.freedObjects = s.freedObjects /\ t.bad = s.bad
    <2>1. c \in 0..MaxNew /\ n \in Int
      BY <1>0 DEF Pointer!Cells
    <2>2. /\ a \in Memories /\ a.live = s.live /\ c \in Pointer!Cells
          /\ s.live \cup {h} \in SUBSET Pointer!Names
      BY <1>0, <1>1 DEF Holding
    <2> HIDE DEF c, p, n
    <2>3. Holding(t, a.ptr, a.cnt, s.live \cup {h}, [a.count EXCEPT ![c] = n], c,
                  a.freedCounts, a.freedObjects, a.bad)
      BY <1>2, <2>1, <2>2 DEF Holding, Memories
    <2> QED
      BY <1>1, <2>3 DEF Holding
  <1> HIDE DEF p, n
  <1>4. /\ t.ptr[h] = p /\ t.cnt[h] = c
        /\ \A x \in Pointer!Names \ {h} : t.ptr[x] = s.ptr[x] /\ t.cnt[x] = s.cnt[x]
    BY <1>0, <1>3
  <1>5. /\ \A x \in Pointer!Names : s.cnt[x] # c /\ s.ptr[x] # c
        /\ c \notin s.freedCounts
    BY <1>0, CountFacts DEF Kept, WellFormed
  <1> USE <1>0
  <1>6. WellFormed(t)
    <2>0. p \in {Nil, c}
      BY DEF p
    <2>1. \A x \in Pointer!Names : t.ptr[x] \in {Nil, t.cnt[x]}
      BY <1>4, <2>0 DEF Kept, WellFormed
    <2>2. \A x \in Pointer!Names : t.cnt[x] # Nil => t.cnt[x] <= t.used
      <3> SUFFICES ASSUME NEW x \in Pointer!Names, t.cnt[x] # Nil PROVE t.cnt[x] <= t.used
        OBVIOUS
      <3>1. CASE x = h
        BY <1>3, <1>4, <3>1
      <3>2. CASE x # h
        <4>1. t.cnt[x] = s.cnt[x] /\ s.cnt[x] \in Pointer!Cells /\ s.cnt[x] <= s.used
          BY <1>4, <3>2 DEF Kept, WellFormed
        <4> QED
          BY <1>3, <4>1 DEF Pointer!Cells
      <3> QED
        BY <3>1, <3>2
    <2>3. \A x, y \in t.live : t.cnt[x] = t.cnt[y] => t.ptr[x] = t.ptr[y]
      <3>1. \A x, y \in s.live : s.cnt[x] = s.cnt[y] => s.ptr[x] = s.ptr[y]
        BY DEF Kept, WellFormed
      <3> QED
        BY <1>3, <1>4, <1>5, <3>1
    <2>4. \A x \in t.freedCounts : x <= t.used
      <3> SUFFICES ASSUME NEW x \in s.freedCounts PROVE x <= c
        BY <1>3
      <3>1. x \in Pointer!Cells /\ x <= s.used
        BY DEF Kept, WellFormed, Memories
      <3> QED
        BY <3>1 DEF Pointer!Cells
    <2> QED
      BY <1>3, <2>1, <2>2, <2>3, <2>4 DEF Kept, WellFormed
  <1>7. ASSUME ~t.bad PROVE Counted(t)
    <2>1. Counted(s)
      BY <1>3, <1>7 DEF Kept
    <2> SUFFICES ASSUME NEW x \in t.live, t.ptr[x] # Nil
                 PROVE  /\ t.ptr[x] \notin t.freedCounts
                        /\ Pointer!Cardinality(CountedBy(t, t.ptr[x])) <= t.count[t.ptr[x]]
      BY DEF Counted
    <2>2. CASE x = h
      <3>1. t.ptr[x] = c /\ n = 1
        BY <1>4, <2>2 DEF p, n
      <3>2. CountedBy(t, c) = {h}
        BY <1>3, <1>4, <1>5 DEF CountedBy
      <3>3. Pointer!Cardinality({h}) = 1 /\ t.count[c] = 1
        BY PointerCounting, <1>3, <3>1, FS_Singleton
      <3>4. c \notin t.freedCounts
        BY <1>3, <1>5
      <3> HIDE DEF c
      <3>5. Pointer!Cardinality(CountedBy(t, c)) <= t.count[c]
        <4>1. Pointer!Cardinality(CountedBy(t, c)) = 1
          BY <3>2, <3>3
        <4> QED
          BY <3>3, <4>1
      <3> QED
        BY <3>1, <3>4, <3>5
    <2>3. CASE x # h
      <3>1. /\ x \in s.live /\ t.ptr[x] = s.ptr[x] /\ s.ptr[x] # c /\ s.ptr[x] \in Pointer!Cells
        BY <1>3, <1>4, <1>5, <2>3
      <3>2. /\ s.ptr[x] \notin s.freedCounts
            /\ Pointer!Cardinality(CountedBy(s, s.ptr[x])) <= s.count[s.ptr[x]]
        BY <2>1, <3>1 DEF Counted
      <3>3. CountedBy(t, s.ptr[x]) = CountedBy(s, s.ptr[x])
        BY <1>3, <1>4, <3>1 DEF CountedBy
      <3>4. t.count[s.ptr[x]] = s.count[s.ptr[x]]
        BY <1>3, <3>1
      <3> QED
        BY <1>3, <3>1, <3>2, <3>3, <3>4
    <2> QED
      BY <2>2, <2>3
  <1> QED
    BY <1>3, <1>6, <1>7 DEF Kept

\* An assignment takes one owner from a count, which it deletes with its object
\* when that was the last, and gives one to another.
LEMMA CopyAssignKeeps ==
  ASSUME Pointer!PointerAssumption, NEW s, Kept(s), NEW h \in s.live, NEW g \in s.live
  PROVE  Kept(Pointer!CopyAssign(s, h, g)) /\ Pointer!CopyAssign(s, h, g).live = s.live
  <1>1. CASE s.ptr[h] = s.ptr[g] \/ s.cnt[h] = Nil
    BY <1>1 DEF Pointer!CopyAssign
  <1>2. CASE ~(s.ptr[h] = s.ptr[g] \/ s.cnt[h] = Nil)
    <2> DEFINE c == s.cnt[h]
               d == s.cnt[g]
               a == Pointer!Add(s, c, -1)
               b == Pointer!Drop(a, h)
               e == Pointer!Point(b, h, s.ptr[g], d)
               t == Pointer!Add(e, d, 1)
               ends == s.count[c] = 1
    <2>0. /\ s \in Memories /\ h \in Pointer!Names /\ g \in Pointer!Names /\ h # g
          /\ s.live \subseteq Pointer!Names
          /\ s.ptr \in [Pointer!Names -> Pointer!Cells \cup {Nil}]
          /\ s.cnt \in [Pointer!Names -> Pointer!Cells \cup {Nil}]
          /\ s.ptr[g] \in Pointer!Cells \cup {Nil} /\ d \in Pointer!Cells \cup {Nil}
          /\ c \in Pointer!Cells /\ c # d /\ s.ptr[h] \in {Nil, c} /\ c <= s.used
          /\ s.count \in [Pointer!Cells -> Int] /\ s.used \in Nat
      <3>1. /\ s \in Memories /\ h \in Pointer!Names /\ g \in Pointer!Names /\ h # g
            /\ s.live \subseteq Pointer!Names
            /\ s.ptr \in [Pointer!Names -> Pointer!Cells \cup {Nil}]
            /\ s.cnt \in [Pointer!Names -> Pointer!Cells \cup {Nil}]
            /\ s.count \in [Pointer!Cells -> Int] /\ s.used \in Nat
        BY <1>2 DEF Kept, WellFormed, Memories, Pointer!PointerAssumption
      <3>2. c # d /\ s.ptr[h] \in {Nil, c} /\ c <= s.used
        BY <1>2, <3>1 DEF Kept, WellFormed
      <3> QED
        BY <1>2, <3>1, <3>2
    <2>1. Pointer!CopyAssign(s, h, g) = t
      BY <1>2 DEF Pointer!CopyAssign
    <2>2. /\ a \in Memories /\ a.ptr = s.ptr /\ a.cnt = s.cnt /\ a.live = s.live
          /\ a.used = s.used /\ a.freedCounts = s.freedCounts
          /\ a.freedObjects = s.freedObjects /\ (s.bad => a.bad)
          /\ ~a.bad => a.count = [s.count EXCEPT ![c] = s.count[c] + (-1)]
      <3>1. -1 \in Int /\ c \in Pointer!Cells \cup {Nil}
        BY <2>0
      <3>2. CASE Pointer!Usable(s, c)
        <4>1. Holding(a, s.ptr, s.cnt, s.live, [s.count EXCEPT ![c] = s.count[c] + (-1)],
                      s.used, s.freedCounts, s.freedObjects, s.bad)
          BY <2>0, <3>1, <3>2, AddHolds
        <4> QED
          BY <4>1 DEF Holding
      <3>3. CASE ~Pointer!Usable(s, c)
        <4>1. Holding(a, s.ptr, s.cnt, s.live, s.count, s.used, s.freedCounts,
                      s.freedObjects, TRUE)
          BY <2>0, <3>1, <3>3, AddHolds
        <4> QED
          BY <4>1 DEF Holding
      <3> QED
        BY <3>2, <3>3
    <2> HIDE DEF a
    <2>3. /\ b \in Memories /\ b.ptr = s.ptr /\ b.cnt = s.cnt /\ b.live = s.live
          /\ b.used = s.used /\ (s.bad => b.bad)
          /\ \/ b.freedCounts = s.freedCounts /\ b.freedObjects = s.freedObjects
                  /\ (~b.bad => ~ends)
             \/ /\ b.freedCounts = s.freedCounts \cup {c}
                /\ b.freedObjects = s.freedObjects \cup ({s.ptr[h]} \ {Nil})
                /\ ~b.bad /\ ends
          /\ ~b.bad => b.count = [s.count EXCEPT ![c] = s.count[c] + (-1)]
      <3>1. ~a.bad => (a.count[c] = 0 <=> ends)
        BY <2>0, <2>2
      <3>2. CASE a.bad \/ a.count[c] # 0
        <4>1. b = a
          BY <2>2, <3>2 DEF Pointer!Drop
        <4> QED
          BY <2>2, <3>1, <3>2, <4>1
      <3>3. CASE ~(a.bad \/ a.count[c] # 0)
        <4> DEFINE fc == s.freedCounts \cup {c}
                   fo == s.freedObjects \cup ({s.ptr[h]} \ {Nil})
        <4>1. b = [a EXCEPT !.freedCounts = a.freedCounts \cup {c},
                            !.freedObjects = a.freedObjects \cup ({s.ptr[h]} \ {Nil})]
          BY <2>2, <3>3 DEF Pointer!Drop
        <4>2. b = [a EXCEPT !.freedCounts = fc, !.freedObjects = fo]
          BY <2>2, <4>1
        <4>3. fc \in SUBSET Pointer!Cells /\ fo \in SUBSET Pointer!Cells
          BY <2>0, <2>2 DEF Memories
        <4> HIDE DEF b, fc, fo
        <4>4. Holding(b, a.ptr, a.cnt, a.live, a.count, a.used, fc, fo, a.bad)
          BY <2>2, <4>2, <4>3 DEF Holding, Memories
        <4> QED
          BY <2>2, <3>1, <3>3, <4>4 DEF Holding, fc, fo
      <3> QED
        BY <3>2, <3>3
    <2> HIDE DEF b
    <2>4. Holding(e, [s.ptr EXCEPT ![h] = s.ptr[g]], [s.cnt EXCEPT ![h] = d],
                  s.live, b.count, s.used, b.freedCounts, b.freedObjects, b.bad)
      BY <2>0, <2>3, PointHolds
    <2> HIDE DEF e
    <2>5. /\ t \in Memories /\ t.live = s.live
          /\ t.ptr = [s.ptr EXCEPT ![h] = s.ptr[g]] /\ t.cnt = [s.cnt EXCEPT ![h] = d]
          /\ t.used = s.used /\ t.freedCounts = b.freedCounts
          /\ t.freedObjects = b.freedObjects /\ (b.bad => t.bad)
          /\ ~t.bad => /\ d \in Pointer!Cells
                       /\ t.count = [b.count EXCEPT ![d] = b.count[d] + 1]
      <3>1. e \in Memories /\ 1 \in Int
        BY <2>4 DEF Holding
      <3>2. CASE Pointer!Usable(e, d)
        <4>1. /\ d \in Pointer!Cells
              /\ Holding(t, e.ptr, e.cnt, e.live, [e.count EXCEPT ![d] = e.count[d] + 1],
                         e.used, e.freedCounts, e.freedObjects, e.bad)
          BY <2>0, <3>1, <3>2, AddHolds
        <4> QED
          BY <2>4, <4>1 DEF Holding
      <3>3. CASE ~Pointer!Usable(e, d)
        <4>1. Holding(t, e.ptr, e.cnt, e.live, e.count, e.used, e.freedCounts,
                      e.freedObjects, TRUE)
          BY <2>0, <3>1, <3>3, AddHolds
        <4> QED
          BY <2>4, <4>1 DEF Holding
      <3> QED
        BY <3>2, <3>3
    <2> HIDE DEF t
    <2>6. /\ t.ptr[h] = s.ptr[g] /\ t.cnt[h] = d
          /\ \A x \in Pointer!Names \ {h} : t.ptr[x] = s.ptr[x] /\ t.cnt[x] = s.cnt[x]
      BY <2>0, <2>5
    <2>7. WellFormed(t)
      <3>1. \A x \in Pointer!Names : t.ptr[x] \in {Nil, t.cnt[x]}
        BY <2>0, <2>6 DEF Kept, WellFormed
      <3>2. \A x \in Pointer!Names : t.cnt[x] # Nil => t.cnt[x] <= t.used
        BY <2>0, <2>5, <2>6 DEF Kept, WellFormed
      <3>3. \A x, y \in t.live : t.cnt[x] = t.cnt[y] => t.ptr[x] = t.ptr[y]
        <4>1. \A x, y \in s.live : s.cnt[x] = s.cnt[y] => s.ptr[x] = s.ptr[y]
          BY DEF Kept, WellFormed
        <4> QED
          BY <2>0, <2>5, <2>6, <4>1
      <3>4. \A x \in t.freedCounts : x <= t.used
        BY <2>0, <2>3, <2>5 DEF Kept, WellFormed
      <3>5. t.freedObjects \subseteq t.freedCounts
        BY <2>0, <2>3, <2>5 DEF Kept, WellFormed
      <3> QED
        BY <2>5, <3>1, <3>2, <3>3, <3>4, <3>5 DEF WellFormed
    <2>8. ASSUME ~t.bad PROVE Counted(t)
      <3>0. /\ d \in Pointer!Cells
            /\ t.count[c] = s.count[c] - 1 /\ t.count[d] = s.count[d] + 1
            /\ \A x \in Pointer!Cells \ {c, d} : t.count[x] = s.count[x]
            /\ t.freedCounts = s.freedCounts \cup (IF ends THEN {c} ELSE {})
        <4>1. t.freedCounts = s.freedCounts \cup (IF ends THEN {c} ELSE {})
          BY <2>3, <2>5, <2>8
        <4>2. /\ b.count = [s.count EXCEPT ![c] = s.count[c] + (-1)]
              /\ d \in Pointer!Cells /\ t.count = [b.count EXCEPT ![d] = b.count[d] + 1]
          BY <2>3, <2>5, <2>8
        <4> HIDE DEF c, d
        <4> QED
          BY <2>0, <4>1, <4>2
      <3>1. Counted(s)
        BY <2>3, <2>5, <2>8 DEF Kept
      <3> SUFFICES ASSUME NEW x \in t.live, t.ptr[x] # Nil
                   PROVE  /\ t.ptr[x] \notin t.freedCounts
                          /\ Pointer!Cardinality(CountedBy(t, t.ptr[x])) <= t.count[t.ptr[x]]
        BY DEF Counted
      <3> DEFINE p == t.ptr[x]
                 O == CountedBy(s, p)
      <3>2. PICK y \in s.live : s.ptr[y] = p /\ y = (IF x = h THEN g ELSE x)
        BY <2>0, <2>5, <2>6
      <3>3. /\ p \in Pointer!Cells /\ p \notin s.freedCounts
            /\ Pointer!Cardinality(O) <= s.count[p]
        BY <2>0, <3>1, <3>2 DEF Counted
      <3>4. Pointer!IsFiniteSet(O) /\ Pointer!Cardinality(O) \in Nat /\ s.count[p] \in Int
        BY <2>0, <3>3, CountFacts
      <3>5. s.cnt[y] = p
        BY <2>0, <3>2, <3>3, CountFacts DEF Kept, WellFormed
      <3> HIDE DEF c, d, p
      <3>6. CASE p = c
        <4>1. x # h /\ y = x /\ h \in O /\ x \in O
          BY <2>0, <2>5, <2>6, <3>2, <3>5, <3>6 DEF CountedBy, c, d
        <4>2. CountedBy(t, p) = O \ {h}
          BY <2>0, <2>5, <2>6, <3>6 DEF CountedBy, c, d
        <4> HIDE DEF O
        <4>3. /\ Pointer!IsFiniteSet(O \ {h})
              /\ Pointer!Cardinality(O \ {h}) = Pointer!Cardinality(O) - 1
          BY PointerCounting, <3>4, <4>1, FS_RemoveElement
        <4>4. Pointer!Cardinality(O \ {h}) \in Nat \ {0}
          BY PointerCounting, <4>1, <4>3, FS_EmptySet, FS_CardinalityType
        <4>5. ~ends
          <5>1. Pointer!Cardinality(O) > 1
            BY <3>4, <4>3, <4>4
          <5>2. Pointer!Cardinality(O) <= s.count[c] /\ s.count[c] \in Int
            BY <3>3, <3>4, <3>6
          <5> QED
            BY <3>4, <5>1, <5>2
        <4> QED
          BY <3>0, <3>3, <3>4, <3>6, <4>2, <4>3, <4>5 DEF p
      <3>7. CASE p = d
        <4>1. CountedBy(t, p) = O \cup {h}
          BY <2>0, <2>5, <2>6, <3>7 DEF CountedBy, c, d
        <4> HIDE DEF O
        <4>2. Pointer!Cardinality(O \cup {h}) <= Pointer!Cardinality(O) + 1
          <5>1. Pointer!Cardinality(O \cup {h}) =
                  IF h \in O THEN Pointer!Cardinality(O) ELSE Pointer!Cardinality(O) + 1
            BY PointerCounting, <3>4, FS_AddElement
          <5> QED
            BY <3>4, <5>1
        <4>3. Pointer!Cardinality(O \cup {h}) \in Nat
          BY PointerCounting, <3>4, FS_AddElement, FS_CardinalityType
        <4> QED
          BY <2>0, <3>0, <3>3, <3>4, <3>7, <4>1, <4>2, <4>3 DEF p
      <3>8. CASE p \notin {c, d}
        <4>1. CountedBy(t, p) = O
          BY <2>0, <2>5, <2>6, <3>8 DEF CountedBy, c, d
        <4> QED
          BY <3>0, <3>3, <3>8, <4>1 DEF p
      <3> QED
        BY <3>6, <3>7, <3>8
    <2> QED
      BY <2>1, <2>5, <2>7, <2>8 DEF Kept
  <1> QED
    BY <1>1, <1>2

LEMMA PointerNext ==
  ASSUME Pointer!PointerAssumption, Kept(heap), heap.live \subseteq Handles, Pointer!Next
  PROVE  Kept(heap') /\ heap'.live \subseteq Handles
  <1>0. Handles \subseteq Pointer!Names
    BY DEF Pointer!Names
  <1>1. CASE Pointer!Create
    <2>1. PICK h \in Handles \ heap.live :
            \/ /\ heap.used < MaxNew
               /\ heap' \in {Pointer!Default(heap, h), Pointer!FromNew(heap, h)}
            \/ \E g \in heap.live :
                 heap' = Pointer!Copy(heap, h, g) \/ heap' = Pointer!Move(heap, h, g)
      BY <1>1 DEF Pointer!Create, Pointer!Becomes, Pointer!Fresh
    <2>2. h \in Pointer!Names \ heap.live /\ \A g \in heap.live : h # g
      BY <1>0
    <2>3. Kept(heap') /\ heap'.live = heap.live \cup {h}
      <3>1. CASE /\ heap.used < MaxNew
                 /\ heap' \in {Pointer!Default(heap, h), Pointer!FromNew(heap, h)}
        BY <2>2, <3>1, NewKeeps
      <3>2. ASSUME NEW g \in heap.live, heap' = Pointer!Copy(heap, h, g)
            PROVE  Kept(heap') /\ heap'.live = heap.live \cup {h}
        BY <2>2, <3>2, CopyKeeps
      <3>3. ASSUME NEW g \in heap.live, heap' = Pointer!Move(heap, h, g)
            PROVE  Kept(heap') /\ heap'.live = heap.live \cup {h}
        BY <2>2, <3>3, MoveKeeps
      <3> QED
        BY <2>1, <3>1, <3>2, <3>3
    <2> QED
      BY <2>3
  <1>2. CASE Pointer!Assign
    BY <1>2, CopyAssignKeeps, MoveAssignKeeps DEF Pointer!Assign, Pointer!Becomes
  <1>3. CASE Pointer!Swaps
    BY <1>3, SwapKeeps DEF Pointer!Swaps, Pointer!Becomes
  <1>4. CASE Pointer!Destroys
    BY <1>4, DestructKeeps DEF Pointer!Destroys, Pointer!Becomes
  <1> QED
    BY <1>1, <1>2, <1>3, <1>4 DEF Pointer!Next

\* smartptr.cc: whatever is created, copied, moved, assigned, swapped and
\* destroyed, no object is deleted while a handle points to it, and its count
\* is at least the number of its owners, until memory is misused.
THEOREM OwnedObjectsStay == Pointer!PointerAssumption => (Pointer!Spec => []OwnedObjectsLive)
  <1> SUFFICES ASSUME Pointer!PointerAssumption PROVE Pointer!Spec => []Pointer!OwnedObjectsLive
    BY DEF OwnedObjectsLive
  <1> DEFINE IInv == Kept(heap) /\ heap.live \subseteq Handles
  <1>1. Pointer!Init => IInv
    <2> SUFFICES ASSUME Pointer!Init PROVE IInv
      OBVIOUS
    <2>1. /\ heap.live = {} /\ heap.freedCounts = {} /\ heap.freedObjects = {}
          /\ \A h \in Pointer!Names : heap.ptr[h] = Nil /\ heap.cnt[h] = Nil
      BY DEF Pointer!Init
    <2>2. heap \in Memories
      BY DEF Pointer!Init, Memories, Pointer!PointerAssumption
    <2> QED
      BY <2>1, <2>2 DEF Kept, WellFormed, Counted
  <1>2. IInv /\ [Pointer!Next]_heap => IInv'
    BY PointerNext
  <1>3. IInv => Pointer!OwnedObjectsLive
    <2> SUFFICES ASSUME IInv, ~heap.bad, NEW h \in heap.live, heap.ptr[h] # Nil
                 PROVE  /\ heap.ptr[h] \notin heap.freedObjects
                        /\ heap.cnt[h] = heap.ptr[h]
                        /\ heap.count[heap.cnt[h]] >= Pointer!Cardinality(Pointer!Owners(heap.cnt[h]))
      BY DEF Pointer!OwnedObjectsLive
    <2>1. /\ heap \in Memories /\ h \in Pointer!Names
          /\ heap.cnt[h] = heap.ptr[h] /\ heap.ptr[h] \in Pointer!Cells
      BY DEF Kept, WellFormed, Memories
    <2>2. /\ heap.ptr[h] \notin heap.freedObjects
          /\ Pointer!Cardinality(CountedBy(heap, heap.ptr[h])) <= heap.count[heap.ptr[h]]
      BY DEF Kept, WellFormed, Counted
    <2>3. Pointer!Owners(heap.cnt[h]) = CountedBy(heap, heap.ptr[h])
      BY <2>1 DEF Pointer!Owners, CountedBy
    <2>4. /\ Pointer!Cardinality(CountedBy(heap, heap.ptr[h])) \in Nat
          /\ heap.count[heap.ptr[h]] \in Int
      BY <2>1, CountFacts DEF Memories
    <2> QED
      BY <2>1, <2>2, <2>3, <2>4
  <1> QED
    BY <1>1, <1>2, <1>3, PTL DEF Pointer!Spec

(* CopyOnWrite                                                             *)

\* FiniteSets, as CopyOnWrite sees it, is FiniteSets.
LEMMA CopyCounting ==
  \A X : Copy!IsFiniteSet(X) = IsFiniteSet(X) /\ Copy!Cardinality(X) = Cardinality(X)
  <1>1. \A X : Copy!IsFiniteSet(X) = IsFiniteSet(X)
    BY DEF Copy!IsFiniteSet, IsFiniteSet
  <1>2. \A X : Copy!Cardinality(X) = Cardinality(X)
    BY DEF Copy!Cardinality, Cardinality, Copy!IsFiniteSet, IsFiniteSet
  <1> QED
    BY <1>1, <1>2

\* Readers of an object are finitely many, and none exactly if it has no tmp.
LEMMA ReadersFacts ==
  ASSUME Copy!CopyAssumption, NEW o
  PROVE  /\ Copy!IsFiniteSet(Copy!Readers(o))
         /\ Copy!Cardinality(Copy!Readers(o)) \in Nat
         /\ Copy!Cardinality(Copy!Readers(o)) = 0 <=> \A t \in Threads : tmp[t] # o
  <1>1. Copy!IsFiniteSet(Copy!Readers(o))
    BY CopyCounting, FS_Subset DEF Copy!Readers, Copy!CopyAssumption
  <1>2. Copy!Readers(o) = {} <=> \A t \in Threads : tmp[t] # o
    BY DEF Copy!Readers
  <1> QED
    BY CopyCounting, <1>1, <1>2, FS_CardinalityType, FS_EmptySet

\* The program starts with one object, its only shared_ptr and no reader.
LEMMA CopyInit ==
  ASSUME Copy!CopyAssumption, Copy!Init
  PROVE  Copy!Inv
  <1>1. Copy!TypeOK
    BY DEF Copy!CopyAssumption, Copy!Init, Copy!TypeOK
  <1>2. \A t \in Threads : Copy!ThreadInv(t)
    BY DEF Copy!CopyAssumption, Copy!Init, Copy!ThreadInv
  <1>3. Copy!CountExact
    <2>1. \A o \in Addresses : Copy!Cardinality(Copy!Readers(o)) = 0
      BY ReadersFacts DEF Copy!CopyAssumption, Copy!Init
    <2> QED
      BY <2>1 DEF Copy!Init, Copy!CountExact
  <1>4. Copy!SnapshotStable /\ Copy!NoLostWrite
    BY DEF Copy!CopyAssumption, Copy!Init, Copy!SnapshotStable, Copy!NoLostWrite
  <1> QED
    BY <1>1, <1>2, <1>3, <1>4 DEF Copy!Inv

\* Steps that only move a thread and the mutex.
LEMMA QuietInv ==
  ASSUME Copy!CopyAssumption, Copy!Inv, NEW t \in Threads,
         \/ Copy!ReadLock(t) \/ Copy!WriteLock(t) \/ Copy!WriteFindsUnique(t)
         \/ Copy!WriteFindsShared(t)
  PROVE  Copy!Inv'
  <1> USE DEF Copy!CopyAssumption, Copy!Inv, Copy!At, Copy!Goto, Copy!Unlocked, Copy!Unique, Copy!ReadLock, Copy!WriteLock,
              Copy!WriteFindsUnique, Copy!WriteFindsShared
  <1>1. Copy!TypeOK'
    BY DEF Copy!TypeOK
  <1>2. ASSUME NEW u \in Threads PROVE Copy!ThreadInv(u)'
    <2>1. CASE Copy!WriteFindsUnique(t)
      <3>1. \A w \in Threads : tmp[w] # ptr
        BY <2>1, ReadersFacts DEF Copy!CountExact, Copy!TypeOK
      <3> QED
        BY <2>1, <3>1 DEF Copy!ThreadInv, Copy!TypeOK
    <2>2. CASE ~Copy!WriteFindsUnique(t)
      BY <2>2 DEF Copy!ThreadInv, Copy!TypeOK
    <2> QED
      BY <2>1, <2>2
  <1>3. UNCHANGED <<ptr, uses, version, tmp, writes, seen>>
    OBVIOUS
  <1>4. Copy!CountExact' /\ Copy!SnapshotStable' /\ Copy!NoLostWrite'
    BY ONLY <1>3, Copy!Inv DEF Copy!Inv, Copy!CountExact, Copy!Readers,
       Copy!SnapshotStable, Copy!NoLostWrite
  <1> QED
    BY <1>1, <1>2, <1>4

\* A reader becomes one of the readers of the current object.
LEMMA ReadCopiesInv ==
  ASSUME Copy!CopyAssumption, Copy!Inv, NEW t \in Threads, Copy!ReadCopies(t)
  PROVE  Copy!Inv'
  <1> USE DEF Copy!CopyAssumption, Copy!Inv, Copy!At, Copy!Goto, Copy!ReadCopies
  <1>1. Copy!TypeOK'
    BY DEF Copy!TypeOK
  <1>2. ASSUME NEW u \in Threads PROVE Copy!ThreadInv(u)'
    BY DEF Copy!ThreadInv, Copy!TypeOK
  <1>3. Copy!CountExact'
    <2>1. tmp[t] = NoObject
      BY DEF Copy!ThreadInv
    <2>2. Copy!Readers(ptr)' = Copy!Readers(ptr) \cup {t} /\ t \notin Copy!Readers(ptr)
      BY <2>1 DEF Copy!Readers, Copy!TypeOK
    <2>3. Copy!Cardinality(Copy!Readers(ptr)') = Copy!Cardinality(Copy!Readers(ptr)) + 1
      BY CopyCounting, <2>2, ReadersFacts, FS_AddElement
    <2>4. \A o \in Addresses : o # ptr => Copy!Readers(o)' = Copy!Readers(o)
      BY <2>1 DEF Copy!Readers, Copy!TypeOK
    <2> QED
      BY <2>3, <2>4, ReadersFacts DEF Copy!CountExact, Copy!TypeOK
  <1>4. Copy!SnapshotStable' /\ Copy!NoLostWrite'
    BY DEF Copy!SnapshotStable, Copy!NoLostWrite, Copy!TypeOK
  <1> QED
    BY <1>1, <1>2, <1>3, <1>4

\* A reader leaves the readers of the object it had.
LEMMA ReadEndsInv ==
  ASSUME Copy!CopyAssumption, Copy!Inv, NEW t \in Threads, Copy!ReadEnds(t)
  PROVE  Copy!Inv'
  <1> USE DEF Copy!CopyAssumption, Copy!Inv, Copy!At, Copy!Goto, Copy!ReadEnds
  <1>0. PICK o \in Addresses :
          /\ tmp[t] = o
          /\ o # NoObject
          /\ t \in Copy!Readers(o)
          /\ Copy!Cardinality(Copy!Readers(o)) \in Nat \ {0}
    <2>1. tmp[t] \in Addresses /\ tmp[t] # NoObject
      BY DEF Copy!ThreadInv, Copy!TypeOK
    <2>2. t \in Copy!Readers(tmp[t])
      BY DEF Copy!Readers
    <2>3. Copy!Cardinality(Copy!Readers(tmp[t])) \in Nat \ {0}
      BY ReadersFacts
    <2> QED
      BY <2>1, <2>2, <2>3
  <1>1. Copy!TypeOK'
    BY <1>0 DEF Copy!TypeOK, Copy!CountExact
  <1>2. ASSUME NEW u \in Threads PROVE Copy!ThreadInv(u)'
    BY <1>0 DEF Copy!ThreadInv, Copy!TypeOK
  <1>3. Copy!CountExact'
    <2>1. Copy!Readers(o)' = Copy!Readers(o) \ {t}
      BY <1>0 DEF Copy!Readers, Copy!TypeOK
    <2>2. Copy!Cardinality(Copy!Readers(o)') = Copy!Cardinality(Copy!Readers(o)) - 1
      <3>1. Copy!IsFiniteSet(Copy!Readers(o)) /\ t \in Copy!Readers(o)
        BY <1>0, ReadersFacts
      <3>2. Copy!Cardinality(Copy!Readers(o) \ {t}) = Copy!Cardinality(Copy!Readers(o)) - 1
        BY ONLY CopyCounting, <3>1, FS_RemoveElement
      <3> QED
        BY <2>1, <3>2
    <2>3. \A x \in Addresses : x # o => Copy!Readers(x)' = Copy!Readers(x)
      BY <1>0 DEF Copy!Readers, Copy!TypeOK
    <2> QED
      BY <1>0, <2>2, <2>3, ReadersFacts DEF Copy!CountExact, Copy!TypeOK
  <1>4. Copy!SnapshotStable' /\ Copy!NoLostWrite'
    BY DEF Copy!SnapshotStable, Copy!NoLostWrite, Copy!TypeOK
  <1> QED
    BY <1>1, <1>2, <1>3, <1>4

\* A new object has no reader, and the old one keeps those it has.
LEMMA WriteCopiesInv ==
  ASSUME Copy!CopyAssumption, Copy!Inv, NEW t \in Threads, Copy!WriteCopies(t)
  PROVE  Copy!Inv'
  <1> USE DEF Copy!CopyAssumption, Copy!Inv, Copy!At, Copy!Goto, Copy!WriteCopies
  <1>1. PICK o \in Addresses :
          /\ uses[o] = 0
          /\ ptr' = o
          /\ version' = [version EXCEPT ![o] = version[ptr]]
          /\ uses' = [uses EXCEPT ![o] = 1, ![ptr] = @ - 1]
    OBVIOUS
  <1>2. /\ o # ptr
        /\ Copy!Cardinality(Copy!Readers(o)) = 0
        /\ \A u \in Threads : tmp[u] # o
        /\ \A x \in Addresses : Copy!Readers(x)' = Copy!Readers(x)
        /\ uses[ptr] \in Nat \ {0}
    <2>1. /\ Copy!Cardinality(Copy!Readers(ptr)) \in Nat
          /\ uses[ptr] = Copy!Cardinality(Copy!Readers(ptr)) + 1
      BY ReadersFacts DEF Copy!CountExact, Copy!TypeOK
    <2>2. o # ptr
      BY <1>1, <2>1
    <2>3. Copy!Cardinality(Copy!Readers(o)) = 0
      BY <1>1, <2>2, ReadersFacts DEF Copy!CountExact
    <2>4. \A x \in Addresses : Copy!Readers(x)' = Copy!Readers(x)
      BY DEF Copy!Readers
    <2> QED
      BY <2>1, <2>2, <2>3, <2>4, ReadersFacts
  <1>3. Copy!TypeOK'
    BY <1>1, <1>2 DEF Copy!TypeOK
  <1>4. ASSUME NEW u \in Threads PROVE Copy!ThreadInv(u)'
    BY <1>1, <1>2 DEF Copy!ThreadInv, Copy!TypeOK
  <1>5. Copy!CountExact'
    BY <1>1, <1>2, ReadersFacts DEF Copy!CountExact, Copy!TypeOK
  <1>6. Copy!SnapshotStable' /\ Copy!NoLostWrite'
    BY <1>1, <1>2 DEF Copy!SnapshotStable, Copy!NoLostWrite, Copy!TypeOK
  <1> QED
    BY <1>3, <1>4, <1>5, <1>6

\* A write changes only the current object, which no reader has.
LEMMA WriteInv ==
  ASSUME Copy!CopyAssumption, Copy!Inv, NEW t \in Threads, Copy!Write(t)
  PROVE  Copy!Inv'
  <1> USE DEF Copy!CopyAssumption, Copy!Inv, Copy!At, Copy!Goto, Copy!Write
  <1>1. \A u \in Threads : tmp[u] # ptr
    BY DEF Copy!ThreadInv
  <1>2. Copy!TypeOK'
    BY DEF Copy!TypeOK
  <1>3. ASSUME NEW u \in Threads PROVE Copy!ThreadInv(u)'
    BY DEF Copy!ThreadInv, Copy!TypeOK
  <1>4. Copy!CountExact' /\ Copy!SnapshotStable' /\ Copy!NoLostWrite'
    BY <1>1 DEF Copy!CountExact, Copy!Readers, Copy!SnapshotStable, Copy!NoLostWrite,
       Copy!TypeOK
  <1> QED
    BY <1>2, <1>3, <1>4

\* Every step preserves the inductive invariant.
LEMMA CopyNext ==
  ASSUME Copy!CopyAssumption, Copy!Inv, [Copy!Next]_(Copy!vars)
  PROVE  Copy!Inv'
  <1>1. CASE UNCHANGED Copy!vars
    BY <1>1 DEF Copy!vars, Copy!Inv, Copy!TypeOK, Copy!ThreadInv, Copy!CountExact,
       Copy!Readers,
                Copy!SnapshotStable, Copy!NoLostWrite
  <1>2. CASE Copy!Next
    BY <1>2, QuietInv, ReadCopiesInv, ReadEndsInv, WriteCopiesInv, WriteInv
       DEF Copy!Next
  <1> QED
    BY <1>1, <1>2



\* copy_on_write.cc: for any finite set of threads, any set of addresses and
\* any number of writes, counts are exact although readers drop theirs without
\* the mutex, and no write is lost.
THEOREM CopyOnWriteInvariant == Copy!CopyAssumption => (Copy!Spec => []CopiesAccount)
  <1> SUFFICES ASSUME Copy!CopyAssumption PROVE Copy!Spec => []Copy!Inv
    BY DEF CopiesAccount
  <1> QED
    BY CopyInit, CopyNext, PTL DEF Copy!Spec

\* copy_on_write.cc: what a reader holds never changes under it.
THEOREM CopyOnWriteSnapshot == Copy!CopyAssumption => (Copy!Spec => []SnapshotsStable)
  <1> SUFFICES ASSUME Copy!CopyAssumption PROVE Copy!Spec => []Copy!SnapshotStable
    BY DEF SnapshotsStable
  <1>1. Copy!Inv => Copy!SnapshotStable
    BY DEF Copy!Inv
  <1> QED
    BY CopyInit, CopyNext, <1>1, PTL DEF Copy!Spec

(* Vector                                                                  *)

\* The sizes up to three: what the vector takes for its capacity is no more
\* than it allocated.
LEMMA SmallOr ==
  ASSUME NEW a \in 1..3, NEW b \in 0..1
  PROVE  Vec!BitOr(a, b) = IF b = 0 \/ a % 2 = 1 THEN a ELSE a + 1
  <1> DEFINE Body(h, x, y) ==
               IF x = 0 THEN y
               ELSE 2 * h[x \div 2][y \div 2] + IF x % 2 = 1 \/ y % 2 = 1 THEN 1 ELSE 0
             value(x, y) == IF y = 0 \/ x % 2 = 1 THEN x ELSE x + 1
             g == [x \in 0..a |-> [y \in 0..b |-> value(x, y)]]
             f == CHOOSE h : h = [x \in 0..a |-> [y \in 0..b |-> Body(h, x, y)]]
  <1>1. ASSUME NEW x \in 0..a, NEW y \in 0..b
        PROVE  value(x, y) = Body(g, x, y)
    <2>1. (x = 0 \/ x = 1 \/ x = 2 \/ x = 3) /\ (y = 0 \/ y = 1)
      OBVIOUS
    <2>2. x \div 2 \in 0..a /\ y \div 2 \in 0..b /\ y \div 2 = 0
      BY <2>1
    <2>3. g[x \div 2][y \div 2] = x \div 2
      BY <2>2
    <2> HIDE DEF g
    <2>4. CASE x = 0
      BY <2>1, <2>4
    <2>5. CASE x # 0
      BY <2>1, <2>3, <2>5
    <2> QED
      BY <2>4, <2>5
  <1> HIDE DEF value, Body
  <1>2. g = [x \in 0..a |-> [y \in 0..b |-> Body(g, x, y)]]
    BY <1>1
  <1>3. f = [x \in 0..a |-> [y \in 0..b |-> Body(f, x, y)]]
    BY <1>2
  <1>4. Vec!BitOr(a, b) = f[a][b]
    BY DEF Vec!BitOr, Body
  <1> HIDE DEF f, g
  <1>5. \A x \in 0..a, y \in 0..b : f[x][y] = Body(f, x, y)
    <2>1. \A x \in 0..a : f[x] = [y \in 0..b |-> Body(f, x, y)]
      BY <1>3
    <2> QED
      BY <2>1
  <1>6. f[0][0] = 0
    BY <1>5 DEF Body
  <1>7. f[1][0] = 1
    <2>1. 1 \in 0..a /\ 0 \in 0..b /\ 1 \div 2 = 0 /\ 0 \div 2 = 0 /\ 1 % 2 = 1
      OBVIOUS
    <2> QED
      BY <1>5, <1>6, <2>1 DEF Body
  <1>8. (a \div 2 = 0 \/ a \div 2 = 1) /\ b \div 2 = 0 /\ a \in 0..a /\ b \in 0..b /\ a # 0
    OBVIOUS
  <1>9. f[a][b] = 2 * f[a \div 2][0] + IF a % 2 = 1 \/ b % 2 = 1 THEN 1 ELSE 0
    BY <1>5, <1>8 DEF Body
  <1>10. f[a \div 2][0] = a \div 2
    BY <1>6, <1>7, <1>8
  <1> QED
    BY <1>4, <1>9, <1>10

-----------------------------------------------------------------------------

Cell == Items \cup {"raw", "moved"}
Value == Items \cup {"moved"}
Pushed == [item : Value, lost : BOOLEAN]

\* What is left in the vector of an item appended.
Held(p) == IF p.lost THEN "moved" ELSE p.item

Caps == {0} \cup {Vec!BitOr(size + 1, size \div 2) : size \in Nat}

VecTypes ==
  /\ vec \in [Vectors -> [data : Int, size : Nat, cap : Caps]]
  /\ array \in Seq(Seq(Cell)) /\ freed \subseteq 1..Len(array)
  /\ pushed \in [Vectors -> Seq(Pushed)]
  /\ \A v \in Vectors \ Vec!Live : pushed[v] = <<>>

\* A vector has an array with room for its items, and they are those appended;
\* its capacity is exact up to three cells.
Filled(d, size, cap, items) ==
  /\ size <= Len(array[d])
  /\ Len(array[d]) <= 3 => cap = Len(array[d])
  /\ \A j \in 1..size : array[d][j] = Held(items[j])

Own(v) ==
  LET d == vec[v].data
  IN  /\ d \in 0..Len(array) /\ d \notin freed /\ Len(pushed[v]) = vec[v].size
      /\ d = 0 => vec[v].size = 0 /\ vec[v].cap = 0
      /\ d # 0 => Filled(d, vec[v].size, vec[v].cap, pushed[v])

Apart == \A v, w \in Vec!Live : v # w /\ vec[v].data = vec[w].data => vec[v].data = 0

VecInv ==
  /\ undefined = "no" => VecTypes /\ (\A v \in Vec!Live : Own(v)) /\ Apart
  /\ undefined # "no" => Vec!VectorKeepsItems

-----------------------------------------------------------------------------

LEMMA HeldIsValue ==
  ASSUME NEW p \in Pushed
  PROVE  Held(p) \in Value /\ Held(p) \in Cell
  BY DEF Held, Pushed, Value, Cell

\* What a copy of the elements holds.
LEMMA CellsFacts ==
  ASSUME VecTypes, NEW v \in Vec!Live, Own(v)
  PROVE  /\ Vec!Cells(vec[v]) \in Seq(Value) /\ Len(Vec!Cells(vec[v])) = vec[v].size
         /\ \A j \in 1..vec[v].size : Vec!Cells(vec[v])[j] = Held(pushed[v][j])
  <1> DEFINE d == vec[v].data
             n == vec[v].size
             s == SubSeq(array[d], 1, n)
  <1>1. v \in Vectors
    BY DEF Vec!Live
  <1>2. n \in Nat /\ pushed[v] \in Seq(Pushed) /\ Len(pushed[v]) = n
    BY <1>1 DEF VecTypes, Own
  <1>3. CASE d = 0
    <2>1. n = 0
      BY <1>3 DEF Own
    <2> QED
      BY <1>3, <2>1 DEF Vec!Cells
  <1>4. CASE d # 0
    <2>1. d \in 1..Len(array) /\ Filled(d, n, vec[v].cap, pushed[v])
      BY <1>4 DEF Own, VecTypes
    <2>2. array[d] \in Seq(Cell)
      BY <2>1 DEF VecTypes
    <2>3. /\ n <= Len(array[d]) /\ Len(array[d]) \in Nat
          /\ \A j \in 1..n : array[d][j] = Held(pushed[v][j])
      BY <2>1, <2>2 DEF Filled
    <2> HIDE DEF n, d
    <2>4. \A j \in 1..n : array[d][j] \in Value
      BY <1>2, <2>3, HeldIsValue
    <2>5. /\ s \in Seq(Value) /\ Len(s) = IF 1 <= n THEN n - 1 + 1 ELSE 0
          /\ \A j \in 1..(n - 1 + 1) : s[j] = array[d][1 + j - 1]
      BY <1>2, <2>4, SubSeqProperties
    <2> HIDE DEF s
    <2>6. Len(s) = n /\ \A j \in 1..n : s[j] = array[d][j]
      BY <1>2, <2>5
    <2> QED
      BY <1>4, <2>3, <2>5, <2>6 DEF Vec!Cells, s, n, d
  <1> QED
    BY <1>3, <1>4

LEMMA ElementsFacts ==
  ASSUME VecTypes, NEW v \in Vec!Live, Own(v)
  PROVE  Vec!Elements(v) \subseteq Value
  <1>1. Vec!Cells(vec[v]) \in Seq(Value) /\ Len(Vec!Cells(vec[v])) = vec[v].size
    BY CellsFacts
  <1>2. \A j \in 1..vec[v].size : Vec!Cells(vec[v])[j] \in Value
    BY <1>1
  <1> QED
    BY <1>2 DEF Vec!Elements

\* A vector that owns its array holds what was appended to it.
LEMMA OwnHolds ==
  ASSUME NEW v \in Vec!Live, vec[v].size \in Nat, Own(v)
  PROVE  Vec!Holds(v, 0)
  <1>1. Len(pushed[v]) = vec[v].size /\ (vec[v].data = 0 => vec[v].size = 0)
    BY DEF Own
  <1>2. ASSUME NEW j \in 1..vec[v].size PROVE array[vec[v].data][j] = Held(pushed[v][j])
    <2>1. vec[v].data # 0
      BY <1>1
    <2> QED
      BY <2>1 DEF Own, Filled
  <1>3. \A j \in 1..vec[v].size : ~(j <= 0)
    OBVIOUS
  <1> QED
    BY <1>1, <1>2, <1>3 DEF Vec!Holds, Held

LEMMA VecImplies ==
  ASSUME Vec!VectorAssumption, VecInv
  PROVE  Vec!VectorKeepsItems
  <1>1. ASSUME undefined = "no", NEW v \in Vec!Live PROVE Vec!Holds(v, 0)
    <2>1. VecTypes /\ Own(v) /\ v \in Vectors
      BY <1>1 DEF VecInv, Vec!Live
    <2>2. vec[v].size \in Nat
      BY <2>1 DEF VecTypes
    <2> QED
      BY <2>1, <2>2, OwnHolds
  <1>2. ASSUME undefined = "no", NEW v \in Vec!Live, NEW w \in Vec!Live \ {v}, vec[v].data = vec[w].data
        PROVE  vec[v].data = 0
    BY <1>2 DEF VecInv, Apart
  <1>3. ASSUME undefined = "no", NEW v \in Vec!Live PROVE vec[v].data \notin freed
    BY <1>3 DEF VecInv, Own
  <1>4. CASE undefined = "no"
    BY <1>1, <1>2, <1>3, <1>4 DEF Vec!VectorKeepsItems
  <1>5. CASE undefined # "no"
    BY <1>5 DEF VecInv
  <1> QED
    BY <1>4, <1>5

LEMMA VecInit == Vec!Init => VecInv
  <1> SUFFICES ASSUME Vec!Init PROVE VecInv
    OBVIOUS
  <1>1. \A v \in Vectors : vec[v] = Vec!Dead
    BY DEF Vec!Init
  <1>2. Vec!Live = {}
    BY <1>1 DEF Vec!Live
  <1>3. VecTypes
    <2>1. vec \in [Vectors -> [data : Int, size : Nat, cap : Caps]]
      BY DEF Vec!Init, Vec!Dead, Caps
    <2>2. array \in Seq(Seq(Cell)) /\ freed \subseteq 1..Len(array)
      BY DEF Vec!Init
    <2>3. pushed \in [Vectors -> Seq(Pushed)] /\ \A v \in Vectors : pushed[v] = <<>>
      BY DEF Vec!Init
    <2> QED
      BY <2>1, <2>2, <2>3 DEF VecTypes
  <1> QED
    BY <1>2, <1>3 DEF VecInv, Apart, Vec!Init

\* A vector keeps what it has while its array is left alone.
LEMMA LeftAlone ==
  ASSUME VecTypes, NEW u \in Vec!Live, Own(u), vec'[u] = vec[u], pushed'[u] = pushed[u],
         vec[u].data # 0 => array'[vec[u].data] = array[vec[u].data],
         Len(array') \in Nat, Len(array) <= Len(array'), vec[u].data \notin freed'
  PROVE  Own(u)'
  <1>1. Len(array) \in Nat
    BY DEF VecTypes
  <1>2. vec[u].data \in 0..Len(array')
    BY <1>1 DEF Own
  <1>3. ASSUME vec[u].data # 0
        PROVE  /\ vec'[u].size <= Len(array'[vec'[u].data])
               /\ Len(array'[vec'[u].data]) <= 3 => vec'[u].cap = Len(array'[vec'[u].data])
               /\ \A j \in 1..vec'[u].size : array'[vec'[u].data][j] = Held(pushed'[u][j])
    BY <1>3 DEF Own, Filled
  <1> QED
    BY <1>2, <1>3 DEF Own, Filled

LEMMA NotDead == Vec!Empty # Vec!Dead /\ Vec!Empty.data = 0 /\ Vec!Empty.size = 0 /\ Vec!Empty.cap = 0 /\ Vec!Dead.data = -1
  BY DEF Vec!Empty, Vec!Dead

LEMMA VecConstructs ==
  ASSUME VecInv, undefined = "no", NEW v \in Vectors, Vec!Construct(v)
  PROVE  VecInv'
  <1>1. VecTypes /\ (\A u \in Vec!Live : Own(u)) /\ Apart
    BY DEF VecInv
  <1>2. /\ v \notin Vec!Live /\ vec' = [vec EXCEPT ![v] = Vec!Empty]
        /\ array' = array /\ freed' = freed /\ undefined' = undefined /\ pushed' = pushed
    BY DEF Vec!Construct
  <1>3. vec'[v] = Vec!Empty /\ \A u \in Vectors : u # v => vec'[u] = vec[u]
    BY <1>1, <1>2 DEF VecTypes
  <1>4. Vec!Live' = Vec!Live \cup {v}
    BY <1>3, NotDead DEF Vec!Live
  <1>5. Len(array) \in Nat /\ 0 \notin freed
    BY <1>1 DEF VecTypes
  <1>6. VecTypes'
    <2>1. Vec!Empty \in [data : Int, size : Nat, cap : Caps]
      BY DEF Vec!Empty, Caps
    <2> QED
      BY <1>1, <1>2, <1>4, <2>1 DEF VecTypes
  <1>7. Own(v)'
    <2>1. pushed[v] = <<>> /\ Len(pushed[v]) = 0
      BY <1>1, <1>2 DEF VecTypes
    <2> QED
      BY <1>2, <1>3, <1>5, <2>1, NotDead DEF Own
  <1>8. ASSUME NEW u \in Vec!Live PROVE Own(u)'
    <2>1. u # v /\ u \in Vectors /\ Own(u)
      BY <1>1, <1>2 DEF Vec!Live
    <2>2. vec'[u] = vec[u]
      BY <1>3, <2>1
    <2>3. vec[u].data \notin freed'
      BY <1>2, <2>1 DEF Own
    <2> QED
      BY <1>1, <1>2, <1>5, <2>1, <2>2, <2>3, LeftAlone
  <1>9. Apart'
    BY <1>1, <1>2, <1>3, <1>4, NotDead DEF Apart, Vec!Live
  <1> QED
    BY <1>2, <1>4, <1>6, <1>7, <1>8, <1>9 DEF VecInv

LEMMA VecMoves ==
  ASSUME VecInv, undefined = "no", NEW v \in Vectors, NEW w \in Vectors, Vec!MoveConstruct(v, w)
  PROVE  VecInv'
  <1>1. VecTypes /\ (\A u \in Vec!Live : Own(u)) /\ Apart
    BY DEF VecInv
  <1>2. /\ v \notin Vec!Live /\ w \in Vec!Live /\ v # w
        /\ vec' = [vec EXCEPT ![v] = vec[w], ![w] = Vec!Empty]
        /\ pushed' = [pushed EXCEPT ![v] = pushed[w], ![w] = <<>>]
        /\ array' = array /\ freed' = freed /\ undefined' = undefined
    BY DEF Vec!MoveConstruct
  <1>3. /\ vec'[v] = vec[w] /\ vec'[w] = Vec!Empty
        /\ \A u \in Vectors : u # v /\ u # w => vec'[u] = vec[u]
        /\ pushed'[v] = pushed[w] /\ pushed'[w] = <<>>
        /\ \A u \in Vectors : u # v /\ u # w => pushed'[u] = pushed[u]
    BY <1>1, <1>2 DEF VecTypes
  <1>4. Vec!Live' = Vec!Live \cup {v}
    BY <1>2, <1>3, NotDead DEF Vec!Live
  <1>5. Len(array) \in Nat /\ 0 \notin freed
    BY <1>1 DEF VecTypes
  <1>6. VecTypes'
    <2>1. Vec!Empty \in [data : Int, size : Nat, cap : Caps]
      BY DEF Vec!Empty, Caps
    <2>2. vec' \in [Vectors -> [data : Int, size : Nat, cap : Caps]]
      BY <1>1, <1>2, <2>1 DEF VecTypes
    <2>3. pushed' \in [Vectors -> Seq(Pushed)]
      BY <1>1, <1>2 DEF VecTypes
    <2>4. ASSUME NEW u \in Vectors \ Vec!Live' PROVE pushed'[u] = <<>>
      BY <1>1, <1>2, <1>3, <1>4, <2>4 DEF VecTypes
    <2> QED
      BY <1>1, <1>2, <2>2, <2>3, <2>4 DEF VecTypes
  <1>7. Own(w)'
    BY <1>2, <1>3, <1>5, NotDead DEF Own
  <1>8. Own(v)'
    <2>1. /\ vec'[v].data = vec[w].data /\ vec'[v].size = vec[w].size
          /\ vec'[v].cap = vec[w].cap /\ pushed'[v] = pushed[w]
      BY <1>3
    <2>2. Own(w)
      BY <1>1, <1>2
    <2>3. vec[w].data \in 0..Len(array') /\ vec[w].data \notin freed'
      BY <1>2, <2>2 DEF Own
    <2>4. CASE vec[w].data = 0
      BY <2>1, <2>2, <2>3, <2>4 DEF Own
    <2>5. CASE vec[w].data # 0
      <3>1. /\ vec[w].size <= Len(array[vec[w].data])
            /\ Len(array[vec[w].data]) <= 3 => vec[w].cap = Len(array[vec[w].data])
            /\ \A j \in 1..vec[w].size : array[vec[w].data][j] = Held(pushed[w][j])
        BY <2>2, <2>5 DEF Own, Filled
      <3>2. Filled(vec[v].data, vec[v].size, vec[v].cap, pushed[v])'
        BY ONLY <1>2, <2>1, <3>1 DEF Filled
      <3> QED
        BY <2>1, <2>2, <2>3, <2>5, <3>2 DEF Own
    <2> QED
      BY <2>4, <2>5
  <1>9. ASSUME NEW u \in Vec!Live, u # w PROVE Own(u)'
    <2>1. u # v /\ u \in Vectors /\ Own(u)
      BY <1>1, <1>2 DEF Vec!Live
    <2>2. vec'[u] = vec[u] /\ pushed'[u] = pushed[u]
      BY <1>3, <1>9, <2>1
    <2>3. vec[u].data \notin freed'
      BY <1>2, <2>1 DEF Own
    <2>4. array' = array
      BY <1>2
    <2> QED
      BY <1>1, <1>5, <2>1, <2>2, <2>3, <2>4, LeftAlone
  <1>10. Apart'
    <2> SUFFICES ASSUME NEW a \in Vec!Live', NEW b \in Vec!Live', a # b, vec'[a].data = vec'[b].data
                 PROVE  vec'[a].data = 0
      BY DEF Apart
    <2> DEFINE from(u) == IF u = v THEN w ELSE u
    <2>1. CASE a = w \/ b = w
      BY <1>3, <2>1, NotDead
    <2>2. CASE a # w /\ b # w
      <3>1. /\ from(a) \in Vec!Live /\ from(b) \in Vec!Live /\ from(a) # from(b)
            /\ vec'[a] = vec[from(a)] /\ vec'[b] = vec[from(b)]
        BY <1>2, <1>3, <1>4, <2>2 DEF Vec!Live
      <3> QED
        BY <1>1, <3>1 DEF Apart
    <2> QED
      BY <2>1, <2>2
  <1> QED
    BY <1>2, <1>4, <1>6, <1>7, <1>8, <1>9, <1>10 DEF VecInv

LEMMA VecDestroys ==
  ASSUME VecInv, undefined = "no", NEW v \in Vectors, Vec!Destroy(v)
  PROVE  VecInv'
  <1>1. VecTypes /\ (\A u \in Vec!Live : Own(u)) /\ Apart
    BY DEF VecInv
  <1>2. /\ v \in Vec!Live /\ vec' = [vec EXCEPT ![v] = Vec!Dead]
        /\ freed' = freed \cup ({vec[v].data} \ {0})
        /\ pushed' = [pushed EXCEPT ![v] = <<>>]
        /\ array' = array /\ undefined' = undefined
    BY DEF Vec!Destroy
  <1>3. /\ vec'[v] = Vec!Dead /\ \A u \in Vectors : u # v => vec'[u] = vec[u]
        /\ pushed'[v] = <<>> /\ \A u \in Vectors : u # v => pushed'[u] = pushed[u]
    BY <1>1, <1>2 DEF VecTypes
  <1>4. Vec!Live' = Vec!Live \ {v}
    BY <1>3 DEF Vec!Live
  <1>5. Len(array) \in Nat /\ 0 \notin freed
    BY <1>1 DEF VecTypes
  <1>6. VecTypes'
    <2>1. Vec!Dead \in [data : Int, size : Nat, cap : Caps]
      BY DEF Vec!Dead, Caps
    <2>2. vec' \in [Vectors -> [data : Int, size : Nat, cap : Caps]]
      BY <1>1, <1>2, <2>1 DEF VecTypes
    <2>3. pushed' \in [Vectors -> Seq(Pushed)]
      BY <1>1, <1>2 DEF VecTypes
    <2>4. ASSUME NEW u \in Vectors \ Vec!Live' PROVE pushed'[u] = <<>>
      BY <1>1, <1>2, <1>3, <1>4, <2>4 DEF VecTypes
    <2>5. vec[v].data \in 0..Len(array)
      BY <1>1, <1>2 DEF Own
    <2>6. freed' \subseteq 1..Len(array)
      <3>1. freed \subseteq 1..Len(array)
        BY <1>1 DEF VecTypes
      <3>2. vec[v].data # 0 => vec[v].data \in 1..Len(array)
        BY <1>5, <2>5
      <3> QED
        BY <1>2, <3>1, <3>2
    <2> QED
      BY <1>1, <1>2, <2>2, <2>3, <2>4, <2>6 DEF VecTypes
  <1>7. ASSUME NEW u \in Vec!Live, u # v PROVE Own(u)'
    <2>1. u \in Vectors /\ Own(u)
      BY <1>1 DEF Vec!Live
    <2>2. vec'[u] = vec[u] /\ pushed'[u] = pushed[u]
      BY <1>3, <1>7, <2>1
    <2>3. vec[u].data \notin freed'
      BY <1>1, <1>2, <1>7, <2>1 DEF Own, Apart
    <2> QED
      BY <1>1, <1>2, <1>5, <2>1, <2>2, <2>3, LeftAlone
  <1>8. Apart'
    BY <1>1, <1>3, <1>4 DEF Apart, Vec!Live
  <1> QED
    BY <1>2, <1>4, <1>6, <1>7, <1>8 DEF VecInv

LEMMA VecAppends ==
  ASSUME VecInv, undefined = "no", NEW v \in Vectors, NEW x \in Items \cup Vec!Elements(v),
         Vec!AppendInPlace(v, x)
  PROVE  VecInv'
  <1> DEFINE p == [item |-> x, lost |-> FALSE]
             d == vec[v].data
             n == vec[v].size
  <1>1. VecTypes /\ (\A u \in Vec!Live : Own(u)) /\ Apart
    BY DEF VecInv
  <1>2. /\ v \in Vec!Live /\ n < vec[v].cap /\ vec' = [vec EXCEPT ![v].size = @ + 1]
        /\ pushed' = [pushed EXCEPT ![v] = Append(@, p)] /\ freed' = freed
    BY DEF Vec!AppendInPlace
  <1>0. x \in Value /\ p \in Pushed /\ Held(p) = x
    <2>1. x \in Value
      BY <1>1, <1>2, ElementsFacts DEF Value
    <2> QED
      BY <2>1 DEF Pushed, Held
  <1> HIDE DEF p
  <1>3. /\ vec'[v] = [vec[v] EXCEPT !.size = n + 1]
        /\ \A u \in Vectors : u # v => vec'[u] = vec[u]
        /\ pushed'[v] = Append(pushed[v], p)
        /\ \A u \in Vectors : u # v => pushed'[u] = pushed[u]
    BY <1>1, <1>2 DEF VecTypes
  <1>4. /\ vec[v] \in [data : Int, size : Nat, cap : Caps] /\ n \in Nat
        /\ vec'[v].data = d /\ vec'[v].size = n + 1 /\ vec'[v].cap = vec[v].cap
    BY <1>1, <1>3 DEF VecTypes
  <1>5. Vec!Live' = Vec!Live
    <2>1. vec'[v] # Vec!Dead
      BY <1>4 DEF Vec!Dead
    <2> QED
      BY <1>2, <1>3, <2>1 DEF Vec!Live
  <1>6. Own(v) /\ d # 0 /\ d \in 1..Len(array)
    <2>1. Own(v)
      BY <1>1, <1>2
    <2>2. d # 0
      BY <1>2, <2>1 DEF Own
    <2> QED
      BY <2>1, <2>2 DEF Own
  <1>7. /\ n <= Len(array[d]) /\ Len(array[d]) \in Nat /\ array[d] \in Seq(Cell)
        /\ Len(array[d]) <= 3 => vec[v].cap = Len(array[d])
        /\ \A j \in 1..n : array[d][j] = Held(pushed[v][j])
    BY <1>1, <1>6 DEF VecTypes, Own, Filled
  <1>8. /\ pushed[v] \in Seq(Pushed) /\ Len(pushed[v]) = n
        /\ Append(pushed[v], p) \in Seq(Pushed) /\ Len(Append(pushed[v], p)) = n + 1
        /\ \A j \in 1..n : Append(pushed[v], p)[j] = pushed[v][j]
        /\ Append(pushed[v], p)[n + 1] = p
    <2>1. pushed[v] \in Seq(Pushed) /\ Len(pushed[v]) = n
      BY <1>1, <1>6 DEF VecTypes, Own
    <2> QED
      BY <2>1, <1>4, <1>0, AppendProperties
  <1>9. CASE n < Len(array[d])
    <2>1. array' = [array EXCEPT ![d][n + 1] = x] /\ undefined' = undefined
      BY <1>9 DEF Vec!AppendInPlace
    <2> DEFINE s == [array[d] EXCEPT ![n + 1] = x]
    <2>2. array' = [array EXCEPT ![d] = s]
      BY <2>1
    <2>3. n + 1 \in 1..Len(array[d]) /\ x \in Cell
      BY <1>0, <1>4, <1>7, <1>9 DEF Cell, Value
    <2>4. /\ s \in Seq(Cell) /\ Len(s) = Len(array[d]) /\ s[n + 1] = x
          /\ \A j \in 1..n : s[j] = array[d][j]
      BY <1>4, <1>7, <2>3
    <2> HIDE DEF s
    <2>5. /\ array' \in Seq(Seq(Cell)) /\ Len(array') = Len(array) /\ array'[d] = s
          /\ \A e \in 1..Len(array) : e # d => array'[e] = array[e]
      BY <1>1, <1>6, <2>2, <2>4 DEF VecTypes
    <2>6. VecTypes'
      <3>1. vec' \in [Vectors -> [data : Int, size : Nat, cap : Caps]]
        <4>1. [vec[v] EXCEPT !.size = n + 1] \in [data : Int, size : Nat, cap : Caps]
          BY <1>4
        <4>2. vec' = [vec EXCEPT ![v] = [vec[v] EXCEPT !.size = n + 1]]
          BY <1>2
        <4> QED
          BY <1>1, <4>1, <4>2 DEF VecTypes
      <3>2. pushed' \in [Vectors -> Seq(Pushed)]
        BY <1>1, <1>2, <1>8 DEF VecTypes
      <3>3. \A u \in Vectors \ Vec!Live' : pushed'[u] = <<>>
        BY <1>1, <1>2, <1>3, <1>5 DEF VecTypes
      <3> QED
        BY <1>1, <1>2, <2>5, <3>1, <3>2, <3>3 DEF VecTypes
    <2>7. Own(v)'
      <3>1. ASSUME NEW j \in 1..(n + 1) PROVE s[j] = Held(Append(pushed[v], p)[j])
        <4>1. CASE j = n + 1
          BY <1>0, <1>8, <2>4, <4>1
        <4>2. CASE j # n + 1
          <5>1. j \in 1..n
            BY <1>4, <4>2
          <5> QED
            BY <1>7, <1>8, <2>4, <5>1
        <4> QED
          BY <4>1, <4>2
      <3>2. n + 1 <= Len(s) /\ (Len(s) <= 3 => vec[v].cap = Len(s))
        BY <1>4, <1>7, <1>9, <2>4
      <3>3. d \in 0..Len(array') /\ d \notin freed'
        BY <1>2, <1>6, <2>5 DEF Own
      <3> HIDE DEF d, n
      <3> QED
        BY <1>3, <1>4, <1>6, <1>8, <2>5, <3>1, <3>2, <3>3 DEF Own, Filled
    <2>8. ASSUME NEW u \in Vec!Live, u # v PROVE Own(u)'
      <3>1. u \in Vectors /\ Own(u)
        BY <1>1 DEF Vec!Live
      <3>2. vec'[u] = vec[u] /\ pushed'[u] = pushed[u]
        BY <1>3, <2>8, <3>1
      <3>3. vec[u].data \notin freed'
        BY <1>2, <3>1 DEF Own
      <3>4. vec[u].data # 0 => array'[vec[u].data] = array[vec[u].data]
        <4>1. vec[u].data # 0 => vec[u].data \in 1..Len(array) /\ vec[u].data # d
          BY <1>1, <1>2, <2>8, <3>1 DEF Own, Apart, VecTypes
        <4> QED
          BY <2>5, <4>1
      <3>5. Len(array') \in Nat /\ Len(array) <= Len(array')
        BY <1>1, <2>5 DEF VecTypes
      <3> QED
        BY <1>1, <3>1, <3>2, <3>3, <3>4, <3>5, LeftAlone
    <2>9. Apart'
      <3>1. \A u \in Vec!Live : vec'[u].data = vec[u].data
        BY <1>3, <1>4 DEF Vec!Live
      <3> QED
        BY <1>1, <1>5, <3>1 DEF Apart
    <2> QED
      BY <1>5, <2>1, <2>6, <2>7, <2>8, <2>9 DEF VecInv
  <1>10. CASE ~(n < Len(array[d]))
    <2>1. undefined' = "overrun"
      BY <1>10 DEF Vec!AppendInPlace
    <2>2. n = Len(array[d])
      BY <1>4, <1>7, <1>10
    <2>3. n > 3
      <3>1. ASSUME n <= 3 PROVE FALSE
        <4>1. vec[v].cap = n
          BY <1>7, <2>2, <3>1
        <4> QED
          BY <1>2, <1>4, <4>1
      <3> QED
        BY <1>4, <3>1
    <2>4. Len(pushed'[v]) > 4
      BY <1>3, <1>4, <1>8, <2>3
    <2> QED
      BY <1>2, <1>5, <2>1, <2>4 DEF VecInv, Vec!VectorKeepsItems
  <1> QED
    BY <1>9, <1>10

\* Growing moves from the array of one vector and leaves the others alone.
LEMMA MovedFacts ==
  ASSUME VecTypes, NEW d \in Nat, NEW k \in Nat
  PROVE  /\ Vec!MovedFrom(d, k) \in Seq(Seq(Cell)) /\ Len(Vec!MovedFrom(d, k)) = Len(array)
         /\ \A e \in 1..Len(array) : e # d \/ k = 0 => Vec!MovedFrom(d, k)[e] = array[e]
         /\ d \in 1..Len(array) => \A j \in 1..Len(array[d]) :
              Vec!MovedFrom(d, k)[d][j] = IF j <= k THEN "moved" ELSE array[d][j]
  <1> DEFINE m == Vec!MovedFrom(d, k)
             s == [j \in 1..Len(array[d]) |-> IF j <= k THEN "moved" ELSE array[d][j]]
  <1>1. array \in Seq(Seq(Cell)) /\ Len(array) \in Nat
    BY DEF VecTypes
  <1>2. \A e \in 1..Len(array) : array[e] \in Seq(Cell)
    BY <1>1
  <1>3. d \in 1..Len(array) => s \in Seq(Cell)
    <2> SUFFICES ASSUME d \in 1..Len(array) PROVE s \in Seq(Cell)
      OBVIOUS
    <2>1. array[d] \in Seq(Cell) /\ Len(array[d]) \in Nat
      BY <1>2
    <2>2. \A j \in 1..Len(array[d]) : array[d][j] \in Cell
      BY <2>1
    <2>3. "moved" \in Cell
      BY DEF Cell
    <2>4. s \in [1..Len(array[d]) -> Cell]
      BY <2>2, <2>3
    <2> QED
      BY <2>1, <2>4
  <1>4. m = [i \in 1..Len(array) |-> IF i = d THEN s ELSE array[i]]
    BY DEF Vec!MovedFrom
  <1>5. d \in 1..Len(array) /\ k = 0 => s = array[d]
    <2> SUFFICES ASSUME d \in 1..Len(array), k = 0 PROVE s = array[d]
      OBVIOUS
    <2>1. array[d] \in Seq(Cell)
      BY <1>2
    <2>2. s = [j \in 1..Len(array[d]) |-> array[d][j]]
      OBVIOUS
    <2> QED
      BY <2>1, <2>2
  <1>9. d \in 1..Len(array) =>
          \A j \in 1..Len(array[d]) : m[d][j] = IF j <= k THEN "moved" ELSE array[d][j]
    BY <1>4
  <1> HIDE DEF m, s
  <1>6. m \in [1..Len(array) -> Seq(Cell)]
    BY <1>2, <1>3, <1>4
  <1>7. m \in Seq(Seq(Cell)) /\ Len(m) = Len(array)
    BY <1>1, <1>6
  <1>8. \A e \in 1..Len(array) : e # d \/ k = 0 => m[e] = array[e]
    BY <1>4, <1>5
  <1> QED
    BY <1>7, <1>8, <1>9 DEF m

LEMMA VecGrows ==
  ASSUME Vec!VectorAssumption, VecInv, undefined = "no", NEW v \in Vectors, NEW own \in BOOLEAN,
         NEW x \in Items \cup Vec!Elements(v), Vec!AppendGrows(v, x, own)
  PROVE  VecInv'
  <1> DEFINE d == vec[v].data
             n == vec[v].size
             p == [item |-> x, lost |-> own]
             new == Append(Vec!Cells(vec[v]), Held(p))
             cap == Vec!BitOr(n + 1, n \div 2)
             moved == Vec!MovedFrom(d, n)
             m == Len(array) + 1
  <1>1. VecTypes /\ (\A u \in Vec!Live : Own(u)) /\ Apart
    BY DEF VecInv
  <1>2. /\ v \in Vec!Live /\ array' = Append(moved, new)
        /\ vec' = [vec EXCEPT ![v] = [data |-> m, size |-> n + 1, cap |-> cap]]
        /\ pushed' = [pushed EXCEPT ![v] = Append(@, p)]
        /\ freed' = freed /\ undefined' = undefined
    BY DEF Vec!AppendGrows, Held
  <1>3. Len(array) \in Nat /\ n \in Nat /\ Own(v) /\ d \in Nat /\ m \in Nat
    BY <1>1, <1>2 DEF VecTypes, Own
  <1>4. /\ Vec!Cells(vec[v]) \in Seq(Value) /\ Len(Vec!Cells(vec[v])) = n
        /\ \A j \in 1..n : Vec!Cells(vec[v])[j] = Held(pushed[v][j])
    BY <1>1, <1>2, CellsFacts
  <1>17. p \in Pushed /\ Held(p) \in Value
    <2>1. x \in Value
      BY <1>1, <1>2, ElementsFacts DEF Value
    <2>2. p \in Pushed
      BY <2>1 DEF Pushed
    <2> QED
      BY <2>2, HeldIsValue
  <1> HIDE DEF p
  <1>5. /\ new \in Seq(Value) /\ Len(new) = n + 1
        /\ \A j \in 1..n : new[j] = Held(pushed[v][j])
        /\ new[n + 1] = Held(p)
    BY <1>3, <1>4, <1>17, AppendProperties
  <1>18. /\ pushed[v] \in Seq(Pushed) /\ Len(pushed[v]) = n
         /\ Append(pushed[v], p) \in Seq(Pushed) /\ Len(Append(pushed[v], p)) = n + 1
         /\ \A j \in 1..n : Append(pushed[v], p)[j] = pushed[v][j]
         /\ Append(pushed[v], p)[n + 1] = p
    <2>1. pushed[v] \in Seq(Pushed) /\ Len(pushed[v]) = n
      BY <1>1, <1>3 DEF VecTypes, Own
    <2> QED
      BY <1>3, <1>17, <2>1, AppendProperties
  <1>6. new \in Seq(Cell)
    BY <1>5 DEF Cell, Value
  <1>7. /\ moved \in Seq(Seq(Cell)) /\ Len(moved) = Len(array)
        /\ \A e \in 1..Len(array) : e # d => moved[e] = array[e]
    BY <1>1, <1>3, MovedFacts
  <1>13. cap = Vec!BitOr(n + 1, n \div 2)
    OBVIOUS
  <1>14. d = vec[v].data /\ n = vec[v].size /\ m = Len(array) + 1
    OBVIOUS
  <1> HIDE DEF moved, new, cap, d, n, m
  <1>8. /\ array' \in Seq(Seq(Cell)) /\ Len(array') = m /\ array'[m] = new
        /\ \A e \in 1..Len(array) : e # d => array'[e] = array[e]
    <2>1. /\ Append(moved, new) \in Seq(Seq(Cell)) /\ Len(Append(moved, new)) = Len(moved) + 1
          /\ \A e \in 1..Len(moved) : Append(moved, new)[e] = moved[e]
          /\ Append(moved, new)[Len(moved) + 1] = new
      BY <1>6, <1>7, AppendProperties
    <2> QED
      BY <1>2, <1>7, <1>14, <2>1
  <1>9. /\ vec'[v] = [data |-> m, size |-> n + 1, cap |-> cap]
        /\ \A u \in Vectors : u # v => vec'[u] = vec[u]
        /\ pushed'[v] = Append(pushed[v], p)
        /\ \A u \in Vectors : u # v => pushed'[u] = pushed[u]
    BY <1>1, <1>2 DEF VecTypes
  <1>10. Vec!Live' = Vec!Live
    <2>1. vec'[v] # Vec!Dead
      BY <1>3, <1>9 DEF Vec!Dead
    <2> QED
      BY <1>2, <1>9, <2>1 DEF Vec!Live
  <1>11. VecTypes'
    <2>0. cap \in Caps
      BY <1>3, <1>13 DEF Caps
    <2>1. vec' \in [Vectors -> [data : Int, size : Nat, cap : Caps]]
      BY <1>1, <1>2, <1>3, <2>0 DEF VecTypes
    <2>2. pushed' \in [Vectors -> Seq(Pushed)]
      BY <1>1, <1>2, <1>18 DEF VecTypes
    <2>3. \A u \in Vectors \ Vec!Live' : pushed'[u] = <<>>
      BY <1>1, <1>2, <1>9, <1>10 DEF VecTypes
    <2>4. freed' \subseteq 1..Len(array')
      BY <1>1, <1>2, <1>3, <1>8, <1>14 DEF VecTypes
    <2> QED
      BY <1>8, <2>1, <2>2, <2>3, <2>4 DEF VecTypes
  <1>12. Own(v)'
    <2>1. m \in 0..Len(array') /\ m # 0
      BY <1>3, <1>8, <1>14
    <2>2. m \notin freed'
      BY <1>1, <1>2, <1>3, <1>14 DEF VecTypes
    <2>3. n + 1 <= 3 => cap = n + 1
      <3> SUFFICES ASSUME n + 1 <= 3 PROVE cap = n + 1
        OBVIOUS
      <3>1. n + 1 \in 1..3 /\ n \div 2 \in 0..1 /\ (n \div 2 = 0 \/ (n + 1) % 2 = 1)
        BY <1>3
      <3> QED
        BY <1>13, <3>1, SmallOr
    <2>4. vec'[v].data = m /\ vec'[v].size = n + 1 /\ vec'[v].cap = cap
      BY <1>9
    <2>5. n + 1 <= Len(new)
      BY <1>3, <1>5
    <2>6. ASSUME NEW j \in 1..(n + 1) PROVE new[j] = Held(Append(pushed[v], p)[j])
      <3>1. CASE j = n + 1
        BY <1>5, <1>18, <3>1
      <3>2. CASE j # n + 1
        <4>1. j \in 1..n
          BY <1>3, <3>2
        <4> QED
          BY <1>5, <1>18, <4>1
      <3> QED
        BY <3>1, <3>2
    <2> QED
      BY <1>5, <1>8, <1>9, <1>18, <2>1, <2>2, <2>3, <2>4, <2>5, <2>6 DEF Own, Filled
  <1>15. ASSUME NEW u \in Vec!Live, u # v PROVE Own(u)'
    <2>1. u \in Vectors /\ Own(u)
      BY <1>1 DEF Vec!Live
    <2>2. vec'[u] = vec[u] /\ pushed'[u] = pushed[u]
      BY <1>9, <1>15, <2>1
    <2>3. vec[u].data \notin freed'
      BY <1>2, <2>1 DEF Own
    <2>4. vec[u].data # 0 => array'[vec[u].data] = array[vec[u].data]
      <3>1. vec[u].data # 0 => vec[u].data \in 1..Len(array) /\ vec[u].data # d
        BY <1>1, <1>2, <1>14, <1>15, <2>1 DEF Own, Apart, VecTypes
      <3> QED
        BY <1>8, <3>1
    <2>5. Len(array') \in Nat /\ Len(array) <= Len(array')
      BY <1>3, <1>8, <1>14
    <2> QED
      BY <1>1, <2>1, <2>2, <2>3, <2>4, <2>5, LeftAlone
  <1>16. Apart'
    <2> SUFFICES ASSUME NEW a \in Vec!Live, NEW b \in Vec!Live, a # b, vec'[a].data = vec'[b].data
                 PROVE  vec'[a].data = 0
      BY <1>10 DEF Apart
    <2>1. ASSUME NEW u \in Vec!Live, u # v PROVE vec'[u] = vec[u] /\ vec[u].data # m
      <3>1. vec[u].data \in 0..Len(array) /\ u \in Vectors
        BY <1>1 DEF Own, Vec!Live
      <3> QED
        BY <1>3, <1>9, <1>14, <2>1, <3>1
    <2>2. vec'[v].data = m
      BY <1>9
    <2>3. a # v /\ b # v
      BY <2>1, <2>2
    <2> QED
      BY <1>1, <2>1, <2>3 DEF Apart
  <1> QED
    BY <1>2, <1>10, <1>11, <1>12, <1>15, <1>16 DEF VecInv

LEMMA VecThrows ==
  ASSUME VecInv, undefined = "no", NEW v \in Vectors, NEW k, Vec!GrowthThrows(v, k)
  PROVE  VecInv'
  <1> DEFINE d == vec[v].data
             n == vec[v].size
             raw == [j \in 1..(n + 1) |-> "raw"]
             moved == Vec!MovedFrom(d, k)
             m == Len(array) + 1
  <1>1. VecTypes /\ (\A u \in Vec!Live : Own(u)) /\ Apart
    BY DEF VecInv
  <1>2. /\ v \in Vec!Live /\ k \in 0..n /\ array' = Append(moved, raw)
        /\ freed' = freed \cup {m}
        /\ undefined' = IF k > 0 THEN "raw_destroyed" ELSE undefined
        /\ vec' = vec /\ pushed' = pushed
    BY DEF Vec!GrowthThrows
  <1>3. Len(array) \in Nat /\ n \in Nat /\ d \in Nat /\ k \in Nat
    BY <1>1, <1>2 DEF VecTypes, Own
  <1>4. /\ moved \in Seq(Seq(Cell)) /\ Len(moved) = Len(array)
        /\ \A e \in 1..Len(array) : e # d \/ k = 0 => moved[e] = array[e]
        /\ d \in 1..Len(array) => \A j \in 1..Len(array[d]) :
              moved[d][j] = IF j <= k THEN "moved" ELSE array[d][j]
    BY <1>1, <1>3, MovedFacts
  <1>5. raw \in Seq(Cell)
    <2>1. raw \in [1..(n + 1) -> Cell]
      BY DEF Cell
    <2>2. n + 1 \in Nat
      BY <1>3
    <2> HIDE DEF raw, n
    <2> QED
      BY <2>1, <2>2
  <1>6. m = Len(array) + 1 /\ d = vec[v].data /\ n = vec[v].size
    OBVIOUS
  <1> HIDE DEF moved, raw, m, d, n
  <1>7. /\ array' \in Seq(Seq(Cell)) /\ Len(array') = m
        /\ \A e \in 1..Len(array) : array'[e] = moved[e]
    <2>1. /\ Append(moved, raw) \in Seq(Seq(Cell)) /\ Len(Append(moved, raw)) = Len(moved) + 1
          /\ \A e \in 1..Len(moved) : Append(moved, raw)[e] = moved[e]
      BY <1>4, <1>5, AppendProperties
    <2> QED
      BY <1>2, <1>4, <1>6, <2>1
  <1>8. Vec!Live' = Vec!Live
    BY <1>2 DEF Vec!Live
  <1>9. VecTypes'
    <2>1. freed \subseteq 1..Len(array)
      BY <1>1 DEF VecTypes
    <2>2. 1..Len(array) \subseteq 1..Len(array') /\ m \in 1..Len(array')
      BY <1>3, <1>6, <1>7
    <2>3. freed' \subseteq 1..Len(array')
      BY <1>2, <2>1, <2>2
    <2> QED
      BY <1>1, <1>2, <1>7, <1>8, <2>3 DEF VecTypes
  <1>10. ASSUME NEW u \in Vec!Live PROVE vec[u].data \notin freed' /\ vec[u].size \in Nat
    <2>1. Own(u) /\ vec[u].data \in 0..Len(array) /\ u \in Vectors
      BY <1>1 DEF Own, Vec!Live
    <2>2. vec[u].size \in Nat
      BY <1>1, <2>1 DEF VecTypes
    <2> QED
      BY <1>2, <1>3, <1>6, <2>1, <2>2 DEF Own
  <1>11. ASSUME NEW u \in Vec!Live, u # v \/ k = 0 PROVE Own(u)'
    <2>1. Own(u) /\ vec[u].data \in 0..Len(array)
      BY <1>1 DEF Own
    <2>2. vec[u].data # 0 => vec[u].data # d \/ k = 0
      BY <1>1, <1>2, <1>6, <1>11 DEF Apart
    <2>3. vec[u].data # 0 => array'[vec[u].data] = array[vec[u].data]
      BY <1>3, <1>4, <1>7, <2>1, <2>2
    <2>4. Len(array') \in Nat /\ Len(array) <= Len(array')
      BY <1>3, <1>6, <1>7
    <2> QED
      BY <1>1, <1>2, <1>10, <2>1, <2>3, <2>4, LeftAlone
  <1>12. Apart'
    BY <1>1, <1>2, <1>8 DEF Apart
  <1>13. CASE k > 0
    <2>1. undefined' = "raw_destroyed" /\ k \in 1..n
      BY <1>2, <1>3, <1>13
    <2>2. /\ d \in 1..Len(array) /\ Len(pushed[v]) = n /\ n <= Len(array[d])
          /\ \A j \in 1..n : array[d][j] = Held(pushed[v][j])
      BY <1>2, <1>1, <1>6, <2>1 DEF Own, Filled
    <2>3. Len(array[d]) \in Nat
      BY <1>1, <2>2 DEF VecTypes
    <2>4. Vec!Holds(v, k)'
      <3> SUFFICES ASSUME NEW j \in 1..n
                   PROVE  array'[d][j] = IF j <= k \/ pushed[v][j].lost THEN "moved" ELSE pushed[v][j].item
        BY <1>2, <1>6, <2>2 DEF Vec!Holds
      <3>1. j \in 1..Len(array[d])
        BY <1>3, <2>2, <2>3
      <3> QED
        BY <1>4, <1>7, <2>2, <3>1 DEF Held
    <2>5. ASSUME NEW u \in Vec!Live \ {v} PROVE Vec!Holds(u, 0)'
      <3>1. Own(u)' /\ vec'[u].size \in Nat
        BY <1>2, <1>10, <1>11, <2>5
      <3>2. Len(pushed'[u]) = vec'[u].size /\ (vec'[u].data = 0 => vec'[u].size = 0)
        BY <3>1 DEF Own
      <3>3. ASSUME NEW j \in 1..vec'[u].size
            PROVE  array'[vec'[u].data][j] = Held(pushed'[u][j]) /\ ~(j <= 0)
        BY <3>1, <3>2 DEF Own, Filled
      <3> QED
        BY <3>2, <3>3 DEF Vec!Holds, Held
    <2>6. ASSUME NEW u \in Vec!Live', NEW w \in Vec!Live' \ {u}, vec'[u].data = vec'[w].data
          PROVE  vec'[u].data = 0
      BY <1>12, <2>6 DEF Apart
    <2>7. \A u \in Vec!Live' : vec'[u].data \notin freed'
      BY <1>2, <1>8, <1>10
    <2>8. \E u \in Vec!Live' : /\ \E i \in 1..vec'[u].size : Vec!Holds(u, i)'
                              /\ \A w \in Vec!Live' \ {u} : Vec!Holds(w, 0)'
      BY <1>2, <1>6, <1>8, <2>1, <2>4, <2>5
    <2> QED
      BY <2>1, <2>6, <2>7, <2>8 DEF VecInv, Vec!VectorKeepsItems
  <1>14. CASE ~(k > 0)
    <2>1. k = 0 /\ undefined' = "no"
      BY <1>2, <1>3, <1>14
    <2> QED
      BY <1>8, <1>9, <1>11, <1>12, <2>1 DEF VecInv
  <1> QED
    BY <1>13, <1>14

LEMMA VecNext ==
  ASSUME Vec!VectorAssumption, VecInv, [Vec!Next]_(Vec!vars)
  PROVE  VecInv'
  <1>1. CASE UNCHANGED Vec!vars
    <2>1. /\ vec' = vec /\ array' = array /\ freed' = freed
          /\ undefined' = undefined /\ pushed' = pushed
      BY <1>1 DEF Vec!vars
    <2>2. Vec!Live' = Vec!Live
      BY <2>1 DEF Vec!Live
    <2>3. VecTypes => VecTypes'
      BY <2>1, <2>2 DEF VecTypes
    <2>4. ASSUME VecTypes, NEW v \in Vec!Live, Own(v) PROVE Own(v)'
      <3>1. Len(array') \in Nat /\ Len(array) <= Len(array') /\ vec[v].data \notin freed'
        BY <2>1, <2>4 DEF VecTypes, Own
      <3> QED
        BY <2>1, <2>4, <3>1, LeftAlone
    <2>5. Apart => Apart'
      BY <2>1, <2>2 DEF Apart
    <2>6. Vec!VectorKeepsItems => Vec!VectorKeepsItems'
      BY <2>1, <2>2 DEF Vec!VectorKeepsItems, Vec!Holds
    <2> QED
      BY <2>1, <2>2, <2>3, <2>4, <2>5, <2>6 DEF VecInv
  <1>2. CASE Vec!Next
    <2>1. undefined = "no"
      BY <1>2 DEF Vec!Next
    <2> QED
      BY <1>2, <2>1, VecConstructs, VecDestroys, VecMoves, VecAppends, VecGrows,
         VecThrows DEF Vec!Next
  <1> QED
    BY <1>1, <1>2

\* vector.hpp: however many vectors grow, move and are destroyed, with appends
\* that throw, each holds what was appended to it in an array of its own.  It
\* loses an element of its own that it was told to append while it grew, and,
\* when a growth throws, its first elements; memory is overrun by five
\* elements at the earliest.
THEOREM VectorsKeep == Vec!VectorAssumption => (Vec!Spec => []VectorKeepsItems)
  <1> SUFFICES ASSUME Vec!VectorAssumption PROVE Vec!Spec => []Vec!VectorKeepsItems
    BY DEF VectorKeepsItems
  <1> QED
    BY VecInit, VecNext, VecImplies, PTL DEF Vec!Spec
=============================================================================
