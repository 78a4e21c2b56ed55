--------------------------- MODULE ProgramsProofs ---------------------------
(***************************************************************************)
(* The page allocator and the network frames keep what PlainPrograms       *)
(* states of them, for every number of orders, pages, hosts and words; and *)
(* the programs that come in pairs keep what Processes states of them, for *)
(* every number of messages, lines and clients.  They are taken one by     *)
(* one, as each keeps to its own variables.                                *)
(***************************************************************************)
EXTENDS PlainPrograms, Processes, FiniteSetTheorems, SequenceTheorems,
        WellFoundedInduction, NaturalsInduction, TLAPS

(* PageAlloc                                                               *)

\* FiniteSets, as PageAlloc sees it, is FiniteSets.
LEMMA PagesCounting ==
  \A X : Pages!IsFiniteSet(X) = IsFiniteSet(X) /\ Pages!Cardinality(X) = Cardinality(X)
  <1>1. \A X : Pages!IsFiniteSet(X) = IsFiniteSet(X)
    BY DEF Pages!IsFiniteSet, IsFiniteSet
  <1>2. \A X : Pages!Cardinality(X) = Cardinality(X)
    BY DEF Pages!Cardinality, Cardinality, Pages!IsFiniteSet, IsFiniteSet
  <1> QED
    BY <1>1, <1>2

\* Every set of numbers that is not empty has a least one.
LEMMA LeastNumber ==
  ASSUME NEW M \in SUBSET Nat, M # {}
  PROVE  \E x \in M : \A y \in M : x <= y
  <1> DEFINE R == OpToRel(<, Nat)
  <1>1. \A a, b \in Nat : a < b => <<a, b>> \in R
    BY DEF OpToRel
  <1>2. IsWellFoundedOn(R, Nat)
    BY NatLessThanWellFounded
  <1> HIDE DEF R
  <1>3. PICK x \in M : \A y \in M : <<y, x>> \notin R
    BY <1>2, WFMin
  <1>4. \A y \in M : ~(y < x)
    BY <1>1, <1>3
  <1>5. \A y \in M : x <= y
    BY <1>4
  <1> QED
    BY <1>5

LEMMA MinIsLeast ==
  ASSUME NEW M \in SUBSET Nat, M # {}
  PROVE  Pages!Min(M) \in M /\ \A y \in M : Pages!Min(M) <= y
  BY LeastNumber DEF Pages!Min

\* A function on 0..n with a given value at 0 and given steps exists: the
\* recursive functions below have a value.
Starts(g, n, S, x, step) ==
  g \in [0..n -> S] /\ g[0] = x /\ \A m \in 0..(n - 1) : g[m + 1] = step[m][g[m]]

LEMMA Iterated ==
  ASSUME NEW S, NEW x \in S, NEW step \in [Nat -> [S -> S]], NEW N \in Nat
  PROVE  \E g : Starts(g, N, S, x, step)
  <1> DEFINE Bad == {n \in Nat : ~ \E g : Starts(g, n, S, x, step)}
  <1>1. SUFFICES ASSUME Bad # {} PROVE FALSE
    OBVIOUS
  <1>2. PICK n \in Bad : \A y \in Bad : n <= y
    BY <1>1, LeastNumber
  <1>3. CASE n = 0
    <2>1. Starts([k \in 0..0 |-> x], 0, S, x, step)
      BY DEF Starts
    <2> QED
      BY <1>3, <2>1
  <1>4. CASE n # 0
    <2>1. n - 1 \in Nat /\ n \in Nat /\ ~(n <= n - 1)
      BY <1>4
    <2>2. PICK g : Starts(g, n - 1, S, x, step)
      BY <1>2, <2>1
    <2> DEFINE h == [k \in 0..n |-> IF k = n THEN step[n - 1][g[n - 1]] ELSE g[k]]
    <2>3. /\ g \in [0..(n - 1) -> S] /\ g[0] = x
          /\ \A m \in 0..(n - 1 - 1) : g[m + 1] = step[m][g[m]]
      BY <2>2 DEF Starts
    <2>4. g[n - 1] \in S /\ step[n - 1] \in [S -> S]
      BY <2>1, <2>3
    <2>5. step[n - 1][g[n - 1]] \in S
      BY <2>4
    <2>6. h \in [0..n -> S]
      BY <2>1, <2>3, <2>5
    <2>7. h[0] = x
      BY <1>4, <2>1, <2>3
    <2>8. ASSUME NEW m \in 0..(n - 1) PROVE h[m + 1] = step[m][h[m]]
      <3>1. h[m] = g[m]
        BY <2>1
      <3>2. CASE m = n - 1
        BY <2>1, <3>1, <3>2
      <3>3. CASE m # n - 1
        <4>1. m \in 0..(n - 1 - 1) /\ m + 1 # n /\ m + 1 \in 0..n
          BY <2>1, <3>3
        <4> QED
          BY <2>3, <3>1, <4>1
      <3> QED
        BY <3>2, <3>3
    <2>9. Starts(h, n, S, x, step)
      BY <2>6, <2>7, <2>8 DEF Starts
    <2> QED
      BY <2>9
  <1> QED
    BY <1>3, <1>4

LEMMA Powers ==
  ASSUME Pages!PageAssumption
  PROVE  /\ Pages!mul2 \in [0..MaxOrder -> Nat \ {0}] /\ Pages!mul2[0] = 1
         /\ \A k \in 0..(MaxOrder - 1) : Pages!mul2[k + 1] = 2 * Pages!mul2[k]
  <1> DEFINE S == Nat \ {0}
             step == [m \in Nat |-> [v \in S |-> 2 * v]]
  <1>0. MaxOrder \in Nat
    BY DEF Pages!PageAssumption
  <1>1. step \in [Nat -> [S -> S]] /\ 1 \in S
    OBVIOUS
  <1>2. PICK g : Starts(g, MaxOrder, S, 1, step)
    BY <1>0, <1>1, Iterated
  <1>3. g \in [0..MaxOrder -> S] /\ g[0] = 1 /\ \A m \in 0..(MaxOrder - 1) : g[m + 1] = 2 * g[m]
    <2>1. /\ g \in [0..MaxOrder -> S] /\ g[0] = 1
          /\ \A m \in 0..(MaxOrder - 1) : g[m + 1] = step[m][g[m]]
      BY <1>2 DEF Starts
    <2>2. ASSUME NEW m \in 0..(MaxOrder - 1) PROVE g[m + 1] = 2 * g[m]
      <3>1. m \in Nat /\ g[m] \in S /\ g[m + 1] = step[m][g[m]]
        BY <1>0, <2>1
      <3>2. step[m][g[m]] = 2 * g[m]
        BY <3>1
      <3> QED
        BY <3>1, <3>2
    <2> QED
      BY <2>1, <2>2
  <1>4. g = [k \in 0..MaxOrder |-> IF k = 0 THEN 1 ELSE 2 * g[k - 1]]
    <2>1. ASSUME NEW k \in 0..MaxOrder PROVE g[k] = IF k = 0 THEN 1 ELSE 2 * g[k - 1]
      <3>1. CASE k = 0
        BY <1>3, <3>1
      <3>2. CASE k # 0
        <4>1. k - 1 \in 0..(MaxOrder - 1) /\ (k - 1) + 1 = k
          BY <1>0, <3>2
        <4>2. g[(k - 1) + 1] = 2 * g[k - 1]
          BY <1>3, <4>1
        <4> QED
          BY <3>2, <4>1, <4>2
      <3> QED
        BY <3>1, <3>2
    <2> QED
      BY <1>3, <2>1
  <1>5. Pages!mul2 = [k \in 0..MaxOrder |-> IF k = 0 THEN 1 ELSE 2 * Pages!mul2[k - 1]]
    BY <1>4 DEF Pages!mul2
  <1>6. \A k \in 0..MaxOrder : Pages!mul2[k] = IF k = 0 THEN 1 ELSE 2 * Pages!mul2[k - 1]
    BY <1>5
  <1>7. Pages!mul2[0] = 1 /\ \A k \in 0..(MaxOrder - 1) : Pages!mul2[k + 1] = 2 * Pages!mul2[k]
    <2>1. Pages!mul2[0] = 1
      BY <1>0, <1>6
    <2>2. ASSUME NEW k \in 0..(MaxOrder - 1) PROVE Pages!mul2[k + 1] = 2 * Pages!mul2[k]
      <3>1. k + 1 \in 0..MaxOrder /\ k + 1 # 0 /\ (k + 1) - 1 = k
        BY <1>0
      <3>2. Pages!mul2[k + 1] = 2 * Pages!mul2[(k + 1) - 1]
        BY <1>6, <3>1
      <3> QED
        BY <3>1, <3>2
    <2> QED
      BY <2>1, <2>2
  <1>8. ASSUME NEW k \in 0..MaxOrder PROVE Pages!mul2[k] \in S
    <2> DEFINE Bad == {n \in 0..MaxOrder : Pages!mul2[n] \notin S}
    <2>1. SUFFICES ASSUME Bad # {} PROVE FALSE
      OBVIOUS
    <2>0. Bad \in SUBSET Nat
      BY <1>0
    <2>2. PICK n \in Bad : \A y \in Bad : n <= y
      BY <2>0, <2>1, LeastNumber
    <2>3. CASE n = 0
      BY <1>7, <2>3
    <2>4. CASE n # 0
      <3>1. n - 1 \in 0..MaxOrder /\ n - 1 \in 0..(MaxOrder - 1) /\ (n - 1) + 1 = n /\ ~(n <= n - 1)
        BY <1>0, <2>4
      <3>2. Pages!mul2[n - 1] \in S
        BY <2>2, <3>1
      <3>3. Pages!mul2[n] = 2 * Pages!mul2[n - 1]
        BY <1>7, <3>1
      <3> QED
        BY <3>2, <3>3
    <2> QED
      BY <2>3, <2>4
  <1> QED
    BY <1>5, <1>7, <1>8

LEMMA PowersGrow ==
  ASSUME Pages!PageAssumption, NEW j \in 0..MaxOrder, NEW k \in 0..MaxOrder, j <= k
  PROVE  Pages!mul2[j] <= Pages!mul2[k]
  <1> DEFINE Bad == {n \in 0..MaxOrder : j <= n /\ ~(Pages!mul2[j] <= Pages!mul2[n])}
  <1>0. MaxOrder \in Nat
    BY DEF Pages!PageAssumption
  <1>1. SUFFICES ASSUME Bad # {} PROVE FALSE
    OBVIOUS
  <1>b. Bad \in SUBSET Nat
    BY <1>0
  <1>2. PICK n \in Bad : \A y \in Bad : n <= y
    BY <1>b, <1>1, LeastNumber
  <1>3. n # j
    BY Powers
  <1>4. n - 1 \in 0..MaxOrder /\ n - 1 \in 0..(MaxOrder - 1) /\ (n - 1) + 1 = n /\ ~(n <= n - 1) /\ j <= n - 1
    BY <1>0, <1>3
  <1>5. Pages!mul2[j] <= Pages!mul2[n - 1]
    BY <1>2, <1>4
  <1>6. Pages!mul2[n] = 2 * Pages!mul2[n - 1] /\ Pages!mul2[n - 1] \in Nat /\ Pages!mul2[j] \in Nat
    BY <1>4, Powers
  <1> QED
    BY <1>5, <1>6

\* The rounding: more than num, and no smaller power of two is.
LEMMA Rounds ==
  ASSUME Pages!PageAssumption, NEW num \in 0..Pages!LargestRequest
  PROVE  /\ num \in Nat /\ Pages!TargetOrder(num) \in 0..MaxOrder /\ num < Pages!mul2[Pages!TargetOrder(num)]
         /\ \A k \in 0..MaxOrder : k < Pages!TargetOrder(num) => Pages!mul2[k] <= num
  <1> DEFINE M == {k \in 0..MaxOrder : num < Pages!mul2[k]}
  <1>0. MaxOrder \in Nat \ {0}
    BY DEF Pages!PageAssumption
  <1>1. MaxOrder \in M /\ Pages!LargestRequest \in Nat
    <2>1. MaxOrder - 1 \in 0..(MaxOrder - 1) /\ MaxOrder - 1 \in 0..MaxOrder /\ (MaxOrder - 1) + 1 = MaxOrder
      BY <1>0
    <2>2. Pages!mul2[MaxOrder - 1] \in Nat \ {0} /\ Pages!mul2[MaxOrder] = 2 * Pages!mul2[MaxOrder - 1]
      BY <2>1, Powers
    <2> QED
      BY <1>0, <2>2 DEF Pages!LargestRequest
  <1>2. M \subseteq Nat /\ M # {}
    BY <1>0, <1>1
  <1>3. Pages!Min(M) \in M /\ \A y \in M : Pages!Min(M) <= y
    BY <1>2, MinIsLeast
  <1>4. Pages!TargetOrder(num) = Pages!Min(M)
    BY DEF Pages!TargetOrder, Pages!Halvings
  <1>5. \A k \in 0..MaxOrder : Pages!mul2[k] \in Nat
    BY Powers
  <1>6. Pages!TargetOrder(num) \in 0..MaxOrder /\ num < Pages!mul2[Pages!TargetOrder(num)]
    BY <1>3, <1>4
  <1>7. \A k \in M : Pages!TargetOrder(num) <= k
    BY <1>3, <1>4
  <1>8. num \in Nat /\ Pages!TargetOrder(num) \in Nat
    BY <1>0, <1>1, <1>6
  <1>9. ASSUME NEW k \in 0..MaxOrder, k < Pages!TargetOrder(num) PROVE Pages!mul2[k] <= num
    <2>1. k \notin M
      BY <1>0, <1>7, <1>8, <1>9
    <2>2. ~(num < Pages!mul2[k]) /\ Pages!mul2[k] \in Nat
      BY <1>5, <2>1
    <2> QED
      BY ONLY <1>8, <2>2
  <1> QED
    BY <1>6, <1>8, <1>9

\* Left satisfies its recursion.
LEMMA LeftIs ==
  ASSUME Pages!PageAssumption, NEW pos \in 0..MaxOrder, NEW num \in Nat
  PROVE  LET left == Pages!Left(pos, num)
         IN  /\ left \in [0..pos -> Nat] /\ left[pos] = num
             /\ \A i \in 0..(pos - 1) :
                  left[i] = IF left[i + 1] >= Pages!mul2[i] THEN left[i + 1] - Pages!mul2[i] ELSE left[i + 1]
  <1> DEFINE after(m, v) == IF m < pos /\ v >= Pages!mul2[pos - 1 - m] THEN v - Pages!mul2[pos - 1 - m] ELSE v
             step == [m \in Nat |-> [v \in Nat |-> after(m, v)]]
             left == Pages!Left(pos, num)
  <1>0. MaxOrder \in Nat /\ pos \in Nat /\ \A k \in 0..pos : Pages!mul2[k] \in Nat
    BY Powers DEF Pages!PageAssumption
  <1>1. \A m, v \in Nat : after(m, v) \in Nat
    BY <1>0
  <1>2. step \in [Nat -> [Nat -> Nat]]
    BY <1>1
  <1>3. PICK g : Starts(g, pos, Nat, num, step)
    BY <1>0, <1>2, Iterated
  <1>4. /\ g \in [0..pos -> Nat] /\ g[0] = num
        /\ \A m \in 0..(pos - 1) : g[m + 1] = after(m, g[m])
    <2>1. g \in [0..pos -> Nat] /\ g[0] = num /\ \A m \in 0..(pos - 1) : g[m + 1] = step[m][g[m]]
      BY <1>3 DEF Starts
    <2> HIDE DEF after
    <2>2. \A m \in 0..(pos - 1) : m \in Nat /\ g[m] \in Nat
      BY <1>0, <2>1
    <2> QED
      BY <2>1, <2>2
  <1> DEFINE f == [i \in 0..pos |-> g[pos - i]]
  <1>5. f \in [0..pos -> Nat] /\ f[pos] = num
    BY <1>0, <1>4
  <1>6. ASSUME NEW i \in 0..(pos - 1)
        PROVE  f[i] = IF f[i + 1] >= Pages!mul2[i] THEN f[i + 1] - Pages!mul2[i] ELSE f[i + 1]
    <2>1. /\ pos - 1 - i \in 0..(pos - 1) /\ (pos - 1 - i) + 1 = pos - i /\ pos - 1 - i < pos
          /\ pos - (i + 1) = pos - 1 - i /\ pos - 1 - (pos - 1 - i) = i
          /\ i \in 0..pos /\ i + 1 \in 0..pos
      BY <1>0
    <2>2. f[i] = g[pos - i] /\ f[i + 1] = g[pos - 1 - i]
      BY <2>1
    <2>3. g[(pos - 1 - i) + 1] = after(pos - 1 - i, g[pos - 1 - i])
      BY <1>4, <2>1
    <2> QED
      BY <2>1, <2>2, <2>3
  <1> HIDE DEF f
  <1>7. f = [i \in 0..pos |->
               IF i = pos THEN num
               ELSE IF f[i + 1] >= Pages!mul2[i] THEN f[i + 1] - Pages!mul2[i] ELSE f[i + 1]]
    <2>1. ASSUME NEW i \in 0..pos
          PROVE  f[i] = IF i = pos THEN num
                        ELSE IF f[i + 1] >= Pages!mul2[i] THEN f[i + 1] - Pages!mul2[i] ELSE f[i + 1]
      <3>1. i # pos => i \in 0..(pos - 1)
        BY <1>0
      <3> QED
        BY <1>5, <1>6, <3>1
    <2> QED
      BY <1>5, <2>1
  <1>8. left = [i \in 0..pos |->
               IF i = pos THEN num
               ELSE IF left[i + 1] >= Pages!mul2[i] THEN left[i + 1] - Pages!mul2[i] ELSE left[i + 1]]
    BY <1>7 DEF Pages!Left
  <1> HIDE DEF left
  <1>9. left[pos] = num
    BY <1>0, <1>8
  <1>10. ASSUME NEW i \in 0..(pos - 1)
         PROVE  left[i] = IF left[i + 1] >= Pages!mul2[i] THEN left[i + 1] - Pages!mul2[i] ELSE left[i + 1]
    <2>1. i \in 0..pos /\ i # pos
      BY <1>0
    <2> QED
      BY <1>8, <2>1
  <1>11. ASSUME NEW i \in 0..pos PROVE left[i] \in Nat
    <2> DEFINE Bad == {n \in 0..pos : left[pos - n] \notin Nat}
    <2>1. SUFFICES ASSUME Bad # {} PROVE FALSE
      <3>1. pos - i \in 0..pos /\ pos - (pos - i) = i
        BY <1>0
      <3> QED
        BY <3>1
    <2>0. Bad \in SUBSET Nat
      BY <1>0
    <2>2. PICK n \in Bad : \A y \in Bad : n <= y
      BY <2>0, <2>1, LeastNumber
    <2>3. n # 0
      BY <1>0, <1>9
    <2>4. /\ n - 1 \in 0..pos /\ ~(n <= n - 1) /\ pos - n \in 0..(pos - 1)
          /\ (pos - n) + 1 = pos - (n - 1)
          /\ pos - n \in 0..pos
      BY <1>0, <2>3
    <2>5. left[pos - (n - 1)] \in Nat
      BY <2>2, <2>4
    <2>6. left[(pos - n) + 1] \in Nat
      BY <2>4, <2>5
    <2>7. left[pos - n] \in Nat
      BY <1>0, <1>10, <2>4, <2>6
    <2> QED
      BY <2>7
  <1>12. left \in [0..pos -> Nat]
    BY <1>8, <1>11
  <1> QED
    BY <1>9, <1>10, <1>12 DEF left

\* What remains is less than the blocks still to be considered hold, unless
\* it is all of them.
LEMMA LeftBounds ==
  ASSUME Pages!PageAssumption, NEW pos \in 0..MaxOrder, NEW num \in 0..Pages!mul2[pos]
  PROVE  LET left == Pages!Left(pos, num)
         IN  /\ \A i \in 0..pos : IF num = Pages!mul2[pos] THEN left[i] = Pages!mul2[i] ELSE left[i] < Pages!mul2[i]
             /\ \A i, j \in 0..pos : i <= j => left[i] <= left[j]
  <1> DEFINE left == Pages!Left(pos, num)
             Good(i) == IF num = Pages!mul2[pos] THEN left[i] = Pages!mul2[i] ELSE left[i] < Pages!mul2[i]
  <1>0. /\ MaxOrder \in Nat /\ pos \in Nat /\ num \in Nat /\ num <= Pages!mul2[pos]
        /\ \A k \in 0..pos : Pages!mul2[k] \in Nat
        /\ \A k \in 0..(pos - 1) : Pages!mul2[k + 1] = 2 * Pages!mul2[k]
    BY Powers DEF Pages!PageAssumption
  <1>1. /\ left \in [0..pos -> Nat] /\ left[pos] = num
        /\ \A i \in 0..(pos - 1) :
             left[i] = IF left[i + 1] >= Pages!mul2[i] THEN left[i + 1] - Pages!mul2[i] ELSE left[i + 1]
    BY <1>0, LeftIs
  <1> HIDE DEF left
  <1>2. \A i \in 0..(pos - 1) : left[i] \in Nat /\ left[i + 1] \in Nat /\ Pages!mul2[i] \in Nat /\ left[i] <= left[i + 1]
    <2> TAKE i \in 0..(pos - 1)
    <2>1. i \in 0..pos /\ i + 1 \in 0..pos
      BY <1>0
    <2>2. left[i] \in Nat /\ left[i + 1] \in Nat /\ Pages!mul2[i] \in Nat
      BY <1>0, <1>1, <2>1
    <2>3. left[i] = IF left[i + 1] >= Pages!mul2[i] THEN left[i + 1] - Pages!mul2[i] ELSE left[i + 1]
      BY <1>1
    <2> QED
      BY <2>2, <2>3
  <1>3. ASSUME NEW i \in 0..pos PROVE Good(i)
    <2> DEFINE Bad == {n \in 0..pos : ~Good(pos - n)}
    <2>1. SUFFICES ASSUME Bad # {} PROVE FALSE
      <3>1. pos - i \in 0..pos /\ pos - (pos - i) = i
        BY <1>0
      <3> HIDE DEF Good
      <3> QED
        BY <3>1
    <2>0. Bad \in SUBSET Nat
      BY <1>0
    <2>2. PICK n \in Bad : \A y \in Bad : n <= y
      BY <2>0, <2>1, LeastNumber
    <2>3. n # 0
      BY <1>0, <1>1
    <2>4. /\ n - 1 \in 0..pos /\ ~(n <= n - 1) /\ pos - n \in 0..(pos - 1)
          /\ (pos - n) + 1 = pos - (n - 1)
          /\ pos - n \in 0..pos
      BY <1>0, <2>3
    <2>5. Good((pos - n) + 1) /\ ~Good(pos - n)
      <3> HIDE DEF Good
      <3> QED
        BY <2>2, <2>4
    <2> DEFINE k == pos - n
    <2>6. k \in 0..(pos - 1) /\ Good(k + 1) /\ ~Good(k)
      BY <2>4, <2>5
    <2> HIDE DEF k
    <2>7. left[k] \in Nat /\ left[k + 1] \in Nat /\ Pages!mul2[k] \in Nat /\ Pages!mul2[k + 1] = 2 * Pages!mul2[k]
      BY <1>0, <1>2, <2>6
    <2>8. left[k] = IF left[k + 1] >= Pages!mul2[k] THEN left[k + 1] - Pages!mul2[k] ELSE left[k + 1]
      BY <1>1, <2>6
    <2> QED
      BY <2>6, <2>7, <2>8
  <1>4. ASSUME NEW i \in 0..pos, NEW j \in 0..pos, i <= j PROVE left[i] <= left[j]
    <2> DEFINE Bad == {n \in 0..pos : i <= n /\ ~(left[i] <= left[n])}
    <2>1. SUFFICES ASSUME Bad # {} PROVE FALSE
      BY <1>4
    <2>0. Bad \in SUBSET Nat
      BY <1>0
    <2>2. PICK n \in Bad : \A y \in Bad : n <= y
      BY <2>0, <2>1, LeastNumber
    <2>3. n # i
      BY <1>1
    <2>4. n - 1 \in 0..pos /\ n - 1 \in 0..(pos - 1) /\ (n - 1) + 1 = n /\ ~(n <= n - 1) /\ i <= n - 1
      BY <1>0, <2>3
    <2>5. left[i] <= left[n - 1]
      BY <2>2, <2>4
    <2>6. left[n - 1] <= left[n] /\ left[n - 1] \in Nat /\ left[n] \in Nat /\ left[i] \in Nat
      BY <1>1, <1>2, <2>4
    <2> QED
      BY <2>5, <2>6
  <1> QED
    BY <1>3, <1>4 DEF left

(* The free lists. *)
Lists == [Pages!Orders -> Seq(Nat)]
Span(f, i, k) == Pages!Pages(f[i][k], Pages!mul2[i])
Covered(f) == UNION {UNION {Span(f, i, k) : k \in 1..Len(f[i])} : i \in Pages!Orders}
Separate(f) ==
  \A i, j \in Pages!Orders : \A k \in 1..Len(f[i]), l \in 1..Len(f[j]) :
    \A p \in Span(f, i, k) : p \in Span(f, j, l) => i = j /\ k = l

LEMMA CoveredIs ==
  ASSUME NEW f, NEW p
  PROVE  p \in Covered(f) <=> \E i \in Pages!Orders : \E k \in 1..Len(f[i]) : p \in Span(f, i, k)
  <1>1. p \in Covered(f) <=> \E i \in Pages!Orders : p \in UNION {Span(f, i, k) : k \in 1..Len(f[i])}
    BY DEF Covered
  <1>2. ASSUME NEW i
        PROVE  p \in UNION {Span(f, i, k) : k \in 1..Len(f[i])} <=> \E k \in 1..Len(f[i]) : p \in Span(f, i, k)
    OBVIOUS
  <1> QED
    BY <1>1, <1>2

LEMMA OrdersAre ==
  ASSUME Pages!PageAssumption
  PROVE  /\ MaxOrder \in Nat \ {0} /\ Pages!Orders \subseteq Nat
         /\ \A i \in Pages!Orders : i \in 0..MaxOrder /\ Pages!mul2[i] \in Nat \ {0}
  BY Powers DEF Pages!Orders, Pages!PageAssumption

\* At the ends of some lists blocks are put that lie apart from each other and
\* from what is free.
PutAt(f, g, G, a) ==
  /\ DOMAIN g = Pages!Orders /\ g = [i \in DOMAIN g |-> g[i]]
  /\ \A i \in Pages!Orders : g[i] = IF i \in G THEN Append(f[i], a[i]) ELSE f[i]
Apart(G, a) ==
  \A i, j \in G : \A p \in Pages!Pages(a[i], Pages!mul2[i]) : p \in Pages!Pages(a[j], Pages!mul2[j]) => i = j
Outside(f, G, a) == \A i \in G : \A p \in Pages!Pages(a[i], Pages!mul2[i]) : p \notin Covered(f)
Pieces(G, a) == UNION {Pages!Pages(a[i], Pages!mul2[i]) : i \in G}
Grows(f, g, G, a) ==
  PutAt(f, g, G, a) /\ (\A i \in G : a[i] \in Nat) /\ Separate(f) /\ Apart(G, a) /\ Outside(f, G, a)

LEMMA Grown ==
  ASSUME Pages!PageAssumption, NEW f \in Lists, NEW g, NEW G \in SUBSET Pages!Orders, NEW a, Grows(f, g, G, a)
  PROVE  /\ g \in Lists /\ Separate(g)
         /\ Covered(g) = Covered(f) \cup Pieces(G, a)
  <1>0. /\ \A i \in G : a[i] \in Nat
        /\ DOMAIN g = Pages!Orders /\ g = [i \in DOMAIN g |-> g[i]]
        /\ \A i \in Pages!Orders : g[i] = IF i \in G THEN Append(f[i], a[i]) ELSE f[i]
        /\ Separate(f)
        /\ \A i, j \in G : \A p \in Pages!Pages(a[i], Pages!mul2[i]) : p \in Pages!Pages(a[j], Pages!mul2[j]) => i = j
        /\ \A i \in G : \A p \in Pages!Pages(a[i], Pages!mul2[i]) : p \notin Covered(f)
    BY DEF Grows, PutAt, Apart, Outside
  <1>1. ASSUME NEW i \in Pages!Orders
        PROVE  /\ f[i] \in Seq(Nat) /\ g[i] \in Seq(Nat) /\ Len(f[i]) \in Nat
               /\ i \in G => Len(g[i]) = Len(f[i]) + 1 /\ g[i][Len(f[i]) + 1] = a[i]
               /\ i \notin G => Len(g[i]) = Len(f[i])
               /\ \A k \in 1..Len(f[i]) : g[i][k] = f[i][k]
    <2>1. f[i] \in Seq(Nat) /\ g[i] = IF i \in G THEN Append(f[i], a[i]) ELSE f[i]
      BY <1>0 DEF Lists
    <2>2. CASE i \in G
      BY <1>0, <2>1, <2>2, AppendProperties, LenProperties
    <2>3. CASE i \notin G
      BY <2>1, <2>3, LenProperties
    <2> QED
      BY <2>2, <2>3
  <1>2. g \in Lists
    BY <1>0, <1>1 DEF Lists
  <1>3. ASSUME NEW i \in Pages!Orders, NEW k \in 1..Len(g[i])
        PROVE  \/ k \in 1..Len(f[i]) /\ Span(g, i, k) = Span(f, i, k)
               \/ i \in G /\ k = Len(f[i]) + 1 /\ Span(g, i, k) = Pages!Pages(a[i], Pages!mul2[i])
    <2>1. CASE k \in 1..Len(f[i])
      BY <1>1, <2>1 DEF Span
    <2>2. CASE k \notin 1..Len(f[i])
      <3>1. i \in G /\ k = Len(f[i]) + 1
        BY <1>1, <2>2
      <3> QED
        BY <1>1, <3>1 DEF Span
    <2> QED
      BY <2>1, <2>2
  <1>4. ASSUME NEW i \in Pages!Orders, NEW k \in 1..Len(f[i])
        PROVE  k \in 1..Len(g[i]) /\ Span(g, i, k) = Span(f, i, k)
    BY <1>1 DEF Span
  <1>5. ASSUME NEW i \in G
        PROVE  Len(f[i]) + 1 \in 1..Len(g[i]) /\ Span(g, i, Len(f[i]) + 1) = Pages!Pages(a[i], Pages!mul2[i])
    BY <1>1 DEF Span
  <1>6. Separate(g)
    <2> SUFFICES ASSUME NEW i \in Pages!Orders, NEW j \in Pages!Orders, NEW k \in 1..Len(g[i]), NEW l \in 1..Len(g[j]),
                        NEW p \in Span(g, i, k), p \in Span(g, j, l)
                 PROVE  i = j /\ k = l
      BY DEF Separate
    <2>1. CASE k \in 1..Len(f[i]) /\ l \in 1..Len(f[j])
      <3>1. p \in Span(f, i, k) /\ p \in Span(f, j, l)
        BY <1>4, <2>1
      <3> QED
        BY <1>0, <2>1, <3>1 DEF Separate
    <2>2. CASE k \in 1..Len(f[i]) /\ l \notin 1..Len(f[j])
      <3>1. p \in Span(f, i, k) /\ j \in G /\ p \in Pages!Pages(a[j], Pages!mul2[j])
        BY <1>3, <1>4, <2>2
      <3>2. p \in Covered(f)
        BY <2>2, <3>1, CoveredIs
      <3> QED
        BY <1>0, <3>1, <3>2
    <2>3. CASE k \notin 1..Len(f[i]) /\ l \in 1..Len(f[j])
      <3>1. p \in Span(f, j, l) /\ i \in G /\ p \in Pages!Pages(a[i], Pages!mul2[i])
        BY <1>3, <1>4, <2>3
      <3>2. p \in Covered(f)
        BY <2>3, <3>1, CoveredIs
      <3> QED
        BY <1>0, <3>1, <3>2
    <2>4. CASE k \notin 1..Len(f[i]) /\ l \notin 1..Len(f[j])
      <3>1. /\ i \in G /\ p \in Pages!Pages(a[i], Pages!mul2[i]) /\ k = Len(f[i]) + 1
            /\ j \in G /\ p \in Pages!Pages(a[j], Pages!mul2[j]) /\ l = Len(f[j]) + 1
        BY <1>3, <2>4
      <3>2. i = j
        BY <1>0, <3>1
      <3> QED
        BY <3>1, <3>2
    <2> QED
      BY <2>1, <2>2, <2>3, <2>4
  <1>7. ASSUME NEW p PROVE p \in Covered(g) <=> p \in Covered(f) \/ \E i \in G : p \in Pages!Pages(a[i], Pages!mul2[i])
    <2>1. ASSUME p \in Covered(g) PROVE p \in Covered(f) \/ \E i \in G : p \in Pages!Pages(a[i], Pages!mul2[i])
      <3>a. PICK i \in Pages!Orders : \E k \in 1..Len(g[i]) : p \in Span(g, i, k)
        BY <2>1, CoveredIs
      <3>1. PICK k \in 1..Len(g[i]) : p \in Span(g, i, k)
        BY <3>a
      <3>2. CASE k \in 1..Len(f[i]) /\ Span(g, i, k) = Span(f, i, k)
        BY <3>1, <3>2, CoveredIs
      <3>3. CASE i \in G /\ Span(g, i, k) = Pages!Pages(a[i], Pages!mul2[i])
        BY <3>1, <3>3
      <3> QED
        BY <1>3, <3>2, <3>3
    <2>2. ASSUME p \in Covered(f) PROVE p \in Covered(g)
      <3>a. PICK i \in Pages!Orders : \E k \in 1..Len(f[i]) : p \in Span(f, i, k)
        BY <2>2, CoveredIs
      <3>1. PICK k \in 1..Len(f[i]) : p \in Span(f, i, k)
        BY <3>a
      <3>2. k \in 1..Len(g[i]) /\ p \in Span(g, i, k)
        BY <1>4, <3>1
      <3> QED
        BY <3>2, CoveredIs
    <2>3. ASSUME NEW i \in G, p \in Pages!Pages(a[i], Pages!mul2[i]) PROVE p \in Covered(g)
      <3>1. Len(f[i]) + 1 \in 1..Len(g[i]) /\ p \in Span(g, i, Len(f[i]) + 1)
        BY <1>5, <2>3
      <3> QED
        BY <3>1, CoveredIs
    <2> QED
      BY <2>1, <2>2, <2>3
  <1>8. Covered(g) = Covered(f) \cup Pieces(G, a)
    BY <1>7 DEF Pieces
  <1> QED
    BY <1>2, <1>6, <1>8

\* The first block of a list is taken off.
LEMMA Popped ==
  ASSUME Pages!PageAssumption, NEW f \in Lists, NEW o \in Pages!Orders, f[o] # <<>>, Separate(f)
  PROVE  LET g == [f EXCEPT ![o] = Tail(f[o])]
         IN  /\ g \in Lists /\ Separate(g) /\ 1 \in 1..Len(f[o]) /\ f[o][1] \in Nat /\ Head(f[o]) = f[o][1]
             /\ Covered(g) = Covered(f) \ Span(f, o, 1)
  <1> DEFINE g == [f EXCEPT ![o] = Tail(f[o])]
             was(i, k) == IF i = o THEN k + 1 ELSE k
  <1>1. /\ f[o] \in Seq(Nat) /\ Len(f[o]) \in Nat \ {0} /\ Tail(f[o]) \in Seq(Nat)
        /\ Len(Tail(f[o])) = Len(f[o]) - 1 /\ Head(f[o]) = f[o][1] /\ f[o][1] \in Nat
        /\ \A k \in 1..(Len(f[o]) - 1) : Tail(f[o])[k] = f[o][k + 1]
    BY HeadTailProperties, EmptySeq DEF Lists
  <1>2. g \in Lists /\ g[o] = Tail(f[o]) /\ \A i \in Pages!Orders : i # o => g[i] = f[i]
    BY <1>1 DEF Lists
  <1> HIDE DEF g
  <1>l. Len(g[o]) = Len(f[o]) - 1 /\ Len(f[o]) \in Int
    BY <1>1, <1>2
  <1>3. ASSUME NEW i \in Pages!Orders, NEW k \in 1..Len(g[i])
        PROVE  was(i, k) \in 1..Len(f[i]) /\ Span(g, i, k) = Span(f, i, was(i, k)) /\ ~(i = o /\ was(i, k) = 1)
    <2>1. CASE i = o
      <3>1. k \in 1..(Len(f[o]) - 1) /\ k + 1 \in 1..Len(f[o]) /\ k + 1 # 1
        BY <1>l, <2>1
      <3>2. g[o][k] = f[o][k + 1]
        BY <1>1, <1>2, <3>1
      <3>3. Span(g, o, k) = Span(f, o, k + 1)
        BY <3>2 DEF Span
      <3> QED
        BY <2>1, <3>1, <3>3
    <2>2. CASE i # o
      <3>1. g[i] = f[i] /\ was(i, k) = k
        BY <1>2, <2>2
      <3> QED
        BY <2>2, <3>1 DEF Span
    <2> QED
      BY <2>1, <2>2
  <1>4. ASSUME NEW i \in Pages!Orders, NEW k \in 1..Len(f[i]), ~(i = o /\ k = 1)
        PROVE  \E l \in 1..Len(g[i]) : Span(g, i, l) = Span(f, i, k)
    <2>1. CASE i = o
      <3>1. k \in Int /\ 1 <= k /\ k <= Len(f[o]) /\ k # 1 /\ Len(g[o]) = Len(f[o]) - 1
        BY <1>1, <1>2, <1>4, <2>1
      <3>2. k - 1 \in 1..Len(g[o]) /\ (k - 1) + 1 = k
        BY <1>l, <3>1
      <3>3. Span(g, i, k - 1) = Span(f, i, was(i, k - 1)) /\ was(i, k - 1) = k
        BY <1>3, <2>1, <3>2
      <3> QED
        BY <2>1, <3>2, <3>3
    <2>2. CASE i # o
      BY <1>2, <2>2 DEF Span
    <2> QED
      BY <2>1, <2>2
  <1>5. Separate(g)
    <2> SUFFICES ASSUME NEW i \in Pages!Orders, NEW j \in Pages!Orders, NEW k \in 1..Len(g[i]), NEW l \in 1..Len(g[j]),
                        NEW p \in Span(g, i, k), p \in Span(g, j, l)
                 PROVE  i = j /\ k = l
      BY DEF Separate
    <2>1. /\ was(i, k) \in 1..Len(f[i]) /\ was(j, l) \in 1..Len(f[j])
          /\ p \in Span(f, i, was(i, k)) /\ p \in Span(f, j, was(j, l))
      BY <1>3
    <2>2. i = j /\ was(i, k) = was(j, l)
      <3> HIDE DEF was
      <3> QED
        BY <2>1 DEF Separate
    <2> QED
      BY <2>2
  <1>6. ASSUME NEW p PROVE p \in Covered(g) <=> p \in Covered(f) /\ p \notin Span(f, o, 1)
    <2>1. ASSUME p \in Covered(g) PROVE p \in Covered(f) /\ p \notin Span(f, o, 1)
      <3>a. PICK i \in Pages!Orders : \E k \in 1..Len(g[i]) : p \in Span(g, i, k)
        BY <2>1, CoveredIs
      <3>1. PICK k \in 1..Len(g[i]) : p \in Span(g, i, k)
        BY <3>a
      <3> DEFINE m == was(i, k)
      <3>2. m \in 1..Len(f[i]) /\ p \in Span(f, i, m) /\ ~(i = o /\ m = 1)
        BY <1>3, <3>1
      <3> HIDE DEF m
      <3>3. p \in Covered(f)
        BY <3>2, CoveredIs
      <3>4. ASSUME p \in Span(f, o, 1) PROVE FALSE
        <4>1. 1 \in 1..Len(f[o])
          BY <1>1
        <4> QED
          BY <3>2, <3>4, <4>1 DEF Separate
      <3> QED
        BY <3>3, <3>4
    <2>2. ASSUME p \in Covered(f), p \notin Span(f, o, 1) PROVE p \in Covered(g)
      <3>a. PICK i \in Pages!Orders : \E k \in 1..Len(f[i]) : p \in Span(f, i, k)
        BY <2>2, CoveredIs
      <3>1. PICK k \in 1..Len(f[i]) : p \in Span(f, i, k)
        BY <3>a
      <3>2. ~(i = o /\ k = 1)
        BY <2>2, <3>1
      <3>3. PICK l \in 1..Len(g[i]) : Span(g, i, l) = Span(f, i, k)
        BY <1>4, <3>2
      <3> QED
        BY <3>1, <3>3, CoveredIs
    <2> QED
      BY <2>1, <2>2
  <1>7. Covered(g) = Covered(f) \ Span(f, o, 1)
    BY <1>6
  <1>8. 1 \in 1..Len(f[o])
    BY <1>1
  <1> QED
    BY <1>1, <1>2, <1>5, <1>7, <1>8 DEF g

\* What is put back of num pages lies apart and covers them, but for the last
\* one if num is all of a block.
LEMMA Rest ==
  ASSUME Pages!PageAssumption, NEW f \in Lists, NEW address \in Nat, NEW pos \in Pages!Orders, NEW num \in 0..Pages!mul2[pos],
         Separate(f), \A p \in Pages!Pages(address, num) : p \notin Covered(f)
  PROVE  LET g == Pages!RestBlocks(f, address, pos, num)
             lost == IF num = Pages!mul2[pos] THEN 1 ELSE 0
         IN  g \in Lists /\ Separate(g) /\ Covered(g) = Covered(f) \cup Pages!Pages(address, num - lost)
  <1> DEFINE left == Pages!Left(pos, num)
             e == address + num
             G == {i \in Pages!Orders : i < pos /\ left[i + 1] >= Pages!mul2[i]}
             a == [i \in G |-> address + (num - left[i + 1])]
             lost == IF num = Pages!mul2[pos] THEN 1 ELSE 0
             g == Pages!RestBlocks(f, address, pos, num)
  <1>0. /\ pos \in 0..MaxOrder /\ pos \in Nat /\ num \in Nat /\ Pages!mul2[pos] \in Nat
        /\ Pages!Orders \subseteq Nat /\ \A i \in 0..pos : Pages!mul2[i] \in Nat \ {0}
        /\ \A i \in 0..pos : i \in Pages!Orders
    BY OrdersAre, Powers DEF Pages!Orders
  <1>1. /\ left \in [0..pos -> Nat] /\ left[pos] = num
        /\ \A i \in 0..(pos - 1) : left[i] = IF left[i + 1] >= Pages!mul2[i] THEN left[i + 1] - Pages!mul2[i] ELSE left[i + 1]
    BY <1>0, LeftIs
  <1>2. /\ \A i \in 0..pos : IF num = Pages!mul2[pos] THEN left[i] = Pages!mul2[i] ELSE left[i] < Pages!mul2[i]
        /\ \A i, j \in 0..pos : i <= j => left[i] <= left[j]
    BY <1>0, LeftBounds
  <1>3. /\ DOMAIN g = Pages!Orders /\ g = [i \in DOMAIN g |-> g[i]]
        /\ \A i \in Pages!Orders : g[i] = IF i \in G THEN Append(f[i], a[i]) ELSE f[i]
    BY DEF Pages!RestBlocks
  <1> HIDE DEF left, g
  <1>4. left[0] = lost /\ left[0] \in Nat /\ lost \in Nat
    <2>1. 0 \in 0..pos /\ Pages!mul2[0] = 1
      BY <1>0, Powers
    <2>2. left[0] \in Nat
      BY <1>1, <2>1
    <2>3. IF num = Pages!mul2[pos] THEN left[0] = Pages!mul2[0] ELSE left[0] < Pages!mul2[0]
      BY <1>2, <2>1
    <2> QED
      BY <2>1, <2>2, <2>3
  <1>5. ASSUME NEW i \in G
        PROVE  /\ i \in 0..pos /\ i + 1 \in 0..pos /\ i < pos /\ i \in Nat
               /\ left[i] \in Nat /\ left[i + 1] \in Nat /\ Pages!mul2[i] \in Nat
               /\ left[i] = left[i + 1] - Pages!mul2[i] /\ left[i + 1] <= num
               /\ left[0] <= left[i]
               /\ a[i] = address + (num - left[i + 1]) /\ a[i] \in Nat
    <2>1. i \in 0..pos /\ i + 1 \in 0..pos /\ i \in 0..(pos - 1) /\ i < pos /\ 0 \in 0..pos /\ pos \in 0..pos /\ i \in Nat
      BY <1>0
    <2>2. left[i] \in Nat /\ left[i + 1] \in Nat /\ Pages!mul2[i] \in Nat
      BY <1>0, <1>1, <2>1
    <2>3. left[i] = left[i + 1] - Pages!mul2[i]
      BY <1>1, <2>1
    <2>4. left[i + 1] <= num /\ left[0] <= left[i]
      BY <1>0, <1>1, <1>2, <2>1
    <2>5. a[i] = address + (num - left[i + 1])
      OBVIOUS
    <2> HIDE DEF a, G
    <2> QED
      BY <1>0, <2>1, <2>2, <2>3, <2>4, <2>5
  <1>6. G \subseteq Pages!Orders
    OBVIOUS
  <1>7. ASSUME NEW i \in 0..pos, i < pos, i \notin G PROVE left[i] = left[i + 1]
    <2>1. i \in 0..(pos - 1) /\ i \in Pages!Orders /\ i + 1 \in 0..pos
      BY <1>0, <1>7
    <2>2. ~(left[i + 1] >= Pages!mul2[i])
      BY <1>7, <2>1
    <2> QED
      BY <1>1, <2>1, <2>2
  <1> HIDE DEF a, G
  <1>8. ASSUME NEW i \in G, NEW p
        PROVE  p \in Pages!Pages(a[i], Pages!mul2[i]) <=> p \in Int /\ e - left[i + 1] <= p /\ p < e - left[i]
    BY <1>0, <1>5 DEF Pages!Pages
  <1>9. \A i, j \in G : \A p \in Pages!Pages(a[i], Pages!mul2[i]) : p \in Pages!Pages(a[j], Pages!mul2[j]) => i = j
    <2> SUFFICES ASSUME NEW i \in G, NEW j \in G, NEW p, p \in Pages!Pages(a[i], Pages!mul2[i]), p \in Pages!Pages(a[j], Pages!mul2[j]), i # j
                 PROVE  FALSE
      OBVIOUS
    <2>1. /\ p \in Int /\ e - left[i + 1] <= p /\ p < e - left[i]
          /\ e - left[j + 1] <= p /\ p < e - left[j]
      BY <1>8
    <2>2. CASE i < j
      <3>1. left[i + 1] <= left[j]
        BY <1>2, <1>5, <2>2
      <3> QED
        BY <1>0, <1>5, <2>1, <3>1
    <2>3. CASE j < i
      <3>1. left[j + 1] <= left[i]
        BY <1>2, <1>5, <2>3
      <3> QED
        BY <1>0, <1>5, <2>1, <3>1
    <2>4. i \in Nat /\ j \in Nat
      BY <1>5
    <2> QED
      BY <2>2, <2>3, <2>4
  <1>10. ASSUME NEW p PROVE (\E i \in G : p \in Pages!Pages(a[i], Pages!mul2[i])) <=> p \in Pages!Pages(address, num - lost)
    <2>1. ASSUME NEW i \in G, p \in Pages!Pages(a[i], Pages!mul2[i]) PROVE p \in Pages!Pages(address, num - lost)
      <3>1. p \in Int /\ e - left[i + 1] <= p /\ p < e - left[i]
        BY <1>8, <2>1
      <3>2. address <= p /\ p <= address + (num - lost) - 1
        <4> HIDE DEF lost
        <4> QED
          BY <1>0, <1>4, <1>5, <3>1
      <3> QED
        BY <1>0, <1>4, <3>1, <3>2 DEF Pages!Pages
    <2>2. ASSUME p \in Pages!Pages(address, num - lost) PROVE \E i \in G : p \in Pages!Pages(a[i], Pages!mul2[i])
      <3> DEFINE K == {k \in 0..pos : e - left[k] <= p}
      <3>1. p \in Int /\ address <= p /\ p < e - left[0]
        <4> HIDE DEF lost
        <4> QED
          BY <1>0, <1>4, <2>2 DEF Pages!Pages
      <3>2. pos \in K /\ K \in SUBSET Nat
        BY <1>0, <1>1, <3>1
      <3>3. PICK k \in K : \A y \in K : k <= y
        BY <3>2, LeastNumber
      <3>4. k # 0
        BY <1>0, <1>4, <3>1
      <3>5. k - 1 \in 0..pos /\ k - 1 < pos /\ (k - 1) + 1 = k /\ ~(k <= k - 1) /\ k \in 0..pos
        BY <1>0, <3>4
      <3>6. k - 1 \notin K /\ e - left[k] <= p
        BY <3>3, <3>5
      <3>7. left[k] \in Nat /\ left[k - 1] \in Nat
        BY <1>1, <3>5
      <3>8. p < e - left[k - 1]
        BY <1>0, <3>1, <3>5, <3>6, <3>7
      <3>9. k - 1 \in G
        <4>1. left[k - 1] # left[k]
          BY <1>0, <3>1, <3>6, <3>7, <3>8
        <4> QED
          BY <1>7, <3>5, <4>1
      <3>10. p \in Pages!Pages(a[k - 1], Pages!mul2[k - 1])
        BY <1>8, <3>1, <3>5, <3>6, <3>8, <3>9
      <3> QED
        BY <3>9, <3>10
    <2> QED
      BY <2>1, <2>2
  <1>11. \A i \in G : \A p \in Pages!Pages(a[i], Pages!mul2[i]) : p \notin Covered(f)
    <2> SUFFICES ASSUME NEW i \in G, NEW p \in Pages!Pages(a[i], Pages!mul2[i]) PROVE p \in Pages!Pages(address, num)
      OBVIOUS
    <2>1. p \in Pages!Pages(address, num - lost)
      BY <1>10
    <2> QED
      BY <1>0, <1>4, <2>1 DEF Pages!Pages
  <1>12. \A i \in G : a[i] \in Nat
    BY <1>5
  <1>g. Grows(f, g, G, a)
    <2>1. PutAt(f, g, G, a)
      BY <1>3 DEF PutAt
    <2>2. Apart(G, a)
      BY <1>9 DEF Apart
    <2>3. Outside(f, G, a)
      BY <1>11 DEF Outside
    <2> QED
      BY <1>12, <2>1, <2>2, <2>3 DEF Grows
  <1>13. g \in Lists /\ Separate(g) /\ Covered(g) = Covered(f) \cup Pieces(G, a)
    BY <1>6, <1>g, Grown
  <1>14. Pieces(G, a) = Pages!Pages(address, num - lost)
    BY <1>10 DEF Pieces
  <1> QED
    BY <1>13, <1>14 DEF g

PagesInv ==
  /\ Pages!TypeOK /\ Pages!IsFiniteSet(given) /\ taken \subseteq given
  /\ Covered(free) \subseteq given
  /\ Separate(free) /\ Covered(free) \cap taken = {}
  /\ Pages!Cardinality(taken) = handed
  /\ ~broken => Pages!Cardinality(given \ (Covered(free) \cup taken)) = emptyCalls

LEMMA PagesAre ==
  ASSUME NEW a \in Int, NEW n \in Int
  PROVE  \A p : p \in Pages!Pages(a, n) <=> p \in Int /\ a <= p /\ p < a + n
  BY DEF Pages!Pages

LEMMA PInit == Pages!PageAssumption /\ Pages!Init => PagesInv
  <1> SUFFICES ASSUME Pages!PageAssumption, Pages!Init PROVE PagesInv
    OBVIOUS
  <1>1. \A i \in Pages!Orders : free[i] = <<>>
    BY DEF Pages!Init
  <1>2. Covered(free) = {}
    <2>1. ASSUME NEW p, p \in Covered(free) PROVE FALSE
      <3>1. PICK i \in Pages!Orders : \E k \in 1..Len(free[i]) : p \in Span(free, i, k)
        BY <2>1, CoveredIs
      <3>2. Len(free[i]) = 0
        BY <1>1
      <3> QED
        BY <3>1, <3>2
    <2> QED
      BY <2>1
  <1>3. Separate(free)
    <2>1. \A i \in Pages!Orders : Len(free[i]) = 0
      BY <1>1
    <2> QED
      BY <2>1 DEF Separate
  <1>4. Pages!LargestRequest \in Nat
    BY OrdersAre, Powers DEF Pages!LargestRequest, Pages!Orders
  <1>5. Pages!TypeOK
    <2>1. free \in [Pages!Orders -> Seq(Nat)]
      BY DEF Pages!Init
    <2>2. request \in 0..Pages!LargestRequest /\ result \in Nat \union {-1} /\ broken \in BOOLEAN
      <3>1. request = 0 /\ result = 0
        BY DEF Pages!Init
      <3>2. request \in 0..Pages!LargestRequest /\ result \in Nat \union {-1}
        BY <1>4, <3>1
      <3>3. broken \in BOOLEAN
        BY Zenon DEF Pages!Init
      <3> QED
        BY <3>2, <3>3
    <2>3. given \subseteq Nat /\ taken \subseteq Nat /\ handed \in Nat /\ emptyCalls \in Nat
      BY DEF Pages!Init
    <2> QED
      BY <2>1, <2>2, <2>3 DEF Pages!TypeOK
  <1> QED
    BY PagesCounting, <1>2, <1>3, <1>5, FS_EmptySet DEF Pages!Init, PagesInv

LEMMA AddKeeps ==
  ASSUME Pages!PageAssumption, PagesInv, NEW order \in Nat, NEW address \in Nat, Pages!Add(order, address)
  PROVE  PagesInv'
  <1> DEFINE new == Pages!Pages(address, Pages!mul2[order])
  <1>1. /\ ~broken /\ order <= MaxOrder /\ new \cap given = {} /\ given' = given \cup new
        /\ request' = request /\ result' = result /\ taken' = taken /\ handed' = handed
        /\ emptyCalls' = emptyCalls
    BY DEF Pages!Add
  <1>2. order \in 0..MaxOrder /\ Pages!mul2[order] \in Nat
    BY <1>1, OrdersAre, Powers
  <1>3. Pages!IsFiniteSet(new) /\ new \subseteq Nat
    <2>1. Pages!IsFiniteSet(new)
      BY PagesCounting, <1>2, FS_Interval DEF Pages!Pages
    <2> QED
      BY <1>2, <2>1, PagesAre
  <1>4. Pages!IsFiniteSet(given') /\ given' \subseteq Nat
    BY PagesCounting, <1>1, <1>3, FS_Union DEF PagesInv, Pages!TypeOK
  <1>5. CASE order \in Pages!Orders
    <2>1. free' = [free EXCEPT ![order] = Append(free[order], address)] /\ broken' = broken
      BY <1>5 DEF Pages!Add
    <2> DEFINE a == [i \in {order} |-> address]
    <2>2. free \in Lists /\ Separate(free)
      BY DEF PagesInv, Pages!TypeOK, Lists
    <2>3. Grows(free, free', {order}, a)
      <3>1. /\ DOMAIN free' = Pages!Orders /\ free' = [i \in DOMAIN free' |-> free'[i]]
            /\ \A i \in Pages!Orders : free'[i] = IF i \in {order} THEN Append(free[i], a[i]) ELSE free[i]
        BY <1>5, <2>1, <2>2 DEF Lists
      <3>2. \A i \in {order} : \A p \in Pages!Pages(a[i], Pages!mul2[i]) : p \notin Covered(free)
        BY <1>1 DEF PagesInv
      <3>3. \A i, j \in {order} : \A p \in Pages!Pages(a[i], Pages!mul2[i]) : p \in Pages!Pages(a[j], Pages!mul2[j]) => i = j
        OBVIOUS
      <3>4. \A i \in {order} : a[i] \in Nat
        OBVIOUS
      <3> QED
        BY <2>2, <3>1, <3>2, <3>3, <3>4, Zenon DEF Grows, PutAt, Apart, Outside
    <2>4. /\ free' \in Lists /\ Separate(free')
          /\ Covered(free') = Covered(free) \cup Pieces({order}, a)
      BY <1>5, <2>2, <2>3, Grown
    <2>5. Pieces({order}, a) = new
      BY DEF Pieces
    <2>6. Covered(free') = Covered(free) \cup new
      BY <2>4, <2>5
    <2> HIDE DEF new, a
    <2>7. given' \ (Covered(free') \cup taken') = given \ (Covered(free) \cup taken)
      BY <1>1, <2>6 DEF PagesInv
    <2>8. Pages!TypeOK'
      BY <1>1, <1>4, <2>1, <2>4 DEF PagesInv, Pages!TypeOK, Lists
    <2>9. Covered(free') \subseteq given' /\ Covered(free') \cap taken' = {} /\ taken' \subseteq given'
      BY <1>1, <2>6 DEF PagesInv
    <2>10. Pages!Cardinality(taken') = handed' /\ (~broken' => Pages!Cardinality(given' \ (Covered(free') \cup taken')) = emptyCalls')
      BY <1>1, <2>1, <2>7 DEF PagesInv
    <2> QED
      BY <1>4, <2>4, <2>8, <2>9, <2>10 DEF PagesInv
  <1>6. CASE order \notin Pages!Orders
    <2>1. free' = free /\ broken' = TRUE
      BY <1>6 DEF Pages!Add
    <2> HIDE DEF new
    <2>2. Pages!TypeOK'
      BY <1>1, <1>4, <2>1 DEF PagesInv, Pages!TypeOK
    <2> QED
      BY <1>1, <1>4, <2>1, <2>2 DEF PagesInv
  <1> QED
    BY <1>5, <1>6

LEMMA RequestKeeps ==
  ASSUME Pages!PageAssumption, PagesInv, NEW num \in 0..Pages!LargestRequest, Pages!GetPages(num)
  PROVE  PagesInv'
  <1> DEFINE i       == Pages!Min(Pages!Candidates(num))
             address == Head(free[i])
             popped  == [free EXCEPT ![i] = Tail(free[i])]
  <1>1. /\ ~broken /\ Pages!Candidates(num) # {}
        /\ free' = Pages!RestBlocks(popped, address + num, i, Pages!mul2[i] - num)
        /\ result' = address /\ taken' = taken \cup Pages!Pages(address, num)
        /\ request' = num /\ handed' = handed + num
        /\ emptyCalls' = (IF num = 0 THEN emptyCalls + 1 ELSE emptyCalls)
        /\ broken' = broken /\ given' = given
    BY DEF Pages!GetPages
  <1>2. /\ num \in Nat /\ Pages!TargetOrder(num) \in 0..MaxOrder /\ num < Pages!mul2[Pages!TargetOrder(num)]
        /\ MaxOrder \in Nat
    BY Rounds, OrdersAre
  <1>3. Pages!Candidates(num) \in SUBSET Nat
    BY <1>2 DEF Pages!Candidates
  <1>4. i \in Pages!Candidates(num)
    BY <1>1, <1>3, MinIsLeast
  <1> HIDE DEF i
  <1>5. i \in Pages!Orders /\ i \in 0..MaxOrder /\ Pages!TargetOrder(num) <= i /\ free[i] # <<>>
    BY <1>2, <1>4 DEF Pages!Candidates, Pages!Orders
  <1>6. Pages!mul2[i] \in Nat /\ num < Pages!mul2[i]
    <2>1. Pages!mul2[Pages!TargetOrder(num)] <= Pages!mul2[i]
      BY <1>2, <1>5, PowersGrow
    <2>2. Pages!mul2[i] \in Nat /\ Pages!mul2[Pages!TargetOrder(num)] \in Nat
      BY <1>2, <1>5, Powers
    <2> QED
      BY <1>2, <2>1, <2>2
  <1>7. free \in Lists /\ Separate(free)
    BY DEF PagesInv, Pages!TypeOK, Lists
  <1>8. /\ popped \in Lists /\ Separate(popped) /\ 1 \in 1..Len(free[i]) /\ free[i][1] \in Nat
        /\ address = free[i][1] /\ Covered(popped) = Covered(free) \ Span(free, i, 1)
    BY <1>5, <1>7, Popped
  <1>9. Span(free, i, 1) = Pages!Pages(address, Pages!mul2[i]) /\ address \in Nat
    BY <1>8 DEF Span
  <1> HIDE DEF popped, address
  <1>10. ASSUME NEW p
         PROVE  /\ p \in Pages!Pages(address, Pages!mul2[i]) <=> p \in Int /\ address <= p /\ p < address + Pages!mul2[i]
                /\ p \in Pages!Pages(address, num) <=> p \in Int /\ address <= p /\ p < address + num
                /\ p \in Pages!Pages(address + num, Pages!mul2[i] - num) <=>
                     p \in Int /\ address + num <= p /\ p < address + Pages!mul2[i]
    BY <1>2, <1>6, <1>9 DEF Pages!Pages
  <1>11. \A p \in Pages!Pages(address + num, Pages!mul2[i] - num) : p \notin Covered(popped)
    BY <1>2, <1>6, <1>8, <1>9, <1>10
  <1> DEFINE lost == IF Pages!mul2[i] - num = Pages!mul2[i] THEN 1 ELSE 0
  <1>12. /\ free' \in Lists /\ Separate(free')
         /\ Covered(free') = Covered(popped) \cup Pages!Pages(address + num, Pages!mul2[i] - num - lost)
    <2>1. address + num \in Nat /\ Pages!mul2[i] - num \in 0..Pages!mul2[i]
      BY <1>2, <1>6, <1>9
    <2>2. LET g == Pages!RestBlocks(popped, address + num, i, Pages!mul2[i] - num)
          IN  /\ g \in Lists /\ Separate(g)
              /\ Covered(g) = Covered(popped) \cup Pages!Pages(address + num, Pages!mul2[i] - num - lost)
      BY <1>5, <1>8, <1>11, <2>1, Rest
    <2> HIDE DEF lost
    <2>3. free' = Pages!RestBlocks(popped, address + num, i, Pages!mul2[i] - num)
      BY <1>1
    <2> QED
      BY ONLY <2>2, <2>3
  <1>13. lost = IF num = 0 THEN 1 ELSE 0
    BY <1>2, <1>6
  <1> HIDE DEF lost
  <1>14. ASSUME NEW p
         PROVE  p \in Pages!Pages(address + num, Pages!mul2[i] - num - lost) <=>
                  p \in Int /\ address + num <= p /\ p < address + Pages!mul2[i] - lost
    BY <1>2, <1>6, <1>9, <1>13 DEF Pages!Pages
  <1>15. \A p : p \in Pages!Pages(address, Pages!mul2[i]) => p \in Covered(free)
    BY <1>5, <1>8, <1>9, CoveredIs
  <1>16. \A p : p \in Covered(free) => p \in given /\ p \notin taken /\ p \in Nat
    BY DEF PagesInv, Pages!TypeOK
  <1>17. ASSUME NEW p
         PROVE  /\ p \in Covered(free') <=>
                     \/ p \in Covered(free) /\ p \notin Pages!Pages(address, Pages!mul2[i])
                     \/ p \in Pages!Pages(address + num, Pages!mul2[i] - num - lost)
                /\ p \in taken' <=> p \in taken \/ p \in Pages!Pages(address, num)
    BY <1>1, <1>8, <1>9, <1>12
  <1>18. ASSUME NEW p \in Pages!Pages(address, num) PROVE p \in Pages!Pages(address, Pages!mul2[i]) /\ p \notin taken /\ p \in given
    <2>1. p \in Pages!Pages(address, Pages!mul2[i])
      BY <1>2, <1>6, <1>9, <1>10
    <2> QED
      BY <1>15, <1>16, <2>1
  <1>19. ASSUME NEW p \in Pages!Pages(address + num, Pages!mul2[i] - num - lost)
         PROVE  p \in Pages!Pages(address, Pages!mul2[i]) /\ p \notin Pages!Pages(address, num)
    BY <1>2, <1>6, <1>9, <1>10, <1>13, <1>14
  <1>20. taken' \subseteq given' /\ Covered(free') \subseteq given' /\ Covered(free') \cap taken' = {}
    <2>1. taken \subseteq given
      BY DEF PagesInv
    <2>2. \A p \in taken' : p \in given
      BY <1>17, <1>18, <2>1
    <2>3. \A p \in Covered(free') : p \in given
      BY <1>15, <1>16, <1>17, <1>19
    <2>4. \A p \in Covered(free') : p \notin taken'
      BY <1>15, <1>16, <1>17, <1>18, <1>19
    <2> QED
      BY <1>1, <2>2, <2>3, <2>4
  <1>21. Pages!Cardinality(taken') = handed'
    <2>a. taken \in SUBSET given /\ Pages!IsFiniteSet(given) /\ Pages!Cardinality(taken) = handed /\ handed \in Nat
      BY DEF PagesInv, Pages!TypeOK
    <2>1. Pages!IsFiniteSet(taken) /\ Pages!Cardinality(taken) = handed /\ handed \in Nat
      BY PagesCounting, <2>a, FS_Subset
    <2>2. Pages!IsFiniteSet(Pages!Pages(address, num)) /\ Pages!Cardinality(Pages!Pages(address, num)) = num
      <3> DEFINE top == address + num - 1
      <3>1. address \in Int /\ top \in Int /\ (IF address > top THEN 0 ELSE top - address + 1) = num
        BY <1>2, <1>9
      <3>2. Pages!Pages(address, num) = address..top
        BY DEF Pages!Pages
      <3> HIDE DEF top
      <3> QED
        BY PagesCounting, <3>1, <3>2, FS_Interval
    <2>3. taken \cap Pages!Pages(address, num) = {}
      BY <1>18
    <2>4. Pages!Cardinality(taken \cup Pages!Pages(address, num)) = handed + num
      <3>1. Pages!Cardinality(taken \cup Pages!Pages(address, num))
              = Pages!Cardinality(taken) + Pages!Cardinality(Pages!Pages(address, num)) - Pages!Cardinality(taken \cap Pages!Pages(address, num))
        BY PagesCounting, <2>1, <2>2, FS_Union
      <3>2. Pages!Cardinality(taken \cap Pages!Pages(address, num)) = 0
        BY PagesCounting, <2>3, FS_EmptySet
      <3> QED
        BY <1>2, <2>1, <2>2, <3>1, <3>2
    <2> QED
      BY <1>1, <1>2, <2>1, <2>4
  <1>22. Pages!Cardinality(given' \ (Covered(free') \cup taken')) = emptyCalls'
    <2> DEFINE L == given \ (Covered(free) \cup taken)
    <2>1. Pages!IsFiniteSet(L) /\ Pages!Cardinality(L) = emptyCalls /\ emptyCalls \in Nat
      BY PagesCounting, <1>1, FS_Subset DEF PagesInv, Pages!TypeOK
    <2>2. CASE num # 0
      <3>1. ASSUME NEW p \in Pages!Pages(address, Pages!mul2[i]) PROVE p \in taken' \/ p \in Covered(free')
        BY <1>2, <1>6, <1>9, <1>10, <1>13, <1>14, <1>17, <2>2
      <3>2. given' \ (Covered(free') \cup taken') = L
        BY <1>1, <1>15, <1>17, <1>18, <1>19, <3>1
      <3> QED
        BY <1>1, <2>1, <2>2, <3>2
    <2>3. CASE num = 0
      <3> DEFINE q == address + Pages!mul2[i] - 1
      <3>1. q \in Pages!Pages(address, Pages!mul2[i]) /\ q \notin Pages!Pages(address + num, Pages!mul2[i] - num - lost) /\ q \notin Pages!Pages(address, num)
        BY <1>2, <1>6, <1>9, <1>10, <1>13, <1>14, <2>3
      <3>2. ASSUME NEW p \in Pages!Pages(address, Pages!mul2[i]), p # q PROVE p \in Covered(free')
        <4>1. p \in Pages!Pages(address + num, Pages!mul2[i] - num - lost)
          BY <1>2, <1>6, <1>9, <1>10, <1>13, <1>14, <2>3, <3>2
        <4> QED
          BY <1>17, <4>1
      <3> HIDE DEF q
      <3>3. q \in Covered(free) /\ q \in given /\ q \notin taken /\ q \notin Covered(free') /\ q \notin taken'
        BY <1>15, <1>16, <1>17, <3>1
      <3>4. given' \ (Covered(free') \cup taken') = L \cup {q}
        BY <1>1, <1>15, <1>17, <1>18, <1>19, <3>2, <3>3
      <3>5. q \notin L
        BY <3>3
      <3> HIDE DEF L
      <3>6. Pages!Cardinality(L \cup {q}) = Pages!Cardinality(L) + 1
        BY PagesCounting, <2>1, <3>5, FS_AddElement
      <3> QED
        BY <1>1, <2>1, <2>3, <3>4, <3>6
    <2> QED
      BY <2>2, <2>3
  <1>23. Pages!TypeOK'
    <2>1. taken' \subseteq Nat /\ free' \in [Pages!Orders -> Seq(Nat)]
      BY <1>1, <1>12, <1>20 DEF PagesInv, Pages!TypeOK, Lists
    <2>2. handed' \in Nat /\ emptyCalls' \in Nat
      BY <1>1, <1>2 DEF PagesInv, Pages!TypeOK
    <2> QED
      BY <1>1, <1>9, <2>1, <2>2 DEF PagesInv, Pages!TypeOK
  <1> QED
    BY <1>1, <1>12, <1>20, <1>21, <1>22, <1>23 DEF PagesInv

LEMMA PNext == Pages!PageAssumption /\ PagesInv /\ [Pages!Next]_(Pages!vars) => PagesInv'
  <1> SUFFICES ASSUME Pages!PageAssumption, PagesInv, [Pages!Next]_(Pages!vars) PROVE PagesInv'
    OBVIOUS
  <1>1. ASSUME NEW r \in Regions, Pages!Add(r[1], r[2]) PROVE PagesInv'
    <2>1. r[1] \in Nat /\ r[2] \in Nat
      BY DEF Pages!PageAssumption
    <2> QED
      BY <1>1, <2>1, AddKeeps
  <1>2. ASSUME NEW num \in 0..Pages!LargestRequest, Pages!GetPages(num) PROVE PagesInv'
    BY <1>2, RequestKeeps
  <1>3. ASSUME NEW num \in 0..Pages!LargestRequest, Pages!GetPagesFails(num) PROVE PagesInv'
    <2>1. /\ request' = num /\ result' = -1 /\ free' = free /\ broken' = broken
          /\ given' = given
          /\ taken' = taken /\ handed' = handed /\ emptyCalls' = emptyCalls
      BY <1>3 DEF Pages!GetPagesFails
    <2>2. Pages!TypeOK'
      BY <2>1 DEF PagesInv, Pages!TypeOK
    <2> QED
      BY <2>1, <2>2 DEF PagesInv
  <1>4. CASE UNCHANGED Pages!vars
    BY <1>4 DEF Pages!vars, PagesInv, Pages!TypeOK
  <1> QED
    BY <1>1, <1>2, <1>3, <1>4 DEF Pages!Next

LEMMA PImplies == Pages!PageAssumption /\ PagesInv => Pages!Inv
  <1> SUFFICES ASSUME Pages!PageAssumption, PagesInv PROVE Pages!Inv
    OBVIOUS
  <1>1. ASSUME NEW b PROVE b \in Pages!Blocks <=> \E i \in Pages!Orders : \E k \in 1..Len(free[i]) : b = <<i, k>>
    <2>1. \A i \in Pages!Orders : DOMAIN free[i] = 1..Len(free[i])
      BY DEF PagesInv, Pages!TypeOK
    <2>2. b \in Pages!Blocks <=> \E i \in Pages!Orders : b \in {i} \X DOMAIN free[i]
      BY DEF Pages!Blocks
    <2> QED
      BY <2>1, <2>2
  <1>2. ASSUME NEW i, NEW k PROVE Pages!BlockPages(<<i, k>>) = Span(free, i, k)
    BY DEF Pages!BlockPages, Span
  <1>3. Pages!FreePages = Covered(free)
    <2>1. ASSUME NEW p, p \in Pages!FreePages PROVE p \in Covered(free)
      <3>1. PICK b \in Pages!Blocks : p \in Pages!BlockPages(b)
        BY <2>1 DEF Pages!FreePages
      <3>2. PICK i \in Pages!Orders : \E k \in 1..Len(free[i]) : b = <<i, k>>
        BY <1>1
      <3>3. PICK k \in 1..Len(free[i]) : b = <<i, k>>
        BY <3>2
      <3>4. p \in Span(free, i, k)
        BY <1>2, <3>1, <3>3
      <3> QED
        BY <3>4, CoveredIs
    <2>2. ASSUME NEW p, p \in Covered(free) PROVE p \in Pages!FreePages
      <3>1. PICK i \in Pages!Orders : \E k \in 1..Len(free[i]) : p \in Span(free, i, k)
        BY <2>2, CoveredIs
      <3>2. PICK k \in 1..Len(free[i]) : p \in Span(free, i, k)
        BY <3>1
      <3>3. <<i, k>> \in Pages!Blocks /\ p \in Pages!BlockPages(<<i, k>>)
        BY <1>1, <1>2, <3>2
      <3> QED
        BY <3>3 DEF Pages!FreePages
    <2> QED
      BY <2>1, <2>2
  <1>4. ASSUME NEW a \in Pages!Blocks, NEW b \in Pages!Blocks, a # b PROVE Pages!BlockPages(a) \cap Pages!BlockPages(b) = {}
    <2>1. PICK i \in Pages!Orders : \E k \in 1..Len(free[i]) : a = <<i, k>>
      BY <1>1
    <2>2. PICK k \in 1..Len(free[i]) : a = <<i, k>>
      BY <2>1
    <2>3. PICK j \in Pages!Orders : \E l \in 1..Len(free[j]) : b = <<j, l>>
      BY <1>1
    <2>4. PICK l \in 1..Len(free[j]) : b = <<j, l>>
      BY <2>3
    <2>5. ASSUME NEW p \in Pages!BlockPages(a), p \in Pages!BlockPages(b) PROVE FALSE
      <3>1. p \in Span(free, i, k) /\ p \in Span(free, j, l)
        BY <1>2, <2>2, <2>4, <2>5
      <3>2. i = j /\ k = l
        BY <3>1 DEF PagesInv, Separate
      <3> QED
        BY <1>4, <2>2, <2>4, <3>2
    <2> QED
      BY <2>5
  <1>5. Pages!NoPageTwice
    BY <1>3, <1>4 DEF Pages!NoPageTwice, PagesInv
  <1>6. Pages!PagesConserved
    BY <1>3 DEF Pages!PagesConserved, PagesInv
  <1> QED
    BY <1>5, <1>6 DEF Pages!Inv, PagesInv

\* A block that a request fails to find is of an order below its rounding.
LEMMA FailsFairly ==
  ASSUME Pages!PageAssumption, Pages!TypeOK, NEW num \in 0..Pages!LargestRequest, Pages!GetPagesFails(num), NEW b \in Pages!Blocks
  PROVE  Pages!mul2[b[1]] <= num
  <1>1. PICK i \in Pages!Orders : b \in {i} \X DOMAIN free[i]
    BY DEF Pages!Blocks
  <1>2. b[1] = i /\ DOMAIN free[i] # {}
    BY <1>1
  <1>3. free[i] # <<>>
    BY <1>2
  <1>4. i \notin Pages!Candidates(num)
    BY DEF Pages!GetPagesFails
  <1>5. /\ Pages!TargetOrder(num) \in 0..MaxOrder /\ MaxOrder \in Nat
        /\ \A k \in 0..MaxOrder : k < Pages!TargetOrder(num) => Pages!mul2[k] <= num
    BY Rounds, OrdersAre
  <1>6. i \in 0..MaxOrder /\ i < Pages!TargetOrder(num)
    BY <1>3, <1>4, <1>5 DEF Pages!Candidates, Pages!Orders
  <1> QED
    BY <1>2, <1>5, <1>6

\* lec23.cc: for blocks of any number of orders, however they are added and
\* split: no page is in two free blocks, free and handed out, or handed out
\* twice; and none is lost but the one that each get_pages(0) drops.
THEOREM PagesKept == Pages!PageAssumption => (Pages!Spec => []PagesSafe)
  <1> SUFFICES ASSUME Pages!PageAssumption PROVE Pages!Spec => []Pages!Inv
    BY DEF PagesSafe
  <1> QED
    BY PInit, PNext, PImplies, PTL DEF Pages!Spec

\* lec23.cc: get_pages fails only when every free block is at most as large as
\* the request.
THEOREM FailuresFair == Pages!PageAssumption => (Pages!Spec => PagesFailOnlyWithoutLarger)
  <1> SUFFICES ASSUME Pages!PageAssumption PROVE Pages!Spec => Pages!FailsOnlyWithoutLarger
    BY DEF PagesFailOnlyWithoutLarger
  <1>1. PagesInv /\ [Pages!Next]_(Pages!vars) =>
          [\A num \in 0..Pages!LargestRequest : Pages!GetPagesFails(num) => \A b \in Pages!Blocks : Pages!mul2[b[1]] <= num]_(Pages!vars)
    BY FailsFairly DEF PagesInv
  <1> QED
    BY PInit, PNext, <1>1, PTL DEF Pages!Spec, Pages!FailsOnlyWithoutLarger

(* Frames                                                                  *)

\* The sum of bytes is a number: the recursive function in Sum has a value.
LEMMA SumIsNat ==
  ASSUME NEW bytes \in Seq(Nat)
  PROVE  Frame!Sum(bytes) \in Nat
  <1> DEFINE N == Len(bytes)
             part(i) == bytes[i] * IF i % 2 = 1 THEN 1 ELSE 256
             step == [m \in Nat |-> [v \in Nat |-> IF m < N THEN v + part(m + 1) ELSE v]]
             f == CHOOSE h : h = [i \in 0..N |-> IF i = 0 THEN 0 ELSE h[i - 1] + part(i)]
  <1>1. N \in Nat /\ \A i \in 1..N : part(i) \in Nat
    OBVIOUS
  <1>8. Frame!Sum(bytes) = f[N]
    BY DEF Frame!Sum
  <1> HIDE DEF part, f
  <1>2. step \in [Nat -> [Nat -> Nat]]
    <2>1. ASSUME NEW m \in Nat, NEW v \in Nat
          PROVE  (IF m < N THEN v + part(m + 1) ELSE v) \in Nat
      <3>1. CASE m < N
        <4>1. m + 1 \in 1..N
          BY <1>1, <3>1
        <4>2. part(m + 1) \in Nat
          BY <1>1, <4>1
        <4> QED
          BY <3>1, <4>2
      <3>2. CASE ~(m < N)
        BY <3>2
      <3> QED
        BY <3>1, <3>2
    <2> QED
      BY <2>1
  <1>3. PICK g : Starts(g, N, Nat, 0, step)
    BY <1>1, <1>2, Iterated
  <1>4. /\ g \in [0..N -> Nat] /\ g[0] = 0
        /\ \A m \in 0..(N - 1) : g[m + 1] = step[m][g[m]]
    BY <1>3 DEF Starts
  <1>5. ASSUME NEW i \in 0..N
        PROVE  g[i] = IF i = 0 THEN 0 ELSE g[i - 1] + part(i)
    <2>1. CASE i = 0
      BY <1>4, <2>1
    <2>2. CASE i # 0
      <3>1. i - 1 \in 0..(N - 1) /\ i - 1 \in Nat /\ i - 1 < N /\ (i - 1) + 1 = i
        BY <1>1, <2>2
      <3>2. g[i] = step[i - 1][g[i - 1]]
        BY <1>4, <3>1
      <3>3. i - 1 \in 0..N
        BY <3>1
      <3>4. g[i - 1] \in Nat
        BY <1>4, <3>3
      <3>5. step[i - 1][g[i - 1]] = g[i - 1] + part(i)
        BY <3>1, <3>4
      <3> QED
        BY <2>2, <3>2, <3>5
    <2> QED
      BY <2>1, <2>2
  <1>6. g = [i \in 0..N |-> IF i = 0 THEN 0 ELSE g[i - 1] + part(i)]
    BY <1>4, <1>5
  <1>7. f = [i \in 0..N |-> IF i = 0 THEN 0 ELSE f[i - 1] + part(i)]
    BY <1>6 DEF f
  <1>9. \A i \in 0..N : f[i] = IF i = 0 THEN 0 ELSE f[i - 1] + part(i)
    BY <1>7
  <1> DEFINE Bad == {i \in 0..N : f[i] \notin Nat}
  <1>10. Bad = {}
    <2>1. SUFFICES ASSUME Bad # {} PROVE FALSE
      OBVIOUS
    <2>2. Bad \in SUBSET Nat
      BY <1>1
    <2>3. PICK i \in Bad : \A y \in Bad : i <= y
      BY <2>1, <2>2, LeastNumber
    <2>4. i \in 0..N /\ f[i] \notin Nat
      OBVIOUS
    <2>5. i # 0
      BY <1>9, <2>4
    <2>6. i - 1 \in 0..N /\ i \in 1..N /\ ~(i <= i - 1)
      BY <1>1, <2>4, <2>5
    <2>7. f[i - 1] \in Nat
      BY <2>3, <2>6
    <2>8. f[i] = f[i - 1] + part(i)
      BY <1>9, <2>4, <2>5
    <2>9. part(i) \in Nat
      BY <1>1, <2>6
    <2> QED
      BY <2>4, <2>7, <2>8, <2>9
  <1>11. N \in 0..N
    BY <1>1
  <1> QED
    BY <1>8, <1>10, <1>11

\* What the headers hold, and the checksums of a frame.
Heads == [dest_mac : Nat, src_mac : Nat, length : Nat]
Ips == [dest_ip : Nat, src_ip : Nat, type : Nat, packet_id : Nat, total_length : Nat,
        check_sum : Nat]
Udps == [dest_port : Nat, src_port : Nat, length : Nat, check_sum : Nat]
Crcs == Ips \X Udps \X Seq(Nat) \X Nat

\* A frame as send makes it: its checksums are right, and its length is that
\* of the data.
Whole(s) ==
  /\ s \in [head : Heads, ip : Ips, udp : Udps, data : Seq(Nat), crc : Crcs]
  /\ s.crc = Frame!computeCRC(s.ip, s.udp, s.data, s.head.length)
  /\ s.udp.length = Len(s.data) /\ s.ip.type = Frame!UDP_TYPE
  /\ Frame!is_check_sum_complete(Frame!IpSum(s.ip), s.ip.check_sum)
  /\ Frame!is_check_sum_complete(Frame!UdpSum(s.udp, s.data), s.udp.check_sum)

\* What the link did to it: nothing the receiver takes the data from has
\* changed, or the CRC shows it.
Intact(f, s) == f.ip = s.ip /\ f.udp = s.udp /\ f.data = s.data

Broken(f) == Frame!computeCRC(f.ip, f.udp, f.data, f.head.length) # f.crc

OnWire(l) ==
  /\ l = [frame |-> l.frame, sent |-> l.sent]
  /\ Whole(l.sent) /\ (Intact(l.frame, l.sent) \/ Broken(l.frame))

FramesInv ==
  /\ packet_id \in Nat
  /\ \A l \in link : OnWire(l)
  /\ Frame!ReceivedAsSent

-----------------------------------------------------------------------------

\* A checksum is a number, and it is complete for the sum it was added to.
LEMMA CheckSum ==
  ASSUME NEW sum \in Nat
  PROVE  /\ Frame!make_check_sum(sum, 0) \in Nat
         /\ \A c \in Nat : Frame!make_check_sum(sum + c, c) = Frame!make_check_sum(sum, 0)
  <1>1. Frame!make_check_sum(sum, 0) \in Nat
    <2>1. sum - 0 = sum
      OBVIOUS
    <2>2. Frame!make_check_sum(sum, 0) = 65535 - (sum % 65536)
      BY <2>1 DEF Frame!make_check_sum, Frame!W
    <2>3. sum % 65536 \in Int /\ 0 <= sum % 65536 /\ sum % 65536 < 65536
      OBVIOUS
    <2> QED
      BY <2>2, <2>3
  <1>2. ASSUME NEW c \in Nat PROVE Frame!make_check_sum(sum + c, c) = Frame!make_check_sum(sum, 0)
    <2>1. (sum + c) - c = sum - 0
      OBVIOUS
    <2> QED
      BY <2>1 DEF Frame!make_check_sum
  <1> QED
    BY <1>1, <1>2

\* Adding one changes a 16-bit field, and a byte.
LEMMA Changed ==
  ASSUME NEW v \in Nat
  PROVE  (v + 1) % Frame!W # v /\ (v + 1) % 256 # v
  BY DEF Frame!W

LEMMA UdpWhole ==
  ASSUME NEW dest \in Nat, NEW src \in Nat, NEW data \in Seq(Nat), Len(data) < Frame!W
  PROVE  LET udp == Frame!parse_to_udp(dest, src, Len(data), data)
         IN  /\ udp \in Udps /\ udp.length = Len(data)
             /\ Frame!is_check_sum_complete(Frame!UdpSum(udp, data), udp.check_sum)
  <1> DEFINE udp0 == [dest_port |-> dest, src_port |-> src, length |-> Len(data), check_sum |-> 0]
             c == Frame!make_check_sum(Frame!UdpSum(udp0, data), 0)
             udp == Frame!parse_to_udp(dest, src, Len(data), data)
             S == dest + src + Len(data) + Frame!Sum(data)
  <1>1. Frame!Sum(data) \in Nat /\ Len(data) \in Nat
    BY SumIsNat
  <1>2. S \in Nat
    BY <1>1
  <1>3. Frame!UdpSum(udp0, data) = S
    BY <1>1 DEF Frame!UdpSum
  <1>4. c \in Nat /\ \A d \in Nat : Frame!make_check_sum(S + d, d) = c
    BY <1>2, <1>3, CheckSum
  <1>5. udp = [dest_port |-> dest, src_port |-> src, length |-> Len(data), check_sum |-> c]
    <2> DEFINE length == Len(data) % Frame!W
               udp1 == [dest_port |-> dest, src_port |-> src, length |-> length, check_sum |-> 0]
               part == SubSeq(data, 1, length)
    <2>1. length = Len(data)
      BY <1>1 DEF Frame!W
    <2>2. part = data
      BY <2>1
    <2>3. udp = [udp1 EXCEPT !.check_sum = Frame!make_check_sum(Frame!UdpSum(udp1, part), 0)]
      BY DEF Frame!parse_to_udp
    <2> HIDE DEF length, part
    <2> QED
      BY <2>1, <2>2, <2>3
  <1> HIDE DEF c, udp
  <1>6. Frame!UdpSum(udp, data) = S + c
    BY <1>1, <1>4, <1>5 DEF Frame!UdpSum
  <1>7. Frame!is_check_sum_complete(Frame!UdpSum(udp, data), udp.check_sum)
    BY <1>4, <1>5, <1>6 DEF Frame!is_check_sum_complete
  <1>8. udp \in Udps /\ udp.length = Len(data)
    BY <1>1, <1>4, <1>5 DEF Udps
  <1> QED
    BY <1>7, <1>8 DEF udp

LEMMA IpWhole ==
  ASSUME packet_id \in Nat, NEW dest \in Nat, NEW src \in Nat, NEW n \in Nat
  PROVE  LET ip == Frame!parse_to_ip(dest, src, n)
         IN  /\ ip \in Ips /\ ip.type = Frame!UDP_TYPE
             /\ Frame!is_check_sum_complete(Frame!IpSum(ip), ip.check_sum)
  <1> DEFINE k == packet_id % Frame!W
             t == n % Frame!W
             ip0 == [dest_ip |-> dest, src_ip |-> src, type |-> Frame!UDP_TYPE,
                     packet_id |-> k, total_length |-> t, check_sum |-> 0]
             c == Frame!make_check_sum(Frame!IpSum(ip0), 0)
             ip == Frame!parse_to_ip(dest, src, n)
             S == (4 * 16 + 20) + t + k + (64 + 256 * 17) + src + dest
  <1>1. k \in Nat /\ t \in Nat
    BY DEF Frame!W
  <1>2. ip = [dest_ip |-> dest, src_ip |-> src, type |-> Frame!UDP_TYPE,
              packet_id |-> k, total_length |-> t, check_sum |-> c]
    BY DEF Frame!parse_to_ip
  <1> HIDE DEF k, t
  <1>3. S \in Nat
    BY <1>1
  <1>4. Frame!IpSum(ip0) = S
    BY <1>1 DEF Frame!IpSum, Frame!UDP_TYPE
  <1>9. c = Frame!make_check_sum(S, 0)
    BY <1>4
  <1> HIDE DEF c, S
  <1>5. c \in Nat /\ \A d \in Nat : Frame!make_check_sum(S + d, d) = c
    BY <1>3, <1>9, CheckSum
  <1> HIDE DEF ip
  <1>6. Frame!IpSum(ip) = S + c
    BY <1>1, <1>2, <1>5 DEF S, Frame!IpSum, Frame!UDP_TYPE
  <1>7. Frame!is_check_sum_complete(Frame!IpSum(ip), ip.check_sum)
    BY <1>2, <1>5, <1>6 DEF Frame!is_check_sum_complete
  <1>8. ip \in Ips /\ ip.type = Frame!UDP_TYPE
    BY <1>1, <1>2, <1>5 DEF Ips, Frame!UDP_TYPE
  <1> QED
    BY <1>7, <1>8 DEF ip

\* What fits the buffer has a length of 16 bits.
LEMMA FitsSixteenBits ==
  ASSUME NEW x \in Nat, NEW b \in Nat, b < 65536, 14 + 20 + 8 + x + 4 <= b
  PROVE  20 + 8 + x < 65536 /\ (20 + 8 + x) % 65536 = 20 + 8 + x /\ x < 65536
  OBVIOUS

LEMMA FrameBounds ==
  ASSUME Frame!FrameAssumption, NEW data \in Data
  PROVE  BufferSize \in Nat /\ BufferSize < 65536 /\ data \in Seq(Nat) /\ Len(data) \in Nat
  BY DEF Frame!FrameAssumption, Frame!W

\* send makes whole frames.
LEMMA SendsWhole ==
  ASSUME Frame!FrameAssumption, packet_id \in Nat, NEW data \in Data, NEW dest \in Hosts,
         NEW src \in Hosts, NEW dest_mac \in Frame!Macs, Frame!Written(data) <= BufferSize
  PROVE  Whole(Frame!send(data, dest, src, dest_mac, src.mac))
  <1> DEFINE n == Frame!IpLength + Frame!UdpLength + Len(data)
             udp == Frame!parse_to_udp(dest.port, src.port, Len(data), data)
             ip == Frame!parse_to_ip(dest.ip, src.ip, Len(data) + Frame!IpLength + Frame!UdpLength)
             s == Frame!send(data, dest, src, dest_mac, src.mac)
  <1>1. /\ dest.ip \in Nat /\ dest.port \in Nat /\ src.ip \in Nat /\ src.port \in Nat
        /\ src.mac \in Nat /\ dest_mac \in Nat /\ data \in Seq(Nat)
    BY FrameBounds DEF Frame!FrameAssumption, Frame!Macs
  <1>2. /\ n \in Nat /\ Len(data) + Frame!IpLength + Frame!UdpLength \in Nat
        /\ n < Frame!W /\ n % Frame!W = n /\ Len(data) < Frame!W
    <2>1. BufferSize \in Nat /\ BufferSize < 65536 /\ Len(data) \in Nat
      BY FrameBounds
    <2>2. 14 + 20 + 8 + Len(data) + 4 <= BufferSize
      BY DEF Frame!Written, Frame!FrameLength, Frame!IpLength, Frame!UdpLength, Frame!CrcLength
    <2>3. n = 20 + 8 + Len(data) /\ Frame!W = 65536
          /\ Len(data) + Frame!IpLength + Frame!UdpLength = Len(data) + 20 + 8
      BY DEF Frame!IpLength, Frame!UdpLength, Frame!W
    <2> HIDE DEF n
    <2>4. n < 65536 /\ n % 65536 = n /\ Len(data) < 65536
      BY <2>1, <2>2, <2>3, FitsSixteenBits
    <2> QED
      BY <2>1, <2>3, <2>4
  <1>3. /\ udp \in Udps /\ udp.length = Len(data)
        /\ Frame!is_check_sum_complete(Frame!UdpSum(udp, data), udp.check_sum)
    BY <1>1, <1>2, UdpWhole
  <1>4. /\ ip \in Ips /\ ip.type = Frame!UDP_TYPE
        /\ Frame!is_check_sum_complete(Frame!IpSum(ip), ip.check_sum)
    BY <1>1, <1>2, IpWhole
  <1>5. s = [head |-> [dest_mac |-> dest_mac, src_mac |-> src.mac, length |-> n],
             ip |-> ip, udp |-> udp, data |-> data, crc |-> Frame!computeCRC(ip, udp, data, n)]
    BY <1>2 DEF Frame!send, Frame!parse_to_frame
  <1> HIDE DEF udp, ip, n, s
  <1>6. Frame!computeCRC(ip, udp, data, n) \in Crcs
    BY <1>1, <1>2, <1>3, <1>4 DEF Frame!computeCRC, Crcs
  <1>7. [dest_mac |-> dest_mac, src_mac |-> src.mac, length |-> n] \in Heads
    BY <1>1, <1>2 DEF Heads
  <1>8. /\ s.head.length = n /\ s.ip = ip /\ s.udp = udp /\ s.data = data
        /\ s.crc = Frame!computeCRC(ip, udp, data, n)
    BY <1>5
  <1>9. s \in [head : Heads, ip : Ips, udp : Udps, data : Seq(Nat), crc : Crcs]
    BY <1>1, <1>3, <1>4, <1>5, <1>6, <1>7
  <1>10. Whole(s)
    BY <1>3, <1>4, <1>8, <1>9 DEF Whole
  <1> QED
    BY <1>10 DEF s

\* Damage is seen by the CRC, or is to the address of the station alone.
LEMMA DamageShows ==
  ASSUME Frame!FrameAssumption, NEW s, Whole(s), NEW f \in Frame!Damaged(s)
  PROVE  Intact(f, s) \/ Broken(f)
  <1>1. /\ s \in [head : Heads, ip : Ips, udp : Udps, data : Seq(Nat), crc : Crcs]
        /\ s.crc = <<s.ip, s.udp, s.data, s.head.length>>
    BY DEF Whole, Frame!computeCRC
  <1>2. /\ s.ip \in Ips /\ s.udp \in Udps /\ s.head \in Heads /\ s.data \in Seq(Nat)
        /\ s.head.length \in Nat
    BY <1>1 DEF Heads
  <1>3. SUFFICES ASSUME <<f.ip, f.udp, f.data, f.head.length>> = f.crc PROVE Intact(f, s)
    BY DEF Broken, Frame!computeCRC
  <1>4. CASE \E x \in {"dest_ip", "total_length", "check_sum", "type"} :
               f = [s EXCEPT !.ip[x] = (@ + 1) % Frame!W]
    <2>1. PICK x \in {"dest_ip", "total_length", "check_sum", "type"} :
            f = [s EXCEPT !.ip[x] = (@ + 1) % Frame!W]
      BY <1>4
    <2>2. s.ip[x] \in Nat /\ x \in DOMAIN s.ip
      BY <1>2 DEF Ips
    <2>3. f.ip[x] = (s.ip[x] + 1) % Frame!W /\ f.crc = s.crc
      BY <1>1, <2>1, <2>2
    <2>4. f.ip[x] # s.ip[x]
      BY <2>2, <2>3, Changed
    <2>5. f.ip = s.ip
      BY <1>1, <1>3, <2>3
    <2> QED
      BY <2>4, <2>5
  <1>5. CASE \E x \in {"dest_port", "length", "check_sum"} :
               f = [s EXCEPT !.udp[x] = (@ + 1) % Frame!W]
    <2>1. PICK x \in {"dest_port", "length", "check_sum"} :
            f = [s EXCEPT !.udp[x] = (@ + 1) % Frame!W]
      BY <1>5
    <2>2. s.udp[x] \in Nat /\ x \in DOMAIN s.udp
      BY <1>2 DEF Udps
    <2>3. f.udp[x] = (s.udp[x] + 1) % Frame!W /\ f.crc = s.crc
      BY <1>1, <2>1, <2>2
    <2>4. f.udp[x] # s.udp[x]
      BY <2>2, <2>3, Changed
    <2>5. f.udp = s.udp
      BY <1>1, <1>3, <2>3
    <2> QED
      BY <2>4, <2>5
  <1>6. CASE \E i \in 1..Len(s.data) : f = [s EXCEPT !.data[i] = (@ + 1) % 256]
    <2>1. PICK i \in 1..Len(s.data) : f = [s EXCEPT !.data[i] = (@ + 1) % 256]
      BY <1>6
    <2>2. s.data[i] \in Nat /\ i \in DOMAIN s.data
      BY <1>2
    <2>3. f.data[i] = (s.data[i] + 1) % 256 /\ f.crc = s.crc
      BY <1>1, <2>1, <2>2
    <2>4. f.data[i] # s.data[i]
      BY <2>2, <2>3, Changed
    <2>5. f.data = s.data
      BY <1>1, <1>3, <2>3
    <2> QED
      BY <2>4, <2>5
  <1>7. CASE f = [s EXCEPT !.head.length = (@ + 1) % Frame!W]
    <2>1. f.head.length = (s.head.length + 1) % Frame!W /\ f.crc = s.crc
      BY <1>1, <1>2, <1>7 DEF Heads
    <2>2. f.head.length = s.head.length
      BY <1>1, <1>3, <2>1
    <2> QED
      BY <1>2, <2>1, <2>2, Changed
  <1>8. CASE f = [s EXCEPT !.crc = <<>>]
    <2>1. f.crc = <<>>
      BY <1>1, <1>8
    <2> QED
      BY <1>3, <2>1
  <1>9. CASE \E mac \in Frame!Macs : f = [s EXCEPT !.head.dest_mac = mac]
    BY <1>1, <1>9 DEF Intact
  <1> QED
    BY <1>4, <1>5, <1>6, <1>7, <1>8, <1>9 DEF Frame!Damaged

\* A whole frame is received by the host that its addresses name.
LEMMA WholeArrives ==
  ASSUME NEW s, Whole(s), NEW h, NEW max_size \in Nat, s.ip.dest_ip = h.ip,
         s.udp.dest_port = h.port, s.head.dest_mac # h.mac, Len(s.data) <= max_size
  PROVE  Frame!receive(s, h, h.mac, max_size) = "SUCCESS"
  <1>1. Frame!check_frame(s, h.mac) = "SUCCESS"
    BY DEF Frame!check_frame, Whole
  <1>2. Frame!check_ip(s, h.ip) = "SUCCESS"
    BY DEF Frame!check_ip, Whole
  <1>3. Frame!check_udp(s, h.port) = "SUCCESS"
    BY DEF Frame!check_udp, Whole
  <1>4. s.udp.length = Len(s.data) /\ Len(s.data) \in Nat
    BY DEF Whole
  <1> QED
    BY <1>1, <1>2, <1>3, <1>4 DEF Frame!receive

\* What receive returns with SUCCESS passed every check.
LEMMA ReceivedIsIntact ==
  ASSUME NEW f, NEW s, Whole(s), Intact(f, s) \/ Broken(f), NEW h, NEW max_size \in Nat,
         Frame!receive(f, h, h.mac, max_size) = "SUCCESS"
  PROVE  /\ f.data = s.data /\ s.ip.dest_ip = h.ip /\ s.udp.dest_port = h.port
         /\ Len(f.data) <= max_size
  <1>1. /\ Frame!check_frame(f, h.mac) = "SUCCESS" /\ Frame!check_ip(f, h.ip) = "SUCCESS"
        /\ Frame!check_udp(f, h.port) = "SUCCESS" /\ ~(f.udp.length > max_size)
    BY DEF Frame!receive
  <1>2. ~Broken(f)
    BY <1>1 DEF Frame!check_frame, Broken
  <1>3. f.ip = s.ip /\ f.udp = s.udp /\ f.data = s.data
    BY <1>2 DEF Intact
  <1>4. f.ip.dest_ip = h.ip
    BY <1>1 DEF Frame!check_ip
  <1>5. f.udp.dest_port = h.port
    BY <1>1 DEF Frame!check_udp
  <1>6. s.udp.length = Len(s.data) /\ Len(s.data) \in Nat
    BY DEF Whole
  <1> QED
    BY <1>1, <1>3, <1>4, <1>5, <1>6

LEMMA AInit == Frame!Init => FramesInv
  BY DEF Frame!Init, FramesInv, Frame!ReceivedAsSent

LEMMA ANext ==
  ASSUME Frame!FrameAssumption, FramesInv, [Frame!Next]_(Frame!vars)
  PROVE  FramesInv'
  <1>a. packet_id \in Nat /\ (\A l \in link : OnWire(l)) /\ Frame!ReceivedAsSent
    BY DEF FramesInv
  <1>1. CASE Frame!Send
    <2>1. PICK data \in Data, dest \in Hosts, src \in Hosts, dest_mac \in Frame!Macs :
            /\ packet_id' = packet_id + 1
            /\ LET f == Frame!send(data, dest, src, dest_mac, src.mac)
               IN  link' = IF Frame!Written(data) <= BufferSize
                           THEN link \cup {[frame |-> f, sent |-> f]} ELSE link
            /\ UNCHANGED last
      BY <1>1 DEF Frame!Send
    <2> DEFINE f == Frame!send(data, dest, src, dest_mac, src.mac)
    <2>2. Frame!Written(data) <= BufferSize => Whole(f)
      BY <1>a, SendsWhole
    <2>3. link' = IF Frame!Written(data) <= BufferSize
                  THEN link \cup {[frame |-> f, sent |-> f]} ELSE link
      BY <2>1
    <2> HIDE DEF f
    <2>4. Frame!Written(data) <= BufferSize => OnWire([frame |-> f, sent |-> f])
      BY <2>2 DEF OnWire, Intact
    <2>5. \A l \in link' : OnWire(l)
      BY <1>a, <2>3, <2>4
    <2>6. packet_id' \in Nat
      BY <1>a, <2>1
    <2>7. Frame!ReceivedAsSent'
      BY <1>a, <2>1 DEF Frame!ReceivedAsSent
    <2> QED
      BY <2>5, <2>6, <2>7 DEF FramesInv
  <1>2. CASE Frame!Damage
    <2>1. PICK l \in link : l.frame = l.sent /\ \E f \in Frame!Damaged(l.frame) :
            link' = (link \ {l}) \cup {[l EXCEPT !.frame = f]}
      BY <1>2 DEF Frame!Damage
    <2>2. PICK f \in Frame!Damaged(l.frame) : link' = (link \ {l}) \cup {[l EXCEPT !.frame = f]}
      BY <2>1
    <2>3. /\ l = [frame |-> l.frame, sent |-> l.sent]
          /\ Whole(l.sent)
      BY <1>a DEF OnWire
    <2>4. Intact(f, l.sent) \/ Broken(f)
      BY <2>1, <2>3, DamageShows
    <2>5. [l EXCEPT !.frame = f] = [frame |-> f, sent |-> l.sent]
      BY <2>3
    <2>6. OnWire([frame |-> f, sent |-> l.sent])
      BY <2>3, <2>4 DEF OnWire
    <2>7. \A m \in link' : OnWire(m)
      BY <1>a, <2>2, <2>5, <2>6
    <2>8. packet_id' = packet_id /\ last' = last
      BY <1>2 DEF Frame!Damage
    <2>9. Frame!ReceivedAsSent'
      BY <1>a, <2>8 DEF Frame!ReceivedAsSent
    <2> QED
      BY <1>a, <2>7, <2>8, <2>9 DEF FramesInv
  <1>3. CASE Frame!Receive
    <2>1. PICK l \in link, h \in Hosts, max_size \in MaxSizes :
            LET code == Frame!receive(l.frame, h, h.mac, max_size)
            IN  /\ last' = [of |-> l, by |-> h, max_size |-> max_size, code |-> code,
                            data |-> IF code = "SUCCESS" THEN l.frame.data ELSE <<>>]
                /\ link' = link \ {l}
                /\ UNCHANGED packet_id
      BY <1>3 DEF Frame!Receive
    <2> DEFINE code == Frame!receive(l.frame, h, h.mac, max_size)
    <2>2. Whole(l.sent) /\ (Intact(l.frame, l.sent) \/ Broken(l.frame))
      BY <1>a DEF OnWire
    <2>3. max_size \in Nat
      BY DEF Frame!FrameAssumption
    <2>4. code = "SUCCESS" =>
            /\ l.frame.data = l.sent.data /\ l.sent.ip.dest_ip = h.ip
            /\ l.sent.udp.dest_port = h.port /\ Len(l.frame.data) <= max_size
      BY <2>2, <2>3, ReceivedIsIntact
    <2>5. ASSUME l.frame = l.sent, l.sent.ip.dest_ip = h.ip, l.sent.udp.dest_port = h.port,
                 l.sent.head.dest_mac # h.mac, Len(l.sent.data) <= max_size
          PROVE  code = "SUCCESS"
      BY <2>2, <2>3, <2>5, WholeArrives
    <2>6. /\ last'.of = l /\ last'.by = h /\ last'.max_size = max_size /\ last'.code = code
          /\ code = "SUCCESS" => last'.data = l.frame.data
      BY <2>1
    <2> HIDE DEF code
    <2>7. Frame!ReceivedAsSent'
      BY <2>4, <2>5, <2>6 DEF Frame!ReceivedAsSent
    <2>8. packet_id' = packet_id /\ link' = link \ {l}
      BY <2>1
    <2>9. \A m \in link' : OnWire(m)
      BY <1>a, <2>8
    <2> QED
      BY <1>a, <2>7, <2>8, <2>9 DEF FramesInv
  <1>4. CASE UNCHANGED Frame!vars
    BY <1>a, <1>4 DEF Frame!vars, FramesInv, Frame!ReceivedAsSent
  <1> QED
    BY <1>1, <1>2, <1>3, <1>4 DEF Frame!Next

\* network_hw: for hosts, buffers and data of any size and number, what is
\* received is what was sent, at the host it was sent to, and a frame that
\* nothing damaged is received there, until send is given more data than its
\* buffer has room for.
THEOREM FramesArrive == Frame!FrameAssumption => (Frame!Spec => []ReceivedAsSent)
  <1> SUFFICES ASSUME Frame!FrameAssumption PROVE Frame!Spec => []Frame!ReceivedAsSent
    BY DEF ReceivedAsSent
  <1>1. FramesInv => Frame!ReceivedAsSent
    BY DEF FramesInv
  <1> QED
    BY AInit, ANext, <1>1, PTL DEF Frame!Spec

(* Patterns                                                                *)

\* FiniteSets, as Patterns sees it, is FiniteSets.
LEMMA PatternCounting ==
  \A X : Pattern!IsFiniteSet(X) = IsFiniteSet(X) /\ Pattern!Cardinality(X) = Cardinality(X)
  <1>1. \A X : Pattern!IsFiniteSet(X) = IsFiniteSet(X)
    BY DEF Pattern!IsFiniteSet, IsFiniteSet
  <1>2. \A X : Pattern!Cardinality(X) = Cardinality(X)
    BY DEF Pattern!Cardinality, Cardinality, Pattern!IsFiniteSet, IsFiniteSet
  <1> QED
    BY <1>1, <1>2


\* Induction up to n.
LEMMA Upto ==
  ASSUME NEW n \in Nat, NEW G, 0 \in G, \A m \in 0..(n - 1) : m \in G => m + 1 \in G
  PROVE  \A i \in 0..n : i \in G
  <1> DEFINE Bad == {i \in Nat : i <= n /\ i \notin G}
  <1>1. SUFFICES ASSUME Bad # {} PROVE FALSE
    OBVIOUS
  <1>2. PICK i \in Bad : \A j \in Bad : i <= j
    <2>1. Bad \in SUBSET Nat
      OBVIOUS
    <2> QED
      BY <1>1, <2>1, LeastNumber
  <1>3. i \in Nat /\ i <= n /\ i \notin G /\ i # 0
    BY <1>2
  <1>4. i - 1 \in 0..(n - 1) /\ (i - 1) + 1 = i /\ ~(i <= i - 1)
    BY <1>3
  <1>5. i - 1 \notin Bad
    BY <1>2, <1>4
  <1>6. i - 1 \in G
    BY <1>3, <1>4, <1>5
  <1> QED
    BY <1>3, <1>4, <1>6

-----------------------------------------------------------------------------

\* What is left of a list is of the list, and in S.
LEMMA OnlyIn ==
  ASSUME NEW T, NEW list \in Seq(T), NEW S
  PROVE  Pattern!Only(list, S) \in Seq(T \cap S)
  <1> DEFINE n == Len(list)
             R == Seq(T \cap S)
             step == [m \in Nat |-> [x \in R |->
                        IF m + 1 \in 1..n /\ list[m + 1] \in S THEN Append(x, list[m + 1]) ELSE x]]
             Eq(h) == [i \in 0..n |-> IF i = 0 THEN <<>>
                         ELSE IF list[i] \in S THEN Append(h[i - 1], list[i]) ELSE h[i - 1]]
             f == CHOOSE h : h = Eq(h)
  <1>1. n \in Nat /\ \A i \in 1..n : list[i] \in T
    OBVIOUS
  <1>2. step \in [Nat -> [R -> R]]
    <2>1. ASSUME NEW m \in Nat, NEW x \in R, m + 1 \in 1..n, list[m + 1] \in S
          PROVE  Append(x, list[m + 1]) \in R
      <3>1. list[m + 1] \in T \cap S
        BY <1>1, <2>1
      <3> QED
        BY <3>1, AppendProperties
    <2> HIDE DEF n, R
    <2> QED
      BY <2>1
  <1>3. <<>> \in R
    BY EmptySeq
  <1> HIDE DEF R
  <1>4. PICK g : Starts(g, n, R, <<>>, step)
    <2> HIDE DEF step, n
    <2> QED
      BY <1>1, <1>2, <1>3, Iterated
  <1>5. g = Eq(g)
    <2> HIDE DEF n
    <2>1. g \in [0..n -> R] /\ g[0] = <<>> /\ \A m \in 0..(n - 1) : g[m + 1] = step[m][g[m]]
      BY <1>4 DEF Starts
    <2>2. ASSUME NEW i \in 1..n
          PROVE  g[i] = IF list[i] \in S THEN Append(g[i - 1], list[i]) ELSE g[i - 1]
      <3>1. i - 1 \in 0..(n - 1) /\ i - 1 \in 0..n /\ i - 1 \in Nat /\ (i - 1) + 1 = i
        BY <1>1
      <3>2. g[i] = step[i - 1][g[i - 1]] /\ g[i - 1] \in R
        BY <2>1, <3>1
      <3> QED
        BY <3>1, <3>2
    <2>3. \A i \in 0..n : i = 0 \/ i \in 1..n
      BY <1>1
    <2>4. \A i \in 0..n : g[i] = Eq(g)[i]
      BY <2>1, <2>2, <2>3
    <2> QED
      BY <2>1, <2>4
  <1> HIDE DEF Eq
  <1>6. f = Eq(f)
    BY <1>5
  <1>7. Pattern!Only(list, S) = f[n]
    BY DEF Pattern!Only, Eq
  <1> HIDE DEF f, n
  <1>8. f[0] = <<>>
    BY <1>1, <1>6 DEF Eq
  <1>9. ASSUME NEW m \in 0..(n - 1), f[m] \in R
        PROVE  f[m + 1] \in R
    <2>1. m + 1 \in 1..n /\ m + 1 \in 0..n /\ (m + 1) - 1 = m /\ m + 1 # 0
      BY <1>1
    <2>2. f[m + 1] = IF list[m + 1] \in S THEN Append(f[m], list[m + 1]) ELSE f[m]
      BY <1>6, <2>1 DEF Eq
    <2>3. CASE list[m + 1] \in S
      <3>1. list[m + 1] \in T \cap S
        BY <1>1, <2>1, <2>3
      <3> QED
        BY <1>9, <2>2, <2>3, <3>1, AppendProperties DEF R
    <2> QED
      BY <1>9, <2>2, <2>3
  <1> DEFINE G == {i \in 0..n : f[i] \in R}
  <1>10. 0 \in G
    BY <1>1, <1>3, <1>8
  <1>11. \A m \in 0..(n - 1) : m \in G => m + 1 \in G
    <2>1. \A m \in 0..(n - 1) : m + 1 \in 0..n
      BY <1>1
    <2> QED
      BY <1>9, <2>1
  <1>12. n \in G
    <2> HIDE DEF G
    <2>1. n \in 0..n
      BY <1>1
    <2> QED
      BY <1>1, <1>10, <1>11, <2>1, Upto
  <1> QED
    BY <1>7, <1>12 DEF R

\* A concatenation of lists has the elements of the lists.
LEMMA FlattenIn ==
  ASSUME NEW T, NEW ss \in Seq(Seq(T))
  PROVE  Pattern!FlattenSeq(ss) \in Seq(T)
  <1> DEFINE n == Len(ss)
             R == Seq(T)
             step == [m \in Nat |-> [x \in R |-> IF m + 2 \in 1..n THEN x \o ss[m + 2] ELSE x]]
             Eq(h) == [i \in 1..n |-> IF i = 1 THEN ss[i] ELSE h[i - 1] \o ss[i]]
             f == CHOOSE h : h = Eq(h)
  <1>1. n \in Nat /\ \A i \in 1..n : ss[i] \in R
    OBVIOUS
  <1>2. CASE n = 0
    <2>1. Pattern!FlattenSeq(ss) = ss
      BY <1>2 DEF Pattern!FlattenSeq
    <2>2. ss = <<>>
      BY <1>2, EmptySeq
    <2> QED
      BY <2>1, <2>2, EmptySeq
  <1>3. CASE n # 0
    <2>0. n - 1 \in Nat /\ 1 \in 1..n /\ n \in 1..n
      BY <1>1, <1>3
    <2>1. step \in [Nat -> [R -> R]]
      <3>1. ASSUME NEW m \in Nat, NEW x \in R, m + 2 \in 1..n PROVE x \o ss[m + 2] \in R
        BY <1>1, <3>1, ConcatProperties
      <3> HIDE DEF n, R
      <3> QED
        BY <3>1
    <2> HIDE DEF R
    <2>2. PICK g : Starts(g, n - 1, R, ss[1], step)
      <3> HIDE DEF step, n
      <3> QED
        BY <1>1, <2>0, <2>1, Iterated
    <2> DEFINE h == [i \in 1..n |-> g[i - 1]]
    <2> HIDE DEF n
    <2>3. h = Eq(h)
      <3>1. g \in [0..(n - 1) -> R] /\ g[0] = ss[1] /\ \A m \in 0..(n - 1 - 1) : g[m + 1] = step[m][g[m]]
        BY <2>2 DEF Starts
      <3>2. ASSUME NEW i \in 1..n
            PROVE  h[i] = IF i = 1 THEN ss[i] ELSE h[i - 1] \o ss[i]
        <4>1. CASE i = 1
          BY <3>1, <4>1
        <4>2. CASE i # 1
          <5>1. /\ i - 2 \in 0..(n - 1 - 1) /\ i - 2 \in 0..(n - 1) /\ i - 2 \in Nat
                /\ (i - 2) + 2 = i
                /\ (i - 2) + 1 = i - 1 /\ i - 1 \in 1..n /\ (i - 1) - 1 = i - 2
            BY <1>1, <4>2
          <5>2. g[i - 1] = step[i - 2][g[i - 2]] /\ g[i - 2] \in R
            BY <3>1, <5>1
          <5>3. h[i] = g[i - 1] /\ h[i - 1] = g[i - 2]
            BY <5>1
          <5> QED
            BY <4>2, <5>1, <5>2, <5>3
        <4> QED
          BY <4>1, <4>2
      <3> HIDE DEF h
      <3>3. \A i \in 1..n : h[i] = Eq(h)[i]
        BY <3>2
      <3> QED
        BY <3>3 DEF h
    <2> HIDE DEF Eq, h
    <2>4. f = Eq(f)
      BY <2>3
    <2>5. Pattern!FlattenSeq(ss) = f[n]
      BY <1>3 DEF Pattern!FlattenSeq, Eq, n
    <2> HIDE DEF f
    <2>6. \A i \in 1..n : f[i] = IF i = 1 THEN ss[i] ELSE f[i - 1] \o ss[i]
      BY <2>4 DEF Eq
    <2> DEFINE G == {i \in 0..(n - 1) : f[i + 1] \in R}
    <2>7. 0 \in G
      BY <1>1, <2>0, <2>6
    <2>8. ASSUME NEW m \in 0..(n - 1 - 1), m \in G PROVE m + 1 \in G
      <3>1. /\ m + 2 \in 1..n /\ m + 2 # 1 /\ (m + 2) - 1 = m + 1 /\ (m + 1) + 1 = m + 2
            /\ m + 1 \in 0..(n - 1)
        BY <2>0, <1>1
      <3>2. f[m + 2] = f[m + 1] \o ss[m + 2] /\ f[m + 1] \in R /\ ss[m + 2] \in R
        BY <1>1, <2>6, <2>8, <3>1
      <3>3. f[m + 2] \in R
        BY <3>2, ConcatProperties DEF R
      <3> QED
        BY <3>1, <3>3
    <2>9. n - 1 \in G
      <3> HIDE DEF G
      <3>1. n - 1 \in 0..(n - 1)
        BY <2>0
      <3> QED
        BY <2>0, <2>7, <2>8, <3>1, Upto
    <2>10. (n - 1) + 1 = n
      BY <1>1
    <2> QED
      BY <2>5, <2>9, <2>10 DEF R
  <1> QED
    BY <1>2, <1>3

\* A list with an element removed has no others than before.
LEMMA RemoveFirstIn ==
  ASSUME NEW T, NEW s \in Seq(T), NEW o
  PROVE  Pattern!RemoveFirst(s, o) \in Seq(T)
  <1> DEFINE M == {i \in 1..Len(s) : s[i] = o}
  <1>1. CASE M = {}
    BY <1>1 DEF Pattern!RemoveFirst
  <1>2. CASE M # {}
    <2>1. PICK i \in M : \A j \in M : i <= j
      <3>1. M \in SUBSET Nat
        OBVIOUS
      <3> QED
        BY <1>2, <3>1, LeastNumber
    <2>2. Pattern!Min(M) \in M
      BY <2>1 DEF Pattern!Min
    <2>3. Pattern!SelectInSeq(s, LAMBDA v : v = o) = Pattern!Min(M)
      BY <1>2 DEF Pattern!SelectInSeq
    <2>4. Pattern!RemoveFirst(s, o) = SubSeq(s, 1, Pattern!Min(M) - 1) \o SubSeq(s, Pattern!Min(M) + 1, Len(s))
      BY <1>2, <2>3 DEF Pattern!RemoveFirst, Pattern!RemoveAt, Pattern!SelectInSeq
    <2>5. Pattern!Min(M) \in 1..Len(s) /\ Len(s) \in Nat
      BY <2>2
    <2> HIDE DEF M
    <2>6. SubSeq(s, 1, Pattern!Min(M) - 1) \in Seq(T) /\ SubSeq(s, Pattern!Min(M) + 1, Len(s)) \in Seq(T)
      <3>1. \A k \in 1..(Pattern!Min(M) - 1) : s[k] \in T
        BY <2>5, ElementOfSeq
      <3>2. \A k \in (Pattern!Min(M) + 1)..Len(s) : s[k] \in T
        BY <2>5, ElementOfSeq
      <3> QED
        BY <2>5, <3>1, <3>2, SubSeqProperties
    <2> QED
      BY <2>4, <2>6, ConcatProperties
  <1> QED
    BY <1>1, <1>2

\* The members of a list.
LEMMA Members ==
  ASSUME NEW T, NEW s \in Seq(T)
  PROVE  Pattern!ToSet(s) \subseteq T /\ s \in Seq(Pattern!ToSet(s)) /\ (s = <<>> => Pattern!ToSet(s) = {})
  <1>1. DOMAIN s = 1..Len(s) /\ Len(s) \in Nat
    OBVIOUS
  <1>2. \A i \in 1..Len(s) : s[i] \in Pattern!ToSet(s) /\ s[i] \in T
    BY <1>1 DEF Pattern!ToSet
  <1>3. [k \in 1..Len(s) |-> s[k]] \in Seq(Pattern!ToSet(s))
    BY <1>1, <1>2
  <1>4. s = [k \in 1..Len(s) |-> s[k]]
    OBVIOUS
  <1>5. Pattern!ToSet(s) \subseteq T
    BY <1>1, <1>2 DEF Pattern!ToSet
  <1>6. s = <<>> => Pattern!ToSet(s) = {}
    BY <1>1 DEF Pattern!ToSet
  <1> QED
    BY <1>3, <1>4, <1>5, <1>6

-----------------------------------------------------------------------------

RefsTyped == refs \in [Boxes -> Seq(Pattern!Objects)]
Closed(S) == \A b \in S \cap Boxes : Pattern!ToSet(refs[b]) \subseteq S

Grow(near) == near \cup UNION {Pattern!ToSet(refs[b]) : b \in near \cap Boxes}

\* What follows from some objects is the least set with them and with what
\* its boxes list: there are at most as many steps as objects.
LEMMA AfterIs ==
  ASSUME Pattern!PatternAssumption, RefsTyped, NEW from \in SUBSET Pattern!Objects
  PROVE  /\ from \subseteq Pattern!After(from) /\ Pattern!After(from) \subseteq Pattern!Objects /\ Closed(Pattern!After(from))
         /\ \A T \in SUBSET Pattern!Objects : from \subseteq T /\ Closed(T) => Pattern!After(from) \subseteq T
  <1> DEFINE N == Pattern!Cardinality(Pattern!Objects)
             step == [m \in Nat |-> [S \in SUBSET Pattern!Objects |-> Grow(S)]]
             Eq(h) == [n \in 0..N |-> IF n = 0 THEN from
                         ELSE h[n - 1] \cup UNION {Pattern!ToSet(refs[b]) : b \in h[n - 1] \cap Boxes}]
             f == CHOOSE h : h = Eq(h)
  <1>1. Pattern!IsFiniteSet(Pattern!Objects) /\ N \in Nat
    <2>1. Pattern!IsFiniteSet(Boxes \cup Parts)
      BY PatternCounting, FS_Union DEF Pattern!PatternAssumption
    <2>2. Pattern!IsFiniteSet(Pattern!Objects)
      BY PatternCounting, <2>1, FS_AddElement DEF Pattern!Objects
    <2> QED
      BY PatternCounting, <2>2, FS_CardinalityType
  <1>2. \A b \in Boxes : Pattern!ToSet(refs[b]) \subseteq Pattern!Objects
    BY Members DEF RefsTyped
  <1>3. \A S \in SUBSET Pattern!Objects : Grow(S) \in SUBSET Pattern!Objects
    BY <1>2 DEF Grow
  <1>4. PICK g : Starts(g, N, SUBSET Pattern!Objects, from, step)
    <2>1. step \in [Nat -> [SUBSET Pattern!Objects -> SUBSET Pattern!Objects]]
      BY <1>3
    <2> HIDE DEF step, N
    <2> QED
      BY <1>1, <2>1, Iterated
  <1>5. g = Eq(g)
    <2> HIDE DEF N
    <2>1. /\ g \in [0..N -> SUBSET Pattern!Objects] /\ g[0] = from
          /\ \A m \in 0..(N - 1) : g[m + 1] = step[m][g[m]]
      BY <1>4 DEF Starts
    <2>2. ASSUME NEW n \in 1..N PROVE g[n] = Grow(g[n - 1])
      <3>1. n - 1 \in 0..(N - 1) /\ n - 1 \in 0..N /\ n - 1 \in Nat /\ (n - 1) + 1 = n
        BY <1>1
      <3>2. g[n] = step[n - 1][g[n - 1]] /\ g[n - 1] \in SUBSET Pattern!Objects
        BY <2>1, <3>1
      <3> QED
        BY <3>1, <3>2
    <2>3. \A n \in 0..N : n = 0 \/ n \in 1..N
      BY <1>1
    <2>4. \A n \in 0..N : g[n] = Eq(g)[n]
      BY <2>1, <2>2, <2>3 DEF Grow
    <2> QED
      BY <2>1, <2>4
  <1> HIDE DEF Eq
  <1>6. f = Eq(f)
    BY <1>5
  <1>7. Pattern!After(from) = f[N]
    BY DEF Pattern!After, Eq
  <1> HIDE DEF f
  <1>8. f[0] = from
    BY <1>1, <1>6 DEF Eq
  <1>9. \A m \in 0..(N - 1) : f[m + 1] = Grow(f[m])
    <2> HIDE DEF N
    <2> SUFFICES ASSUME NEW m \in 0..(N - 1) PROVE f[m + 1] = Grow(f[m])
      OBVIOUS
    <2>1. m + 1 \in 0..N /\ (m + 1) - 1 = m /\ m + 1 # 0
      BY <1>1
    <2> QED
      BY <1>6, <2>1 DEF Eq, Grow
  <1> HIDE DEF N
  <1>10. N \in 0..N /\ \A m \in 0..(N - 1) : m \in 0..N /\ m + 1 \in 0..N
    BY <1>1
  <1>11. \A n \in 0..N : f[n] \in SUBSET Pattern!Objects
    <2> DEFINE G == {n \in 0..N : f[n] \in SUBSET Pattern!Objects}
    <2>1. 0 \in G
      BY <1>1, <1>8
    <2>2. \A m \in 0..(N - 1) : m \in G => m + 1 \in G
      BY <1>3, <1>9, <1>10
    <2>3. \A n \in 0..N : n \in G
      <3> HIDE DEF G
      <3> QED
        BY <1>1, <2>1, <2>2, Upto
    <2> QED
      BY <2>3
  <1>12. from \subseteq f[N]
    <2> DEFINE G == {n \in 0..N : from \subseteq f[n]}
    <2>1. 0 \in G
      BY <1>1, <1>8
    <2>2. \A m \in 0..(N - 1) : m \in G => m + 1 \in G
      BY <1>9, <1>10 DEF Grow
    <2>3. N \in G
      <3> HIDE DEF G
      <3> QED
        BY <1>1, <1>10, <2>1, <2>2, Upto
    <2> QED
      BY <2>3
  <1>13. ASSUME NEW T \in SUBSET Pattern!Objects, from \subseteq T, Closed(T) PROVE f[N] \subseteq T
    <2> DEFINE G == {n \in 0..N : f[n] \subseteq T}
    <2>1. 0 \in G
      BY <1>1, <1>8, <1>13
    <2>2. \A m \in 0..(N - 1) : m \in G => m + 1 \in G
      BY <1>9, <1>10, <1>13 DEF Grow, Closed
    <2>3. N \in G
      <3> HIDE DEF G
      <3> QED
        BY <1>1, <1>10, <2>1, <2>2, Upto
    <2> QED
      BY <2>3
  <1>14. Closed(f[N])
    <2> DEFINE G == {n \in 0..N : Closed(f[n]) \/ Pattern!Cardinality(f[n]) >= n}
    <2>1. 0 \in G
      <3>1. Pattern!IsFiniteSet(from)
        BY PatternCounting, <1>1, FS_Subset
      <3>2. Pattern!Cardinality(from) \in Nat
        BY PatternCounting, <3>1, FS_CardinalityType
      <3> QED
        BY <1>1, <1>8, <3>2
    <2>2. ASSUME NEW m \in 0..(N - 1), m \in G PROVE m + 1 \in G
      <3>1. f[m] \in SUBSET Pattern!Objects /\ f[m + 1] \in SUBSET Pattern!Objects /\ f[m + 1] = Grow(f[m])
        BY <1>9, <1>10, <1>11
      <3>2. CASE Closed(f[m])
        <4>1. f[m + 1] = f[m]
          BY <3>1, <3>2 DEF Closed, Grow
        <4> QED
          BY <1>10, <3>2, <4>1
      <3>3. CASE ~ Closed(f[m])
        <4>1. PICK b \in f[m] \cap Boxes : ~(Pattern!ToSet(refs[b]) \subseteq f[m])
          BY <3>3 DEF Closed
        <4>2. PICK z \in Pattern!ToSet(refs[b]) : z \notin f[m]
          BY <4>1
        <4>3. f[m] \cup {z} \subseteq f[m + 1]
          BY <3>1, <4>1, <4>2 DEF Grow
        <4>4. Pattern!IsFiniteSet(f[m]) /\ Pattern!IsFiniteSet(f[m + 1])
          BY PatternCounting, <1>1, <3>1, FS_Subset
        <4>5. /\ Pattern!Cardinality(f[m] \cup {z}) = Pattern!Cardinality(f[m]) + 1
              /\ Pattern!Cardinality(f[m] \cup {z}) <= Pattern!Cardinality(f[m + 1])
          BY PatternCounting, <4>2, <4>3, <4>4, FS_AddElement, FS_Subset
        <4>6. Pattern!Cardinality(f[m]) \in Nat /\ Pattern!Cardinality(f[m + 1]) \in Nat
          BY PatternCounting, <4>4, FS_CardinalityType
        <4>7. Pattern!Cardinality(f[m]) >= m
          BY <2>2, <3>3
        <4>8. Pattern!Cardinality(f[m + 1]) >= m + 1
          BY <4>5, <4>6, <4>7
        <4> QED
          BY <1>10, <4>8
      <3> QED
        BY <3>2, <3>3
    <2>3. N \in G
      <3> HIDE DEF G
      <3> QED
        BY <1>1, <1>10, <2>1, <2>2, Upto
    <2>4. CASE Pattern!Cardinality(f[N]) >= N
      <3>1. f[N] \in SUBSET Pattern!Objects
        BY <1>10, <1>11
      <3>2. Pattern!Cardinality(f[N]) <= N /\ Pattern!IsFiniteSet(f[N])
        BY PatternCounting, <1>1, <3>1, FS_Subset DEF N
      <3>3. Pattern!Cardinality(f[N]) = N
        <4>1. Pattern!Cardinality(f[N]) \in Nat
          BY PatternCounting, <3>2, FS_CardinalityType
        <4> QED
          BY <1>1, <2>4, <3>2, <4>1
      <3>4. f[N] = Pattern!Objects
        BY PatternCounting, <1>1, <3>1, <3>3, FS_Subset DEF N
      <3> QED
        BY <1>2, <3>4 DEF Closed
    <2> QED
      BY <2>3, <2>4
  <1> QED
    BY <1>7, <1>10, <1>11, <1>12, <1>13, <1>14

LEMMA AfterGrows ==
  ASSUME Pattern!PatternAssumption, RefsTyped, NEW from \in SUBSET Pattern!Objects, NEW to \in SUBSET Pattern!Objects,
         from \subseteq Pattern!After(to)
  PROVE  Pattern!After(from) \subseteq Pattern!After(to)
  BY AfterIs

\* Where each object is listed by a box of the same set, there is a cycle.
LEMMA Cycles ==
  ASSUME Pattern!PatternAssumption, RefsTyped, NEW C \in SUBSET Pattern!Objects, C # {},
         \A p \in C : \E o \in C \cap Boxes : p \in Pattern!ToSet(refs[o])
  PROVE  \E b \in C \cap Boxes : Pattern!OnCycle(b)
  <1> DEFINE N == Pattern!Cardinality(Pattern!Objects)
             reached == [b \in Boxes |-> Pattern!Cardinality(Pattern!After({b}))]
             M == {N - reached[b] : b \in C \cap Boxes}
  <1>1. Pattern!IsFiniteSet(Pattern!Objects) /\ N \in Nat
    <2>1. Pattern!IsFiniteSet(Boxes \cup Parts)
      BY PatternCounting, FS_Union DEF Pattern!PatternAssumption
    <2>2. Pattern!IsFiniteSet(Pattern!Objects)
      BY PatternCounting, <2>1, FS_AddElement DEF Pattern!Objects
    <2> QED
      BY PatternCounting, <2>2, FS_CardinalityType
  <1>2. \A b \in Boxes : {b} \in SUBSET Pattern!Objects /\ Pattern!ToSet(refs[b]) \in SUBSET Pattern!Objects
    BY Members DEF RefsTyped, Pattern!Objects
  <1>3. ASSUME NEW b \in Boxes
        PROVE  Pattern!After({b}) \in SUBSET Pattern!Objects /\ Pattern!IsFiniteSet(Pattern!After({b})) /\ reached[b] \in Nat /\ reached[b] <= N
    <2>1. Pattern!After({b}) \in SUBSET Pattern!Objects
      BY <1>2, AfterIs
    <2> QED
      BY PatternCounting, <1>1, <2>1, FS_Subset, FS_CardinalityType
  <1> HIDE DEF N, reached
  <1>4. M \in SUBSET Nat /\ M # {}
    <2>1. ASSUME NEW b \in C \cap Boxes PROVE N - reached[b] \in Nat
      <3>1. reached[b] \in Nat /\ reached[b] <= N
        BY <1>3
      <3> QED
        BY ONLY <1>1, <3>1
    <2> QED
      BY <2>1
  <1>5. PICK b \in C \cap Boxes : \A o \in C \cap Boxes : N - reached[b] <= N - reached[o]
    <2>1. PICK x \in M : \A y \in M : x <= y
      <3> HIDE DEF M
      <3> QED
        BY <1>4, LeastNumber
    <2> QED
      BY <2>1
  <1>6. PICK o \in C \cap Boxes : b \in Pattern!ToSet(refs[o])
    OBVIOUS
  <1>7. Pattern!After({b}) \subseteq Pattern!After({o})
    <2>1. b \in Pattern!After({o})
      BY <1>2, <1>6, AfterIs DEF Closed
    <2> QED
      BY <1>2, <2>1, AfterGrows
  <1>8. Pattern!After({b}) = Pattern!After({o})
    <2>1. reached[o] <= reached[b]
      <3>1. reached[o] \in Nat /\ reached[b] \in Nat /\ N - reached[b] <= N - reached[o]
        BY <1>3, <1>5, <1>6
      <3> QED
        BY ONLY <1>1, <3>1
    <2>2. reached[b] <= reached[o]
      <3>1. Pattern!IsFiniteSet(Pattern!After({o})) /\ Pattern!After({b}) \in SUBSET Pattern!After({o})
        BY <1>3, <1>6, <1>7
      <3> QED
        BY PatternCounting, <3>1, FS_Subset DEF reached
    <2>3. reached[b] = reached[o]
      <3>1. reached[o] \in Nat /\ reached[b] \in Nat
        BY <1>3, <1>6
      <3> QED
        BY ONLY <2>1, <2>2, <3>1
    <2> QED
      BY PatternCounting, <1>3, <1>6, <1>7, <2>3, FS_Subset DEF reached
  <1>9. o \in Pattern!After({b})
    BY <1>2, <1>6, <1>8, AfterIs
  <1>10. CASE o = b
    <2>1. b \in Pattern!ToSet(refs[b])
      BY <1>6, <1>10
    <2> QED
      BY <1>2, <2>1, AfterIs DEF Pattern!OnCycle
  <1>11. CASE o # b
    <2> DEFINE A == Pattern!After(Pattern!ToSet(refs[b]))
    <2>1. Pattern!ToSet(refs[b]) \subseteq A /\ A \subseteq Pattern!Objects /\ Closed(A)
      BY <1>2, AfterIs
    <2> HIDE DEF A
    <2>2. Closed(A \cup {b})
      BY <2>1 DEF Closed
    <2>3. Pattern!After({b}) \subseteq A \cup {b}
      BY <1>2, <2>1, <2>2, AfterIs
    <2>4. o \in A
      BY <1>9, <1>11, <2>3
    <2>5. b \in A
      BY <1>6, <2>1, <2>4 DEF Closed
    <2> QED
      BY <2>5 DEF Pattern!OnCycle, A
  <1> QED
    BY <1>10, <1>11

Loop(C) == C # {} /\ \A p \in C : \E o \in C : p \in Pattern!ToSet(refs[o])

\* A path with more objects than there are comes to one again.
LEMMA LongPaths ==
  ASSUME NEW V, Pattern!IsFiniteSet(V), NEW n \in Nat, Pattern!Cardinality(V) <= n, NEW path \in [0..n -> V],
         \A m \in 0..(n - 1) : path[m + 1] \in Pattern!ToSet(refs[path[m]])
  PROVE  \E C \in SUBSET V : Loop(C)
  <1>1. PICK i \in 0..n, j \in 0..n : i # j /\ path[i] = path[j]
    <2>1. Pattern!IsFiniteSet(0..n) /\ Pattern!Cardinality(0..n) = n + 1
      BY PatternCounting, FS_Interval
    <2>2. Pattern!Cardinality(V) < Pattern!Cardinality(0..n)
      <3>1. Pattern!Cardinality(V) \in Nat
        BY PatternCounting, FS_CardinalityType
      <3> QED
        BY <2>1, <3>1
    <2> QED
      BY PatternCounting, <2>1, <2>2, FS_PigeonHole
  <1>2. ASSUME NEW a \in 0..n, NEW z \in 0..n, a < z, path[a] = path[z]
        PROVE  \E C \in SUBSET V : Loop(C)
    <2> DEFINE C == {path[k] : k \in (a + 1)..z}
    <2>1. \A k \in (a + 1)..z : k \in 0..n /\ k - 1 \in 0..(n - 1) /\ (k - 1) + 1 = k
      BY <1>2
    <2>2. C \in SUBSET V /\ C # {}
      <3>1. z \in (a + 1)..z
        BY <1>2
      <3> QED
        BY <2>1, <3>1
    <2>3. ASSUME NEW k \in (a + 1)..z PROVE path[k - 1] \in C /\ path[k] \in Pattern!ToSet(refs[path[k - 1]])
      <3>1. path[k] \in Pattern!ToSet(refs[path[k - 1]])
        BY <2>1
      <3>2. z \in (a + 1)..z /\ (k - 1 = a \/ k - 1 \in (a + 1)..z)
        BY <1>2
      <3>3. path[k - 1] \in C
        BY <1>2, <3>2
      <3> QED
        BY <3>1, <3>3
    <2>4. ASSUME NEW p \in C PROVE \E o \in C : p \in Pattern!ToSet(refs[o])
      BY <2>3
    <2> HIDE DEF C
    <2> QED
      BY <2>2, <2>4 DEF Loop
  <1> QED
    <2>1. i < j \/ j < i
      BY <1>1
    <2> QED
      BY <1>1, <1>2, <2>1

\* So do the boxes reached by so many steps from one of them.
LEMMA LongWalks ==
  ASSUME NEW V, Pattern!IsFiniteSet(V), NEW n \in Nat, Pattern!Cardinality(V) <= n, NEW walk \in [0..n -> SUBSET V],
         \A m \in 0..(n - 1) : \A x \in walk[m + 1] : \E c \in walk[m] : x \in Pattern!ToSet(refs[c]),
         walk[n] # {}
  PROVE  \E C \in SUBSET V : Loop(C)
  <1> DEFINE Path(path, m, x) ==
               /\ path \in [0..m -> V] /\ path[m] = x
               /\ \A k \in 0..(m - 1) : path[k + 1] \in Pattern!ToSet(refs[path[k]])
             G == {m \in 0..n : \A x \in walk[m] : \E path : Path(path, m, x)}
  <1>1. 0 \in G
    <2>1. ASSUME NEW x \in walk[0] PROVE Path([k \in 0..0 |-> x], 0, x)
      <3>1. x \in V
        BY <2>1
      <3> QED
        BY <3>1
    <2> HIDE DEF Path
    <2> QED
      BY <2>1
  <1>2. ASSUME NEW m \in 0..(n - 1), m \in G PROVE m + 1 \in G
    <2>1. m + 1 \in 0..n /\ m \in 0..n /\ m \in Nat
      OBVIOUS
    <2>2. ASSUME NEW x \in walk[m + 1] PROVE \E path : Path(path, m + 1, x)
      <3>1. PICK c \in walk[m] : x \in Pattern!ToSet(refs[c])
        OBVIOUS
      <3>2. PICK path : Path(path, m, c)
        <4> HIDE DEF Path
        <4> QED
          BY <1>2, <3>1
      <3>3. x \in V
        BY <2>1
      <3> DEFINE longer == [k \in 0..(m + 1) |-> IF k = m + 1 THEN x ELSE path[k]]
      <3>4. longer \in [0..(m + 1) -> V]
        BY <2>1, <3>2, <3>3
      <3>5. longer[m + 1] = x
        BY <2>1
      <3>6. ASSUME NEW k \in 0..((m + 1) - 1) PROVE longer[k + 1] \in Pattern!ToSet(refs[longer[k]])
        <4>1. CASE k = m
          <5>1. longer[k] = path[m] /\ longer[k + 1] = x
            BY <2>1, <4>1
          <5> QED
            BY <3>1, <3>2, <5>1
        <4>2. CASE k # m
          <5>1. k \in 0..(m - 1) /\ k + 1 \in 0..m /\ k + 1 # m + 1 /\ k # m + 1
            BY <2>1, <4>2
          <5>2. longer[k] = path[k] /\ longer[k + 1] = path[k + 1]
            BY <2>1, <5>1
          <5> QED
            BY <3>2, <5>1, <5>2
        <4> QED
          BY <4>1, <4>2
      <3> HIDE DEF longer
      <3>7. Path(longer, m + 1, x)
        BY <3>4, <3>5, <3>6
      <3> HIDE DEF Path
      <3> QED
        BY <3>7
    <2> HIDE DEF Path
    <2> QED
      BY <2>1, <2>2
  <1>3. n \in G
    <2> HIDE DEF G
    <2>1. n \in 0..n
      OBVIOUS
    <2> QED
      BY <1>1, <1>2, <2>1, Upto
  <1>4. PICK x \in walk[n] : TRUE
    OBVIOUS
  <1>5. PICK path : Path(path, n, x)
    <2> HIDE DEF Path
    <2> QED
      BY <1>3
  <1> QED
    BY <1>5, LongPaths

-----------------------------------------------------------------------------

Kinds == {"chain", "command", "mediator", "observer", "visitor", "composite"}

\* The boxes that are alive and lie on a cycle of such, if any.
Looped == \E C \in SUBSET (Boxes \cap alive) : Loop(C)

\* What is alive is held by the program or owned by what is alive; what owns
\* is never left with a dead object; a part points to what was made.
GraphInv ==
  /\ pattern \in Kinds
  /\ roots \subseteq alive /\ alive \subseteq made /\ made \subseteq Pattern!Objects
  /\ refs \in [Boxes -> Seq(Pattern!Listed)]
  /\ target \in [Parts -> Pattern!Targets \cup {NoTarget}]
  /\ \A b \in Boxes \ made : refs[b] = <<>>
  /\ Pattern!Pointing => \A p \in Parts \cap made : target[p] \in Pattern!Targets \cap made
  /\ \A p \in alive : p \in roots \/ (Pattern!Owning /\ \E o \in Boxes \cap alive : p \in Pattern!ToSet(refs[o]))
  /\ Pattern!Owning => Closed(alive)

GraphsInv ==
  /\ GraphInv
  /\ called \in Seq(alive)
  /\ outcome = "null" => pattern = "mediator" /\ Boxes \cap (made \ alive) # {}
  /\ outcome = "endless" => pattern \in {"chain", "composite", "command"} /\ Looped

LEMMA ListedAre == Pattern!Listed \subseteq Boxes \cup Parts /\ Pattern!Targets \subseteq Boxes \cup {Receiver}
  <1>1. CASE pattern = "chain"
    BY <1>1 DEF Pattern!Listed, Pattern!Targets
  <1>2. CASE pattern \in {"composite", "command"}
    BY <1>2 DEF Pattern!Listed, Pattern!Targets
  <1>3. CASE pattern \notin {"chain", "composite", "command"}
    BY <1>3 DEF Pattern!Listed, Pattern!Targets
  <1> QED
    BY <1>1, <1>2, <1>3

LEMMA GraphTyped == GraphInv => RefsTyped
  <1> SUFFICES ASSUME GraphInv PROVE RefsTyped
    OBVIOUS
  <1>1. Pattern!Listed \subseteq Pattern!Objects
    BY ListedAre DEF Pattern!Objects
  <1>2. ASSUME NEW b \in Boxes PROVE refs[b] \in Seq(Pattern!Objects)
    <2>1. refs[b] \in Seq(Pattern!Listed)
      BY DEF GraphInv
    <2> QED
      BY <1>1, <2>1, SeqMonotonic
  <1> QED
    BY <1>2 DEF RefsTyped, GraphInv

LEMMA GraphsImply ==
  ASSUME Pattern!PatternAssumption, GraphsInv
  PROVE  Pattern!OwnedAndReached
  <1>1. GraphInv /\ RefsTyped
    BY GraphTyped DEF GraphsInv
  <1>2. roots \in SUBSET Pattern!Objects /\ alive \in SUBSET Pattern!Objects /\ roots \subseteq alive
    BY <1>1 DEF GraphInv
  <1>3. \A i \in 1..Len(called) : called[i] \in alive
    BY ElementOfSeq DEF GraphsInv
  <1>4. Pattern!Owning => Closed(alive)
    BY <1>1 DEF GraphInv
  <1>5. /\ roots \subseteq Pattern!After(roots) /\ Pattern!After(roots) \in SUBSET Pattern!Objects
        /\ Closed(Pattern!After(roots))
        /\ Pattern!Owning => Pattern!After(roots) \subseteq alive
    BY <1>1, <1>2, <1>4, AfterIs
  <1>6. ASSUME NEW p \in alive
        PROVE  p \in roots \/ (Pattern!Owning /\ \E o \in Boxes \cap alive : p \in Pattern!ToSet(refs[o]))
    BY <1>1 DEF GraphInv
  <1>7. ASSUME ~ Pattern!Owning PROVE alive = roots
    BY <1>2, <1>6, <1>7
  <1>8. ASSUME Pattern!Owning
        PROVE  alive \ Pattern!After(roots) \subseteq Pattern!After({b \in Boxes \cap alive : Pattern!OnCycle(b)})
    <2> DEFINE C == {b \in Boxes \cap alive : Pattern!OnCycle(b)}
               B == (alive \ Pattern!After(roots)) \ Pattern!After(C)
    <2>1. C \in SUBSET Pattern!Objects
      BY <1>2
    <2>2. C \subseteq Pattern!After(C) /\ Closed(Pattern!After(C))
      BY <1>1, <2>1, AfterIs
    <2>3. ASSUME NEW p \in B PROVE \E o \in B \cap Boxes : p \in Pattern!ToSet(refs[o])
      <3>1. p \in alive /\ p \notin Pattern!After(roots) /\ p \notin Pattern!After(C)
        BY <2>3
      <3>2. PICK o \in Boxes \cap alive : p \in Pattern!ToSet(refs[o])
        BY <1>5, <1>6, <3>1
      <3>3. o \notin Pattern!After(roots)
        BY <1>5, <3>1, <3>2 DEF Closed
      <3>4. o \notin Pattern!After(C)
        BY <2>2, <3>1, <3>2 DEF Closed
      <3> QED
        BY <3>2, <3>3, <3>4
    <2>4. B \in SUBSET Pattern!Objects
      BY <1>2
    <2>5. ASSUME B # {} PROVE FALSE
      <3>1. PICK b \in B \cap Boxes : Pattern!OnCycle(b)
        <4> HIDE DEF B
        <4> QED
          BY <1>1, <2>3, <2>4, <2>5, Cycles
      <3>2. b \in C
        BY <3>1
      <3> QED
        BY <2>2, <3>1, <3>2
    <2> QED
      BY <2>5
  <1>9. ASSUME pattern \in {"observer", "visitor"} PROVE alive = Pattern!After(roots)
    <2>1. Pattern!Owning /\ Pattern!Listed = Parts
      BY <1>9 DEF Pattern!Owning, Pattern!Listed
    <2>2. ASSUME NEW b \in Boxes PROVE Pattern!ToSet(refs[b]) \cap Boxes = {}
      <3>1. refs[b] \in Seq(Parts)
        BY <1>1, <2>1 DEF GraphInv
      <3> QED
        BY <3>1, Members DEF Pattern!PatternAssumption
    <2>3. ASSUME NEW p \in alive PROVE p \in Pattern!After(roots)
      <3>1. CASE p \in roots
        BY <1>5, <3>1
      <3>2. CASE p \notin roots
        <4>1. PICK o \in Boxes \cap alive : p \in Pattern!ToSet(refs[o])
          BY <1>6, <3>2
        <4>2. o \in roots
          BY <1>6, <2>2, <4>1
        <4> QED
          BY <1>5, <4>1, <4>2 DEF Closed
      <3> QED
        BY <3>1, <3>2
    <2> QED
      BY <1>5, <2>1, <2>3
  <1>10. ASSUME outcome = "endless"
         PROVE  pattern \in {"chain", "composite", "command"} /\ \E b \in Boxes \cap alive : Pattern!OnCycle(b)
    <2>1. pattern \in {"chain", "composite", "command"}
      BY <1>10 DEF GraphsInv
    <2>2. PICK C \in SUBSET (Boxes \cap alive) : Loop(C)
      BY <1>10 DEF GraphsInv, Looped
    <2>3. C \in SUBSET Pattern!Objects /\ C # {} /\ \A p \in C : \E o \in C \cap Boxes : p \in Pattern!ToSet(refs[o])
      BY <1>2, <2>2 DEF Loop
    <2>4. PICK b \in C \cap Boxes : Pattern!OnCycle(b)
      BY <1>1, <2>3, Cycles
    <2> QED
      BY <2>1, <2>2, <2>4
  <1>11. outcome = "null" => pattern = "mediator" /\ Boxes \cap (made \ alive) # {}
    BY DEF GraphsInv
  <1> QED
    BY <1>2, <1>3, <1>4, <1>7, <1>8, <1>9, <1>10, <1>11 DEF Pattern!OwnedAndReached,
       Closed

LEMMA GraphsInit == Pattern!Init => GraphsInv
  <1> SUFFICES ASSUME Pattern!Init PROVE GraphsInv
    OBVIOUS
  <1>1. refs \in [Boxes -> Seq(Pattern!Listed)]
    BY EmptySeq DEF Pattern!Init
  <1>2. called \in Seq(alive)
    BY EmptySeq DEF Pattern!Init
  <1>3. Closed(alive)
    BY DEF Pattern!Init, Closed
  <1> QED
    BY <1>1, <1>2, <1>3 DEF Pattern!Init, GraphsInv, GraphInv, Kinds

\* After the counting: roots' and what they lead to is left, once no object is
\* listed anew that the program does not hold.
LEMMA Settles ==
  ASSUME Pattern!PatternAssumption, GraphInv, outcome = "ok", Pattern!Settle,
         roots' \subseteq made', made \subseteq made', made' \subseteq Pattern!Objects,
         refs' \in [Boxes -> Seq(Pattern!Listed)],
         \A b \in Boxes : Pattern!ToSet(refs'[b]) \subseteq Pattern!ToSet(refs[b]) \cup roots,
         \A b \in Boxes : b \notin made => refs'[b] = <<>>,
         \A b \in Boxes \cap (roots' \ alive) : b \notin made,
         target' \in [Parts -> Pattern!Targets \cup {NoTarget}],
         Pattern!Pointing => \A p \in Parts \cap made' : target'[p] \in Pattern!Targets \cap made'
  PROVE  GraphsInv'
  <1> DEFINE K == Pattern!Kept(alive \cup roots')
             Good(S) == \A p \in S : p \in roots' \/ \E o \in S : Pattern!Owns(o, p)
  <1>1. /\ pattern' = pattern /\ outcome' = "ok" /\ called' = <<>> /\ alive' = K
        /\ pattern \in Kinds /\ roots \subseteq alive /\ alive \subseteq made
    BY DEF Pattern!Settle, GraphInv
  <1>2. /\ (Pattern!Owning' <=> Pattern!Owning) /\ (Pattern!Pointing' <=> Pattern!Pointing)
        /\ Pattern!Listed' = Pattern!Listed /\ Pattern!Targets' = Pattern!Targets
    BY <1>1 DEF Pattern!Owning, Pattern!Pointing, Pattern!Listed, Pattern!Targets
  <1>3. K = UNION {S \in SUBSET (alive \cup roots') : Good(S)}
    BY DEF Pattern!Kept
  <1>4. \A S \in SUBSET (alive \cup roots') : Good(S) => S \subseteq K
    BY <1>3
  <1>5. roots' \subseteq K
    BY <1>4
  <1>6. K \subseteq alive \cup roots'
    BY <1>3
  <1>7. ASSUME NEW p \in K PROVE p \in roots' \/ \E o \in K : Pattern!Owns(o, p)
    <2>1. PICK S \in SUBSET (alive \cup roots') : Good(S) /\ p \in S
      BY <1>3
    <2>2. S \subseteq K
      BY <1>4, <2>1
    <2> QED
      BY <2>1, <2>2
  <1>8. ASSUME Pattern!Owning, NEW b \in Boxes \cap K, NEW z \in Pattern!ToSet(refs'[b]) PROVE z \in K
    <2>1. z \in alive
      <3>1. CASE b \in alive
        <4>1. Closed(alive)
          BY <1>8 DEF GraphInv
        <4> QED
          BY <1>1, <1>8, <3>1, <4>1 DEF Closed
      <3>2. CASE b \notin alive
        <4>1. refs'[b] = <<>>
          BY <1>6, <1>8, <3>2
        <4>2. Pattern!ToSet(refs'[b]) = {}
          BY <4>1 DEF Pattern!ToSet
        <4> QED
          BY <1>8, <4>2
      <3> QED
        BY <3>1, <3>2
    <2>2. K \cup {z} \in SUBSET (alive \cup roots')
      BY <1>6, <2>1
    <2>3. Pattern!Owns(b, z)
      BY <1>8 DEF Pattern!Owns
    <2>4. Good(K \cup {z})
      <3> HIDE DEF K
      <3> QED
        BY <1>7, <1>8, <2>3
    <2> QED
      BY <1>4, <2>2, <2>4
  <1> HIDE DEF K
  <1>9. GraphInv'
    <2>1. \A p \in alive' : p \in roots' \/ (Pattern!Owning' /\ \E o \in Boxes \cap alive' : p \in Pattern!ToSet(refs'[o]))
      BY <1>1, <1>2, <1>7 DEF Pattern!Owns
    <2>2. Pattern!Owning' => Closed(alive)'
      BY <1>1, <1>2, <1>8 DEF Closed
    <2>3. alive' \subseteq made'
      BY <1>1, <1>6
    <2>4. roots' \subseteq alive'
      BY <1>1, <1>5
    <2>5. \A b \in Boxes \ made' : refs'[b] = <<>>
      OBVIOUS
    <2> QED
      BY <1>1, <1>2, <2>1, <2>2, <2>3, <2>4, <2>5 DEF GraphInv
  <1>10. called' \in Seq(alive')
    BY <1>1, EmptySeq
  <1> QED
    BY <1>1, <1>9, <1>10 DEF GraphsInv

LEMMA Smaller ==
  ASSUME NEW T, NEW s \in Seq(T), NEW r \in Seq(Pattern!ToSet(s))
  PROVE  r \in Seq(T) /\ Pattern!ToSet(r) \subseteq Pattern!ToSet(s)
  <1>1. Pattern!ToSet(s) \subseteq T
    BY Members
  <1>2. r \in Seq(T)
    BY <1>1, SeqMonotonic
  <1>3. Pattern!ToSet(r) \subseteq Pattern!ToSet(s)
    BY Members
  <1> QED
    BY <1>2, <1>3

LEMMA Bigger ==
  ASSUME NEW T, NEW s \in Seq(T), NEW o \in T
  PROVE  /\ Append(s, o) \in Seq(T) /\ Pattern!ToSet(Append(s, o)) \subseteq Pattern!ToSet(s) \cup {o}
         /\ <<o>> \in Seq(T) /\ Pattern!ToSet(<<o>>) = {o}
  <1>1. s \in Seq(Pattern!ToSet(s) \cup {o})
    BY Members, SeqMonotonic
  <1>2. Append(s, o) \in Seq(Pattern!ToSet(s) \cup {o})
    BY <1>1, AppendProperties
  <1>3. Pattern!ToSet(Append(s, o)) \subseteq Pattern!ToSet(s) \cup {o}
    BY <1>2, Members
  <1>4. Pattern!ToSet(<<o>>) = {o}
    BY DEF Pattern!ToSet
  <1> QED
    BY <1>3, <1>4, AppendProperties

LEMMA Makes ==
  ASSUME Pattern!PatternAssumption, GraphsInv, outcome = "ok", NEW o, NEW t, Pattern!Make(o, t)
  PROVE  GraphsInv'
  <1>1. GraphInv
    BY DEF GraphsInv
  <1>2. /\ o \notin made /\ o \in Pattern!Objects /\ made' = made \cup {o}
        /\ roots' = roots \cup {o}
        /\ refs' = refs /\ Pattern!Settle
    BY ListedAre DEF Pattern!Make, Pattern!Objects
  <1>3. roots \subseteq alive /\ alive \subseteq made /\ made \subseteq Pattern!Objects
    BY <1>1 DEF GraphInv
  <1>4. target' \in [Parts -> Pattern!Targets \cup {NoTarget}]
        /\ (Pattern!Pointing => \A p \in Parts \cap made' : target'[p] \in Pattern!Targets \cap made')
    <2>1. /\ target \in [Parts -> Pattern!Targets \cup {NoTarget}]
          /\ Pattern!Pointing => \A p \in Parts \cap made : target[p] \in Pattern!Targets \cap made
      BY <1>1 DEF GraphInv
    <2>2. CASE o \in Parts /\ Pattern!Pointing
      <3>1. t \in Pattern!Targets /\ t \in made /\ target' = [target EXCEPT ![o] = t]
        BY <1>3, <2>2 DEF Pattern!Make
      <3> QED
        BY <1>2, <2>1, <2>2, <3>1
    <2>3. CASE ~(o \in Parts /\ Pattern!Pointing)
      <3>1. target' = target
        BY <2>3 DEF Pattern!Make
      <3> QED
        BY <1>2, <2>1, <2>3, <3>1
    <2> QED
      BY <2>2, <2>3
  <1>5. refs' \in [Boxes -> Seq(Pattern!Listed)] /\ \A b \in Boxes : b \notin made => refs'[b] = <<>>
    BY <1>1, <1>2 DEF GraphInv
  <1>6. \A b \in Boxes : Pattern!ToSet(refs'[b]) \subseteq Pattern!ToSet(refs[b]) \cup roots
    BY <1>2
  <1>7. \A b \in Boxes \cap (roots' \ alive) : b \notin made
    BY <1>2, <1>3
  <1>8. roots' \subseteq made' /\ made \subseteq made' /\ made' \subseteq Pattern!Objects
    BY <1>2, <1>3
  <1> QED
    BY <1>1, <1>2, <1>4, <1>5, <1>6, <1>7, <1>8, Settles

LEMMA Drops ==
  ASSUME Pattern!PatternAssumption, GraphsInv, outcome = "ok", NEW o, Pattern!Drop(o)
  PROVE  GraphsInv'
  <1>1. GraphInv
    BY DEF GraphsInv
  <1>2. roots' \subseteq roots /\ made' = made /\ refs' = refs /\ target' = target /\ Pattern!Settle
    BY DEF Pattern!Drop
  <1>3. roots \subseteq alive /\ alive \subseteq made /\ made \subseteq Pattern!Objects
    BY <1>1 DEF GraphInv
  <1>4. target' \in [Parts -> Pattern!Targets \cup {NoTarget}]
        /\ (Pattern!Pointing => \A p \in Parts \cap made' : target'[p] \in Pattern!Targets \cap made')
    BY <1>1, <1>2 DEF GraphInv
  <1>5. refs' \in [Boxes -> Seq(Pattern!Listed)] /\ \A b \in Boxes : b \notin made => refs'[b] = <<>>
    BY <1>1, <1>2 DEF GraphInv
  <1>6. \A b \in Boxes : Pattern!ToSet(refs'[b]) \subseteq Pattern!ToSet(refs[b]) \cup roots
    BY <1>2
  <1>7. \A b \in Boxes \cap (roots' \ alive) : b \notin made
    BY <1>2, <1>3
  <1>8. roots' \subseteq made' /\ made \subseteq made' /\ made' \subseteq Pattern!Objects
    BY <1>2, <1>3
  <1> QED
    BY <1>1, <1>2, <1>4, <1>5, <1>6, <1>7, <1>8, Settles

\* The list of one box is changed.
LEMMA Relists ==
  ASSUME Pattern!PatternAssumption, GraphsInv, outcome = "ok", NEW b \in roots, b \in Boxes, NEW list,
         refs' = [refs EXCEPT ![b] = list], list \in Seq(Pattern!Listed),
         Pattern!ToSet(list) \subseteq Pattern!ToSet(refs[b]) \cup roots,
         roots' = roots, made' = made, target' = target, Pattern!Settle
  PROVE  GraphsInv'
  <1>1. GraphInv
    BY DEF GraphsInv
  <1>2. roots \subseteq alive /\ alive \subseteq made /\ made \subseteq Pattern!Objects
    BY <1>1 DEF GraphInv
  <1>3. target' \in [Parts -> Pattern!Targets \cup {NoTarget}]
        /\ (Pattern!Pointing => \A p \in Parts \cap made' : target'[p] \in Pattern!Targets \cap made')
    BY <1>1 DEF GraphInv
  <1>4. refs \in [Boxes -> Seq(Pattern!Listed)] /\ \A c \in Boxes : c \notin made => refs[c] = <<>>
    BY <1>1 DEF GraphInv
  <1>5. refs'[b] = list /\ \A c \in Boxes : c # b => refs'[c] = refs[c]
    BY <1>4
  <1>6. refs' \in [Boxes -> Seq(Pattern!Listed)] /\ \A c \in Boxes : c \notin made => refs'[c] = <<>>
    BY <1>2, <1>4, <1>5
  <1>7. \A c \in Boxes : Pattern!ToSet(refs'[c]) \subseteq Pattern!ToSet(refs[c]) \cup roots
    BY <1>5
  <1>8. \A c \in Boxes \cap (roots' \ alive) : c \notin made
    BY <1>2
  <1>9. roots' \subseteq made' /\ made \subseteq made' /\ made' \subseteq Pattern!Objects
    BY <1>2
  <1> QED
    BY <1>1, <1>3, <1>6, <1>7, <1>8, <1>9, Settles

LEMMA Puts ==
  ASSUME Pattern!PatternAssumption, GraphsInv, outcome = "ok", NEW b \in Boxes, NEW o, Pattern!Put(b, o)
  PROVE  GraphsInv'
  <1> DEFINE list == IF pattern = "chain" THEN <<o>> ELSE Append(refs[b], o)
  <1>1. /\ b \in roots /\ o \in roots /\ o \in Pattern!Listed
        /\ refs' = [refs EXCEPT ![b] = list]
        /\ roots' = roots /\ made' = made /\ target' = target /\ Pattern!Settle
    BY DEF Pattern!Put
  <1>2. refs[b] \in Seq(Pattern!Listed)
    BY DEF GraphsInv, GraphInv
  <1>3. list \in Seq(Pattern!Listed) /\ Pattern!ToSet(list) \subseteq Pattern!ToSet(refs[b]) \cup roots
    BY <1>1, <1>2, Bigger
  <1> HIDE DEF list
  <1> QED
    BY <1>1, <1>3, Relists

LEMMA Takes ==
  ASSUME Pattern!PatternAssumption, GraphsInv, outcome = "ok", NEW b \in Boxes, NEW o, Pattern!Take(b, o)
  PROVE  GraphsInv'
  <1> DEFINE list == CASE pattern = "chain" -> <<>>
                       [] pattern = "composite" -> Pattern!RemoveFirst(refs[b], o)
                       [] pattern = "command" /\ o = NoTarget -> Pattern!Only(refs[b], alive)
                       [] OTHER -> Pattern!Only(refs[b], Pattern!Objects \ {o})
             S == Seq(Pattern!ToSet(refs[b]))
  <1>1. /\ b \in roots /\ refs' = [refs EXCEPT ![b] = list]
        /\ roots' = roots /\ made' = made /\ target' = target /\ Pattern!Settle
    BY DEF Pattern!Take
  <1>2. refs[b] \in Seq(Pattern!Listed)
    BY DEF GraphsInv, GraphInv
  <1>3. refs[b] \in S
    BY <1>2, Members
  <1>4. <<>> \in S /\ Pattern!RemoveFirst(refs[b], o) \in S
    BY <1>3, EmptySeq, RemoveFirstIn
  <1>5. ASSUME NEW T PROVE Pattern!Only(refs[b], T) \in S
    <2>1. Pattern!Only(refs[b], T) \in Seq(Pattern!ToSet(refs[b]) \cap T)
      BY <1>3, OnlyIn
    <2> QED
      BY <2>1, SeqMonotonic
  <1>6. Pattern!Only(refs[b], alive) \in S /\ Pattern!Only(refs[b], Pattern!Objects \ {o}) \in S
    BY <1>5
  <1>7. list \in S
    <2> HIDE DEF S
    <2>1. CASE pattern = "chain"
      BY <1>4, <2>1
    <2>2. CASE pattern = "composite"
      BY <1>4, <2>2
    <2>3. CASE pattern = "command" /\ o = NoTarget
      BY <1>6, <2>3
    <2>4. CASE pattern # "chain" /\ pattern # "composite" /\ ~(pattern = "command" /\ o = NoTarget)
      BY <1>6, <2>4
    <2> QED
      BY <2>1, <2>2, <2>3, <2>4
  <1> HIDE DEF list
  <1>8. list \in Seq(Pattern!Listed) /\ Pattern!ToSet(list) \subseteq Pattern!ToSet(refs[b]) \cup roots
    BY <1>2, <1>7, Smaller
  <1> QED
    BY <1>1, <1>8, Relists

LEMMA Children ==
  ASSUME Pattern!PatternAssumption, GraphsInv, outcome = "ok", NEW b \in Boxes, NEW n, Pattern!Child(b, n)
  PROVE  GraphsInv'
  <1>1. GraphInv
    BY DEF GraphsInv
  <1>2. /\ pattern = "composite" /\ b \in roots /\ n \in 1..Len(refs[b])
        /\ roots' = roots \cup {refs[b][n]} /\ made' = made /\ refs' = refs /\ target' = target
        /\ Pattern!Settle
    BY DEF Pattern!Child
  <1>3. roots \subseteq alive /\ alive \subseteq made /\ made \subseteq Pattern!Objects
    BY <1>1 DEF GraphInv
  <1>4. refs[b][n] \in alive
    <2>1. Closed(alive)
      BY <1>1, <1>2 DEF GraphInv, Pattern!Owning
    <2>2. refs[b] \in Seq(Pattern!ToSet(refs[b]))
      BY <1>1, Members DEF GraphInv
    <2>3. refs[b][n] \in Pattern!ToSet(refs[b])
      BY <1>2, <2>2, ElementOfSeq
    <2> QED
      BY <1>2, <1>3, <2>1, <2>3 DEF Closed
  <1>5. target' \in [Parts -> Pattern!Targets \cup {NoTarget}]
        /\ (Pattern!Pointing => \A p \in Parts \cap made' : target'[p] \in Pattern!Targets \cap made')
    BY <1>1, <1>2 DEF GraphInv
  <1>6. refs' \in [Boxes -> Seq(Pattern!Listed)] /\ \A c \in Boxes : c \notin made => refs'[c] = <<>>
    BY <1>1, <1>2 DEF GraphInv
  <1>7. \A c \in Boxes : Pattern!ToSet(refs'[c]) \subseteq Pattern!ToSet(refs[c]) \cup roots
    BY <1>2
  <1>8. \A c \in Boxes \cap (roots' \ alive) : c \notin made
    BY <1>2, <1>3, <1>4
  <1>9. roots' \subseteq made' /\ made \subseteq made' /\ made' \subseteq Pattern!Objects
    BY <1>2, <1>3, <1>4
  <1> QED
    BY <1>1, <1>2, <1>5, <1>6, <1>7, <1>8, <1>9, Settles

-----------------------------------------------------------------------------

\* A call changes nothing but what it reached.
LEMMA Calls ==
  ASSUME GraphsInv, outcome = "ok", NEW list, NEW how, Pattern!Reaches(list, how),
         how = "ok" => list \in Seq(alive),
         how = "null" => pattern = "mediator" /\ Boxes \cap (made \ alive) # {},
         how = "endless" => pattern \in {"chain", "composite", "command"} /\ Looped
  PROVE  GraphsInv'
  <1>1. /\ pattern' = pattern /\ roots' = roots /\ made' = made /\ alive' = alive
        /\ refs' = refs
        /\ target' = target /\ outcome' = how /\ called' = IF how = "ok" THEN list ELSE <<>>
    BY DEF Pattern!Reaches
  <1>2. GraphInv'
    BY <1>1 DEF GraphsInv, GraphInv, Closed, Pattern!Owning, Pattern!Pointing,
       Pattern!Listed, Pattern!Targets
  <1>3. called' \in Seq(alive')
    BY <1>1, EmptySeq
  <1>4. Looped => Looped'
    BY <1>1 DEF Looped, Loop
  <1> QED
    BY <1>1, <1>2, <1>3, <1>4 DEF GraphsInv

LEMMA LockedAre ==
  ASSUME GraphInv, NEW b \in Boxes
  PROVE  Pattern!Locked(b) \in Seq(Pattern!Listed \cap alive) /\ Pattern!Locked(b) \in Seq(Pattern!ToSet(refs[b]) \cap alive)
         /\ Pattern!ToSet(Pattern!Locked(b)) \subseteq Pattern!ToSet(refs[b]) \cap alive
  <1>1. refs[b] \in Seq(Pattern!Listed) /\ refs[b] \in Seq(Pattern!ToSet(refs[b]))
    BY Members DEF GraphInv
  <1>2. Pattern!Locked(b) \in Seq(Pattern!Listed \cap alive) /\ Pattern!Locked(b) \in Seq(Pattern!ToSet(refs[b]) \cap alive)
    BY <1>1, OnlyIn DEF Pattern!Locked
  <1> QED
    BY <1>2, Members

\* What a call of a box reaches is alive.
LEMMA CallsReach ==
  ASSUME Pattern!PatternAssumption, GraphInv, NEW b \in Boxes \cap alive
  PROVE  Pattern!calls[Pattern!Depth][b] \in Seq(alive)
  <1> DEFINE R == [Pattern!Objects -> Seq(Pattern!Objects)]
             Inner(F, o) == [i \in 1..Len(Pattern!Locked(o)) |-> F[Pattern!Locked(o)[i]]]
             Body(F, n) == [o \in Pattern!Objects |->
                              CASE o \in Parts -> IF Pattern!Acts(o) THEN <<o>> ELSE <<>>
                                [] o \in Boxes /\ n > 0 -> Pattern!FlattenSeq(Inner(F, o))
                                [] OTHER -> <<>>]
             step == [m \in Nat |-> [F \in R |-> Body(F, m + 1)]]
             Eq(h) == [n \in 0..Pattern!Depth |->
                         [o \in Pattern!Objects |->
                            CASE o \in Parts -> IF Pattern!Acts(o) THEN <<o>> ELSE <<>>
                              [] o \in Boxes /\ n > 0 ->
                                   Pattern!FlattenSeq([i \in 1..Len(Pattern!Locked(o)) |-> h[n - 1][Pattern!Locked(o)[i]]])
                              [] OTHER -> <<>>]]
             start == [o \in Pattern!Objects |-> IF o \in Parts /\ Pattern!Acts(o) THEN <<o>> ELSE <<>>]
  <1>1. Pattern!Depth \in Nat
    BY PatternCounting, FS_CardinalityType DEF Pattern!Depth, Pattern!PatternAssumption
  <1>2. ASSUME NEW F, NEW T, NEW o \in Boxes,
               \A x \in Pattern!Listed \cap alive : F[x] \in Seq(T)
        PROVE  Pattern!FlattenSeq(Inner(F, o)) \in Seq(T)
    <2>1. Pattern!Locked(o) \in Seq(Pattern!Listed \cap alive)
      BY LockedAre
    <2>2. \A i \in 1..Len(Pattern!Locked(o)) : F[Pattern!Locked(o)[i]] \in Seq(T)
      BY <1>2, <2>1, ElementOfSeq
    <2>3. Inner(F, o) \in Seq(Seq(T))
      BY <2>1, <2>2
    <2> HIDE DEF Inner
    <2> QED
      BY <2>3, FlattenIn
  <1>3. Pattern!Listed \cap alive \subseteq Pattern!Objects /\ Boxes \subseteq Pattern!Objects /\ Parts \subseteq Pattern!Objects
        /\ Boxes \cap Parts = {}
    BY ListedAre DEF Pattern!Objects, Pattern!PatternAssumption
  <1> HIDE DEF Inner
  <1>4. ASSUME NEW F \in R, NEW n \in Nat PROVE Body(F, n) \in R
    <2>1. ASSUME NEW o \in Pattern!Objects PROVE Body(F, n)[o] \in Seq(Pattern!Objects)
      <3>1. CASE o \in Parts
        <4>1. <<o>> \in Seq(Pattern!Objects) /\ <<>> \in Seq(Pattern!Objects)
          BY EmptySeq
        <4>2. Body(F, n)[o] = IF Pattern!Acts(o) THEN <<o>> ELSE <<>>
          BY <1>3, <3>1
        <4> QED
          BY <4>1, <4>2
      <3>2. CASE o \in Boxes /\ n > 0
        <4>1. Pattern!FlattenSeq(Inner(F, o)) \in Seq(Pattern!Objects)
          <5>1. \A x \in Pattern!Listed \cap alive : F[x] \in Seq(Pattern!Objects)
            BY <1>3
          <5> QED
            BY <1>2, <3>2, <5>1
        <4>2. o \notin Parts
          BY <1>3, <3>2
        <4> QED
          BY <3>2, <4>1, <4>2
      <3>3. CASE o \notin Parts /\ ~(o \in Boxes /\ n > 0)
        BY <3>3
      <3> QED
        BY <3>1, <3>2, <3>3
    <2> QED
      BY <2>1
  <1>5. start \in R
    BY EmptySeq
  <1>6. step \in [Nat -> [R -> R]]
    <2> HIDE DEF Body, R
    <2> QED
      BY <1>4
  <1>7. PICK g : Starts(g, Pattern!Depth, R, start, step)
    <2> HIDE DEF step, R, start
    <2> QED
      BY <1>1, <1>5, <1>6, Iterated
  <1>8. g = Eq(g)
    <2>1. /\ g \in [0..Pattern!Depth -> R] /\ g[0] = start
          /\ \A m \in 0..(Pattern!Depth - 1) : g[m + 1] = step[m][g[m]]
      BY <1>7 DEF Starts
    <2>2. ASSUME NEW n \in 1..Pattern!Depth PROVE g[n] = Body(g[n - 1], n)
      <3>1. n - 1 \in 0..(Pattern!Depth - 1) /\ n - 1 \in 0..Pattern!Depth /\ n - 1 \in Nat /\ (n - 1) + 1 = n
        BY <1>1
      <3>2. g[n] = step[n - 1][g[n - 1]] /\ g[n - 1] \in R
        BY <2>1, <3>1
      <3> HIDE DEF Body, R
      <3> QED
        BY <3>1, <3>2
    <2>3. g[0] = Eq(g)[0]
      <3>1. start = Eq(g)[0]
        <4>1. 0 \in 0..Pattern!Depth /\ ~(0 > 0)
          BY <1>1
        <4> QED
          BY <1>3, <4>1
      <3> QED
        BY <2>1, <3>1
    <2>4. \A n \in 1..Pattern!Depth : g[n] = Eq(g)[n]
      <3> SUFFICES ASSUME NEW n \in 1..Pattern!Depth PROVE g[n] = Eq(g)[n]
        OBVIOUS
      <3>1. n \in 0..Pattern!Depth
        BY <1>1
      <3> QED
        BY <2>2, <3>1 DEF Inner
    <2>5. \A n \in 0..Pattern!Depth : n = 0 \/ n \in 1..Pattern!Depth
      BY <1>1
    <2>6. \A n \in 0..Pattern!Depth : g[n] = Eq(g)[n]
      BY <2>3, <2>4, <2>5
    <2>7. DOMAIN g = 0..Pattern!Depth /\ g = [n \in 0..Pattern!Depth |-> g[n]]
      BY <2>1
    <2> QED
      BY <2>6, <2>7
  <1> HIDE DEF Eq
  <1>9. \E h : h = Eq(h)
    BY <1>8
  <1>10. Pattern!calls = Eq(Pattern!calls)
    BY <1>9 DEF Pattern!calls, Eq
  <1>11. \A n \in 0..Pattern!Depth, o \in Pattern!Objects :
           Pattern!calls[n][o] = CASE o \in Parts -> IF Pattern!Acts(o) THEN <<o>> ELSE <<>>
                           [] o \in Boxes /\ n > 0 -> Pattern!FlattenSeq(Inner(Pattern!calls[n - 1], o))
                           [] OTHER -> <<>>
    <2>1. \A n \in 0..Pattern!Depth : Pattern!calls[n] = Eq(Pattern!calls)[n]
      BY <1>10
    <2> QED
      BY <2>1 DEF Eq, Inner
  <1> DEFINE G == {n \in 0..Pattern!Depth : \A o \in Pattern!Objects \cap alive : Pattern!calls[n][o] \in Seq(alive)}
  <1>12. ASSUME NEW n \in 0..Pattern!Depth, NEW o \in Pattern!Objects \cap alive,
                n > 0 => \A x \in Pattern!Objects \cap alive : Pattern!calls[n - 1][x] \in Seq(alive)
         PROVE  Pattern!calls[n][o] \in Seq(alive)
    <2>1. CASE o \in Parts
      <3>1. Pattern!calls[n][o] = IF Pattern!Acts(o) THEN <<o>> ELSE <<>>
        BY <1>3, <1>11, <2>1
      <3>2. <<o>> \in Seq(alive) /\ <<>> \in Seq(alive)
        BY EmptySeq
      <3> QED
        BY <3>1, <3>2
    <2>2. CASE o \in Boxes /\ n > 0
      <3>1. Pattern!calls[n][o] = Pattern!FlattenSeq(Inner(Pattern!calls[n - 1], o))
        BY <1>3, <1>11, <2>2
      <3>2. \A x \in Pattern!Listed \cap alive : Pattern!calls[n - 1][x] \in Seq(alive)
        BY <1>3, <1>12, <2>2
      <3> QED
        BY <1>2, <2>2, <3>1, <3>2
    <2>3. CASE o \notin Parts /\ ~(o \in Boxes /\ n > 0)
      <3>1. Pattern!calls[n][o] = <<>>
        BY <1>11, <2>3
      <3> QED
        BY <3>1, EmptySeq
    <2> QED
      BY <2>1, <2>2, <2>3
  <1>13. 0 \in G
    BY <1>1, <1>12
  <1>14. \A m \in 0..(Pattern!Depth - 1) : m \in G => m + 1 \in G
    <2> SUFFICES ASSUME NEW m \in 0..(Pattern!Depth - 1), m \in G PROVE m + 1 \in G
      OBVIOUS
    <2>1. m + 1 \in 0..Pattern!Depth /\ (m + 1) - 1 = m
      BY <1>1
    <2> QED
      BY <1>12, <2>1
  <1>15. Pattern!Depth \in G
    <2> HIDE DEF G
    <2>1. Pattern!Depth \in 0..Pattern!Depth
      BY <1>1
    <2> QED
      BY <1>1, <1>13, <1>14, <2>1, Upto
  <1> QED
    BY <1>3, <1>15

LEMMA LivingBoxes ==
  ASSUME Pattern!PatternAssumption
  PROVE  /\ Pattern!IsFiniteSet(Boxes \cap alive) /\ Pattern!Depth \in Nat /\ Pattern!Cardinality(Boxes \cap alive) <= Pattern!Depth
         /\ Pattern!Cardinality(Boxes \cap alive) \in Nat
  <1>1. Pattern!IsFiniteSet(Boxes) /\ Boxes \cap alive \in SUBSET Boxes
    BY DEF Pattern!PatternAssumption
  <1> QED
    BY PatternCounting, <1>1, FS_Subset, FS_CardinalityType DEF Pattern!Depth

\* Where so many nested boxes are reached, one of them contains itself.
LEMMA Nested ==
  ASSUME Pattern!PatternAssumption, GraphInv, NEW b \in Boxes \cap alive, Pattern!BoxesAt(b)[Pattern!Depth] # {}
  PROVE  Looped
  <1> DEFINE V == Boxes \cap alive
             Inside(S) == UNION {Pattern!ToSet(Pattern!Locked(c)) \cap Boxes : c \in S}
             step == [m \in Nat |-> [S \in SUBSET V |-> Inside(S)]]
             Eq(h) == [n \in 0..Pattern!Depth |->
                         IF n = 0 THEN {b} ELSE UNION {Pattern!ToSet(Pattern!Locked(c)) \cap Boxes : c \in h[n - 1]}]
             f == CHOOSE h : h = Eq(h)
  <1>1. Pattern!Depth \in Nat /\ Pattern!IsFiniteSet(V) /\ Pattern!Cardinality(V) <= Pattern!Depth
    BY LivingBoxes
  <1>2. \A c \in V : Pattern!ToSet(Pattern!Locked(c)) \cap Boxes \subseteq V /\ Pattern!ToSet(Pattern!Locked(c)) \subseteq Pattern!ToSet(refs[c])
    BY LockedAre
  <1>3. \A S \in SUBSET V : Inside(S) \in SUBSET V
    BY <1>2
  <1>4. PICK g : Starts(g, Pattern!Depth, SUBSET V, {b}, step)
    <2>1. step \in [Nat -> [SUBSET V -> SUBSET V]]
      <3> HIDE DEF V, Inside
      <3> QED
        BY <1>3
    <2>2. {b} \in SUBSET V
      OBVIOUS
    <2> HIDE DEF step, V
    <2> QED
      BY <1>1, <2>1, <2>2, Iterated
  <1> HIDE DEF V
  <1>5. /\ g \in [0..Pattern!Depth -> SUBSET V] /\ g[0] = {b}
        /\ \A m \in 0..(Pattern!Depth - 1) : g[m + 1] = Inside(g[m])
    <2>1. /\ g \in [0..Pattern!Depth -> SUBSET V] /\ g[0] = {b}
          /\ \A m \in 0..(Pattern!Depth - 1) : g[m + 1] = step[m][g[m]]
      BY <1>4 DEF Starts
    <2>2. ASSUME NEW m \in 0..(Pattern!Depth - 1) PROVE g[m + 1] = Inside(g[m])
      <3>1. m \in Nat /\ m \in 0..Pattern!Depth
        BY <1>1
      <3>2. g[m] \in SUBSET V /\ g[m + 1] = step[m][g[m]]
        BY <2>1, <3>1
      <3> HIDE DEF Inside
      <3> QED
        BY <3>1, <3>2
    <2> HIDE DEF step, Inside
    <2> QED
      BY <2>1, <2>2
  <1>6. g = Eq(g)
    <2>1. ASSUME NEW n \in 1..Pattern!Depth PROVE g[n] = Inside(g[n - 1])
      <3>1. n - 1 \in 0..(Pattern!Depth - 1) /\ (n - 1) + 1 = n
        BY <1>1
      <3> HIDE DEF Inside
      <3> QED
        BY <1>5, <3>1
    <2>2. \A n \in 0..Pattern!Depth : n = 0 \/ n \in 1..Pattern!Depth
      BY <1>1
    <2>3. \A n \in 0..Pattern!Depth : g[n] = Eq(g)[n]
      BY <1>5, <2>1, <2>2
    <2> QED
      BY <1>5, <2>3
  <1> HIDE DEF Eq
  <1>7. f = Eq(f)
    BY <1>6
  <1>8. Pattern!BoxesAt(b) = f
    BY DEF Pattern!BoxesAt, Eq
  <1> HIDE DEF f
  <1>9. f[0] = {b} /\ \A m \in 0..(Pattern!Depth - 1) : f[m + 1] = Inside(f[m])
    <2>1. ASSUME NEW m \in 0..(Pattern!Depth - 1) PROVE f[m + 1] = Inside(f[m])
      <3>1. m + 1 \in 0..Pattern!Depth /\ (m + 1) - 1 = m /\ m + 1 # 0
        BY <1>1
      <3> QED
        BY <1>7, <3>1 DEF Eq
    <2>2. f[0] = {b}
      BY <1>1, <1>7 DEF Eq
    <2> QED
      BY <2>1, <2>2
  <1>10. \A n \in 0..Pattern!Depth : f[n] \in SUBSET V
    <2> DEFINE G == {n \in 0..Pattern!Depth : f[n] \in SUBSET V}
    <2>1. 0 \in G
      BY <1>1, <1>9 DEF V
    <2>2. \A m \in 0..(Pattern!Depth - 1) : m \in G => m + 1 \in G
      <3>1. \A m \in 0..(Pattern!Depth - 1) : m + 1 \in 0..Pattern!Depth
        BY <1>1
      <3> HIDE DEF Inside
      <3> QED
        BY <1>3, <1>9, <3>1
    <2>3. \A n \in 0..Pattern!Depth : n \in G
      <3> HIDE DEF G
      <3> QED
        BY <1>1, <2>1, <2>2, Upto
    <2> QED
      BY <2>3
  <1>11. DOMAIN f = 0..Pattern!Depth /\ f = [n \in 0..Pattern!Depth |-> f[n]]
    BY <1>7 DEF Eq
  <1>12. f \in [0..Pattern!Depth -> SUBSET V]
    BY <1>10, <1>11
  <1>13. ASSUME NEW m \in 0..(Pattern!Depth - 1), NEW x \in f[m + 1] PROVE \E c \in f[m] : x \in Pattern!ToSet(refs[c])
    <2>1. PICK c \in f[m] : x \in Pattern!ToSet(Pattern!Locked(c))
      BY <1>9, <1>13
    <2>2. c \in V
      <3>1. m \in 0..Pattern!Depth
        BY <1>1
      <3> QED
        BY <1>10, <2>1, <3>1
    <2> QED
      BY <1>2, <2>1, <2>2
  <1>14. f[Pattern!Depth] # {}
    BY <1>8
  <1> QED
    BY <1>1, <1>12, <1>13, <1>14, LongWalks DEF Looped, V

\* Where lists hold parts only, no box contains another.
LEMMA NoLoops ==
  ASSUME Pattern!PatternAssumption, GraphInv, Pattern!Listed = Parts
  PROVE  ~ Looped
  <1> SUFFICES ASSUME NEW C \in SUBSET (Boxes \cap alive), Loop(C) PROVE FALSE
    BY DEF Looped
  <1>1. PICK p \in C, o \in C : p \in Pattern!ToSet(refs[o])
    BY DEF Loop
  <1>2. refs[o] \in Seq(Parts)
    BY DEF GraphInv
  <1>3. p \in Parts
    BY <1>1, <1>2, Members
  <1> QED
    BY <1>3 DEF Pattern!PatternAssumption

LEMMA Announces ==
  ASSUME Pattern!PatternAssumption, GraphsInv, outcome = "ok", NEW b \in Boxes, Pattern!Announce(b)
  PROVE  GraphsInv'
  <1> DEFINE how == IF Pattern!BoxesAt(b)[Pattern!Depth] = {} THEN "ok" ELSE "endless"
  <1>1. /\ GraphInv /\ b \in alive
        /\ pattern \in {"observer", "visitor", "composite", "command"}
        /\ Pattern!Reaches(Pattern!calls[Pattern!Depth][b], how)
    BY DEF Pattern!Announce, GraphsInv, GraphInv
  <1>2. Pattern!calls[Pattern!Depth][b] \in Seq(alive)
    BY <1>1, CallsReach
  <1>3. ASSUME how = "endless" PROVE pattern \in {"chain", "composite", "command"} /\ Looped
    <2>1. Looped
      BY <1>1, <1>3, Nested
    <2>2. Pattern!Listed # Parts
      BY <1>1, <2>1, NoLoops
    <2>3. pattern \notin {"observer", "visitor"}
      BY <2>2 DEF Pattern!Listed
    <2> QED
      BY <1>1, <2>1, <2>3
  <1>4. how # "null"
    OBVIOUS
  <1> HIDE DEF how
  <1> QED
    BY <1>1, <1>2, <1>3, <1>4, Calls

LEMMA Sends ==
  ASSUME Pattern!PatternAssumption, GraphsInv, outcome = "ok", NEW p \in Parts, Pattern!Send(p)
  PROVE  GraphsInv'
  <1> DEFINE list == IF target[p] \in alive THEN Pattern!Only(Pattern!Locked(target[p]), Pattern!Objects \ {p}) ELSE <<>>
             how == IF target[p] \in alive THEN "ok" ELSE "null"
  <1>1. GraphInv /\ pattern = "mediator" /\ p \in made /\ Pattern!Reaches(list, how)
    BY DEF Pattern!Send, GraphsInv, GraphInv
  <1>2. target[p] \in Boxes \cap made
    <2>1. Pattern!Targets = Boxes
      BY <1>1 DEF Pattern!Targets
    <2>2. Pattern!Pointing
      BY <1>1 DEF Pattern!Pointing
    <2> QED
      BY <1>1, <2>1, <2>2 DEF GraphInv
  <1>3. list \in Seq(alive)
    <2>1. CASE target[p] \in alive
      <3>1. Pattern!Locked(target[p]) \in Seq(Pattern!Listed \cap alive)
        BY <1>1, <1>2, LockedAre
      <3>2. Pattern!Only(Pattern!Locked(target[p]), Pattern!Objects \ {p}) \in Seq((Pattern!Listed \cap alive) \cap (Pattern!Objects \ {p}))
        BY <3>1, OnlyIn
      <3>3. Pattern!Only(Pattern!Locked(target[p]), Pattern!Objects \ {p}) \in Seq(alive)
        BY <3>2, SeqMonotonic
      <3> QED
        BY <2>1, <3>3
    <2>2. CASE target[p] \notin alive
      BY <2>2, EmptySeq
    <2> QED
      BY <2>1, <2>2
  <1>4. how = "null" => pattern = "mediator" /\ Boxes \cap (made \ alive) # {}
    BY <1>1, <1>2
  <1>5. how # "endless"
    OBVIOUS
  <1> HIDE DEF how, list
  <1> QED
    BY <1>1, <1>3, <1>4, <1>5, Calls

\* The handlers on the way of a request are alive.
LEMMA Handlers ==
  ASSUME Pattern!PatternAssumption, GraphInv, pattern = "chain", NEW b \in Boxes \cap alive
  PROVE  /\ Pattern!HandlerAt(b) \in [0..Pattern!Depth -> (Boxes \cap alive) \cup {NoTarget}]
         /\ Pattern!HandlerAt(b)[Pattern!Depth] # NoTarget => Looped
  <1> DEFINE V == Boxes \cap alive
             after(x) == IF x = NoTarget \/ refs[x] = <<>> THEN NoTarget ELSE refs[x][1]
             step == [m \in Nat |-> [x \in V \cup {NoTarget} |-> after(x)]]
             Eq(h) == [n \in 0..Pattern!Depth |->
                         IF n = 0 THEN b
                         ELSE LET before == h[n - 1]
                              IN  IF before = NoTarget \/ refs[before] = <<>> THEN NoTarget
                                  ELSE refs[before][1]]
             f == CHOOSE h : h = Eq(h)
  <1>1. Pattern!Depth \in Nat /\ Pattern!IsFiniteSet(V) /\ Pattern!Cardinality(V) <= Pattern!Depth
    BY LivingBoxes
  <1>2. ASSUME NEW x \in V, refs[x] # <<>>
        PROVE  refs[x][1] \in V /\ refs[x][1] \in Pattern!ToSet(refs[x])
    <2>1. Pattern!Listed = Boxes /\ Closed(alive)
      BY DEF Pattern!Listed, GraphInv, Pattern!Owning
    <2>2. refs[x] \in Seq(Boxes) /\ refs[x] \in Seq(Pattern!ToSet(refs[x]))
      BY <2>1, Members DEF GraphInv
    <2>3. 1 \in 1..Len(refs[x])
      BY <1>2, <2>2, EmptySeq
    <2>4. refs[x][1] \in Boxes /\ refs[x][1] \in Pattern!ToSet(refs[x])
      BY <2>2, <2>3, ElementOfSeq
    <2> QED
      BY <2>1, <2>4 DEF Closed
  <1>3. NoTarget \notin V
    BY DEF Pattern!PatternAssumption, Pattern!Objects
  <1>4. \A x \in V \cup {NoTarget} : after(x) \in V \cup {NoTarget}
    BY <1>2
  <1>5. PICK g : Starts(g, Pattern!Depth, V \cup {NoTarget}, b, step)
    <2>1. step \in [Nat -> [V \cup {NoTarget} -> V \cup {NoTarget}]]
      <3> HIDE DEF V, after
      <3> QED
        BY <1>4
    <2>2. b \in V \cup {NoTarget}
      OBVIOUS
    <2> HIDE DEF step, V
    <2> QED
      BY <1>1, <2>1, <2>2, Iterated
  <1> HIDE DEF V
  <1>6. /\ g \in [0..Pattern!Depth -> V \cup {NoTarget}] /\ g[0] = b
        /\ \A m \in 0..(Pattern!Depth - 1) : g[m + 1] = after(g[m])
    <2>1. /\ g \in [0..Pattern!Depth -> V \cup {NoTarget}] /\ g[0] = b
          /\ \A m \in 0..(Pattern!Depth - 1) : g[m + 1] = step[m][g[m]]
      BY <1>5 DEF Starts
    <2>2. ASSUME NEW m \in 0..(Pattern!Depth - 1) PROVE g[m + 1] = after(g[m])
      <3>1. m \in Nat /\ m \in 0..Pattern!Depth
        BY <1>1
      <3>2. g[m] \in V \cup {NoTarget} /\ g[m + 1] = step[m][g[m]]
        BY <2>1, <3>1
      <3> HIDE DEF after
      <3> QED
        BY <3>1, <3>2
    <2> HIDE DEF step, after
    <2> QED
      BY <2>1, <2>2
  <1>7. g = Eq(g)
    <2>1. ASSUME NEW n \in 1..Pattern!Depth PROVE g[n] = after(g[n - 1])
      <3>1. n - 1 \in 0..(Pattern!Depth - 1) /\ (n - 1) + 1 = n
        BY <1>1
      <3> HIDE DEF after
      <3> QED
        BY <1>6, <3>1
    <2>2. \A n \in 0..Pattern!Depth : n = 0 \/ n \in 1..Pattern!Depth
      BY <1>1
    <2>3. \A n \in 0..Pattern!Depth : g[n] = Eq(g)[n]
      BY <1>6, <2>1, <2>2
    <2> QED
      BY <1>6, <2>3
  <1> HIDE DEF Eq
  <1>8. f = Eq(f)
    BY <1>7
  <1>9. Pattern!HandlerAt(b) = f
    BY DEF Pattern!HandlerAt, Eq
  <1> HIDE DEF f
  <1>10. f[0] = b /\ \A m \in 0..(Pattern!Depth - 1) : f[m + 1] = after(f[m])
    <2>1. ASSUME NEW m \in 0..(Pattern!Depth - 1) PROVE f[m + 1] = after(f[m])
      <3>1. m + 1 \in 0..Pattern!Depth /\ (m + 1) - 1 = m /\ m + 1 # 0
        BY <1>1
      <3> QED
        BY <1>8, <3>1 DEF Eq
    <2>2. f[0] = b
      BY <1>1, <1>8 DEF Eq
    <2> QED
      BY <2>1, <2>2
  <1>11. \A n \in 0..Pattern!Depth : f[n] \in V \cup {NoTarget}
    <2> DEFINE G == {n \in 0..Pattern!Depth : f[n] \in V \cup {NoTarget}}
    <2>1. 0 \in G
      BY <1>1, <1>10 DEF V
    <2>2. \A m \in 0..(Pattern!Depth - 1) : m \in G => m + 1 \in G
      <3>1. \A m \in 0..(Pattern!Depth - 1) : m + 1 \in 0..Pattern!Depth
        BY <1>1
      <3> HIDE DEF after
      <3> QED
        BY <1>4, <1>10, <3>1
    <2>3. \A n \in 0..Pattern!Depth : n \in G
      <3> HIDE DEF G
      <3> QED
        BY <1>1, <2>1, <2>2, Upto
    <2> QED
      BY <2>3
  <1>12. DOMAIN f = 0..Pattern!Depth /\ f = [n \in 0..Pattern!Depth |-> f[n]]
    BY <1>8 DEF Eq
  <1>13. f \in [0..Pattern!Depth -> V \cup {NoTarget}]
    BY <1>11, <1>12
  <1>14. ASSUME f[Pattern!Depth] # NoTarget PROVE Looped
    <2> DEFINE walk == [n \in 0..Pattern!Depth |-> {f[n]} \ {NoTarget}]
    <2>1. walk \in [0..Pattern!Depth -> SUBSET V]
      BY <1>11
    <2>2. ASSUME NEW m \in 0..(Pattern!Depth - 1), NEW x \in walk[m + 1] PROVE \E c \in walk[m] : x \in Pattern!ToSet(refs[c])
      <3>1. m \in 0..Pattern!Depth /\ m + 1 \in 0..Pattern!Depth
        BY <1>1
      <3>2. x = f[m + 1] /\ x # NoTarget
        BY <2>2, <3>1
      <3>3. f[m] # NoTarget /\ refs[f[m]] # <<>> /\ x = refs[f[m]][1]
        BY <1>10, <3>2
      <3>4. f[m] \in V
        BY <1>11, <3>1, <3>3
      <3>5. f[m] \in walk[m]
        BY <3>1, <3>3
      <3> QED
        BY <1>2, <3>3, <3>4, <3>5
    <2>3. walk[Pattern!Depth] # {}
      BY <1>1, <1>14
    <2> HIDE DEF walk
    <2> QED
      BY <1>1, <2>1, <2>2, <2>3, LongWalks DEF Looped, V
  <1> QED
    BY <1>9, <1>13, <1>14 DEF V

LEMMA Handles ==
  ASSUME Pattern!PatternAssumption, GraphsInv, outcome = "ok", NEW b \in Boxes, NEW r, Pattern!Process(b, r)
  PROVE  GraphsInv'
  <1> DEFINE way == [n \in 1..(Pattern!Depth + 1) |-> Pattern!HandlerAt(b)[n - 1]]
             able == {h \in Boxes : r < Limit[h]}
             takers == Pattern!Only(way, able)
             list == IF takers = <<>> THEN <<>> ELSE <<Head(takers)>>
             how == IF takers = <<>> /\ way[Pattern!Depth + 1] # NoTarget THEN "endless" ELSE "ok"
             V == Boxes \cap alive
  <1>1. GraphInv /\ pattern = "chain" /\ b \in V /\ Pattern!Reaches(list, how)
    BY DEF Pattern!Process, GraphsInv, GraphInv
  <1>2. /\ Pattern!HandlerAt(b) \in [0..Pattern!Depth -> V \cup {NoTarget}]
        /\ Pattern!Depth \in Nat
        /\ Pattern!HandlerAt(b)[Pattern!Depth] # NoTarget => Looped
    BY <1>1, Handlers, LivingBoxes
  <1>3. way \in Seq(V \cup {NoTarget})
    <2>1. \A n \in 1..(Pattern!Depth + 1) : n - 1 \in 0..Pattern!Depth
      BY <1>2
    <2>2. \A n \in 1..(Pattern!Depth + 1) : Pattern!HandlerAt(b)[n - 1] \in V \cup {NoTarget}
      BY <1>2, <2>1
    <2>3. Pattern!Depth + 1 \in Nat
      BY <1>2
    <2> HIDE DEF V
    <2> QED
      BY <2>2, <2>3
  <1>4. way[Pattern!Depth + 1] = Pattern!HandlerAt(b)[Pattern!Depth]
    BY <1>2
  <1> HIDE DEF way
  <1>5. takers \in Seq(alive)
    <2>1. takers \in Seq((V \cup {NoTarget}) \cap able)
      <3> HIDE DEF V, able
      <3> QED
        BY <1>3, OnlyIn
    <2>2. (V \cup {NoTarget}) \cap able \subseteq alive
      BY DEF Pattern!PatternAssumption, Pattern!Objects
    <2> HIDE DEF takers, V, able
    <2> QED
      BY <2>1, <2>2, SeqMonotonic
  <1> HIDE DEF takers
  <1>6. list \in Seq(alive)
    <2>1. CASE takers = <<>>
      BY <2>1, EmptySeq
    <2>2. CASE takers # <<>>
      <3>1. Head(takers) \in alive
        BY <1>5, <2>2, HeadTailProperties
      <3> QED
        BY <2>2, <3>1
    <2> QED
      BY <2>1, <2>2
  <1>7. how = "endless" => Looped
    BY <1>2, <1>4
  <1>8. how # "null"
    OBVIOUS
  <1> HIDE DEF list, how
  <1> QED
    BY <1>1, <1>6, <1>7, <1>8, Calls

LEMMA GraphsNext ==
  ASSUME Pattern!PatternAssumption, GraphsInv, [Pattern!Next]_(Pattern!vars)
  PROVE  GraphsInv'
  <1>1. CASE UNCHANGED Pattern!vars
    BY <1>1 DEF Pattern!vars, GraphsInv, GraphInv, Closed, Pattern!Owning,
       Pattern!Pointing, Pattern!Listed, Pattern!Targets, Looped, Loop
  <1>2. CASE Pattern!Next
    <2>1. outcome = "ok"
      BY <1>2 DEF Pattern!Next
    <2> QED
      BY <1>2, <2>1, Makes, Drops, Puts, Takes, Children, Announces, Handles, Sends
       DEF Pattern!Next
  <1> QED
    BY <1>1, <1>2

\* design_pattern: for any number of objects and requests, whatever is made,
\* dropped, listed and called in whatever order: calls reach what is alive,
\* nothing is kept that is not owned but cycles of handlers and of pictures,
\* and calls end but for such cycles and for a mediator that is gone.
THEOREM CallsReachLiving == Pattern!PatternAssumption => (Pattern!Spec => []OwnedAndReached)
  <1> SUFFICES ASSUME Pattern!PatternAssumption PROVE Pattern!Spec => []Pattern!OwnedAndReached
    BY DEF OwnedAndReached
  <1> QED
    BY GraphsInit, GraphsNext, GraphsImply, PTL DEF Pattern!Spec

(* MessageQueue                                                            *)

\* What was sent: numbered in the order of the calls, with its end, and not
\* longer than the buffer.
Message == [number : Nat, mtype : Int, text : Nat, len : Nat]

Fits(m) == m.text < m.len /\ m.len <= TextSize

InOrder(out) ==
  \A i, j \in 1..Len(out) :
    i < j /\ out[i].mtype = out[j].mtype => out[i].number < out[j].number

MessagesInv ==
  /\ messages \in Seq(Message) /\ accepted \in Seq(Message) /\ received \in Seq(Message)
  /\ \A i \in 1..Len(accepted) : accepted[i].number <= Len(accepted) /\ Fits(accepted[i])
  /\ Len(received \o messages) = Len(accepted)
  /\ Queue!ToSet(received \o messages) = Queue!ToSet(accepted)
  /\ InOrder(received \o messages)

\* The elements of a sequence stand at its places.
LEMMA ElementsAt ==
  ASSUME NEW S, NEW s \in Seq(S)
  PROVE  /\ \A x \in Queue!ToSet(s) : \E j \in 1..Len(s) : x = s[j]
         /\ \A j \in 1..Len(s) : s[j] \in Queue!ToSet(s) /\ s[j] \in S
         /\ Len(s) \in Nat
  BY LenProperties, ElementOfSeq, Zenon DEF Queue!ToSet

\* Where what is now at place i stood before.
From(i, n, k) ==
  IF i <= n THEN i ELSE IF i = n + 1 THEN n + k ELSE IF i <= n + k THEN i - 1 ELSE i

\* A message of the queue moves behind those that came out.
LEMMA Moved ==
  ASSUME NEW before \in Seq(Message), NEW rest \in Seq(Message), NEW k \in 1..Len(rest)
  PROVE  LET old == before \o rest
             new == Append(before, rest[k]) \o Queue!RemoveAt(rest, k)
             n   == Len(before)
         IN  /\ Queue!RemoveAt(rest, k) \in Seq(Message)
             /\ Len(old) = n + Len(rest) /\ old \in Seq(Message)
             /\ Len(new) = Len(old) /\ new \in Seq(Message)
             /\ \A i \in 1..Len(old) : From(i, n, k) \in 1..Len(old) /\ new[i] = old[From(i, n, k)]
             /\ \A j \in 1..Len(old) : \E i \in 1..Len(old) : From(i, n, k) = j
  <1> DEFINE old == before \o rest
             left == Queue!RemoveAt(rest, k)
             grown == Append(before, rest[k])
             new == grown \o left
             n   == Len(before)
  <1>1. /\ n \in Nat /\ Len(rest) \in Nat /\ rest[k] \in Message
        /\ old \in Seq(Message) /\ Len(old) = n + Len(rest)
        /\ \A i \in 1..n : old[i] = before[i]
        /\ \A i \in 1..Len(rest) : old[n + i] = rest[i]
    OBVIOUS
  <1>2. /\ left \in Seq(Message) /\ Len(left) = Len(rest) - 1
        /\ \A i \in 1..(Len(rest) - 1) : left[i] = IF i < k THEN rest[i] ELSE rest[i + 1]
    <2> DEFINE a == SubSeq(rest, 1, k - 1)
               b == SubSeq(rest, k + 1, Len(rest))
    <2>1. /\ a \in Seq(Message) /\ Len(a) = k - 1
          /\ \A i \in 1..(k - 1) : a[i] = rest[i]
      BY <1>1, SubSeqProperties
    <2>2. /\ b \in Seq(Message) /\ Len(b) = Len(rest) - k
          /\ \A i \in 1..(Len(rest) - k) : b[i] = rest[k + i]
      BY <1>1, SubSeqProperties
    <2>3. left = a \o b
      BY DEF Queue!RemoveAt
    <2> HIDE DEF left
    <2> HIDE DEF a, b
    <2>4. /\ a \o b \in Seq(Message) /\ Len(a \o b) = Len(a) + Len(b)
          /\ \A i \in 1..(Len(a) + Len(b)) : (a \o b)[i] = IF i <= Len(a) THEN a[i] ELSE b[i - Len(a)]
      <3>1. a \in Seq(Message) /\ b \in Seq(Message)
        BY <2>1, <2>2
      <3> QED
        BY <3>1, ConcatProperties
    <2>6. Len(a) = k - 1 /\ Len(a) + Len(b) = Len(rest) - 1
      BY <1>1, <2>1, <2>2
    <2>5. ASSUME NEW i \in 1..(Len(rest) - 1), i >= k PROVE b[i - (k - 1)] = rest[i + 1]
      <3>1. i - (k - 1) \in 1..(Len(rest) - k)
        BY <1>1, <2>5
      <3>2. b[i - (k - 1)] = rest[k + (i - (k - 1))]
        BY <2>2, <3>1
      <3> QED
        BY <1>1, <3>2
    <2>7. ASSUME NEW i \in 1..(Len(rest) - 1)
          PROVE  (a \o b)[i] = IF i < k THEN rest[i] ELSE rest[i + 1]
      <3>1. CASE i < k
        <4>1. i \in 1..(k - 1) /\ i <= Len(a) /\ i \in 1..(Len(a) + Len(b))
          BY <1>1, <2>6, <3>1
        <4> QED
          BY <2>1, <2>4, <3>1, <4>1
      <3>2. CASE ~(i < k)
        <4>1. ~(i <= Len(a)) /\ i \in 1..(Len(a) + Len(b)) /\ i >= k
          BY <1>1, <2>6, <3>2
        <4>2. (a \o b)[i] = b[i - (k - 1)]
          BY <2>4, <2>6, <4>1
        <4> QED
          BY <2>5, <3>2, <4>1, <4>2
      <3> QED
        BY <3>1, <3>2
    <2> QED
      BY <2>3, <2>4, <2>6, <2>7
  <1>3. /\ grown \in Seq(Message) /\ Len(grown) = n + 1
        /\ \A i \in 1..(n + 1) : grown[i] = IF i <= n THEN before[i] ELSE rest[k]
    BY <1>1, AppendProperties
  <1> HIDE DEF left, grown
  <1>4. /\ new \in Seq(Message) /\ Len(new) = Len(old)
        /\ \A i \in 1..Len(old) : new[i] = IF i <= n + 1 THEN grown[i] ELSE left[i - (n + 1)]
    <2> HIDE DEF old, n
    <2>1. Len(grown) + Len(left) = Len(old)
      BY <1>1, <1>2, <1>3
    <2> QED
      BY <1>2, <1>3, <2>1, ConcatProperties
  <1> HIDE DEF old, new, n
  <1>5. ASSUME NEW i \in 1..Len(old) PROVE From(i, n, k) \in 1..Len(old) /\ new[i] = old[From(i, n, k)]
    <2>1. CASE i <= n
      <3>1. n \in Int /\ i \in 1..n /\ i <= n + 1
        BY <1>1, <2>1
      <3>2. new[i] = grown[i] /\ From(i, n, k) = i
        BY <1>4, <2>1, <3>1 DEF From
      <3>3. i \in 1..(n + 1)
        BY <3>1
      <3>4. grown[i] = before[i]
        BY <1>3, <2>1, <3>3
      <3>5. before[i] = old[i]
        BY <1>1, <3>1
      <3> QED
        BY <3>2, <3>4, <3>5
    <2>2. CASE i = n + 1
      BY <1>1, <1>3, <1>4, <2>2 DEF From
    <2>3. CASE i > n + 1 /\ i <= n + k
      <3>5. n \in Int /\ k \in Int /\ i \in Int /\ k <= Len(rest) /\ Len(rest) \in Int
        BY <1>1
      <3>1. /\ i - (n + 1) \in 1..(Len(rest) - 1) /\ i - (n + 1) < k
            /\ From(i, n, k) = n + (i - (n + 1)) /\ i - (n + 1) \in 1..Len(rest)
        BY <2>3, <3>5 DEF From
      <3>6. left[i - (n + 1)] = rest[i - (n + 1)]
        BY <1>2, <3>1
      <3>7. ~(i <= n + 1)
        BY <2>3, <3>5
      <3>2. new[i] = left[i - (n + 1)] /\ left[i - (n + 1)] = rest[i - (n + 1)]
        BY <1>4, <3>6, <3>7
      <3>3. old[n + (i - (n + 1))] = rest[i - (n + 1)]
        BY <1>1, <3>1
      <3>4. From(i, n, k) \in 1..Len(old)
        BY <1>1, <3>1
      <3> QED
        BY <3>1, <3>2, <3>3, <3>4
    <2>4. CASE i > n + k
      <3>5. /\ n \in Int /\ k \in Int /\ i \in Int /\ Len(rest) \in Int
            /\ 1 <= k /\ i <= n + Len(rest)
        BY <1>1
      <3>1. /\ i - (n + 1) \in 1..(Len(rest) - 1) /\ ~(i - (n + 1) < k)
            /\ i = n + ((i - (n + 1)) + 1) /\ (i - (n + 1)) + 1 \in 1..Len(rest)
            /\ ~(i <= n + 1) /\ ~(i <= n) /\ ~(i = n + 1) /\ ~(i <= n + k)
        BY <2>4, <3>5
      <3>4. From(i, n, k) = i
        BY <3>1 DEF From
      <3>2. left[i - (n + 1)] = rest[(i - (n + 1)) + 1] /\ new[i] = left[i - (n + 1)]
        BY <1>2, <1>4, <3>1
      <3>3. old[n + ((i - (n + 1)) + 1)] = rest[(i - (n + 1)) + 1]
        BY <1>1, <3>1
      <3> QED
        BY <3>1, <3>2, <3>3, <3>4
    <2> QED
      BY <1>1, <2>1, <2>2, <2>3, <2>4
  <1>6. ASSUME NEW j \in 1..Len(old) PROVE \E i \in 1..Len(old) : From(i, n, k) = j
    <2> DEFINE i == IF j <= n THEN j ELSE IF j < n + k THEN j + 1
                    ELSE IF j = n + k THEN n + 1 ELSE j
    <2>1. i \in 1..Len(old) /\ From(i, n, k) = j
      BY <1>1 DEF From
    <2> QED
      BY <2>1
  <1>7. left = Queue!RemoveAt(rest, k) /\ new = Append(before, rest[k]) \o Queue!RemoveAt(rest, k)
    BY DEF left, new, grown
  <1> QED
    BY <1>1, <1>2, <1>4, <1>5, <1>6, <1>7 DEF old, n, left, grown, new

\* msgrcv takes a message before which there is none of its type.
LEMMA FirstOfType ==
  ASSUME messages \in Seq(Message), NEW type \in Int, Queue!Matching(type) # {}
  PROVE  LET k == Queue!Min(Queue!Matching(type))
         IN  /\ k \in 1..Len(messages)
             /\ \A i \in 1..Len(messages) : i < k => messages[i].mtype # messages[k].mtype
  <1> DEFINE M == Queue!Matching(type)
             k == Queue!Min(M)
  <1>1. M \subseteq 1..Len(messages) /\ M \subseteq Nat
    BY DEF Queue!Matching
  <1>2. k \in M /\ \A y \in M : k <= y
    <2> DEFINE R == OpToRel(<, Nat)
    <2>1. \A a, b \in Nat : a < b => <<a, b>> \in R
      BY DEF OpToRel
    <2>2. IsWellFoundedOn(R, Nat)
      BY NatLessThanWellFounded
    <2> HIDE DEF R
    <2>3. PICK x \in M : \A y \in M : <<y, x>> \notin R
      BY <1>1, <2>2, WFMin
    <2>4. \A y \in M : ~(y < x)
      BY <1>1, <2>1, <2>3
    <2>5. \A y \in M : x <= y
      BY <1>1, <2>4
    <2> QED
      BY <2>5 DEF Queue!Min
  <1> HIDE DEF k
  <1>3. ASSUME NEW i \in 1..Len(messages), i < k, messages[i].mtype = messages[k].mtype PROVE FALSE
    <2>1. i \in M
      BY <1>2, <1>3 DEF Queue!Matching
    <2> QED
      BY <1>1, <1>2, <1>3, <2>1
  <1> QED
    BY <1>1, <1>2, <1>3 DEF k

LEMMA MInit == Queue!Init => MessagesInv
  <1> SUFFICES ASSUME Queue!Init PROVE MessagesInv
    OBVIOUS
  <1>1. /\ received \o messages = <<>> /\ accepted = <<>> /\ messages = <<>> /\ received = <<>>
        /\ Len(<<>>) = 0
    BY DEF Queue!Init
  <1> QED
    BY <1>1 DEF MessagesInv, InOrder, Queue!ToSet

LEMMA SendKeeps ==
  ASSUME Queue!MessageQueueAssumption, MessagesInv, NEW type \in Types, NEW length \in Lengths,
         Queue!Send(type, length)
  PROVE  MessagesInv'
  <1> USE DEF Queue!MessageQueueAssumption
  <1> DEFINE m == [number |-> Len(accepted) + 1, mtype |-> type, text |-> length, len |-> length + 1]
             out == received \o messages
             n == Len(accepted)
  <1>1. CASE UNCHANGED <<messages, accepted, received>>
    BY <1>1 DEF MessagesInv, Fits
  <1>2. CASE /\ messages' = Append(messages, m) /\ accepted' = Append(accepted, m)
             /\ received' = received /\ length + 1 <= TextSize
    <2>1. /\ n \in Nat /\ m \in Message /\ m.number = n + 1 /\ Fits(m)
          /\ received \in Seq(Message) /\ messages \in Seq(Message) /\ accepted \in Seq(Message)
      BY <1>2 DEF MessagesInv, Message, Fits
    <2>2. out' = Append(out, m)
      BY <1>2, <2>1
    <2>3. out \in Seq(Message) /\ Len(out) = n /\ InOrder(out) /\ Queue!ToSet(out) = Queue!ToSet(accepted)
      BY <2>1 DEF MessagesInv
    <2> HIDE DEF m, out, n
    <2>4. /\ accepted' \in Seq(Message) /\ Len(accepted') = n + 1
          /\ accepted'[n + 1] = m /\ \A i \in 1..n : accepted'[i] = accepted[i]
          /\ messages' \in Seq(Message) /\ received' \in Seq(Message)
      BY <1>2, <2>1, AppendProperties DEF n
    <2>5. /\ Len(out') = n + 1 /\ out'[n + 1] = m /\ out' \in Seq(Message)
          /\ \A i \in 1..n : out'[i] = out[i]
      BY <2>1, <2>2, <2>3, AppendProperties
    <2>6. Queue!ToSet(out') = Queue!ToSet(out) \cup {m} /\ Queue!ToSet(accepted') = Queue!ToSet(accepted) \cup {m}
      <3>1. /\ DOMAIN out = 1..n /\ DOMAIN out' = 1..(n + 1)
            /\ DOMAIN accepted = 1..n /\ DOMAIN accepted' = 1..(n + 1)
        BY <2>1, <2>3, <2>4, <2>5, LenProperties DEF n
      <3>2. \A i \in 1..(n + 1) : i = n + 1 \/ i \in 1..n
        BY <2>1
      <3>3. n + 1 \in 1..(n + 1) /\ 1..n \subseteq 1..(n + 1)
        BY <2>1
      <3> QED
        BY <2>4, <2>5, <3>1, <3>2, <3>3, Zenon DEF Queue!ToSet
    <2>7. \A i \in 1..n : out[i].number <= n
      <3> SUFFICES ASSUME NEW i \in 1..n PROVE out[i].number <= n
        OBVIOUS
      <3>1. out[i] \in Queue!ToSet(accepted)
        BY <2>3, ElementsAt
      <3>2. PICK j \in 1..n : out[i] = accepted[j]
        BY <2>1, <3>1, ElementsAt DEF n
      <3> QED
        BY <3>2 DEF MessagesInv, n
    <2>8. InOrder(out')
      <3> SUFFICES ASSUME NEW i \in 1..(n + 1), NEW j \in 1..(n + 1), i < j,
                          out'[i].mtype = out'[j].mtype
                   PROVE  out'[i].number < out'[j].number
        BY <2>5 DEF InOrder
      <3>1. i \in 1..n
        BY <2>1
      <3>2. CASE j = n + 1
        <4>1. out[i].number <= n /\ out[i] \in Message
          BY <2>3, <2>7, <3>1, ElementOfSeq
        <4>2. out[i].number \in Nat
          BY <4>1 DEF Message
        <4>3. out'[i] = out[i] /\ out'[j] = m
          BY <2>5, <3>1, <3>2
        <4> QED
          BY <2>1, <4>1, <4>2, <4>3
      <3>3. CASE j \in 1..n
        BY <2>3, <2>5, <3>1, <3>3 DEF InOrder
      <3> QED
        BY <2>1, <3>2, <3>3
    <2>9. \A i \in 1..(n + 1) : accepted'[i].number <= n + 1 /\ Fits(accepted'[i])
      <3> SUFFICES ASSUME NEW i \in 1..(n + 1)
                   PROVE  accepted'[i].number <= n + 1 /\ Fits(accepted'[i])
        OBVIOUS
      <3>1. CASE i = n + 1
        BY <2>1, <2>4, <3>1
      <3>2. CASE i \in 1..n
        <4>1. accepted[i].number <= n /\ accepted[i].number \in Nat /\ Fits(accepted[i])
          <5>1. accepted[i] \in Message
            BY <2>1, <3>2, ElementOfSeq DEF n
          <5> QED
            BY <3>2, <5>1 DEF MessagesInv, Message, n
        <4> QED
          BY <2>1, <2>4, <3>2, <4>1
      <3>3. i = n + 1 \/ i \in 1..n
        BY <2>1
      <3> QED
        BY ONLY <3>1, <3>2, <3>3
    <2> QED
      BY <2>3, <2>4, <2>5, <2>6, <2>8, <2>9 DEF MessagesInv, Fits, out
  <1> QED
    BY <1>1, <1>2 DEF Queue!Send, Queue!Fail, Queue!Size

LEMMA ReceiveKeeps ==
  ASSUME Queue!MessageQueueAssumption, MessagesInv, NEW type \in Types, Queue!Receive(type)
  PROVE  MessagesInv'
  <1> DEFINE k == Queue!Min(Queue!Matching(type))
             out == received \o messages
             n == Len(received)
  <1>1. CASE UNCHANGED <<messages, accepted, received>>
    BY <1>1 DEF MessagesInv, Fits
  <1>2. CASE /\ Queue!Matching(type) # {} /\ accepted' = accepted
             /\ messages' = Queue!RemoveAt(messages, k)
             /\ received' = Append(received, messages[k])
    <2>1. /\ type \in Int /\ messages \in Seq(Message) /\ received \in Seq(Message)
          /\ accepted \in Seq(Message)
      BY DEF Queue!MessageQueueAssumption, MessagesInv
    <2>2. /\ k \in 1..Len(messages)
          /\ \A i \in 1..Len(messages) : i < k => messages[i].mtype # messages[k].mtype
      BY <1>2, <2>1, FirstOfType
    <2> HIDE DEF k
    <2>3. /\ messages' \in Seq(Message)
          /\ Len(out) = n + Len(messages) /\ out \in Seq(Message)
          /\ Len(out') = Len(out) /\ out' \in Seq(Message)
          /\ \A i \in 1..Len(out) : From(i, n, k) \in 1..Len(out) /\ out'[i] = out[From(i, n, k)]
          /\ \A j \in 1..Len(out) : \E i \in 1..Len(out) : From(i, n, k) = j
      <3> DEFINE left == Queue!RemoveAt(messages, k)
                 new == Append(received, messages[k]) \o left
      <3>1. /\ left \in Seq(Message)
            /\ Len(out) = n + Len(messages) /\ out \in Seq(Message)
            /\ Len(new) = Len(out) /\ new \in Seq(Message)
            /\ \A i \in 1..Len(out) : From(i, n, k) \in 1..Len(out) /\ new[i] = out[From(i, n, k)]
            /\ \A j \in 1..Len(out) : \E i \in 1..Len(out) : From(i, n, k) = j
        BY <2>1, <2>2, Moved, Zenon
      <3>2. messages' = left /\ out' = new
        BY <1>2
      <3> HIDE DEF left, new, out, n
      <3> QED
        BY <3>1, <3>2
    <2>4. received' \in Seq(Message) /\ n \in Nat /\ Len(messages) \in Nat
      BY <1>2, <2>1, <2>2
    <2>5. \A i \in 1..Len(messages) : out[n + i] = messages[i]
      BY <2>1
    <2>6. InOrder(out) /\ Len(out) = Len(accepted) /\ Queue!ToSet(out) = Queue!ToSet(accepted)
      BY DEF MessagesInv
    <2> HIDE DEF out, n
    <2>8. Queue!ToSet(out') = Queue!ToSet(out)
      <3>2. ASSUME NEW x \in Queue!ToSet(out') PROVE x \in Queue!ToSet(out)
        <4>1. PICK i \in 1..Len(out) : x = out'[i]
          BY <2>3, ElementsAt
        <4>2. x = out[From(i, n, k)] /\ From(i, n, k) \in 1..Len(out)
          BY <2>3, <4>1
        <4> QED
          BY <2>3, <4>2, ElementsAt
      <3>3. ASSUME NEW x \in Queue!ToSet(out) PROVE x \in Queue!ToSet(out')
        <4>1. PICK j \in 1..Len(out) : x = out[j]
          BY <2>3, ElementsAt
        <4>2. PICK i \in 1..Len(out) : From(i, n, k) = j
          BY <2>3
        <4>3. x = out'[i] /\ i \in 1..Len(out')
          BY <2>3, <4>1, <4>2
        <4> QED
          BY <2>3, <4>3, ElementsAt
      <3> QED
        BY <3>2, <3>3
    <2>9. InOrder(out')
      <3> SUFFICES ASSUME NEW i \in 1..Len(out), NEW j \in 1..Len(out), i < j,
                          out'[i].mtype = out'[j].mtype
                   PROVE  out'[i].number < out'[j].number
        BY <2>3 DEF InOrder
      <3>1. /\ out'[i] = out[From(i, n, k)] /\ out'[j] = out[From(j, n, k)]
            /\ From(i, n, k) \in 1..Len(out) /\ From(j, n, k) \in 1..Len(out)
        BY <2>3
      <3>2. CASE From(i, n, k) < From(j, n, k)
        BY <2>6, <3>1, <3>2 DEF InOrder
      <3>3. CASE ~(From(i, n, k) < From(j, n, k))
        <4>0. i \in Int /\ j \in Int /\ n \in Int /\ k \in Int /\ k >= 1
          BY <2>2, <2>3, <2>4
        <4>1. i = n + 1 /\ From(i, n, k) = n + k /\ From(j, n, k) = j - 1 /\ j > n + 1 /\ j <= n + k
          BY <3>3, <4>0 DEF From
        <4>2. j - 1 - n \in 1..Len(messages) /\ j - 1 - n < k /\ n + (j - 1 - n) = j - 1
          BY <2>2, <2>4, <4>1
        <4>3. out[j - 1] = messages[j - 1 - n] /\ out[n + k] = messages[k]
          BY <2>2, <2>5, <4>2
        <4> QED
          BY <2>2, <3>1, <4>1, <4>2, <4>3
      <3> QED
        BY <3>2, <3>3
    <2>10. \A i \in 1..Len(accepted') : accepted'[i].number <= Len(accepted') /\ Fits(accepted'[i])
      BY <1>2 DEF MessagesInv, Fits
    <2> QED
      BY <1>2, <2>1, <2>3, <2>4, <2>6, <2>8, <2>9, <2>10 DEF MessagesInv, out
  <1> QED
    BY <1>1, <1>2 DEF Queue!Receive, Queue!Fail

LEMMA MNext == Queue!MessageQueueAssumption /\ MessagesInv /\ [Queue!Next]_(Queue!vars) => MessagesInv'
  <1> SUFFICES ASSUME Queue!MessageQueueAssumption, MessagesInv, [Queue!Next]_(Queue!vars) PROVE MessagesInv'
    OBVIOUS
  <1>1. CASE UNCHANGED <<messages, accepted, received>>
    BY <1>1 DEF MessagesInv, Fits
  <1> QED
    BY <1>1, SendKeeps, ReceiveKeeps DEF Queue!Next, Queue!vars, Queue!Create

LEMMA MImplies == MessagesInv => Queue!MessagesInOrder
  <1> SUFFICES ASSUME MessagesInv PROVE Queue!MessagesInOrder
    OBVIOUS
  <1> DEFINE out == received \o messages
  <1>1. ASSUME NEW i \in 1..Len(received) PROVE Fits(received[i])
    <2>1. /\ received \in Seq(Message) /\ messages \in Seq(Message) /\ accepted \in Seq(Message)
          /\ Queue!ToSet(out) = Queue!ToSet(accepted)
      BY DEF MessagesInv
    <2>2. out[i] = received[i] /\ i \in DOMAIN out
      BY <2>1
    <2>3. received[i] \in Queue!ToSet(accepted)
      BY <2>1, <2>2 DEF Queue!ToSet
    <2>4. PICK j \in 1..Len(accepted) : received[i] = accepted[j]
      BY <2>1, <2>3 DEF Queue!ToSet
    <2> QED
      BY <2>4 DEF MessagesInv
  <1>2. InOrder(out) /\ Len(out) = Len(accepted) /\ Queue!ToSet(out) = Queue!ToSet(accepted)
    BY DEF MessagesInv
  <1> QED
    BY <1>1, <1>2 DEF Queue!MessagesInOrder, InOrder, Fits

(* Forks                                                                   *)

ParentPlaces == {"pipe", "fork", "close", "exec", "read", "failed", "exit", "terminal", "ended"}
ChildPlaces == {"none", "close", "exec", "write", "failed", "exit", "ended"}

\* The types, and where each program goes at all.
ForksTypes ==
  /\ program \in {"pipe", "ps", "ls"} /\ piped \in BOOLEAN /\ forked \in {"no", "yes", "failed"}
  /\ at \in [Forked!Both -> ParentPlaces \cup ChildPlaces]
  /\ at["parent"] \in ParentPlaces /\ at["child"] \in ChildPlaces
  /\ fds \in [Forked!Both -> SUBSET {"read", "write"}]
  /\ pipe \in Nat /\ sent \in Nat /\ got \in Nat \cup {-1}
  /\ sent <= Forked!Goal
  /\ program = "pipe" => at["parent"] \notin {"exec", "failed"} /\ at["child"] \notin {"exec", "failed"}
  /\ program = "ls" => /\ ~piped /\ at["child"] \notin {"close", "write"}
                       /\ at["parent"] \in {"fork", "exit", "ended"}

\* Who has been made, and with which ends of the pipe.
ForksEnds ==
  /\ forked = "no" <=> at["parent"] \in {"pipe", "fork"}
  /\ forked = "yes" <=> at["child"] # "none"
  /\ at["parent"] = "pipe" => ~piped
  /\ piped /\ at["parent"] \in {"fork", "close", "exec", "read"} => "read" \in fds["parent"]
  /\ piped /\ at["parent"] = "fork" => "write" \in fds["parent"]
  /\ piped /\ at["child"] \in {"close", "exec", "write", "exit", "failed"} => "write" \in fds["child"]
  /\ at["parent"] \notin {"pipe", "fork", "close"} /\ program # "ls" => "write" \notin fds["parent"]

\* What was written is in the pipe or was read.
ForksPieces ==
  /\ got # -1 => sent = got + pipe
  /\ got = -1 => program = "pipe" /\ at["parent"] \in {"exit", "ended"} /\ (~piped \/ forked = "failed")
  /\ program = "pipe" /\ at["parent"] \in {"pipe", "fork", "close", "read"} => got = 0
  /\ program = "pipe" /\ piped /\ forked = "yes" =>
       /\ at["parent"] = "exit" => got = 1 /\ sent = 1
       /\ at["child"] \in {"exit", "ended"} /\ at["parent"] \in {"close", "read"} => sent = 1
  /\ program = "ps" /\ at["parent"] = "exit" => got = sent /\ at["child"] \in {"none", "ended"}

ForksInv == ForksTypes /\ ForksEnds /\ ForksPieces

LEMMA KInit == Forked!ForksAssumption /\ Forked!Init => ForksInv
  <1> SUFFICES ASSUME Forked!ForksAssumption, Forked!Init PROVE ForksInv
    OBVIOUS
  <1>1. /\ program \in {"pipe", "ps", "ls"} /\ piped = FALSE /\ forked = "no"
        /\ pipe = 0 /\ sent = 0 /\ got = 0 /\ Lines \in Nat
    BY DEF Forked!Init, Forked!ForksAssumption
  <1>2. /\ at["child"] = "none" /\ at["parent"] = (IF program = "ls" THEN "fork" ELSE "pipe")
        /\ at \in [Forked!Both -> ParentPlaces \cup ChildPlaces]
    BY <1>1 DEF Forked!Init, Forked!Both, ParentPlaces, ChildPlaces
  <1>3. fds["parent"] = {} /\ fds["child"] = {} /\ fds \in [Forked!Both -> SUBSET {"read", "write"}]
    <2>1. fds = [p \in Forked!Both |-> {}] /\ "parent" \in Forked!Both /\ "child" \in Forked!Both
      BY DEF Forked!Init, Forked!Both
    <2>2. {} \in SUBSET {"read", "write"}
      OBVIOUS
    <2> QED
      BY <2>1, <2>2
  <1>7. /\ at["parent"] \in ParentPlaces /\ at["child"] \in ChildPlaces
        /\ 0 \in Nat /\ 0 \in Nat \cup {-1} /\ FALSE \in BOOLEAN /\ 0 <= Forked!Goal
    BY <1>1, <1>2 DEF ParentPlaces, ChildPlaces, Forked!Goal
  <1>4. ForksTypes
    BY <1>1, <1>2, <1>3, <1>7 DEF ForksTypes
  <1>5. ForksEnds
    BY <1>1, <1>2, <1>3 DEF ForksEnds
  <1>6. ForksPieces
    BY <1>1, <1>2, <1>3 DEF ForksPieces
  <1> QED
    BY <1>4, <1>5, <1>6 DEF ForksInv

LEMMA KImplies == ForksInv => Forked!PipeWhole
  BY DEF ForksInv, ForksTypes, ForksEnds, ForksPieces, Forked!PipeWhole

\* What At does to the places.
LEMMA AtFacts ==
  ASSUME ForksInv, NEW p \in Forked!Both, NEW from, NEW to, Forked!At(p, from, to),
         to \in ParentPlaces \cup ChildPlaces
  PROVE  /\ at[p] = from /\ at'[p] = to /\ \A q \in Forked!Both : q # p => at'[q] = at[q]
         /\ at' \in [Forked!Both -> ParentPlaces \cup ChildPlaces]
  BY DEF ForksInv, ForksTypes, Forked!At

LEMMA KNext == Forked!ForksAssumption /\ ForksInv /\ [Forked!Next]_(Forked!vars) => ForksInv'
  <1> SUFFICES ASSUME Forked!ForksAssumption, ForksInv, [Forked!Next]_(Forked!vars) PROVE ForksInv'
    OBVIOUS
  <1> USE DEF Forked!Goal
  <1>0. /\ Lines \in Nat /\ "parent" \in Forked!Both /\ "child" \in Forked!Both
        /\ \A p \in Forked!Both : p = "parent" \/ p = "child"
        /\ "parent" # "child"
        /\ at \in [Forked!Both -> ParentPlaces \cup ChildPlaces]
        /\ fds \in [Forked!Both -> SUBSET {"read", "write"}]
    BY DEF Forked!ForksAssumption, ForksInv, ForksTypes, Forked!Both
  <1>1. CASE Forked!Pipe
    <2>1. /\ at["parent"] = "pipe" /\ at'["parent"] = "fork" /\ at'["child"] = at["child"]
          /\ at' \in [Forked!Both -> ParentPlaces \cup ChildPlaces]
      BY <1>0, <1>1, AtFacts DEF Forked!Pipe, ParentPlaces, ChildPlaces
    <2>2. /\ program' = program /\ forked' = forked /\ pipe' = pipe /\ sent' = sent
          /\ got' = got
          /\ piped' \in BOOLEAN
      BY <1>1 DEF Forked!Pipe
    <2>3. /\ piped' => "read" \in fds'["parent"] /\ "write" \in fds'["parent"]
          /\ fds'["child"] = fds["child"]
          /\ ~piped' => fds' = fds
          /\ fds' \in [Forked!Both -> SUBSET {"read", "write"}]
      BY <1>0, <1>1 DEF Forked!Pipe
    <2>7. ForksTypes'
      <3>1. at'["parent"] \in ParentPlaces /\ at'["child"] \in ChildPlaces
        BY <1>0, <2>1, <2>2, <2>3 DEF ForksInv, ForksTypes, ParentPlaces, ChildPlaces
      <3> QED
        BY <1>0, <2>1, <2>2, <2>3, <3>1 DEF ForksInv, ForksTypes, ForksEnds, ForksPieces
    <2>8. ForksEnds'
      BY <1>0, <2>1, <2>2, <2>3 DEF ForksInv, ForksTypes, ForksEnds, ForksPieces
    <2>9. ForksPieces'
      BY <1>0, <2>1, <2>2, <2>3 DEF ForksInv, ForksTypes, ForksEnds, ForksPieces
    <2> QED
      BY <2>7, <2>8, <2>9 DEF ForksInv
  <1>2. CASE Forked!Fork
    <2>1. at["parent"] = "fork" /\ program' = program /\ piped' = piped /\ pipe' = pipe /\ sent' = sent /\ got' = got
      BY <1>2 DEF Forked!Fork, Forked!At
    <2>2. /\ at'["parent"] = (IF program = "ls" THEN "exit" ELSE "close")
          /\ at' \in [Forked!Both -> ParentPlaces \cup ChildPlaces]
          /\ \/ /\ forked' = "yes"
                /\ at'["child"] = (IF program = "ls" THEN "exec" ELSE "close")
                /\ fds'["parent"] = fds["parent"] /\ fds'["child"] = fds["parent"]
             \/ /\ forked' = "failed" /\ at'["child"] = at["child"] /\ fds' = fds
          /\ fds' \in [Forked!Both -> SUBSET {"read", "write"}]
      BY <1>0, <1>2 DEF Forked!Fork, Forked!ParentNext, Forked!ChildNext, Forked!At,
         Forked!Both, ParentPlaces, ChildPlaces
    <2>7. ForksTypes'
      <3>1. at'["parent"] \in ParentPlaces /\ at'["child"] \in ChildPlaces
        BY <1>0, <2>1, <2>2 DEF ForksInv, ForksTypes, ParentPlaces, ChildPlaces
      <3> QED
        BY <1>0, <2>1, <2>2, <3>1 DEF ForksInv, ForksTypes, ForksEnds, ForksPieces
    <2>8. ForksEnds'
      <3>1. CASE forked' = "yes"
        BY <1>0, <2>1, <2>2, <3>1 DEF ForksInv, ForksTypes, ForksEnds, ForksPieces,
           ParentPlaces, ChildPlaces
      <3>2. CASE forked' = "failed"
        BY <1>0, <2>1, <2>2, <3>2 DEF ForksInv, ForksTypes, ForksEnds, ForksPieces,
           ParentPlaces, ChildPlaces
      <3> QED
        BY <2>2, <3>1, <3>2
    <2>9. ForksPieces'
      BY <1>0, <2>1, <2>2 DEF ForksInv, ForksTypes, ForksEnds, ForksPieces
    <2> QED
      BY <2>7, <2>8, <2>9 DEF ForksInv
  <1>3. CASE Forked!CloseParent
    <2>1. /\ at["parent"] = "close"
          /\ at'["parent"] = (IF program = "ps" THEN "exec" ELSE "read")
          /\ at'["child"] = at["child"]
          /\ at' \in [Forked!Both -> ParentPlaces \cup ChildPlaces]
      BY <1>0, <1>3, AtFacts DEF Forked!CloseParent, ParentPlaces, ChildPlaces
    <2>2. /\ program' = program /\ piped' = piped /\ forked' = forked
          /\ pipe' = pipe /\ sent' = sent /\ got' = got
      BY <1>3 DEF Forked!CloseParent
    <2>3. /\ fds'["child"] = fds["child"] /\ "write" \notin fds'["parent"]
          /\ "read" \in fds["parent"] => "read" \in fds'["parent"]
          /\ fds' \in [Forked!Both -> SUBSET {"read", "write"}]
      <3>1. fds' = [fds EXCEPT !["parent"] = @ \cap Forked!ParentKeeps]
        BY <1>3 DEF Forked!CloseParent
      <3>2. fds["parent"] \cap Forked!ParentKeeps \in SUBSET {"read", "write"}
        BY <1>0
      <3>3. fds'["parent"] = fds["parent"] \cap Forked!ParentKeeps /\ fds'["child"] = fds["child"]
        BY <1>0, <3>1
      <3>4. fds' \in [Forked!Both -> SUBSET {"read", "write"}]
        BY <1>0, <3>1, <3>2
      <3> QED
        BY <3>3, <3>4 DEF Forked!ParentKeeps
    <2>7. ForksTypes'
      <3>1. at'["parent"] \in ParentPlaces /\ at'["child"] \in ChildPlaces
        BY <1>0, <2>1, <2>2, <2>3 DEF ForksInv, ForksTypes, ParentPlaces, ChildPlaces
      <3> QED
        BY <1>0, <2>1, <2>2, <2>3, <3>1 DEF ForksInv, ForksTypes, ForksEnds, ForksPieces
    <2>8. ForksEnds'
      BY <1>0, <2>1, <2>2, <2>3 DEF ForksInv, ForksTypes, ForksEnds, ForksPieces
    <2>9. ForksPieces'
      BY <1>0, <2>1, <2>2, <2>3 DEF ForksInv, ForksTypes, ForksEnds, ForksPieces
    <2> QED
      BY <2>7, <2>8, <2>9 DEF ForksInv
  <1>4. CASE Forked!CloseChild
    <2>1. /\ at["child"] = "close"
          /\ at'["child"] = (IF program = "ps" THEN "exec" ELSE "write")
          /\ at'["parent"] = at["parent"]
          /\ at' \in [Forked!Both -> ParentPlaces \cup ChildPlaces]
      BY <1>0, <1>4, AtFacts DEF Forked!CloseChild, ParentPlaces, ChildPlaces
    <2>2. /\ program' = program /\ piped' = piped /\ forked' = forked
          /\ pipe' = pipe /\ sent' = sent /\ got' = got
      BY <1>4 DEF Forked!CloseChild
    <2>3. /\ fds'["parent"] = fds["parent"]
          /\ "write" \in fds["child"] => "write" \in fds'["child"]
          /\ fds' \in [Forked!Both -> SUBSET {"read", "write"}]
      <3>1. fds' = [fds EXCEPT !["child"] = @ \cap Forked!ChildKeeps]
        BY <1>4 DEF Forked!CloseChild
      <3>2. fds["child"] \cap Forked!ChildKeeps \in SUBSET {"read", "write"}
        BY <1>0
      <3>3. fds'["child"] = fds["child"] \cap Forked!ChildKeeps /\ fds'["parent"] = fds["parent"]
        BY <1>0, <3>1
      <3>4. fds' \in [Forked!Both -> SUBSET {"read", "write"}]
        BY <1>0, <3>1, <3>2
      <3> QED
        BY <3>3, <3>4 DEF Forked!ChildKeeps
    <2>7. ForksTypes'
      <3>1. at'["parent"] \in ParentPlaces /\ at'["child"] \in ChildPlaces
        BY <1>0, <2>1, <2>2, <2>3 DEF ForksInv, ForksTypes, ParentPlaces, ChildPlaces
      <3> QED
        BY <1>0, <2>1, <2>2, <2>3, <3>1 DEF ForksInv, ForksTypes, ForksEnds, ForksPieces
    <2>8. ForksEnds'
      BY <1>0, <2>1, <2>2, <2>3 DEF ForksInv, ForksTypes, ForksEnds, ForksPieces
    <2>9. ForksPieces'
      BY <1>0, <2>1, <2>2, <2>3 DEF ForksInv, ForksTypes, ForksEnds, ForksPieces
    <2> QED
      BY <2>7, <2>8, <2>9 DEF ForksInv
  <1>5. CASE Forked!Exec("parent")
    <2>1. /\ at["parent"] = "exec" /\ at'["parent"] \in {"exit", "failed", "read"}
          /\ at'["child"] = at["child"]
          /\ at'["parent"] = "exit" => program = "ls"
          /\ at'["parent"] = "read" => program # "ls"
          /\ at' \in [Forked!Both -> ParentPlaces \cup ChildPlaces]
      BY <1>0, <1>5, AtFacts DEF Forked!Exec, ParentPlaces, ChildPlaces
    <2>2. /\ program' = program /\ piped' = piped /\ forked' = forked
          /\ pipe' = pipe /\ sent' = sent /\ got' = got /\ fds' = fds
      BY <1>5 DEF Forked!Exec
    <2>7. ForksTypes'
      <3>1. at'["parent"] \in ParentPlaces /\ at'["child"] \in ChildPlaces
        BY <1>0, <2>1, <2>2 DEF ForksInv, ForksTypes, ParentPlaces, ChildPlaces
      <3> QED
        BY <1>0, <2>1, <2>2, <3>1 DEF ForksInv, ForksTypes, ForksEnds, ForksPieces
    <2>8. ForksEnds'
      BY <1>0, <2>1, <2>2 DEF ForksInv, ForksTypes, ForksEnds, ForksPieces
    <2>9. ForksPieces'
      BY <1>0, <2>1, <2>2 DEF ForksInv, ForksTypes, ForksEnds, ForksPieces
    <2> QED
      BY <2>7, <2>8, <2>9 DEF ForksInv
  <1>6. CASE Forked!Exec("child")
    <2>1. /\ at["child"] = "exec" /\ at'["child"] \in {"exit", "failed", "write"}
          /\ at'["parent"] = at["parent"]
          /\ at'["child"] = "exit" => program = "ls"
          /\ at'["child"] = "write" => program # "ls"
          /\ at' \in [Forked!Both -> ParentPlaces \cup ChildPlaces]
      BY <1>0, <1>6, AtFacts DEF Forked!Exec, ParentPlaces, ChildPlaces
    <2>2. /\ program' = program /\ piped' = piped /\ forked' = forked
          /\ pipe' = pipe /\ sent' = sent /\ got' = got /\ fds' = fds
      BY <1>6 DEF Forked!Exec
    <2>7. ForksTypes'
      <3>1. at'["parent"] \in ParentPlaces /\ at'["child"] \in ChildPlaces
        BY <1>0, <2>1, <2>2 DEF ForksInv, ForksTypes, ParentPlaces, ChildPlaces
      <3> QED
        BY <1>0, <2>1, <2>2, <3>1 DEF ForksInv, ForksTypes, ForksEnds, ForksPieces
    <2>8. ForksEnds'
      BY <1>0, <2>1, <2>2 DEF ForksInv, ForksTypes, ForksEnds, ForksPieces
    <2>9. ForksPieces'
      BY <1>0, <2>1, <2>2 DEF ForksInv, ForksTypes, ForksEnds, ForksPieces
    <2> QED
      BY <2>7, <2>8, <2>9 DEF ForksInv
  <1>7. CASE Forked!Write
    <2>1. /\ program' = program /\ piped' = piped /\ forked' = forked /\ fds' = fds
          /\ got' = got
          /\ at["child"] = "write"
      BY <1>7 DEF Forked!Write
    <2>2. /\ at'["parent"] = at["parent"]
          /\ at' \in [Forked!Both -> ParentPlaces \cup ChildPlaces]
          /\ \/ /\ at'["child"] = "exit" /\ pipe' = pipe /\ sent' = sent
                /\ sent = Forked!Goal \/ ~piped \/ "read" \notin fds["parent"]
             \/ /\ at'["child"] = "write" /\ pipe' = pipe + 1 /\ sent' = sent + 1
                /\ sent # Forked!Goal
      BY <1>0, <1>7, AtFacts DEF Forked!Write, Forked!NoReader, ParentPlaces,
         ChildPlaces
    <2>7. ForksTypes'
      <3>1. at'["parent"] \in ParentPlaces /\ at'["child"] \in ChildPlaces
        BY <1>0, <2>1, <2>2 DEF ForksInv, ForksTypes, ParentPlaces, ChildPlaces
      <3> QED
        BY <1>0, <2>1, <2>2, <3>1 DEF ForksInv, ForksTypes, ForksEnds, ForksPieces
    <2>8. ForksEnds'
      BY <1>0, <2>1, <2>2 DEF ForksInv, ForksTypes, ForksEnds, ForksPieces
    <2>9. ForksPieces'
      <3>1. CASE at'["child"] = "exit" /\ pipe' = pipe /\ sent' = sent
        BY <1>0, <2>1, <2>2, <3>1 DEF ForksInv, ForksTypes, ForksEnds, ForksPieces,
           ParentPlaces, ChildPlaces
      <3>2. CASE pipe' = pipe + 1 /\ sent' = sent + 1
        BY <1>0, <2>1, <2>2, <3>2 DEF ForksInv, ForksTypes, ForksEnds, ForksPieces,
           ParentPlaces, ChildPlaces
      <3> QED
        BY <2>2, <3>1, <3>2
    <2> QED
      BY <2>7, <2>8, <2>9 DEF ForksInv
  <1>8. CASE Forked!Read
    <2>1. /\ program' = program /\ piped' = piped /\ forked' = forked /\ fds' = fds
          /\ sent' = sent
          /\ at["parent"] = "read"
      BY <1>8 DEF Forked!Read
    <2>2. /\ at'["child"] = at["child"]
          /\ at' \in [Forked!Both -> ParentPlaces \cup ChildPlaces]
          /\ \/ /\ piped /\ pipe > 0 /\ pipe' = pipe - 1 /\ got' = got + 1
                /\ at'["parent"] = (IF program = "pipe" THEN "exit" ELSE "read")
             \/ /\ piped /\ pipe = 0 /\ "write" \notin fds["child"] /\ pipe' = pipe
                /\ got' = (IF program = "pipe" THEN -1 ELSE got) /\ at'["parent"] = "exit"
             \/ /\ ~piped /\ program = "pipe" /\ pipe' = pipe /\ got' = -1
                /\ at'["parent"] = "exit"
             \/ /\ ~piped /\ pipe' = pipe /\ got' = got /\ at'["parent"] = "terminal"
      BY <1>0, <1>8, AtFacts DEF Forked!Read, Forked!Take, Forked!ReadNothing,
         Forked!NoWriter, ParentPlaces, ChildPlaces
    <2>7. ForksTypes'
      <3>1. at'["parent"] \in ParentPlaces /\ at'["child"] \in ChildPlaces
        BY <1>0, <2>1, <2>2 DEF ForksInv, ForksTypes, ParentPlaces, ChildPlaces
      <3> QED
        BY <1>0, <2>1, <2>2, <3>1 DEF ForksInv, ForksTypes, ForksEnds, ForksPieces
    <2>8. ForksEnds'
      BY <1>0, <2>1, <2>2 DEF ForksInv, ForksTypes, ForksEnds, ForksPieces
    <2>9. ForksPieces'
      <3>1. CASE piped /\ pipe > 0 /\ pipe' = pipe - 1 /\ got' = got + 1
        BY <1>0, <2>1, <2>2, <3>1 DEF ForksInv, ForksTypes, ForksEnds, ForksPieces,
           ParentPlaces, ChildPlaces
      <3>2. CASE piped /\ pipe = 0 /\ pipe' = pipe
        BY <1>0, <2>1, <2>2, <3>2 DEF ForksInv, ForksTypes, ForksEnds, ForksPieces,
           ParentPlaces, ChildPlaces
      <3>3. CASE ~piped
        BY <1>0, <2>1, <2>2, <3>3 DEF ForksInv, ForksTypes, ForksEnds, ForksPieces,
           ParentPlaces, ChildPlaces
      <3> QED
        BY <2>2, <3>1, <3>2, <3>3
    <2> QED
      BY <2>7, <2>8, <2>9 DEF ForksInv
  <1>9. CASE Forked!Exit("parent")
    <2>1. /\ at["parent"] \in {"exit", "failed"} /\ at'["parent"] = "ended"
          /\ at'["child"] = at["child"]
          /\ at' \in [Forked!Both -> ParentPlaces \cup ChildPlaces]
      BY <1>0, <1>9, AtFacts DEF Forked!Exit, ParentPlaces, ChildPlaces
    <2>2. /\ program' = program /\ piped' = piped /\ forked' = forked
          /\ pipe' = pipe /\ sent' = sent /\ got' = got
      BY <1>9 DEF Forked!Exit
    <2>3. /\ fds'["parent"] = {} /\ fds'["child"] = fds["child"]
          /\ fds' \in [Forked!Both -> SUBSET {"read", "write"}]
      BY <1>0, <1>9 DEF Forked!Exit
    <2>7. ForksTypes'
      <3>1. at'["parent"] \in ParentPlaces /\ at'["child"] \in ChildPlaces
        BY <1>0, <2>1, <2>2, <2>3 DEF ForksInv, ForksTypes, ParentPlaces, ChildPlaces
      <3> QED
        BY <1>0, <2>1, <2>2, <2>3, <3>1 DEF ForksInv, ForksTypes, ForksEnds, ForksPieces
    <2>8. ForksEnds'
      BY <1>0, <2>1, <2>2, <2>3 DEF ForksInv, ForksTypes, ForksEnds, ForksPieces
    <2>9. ForksPieces'
      BY <1>0, <2>1, <2>2, <2>3 DEF ForksInv, ForksTypes, ForksEnds, ForksPieces
    <2> QED
      BY <2>7, <2>8, <2>9 DEF ForksInv
  <1>10. CASE Forked!Exit("child")
    <2>1. /\ at["child"] \in {"exit", "failed"} /\ at'["child"] = "ended"
          /\ at'["parent"] = at["parent"]
          /\ at' \in [Forked!Both -> ParentPlaces \cup ChildPlaces]
      BY <1>0, <1>10, AtFacts DEF Forked!Exit, ParentPlaces, ChildPlaces
    <2>2. /\ program' = program /\ piped' = piped /\ forked' = forked
          /\ pipe' = pipe /\ sent' = sent /\ got' = got
      BY <1>10 DEF Forked!Exit
    <2>3. /\ fds'["child"] = {} /\ fds'["parent"] = fds["parent"]
          /\ fds' \in [Forked!Both -> SUBSET {"read", "write"}]
      BY <1>0, <1>10 DEF Forked!Exit
    <2>7. ForksTypes'
      <3>1. at'["parent"] \in ParentPlaces /\ at'["child"] \in ChildPlaces
        BY <1>0, <2>1, <2>2, <2>3 DEF ForksInv, ForksTypes, ParentPlaces, ChildPlaces
      <3> QED
        BY <1>0, <2>1, <2>2, <2>3, <3>1 DEF ForksInv, ForksTypes, ForksEnds, ForksPieces
    <2>8. ForksEnds'
      BY <1>0, <2>1, <2>2, <2>3 DEF ForksInv, ForksTypes, ForksEnds, ForksPieces
    <2>9. ForksPieces'
      BY <1>0, <2>1, <2>2, <2>3 DEF ForksInv, ForksTypes, ForksEnds, ForksPieces
    <2> QED
      BY <2>7, <2>8, <2>9 DEF ForksInv
  <1>11. CASE UNCHANGED Forked!vars
    BY <1>11 DEF Forked!vars, ForksInv, ForksTypes, ForksEnds, ForksPieces
  <1> QED
    BY <1>1, <1>2, <1>3, <1>4, <1>5, <1>6, <1>7, <1>8, <1>9, <1>10, <1>11
    DEF Forked!Next, Forked!ParentStep, Forked!ChildStep

(* PingPong                                                                *)

ServerPlaces == {"setup", "accept", "recv", "send", "close", "exited"}
ClientPlaces == {"off", "connect", "send", "recv", "ended", "killed"}

EchoTypes ==
  /\ server \in ServerPlaces /\ served \in Clients \cup {Nobody} /\ size \in Nat
  /\ backlog \in Seq(Clients)
  /\ client \in [Clients -> ClientPlaces]
  /\ conn \in [Clients -> {"none", "open", "closed", "reset"}]
  /\ onWire \in [Clients -> [Echo!Ends -> Nat]] /\ arrived \in [Clients -> [Echo!Ends -> Nat]]
  /\ printed \in [Clients -> Nat]

\* The server serves one client; nobody is twice in the backlog.
EchoServer ==
  /\ server \in {"setup", "accept", "recv"} => size = 0
  /\ server \in {"setup", "accept"} => served = Nobody
  /\ server \in {"recv", "send"} => served \in Clients
  /\ \A i, j \in 1..Len(backlog) : backlog[i] = backlog[j] => i = j
  /\ served \notin Echo!ToSet(backlog)

Waits(c) == c \in Echo!ToSet(backlog)

\* What is known of one client: pieces do not multiply on the way to the
\* server, nothing but what the server had of it comes back, and it cannot
\* end before it was served.
EchoOf(c) ==
  /\ c = served \/ Waits(c) => client[c] \in {"send", "recv", "ended", "killed"}
  /\ Waits(c) \/ (c = served /\ server \in {"recv", "send"}) =>
       client[c] = "killed" \/ (conn[c] = "open" /\ client[c] \in {"send", "recv"})
  /\ c # served \/ server \in {"recv", "send"} =>
       onWire[c]["client"] = 0 /\ arrived[c]["client"] = 0 /\ printed[c] = 0
  /\ c = served => onWire[c]["client"] + arrived[c]["client"] <= size
  /\ c = served /\ size = Ping /\ server # "send" => onWire[c]["client"] + arrived[c]["client"] = Ping
  /\ client[c] \in {"off", "connect", "send"} => onWire[c]["server"] = 0 /\ arrived[c]["server"] = 0
  /\ onWire[c]["server"] + arrived[c]["server"] <= Ping
  /\ c = served => onWire[c]["server"] + arrived[c]["server"] + size <= Ping
  /\ c = served /\ client[c] = "send" => size = 0
  /\ printed[c] <= arrived[c]["client"]
  /\ client[c] = "ended" /\ c = served /\ size = Ping => printed[c] > 0

EchoInv == EchoTypes /\ EchoServer /\ \A c \in Clients : EchoOf(c)

LEMMA EImplies == Echo!PingPongAssumption /\ EchoInv => Echo!EchoWhole
  <1> SUFFICES ASSUME Echo!PingPongAssumption, EchoInv, NEW c \in Clients
               PROVE  /\ printed[c] > 0 => c = served /\ printed[c] <= size
                      /\ client[c] = "ended" /\ c = served /\ size = Ping => printed[c] > 0
    BY DEF Echo!EchoWhole
  <1>1. /\ printed[c] \in Nat /\ size \in Nat
        /\ onWire[c]["client"] \in Nat /\ arrived[c]["client"] \in Nat
    BY DEF EchoInv, EchoTypes, Echo!Ends
  <1>2. EchoOf(c)
    BY DEF EchoInv
  <1> QED
    BY <1>1, <1>2 DEF EchoOf

\* One count of pieces is changed.
LEMMA CountSet ==
  ASSUME NEW f \in [Clients -> [Echo!Ends -> Nat]], NEW c \in Clients, NEW e \in Echo!Ends, NEW n \in Nat
  PROVE  LET g == [f EXCEPT ![c][e] = n]
         IN  /\ g \in [Clients -> [Echo!Ends -> Nat]]
             /\ g[c][e] = n
             /\ \A d \in Echo!Ends : d # e => g[c][d] = f[c][d]
             /\ \A x \in Clients : x # c => g[x] = f[x]
  OBVIOUS

LEMMA EInit == Echo!PingPongAssumption /\ Echo!Init => EchoInv
  <1> SUFFICES ASSUME Echo!PingPongAssumption, Echo!Init PROVE EchoInv
    OBVIOUS
  <1>1. /\ server = "setup" /\ backlog = <<>> /\ served = Nobody /\ size = 0
        /\ Nobody \notin Clients /\ Ping \in Nat \ {0}
    BY DEF Echo!Init, Echo!PingPongAssumption
  <1>2. \A c \in Clients : /\ client[c] = "off" /\ conn[c] = "none" /\ printed[c] = 0
                           /\ \A e \in Echo!Ends : onWire[c][e] = 0 /\ arrived[c][e] = 0
    BY DEF Echo!Init, Echo!Quiet
  <1>3. "server" \in Echo!Ends /\ "client" \in Echo!Ends
    BY DEF Echo!Ends
  <1>4. EchoTypes
    <2>1. client \in [Clients -> ClientPlaces] /\ conn \in [Clients -> {"none", "open", "closed", "reset"}]
      BY DEF Echo!Init, ClientPlaces
    <2>2. onWire \in [Clients -> [Echo!Ends -> Nat]] /\ arrived \in [Clients -> [Echo!Ends -> Nat]] /\ printed \in [Clients -> Nat]
      BY DEF Echo!Init, Echo!Quiet
    <2>3. server \in ServerPlaces /\ backlog \in Seq(Clients)
      BY <1>1 DEF ServerPlaces
    <2> QED
      BY <1>1, <2>1, <2>2, <2>3 DEF EchoTypes
  <1>5. Echo!ToSet(backlog) = {} /\ Len(backlog) = 0
    BY <1>1 DEF Echo!ToSet
  <1>6. EchoServer
    BY <1>1, <1>5 DEF EchoServer
  <1>7. \A c \in Clients : EchoOf(c)
    BY <1>1, <1>2, <1>3, <1>5 DEF EchoOf, Waits
  <1> QED
    BY <1>4, <1>6, <1>7 DEF EchoInv




\* The counts are numbers.
LEMMA Counts ==
  ASSUME EchoTypes, NEW c \in Clients
  PROVE  /\ onWire[c]["server"] \in Nat /\ onWire[c]["client"] \in Nat
         /\ arrived[c]["server"] \in Nat /\ arrived[c]["client"] \in Nat
         /\ printed[c] \in Nat /\ size \in Nat
         /\ client[c] \in ClientPlaces
  BY DEF EchoTypes, Echo!Ends

LEMMA ClientGoesFacts ==
  ASSUME EchoTypes, NEW c \in Clients, NEW from, NEW to \in ClientPlaces, Echo!ClientGoes(c, from, to)
  PROVE  /\ client' \in [Clients -> ClientPlaces]
         /\ client[c] = from /\ client'[c] = to
         /\ \A x \in Clients : x # c => client'[x] = client[x]
  BY DEF EchoTypes, Echo!ClientGoes

LEMMA ENext == Echo!PingPongAssumption /\ EchoInv /\ [Echo!Next]_(Echo!vars) => EchoInv'
  <1> SUFFICES ASSUME Echo!PingPongAssumption, EchoInv, [Echo!Next]_(Echo!vars) PROVE EchoInv'
    OBVIOUS
  <1>0. /\ Nobody \notin Clients /\ Ping \in Nat \ {0}
        /\ EchoTypes /\ EchoServer /\ \A c \in Clients : EchoOf(c)
        /\ "server" \in Echo!Ends /\ "client" \in Echo!Ends /\ \A e \in Echo!Ends : e = "server" \/ e = "client"
        /\ "server" # "client"
    BY DEF Echo!PingPongAssumption, EchoInv, Echo!Ends
  <1>a. /\ \A c \in Clients :
             /\ onWire[c]["server"] \in Nat /\ onWire[c]["client"] \in Nat
             /\ arrived[c]["server"] \in Nat /\ arrived[c]["client"] \in Nat
             /\ printed[c] \in Nat /\ client[c] \in ClientPlaces
        /\ size \in Nat
    BY <1>0, Counts DEF EchoTypes
  <1>1. CASE Echo!Setup
    <2>1. /\ backlog' = backlog /\ served' = served /\ size' = size /\ client' = client
          /\ conn' = conn /\ onWire' = onWire /\ arrived' = arrived /\ printed' = printed
      BY <1>1 DEF Echo!Setup
    <2>2. server = "setup" /\ server' \in {"accept", "exited"}
      BY <1>1 DEF Echo!Setup, Echo!ServerGoes
    <2>7. EchoTypes'
      BY <1>0, <2>1, <2>2 DEF EchoTypes, ServerPlaces, ClientPlaces
    <2>8. EchoServer'
      BY <1>0, <2>1, <2>2 DEF EchoServer, EchoTypes
    <2>9. ASSUME NEW d \in Clients PROVE EchoOf(d)'
      <3>1. EchoOf(d) /\ EchoTypes /\ EchoServer
        BY <1>0
      <3> QED
        BY <1>0, <1>a, <2>1, <2>2, <3>1 DEF EchoOf, EchoServer, Waits
    <2> QED
      BY <2>7, <2>8, <2>9 DEF EchoInv
  <1>2. CASE Echo!Accept
    <2>1. /\ size' = size /\ client' = client /\ conn' = conn
          /\ onWire' = onWire /\ arrived' = arrived /\ printed' = printed
      BY <1>2 DEF Echo!Accept
    <2>2. server = "accept" /\ server' = "recv"
      BY <1>2 DEF Echo!Accept, Echo!ServerGoes
    <2>3. /\ served' \in Clients /\ served' \in Echo!ToSet(backlog)
          /\ served' \notin Echo!ToSet(backlog')
          /\ backlog' \in Seq(Clients) /\ Echo!ToSet(backlog') \subseteq Echo!ToSet(backlog)
          /\ \A i, j \in 1..Len(backlog') : backlog'[i] = backlog'[j] => i = j
      <3>1. /\ backlog \in Seq(Clients) /\ backlog # <<>>
            /\ served' = Head(backlog) /\ backlog' = Tail(backlog)
            /\ \A i, j \in 1..Len(backlog) : backlog[i] = backlog[j] => i = j
        BY <1>0, <1>2 DEF Echo!Accept, EchoTypes, EchoServer
      <3>2. /\ Len(backlog) \in Nat /\ Len(backlog) >= 1 /\ DOMAIN backlog = 1..Len(backlog)
            /\ served' = backlog[1]
            /\ backlog' \in Seq(Clients) /\ Len(backlog') = Len(backlog) - 1
            /\ DOMAIN backlog' = 1..(Len(backlog) - 1)
            /\ \A i \in 1..(Len(backlog) - 1) : backlog'[i] = backlog[i + 1]
        BY <3>1
      <3>3. \A i \in 1..(Len(backlog) - 1) : i + 1 \in 1..Len(backlog) /\ i + 1 # 1
        BY <3>2
      <3>4. 1 \in 1..Len(backlog)
        BY <3>2
      <3>5. \A i, j \in 1..Len(backlog') : backlog'[i] = backlog'[j] => i = j
        BY <3>1, <3>2, <3>3
      <3>6. served' \in Clients /\ served' \in Echo!ToSet(backlog)
        BY <3>1, <3>2, <3>4 DEF Echo!ToSet
      <3>7. served' \notin Echo!ToSet(backlog') /\ Echo!ToSet(backlog') \subseteq Echo!ToSet(backlog)
        BY <3>1, <3>2, <3>3, <3>4 DEF Echo!ToSet
      <3> QED
        BY <3>2, <3>5, <3>6, <3>7
    <2>7. EchoTypes'
      BY <1>0, <2>1, <2>2, <2>3 DEF EchoTypes, ServerPlaces, ClientPlaces
    <2>8. EchoServer'
      BY <1>0, <2>1, <2>2, <2>3 DEF EchoServer, EchoTypes
    <2>9. ASSUME NEW d \in Clients PROVE EchoOf(d)'
      <3>1. EchoOf(d) /\ EchoTypes /\ EchoServer
        BY <1>0
      <3> QED
        BY <1>0, <1>a, <2>1, <2>2, <2>3, <3>1 DEF EchoOf, EchoServer, Waits
    <2> QED
      BY <2>7, <2>8, <2>9 DEF EchoInv
  <1>3. CASE Echo!AcceptFails
    <2>1. /\ backlog' = backlog /\ served' = served /\ size' = size /\ client' = client
          /\ conn' = conn /\ onWire' = onWire /\ arrived' = arrived /\ printed' = printed
      BY <1>3 DEF Echo!AcceptFails
    <2>2. server = "accept" /\ server' = "close"
      BY <1>3 DEF Echo!AcceptFails, Echo!ServerGoes
    <2>7. EchoTypes'
      BY <1>0, <2>1, <2>2 DEF EchoTypes, ServerPlaces, ClientPlaces
    <2>8. EchoServer'
      BY <1>0, <2>1, <2>2 DEF EchoServer, EchoTypes
    <2>9. ASSUME NEW d \in Clients PROVE EchoOf(d)'
      <3>1. EchoOf(d) /\ EchoTypes /\ EchoServer
        BY <1>0
      <3> QED
        BY <1>0, <1>a, <2>1, <2>2, <3>1 DEF EchoOf, EchoServer, Waits
    <2> QED
      BY <2>7, <2>8, <2>9 DEF EchoInv
  <1>4. CASE Echo!ServerReceives
    <2>1. /\ backlog' = backlog /\ served' = served /\ client' = client
          /\ conn' = conn /\ onWire' = onWire /\ printed' = printed
      BY <1>4 DEF Echo!ServerReceives
    <2>2. /\ server = "recv" /\ size' = arrived[served]["server"] /\ served \in Clients
          /\ server' = (IF size' > 0 THEN "send" ELSE "close")
      BY <1>0, <1>4 DEF Echo!ServerReceives, EchoServer
    <2>3. /\ arrived' \in [Clients -> [Echo!Ends -> Nat]]
          /\ arrived'[served]["server"] = 0
          /\ arrived'[served]["client"] = arrived[served]["client"]
          /\ \A x \in Clients : x # served => arrived'[x] = arrived[x]
      <3>1. arrived' = [arrived EXCEPT ![served]["server"] = 0] /\ arrived \in [Clients -> [Echo!Ends -> Nat]]
        BY <1>0, <1>4 DEF Echo!ServerReceives, EchoTypes
      <3> QED
        BY <1>0, <2>2, <3>1, CountSet
    <2>4. size' \in Nat
      BY <1>a, <2>2
    <2>7. EchoTypes'
      BY <1>0, <2>1, <2>2, <2>3, <2>4 DEF EchoTypes, ServerPlaces, ClientPlaces
    <2>8. EchoServer'
      BY <1>0, <2>1, <2>2, <2>3, <2>4 DEF EchoServer, EchoTypes
    <2>9. ASSUME NEW d \in Clients PROVE EchoOf(d)'
      <3>1. EchoOf(d) /\ EchoTypes /\ EchoServer
        BY <1>0
      <3> QED
        BY <1>0, <1>a, <2>1, <2>2, <2>3, <2>4, <3>1 DEF EchoOf, EchoServer, Waits
    <2> QED
      BY <2>7, <2>8, <2>9 DEF EchoInv
  <1>5. CASE Echo!ServerSends
    <2>1. /\ backlog' = backlog /\ served' = served /\ size' = size
          /\ client' = client /\ conn' = conn /\ arrived' = arrived /\ printed' = printed
      BY <1>5 DEF Echo!ServerSends
    <2>2. server = "send" /\ server' = "close" /\ served \in Clients
      BY <1>0, <1>5 DEF Echo!ServerSends, Echo!ServerGoes, EchoServer
    <2>3. /\ onWire' \in [Clients -> [Echo!Ends -> Nat]]
          /\ onWire'[served]["client"] = size
          /\ onWire'[served]["server"] = onWire[served]["server"]
          /\ \A x \in Clients : x # served => onWire'[x] = onWire[x]
      <3>1. onWire' = [onWire EXCEPT ![served]["client"] = size] /\ onWire \in [Clients -> [Echo!Ends -> Nat]]
        BY <1>0, <1>5 DEF Echo!ServerSends, EchoTypes
      <3> QED
        BY <1>0, <1>a, <2>2, <3>1, CountSet
    <2>7. EchoTypes'
      BY <1>0, <2>1, <2>2, <2>3 DEF EchoTypes, ServerPlaces, ClientPlaces
    <2>8. EchoServer'
      BY <1>0, <2>1, <2>2, <2>3 DEF EchoServer, EchoTypes
    <2>9. ASSUME NEW d \in Clients PROVE EchoOf(d)'
      <3>1. EchoOf(d) /\ EchoTypes /\ EchoServer
        BY <1>0
      <3>2. CASE d = served
        BY <1>0, <1>a, <2>1, <2>2, <2>3, <3>1, <3>2 DEF EchoOf, EchoServer, Waits
      <3>3. CASE d # served
        BY <1>0, <1>a, <2>1, <2>2, <2>3, <3>1, <3>3 DEF EchoOf, EchoServer, Waits
      <3> QED
        BY <1>0, <3>2, <3>3
    <2> QED
      BY <2>7, <2>8, <2>9 DEF EchoInv
  <1>6. CASE Echo!ServerEnds
    <2>1. /\ served' = served /\ size' = size
          /\ client' = client /\ arrived' = arrived /\ printed' = printed
      BY <1>6 DEF Echo!ServerEnds
    <2>2. server = "close" /\ server' = "exited" /\ backlog' = <<>>
      BY <1>6 DEF Echo!ServerEnds, Echo!ServerGoes
    <2>3. /\ onWire' \in [Clients -> [Echo!Ends -> Nat]]
          /\ \A x \in Clients : /\ onWire'[x]["server"] = 0
                               /\ onWire'[x]["client"] \in {0, onWire[x]["client"]}
          /\ \A x \in Clients :
               x = served /\ arrived[x]["server"] + onWire[x]["server"] = 0 /\ x \notin Echo!ToSet(backlog) =>
                 onWire'[x]["client"] = onWire[x]["client"]
      <3> DEFINE reset == {c \in Clients :
                          \/ c \in Echo!ToSet(backlog)
                          \/ c = served /\ arrived[c]["server"] + onWire[c]["server"] > 0}
      <3>1. onWire' = [c \in Clients |->
                         [server |-> 0, client |-> IF c \in reset THEN 0 ELSE onWire[c]["client"]]]
        BY <1>6, Zenon DEF Echo!ServerEnds
      <3>2. Echo!Ends = {"server", "client"}
        BY DEF Echo!Ends
      <3>3. \A x \in Clients :
              /\ onWire'[x]["server"] = 0
              /\ onWire'[x]["client"] = IF x \in reset THEN 0 ELSE onWire[x]["client"]
        BY <3>1
      <3>4. ASSUME NEW x \in Clients
            PROVE  [server |-> 0, client |-> IF x \in reset THEN 0 ELSE onWire[x]["client"]] \in [Echo!Ends -> Nat]
        <4>1. (IF x \in reset THEN 0 ELSE onWire[x]["client"]) \in Nat
          BY <1>a
        <4> HIDE DEF reset
        <4> QED
          BY <3>2, <4>1
      <3>5. onWire' \in [Clients -> [Echo!Ends -> Nat]]
        BY <3>1, <3>4
      <3> QED
        BY <3>3, <3>5
    <2>4. conn' \in [Clients -> {"none", "open", "closed", "reset"}]
      <3> DEFINE reset == {c \in Clients :
                          \/ c \in Echo!ToSet(backlog)
                          \/ c = served /\ arrived[c]["server"] + onWire[c]["server"] > 0}
      <3>1. conn' = [c \in Clients |-> IF conn[c] # "open" THEN conn[c]
                                       ELSE IF c \in reset THEN "reset"
                                       ELSE IF c = served THEN "closed" ELSE conn[c]]
        BY <1>6, Zenon DEF Echo!ServerEnds
      <3> HIDE DEF reset
      <3> QED
        BY <1>0, <3>1 DEF EchoTypes
    <2>5. Echo!ToSet(backlog') = {} /\ Len(backlog') = 0 /\ backlog' \in Seq(Clients)
      BY <2>2 DEF Echo!ToSet
    <2>7. EchoTypes'
      BY <1>0, <2>1, <2>2, <2>3, <2>4, <2>5 DEF EchoTypes, ServerPlaces, ClientPlaces
    <2>8. EchoServer'
      BY <1>0, <2>1, <2>2, <2>3, <2>4, <2>5 DEF EchoServer, EchoTypes
    <2>9. ASSUME NEW d \in Clients PROVE EchoOf(d)'
      <3>1. EchoOf(d) /\ EchoTypes /\ EchoServer
        BY <1>0
      <3> QED
        BY <1>0, <1>a, <2>1, <2>2, <2>3, <2>4, <2>5, <3>1 DEF EchoOf, EchoServer, Waits
    <2> QED
      BY <2>7, <2>8, <2>9 DEF EchoInv
  <1>7. ASSUME NEW c \in Clients, Echo!Start(c) PROVE EchoInv'
    <2>1. /\ server' = server /\ backlog' = backlog /\ served' = served /\ size' = size
          /\ conn' = conn /\ onWire' = onWire /\ arrived' = arrived /\ printed' = printed
      BY <1>7 DEF Echo!Start
    <2>2. /\ client' \in [Clients -> ClientPlaces]
          /\ client[c] = "off" /\ client'[c] = "connect"
          /\ \A x \in Clients : x # c => client'[x] = client[x]
      BY <1>0, <1>7, ClientGoesFacts DEF Echo!Start, ClientPlaces
    <2>7. EchoTypes'
      BY <1>0, <2>1, <2>2 DEF EchoTypes, ServerPlaces, ClientPlaces
    <2>8. EchoServer'
      BY <1>0, <2>1, <2>2 DEF EchoServer, EchoTypes
    <2>9. ASSUME NEW d \in Clients PROVE EchoOf(d)'
      <3>1. EchoOf(d) /\ EchoTypes /\ EchoServer
        BY <1>0
      <3> QED
        BY <1>0, <1>a, <2>1, <2>2, <3>1 DEF EchoOf, EchoServer, Waits
    <2> QED
      BY <2>7, <2>8, <2>9 DEF EchoInv
  <1>8. ASSUME NEW c \in Clients, Echo!Connect(c) PROVE EchoInv'
    <2>a. CASE server \in {"setup", "exited"}
      <3>1. /\ server' = server /\ backlog' = backlog /\ served' = served /\ size' = size
            /\ conn' = conn /\ onWire' = onWire /\ arrived' = arrived /\ printed' = printed
        BY <1>8, <2>a DEF Echo!Connect
      <3>2. /\ client' \in [Clients -> ClientPlaces]
            /\ client[c] = "connect" /\ client'[c] = "ended"
            /\ \A x \in Clients : x # c => client'[x] = client[x]
        BY <1>0, <1>8, <2>a, ClientGoesFacts DEF Echo!Connect, ClientPlaces
      <3>7. EchoTypes'
        BY <1>0, <3>1, <3>2 DEF EchoTypes, ServerPlaces, ClientPlaces
      <3>8. EchoServer'
        BY <1>0, <3>1, <3>2 DEF EchoServer, EchoTypes
      <3>9. ASSUME NEW d \in Clients PROVE EchoOf(d)'
        <4>1. EchoOf(d) /\ EchoTypes /\ EchoServer
          BY <1>0
        <4> QED
          BY <1>0, <1>a, <3>1, <3>2, <4>1 DEF EchoOf, EchoServer, Waits
      <3> QED
        BY <3>7, <3>8, <3>9 DEF EchoInv
    <2>b. CASE server \notin {"setup", "exited"}
      <3>1. /\ server' = server /\ served' = served /\ size' = size
            /\ onWire' = onWire /\ arrived' = arrived /\ printed' = printed
        BY <1>8, <2>b DEF Echo!Connect
      <3>2. /\ client' \in [Clients -> ClientPlaces]
            /\ client[c] = "connect" /\ client'[c] = "send"
            /\ \A x \in Clients : x # c => client'[x] = client[x]
        BY <1>0, <1>8, <2>b, ClientGoesFacts DEF Echo!Connect, ClientPlaces
      <3>3. /\ conn' \in [Clients -> {"none", "open", "closed", "reset"}] /\ conn'[c] = "open"
            /\ \A x \in Clients : x # c => conn'[x] = conn[x]
        BY <1>0, <1>8, <2>b DEF Echo!Connect, EchoTypes
      <3>4. c # served /\ c \notin Echo!ToSet(backlog)
        BY <1>0, <3>2 DEF EchoOf, Waits
      <3>5. /\ backlog' \in Seq(Clients) /\ Echo!ToSet(backlog') = Echo!ToSet(backlog) \cup {c}
            /\ \A i, j \in 1..Len(backlog') : backlog'[i] = backlog'[j] => i = j
        <4>1. /\ backlog \in Seq(Clients) /\ backlog' = Append(backlog, c)
              /\ \A i, j \in 1..Len(backlog) : backlog[i] = backlog[j] => i = j
          BY <1>0, <1>8, <2>b DEF Echo!Connect, EchoTypes, EchoServer
        <4>2. /\ Len(backlog) \in Nat /\ backlog' \in Seq(Clients)
              /\ Len(backlog') = Len(backlog) + 1
              /\ DOMAIN backlog = 1..Len(backlog) /\ DOMAIN backlog' = 1..(Len(backlog) + 1)
              /\ \A i \in 1..Len(backlog) : backlog'[i] = backlog[i]
              /\ backlog'[Len(backlog) + 1] = c
          BY <4>1, AppendProperties, LenProperties
        <4>3. \A i \in 1..(Len(backlog) + 1) : i \in 1..Len(backlog) \/ i = Len(backlog) + 1
          BY <4>2
        <4>4. \A i \in 1..Len(backlog) : backlog[i] # c
          BY <3>4, <4>2 DEF Echo!ToSet
        <4>5. \A i, j \in 1..Len(backlog') : backlog'[i] = backlog'[j] => i = j
          BY <4>1, <4>2, <4>3, <4>4
        <4>6. Echo!ToSet(backlog') = Echo!ToSet(backlog) \cup {c}
          <5>1. \A i \in 1..Len(backlog) : i \in 1..(Len(backlog) + 1)
            BY <4>2
          <5>2. Len(backlog) + 1 \in 1..(Len(backlog) + 1)
            BY <4>2
          <5> QED
            BY <4>2, <4>3, <5>1, <5>2, Zenon DEF Echo!ToSet
        <4> QED
          BY <4>2, <4>5, <4>6
      <3>7. EchoTypes'
        BY <1>0, <3>1, <3>2, <3>3, <3>4, <3>5 DEF EchoTypes, ServerPlaces, ClientPlaces
      <3>8. EchoServer'
        BY <1>0, <3>1, <3>2, <3>3, <3>4, <3>5 DEF EchoServer, EchoTypes
      <3>9. ASSUME NEW d \in Clients PROVE EchoOf(d)'
        <4>1. EchoOf(d) /\ EchoTypes /\ EchoServer
          BY <1>0
        <4> QED
          BY <1>0, <1>a, <3>1, <3>2, <3>3, <3>4, <3>5, <4>1 DEF EchoOf, EchoServer,
             Waits
      <3> QED
        BY <3>7, <3>8, <3>9 DEF EchoInv
    <2> QED
      BY <2>a, <2>b
  <1>9. ASSUME NEW c \in Clients, Echo!ClientSends(c) PROVE EchoInv'
    <2>1. /\ server' = server /\ backlog' = backlog /\ served' = served
          /\ size' = size /\ conn' = conn /\ arrived' = arrived /\ printed' = printed
      BY <1>9 DEF Echo!ClientSends
    <2>2. /\ client' \in [Clients -> ClientPlaces]
          /\ client[c] = "send" /\ client'[c] = "recv"
          /\ \A x \in Clients : x # c => client'[x] = client[x]
      BY <1>0, <1>9, ClientGoesFacts DEF Echo!ClientSends, ClientPlaces
    <2>3. /\ onWire' \in [Clients -> [Echo!Ends -> Nat]]
          /\ onWire'[c]["server"] \in {Ping, onWire[c]["server"]}
          /\ onWire'[c]["client"] = onWire[c]["client"]
          /\ \A x \in Clients : x # c => onWire'[x] = onWire[x]
      <3>1. /\ onWire' = onWire \/ onWire' = [onWire EXCEPT ![c]["server"] = Ping]
            /\ onWire \in [Clients -> [Echo!Ends -> Nat]] /\ Ping \in Nat
        BY <1>0, <1>9 DEF Echo!ClientSends, EchoTypes
      <3>2. CASE onWire' = [onWire EXCEPT ![c]["server"] = Ping]
        BY <1>0, <3>1, <3>2, CountSet
      <3> QED
        BY <1>0, <3>1, <3>2
    <2>7. EchoTypes'
      BY <1>0, <2>1, <2>2, <2>3 DEF EchoTypes, ServerPlaces, ClientPlaces
    <2>8. EchoServer'
      BY <1>0, <2>1, <2>2, <2>3 DEF EchoServer, EchoTypes
    <2>9. ASSUME NEW d \in Clients PROVE EchoOf(d)'
      <3>1. EchoOf(d) /\ EchoTypes /\ EchoServer
        BY <1>0
      <3> QED
        BY <1>0, <1>a, <2>1, <2>2, <2>3, <3>1 DEF EchoOf, EchoServer, Waits
    <2> QED
      BY <2>7, <2>8, <2>9 DEF EchoInv
  <1>10. ASSUME NEW c \in Clients, Echo!ClientReceives(c) PROVE EchoInv'
    <2>1. /\ server' = server /\ backlog' = backlog /\ served' = served
          /\ size' = size /\ conn' = conn /\ onWire' = onWire /\ arrived' = arrived
      BY <1>10 DEF Echo!ClientReceives
    <2>2. /\ client' \in [Clients -> ClientPlaces]
          /\ client[c] = "recv" /\ client'[c] = "ended"
          /\ \A x \in Clients : x # c => client'[x] = client[x]
      BY <1>0, <1>10, ClientGoesFacts DEF Echo!ClientReceives, ClientPlaces
    <2>3. /\ printed' \in [Clients -> Nat] /\ printed'[c] = arrived[c]["client"]
          /\ \A x \in Clients : x # c => printed'[x] = printed[x]
          /\ arrived[c]["client"] > 0 \/ (conn[c] # "open" /\ onWire[c]["client"] = 0)
      BY <1>0, <1>a, <1>10 DEF Echo!ClientReceives, EchoTypes
    <2>7. EchoTypes'
      BY <1>0, <2>1, <2>2, <2>3 DEF EchoTypes, ServerPlaces, ClientPlaces
    <2>8. EchoServer'
      BY <1>0, <2>1, <2>2, <2>3 DEF EchoServer, EchoTypes
    <2>9. ASSUME NEW d \in Clients PROVE EchoOf(d)'
      <3>1. EchoOf(d) /\ EchoTypes /\ EchoServer
        BY <1>0
      <3> QED
        BY <1>0, <1>a, <2>1, <2>2, <2>3, <3>1 DEF EchoOf, EchoServer, Waits
    <2> QED
      BY <2>7, <2>8, <2>9 DEF EchoInv
  <1>11. ASSUME NEW c \in Clients, Echo!Kill(c) PROVE EchoInv'
    <2>1. /\ server' = server /\ backlog' = backlog /\ served' = served
          /\ size' = size /\ onWire' = onWire /\ arrived' = arrived /\ printed' = printed
      BY <1>11 DEF Echo!Kill
    <2>2. /\ client' \in [Clients -> ClientPlaces]
          /\ client[c] \in {"send", "recv"} /\ client'[c] = "killed"
          /\ \A x \in Clients : x # c => client'[x] = client[x]
      BY <1>0, <1>11, ClientGoesFacts DEF Echo!Kill, ClientPlaces
    <2>3. /\ conn' \in [Clients -> {"none", "open", "closed", "reset"}]
          /\ \A x \in Clients : x # c => conn'[x] = conn[x]
      BY <1>0, <1>11 DEF Echo!Kill, EchoTypes
    <2>7. EchoTypes'
      BY <1>0, <2>1, <2>2, <2>3 DEF EchoTypes, ServerPlaces, ClientPlaces
    <2>8. EchoServer'
      BY <1>0, <2>1, <2>2, <2>3 DEF EchoServer, EchoTypes
    <2>9. ASSUME NEW d \in Clients PROVE EchoOf(d)'
      <3>1. EchoOf(d) /\ EchoTypes /\ EchoServer
        BY <1>0
      <3> QED
        BY <1>0, <1>a, <2>1, <2>2, <2>3, <3>1 DEF EchoOf, EchoServer, Waits
    <2> QED
      BY <2>7, <2>8, <2>9 DEF EchoInv
  <1>12. ASSUME NEW c \in Clients, NEW e \in Echo!Ends, Echo!Deliver(c, e) PROVE EchoInv'
    <2>1. /\ server' = server /\ backlog' = backlog /\ served' = served
          /\ size' = size /\ client' = client /\ conn' = conn /\ printed' = printed
      BY <1>12 DEF Echo!Deliver
    <2>2. PICK n \in 1..onWire[c][e] :
            /\ onWire' \in [Clients -> [Echo!Ends -> Nat]]
            /\ arrived' \in [Clients -> [Echo!Ends -> Nat]]
            /\ onWire'[c][e] = onWire[c][e] - n /\ arrived'[c][e] = arrived[c][e] + n
            /\ \A d \in Echo!Ends : d # e => onWire'[c][d] = onWire[c][d] /\ arrived'[c][d] = arrived[c][d]
            /\ \A x \in Clients : x # c => onWire'[x] = onWire[x] /\ arrived'[x] = arrived[x]
      <3>1. PICK n \in 1..onWire[c][e] :
              /\ onWire' = [onWire EXCEPT ![c][e] = onWire[c][e] - n]
              /\ arrived' = [arrived EXCEPT ![c][e] = arrived[c][e] + n]
        BY <1>12 DEF Echo!Deliver
      <3>2. /\ onWire \in [Clients -> [Echo!Ends -> Nat]]
            /\ arrived \in [Clients -> [Echo!Ends -> Nat]]
            /\ onWire[c][e] \in Nat /\ arrived[c][e] \in Nat
        BY <1>0 DEF EchoTypes
      <3>3. onWire[c][e] - n \in Nat /\ arrived[c][e] + n \in Nat
        BY <3>2
      <3>4. /\ onWire' \in [Clients -> [Echo!Ends -> Nat]] /\ onWire'[c][e] = onWire[c][e] - n
            /\ \A d \in Echo!Ends : d # e => onWire'[c][d] = onWire[c][d]
            /\ \A x \in Clients : x # c => onWire'[x] = onWire[x]
        BY <3>1, <3>2, <3>3, CountSet
      <3>5. /\ arrived' \in [Clients -> [Echo!Ends -> Nat]]
            /\ arrived'[c][e] = arrived[c][e] + n
            /\ \A d \in Echo!Ends : d # e => arrived'[c][d] = arrived[c][d]
            /\ \A x \in Clients : x # c => arrived'[x] = arrived[x]
        BY <3>1, <3>2, <3>3, CountSet
      <3> QED
        BY <3>4, <3>5
    <2>7. EchoTypes'
      BY <1>0, <2>1, <2>2 DEF EchoTypes, ServerPlaces, ClientPlaces
    <2>8. EchoServer'
      BY <1>0, <2>1, <2>2 DEF EchoServer, EchoTypes
    <2>9. ASSUME NEW d \in Clients PROVE EchoOf(d)'
      <3>1. EchoOf(d) /\ EchoTypes /\ EchoServer
        BY <1>0
      <3>2. CASE d # c
        BY <1>0, <1>a, <2>1, <2>2, <3>1, <3>2 DEF EchoOf, EchoServer, Waits
      <3>n. /\ onWire[d]["server"] \in Nat /\ onWire[d]["client"] \in Nat
            /\ arrived[d]["server"] \in Nat /\ arrived[d]["client"] \in Nat
            /\ printed[d] \in Nat /\ size \in Nat
        BY <1>a
      <3>3. CASE d = c /\ e = "server"
        <4>1. PICK m \in 1..onWire[d]["server"] :
                 /\ onWire'[d]["server"] = onWire[d]["server"] - m
                 /\ arrived'[d]["server"] = arrived[d]["server"] + m
          BY <2>2, <3>3
        <4>2. onWire'[d]["client"] = onWire[d]["client"] /\ arrived'[d]["client"] = arrived[d]["client"]
          BY <1>0, <2>2, <3>3
        <4>3. /\ onWire'[d]["server"] + arrived'[d]["server"] = onWire[d]["server"] + arrived[d]["server"]
              /\ onWire'[d]["server"] \in Nat /\ arrived'[d]["server"] \in Nat
              /\ onWire[d]["server"] # 0
          BY <3>n, <4>1
        <4> QED
          BY <1>0, <2>1, <3>1, <3>n, <4>2, <4>3 DEF EchoOf, Waits
      <3>4. CASE d = c /\ e = "client"
        <4>1. PICK m \in 1..onWire[d]["client"] :
                 /\ onWire'[d]["client"] = onWire[d]["client"] - m
                 /\ arrived'[d]["client"] = arrived[d]["client"] + m
          BY <2>2, <3>4
        <4>2. onWire'[d]["server"] = onWire[d]["server"] /\ arrived'[d]["server"] = arrived[d]["server"]
          BY <1>0, <2>2, <3>4
        <4>3. /\ onWire'[d]["client"] + arrived'[d]["client"] = onWire[d]["client"] + arrived[d]["client"]
              /\ onWire'[d]["client"] \in Nat /\ arrived'[d]["client"] \in Nat
              /\ arrived'[d]["client"] >= arrived[d]["client"]
              /\ onWire[d]["client"] # 0
          BY <3>n, <4>1
        <4> QED
          BY <1>0, <2>1, <3>1, <3>n, <4>2, <4>3 DEF EchoOf, Waits
      <3> QED
        BY <1>0, <3>2, <3>3, <3>4
    <2> QED
      BY <2>7, <2>8, <2>9 DEF EchoInv
  <1>13. CASE UNCHANGED Echo!vars
    BY <1>0, <1>13 DEF Echo!vars, EchoInv, EchoTypes, EchoServer, EchoOf, Waits,
       Echo!ToSet
  <1> QED
    BY <1>1, <1>2, <1>3, <1>4, <1>5, <1>6, <1>7, <1>8, <1>9, <1>10, <1>11, <1>12, <1>13
    DEF Echo!Next, Echo!Server, Echo!Client

(* Processes                                                               *)

\* lec36, lec39 and GameBook: whatever the pairs do, the receiver has of each
\* type the messages of the sender in their order and whole, the readers of a
\* pipe have what was written to it and nothing else, and a client of the echo
\* prints what the server sent to it.
THEOREM PairsDeliver == Spec => []Delivered
  <1> DEFINE IInv == MessagesInv /\ ForksInv /\ EchoInv
  <1>a. Queue!MessageQueueAssumption /\ Forked!ForksAssumption /\ Echo!PingPongAssumption
    BY ProcessesAssumption
  <1>1. Init => IInv
    BY <1>a, MInit, KInit, EInit DEF Init
  <1>2. IInv /\ [Next]_vars => IInv'
    <2> SUFFICES ASSUME IInv, [Next]_vars PROVE IInv'
      OBVIOUS
    <2>1. [Queue!Next]_(Queue!vars)
      BY DEF Next, QueueStep, ForkStep, EchoStep, vars, queueVars, Queue!vars
    <2>2. [Forked!Next]_(Forked!vars)
      BY DEF Next, QueueStep, ForkStep, EchoStep, vars, forkVars, Forked!vars
    <2>3. [Echo!Next]_(Echo!vars)
      BY DEF Next, QueueStep, ForkStep, EchoStep, vars, echoVars, Echo!vars
    <2> QED
      BY <1>a, <2>1, <2>2, <2>3, MNext, KNext, ENext
  <1>3. IInv => Delivered
    BY <1>a, MImplies, KImplies, EImplies DEF Delivered
  <1> QED
    BY <1>1, <1>2, <1>3, PTL DEF Spec
=============================================================================
