------------------------------ MODULE PageAlloc ------------------------------
(***************************************************************************)
(* linux_learning/lec23/lec23.cc, class ppage_alloc: free blocks of 2^i    *)
(* pages are kept in a list per order i; get_pages takes the first block   *)
(* of the smallest order that its rounding allows and gives what is left   *)
(* over back as smaller blocks.  Addresses are counted in pages.  (Of two  *)
(* definitions side by side the one Next does not use has a fault in it.)  *)
(***************************************************************************)
EXTENDS Integers, Sequences, FiniteSetsExt

CONSTANTS MaxOrder,  \* MAX_ORDER: the number of lists
          Regions    \* the blocks the program adds, as <<order, address>>

PageAssumption == MaxOrder \in Nat \ {0} /\ Regions \subseteq Nat \X Nat

\* mul(2, k)
mul2[k \in 0..MaxOrder] == IF k = 0 THEN 1 ELSE 2 * mul2[k - 1]

LargestRequest == mul2[MaxOrder - 1]  \* 32 in get_pages's assert, for order 6

VARIABLES
  free,       \* free_area_
  broken,     \* an index past the end of free_area_ was used
  request,    \* the argument of the last get_pages
  result,     \* what it returned
  given,      \* history: the pages added
  held,       \* history: the pages handed out
  handed,     \* history: the sum of the requests granted
  emptyCalls  \* history: how many get_pages(0) were granted

vars == <<free, broken, request, result, given, held, handed, emptyCalls>>

Orders == 0..(MaxOrder - 1)
Pages(address, n) == address..(address + n - 1)

Init ==
  /\ free = [i \in Orders |-> <<>>]
  /\ broken = FALSE
  /\ request = 0
  /\ result = 0
  /\ given = {}
  /\ held = {}
  /\ handed = 0
  /\ emptyCalls = 0

\* the caller adds memory that is not part of what was added before
Add(order, address) ==
  /\ ~broken
  /\ order <= MaxOrder /\ order >= 0   \* the assert
  /\ Pages(address, mul2[order]) \intersect given = {}
  /\ given' = given \union Pages(address, mul2[order])
  /\ IF order \in Orders
     THEN free' = [free EXCEPT ![order] = Append(@, address)] /\ UNCHANGED broken
     ELSE broken' = TRUE /\ UNCHANGED free
  /\ UNCHANGED <<request, result, held, handed, emptyCalls>>

\* how often num, which is at most LargestRequest, is halved until it is 0
Halvings(num) == Min({k \in 0..MaxOrder : num < mul2[k]})

TargetOrderLong(num) == Halvings(num) + 1
TargetOrder(num) == Halvings(num)

Candidates(num) ==
  LET target == TargetOrder(num)
  IN  {i \in target..(MaxOrder - 1) : free[i] # <<>>}

\* realloc_rest_page: of num pages, what remains once orders i and up are done
Left(pos, num) ==
  LET left[i \in 0..pos] ==
        IF i = pos THEN num
        ELSE IF left[i + 1] >= mul2[i] THEN left[i + 1] - mul2[i] ELSE left[i + 1]
  IN  left

\* the largest blocks of orders below pos that num pages from address on hold
RestBlocksOverlap(lists, address, pos, num) ==
  LET left == Left(pos, num)
  IN  [i \in Orders |->
         IF i < pos /\ left[i + 1] >= mul2[i]
         THEN Append(lists[i], address) ELSE lists[i]]
RestBlocks(lists, address, pos, num) ==
  LET left == Left(pos, num)
  IN  [i \in Orders |->
         IF i < pos /\ left[i + 1] >= mul2[i]
         THEN Append(lists[i], address + (num - left[i + 1])) ELSE lists[i]]

GetPages(num) ==
  /\ ~broken /\ Candidates(num) # {}
  /\ LET i       == Min(Candidates(num))
         address == Head(free[i])
         popped  == [free EXCEPT ![i] = Tail(@)]
     IN  /\ free' = RestBlocks(popped, address + num, i, mul2[i] - num)
         /\ result' = address
         /\ held' = held \union Pages(address, num)
  /\ request' = num
  /\ handed' = handed + num
  /\ emptyCalls' = IF num = 0 THEN emptyCalls + 1 ELSE emptyCalls
  /\ UNCHANGED <<broken, given>>

GetPagesFails(num) ==
  /\ request' = num /\ result' = -1
  /\ ~broken /\ Candidates(num) = {}
  /\ UNCHANGED <<free, broken, given, held, handed, emptyCalls>>

Next ==
  \/ \E r \in Regions : Add(r[1], r[2])
  \/ \E num \in 0..LargestRequest : GetPages(num) \/ GetPagesFails(num)

Spec == Init /\ [][Next]_vars
-----------------------------------------------------------------------------
(* Properties                                                              *)

\* Every variable stays in its type.
TypeOK ==
  /\ free \in [Orders -> Seq(Nat)]
  /\ broken \in BOOLEAN
  /\ request \in 0..LargestRequest
  /\ result \in Nat \union {-1}
  /\ given \subseteq Nat /\ held \subseteq Nat
  /\ handed \in Nat /\ emptyCalls \in Nat

Blocks == UNION {{i} \X DOMAIN free[i] : i \in Orders}
BlockPages(b) == Pages(free[b[1]][b[2]], mul2[b[1]])
FreePages == UNION {BlockPages(b) : b \in Blocks}

\* Whatever requests are split from whatever blocks, no page is in two free
\* blocks, none is free and handed out, and none is handed out twice.
NoPageTwice ==
  /\ \A a, b \in Blocks : a # b => BlockPages(a) \intersect BlockPages(b) = {}
  /\ FreePages \intersect held = {}
  /\ Cardinality(held) = handed

\* Splitting a block loses no page: what was added is free or handed out,
\* but for the one page that each granted get_pages(0) drops.
PagesConserved ==
  ~broken =>
    /\ FreePages \union held \subseteq given
    /\ Cardinality(given \ (FreePages \union held)) = emptyCalls

\* The safety of the allocator: types, no page twice, no page lost.
Inv == TypeOK /\ NoPageTwice /\ PagesConserved

\* get_pages fails only when no free block is larger than the request; the
\* rounding of an exact power of two costs no more than that.
FailsOnlyWithoutLarger ==
  [][\A num \in 0..LargestRequest :
       GetPagesFails(num) => \A b \in Blocks : mul2[b[1]] <= num]_vars

\* The assert of get_pages admits a request for as many pages as the largest
\* block has, so it should be refused only where no such block is free.
LargestRequestServed ==
  [][GetPagesFails(LargestRequest) => free[MaxOrder - 1] = <<>>]_vars
=============================================================================
