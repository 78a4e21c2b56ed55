# TLA+ models of cppDemoPractice

The repository is a collection of C and C++ programs, most of them one file
with its own `main`: thread pools and queues, shared memory and semaphores,
smart pointers, containers, servers.  They share almost no code; the exception
is `cppDemoPractice/ThreadPool/concurrent_queue.h`, on which three of the
pools are built.  The models concentrate on the parts whose correctness rests
on the order of steps (queues, pools, semaphores, copy on write, the epoll
servers, programs that talk through queues, pipes and sockets) or on long
sequences of calls (the page allocator, the containers, the owning pointers,
the object pool, the object graphs of the design patterns).

Paths below are relative to the repository.  `P` abbreviates
`cppDemoPractice`.

## Inventory

| Component | State | Operations | What is hard |
|---|---|---|---|
| Two-lock queue, `P/ThreadPool/concurrent_queue.h` | linked list with a dummy node, `head_`/`tail_`, a mutex each, one condition variable | `push`, two `try_pop`, two `wait_and_pop` | pushers and poppers hold different mutexes; `notify_one` under none |
| Pools of detached workers, `P/ThreadPool/threadpool.cc`, `threadpool_multiargs.cc` | `q_`, `done_`, mutex, condition variable | constructor, `submit`, worker loop, destructor | lost wake-ups, shutdown, workers that outlive the pool, a thread that cannot be started |
| Polling pool, `P/ThreadPool/threadpool2.cc` | `done_`, the two-lock queue, `threads_` | the same, plus joining | tasks that wait for tasks, constructor failure, destructor against blocked workers |
| Pool with private queues, `P/ThreadPool/threadpool2q.cc` | plus a `thread_local` queue per worker | the same | a task that waits for one it submitted; tasks that die with a thread |
| Work-stealing pool, `P/ThreadPool/ThreadPoolSteal.cc` | plus a vector of locked deques | the same, plus stealing | both ends of a deque; the vector grows while workers read it |
| Bounded queues, `multi-thread/producer_cosumer.cpp`, `concurrent_practice/produce_consumer.cc` | queue, mutex, two condition variables | `push`, `pop` | lost wake-ups, everybody asleep |
| Copy on write, `P/SmartPtr/copy_on_write.cc` | a `shared_ptr`, its count, a mutex | `read`, `write` | the count falls outside the mutex |
| Shared memory exchange, `linux_learning/lec40` | segment, semaphore, undo values | producer, consumer, kill, restart | processes die inside the critical section; a restart re-initialises |
| Page allocator, `linux_learning/lec23/lec23.cc` | free lists by order | `add`, `get_pages` | splitting, rounding, asserts at the boundary |
| epoll servers, `server/epoll.cc`, `epoll_lt.cc`, `epoll_lt.c` | descriptors, their modes and event masks, the batch being handled | set up, `epoll_wait`, `accept`, `recv`, close, kill, restart | edge- against level-triggered readiness, partial reads, reuse of descriptors, the limit of descriptors |
| Singletons, `P/sington` | a static pointer, a `pthread_once_t` | `instance`, `Instance`, `GetInstance`, `DestroyInstance` | first use by several threads |
| Object pool, `P/ObjectPool/object_pool.h` | free queue, cache, extension list, `capacity_` | `Get`, release, `set_capacity`, `Extend` | objects that outlive the pool; exceptions in the middle of a call |
| Counting pointer, `P/SmartPtr/smartptr.cc` | pointers and counts on the heap | construct, copy, move, assign, swap, destroy | counts that disagree with the owners |
| Hash map, `STL/hash_map.h` | chains, `ValueNULL` | `insert`, `del`, `find`, `operator[]` | unlinking, collisions, negative keys, the shared place of missing keys |
| AVL tree, `Trees/AVL` | nodes with a stored height | `insert_node`, `remove_node`, `find`, `destroy` | rotations caused by wrong heights |
| Frames, `network_hw` | `packet_id`, frames under way | `send`, `receive` | checksums that drop carries, inverted comparison, damage, a buffer of fixed size |
| Vector, `STL/vector.hpp` | array, size, capacity; what each array holds | construct, move, `emplace_back`, destroy | growth at boundaries, constructors that throw while it grows, arguments that are elements of the vector |
| `shared_ptr`, `Smart_Point/shared_ptr.h`, `cblock.h` | pointer and control block of each handle | construct, copy, move, assign, `reset`, destroy | assignments to itself and from empty pointers |
| Callable wrapper, `STL/function.cpp` | the clone each `Functor` owns | construct, copy, assign, destroy | a copy that throws after the delete |
| Line reader, `geekCpp/line_istream.h` | the shared stream, the line of each iterator | `begin`, `++`, copies | the last line, the empty stream, several iterators |
| Design patterns, `design_pattern` | lists of owning or weak pointers between objects | append, remove, drop, call through | expired pointers, cycles |
| Message queue, `linux_learning/lec36` | the queue of the kernel | create, send, receive | a full or missing queue, types that race |
| Forking programs, `linux_learning/lec39`, `lec10` | the ends of the pipe each process has open | pipe, fork, close, exec, read, write, exit | calls that fail, ends left open |
| Echo server and client, `GameBook/chapter1_network` | where each program is, the connections and their bytes | setup, accept, recv, send, connect, stop | short reads, clients nobody serves |
| `Smart_Point/weak_ptr.h`, `smart_ptr.h`, `STL/vector.h`, `template/sfinae.cpp` | - | - | do not compile |
| Kernel exercises, `linux_learning/lec15`, `lec22`, `lec25`, `lec36/signal.c` | none of their own | scheduling calls, mmap, a signal handler | - |
| Other patterns, templates, the rest | none that outlives a call | - | - |

What makes each of them correct is said with the property of its module; the
table of runs names them.

### How the parts interact

* `ThreadPool2`, `ThreadPool2q` and `ThreadPoolSteal` call `push` and
  `try_pop` of the two-lock queue.  `ConcurrentQueue` is shown to implement
  the FIFO `AbstractQueue`, so the pools use that FIFO with one step per call.
* Clients and workers of a pool share its queue and `done_`; tasks call back
  into `submit`, and wait for each other through futures.
* An epoll server and its clients meet in the kernel: the ready list, the
  backlog and the descriptors belong to the kernel and change between any two
  system calls of the server.
* The sender and the receiver of `lec36` meet in a queue of the kernel, parent
  and child of `lec39` at a pipe, server and clients of `GameBook` at sockets.
* The structures and object graphs in the table meet nobody: they are called.
* Producer and consumers of `lec40` share a segment and a semaphore that the
  kernel keeps when the processes die.

## Modules

| Module | Models | Correspondence |
|---|---|---|
| `AbstractQueue` | what the two-lock queue promises | a sequence; `Put`, `Take`, `Miss` |
| `ConcurrentQueue` | `concurrent_queue.h` | one action per lock, unlock, and field written; `pc` is the position in the code, `node` the `unique_ptr` a thread owns, `live` the allocated nodes; addresses are used again |
| `TaskPool` | what a pool promises about a task | `new`, `queued`, `running`, `done`, `dropped` |
| `ThreadPool` | `threadpool.cc`, `threadpool_multiargs.cc` | one action per region between two lock operations; `Packaged` selects the second file, in which a task's exception stays in its future |
| `JoinablePool` | what the three polling pools share | constructor and its handler, destructor, `while (!done_)`, tasks and `get()` |
| `ThreadPool2`, `ThreadPool2q`, `ThreadPoolSteal` | the file of that name | EXTEND `JoinablePool` with their queues |
| `Pools` | the three pools, chosen by `kind` | EXTENDS `ThreadPoolSteal`, which has all the state, and INSTANCEs the other two |
| `BoundedQueue` | both bounded queues | a hold of the mutex is one step, checking and blocking are two |
| `CopyOnWrite` | `copy_on_write.cc` | `version` stands for the contents, `count` for `use_count` |
| `ShmExchange` | `lec40` | one action per access to segment or semaphore; `Kill` and `Undone` are the kernel |
| `PageAlloc` | class `ppage_alloc` | addresses in pages; `add` and `get_pages` are one step each |
| `EpollServer` | the three servers, chosen by `variant` | the setup calls in the order of each file (`SetupET`, `SetupLT`, `SetupC`), what each does with a client (`ClientET`, ...), and one action per system call of the loop |
| `Dictionary` | what a search structure promises | a partial map; `answer` shows the last call with its key, its value and its result, so that a reply that is right for another key is no step of it |
| `HashMap`, `AVLTree` | `hash_map.h`, `AVL.c` | a call is one step; the recursive functions of `AVL.c` are RECURSIVE operators from tree to tree, in a module nothing is proved about |
| `ObjectPool`, `SharedPtr`, `Singletons`, `Frames` | the component of that name | a call is one step, in `Singletons` one step per access to the pointer |
| `Vector` | `vector.hpp` | a call is one step; cells are raw, moved from, or hold an item; `emplace_back` is three actions: in place, growing, and growing with a constructor that throws; its argument comes from elsewhere or is an element of the vector |
| `BlockPtr` | `shared_ptr.h`, `cblock.h` | members are functions from heap to heap, as in `SharedPtr` |
| `Functor`, `LineReader` | `function.cpp`, `line_istream.h` | a call is one step |
| `Patterns` | `chain_of_responsibility.cc`, `command.cc`, `mediator.cc`, `observer.cc`, `visitor.cc`, `composite.cc`, chosen by `kind` | classes are kept apart by role: boxes hold lists, parts point back; every step ends with the destruction of what nobody owns |
| `PlainStructures` | `HashMap`, `ObjectPool`, `SharedPtr`, `BlockPtr`, `Functor`, `LineReader`, `Singletons`, `CopyOnWrite`, `Vector` side by side | INSTANCEs each and names their properties; nothing in it has recursive operators, so that theorems can be stated about it |
| `PlainPrograms` | `PageAlloc`, `Frames`, `Patterns` side by side | the same for programs |
| `Structures` | all of these and `AVLTree` | EXTENDS the two; a behaviour is one of one of them |
| `MessageQueue` | `kfifo.c`, `send.c`, `rec.c` | one step per process: each makes one call that does not wait |
| `Forks` | `pipe.c`, `pipe1.c`, and `main.c` with `process.c` of `lec10`, chosen by `program` | one action per system call of parent and child; `fds` are the ends each has open |
| `PingPong` | `server.cpp`, `client.cpp` | one action per blocking call; `Deliver` is TCP, `Kill` the user |
| `Processes` | the three pairs above | INSTANCEs each; a behaviour is one of one of them, under the fairness of that one |
| `ConcurrentQueueProofs`, `ThreadPoolProofs`, `PoolsProofs`, `BoundedQueueProofs`, `ShmExchangeProofs`, `EpollServerProofs` | theorems about the module they extend | |
| `StructuresProofs`, `ProgramsProofs` | theorems about the parts of `PlainStructures`, and of `PlainPrograms` and `Processes` | a section for each part |
| `MC*` | constants that a cfg cannot express; `ThreadPool` and `BoundedQueue` need none, and their runs name the module itself | |

Definitions that no next-state relation uses (`SeesEmptyUntested`,
`WorkerEndsKeeping`, ...) are plausible faults of the definition after them.
Each property is known to fail when one of them takes the place of the
definition it spoils.

### Modelling decisions

* Memory is sequentially consistent.  Everything modelled is protected by
  mutexes, with three exceptions: the vector in `ThreadPoolSteal`, whose racy
  read is a nondeterministic crash; the members a detached worker uses after
  they are destroyed, likewise; and `unique()` in `copy_on_write.cc`, a
  relaxed load, which the model makes stronger than it is.
* Condition variables wake spuriously, and `wait` releases the mutex and
  blocks in one step, but *checking* the predicate and blocking are two: that
  is the window in which a `notify_one` under another mutex, or none, is lost.
* Threads are joined in any order, where the code goes through the vector in
  order: the join that comes last is the same.
* A task runs in one step if it calls nothing; otherwise it submits its
  children in any order and then waits for those in `Awaits`.
* `EpollServer` counts what a client sends in pieces; `RecvMax` says how many a
  `recv` takes.  In `epoll.cc` and `epoll_lt.cc` accepted clients stay in
  blocking mode, because `O_NONBLOCK` is passed to `F_SETFD`
  (`server/epoll.cc:104`, `server/epoll_lt.cc:100`).
* `SharedPtr` lets a count go below zero where the code's `size_t` wraps: it is
  only ever compared with zero.  The destructor never frees anything, because
  it tests the pointer to the count; only `operator=` does.
* `ShmExchange` clears the segment in two steps, `data` and then `datalength`, the
  order of the struct, in a consumer and in a producer that starts.  The latter
  does so outside the semaphore (`producer.c:15`), so that a consumer may come
  inside between the two and find a length over zeroed data: that is `intruded`,
  or `torn` where the producer was killed there.
* `ObjectPool` lets every allocation of `Extend` (`object_pool.h:67-69`) and of
  `Get` throw, and the initializer (lines 32 and 70).  `throws` counts the calls
  that an exception left; `Lost` are the objects neither free nor held, `Hidden`
  those the destructor will not find.
* `Frames` takes the CRC as ideal.  The checksums are computed as the code
  does, in 16 bits and without their carries; lengths are in bytes and cut to
  16 bits where the code converts them.  `send` allocates `BufferSize` bytes (1518
  in the code) whatever the length: longer data sets `overrun`, which ends the
  behaviour.
* `Vector` makes undefined behaviour visible (`undefined`) and stops there: an
  append past the memory allocated, and the destruction of a cell that was
  never constructed.  Growth moves the elements before it constructs the new one
  (`vector.hpp:160-162`), so `v.push_back(v[0])` then appends what the move left
  of the element; `pushed` remembers which items were lost so.  Only what a
  program can instantiate is modelled.
* `BlockPtr` leaves `weak_count` out: it is 1 from the construction of a block to
  the end, since only the missing `weak_ptr` changes it; so no block is ever
  freed, and that leak is in the code.
* `Functor` marks a wrapper whose callable was deleted and not replaced
  (`dangling`); using it ends the behaviour.
* `Patterns` destroys what no chain of owners reaches from itself or the
  program.  Whoever calls an object holds a pointer to it.  Calls through lists
  are recursive functions of bounded depth; beyond the number of boxes they
  would come to the same box again, which is `"endless"`.
* `Forks` ends a behaviour at `"terminal"` when `pipe` failed and `grep` reads the
  terminal instead.  The uninitialised descriptors of `pipe.c` name nothing
  then, or the terminal; both are possible.
* Some operators are written as recursive functions or over indices where a
  library operator would say the same: `mul2`, `Only` of `Patterns`, `BitOr` of
  `Vector`, the sums of `Frames`.  The prover can neither expand `SelectSeq` or
  the folds nor read `Bitwise`.
* `PingPong` counts messages in pieces.  A socket that is closed with unread
  bytes is reset, and what was under way to its client is lost.
* `ConcurrentQueue::empty` is left out: it locks the non-mutable
  `head_mutex_` in a const member, so no program that calls it compiles.  The
  shadowed `flag` in `CopyOnWrite::write` only decides about a message.

## Runs

All runs finish in less than three minutes.  Deadlock is checked except where the
system may stop: in the pool runs (tasks that all wait, the end of the program),
the server (it has exited and is not started again), the structures (a bound or
undefined behaviour is reached) and the processes (they have ended).

| Run | Bounds | Shows |
|---|---|---|
| `concurrent_queue` | 3 threads, 4 addresses, 2 values; symmetric | `Inv` (list shape, ownership), `NoFieldRace`, `NoStranding` (as many notifiers and checkers as items), `RefinesQueue` |
| `thread_pool` | 2 workers, 2 clients, 3 tasks, one throws | `Inv` (with `NoLostWakeup`), `DrainsBeforeExit`, `SubmittedTasksStart`, `WorkersEnd`, `RefinesTaskPool` |
| `pools` | 2 workers, 6 tasks: two pairs that wait, one that does not | `TaskInOnePlace`, `QuietWhenDestroyed`, `AwaitedChildNeverRuns`, `Progress`, `JoinEnds`, `RefinesTaskPool` |
| `pools_ctor` | the same | a finding |
| `bounded_queue` | 3 producers, 2 consumers, 2 slots | `Inv`, `ItemsFlow` |
| `shm_exchange` | 1 producer, 2 consumers, batches of 2, 2 kills (`MaxKills`) | `Inv` (with `SumsWholeBatchesOnce`), `NothingLost`, `BatchesAreSummed` |
| `page_alloc_largest` | 4 orders and the 3 regions of `structures`, one unaligned and one of an order past the end | a finding: `LargestRequestServed`, about the step that refuses |
| `epoll_server` | 2 clients, 1 or 2 descriptors, batches of 2, 3 pieces (`MaxSent`), 2 starts (`MaxStarts`) | `Inv` (with `RecvNeverBlocks`, `RestartBinds`), `PeersServed`, `ConnectionsAccepted`, `SleepsWhenIdle` |
| `structures` | 6 keys and 5 nodes in the tree; 4 hash keys, 2 values and 3 chains; 4 orders and 3 regions of pages; 5 pool objects; 3 handles and 2 counts or blocks; 3 functors and 4 clones; 2 vectors and 4 arrays; 2 iterators and 4 characters; 2 boxes, 2 parts and lists of 2; 3 threads; 4 addresses and 2 writes (`MaxWrites`) under copy on write; 2 hosts, 1 frame (`MaxFrames`) and a buffer with room for 4 bytes of data | `TreeIsSet`, `MapIsDictionary`, `PagesSafe`, `PagesFailOnlyWithoutLarger`, `PoolAccounts`, `OwnedObjectsLive`, `OwnersDelete`, `VectorKeepsItems`, `LinesDelivered`, `OwnedAndReached`, `OneInstance`, `SnapshotsStable`, `CopiesAccount`, `ReceivedAsSent` |
| `avl_crash` | the tree of `structures` | a finding |
| `processes` | 4 messages of 5 types and 3 lengths, texts of 4, a queue of 8 bytes; 3 lines and a pipe of 2; 3 clients, a ping of 2 pieces, a backlog of 1 | `Delivered`, `ProgramsEnd` |

Why the bounds are enough:

* `concurrent_queue`: three threads give every pair of roles (pusher/pusher,
  pusher/popper, popper/popper, waiter) plus an interferer; four addresses
  allow a list of one dummy and items while every thread owns a node, and
  force reuse of freed addresses.  When all are taken a push waits, which
  only removes behaviours a larger heap has.
* `thread_pool`, `pools`: with two workers one can be asleep, blocked or dead
  while the other acts, and two pairs of waiting tasks are what it takes to
  block both.  `Throwing` has one task so that termination of the process
  happens at any point.
* `bounded_queue`: more threads on each side than slots, so that both sides
  sleep in numbers.
* `shm_exchange`: two kills are enough to kill a process and the one that
  finds what it left.  `Lengths` has a refused length, an ordinary one, the
  largest, and a negative one.
* Pages: the code has six orders, the model four; order only enters
  through comparison with `MAX_ORDER`.
* `epoll_server`: two clients give two events of one batch, a descriptor that is
  closed in the first and reused in the next, and a client that is starved by
  another; with one descriptor `accept` fails.  Three pieces leave something
  behind after a `recv`.  A second start meets connections that linger.
* `structures`: five nodes give every rotation, single and double, on both
  sides, and enough drift of the stored heights to crash.  Three hash keys
  collide, one of them negative.  Three handles allow two owners of one object
  and an assignment from a third; two counts are what an assignment needs.
  Objects run out in the middle of an extension.  Two vectors swap what they own
  by moves; four arrays allow the growth to four cells, at which capacity and
  memory differ, and so the overrun, elements lost to a growth and a growth that
  throws.  `MCData` has data of 0 to 5 bytes, odd and even, whose sums wrap; the
  fifth byte overruns `BufferSize`.  Four characters give an empty line between two others, with
  and without a newline at the end.  Two boxes make a cycle, and one box in
  itself another.  Copy on write needs a writer, a reader of the old object and
  one of the new; a third object is then free to be used again, and two writes let
  the second meet readers of the first.
* `processes`: the queue holds two long messages or several short ones, so that
  sends fail for lack of space and succeed again; type -2 selects by the lowest
  type.  `ps` prints more than its pipe holds, so it blocks.  With three clients
  one is served, one waits in the backlog and one for a place in it.

### Fairness

Safety needs none.  Where liveness is claimed, each thread that can take a
step takes one in the end (weak fairness per thread), because the operating
system schedules it.  A thread that waits for a mutex (or, in `lec40`, for the
semaphore) gets it if it is free again and again (strong fairness on that step
only).  Nothing is assumed of users: no client must submit, nobody must
destroy a pool, start a process or type a number.  No fairness is given to
spurious wake-ups, so no liveness property rests on them.  The one thread of an
epoll server is scheduled; clients owe nothing.  In `Forks` parent and child
are scheduled, in `PingPong` server and clients, and TCP delivers what is under
way; nobody must start a client or stop one.

### What the runs say of the code

* *Two-lock queue.*  It is a linearizable FIFO: a push takes effect when
  `tail_` moves, a pop when `head_` moves.  But `push` notifies without
  `head_mutex_`, so a push between a waiter's check and its sleep wakes
  nobody, and the item waits for the next push.  `NoStranding` says that this
  is the *only* way to strand an item.  The pools in the repository are not
  affected: they only use `try_pop`.
* *Detached pools.*  `notify_one` after the unlock loses nothing, because
  checks happen under the same mutex as the push.  The destructor does not
  wait: workers that touch the pool afterwards are modelled as a crash, and
  every property says what holds until then.
* *Polling pools.*  Waiting for one's own task deadlocks in
  `threadpool2q.cc`, always (`AwaitedChildNeverRuns`); in the others only when
  all workers wait (`Progress`).  The destructor may wait for ever for a
  worker blocked on a task that is queued (`JoinEnds` names that exception).
* *lec40.*  `SEM_UNDO` protects the permit, not the data: a kill inside the
  critical section (`torn`) can show half a batch or the same batch twice,
  and a producer that starts beside a process inside (`intruded`) breaks
  mutual exclusion.  The memset with which a producer starts is under no
  semaphore: a kill in the middle of it, or a consumer that comes inside
  then, finds a length over zeroed data.  The properties hold in all other
  behaviours.
* *Page allocator.*  Splitting never loses or doubles a page, except for one
  page per granted `get_pages(0)`.  Requests are rounded up to a block
  strictly larger than an exact power of two.
* *epoll servers.*  Edge-triggered clients are served although one `recv` leaves
  bytes behind: `EPOLL_CTL_MOD` after each `recv` makes the kernel look again.
  Blocking clients never block the thread, because `recv` is only called on
  what is readable.  `SleepsWhenIdle` asks for the loop to be at `epoll_wait`
  with nothing ready, again and again; `epoll_lt.cc` never is while it has a
  client, and a server that re-armed its clients on each writable event would
  not be either.
  `epoll_lt.c` sets `SO_REUSEADDR` after `bind` (lines 42 and 59), so a restart
  fails while connections of its predecessor linger; `RestartBinds` is about
  the other two.  A comment promises one byte per `recv`
  (`server/epoll.cc:126`), the call takes five.
* *Structures.*  The hash map answers each call for its key as a map does, except
  that a write through `operator[]` to a missing key goes to a place all missing
  keys share; it reaches no key that is there.  The AVL tree answers as a set
  until it crashes, but is not balanced.  An exception costs the object pool one
  object at most (`object_pool.h:32`, `67-70`), and `capacity_` may fall behind
  but never promises too much.  No handle of the
  counting pointer ever loses its object; the price is leaks, and null or freed
  counts are used after assignments from moved-from pointers (`bad`).
  `pthread_once` gives one instance, the lazy singleton several.  `receive`
  turns away exactly the frames addressed to it (`frame_define.h:158` takes
  `memcmp` the wrong way round); the others come out as they went in, up to the
  1472 bytes for which `send` has room (`send_and_receive_api.h:5`).
* *Owners.*  `shared_ptr.h` deletes each object once, when its last owner goes; a
  pointer that is moved to itself lets go of what it had, and the counts still
  agree.  A `Functor` whose assignment threw keeps a deleted callable
  (`function.cpp:44-45`).  A vector keeps its items up to four; the fifth append
  overruns the array (`vector.hpp:153-154`).  A growth loses the element that is
  its own argument (`vector.hpp:160-162`), and a constructor that throws in it
  loses the elements moved before, of that vector only, and destroys the wrong
  cell (`vector.hpp:168`).
* *Design patterns.*  The weak pointers of observer, command and mediator do what
  they are for: what the program drops is destroyed.  Handlers and pictures can
  own each other in a cycle, which leaks and recurses without end; a colleague
  whose mediator is gone dereferences null (`mediator.cc:28`).
* *Line reader.*  Every line comes out once, whichever iterator is moved; what two
  iterators see is not a line each, but a line in turn.
* *Pairs of programs.*  Messages of one type stay in order and come out whole, with
  their final zero.  No program leaves an end of a pipe open on which the other
  waits, even when `pipe`, `fork` or `exec` fail; the one exception is `grep`
  reading the terminal.  A client of the echo server that is not served is reset
  rather than left waiting; one whose message arrives in parts may get back only
  a part.

### Findings

1. `ThreadPoolSteal.cc:63`: the constructor appends to the vector of deques
   while workers it has started read it (`pools_ctor`).
2. `lec23.cc:36`: a request for 32 pages passes the assert of line 27 and is
   refused although a block of 32 is free (`page_alloc_largest`).
3. `AVL.c:78`: inserting into the right subtree of a left child rotates the
   wrong subtree and follows a null pointer (`avl_crash`).

Seen while modelling, without a run of its own: `add(MAX_ORDER, a)` passes the
assert of `lec23.cc:22` and indexes one past the last list (`broken` in
`PageAlloc`).

## Proofs

The theorems hold for every number of threads, nodes, tasks, clients, values,
objects and every capacity, under the named assumptions of the modules:

* the null values (`NoThread`, `NoNode`, `NoTask`, `Null`, ...) are not members of
  the sets they stand outside of, and owners, workers and clients are different
  threads (`QueueAssumption`, `BoundedAssumption`, `CopyAssumption`,
  `PoolAssumption`, `WorkersAssumption`, `ShmAssumption`, `PointerAssumption`,
  `PatternAssumption`, `PingPongAssumption`);
* the sets that are counted are finite: threads, handles, descriptors, boxes and
  parts;
* a task has at most one parent, and only children are waited for
  (`JoinableAssumption`); they may form any forest, or none;
* capacities, batch lengths, the bytes one `recv` takes and the number of
  chains are positive (`BoundedAssumption`, `EpollAssumption`, `HashAssumption`),
  and hash keys are integers;
* regions of pages, addresses, ports, bytes of data, lengths and the sizes of
  pipes, backlogs and buffers are numbers, the buffer of `send` is smaller than
  65536, message types integers
  (`PageAssumption`, `FrameAssumption`, `ForksAssumption`, `MessageQueueAssumption`,
  `PingPongAssumption`), there is at least one order of pages, and a ping is not
  empty.

The bounds of the runs (`MaxKills`, `MaxSent`, `MaxNew`, ...) are constants of
which the theorems only need that they are numbers, if that.
`StructuresAssumption`, `ProgramsAssumption` and `ProcessesAssumption` collect the
assumptions of the components that `PlainStructures`, `PlainPrograms` and
`Processes` put side by side.  The theorems about the first two assume that of
their component only, and are about its `Spec`.

Refinements are proved with the mapping of the runs: the initial states map to
initial states, and each action to one of the abstract module or to none.  All
theorems about liveness are left to TLC.

**Two-lock queue** (`ConcurrentQueueProofs`).  `QueueInvariant` (`Spec => []Inv`).
The list shape alone is not inductive: that `next` and `val` of the node being
filled are what the pusher wrote needs to be known in the middle of a push, that
`node[t]` is no node of the list when it is freed, and that the popper saw
`head # tail` under a mutex that keeps `head` still while `tail` can only move
away from it.  `ThreadInv` says these.  `order`, a history variable, names the
nodes of the list, so that reachability needs no recursion.  `QueueTypes`,
`QueueOwnership` and `QueueNoRace` follow.  `QueueRefinesFIFO`: a push is the
abstract `Put` when `tail_` moves, a pop is `Take` when `head_` moves, a failed
`try_pop` is `Miss` when it reads `tail_`; all other steps change neither the
sequence of values nor an answer.  `QueueStrandsOnlyStale`: while some sleeping
waiter has missed no push, there are at least as many notifiers and checkers as
items.  Each push adds one item and one notifier; each notification turns a
notifier into a checker, because somebody sleeps; each pop takes one checker and
one item.  (In a first form the property only asked for one of them, and that is
not inductive: the one checker may pop one item of two.)

**Detached pools** (`ThreadPoolProofs`).  `PoolInvariant`, about the bookkeeping
of mutex, queue and states of tasks (`Bookkeeping`), `TasksInOnePlace`,
`NoLostWakeup` and `ShutdownReachesSleepers`: what covers a queued task is a
worker that is awake or a notification to come, and every step keeps that count.
`PoolDrains` (while the pool exists and a worker has ended, the queue is empty)
follows from the
invariant and the step before the end.  `PoolRefinesTaskPool`.

**Polling pools** (`PoolsProofs`).  `TasksInOnePlace`, `PoolsGoQuiet`,
`PrivateChildNeverRuns`, `PoolsRefineTaskPool`, each for the three pools at once.
A step of any of the three is first shown to be one of a few effects (a task put
somewhere, taken from somewhere, ended, dropped with a queue, or nothing at all:
`CommonStep`), and the invariants are proved for effects.  That a child awaited
in the pool with private queues never runs is not inductive as it stands:
`AwaitedInv` adds that the shared queue holds no child, and that an awaited child
in a private queue lies behind its parent, which the worker of that queue is
running and which no other thread can finish.

**Bounded queues** (`BoundedQueueProofs`).  `BoundedInvariant` and
`BoundedNoDeadlock` (the runs check the latter by TLC's own deadlock check).  The
covering of slots and items by awake threads is inductive with the mutex
invariant; waking or blocking one thread changes the cardinality of the awake
set by one (`WakeOne`, `AwakeFacts`).  If everybody slept, no slot and no item
would be left, so the capacity would be zero.

**Shared memory** (`ShmExchangeProofs`).  `ShmInvariant` and the action property
`ShmLosesNothing`.  `SemaphoreBalanced` relates the semaphore, the undo values
and the processes inside at any point at which one may be killed; `SegmentInv`
says how far the batch in the segment has come, as long as nothing was torn and
nobody intruded, and that nobody is inside while a producer is in the middle of
its memset (`Clearing`).  A batch leaves the segment summed, or cleared by a
producer that starts; nothing is claimed once one has intruded.  From the two it follows that whoever sums, sums a whole batch.

**epoll servers** (`EpollServerProofs`).  `ServersInOrder`: `Inv`, which includes
`DescriptorsInOrder`, `NoLostEdge`, `RecvNeverBlocks` and `RestartBinds`, for the
three servers (`RestartBinds` for `epoll.cc` and `epoll_lt.cc` only).  What makes it inductive is `BatchInv`: a descriptor has one event
per batch, so that its own event, the only one that closes it, is over when its
number is reused.  For each event `EventInv` says that a level-triggered
descriptor stays in the ready list, that the descriptor of an "in" event is
readable unless it is the one being handled, and that one which became readable
after the batch was taken is in the ready list again.  `NoLostEdge` rests on the re-registration after each `recv` in the
edge-triggered server and on the level trigger in the others.  The lowest free
descriptor and the largest limit exist by well-foundedness of the naturals.

**Structures** (`StructuresProofs`).

* `OnceMakesOne`: the threads inside `pthread_once` and those past it (`CallsInv`).
* `PoolKeepsAccounts`: the queue has no object twice, queue and held objects are
  disjoint, and an exception adds at most one object to those in neither and one
  to those the destructor will not find, whichever step of `Extend` or `Get` threw
  it; `capacity_` counts nothing that is not in the cache or in
  `extended_cache_`.
* `OwnersDeleteOnce`: for `BlockPtr`, `Sound` is kept by every *member* for every
  handle, the temporary of `operator=` and moves to oneself included, and
  `Settled` says that between calls only live handles hold anything; so the count
  of holders is the count of owners.  For `Functor`, `PointersInv`: no two
  wrappers share a clone, and nobody points to memory not yet allocated.
* `MapFollowsDictionary`: `TableInv` (each chain holds the keys that hash to it,
  no key twice) makes the nodes a set with unique keys, and each call changes
  that set as the dictionary changes its map, and replies as it does for the same
  key and value.  `index` enters only through its
  range.
* `ReaderDelivers`: `next` is at the start, at the end or behind a newline
  (`StreamInv`), and the lines that came out are exactly those that begin before
  it (`LinesInv`).  One `getline` takes the one line that begins there, because
  there is a first newline after it if there is any.  At the end the lines, being
  different ones, are in bijection with all lines of the text.
* `OwnedObjectsStay`: `Kept` holds after every member, also between the moves of
  which `swap` consists, whose temporary is counted like any handle: owners of
  one count point to the same object, which is the one made with it, and the
  count is at least the number of owners.  A move that forgets to give its count
  back makes the count larger, never smaller; a default-constructed pointer,
  which counts nobody, points to no object.  So an assignment that brings a count
  to zero takes the last owner, or one of a count without an object.
* `CopyOnWriteInvariant`, `CopyOnWriteSnapshot`: a count of one means no reader,
  because counts are exact (`CountExact`), and no reader can appear while the
  writer has the mutex; the conjunct of `ThreadInv` about `"write"` carries that to
  the write.
* `VectorsKeep`: each vector has an array of its own, with room for its items, and
  they are what was appended (`Own`, `Apart`), or moved from where the argument was
  an element of the vector that grew; a growth that throws has moved a first part
  of that vector's array and touched no other.  `cap` is the room there is only
  while that is at most three cells (`Filled`): with four the code records a
  capacity of five.  So the fifth append is the first that can overrun, which is
  what the property says.  `BitOr` is computed for the sizes that matter; of larger
  ones it is only used that they are more than four.

**Programs** (`ProgramsProofs`).  What is computed by recursive functions is known
by the least argument at which a claim about it would fail (`LeastNumber`), and that
such a function exists by iterating a step (`Iterated`).

* `PagesKept`, `FailuresFair`: the free blocks of all orders are apart
  (`Separate`), what they cover was given and not handed out, and the pages
  missing are as many as `get_pages(0)` was granted (`PagesInv`).  What `get_pages`
  puts back of a block are halves of halves, one of an order at most; `Left` says
  what is still to be put back after each, and that they are apart and cover it,
  but for the page that is lost when nothing was asked for, follows from
  `Left` being less than the power of two at which it stands (`Rest`).
* `FramesArrive`: each frame under way is one that `send` made (`Whole`: both
  checksums fit, the length is that of the data), of which the link changed
  nothing the receiver looks at, or so that the CRC shows it (`OnWire`).  Only data
  for which the buffer has room gets on the link, so no length is cut there.  That
  the checksums of a frame as sent are accepted is arithmetic modulo 65536.
* `CallsReachLiving`: what is alive is held by the program or owned by something
  alive, and owners are never left with a dead object (`GraphInv`).  What `Kept`
  leaves is the greatest such set, what `After` reaches the least that is closed
  (`AfterIs`).  So each object that is alive and not reached has an owner that is
  alive and not reached, and in such a set some box is on a cycle: the one from
  which least can be reached (`Cycles`).  A call that does not end gives a path of
  living boxes with more boxes than there are, so one of them twice (`LongPaths`,
  `LongWalks`).
* `PairsDeliver`, for the three pairs at once, from an invariant for each.
  `MessagesInv`: what came out, followed by what is in the queue, is what was
  sent, and in this sequence messages of one type are in the order of their
  numbers; a receive takes the first of its type, so moving it to the front
  overtakes none of that type.  `ForksInv`: which ends of the pipe are open where, and
  that pieces written are in the pipe or read.  `EchoInv`: pieces on their way to
  the server, in its hands and on their way back never exceed a ping, and only the
  client that is served has anything coming back.

Only model-checked:

* liveness (`SubmittedTasksStart`, `WorkersEnd`, `Progress`, `JoinEnds`,
  `ItemsFlow`, `BatchesAreSummed`, `PeersServed`, `ConnectionsAccepted`,
  `SleepsWhenIdle`, `ProgramsEnd`): fairness is beyond the prover;
* `TreeIsSet` of `AVLTree`, whose operators are recursive.

Two things came out of proofs, not of runs.  `NoStranding` was too weak to be
inductive in its first form (see above).  And `Make` of `Patterns` asked whether a part
had anything to point to (`Targets`) where it has to ask whether its class takes
a pointer (`Pointing`): without boxes the two differ, and no run is without boxes.

## Plan

The order followed so far: the concurrent core (queue, pools, bounded queues,
copy on write), the exchange between processes, the allocator, proofs for the
three modules that need invariants most, then the servers and the structures,
then the remaining structures, the object graphs of the design patterns and the
programs that come in pairs; then the proofs about the pools, `lec40`, the
servers and the structures, and the refinements; last, those about the programs,
the vector and the object graphs.

Left to model:

* One static queue shared by two `ThreadPool2q` pools, and the release of pool
  objects by another thread than the pool's.

Left to prove: of the safety properties that the runs check only `TreeIsSet`.
It needs `AVL.c` modelled without recursive operators, with the nodes in an array,
and the invariant that the tree is one of
search although its heights are wrong.

## Not modelled

* `lec15`, `lec22`, `lec25` and `lec36/signal.c`: a fixed sequence of system calls,
  with no state of the program's own; `signal.c` prints and sleeps for ever.
* The other programs of `design_pattern` (adapters, bridge, decorators, facade,
  flyweight, proxy, factory, prototype, interpreter, iterator, state, template
  method): a fixed chain of objects and calls through it, whose outcome is what
  they print.
* `template`, `simd`, `shell`, `STL/move_forward.cpp`, `multi-thread/test.c`: they
  compute types or numbers, or print.
* `Smart_Point/weak_ptr.h` and `smart_ptr.h`, `STL/vector.h`,
  `template/sfinae.cpp`, and of `STL/vector.hpp` the copy constructor, `clear` and
  `pop_back`: do not compile as they stand.
* What happens after an object of the pool is released to a pool that is gone
  (`object_pool.h:33`), after `add` has indexed past the last list
  (`lec23.cc:22`), after `send` or a vector has overrun its memory, or after a
  detached worker has used a destroyed pool: the models reach these states and
  stop there.
* Memory order weaker than sequential consistency, stack depth, allocation
  failure outside the places named above.  A stopped constructor of the object
  pool: there is no pool then, and the next call starts afresh.
