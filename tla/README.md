# Verification of OSnsu

OSnsu is a set of C programs on operating-system concurrency: a bounded queue
in six synchronisations, two hand-made locks, user-level threads, two shared
linked lists and a caching HTTP proxy. This directory holds TLA+ models of
them, the TLC runs that check the models on small instances, and TLAPS proofs
of the results that matter most for every instance.

    tlc -workers 4 -config FutexMutex.cfg FutexMutex     # one run; names below
    tlapm LockProofs.tla                                 # one proof module

## 1. The system: inventory

| part | source | state it keeps | operations |
|---|---|---|---|
| unlocked queue | `sync/queue.c`, `queue-threads.c`, `queue-example.c` | list `first`, `last`, `count`, statistics | `queue_init`, `queue_add`, `queue_get`, `queue_destroy`, monitor thread |
| queue, C library locks | `2.2a` (spinlock), `2.2e` (mutex), `2.2f` (condition variables), `2.2g` (semaphores) | the same plus the lock, conditions, semaphores | `queue_add`, `queue_get` under the lock |
| futex mutex | `2.4/mutex/mutex.c`, `futex.h` | the word `state`, `owner` | `mutex_lock`, `mutex_trylock`, `mutex_unlock`; the kernel's wait and wake |
| spinlock | `2.4/spinlock/spinlock.c` | the word `lock` | `spinlock_lock`, `_trylock`, `_unlock` |
| queues on those locks | `2.4/*/queue.c`, `main.c` | the queue, `add_count`, `get_count` | add, get, `queue_print_stats` by a monitor that locks |
| user-level threads | `uthread/` | `threads[]`, `thread_count`, `current_thread`, contexts | create, schedule, yield, join, wrapper |
| list, read-write lock | `2.3/main.c` | the list, an rwlock, a mutex per node | `storage_add`, three counters, three swappers |
| list, mutex per node | `2.3/main1.c` | the list, a mutex per node, `cancel` | create, three counters, three swappers, `free_list` |
| caching proxy | `proxy/main.c` | `cache_table`, `cache_used_bytes`, entries with lock, condition and `refcount` | client threads, fetcher threads, lookup, insert, evict |
| proxies with Content-Length | `proxy/main1.c`, `main2.c` | as above plus header data | as above, streaming of what does not fit |
| load generator | `proxy/client.c` | none | requests |

**How they interact.** The queue code is called by a writer and a reader
thread and read by a monitor thread, all in one process; threads share the
`queue_t` and nothing else. The queues of `2.4` call the two locks of the same
directory. In `uthread` everything is one kernel thread that switches contexts.
In `2.3` six threads share one list. In the proxy a client thread creates a
cache entry and its fetcher thread; clients of the same url read the entry
under `e->lock` while the fetcher fills it and broadcasts on `e->cond`; any
fetcher may evict the entries of others under `cache_table_lock`.

**What is hard, and what correct means.**

* *Unlocked queue*: lost updates of `count`, appending to a freed node. Right
  in one thread; in the race `count` stays in its range and the reader never
  dereferences freed memory. The writer may: the program shows the failure on
  purpose.
* *Locked queues*: a linked list, a counter, a heap and possibly semaphores or
  conditions that must agree whenever the lock is free; wake-ups lost or stolen;
  each must be a bounded FIFO to its callers.
* *Futex mutex*: between reading the word, marking it, sleeping on it and
  waking, any other thread may act; wakes may be spurious. Mutual exclusion, the
  word means what it says, no sleeper is forgotten, contention resolves.
* *uthread*: a context resumes where it was last saved; the copy of a struct and
  the original differ. Turns go round, no routine runs twice.
* *Lists*: threads walk what others relink. Locks are taken along an order that
  changes. No deadlock, no lost node, no stale neighbours, no lock left behind.
* *Proxies*: checks under one lock and acts under another, an unlocked
  `refcount`, a fetcher that gives up caching while clients wait. The limit and
  the accounting hold, answers are served whole, an entry stays while it is in
  use, no client waits for ever. In `main2.c`, where clients wait for the whole
  answer, an entry is resolved once and all its clients see the same end of it.

`PROJECT.json` lists the hazards with their lines and the properties that watch
them, including those no property covers and why.

## 2. The modules

| module | models | extends / instances |
|---|---|---|
| `LockPromise` | what any lock promises: one holder | — |
| `LockClients` | the threads of a lock and its `NoThread` | — |
| `FutexMutex` | `2.4/mutex/mutex.c` and the futex system calls | `LockClients`, `LockPromise` |
| `SpinLock` | `2.4/spinlock/spinlock.c` | `LockClients`, `LockPromise` |
| `BoundedFifo` | what a queue promises | — |
| `LinkedQueue` | the list code shared by all six `queue.c`, the heap included | `BoundedFifo` |
| `QueueLife` | the monitor thread and `queue_destroy`, the same in five directories | `LinkedQueue` |
| `SyncQueue` | `sync`: no lock | `LinkedQueue` |
| `LockedQueue` | what all queues with a lock have in common: `NoThread`, who holds a free lock | `LinkedQueue` |
| `HolderQueue` | the same with a lock of the C library: its holder | `LockedQueue`, `LockPromise` |
| `LockQueue` | `2.2a`, `2.2e` | `HolderQueue` |
| `CondQueue` | `2.2f` | `HolderQueue` |
| `SemQueue` | `2.2g` | `HolderQueue` |
| `MonitoredQueue` | `2.4`: the queue with statistics and a monitor | `LockedQueue` |
| `SpinQueue`, `MutexQueue` | that queue on the spinlock, on the futex mutex | `MonitoredQueue` with `SpinLock`, `FutexMutex` |
| `UThread` | `uthread` under the program of its `main.c` | — |
| `LibraryQueues` | the four queues on C library locks side by side | `HolderQueue`, with `LockQueue`, `CondQueue`, `SemQueue` |
| `QueuePrograms` | `queue-threads.c` of `sync` and the five `queue-example.c` | `QueueLife`, `LibraryQueues`, `SyncQueue`, `BoundedFifo` |
| `SwappedList` | what the lists promise: neighbours change places, nothing else | — |
| `RwList` | `2.3/main.c` | — |
| `HandOverHand` | `2.3/main1.c` | — |
| `SharedAnswer` | what a cache entry promises its clients | — |
| `ProxyCache` | the table, eviction, references: the text the three proxies share | — |
| `StreamProxy` | `proxy/main.c` | `ProxyCache` |
| `HeaderProxy` | `proxy/main1.c` and `main2.c`, told apart by `Program` | `ProxyCache` |
| `MCQueues`, `MCPrograms`, `MCLists`, `MCProxies` | instances for TLC, several programs side by side | the above |
| `LockProofs` | proofs about the two hand-made locks | `FutexMutex`, with `SpinLock` |
| `UThreadProofs` | proofs about the user-level threads | `UThread` |
| `ListTheorems` | induction for sets of numbers, walks along next pointers, lists without repetition that gain or lose an element, sums over finite sets | — |
| `QueueSteps` | lemmas: what each step of a queue whose lock is held does to its list | `LibraryQueues`, `ListTheorems` |
| `QueueProofs` | proofs about the four queues on C library locks and the two of `2.4` | `MCPrograms`, `QueueSteps`, also as an instance, with `LockProofs` |
| `ProgramProofs` | proofs about the race without a lock and about single-threaded programs | `QueuePrograms`, `QueueSteps`, also as an instance |
| `ListProofs` | proofs about the two lists of `2.3` | `MCLists`, `ListTheorems` |
| `ProxyInvariant` | the inductive invariant of the three proxies | `MCProxies` |
| `ProxyProofs` | proofs about the three proxies | `ProxyInvariant`, `ListTheorems` |

**How state and actions correspond to the code.** Variables carry the names of
the C fields and locals; `pc[t]` says which access to shared memory a thread
makes next. Where memory is shared without a lock (`sync`, the two hand-made
locks, `refcount` in the proxy, the reads of `list->first`), one action is one
load or one store, and `x++` is two. Where a lock is held, the code up to the
next point at which other threads can see or do something is one action, except
in the queue, whose steps stay separate so that the same `LinkedQueue` serves
the unlocked program. `map` in `PROJECT.json` gives the lines of each
definition. `QueuePrograms`, `MCQueues`, `MCPrograms`, `MCLists` and `MCProxies` put
several programs side by side in one run: a variable, `variant` or `program`,
chosen at the start, says which of them moves.

**Abstractions, the same everywhere.**

* Interleaving semantics: every thread sees the memory in one order, and a shared
  access is one load or store. The programs are compiled without optimisation.
  The queue programs pin writer and reader to one processor (`set_cpu(1)`); the
  locks use GCC's `__sync` operations with barriers; `2.3/main1.c` and the
  proxy, which pin nothing, share without a lock only single words.
* Values are counted modulo `Modulus`; attempts and statistics that feed only a
  `printf` are left out, and so is what is printed, except where a property is
  about it (`SnapshotConsistent`, `NoMutexError`).
* Blocks of `malloc` come from a finite set `Node`, a free block may be handed
  out again at once, and a block once freed is garbage (in the proxy it keeps
  its contents and is not handed out again). `malloc` fails only when the set is
  exhausted.
* The writer of `2.2*` and `2.4` loops for ever, as it does in the code.
* The list programs' pass counters and comparisons are left out, as nothing else
  depends on them; the random choices of swappers are nondeterministic.
* The proxies count in chunks; what is in them, sockets and the parsing of a
  request are left out; the condition variable has no spurious wake-ups, since
  the loop around each wait only tests again. An answer fetched or streamed
  directly touches no shared state and is one step. In `HeaderProxy` the headers
  are one chunk, any number of chunks may come with them or later at once, and
  one chunk more than promised stands for any number too many.
* The monitors of `2.2*` read the counters without the lock for one `printf`: the
  model has the thread and whether the queue it reads still exists, not the values.


## 3. The runs

| run | what it shows | bounds, and why they are enough |
|---|---|---|
| `FutexMutex` | exclusion; the word is UNLOCKED exactly when nobody holds the mutex; no wake-up lost; it implements `LockPromise`; contention resolves | 4 threads: a holder, a waker's target, a sleeper left behind and a newcomer that steals the lock. One also tries. |
| `FutexMutexError` | *finding*: the holder of a contended mutex prints "Mutex error" | 2 threads |
| `QueuePrograms` | a single thread sees a FIFO down to a clean `queue_destroy` in all five directories, whatever the monitor is doing; `queue-example.c` ends in sync, 2.2a and 2.2e; in the race `count` stays in range and the reader on the heap | capacity 2, 3 blocks: full, empty and a block reused while a stale pointer to it exists; the example adds 2 and asks for 4, as the code adds 10 and asks for 12 |
| `ExampleEnds` (`QueuePrograms`) | *finding*: in 2.2f and 2.2g `queue-example.c` waits for ever | the same numbers |
| `Queues` (`MCQueues`) | list, count and heap agree; 2.2f and 2.2g never refuse; no signal or token lost; each of the four is a bounded FIFO | 2 writers, 2 readers, capacity 2: waiters of both kinds at once, stolen wake-ups |
| `Programs` (`MCPrograms`) | the six queues with a lock: values arrive in order; the monitor's line describes one moment; each is a FIFO; 2.2f and 2.2g never stop delivering | 1 writer, 1 reader (and the monitor), as in the programs; capacity 2; values modulo 3, more than fit in the queue |
| `UThread` | turns go round; a routine never runs twice; every thread gets the processor | table of 3, up to 4 wanted (a refused creation), up to 3 iterations each, every combination |
| `UThreadComplete` | *finding*: the process ends with threads unfinished | table of 3 |
| `Lists` (`MCLists`) | `main1.c`: a thread holds exactly the nodes it should and works on neighbours, all stop after `cancel`; `main.c`: the list behaves as one sequence (`SwappedList`), a counter holds two neighbours; both: no cycle of waits | `main1.c`: 1 counter, 2 swappers, 3 nodes: a swap at the head against one further down with a walk across both. `main.c`: 2 counters, 2 swappers, lists of up to 3 nodes: head, middle, end, and lists too short to swap |
| `HandOverHandFirst` | *finding*: a swapper exchanges "the first node" that is not first | 2 swappers, 3 nodes |
| `Proxies` (`MCProxies`) | in each of the three: the limit holds, the accounting is exact, cacheable answers are served whole, an entry only one client uses stays, every request ends; in `main2.c` also: no fetcher touches an evicted entry, and an entry keeps the promise of `SharedAnswer` | 2 clients, 2 urls, 2 entries, limit 2, answers up to 2 chunks, capacities doubling from 1: one entry evicts another, a growth does not fit, an answer is short or too long, two clients share or duplicate an entry |
| `StreamProxyDirect` (`StreamProxy`) | *finding*: a client whose entry gave up caching ends without the direct fetch | the bounds in its `.cfg` |

Symmetry is used only in runs without liveness properties, over threads and
blocks that no definition tells apart; in `Proxies`, which has one, the first
request is fixed to one client and one url instead, which loses nothing because
clients and urls are interchangeable. Which unused block `calloc` returns is
fixed as well. Deadlock is checked where the programs run for ever; where they end
(`QueuePrograms`, `UThread`, `Lists`, `Proxies`) it is off, and a liveness property
or `NoDeadlock` takes its
place. Every property of a passing run has a mutant in `PROJECT.json`: a definition
changed the way a plausible bug would change the code (a dropped signal, an `if`
for a `while`, an unlock forgotten, a stale pointer kept), under which the
property fails. Mutated operators stand next to the original and say "Mutant:".

**Fairness.**

* `FutexMutex`: a thread inside `mutex_lock` or `mutex_unlock` keeps running.
  Nothing obliges a thread to start a lock, nor a holder to unlock: the liveness
  property assumes neither. Spurious returns are never required.
* `MCPrograms` for 2.2f and 2.2g: each thread that can run does (weak fairness
  per thread), and spurious wake-ups do not go on for ever. Weak fairness is
  enough for the C library's mutex because a thread there loops through it with
  one competitor that itself gets blocked when the queue is full or empty. For
  2.2a, 2.2e and 2.4 no fairness is asked, since threads there try again and
  again and a spinlock gives none, and no liveness is claimed.
* `UThread`: there is one kernel thread; if it can move, it does.
* `QueuePrograms`: `main` runs, and a thread that has been cancelled ends. The
  monitor need not run otherwise.
* `Lists`, for `main1.c`: each thread runs, and `main` wakes from its sleep and joins.
* `Proxies`: each thread runs; `recv` and `send` return, as they do when the
  peer sends, closes or the connection breaks.

`FetcherKeepsEntry` is stated for `main2.c` only: in the other two a client whose
connection breaks leaves before the answer is complete, the reference count
reaches 0 as soon as `complete` is set, and the entry may be evicted before its
fetcher has sent the last broadcast. `OwnEntryStays` speaks of entries that one
client has used: when two clients change `refcount` under different locks an
update may be lost, and no more holds.

## 4. The proofs

All are for every value of the constants that the named assumptions allow
(`ClientsAssumption`, `QueueAssumption`, `LockedQueueAssumption`, `MonitorAssumption`,
`BlocksAssumption`, `ProgramsAssumption`, `RaceAssumption`, `UThreadAssumption`, `RwListAssumption`, `ListAssumption`,
`CacheAssumption`, `StreamAssumption`):
any set of threads, any `MaxCount`, any number of nodes, any number of
iterations, any cache limit and length of an answer. The sets of writers and
readers of the queues are finite, and there are at least as many blocks as a
full queue needs. `queue-threads.c` has one writer and one reader, which is what
`RaceAssumption` says of the race. The clients and entries of the proxies are finite too, with
as many entries as clients: in the model each client makes one request, a
request makes at most one entry, and `calloc` does not fail. Elsewhere the set
of threads may be infinite. TLC evaluates the assumptions in the runs.

* **`LockProofs`**: `TypeCorrect`, `Exclusion`, `WordMatchesHolder`,
  `WakeupsKept`, `MutexImplementsLock`. Mutual exclusion is not inductive by
  itself, since a thread that finds the word MUTEX_UNLOCKED would take it whoever
  holds the mutex; together with "the word is UNLOCKED exactly when nobody holds"
  it is. `NoLostWakeup` needs these as well: a sleeper is safe while the word
  says there are waiters, and when that mark is erased, by an unlock or by a
  newcomer on the fast path, some awake thread is on its way to wake one or to
  mark the word again. One step per action shows which thread that is.
  The refinement maps the holder of the mutex to the holder of `LockPromise`; every
  action is an acquisition, a release or a stutter. `SpinExclusion` and
  `SpinImplementsLock` follow in the same way with one word of two values.
* **`UThreadProofs`**: `UThreadTypes`, `UThreadsTakeTurns`, `UThreadsRunOnce`.
  `RoundRobin` compares any two threads, but what a step keeps is a statement
  about all at once, `Round(n)`: of the unfinished threads, those before the
  running one have done n + 1 iterations and the others n. `YieldsToNext` shows
  that the search of `uthread_yield` always finds the very next slot, since
  `copy_completed` stays empty: the flaw of finding 2 is here the reason why
  turns go round.
* **`QueueProofs`**, first part: `QueueTokensMatch`, `QueueNeverRefuses`,
  `QueueNoLostSignal`. The invariant counts threads: `Control` says that who is
  between the first test and the last store of the body holds the lock;
  `Tokens` (2.2g) that `full` and the threads with a claimed value make up
  `q->count`, and `empty` and those with a claimed place the rest; `PastWait`,
  `Waiters` and `Signalled` (2.2f) that a thread past its wait finds what it
  waited for, and that sleepers beside a value or a place are outnumbered by
  awake threads bound for it. A step moves one thread from one of these counts
  to another together with `q->count`.
* **`QueueSteps`** and **`QueueProofs`**, second part: `QueueConsistent`, `QueueIsFifo` and, from both
  parts, `QueueTypes`, for the queues of 2.2a, 2.2e, 2.2f and 2.2g.
  `Queue(s, n)` says that `q->first` leads
  through n different nodes s[1] .. s[n], and `Work` says for each label of the
  lock's holder how `q->last`, `q->count`, the heap and the holder's locals
  differ from that: a node allocated and not linked, linked and not counted,
  unlinked and not freed. `Becomes` is the step of the holder; one lemma for each
  action shows which sequence s becomes, and that the values on it change as in
  `BoundedFifo` or not at all (`FifoMove`). Everything outside the body is
  `Outer`, whatever the lock: the four modules are bridged to it by the lemmas
  `...Around`. Last, `AtVisitsList` shows that `Items`, which is defined by
  walking along the nodes, is the sequence of values on s.
* **`QueueProofs`**, fourth part, the queues of `2.4`: `ProgramsSnapshot`,
  `ProgramsAreFifo`, `ProgramsInOrder`. Here two results proved apart meet: the
  list under a lock (`QueueSteps`, as `M`) and the two locks (`LockProofs`, as
  `L`, whose threads are the writers, the readers and the monitor). `InLock` is
  what `M` takes for the holder: the writer or reader that has left LOCK and has
  not yet made the exchange or the store in UNLOCK. `Sites` ties the place of a thread
  in the queue to its place in the lock, and `Exclusive`, from mutual exclusion,
  makes the holder unique. A step keeps the lock, takes it or gives it back
  (`Keeps`, `Takes`, `Gives`), and what it does to the queue (`Effect`) begins
  and ends at the sites where it should; `SpinMoves` and `FutexMoves` show this
  for each action of the locks, and `OwnIsAround` that `M` knows every such step. The
  monitor holds the lock and changes nothing, which is why the first number it
  has read is still the count when it reads the second (`Snapshot`).
  `InOrder` is not inductive; `Ordered` of `QueueSteps` is. The value the
  reader is due, those in the queue and the one the writer sends next follow one
  another without a gap (`Follow`), and what the reader has taken and not yet
  compared is the value it expected. It needs one writer and one reader, as the
  programs have, since the values of several would interleave; the theorem covers
  all six queues with a lock.
* **`ProgramProofs`**, the race: `ProgramsCountInRange`,
  `ProgramsReaderStaysOnHeap`. `InPlace` says who may be where, so that one thread
  at most adds and one gets (`OneEach`). Each works against the other in one
  direction only, and that makes the range inductive: `Counting` says that
  `count` is below `MaxCount` once the writer has found room and above 0 once the
  reader has found a value, and so are the registers they have loaded; a lost
  update leaves `count` wrong and within the range. For the memory `Reached`
  says that the list read from `first` consists of nodes not freed, none of which is
  the node the writer has not linked yet or the one the reader has taken. It
  says nothing of `last`: that the writer may follow it to a freed
  node, or write its link into it, is the failure the program shows, and it is
  harmless to the reader, since a write to a freed node changes no node of the list.
* **`ProgramProofs`**, programs of one thread: `ProgramsCleanDestroy`,
  `ProgramsSequentialFifo`. A single thread is as good as one that holds a lock:
  with `Locker`, who is `main` where there is no lock and the holder elsewhere,
  the lemmas of `QueueSteps` hold of all five directories, under the
  name `Q`. `Lives` ties the lock, the monitor and the life of the queue to the
  place of `main`: no lock is held between calls, since the last step of
  each call releases it (`IdleReleases`), and the monitor is gone before the queue
  is. `Destroying` follows the chain from the node `queue_destroy` has come to:
  the heap holds the nodes still ahead and no others.
* **`ListTheorems`**: no theorem with an operator as parameter can be used, the
  usual induction included. `SetInduction` gets induction for *sets* of numbers
  from the finite-set theorems (a counterexample would make k |-> k + 1 an
  injection of a finite set into a smaller one); iteration of a function and the
  recursive walk along a list follow from it. So does that the sum over a finite
  set, a fold in the community modules, is a sum: one element less, one value
  changed, one element more (`SumRemoves`, `SumChanged`, `SumAdded`).
* **`ListProofs`** for `main.c`: `PairsAreCurrent`, `ListIsASequence`,
  `ListsNeverDeadlock`. For `main.c` the invariant is that there is a sequence s
  that lists the nodes, on which the pairs of the threads stand next to each
  other (`Listed`, `PairsOn`); each step appends to s, exchanges two neighbours or
  leaves it (`StepsTo`), and `Order = s` makes that a step of `SwappedList`.
  For the deadlock, `NobodyWaitsForANode` shows that nobody in a cycle of waits
  waits for a node: a pair is locked in the order of the list, so whoever holds
  the wanted node furthest down waits for none in the group. What is left are
  waits for the read-write lock, whose holders wait for nobody. For `main1.c`
  see below.
* **`ListProofs`** for `main1.c`: `ListTypes`, `LocksExact`, `Neighbours`,
  `ListNoWaitCycle`. The
  invariant `ListInv` says of each thread which nodes it holds (`Mine`) and what
  it knows of them (`Placed`: which locals point to nodes, which are linked,
  which differ). It is inductive because a link is rewritten only by the holder
  of the node it starts from: `OthersKept` shows once that a step of one thread
  that takes or releases nothing for others and rewrites only such links keeps
  what all others rely on; `LockStep` and `RestartStep` deal with the two
  shapes most steps have; `CounterStep` and `SwapperStep` go through the
  actions. `list->first`, which no lock protects, does not occur in `Placed` at
  all: this is why the stale head of the finding breaks the list but not the
  locking. The cycle of waits is ruled out by numbering the nodes so that numbers
  grow along every link (`Ranked`): a thread waits for a node further on than
  those it holds. A swap, which turns two links round, calls for a new numbering
  (`After`).
* **`ProxyProofs`**: `CacheTyped`, `UsedStaysWithinLimit`, `UsedStaysAccounted`,
  `AllIsServed`, `OwnEntryIsKept` for the three proxies, `FetcherIsDone` and
  `EntriesKeepPromise` for `main2.c`. None of these properties is inductive; `Inv`
  of `ProxyInvariant` is. Its parts, and what each is there for:
  * `EntriesOK`, `MainOK`, `HeaderOK`: at each label of its fetcher, how `size`,
    `capacity`, `complete` and what has been received hang together. An entry is
    evicted only when it is complete, so the fetcher that takes room still has
    its entry in the table, and a store always finds the room it took.
  * `TableOK`: no entry is listed twice, so taking one out gives back its room
    once. With this the account is exact: a step changes the room of one listed
    entry together with `cache_used_bytes` (`AccountChange`), evicts a victim
    (`AccountEvict`) or lists an entry without room (`AccountInsert`).
  * `ClientsOK`, `ServedAll`: what a client has sent is never more than is there,
    and it leaves without failure only after `complete`, when `size` no longer
    changes.
  * `AloneAll`: a client that has an entry to itself has its reference counted,
    whatever updates of other counts were lost; `MadeBy` says that no entry is
    without a client that made it.
  * `Main2OK`: until its fetcher exits no client of an entry gets as far as
    dropping its reference. References of clients that arrive together may still
    get lost, but the count never falls below 1, so the entry is not evicted
    under its fetcher, and all clients see the same end of it.
  * `EnoughEntries`: there is a block left for the next request, by counting.

  The proof has three layers. `NextIsStep` turns the steps of the programs, which
  are instances with `Program` replaced, into steps of the operators of
  `ProxyCache`. `FetcherEffect` and `ClientEffect` say once what a step of a
  fetcher or client leaves alone; then each action is taken through the parts it
  can disturb (`FetchersStepKeeps`, `InsertKeeps`, `ClientKeeps`, `LoopKeeps`,
  `HeaderClientKeeps`). `EntriesKeepPromise` maps an entry to `SharedAnswer`: a
  client comes, the entry is resolved, a client is answered, or none of these
  (`ComeStep`, `ResolveStep`, `AnswerStep`, `NoStep`). TLC has also checked `Inv`
  with the constants of the run `Proxies`. The proof does not use what the run
  fixes for symmetry: the theorems hold for `Spec` with that choice, for every
  set of clients and urls.

**Model-checked only.** Liveness (`ContentionResolves`, `KeepsDelivering`,
`EveryThreadRuns`, `Stops`, `EveryRequestEnds` and the others under fairness):
fairness and ENABLED are out of the prover's reach. Every other property of a
passing run is stated by a theorem.

## 5. Where the code disagrees with what it says

1. `mutex_unlock` prints "Mutex error" for the rightful holder of a contended
   mutex (`2.4/mutex/mutex.c:51`): only the fast path records the owner.
   Exclusion is not affected.
2. uthread: the process ends before "all threads have completed" (`main.c:72`):
   `uthread_create` copies the struct whose `completed` the wrapper sets.
3. `2.3/main1.c:305`: the "first node" that `swap_thread` locks was read before
   the lock; `list->first` may be set to a node that is not the head, and nodes
   are lost.
4. `proxy/main.c:469`: a client that is waiting when caching is given up ends with
   an empty answer, not with the direct fetch the comment calls for.
5. `queue-example.c`, the same text in five directories, asks for two values more
   than it has added. In 2.2f and 2.2g `queue_get` waits for them and `main` never
   reaches `queue_destroy`.

## 6. Not modelled

`proxy/client.c`, a sequential load generator; the statistics threads, `set_cpu`
and logging, which no other code reads; `uthread_join`, which the program never
reaches while a thread exists; `queue_destroy` of `2.4`, which nothing calls;
overflow of the writer's `int`; weak memory. Who reads a buffer of `proxy/main.c`
that `realloc` has moved, or data of `main1.c` that has been freed, is undefined
behaviour: the models let such a `send` fail or go through and claim nothing of it.
Where readers are preferred by the read-write lock, or threads race for a
spinlock, no progress is promised to a single thread and none is stated.

## 7. Plan

Done, in this order, the most important first: the two locks, on which all else
in `2.4` rests; the queues from the unlocked list upwards, with `BoundedFifo` as
what each promises; uthread; the two lists, later with `SwappedList` and side by
side; the proxy of `main.c`, then those of `main1.c` and `main2.c` on the same
`ProxyCache`; the life of a queue, its monitor and the example programs; the
proofs of the two locks, of hand-over-hand locking, of uthread, of the lists,
of the queues on locks of the C library, of the race and the example programs, of the three
proxies, and of the queues of `2.4` on the two locks.

Next:

1. *uthread*: `uthread_join` in programs that call it before the schedule has
   ended; the repository has none.
2. *Runs*: a larger instance of `Lists` (`main1.c` with two counters, `main.c`
   with four nodes), which takes longer than the five minutes allotted to a run.
