# A TLA+ model of d4np-c

d4np-c is a C11 library of small building blocks: allocators, containers, string
and file helpers, threads and a logger.  This directory holds TLA+ modules of its
stateful parts, TLC configurations that check them on small instances, and
TLAPS proofs, for every value of the constants, of the safety properties of all
of them but the functions over texts.

## Inventory

| part | state | operations that change it | what is hard about it |
|---|---|---|---|
| concurrency/thread_pool | mutex, semaphore, task list, shutdown flag, workers | init (with rollback), submit, worker loop, destroy | an empty queue is the stop signal; submit posts after unlocking; shutdown races with submits |
| concurrency/semaphore | counter, mutex, condition variable | init, wait, trywait, post, destroy | lost and spurious wake-ups |
| concurrency/atomic_queue | linked list with a dummy node | enqueue, dequeue, init, destroy | node freed while the producer still names it, address reuse |
| ds/ring_buffer | two wrapping counters, slots | push, pop, count, init, destroy | no lock; full and empty told apart after a wrap |
| ds/hashmap | control bytes, keys, values, len, tombstones | init, put, remove, clear, destroy | tombstones in probe chains, growth that fails |
| io/file | files, temp file, page cache | read_all, write_all | failing calls, crashes, two writers |
| mem/arena | base, capacity, offset | init, alloc, reset, destroy | size_t wrap, alignment |
| mem/pool | slots, intrusive free list | init, alloc, free, destroy | links in memory that callers overwrite, size_t wrap |
| sys/log | once flag, mutex, stream, level | set_output, set_min_level, write | lazy initialisation raced by several threads |
| concurrency/named_semaphore | names, kernel objects, handles | open, close, unlink, wait, trywait, post | unlink and reopen, signals, processes that die, names that do not fit |
| ds/vector | one block, len, capacity | init, reserve, push, pop, clear, destroy | growth that fails, byte counts that wrap |
| ds/string_builder | one block, len, capacity | init, reserve, appends, clear, destroy | a terminator at every moment, sizes that wrap |
| ds/linked_list | two links per node, sentinel, len | push and pop at both ends, remove | both directions in step |
| sys/error_context | thread-local stack of 16 frames | push, pop, clear | frames dropped, messages cut, pointers to popped messages |
| str/str_view, str/parse, io/path | none | pure functions | empty fields, limits of the type, truncated buffers |
| core/allocator | function table | alloc, realloc, free | a failed realloc keeps the block |
| concurrency/mutex, core/status, sys/hash, sys/uuid, sys/clock | none of their own | pure functions or one system call each | see "Not modelled" |

The parts interact in few places.  The thread pool uses the semaphore, the mutex
and an allocator; the logger uses the mutex and the clock; every container takes
an allocator, whose failure is a choice in each model; the string builder and
the parsers take views.

## Modules

| module | models | state and actions |
|---|---|---|
| `ThreadPool` | thread_pool.c | the owner's program counter walks init, rollback and destroy; each worker and each caller of submit has its own.  Taking the lock is a step, the critical section with its unlock another |
| `TaskList` | the q_head/q_tail pointers of thread_pool.c | extends `ThreadPool`: its critical sections also relink the list |
| `Semaphore` | semaphore.c, POSIX build | lock, test, sleep, signal, unlock are separate steps |
| `AtomicSemaphore` | what a semaphore promises; semaphore.c, Win32 build | one step per operation; `Semaphore` implements it, `ThreadPool` uses it as a counter |
| `RingBuffer` | ring_buffer.c | loads, copy and store of push and pop, the two loads of count |
| `AtomicQueue` | atomic_queue.c | allocation, copy, link, advance; load, copy, advance, free |
| `Fifo` | what a queue promises (implemented by `RingBuffer` and `AtomicQueue`) | put, refuse, get, get nothing, close, open |
| `HashMap`, `AbstractMap` | hashmap.c, and what a map promises | one action per API call; `Locate`, `Settle` and `Rehash` are operators; `%` stands for the mask of a power of two |
| `FileStore` | file.c, POSIX path | one action per library call; write-back and crash stand for the system |
| `NamedSemaphore` | named_semaphore.c, both builds | one action per API call, except that wait has a step for the kernel's answer and one for the loop's test; signals, deaths and the kernel's reclaiming stand for the system |
| `Words`, `Pointers`, `Allocator` | size_t and the widest alignment; NULL; d4np_realloc on a block of bytes | operators only |
| `Chains` | following links from a node (used by `TaskList`, `AtomicQueue`, `Pool`, `LinkedList`) | operators only |
| `Arena`, `Pool` | arena.c, pool.c | one action per API call |
| `Vector`, `StringBuilder` | vector.c, string_builder.c | one action per API call on a block of bytes; `pushed` and `text` are what the caller has reason to find |
| `LinkedList` | linked_list.c | one action per API call on the links; `order` is the list as its callers see it |
| `ErrorContext` | error_context.c, one thread | one action per API call; `trail` is what a handler should find, `readable` the messages handed out by pointer |
| `StrView` | str_view.c | split_next as a caller's loop drives it; split and equals are operators |
| `Parse`, `Path` | parse.c, path.c | operators, and a call that records its arguments and its answer |
| `Log` | log.c | every atomic access, lock and stream write |

The proofs are in modules of their own:

| module | proofs about |
|---|---|
| `ThreadPoolProofs` | `ThreadPool` and `TaskList` |
| `SemaphoreProofs` | `Semaphore`, its refinement of `AtomicSemaphore`, and `NamedSemaphore` |
| `AtomicsProofs` | `RingBuffer` and its refinement of `Fifo`, and `Log` |
| `LinkedProofs` | `AtomicQueue`, its refinement of `Fifo`, and `Pool` |
| `RecordProofs` | `FileStore`, `ErrorContext` and `LinkedList` |
| `SequentialProofs` | `Arena`, `Vector` and `StringBuilder` |
| `MapProofs` | `HashMap` and its refinement of `AbstractMap` |
| `SharedProofs` | lemmas that several of these use: paths of links; remainders, and the least element of a set of numbers |

Each `MC...` module extends a component for TLC and adds at most a symmetry set
or the values of a constant.  Components that share no state are checked in one
run, in which a behaviour moves one of them while the others are at rest:
`MCSequential` for what one thread uses (`MCStrings` is its part without memory),
`MCSemaphore` for the two semaphores.

Definitions that begin with "Seeded fault" are variants of an action with a
plausible mistake; substituted for the action, each breaks the property it is
meant for, which shows that the property can fail.

`Capacity`, `Word`, `MaxPermits`, `MaxVersion`, `MaxCalls`, `MaxCapacity`,
`MaxTotal`, `VectorLimit`, `SbLimit`, `MaxValue` and `MaxObjects` are the bounds;
they are constants, and the guards name them.

## Runs

| run | instance | states | result |
|---|---|---|---|
| pool_threads | 2 workers, 2 clients, 3 tasks; any init failure | 117397 | permits balance, exits are not premature, the semaphore outlives its users, the drain is graceful, every accepted task runs once, every node has one owner, nothing is left behind, the pointers spell the queue; destroy and rollback end, accepted tasks run |
| semaphores | 4 threads, 2 permits; 2 processes, 4 keys, 2 permits | 76621 | no lost wake-up; implements `AtomicSemaphore`; no waiter stays asleep beside a permit; named semaphores conserve their permits, and a key names one semaphore |
| ring | 2 slots, counters modulo 8, 2 values | 88880 | no slot race, count in range for producer and consumer, implements `Fifo` |
| queue | 3 nodes, 2 values | 36120 | no use after free, no leak, implements `Fifo` |
| sequential | 4 keys in tables of 4 and 8 slots; size_t modulo 16; 4 list nodes; 2 error frames of 3 bytes; all texts of up to 4 characters, all path segments of up to 2 | 139575 | hash table never full, counters exact, implements `AbstractMap`; arena blocks disjoint, inside and aligned; the pool's free list exact, its slots fit; the vector is the sequence pushed, the builder's text always terminated, the list a deque in both directions, the error trail kept; split, parse and path agree with their reference definitions |
| file | 1 writer, 1 reader, 2 blocks, 2 writes, crashes | 15300 | the target is always whole, reads see one version, a write that returns OK installed its own version |
| log | 3 threads, 3 calls | 123044 | ready before use, settings stick, records do not interleave, calls return |

Why the bounds are enough to be interesting: with two workers, three tasks and
tasks that submit, a submit can be overtaken by another worker and by destroy at
each step; counters modulo 8 over 2 slots wrap several times; three queue nodes
force the allocator to reuse addresses; the four hashes collide and probe round
the end of both table sizes, and the fault that ignores tombstones fills a table;
size_t modulo 16 makes every overflow guard of arena, pool, vector and builder
fire; two messages are longer than their frame; the integers reach both limits
of a type of 7 bits in radixes 8 to 36; path buffers end before, at and after
the separator.  Two processes suffice for the named semaphores: one holds an
object while the other unlinks, dies, closes last or opens the key again; two of
the four keys differ only where a POSIX name is cut.  Two processes never keep
more than four objects alive.  Symmetry is used for `FileStore` only, where the
members of the set are interchangeable and no liveness is checked.

Five runs show that the code and a statement about it disagree:

| run | property | statement |
|---|---|---|
| pool_threads_late | LockAlive | thread_pool.h:76, submit is thread-safe and rejected after shutdown; a submit that destroy overtakes locks a destroyed mutex |
| file_shared | NeverHalfWritten | file.h:11; two writers of a path share path.tmp |
| file_durable | Durable | file.h:9; the directory is not flushed after the rename |
| split_null | EmptyViewOneField | str_view.h:67, the empty view yields one field; a view without a buffer, such as that of a builder without storage, yields none |
| memory_overaligned | Aligned | arena.h:53 and d4np_allocator.c:9; only the offset is aligned |

The first needs a caller that submits while another thread destroys; nothing in
the header forbids it, and `shutting_down` exists for that case.

Two limits have no run of their own.  `d4np_ring_buffer_count` promises "an
approximate number" (ring_buffer.h:89), but a third thread that loads tail, sleeps
and loads head can compute a difference that wraps: give `Observers` a third thread
in MCRingBuffer.cfg and TLC refutes `CountInRange`.  And `d4np_file_read_all`
reports the trimmed length even when the shrinking realloc failed (file.c:82), so
a sized allocator may be handed a smaller size at the free; `FileStore` does not
model the block's size.

## Fairness

`ThreadPool`: every thread inside a library call, and every task, keeps taking
steps when it can (weak fairness per thread; the bounded number of tasks keeps
the mutex from going to others for ever).  Nobody is assumed to call submit or
destroy, and a submit that meets a destroyed mutex may hang.  `Semaphore`:
weak fairness per thread, and the liveness property only speaks of the time after
the last new call, because a mutex may starve a thread while others keep coming.
`Log`: weak fairness per thread, sound because the number of calls is bounded.
`NamedSemaphore` and the components of one thread have no liveness property: a
process may die with a permit, and a sequential call has no one to wait for.
Spurious wake-ups, signals, write-back and crashes are never assumed to happen.

## Proofs

Every theorem is about a component's own specification and holds for every value
of the constants that satisfies the named assumptions.  `MCSequential` and
`MCSemaphore` move one component at a time; what a component does there is a
behaviour of its own specification (`ArenaSpec`, `PoolSpec`, `VectorSpec`,
`SbSpec`, `ListSpec`, `MapSpec`, `ErrorSpec`, `NamedSpec`), so runs and theorems speak of the same steps.

| theorem | property | what had to be added to make it inductive |
|---|---|---|
| `TypeCorrect`, `PermitsAccounted`, `WorkersStayForTheirTasks`, `SemaphoreOutlivesItsUsers` | `ThreadPool`: `TypeOK`, `PermitAccounting`, `NoPrematureExit`, `SemaphoreAlive` | the owner's place fixes the flag, the phase and its loop index; which workers exist and are joined; no task before init has succeeded |
| `TasksRunExactlyOnce`, `NodesHaveOneOwner`, `DrainIsGraceful` | `ExactlyOnce`, `NodeOwnership`, `GracefulDrain` | every node is pending in one submit, queued once, or with one worker, and what has run was linked |
| `PointersSpellTheQueue` | `TaskList`: `ListIsQueue` | the queue is a path from q_head along next, with q_tail at its end |
| `SemaphoreTypes`, `NoWakeupIsLost` | `Semaphore`: `TypeOK`, `NoLostWakeup` | only wait sleeps; permits and posts under way fit the counter |
| `MutexAndConditionImplementSemaphore` | `ImplementsAtomic` | the same invariant; locking, sleeping and waking are stutters |
| `NamedPermitsConserved`, `KeyNamesOneSemaphore` | `NamedSemaphore`: `PermitsConserved`, `SameKeySameSemaphore` | a caller has a handle, a handle an accepted key, and a bound name the key of those who hold its object |
| `CopiesNeverRace`, `CountsInRange` | `RingBuffer`: `NoSlotRace`, `CountInRange` | a push that has begun still has room and a pop an element; what count loaded is at most a capacity ahead |
| `RingBufferImplementsFifo` | `ImplementsFifo` | the same; an element enters when tail is published and leaves when head is |
| `NodesOutliveTheirUsers`, `NodesNeverLeak`, `AtomicQueueImplementsFifo` | `AtomicQueue`: `NoUseAfterFree`, `NoLeak`, `ImplementsFifo` | a path from head to NULL which, with the node being made and the one being freed, is the heap; tail is its last node, or enqueue is about to make it so |
| `PoolIsSound` | `Pool`: `PoolSound` | the free list is a path through the slots that nobody holds |
| `InitialisedBeforeUse`, `SettingsAreKept`, `RecordsNeverInterleave` | `Log`: `ReadyBeforeUse`, `SettingsStick`, `NoInterleaving` | g_once tells who may be where; the mutex belongs to the thread between lock and unlock; only the stream in force has a record in progress, of that thread |
| `TargetAlwaysWhole`, `ReadersSeeOneVersion`, `WriterInstallsItsVersion` | `FileStore`: `NeverHalfWritten`, `ReadsOneVersion`, `InstallsOwnVersion` | the target, as seen and on disk, is not the temp file; the temp file is as good as the writer's place says; a reader has a whole file open |
| `TrailIsKept` | `ErrorContext`: `TrailKept` | the sizes of the stack and its buffers |
| `ArenaPlacesWell` | `Arena`: `WellPlaced` | allocations end before offset, which is within the capacity |
| `VectorKeepsItsElements` | `Vector`: `VectorIsSequence` | the block has exactly capacity rows and the address space holds it, so no index wraps |
| `BuilderStaysTerminated` | `StringBuilder`: `AlwaysTerminated` | the block begins with the text and has room for the NUL |
| `ListDeque` | `LinkedList`: `ListIsDeque` | the nodes in order, with the sentinel before the first and after the last, are a circle of which next and prev are the two directions; no node is in it twice |
| `TableStaysSound` | `HashMap`: `TableSound` | every entry is reached by the probe of its key with no EMPTY slot on the way; entries and tombstones are fewer than the slots |
| `MapImplements` | `ImplementsMap` | the same; an entry found by the probe is the one entry of its key |

The arguments that carry most:

* Thread pool.  `StopSignal`: if a worker that holds a permit finds the queue
  empty, the balance leaves only stop permits, so the shutdown has begun and no
  accepted task is waiting.  `JoinedMeansDrained` uses the balance again: when as
  many workers have left as stop permits were posted, no submit can owe a permit.
* Semaphore.  A post that adds a permit beside a sleeper wakes one, and a waiter
  that stops being awake takes a permit with it or has found none; so signalling
  one thread for each post is enough.
* Ring buffer.  The places from head to tail are fewer than Capacity apart, so
  their masked indices differ; a counter that wraps keeps its slot because
  Capacity divides Word.
* Linked structures.  `SharedProofs` shows that a path of distinct nodes is what
  following the links collects, and how it grows at its end and at its front and
  shrinks at its front; links of nodes off the path, such as freed ones, do not
  matter.  The doubly linked list is a circle of places: `Spliced` and `Bypassed`
  say that link_between and unlink turn a circle into the one with a place more or
  less, wherever it is, and `Circle` that a walk in either direction reads it off.
* Hash map.  `Located` says what locate answers in a table with an EMPTY slot: the
  entry of the key, or else a slot such that storing the key there leaves it
  reachable.  put and remove make no slot EMPTY, so they cut no other probe short
  (`ReachKept`); resize stores the entries one by one in a table that stays well
  placed and keeps room (`Settled`, `Moved`, by induction over the slots of the old
  table); and growing at three quarters, tombstones included, leaves an EMPTY slot
  after every put.  MinCapacity need not be a power of two for this, only at least 2.
* Files.  Nothing touches the target but the rename, and before it the temp file
  is whole and on disk; readers keep the inode they opened.
* Vector.  `RowsApart` and `ElementFits`: the bytes of an element lie in its row,
  rows do not overlap, and the last row ends at most at VectorLimit, below Word.
* String builder.  `DoublingsSuffice`: the doubling loop ends at a capacity that
  is large enough, or falls back to the size needed where doubling would wrap.

Hypotheses beyond the assumptions, stated in the theorems themselves:
`OneWriter` for `FileStore` (with two writers `NeverHalfWritten` is false, as run
file_shared shows), and `Observers \subseteq {"producer", "consumer"}` for
`CountsInRange` (a third thread can read a difference that wraps).

What the assumptions on constants say, and why the code justifies them: `Word` is
a multiple of `MaxAlign`, and a fundamental alignment divides the widest one (all
are powers of two); `Capacity` divides `Word` (init accepts only powers of two);
arena blocks start at multiples of `MaxAlign` (what malloc guarantees); no vector
block has more than PTRDIFF_MAX bytes, and no builder block fills the address
space (see "Abstractions"); NULL is not a node, an address or a block; keys and
messages are sequences; sets of threads, nodes, inodes and processes are finite.
Of the hash function nothing is assumed but that it answers with a number.

Recursion and induction.  Where a theorem needs induction over numbers (the walk
along a chain, the doubling loop, the slots of a table) it uses `Least`, that a nonempty set of naturals
has a least element, on the set of counterexamples; the recursive functions are
shown to exist first.  So those proofs rest on the library's
`NatLessThanWellFounded` and `WFMin` only.

Only model-checked:

* the liveness properties `ShutdownTerminates`, `AcceptedTaskRuns`,
  `ServesWaiters` and `CallsReturn`: fairness and ENABLED are outside the prover;
* `StrView`, `Parse` and `Path`: that a function over texts agrees with its
  reference definition for every text is induction over data.

## Abstractions

* Release stores and acquire loads are treated as sequentially consistent; the
  models check the order in which the code issues them.
* Task functions, element bytes, log text and file contents are model values.
* The file system is an external model: fsync makes a file's data durable, the
  directory is written back at any time, rename is atomic.  An `fclose` on an
  error path may still flush some blocks; the file is then removed, or truncated
  by the next open, so this is left out.
* The semaphore is destroyed, in `ThreadPool`, once no call needs it any more; that
  a mutex may be destroyed as soon as its last holder has unlocked it, although
  the unlock call has not returned, is guaranteed by POSIX.
* A block of memory is a function from its offsets to what the bytes hold, and
  `Realloc` keeps the bytes that fit.  `Vector` assumes that no block has more
  than PTRDIFF_MAX bytes (`2 * VectorLimit < Word`), which push needs: it doubles
  the capacity without a check.  `StringBuilder` assumes only that no block fills
  the address space, for `len + 2`.
* int64_t is scaled to 7 bits, its digits to a few characters, and `strtod` reads
  integers; the scratch buffer of parse_float has 4 bytes, the name of a POSIX
  semaphore 3.
* Callers keep the documented contracts: one producer and one consumer, no
  destroy of a container in use, pool blocks freed once by their holder, list
  nodes in one list at a time, no append or push of a container's own bytes.
* Each process holds one named semaphore at a time and waits in one thread; posts
  stay below the counter's limit, at which both builds would lose one.

## Not modelled

* core/status, core/version, the umbrella header: names and constants.
* core/allocator, its dispatch through the function table, alloc and free: one
  call each, whose outcome is a choice in every module that allocates.
* concurrency/mutex: one system call per function; its users model the holder.
* sys/hash and sys/uuid: arithmetic on 64-bit words (FNV-1a, splitmix64) and the
  hexadecimal text of 16 bytes.  A scaled-down word would check another function,
  and nothing about them depends on an order of steps.
* sys/clock: one reading of the system's clock.
* Queries that read one field (lengths, counts, emptiness) are read by the
  properties directly.

## Plan

Done: the modules, runs and theorems above; every part with state has a module.

1. Composition: the thread pool over `Semaphore` in place of its abstraction; the
   refinement proved here says that nothing is lost by the abstraction.
2. `HashMap` in bytes, with the strides that resize computes.
