# Verification of the Moonsugar core library

Moonsugar (`README.md`, `include/moonsugar/`, `src/`) is a C99 library of core
functionality: coroutines, memory allocators, containers, files, threads and
some smaller helpers. This directory holds TLA+ models of the parts that have
interesting state, the TLC configurations that check them, and proofs that TLAPS
checks. Paths below are those of the repository.

## 1. The system

| component | state | operations | who uses it |
|---|---|---|---|
| ring buffer, `src/containers/ring.c` | `count`, `windex` (32 bits, never reduced), slots | construct, enqueue, dequeue | task queue |
| task queue, `src/thread/task.c` | a ring of task copies, a reader-writer lock | enqueue, enqueue_many, dequeue | thread pool |
| thread pool, `src/thread/pool.c` | worker threads, `must_join`, a task queue; `unsatisfied_dependencies` in the caller's tasks | construct, dispatch, `thread_main`, destroy | applications |
| reader-writer lock, `src/thread/rwlock.{win32,unix}.c` | Windows: SRW lock, event, `writers_waiting`; POSIX: `pthread_rwlock_t` | lock, try, unlock for reading and writing | task queue |
| open-file table, `src/file/file.c` | 1024 nodes, the free ones linked from `g_next` | initialize, fopen, fclose | applications |
| file back ends, `src/file/{unix,win32}.c` | per file the system's handle, flags, an offset, the operation in progress | open, close, read, write, seek, state and size of an operation | open-file table |
| coroutine scheduler, `src/coroutine.c` | array of coroutines, `count` | schedule, run_once, loop | applications |
| free list, `src/memory/freelist.c` | list of free chunks, kept inside them | malloc, free with coalescing | heap, arena |
| heap, `src/memory/heap.c` | reserved range, `committed_size`, free list | malloc, free, realloc | applications, through `ms_allocator` |
| arena, `src/memory/arena.c` | chain of nodes, a free list each | malloc, free, realloc, clear | applications |
| memory stack, `src/memory/stack.c` | `top`, `committed_top`, both atomic | malloc, clear | applications |
| OS memory, `src/memory/os.*.c` | page mappings | reserve, commit, decommit, release | heap, stack |
| threads, `src/thread/thread*.c` | 128 start descriptors, an atomic index, a name per thread | spawn, join, start routine | thread pool |
| spinlock, mutexes | a flag; the system's mutex | lock, unlock | applications |
| hash map, `src/containers/map.c` | keys and values in two arrays, a growth factor | get, set, remove, resize | applications |
| auto array, bit array, paged array, sparse paged array | memory, capacity, count; a chain of pages; a table of pages | append, get, set, resize, walk | applications |
| pool, indexed pool | a list through free nodes; a bitmap and where the last search ended | acquire, release, resize | applications |
| configuration, URI, path, `src/{config,uri,path}.c` | a buffer that is written step by step | parse, decode, split, join | applications, log |
| plugins, `src/plugin.c` | references the system counts | load, unload, get_function | applications |
| log, compress, sys, hash, functional, handle | a global logger; a zlib stream; cached queries | | applications |

Interaction: dispatchers and workers share the task queue (calls under a lock,
and task pointers that outlive it); a worker reaches the parent object of the
caller through the copied task; heap and arena hand callbacks to the free list,
which calls them before it creates or consumes a node; the coroutine scheduler
calls handlers, which may call `ms_co_schedule` on the same scheduler; threads
of the application share the file table without a lock.

Hard behaviour, and what being correct means there:

* pool and queue: several threads, pointers into reused slots, the race between
  the dispatcher of a parent and its last child, ignored failures. Correct: each
  accepted task runs exactly once, after its children, and destroy returns.
* Windows lock: a counter read before an unfair lock is taken. Correct: writers
  are not overtaken, nobody waits for ever, the counter is exact.
* file table: a lock-free list. Correct: no node handed out twice, none lost.
* scheduler: removal and insertion in an array under a walk. Correct: a round
  runs each coroutine scheduled at its beginning exactly once.
* heap: address arithmetic, splitting, coalescing, committing on demand.
  Correct: blocks and free chunks tile the heap, neighbours are merged, all
  memory in use is committed.
* arena: a counter lowered by a word users may have written, a chain that is
  cut. Correct: nodes stay tiled, blocks keep their node, a new node serves.
* memory stack: allocation without a lock, committing by whoever gets there
  first, a clear. Correct: blocks do not overlap and are committed.
* thread start: an array of descriptors shared by spawning and starting
  threads, failures that keep one. Correct: a thread runs what its spawner was
  asked for, and spawning returns.
* containers: holes in a hash slice, moving memory, pages that are full or
  missing, failed allocations half-way. Correct: each agrees with a function,
  a sequence, a set of bits, or a partition of its items.
* file positions: short operations, two ways to keep the position. Correct: an
  operation starts where the last ended or a seek led.
* parsers: a buffer that is reused, delimiters cut out in an order, bounds
  decided in several places. Correct: the parts are those that were put together.
* plugins: loads that fail late or are nested. Correct: a library is open as
  often as somebody holds it.
* ring: an index that wraps at 2^32. Correct: a bounded FIFO buffer.

`PROJECT.json` lists the hazards line by line.

## 2. The modules

| module | models | built on |
|---|---|---|
| `FIFO` | what a bounded buffer promises (abstract) | |
| `Ring` | `ring.c` | `INSTANCE FIFO`, refinement `queue <- Contents` |
| `ThreadPool` | `pool.c`, `task.c` | `INSTANCE Ring` with task copies as items |
| `RWLock` | `rwlock.win32.c` | |
| `Links` | linked lists kept in a function, said by the sets their links do not leave | |
| `FileTable` | `file.c` | `EXTENDS Links` |
| `Rounds` | what running the scheduler once promises (abstract) | |
| `Coroutine` | `coroutine.c` | `INSTANCE Rounds`, refinement below |
| `FreeList` | `freelist.c`, as operators on the sequence of free chunks | |
| `Heap` | `heap.c` | `EXTENDS FreeList` |
| `Arena` | `arena.c` | `EXTENDS FreeList` |
| `Stack` | `stack.c`, with the paging of `os.*.c` | |
| `FileIO` | reading, writing, seeking in `unix.c` and `win32.c` | |
| `StartDescriptors` | `thread.c`, the spawn functions of `thread.{unix,win32}.c` | |
| `HashMap`, `PagedArray`, `SparseArray`, `IndexedPool`, `Pool`, `BitArray`, `AutoArray` | the containers of those names | `Pool`: `EXTENDS Links` |
| `Config`, `Uri`, `Path`, `Plugin` | `config.c`, `uri.c`, `path.c`, `plugin.c` | |
| `Containers`, `Memory`, `Services`, `Files` | families: several models side by side, each with constants and variables of its own; what each needs of its constants (`...Sensible`); the properties under names that say whose they are | `EXTENDS Ring`, `Heap`, `StartDescriptors`, `FileTable`; `INSTANCE` of the others |
| `MCThreadPool`, `MCRWLock`, `MCCoroutine`, `MCStack` | the instances TLC checks | the module of that name |
| `MCHeap`, `MCFileTable`, `MCContainers`, `MCServices` | several models in one run: `subject` says whose behaviour it is, the others stay in one initial state | `Memory`; `Files`; `Containers`; `Services` |
| `ContainerProofs`, `MemoryProofs`, `ServiceProofs`, `ThreadProofs`, `FileTableProofs`, `RWLockProofs`, `CoroutineProofs` | theorems | the family or the module, and TLAPS |
| `CommonLemmas` | lemmas several proofs share: division and remainder, finite sets, `Links` | TLAPS |

Operators whose comment begins with "Mutant:" are plausible bugs, each placed
before the definition it would replace. No specification uses them: they show
that every property checked can fail.

**Ring.** `count`, `windex`, `values` are the fields of `ms_ring`; `Word` is
2^32. An enqueue hands out a slot that every caller fills at once, so call and
store are one step. `out` is the item behind the returned pointer. The contents,
oldest first, are what successive dequeues would return.

**ThreadPool.** Constants: the tasks with their parents, the workers, the
dispatchers, and two rules callers may keep: `MaxInFlight`, how many tasks they
leave unfinished at a time, and `ParentsFirst`, whether they dispatch parents
before children. `BeginDispatch` and `FinishDispatch` are
`ms_thread_pool_dispatch` before and inside the queue's write lock. A worker's
`wpc` walks through `thread_main`: `LoopHead`; `DequeueCheck`, `DequeueIndex`,
`DequeueStore` (the ring's dequeue under the read lock, cut where another reader
can come in between); `CheckUnsatisfied`, `CallHandler`, `ReleaseParent`,
`RequeueParent`, each of which looks at the slot again, without a lock. Loads of
non-atomic fields take an earlier or the present value. The copy `*item = *task`
is one step; a torn copy would only add to what the violation runs show. The
initial state is a constructed pool whose tasks carry the right dependency
counts.

**RWLock.** `pc` walks through each call; `shared` and `exclusive` are the SRW
lock, `signalled` the event. `ResetEvent(&lock->event)` gets a wrong handle and
does nothing, and so it does nothing in `AcquireExclusive`. `ahead` is a history
variable: the writers a reader found announced and has not outlived.

**FileTable.** Every load, link store and compare-exchange of `g_next` is a
step; weak exchanges may fail spuriously (`OpenRetry`, `CloseRetry`). `node` and
`link` are the functions' locals. The backend may succeed or fail.

**Coroutine.** `i` is the index of the walk in run_once, `pc` says whether
a handler is active, `looping` whether `ms_co_scheduler_loop` drives. Handlers
schedule, yield and return; the owner schedules between rounds. An element of
`Coroutines` is one activation. `last` and `done` are history. A scheduler that
is full refuses and changes nothing, so refusal is no action. A handler that
calls run_once or the loop on its own scheduler is outside the model.

**FreeList, Heap.** Addresses and sizes are bytes from the heap's base, with the
true sizes of node (24) and header (16). The list is the sequence of chunks in
list order, not sorted by definition, so that it can go wrong. `UserWords` are what
programs leave in the first eight bytes of a block, beside the size that
`malloc_node` left there: `find_prev_node` reads them as a size, before the node is
written. In a padded block it reads a part of the header instead (`StaleSize`).
`committed` is the code's own count and may be below zero, for the code lowers it
twice per decommit; `mapped` is the set of pages that really are committed. `Release` is
all of `ms_heap_free`: coalescing, the commit for the freed node, the
decommit behind the threshold. `astray` is history: a free put a chunk where its
stale size says and not its own, a decommit took pages that are in use, or a
commit began in front of the heap. No call follows on that in the model; what is in
memory then is arbitrary. A failing commit or an impossible realloc
ends the program (`ms_fatal`) and is no step. Contents survive a commit, as on
Windows; the POSIX `ms_commit` maps fresh pages over old ones (a finding).

**Arena.** `nodes` is the chain from `arena->first`, each node with its free list
and the counter `allocated_size`. `ms_arena_free` lowers that counter by the word
the user left where a free chunk keeps its size (`UserWords`), bounded only by an
assertion, so that it may come to zero too early or never; the size check of
`ms_arena_malloc` then wraps (`MayHold`). Below zero, where assertions are off, it
is a negative number. `stray` remembers a block whose node was freed or cut off,
`dead` that `ms_arena_clear` has read freed memory or that a chunk was freed to
the wrong place; no call follows on `dead`.

**Stack.** `from`, `end` and `seen` are the locals `ptr`, `end_ptr` and
`committed_ptr` of a call; each atomic operation on `top` and `committed_top` and
each call to the operating system is a step. `mapped` is the set of committed
pages. With `MapsAfresh` a commit replaces pages, as `os.unix.c` does, and `wiped`
remembers the blocks that lost their contents. `Quiet` is the rule that nobody
clears while somebody allocates.

**FileIO.** The system's file is a length and a pointer; `offset` is
`aio_offset`, or the two halves of an `OVERLAPPED` (in words of `Word`). Operations
may be short. The initial states of a Windows file are all that
`ms_file_backend_open` leaves: on success it sets neither flags nor offset.
`expected` is history: where the next operation should take place.

**StartDescriptors.** `Fetch` and `TestAndSet` are the two atomic steps of the
acquisition; `Fill`, `FillTooLong`, `Create` and `CreateFailed` the rest of
`ms_thread_spawn`; `Start` is `thread_main` to the release. `windows` chooses what a
failing creation does. The index stops at the end of the array, where the code
goes beyond it.

**Containers.** `HashMap` keeps `keys` and `vals` as functions on slots; what
`ms_map_resize` leaves is `broken` and not followed further. `PagedArray` is a
sequence of pages. In `SparseArray` a block of memory is a number, so that a
pointer is a block and an offset. In `IndexedPool` a block of bits is a set of
offsets. `Pool` has the links of the nodes. `BitArray` has the masks with their
width. `AutoArray` has the memory, with arbitrary contents where it was not
written. In `SparseArray` a growth that fails leaves no pages (`lost`), as the code
has then put NULL in their place. The variables `stored`, `list`, `given`, `holders`,
`held`, `ones` and `asked` are history: what callers know and did.

**Config, Uri, Path, Plugin.** `Config` is the loop of `ms_config_parse`, one
character a step, with the buffer that is never emptied. `Uri` makes a text out of
components, some characters escaped, and cuts it up as `ms_uri_decode` does. `Path`
is one call on a buffer whose memory goes on behind its end, or a join and
another call on what it wrote. `Plugin` counts the references to a library.

## 3. The runs

| run | instance | shows |
|---|---|---|
| `pool` | 1 worker, 2 dispatchers, 2 slots, a parent with 2 children and 3 lone tasks | at most once, children first, exact counters; tasks run, destroy returns |
| `pool_parent_race` | a parent and a child, the child dispatched first | the parent runs twice |
| `file` | 3 nodes, 3 threads, 1 of which opens; a file of at most 3 bytes, operations of at most 2 | exclusiveness, no leak, open returns; operations follow one another |
| `file_aba` | 3 nodes, 2 opening threads | a node is handed out twice |
| `rwlock` | 2 readers, 2 writers, 1 failed try | priority, exact counter, progress |
| `coroutine` | 4 activations, 3 slots | refinement of `Rounds`, statuses, no starvation, the loop ends |
| `heap` | a heap of 160 bytes, 5 pages, requests of 1, 28 and 104 bytes, aligned to 8 and 16, threshold 56; an arena of at most 2 nodes and 3 blocks, requests of 1 and 48 bytes, users' words of 0 and 48; a quiet stack of 6 bytes, 3 pages, 3 threads | order and merging, tiling, room for the user, no false refusal, commitment; nodes intact, new nodes serve; stack blocks apart and committed |
| `heap_stale_size` | the heap of `heap` | a stale size puts a freed chunk in the wrong place |
| `arena_counter` | 1 node, users' words of 64 | a node is freed under a block in use |
| `stack_posix` | 1 thread, fresh pages at each commit | the first block loses its contents |
| `containers` | ring: 4 slots, 3-bit index, 2 items; map: 4 slots, slice of 2, 3 keys, 2 values; pages of 2, 3 of them; blocks of 4 bits; 6 nodes in 2 pages; 2 clusters of 4 bits with masks of 2; capacities up to 6 | the ring refines `FIFO`, across index wrap-around at every fill level; each other container agrees with what callers know |
| `services` | 2 spawners, 3 descriptors; 2 libraries, 3 references; texts of up to 6 characters; all URIs of two words; paths of up to 2 characters, buffers of up to 6 | hand-over, spawning returns, references, entries, components, paths |

The properties. The type invariant of a model is checked as the first conjunct of
one of them, where the run checks it at all; the theorems have it too.

* `RefinesFIFO`: the ring is a FIFO buffer of its capacity.
* `AtMostOnce`, `ChildrenFirst`, `CountExact`: a handler does not run twice; a
  parent runs after all its children; the counter equals the outstanding
  children and the ring's count is within its capacity (`CountExact` of
  `ThreadPool`, with the type invariant).
* `EveryTaskRuns`, `ShutdownEnds`: what is accepted with all below it runs
  unless the pool is destroyed, in particular a parent whose enqueueing nobody
  looks after; destroy returns.
* `Exclusive`, `NoLeak`, `OpenReturns`: each node is free, held or owned by one
  call; all nodes stay reachable; the retry loop ends.
* `Continues`: the next operation on a file starts where the last one ended or
  the last seek led. On Windows it can be said of seeks alone, up to the first
  transfer (three findings).
* `NoOvertaking`, `CountExact`, `WritersProgress`, `ReadersResume`: a reader in
  possession had no announced writer ahead of it; the counter is exact (and so
  never negative, as `ms_rwlock_unlock_write` asserts); a waiting writer means
  some writer gets in; readers get in when writers stop.
* `RefinesRounds`, `StatusKept`, `NoStarvation`, `LoopEnds`: a round runs what
  was scheduled at its beginning, once each; a coroutine resumes with the status
  it returned; every scheduled coroutine runs again; the loop ends when all do.
* `Ordered`, `HeapTiled`, `UserFits`, `NoFalseRefusal`, `Backed`: free chunks are
  sorted and touching ones merged; every word belongs to exactly one chunk or
  block; header and payload fit, aligned; malloc refuses only when no gap is
  long enough; blocks and nodes are committed. All hold until the heap goes
  `astray`. `Ascending` does not stop there and is violated: the
  list is in address order, as the assertions of `ms_free_list_create_node` say. So
  is `HeldBacked`, which no run has: a block in use stays committed.
* `ArenaIntact`, `ArenaServes`: every word of a node belongs to one chunk or block
  and, in a sticky arena, no block loses its node, also when the counter comes to
  zero early, wraps or never comes down, until the arena is `dead`; a node
  appended for a request holds it. `ArenaFreedWhenEmpty`, violated: no block loses
  its node in any arena.
* `StackApart`, `StackCommitted`: blocks of a stack do not share a byte, also with one
  about to be returned; each is committed while in use, though all but one of
  several racing exchanges of `committed_top` fail. `DataKept`: committing does not
  take contents away.
* `MapAgrees`: a lookup finds what was stored last and nothing that was removed.
  `PagedSequential`: length, index and walk of a paged array agree.
  `SparseStable`: pointers stay valid until the table of pages fails to grow, and
  their items' own. `HeldOnce`, `PoolShared`: an item has one holder or is free to
  be found. `AutoKept`: items read as they were left; `BitsAgree`: bits do, over whole
  clusters, unless the one other bit that the mask stands for was asked for;
  `AllBitsAgree`, which no run has, is without that exception and violated.
* `HandedOver`, `SpawnReturns`: a thread runs what its spawner was asked for; a
  spawn comes back while there are fresh descriptors.
* `PluginReferences`: a library is open as often as plugins and loads hold it.
* `ConfigMatches`: an entry for each line that is one, with its key and value.
  `UriRoundTrip`: decoding gives back the components. `PathsAgree`: names, parents,
  extensions and joined paths fit and are right, or are refused because they do
  not fit, and what is behind the buffer is not written.

### Bounds and caller rules

* Pool: what the passing run says holds **for one worker, parents first, and no
  more tasks unfinished than the ring has slots**. Each of the three is needed.
  Without the second the violation run shows what happens; without the first (two
  workers, two lone tasks, four slots) TLC finds `AtMostOnce` violated, and
  without the third
  (one slot, two lone tasks) TLC finds `AtMostOnce` violated too, because
  `ms_task_queue_dequeue` returns a pointer to a slot it has released. With them, a slot can only be
  reused after a whole ring of unfinished tasks has been queued behind it, and
  then no task that still matters is read through it. Two slots are the least
  with which a ring has an order; two children fill the ring while their
  parent, which holds no slot, waits for them; the lone tasks bring reuse and
  competition. Two readers of the same dequeue, and a queue that is full when a
  parent is enqueued, do not occur under these rules.
* File: one opening thread excludes ABA, for only an opener takes nodes off the
  list. Releases race with it and with each other from all three threads. Three
  nodes are enough for the list to be empty, to have one element and to be
  pushed to from two sides.
* Lock: two of each kind give overlap of readers, competition of writers and
  both together. `MaxFailed` bounds failed tries, which never wear off.
* Coroutine: three slots are the least with a first, a middle and a last one;
  the fourth coroutine refills a slot during a walk.
* Heap: six smallest blocks, with a rest of 16 bytes, too small for a node.
  28 bytes leave a rest that is given away, 104 need most of the heap, and 16
  aligns with a padding of 8. The heap can be used up completely. Words of 0 are
  harmless, words of 64 reach beyond every small block, so that frees go to the
  right and to the wrong place. The threshold of 56, a page and a node, is the least
  with which no node of a chunk is given back, so that a free at the end of
  the heap decommits one page or more; the code's is 4 MB, against pages of
  4 KB. In a heap of 192 bytes with a threshold of 64 and requests of 9, 41 and
  73 bytes the last free chunk comes to be in front of a block: there TLC finds
  `HeldBacked` violated (a finding).
* Stack: three threads are one winner and two losers of the race for
  `committed_top`; six bytes in pages of two let blocks share pages, and sizes 1 and
  3 make the second commit smaller or larger than the first. The threshold of 3 lies inside a page. With
  `Quiet = FALSE` TLC finds `StackApart` violated: a thread that reserved before
  the clear keeps its block; the comment in `ms_stack_clear` warns of that clear.
  Callers ask for no more than the stack holds, which the code does not test.
* Arena: a second node is where the chain, its cutting and the size of a
  new node matter; 48 bytes need a node of another size than the first. A word
  of 0 never lowers the counter, one of 48 lowers it for two of the smallest
  blocks, so that it comes to zero early or below. `MaxAllocated` and `MaxOwed`
  bound the counter, which may climb, or sink where assertions are off, for ever.
  `arena_counter` has a word equal to the counter of a node with two blocks. No
  word of users is needed to cut a node off with its blocks: without any,
  `ArenaFreedWhenEmpty` is violated in two nodes (a finding).
* File positions: a file of 3 bytes with operations of 2 has short ones at the
  end and in the middle; `Word = 2` makes the offset carry into its upper half.
* Map: two keys share a slice and a third overlaps it around the end of the
  array, so that a slice can be full, have holes, and wrap. `Growths` has
  maps that grow and maps that refuse.
* Other containers: two or three pages or blocks are the least with a first, a
  middle or a last one. `MayAppendEarly = FALSE` is a rule for callers that the code
  needs: without it TLC finds `PagedSequential` violated (a finding). Callers of
  the bit array use all bits; TLC finds `AllBitsAgree` violated there (a finding).
* Threads: two spawners race for three descriptors, so that the array also runs
  out. Texts of six characters have two lines with key, blank and value, or a
  longer one before a shorter.
* URIs: a word of one letter and one of all delimiters, in any component, any
  of which may be absent. `TakenApart` leaves out the URIs the code fails on
  (two findings).
* Paths of two characters over five kinds of character have every order of
  letters, separators and extensions; joined ones have up to five.

### Fairness

`ThreadPool`: weak fairness of each worker, of a dispatch in progress and of the
joining owner: the operating system goes on scheduling threads, handlers return,
the lock lets a waiting writer in. Nobody has to dispatch or to destroy.
`RWLock`: weak fairness of every thread inside a call; none for starting a call.
Of the SRW lock only weak fairness is used, for it is documented to be unfair.
`FileTable`: weak fairness of a thread inside a call, strong fairness of its
exchanges, since a weak exchange does not fail spuriously for ever.
`Coroutine`: weak fairness of the scheduler and of handlers, which return each
time; that a coroutine terminates is a premise of `LoopEnds`, not assumed.
`StartDescriptors`: weak fairness of each spawning thread, inside a call only.
The others have no liveness property.

## 4. The proofs

All for every value of the constants, from the assumptions in the modules and
the hypotheses a theorem names. Where a hypothesis is a rule for callers (`Discipline`,
`OneOpener`, `Quiet`, `~ MayAppendEarly`) section 3 says what happens without it. The `...Sensible` hypotheses are of the kind an `ASSUME`
has; TLC evaluates them in the runs of their families.

* `ContainerProofs.RingImplementation`: `Spec => RefinesFIFO`. The invariant is the
  type invariant. The work is in the arithmetic: the read index, computed from
  wrapped numbers, is `(windex - count) mod Capacity` because the capacity
  divides the word; slots of different ages in the ring are different; so an
  enqueue appends to the contents, a dequeue returns and removes their head.
* `RWLockProofs.Priority`: `Spec => []NoOvertaking`, and `Counter`:
  `Spec => [](TypeOK /\ CountExact)`. `NoOvertaking` alone is not inductive:
  that a reader that read zero has nobody ahead needs that writers it has ahead
  are announced (`AheadAnnounced`) and that announced writers are counted
  (`CountExact`). The conjunction is.
* `CoroutineProofs.Implementation`: `Spec => RefinesRounds`, with live
  coroutines those in used slots, those due the ones below the walk index. It
  rests on every used slot naming a coroutine (`Named`), none twice
  (`Distinct`), none terminated (`Fresh`), and unscheduled ones never having run
  (`Unstarted`). The step that removes is the delicate one: what the end of the array
  puts into slot `i` has either run in this round or was scheduled in it, and the
  walk has passed it in either case. `KeepsStatus` follows from the same
  invariant.
* `ThreadProofs.RunsOnce`, `Precedence`, `Dependencies`: `AtMostOnce`, `ChildrenFirst` and
  `CountExact` for any number of tasks, dispatchers and slots, under `Discipline`: one
  worker, parents first, no more unfinished tasks than slots, fewer children than
  the counter counts. A task that may run is in one place at most: with a
  dispatcher (`Entering`), in the queue (`Queued`), with the worker that took it
  (`Taking`), or with the worker that will enqueue it for its last child
  (`Releasing`). The delicate part is the slot that the worker still reads after the
  dequeue: only a queue that is full overwrites it, a full queue and the limit on
  unfinished tasks leave no other task unfinished, and then the task in the slot
  is read for a parent no more.
* `FileTableProofs.Separation`, `Conservation`: `Exclusive` and `NoLeak` for any number
  of nodes and threads, under `OneOpener`. The invariant adds (`InCall`) what a call
  may rely on between its load and its exchange: the opener's candidate stays on
  the list, with the link it read, for only an opener takes nodes off; a closer's
  node is nobody else's. A list is what every set that its links do not leave has
  in common (`Links`), so that pushing and popping need no induction.
* `FileTableProofs.Continuation`: `Continues` for files of any length, operations of any
  size and any width of an offset's half. The invariant adds that an
  operation takes place at the offset, that the offset is behind the position
  by what a completed operation transferred, and that a Windows file was
  already led astray (`led`) when an operation is in progress.
* `MemoryProofs.HeapOrder`, `HeapTiling`, `HeapUserFits`, `HeapRefusal`, `HeapBacking`: the
  five properties of the heap for every size, page, set of requests and
  alignments, and any words of users, until the heap goes astray. The one
  assumption about the threshold is that it has room for a page and a
  node. The lemmas about the free list
  are common to heap and arena: where `find_prev_node` leads, that chunks and
  blocks tile their range at first, after taking from a chunk (with each of its
  three outcomes, and when nothing is left) and after giving back (merged with
  neither, either or both
  neighbours), and that tiles determine the word they cover (`TilesAtFirst`,
  `TakeTiles`, `GiveBackTiles`, `TiledOnce`). They speak of a chunk that is put where its
  size says; that the stale size put it elsewhere is what `astray` says. For
  `HeapBacking`, `HeapInv` adds to the tiling that every page in front of `committed` is
  mapped, though the converse fails after a decommit, which lowers `committed` twice.
  The delicate step is that decommit: the pages it takes lie behind the
  node of the last chunk, and no block is behind it, unless `ReturnsTooMuch`.
* `MemoryProofs.ArenaTiling`, `ArenaService`: `ArenaIntact` and `ArenaServes` for any
  number and size of nodes and blocks and any words of users. `ChainInv` is the
  heap's tiling for every node of the chain; it does not mention the
  counter, which may say anything. When a node is freed or cut off no block of it
  is live, and `stray` says whether one was in use.
* `MemoryProofs.StackSeparation`, `StackBacking`: under `Quiet`, blocks of a stack are
  apart and committed. The invariant says of every thread inside
  `ms_stack_malloc` what it may rely on: its range lies below `top`, apart from all
  others (`PendingApart`); everything below the `committed_top` it saw is committed,
  and after its own commit everything up to its end (`KnownCommitted`). Hence it
  does not matter whose exchange succeeds. During a clear there is no block and no
  call (`ClearAlone`); this is where `Quiet` is needed.
* `ContainerProofs.MapAgreement`: `MapAgrees` for every set of keys, hash, capacity and
  slice length. The invariant holds until the first resize: a key is only
  within its slice (`Placed`), in one slot (`Unique`), with the value stored last
  (`Current`), and what was stored has a slot (`Present`). Searching the slice is then
  searching the map, whatever holes removals left. That a search has a first hit
  is the well-foundedness of inclusion on finite sets, applied to intervals.
* `ContainerProofs.IndexedAgreement`, `PoolAgreement`, `SparseAgreement`, `BitsAgreement`,
  `AutoAgreement`: `HeldOnce`, `PoolShared`, `SparseStable`, `BitsAgree`, `AutoKept`, each for
  every size of its pages, blocks or clusters. In the indexed pool and the bit
  array two items differ in block or offset, so that a step that changes one bit
  changes one item. In the bit array an index and its alias share a mask: an index
  whose alias was not asked for is the only one asked for that its mask stands
  for, so that a step changes no other of its kind; indices nobody asked for
  read as zero. The pool's free nodes form a list as in the file table. In the
  sparse array no two pages share memory (`PagesApart`), also when an allocation
  failed between two of them; when the table of pages is lost, the pointers that
  were given stay apart (`GivenApart`). The auto array is followed up to a failed allocation.
* `ContainerProofs.PagedAgreement`: `PagedSequential` for every page capacity and number
  of pages, if no page is reserved early. Pages before the last are full, so
  that division finds an item's page and a page's place says how many items
  come before it. The walk is a recursive function: the prefixes of the list
  satisfy its equation, and by the least page where they differ nothing else
  does.
* `ServiceProofs.Handover`: `HandedOver` for any number of spawners and
  descriptors. `HandedOver` says what has not happened and is not
  inductive. It needs that whoever holds a descriptor, a spawner that fills it or a
  thread that has not copied it, holds it alone and that it is in use
  (`HeldApart`), and that from the filling on it contains what was asked for (`Kept`).
  Hence a test-and-set that finds a descriptor free finds one nobody reads.
* `ServiceProofs.Balance`: `PluginReferences` for any number of libraries and any depth
  of nested loads. The property is inductive; the work is in counting the
  loads of one library among those under way, when one begins and when the last
  one ends.
* `ServiceProofs.PathAnswers`: `PathsAgree` for paths and buffers of any size. The
  last separator of a path and the first extension of a name leave one text each
  that the properties' descriptions fit (`NameOfIs`, `ExtensionOfIs`), and a joined path
  has its last separator where it was put (`JoinedIs`). The invariant adds where the
  input comes from (`InputMeans`). The delicate step is the parent: the character it
  takes for a drive's colon is the path's unless the path has one character, which
  the property excludes for that reason.
* `ServiceProofs.ConfigEntries`: `ConfigMatches` for texts of every length. What
  `find_blank`, `find_non_blank` and `trim_right` return is a piece of the line between
  two positions (`NonBlankFrom`, `BlankFrom`, `TrimIs`), so the entry describes the line
  (`ParseIs`). The invariant says that the buffer holds what is read of the line
  (`InBuffer`) and, because it is never emptied, null characters only behind the
  longest line so far (`BehindLines`): hence the condition at the end of the text.
* `ServiceProofs.UriComponents`: `UriRoundTrip` for words of any length over letters
  and delimiters and any numbers as ports. The assumption on `Letters` is that they
  are no delimiters, escapes or the mark of a missing component. A word that is
  escaped contains no delimiter (`WordIs`) and is decoded to the word (`DecodedIs`),
  so a cut at the first delimiter is a cut between two components (`CutPart`). What
  the parser has before it cuts off the query (`ParsedAs`) is shown for URIs without
  a host (`HostlessIs`) and with one (`HostIs`); from there the two go on alike
  (`Finished`). `TakenApart` is needed for the parser's own sake: without it the search
  for the fragment is in NULL, or the query is not found (findings).

Only model-checked: the liveness properties `EveryTaskRuns`, `ShutdownEnds`, `OpenReturns`,
`WritersProgress`, `ReadersResume`, `NoStarvation`, `LoopEnds` and `SpawnReturns`, which are
out of the prover's reach.

## 5. Not modelled, and why

* The pool's constructor that fails half-way: what follows is a join of handles
  nobody wrote (a finding).
* `ms_task_queue_enqueue_many`: no caller in `src/`; under the lock it is a sequence
  of the enqueues that are modelled.
* Joining, sleeping, yielding, spinlock and mutexes: single calls of the system or
  one test-and-set loop. The race of two first constructions of a POSIX mutex is
  undefined behaviour inside `pthread_mutexattr_init`.
* What code does on memory that is freed, absent or behind an array: the
  non-sticky `ms_arena_clear` after its first node, a map after its resize,
  `ms_sparray_foreach` over absent pages, shrinking a bit array, descriptors from
  the 129th on (hence no descriptor is fetched twice), the page a pool could not
  allocate, an auto array constructed without memory, a heap that is `astray`, a
  sparse array that has `lost` its pages, unloading the handle of a load that
  failed. The models go up to that point, where a finding says what happens.
* Translating modes and errors in the file back ends; OS memory beyond commit
  and decommit: queries and single calls of the system.
* Compression, hashing, functional helpers, handles, system information: wrappers
  and pure helpers. Log: formatting and output; the global logger is set at start.
* Memory orders weaker than sequential consistency, except where the models let
  a plain field be loaded twice.
* A worker loads `t->parent` from the slot twice, for the test for NULL and for the
  decrement; `ReleaseParent` has one look. Where the pool's properties hold, the slot
  is not overwritten while the task in it has a parent to release (the theorem's
  invariant says so); `RequeueParent` has its own look.
* The data race in which a task is copied into a slot while a worker reads it:
  the copy is one step.

## 6. Plan

1. `Ring`, `ThreadPool`, `RWLock`, `FileTable`, `Coroutine`, `FreeList`, `Heap`,
   `Stack` with their runs and their proofs (done).
2. `Arena` over `FreeList`; `StartDescriptors`; the containers; the file back ends;
   the parsers; the plugin protocol (done).
3. Proofs of the ring, the lock, the scheduler, the thread pool for one worker,
   the file table for one opener, the file positions, the heap, the arena, the
   stack, the containers, the start descriptors, the plugins, the paths, the
   configuration parser and the URI decoder (done).
