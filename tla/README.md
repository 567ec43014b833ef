# Models of the CS 537 projects

TLA+ models of the C programs of this repository, TLC configurations that check
them on small instances, and TLAPS proofs of the properties that should hold for
every instance. The repository is five course projects: a word counter (`p1`), a
shell (`p2`), a memory allocator (`p3`), thread-safe data structures (`p4`,
handed in as `p4-final/handin`) and a multi-threaded web server with a
configurable scheduler (`p5`). Paths below are relative to `src/`.

Every definition that stands for code names its lines in `PROJECT.json` (`map`);
`PROJECT.json` also lists the components, the hazards of the code and which
property covers which, the runs, one deviation of the code per property that the
property catches (`mutants`), what the runs found (`findings`), and the theorems.

## 1. The system

### p5: the web server
| part | state | operations | meets |
|---|---|---|---|
| waiting line (`server.c` 24-130) | singly linked list with a sentinel `head`, `tail`; per node the request's descriptor, kind, size, arrival | `queue_init`, `queue_push` (three policies), `queue_peek`, `queue_pop` | the master pushes, the workers peek and pop |
| master (`main`, `Master_thread_accept_request`, `accept_request`) | `buffer_wait_num`, condition `not_full`, `mutex` | accept, wait while full, parse the request, push, signal `not_empty` | the list, the counters, the client |
| worker (`Worker_thread_handle_request`, `handle_request`) | its index, `work_locks[index]`, the statistics of its slot, `buffer_work_num`, `buffer_head_hist`, condition `not_empty` | wait while nothing waits, peek, pop, count, serve, close, signal `not_full` | the list, the counters, CGI children |
| thread start (`main` 259-285) | the loop variable `t`, whose address every worker gets; locks and statistics as they are initialised | `pthread_mutex_init`, `pthread_create`, the worker's first statement, the reset of a slot's statistics | the index picks lock and statistics |
| request (`request.c`) | fields of the node, the connection | `requestPreProcess` (read, parse, stat), `requestServeStatic`, `requestServeDynamic` (fork, exec, `Wait(NULL)`), `requestError` | the client, files, children |
| Rio and wrappers (`cs537.c`) | a buffer per descriptor | `rio_writen`, `rio_read`, `rio_readlineb`, the listening socket; on an error a wrapper prints and ends the process | both sides of a connection |
| client, CGI program (`client.c`, `output.c`) | one connection | send a request, print the header, print the body; write the rest of the answer | the server's bytes |
| tests | none | scripts that drive a built server | |

What is hard here: the master holds `mutex`, each worker only a lock of its own,
so the list, the three counters and the two conditions are shared without a
common lock. A thread can be between any two accesses of another, and workers
run while `main` is still initialising their locks. A wakeup can fall between
test and wait. A request refused by the parser is queued like the others, with
whatever `malloc` left in the node. The age of a request and the epochs of SFF-BS
depend on a counter that moves while the list is searched. On a connection bytes
arrive in any portions, the client may leave, and the server may close while a
CGI child still writes.

What makes it correct: the policies order the line as named and lose nothing;
`tail` is the last node, also after the list was emptied; no thread follows an
incomplete node; statistics add up; a request taken is finished; the process
stays up; every accepted connection is served; every worker has a slot of its
own; a request ends where its empty line is and its answer arrives whole.

### p4: counter, list, hash table
| part | state | operations | meets |
|---|---|---|---|
| spinlock (`spin.c`) | `flag` | acquire (`xchg` until it returns 0), release | all of the below |
| counter (`counter.c`) | `val`, a spinlock, with `-DPTH` also a mutex | `Counter_Init`, `GetValue` (no lock), `Increment`, `Decrement` | |
| list (`list.c`) | `head`, nodes on the heap, a lock | `List_Init`, `Insert` (allocates before the lock), `Delete` (frees after it), `Lookup` | malloc |
| hash table (`hash.c`) | an array of lists | `Hash_Init`, `Insert`, `Delete`, `Lookup`, by `key % size` | the list |
| stress programs (`p4/test*.c`) | | drivers that compare a final state with the expected one | |

What is hard: lost updates; a reader without a lock; memory that is freed
outside the lock and handed out again; two builds, one of which locks
differently. What makes it correct: every call looks atomic, the locks admit one
thread and are passed on, no node is lost or touched after it was freed.

### p3: allocator
| part | state | operations | meets |
|---|---|---|---|
| allocator (`mem.c`) | one mapped region; in it an address-ordered free list (offset and size per chunk) and the headers of the blocks; `m_error`; in debug mode paddings and fill patterns | `Mem_Init` (once), `Mem_Alloc` (first fit, cut from the end of a chunk, or the chunk used up whole), `Mem_Free` (insert by address, merge on both sides) | the client, whose data lies between the headers |

It is sequential; what is hard is the arithmetic: headers overlay memory, sizes
and offsets are kept in the words that a merge gives away, frees come in any
order, and the debug patterns must be renewed wherever a header disappears.
What makes it correct: blocks are disjoint and inside the region, headers, free
words and blocks tile it, no two free chunks touch, the first fit is taken, and
damage is reported if and only if there is some.

### p2: shell
| part | state | operations | meets |
|---|---|---|---|
| line loop (`shell.c`) | the input stream (shared with every child), `cmd_line` | read a line from the batch file or the terminal; per batch line fork a child that exits, and `wait(NULL)` | the file offset |
| jobs (`shell.c`) | `mysh_argv`, `child_pid`, `i` | cut at `;` or `+`, run and wait in sequence, or start all and wait | children |
| one job (`single.c`, `parser.c`, `basic.c`) | `pipe_argv`, `pipe_fd`, `pipe_pid` | redirection, builtins, a pipeline whose stages are started and awaited one at a time | pipes, children |

What is hard: the processes that run meanwhile, pipes that fill, ends of pipes
nobody closes, `fork` failing, `strtok` cutting texts that are cut again later,
`exit` in a child that shares the input stream. What makes it correct: every
stage begins once and in order, jobs in sequence do not overlap, every child is
reaped by the wait that is meant for it, every line ends, each line is read once.
`mysh.c` is an abandoned version outside the Makefile.

### p1: search (not modelled)
`search.c` counts a key word in each file (`strstr`, non-overlapping), sorts the
files by count with a merge sort that relies on sentinels, and prints them.
Sequential; boundaries are the hard part (ties, empty key word).

## 2. Modules

| module | models | how state and actions correspond |
|---|---|---|
| `SchedSpec` | abstract: what a scheduler promises | `waiting` is a sequence; `Arrive` inserts at a place the policy allows, `Dispatch` takes the first |
| `SchedQueue` | `queue_init/push/peek/pop`, `handle_request`'s dispatch | `next`, `tail`, `st_size` are the nodes' fields, nodes are numbered as allocated (none is ever freed), calls do not overlap; `InsertionPoint` is the search loop, `max_search` its bound |
| `Server` | master, workers, counters, conditions, connections, children | `pc[t]` is the statement of thread t; every load and every store of the list, the counters and the statistics is a step; `fd`/`owner` are the descriptor table, where the lowest free number is given out again; `server` becomes "segv" on a null access, "exit" when a wrapper exits |
| `ThreadStart` | the creation loop of `main` | `main` is its statement, `t` the loop variable, `ReadIndex(w)` the worker's first statement, at any later moment |
| `Pool` | `ThreadStart` composed with `Server` | the workers that have read their index take `Server`'s steps while `main` goes on: `InitLock` stores the unlocked state, `InitStat` sets a slot's statistics to 0; the master accepts only after the loop; `Overwritten` is what others do meanwhile to the memory behind the arrays |
| `Talk` | one connection: client, Rio, `requestPreProcess`, the answer, the CGI child | `net[s]` is what the kernel holds for side s, `rio[s]` and `usrbuf[s]` the two buffers of `rio_readlineb`, `todo[w]` what `rio_writen` has left; each read and each write moves as many bytes as it likes; `server` and `client` are the places in the code |
| `AtomicCounter` | abstract: a counter whose calls are atomic | `call[t]`: what t asked for, whether it took effect |
| `Counter` | `counter.c` over `spin.c`, both builds | `LoadVal`/`StoreVal` are the halves of `++` and `--`; `taken[l]` is the flag of lock l, with `PTH` at first any word in the spinlock, which nobody initialises; `PTH` chooses the build |
| `KeyStore` | abstract: a stack of elements per key | `Insert`, `Delete`, `Lookup` in one step between call and return |
| `HashTable` | `hash.c` over `list.c`, without `-DPTH` | `heap[a]` is the node last stored at a, `used` what malloc gave out; every pointer access is a step; a free address may be given out again, malloc may fail |
| `BlockStore` | abstract: blocks are disjoint intervals of one region, each cut from the end of the first gap with room | `Alloc`, `Refuse` (only if no gap has room), `Release` |
| `Mem` | `mem.c` | `mem` is the region as 4-byte words, so that headers, patterns and data overlay as in the code; `held` are the blocks the client has, `lost` those a failing debug check has cut out; `StrayWrite` is the client's mistake that debug mode looks for; `Overlap` the call that leaves the model |
| `Shell` | `shell.c`, `single.c`, `parser.c`, `basic.c` | `sh` is the shell's place, `procs` its children by pid, `pipe_fd[k]` how full a pipe is and who has which end open; a line is a sequence of words and separators, its newline not written down; `Garbage` is what `cmd_line` holds before anything was read; `asked` and `ran` are history: the jobs of the line and the stages begun; `offset` is the file position that all processes share, `unread` the shell's buffer |
| `MCSchedQueue`, `MCServer`, `MCPool`, `MCTalk`, `MCHashTable`, `MCMem`, `MCShell` | | values of constants, symmetry |
| `SchedQueueProofs`, `PoolProofs`, `ServerProofs`, `TalkProofs`, `CounterProofs`, `HashTableProofs`, `MemProofs`, `ShellProofs` | | the proofs |

`SchedQueue` and `Server` describe the same list at two grains: `SchedQueue`
asks whether the algorithms are right when calls do not overlap, `Server` what
happens because they do. `Server` takes from the policies the steps of the
search, and leaves out what only the order of the line depends on.

`Server` alone starts when every lock is initialised and every worker has an
index that is a slot (`Starts`). `Pool` gives that premise up: it takes `Server`
with one worker more than `main` creates, and the last slot stands for the memory
behind the arrays, which a worker uses if it reads its index after the loop
(`Behind`, `Overwritten`: what it finds there, and what others store; `SpoilHeap`: its
own stores there may end the process).

`Server` and `Talk` meet in the request: `Server` takes the outcome of
`requestPreProcess` as one of `Requests` and passes the connection from thread to
thread; `Talk` has one connection and looks at its bytes.

Operators named `..._bug` are plausible slips (a lock not taken, a step left
out); each stands before the definition it would replace, none is used by the
model, and `PROJECT.json` says which property fails with it.

Abstractions: file names, headers and bodies are gone (in `Talk` a header or a
body is a few bytes, and `CR`, `LF` are what they are), a request is its kind,
its size and whether it was accepted; keys are numbers, elements model values; a
program of the shell reads to the end of file or not and writes a number of units;
times are not modelled, an age is a number of dispatches.

## 3. Runs

| run | question and answer | bounds |
|---|---|---|
| `queue` | Does the list implement the policies? Yes: it refines `SchedSpec` under FIFO, SFF and SFF-BS; `tail` is the last node; SFF dispatches the shortest and earliest; under SFF-BS nothing is lost or served twice | 5 requests, 2 file sizes and the sizes malloc may leave, N = 2: three epochs begin, the list empties and fills again |
| `queue_epochs` | Does SFF-BS keep the epochs the tests expect? No (finding) | N = 2, 4 requests of three sizes |
| `server_pool` | Two workers and the master on one list: nobody meets an incomplete node; racing increments of `buffer_head_hist` lose but never invent a dispatch | 2 workers, 2 connections open together: both workers may hold the same node and the master may insert meanwhile; files under SFF-BS and, under FIFO, one refused request that is served as a CGI program (`SomeKinds` bounds it so) |
| `server_crash` | Does the server stay up under parallel clients? No (finding) | 1 worker, 2 clients are enough |
| `server_hang` | Is every accepted connection closed in the end? No: the wakeup is lost (finding) | 1 worker, 1 client at a time |
| `pool` | Workers that run while `main` creates others: as long as no lock was initialised while held, the statistics of a slot of the arrays add up in every response and are never set back; whatever the memory behind the arrays holds, whoever waits for a child is owed one, and a request taken is finished | 2 workers on whatever slots they read, the one behind the arrays included, 1 connection for a CGI program that both may take; behind the arrays a lock that looks free and odd statistics |
| `talk` | However the kernel cuts the streams: no byte is lost, doubled or moved, lines end where they should, the header ends at its first empty line, a client that sends a proper request gets its whole answer, also from a CGI child the server did not wait for, and the conversation ends | lines of up to 4 bytes, a read buffer of 2, streams of 4: a line needs several reads, an answer several writes, and both sides fill a stream; all requests of up to 6 bytes after the method, a line too long, half a request, other methods, clients that leave |
| `counter` | No update is lost, calls are atomic, the lock is passed on | 3 threads, 4 calls in all: three threads compete for the lock while the fourth call reads |
| `hash` | The table implements `KeyStore`; no node is lost, freed twice or touched after it was freed | 2 threads, 5 calls, 2 buckets, 3 keys of which two collide, 2 elements, 3 addresses: duplicates, deletion inside a chain, and reuse of a freed address during another call |
| `mem` | Headers, free words and blocks tile the region and the list is merged, after any order of calls of any sizes, up to the first that takes a chunk without room for its block; patterns survive, no false alarm; the blocks are those of `BlockStore` | 3 blocks of sizes 0 to 11 in 36 and in 48 bytes, 4 of 8 bytes in 64, and with paddings and a stray write 2 of two sizes in 60 and 3 of one size in 84: chunks in front, behind and on both sides merge, a chunk in the middle is used up whole, requests are refused, rounded up, and go astray |
| `shell` | No child outlives its line, jobs in sequence do not overlap, every stage in front of a redirection begins once and in order, every line ends unless a pipe is too small or a call failed | every line of three commands with any separators, longer lines up to the limit and one that `fgets` takes in two, Enter alone, jobs of separators only, an empty input with three contents of the buffer nobody set, batch and terminal, pipes of 2 units, one failing system call |
| `shell_batch` | Is every line of a batch file taken once? No (finding) | a file of 3 lines read in one go |

Deadlock is not checked where the system may rest: when all bounded calls,
connections or lines are over nothing is left to do.

`MaxConn`, `MaxOpen`, `MaxCalls`, `MaxReq`, `MaxDamage` and `MaxFailures` bound
what the environment does; `MAXLINE`, `RIO_BUFSIZE`, `MAX_LENGTH`, `FILE_LENGTH`, `PipeCapacity`
and `Padding` are the code's and the kernel's own limits made small.

### Fairness
`pool`, `server_hang`, `talk`, `counter`, `shell` have liveness properties
(`shell_batch` uses the same specification as `shell`). A thread or process that
can take a step takes one in the end: weak fairness per thread in `Server` and
`Counter`, for each worker that has started in `Pool` (neither `main` nor a created
thread needs to run for what is claimed there), for the server, the client and
the CGI program in `Talk`, for the shell and each child in `Shell`. Acquiring a
lock is such a step: weak fairness is enough for `LockIsPassedOn` (somebody gets
in) and would not be for "each thread gets in", which a spinlock does not promise
and no property claims. For the server the assumption includes that a client that
connected sends its request and that a CGI program ends; it does not include that
clients come, nor that blocked threads wake up by themselves (`SpuriousWakeup` may
happen, nobody relies on it). `server_hang` fails under these assumptions, so its
behaviour is not a thread that merely stopped.

### What the violated runs show
* `queue_epochs`: with N = 2 one request is served, two more arrive, and the third
  overtakes the second, which belongs to the first epoch of two. `queue_push` searches
  the first nodes of whatever stands in line (`server.c` 99), and counts the room of
  an epoch in dispatches. `test10.py` line 82 (N = 3) and `test13.py` lines 60-64
  (N = 2) expect requests to be grouped by arrival. That is why `SchedSpec` promises
  nothing of the place under SFF-BS.
* `server_crash` reads through a null pointer or closes a descriptor twice:
  peek and pop are under a lock of the worker's own.
* `server_hang` strands a request whose signal came before the wait.
* `shell_batch`: the child forked for every batch line (`shell.c` 157-162) leaves
  with `exit`, which gives the input it had not used back to the file: the offset,
  which it shares with the shell, moves back, and the shell's next refill reads
  lines again. Whether that happens is the C library's choice (`rewinds`); with
  glibc it does, and a shell built with `-DMAX_LENGTH=512` (the macro is declared
  nowhere in `p2`) repeats lines without end.

### Disagreements that the models show and no run keeps
They are one change of a constant away, and their hazards say so.
* `Counter` with `PTH = TRUE`: TLC refutes `CountExact`, which `p4/testcount.c`
  expects; `Counter_Decrement` takes the spinlock where `Counter_Increment` takes
  the mutex.
* A worker that starts after the creation loop reads `max_threads` as its index and
  works behind the arrays, where `p5/test/testcases/test11.py` 64-65 expects ids 0 to
  N-1. `IndexBounds` is therefore not a property of a run: it is a theorem that says
  how far off an index can be; with `<` TLC refutes it.
* `AddUpUnlessReinit` and `CountsKept` without their premise are refuted: a worker
  created earlier can have read the index whose lock `main` initialises next, two
  are then inside, and the late store of one sets a count back (`Count` is a load and
  a store).
* `Mem`: the first-fit test (`mem.c` 100) admits a chunk 4 bytes larger than needed,
  whose size field the block's header overwrites; in debug mode the exact fit
  (`mem.c` 123) returns a pointer without room for the padding. `NoRoom` is that
  condition and `Overlap` that call: it does what the code does to the words, the
  process is "astray", and nothing is claimed behind it. Everything before it is
  claimed for every size; no document of `p3` gives a promise such a call breaks.
* `Shell`: stages behind a `>` are dropped without an error (the job is cut there
  before anybody looks for pipes), and a job that consists of `>` or `|` only ends the
  shell or is skipped (`BlankTarget`, `StartPipeline`).
* In `Talk`, the claims about answers are for requests with nothing behind their
  empty line: other bytes are never read, and a close with unread bytes resets the
  connection. If the client leaves before the first header line was read, the loop
  compares a buffer nobody wrote to (`NoHeader`). A client that stops half way keeps the header loop running for ever,
  and one that leaves early kills the server with SIGPIPE (`WriteKills`).

## 4. Proofs

All theorems hold for every value of the constants that satisfies the named
assumption.

* `PoolProofs` — `IndexBoundsHold`: if `max_threads` is a number
  (`ThreadsAssumption`), worker w reads an index in `w..max_threads`. Inductive
  with the fact that `t` never falls below a worker already created (`LoopInv`):
  the bound alone says nothing about a worker that has not read yet. It is a
  theorem about `ThreadStart`; `PoolStartsThreads` shows that every step of the
  composition is a step of `ThreadStart` or leaves its variables alone, so
  `PoolIndexBounds` follows for the server with its workers.
* `PoolProofs` — `CountsKeptHolds` (an action property): as long as no lock was
  initialised while held, no step sets a count of the arrays back. `main` clears a
  slot's statistics after workers have started, so this needs `QuietInv`: before
  `main` accepts nothing was dispatched, so no worker is past its wait for the first
  request. And `count++` is a load and a store, so it needs `SlotInv` too: the lock
  keeps another worker away between the two. `AddUpUnlessReinitHolds`: `SlotInv` of
  `ServerProofs`, taken for the slots that `calloc` gave (`OwnSlot`), is kept by each
  step of the loop as long as no such lock was initialised, whatever happens to the
  memory behind the arrays. `PoolChildrenMatch` takes `ChildInv` over in the same way.
* `MemProofs` — `TypeOKHolds`, `TiledHolds`, `PatternsKeptHolds`,
  `NoFalseAlarmHolds`, `ImplementsBlockStoreHolds`, `BlocksApartHold`, for regions,
  requests and paddings of any size and any order of calls, without a hypothesis on
  the client. `Tiled`, `PatternsKept` and `ImplementsBlockStore` end with the call
  that finds a chunk without room for what it cuts (`Overlap`, see section 3); so the
  invariant is `StateInv`: `MemInv`, or the process is astray and only typed.
  The invariant `MemInv` says that the words of the region are `Carved`: there is a
  set C of chunks such that C and the pieces of the blocks tile the region, the words hold C's sizes and distances in the order of addresses
  (`Linked`), each block's header holds its size, no two chunks touch (`Merged`), and
  what the client did not write has its pattern (`FreeClean`, `PadClean`). `Tiled`
  alone is not inductive: it says nothing of the distances or of what `Mem_Free` reads
  behind the pointer it is given. `TheFreeList` proves that the walk along the
  distances is C in order, and ends; `FirstFitIs` and `NeighboursAre` what the two
  searches find. `CutCarved`, `TakeCarved`, `LinkCarving`, `SwallowCarving`,
  `NextMerged`, `PrevMerged` follow the writes one by one; between them two chunks may
  touch, so `Merged` comes back last. For the refinement `ChunksAreGaps` and
  `GapsAreChunks` show that the gaps of `BlockStore` are the chunks, the first without
  its header, and `RoomIsFit` and `FitsAreFits` that a gap has room exactly where the test of
  the search succeeds and `NoRoom` does not hold. `StoreKeepsApart` is the theorem about `BlockStore` alone
  (`StoreInv`: intervals end before others begin), `BlocksApartHold` takes it over.
* `SchedQueueProofs` — first the abstract scheduler: `LineOrderedHolds`,
  `SchedulerShortestFirst`. The line's order is inductive only with `NumbersGiven`
  (every number in the line was given out before): that is what puts a newcomer
  behind its equals. `InsertAtProperties` says what `InsertAt` does to a sequence.
* `SchedQueueProofs` — then the list: `TypeCorrect`, `TailIsLastHolds`,
  `ImplementsSchedulerHolds`, `ShortestFirstHolds`, for every N, any sizes (those
  malloc leaves included) and any number of requests. The invariant
  `QueueInv` names the order O in which the requests were or will be dispatched:
  `Path(O)` says the pointers lead through the places of O not yet dispatched and
  `tail` is the last; `Record(O)` that what the handlers read was in the order of
  O. A dispatch leaves O alone, an arrival inserts a place
  (`Inserted`). `SearchStops` finds the place by least counterexample over the
  loop's condition, `PushLinks` shows that both ways of linking are the insertion
  at that place, `LinkKeepsPath` that it leaves a path. `NthIsPlace` and `LineIsPath` turn the walk along the
  pointers into O: the recursive function `Nth` exists because its partial versions
  do (`PartNthExists`). The refinement needs the order of the scheduler's line
  (`ListAndLine` joins both invariants): under SFF the search compares until the
  first larger node only, the policy speaks of all.
* `CounterProofs` — `TypeCorrect` and `MutualExclusionHolds` (both builds, with
  `-DPTH` for any word that memory left in the spinlock),
  `CountExactHolds` and `CounterIsAtomic` (the build without `-DPTH`; with it
  they are false, see above). Three layers: `LockInv` ties each thread
  inside an update to its taken lock; `CountInv` adds the equation for the value
  and that a thread about to store loaded the present value; `AtomicInv` adds
  that a thread outside a result keeps no value in its register, which makes the
  mapping to `AtomicCounter` a function of what the abstract state shows. The
  refinement is proved action by action: loads and lock operations stutter, the
  store and the unlocked read are the atomic effect.

* `ServerProofs` — `StatsAddUpHolds`, `SlotExclusionHolds` (of `Server`, whose
  workers start when all locks are initialised): workers on one slot
  exclude each other, and `count = static + dynamic` whenever a response can
  report it. `SlotInv` ties each worker past the lock to the holder of its slot
  (`HoldsSlot`), and `Balanced` says who accounts for the difference while it
  exists: the one worker between the store of `count++` and that of the kind; `Fresh`
  that what a worker loaded is still what the slot says. Most
  steps touch neither lock nor statistics; `QuietStep` deals with them at once,
  `EnterStep` and `LeaveStep` with the lock.
* `ServerProofs` — `LinkedWhenCompleteHolds`: no pointer names a node whose
  fields or link are not yet set. `ListInv` needs more than that: a node once
  complete stays so (its link is only replaced by complete nodes), every local
  copy of a pointer (the master's `tmp` and `tail`, a worker's copies of a link)
  is complete as well, the one node that is not is the one the master is
  pushing (`OneInHand`), and `PushInOrder` says at which of the master's
  statements its link is set: it must be before the statement that links it.
  That no lock is needed for this rests on the order of two assignments in
  `queue_push`; the mutant that swaps them breaks it.

* `ServerProofs` — `ChildrenMatchWaitersHolds`: as many children run or are
  zombies as workers wait in `Wait(NULL)`, so nobody waits for a child that does
  not come. `ChildInv` is the equation with the cardinality of the waiting
  workers; fork adds one to both sides, reaping takes one from both.
* `ServerProofs` — `TypeCorrect`. Typing the master's search needs `ListInv`: a
  field that is read is one of a complete node. `LeastElement` supplies the
  `Min` with which the lowest free descriptor is taken.
* `ServerProofs` — `HistCountsDispatchesHolds`: `buffer_head_hist` is not above the
  requests counted. The bound alone is not inductive: a worker may store what it
  loaded long ago. `HistInv` bounds the history, and each value loaded and not yet
  stored, together with the number of workers that counted their request and not
  yet the history (`Ahead`); a store uses up one of them. The sum over the slots
  is a fold; `SumIsSum` shows that the function it names exists and `SumMoves` that
  one more in a slot is one more in the sum, both by least counterexample on the
  size of a set.
* `ServerProofs` — `StaysUpHolds`, `QuietCountersHolds`, under the hypothesis
  `Serial`: one worker, one connection at a time, no refused request that claims to be
  static (no run has this hypothesis; two workers break `StaysUp` as `server_crash` shows,
  such a request breaks it in `ServeFails`). Any number of requests, each policy. The
  worker still counts down its last request while the master reads and links the
  next, so the two do interleave. `SerialInv` says how far: either the master is
  pushing and the worker has no request (`Pushes`), or the worker handles one and the
  master is not pushing (`Handles`), or neither (`Rests`); in each, at each statement,
  it gives the counters, the links, the tail, the loaded values and the open
  descriptor. What divides the phases is `buffer_wait_num`, which goes up only after
  the link and down only after the unlink.
* `HashTableProofs` — `NoUseAfterFreeHolds`, `BucketExclusionHolds`,
  `TypeCorrect`, `NodesAccountedHolds`, `TableIsStore`, for any keys, buckets, threads
  and calls and any finite set of addresses. `LockInv` ties a
  thread in a bucket to the bucket's taken lock. `HashInv` says of the heap what a
  deletion that frees outside the lock relies on: each linked node hangs in the
  bucket of its key and has one predecessor (`Lists`), the nodes in the hands of
  different threads are different and not linked (`Hands`), and a walking thread
  stands on linked nodes of its own bucket (`Walkers`). `LinkStep` and
  `UnlinkStep` are the two steps that change the graph.
  `ChainInv` adds that each bucket has a sequence that lists its linked nodes, each
  once, in the order of the pointers (`IsChain`); `ChainIs` proves that the recursion
  in `Chain` computes it, which ends because there are no more nodes than addresses.
  Linking puts one node in front (`FrontIsChain`), unlinking takes the m-th out
  (`WithoutIsChain`), all else leaves every list alone (`ChainsStay`): so no node is
  lost or in two places. For `TableIsStore` a list is seen as one stack per key
  (`Stacked`, `StackOfChain`): a node in front pushes (`StackFront`), the first node
  of a key taken out pops that key's stack and no other (`StackWithout`). `StoreInv`
  adds what a walker knows: it has passed no node of its key (`Walked`), although
  other buckets change meanwhile (`OthersList`). `StoreStep` maps the steps: `Link`
  and `MallocFails` to `Insert`, the two unlinkings and the end of a deletion's walk
  to `Delete`, `Found` and the end of a lookup's walk to `Lookup`, a call and its
  return to `Begin` and `Return`, the rest to stutters.
* `ShellProofs` — `NoChildLeftHolds`, `JobsDoNotOverlapHolds`,
  `EachOnceInOrderHolds`, for any input, any programs and any failing calls.
  `ChildrenInv` says which children there are at each place of the shell
  (`AwaitStageLeaves`: the wait that is meant for a stage leaves exactly the
  others), `EntriesInv` says which jobs have their entry in `child_pid`. For the
  order of the stages `asked` keeps the jobs as they were read: `AskedInv` says that
  the jobs still to come are untouched (the others `strtok` has cut), and that the
  pipeline in hand has as many stages as its job asked for; `RanTo(u)` that exactly
  the stages in front of u were begun, in order, and `Upto` names that u for each
  place of the shell, which is what makes it inductive: that none is missing behind
  the last stage begun depends on where the loops are. The property speaks of lines
  during which no call failed; a failed `fork` starts a job again (`shell.c` 77).
* `ShellProofs` — `TypeOKHolds`: the shell's indexes stay within its line, and a pid
  for each character of the longest line and one more are enough for its children.
  `PieceIsShorter`, `NthElement` and `SplitIsShorter` show that cutting a text gives no more pieces
  than it has characters, none longer than the text; so a line has at most
  `MAX_LENGTH` jobs (`BeginBound`), before every fork each child stands for
  a different one (`FewChildren`, from `ChildrenInv`), and a new pid exists
  (`ForkBound`). `BoundInv` carries this along, with the contents of the pipes.
* `TalkProofs` — `TypeCorrect`, `StreamExactHolds`, `LinesWholeHolds`,
  `HeadersEndAtBlankLineHolds`, for requests, lines, buffers and streams of any
  size (`TalkAssumption`). `HoldsInv` says who has the connection open and who
  still has something to write; `StreamInv` is the equation "said = heard \o still
  to write" where it must hold and "heard is a prefix" elsewhere; `LinesInv` adds
  that nothing of the present line is a newline, and that a short last line was
  read at an end of file that lasts (`PeersStayGone`, `NothingArrives`);
  `HeaderInv` that while headers are read what was delivered ends in a newline and
  has no empty line in it yet. `OneMoreLine` is the step of that induction: if no
  line is longer than the buffer, a line of `rio_readlineb` is a whole line, and
  it is `BLANK` exactly when the first empty line ends there.
* `TalkProofs` — `WholeAnswerHolds`. `AnswerInv` speaks of an exact request of a
  polite client, answered without a failing call (`Fine`). `PlacesInv`: the
  connection is not reset, and the client closes only when all the others have
  and it has everything. `SaidInv`: at each place of the server and of its CGI
  child, what was said to the client so far, and what is left to read of the
  request. A close with bytes unread would reset the connection, so each close
  needs `AllHeard`: it comes when that side has read all the other said.

`FlattenSeq`, `Min` and the shell's text cutting are defined by recursion or by
CHOOSE. Facts about them that name no operator parameter are proved by least
counterexample (`LeastElement`: a nonempty set of numbers has a least one), so
`FlattenAppend` and `FlattenEmpty` hold for all sequences.

Checked by TLC only:
* liveness (`DispatchEnds`, `LockIsPassedOn`, `LineEnds`, `ConversationEnds`):
  fairness and ENABLED are out of reach of the prover. `LineEnds` and
  `ConversationEnds` have premises (no pipe too small, no failed call; a client that
  sends a proper request and stays): outside them the code does not end.
* nothing else: every other property of a passing run is a theorem too.

## 5. Not modelled

* p1 `search.c`: sequential; see the plan.
* p2 `mysh.c`, `para.c`: not built by the Makefile.
* `requestParseURI`, `requestGetFiletype`, response texts: data. `Talk` sees of them
  which of the three answers is given and how many bytes it has.
* In `Server` (the shared state): a wrapper that fails with a request in hand (`Open`,
  `Fork`, a write to a client that left), which ends the process, and the descriptor
  of the file that is served. `Talk` has the failing calls (`ServeFails`,
  `WriteKills`). An accepted CGI program whose `execve` fails is in neither.
* `p2`: a last line of the input without a newline; tabs, which `strtok` takes for
  blanks.
* Times (`stat_req_arrival`, `dispatch`, `complete`): differences of a clock that
  no step depends on; line 76 of `server.c` does not compute milliseconds.
* `rio_readn`, `rio_readnb`: called by no program here. `Mem_Dump` prints only.
* The bound `max_buffers`: the master compares the sum of two counters with `==`
  while a worker is between `buffer_work_num++` and `buffer_wait_num--`. The steps
  are in `Server`; no run asks for the bound.
* `-DPTH` of `list.c`: deletions and lookups take the spinlock where insertions
  take the mutex, the defect that `Counter` with `PTH` shows for the counter.
* `p4/` and `p4/stress-test/` copies: the same functions without the `PTH`
  branches. Drivers, test scripts and data.
* Weak memory: loads and stores are sequentially consistent, as x86 gives them
  except for store buffers.

## 6. Plan

Done: `SchedSpec`, `SchedQueue`, `Server`, `ThreadStart`, `Pool`, `Talk`;
`AtomicCounter`, `Counter`; `KeyStore`, `HashTable`; `BlockStore`, `Mem`; `Shell`;
proofs about `SchedSpec`, `SchedQueue`, `ThreadStart`, `Pool`, `Server`, `Talk`,
`Counter`, `HashTable`, `BlockStore`, `Mem` and `Shell`. What is left:

* `Search` (p1): the merge loop as a state machine, with its sentinels, and a
  proof that it keeps order and ties.
