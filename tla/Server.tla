------------------------------- MODULE Server -------------------------------
(***************************************************************************)
(* The web server of p5: a master thread that accepts connections and a    *)
(* pool of workers that serve them, sharing the linked list of SchedQueue, *)
(* three counters and two condition variables.                             *)
(*                                                                         *)
(* The master holds `mutex' while it touches them, a worker holds only its *)
(* own work_locks[th_index]: the two sides exclude neither each other nor  *)
(* another worker.  So every step makes at most one access to a shared     *)
(* location (x++ is a load and a store, as -O0 compiles it), and a read    *)
(* through NULL ends the process.                                          *)
(*                                                                         *)
(* Definitions named "..._bug" are deviations a careless edit could make;  *)
(* each stands before the definition it would replace and is used nowhere. *)
(***************************************************************************)
EXTENDS Integers, FiniteSetsExt, SequencesExt

CONSTANTS
  max_threads,     \* workers, and slots of work_locks and of the statistics
  max_buffers,     \* capacity the master compares the counters with
  Policies,        \* what main may be told: 0: FIFO, 1: SFF, 2: SFF-BS
  sff_bs_value,    \* N of SFF-BS
  Requests,        \* what requestPreProcess can make of a connection:
                   \* [ok : BOOLEAN, is_static : BOOLEAN, st_size : Int]; if it
                   \* was refused (~ok) both fields, and for a dynamic one the
                   \* size, are whatever malloc left in the node
  Starts,          \* what the workers may have read as their indices: a worker
                   \* that starts late shares a slot (ThreadStart)
  MaxConn,         \* bound: connections ever accepted
  MaxOpen,         \* bound: connections open at a time (clients in parallel)
  NULL, UNSET      \* a null pointer; the next field of a fresh node

Worker == 0..(max_threads - 1)
Slot   == 0..(max_threads - 1)
master == -1     \* the thread that runs main
mutex  == -1
Thread == Worker \cup {master}
head   == 0
Node   == 0..MaxConn
Link   == Node \cup {NULL, UNSET}
NEVER  == MaxConn + 1     \* SFF: more nodes than any list has
Fd     == 1..MaxConn
NOBODY == 0
NoSearch == [tmp |-> head, room |-> 0]

MasterLabel == {"accept", "lock", "check_work", "check_wait", "sleep", "blocked",
                "preprocess", "fifo_tail", "fifo_link", "fifo_tail2", "fifo_next",
                "fifo_settail", "walk_next", "walk_size", "walk_on", "sff_next",
                "sff_link", "sff_next2", "sff_last", "sff_next3", "sff_settail",
                "wait_inc", "wait_inc_st", "signal", "unlock"}
WorkerLabel == {"lock", "check", "sleep", "blocked", "peek", "pop_test", "pop_load1",
                "pop_load2", "pop_store", "pop_empty", "pop_tail", "count", "count_st",
                "count_kind", "static_st", "dynamic_st", "hist_inc", "hist_inc_st", "work_inc",
                "work_inc_st", "wait_dec", "wait_dec_st", "serve", "wait", "close",
                "work_dec", "work_dec_st", "signal", "unlock"}

ASSUME ServerAssumption ==
  /\ max_threads \in Nat \ {0} /\ max_buffers \in Nat \ {0}
  /\ Policies \subseteq 0..2 /\ sff_bs_value \in Nat \ {0}
  /\ Requests \subseteq [ok : BOOLEAN, is_static : BOOLEAN, st_size : Int]
  /\ \A f \in Starts : f \in [Worker -> Slot] /\ \A w \in Worker : f[w] >= w
  /\ MaxConn \in Nat /\ MaxOpen \in Nat
  /\ NULL \notin Int /\ UNSET \notin Int /\ NULL # UNSET

VARIABLES
  pc,                \* the statement each thread is about to execute
  th_index,          \* the slot each worker read from its argument at start
  lock,              \* holder of each work_locks[s] and of mutex, or NULL
  not_empty,         \* workers blocked on the condition not_empty
  not_full,          \* whether the master is blocked on not_full
  mem,               \* the memory no common lock protects: the list (next, tail)
                     \* of buf_wait_queue and the three buffer_..._num counters;
                     \* and the policy, which nobody changes
  stat,              \* the statistics of each slot
  fd,                \* fd[n]: the descriptor of the n-th connection, the val of
                     \* node n; as long as the connections accepted so far
  request,           \* request[n]: what node n asks for
  owner,             \* the connection each descriptor is open for, or NOBODY
  node,              \* node[w]: the copy queue_peek returned to worker w
  reg,               \* reg[t]: the value thread t loaded last
  search,            \* the master's: the node it is at, how many it may pass
  running, zombie,   \* CGI children that run, and that wait to be reaped
  server             \* "up", "segv" or "exit"

sync  == <<lock, not_empty, not_full>>
conns == <<fd, request, owner>>
local == <<node, reg, search>>
cgi   == <<running, zombie>>
vars  == <<pc, th_index, mem, stat, sync, conns, local, cgi, server>>

sched_alg_code == mem.sched_alg_code

TypeOK ==
  /\ pc \in [Thread -> MasterLabel \cup WorkerLabel]
  /\ th_index \in [Worker -> Slot]
  /\ lock \in [Slot \cup {mutex} -> Thread \cup {NULL}]
  /\ not_empty \subseteq Worker /\ not_full \in BOOLEAN
  /\ mem \in [next : [Node -> Link], tail : Node \cup {NULL}, buffer_wait_num : Int,
              buffer_work_num : Int, buffer_head_hist : Int, sched_alg_code : 0..2]
  /\ stat \in [Slot -> [count : Nat, static : Nat, dynamic : Nat]]
  /\ fd \in Seq(Fd)
  /\ request \in Seq(Requests)
  /\ owner \in [Fd -> Node]
  /\ node \in [Worker -> Node]
  /\ reg \in [Thread -> Int \cup Link]
  /\ search \in [tmp : Node \cup {NULL}, room : Nat]
  /\ running \in Nat /\ zombie \in Nat
  /\ server \in {"up", "segv", "exit"}

-----------------------------------------------------------------------------
(* How a thread moves.                                                     *)

At(t, label) == server = "up" /\ pc[t] = label
Goto(t, label) == pc' = [pc EXCEPT ![t] = label] /\ UNCHANGED <<server, th_index>>
Step(t, from, to) == At(t, from) /\ Goto(t, to)

\* t loads the value of a shared location.
Load(t, from, to, value) ==
  /\ Step(t, from, to)
  /\ reg' = [reg EXCEPT ![t] = value]
  /\ UNCHANGED <<mem, sync, stat, conns, node, search, cgi>>

\* t decides where to go next by what it reads or has read.
Branch(t, from, test, yes, no) ==
  /\ Step(t, from, IF test THEN yes ELSE no)
  /\ UNCHANGED <<mem, sync, stat, conns, local, cgi>>

Lock(t, from, to, l) ==
  /\ Step(t, from, to)
  /\ lock[l] = NULL
  /\ lock' = [lock EXCEPT ![l] = t]
  /\ UNCHANGED <<mem, not_empty, not_full, stat, conns, local, cgi>>

Unlock(t, from, to, l) ==
  /\ Step(t, from, to)
  /\ lock' = [lock EXCEPT ![l] = NULL]
  /\ UNCHANGED <<mem, not_empty, not_full, stat, conns, local, cgi>>

\* t stores into shared memory; what it had loaded is used up.
Store(t, from, to, memory) ==
  /\ Step(t, from, to)
  /\ mem' = memory
  /\ reg' = [reg EXCEPT ![t] = 0]
  /\ UNCHANGED <<stat, sync, conns, node, search, cgi>>

\* x += d on a shared counter: another thread may store between the two halves.
Bump(t, from, halfway, to, x, d) ==
  \/ Load(t, from, halfway, mem[x])
  \/ Store(t, halfway, to, [mem EXCEPT ![x] = reg[t] + d])

Down(how) ==
  /\ server' = how
  /\ UNCHANGED <<pc, th_index, mem, sync, stat, conns, local, cgi>>
-----------------------------------------------------------------------------
(* The master: main's accept loop, Master_thread_accept_request,           *)
(* accept_request and queue_push.                                          *)

accepted == Len(fd)
OpenFds == {f \in Fd : owner[f] # NOBODY}

\* The kernel gives the lowest free descriptor, so a closed one is used again.
Accept ==
  /\ Step(master, "accept", "lock")
  /\ accepted < MaxConn
  /\ Cardinality(OpenFds) < MaxOpen
  /\ LET f == Min(Fd \ OpenFds)
     IN  fd' = Append(fd, f) /\ owner' = [owner EXCEPT ![f] = accepted + 1]
  /\ UNCHANGED <<mem, sync, stat, request, local, cgi>>

LockMutex == Lock(master, "lock", "check_work", mutex)

\* while (buffer_work_num + buffer_wait_num == max_buffers)
CheckWork == Load(master, "check_work", "check_wait", mem.buffer_work_num)
CheckWait == Branch(master, "check_wait",
                    reg[master] + mem.buffer_wait_num = max_buffers,
                    "sleep", "preprocess")

\* pthread_cond_wait gives the lock up and blocks in one step; the thread goes
\* on when it was signalled, or woken for no reason, and has the lock again.
WaitNotFull ==
  /\ Step(master, "sleep", "blocked")
  /\ lock' = [lock EXCEPT ![mutex] = NULL]
  /\ not_full' = TRUE
  /\ UNCHANGED <<mem, not_empty, stat, conns, local, cgi>>

MasterAwake == ~not_full /\ Lock(master, "blocked", "check_work", mutex)

new == accepted   \* the node the master is filling

\* malloc and requestPreProcess.  FIFO sets new_node->next here; SFF-BS reads
\* buffer_head_hist to bound its search.
PreProcess ==
  /\ Step(master, "preprocess", IF sched_alg_code = 0 THEN "fifo_tail" ELSE "walk_next")
  /\ fd[new] \in OpenFds
  /\ \E r \in Requests : request' = Append(request, r)
  /\ mem' = IF sched_alg_code = 0 THEN [mem EXCEPT !.next[new] = NULL] ELSE mem
  /\ search' = [tmp |-> head,
                room |-> IF sched_alg_code = 2
                         THEN sff_bs_value - (mem.buffer_head_hist % sff_bs_value) - 1
                         ELSE NEVER]
  /\ UNCHANGED <<sync, stat, fd, owner, node, reg, cgi>>

\* Rio_readlineb of a descriptor that a worker closed: the wrapper exits.
PreProcessFails == /\ At(master, "preprocess") /\ fd[new] \notin OpenFds
                   /\ Down("exit")

\* FIFO: tail->next = new_node; tail = tail->next
FifoTail    == Load(master, "fifo_tail", "fifo_link", mem.tail)
FifoLink    == /\ reg[master] # NULL
               /\ Store(master, "fifo_link", "fifo_tail2", [mem EXCEPT !.next[reg[master]] = new])
FifoTail2   == Load(master, "fifo_tail2", "fifo_next", mem.tail)
FifoNext    == /\ reg[master] # NULL
               /\ Load(master, "fifo_next", "fifo_settail", mem.next[reg[master]])
FifoSetTail == Store(master, "fifo_settail", "wait_inc", [mem EXCEPT !.tail = reg[master]])

\* SFF and SFF-BS: the search reads tmp->next three times a turn.
WalkNext ==
  /\ search.room > 0 => search.tmp # NULL
  /\ Branch(master, "walk_next", search.room > 0 /\ mem.next[search.tmp] # NULL,
            "walk_size", "sff_next")
WalkSize ==
  /\ At(master, "walk_size")
  /\ mem.next[search.tmp] # NULL
  /\ Branch(master, "walk_size", request[mem.next[search.tmp]].st_size <= request[new].st_size,
            "walk_on", "sff_next")
WalkOn ==
  /\ Step(master, "walk_on", "walk_next")
  /\ search' = [tmp |-> mem.next[search.tmp], room |-> search.room - 1]
  /\ UNCHANGED <<mem, sync, stat, conns, node, reg, cgi>>

SffNext_bug ==      \* links the node before it sets its next
  Branch(master, "sff_next", TRUE, "sff_link", "sff_link")

\* new_node->next = tmp->next; tmp->next = new_node;
\* if (tmp->next->next == NULL) tail = tmp->next
SffNext    == /\ search.tmp # NULL
              /\ Store(master, "sff_next", "sff_link",
                       [mem EXCEPT !.next[new] = mem.next[search.tmp]])
SffLink    == Store(master, "sff_link", "sff_next2", [mem EXCEPT !.next[search.tmp] = new])
SffNext2   == Load(master, "sff_next2", "sff_last", mem.next[search.tmp])
SffLast    == /\ reg[master] # NULL
              /\ Branch(master, "sff_last", mem.next[reg[master]] = NULL, "sff_next3", "wait_inc")
SffNext3   == Load(master, "sff_next3", "sff_settail", mem.next[search.tmp])
SffSetTail == Store(master, "sff_settail", "wait_inc", [mem EXCEPT !.tail = reg[master]])

\* ++buffer_wait_num; pthread_cond_signal(&not_empty) wakes one waiter, if any.
WaitInc == Bump(master, "wait_inc", "wait_inc_st", "signal", "buffer_wait_num", 1)

SignalNotEmpty ==   \* the locals of queue_push are gone
  /\ Step(master, "signal", "unlock")
  /\ search' = NoSearch
  /\ IF not_empty = {} THEN UNCHANGED not_empty
     ELSE \E w \in not_empty : not_empty' = not_empty \ {w}
  /\ UNCHANGED <<mem, lock, not_full, stat, conns, node, reg, cgi>>

UnlockMutex == Unlock(master, "unlock", "accept", mutex)

-----------------------------------------------------------------------------
(* A worker: Worker_thread_handle_request, handle_request, queue_peek and  *)
(* queue_pop, then requestServeStatic or requestServeDynamic and Close.    *)

LockSlot_bug(w) == Branch(w, "lock", TRUE, "check", "check")   \* no lock taken

LockSlot(w) == Lock(w, "lock", "check", th_index[w])

CheckEmpty(w) == Branch(w, "check", mem.buffer_wait_num = 0, "sleep", "peek")

WaitNotEmpty(w) ==
  /\ Step(w, "sleep", "blocked")
  /\ lock' = [lock EXCEPT ![th_index[w]] = NULL]
  /\ not_empty' = not_empty \cup {w}
  /\ UNCHANGED <<mem, not_full, stat, conns, local, cgi>>

WorkerAwake(w) == w \notin not_empty /\ Lock(w, "blocked", "check", th_index[w])

\* The copy of *(head->next): its fields other than next never change again.
Peek(w) ==
  /\ Step(w, "peek", "pop_test")
  /\ mem.next[head] # NULL
  /\ node' = [node EXCEPT ![w] = mem.next[head]]
  /\ UNCHANGED <<mem, sync, stat, conns, reg, search, cgi>>

\* An empty list is only warned about: the handler goes on with its copy.
PopTest(w)  == Branch(w, "pop_test", mem.next[head] # NULL, "pop_load1", "count")
PopLoad1(w) == Load(w, "pop_load1", "pop_load2", mem.next[head])
PopLoad2(w) == reg[w] # NULL /\ Load(w, "pop_load2", "pop_store", mem.next[reg[w]])
PopStore(w) == Store(w, "pop_store", "pop_empty", [mem EXCEPT !.next[head] = reg[w]])
PopEmpty(w) == Branch(w, "pop_empty", mem.next[head] = NULL, "pop_tail", "count")
PopTail(w)  == Store(w, "pop_tail", "count", [mem EXCEPT !.tail = head])

Asks(w) == request[node[w]]   \* the fields of the copied node
connfd(w) == fd[node[w]]

\* ++ of a field x of the slot's statistics: a load and a store.
LoadStat(w, from, to, x) == Load(w, from, to, stat[th_index[w]][x])
StoreStat(w, from, to, x) ==
  /\ Step(w, from, to)
  /\ stat' = [stat EXCEPT ![th_index[w]][x] = reg[w] + 1]
  /\ reg' = [reg EXCEPT ![w] = 0]
  /\ UNCHANGED <<mem, sync, conns, node, search, cgi>>

Count_bug(w) == Branch(w, "count", TRUE, "count_kind", "count_kind")

Count(w) == \/ LoadStat(w, "count", "count_st", "count")
            \/ StoreStat(w, "count_st", "count_kind", "count")

CountKind(w) ==
  \/ LoadStat(w, "count_kind", "static_st", "static") /\ Asks(w).is_static
  \/ LoadStat(w, "count_kind", "dynamic_st", "dynamic") /\ ~Asks(w).is_static
  \/ StoreStat(w, "static_st", "hist_inc", "static")
  \/ StoreStat(w, "dynamic_st", "hist_inc", "dynamic")

\* buffer_head_hist++; buffer_work_num++; buffer_wait_num--
HistInc(w) == Bump(w, "hist_inc", "hist_inc_st", "work_inc", "buffer_head_hist", 1)
WorkInc(w) == Bump(w, "work_inc", "work_inc_st", "wait_dec", "buffer_work_num", 1)
WaitDec(w) == Bump(w, "wait_dec", "wait_dec_st", "serve", "buffer_wait_num", -1)

CanServe(w) ==
  /\ connfd(w) \in OpenFds
  /\ Asks(w).is_static => Asks(w).ok /\ Asks(w).st_size > 0

ServeStatic(w) ==
  /\ Step(w, "serve", "close")
  /\ CanServe(w) /\ Asks(w).is_static
  /\ UNCHANGED <<mem, sync, stat, conns, local, cgi>>

ServeDynamic_bug(w) ==   \* the program is a grandchild, which nobody here can wait for
  /\ Branch(w, "serve", TRUE, "wait", "wait")
  /\ CanServe(w) /\ ~Asks(w).is_static

\* Fork; a child that cannot execute its program exits at once.
ServeDynamic(w) ==
  /\ Step(w, "serve", "wait")
  /\ CanServe(w) /\ ~Asks(w).is_static
  /\ running' = running + 1
  /\ UNCHANGED <<mem, sync, stat, conns, local, zombie>>

\* A wrapper exits: Rio_writen to a descriptor another worker closed, Mmap of
\* an empty file, or Open of the uninitialised name of a refused request
\* whose node holds a nonzero is_static.
ServeFails(w) == At(w, "serve") /\ ~CanServe(w) /\ Down("exit")

Reap_bug(w) ==      \* reaps every child there is
  /\ zombie > 0
  /\ Step(w, "wait", "close")
  /\ zombie' = 0
  /\ UNCHANGED <<mem, sync, stat, conns, local, running>>

\* Wait(NULL) reaps a child, not necessarily the one this worker forked.
Reap(w) ==
  /\ zombie > 0
  /\ Step(w, "wait", "close")
  /\ zombie' = zombie - 1
  /\ UNCHANGED <<mem, sync, stat, conns, local, running>>

\* The descriptor may be open again for another connection by now.
Close(w) ==
  /\ Step(w, "close", "work_dec")
  /\ connfd(w) \in OpenFds
  /\ owner' = [owner EXCEPT ![connfd(w)] = NOBODY]
  /\ node' = [node EXCEPT ![w] = head]   \* the copy is not used again
  /\ UNCHANGED <<mem, sync, stat, fd, request, reg, search, cgi>>

\* Closing a descriptor that is not open: the wrapper exits.
CloseAgain(w) == At(w, "close") /\ connfd(w) \notin OpenFds /\ Down("exit")

WorkDec(w) == Bump(w, "work_dec", "work_dec_st", "signal", "buffer_work_num", -1)

SignalNotFull(w) ==
  /\ Step(w, "signal", "unlock")
  /\ not_full' = FALSE
  /\ UNCHANGED <<mem, lock, not_empty, stat, conns, local, cgi>>

UnlockSlot(w) == Unlock(w, "unlock", "lock", th_index[w])

-----------------------------------------------------------------------------
(* The environment: children end, blocked threads wake up spuriously.      *)

ChildExits ==
  /\ server = "up" /\ running > 0
  /\ running' = running - 1 /\ zombie' = zombie + 1
  /\ UNCHANGED <<pc, th_index, mem, sync, stat, conns, local, server>>

SpuriousWakeup ==
  /\ server = "up"
  /\ \/ not_full /\ not_full' = FALSE /\ UNCHANGED not_empty
     \/ \E w \in not_empty : not_empty' = not_empty \ {w} /\ UNCHANGED not_full
  /\ UNCHANGED <<pc, th_index, mem, lock, stat, conns, local, cgi, server>>

\* A load through a null pointer.
NullAccess ==
  \/ \E w \in Worker : At(w, "peek") /\ mem.next[head] = NULL
  \/ \E w \in Worker : At(w, "pop_load2") /\ reg[w] = NULL
  \/ \E l \in {"fifo_link", "fifo_next", "sff_last"} :
       At(master, l) /\ reg[master] = NULL
  \/ At(master, "walk_next") /\ search.room > 0 /\ search.tmp = NULL
  \/ At(master, "walk_size") /\ mem.next[search.tmp] = NULL
  \/ At(master, "sff_next") /\ search.tmp = NULL
Segv == NullAccess /\ Down("segv")

FreeLocks  == [l \in Slot \cup {mutex} |-> NULL]
NoRequests == [i \in Slot |-> [count |-> 0, static |-> 0, dynamic |-> 0]]

InitWith(locks, stats) ==
  /\ server = "up"
  /\ pc = [t \in Thread |-> IF t = master THEN "accept" ELSE "lock"]
  /\ th_index \in Starts
  /\ lock = locks /\ stat = stats
  /\ not_empty = {} /\ not_full = FALSE
  /\ \E policy \in Policies :
       mem = [next |-> [n \in Node |-> IF n = head THEN NULL ELSE UNSET], tail |-> head,
              buffer_wait_num |-> 0, buffer_work_num |-> 0, buffer_head_hist |-> 0,
              sched_alg_code |-> policy]
  /\ fd = <<>> /\ request = <<>> /\ owner = [f \in Fd |-> NOBODY]
  /\ node = [w \in Worker |-> head] /\ reg = [t \in Thread |-> 0]
  /\ search = NoSearch
  /\ running = 0 /\ zombie = 0

Init == InitWith(FreeLocks, NoRequests)

QueuePush == \/ PreProcess \/ PreProcessFails
             \/ FifoTail \/ FifoLink \/ FifoTail2 \/ FifoNext \/ FifoSetTail
             \/ WalkNext \/ WalkSize \/ WalkOn
             \/ SffNext \/ SffLink \/ SffNext2 \/ SffLast \/ SffNext3 \/ SffSetTail

MasterStep == \/ LockMutex \/ CheckWork \/ CheckWait \/ WaitNotFull \/ MasterAwake
              \/ QueuePush \/ WaitInc
              \/ SignalNotEmpty \/ UnlockMutex

HandleRequest(w) ==
  \/ Peek(w) \/ PopTest(w) \/ PopLoad1(w) \/ PopLoad2(w) \/ PopStore(w)
  \/ PopEmpty(w) \/ PopTail(w) \/ Count(w) \/ CountKind(w)
  \/ HistInc(w) \/ WorkInc(w) \/ WaitDec(w)
  \/ ServeStatic(w) \/ ServeDynamic(w) \/ ServeFails(w) \/ Reap(w)
  \/ Close(w) \/ CloseAgain(w) \/ WorkDec(w)

WorkerStep(w) == \/ LockSlot(w) \/ CheckEmpty(w) \/ WaitNotEmpty(w) \/ WorkerAwake(w)
                 \/ HandleRequest(w) \/ SignalNotFull(w) \/ UnlockSlot(w)

Next == \/ Accept \/ MasterStep
        \/ \E w \in Worker : WorkerStep(w)
        \/ ChildExits \/ SpuriousWakeup \/ Segv

Spec == Init /\ [][Next]_vars

\* A thread that can go on does, and a CGI program ends.  Nothing promises
\* that clients come (Accept) or that a blocked thread wakes up by itself.
Fairness == /\ WF_vars(MasterStep)
            /\ \A w \in Worker : WF_vars(WorkerStep(w))
            /\ WF_vars(ChildExits) /\ WF_vars(Segv)

FairSpec == Spec /\ Fairness
-----------------------------------------------------------------------------
PointedTo ==   \* nodes that a link, the tail, the search or a worker's copy names
  (Range(mem.next) \cup Range(node) \cup {mem.tail, search.tmp}) \cap Node

\* A node is pointed to only when it is complete: whatever the interleaving, no
\* thread that follows the list meets a node whose next was not yet written or
\* whose request was not yet read (queue_push fills the node, then links it).
LinkedWhenComplete ==
  \A n \in PointedTo \ {head} : n \in 1..Len(request) /\ mem.next[n] # UNSET

AddsUp(w) ==
  pc[w] \in {"serve", "wait"} =>
    LET s == stat[th_index[w]] IN s.count = s.static + s.dynamic

\* What a response says of its slot adds up (test13.py: "Expected: count =
\* static + dynamic"): the slot's lock is held from the first increment to the
\* response, also when two workers were started with the same index.
StatsAddUp ==
  \A w \in Worker : AddsUp(w)

\* buffer_head_hist never runs ahead of the requests dispatched: racing
\* increments may lose one, none is counted twice.
HistCountsDispatches ==
  mem.buffer_head_hist <=
    MapThenSumSet(LAMBDA i : stat[i].count, Slot)

\* Every worker in Wait(NULL) is owed a child: the call never fails, although
\* a worker may reap the child of another.
ChildrenMatchWaiters ==
  running + zombie = Cardinality({w \in Worker : pc[w] = "wait"})

\* The process never ends by itself (test6.py: "if your server crash").
StaysUp == server = "up"

\* Every connection accepted is closed in the end.
EveryRequestServed ==
  \A n \in 1..MaxConn : accepted >= n ~> \A f \in Fd : owner[f] # n

\* With requests one at a time: while the master waits in accept and the worker
\* is idle, the counters say that nothing waits and nobody works, the list is
\* empty and FIFO's tail is back at the sentinel.
QuietCounters ==
  (/\ pc[master] = "accept" /\ OpenFds = {}
   /\ \A w \in Worker : pc[w] \in {"lock", "blocked"}) =>
    /\ mem.buffer_wait_num = 0 /\ mem.buffer_work_num = 0
    /\ mem.next[head] = NULL
    /\ sched_alg_code = 0 => mem.tail = head
=============================================================================
