----------------------------- MODULE SchedQueue -----------------------------
(***************************************************************************)
(* The server's waiting line as p5/server.c builds it: a linked list with  *)
(* a sentinel at the head and a pointer to its last node, filled by        *)
(* queue_push under one of three policies and emptied by handle_request    *)
(* (queue_peek, queue_pop, the stat_req_death counter).  Every call is one *)
(* atomic step here; what happens when calls overlap is the subject of     *)
(* Server.  Nodes are numbered in the order they are allocated: the code   *)
(* never frees one, so no address is used twice.                           *)
(***************************************************************************)
EXTENDS Integers, SequencesExt

CONSTANTS
  Policies,        \* the policies the command line may name
  sff_bs_value,    \* N of SFF-BS
  FileSize,        \* sizes of the files that static requests ask for
  Garbage,         \* what malloc may leave in st_size
  MaxReq,          \* bound: connections the master accepts
  NULL

FIFO   == 0
SFF    == 1
SFF_BS == 2

ASSUME QueueAssumption ==
  /\ Policies \subseteq {FIFO, SFF, SFF_BS}
  /\ sff_bs_value \in Nat \ {0}
  /\ FileSize \cup Garbage \subseteq Int
  /\ MaxReq \in Nat
  /\ NULL \notin Nat

head == 0                 \* the sentinel: wait_queue->head never changes
Node == 0..MaxReq
Link == Node \cup {NULL}

VARIABLES
  sched_alg_code,    \* getargs: 0: FIFO, 1: SFF, 2: SFF-BS
  next,              \* next[n]: the node's next pointer
  tail,              \* wait_queue->tail
  st_size,           \* st_size[n]
  pushed,            \* nodes allocated so far
  buffer_head_hist,  \* dispatches so far
  served             \* the nodes handled, oldest first, with their sizes

vars == <<sched_alg_code, next, tail, st_size, pushed, buffer_head_hist, served>>

\* The st_size of a node after requestPreProcess.  A static request that can
\* be served stores the file's size.  Every other request leaves the field
\* alone: FIFO has set it to 0 before, SFF and SFF-BS have not set it.
StSize == FileSize \cup (IF sched_alg_code = FIFO THEN {0} ELSE Garbage)

TypeOK ==
  /\ sched_alg_code \in Policies
  /\ next \in [Node -> Link]
  /\ tail \in Node
  /\ st_size \in [1..pushed -> StSize]
  /\ pushed \in 0..MaxReq
  /\ buffer_head_hist \in 0..MaxReq
  /\ served \in Seq([id : 1..MaxReq, size : StSize])

-----------------------------------------------------------------------------

getargs == sched_alg_code \in Policies

queue_init ==
  /\ next = [n \in Node |-> NULL]
  /\ tail = head
  /\ st_size = <<>> /\ pushed = 0
  /\ buffer_head_hist = 0 /\ served = <<>>

\* Definitions named "..._bug" are deviations a careless edit could make; each
\* stands before the definition it would replace and is used nowhere.
\* How many nodes, counted from the sentinel, the search may look at.
max_search == IF sched_alg_code = SFF_BS
              THEN sff_bs_value - (buffer_head_hist % sff_bs_value)
              ELSE MaxReq + 1

\* The n-th node behind the sentinel, while there is one (tmp, tmp->next, ...).
Nth[n \in 0..MaxReq] == IF n = 0 THEN head ELSE next[Nth[n - 1]]

InsertionPoint_bug(s) ==   \* < for <=: a newcomer overtakes its equals
  LET stops(n) == \/ n + 1 >= max_search
                  \/ next[Nth[n]] = NULL
                  \/ st_size[next[Nth[n]]] >= s
  IN  Nth[CHOOSE n \in 0..MaxReq : stops(n) /\ \A m \in 0..(n - 1) : ~stops(m)]

\* The node behind which a request of size s is linked: the search starts at
\* the sentinel with cnt_search = 1 and passes every node that is not larger
\* than the newcomer, n of them until it stops.
InsertionPoint(s) ==
  LET stops(n) == \/ n + 1 >= max_search
                  \/ next[Nth[n]] = NULL
                  \/ st_size[next[Nth[n]]] > s
  IN  Nth[CHOOSE n \in 0..MaxReq : stops(n) /\ \A m \in 0..(n - 1) : ~stops(m)]

Allocate(s) ==
  /\ pushed < MaxReq
  /\ pushed' = pushed + 1
  /\ st_size' = Append(st_size, s)
  /\ UNCHANGED <<sched_alg_code, buffer_head_hist, served>>

\* new_node->next = NULL; tail->next = new_node; tail = tail->next
LinkAtTail(new) ==
  /\ next' = [next EXCEPT ![new] = NULL, ![tail] = new]
  /\ tail' = new

\* new_node->next = tmp->next; tmp->next = new_node; fix tail
LinkBehind(new, tmp) ==
  /\ next' = [next EXCEPT ![new] = next[tmp], ![tmp] = new]
  /\ tail' = IF next[tmp] = NULL THEN new ELSE tail

queue_push(s) ==
  /\ Allocate(s)
  /\ IF sched_alg_code = FIFO
     THEN LinkAtTail(pushed + 1)
     ELSE LinkBehind(pushed + 1, InsertionPoint(s))

queue_pop_bug ==
  /\ next' = [next EXCEPT ![head] = next[next[head]]]
  /\ UNCHANGED tail

queue_pop_null_bug ==
  /\ next' = [next EXCEPT ![head] = next[next[head]]]
  /\ tail' = IF next'[head] = NULL THEN NULL ELSE tail

\* The tail moves back to the sentinel when the last node leaves.
queue_pop ==
  /\ next' = [next EXCEPT ![head] = next[next[head]]]
  /\ tail' = IF next'[head] = NULL THEN head ELSE tail

handle_request ==
  /\ next[head] # NULL
  /\ queue_pop
  /\ served' = Append(served, [id |-> next[head], size |-> st_size[next[head]]])
  /\ buffer_head_hist' = buffer_head_hist + 1
  /\ UNCHANGED <<sched_alg_code, st_size, pushed>>

Init == getargs /\ queue_init

Next == handle_request \/ \E s \in StSize : queue_push(s)

Spec == Init /\ [][Next]_vars

-----------------------------------------------------------------------------
(* The line the pointers describe, and the scheduler it implements.        *)

Line ==
  LET last == CHOOSE n \in 0..MaxReq :
                /\ next[Nth[n]] = NULL
                /\ \A m \in 0..(n - 1) : next[Nth[m]] # NULL
  IN  [i \in 1..last |-> [id |-> Nth[i], size |-> st_size[Nth[i]]]]

Scheduler == INSTANCE SchedSpec WITH waiting <- Line, arrived <- pushed,
                                    StSize <- FileSize \cup Garbage \cup {0}

\* The linked list behaves as the line SchedSpec describes: no node is lost or
\* dispatched twice, requests leave from the front, and under FIFO and SFF
\* queue_push finds the place the policy names.
ImplementsScheduler == Scheduler!Spec

\* queue_push links at tail and trusts it: tail is the last node of the list
\* that starts at the sentinel, also after queue_pop emptied the list.
TailIsLast == tail = IF Line = <<>> THEN head ELSE Last(Line).id

\* A handler of SFF takes a smallest request of the line and, among equals,
\* the one accepted first: no search stops early or walks too far.
ShortestFirst ==
  [][sched_alg_code = SFF /\ served' # served =>
       LET r == Last(served') IN
       \A i \in 1..Len(Line) :
         \/ r.size < Line[i].size
         \/ r.size = Line[i].size /\ r.id <= Line[i].id]_vars

\* What the tests expect of SFF-BS: N requests in the order of their arrival are
\* an epoch, and none is served before one of an earlier epoch (test10.py:82
\* with N = 3, test13.py:60 with N = 2).  The code counts dispatches instead and
\* searches from the front of whatever stands in line.
Epoch(r) == (r.id - 1) \div sff_bs_value

EpochOrder ==
  sched_alg_code = SFF_BS =>
    \A k \in 1..Len(served) : \A j \in 1..k : Epoch(served[j]) <= Epoch(served[k])
=============================================================================
