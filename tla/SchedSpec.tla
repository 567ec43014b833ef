----------------------------- MODULE SchedSpec -----------------------------
(***************************************************************************)
(* What the web server's scheduler promises, without pointers: accepted    *)
(* requests stand in a line, a newcomer is given a place by the policy     *)
(* named on the command line, and the request at the front is served.      *)
(* SchedQueue (p5/server.c queue_push, queue_peek, queue_pop) implements   *)
(* it.                                                                     *)
(***************************************************************************)
EXTENDS Integers, SequencesExt

CONSTANTS
  Policies,        \* the policies the command line may name
  StSize,          \* the values st_size can have when a request is compared
  MaxReq           \* bound: number of requests of a behaviour

FIFO   == 0
SFF    == 1
SFF_BS == 2

VARIABLES
  sched_alg_code,  \* the policy chosen at start: 0: FIFO, 1: SFF, 2: SFF-BS
  waiting,   \* the line: a sequence of requests, the next one to serve first
  served,    \* the requests dispatched, oldest first
  arrived    \* how many requests were accepted so far

vars == <<sched_alg_code, waiting, served, arrived>>

Request == [id : 1..MaxReq, size : StSize]

TypeOK == /\ sched_alg_code \in Policies
          /\ waiting \in Seq(Request)
          /\ served \in Seq(Request)
          /\ arrived \in 0..MaxReq

-----------------------------------------------------------------------------

\* A request of size s may stand behind the first p requests of the line.
FifoPlace(s, p) == p = Len(waiting)

SffPlace(s, p) == /\ \A i \in 1..p : waiting[i].size <= s
                  /\ \A i \in (p + 1)..Len(waiting) : waiting[i].size > s

\* SFF-BS gives no promise of the place: the code's is not the one that the
\* tests expect (EpochOrder of SchedQueue).
Place(s, p) == \/ sched_alg_code = FIFO /\ FifoPlace(s, p)
               \/ sched_alg_code = SFF  /\ SffPlace(s, p)
               \/ sched_alg_code = SFF_BS

NewRequest(s) == [id |-> arrived + 1, size |-> s]

Init == /\ sched_alg_code \in Policies
        /\ waiting = <<>> /\ served = <<>> /\ arrived = 0

Arrive(s) ==
  /\ arrived < MaxReq
  /\ arrived' = arrived + 1
  /\ \E p \in 0..Len(waiting) :
       /\ Place(s, p)
       /\ waiting' = InsertAt(waiting, p + 1, NewRequest(s))
  /\ UNCHANGED <<sched_alg_code, served>>

Dispatch ==
  /\ waiting # <<>>
  /\ served' = Append(served, Head(waiting))
  /\ waiting' = Tail(waiting)
  /\ UNCHANGED <<sched_alg_code, arrived>>

Next == Dispatch \/ \E s \in StSize : Arrive(s)

Spec == Init /\ [][Next]_vars

-----------------------------------------------------------------------------

Before(a, b) == a.size < b.size \/ (a.size = b.size /\ a.id < b.id)

\* Under SFF the line is always ordered by size and requests of one size stand
\* in the order of their arrival, whatever arrives while others are served.
LineOrdered == sched_alg_code = SFF =>
  \A i, j \in 1..Len(waiting) : i < j => Before(waiting[i], waiting[j])

\* Under SFF the request dispatched precedes all that stay behind: none of them
\* is smaller, and those of its size arrived later.
ShortestFirst ==
  [][sched_alg_code = SFF /\ served' # served =>
       \A i \in 1..Len(waiting') : Before(Last(served'), waiting'[i])]_vars
=============================================================================
