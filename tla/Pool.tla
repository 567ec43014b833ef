-------------------------------- MODULE Pool --------------------------------
(***************************************************************************)
(* The server from the first statement of main's creation loop on: the     *)
(* workers of Server run while main is still creating others (ThreadStart) *)
(* and initialising locks and statistics, and a worker's slot is whatever  *)
(* the loop variable was when it started.                                  *)
(*                                                                         *)
(* A worker that starts after the loop reads max_threads: its lock and its *)
(* statistics are then memory of others behind the arrays.  Server's last  *)
(* slot stands for it, so Server is taken with one worker more than main   *)
(* creates; what is in that slot may change at any time (Overwritten).     *)
(***************************************************************************)
EXTENDS Server

CONSTANT Behind   \* what memory behind the arrays may look like: the word of
                  \* the lock (free, or taken by nobody who gives it back) and
                  \* the statistics

VARIABLES
  main, t, created,   \* main's place in the loop, as in ThreadStart
  index,              \* what each worker read from *t, or UNREAD
  reinit              \* history: a lock was initialised while a worker held it

pool == <<main, t, created, index>>
poolvars == <<vars, pool, reinit>>

asked == max_threads - 1
TS == INSTANCE ThreadStart WITH max_threads <- asked, th_index <- index

ASSUME AskedAssumption ==
  /\ TS!ThreadsAssumption
  /\ Behind \subseteq [word : {NULL, master},
                       stat : [count : Nat, static : Nat, dynamic : Nat]]

UNREAD == TS!UNREAD
Started(w) == w \in TS!Worker /\ index[w] # UNREAD
PastTheEnd(w) == Started(w) /\ index[w] = asked

LoopTest == TS!LoopTest /\ UNCHANGED <<vars, reinit>>
CreateThread == TS!CreateThread /\ UNCHANGED <<vars, reinit>>

\* pthread_mutex_init stores the unlocked state, whoever has locked it by now:
\* a worker can have read t before this statement.
InitLock ==
  /\ TS!InitLock
  /\ lock' = [lock EXCEPT ![t] = NULL]
  /\ reinit' = (reinit \/ lock[t] # NULL)
  /\ UNCHANGED <<pc, th_index, mem, stat, not_empty, not_full, conns, local, cgi, server>>

InitStat ==
  /\ TS!InitStat
  /\ stat' = [stat EXCEPT ![t] = [count |-> 0, static |-> 0, dynamic |-> 0]]
  /\ UNCHANGED <<pc, th_index, mem, sync, conns, local, cgi, server, reinit>>

\* pthread_create returned an error: exit(-1).
CreateFails == main = "create" /\ Down("exit") /\ UNCHANGED <<pool, reinit>>

MainLoop == server = "up" /\ (LoopTest \/ InitLock \/ CreateThread \/ InitStat)

ReadIndex(w) ==
  /\ server = "up" /\ TS!ReadIndex(w)
  /\ th_index' = [th_index EXCEPT ![w] = t]
  /\ UNCHANGED <<pc, mem, sync, stat, conns, local, cgi, server, reinit>>

StartedStep(w) == Started(w) /\ WorkerStep(w) /\ UNCHANGED <<pool, reinit>>

\* Their owners store there while a worker takes it for a lock and statistics.
Overwritten ==
  /\ server = "up"
  /\ \E w \in Worker : PastTheEnd(w)
  /\ \E b \in Behind : /\ lock' = [lock EXCEPT ![asked] = b.word]
                       /\ stat' = [stat EXCEPT ![asked] = b.stat]
  /\ UNCHANGED <<pc, th_index, mem, not_empty, not_full, conns, local, cgi, server>>
  /\ UNCHANGED <<pool, reinit>>

\* The worker's stores there spoil what the others keep, and the process ends.
SpoilHeap ==
  /\ server = "up"
  /\ \E w \in Worker : PastTheEnd(w) /\ pc[w] \in {"check", "count_kind"}
  /\ Down("segv") /\ UNCHANGED <<pool, reinit>>

MayAccept_bug == TRUE     \* as if another thread accepted meanwhile
MayAccept == main = "accept"

AcceptStep == MayAccept /\ Accept /\ UNCHANGED <<pool, reinit>>
InAcceptLoop == MasterStep /\ UNCHANGED <<pool, reinit>>
Environment == (ChildExits \/ SpuriousWakeup \/ Segv) /\ UNCHANGED <<pool, reinit>>

\* calloc clears the slots of the arrays, and no other.
PoolInit ==
  /\ \E b \in Behind : InitWith([FreeLocks EXCEPT ![asked] = b.word],
                                [NoRequests EXCEPT ![asked] = b.stat])
  /\ TS!Init /\ reinit = FALSE

PoolNext ==
  \/ MainLoop \/ CreateFails
  \/ \E w \in Worker : (w \in TS!Worker /\ ReadIndex(w)) \/ StartedStep(w)
  \/ Overwritten \/ SpoilHeap \/ AcceptStep \/ InAcceptLoop \/ Environment

\* Threads that can go on do and a CGI program ends.  DispatchEnds needs no more:
\* neither that main runs nor that a created thread starts.
PoolSpec ==
  /\ PoolInit /\ [][PoolNext]_poolvars
  /\ \A w \in TS!Worker : WF_poolvars(StartedStep(w))
  /\ WF_poolvars(ChildExits /\ UNCHANGED <<pool, reinit>>)

-----------------------------------------------------------------------------
\* ThreadStart's bounds, with workers that lock, test and sleep meanwhile.
IndexBounds == TS!IndexBounds

OwnSlot == 0..(asked - 1)     \* what calloc gave

\* The statistics of a slot add up in every response, unless main initialised a
\* lock while a worker held it (then the lock admits two workers) or the slot is
\* behind the arrays.
AddUpUnlessReinit ==
  ~reinit => \A w \in Worker : th_index[w] \in OwnSlot => AddsUp(w)

\* What was counted in a slot is never set back, neither to 0 by main, which is
\* done with the slot before any request is dispatched, nor by the late store of
\* another worker, unless such a lock admits two of them.
CountsKept ==
  [][~reinit' => \A s \in OwnSlot : stat'[s].count >= stat[s].count]_poolvars

\* A worker that took a request finishes it, unless the process ends.
DispatchEnds ==
  \A w \in TS!Worker : pc[w] = "count" ~> (pc[w] = "unlock" \/ server # "up")
=============================================================================
