---------------------------- MODULE ThreadStart ----------------------------
(***************************************************************************)
(* How the workers of p5/server.c get their index.  main passes the        *)
(* address of its loop variable t to every pthread_create; a worker reads  *)
(* *t when it starts to run, which may be any time later.  The index picks *)
(* the worker's lock, its statistics and the Stat-thread-id it reports.    *)
(***************************************************************************)
EXTENDS Integers

CONSTANT max_threads

\* What main's argument must be; Pool assumes it of its own constants.
ThreadsAssumption == max_threads \in Nat

Worker == 0..(max_threads - 1)
UNREAD == -1

VARIABLES
  main,      \* the statement of the creation loop main is at
  t,         \* its loop variable
  created,   \* the workers pthread_create has made
  th_index   \* what each worker read, UNREAD before

vars == <<main, t, created, th_index>>

TypeOK == /\ main \in {"loop", "init_lock", "create", "init_stat", "accept"}
          /\ t \in 0..max_threads
          /\ created \subseteq Worker
          /\ th_index \in [Worker -> {UNREAD} \cup 0..max_threads]

Init == /\ main = "loop" /\ t = 0
        /\ created = {}
        /\ th_index = [w \in Worker |-> UNREAD]

\* for (t = 0; t < max_threads; t++)
LoopTest ==
  /\ main = "loop"
  /\ main' = IF t < max_threads THEN "init_lock" ELSE "accept"
  /\ UNCHANGED <<t, created, th_index>>

\* pthread_mutex_init (&work_locks[t], NULL)
InitLock ==
  /\ main = "init_lock"
  /\ main' = "create"
  /\ UNCHANGED <<t, created, th_index>>

\* pthread_create (&work_threads[t], NULL, &Worker_thread_handle_request, &t)
CreateThread ==
  /\ main = "create"
  /\ created' = created \cup {t}
  /\ main' = "init_stat"
  /\ UNCHANGED <<t, th_index>>

\* The statistics of slot t are set to 0, then t++.
InitStat ==
  /\ main = "init_stat"
  /\ t' = t + 1
  /\ main' = "loop"
  /\ UNCHANGED <<created, th_index>>

\* int th_index = *(int*)t
ReadIndex(w) ==
  /\ w \in created /\ th_index[w] = UNREAD
  /\ th_index' = [th_index EXCEPT ![w] = t]
  /\ UNCHANGED <<main, t, created>>

Next == LoopTest \/ InitLock \/ CreateThread \/ InitStat \/ \E w \in Worker : ReadIndex(w)

Spec == Init /\ [][Next]_vars

\* A worker never reads an index below its own place in the pool, whenever it
\* starts: late readers see later values of t, up to the one past the end, an
\* index outside the ids 0 to N-1 that p5/test/testcases/test11.py expects.
IndexBounds ==
  \A w \in Worker : th_index[w] # UNREAD => th_index[w] \in w..max_threads

=============================================================================
