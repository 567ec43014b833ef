------------------------------ MODULE Counter ------------------------------
(***************************************************************************)
(* p4-final/handin/counter.c over spin.c: a counter that threads increment *)
(* and decrement under a lock and read without one.  ++ and -- load and    *)
(* store c->val in two steps.  Compiled with -DPTH, Counter_Increment locks*)
(* a pthread mutex and Counter_Decrement still takes the spinlock.         *)
(***************************************************************************)
EXTENDS Integers, FiniteSets

CONSTANTS
  Thread,
  InitValue,   \* the value given to Counter_Init
  PTH,         \* whether the library is compiled with -DPTH
  MaxCalls     \* bound: calls ever made

ASSUME CounterAssumption ==
  InitValue \in Int /\ PTH \in BOOLEAN /\ MaxCalls \in Nat

Op == {"inc", "dec", "get"}
LockName == {"spinlock", "plock"}

VARIABLES
  val,         \* c->val
  taken,       \* taken[l]: 1 while lock l is held; c->spinlock.flag and
               \* the state of c->plock
  pc,          \* where each thread is in its call
  op,          \* the function it called
  reg,         \* the value it loaded
  incs, decs,  \* increments and decrements stored so far
  calls        \* calls made so far

vars == <<val, taken, pc, op, reg, incs, decs, calls>>

\* A lock word: 0 free, 1 held, and with PTH any other word that memory left in
\* the spinlock, which xchg tells from 1 only.
GARBAGE == 2
LockWord == IF PTH THEN {0, 1, GARBAGE} ELSE {0, 1}

Label == {"idle", "acquire", "load", "store", "release", "get", "return"}

TypeOK ==
  /\ val \in Int /\ taken \in [LockName -> LockWord]
  /\ pc \in [Thread -> Label] /\ op \in [Thread -> Op]
  /\ reg \in [Thread -> Int]
  /\ incs \in Nat /\ decs \in Nat /\ calls \in Nat

Step(t, from, to) == pc[t] = from /\ pc' = [pc EXCEPT ![t] = to]

\* Definitions named "..._bug" are deviations a careless edit could make; each
\* stands before the definition it would replace and is used nowhere.

Counter_Init_bug ==   \* the lock word is left as malloc returned it
  /\ val = InitValue /\ taken \in [LockName -> {0, 7}]
  /\ pc = [t \in Thread |-> "idle"] /\ op = [t \in Thread |-> "get"]
  /\ reg = [t \in Thread |-> 0]
  /\ incs = 0 /\ decs = 0 /\ calls = 0

\* With PTH only the mutex is initialised: the spinlock, which
\* Counter_Decrement takes all the same, is whatever was in memory.
Counter_Init ==
  /\ val = InitValue
  /\ \E word \in LockWord :
       taken = [l \in LockName |-> IF PTH /\ l = "spinlock" THEN word ELSE 0]
  /\ pc = [t \in Thread |-> "idle"] /\ op = [t \in Thread |-> "get"]
  /\ reg = [t \in Thread |-> 0]
  /\ incs = 0 /\ decs = 0 /\ calls = 0

Call(t, o) ==
  /\ calls < MaxCalls
  /\ Step(t, "idle", IF o = "get" THEN "get" ELSE "acquire")
  /\ op' = [op EXCEPT ![t] = o]
  /\ calls' = calls + 1
  /\ UNCHANGED <<val, taken, reg, incs, decs>>

\* Only Counter_Increment has the pthread variant.
LockOf(t) == IF PTH /\ op[t] = "inc" THEN "plock" ELSE "spinlock"

Acquire_bug(t) ==   \* test and set in two steps: the test is stale
  /\ Step(t, "acquire", "load")
  /\ taken' = [taken EXCEPT ![LockOf(t)] = 1]
  /\ UNCHANGED <<val, op, reg, incs, decs, calls>>

\* xchg stores 1 and returns the old flag in one step; a thread that gets 1
\* back has changed nothing and tries again.  pthread_mutex_lock waits.
Acquire(t) ==
  /\ Step(t, "acquire", "load")
  /\ taken[LockOf(t)] # 1
  /\ taken' = [taken EXCEPT ![LockOf(t)] = 1]
  /\ UNCHANGED <<val, op, reg, incs, decs, calls>>

\* ++ (c->val) and -- (c->val)
LoadVal(t) ==
  /\ Step(t, "load", "store")
  /\ reg' = [reg EXCEPT ![t] = val]
  /\ UNCHANGED <<val, taken, op, incs, decs, calls>>

StoreVal(t) ==
  /\ Step(t, "store", "release")
  /\ val' = IF op[t] = "inc" THEN reg[t] + 1 ELSE reg[t] - 1
  /\ incs' = IF op[t] = "inc" THEN incs + 1 ELSE incs
  /\ decs' = IF op[t] = "inc" THEN decs ELSE decs + 1
  /\ UNCHANGED <<taken, op, reg, calls>>

Release_bug(t) ==   \* the lock is left taken
  /\ Step(t, "release", "return")
  /\ UNCHANGED <<val, taken, op, reg, incs, decs, calls>>

Release(t) ==
  /\ Step(t, "release", "return")
  /\ taken' = [taken EXCEPT ![LockOf(t)] = 0]
  /\ UNCHANGED <<val, op, reg, incs, decs, calls>>

Counter_GetValue(t) ==
  /\ Step(t, "get", "return")
  /\ reg' = [reg EXCEPT ![t] = val]
  /\ UNCHANGED <<val, taken, op, incs, decs, calls>>

Return(t) ==
  /\ Step(t, "return", "idle")
  /\ reg' = [reg EXCEPT ![t] = 0]
  /\ UNCHANGED <<val, taken, op, incs, decs, calls>>

InCall(t) == \/ Acquire(t) \/ LoadVal(t) \/ StoreVal(t) \/ Release(t)
             \/ Counter_GetValue(t) \/ Return(t)

Next == \E t \in Thread : InCall(t) \/ \E o \in Op : Call(t, o)

Init == Counter_Init

Spec == Init /\ [][Next]_vars

\* A thread that can take a step of its call does; nobody must call.
FairSpec == Spec /\ \A t \in Thread : WF_vars(InCall(t))

-----------------------------------------------------------------------------
\* No increment or decrement is lost or done twice: at every moment the value
\* is the initial one plus the increments minus the decrements stored.
CountExact == val = InitValue + incs - decs

InUpdate(t) == pc[t] \in {"load", "store", "release"}

\* Each lock admits one thread at a time: without PTH no two threads are inside
\* ++ or -- together, with it no two inside ++ and no two inside --.
MutualExclusion ==
  \A t, u \in Thread :
    InUpdate(t) /\ InUpdate(u) /\ LockOf(t) = LockOf(u) => t = u

\* What a thread's call is to AtomicCounter: it took effect once it is past
\* its store, or past the load of Counter_GetValue.
CallOf(t) ==
  IF pc[t] = "idle" THEN [op |-> "none", done |-> FALSE, result |-> 0]
  ELSE [op |-> op[t],
        done |-> pc[t] \in {"release", "return"},
        result |-> IF op[t] = "get" THEN reg[t] ELSE 0]

calls_of == [t \in Thread |-> CallOf(t)]

\* Each call takes effect at its store, or at the load of Counter_GetValue.
Atomic == INSTANCE AtomicCounter WITH value <- val, call <- calls_of
IsAtomic == Atomic!Spec

\* While some thread spins, some thread gets in: the lock is never left taken.
LockIsPassedOn ==
  (\E t \in Thread : pc[t] = "acquire") ~> (\E t \in Thread : pc[t] = "load")
=============================================================================
