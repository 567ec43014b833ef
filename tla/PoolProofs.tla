----------------------------- MODULE PoolProofs -----------------------------
(***************************************************************************)
(* The composition of Server and ThreadStart: what ThreadStart promises    *)
(* about the indices still holds while the workers run, and what Server    *)
(* promises about statistics and children still holds while main           *)
(* initialises them under the feet of workers that already run.            *)
(***************************************************************************)
EXTENDS Pool, ServerProofs

-----------------------------------------------------------------------------
(* The creation loop of main, with threads that start at any later time.   *)

\* The loop variable only passes over workers that exist, and has passed over
\* every worker that can read it, or stands at it.
LoopInv ==
  /\ TS!TypeOK
  /\ main \in {"init_lock", "create", "init_stat"} => t < asked
  /\ \A w \in created : w <= t
  /\ main \in {"loop", "init_lock", "create"} => \A w \in created : w < t

LEMMA LoopInvariance == TS!Spec => [](LoopInv /\ TS!IndexBounds)
<1> USE AskedAssumption DEF TS!ThreadsAssumption
<1> DEFINE IInv == LoopInv /\ TS!IndexBounds
<1>1. TS!Init => IInv
  BY DEF TS!Init, LoopInv, TS!TypeOK, TS!IndexBounds, TS!UNREAD, TS!Worker
<1>2. IInv /\ [TS!Next]_(TS!vars) => IInv'
  <2> SUFFICES ASSUME IInv, [TS!Next]_(TS!vars) PROVE IInv'
    OBVIOUS
  <2>0. PICK n \in Nat : n = asked
    OBVIOUS
  <2> USE <2>0 DEF LoopInv, TS!TypeOK, TS!IndexBounds, TS!Worker, TS!UNREAD
  <2> HIDE AskedAssumption DEF asked
  <2>1. CASE TS!LoopTest
    BY <2>1 DEF TS!LoopTest
  <2>2. CASE TS!CreateThread
    BY <2>2 DEF TS!CreateThread
  <2>3. CASE TS!InitStat
    BY <2>3 DEF TS!InitStat
  <2>4. ASSUME NEW w \in TS!Worker, TS!ReadIndex(w) PROVE IInv'
    <3>1. t \in w..asked
      BY <2>4 DEF TS!ReadIndex
    <3> QED  BY <2>4, <3>1 DEF TS!ReadIndex
  <2>5. CASE TS!InitLock
    BY <2>5 DEF TS!InitLock
  <2>6. CASE UNCHANGED TS!vars
    BY <2>6 DEF TS!vars
  <2> QED  BY <2>1, <2>2, <2>3, <2>4, <2>5, <2>6 DEF TS!Next
<1> QED  BY <1>1, <1>2, PTL DEF TS!Spec

\* Whatever the moment at which worker w reads its argument (server.c 216),
\* the index is between w and max_threads.
THEOREM IndexBoundsHold == TS!Spec => []TS!IndexBounds
BY LoopInvariance, PTL

\* main's loop and the workers' first statements, among all else that the server
\* does, are steps of ThreadStart (server.c 216, 268-285).
THEOREM PoolStartsThreads == PoolSpec => TS!Spec
<1>1. PoolInit => TS!Init
  BY DEF PoolInit
<1>2. [PoolNext]_poolvars => [TS!Next]_(TS!vars)
  <2> SUFFICES ASSUME [PoolNext]_poolvars PROVE TS!Next \/ UNCHANGED pool
    BY DEF pool, TS!vars
  <2>1. CASE MainLoop
    BY <2>1 DEF MainLoop, LoopTest, InitLock, CreateThread, InitStat, TS!Next
  <2>2. ASSUME NEW w \in TS!Worker, ReadIndex(w) PROVE TS!Next
    BY <2>2 DEF ReadIndex, TS!Next
  <2>3. CASE \/ CreateFails \/ Overwritten \/ SpoilHeap
             \/ AcceptStep \/ InAcceptLoop \/ Environment
    BY <2>3 DEF CreateFails, Overwritten, SpoilHeap, AcceptStep, InAcceptLoop, Environment
  <2>4. ASSUME NEW w \in Worker, StartedStep(w) PROVE UNCHANGED pool
    BY <2>4 DEF StartedStep
  <2>5. CASE UNCHANGED poolvars
    BY <2>5 DEF poolvars
  <2> QED  BY <2>1, <2>2, <2>3, <2>4, <2>5 DEF PoolNext
<1> QED  BY <1>1, <1>2, PTL DEF PoolSpec, TS!Spec

\* In the running server too a worker's index is between its own place and
\* max_threads (server.c 216).
THEOREM PoolIndexBounds == PoolSpec => []IndexBounds
BY PoolStartsThreads, IndexBoundsHold, PTL DEF IndexBounds

-----------------------------------------------------------------------------
(* main's loop beside the workers.                                         *)

\* The steps that move nobody in the server: it ends, or a sleeper is woken.
NobodyActs == UNCHANGED <<pc, th_index, mem, lock, stat, reg, cgi, reinit>>

LEMMA PoolSteps ==
  ASSUME [PoolNext]_poolvars
  PROVE  \/ ((main = "accept" /\ Accept) \/ MasterStep) /\ UNCHANGED <<pool, reinit>>
         \/ \E w \in Worker : Started(w) /\ WorkerStep(w) /\ UNCHANGED <<pool, reinit>>
         \/ ChildExits /\ UNCHANGED <<pool, reinit>>
         \/ NobodyActs /\ (UNCHANGED pool \/ TS!LoopTest \/ TS!CreateThread)
         \/ InitLock \/ InitStat \/ Overwritten
         \/ \E w \in TS!Worker : ReadIndex(w)
<1>1. CASE MainLoop
  BY <1>1 DEF MainLoop, LoopTest, CreateThread, vars, sync, local, NobodyActs
<1>2. CASE CreateFails \/ SpoilHeap
  BY <1>2 DEF CreateFails, SpoilHeap, Down, sync, local, NobodyActs
<1>3. ASSUME NEW w \in Worker, (w \in TS!Worker /\ ReadIndex(w)) \/ StartedStep(w)
      PROVE  \/ \E v \in Worker : Started(v) /\ WorkerStep(v) /\ UNCHANGED <<pool, reinit>>
             \/ \E v \in TS!Worker : ReadIndex(v)
  BY <1>3 DEF StartedStep
<1>4. CASE AcceptStep \/ InAcceptLoop
  BY <1>4 DEF AcceptStep, MayAccept, InAcceptLoop
<1>5. CASE Environment
  BY <1>5 DEF Environment, SpuriousWakeup, Segv, Down, sync, local, NobodyActs
<1>6. CASE UNCHANGED poolvars
  BY <1>6 DEF poolvars, vars, sync, local, NobodyActs
<1> QED  BY <1>1, <1>2, <1>3, <1>4, <1>5, <1>6 DEF PoolNext

LEMMA LoopInvHolds == PoolSpec => []LoopInv
BY PoolStartsThreads, LoopInvariance, PTL

LEMMA OwnSlots == /\ OwnSlot \in SUBSET Slot /\ {} \in SUBSET Slot
                  /\ asked \in Slot /\ asked \notin OwnSlot /\ asked # mutex
BY AskedAssumption, ServerAssumption DEF TS!ThreadsAssumption, asked, Slot, OwnSlot, mutex

LEMMA SlotOfLoop ==
  /\ LoopInv => t \in Slot
  /\ LoopInv /\ main \in {"init_lock", "init_stat"} => t \in OwnSlot
BY AskedAssumption, ServerAssumption
DEF LoopInv, TS!TypeOK, TS!ThreadsAssumption, asked, Slot, OwnSlot

-----------------------------------------------------------------------------
(* Before main accepts, workers only lock, test and sleep.                 *)

Zero == [count |-> 0, static |-> 0, dynamic |-> 0]

Typed == SlotInv({})     \* the types alone
LEMMA TypedMeans == Typed <=> SlotTypes
BY DEF Typed, SlotInv, HoldsSlot, Fresh, Balanced

Idle == {"lock", "check", "sleep", "blocked"}

\* Nothing was accepted, so no worker finds a request and counts it.
NothingServed ==
  main # "accept" =>
    /\ pc[master] = "accept" /\ mem.buffer_wait_num = 0
    /\ \A w \in Worker : pc[w] \in Idle
    /\ \A s \in OwnSlot : stat[s] = Zero

Unstarted == \A w \in Worker : ~Started(w) => pc[w] = "lock"

QuietInv == LoopInv /\ Typed /\ NothingServed /\ Unstarted

LEMMA InitPoolSlots ==
  ASSUME PoolInit
  PROVE  SlotInv(OwnSlot) /\ Typed /\ \A s \in OwnSlot : stat[s] = Zero
<1>1. PICK b \in Behind : InitWith([FreeLocks EXCEPT ![asked] = b.word],
                                   [NoRequests EXCEPT ![asked] = b.stat])
  BY DEF PoolInit
<1> DEFINE locks == [FreeLocks EXCEPT ![asked] = b.word]
           stats == [NoRequests EXCEPT ![asked] = b.stat]
<1>2. /\ b.word \in Thread \cup {NULL}
      /\ b.stat \in [count : Nat, static : Nat, dynamic : Nat]
  BY AskedAssumption, MasterIsThread
<1>3. locks \in [Slot \cup {mutex} -> Thread \cup {NULL}]
  BY <1>2, OwnSlots DEF FreeLocks
<1>4. stats \in [Slot -> [count : Nat, static : Nat, dynamic : Nat]]
  BY <1>2, OwnSlots DEF NoRequests
<1>5. \A s \in OwnSlot : stats[s] = Zero
  BY OwnSlots DEF NoRequests, Zero
<1>6. \A s \in OwnSlot : stats[s].count = stats[s].static + stats[s].dynamic
  BY <1>5 DEF Zero
<1>7. stat = stats /\ InitWith(locks, stats)
  BY <1>1 DEF InitWith
<1> HIDE DEF locks, stats
<1>8. SlotInv(OwnSlot)
  BY <1>3, <1>4, <1>6, <1>7, InitSlotInv, OwnSlots
<1>9. Typed
  BY <1>8, TypedMeans DEF SlotInv
<1> QED  BY <1>5, <1>7, <1>8, <1>9

LEMMA InitQuietInv == PoolInit => QuietInv
<1> SUFFICES ASSUME PoolInit PROVE QuietInv
  OBVIOUS
<1>1. Typed /\ \A s \in OwnSlot : stat[s] = Zero
  BY InitPoolSlots
<1>2. LoopInv
  BY AskedAssumption DEF PoolInit, TS!Init, LoopInv, TS!TypeOK, TS!ThreadsAssumption, TS!Worker
<1>3. /\ pc[master] = "accept" /\ mem.buffer_wait_num = 0
      /\ \A w \in Worker : pc[w] = "lock"
  BY MasterIsThread, WorkerIsNotMaster DEF PoolInit, InitWith
<1> QED  BY <1>1, <1>2, <1>3 DEF QuietInv, NothingServed, Unstarted, Idle

\* A worker that only locks, tests and sleeps leaves the rest alone.
LEMMA IdleWorker ==
  ASSUME Typed, NEW w \in Worker, pc[w] \in Idle, mem.buffer_wait_num = 0, WorkerStep(w)
  PROVE  UNCHANGED <<mem, stat>> /\ pc'[w] \in Idle
<1>1. ~HandleRequest(w) /\ ~SignalNotFull(w) /\ ~UnlockSlot(w)
  BY DEF Idle, HandleRequest, SignalNotFull, UnlockSlot, Unlock, Peek, PopTest, PopLoad1,
         PopLoad2, PopStore, PopEmpty, PopTail, Count, CountKind, LoadStat, StoreStat,
         HistInc, WorkInc, WaitDec, ServeStatic, ServeDynamic, ServeFails, Reap, Close,
         CloseAgain, WorkDec, Bump, Load, Store, Branch, Step, At
<1>2. DOMAIN pc = Thread
  BY TypedMeans DEF SlotTypes
<1> QED
  BY <1>1, <1>2, WorkerIsNotMaster
  DEF Idle, WorkerStep, LockSlot, CheckEmpty, WaitNotEmpty, WorkerAwake, Lock, Branch,
      Step, Goto, At

\* A worker's step is the step of one thread; it leaves the statistics alone or
\* is the store of an increment.
LEMMA WorkerCounts ==
  ASSUME SlotTypes, NEW w \in Worker, WorkerStep(w)
  PROVE  /\ \A v \in Thread : v # w => pc'[v] = pc[v]
         /\ \/ stat' = stat
            \/ StoreStat(w, "count_st", "count_kind", "count")
            \/ StoreStat(w, "static_st", "hist_inc", "static")
            \/ StoreStat(w, "dynamic_st", "hist_inc", "dynamic")
<1>1. ASSUME NEW from, NEW to, Step(w, from, to)
      PROVE  \A v \in Thread : v # w => pc'[v] = pc[v]
  BY <1>1 DEF SlotTypes, Step, Goto
<1>2. CASE ServeFails(w) \/ CloseAgain(w)
  BY <1>2 DEF ServeFails, CloseAgain, Down
<1>3. CASE Count(w) \/ CountKind(w)
  BY <1>1, <1>3 DEF Count, CountKind, LoadStat, StoreStat, Load
<1>4. CASE LockSlot(w) \/ CheckEmpty(w) \/ WaitNotEmpty(w) \/ WorkerAwake(w)
           \/ SignalNotFull(w) \/ UnlockSlot(w)
  BY <1>1, <1>4
  DEF LockSlot, CheckEmpty, WaitNotEmpty, WorkerAwake, SignalNotFull, UnlockSlot, Lock,
      Unlock, Branch
<1>5. CASE Peek(w) \/ PopTest(w) \/ PopLoad1(w) \/ PopLoad2(w) \/ PopStore(w)
           \/ PopEmpty(w) \/ PopTail(w)
  BY <1>1, <1>5
  DEF Peek, PopTest, PopLoad1, PopLoad2, PopStore, PopEmpty, PopTail, Load, Store, Branch
<1>6. CASE HistInc(w) \/ WorkInc(w) \/ WaitDec(w) \/ WorkDec(w)
  BY <1>1, <1>6 DEF HistInc, WorkInc, WaitDec, WorkDec, Bump, Load, Store
<1>7. CASE ServeStatic(w) \/ ServeDynamic(w) \/ Reap(w) \/ Close(w)
  BY <1>1, <1>7 DEF ServeStatic, ServeDynamic, Reap, Close
<1> QED
  BY <1>2, <1>3, <1>4, <1>5, <1>6, <1>7 DEF WorkerStep, HandleRequest

\* Where the lock admits one worker at a time, no store of a count is late.
LEMMA CountsGrow ==
  ASSUME SlotInv(OwnSlot), NEW w \in Worker, WorkerStep(w), NEW s \in OwnSlot
  PROVE  stat'[s].count >= stat[s].count
<1>1. SlotTypes /\ Fresh(OwnSlot) /\ s \in Slot
  BY OwnSlots DEF SlotInv
<1>2. /\ stat[s] \in [count : Nat, static : Nat, dynamic : Nat]
      /\ th_index[w] \in Slot /\ stat[th_index[w]] \in [count : Nat, static : Nat, dynamic : Nat]
  BY <1>1 DEF SlotTypes
<1>3. CASE StoreStat(w, "count_st", "count_kind", "count")
  <2>1. stat' = [stat EXCEPT ![th_index[w]].count = reg[w] + 1] /\ pc[w] = "count_st"
    BY <1>3 DEF StoreStat, Step, At
  <2>2. th_index[w] = s => reg[w] = stat[s].count
    BY <1>1, <2>1 DEF Fresh
  <2> QED  BY <1>1, <1>2, <2>1, <2>2 DEF SlotTypes
<1>4. ASSUME NEW from, NEW x \in {"static", "dynamic"}, StoreStat(w, from, "hist_inc", x)
      PROVE  stat'[s].count >= stat[s].count
  <2>1. stat' = [stat EXCEPT ![th_index[w]] = [stat[th_index[w]] EXCEPT ![x] = reg[w] + 1]]
    BY <1>4 DEF StoreStat
  <2>2. [stat[th_index[w]] EXCEPT ![x] = reg[w] + 1].count = stat[th_index[w]].count
    BY <1>2
  <2>3. stat'[s].count = stat[s].count
    BY <1>1, <1>2, <2>1, <2>2 DEF SlotTypes
  <2> QED  BY <1>2, <2>3
<1>5. CASE stat' = stat
  BY <1>2, <1>5
<1> QED  BY <1>1, <1>3, <1>4, <1>5, WorkerCounts

\* main's statistics are set to 0 where nobody has counted yet.
LEMMA InitStatIsIdle ==
  ASSUME QuietInv, InitStat
  PROVE  stat' = stat
<1>1. main # "accept" /\ t \in OwnSlot
  BY SlotOfLoop DEF InitStat, TS!InitStat, QuietInv
<1>2. stat[t] = Zero
  BY <1>1 DEF QuietInv, NothingServed
<1>3. stat' = [stat EXCEPT ![t] = Zero]
  BY DEF InitStat, Zero
<1> QED  BY <1>1, <1>2, <1>3, TypedMeans DEF QuietInv, SlotTypes

\* The slot behind the arrays is none of those main initialises.
LEMMA OverwrittenKeeps ==
  ASSUME Overwritten, NEW S \in SUBSET OwnSlot, SlotInv(S)
  PROVE  SlotInv(S)' /\ \A s \in OwnSlot : stat'[s] = stat[s]
<1>1. PICK b \in Behind : /\ lock' = [lock EXCEPT ![asked] = b.word]
                          /\ stat' = [stat EXCEPT ![asked] = b.stat]
  BY DEF Overwritten
<1>2. /\ b.word \in Thread \cup {NULL}
      /\ b.stat \in [count : Nat, static : Nat, dynamic : Nat]
  BY AskedAssumption, MasterIsThread
<1>3. UNCHANGED <<pc, th_index, reg>>
  BY DEF Overwritten, local
<1>4. \A s \in OwnSlot : s \in Slot /\ lock'[s] = lock[s] /\ stat'[s] = stat[s]
  BY <1>1, OwnSlots DEF SlotInv, SlotTypes
<1>5. SlotTypes'
  <2>1. lock' \in [Slot \cup {mutex} -> Thread \cup {NULL}]
    BY <1>1, <1>2 DEF SlotInv, SlotTypes
  <2>2. stat' \in [Slot -> [count : Nat, static : Nat, dynamic : Nat]]
    BY <1>1, <1>2 DEF SlotInv, SlotTypes
  <2> QED  BY <1>3, <2>1, <2>2 DEF SlotInv, SlotTypes
<1>6. HoldsSlot(S)' /\ Fresh(S)'
  BY <1>3, <1>4 DEF SlotInv, HoldsSlot, Fresh, Inside
<1>7. Balanced(S)'
  BY <1>3, <1>4 DEF SlotInv, Balanced, Counting
<1> QED  BY <1>4, <1>5, <1>6, <1>7 DEF SlotInv

\* A worker is not in its lock before it read its index.
LEMMA ReadIndexKeepsSlots ==
  ASSUME NEW S \in SUBSET Slot, SlotInv(S), LoopInv, Unstarted,
         NEW w \in TS!Worker, ReadIndex(w)
  PROVE  SlotInv(S)'
<1>1. /\ th_index' = [th_index EXCEPT ![w] = t] /\ t \in Slot
      /\ UNCHANGED <<pc, lock, stat, reg>> /\ ~Started(w)
  BY SlotOfLoop DEF ReadIndex, TS!ReadIndex, sync, local, Started, UNREAD
<1>2. w \in Worker => pc[w] = "lock"
  BY <1>1 DEF Unstarted
<1>3. \A v \in Worker : /\ Inside(v)' = Inside(v) /\ Counting(v)' = Counting(v)
                        /\ Inside(v) => v # w /\ th_index'[v] = th_index[v]
                        /\ pc[v] \in StatLoaded \/ Counting(v) => Inside(v)
  BY <1>1, <1>2 DEF Inside, Counting, StatLoaded, SlotInv, SlotTypes
<1>4. SlotTypes'
  BY <1>1 DEF SlotInv, SlotTypes
<1>5. HoldsSlot(S)'
  BY <1>1, <1>3 DEF SlotInv, HoldsSlot
<1>6. Balanced(S)'
  BY <1>1, <1>3 DEF SlotInv, SlotTypes, Balanced
<1>7. Fresh(S)'
  BY <1>1, <1>3 DEF SlotInv, Fresh, StatLoaded
<1> QED  BY <1>4, <1>5, <1>6, <1>7 DEF SlotInv

LEMMA TypedStep == QuietInv /\ [PoolNext]_poolvars => Typed'
<1> SUFFICES ASSUME QuietInv, [PoolNext]_poolvars PROVE Typed'
  OBVIOUS
<1>0. LoopInv /\ SlotInv({}) /\ Unstarted /\ SlotTypes /\ {} \in SUBSET OwnSlot
  BY TypedMeans DEF QuietInv, Typed
<1> USE OwnSlots DEF Typed
<1>1. CASE Accept \/ MasterStep \/ ChildExits \/ \E w \in Worker : WorkerStep(w)
  BY <1>0, <1>1, NextSlotInv DEF Next
<1>2. CASE NobodyActs
  BY <1>0, <1>2, NobodyMoves DEF NobodyActs
<1>3. CASE InitLock
  <2>1. SlotTypes'
    BY <1>0, <1>3, SlotOfLoop DEF InitLock, TS!InitLock, SlotTypes, local
  <2> QED  BY <2>1, TypedMeans DEF SlotInv, HoldsSlot, Fresh, Balanced
<1>4. CASE InitStat
  BY <1>0, <1>4, InitStatIsIdle, NobodyMoves DEF InitStat, sync, local
<1>5. CASE Overwritten
  BY <1>0, <1>5, OverwrittenKeeps
<1>6. ASSUME NEW w \in TS!Worker, ReadIndex(w) PROVE Typed'
  BY <1>0, <1>6, ReadIndexKeepsSlots
<1> QED  BY <1>1, <1>2, <1>3, <1>4, <1>5, <1>6, PoolSteps

LEMMA QuietInvStep == QuietInv /\ LoopInv' /\ [PoolNext]_poolvars => QuietInv'
<1> SUFFICES ASSUME QuietInv, LoopInv', [PoolNext]_poolvars PROVE QuietInv'
  OBVIOUS
<1>0. LoopInv /\ Typed /\ NothingServed /\ Unstarted /\ SlotTypes /\ DOMAIN pc = Thread
  BY TypedMeans DEF QuietInv, SlotTypes
<1>t. Typed'
  BY TypedStep
<1>1. CASE ((main = "accept" /\ Accept) \/ MasterStep) /\ UNCHANGED <<pool, reinit>>
  <2>1. main = "accept"
    BY <1>0, <1>1
    DEF NothingServed, MasterStep, QueuePush, LockMutex, CheckWork, CheckWait, WaitNotFull,
        MasterAwake, SignalNotEmpty, UnlockMutex, WaitInc, Bump, PreProcess, PreProcessFails,
        FifoTail, FifoLink, FifoTail2, FifoNext, FifoSetTail, WalkNext, WalkSize, WalkOn,
        SffNext, SffLink, SffNext2, SffLast, SffNext3, SffSetTail, Lock, Unlock, Load,
        Store, Branch, Step, At
  <2>2. \A w \in Worker : pc'[w] = pc[w]
    BY <1>0, <1>1, MasterAlone
  <2>3. NothingServed' /\ Unstarted'
    BY <1>0, <1>1, <2>1, <2>2 DEF NothingServed, Unstarted, pool, Started
  <2> QED  BY <1>t, <2>3 DEF QuietInv
<1>2. ASSUME NEW w \in Worker, Started(w), WorkerStep(w), UNCHANGED <<pool, reinit>>
      PROVE  QuietInv'
  <2>1. \A v \in Thread : v # w => pc'[v] = pc[v]
    BY <1>0, <1>2, WorkerCounts
  <2>2. NothingServed'
    <3> SUFFICES ASSUME main # "accept" PROVE NothingServed'
      BY <1>2 DEF NothingServed, pool
    <3>1. UNCHANGED <<mem, stat>> /\ pc'[w] \in Idle
      BY <1>0, <1>2, IdleWorker DEF NothingServed
    <3> QED  BY <1>0, <2>1, <3>1, WorkerIsNotMaster, MasterIsThread DEF NothingServed
  <2>3. Unstarted'
    BY <1>0, <1>2, <2>1, WorkerIsNotMaster DEF Unstarted, Started, pool
  <2> QED  BY <1>t, <2>2, <2>3 DEF QuietInv
<1>3. ASSUME pc' = pc, \A s \in OwnSlot : stat'[s] = stat[s],
             mem'.buffer_wait_num = mem.buffer_wait_num, index' = index,
             main' # "accept" => main # "accept"
      PROVE  QuietInv'
  <2>1. NothingServed' /\ Unstarted'
    BY <1>0, <1>3 DEF NothingServed, Unstarted, Started
  <2> QED  BY <1>t, <2>1 DEF QuietInv
<1>4. CASE ChildExits /\ UNCHANGED <<pool, reinit>>
  BY <1>3, <1>4 DEF ChildExits, pool
<1>5. CASE NobodyActs /\ (UNCHANGED pool \/ TS!LoopTest \/ TS!CreateThread)
  BY <1>3, <1>5 DEF NobodyActs, pool, TS!LoopTest, TS!CreateThread
<1>6. CASE InitLock
  BY <1>3, <1>6 DEF InitLock, TS!InitLock
<1>7. CASE InitStat
  <2>1. stat' = stat
    BY <1>7, InitStatIsIdle
  <2> QED  BY <1>3, <1>7, <2>1 DEF InitStat, TS!InitStat
<1>8. CASE Overwritten
  <2>1. \A s \in OwnSlot : stat'[s] = stat[s]
    BY <1>0, <1>8, OverwrittenKeeps DEF Typed
  <2> QED  BY <1>3, <1>8, <2>1 DEF Overwritten, pool
<1>9. ASSUME NEW w \in TS!Worker, ReadIndex(w) PROVE QuietInv'
  <2>1. /\ t \in Slot /\ UNCHANGED <<pc, mem, stat, main>> /\ index' = [index EXCEPT ![w] = t]
        /\ index \in [TS!Worker -> {TS!UNREAD} \cup 0..asked]
    BY <1>0, <1>9, SlotOfLoop DEF ReadIndex, TS!ReadIndex, LoopInv, TS!TypeOK
  <2>2. NothingServed'
    BY <1>0, <2>1 DEF NothingServed
  <2>3. Unstarted'
    <3>1. t # UNREAD
      BY <2>1 DEF Slot, UNREAD, TS!UNREAD
    <3> QED  BY <1>0, <2>1, <3>1 DEF Unstarted, Started
  <2> QED  BY <1>t, <2>2, <2>3 DEF QuietInv
<1> QED  BY <1>1, <1>2, <1>4, <1>5, <1>6, <1>7, <1>8, <1>9, PoolSteps

LEMMA QuietInvHolds == PoolSpec => []QuietInv
BY InitQuietInv, QuietInvStep, LoopInvHolds, PTL DEF PoolSpec

-----------------------------------------------------------------------------
(* Statistics and children in the running pool.                            *)

SlotsUnlessReinit == ~reinit => SlotInv(OwnSlot)

LEMMA ReinitStays == QuietInv /\ [PoolNext]_poolvars /\ ~reinit' => ~reinit
<1> SUFFICES ASSUME [PoolNext]_poolvars, ~reinit' PROVE ~reinit
  OBVIOUS
<1>1. InitLock \/ InitStat \/ Overwritten => ~reinit
  BY DEF InitLock, InitStat, Overwritten
<1>2. NobodyActs => ~reinit
  BY DEF NobodyActs
<1>3. \A w \in TS!Worker : ReadIndex(w) => ~reinit
  BY DEF ReadIndex
<1> QED  BY <1>1, <1>2, <1>3, PoolSteps

LEMMA SlotsUnlessReinitStep ==
  SlotsUnlessReinit /\ QuietInv /\ [PoolNext]_poolvars => SlotsUnlessReinit'
<1> SUFFICES ASSUME SlotsUnlessReinit, QuietInv, [PoolNext]_poolvars, ~reinit'
             PROVE  SlotInv(OwnSlot)'
  BY DEF SlotsUnlessReinit
<1>1. ~reinit /\ SlotInv(OwnSlot)
  BY ReinitStays DEF SlotsUnlessReinit
<1> USE OwnSlots
<1>2. CASE Accept \/ MasterStep \/ ChildExits \/ \E w \in Worker : WorkerStep(w)
  BY <1>1, <1>2, NextSlotInv DEF Next
<1>3. CASE NobodyActs
  BY <1>1, <1>3, NobodyMoves DEF NobodyActs
<1>4. CASE InitLock
  <2>1. lock[t] = NULL /\ lock' = [lock EXCEPT ![t] = NULL]
    BY <1>4 DEF InitLock
  <2>2. lock' = lock
    BY <1>1, <2>1 DEF SlotInv, SlotTypes
  <2> QED  BY <1>1, <1>4, <2>2, NobodyMoves DEF InitLock, local
<1>5. CASE InitStat
  BY <1>1, <1>5, InitStatIsIdle, NobodyMoves DEF InitStat, sync, local
<1>6. CASE Overwritten
  BY <1>1, <1>6, OverwrittenKeeps
<1>7. ASSUME NEW w \in TS!Worker, ReadIndex(w) PROVE SlotInv(OwnSlot)'
  BY <1>1, <1>7, ReadIndexKeepsSlots DEF QuietInv
<1> QED  BY <1>2, <1>3, <1>4, <1>5, <1>6, <1>7, PoolSteps

LEMMA SlotsUnlessReinitHolds == PoolSpec => []SlotsUnlessReinit
<1>1. PoolInit => SlotsUnlessReinit
  BY InitPoolSlots DEF SlotsUnlessReinit
<1> QED  BY <1>1, SlotsUnlessReinitStep, QuietInvHolds, PTL DEF PoolSpec

\* No count of a slot of the arrays ever falls: main clears the statistics
\* (server.c 276-279) while workers may already run, but never after something
\* was counted, and no increment (server.c 192-196) stores what is out of date,
\* unless pthread_mutex_init hits a lock that a worker holds.
THEOREM CountsKeptHolds == PoolSpec => CountsKept
<1>1. QuietInv /\ SlotsUnlessReinit /\ [PoolNext]_poolvars
        => [~reinit' => \A s \in OwnSlot : stat'[s].count >= stat[s].count]_poolvars
  <2> SUFFICES ASSUME QuietInv, SlotsUnlessReinit, [PoolNext]_poolvars, ~reinit',
                      NEW s \in OwnSlot
               PROVE  stat'[s].count >= stat[s].count
    OBVIOUS
  <2>0. SlotInv(OwnSlot) /\ DOMAIN pc = Thread /\ stat[s].count \in Nat
    BY ReinitStays, OwnSlots DEF SlotsUnlessReinit, SlotInv, SlotTypes
  <2>1. CASE stat'[s] = stat[s]
    BY <2>0, <2>1
  <2>2. ASSUME NEW w \in Worker, WorkerStep(w) PROVE stat'[s].count >= stat[s].count
    BY <2>0, <2>2, CountsGrow
  <2>3. Accept \/ MasterStep => stat' = stat
    BY <2>0, MasterAlone
  <2>4. InitStat => stat' = stat
    BY InitStatIsIdle
  <2>5. Overwritten => stat'[s] = stat[s]
    BY <2>0, OverwrittenKeeps, OwnSlot \in SUBSET OwnSlot
  <2> QED
    BY <2>1, <2>2, <2>3, <2>4, <2>5, PoolSteps DEF ChildExits, NobodyActs, InitLock, ReadIndex
<1> QED  BY <1>1, QuietInvHolds, SlotsUnlessReinitHolds, PTL DEF PoolSpec, CountsKept

\* The statistics a response reports add up although main initialises locks and
\* statistics while workers run (server.c 271-279), unless pthread_mutex_init
\* hits a lock that a worker holds or the worker's slot is behind the arrays.
THEOREM AddUpUnlessReinitHolds == PoolSpec => []AddUpUnlessReinit
<1>1. SlotsUnlessReinit => AddUpUnlessReinit
  BY SlotInvAddsUp, OwnSlots DEF SlotsUnlessReinit, AddUpUnlessReinit
<1> QED  BY <1>1, SlotsUnlessReinitHolds, PTL

\* Also while main still creates workers every worker in Wait(NULL) is owed a
\* child (request.c 119-126).
THEOREM PoolChildrenMatch == PoolSpec => []ChildrenMatchWaiters
<1>1. PoolInit => ChildInv
  BY InitChildInv DEF PoolInit
<1>2. ChildInv /\ [PoolNext]_poolvars => ChildInv'
  <2> SUFFICES ASSUME ChildInv, [PoolNext]_poolvars PROVE ChildInv'
    OBVIOUS
  <2>1. CASE Accept \/ MasterStep \/ ChildExits \/ \E w \in Worker : WorkerStep(w)
    BY <2>1, NextChildInv DEF Next
  <2>2. CASE UNCHANGED <<pc, cgi>>
    BY <2>2, ChildrenStay DEF ChildInv
  <2> QED  BY <2>1, <2>2, PoolSteps DEF NobodyActs, InitLock, InitStat, Overwritten, ReadIndex
<1> QED  BY <1>1, <1>2, ChildInvMatches, PTL DEF PoolSpec
=============================================================================
