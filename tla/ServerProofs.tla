----------------------------- MODULE ServerProofs -----------------------------
(***************************************************************************)
(* Proofs about the server, for any number of workers and connections and  *)
(* each policy.  First, what the workers' own locks are worth: a slot's    *)
(* lock admits one worker at a time, and the statistics of the slot add up *)
(* whenever a response can report them.  Then what holds of the list,      *)
(* which no common lock protects, and last what a server with one worker   *)
(* and one connection at a time promises beyond that.                      *)
(***************************************************************************)
EXTENDS Server, FiniteSetTheorems, WellFoundedInduction, TLAPS

-----------------------------------------------------------------------------
(* The slots: locks and statistics.                                        *)

\* A worker between pthread_mutex_lock and pthread_mutex_unlock, not asleep.
Inside(w) == pc[w] \notin {"lock", "blocked"}

\* A worker that loaded a statistic of its slot and is about to store it.
StatLoaded == {"count_st", "static_st", "dynamic_st"}

SlotTypes ==
  /\ DOMAIN pc = Thread /\ DOMAIN reg = Thread
  /\ th_index \in [Worker -> Slot]
  /\ lock \in [Slot \cup {mutex} -> Thread \cup {NULL}]
  /\ stat \in [Slot -> [count : Nat, static : Nat, dynamic : Nat]]
  /\ \A w \in Worker : pc[w] \in StatLoaded => reg[w] \in Nat

\* What follows holds of the slots S that nobody but the workers changes: all of
\* them here, those of the arrays in Pool.
HoldsSlot(S) ==
  \A w \in Worker : th_index[w] \in S /\ Inside(w) => lock[th_index[w]] = w

\* One worker at a time is inside with a given index.
SlotExclusion(S) ==
  \A v, w \in Worker :
    th_index[v] \in S /\ Inside(v) /\ Inside(w) /\ th_index[v] = th_index[w] => v = w

\* What was loaded is still what the slot says.
Fresh(S) ==
  \A w \in Worker : th_index[w] \in S =>
    /\ pc[w] = "count_st" => reg[w] = stat[th_index[w]].count
    /\ pc[w] = "static_st" => reg[w] = stat[th_index[w]].static
    /\ pc[w] = "dynamic_st" => reg[w] = stat[th_index[w]].dynamic

\* A worker that counted its request but not its kind accounts for the
\* difference of its slot, and nobody else does.
Counting(w) == pc[w] \in {"count_kind", "static_st", "dynamic_st"}

Balanced(S) ==
  \A s \in S :
    /\ \A w \in Worker : th_index[w] = s /\ Counting(w)
                           => stat[s].count = stat[s].static + stat[s].dynamic + 1
    /\ (\A w \in Worker : th_index[w] = s => ~Counting(w))
         => stat[s].count = stat[s].static + stat[s].dynamic

SlotInv(S) == SlotTypes /\ HoldsSlot(S) /\ Fresh(S) /\ Balanced(S)

-----------------------------------------------------------------------------
LEMMA InitSlotInv ==
  ASSUME NEW S \in SUBSET Slot, NEW locks, NEW stats, InitWith(locks, stats),
         locks \in [Slot \cup {mutex} -> Thread \cup {NULL}],
         stats \in [Slot -> [count : Nat, static : Nat, dynamic : Nat]],
         \A s \in S : stats[s].count = stats[s].static + stats[s].dynamic
  PROVE  SlotInv(S)
<1>1. th_index \in [Worker -> Slot]
    BY ServerAssumption DEF InitWith
<1>2. \A w \in Worker : pc[w] = "lock"
    BY DEF InitWith, Thread, Worker, master
<1>3. SlotTypes
  <2>1. DOMAIN pc = Thread /\ DOMAIN reg = Thread
    <3>1. /\ pc = [t \in Thread |-> IF t = master THEN "accept" ELSE "lock"]
          /\ reg = [t \in Thread |-> 0]
        BY DEF InitWith
    <3>2. QED
        BY <3>1
  <2>2. QED
      BY <1>1, <1>2, <2>1 DEF SlotTypes, InitWith, StatLoaded
<1>4. HoldsSlot(S) /\ Fresh(S)
    BY <1>2 DEF HoldsSlot, Fresh, Inside
<1>5. Balanced(S)
    BY <1>2 DEF InitWith, Balanced, Counting
<1>6. QED
    BY <1>3, <1>4, <1>5 DEF SlotInv

LEMMA InitSlots == Init => SlotInv(Slot)
<1> SUFFICES ASSUME Init PROVE SlotInv(Slot)
    OBVIOUS
<1>1. /\ FreeLocks \in [Slot \cup {mutex} -> Thread \cup {NULL}]
      /\ NoRequests \in [Slot -> [count : Nat, static : Nat, dynamic : Nat]]
      /\ \A s \in Slot : NoRequests[s].count = NoRequests[s].static + NoRequests[s].dynamic
    BY DEF FreeLocks, NoRequests
<1>2. QED
    BY <1>1, InitSlotInv DEF Init

\* Where taking and giving up the lock and counting begin and end.
Apart == {"lock", "blocked", "count_kind"} \cup StatLoaded

\* A step that stays on its side of the lock, takes or gives up none, and is
\* not one of the increments.
LEMMA QuietStep ==
  ASSUME NEW S \in SUBSET Slot, SlotInv(S), NEW t \in Thread, NEW from, NEW to,
         Step(t, from, to), lock' = lock, stat' = stat,
         DOMAIN reg' = Thread, \A u \in Thread : u # t => reg'[u] = reg[u],
         t \in Worker => from \notin Apart /\ to \notin Apart
  PROVE  SlotInv(S)'
<1> USE DEF SlotInv, SlotTypes
<1>1. /\ DOMAIN pc' = Thread /\ th_index' = th_index
      /\ pc[t] = from /\ pc' = [pc EXCEPT ![t] = to]
    BY DEF Step, Goto, At
<1>2. \A w \in Worker : w \in Thread /\ (pc'[w] \in Apart => w # t)
    BY <1>1 DEF Thread
<1>3. \A w \in Worker : /\ Inside(w)' = Inside(w)
                        /\ Counting(w)' = Counting(w)
    BY <1>1 DEF Inside, Counting, Thread, Apart, StatLoaded
<1>4. \A w \in Worker : pc'[w] \in StatLoaded => pc'[w] = pc[w] /\ reg'[w] = reg[w]
    BY <1>1, <1>2 DEF Apart
<1>5. SlotTypes'
    BY <1>1, <1>4
<1>6. HoldsSlot(S)' /\ Balanced(S)'
    BY <1>1, <1>3 DEF HoldsSlot, Balanced
<1>7. Fresh(S)'
    BY <1>1, <1>4 DEF Fresh, StatLoaded
<1>8. QED
    BY <1>5, <1>6, <1>7

LEMMA QuietKeep ==
  ASSUME NEW S \in SUBSET Slot, SlotInv(S), NEW t \in Thread, NEW from, NEW to,
         Step(t, from, to), lock' = lock, stat' = stat, reg' = reg,
         t \in Worker => from \notin Apart /\ to \notin Apart
  PROVE  SlotInv(S)'
BY QuietStep DEF SlotInv, SlotTypes

LEMMA QuietBranch ==
  ASSUME NEW S \in SUBSET Slot, SlotInv(S), NEW t \in Thread, NEW from, NEW yes, NEW no,
         NEW test, Branch(t, from, test, yes, no),
         t \in Worker => from \notin Apart /\ yes \notin Apart /\ no \notin Apart
  PROVE  SlotInv(S)'
<1>1. /\ Step(t, from, yes) \/ Step(t, from, no)
      /\ lock' = lock /\ stat' = stat /\ reg' = reg
    BY DEF Branch, sync, local
<1>2. QED
    BY <1>1, QuietKeep

LEMMA QuietLoad ==
  ASSUME NEW S \in SUBSET Slot, SlotInv(S), NEW t \in Thread, NEW from, NEW to, NEW value,
         Load(t, from, to, value), t \in Worker => from \notin Apart /\ to \notin Apart
  PROVE  SlotInv(S)'
<1>1. /\ Step(t, from, to) /\ lock' = lock /\ stat' = stat
      /\ DOMAIN reg' = Thread /\ \A u \in Thread : u # t => reg'[u] = reg[u]
    BY DEF Load, sync, SlotInv, SlotTypes
<1>2. QED
    BY <1>1, QuietStep

LEMMA QuietStore ==
  ASSUME NEW S \in SUBSET Slot, SlotInv(S), NEW t \in Thread, NEW from, NEW to, NEW memory,
         Store(t, from, to, memory), t \in Worker => from \notin Apart /\ to \notin Apart
  PROVE  SlotInv(S)'
<1>1. /\ Step(t, from, to) /\ lock' = lock /\ stat' = stat
      /\ DOMAIN reg' = Thread /\ \A u \in Thread : u # t => reg'[u] = reg[u]
    BY DEF Store, sync, SlotInv, SlotTypes
<1>2. QED
    BY <1>1, QuietStep

LEMMA QuietBump ==
  ASSUME NEW S \in SUBSET Slot, SlotInv(S), NEW t \in Thread, NEW from, NEW halfway, NEW to,
         NEW x, NEW d, Bump(t, from, halfway, to, x, d),
         t \in Worker => from \notin Apart /\ halfway \notin Apart /\ to \notin Apart
  PROVE  SlotInv(S)'
BY QuietLoad, QuietStore DEF Bump

\* A worker takes the lock of its slot.
LEMMA EnterStep ==
  ASSUME NEW S \in SUBSET Slot, SlotInv(S), NEW w \in Worker, NEW from,
         from \in {"lock", "blocked"}, Lock(w, from, "check", th_index[w])
  PROVE  SlotInv(S)'
<1> USE DEF SlotInv, SlotTypes
<1>1. /\ w \in Thread /\ lock[th_index[w]] = NULL
      /\ pc' = [pc EXCEPT ![w] = "check"] /\ pc[w] = from
      /\ lock' = [lock EXCEPT ![th_index[w]] = w]
      /\ UNCHANGED <<th_index, stat, reg>>
    BY DEF Lock, Step, Goto, At, Thread, local
<1>2. \A v \in Worker : /\ v \in Thread
                        /\ pc'[v] \in Apart => pc'[v] = pc[v]
                        /\ Counting(v)' = Counting(v)
    BY <1>1 DEF Counting, Thread, Apart, StatLoaded
<1>3. SlotTypes'
  <2>1. DOMAIN pc' = Thread /\ DOMAIN reg' = Thread
      BY <1>1
  <2>2. lock' \in [Slot \cup {mutex} -> Thread \cup {NULL}]
      BY <1>1
  <2>3. QED
      BY <1>1, <1>2, <2>1, <2>2 DEF Apart
<1>4. \A v \in Worker : v # w => /\ Inside(v)' = Inside(v)
                                 /\ th_index[v] \in S /\ Inside(v) => th_index[v] # th_index[w]
  <2>1. NULL \notin Worker
      BY ServerAssumption DEF Worker
  <2>2. QED
      BY <1>1, <2>1 DEF Inside, HoldsSlot, Thread
<1>5. HoldsSlot(S)'
    BY <1>1, <1>4 DEF HoldsSlot
<1>6. Balanced(S)'
    BY <1>1, <1>2 DEF Balanced
<1>7. Fresh(S)'
    BY <1>1, <1>2 DEF Fresh, Apart, StatLoaded
<1>8. QED
    BY <1>3, <1>5, <1>6, <1>7

\* A worker gives the lock up, to sleep or for good.
LEMMA LeaveStep ==
  ASSUME NEW S \in SUBSET Slot, SlotInv(S), NEW w \in Worker, NEW from, NEW to,
         Step(w, from, to), from \notin Apart, to \in {"lock", "blocked"},
         lock' = [lock EXCEPT ![th_index[w]] = NULL], stat' = stat, reg' = reg
  PROVE  SlotInv(S)'
<1> USE DEF SlotInv, SlotTypes
<1>1. /\ w \in Thread /\ pc[w] = from /\ pc' = [pc EXCEPT ![w] = to] /\ th_index' = th_index
    BY DEF Step, Goto, At, Thread
<1>2. \A v \in Worker : /\ v \in Thread
                        /\ pc'[v] \in StatLoaded => pc'[v] = pc[v]
                        /\ Counting(v)' = Counting(v)
    BY <1>1 DEF Counting, Thread, Apart, StatLoaded
<1>3. SlotTypes'
    BY <1>1, <1>2
<1>4. \A v \in Worker : th_index[v] \in S /\ Inside(v)'
                          => v # w /\ Inside(v) /\ th_index[v] # th_index[w]
    BY <1>1 DEF Inside, HoldsSlot, Thread, Apart
<1>5. HoldsSlot(S)'
    BY <1>1, <1>4 DEF HoldsSlot
<1>6. Balanced(S)'
    BY <1>1, <1>2 DEF Balanced
<1>7. Fresh(S)'
    BY <1>1, <1>2 DEF Fresh, StatLoaded
<1>8. QED
    BY <1>3, <1>5, <1>6, <1>7

LEMMA MasterApart == master \in Thread /\ master \notin Worker /\ mutex \notin Slot
BY DEF Thread, master, mutex, Worker, Slot

\* The master's lock is none of the slots'.
LEMMA MasterLockStep ==
  ASSUME NEW S \in SUBSET Slot, SlotInv(S), NEW from, NEW to, Step(master, from, to),
         NEW holder \in Thread \cup {NULL}, lock' = [lock EXCEPT ![mutex] = holder],
         stat' = stat, reg' = reg
  PROVE  SlotInv(S)'
<1> USE MasterApart DEF SlotInv, SlotTypes
<1>1. pc' = [pc EXCEPT ![master] = to] /\ th_index' = th_index
    BY DEF Step, Goto
<1>2. \A w \in Worker : pc'[w] = pc[w] /\ w \in Thread
    BY <1>1 DEF Thread
<1>3. \A s \in Slot : lock'[s] = lock[s]
    OBVIOUS
<1>4. SlotTypes'
    BY <1>1, <1>2
<1>5. HoldsSlot(S)'
    BY <1>1, <1>2, <1>3 DEF HoldsSlot, Inside
<1>6. Balanced(S)' /\ Fresh(S)'
    BY <1>1, <1>2 DEF Balanced, Counting, Fresh
<1>7. QED
    BY <1>4, <1>5, <1>6

\* A step that moves no thread.
LEMMA NobodyMoves ==
  ASSUME NEW S, SlotInv(S), UNCHANGED <<pc, th_index, lock, stat, reg>>
  PROVE  SlotInv(S)'
BY DEF SlotInv, SlotTypes, HoldsSlot, Balanced, Fresh, Inside, Counting

LEMMA ExclusionFollows == \A S : SlotInv(S) => SlotExclusion(S)
BY DEF SlotInv, HoldsSlot, SlotExclusion

\* A statistic of the worker's slot is loaded.
LEMMA LoadStatStep ==
  ASSUME NEW S \in SUBSET Slot, SlotInv(S), NEW w \in Worker,
         NEW from \in {"count", "count_kind"}, NEW to, NEW x,
         LoadStat(w, from, to, x),
         \/ from = "count" /\ to = "count_st" /\ x = "count"
         \/ from = "count_kind" /\ to = "static_st" /\ x = "static"
         \/ from = "count_kind" /\ to = "dynamic_st" /\ x = "dynamic"
  PROVE  SlotInv(S)'
<1> USE DEF SlotInv, SlotTypes
<1>1. /\ w \in Thread /\ pc[w] = from /\ pc' = [pc EXCEPT ![w] = to]
      /\ reg' = [reg EXCEPT ![w] = stat[th_index[w]][x]] /\ th_index[w] \in Slot
      /\ UNCHANGED <<th_index, lock, stat>>
    BY DEF LoadStat, Load, Step, Goto, At, Thread, sync
<1>2. \A v \in Worker : /\ v \in Thread /\ Inside(v)' = Inside(v) /\ Counting(v)' = Counting(v)
                        /\ v # w => pc'[v] = pc[v] /\ reg'[v] = reg[v]
    BY <1>1 DEF Inside, Counting, Thread
<1>3. reg'[w] = stat[th_index[w]][x] /\ reg'[w] \in Nat /\ pc'[w] = to
  <2>1. stat[th_index[w]] \in [count : Nat, static : Nat, dynamic : Nat]
      BY <1>1
  <2>2. QED
      BY <1>1, <2>1
<1>4. SlotTypes'
    BY <1>1, <1>2, <1>3
<1>5. HoldsSlot(S)' /\ Balanced(S)'
    BY <1>1, <1>2 DEF HoldsSlot, Balanced
<1>6. Fresh(S)'
  <2> SUFFICES ASSUME NEW v \in Worker, th_index[v] \in S
               PROVE  /\ pc'[v] = "count_st" => reg'[v] = stat[th_index[v]].count
                      /\ pc'[v] = "static_st" => reg'[v] = stat[th_index[v]].static
                      /\ pc'[v] = "dynamic_st" => reg'[v] = stat[th_index[v]].dynamic
      BY <1>1 DEF Fresh
  <2>1. CASE v = w
      BY <2>1, <1>3
  <2>2. CASE v # w
      BY <2>2, <1>2 DEF Fresh
  <2>3. QED
      BY <2>1, <2>2
<1>7. QED
    BY <1>4, <1>5, <1>6

\* What the store of a statistic changes and leaves alone.
StatStored(S, w, from, to, x) ==
  /\ pc[w] = from /\ pc' = [pc EXCEPT ![w] = to]
  /\ stat' = [stat EXCEPT ![th_index[w]][x] = reg[w] + 1]
  /\ UNCHANGED <<th_index, lock>> /\ SlotTypes' /\ HoldsSlot(S)' /\ Fresh(S)'
  /\ \A v \in Worker : th_index[v] \in S /\ v # w /\ th_index[v] = th_index[w] => ~Counting(v)

LEMMA StoreStatFacts ==
  ASSUME NEW S \in SUBSET Slot, SlotInv(S), NEW w \in Worker,
         NEW from \in StatLoaded, NEW to \in {"count_kind", "hist_inc"},
         NEW x \in {"count", "static", "dynamic"}, StoreStat(w, from, to, x)
  PROVE  StatStored(S, w, from, to, x)
<1> USE DEF SlotInv, SlotTypes
<1>1. /\ w \in Thread /\ pc[w] = from /\ pc' = [pc EXCEPT ![w] = to]
      /\ stat' = [stat EXCEPT ![th_index[w]][x] = reg[w] + 1]
      /\ reg' = [reg EXCEPT ![w] = 0] /\ reg[w] \in Nat /\ th_index[w] \in Slot
      /\ UNCHANGED <<th_index, lock>>
    BY DEF StoreStat, Step, Goto, At, Thread, sync
<1>2. \A v \in Worker : v # w => pc'[v] = pc[v] /\ reg'[v] = reg[v] /\ v \in Thread
    BY <1>1 DEF Thread
<1>3. pc'[w] \notin StatLoaded
    BY <1>1 DEF StatLoaded
<1>4. stat' \in [Slot -> [count : Nat, static : Nat, dynamic : Nat]]
  <2>1. stat[th_index[w]] \in [count : Nat, static : Nat, dynamic : Nat] /\ reg[w] + 1 \in Nat
      BY <1>1
  <2>2. [stat[th_index[w]] EXCEPT ![x] = reg[w] + 1] \in [count : Nat, static : Nat, dynamic : Nat]
      BY <2>1
  <2>3. stat' = [stat EXCEPT ![th_index[w]] = [stat[th_index[w]] EXCEPT ![x] = reg[w] + 1]]
      BY <1>1
  <2>4. QED
      BY <1>1, <2>2, <2>3
<1>5. SlotTypes'
    BY <1>1, <1>2, <1>3, <1>4
<1>6. \A v \in Worker : Inside(v)' = Inside(v)
    BY <1>1, <1>2 DEF Inside, StatLoaded
<1>7. HoldsSlot(S)'
    BY <1>1, <1>6 DEF HoldsSlot
<1>8. \A v \in Worker : th_index[v] \in S /\ v # w /\ th_index[v] = th_index[w]
                          => ~Counting(v) /\ pc[v] \notin StatLoaded
    BY <1>1, ExclusionFollows DEF SlotExclusion, Inside, Counting, StatLoaded
<1>9. Fresh(S)'
  <2> SUFFICES ASSUME NEW v \in Worker, th_index[v] \in S, pc'[v] \in StatLoaded
               PROVE  /\ pc'[v] = "count_st" => reg'[v] = stat'[th_index[v]].count
                      /\ pc'[v] = "static_st" => reg'[v] = stat'[th_index[v]].static
                      /\ pc'[v] = "dynamic_st" => reg'[v] = stat'[th_index[v]].dynamic
      BY <1>1 DEF Fresh, StatLoaded
  <2>1. v # w /\ pc'[v] = pc[v] /\ reg'[v] = reg[v]
      BY <1>2, <1>3
  <2>2. th_index[v] # th_index[w]
      BY <2>1, <1>8
  <2>3. stat'[th_index[v]] = stat[th_index[v]]
      BY <1>1, <2>2
  <2>4. QED
      BY <2>1, <2>3 DEF Fresh
<1>10. QED
    BY <1>1, <1>5, <1>7, <1>8, <1>9 DEF StatStored

\* buffer_stat_req_count++ for the slot opens the gap, the increment of the
\* kind closes it; the lock keeps every other worker of the slot outside.
LEMMA CountStep ==
  ASSUME NEW S \in SUBSET Slot, SlotInv(S), NEW w \in Worker, Count(w)
  PROVE  SlotInv(S)'
<1>1. CASE LoadStat(w, "count", "count_st", "count")
    BY <1>1, LoadStatStep
<1>2. CASE StoreStat(w, "count_st", "count_kind", "count")
  <2>0. StatStored(S, w, "count_st", "count_kind", "count")
      BY <1>2, StoreStatFacts DEF StatLoaded
  <2>1. /\ w \in Thread /\ pc[w] = "count_st" /\ pc' = [pc EXCEPT ![w] = "count_kind"]
        /\ stat' = [stat EXCEPT ![th_index[w]].count = reg[w] + 1]
        /\ UNCHANGED <<th_index, lock>> /\ SlotTypes' /\ HoldsSlot(S)' /\ Fresh(S)'
        /\ \A v \in Worker : th_index[v] \in S /\ v # w /\ th_index[v] = th_index[w]
                               => ~Counting(v)
      BY <2>0 DEF StatStored, Thread
  <2>2. /\ \A v \in Worker : Counting(v)' = (v = w \/ Counting(v))
        /\ ~Counting(w)
      BY <2>1 DEF Counting, SlotInv, SlotTypes, Thread
  <2>3. Balanced(S)'
    <3> SUFFICES ASSUME NEW s \in S
                 PROVE  /\ \A v \in Worker : th_index[v] = s /\ Counting(v)'
                             => stat'[s].count = stat'[s].static + stat'[s].dynamic + 1
                        /\ (\A v \in Worker : th_index[v] = s => ~Counting(v)')
                             => stat'[s].count = stat'[s].static + stat'[s].dynamic
        BY <2>1 DEF Balanced
    <3>1. CASE s = th_index[w]
      <4>1. stat[s].count = stat[s].static + stat[s].dynamic /\ reg[w] = stat[s].count
          BY <3>1, <2>1, <2>2 DEF Balanced, SlotInv, Fresh
      <4>2. stat'[s].count = stat'[s].static + stat'[s].dynamic + 1
          BY <2>1, <3>1, <4>1 DEF SlotInv, SlotTypes
      <4>3. QED
          BY <4>2, <3>1, <2>2
    <3>2. CASE s # th_index[w]
      <4>1. stat'[s] = stat[s]
          BY <2>1, <3>2 DEF SlotInv, SlotTypes
      <4>2. QED
          BY <4>1, <3>2, <2>2 DEF Balanced, SlotInv
    <3>3. QED
        BY <3>1, <3>2
  <2>4. QED
      BY <2>1, <2>3 DEF SlotInv
<1>3. QED
    BY <1>1, <1>2 DEF Count

LEMMA StoreKindStep ==
  ASSUME NEW S \in SUBSET Slot, SlotInv(S), NEW w \in Worker,
         NEW from \in {"static_st", "dynamic_st"}, NEW x \in {"static", "dynamic"},
         from = "static_st" <=> x = "static",
         StoreStat(w, from, "hist_inc", x)
  PROVE  SlotInv(S)'
<1>0. StatStored(S, w, from, "hist_inc", x)
  <2>1. from \in StatLoaded /\ x \in {"count", "static", "dynamic"}
      BY DEF StatLoaded
  <2>2. QED
      BY <2>1, StoreStatFacts
<1>1. /\ w \in Thread /\ pc[w] = from /\ pc' = [pc EXCEPT ![w] = "hist_inc"]
      /\ stat' = [stat EXCEPT ![th_index[w]][x] = reg[w] + 1]
      /\ UNCHANGED <<th_index, lock>> /\ SlotTypes' /\ HoldsSlot(S)' /\ Fresh(S)'
      /\ \A v \in Worker : th_index[v] \in S /\ v # w /\ th_index[v] = th_index[w]
                             => ~Counting(v)
    BY <1>0 DEF StatStored, Thread
<1>2. /\ \A v \in Worker : Counting(v)' = (v # w /\ Counting(v))
      /\ Counting(w)
    BY <1>1 DEF Counting, SlotInv, SlotTypes, Thread
<1>3. Balanced(S)'
  <2> SUFFICES ASSUME NEW s \in S
               PROVE  /\ \A v \in Worker : th_index[v] = s /\ Counting(v)'
                           => stat'[s].count = stat'[s].static + stat'[s].dynamic + 1
                      /\ (\A v \in Worker : th_index[v] = s => ~Counting(v)')
                           => stat'[s].count = stat'[s].static + stat'[s].dynamic
      BY <1>1 DEF Balanced
  <2>1. CASE s = th_index[w]
    <3>1. stat[s].count = stat[s].static + stat[s].dynamic + 1 /\ reg[w] = stat[s][x]
        BY <2>1, <1>1, <1>2 DEF Balanced, SlotInv, Fresh
    <3>2. stat'[s].count = stat'[s].static + stat'[s].dynamic
        BY <1>1, <2>1, <3>1 DEF SlotInv, SlotTypes
    <3>3. QED
        BY <3>2, <2>1, <1>1, <1>2
  <2>2. CASE s # th_index[w]
    <3>1. stat'[s] = stat[s]
        BY <1>1, <2>2 DEF SlotInv, SlotTypes
    <3>2. QED
        BY <3>1, <2>2, <1>2 DEF Balanced, SlotInv
  <2>3. QED
      BY <2>1, <2>2
<1>4. QED
    BY <1>1, <1>3 DEF SlotInv

LEMMA CountKindStep ==
  ASSUME NEW S \in SUBSET Slot, SlotInv(S), NEW w \in Worker, CountKind(w)
  PROVE  SlotInv(S)'
<1>1. CASE LoadStat(w, "count_kind", "static_st", "static")
    BY <1>1, LoadStatStep
<1>2. CASE LoadStat(w, "count_kind", "dynamic_st", "dynamic")
    BY <1>2, LoadStatStep
<1>3. CASE StoreStat(w, "static_st", "hist_inc", "static")
    BY <1>3, StoreKindStep
<1>4. CASE StoreStat(w, "dynamic_st", "hist_inc", "dynamic")
    BY <1>4, StoreKindStep
<1>5. QED
    BY <1>1, <1>2, <1>3, <1>4 DEF CountKind

-----------------------------------------------------------------------------
\* Only lock, unlock and the wait on not_full touch a lock in the master.
LEMMA MasterKeepsSlotInv ==
  ASSUME NEW S \in SUBSET Slot, SlotInv(S), MasterStep
  PROVE  SlotInv(S)'
<1> USE MasterApart DEF sync, local, Apart, StatLoaded
<1>1. CASE LockMutex
    BY <1>1, MasterLockStep DEF LockMutex, Lock
<1>2. CASE CheckWork
    BY <1>2, QuietLoad DEF CheckWork
<1>3. CASE CheckWait
    BY <1>3, QuietBranch DEF CheckWait
<1>4. CASE WaitNotFull
    BY <1>4, MasterLockStep DEF WaitNotFull
<1>5. CASE MasterAwake
    BY <1>5, MasterLockStep DEF MasterAwake, Lock
<1>6. CASE QueuePush
  <2>1. CASE PreProcess
      BY <2>1, QuietKeep DEF PreProcess
  <2>2. CASE PreProcessFails
      BY <2>2, NobodyMoves DEF PreProcessFails, Down
  <2>3. CASE FifoTail
      BY <2>3, QuietLoad DEF FifoTail
  <2>4. CASE FifoLink
      BY <2>4, QuietStore DEF FifoLink
  <2>5. CASE FifoTail2
      BY <2>5, QuietLoad DEF FifoTail2
  <2>6. CASE FifoNext
      BY <2>6, QuietLoad DEF FifoNext
  <2>7. CASE FifoSetTail
      BY <2>7, QuietStore DEF FifoSetTail
  <2>8. CASE WalkNext
      BY <2>8, QuietBranch DEF WalkNext
  <2>9. CASE WalkSize
      BY <2>9, QuietBranch DEF WalkSize
  <2>10. CASE WalkOn
      BY <2>10, QuietKeep DEF WalkOn
  <2>11. CASE SffNext
      BY <2>11, QuietStore DEF SffNext
  <2>12. CASE SffLink
      BY <2>12, QuietStore DEF SffLink
  <2>13. CASE SffNext2
      BY <2>13, QuietLoad DEF SffNext2
  <2>14. CASE SffLast
      BY <2>14, QuietBranch DEF SffLast
  <2>15. CASE SffNext3
      BY <2>15, QuietLoad DEF SffNext3
  <2>16. CASE SffSetTail
      BY <2>16, QuietStore DEF SffSetTail
  <2>17. QED
      BY <1>6, <2>1, <2>2, <2>3, <2>4, <2>5, <2>6, <2>7, <2>8, <2>9, <2>10, <2>11,
         <2>12, <2>13, <2>14, <2>15, <2>16 DEF QueuePush
<1>7. CASE WaitInc
    BY <1>7, QuietBump DEF WaitInc
<1>8. CASE SignalNotEmpty
    BY <1>8, QuietKeep DEF SignalNotEmpty
<1>9. CASE UnlockMutex
    BY <1>9, MasterLockStep DEF UnlockMutex, Unlock
<1>10. QED
    BY <1>1, <1>2, <1>3, <1>4, <1>5, <1>6, <1>7, <1>8, <1>9 DEF MasterStep

LEMMA HandlerKeepsSlotInv ==
  ASSUME NEW S \in SUBSET Slot, SlotInv(S), NEW w \in Worker, HandleRequest(w)
  PROVE  SlotInv(S)'
<1>0. w \in Thread
    BY DEF Thread
<1> USE <1>0 DEF sync, local, Apart, StatLoaded
<1>1. CASE Peek(w)
    BY <1>1, QuietKeep DEF Peek
<1>2. CASE PopTest(w)
    BY <1>2, QuietBranch DEF PopTest
<1>3. CASE PopLoad1(w)
    BY <1>3, QuietLoad DEF PopLoad1
<1>4. CASE PopLoad2(w)
    BY <1>4, QuietLoad DEF PopLoad2
<1>5. CASE PopStore(w)
    BY <1>5, QuietStore DEF PopStore
<1>6. CASE PopEmpty(w)
    BY <1>6, QuietBranch DEF PopEmpty
<1>7. CASE PopTail(w)
    BY <1>7, QuietStore DEF PopTail
<1>8. CASE Count(w)
    BY <1>8, CountStep
<1>9. CASE CountKind(w)
    BY <1>9, CountKindStep
<1>10. CASE HistInc(w)
    BY <1>10, QuietBump DEF HistInc
<1>11. CASE WorkInc(w)
    BY <1>11, QuietBump DEF WorkInc
<1>12. CASE WaitDec(w)
    BY <1>12, QuietBump DEF WaitDec
<1>13. CASE ServeStatic(w)
    BY <1>13, QuietKeep DEF ServeStatic
<1>14. CASE ServeDynamic(w)
    BY <1>14, QuietKeep DEF ServeDynamic
<1>15. CASE ServeFails(w)
    BY <1>15, NobodyMoves DEF ServeFails, Down
<1>16. CASE Reap(w)
    BY <1>16, QuietKeep DEF Reap
<1>17. CASE Close(w)
    BY <1>17, QuietKeep DEF Close
<1>18. CASE CloseAgain(w)
    BY <1>18, NobodyMoves DEF CloseAgain, Down
<1>19. CASE WorkDec(w)
    BY <1>19, QuietBump DEF WorkDec
<1>20. QED
    BY <1>1, <1>2, <1>3, <1>4, <1>5, <1>6, <1>7, <1>8, <1>9, <1>10, <1>11, <1>12,
       <1>13, <1>14, <1>15, <1>16, <1>17, <1>18, <1>19 DEF HandleRequest

LEMMA WorkerKeepsSlotInv ==
  ASSUME NEW S \in SUBSET Slot, SlotInv(S), NEW w \in Worker, WorkerStep(w)
  PROVE  SlotInv(S)'
<1>0. w \in Thread
    BY DEF Thread
<1> USE <1>0 DEF sync, local, Apart, StatLoaded
<1>1. CASE LockSlot(w)
    BY <1>1, EnterStep DEF LockSlot
<1>2. CASE CheckEmpty(w)
    BY <1>2, QuietBranch DEF CheckEmpty
<1>3. CASE WaitNotEmpty(w)
    BY <1>3, LeaveStep DEF WaitNotEmpty
<1>4. CASE WorkerAwake(w)
    BY <1>4, EnterStep DEF WorkerAwake
<1>5. CASE HandleRequest(w)
    BY <1>5, HandlerKeepsSlotInv
<1>6. CASE SignalNotFull(w)
    BY <1>6, QuietKeep DEF SignalNotFull
<1>7. CASE UnlockSlot(w)
    BY <1>7, LeaveStep DEF UnlockSlot, Unlock
<1>8. QED
    BY <1>1, <1>2, <1>3, <1>4, <1>5, <1>6, <1>7 DEF WorkerStep

LEMMA NextSlotInv ==
  ASSUME NEW S \in SUBSET Slot, SlotInv(S), [Next]_vars
  PROVE  SlotInv(S)'
<1>1. CASE Accept
    BY <1>1, QuietKeep, MasterApart DEF Accept, sync, local
<1>2. CASE MasterStep
    BY <1>2, MasterKeepsSlotInv
<1>3. CASE \E w \in Worker : WorkerStep(w)
    BY <1>3, WorkerKeepsSlotInv
<1>4. CASE ChildExits
    BY <1>4, NobodyMoves DEF ChildExits, sync, local
<1>5. CASE SpuriousWakeup
    BY <1>5, NobodyMoves DEF SpuriousWakeup, local
<1>6. CASE Segv
    BY <1>6, NobodyMoves DEF Segv, Down, sync, local
<1>7. CASE UNCHANGED vars
    BY <1>7, NobodyMoves DEF vars, sync, local
<1>8. QED
    BY <1>1, <1>2, <1>3, <1>4, <1>5, <1>6, <1>7 DEF Next

LEMMA NextSlots == SlotInv(Slot) /\ [Next]_vars => SlotInv(Slot)'
BY NextSlotInv

-----------------------------------------------------------------------------
\* Worker_thread_handle_request (server.c 218-223): whatever indices the workers
\* were given, two that use one slot are never inside its lock together.
THEOREM SlotExclusionHolds == Spec => []SlotExclusion(Slot)
<1>1. SlotInv(Slot) => SlotExclusion(Slot)
    BY ExclusionFollows
<1>2. QED
    BY InitSlots, NextSlots, <1>1, PTL DEF Spec

LEMMA SlotInvAddsUp ==
  ASSUME NEW S \in SUBSET Slot, SlotInv(S), NEW w \in Worker, th_index[w] \in S
  PROVE  AddsUp(w)
<1> SUFFICES ASSUME pc[w] \in {"serve", "wait"}
             PROVE  stat[th_index[w]].count =
                      stat[th_index[w]].static + stat[th_index[w]].dynamic
    BY DEF AddsUp
<1>1. Inside(w) /\ ~Counting(w)
    BY DEF Inside, Counting
<1>2. \A v \in Worker : th_index[v] = th_index[w] => ~Counting(v)
    BY <1>1, ExclusionFollows DEF SlotExclusion, Inside, Counting
<1>3. QED
    BY <1>2 DEF SlotInv, Balanced

\* handle_request (server.c 192-196) counts a request and its kind in two
\* statements; what the response says of its slot adds up all the same, for any
\* number of workers and connections and under each policy.
THEOREM StatsAddUpHolds == Spec => []StatsAddUp
<1>1. SlotInv(Slot) => StatsAddUp
    BY SlotInvAddsUp DEF StatsAddUp, SlotInv, SlotTypes
<1>2. QED
    BY InitSlots, NextSlots, <1>1, PTL DEF Spec

-----------------------------------------------------------------------------
(* The list: whoever follows a pointer finds a complete node.              *)

\* A node whose next was written and whose request was read.
Complete(n) == n \in Node /\ mem.next[n] # UNSET /\ (n # head => n <= Len(request))
Points(p) == p = NULL \/ Complete(p)

ListTypes ==
  /\ DOMAIN mem = {"next", "tail", "buffer_wait_num", "buffer_work_num", "buffer_head_hist",
                   "sched_alg_code"}
  /\ mem.next \in [Node -> Link]
  /\ request \in Seq(Requests) /\ \E S : fd \in Seq(S)
  /\ DOMAIN reg = Thread /\ DOMAIN node = Worker /\ DOMAIN pc = Thread

\* Where the master stands between accept and the parsing of the request.
Unread == {"lock", "check_work", "check_wait", "sleep", "blocked", "preprocess"}

OneInHand ==
  /\ Len(fd) <= MaxConn
  /\ pc[master] \in Unread => Len(fd) = Len(request) + 1
  /\ pc[master] \notin Unread => Len(fd) = Len(request)

LinksComplete ==
  /\ mem.next[head] # UNSET
  /\ \A n \in Node : mem.next[n] = UNSET \/ Points(mem.next[n])
  /\ Points(mem.tail)

\* The labels at which a thread is about to use or store a pointer it loaded.
Loaded == {"fifo_link", "fifo_next", "fifo_settail", "sff_last", "sff_settail",
           "pop_load2", "pop_store"}

LocalsComplete ==
  /\ Points(search.tmp)
  /\ \A w \in Worker : Points(node[w])
  /\ \A t \in Thread : pc[t] \in Loaded => Points(reg[t])

\* queue_push: the new node has a next before it is linked, and the search
\* stands on a node while it uses one.
Filled == {"fifo_tail", "fifo_link", "sff_link"}
OnNode == {"walk_size", "walk_on", "sff_link", "sff_next2", "sff_last", "sff_next3"}

PushInOrder ==
  /\ pc[master] \in Filled => mem.next[new] # UNSET
  /\ pc[master] \in OnNode => search.tmp # NULL

ListInv == ListTypes /\ OneInHand /\ LinksComplete /\ LocalsComplete /\ PushInOrder

-----------------------------------------------------------------------------
\* The master is no worker, and the node it fills is one.
LEMMA MasterIsThread == master \in Thread /\ master \notin Worker
BY DEF Thread, master, Worker

LEMMA NewIsNode == ListInv => new \in Node
BY ServerAssumption DEF ListInv, ListTypes, OneInHand, new, accepted, Node

\* A step that leaves the links alone; what it loads, points to or goes to is
\* as it should be.
LEMMA MoveStep ==
  ASSUME ListInv, NEW t \in Thread, NEW from, NEW to, Step(t, from, to),
         mem'.next = mem.next, DOMAIN mem' = DOMAIN mem, UNCHANGED <<request, fd>>,
         Points(mem'.tail), Points(search'.tmp),
         DOMAIN reg' = Thread, \A u \in Thread : u # t => reg'[u] = reg[u],
         to \in Loaded => Points(reg'[t]),
         DOMAIN node' = DOMAIN node, \A w \in Worker : Points(node'[w]),
         t = master => /\ from \in Unread <=> to \in Unread
                       /\ to \in Filled => mem.next[new] # UNSET
                       /\ to \in OnNode => search'.tmp # NULL,
         t # master => search' = search
  PROVE  ListInv'
<1> USE MasterIsThread DEF ListInv, Step, Goto, At
<1>1. \A p : Points(p)' <=> Points(p)
    BY DEF Points, Complete
<1>2. ListTypes'
    BY DEF ListTypes
<1>3. OneInHand'
    BY DEF OneInHand, ListTypes
<1>4. LinksComplete'
    BY <1>1 DEF LinksComplete
<1>5. LocalsComplete'
    BY <1>1 DEF LocalsComplete, ListTypes
<1>6. PushInOrder'
    BY DEF PushInOrder, ListTypes, new, accepted
<1>7. QED
    BY <1>2, <1>3, <1>4, <1>5, <1>6

\* A step that makes a node point to a complete node, or to none.
LEMMA LinkStep ==
  ASSUME ListInv, NEW t \in Thread, NEW from, NEW to,
         NEW a \in Node, NEW p, Points(p),
         Store(t, from, to, [mem EXCEPT !.next[a] = p]), to \notin Loaded,
         t = master => /\ from \notin Unread /\ to \notin Unread
                       /\ to \in Filled => a = new
                       /\ to \in OnNode => search.tmp # NULL
  PROVE  ListInv'
<1> USE MasterIsThread DEF ListInv, Store, conns, Step, Goto, At
<1>1. /\ mem'.next = [mem.next EXCEPT ![a] = p] /\ mem'.tail = mem.tail
      /\ DOMAIN mem' = DOMAIN mem
    BY DEF ListTypes
<1>2. p \in Link /\ p # UNSET
    BY ServerAssumption DEF Points, Complete, Link, Node
<1>3. \A q : Points(q) => Points(q)'
    BY <1>1, <1>2 DEF Points, Complete, ListTypes
<1>4. ListTypes'
    BY <1>1, <1>2 DEF ListTypes
<1>5. OneInHand'
    BY DEF OneInHand, ListTypes
<1>6. LinksComplete'
    BY <1>1, <1>2, <1>3 DEF LinksComplete, ListTypes, Node, head
<1>7. LocalsComplete'
    BY <1>3 DEF LocalsComplete, ListTypes
<1>8. PushInOrder'
    BY <1>1, <1>2, NewIsNode DEF PushInOrder, ListTypes, new, accepted
<1>9. QED
    BY <1>4, <1>5, <1>6, <1>7, <1>8

LEMMA PartsPoint ==
  ASSUME ListInv
  PROVE  /\ Points(mem.tail) /\ Points(search.tmp) /\ Points(head)
         /\ \A w \in Worker : Points(node[w])
         /\ \A n \in Node : Complete(n) => Points(mem.next[n])
         /\ \A t \in Thread : pc[t] \in Loaded => Points(reg[t])
BY ServerAssumption DEF ListInv, LinksComplete, LocalsComplete, Points, Complete, head, Node

\* The ways a thread moves, for either side.
LEMMA LoadKeeps ==
  ASSUME ListInv, NEW t \in Thread, NEW from, NEW to, NEW v, Load(t, from, to, v),
         to \in Loaded => Points(v),
         t = master => /\ from \in Unread <=> to \in Unread
                       /\ to \in Filled => mem.next[new] # UNSET
                       /\ to \in OnNode => search.tmp # NULL
  PROVE  ListInv'
<1>1. /\ Step(t, from, to) /\ mem' = mem /\ search' = search /\ node' = node
      /\ UNCHANGED <<request, fd>> /\ reg' = [reg EXCEPT ![t] = v]
    BY DEF Load, conns
<1>2. DOMAIN reg = Thread
    BY DEF ListInv, ListTypes
<1>3. QED
    BY <1>1, <1>2, PartsPoint, MoveStep

\* Any step that moves t and changes none of the data of the list.
LEMMA PlainKeeps ==
  ASSUME ListInv, NEW t \in Thread, NEW from, NEW to, Step(t, from, to),
         UNCHANGED <<mem, request, fd, node, reg, search>>, to \notin Loaded,
         t = master => /\ from \in Unread <=> to \in Unread
                       /\ to \in Filled => mem.next[new] # UNSET
                       /\ to \in OnNode => search.tmp # NULL
  PROVE  ListInv'
<1>1. DOMAIN reg = Thread
    BY DEF ListInv, ListTypes
<1>2. QED
    BY <1>1, PartsPoint, MoveStep

\* x += d on one of the counters.
LEMMA BumpKeeps ==
  ASSUME ListInv, NEW t \in Thread, NEW from, NEW halfway, NEW to, NEW d,
         NEW x \in {"buffer_wait_num", "buffer_work_num", "buffer_head_hist"},
         Bump(t, from, halfway, to, x, d),
         halfway \notin Loaded, to \notin Loaded,
         t = master => /\ from \notin Unread /\ halfway \notin Unread /\ to \notin Unread
                       /\ halfway \notin Filled \cup OnNode /\ to \notin Filled \cup OnNode
  PROVE  ListInv'
<1>1. CASE Load(t, from, halfway, mem[x])
    BY <1>1, LoadKeeps
<1>2. CASE Store(t, halfway, to, [mem EXCEPT ![x] = reg[t] + d])
  <2>1. /\ Step(t, halfway, to) /\ search' = search /\ node' = node
        /\ UNCHANGED <<request, fd>> /\ reg' = [reg EXCEPT ![t] = 0]
        /\ mem' = [mem EXCEPT ![x] = reg[t] + d]
      BY <1>2 DEF Store, conns
  <2>2. DOMAIN reg = Thread /\ {"next", "tail"} \subseteq DOMAIN mem
      BY DEF ListInv, ListTypes
  <2>3. mem'.next = mem.next /\ mem'.tail = mem.tail /\ DOMAIN mem' = DOMAIN mem
      BY <2>1, <2>2
  <2>4. QED
      BY <2>1, <2>2, <2>3, PartsPoint, MoveStep
<1>3. QED
    BY <1>1, <1>2 DEF Bump

\* tail = p
LEMMA TailKeeps ==
  ASSUME ListInv, NEW t \in Thread, NEW from, NEW to, NEW p, Points(p),
         Store(t, from, to, [mem EXCEPT !.tail = p]), to \notin Loaded,
         t = master => from \notin Unread /\ to \notin Unread \cup Filled \cup OnNode
  PROVE  ListInv'
<1>1. /\ Step(t, from, to) /\ search' = search /\ node' = node
      /\ UNCHANGED <<request, fd>> /\ reg' = [reg EXCEPT ![t] = 0]
      /\ mem' = [mem EXCEPT !.tail = p]
    BY DEF Store, conns
<1>2. DOMAIN reg = Thread /\ {"next", "tail"} \subseteq DOMAIN mem
    BY DEF ListInv, ListTypes
<1>3. mem'.next = mem.next /\ mem'.tail = p /\ DOMAIN mem' = DOMAIN mem
    BY <1>1, <1>2
<1>4. QED
    BY <1>1, <1>2, <1>3, PartsPoint, MoveStep

\* A step that moves no thread.
LEMMA ListStays ==
  ASSUME ListInv, UNCHANGED <<pc, mem, request, fd, node, reg, search>>
  PROVE  ListInv'
<1>1. \A p : Points(p)' <=> Points(p)
    BY DEF Points, Complete
<1>2. QED
    BY <1>1 DEF ListInv, ListTypes, OneInHand, LinksComplete, LocalsComplete, PushInOrder,
                new, accepted

LEMMA AcceptKeeps ==
  ASSUME ListInv, Accept
  PROVE  ListInv'
<1> USE MasterIsThread DEF ListInv
<1>1. /\ pc[master] = "accept" /\ pc' = [pc EXCEPT ![master] = "lock"]
      /\ UNCHANGED <<mem, request, node, reg, search>>
      /\ Len(fd) < MaxConn
    BY DEF Accept, Step, Goto, At, accepted, sync, local
<1>2. PICK f : fd' = Append(fd, f)
    BY DEF Accept
<1>3. (\E S : fd' \in Seq(S)) /\ Len(fd') = Len(fd) + 1
  <2>1. PICK S : fd \in Seq(S)
      BY DEF ListTypes
  <2>2. fd \in Seq(S \cup {f}) /\ Len(fd') = Len(fd) + 1
      BY <1>2, <2>1
  <2>3. fd' \in Seq(S \cup {f})
      BY <1>2, <2>2
  <2>4. QED
      BY <2>2, <2>3
<1>4. \A p : Points(p)' <=> Points(p)
    BY <1>1 DEF Points, Complete
<1>5. ListTypes'
    BY <1>1, <1>3 DEF ListTypes
<1>6. OneInHand'
    BY <1>1, <1>3, ServerAssumption DEF OneInHand, ListTypes, Unread
<1>7. LinksComplete'
    BY <1>1, <1>4 DEF LinksComplete
<1>8. LocalsComplete'
    BY <1>1, <1>4 DEF LocalsComplete, ListTypes, Loaded
<1>9. PushInOrder'
    BY <1>1 DEF PushInOrder, ListTypes, Filled, OnNode
<1>10. QED
    BY <1>5, <1>6, <1>7, <1>8, <1>9

\* The request is read; under FIFO the node gets its next as well.
LEMMA PreProcessKeeps ==
  ASSUME ListInv, PreProcess
  PROVE  ListInv'
<1> USE MasterIsThread DEF ListInv
<1>1. /\ pc[master] = "preprocess" /\ UNCHANGED <<fd, node, reg>>
      /\ pc' = [pc EXCEPT ![master] = IF sched_alg_code = 0 THEN "fifo_tail" ELSE "walk_next"]
      /\ mem' = IF sched_alg_code = 0 THEN [mem EXCEPT !.next[new] = NULL] ELSE mem
      /\ search'.tmp = head
    BY DEF PreProcess, Step, Goto, At
<1>2. PICK r \in Requests : request' = Append(request, r)
    BY DEF PreProcess
<1>3. request' \in Seq(Requests) /\ Len(request') = Len(request) + 1
    BY <1>2 DEF ListTypes
<1>4. Len(request') = Len(fd) /\ Len(fd) \in Nat
    BY <1>1, <1>3 DEF OneInHand, ListTypes, Unread
<1>5. /\ DOMAIN mem' = DOMAIN mem /\ mem'.tail = mem.tail
      /\ mem'.next = mem.next \/ mem'.next = [mem.next EXCEPT ![new] = NULL]
      /\ pc'[master] = "fifo_tail" => mem'.next = [mem.next EXCEPT ![new] = NULL]
    BY <1>1 DEF ListTypes
<1>6. \A p : Points(p) => Points(p)'
  <2>1. \A n \in Node : mem.next[n] # UNSET => mem'.next[n] # UNSET
      BY <1>5, ServerAssumption, NewIsNode DEF ListTypes
  <2>2. Len(request) \in Nat
      BY DEF ListTypes
  <2>3. QED
      BY <2>1, <2>2, <1>3, ServerAssumption DEF Points, Complete, Node
<1>7. ListTypes'
    BY <1>1, <1>3, <1>5 DEF ListTypes, Link
<1>8. OneInHand'
    BY <1>1, <1>4 DEF OneInHand, ListTypes, Unread
<1>9. LinksComplete'
  <2>1. mem'.next[head] # UNSET
      BY <1>5, ServerAssumption, NewIsNode DEF LinksComplete, ListTypes, head, Node
  <2>2. ASSUME NEW n \in Node PROVE (mem.next[n] = UNSET \/ Points(mem.next[n]))'
      BY <1>5, <1>6, NewIsNode DEF LinksComplete, ListTypes, Points
  <2>3. Points(mem.tail)'
      BY <1>5, <1>6 DEF LinksComplete
  <2>4. QED
      BY <2>1, <2>2, <2>3 DEF LinksComplete
<1>10. LocalsComplete'
  <2>1. Points(head)
      BY PartsPoint
  <2>2. \A t \in Thread : pc'[t] \in Loaded => pc[t] \in Loaded
      BY <1>1 DEF ListTypes, Loaded
  <2>3. QED
      BY <2>1, <2>2, <1>1, <1>6 DEF LocalsComplete
<1>11. PushInOrder'
    BY <1>1, <1>5, NewIsNode, ServerAssumption
    DEF PushInOrder, ListTypes, Filled, OnNode, new, accepted
<1>12. QED
    BY <1>7, <1>8, <1>9, <1>10, <1>11

LEMMA NextPoints == ListInv => \A n \in Node : Complete(n) => Points(mem.next[n])
BY PartsPoint

LEMMA PushKeeps ==
  ASSUME ListInv, QueuePush
  PROVE  ListInv'
<1> USE MasterIsThread DEF Loaded, Unread, Filled, OnNode
<1>0. /\ Points(mem.tail)
      /\ Points(search.tmp)
      /\ pc[master] \in Loaded => Points(reg[master])
      /\ search.tmp # NULL => search.tmp \in Node /\ Points(mem.next[search.tmp])
      /\ pc[master] \in OnNode => search.tmp # NULL
      /\ pc[master] \in Filled => mem.next[new] # UNSET
    BY PartsPoint DEF Points, Complete, ListInv, PushInOrder
<1>1. pc[master] \in Filled => Points(new)
    BY <1>0, NewIsNode DEF ListInv, OneInHand, ListTypes, Points, Complete, new, accepted
<1>2. CASE PreProcess
    BY <1>2, PreProcessKeeps
<1>3. CASE PreProcessFails
    BY <1>3, ListStays DEF PreProcessFails, Down, conns, local
<1>4. CASE FifoTail
  <2>1. pc[master] = "fifo_tail"
      BY <1>4 DEF FifoTail, Load, Step, At
  <2>2. QED
      BY <1>4, <1>0, <2>1, LoadKeeps DEF FifoTail
<1>5. CASE FifoLink
  <2>1. /\ pc[master] = "fifo_link" /\ reg[master] # NULL
        /\ Store(master, "fifo_link", "fifo_tail2", [mem EXCEPT !.next[reg[master]] = new])
      BY <1>5 DEF FifoLink, Store, Step, At
  <2>2. reg[master] \in Node /\ Points(new)
      BY <1>0, <1>1, <2>1 DEF Points, Complete
  <2>3. PICK a \in Node : a = reg[master]
      BY <2>2
  <2>4. Store(master, "fifo_link", "fifo_tail2", [mem EXCEPT !.next[a] = new])
      BY <2>1, <2>3
  <2>5. /\ "fifo_link" \notin Unread /\ "fifo_tail2" \notin Unread
        /\ "fifo_tail2" \notin Loaded \cup Filled \cup OnNode
      OBVIOUS
  <2>6. HIDE DEF Loaded, Unread, Filled, OnNode
  <2>7. QED
      BY <2>2, <2>4, <2>5, LinkStep
<1>6. CASE FifoTail2
  <2>1. pc[master] = "fifo_tail2"
      BY <1>6 DEF FifoTail2, Load, Step, At
  <2>2. QED
      BY <1>6, <1>0, <2>1, LoadKeeps DEF FifoTail2
<1>7. CASE FifoNext
  <2>1. reg[master] \in Node /\ Complete(reg[master])
      BY <1>7, <1>0 DEF FifoNext, Load, Step, At, Points, Complete
  <2>2. Points(mem.next[reg[master]])
      BY <2>1, NextPoints
  <2>3. QED
      BY <1>7, <2>2, LoadKeeps DEF FifoNext
<1>8. CASE FifoSetTail
  <2>1. Points(reg[master])
      BY <1>8, <1>0 DEF FifoSetTail, Store, Step, At
  <2>2. QED
      BY <1>8, <2>1, TailKeeps DEF FifoSetTail
<1>9. CASE WalkNext
  <2>1. /\ Step(master, "walk_next", IF search.room > 0 /\ mem.next[search.tmp] # NULL
                                     THEN "walk_size" ELSE "sff_next")
        /\ UNCHANGED <<mem, request, fd, node, reg, search>>
        /\ search.room > 0 => search.tmp # NULL
      BY <1>9 DEF WalkNext, Branch, conns, local
  <2>2. QED
      BY <2>1, PlainKeeps
<1>10. CASE WalkSize
  <2>1. /\ \E to \in {"walk_on", "sff_next"} : Step(master, "walk_size", to)
        /\ UNCHANGED <<mem, request, fd, node, reg, search>>
        /\ search.tmp # NULL
      BY <1>10, <1>0 DEF WalkSize, Branch, Step, At, conns, local
  <2>2. QED
      BY <2>1, PlainKeeps
<1>11. CASE WalkOn
  <2>1. /\ Step(master, "walk_on", "walk_next")
        /\ UNCHANGED <<mem, request, fd, node, reg>>
        /\ search'.tmp = mem.next[search.tmp] /\ Points(search'.tmp)
      BY <1>11, <1>0 DEF WalkOn, Step, At, conns
  <2>2. DOMAIN reg = Thread
      BY DEF ListInv, ListTypes
  <2>3. QED
      BY <2>1, <2>2, <1>0, PartsPoint, MoveStep
<1>12. CASE SffNext
  <2>1. /\ search.tmp # NULL /\ new \in Node
        /\ Store(master, "sff_next", "sff_link",
                 [mem EXCEPT !.next[new] = mem.next[search.tmp]])
      BY <1>12, NewIsNode DEF SffNext
  <2>2. PICK p : p = mem.next[search.tmp] /\ Points(p)
      BY <2>1, <1>0
  <2>3. /\ "sff_next" \notin Unread /\ "sff_link" \notin Unread
        /\ "sff_link" \notin Loaded
      OBVIOUS
  <2>4. HIDE DEF Loaded, Unread, Filled, OnNode
  <2>5. QED
      BY <2>1, <2>2, <2>3, LinkStep
<1>13. CASE SffLink
  <2>1. /\ pc[master] = "sff_link"
        /\ Store(master, "sff_link", "sff_next2", [mem EXCEPT !.next[search.tmp] = new])
      BY <1>13 DEF SffLink, Store, Step, At
  <2>2. PICK a \in Node : a = search.tmp
      BY <2>1, <1>0
  <2>3. Store(master, "sff_link", "sff_next2", [mem EXCEPT !.next[a] = new])
      BY <2>1, <2>2
  <2>4. /\ "sff_link" \notin Unread /\ "sff_next2" \notin Unread
        /\ "sff_next2" \notin Loaded \cup Filled
      OBVIOUS
  <2>5. Points(new) /\ search.tmp # NULL
      BY <2>1, <1>0, <1>1
  <2>6. HIDE DEF Loaded, Unread, Filled, OnNode
  <2>7. QED
      BY <2>3, <2>4, <2>5, LinkStep
<1>14. CASE SffNext2
  <2>1. pc[master] = "sff_next2"
      BY <1>14 DEF SffNext2, Load, Step, At
  <2>2. QED
      BY <1>14, <1>0, <2>1, LoadKeeps DEF SffNext2
<1>15. CASE SffLast
  <2>1. /\ \E to \in {"sff_next3", "wait_inc"} : Step(master, "sff_last", to)
        /\ UNCHANGED <<mem, request, fd, node, reg, search>>
        /\ search.tmp # NULL
      BY <1>15, <1>0 DEF SffLast, Branch, Step, At, conns, local
  <2>2. QED
      BY <2>1, PlainKeeps
<1>16. CASE SffNext3
  <2>1. pc[master] = "sff_next3"
      BY <1>16 DEF SffNext3, Load, Step, At
  <2>2. QED
      BY <1>16, <1>0, <2>1, LoadKeeps DEF SffNext3
<1>17. CASE SffSetTail
  <2>1. Points(reg[master])
      BY <1>17, <1>0 DEF SffSetTail, Store, Step, At
  <2>2. QED
      BY <1>17, <2>1, TailKeeps DEF SffSetTail
<1>18. QED
    BY <1>2, <1>3, <1>4, <1>5, <1>6, <1>7, <1>8, <1>9, <1>10, <1>11, <1>12, <1>13, <1>14,
       <1>15, <1>16, <1>17 DEF QueuePush

LEMMA MasterKeepsList ==
  ASSUME ListInv, MasterStep
  PROVE  ListInv'
<1> USE MasterIsThread DEF Loaded, Unread, Filled, OnNode
<1>1. CASE LockMutex
    BY <1>1, PlainKeeps DEF LockMutex, Lock, conns, local
<1>2. CASE CheckWork
    BY <1>2, LoadKeeps DEF CheckWork
<1>3. CASE CheckWait
    BY <1>3, PlainKeeps DEF CheckWait, Branch, conns, local
<1>4. CASE WaitNotFull
    BY <1>4, PlainKeeps DEF WaitNotFull, conns, local
<1>5. CASE MasterAwake
    BY <1>5, PlainKeeps DEF MasterAwake, Lock, conns, local
<1>6. CASE QueuePush
    BY <1>6, PushKeeps
<1>7. CASE WaitInc
    BY <1>7, BumpKeeps DEF WaitInc
<1>8. CASE SignalNotEmpty
  <2>1. /\ Step(master, "signal", "unlock") /\ search'.tmp = head
        /\ UNCHANGED <<mem, request, fd, node, reg>>
      BY <1>8 DEF SignalNotEmpty, NoSearch, conns
  <2>2. DOMAIN reg = Thread
      BY DEF ListInv, ListTypes
  <2>3. QED
      BY <2>1, <2>2, PartsPoint, MoveStep
<1>9. CASE UnlockMutex
    BY <1>9, PlainKeeps DEF UnlockMutex, Unlock, conns, local
<1>10. QED
    BY <1>1, <1>2, <1>3, <1>4, <1>5, <1>6, <1>7, <1>8, <1>9 DEF MasterStep

LEMMA WorkerIsNotMaster == \A w \in Worker : w \in Thread /\ w # master
BY DEF Thread, Worker, master

\* queue_peek and queue_pop, whoever else uses the list at the same time.
LEMMA PopKeeps ==
  ASSUME ListInv, NEW w \in Worker,
         Peek(w) \/ PopTest(w) \/ PopLoad1(w) \/ PopLoad2(w) \/ PopStore(w)
           \/ PopEmpty(w) \/ PopTail(w)
  PROVE  ListInv'
<1> USE WorkerIsNotMaster DEF Loaded
<1>0. /\ head \in Node /\ Points(head) /\ Points(mem.next[head])
      /\ DOMAIN reg = Thread /\ DOMAIN node = Worker
      /\ pc[w] \in Loaded => Points(reg[w])
    BY PartsPoint, ServerAssumption DEF Points, ListInv, ListTypes, head, Node
<1>1. CASE Peek(w)
  <2>1. /\ Step(w, "peek", "pop_test") /\ UNCHANGED <<mem, request, fd, reg, search>>
        /\ node' = [node EXCEPT ![w] = mem.next[head]]
      BY <1>1 DEF Peek, conns
  <2>2. DOMAIN node' = Worker /\ \A v \in Worker : Points(node'[v])
      BY <2>1, <1>0, PartsPoint
  <2>3. QED
      BY <2>1, <2>2, <1>0, PartsPoint, MoveStep
<1>2. CASE PopTest(w)
    BY <1>2, <1>0, LoadKeeps, PlainKeeps DEF PopTest, Branch, conns, local
<1>3. CASE PopLoad1(w)
    BY <1>3, <1>0, LoadKeeps DEF PopLoad1
<1>4. CASE PopLoad2(w)
  <2>1. Points(reg[w]) /\ reg[w] # NULL
      BY <1>4, <1>0 DEF PopLoad2, Load, Step, At
  <2>2. Points(mem.next[reg[w]])
      BY <2>1, NextPoints DEF Points, Complete
  <2>3. QED
      BY <1>4, <2>2, LoadKeeps DEF PopLoad2
<1>5. CASE PopStore(w)
  <2>1. Points(reg[w])
      BY <1>5, <1>0 DEF PopStore, Store, Step, At
  <2>2. PICK p : p = reg[w] /\ Points(p)
      BY <2>1
  <2>3. PICK a \in Node : a = head
      BY <1>0
  <2>4. Store(w, "pop_store", "pop_empty", [mem EXCEPT !.next[a] = p])
      BY <1>5, <2>2, <2>3 DEF PopStore
  <2>5. "pop_empty" \notin Loaded /\ w \in Thread /\ w # master
      OBVIOUS
  <2>6. HIDE DEF Loaded
  <2>7. QED
      BY <2>2, <2>4, <2>5, LinkStep
<1>6. CASE PopEmpty(w)
    BY <1>6, PlainKeeps DEF PopEmpty, Branch, conns, local
<1>7. CASE PopTail(w)
    BY <1>7, <1>0, TailKeeps DEF PopTail
<1>8. QED
    BY <1>1, <1>2, <1>3, <1>4, <1>5, <1>6, <1>7

\* x++ on one of the statistics of the worker's slot.
LEMMA StatKeeps ==
  ASSUME ListInv, NEW w \in Worker, NEW from, NEW to, NEW x,
         LoadStat(w, from, to, x) \/ StoreStat(w, from, to, x), to \notin Loaded
  PROVE  ListInv'
<1> USE WorkerIsNotMaster
<1>1. CASE LoadStat(w, from, to, x)
    BY <1>1, LoadKeeps DEF LoadStat
<1>2. CASE StoreStat(w, from, to, x)
  <2>1. /\ Step(w, from, to) /\ mem' = mem /\ search' = search /\ node' = node
        /\ UNCHANGED <<request, fd>> /\ reg' = [reg EXCEPT ![w] = 0]
      BY <1>2 DEF StoreStat, conns
  <2>2. DOMAIN reg = Thread
      BY DEF ListInv, ListTypes
  <2>3. QED
      BY <2>1, <2>2, PartsPoint, MoveStep
<1>3. QED
    BY <1>1, <1>2

LEMMA WorkerKeepsList ==
  ASSUME ListInv, NEW w \in Worker, WorkerStep(w)
  PROVE  ListInv'
<1> USE WorkerIsNotMaster DEF Loaded
<1>1. CASE LockSlot(w)
    BY <1>1, PlainKeeps DEF LockSlot, Lock, conns, local
<1>2. CASE CheckEmpty(w)
    BY <1>2, PlainKeeps DEF CheckEmpty, Branch, conns, local
<1>3. CASE WaitNotEmpty(w)
    BY <1>3, PlainKeeps DEF WaitNotEmpty, conns, local
<1>4. CASE WorkerAwake(w)
    BY <1>4, PlainKeeps DEF WorkerAwake, Lock, conns, local
<1>5. CASE HandleRequest(w)
  <2>1. CASE Peek(w) \/ PopTest(w) \/ PopLoad1(w) \/ PopLoad2(w) \/ PopStore(w)
               \/ PopEmpty(w) \/ PopTail(w)
      BY <2>1, PopKeeps
  <2>2. CASE Count(w)
      BY <2>2, StatKeeps DEF Count
  <2>3. CASE CountKind(w)
      BY <2>3, StatKeeps DEF CountKind
  <2>4. CASE HistInc(w)
      BY <2>4, BumpKeeps DEF HistInc
  <2>5. CASE WorkInc(w)
      BY <2>5, BumpKeeps DEF WorkInc
  <2>6. CASE WaitDec(w)
      BY <2>6, BumpKeeps DEF WaitDec
  <2>7. CASE ServeStatic(w)
      BY <2>7, PlainKeeps DEF ServeStatic, conns, local
  <2>8. CASE ServeDynamic(w)
      BY <2>8, PlainKeeps DEF ServeDynamic, conns, local
  <2>9. CASE ServeFails(w)
      BY <2>9, ListStays DEF ServeFails, Down, conns, local
  <2>10. CASE Reap(w)
      BY <2>10, PlainKeeps DEF Reap, conns, local
  <2>11. CASE Close(w)
    <3>1. /\ Step(w, "close", "work_dec") /\ UNCHANGED <<mem, request, fd, reg, search>>
          /\ node' = [node EXCEPT ![w] = head]
        BY <2>11 DEF Close
    <3>2. /\ DOMAIN reg = Thread /\ DOMAIN node' = Worker
          /\ \A v \in Worker : Points(node'[v])
        BY <3>1, PartsPoint DEF ListInv, ListTypes
    <3>3. QED
        BY <3>1, <3>2, PartsPoint, MoveStep DEF ListInv, ListTypes
  <2>12. CASE CloseAgain(w)
      BY <2>12, ListStays DEF CloseAgain, Down, conns, local
  <2>13. CASE WorkDec(w)
      BY <2>13, BumpKeeps DEF WorkDec
  <2>14. QED
      BY <1>5, <2>1, <2>2, <2>3, <2>4, <2>5, <2>6, <2>7, <2>8, <2>9, <2>10, <2>11,
         <2>12, <2>13 DEF HandleRequest
<1>6. CASE SignalNotFull(w)
    BY <1>6, PlainKeeps DEF SignalNotFull, conns, local
<1>7. CASE UnlockSlot(w)
    BY <1>7, PlainKeeps DEF UnlockSlot, Unlock, conns, local
<1>8. QED
    BY <1>1, <1>2, <1>3, <1>4, <1>5, <1>6, <1>7 DEF WorkerStep

LEMMA NextListInv == ListInv /\ [Next]_vars => ListInv'
<1> SUFFICES ASSUME ListInv, [Next]_vars PROVE ListInv'
    OBVIOUS
<1>1. CASE Accept
    BY <1>1, AcceptKeeps
<1>2. CASE MasterStep
    BY <1>2, MasterKeepsList
<1>3. CASE \E w \in Worker : WorkerStep(w)
    BY <1>3, WorkerKeepsList
<1>4. CASE ChildExits
    BY <1>4, ListStays DEF ChildExits, conns, local
<1>5. CASE SpuriousWakeup
    BY <1>5, ListStays DEF SpuriousWakeup, conns, local
<1>6. CASE Segv
    BY <1>6, ListStays DEF Segv, Down, conns, local
<1>7. CASE UNCHANGED vars
    BY <1>7, ListStays DEF vars, conns, local
<1>8. QED
    BY <1>1, <1>2, <1>3, <1>4, <1>5, <1>6, <1>7 DEF Next

LEMMA InitListInv == Init => ListInv
<1> SUFFICES ASSUME Init PROVE ListInv
    OBVIOUS
<1> USE MasterIsThread
<1>1. /\ \E policy \in Policies :
           mem = [next |-> [n \in Node |-> IF n = head THEN NULL ELSE UNSET], tail |-> head,
                  buffer_wait_num |-> 0, buffer_work_num |-> 0, buffer_head_hist |-> 0,
                  sched_alg_code |-> policy]
      /\ fd = <<>> /\ request = <<>>
      /\ node = [w \in Worker |-> head] /\ reg = [t \in Thread |-> 0]
      /\ search.tmp = head
    BY DEF Init, InitWith, NoSearch
<1>2. pc = [t \in Thread |-> IF t = master THEN "accept" ELSE "lock"]
    BY DEF Init, InitWith
<1>3. head \in Node
    BY ServerAssumption DEF head, Node
<1>4. ListTypes
  <2>1. /\ DOMAIN mem = {"next", "tail", "buffer_wait_num", "buffer_work_num",
                         "buffer_head_hist", "sched_alg_code"}
        /\ mem.next \in [Node -> Link]
      BY <1>1 DEF Link
  <2>2. request \in Seq(Requests) /\ fd \in Seq(Fd)
      BY <1>1
  <2>3. QED
      BY <2>1, <2>2, <1>1, <1>2 DEF ListTypes
<1>5. OneInHand
    BY <1>1, <1>2, ServerAssumption DEF OneInHand, Unread
<1>6. Points(head) /\ Points(NULL)
    BY <1>1, <1>3, ServerAssumption DEF Points, Complete
<1>7. LinksComplete
    BY <1>1, <1>3, <1>6, ServerAssumption DEF LinksComplete
<1>8. LocalsComplete
    BY <1>1, <1>2, <1>6 DEF LocalsComplete, Loaded
<1>9. PushInOrder
    BY <1>2 DEF PushInOrder, Filled, OnNode
<1>10. QED
    BY <1>4, <1>5, <1>7, <1>8, <1>9 DEF ListInv

\* queue_push and queue_pop (server.c 53-130): although they share the list with
\* no common lock, no link, tail, search or worker's copy ever names a node that
\* is not completely filled, for any pool, policy and number of connections.
THEOREM LinkedWhenCompleteHolds == Spec => []LinkedWhenComplete
<1>1. ListInv => LinkedWhenComplete
  <2> SUFFICES ASSUME ListInv, NEW n \in PointedTo \ {head}
               PROVE  n \in 1..Len(request) /\ mem.next[n] # UNSET
      BY DEF LinkedWhenComplete
  <2>1. n \in Node /\ n # NULL /\ n # UNSET
      BY ServerAssumption DEF PointedTo, Node
  <2>2. n \in Range(mem.next) \cup Range(node) \cup {mem.tail, search.tmp}
      BY DEF PointedTo
  <2>3. Points(n)
    <3>1. CASE n \in Range(mem.next)
      <4>1. PICK m \in Node : n = mem.next[m]
          BY <3>1 DEF Range, ListInv, ListTypes
      <4>2. QED
          BY <4>1, <2>1 DEF ListInv, LinksComplete
    <3>2. CASE n \in Range(node)
        BY <3>2, PartsPoint DEF Range, ListInv, ListTypes
    <3>3. QED
        BY <3>1, <3>2, <2>2, PartsPoint
  <2>4. QED
      BY <2>1, <2>3 DEF Points, Complete, Node, head, ListInv, ListTypes
<1>2. QED
    BY InitListInv, NextListInv, <1>1, PTL DEF Spec

-----------------------------------------------------------------------------
(* Children: each worker in Wait(NULL) is owed one.                        *)

\* What the master does moves no worker and touches no statistics and no child.
LEMMA MasterAlone ==
  ASSUME DOMAIN pc = Thread, Accept \/ MasterStep
  PROVE  /\ UNCHANGED <<stat, cgi, th_index>> /\ DOMAIN pc' = Thread
         /\ \A w \in Worker : pc'[w] = pc[w]
<1>0. \A w \in Worker : w \in Thread /\ w # master
    BY WorkerIsNotMaster
<1>1. CASE Accept
    BY <1>1, <1>0 DEF Accept, Step, Goto
<1>2. CASE \/ LockMutex \/ CheckWork \/ CheckWait \/ WaitNotFull \/ MasterAwake
           \/ SignalNotEmpty \/ UnlockMutex \/ WaitInc
    BY <1>2, <1>0
    DEF LockMutex, CheckWork, CheckWait, WaitNotFull, MasterAwake, SignalNotEmpty,
        UnlockMutex, WaitInc, Bump, Lock, Unlock, Load, Store, Branch, Step, Goto
<1>3. CASE \/ PreProcess \/ PreProcessFails
           \/ FifoTail \/ FifoLink \/ FifoTail2 \/ FifoNext \/ FifoSetTail
    BY <1>3, <1>0
    DEF PreProcess, PreProcessFails, Down, FifoTail, FifoLink, FifoTail2, FifoNext,
        FifoSetTail, Load, Store, Step, Goto
<1>4. CASE WalkNext \/ WalkSize \/ WalkOn
    BY <1>4, <1>0 DEF WalkNext, WalkSize, WalkOn, Branch, Step, Goto
<1>5. CASE SffNext \/ SffLink \/ SffNext2 \/ SffLast \/ SffNext3 \/ SffSetTail
    BY <1>5, <1>0
    DEF SffNext, SffLink, SffNext2, SffLast, SffNext3, SffSetTail, Branch, Load, Store,
        Step, Goto
<1>6. QED
    BY <1>1, <1>2, <1>3, <1>4, <1>5 DEF MasterStep, QueuePush

Waiting == {w \in Worker : pc[w] = "wait"}

ChildInv == /\ DOMAIN pc = Thread /\ running \in Nat /\ zombie \in Nat
            /\ running + zombie = Cardinality(Waiting)

LEMMA WorkersAreFinite == IsFiniteSet(Worker)
BY FS_Interval, ServerAssumption DEF Worker

LEMMA InitChildInv ==
  ASSUME NEW locks, NEW stats, InitWith(locks, stats)
  PROVE  ChildInv
<1>1. pc = [t \in Thread |-> IF t = master THEN "accept" ELSE "lock"]
    BY DEF InitWith
<1>2. Waiting = {}
    BY <1>1 DEF Waiting, Thread
<1>3. QED
    BY <1>1, <1>2, FS_EmptySet DEF ChildInv, InitWith

LEMMA WorkerMoves ==
  ASSUME DOMAIN pc = Thread, NEW w \in Worker, NEW from, NEW to, Step(w, from, to)
  PROVE  /\ DOMAIN pc' = Thread /\ pc[w] = from /\ pc'[w] = to
         /\ \A v \in Worker : v # w => pc'[v] = pc[v]
BY DEF Step, Goto, At, Thread

LEMMA ChildrenStay ==
  ASSUME ChildInv, cgi' = cgi, DOMAIN pc' = Thread, \A w \in Worker : pc'[w] = "wait" <=> pc[w] = "wait"
  PROVE  ChildInv'
<1>1. Waiting' = Waiting
    BY DEF Waiting
<1>2. QED
    BY <1>1 DEF ChildInv, cgi

\* Fork and Wait(NULL) move the number of children and that of the waiting
\* workers together.
LEMMA ForkStep ==
  ASSUME ChildInv, NEW w \in Worker, ServeDynamic(w)
  PROVE  ChildInv'
<1>1. /\ DOMAIN pc' = Thread /\ pc[w] = "serve" /\ pc'[w] = "wait"
      /\ \A v \in Worker : v # w => pc'[v] = pc[v]
      /\ running' = running + 1 /\ zombie' = zombie
    BY WorkerMoves DEF ServeDynamic, ChildInv
<1>2. Waiting' = Waiting \cup {w} /\ w \notin Waiting
    BY <1>1 DEF Waiting
<1>3. Cardinality(Waiting') = Cardinality(Waiting) + 1
    BY <1>2, FS_Subset, FS_AddElement, WorkersAreFinite DEF Waiting
<1>4. QED
    BY <1>1, <1>3 DEF ChildInv

LEMMA ReapStep ==
  ASSUME ChildInv, NEW w \in Worker, Reap(w)
  PROVE  ChildInv'
<1>1. /\ DOMAIN pc' = Thread /\ pc[w] = "wait" /\ pc'[w] = "close"
      /\ \A v \in Worker : v # w => pc'[v] = pc[v]
      /\ zombie > 0 /\ zombie' = zombie - 1 /\ running' = running
    BY WorkerMoves DEF Reap, ChildInv
<1>2. Waiting' = Waiting \ {w} /\ w \in Waiting
    BY <1>1 DEF Waiting
<1>3. Cardinality(Waiting') = Cardinality(Waiting) - 1
    BY <1>2, FS_Subset, FS_RemoveElement, WorkersAreFinite DEF Waiting
<1>4. QED
    BY <1>1, <1>3 DEF ChildInv

\* No other statement of a worker leads to Wait(NULL) or away from it.
LEMMA WorkerKeepsChildren ==
  ASSUME ChildInv, NEW w \in Worker, WorkerStep(w)
  PROVE  ChildInv'
<1>1. CASE ServeDynamic(w)
    BY <1>1, ForkStep
<1>2. CASE Reap(w)
    BY <1>2, ReapStep
<1>3. ASSUME NEW from, NEW to, Step(w, from, to), from # "wait", to # "wait", cgi' = cgi
      PROVE  ChildInv'
  <2>1. DOMAIN pc' = Thread /\ \A v \in Worker : pc'[v] = "wait" <=> pc[v] = "wait"
      BY <1>3, WorkerMoves DEF ChildInv
  <2>2. QED
      BY <1>3, <2>1, ChildrenStay
<1>4. CASE ServeFails(w) \/ CloseAgain(w)
    BY <1>4, ChildrenStay DEF ServeFails, CloseAgain, Down, ChildInv
<1>5. CASE LockSlot(w) \/ CheckEmpty(w) \/ WaitNotEmpty(w) \/ WorkerAwake(w)
           \/ SignalNotFull(w) \/ UnlockSlot(w)
    BY <1>3, <1>5
    DEF LockSlot, CheckEmpty, WaitNotEmpty, WorkerAwake, SignalNotFull, UnlockSlot, Lock,
        Unlock, Branch
<1>6. CASE Peek(w) \/ PopTest(w) \/ PopLoad1(w) \/ PopLoad2(w) \/ PopStore(w)
           \/ PopEmpty(w) \/ PopTail(w)
    BY <1>3, <1>6
    DEF Peek, PopTest, PopLoad1, PopLoad2, PopStore, PopEmpty, PopTail, Load, Store, Branch
<1>7. CASE Count(w) \/ CountKind(w) \/ HistInc(w) \/ WorkInc(w) \/ WaitDec(w)
    BY <1>3, <1>7
    DEF Count, CountKind, LoadStat, StoreStat, HistInc, WorkInc, WaitDec, Bump, Load, Store
<1>8. CASE ServeStatic(w) \/ Close(w) \/ WorkDec(w)
    BY <1>3, <1>8 DEF ServeStatic, Close, WorkDec, Bump, Load, Store
<1>9. QED
    BY <1>1, <1>2, <1>4, <1>5, <1>6, <1>7, <1>8 DEF WorkerStep, HandleRequest

\* What the environment does besides ending a child moves nobody.
LEMMA ChildExitsStep ==
  ASSUME ChildInv, ChildExits
  PROVE  ChildInv'
<1>1. pc' = pc /\ running > 0 /\ running' = running - 1 /\ zombie' = zombie + 1
    BY DEF ChildExits
<1>2. Waiting' = Waiting
    BY <1>1 DEF Waiting
<1>3. QED
    BY <1>1, <1>2 DEF ChildInv

LEMMA NextChildInv == ChildInv /\ [Next]_vars => ChildInv'
<1> SUFFICES ASSUME ChildInv, [Next]_vars PROVE ChildInv'
    OBVIOUS
<1>1. CASE Accept \/ MasterStep
    BY <1>1, MasterAlone, ChildrenStay DEF ChildInv
<1>2. CASE \E w \in Worker : WorkerStep(w)
    BY <1>2, WorkerKeepsChildren
<1>3. CASE ChildExits
    BY <1>3, ChildExitsStep
<1>4. CASE SpuriousWakeup \/ Segv \/ UNCHANGED vars
    BY <1>4, ChildrenStay DEF SpuriousWakeup, Segv, Down, vars, ChildInv
<1>5. QED
    BY <1>1, <1>2, <1>3, <1>4 DEF Next

LEMMA ChildInvMatches == ChildInv => ChildrenMatchWaiters
BY DEF ChildInv, ChildrenMatchWaiters, Waiting

\* requestServeDynamic (request.c 119-126, cs537.c Wait): every worker in
\* Wait(NULL) is owed a child, so the call never fails, for any pool, although
\* a worker may reap the child another one forked.
THEOREM ChildrenMatchWaitersHolds == Spec => []ChildrenMatchWaiters
<1>1. Init => ChildInv
    BY InitChildInv DEF Init
<1>2. QED
    BY <1>1, NextChildInv, ChildInvMatches, PTL DEF Spec

-----------------------------------------------------------------------------
(* Types.                                                                  *)

LEMMA LeastElement ==
  ASSUME NEW S, S \subseteq Nat, S # {}
  PROVE  \E x \in S : \A y \in S : x <= y
<1> DEFINE Less == {ss \in Nat \X Nat : ss[1] < ss[2]}
<1>1. IsWellFoundedOn(Less, Nat)
    BY NatLessThanWellFounded DEF OpToRel
<1> HIDE DEF Less
<1>2. PICK x \in S : \A y \in S : ~ (<<y, x>> \in Less)
    BY <1>1, WFMin
<1>3. \A y \in S : ~(y < x)
    BY <1>2 DEF Less
<1>4. QED
    BY <1>3

Label == MasterLabel \cup WorkerLabel
Memory == [next : [Node -> Link], tail : Node \cup {NULL}, buffer_wait_num : Int,
           buffer_work_num : Int, buffer_head_hist : Int, sched_alg_code : 0..2]
Counter == {"buffer_wait_num", "buffer_work_num", "buffer_head_hist"}

\* Between the load and the store of x += d the thread holds a number.
Halfway == {"wait_inc_st", "hist_inc_st", "work_inc_st", "wait_dec_st", "work_dec_st"}

\* In the body of queue_push's loop the search may still go on.
InLoop == {"walk_size", "walk_on"}

\* A descriptor that is open was given to some connection.
OpenWasAccepted == \A f \in OpenFds : \E n \in 1..Len(fd) : fd[n] = f

DataTypes ==
  /\ not_empty \subseteq Worker /\ not_full \in BOOLEAN
  /\ mem \in Memory
  /\ fd \in Seq(Fd) /\ owner \in [Fd -> Node] /\ OpenWasAccepted
  /\ node \in [Worker -> Node]
  /\ search \in [tmp : Node \cup {NULL}, room : Nat]
  /\ running \in Nat /\ zombie \in Nat

TypeInv ==
  /\ DataTypes
  /\ pc \in [Thread -> Label] /\ reg \in [Thread -> Int \cup Link]
  /\ \A t \in Thread : pc[t] \in Halfway => reg[t] \in Int
  /\ pc[master] \in InLoop => search.room > 0
  /\ server \in {"up", "segv", "exit"}

LEMMA TypeInvIsTypeOK ==
  ASSUME SlotInv(Slot), ListInv, TypeInv
  PROVE  TypeOK
BY DEF SlotInv, SlotTypes, ListInv, ListTypes, TypeInv, DataTypes, TypeOK, Label, Memory

\* How a step of t looks to the types.
LEMMA TypeStep ==
  ASSUME TypeInv, NEW t \in Thread, NEW from, NEW to \in Label, Step(t, from, to), DataTypes',
         NEW v \in Int \cup Link, reg' = reg \/ reg' = [reg EXCEPT ![t] = v],
         to \in Halfway => reg' = [reg EXCEPT ![t] = v] /\ v \in Int,
         t = master /\ to \in InLoop => search'.room > 0,
         t # master => search' = search
  PROVE  TypeInv'
<1>1. /\ pc' = [pc EXCEPT ![t] = to] /\ pc' \in [Thread -> Label] /\ reg' \in [Thread -> Int \cup Link]
      /\ server' = server /\ master \in Thread
    BY MasterIsThread DEF Step, Goto, At, TypeInv
<1>2. \A u \in Thread : pc'[u] \in Halfway => reg'[u] \in Int
    BY <1>1 DEF TypeInv
<1>3. pc'[master] \in InLoop => search'.room > 0
    BY <1>1 DEF TypeInv
<1>4. QED
    BY <1>1, <1>2, <1>3 DEF TypeInv

LEMMA DataStay ==
  ASSUME DataTypes, UNCHANGED <<mem, not_empty, not_full, fd, owner, node, search, cgi>>
  PROVE  DataTypes'
BY DEF DataTypes, OpenWasAccepted, OpenFds, cgi

LEMMA PlainTypes ==
  ASSUME TypeInv, NEW t \in Thread, NEW from, NEW to \in Label, Step(t, from, to), DataTypes',
         reg' = reg, to \notin Halfway,
         t = master /\ to \in InLoop => search'.room > 0,
         t # master => search' = search
  PROVE  TypeInv'
BY TypeStep, 0 \in Int

LEMMA LoadTypes ==
  ASSUME TypeInv, NEW t \in Thread, NEW from, NEW to \in Label, NEW v \in Int \cup Link,
         Load(t, from, to, v), to \in Halfway => v \in Int, to \notin InLoop
  PROVE  TypeInv'
<1>1. /\ Step(t, from, to) /\ reg' = [reg EXCEPT ![t] = v] /\ search' = search
      /\ UNCHANGED <<mem, not_empty, not_full, fd, owner, node, search, cgi>>
    BY DEF Load, sync, conns
<1>2. DataTypes'
    BY <1>1, DataStay DEF TypeInv
<1>3. QED
    BY <1>1, <1>2, TypeStep

LEMMA StoreTypes ==
  ASSUME TypeInv, NEW t \in Thread, NEW from, NEW to \in Label, NEW m \in Memory,
         Store(t, from, to, m), to \notin Halfway, to \notin InLoop
  PROVE  TypeInv'
<1>1. /\ Step(t, from, to) /\ reg' = [reg EXCEPT ![t] = 0] /\ search' = search /\ mem' = m
      /\ UNCHANGED <<not_empty, not_full, fd, owner, node, search, cgi>>
    BY DEF Store, sync, conns
<1>2. DataTypes'
    BY <1>1 DEF TypeInv, DataTypes, OpenWasAccepted, OpenFds, cgi
<1>3. QED
    BY <1>1, <1>2, TypeStep, 0 \in Int

LEMMA BranchTypes ==
  ASSUME TypeInv, NEW t \in Thread, NEW from, NEW test, NEW yes \in Label, NEW no \in Label,
         Branch(t, from, test, yes, no), yes \notin Halfway, no \notin Halfway,
         yes \in InLoop /\ t = master => (test => search.room > 0), no \notin InLoop
  PROVE  TypeInv'
<1>1. PICK to \in {yes, no} : Step(t, from, to) /\ ((to = yes /\ test) \/ to = no)
    BY DEF Branch
<1>2. UNCHANGED <<mem, not_empty, not_full, fd, owner, node, search, cgi, reg>>
    BY DEF Branch, sync, conns, local
<1>3. DataTypes'
    BY <1>2, DataStay DEF TypeInv
<1>4. QED
    BY <1>1, <1>2, <1>3, PlainTypes

LEMMA LockTypes ==
  ASSUME TypeInv, NEW t \in Thread, NEW from, NEW to \in Label, NEW l,
         Lock(t, from, to, l) \/ Unlock(t, from, to, l), to \notin Halfway, to \notin InLoop
  PROVE  TypeInv'
<1>1. Step(t, from, to)
    BY DEF Lock, Unlock
<1>2. UNCHANGED <<mem, not_empty, not_full, fd, owner, node, search, cgi, reg>>
    BY DEF Lock, Unlock, conns, local
<1>3. DataTypes'
    BY <1>2, DataStay DEF TypeInv
<1>4. QED
    BY <1>1, <1>2, <1>3, PlainTypes

LEMMA BumpTypes ==
  ASSUME TypeInv, NEW t \in Thread, NEW from, NEW halfway \in Halfway, NEW to \in Label,
         NEW x \in Counter, NEW d \in Int, Bump(t, from, halfway, to, x, d),
         to \notin Halfway, to \notin InLoop
  PROVE  TypeInv'
<1>1. CASE Load(t, from, halfway, mem[x])
  <2>1. mem[x] \in Int
      BY DEF TypeInv, DataTypes, Memory, Counter
  <2>2. halfway \in Label /\ halfway \notin InLoop
      BY DEF Halfway, Label, MasterLabel, WorkerLabel, InLoop
  <2>3. QED
      BY <1>1, <2>1, <2>2, LoadTypes
<1>2. CASE Store(t, halfway, to, [mem EXCEPT ![x] = reg[t] + d])
  <2>1. pc[t] = halfway
      BY <1>2 DEF Store, Step, At
  <2>2. reg[t] + d \in Int
      BY <2>1 DEF TypeInv
  <2>3. [mem EXCEPT ![x] = reg[t] + d] \in Memory
      BY <2>2 DEF TypeInv, DataTypes, Memory, Counter
  <2>4. QED
      BY <1>2, <2>3, StoreTypes
<1>3. QED
    BY <1>1, <1>2 DEF Bump

\* What a step may write into the memory, and what it finds there.
LEMMA MemoryTypes ==
  ASSUME TypeInv, ListInv
  PROVE  /\ \A a, p : p \in Link => [mem EXCEPT !.next[a] = p] \in Memory
         /\ \A p \in Node \cup {NULL} : [mem EXCEPT !.tail = p] \in Memory
         /\ \A p : Points(p) => p \in Node \cup {NULL}
         /\ \A n \in Node : mem.next[n] \in Link
         /\ mem.tail \in Link /\ new \in Node /\ new \in Link /\ head \in Node
         /\ Link \subseteq Int \cup Link /\ Node \cup {NULL} \subseteq Link
         /\ mem.buffer_work_num \in Int /\ mem \in Memory
<1>1. mem \in Memory /\ new \in Node /\ head \in Node
    BY NewIsNode, ServerAssumption DEF TypeInv, DataTypes, head, Node
<1>2. Node \cup {NULL} \subseteq Link
    BY DEF Link
<1>3. \A a, p : p \in Link => [mem EXCEPT !.next[a] = p] \in Memory
    BY <1>1 DEF Memory
<1>4. \A p \in Node \cup {NULL} : [mem EXCEPT !.tail = p] \in Memory
    BY <1>1 DEF Memory
<1>5. /\ \A n \in Node : mem.next[n] \in Link
      /\ mem.tail \in Link /\ mem.buffer_work_num \in Int
    BY <1>1, <1>2 DEF Memory
<1>6. \A p : Points(p) => p \in Node \cup {NULL}
    BY DEF Points, Complete
<1>7. QED
    BY <1>1, <1>2, <1>3, <1>4, <1>5, <1>6

LEMMA PreProcessTypes ==
  ASSUME TypeInv, ListInv, PreProcess
  PROVE  TypeInv'
<1>1. PICK to \in {"fifo_tail", "walk_next"} : Step(master, "preprocess", to)
    BY DEF PreProcess
<1>2. UNCHANGED <<not_empty, not_full, fd, owner, node, cgi, reg>>
    BY DEF PreProcess, sync
<1>3. mem' \in Memory
    BY MemoryTypes, NULL \in Link DEF PreProcess, Link
<1>4. search' \in [tmp : Node \cup {NULL}, room : Nat]
  <2>1. sff_bs_value - (mem.buffer_head_hist % sff_bs_value) - 1 \in Nat
    <3>1. mem.buffer_head_hist \in Int /\ sff_bs_value \in Nat /\ sff_bs_value > 0
        BY ServerAssumption DEF TypeInv, DataTypes, Memory
    <3>2. mem.buffer_head_hist % sff_bs_value \in 0..(sff_bs_value - 1)
        BY <3>1
    <3>3. QED
        BY <3>1, <3>2
  <2>2. NEVER \in Nat
      BY ServerAssumption DEF NEVER
  <2>3. QED
      BY <2>1, <2>2, MemoryTypes DEF PreProcess
<1>5. DataTypes'
    BY <1>2, <1>3, <1>4 DEF TypeInv, DataTypes, OpenWasAccepted, OpenFds, cgi
<1>6. to \in Label /\ to \notin Halfway /\ to \notin InLoop
    BY DEF Label, MasterLabel, Halfway, InLoop
<1>7. QED
    BY <1>1, <1>2, <1>5, <1>6, PlainTypes, MasterIsThread

LEMMA PushTypes ==
  ASSUME TypeInv, ListInv, QueuePush
  PROVE  TypeInv'
<1> USE MasterIsThread
<1>0. /\ search.tmp # NULL => search.tmp \in Node /\ Points(mem.next[search.tmp])
      /\ pc[master] \in Loaded => Points(reg[master])
      /\ pc[master] \in OnNode => search.tmp # NULL
    BY PartsPoint DEF Points, Complete, ListInv, PushInOrder
<1>1. \A to \in {"fifo_link", "fifo_tail2", "fifo_next", "fifo_settail", "wait_inc",
                 "sff_link", "sff_next2", "sff_last", "sff_next3", "sff_settail",
                 "sff_next", "walk_next"} :
        to \in Label /\ to \notin Halfway /\ to \notin InLoop
    BY DEF Label, MasterLabel, Halfway, InLoop
<1>2. \A to \in InLoop : to \in Label /\ to \notin Halfway
    BY DEF Label, MasterLabel, Halfway, InLoop
<1>3. CASE PreProcess
    BY <1>3, PreProcessTypes
<1>4. CASE PreProcessFails
    BY <1>4, DataStay DEF PreProcessFails, Down, TypeInv, sync, conns, local
<1>5. CASE FifoTail
    BY <1>5, <1>1, MemoryTypes, LoadTypes DEF FifoTail
<1>6. CASE FifoLink
  <2>1. PICK m \in Memory : m = [mem EXCEPT !.next[reg[master]] = new]
      BY MemoryTypes
  <2>2. Store(master, "fifo_link", "fifo_tail2", m)
      BY <1>6, <2>1 DEF FifoLink
  <2>3. QED
      BY <2>2, <1>1, StoreTypes
<1>7. CASE FifoTail2
    BY <1>7, <1>1, MemoryTypes, LoadTypes DEF FifoTail2
<1>8. CASE FifoNext
  <2>1. reg[master] \in Node
      BY <1>8, <1>0 DEF FifoNext, Load, Step, At, Loaded, Points, Complete
  <2>2. PICK v \in Int \cup Link : v = mem.next[reg[master]]
      BY <2>1, MemoryTypes
  <2>3. Load(master, "fifo_next", "fifo_settail", v)
      BY <1>8, <2>2 DEF FifoNext
  <2>4. QED
      BY <2>3, <1>1, LoadTypes
<1>9. CASE FifoSetTail
  <2>1. reg[master] \in Node \cup {NULL}
      BY <1>9, <1>0, MemoryTypes DEF FifoSetTail, Store, Step, At, Loaded
  <2>2. PICK m \in Memory : m = [mem EXCEPT !.tail = reg[master]]
      BY <2>1, MemoryTypes
  <2>3. QED
      BY <1>9, <2>2, <1>1, StoreTypes DEF FifoSetTail
<1>10. CASE WalkNext
  <2>1. PICK test : /\ Branch(master, "walk_next", test, "walk_size", "sff_next")
                    /\ test => search.room > 0
      BY <1>10 DEF WalkNext
  <2>2. /\ "walk_size" \in Label /\ "walk_size" \notin Halfway
      BY <1>2 DEF InLoop
  <2>3. QED
      BY <2>1, <2>2, <1>1, BranchTypes
<1>11. CASE WalkSize
  <2>1. PICK test : Branch(master, "walk_size", test, "walk_on", "sff_next")
      BY <1>11 DEF WalkSize
  <2>2. pc[master] \in InLoop
      BY <1>11 DEF WalkSize, At, InLoop
  <2>3. "walk_on" \in Label /\ "walk_on" \notin Halfway /\ search.room > 0
      BY <2>2, <1>2 DEF InLoop, TypeInv
  <2>4. QED
      BY <2>1, <2>3, <1>1, BranchTypes
<1>12. CASE WalkOn
  <2>1. /\ Step(master, "walk_on", "walk_next") /\ pc[master] = "walk_on"
        /\ UNCHANGED <<mem, not_empty, not_full, fd, owner, node, cgi, reg>>
        /\ search' = [tmp |-> mem.next[search.tmp], room |-> search.room - 1]
      BY <1>12 DEF WalkOn, Step, At, sync, conns
  <2>2. mem.next[search.tmp] \in Node \cup {NULL}
      BY <2>1, <1>0, MemoryTypes DEF OnNode
  <2>3. search.room \in Nat /\ search.room > 0
      BY <2>1 DEF TypeInv, DataTypes, InLoop
  <2>4. search' \in [tmp : Node \cup {NULL}, room : Nat]
      BY <2>1, <2>2, <2>3
  <2>5. DataTypes'
      BY <2>1, <2>4 DEF TypeInv, DataTypes, OpenWasAccepted, OpenFds, cgi
  <2>6. QED
      BY <2>1, <2>5, <1>1, PlainTypes
<1>13. CASE SffNext
  <2>1. PICK m \in Memory : m = [mem EXCEPT !.next[new] = mem.next[search.tmp]]
      BY <1>13, <1>0, MemoryTypes DEF SffNext
  <2>2. Store(master, "sff_next", "sff_link", m)
      BY <1>13, <2>1 DEF SffNext
  <2>3. QED
      BY <2>2, <1>1, StoreTypes
<1>14. CASE SffLink
  <2>1. PICK m \in Memory : m = [mem EXCEPT !.next[search.tmp] = new]
      BY MemoryTypes
  <2>2. Store(master, "sff_link", "sff_next2", m)
      BY <1>14, <2>1 DEF SffLink
  <2>3. QED
      BY <2>2, <1>1, StoreTypes
<1>15. CASE SffNext2 \/ SffNext3
  <2>1. pc[master] \in OnNode
      BY <1>15 DEF SffNext2, SffNext3, Load, Step, At, OnNode
  <2>2. PICK v \in Int \cup Link : v = mem.next[search.tmp]
      BY <2>1, <1>0, MemoryTypes
  <2>3. \/ Load(master, "sff_next2", "sff_last", v)
        \/ Load(master, "sff_next3", "sff_settail", v)
      BY <1>15, <2>2 DEF SffNext2, SffNext3
  <2>4. QED
      BY <2>3, <1>1, LoadTypes
<1>16. CASE SffLast
  <2>1. PICK test : Branch(master, "sff_last", test, "sff_next3", "wait_inc")
      BY <1>16 DEF SffLast
  <2>2. QED
      BY <2>1, <1>1, BranchTypes
<1>17. CASE SffSetTail
  <2>1. reg[master] \in Node \cup {NULL}
      BY <1>17, <1>0, MemoryTypes DEF SffSetTail, Store, Step, At, Loaded
  <2>2. PICK m \in Memory : m = [mem EXCEPT !.tail = reg[master]]
      BY <2>1, MemoryTypes
  <2>3. QED
      BY <1>17, <2>2, <1>1, StoreTypes DEF SffSetTail
<1>18. QED
    BY <1>3, <1>4, <1>5, <1>6, <1>7, <1>8, <1>9, <1>10, <1>11, <1>12, <1>13, <1>14,
       <1>15, <1>16, <1>17 DEF QueuePush

\* There is a descriptor to give: each open one was given to a connection, and
\* fewer were accepted than there are descriptors.
LEMMA DescriptorIsFree ==
  ASSUME TypeInv, accepted < MaxConn
  PROVE  Min(Fd \ OpenFds) \in Fd \ OpenFds
<1>1. fd \in [1..Len(fd) -> Fd] /\ Len(fd) \in Nat
    BY DEF TypeInv, DataTypes
<1>2. Fd \ OpenFds # {}
  <2>1. SUFFICES ASSUME Fd \subseteq OpenFds PROVE FALSE
      OBVIOUS
  <2>2. fd \in Surjection(1..Len(fd), Fd)
      BY <1>1, <2>1 DEF Surjection, TypeInv, DataTypes, OpenWasAccepted
  <2>3. IsFiniteSet(1..Len(fd)) /\ Cardinality(1..Len(fd)) = Len(fd)
    <3>1. \A n \in Nat : IsFiniteSet(1..n) /\ Cardinality(1..n) = n
        BY FS_Interval
    <3>2. QED
        BY <1>1, <3>1
  <2>4. Cardinality(Fd) <= Len(fd)
      BY <2>2, <2>3, FS_Surjection
  <2>5. Cardinality(Fd) = MaxConn
      BY FS_Interval, ServerAssumption DEF Fd
  <2>6. QED
      BY <2>4, <2>5, <1>1, ServerAssumption DEF accepted
<1>3. Fd \ OpenFds \subseteq Nat
    BY DEF Fd
<1>4. \E x \in Fd \ OpenFds : \A y \in Fd \ OpenFds : x <= y
    BY <1>2, <1>3, LeastElement
<1>5. QED
    BY <1>4 DEF Min

LEMMA AcceptTypes ==
  ASSUME TypeInv, Accept
  PROVE  TypeInv'
<1>1. /\ Step(master, "accept", "lock") /\ accepted < MaxConn
      /\ UNCHANGED <<mem, not_empty, not_full, node, reg, search, cgi>>
    BY DEF Accept, sync, local
<1>2. PICK f \in Fd \ OpenFds : /\ fd' = Append(fd, f)
                               /\ owner' = [owner EXCEPT ![f] = accepted + 1]
    BY <1>1, DescriptorIsFree DEF Accept
<1>3. fd \in Seq(Fd) /\ Len(fd) \in Nat /\ owner \in [Fd -> Node]
    BY DEF TypeInv, DataTypes
<1>4. /\ fd' \in Seq(Fd) /\ Len(fd') = Len(fd) + 1 /\ fd'[Len(fd) + 1] = f
      /\ \A n \in 1..Len(fd) : fd'[n] = fd[n]
    BY <1>2, <1>3
<1>5. owner' \in [Fd -> Node]
    BY <1>1, <1>2, <1>3, ServerAssumption DEF accepted, Node
<1>6. OpenWasAccepted'
  <2> SUFFICES ASSUME NEW g \in OpenFds' PROVE \E n \in 1..Len(fd') : fd'[n] = g
      BY DEF OpenWasAccepted
  <2>1. CASE g = f
      BY <2>1, <1>3, <1>4
  <2>2. CASE g # f
    <3>1. g \in OpenFds
        BY <2>2, <1>2, <1>3 DEF OpenFds
    <3>2. QED
        BY <3>1, <1>3, <1>4 DEF TypeInv, DataTypes, OpenWasAccepted
  <2>3. QED
      BY <2>1, <2>2
<1>7. DataTypes'
    BY <1>1, <1>4, <1>5, <1>6 DEF TypeInv, DataTypes, cgi
<1>8. "lock" \in Label /\ "lock" \notin Halfway /\ "lock" \notin InLoop
    BY DEF Label, MasterLabel, Halfway, InLoop
<1>9. QED
    BY <1>1, <1>7, <1>8, PlainTypes, MasterIsThread

LEMMA MasterTypes ==
  ASSUME TypeInv, ListInv, MasterStep
  PROVE  TypeInv'
<1> USE MasterIsThread
<1>1. \A to \in {"check_work", "check_wait", "sleep", "blocked", "preprocess", "signal",
                 "unlock", "accept"} :
        to \in Label /\ to \notin Halfway /\ to \notin InLoop
    BY DEF Label, MasterLabel, Halfway, InLoop
<1>2. CASE LockMutex
    BY <1>2, <1>1, LockTypes DEF LockMutex
<1>3. CASE CheckWork
    BY <1>3, <1>1, LoadTypes, MemoryTypes DEF CheckWork
<1>4. CASE CheckWait
  <2>1. PICK test : Branch(master, "check_wait", test, "sleep", "preprocess")
      BY <1>4 DEF CheckWait
  <2>2. QED
      BY <2>1, <1>1, BranchTypes
<1>5. CASE WaitNotFull
  <2>1. /\ Step(master, "sleep", "blocked") /\ not_full' = TRUE
        /\ UNCHANGED <<mem, not_empty, fd, owner, node, search, cgi, reg>>
      BY <1>5 DEF WaitNotFull, conns, local
  <2>2. DataTypes'
      BY <2>1 DEF TypeInv, DataTypes, OpenWasAccepted, OpenFds, cgi
  <2>3. QED
      BY <2>1, <2>2, <1>1, PlainTypes
<1>6. CASE MasterAwake
    BY <1>6, <1>1, LockTypes DEF MasterAwake
<1>7. CASE QueuePush
    BY <1>7, PushTypes
<1>8. CASE WaitInc
  <2>1. "wait_inc_st" \in Halfway /\ "buffer_wait_num" \in Counter /\ 1 \in Int
      BY DEF Halfway, Counter
  <2>2. QED
      BY <1>8, <2>1, <1>1, BumpTypes DEF WaitInc
<1>9. CASE SignalNotEmpty
  <2>1. /\ Step(master, "signal", "unlock") /\ search' = NoSearch
        /\ not_empty' \subseteq not_empty
        /\ UNCHANGED <<mem, not_full, fd, owner, node, cgi, reg>>
      BY <1>9 DEF SignalNotEmpty, conns
  <2>2. search' \in [tmp : Node \cup {NULL}, room : Nat]
      BY <2>1, MemoryTypes DEF NoSearch
  <2>3. DataTypes'
      BY <2>1, <2>2 DEF TypeInv, DataTypes, OpenWasAccepted, OpenFds, cgi
  <2>4. QED
      BY <2>1, <2>3, <1>1, PlainTypes
<1>10. CASE UnlockMutex
    BY <1>10, <1>1, LockTypes DEF UnlockMutex
<1>11. QED
    BY <1>2, <1>3, <1>4, <1>5, <1>6, <1>7, <1>8, <1>9, <1>10 DEF MasterStep

LEMMA PopTypes ==
  ASSUME TypeInv, ListInv, NEW w \in Worker,
         Peek(w) \/ PopTest(w) \/ PopLoad1(w) \/ PopLoad2(w) \/ PopStore(w)
           \/ PopEmpty(w) \/ PopTail(w)
  PROVE  TypeInv'
<1> USE WorkerIsNotMaster
<1>0. pc[w] \in Loaded => Points(reg[w])
    BY PartsPoint
<1>1. \A to \in {"pop_test", "pop_load1", "pop_load2", "pop_store", "pop_empty", "pop_tail",
                 "count"} :
        to \in Label /\ to \notin Halfway /\ to \notin InLoop
    BY DEF Label, WorkerLabel, Halfway, InLoop
<1>2. CASE Peek(w)
  <2>1. /\ Step(w, "peek", "pop_test") /\ mem.next[head] # NULL
        /\ node' = [node EXCEPT ![w] = mem.next[head]]
        /\ UNCHANGED <<mem, not_empty, not_full, fd, owner, search, cgi, reg>>
      BY <1>2 DEF Peek, sync, conns
  <2>2. mem.next[head] \in Node
    <3>1. head \in Node /\ Complete(head)
        BY ServerAssumption DEF ListInv, LinksComplete, Complete, head, Node
    <3>2. Points(mem.next[head])
        BY <3>1, PartsPoint
    <3>3. QED
        BY <2>1, <3>2 DEF Points, Complete
  <2>3. DataTypes'
      BY <2>1, <2>2 DEF TypeInv, DataTypes, OpenWasAccepted, OpenFds, cgi
  <2>4. QED
      BY <2>1, <2>3, <1>1, PlainTypes
<1>3. CASE PopTest(w)
  <2>1. PICK test : Branch(w, "pop_test", test, "pop_load1", "count")
      BY <1>3 DEF PopTest
  <2>2. QED
      BY <2>1, <1>1, BranchTypes
<1>4. CASE PopLoad1(w)
    BY <1>4, <1>1, MemoryTypes, LoadTypes DEF PopLoad1
<1>5. CASE PopLoad2(w)
  <2>1. reg[w] \in Node
      BY <1>5, <1>0 DEF PopLoad2, Load, Step, At, Loaded, Points, Complete
  <2>2. PICK v \in Int \cup Link : v = mem.next[reg[w]]
      BY <2>1, MemoryTypes
  <2>3. Load(w, "pop_load2", "pop_store", v)
      BY <1>5, <2>2 DEF PopLoad2
  <2>4. QED
      BY <2>3, <1>1, LoadTypes
<1>6. CASE PopStore(w)
  <2>1. reg[w] \in Link
      BY <1>6, <1>0, MemoryTypes DEF PopStore, Store, Step, At, Loaded
  <2>2. PICK m \in Memory : m = [mem EXCEPT !.next[head] = reg[w]]
      BY <2>1, MemoryTypes
  <2>3. Store(w, "pop_store", "pop_empty", m)
      BY <1>6, <2>2 DEF PopStore
  <2>4. QED
      BY <2>3, <1>1, StoreTypes
<1>7. CASE PopEmpty(w)
  <2>1. PICK test : Branch(w, "pop_empty", test, "pop_tail", "count")
      BY <1>7 DEF PopEmpty
  <2>2. QED
      BY <2>1, <1>1, BranchTypes
<1>8. CASE PopTail(w)
  <2>1. PICK m \in Memory : m = [mem EXCEPT !.tail = head]
      BY MemoryTypes
  <2>2. QED
      BY <1>8, <2>1, <1>1, StoreTypes DEF PopTail
<1>9. QED
    BY <1>2, <1>3, <1>4, <1>5, <1>6, <1>7, <1>8

LEMMA StatTypes ==
  ASSUME TypeInv, SlotTypes, NEW w \in Worker, Count(w) \/ CountKind(w)
  PROVE  TypeInv'
<1> USE WorkerIsNotMaster
<1>1. \A to \in {"count_st", "count_kind", "static_st", "dynamic_st", "hist_inc"} :
        to \in Label /\ to \notin Halfway /\ to \notin InLoop
    BY DEF Label, WorkerLabel, Halfway, InLoop
<1>2. ASSUME NEW from, NEW to \in {"count_st", "static_st", "dynamic_st"},
             NEW x \in {"count", "static", "dynamic"}, LoadStat(w, from, to, x)
      PROVE  TypeInv'
  <2>1. stat[th_index[w]] \in [count : Nat, static : Nat, dynamic : Nat]
      BY DEF SlotTypes
  <2>2. stat[th_index[w]][x] \in Int
      BY <2>1
  <2>3. Load(w, from, to, stat[th_index[w]][x])
      BY <1>2 DEF LoadStat
  <2>4. QED
      BY <2>2, <2>3, <1>1, LoadTypes
<1>3. ASSUME NEW from, NEW to \in {"count_kind", "hist_inc"}, NEW x, StoreStat(w, from, to, x)
      PROVE  TypeInv'
  <2>1. /\ Step(w, from, to) /\ reg' = [reg EXCEPT ![w] = 0] /\ search' = search
        /\ UNCHANGED <<mem, not_empty, not_full, fd, owner, node, search, cgi>>
      BY <1>3 DEF StoreStat, sync, conns
  <2>2. DataTypes'
      BY <2>1, DataStay DEF TypeInv
  <2>3. QED
      BY <2>1, <2>2, <1>1, TypeStep, 0 \in Int
<1>4. CASE Count(w)
    BY <1>2, <1>3, <1>4 DEF Count
<1>5. CASE CountKind(w)
    BY <1>2, <1>3, <1>5 DEF CountKind
<1>6. QED
    BY <1>4, <1>5

LEMMA ServeTypes ==
  ASSUME TypeInv, NEW w \in Worker,
         ServeStatic(w) \/ ServeDynamic(w) \/ Reap(w) \/ Close(w)
  PROVE  TypeInv'
<1> USE WorkerIsNotMaster
<1>1. \A to \in {"close", "wait", "work_dec"} :
        to \in Label /\ to \notin Halfway /\ to \notin InLoop
    BY DEF Label, WorkerLabel, Halfway, InLoop
<1>2. reg' = reg /\ search' = search /\ UNCHANGED <<mem, not_empty, not_full, fd>>
    BY DEF ServeStatic, ServeDynamic, Reap, Close, sync, conns, local
<1>3. CASE ServeStatic(w)
  <2>1. UNCHANGED <<owner, node, cgi>> /\ Step(w, "serve", "close")
      BY <1>3 DEF ServeStatic, conns, local
  <2>2. DataTypes'
      BY <2>1, <1>2, DataStay DEF TypeInv
  <2>3. QED
      BY <2>1, <2>2, <1>1, <1>2, PlainTypes
<1>4. CASE ServeDynamic(w) \/ Reap(w)
  <2>1. UNCHANGED <<owner, node>>
      BY <1>4 DEF ServeDynamic, Reap, conns, local
  <2>2. Step(w, "serve", "wait") \/ Step(w, "wait", "close")
      BY <1>4 DEF ServeDynamic, Reap
  <2>3. running' \in Nat /\ zombie' \in Nat
      BY <1>4 DEF ServeDynamic, Reap, TypeInv, DataTypes
  <2>4. DataTypes'
      BY <2>1, <2>3, <1>2 DEF TypeInv, DataTypes, OpenWasAccepted, OpenFds
  <2>5. QED
      BY <2>2, <2>4, <1>1, <1>2, PlainTypes
<1>5. CASE Close(w)
  <2>1. /\ Step(w, "close", "work_dec") /\ UNCHANGED cgi
        /\ owner' = [owner EXCEPT ![connfd(w)] = NOBODY]
        /\ node' = [node EXCEPT ![w] = head]
      BY <1>5 DEF Close
  <2>2. NOBODY \in Node /\ head \in Node
      BY ServerAssumption DEF NOBODY, head, Node
  <2>3. owner' \in [Fd -> Node] /\ node' \in [Worker -> Node] /\ OpenFds' \subseteq OpenFds
      BY <2>1, <2>2 DEF TypeInv, DataTypes, OpenFds
  <2>4. DataTypes'
      BY <2>1, <2>3, <1>2 DEF TypeInv, DataTypes, OpenWasAccepted, cgi
  <2>5. QED
      BY <2>1, <2>4, <1>1, <1>2, PlainTypes
<1>6. QED
    BY <1>3, <1>4, <1>5

LEMMA WorkerTypes ==
  ASSUME TypeInv, ListInv, SlotTypes, NEW w \in Worker, WorkerStep(w)
  PROVE  TypeInv'
<1> USE WorkerIsNotMaster
<1>1. \A to \in {"check", "sleep", "peek", "blocked", "lock", "unlock", "signal", "work_inc",
                 "wait_dec", "serve"} :
        to \in Label /\ to \notin Halfway /\ to \notin InLoop
    BY DEF Label, WorkerLabel, Halfway, InLoop
<1>2. CASE LockSlot(w) \/ WorkerAwake(w) \/ UnlockSlot(w)
    BY <1>2, <1>1, LockTypes DEF LockSlot, WorkerAwake, UnlockSlot
<1>3. CASE CheckEmpty(w)
  <2>1. PICK test : Branch(w, "check", test, "sleep", "peek")
      BY <1>3 DEF CheckEmpty
  <2>2. QED
      BY <2>1, <1>1, BranchTypes
<1>4. CASE WaitNotEmpty(w) \/ SignalNotFull(w)
  <2>1. /\ Step(w, "sleep", "blocked") \/ Step(w, "signal", "unlock")
        /\ not_empty' = not_empty \cup {w} \/ not_empty' = not_empty
        /\ not_full' = not_full \/ not_full' = FALSE
        /\ UNCHANGED <<mem, fd, owner, node, search, cgi, reg>>
      BY <1>4 DEF WaitNotEmpty, SignalNotFull, conns, local
  <2>2. DataTypes'
    <3>1. not_empty' \subseteq Worker /\ not_full' \in BOOLEAN
        BY <2>1 DEF TypeInv, DataTypes
    <3>2. QED
        BY <2>1, <3>1 DEF TypeInv, DataTypes, OpenWasAccepted, OpenFds, cgi
  <2>3. QED
      BY <2>1, <2>2, <1>1, PlainTypes
<1>5. CASE HandleRequest(w)
  <2>1. CASE Peek(w) \/ PopTest(w) \/ PopLoad1(w) \/ PopLoad2(w) \/ PopStore(w)
               \/ PopEmpty(w) \/ PopTail(w)
      BY <2>1, PopTypes
  <2>2. CASE \/ Count(w) \/ CountKind(w)
             \/ ServeStatic(w) \/ ServeDynamic(w) \/ Reap(w) \/ Close(w)
      BY <2>2, StatTypes, ServeTypes
  <2>3. CASE ServeFails(w) \/ CloseAgain(w)
      BY <2>3, DataStay DEF ServeFails, CloseAgain, Down, TypeInv, sync, conns, local
  <2>4. CASE HistInc(w) \/ WorkInc(w) \/ WaitDec(w) \/ WorkDec(w)
    <3>1. /\ {"hist_inc_st", "work_inc_st", "wait_dec_st", "work_dec_st"} \subseteq Halfway
          /\ 1 \in Int /\ -1 \in Int
        BY DEF Halfway
    <3>2. \A x \in {"buffer_wait_num", "buffer_work_num", "buffer_head_hist"} : x \in Counter
        BY DEF Counter
    <3>3. CASE HistInc(w)
        BY <3>3, <3>1, <3>2, <1>1, BumpTypes DEF HistInc
    <3>4. CASE WorkInc(w)
        BY <3>4, <3>1, <3>2, <1>1, BumpTypes DEF WorkInc
    <3>5. CASE WaitDec(w)
        BY <3>5, <3>1, <3>2, <1>1, BumpTypes DEF WaitDec
    <3>6. CASE WorkDec(w)
        BY <3>6, <3>1, <3>2, <1>1, BumpTypes DEF WorkDec
    <3>7. QED
        BY <2>4, <3>3, <3>4, <3>5, <3>6
  <2>5. QED
      BY <1>5, <2>1, <2>2, <2>3, <2>4 DEF HandleRequest
<1>6. QED
    BY <1>2, <1>3, <1>4, <1>5 DEF WorkerStep

\* No thread moves: children end, threads wake up for no reason, the process
\* ends, or nothing happens.
LEMMA OtherTypes ==
  ASSUME TypeInv, ChildExits \/ SpuriousWakeup \/ Segv \/ UNCHANGED vars
  PROVE  TypeInv'
<1>1. UNCHANGED <<pc, mem, fd, owner, node, search, reg>>
    BY DEF ChildExits, SpuriousWakeup, Segv, Down, vars, conns, local
<1>2. server' \in {"up", "segv", "exit"}
    BY DEF TypeInv, ChildExits, SpuriousWakeup, Segv, Down, vars
<1>3. not_empty' \subseteq Worker
    BY DEF TypeInv, DataTypes, ChildExits, SpuriousWakeup, Segv, Down, vars, sync
<1>4. UNCHANGED not_full \/ not_full' = FALSE
    BY DEF ChildExits, SpuriousWakeup, Segv, Down, vars, sync
<1>5. running' \in Nat /\ zombie' \in Nat
    BY DEF TypeInv, DataTypes, ChildExits, SpuriousWakeup, Segv, Down, vars, cgi
<1>6. DataTypes'
  <2>1. not_full' \in BOOLEAN
      BY <1>4 DEF TypeInv, DataTypes
  <2>2. QED
      BY <1>1, <1>3, <1>5, <2>1 DEF TypeInv, DataTypes, OpenWasAccepted, OpenFds
<1>7. QED
    BY <1>1, <1>2, <1>6 DEF TypeInv

LEMMA NextTypeInv == TypeInv /\ ListInv /\ SlotInv(Slot) /\ [Next]_vars => TypeInv'
BY AcceptTypes, MasterTypes, WorkerTypes, OtherTypes DEF Next, SlotInv

LEMMA InitTypeInv == Init => TypeInv
<1> SUFFICES ASSUME Init PROVE TypeInv
    OBVIOUS
<1> USE MasterIsThread
<1>1. head \in Node /\ NOBODY \in Node
    BY ServerAssumption DEF head, NOBODY, Node
<1>2. mem \in Memory
    BY <1>1, ServerAssumption DEF Init, InitWith, Memory, Link
<1>3. /\ not_empty \subseteq Worker /\ not_full \in BOOLEAN /\ running \in Nat /\ zombie \in Nat
      /\ fd \in Seq(Fd) /\ owner \in [Fd -> Node] /\ node \in [Worker -> Node]
  <2>1. /\ not_empty = {} /\ not_full = FALSE /\ running = 0 /\ zombie = 0 /\ fd = <<>>
        /\ owner = [f \in Fd |-> NOBODY] /\ node = [w \in Worker |-> head]
      BY DEF Init, InitWith
  <2>2. not_full \in BOOLEAN
      BY <2>1
  <2>3. fd \in Seq(Fd)
      BY <2>1
  <2>4. owner \in [Fd -> Node] /\ node \in [Worker -> Node]
      BY <2>1, <1>1
  <2>5. QED
      BY <2>1, <2>2, <2>3, <2>4
<1>4. search \in [tmp : Node \cup {NULL}, room : Nat]
    BY <1>1 DEF Init, InitWith, NoSearch
<1>5. OpenWasAccepted
    BY DEF Init, InitWith, OpenWasAccepted, OpenFds
<1>6. /\ pc \in [Thread -> Label] /\ reg \in [Thread -> Int \cup Link]
      /\ \A t \in Thread : reg[t] \in Int
      /\ pc[master] \notin InLoop /\ server = "up"
    BY DEF Init, InitWith, Label, MasterLabel, WorkerLabel, InLoop
<1>7. QED
    BY <1>2, <1>3, <1>4, <1>5, <1>6 DEF TypeInv, DataTypes

\* The types of server.c's data, for any pool, policy and number of connections.
\* That a link, a copy of a node or the search never leaves the nodes is what
\* ListInv says of pointers; that a counter always receives a number, that the
\* search's room never passes zero and that there is a descriptor to give is
\* what TypeInv adds to the types.
THEOREM TypeCorrect == Spec => []TypeOK
<1>1. Init => SlotInv(Slot) /\ ListInv /\ TypeInv
    BY InitSlots, InitListInv, InitTypeInv
<1>2. SlotInv(Slot) /\ ListInv /\ TypeInv /\ [Next]_vars => (SlotInv(Slot) /\ ListInv /\ TypeInv)'
    BY NextSlots, NextListInv, NextTypeInv
<1>3. SlotInv(Slot) /\ ListInv /\ TypeInv => TypeOK
    BY TypeInvIsTypeOK
<1>4. QED
    BY <1>1, <1>2, <1>3, PTL DEF Spec

-----------------------------------------------------------------------------
(* The history: buffer_head_hist and what the slots counted.               *)

Stats == [Slot -> [count : Nat, static : Nat, dynamic : Nat]]

\* The sums of the counts of each set of slots, and that of all.
IsSum(g, st) ==
  g = [s \in SUBSET Slot |->
         IF s = {} THEN 0
         ELSE st[CHOOSE i \in s : TRUE].count + g[s \ {CHOOSE i \in s : TRUE}]]
Sum(st) == CHOOSE g : IsSum(g, st)
Dispatched(st) == Sum(st)[Slot]

\* The fold of the community modules is this sum.
LEMMA HistIsBelowSum ==
  HistCountsDispatches <=> mem.buffer_head_hist <= Dispatched(stat)
BY DEF HistCountsDispatches, Dispatched, Sum, IsSum, MapThenSumSet, MapThenFoldSet

LEMMA SlotSetsAreFinite ==
  IsFiniteSet(Slot) /\ \A s \in SUBSET Slot : IsFiniteSet(s) /\ Cardinality(s) \in Nat
<1>1. 0 \in Int /\ max_threads - 1 \in Int
    BY ServerAssumption
<1>2. IsFiniteSet(Slot)
    BY <1>1, FS_Interval DEF Slot
<1>3. QED
    BY <1>2, FS_Subset, FS_CardinalityType

LEMMA OneLess ==
  ASSUME NEW s \in SUBSET Slot, s # {}, NEW i, i = CHOOSE j \in s : TRUE
  PROVE  /\ i \in s /\ i \in Slot /\ s \ {i} \in SUBSET Slot
         /\ Cardinality(s) \in Nat /\ Cardinality(s) = Cardinality(s \ {i}) + 1
         /\ Cardinality(s \ {i}) \in Nat
<1>1. i \in s
    OBVIOUS
<1>2. IsFiniteSet(s)
    BY SlotSetsAreFinite
<1>3. Cardinality(s \ {i}) = Cardinality(s) - 1 /\ Cardinality(s) \in Nat
    BY <1>1, <1>2, FS_RemoveElement, FS_CardinalityType
<1>4. Cardinality(s \ {i}) \in Nat
    BY <1>2, FS_RemoveElement, FS_CardinalityType
<1>5. QED
    BY <1>1, <1>3, <1>4

\* The sums of sets of at most n slots.
UpTo(n) == {s \in SUBSET Slot : Cardinality(s) <= n}
PartSum(g, st, n) ==
  g = [s \in UpTo(n) |->
         IF s = {} THEN 0
         ELSE st[CHOOSE i \in s : TRUE].count + g[s \ {CHOOSE i \in s : TRUE}]]

LEMMA PartSumExists ==
  ASSUME NEW st, NEW n \in Nat
  PROVE  \E g : PartSum(g, st, n)
<1> DEFINE Bad == {m \in Nat : ~ \E g : PartSum(g, st, m)}
<1> SUFFICES ASSUME Bad # {} PROVE FALSE
    OBVIOUS
<1>1. PICK m \in Bad : \A y \in Bad : m <= y
    BY LeastElement
<1>2. m \in Nat /\ ~ \E g : PartSum(g, st, m)
    OBVIOUS
<1>3. CASE m = 0
  <2>1. \A s \in UpTo(0) : s = {}
    <3> SUFFICES ASSUME NEW s \in UpTo(0), s # {} PROVE FALSE
        OBVIOUS
    <3>1. s \in SUBSET Slot /\ Cardinality(s) <= 0
        BY DEF UpTo
    <3>2. PICK i : i = CHOOSE j \in s : TRUE
        OBVIOUS
    <3>3. Cardinality(s) = Cardinality(s \ {i}) + 1 /\ Cardinality(s \ {i}) \in Nat
        BY <3>1, <3>2, OneLess
    <3>4. QED
        BY <3>1, <3>3
  <2>2. PartSum([s \in UpTo(0) |-> 0], st, 0)
      BY <2>1 DEF PartSum
  <2>3. QED
      BY <1>2, <1>3, <2>2
<1>4. CASE m # 0
  <2>1. m - 1 \in Nat /\ m - 1 \notin Bad
      BY <1>1, <1>2, <1>4
  <2>2. PICK g : PartSum(g, st, m - 1)
      BY <2>1
  <2> DEFINE h == [s \in UpTo(m) |->
                     IF s = {} THEN 0
                     ELSE st[CHOOSE i \in s : TRUE].count + g[s \ {CHOOSE i \in s : TRUE}]]
  <2>3. UpTo(m - 1) \subseteq UpTo(m)
    <3> SUFFICES ASSUME NEW s \in UpTo(m - 1) PROVE s \in UpTo(m)
        OBVIOUS
    <3>1. s \in SUBSET Slot /\ Cardinality(s) <= m - 1
        BY DEF UpTo
    <3>2. Cardinality(s) \in Nat
        BY <3>1, SlotSetsAreFinite
    <3>3. QED
        BY <3>1, <3>2, <1>2 DEF UpTo
  <2>4. \A s \in UpTo(m - 1) : h[s] = g[s]
      BY <2>2, <2>3 DEF PartSum
  <2>5. \A s \in UpTo(m) : s # {} => s \ {CHOOSE i \in s : TRUE} \in UpTo(m - 1)
    <3> SUFFICES ASSUME NEW s \in UpTo(m), s # {}
                 PROVE  s \ {CHOOSE i \in s : TRUE} \in UpTo(m - 1)
        OBVIOUS
    <3>1. s \in SUBSET Slot /\ Cardinality(s) <= m
        BY DEF UpTo
    <3>2. PICK i : i = CHOOSE j \in s : TRUE
        OBVIOUS
    <3>3. /\ s \ {i} \in SUBSET Slot /\ Cardinality(s) = Cardinality(s \ {i}) + 1
          /\ Cardinality(s \ {i}) \in Nat
        BY <3>1, <3>2, OneLess
    <3>4. Cardinality(s \ {i}) <= m - 1
        BY <3>1, <3>3, <1>2
    <3>5. QED
        BY <3>2, <3>3, <3>4 DEF UpTo
  <2>6. h = [s \in UpTo(m) |->
               IF s = {} THEN 0
               ELSE st[CHOOSE i \in s : TRUE].count + h[s \ {CHOOSE i \in s : TRUE}]]
    <3> DEFINE k == [s \in UpTo(m) |->
                       IF s = {} THEN 0
                       ELSE st[CHOOSE i \in s : TRUE].count + h[s \ {CHOOSE i \in s : TRUE}]]
    <3>1. ASSUME NEW s \in UpTo(m), s # {}
          PROVE  h[s \ {CHOOSE i \in s : TRUE}] = g[s \ {CHOOSE i \in s : TRUE}]
        BY <3>1, <2>4, <2>5
    <3>2. ASSUME NEW s \in UpTo(m) PROVE h[s] = k[s]
      <4>1. CASE s = {}
          BY <4>1
      <4>2. CASE s # {}
        <5>1. h[s] = st[CHOOSE i \in s : TRUE].count + g[s \ {CHOOSE i \in s : TRUE}]
            BY <4>2
        <5>2. h[s \ {CHOOSE i \in s : TRUE}] = g[s \ {CHOOSE i \in s : TRUE}]
            BY <4>2, <3>1
        <5> HIDE DEF h
        <5>3. k[s] = st[CHOOSE i \in s : TRUE].count + h[s \ {CHOOSE i \in s : TRUE}]
            BY <4>2
        <5>4. QED
            BY <5>1, <5>2, <5>3
      <4>3. QED
          BY <4>1, <4>2
    <3>3. h = k
        BY <3>2
    <3>4. QED
        BY <3>3
  <2>7. PartSum(h, st, m)
      BY <2>6 DEF PartSum
  <2>8. QED
      BY <1>2, <2>7
<1>5. QED
    BY <1>3, <1>4

LEMMA SumIsSum == ASSUME NEW st PROVE IsSum(Sum(st), st)
<1>1. IsFiniteSet(Slot)
    BY SlotSetsAreFinite
<1>2. PICK n \in Nat : n = Cardinality(Slot)
    BY <1>1, FS_CardinalityType
<1>3. UpTo(n) = SUBSET Slot
  <2> SUFFICES ASSUME NEW s \in SUBSET Slot PROVE Cardinality(s) <= n
      BY DEF UpTo
  <2>1. QED
      BY <1>1, <1>2, FS_Subset
<1>4. PICK g : PartSum(g, st, n)
    BY PartSumExists
<1>5. IsSum(g, st)
    BY <1>3, <1>4 DEF PartSum, IsSum
<1>6. QED
    BY <1>5 DEF Sum

\* One more in a slot is one more in each sum that has the slot.
LEMMA SumMoves ==
  ASSUME NEW st \in Stats, NEW tt \in Stats, NEW k \in Slot, NEW d \in {0, 1},
         \A j \in Slot : tt[j].count = st[j].count + (IF j = k THEN d ELSE 0),
         NEW g, IsSum(g, st), NEW h, IsSum(h, tt), NEW r \in SUBSET Slot
  PROVE  g[r] \in Nat /\ h[r] = g[r] + (IF k \in r THEN d ELSE 0)
<1> DEFINE Good(s) == g[s] \in Nat /\ h[s] = g[s] + (IF k \in s THEN d ELSE 0)
           Bad == {m \in Nat : \E s \in SUBSET Slot : Cardinality(s) = m /\ ~Good(s)}
<1>1. \A s \in SUBSET Slot : Cardinality(s) \in Nat
    BY SlotSetsAreFinite
<1> SUFFICES ASSUME Bad # {} PROVE FALSE
    BY <1>1
<1>2. PICK m \in Bad : \A y \in Bad : m <= y
    BY LeastElement
<1>3. PICK s \in SUBSET Slot : Cardinality(s) = m /\ ~Good(s)
    OBVIOUS
<1>4. s # {}
    BY <1>3 DEF IsSum
<1>5. PICK i : i = CHOOSE j \in s : TRUE
    OBVIOUS
<1>6. /\ i \in s /\ i \in Slot /\ s \ {i} \in SUBSET Slot
      /\ Cardinality(s) = Cardinality(s \ {i}) + 1 /\ Cardinality(s \ {i}) \in Nat
    BY <1>4, <1>5, OneLess
<1>7. Good(s \ {i})
  <2>1. Cardinality(s \ {i}) \notin Bad
    <3> HIDE DEF Good, Bad
    <3>1. PICK c : c = Cardinality(s \ {i})
        OBVIOUS
    <3>2. c \in Nat /\ m = c + 1
        BY <3>1, <1>3, <1>6
    <3>3. c \notin Bad
        BY <3>2, <1>2
    <3>4. QED
        BY <3>1, <3>3
  <2>2. QED
      BY <2>1, <1>6
<1>8. g[s] = st[i].count + g[s \ {i}] /\ h[s] = tt[i].count + h[s \ {i}]
    BY <1>4, <1>5 DEF IsSum
<1>9. st[i].count \in Nat
    BY <1>6 DEF Stats
<1>10. tt[i].count = st[i].count + (IF i = k THEN d ELSE 0)
    BY <1>6
<1>11. Good(s)
  <2>1. CASE i = k
    <3>1. k \in s /\ k \notin s \ {i}
        BY <2>1, <1>6
    <3>2. QED
        BY <3>1, <2>1, <1>7, <1>8, <1>9, <1>10
  <2>2. CASE i # k
    <3>1. k \in s <=> k \in s \ {i}
        BY <2>2
    <3>2. QED
        BY <3>1, <2>2, <1>7, <1>8, <1>9, <1>10
  <2>3. QED
      BY <2>1, <2>2
<1>12. QED
    BY <1>3, <1>11

LEMMA DispatchedMoves ==
  ASSUME NEW st \in Stats, NEW tt \in Stats, NEW k \in Slot, NEW d \in {0, 1},
         \A j \in Slot : tt[j].count = st[j].count + (IF j = k THEN d ELSE 0)
  PROVE  Dispatched(st) \in Nat /\ Dispatched(tt) = Dispatched(st) + d
BY SumMoves, SumIsSum, Slot \in SUBSET Slot DEF Dispatched

\* The workers that counted a request and did not yet count it in the history.
Counted == {"count_kind", "static_st", "dynamic_st", "hist_inc", "hist_inc_st"}
Ahead == {w \in Worker : pc[w] \in Counted}

\* Not the history alone but the history with what is still to come stays below
\* the requests dispatched, and so does what a worker loaded and will store: each
\* store uses up one of those to come, so a lost increment only widens the gap.
HistInv ==
  /\ mem.buffer_head_hist + Cardinality(Ahead) <= Dispatched(stat)
  /\ \A w \in Worker : pc[w] = "hist_inc_st" =>
       reg[w] + Cardinality(Ahead) <= Dispatched(stat)

LEMMA AheadCounts == IsFiniteSet(Ahead) /\ Cardinality(Ahead) \in Nat
BY WorkersAreFinite, FS_Subset, FS_CardinalityType DEF Ahead

\* What the proofs need of the types.
HistTypes ==
  /\ SlotInv(Slot) /\ TypeInv
  /\ DOMAIN pc = Thread /\ DOMAIN reg = Thread /\ stat \in Stats
  /\ mem \in Memory /\ mem.buffer_head_hist \in Int /\ Dispatched(stat) \in Nat
  /\ \A w \in Worker : pc[w] = "hist_inc_st" => reg[w] \in Int

LEMMA HistTypesHold == SlotInv(Slot) /\ TypeInv => HistTypes
<1> SUFFICES ASSUME SlotInv(Slot), TypeInv PROVE HistTypes
    OBVIOUS
<1>1. DOMAIN pc = Thread /\ DOMAIN reg = Thread /\ mem \in Memory
    BY DEF TypeInv, DataTypes
<1>2. stat \in Stats
    BY DEF SlotInv, SlotTypes, Stats
<1>3. mem.buffer_head_hist \in Int
    BY <1>1 DEF Memory
<1>4. \A w \in Worker : pc[w] = "hist_inc_st" => reg[w] \in Int
    BY DEF TypeInv, Halfway, Thread
<1>5. Dispatched(stat) \in Nat
  <2>1. PICK k : k \in Slot
      BY ServerAssumption DEF Slot
  <2>2. \A j \in Slot : stat[j].count = stat[j].count + (IF j = k THEN 0 ELSE 0)
      BY <1>2 DEF Stats
  <2>3. QED
      BY <1>2, <2>1, <2>2, DispatchedMoves, 0 \in {0, 1}
<1>6. QED
    BY <1>1, <1>2, <1>3, <1>4, <1>5 DEF HistTypes

\* Steps away from the history: no one joins or leaves those ahead, no one loads.
LEMMA HistStays ==
  ASSUME HistInv, HistTypes,
         mem'.buffer_head_hist = mem.buffer_head_hist, Dispatched(stat') = Dispatched(stat),
         \A w \in Worker : /\ pc'[w] \in Counted <=> pc[w] \in Counted
                           /\ pc'[w] = "hist_inc_st" => pc[w] = "hist_inc_st" /\ reg'[w] = reg[w]
  PROVE  HistInv'
<1>1. Ahead' = Ahead
    BY DEF Ahead
<1>2. QED
    BY <1>1 DEF HistInv

\* A statistic is only loaded.
LEMMA LoadStatHist ==
  ASSUME HistInv, HistTypes, NEW w \in Worker, NEW from, NEW to, NEW x,
         LoadStat(w, from, to, x), from \in Counted <=> to \in Counted, to # "hist_inc_st"
  PROVE  HistInv'
<1>1. Step(w, from, to) /\ stat' = stat /\ mem' = mem /\ \A v \in Worker : v # w => reg'[v] = reg[v]
    BY DEF LoadStat, Load, HistTypes, Thread
<1>2. \A v \in Worker : /\ pc'[v] \in Counted <=> pc[v] \in Counted
                        /\ pc'[v] = "hist_inc_st" => pc[v] = "hist_inc_st" /\ reg'[v] = reg[v]
    BY <1>1, WorkerMoves DEF HistTypes
<1>3. QED
    BY <1>1, <1>2, HistStays

LEMMA CountHist ==
  ASSUME HistInv, HistTypes, NEW w \in Worker, StoreStat(w, "count_st", "count_kind", "count")
  PROVE  HistInv'
<1>1. /\ pc[w] = "count_st" /\ pc'[w] = "count_kind" /\ mem' = mem
      /\ \A v \in Worker : v # w => pc'[v] = pc[v] /\ reg'[v] = reg[v]
      /\ stat' = [stat EXCEPT ![th_index[w]].count = reg[w] + 1] /\ th_index[w] \in Slot
      /\ reg[w] = stat[th_index[w]].count
  <2>1. /\ Step(w, "count_st", "count_kind") /\ mem' = mem
        /\ stat' = [stat EXCEPT ![th_index[w]].count = reg[w] + 1]
        /\ \A v \in Worker : v # w => reg'[v] = reg[v]
      BY DEF StoreStat, HistTypes, Thread
  <2>2. th_index[w] \in Slot /\ (pc[w] = "count_st" => reg[w] = stat[th_index[w]].count)
      BY DEF HistTypes, SlotInv, SlotTypes, Fresh
  <2>3. QED
      BY <2>1, <2>2, WorkerMoves DEF HistTypes
<1>2. stat' \in Stats /\ \A j \in Slot :
        stat'[j].count = stat[j].count + (IF j = th_index[w] THEN 1 ELSE 0)
    BY <1>1 DEF HistTypes, Stats
<1>3. Dispatched(stat') = Dispatched(stat) + 1
    BY <1>1, <1>2, DispatchedMoves, 1 \in {0, 1} DEF HistTypes
<1>4. Ahead' = Ahead \cup {w} /\ w \notin Ahead
    BY <1>1 DEF Ahead, Counted
<1>5. Cardinality(Ahead') = Cardinality(Ahead) + 1
    BY <1>4, AheadCounts, FS_AddElement
<1>6. \A v \in Worker : pc'[v] = "hist_inc_st" => v # w /\ pc[v] = "hist_inc_st"
    BY <1>1
<1>7. ASSUME NEW v \in Worker, pc'[v] = "hist_inc_st"
      PROVE  reg'[v] + Cardinality(Ahead') <= Dispatched(stat')
  <2>1. reg[v] + Cardinality(Ahead) <= Dispatched(stat) /\ reg[v] \in Int /\ reg'[v] = reg[v]
      BY <1>1, <1>6, <1>7 DEF HistInv, HistTypes
  <2>2. QED
      BY <2>1, <1>3, <1>5, AheadCounts DEF HistTypes
<1>8. mem'.buffer_head_hist + Cardinality(Ahead') <= Dispatched(stat')
    BY <1>1, <1>3, <1>5, AheadCounts DEF HistInv, HistTypes
<1>9. QED
    BY <1>7, <1>8 DEF HistInv

LEMMA CountKindHist ==
  ASSUME HistInv, HistTypes, NEW w \in Worker, NEW from \in {"static_st", "dynamic_st"},
         NEW x \in {"static", "dynamic"}, StoreStat(w, from, "hist_inc", x)
  PROVE  HistInv'
<1>1. /\ pc[w] = from /\ pc'[w] = "hist_inc" /\ mem' = mem
      /\ \A v \in Worker : v # w => pc'[v] = pc[v] /\ reg'[v] = reg[v]
      /\ stat' = [stat EXCEPT ![th_index[w]][x] = reg[w] + 1]
      /\ th_index[w] \in Slot /\ reg[w] \in Nat
  <2>1. /\ Step(w, from, "hist_inc") /\ mem' = mem
        /\ stat' = [stat EXCEPT ![th_index[w]][x] = reg[w] + 1]
        /\ \A v \in Worker : v # w => reg'[v] = reg[v]
      BY DEF StoreStat, HistTypes, Thread
  <2>2. th_index[w] \in Slot /\ (pc[w] = from => reg[w] \in Nat)
      BY DEF HistTypes, SlotInv, SlotTypes, StatLoaded
  <2>3. QED
      BY <2>1, <2>2, WorkerMoves DEF HistTypes
<1>2. stat' \in Stats /\ \A j \in Slot : stat'[j].count = stat[j].count
  <2>1. stat[th_index[w]] \in [count : Nat, static : Nat, dynamic : Nat]
      BY <1>1 DEF HistTypes, Stats
  <2>2. /\ [stat[th_index[w]] EXCEPT ![x] = reg[w] + 1]
              \in [count : Nat, static : Nat, dynamic : Nat]
        /\ [stat[th_index[w]] EXCEPT ![x] = reg[w] + 1].count = stat[th_index[w]].count
      BY <2>1, <1>1
  <2>3. stat' = [stat EXCEPT ![th_index[w]] = [stat[th_index[w]] EXCEPT ![x] = reg[w] + 1]]
      BY <1>1
  <2>4. QED
      BY <1>1, <2>2, <2>3 DEF HistTypes, Stats
<1>3. \A j \in Slot : stat'[j].count = stat[j].count + (IF j = th_index[w] THEN 0 ELSE 0)
    BY <1>2 DEF HistTypes, Stats
<1>4. Dispatched(stat') = Dispatched(stat) + 0
    BY <1>1, <1>2, <1>3, DispatchedMoves, 0 \in {0, 1} DEF HistTypes
<1>5. Dispatched(stat') = Dispatched(stat)
    BY <1>4 DEF HistTypes
<1>6. QED
    BY <1>1, <1>5, HistStays DEF Counted

\* buffer_head_hist++: the load promises what the store then keeps.
LEMMA HistIncHist ==
  ASSUME HistInv, HistTypes, NEW w \in Worker, HistInc(w)
  PROVE  HistInv'
<1>1. CASE Load(w, "hist_inc", "hist_inc_st", mem["buffer_head_hist"])
  <2>1. /\ pc[w] = "hist_inc" /\ pc'[w] = "hist_inc_st" /\ mem' = mem /\ stat' = stat
        /\ \A v \in Worker : v # w => pc'[v] = pc[v]
      BY <1>1, WorkerMoves DEF Load, HistTypes
  <2>2. reg' = [reg EXCEPT ![w] = mem.buffer_head_hist] /\ w \in DOMAIN reg
      BY <1>1 DEF Load, HistTypes, Thread
  <2>3. Ahead' = Ahead
      BY <2>1 DEF Ahead, Counted
  <2>4. ASSUME NEW v \in Worker, pc'[v] = "hist_inc_st"
        PROVE  reg'[v] + Cardinality(Ahead) <= Dispatched(stat)
      BY <2>1, <2>2, <2>4 DEF HistInv
  <2>5. QED
      BY <2>1, <2>3, <2>4 DEF HistInv
<1>2. CASE Store(w, "hist_inc_st", "work_inc", [mem EXCEPT !["buffer_head_hist"] = reg[w] + 1])
  <2>1. /\ pc[w] = "hist_inc_st" /\ pc'[w] = "work_inc" /\ stat' = stat
        /\ \A v \in Worker : v # w => pc'[v] = pc[v]
      BY <1>2, WorkerMoves DEF Store, HistTypes
  <2>2. mem'.buffer_head_hist = reg[w] + 1 /\ reg[w] \in Int
      BY <1>2, <2>1 DEF Store, HistTypes, Memory
  <2>3. \A v \in Worker : v # w => reg'[v] = reg[v]
      BY <1>2 DEF Store, HistTypes, Thread
  <2>4. Ahead' = Ahead \ {w} /\ w \in Ahead
      BY <2>1 DEF Ahead, Counted
  <2>5. Cardinality(Ahead') = Cardinality(Ahead) - 1
      BY <2>4, AheadCounts, FS_RemoveElement
  <2>6. reg[w] + Cardinality(Ahead) <= Dispatched(stat)
      BY <2>1 DEF HistInv
  <2>7. ASSUME NEW v \in Worker, pc'[v] = "hist_inc_st"
        PROVE  reg'[v] + Cardinality(Ahead') <= Dispatched(stat)
    <3>1. v # w /\ pc[v] = "hist_inc_st" /\ reg'[v] = reg[v]
        BY <2>1, <2>3, <2>7
    <3>2. reg[v] + Cardinality(Ahead) <= Dispatched(stat) /\ reg[v] \in Int
        BY <3>1 DEF HistInv, HistTypes
    <3>3. QED
        BY <3>1, <3>2, <2>5, AheadCounts DEF HistTypes
  <2>8. mem'.buffer_head_hist + Cardinality(Ahead') <= Dispatched(stat)
      BY <2>2, <2>5, <2>6, AheadCounts DEF HistTypes
  <2>9. QED
      BY <2>1, <2>7, <2>8 DEF HistInv
<1>3. QED
    BY <1>1, <1>2 DEF HistInc, Bump

\* The master's stores leave the history alone.
LEMMA MasterLeavesHist ==
  ASSUME HistTypes, Accept \/ MasterStep
  PROVE  /\ mem'.buffer_head_hist = mem.buffer_head_hist
         /\ \A w \in Worker : reg'[w] = reg[w]
<1>0. \A w \in Worker : w \in Thread /\ w # master
    BY WorkerIsNotMaster
<1> USE <1>0 DEF HistTypes, Memory
<1>1. CASE Accept
    BY <1>1 DEF Accept, local
<1>2. CASE \/ LockMutex \/ CheckWork \/ CheckWait \/ WaitNotFull \/ MasterAwake
           \/ SignalNotEmpty \/ UnlockMutex
    BY <1>2
    DEF LockMutex, CheckWork, CheckWait, WaitNotFull, MasterAwake, SignalNotEmpty,
        UnlockMutex, Lock, Unlock, Load, Branch, local
<1>3. CASE WaitInc
    BY <1>3 DEF WaitInc, Bump, Load, Store
<1>4. CASE PreProcess \/ PreProcessFails
    BY <1>4 DEF PreProcess, PreProcessFails, Down, local
<1>5. CASE FifoTail \/ FifoLink \/ FifoTail2 \/ FifoNext \/ FifoSetTail
    BY <1>5 DEF FifoTail, FifoLink, FifoTail2, FifoNext, FifoSetTail, Load, Store
<1>6. CASE WalkNext \/ WalkSize \/ WalkOn
    BY <1>6 DEF WalkNext, WalkSize, WalkOn, Branch, local
<1>7. CASE SffNext \/ SffLink \/ SffNext2 \/ SffLast \/ SffNext3 \/ SffSetTail
    BY <1>7
    DEF SffNext, SffLink, SffNext2, SffLast, SffNext3, SffSetTail, Branch, Load, Store, local
<1>8. QED
    BY <1>1, <1>2, <1>3, <1>4, <1>5, <1>6, <1>7 DEF MasterStep, QueuePush

\* Any other statement of a worker starts and ends apart from the increment.
LEMMA WorkerKeepsHist ==
  ASSUME HistInv, HistTypes, NEW w \in Worker, WorkerStep(w)
  PROVE  HistInv'
<1>1. CASE Count(w)
    BY <1>1, LoadStatHist, CountHist DEF Count, Counted
<1>c. CASE CountKind(w)
    BY <1>c, LoadStatHist, CountKindHist DEF CountKind, Counted
<1>h. CASE HistInc(w)
    BY <1>h, HistIncHist
<1>2. ASSUME NEW from, NEW to, Step(w, from, to), from \notin Counted, to \notin Counted,
             stat' = stat, mem'.buffer_head_hist = mem.buffer_head_hist,
             \A v \in Worker : v # w => reg'[v] = reg[v]
      PROVE  HistInv'
  <2>1. \A v \in Worker : /\ pc'[v] \in Counted <=> pc[v] \in Counted
                          /\ pc'[v] = "hist_inc_st" => pc[v] = "hist_inc_st" /\ reg'[v] = reg[v]
      BY <1>2, WorkerMoves DEF HistTypes, Counted
  <2>2. QED
      BY <1>2, <2>1, HistStays
<1>3. CASE ServeFails(w) \/ CloseAgain(w)
    BY <1>3, HistStays DEF ServeFails, CloseAgain, Down, local
<1>4. CASE LockSlot(w) \/ CheckEmpty(w) \/ WaitNotEmpty(w) \/ WorkerAwake(w)
           \/ SignalNotFull(w) \/ UnlockSlot(w)
    BY <1>2, <1>4
    DEF LockSlot, CheckEmpty, WaitNotEmpty, WorkerAwake, SignalNotFull, UnlockSlot, Lock,
        Unlock, Branch, local, Counted
<1>5. CASE Peek(w) \/ PopTest(w) \/ PopEmpty(w)
    BY <1>2, <1>5 DEF Peek, PopTest, PopEmpty, Branch, local, Counted
<1>6. CASE PopLoad1(w) \/ PopLoad2(w)
    BY <1>2, <1>6 DEF PopLoad1, PopLoad2, Load, Counted, HistTypes, Thread
<1>7. CASE PopStore(w) \/ PopTail(w)
    BY <1>2, <1>7 DEF PopStore, PopTail, Store, Counted, HistTypes, Memory, Thread
<1>8. CASE WorkInc(w) \/ WaitDec(w) \/ WorkDec(w)
    BY <1>2, <1>8
    DEF WorkInc, WaitDec, WorkDec, Bump, Load, Store, Counted, HistTypes, Memory, Thread
<1>9. CASE ServeStatic(w) \/ ServeDynamic(w) \/ Reap(w) \/ Close(w)
    BY <1>2, <1>9 DEF ServeStatic, ServeDynamic, Reap, Close, local, Counted
<1>10. QED
    BY <1>1, <1>c, <1>h, <1>3, <1>4, <1>5, <1>6, <1>7, <1>8, <1>9 DEF WorkerStep, HandleRequest

LEMMA NextHistInv == HistInv /\ HistTypes /\ [Next]_vars => HistInv'
<1> SUFFICES ASSUME HistInv, HistTypes, [Next]_vars PROVE HistInv'
    OBVIOUS
<1>1. CASE Accept \/ MasterStep
  <2>1. stat' = stat /\ \A w \in Worker : pc'[w] = pc[w]
      BY <1>1, MasterAlone DEF HistTypes
  <2>2. QED
      BY <1>1, <2>1, MasterLeavesHist, HistStays
<1>2. CASE \E w \in Worker : WorkerStep(w)
    BY <1>2, WorkerKeepsHist
<1>3. CASE ChildExits \/ SpuriousWakeup \/ Segv \/ UNCHANGED vars
    BY <1>3, HistStays DEF ChildExits, SpuriousWakeup, Segv, Down, vars, local
<1>4. QED
    BY <1>1, <1>2, <1>3 DEF Next

LEMMA InitHistInv == Init => HistInv
<1> SUFFICES ASSUME Init PROVE HistInv
    OBVIOUS
<1>1. SlotInv(Slot) /\ TypeInv
    BY InitSlots, InitTypeInv
<1>2. Dispatched(stat) \in Nat
    BY <1>1, HistTypesHold DEF HistTypes
<1>3. \A w \in Worker : pc[w] = "lock"
    BY WorkerIsNotMaster DEF Init, InitWith
<1>4. Ahead = {}
    BY <1>3 DEF Ahead, Counted
<1>5. mem.buffer_head_hist = 0
    BY DEF Init, InitWith
<1>6. QED
    BY <1>2, <1>3, <1>4, <1>5, FS_EmptySet DEF HistInv

LEMMA HistInvBelow == HistInv /\ HistTypes => HistCountsDispatches
<1> SUFFICES ASSUME HistInv, HistTypes PROVE mem.buffer_head_hist <= Dispatched(stat)
    BY HistIsBelowSum
<1>1. QED
    BY AheadCounts DEF HistInv, HistTypes

\* handle_request (server.c 192-199): buffer_head_hist, which SFF-BS counts its
\* epochs by and every worker increments without a common lock, never runs ahead
\* of the requests the slots counted, for any pool, policy and interleaving.
THEOREM HistCountsDispatchesHolds == Spec => []HistCountsDispatches
<1>1. Init => SlotInv(Slot) /\ ListInv /\ TypeInv /\ HistInv
    BY InitSlots, InitListInv, InitTypeInv, InitHistInv
<1>2. SlotInv(Slot) /\ ListInv /\ TypeInv /\ HistInv /\ [Next]_vars
        => (SlotInv(Slot) /\ ListInv /\ TypeInv /\ HistInv)'
    BY NextSlots, NextListInv, NextTypeInv, NextHistInv, HistTypesHold
<1>3. SlotInv(Slot) /\ TypeInv /\ HistInv => HistCountsDispatches
    BY HistTypesHold, HistInvBelow
<1>4. QED
    BY <1>1, <1>2, <1>3, PTL DEF Spec
-----------------------------------------------------------------------------
(* One worker and one connection at a time: nothing is left of the races.   *)

\* The client asks one request at a time, one worker serves it, and no refused
\* request claims to be static.
Serial ==
  /\ max_threads = 1 /\ MaxOpen = 1
  /\ \A r \in Requests : r.is_static => r.ok /\ r.st_size > 0

the_worker == 0

\* The master from accept to the end of queue_push, and the rest of its round;
\* the worker without and with a request.
Pushing  == {"lock", "check_work", "check_wait", "sleep", "blocked", "preprocess",
             "fifo_tail", "fifo_link", "fifo_tail2", "fifo_next", "fifo_settail",
             "walk_next", "sff_next", "sff_link", "sff_next2", "sff_last", "sff_next3",
             "sff_settail", "wait_inc", "wait_inc_st"}
Between  == {"signal", "unlock", "accept"}
Unoccupied == {"lock", "check", "sleep", "blocked", "work_dec", "work_dec_st", "signal",
               "unlock"}
Handling == {"peek", "pop_test", "pop_load1", "pop_load2", "pop_store", "pop_empty",
             "pop_tail", "count", "count_st", "count_kind", "static_st", "dynamic_st",
             "hist_inc", "hist_inc_st", "work_inc", "work_inc_st", "wait_dec", "wait_dec_st", "serve", "wait", "close"}

\* The list is empty or holds the newest node alone.
ListIs(first, last) ==
  /\ mem.next[head] = first /\ mem.tail = last
  /\ first = new => mem.next[new] = NULL
OnlyNewOpen == new # head /\ OpenFds = {fd[new]}

PushingAt(l) ==
  /\ mem.buffer_wait_num = 0
  /\ l \in {"lock", "check_work", "check_wait", "sleep", "blocked", "preprocess",
            "fifo_tail", "fifo_link", "walk_next", "sff_next", "sff_link"} => ListIs(NULL, head)
  /\ l \in {"fifo_tail", "fifo_link", "sff_link"} => mem.next[new] = NULL
  /\ l \in {"fifo_tail2", "fifo_next", "fifo_settail", "sff_next2", "sff_last",
            "sff_next3", "sff_settail"} => ListIs(new, head)
  /\ l \in {"wait_inc", "wait_inc_st"} => ListIs(new, new)
  /\ l \in {"fifo_link", "fifo_next"} => reg[master] = head
  /\ l \in {"fifo_settail", "sff_last", "sff_settail"} => reg[master] = new
  /\ l = "wait_inc_st" => reg[master] = 0
  /\ l \in {"walk_next", "sff_next", "sff_link", "sff_next2", "sff_last", "sff_next3"}
       => search.tmp = head

IdleAt(l) ==
  /\ mem.buffer_work_num = IF l \in {"work_dec", "work_dec_st"} THEN 1 ELSE 0
  /\ l = "work_dec_st" => reg[the_worker] = 1

HandlingAt(l) ==
  /\ mem.buffer_wait_num = IF l \in {"serve", "wait", "close"} THEN 0 ELSE 1
  /\ mem.buffer_work_num = IF l \in {"wait_dec", "wait_dec_st", "serve", "wait", "close"}
                           THEN 1 ELSE 0
  /\ IF l \in {"peek", "pop_test", "pop_load1", "pop_load2", "pop_store"} THEN ListIs(new, new)
     ELSE IF l \in {"pop_empty", "pop_tail"} THEN ListIs(NULL, new)
     ELSE ListIs(NULL, head)
  /\ l # "peek" => node[the_worker] = new
  /\ l = "pop_load2" => reg[the_worker] = new
  /\ l = "pop_store" => reg[the_worker] = NULL
  /\ l = "work_inc_st" => reg[the_worker] = 0
  /\ l = "wait_dec_st" => reg[the_worker] = 1

\* The worker may still count down the last request while the master reads and
\* links the next; it cannot look at the list before the master has counted it.
Pushes  == /\ pc[master] \in Pushing /\ PushingAt(pc[master]) /\ OnlyNewOpen
           /\ pc[the_worker] \in Unoccupied /\ IdleAt(pc[the_worker])
Rests   == /\ pc[master] \in Between
           /\ pc[the_worker] \in Unoccupied /\ IdleAt(pc[the_worker])
           /\ \/ mem.buffer_wait_num = 0 /\ ListIs(NULL, head) /\ OpenFds = {}
              \/ mem.buffer_wait_num = 1 /\ ListIs(new, new) /\ OnlyNewOpen
Handles == /\ pc[master] \in Between /\ OnlyNewOpen
           /\ pc[the_worker] \in Handling /\ HandlingAt(pc[the_worker])

SerialInv == server = "up" /\ (Pushes \/ Rests \/ Handles)

LEMMA SerialTypes ==
  ASSUME Serial, TypeInv, ListInv
  PROVE  /\ Worker = {the_worker} /\ Thread = {the_worker, master}
         /\ the_worker = 0 /\ master = -1 /\ head = 0
         /\ DOMAIN pc = Thread /\ DOMAIN reg = Thread /\ DOMAIN node = Worker
         /\ mem \in Memory /\ mem.next \in [Node -> Link]
         /\ new \in Node /\ head \in Node /\ NULL \notin Int /\ Node \subseteq Int
<1>1. Worker = {the_worker}
    BY DEF Serial, Worker, the_worker
<1>2. Thread = {the_worker, master}
    BY <1>1 DEF Thread
<1>3. DOMAIN pc = Thread /\ DOMAIN reg = Thread /\ DOMAIN node = Worker
    BY DEF ListInv, ListTypes
<1>4. mem \in Memory /\ mem.next \in [Node -> Link]
    BY DEF TypeInv, DataTypes, ListInv, ListTypes
<1>5. new \in Node /\ head \in Node /\ NULL \notin Int /\ Node \subseteq Int
    BY NewIsNode, ServerAssumption DEF Node, head
<1>6. QED
    BY <1>1, <1>2, <1>3, <1>4, <1>5 DEF the_worker, master, head

LEMMA SerialMove ==
  ASSUME Serial, TypeInv, ListInv, NEW t \in Thread, NEW from, NEW to, Step(t, from, to)
  PROVE  /\ pc[t] = from /\ pc'[t] = to /\ server' = server
         /\ t = master => pc'[the_worker] = pc[the_worker]
         /\ t = the_worker => pc'[master] = pc[master]
BY SerialTypes DEF Step, Goto, At

LEMMA PlacesApart ==
  /\ Pushing \cap Between = {} /\ Unoccupied \cap Handling = {}
BY DEF Pushing, Between, Unoccupied, Handling

\* Four kinds of steps: the master pushes on, the master goes on, the worker has
\* no request, the worker handles one.
LEMMA PushStep ==
  ASSUME Serial, TypeInv, ListInv, SerialInv,
         NEW from \in Pushing, NEW to \in Pushing, Step(master, from, to),
         PushingAt(from) => PushingAt(to)',
         UNCHANGED <<fd, owner>>, reg'[the_worker] = reg[the_worker],
         mem'.buffer_work_num = mem.buffer_work_num
  PROVE  SerialInv'
<1>1. /\ pc[master] = from /\ pc'[master] = to /\ server' = server
      /\ pc'[the_worker] = pc[the_worker]
    BY SerialMove, SerialTypes
<1>2. Pushes
    BY <1>1, PlacesApart DEF SerialInv, Rests, Handles
<1>3. OnlyNewOpen'
    BY <1>2 DEF Pushes, OnlyNewOpen, OpenFds, new, accepted, head
<1>4. IdleAt(pc[the_worker])'
    BY <1>2, <1>1 DEF Pushes, IdleAt
<1>5. Pushes'
    BY <1>1, <1>2, <1>3, <1>4 DEF Pushes
<1>6. QED
    BY <1>1, <1>5 DEF SerialInv

DataKept == UNCHANGED <<mem, fd, owner, node, reg>>

LEMMA DataKeptKeeps ==
  ASSUME DataKept
  PROVE  /\ OnlyNewOpen' = OnlyNewOpen /\ OpenFds' = OpenFds
         /\ \A p, q : ListIs(p, q)' = ListIs(p, q)
         /\ \A l : IdleAt(l)' = IdleAt(l) /\ HandlingAt(l)' = HandlingAt(l)
         /\ search' = search => \A l : PushingAt(l)' = PushingAt(l)
BY DEF DataKept, OnlyNewOpen, OpenFds, ListIs, IdleAt, HandlingAt, PushingAt, new, accepted, head

LEMMA BetweenStep ==
  ASSUME Serial, TypeInv, ListInv, SerialInv,
         NEW from \in Between, NEW to \in Between, Step(master, from, to), DataKept
  PROVE  SerialInv'
<1>1. /\ pc[master] = from /\ pc'[master] = to /\ server' = server
      /\ pc'[the_worker] = pc[the_worker]
    BY SerialMove, SerialTypes
<1>2. Rests \/ Handles
    BY <1>1, PlacesApart DEF SerialInv, Pushes
<1>3. CASE Rests
  <2>1. IdleAt(pc[the_worker])'
      BY <1>1, <1>3, DataKeptKeeps DEF Rests
  <2>2. /\ mem' = mem /\ new' = new /\ OnlyNewOpen' = OnlyNewOpen /\ OpenFds' = OpenFds
        /\ ListIs(NULL, head)' = ListIs(NULL, head) /\ ListIs(new, new)' = ListIs(new, new)
      BY DataKeptKeeps DEF DataKept, new, accepted, ListIs, head
  <2>3. Rests'
      BY <1>1, <1>3, <2>1, <2>2 DEF Rests
  <2>4. QED
      BY <1>1, <2>3 DEF SerialInv
<1>4. CASE Handles
    BY <1>1, <1>4, DataKeptKeeps DEF SerialInv, Handles
<1>5. QED
    BY <1>2, <1>3, <1>4

LEMMA IdleStep ==
  ASSUME Serial, TypeInv, ListInv, SerialInv,
         NEW from \in Unoccupied, NEW to \in Unoccupied, Step(the_worker, from, to),
         IdleAt(from) => IdleAt(to)',
         UNCHANGED <<fd, owner, search>>, reg'[master] = reg[master],
         mem'.next = mem.next, mem'.tail = mem.tail,
         mem'.buffer_wait_num = mem.buffer_wait_num
  PROVE  SerialInv'
<1>1. /\ pc[the_worker] = from /\ pc'[the_worker] = to /\ server' = server
      /\ pc'[master] = pc[master]
    BY SerialMove, SerialTypes
<1>2. Pushes \/ Rests
    BY <1>1, PlacesApart DEF SerialInv, Handles
<1>3. OnlyNewOpen' = OnlyNewOpen /\ OpenFds' = OpenFds
    BY DEF OnlyNewOpen, OpenFds, new, accepted, head
<1>4. \A p, q : ListIs(p, q)' = ListIs(p, q)
    BY DEF ListIs, new, accepted, head
<1>5. \A l : PushingAt(l)' = PushingAt(l)
    BY <1>4 DEF PushingAt, ListIs, new, accepted, head
<1>6. CASE Pushes
    BY <1>1, <1>3, <1>5, <1>6 DEF SerialInv, Pushes
<1>7. CASE Rests
    BY <1>1, <1>3, <1>4, <1>7 DEF SerialInv, Rests, ListIs, new, accepted, head
<1>8. QED
    BY <1>2, <1>6, <1>7

LEMMA HandleStep ==
  ASSUME Serial, TypeInv, ListInv, SerialInv,
         NEW from \in Handling, NEW to \in Handling, Step(the_worker, from, to),
         OnlyNewOpen /\ HandlingAt(from) => HandlingAt(to)', UNCHANGED <<fd, owner>>
  PROVE  SerialInv'
<1>1. /\ pc[the_worker] = from /\ pc'[the_worker] = to /\ server' = server
      /\ pc'[master] = pc[master]
    BY SerialMove, SerialTypes
<1>2. Handles
    BY <1>1, PlacesApart DEF SerialInv, Pushes, Rests
<1>3. OnlyNewOpen' = OnlyNewOpen
    BY DEF OnlyNewOpen, OpenFds, new, accepted, head
<1>4. QED
    BY <1>1, <1>2, <1>3 DEF SerialInv, Handles

\* What a store leaves in the memory.
LEMMA Stored ==
  ASSUME mem \in Memory
  PROVE  /\ \A a \in Node : \A p :
              LET m == [mem EXCEPT !.next[a] = p] IN
                /\ m.next[a] = p /\ \A b \in Node : b # a => m.next[b] = mem.next[b]
                /\ m.tail = mem.tail /\ m.buffer_wait_num = mem.buffer_wait_num
                /\ m.buffer_work_num = mem.buffer_work_num
         /\ \A p :
              LET m == [mem EXCEPT !.tail = p] IN
                /\ m.next = mem.next /\ m.tail = p /\ m.buffer_wait_num = mem.buffer_wait_num
                /\ m.buffer_work_num = mem.buffer_work_num
BY DEF Memory

LEMMA Bumped ==
  ASSUME mem \in Memory, NEW v
  PROVE  /\ LET m == [mem EXCEPT !["buffer_wait_num"] = v] IN
              /\ m.next = mem.next /\ m.tail = mem.tail /\ m.buffer_wait_num = v
              /\ m.buffer_work_num = mem.buffer_work_num
         /\ LET m == [mem EXCEPT !["buffer_work_num"] = v] IN
              /\ m.next = mem.next /\ m.tail = mem.tail /\ m.buffer_work_num = v
              /\ m.buffer_wait_num = mem.buffer_wait_num
         /\ LET m == [mem EXCEPT !["buffer_head_hist"] = v] IN
              /\ m.next = mem.next /\ m.tail = mem.tail /\ m.buffer_wait_num = mem.buffer_wait_num
              /\ m.buffer_work_num = mem.buffer_work_num
BY DEF Memory

\* queue_push without another reader or writer of the list: the search finds the
\* list empty, and both ways of linking leave the newest node alone in it.
LEMMA PushesOn ==
  ASSUME Serial, TypeInv, ListInv, SerialInv, QueuePush
  PROVE  SerialInv'
<1>t. /\ Worker = {the_worker} /\ Thread = {the_worker, master} /\ the_worker # master
      /\ DOMAIN reg = Thread /\ mem \in Memory /\ new \in Node /\ head \in Node /\ head = 0
      /\ NULL \notin Int /\ new # NULL /\ head # NULL
    BY SerialTypes
<1>l. \A l \in Pushing : l = pc[master] => OnlyNewOpen /\ PushingAt(l)
    BY PlacesApart DEF SerialInv, Pushes, Rests, Handles
<1>o. OnlyNewOpen => new # head
    BY DEF OnlyNewOpen
<1>n. fd' = fd => new' = new
    BY DEF new, accepted
<1> USE DEF Pushing
<1>load. ASSUME NEW from \in Pushing, NEW to \in Pushing, NEW v, Load(master, from, to, v),
                PushingAt(from) /\ OnlyNewOpen /\ reg'[master] = v => PushingAt(to)'
         PROVE  SerialInv'
  <2>1. /\ Step(master, from, to) /\ reg' = [reg EXCEPT ![master] = v]
        /\ UNCHANGED <<mem, fd, owner, node, search>>
      BY <1>load DEF Load, conns
  <2>2. reg'[master] = v /\ reg'[the_worker] = reg[the_worker]
      BY <2>1, <1>t
  <2>3. pc[master] = from
      BY <2>1 DEF Step, At
  <2>4. QED
      BY <1>load, <1>l, <2>1, <2>2, <2>3, PushStep
<1>store. ASSUME NEW from \in Pushing, NEW to \in Pushing, NEW m, Store(master, from, to, m),
                 m.buffer_work_num = mem.buffer_work_num,
                 PushingAt(from) /\ OnlyNewOpen => PushingAt(to)'
          PROVE  SerialInv'
  <2>1. /\ Step(master, from, to) /\ reg' = [reg EXCEPT ![master] = 0] /\ mem' = m
        /\ UNCHANGED <<fd, owner, node, search>>
      BY <1>store DEF Store, conns
  <2>2. reg'[the_worker] = reg[the_worker]
      BY <2>1, <1>t
  <2>3. pc[master] = from
      BY <2>1 DEF Step, At
  <2>4. QED
      BY <1>store, <1>l, <2>1, <2>2, <2>3, PushStep
<1>branch. ASSUME NEW from \in Pushing, NEW to \in Pushing, Step(master, from, to),
                  UNCHANGED <<mem, conns, local>>,
                  PushingAt(from) /\ OnlyNewOpen => PushingAt(to)'
           PROVE  SerialInv'
  <2>1. pc[master] = from /\ UNCHANGED <<mem, fd, owner, reg>>
      BY <1>branch DEF Step, At, conns, local
  <2>2. QED
      BY <1>branch, <1>l, <2>1, PushStep
<1>1. CASE PreProcess
  <2>1. PICK to \in {"fifo_tail", "walk_next"} :
           /\ Step(master, "preprocess", to)
           /\ to = IF sched_alg_code = 0 THEN "fifo_tail" ELSE "walk_next"
      BY <1>1 DEF PreProcess
  <2>2. /\ mem' = IF sched_alg_code = 0 THEN [mem EXCEPT !.next[new] = NULL] ELSE mem
        /\ search'.tmp = head /\ UNCHANGED <<fd, owner, node, reg>>
      BY <1>1 DEF PreProcess
  <2>3. /\ new # head => mem'.next[head] = mem.next[head]
        /\ mem'.tail = mem.tail /\ mem'.buffer_wait_num = mem.buffer_wait_num
        /\ mem'.buffer_work_num = mem.buffer_work_num
        /\ to = "fifo_tail" => mem'.next[new] = NULL
      BY <2>1, <2>2, <1>t, Stored
  <2>4. PushingAt("preprocess") /\ OnlyNewOpen => PushingAt(to)'
      BY <2>1, <2>2, <2>3, <1>t, <1>o, <1>n DEF PushingAt, ListIs
  <2>5. pc[master] = "preprocess"
      BY <2>1 DEF Step, At
  <2>6. QED
      BY <1>l, <2>1, <2>2, <2>3, <2>4, <2>5, PushStep
<1>2. CASE PreProcessFails
    BY <1>2, <1>l DEF PreProcessFails, At, OnlyNewOpen
<1>3. CASE FifoTail
  <2>1. Load(master, "fifo_tail", "fifo_link", mem.tail)
      BY <1>3 DEF FifoTail
  <2>2. PushingAt("fifo_tail") /\ OnlyNewOpen /\ reg'[master] = mem.tail => PushingAt("fifo_link")'
      BY <2>1, <1>n DEF PushingAt, ListIs, Load, conns, head
  <2>3. QED
      BY <2>1, <2>2, <1>load
<1>4. CASE FifoLink
  <2> DEFINE m == [mem EXCEPT !.next[reg[master]] = new]
  <2>1. Store(master, "fifo_link", "fifo_tail2", m)
      BY <1>4 DEF FifoLink
  <2>2. PushingAt("fifo_link") /\ OnlyNewOpen => m.buffer_work_num = mem.buffer_work_num /\ PushingAt("fifo_tail2")'
    <3> SUFFICES ASSUME PushingAt("fifo_link"), OnlyNewOpen
                 PROVE  m.buffer_work_num = mem.buffer_work_num /\ PushingAt("fifo_tail2")'
        OBVIOUS
    <3>1. reg[master] = head /\ mem.tail = head /\ mem.next[new] = NULL /\ mem.buffer_wait_num = 0
        BY DEF PushingAt, ListIs
    <3>2. /\ m.next[head] = new /\ m.next[new] = NULL /\ m.tail = head
          /\ m.buffer_wait_num = 0 /\ m.buffer_work_num = mem.buffer_work_num
        BY <3>1, <1>t, <1>o, Stored
    <3>3. mem' = m /\ new' = new
        BY <2>1, <1>n DEF Store, conns
    <3> HIDE DEF m
    <3>4. QED
        BY <3>2, <3>3 DEF PushingAt, ListIs, head
  <2>3. OnlyNewOpen /\ PushingAt("fifo_link")
      BY <2>1, <1>l DEF Store, Step, At
  <2> HIDE DEF m
  <2>4. QED
      BY <2>1, <2>2, <2>3, <1>store
<1>5. CASE FifoTail2
  <2>1. Load(master, "fifo_tail2", "fifo_next", mem.tail)
      BY <1>5 DEF FifoTail2
  <2>2. PushingAt("fifo_tail2") /\ OnlyNewOpen /\ reg'[master] = mem.tail => PushingAt("fifo_next")'
      BY <2>1, <1>n DEF PushingAt, ListIs, Load, conns, head
  <2>3. QED
      BY <2>1, <2>2, <1>load
<1>6. CASE FifoNext
  <2>1. Load(master, "fifo_next", "fifo_settail", mem.next[reg[master]])
      BY <1>6 DEF FifoNext
  <2>2. PushingAt("fifo_next") /\ OnlyNewOpen /\ reg'[master] = mem.next[reg[master]] => PushingAt("fifo_settail")'
      BY <2>1, <1>n DEF PushingAt, ListIs, Load, conns, head
  <2>3. QED
      BY <2>1, <2>2, <1>load
<1>tail. ASSUME NEW from \in {"fifo_settail", "sff_settail"},
                Store(master, from, "wait_inc", [mem EXCEPT !.tail = reg[master]])
         PROVE  SerialInv'
  <2> DEFINE m == [mem EXCEPT !.tail = reg[master]]
  <2>1. OnlyNewOpen /\ PushingAt(from)
      BY <1>tail, <1>l DEF Store, Step, At
  <2>2. reg[master] = new /\ mem.next[head] = new /\ mem.next[new] = NULL /\ mem.buffer_wait_num = 0
      BY <2>1 DEF PushingAt, ListIs
  <2>3. /\ m.next[head] = new /\ m.next[new] = NULL /\ m.tail = new
        /\ m.buffer_wait_num = 0 /\ m.buffer_work_num = mem.buffer_work_num
      BY <2>2, <1>t, Stored
  <2>4. mem' = m /\ new' = new
      BY <1>tail, <1>n DEF Store, conns
  <2>5. Store(master, from, "wait_inc", m)
      BY <1>tail
  <2> HIDE DEF m
  <2>6. PushingAt("wait_inc")'
      BY <2>3, <2>4 DEF PushingAt, ListIs, head
  <2>7. QED
      BY <2>3, <2>5, <2>6, <1>store
<1>7. CASE FifoSetTail
    BY <1>7, <1>tail DEF FifoSetTail
<1>8. CASE WalkNext
  <2>1. pc[master] = "walk_next" /\ UNCHANGED <<mem, conns, local>>
      BY <1>8 DEF WalkNext, Branch, Step, At
  <2>2. OnlyNewOpen /\ PushingAt("walk_next")
      BY <2>1, <1>l
  <2>3. mem.next[search.tmp] = NULL
      BY <2>2 DEF PushingAt, ListIs
  <2>4. Step(master, "walk_next", "sff_next")
      BY <1>8, <2>3 DEF WalkNext, Branch
  <2>5. PushingAt("sff_next")'
      BY <2>1, <2>2, <1>n DEF PushingAt, ListIs, conns, local, head
  <2>6. QED
      BY <2>1, <2>4, <2>5, <1>branch
<1>9. CASE WalkSize \/ WalkOn
  <2>1. pc[master] \in {"walk_size", "walk_on"}
      BY <1>9 DEF WalkSize, WalkOn, Step, At
  <2>2. QED
      BY <2>1 DEF SerialInv, Pushes, Rests, Handles, Between
<1>10. CASE SffNext
  <2> DEFINE m == [mem EXCEPT !.next[new] = mem.next[search.tmp]]
  <2>1. Store(master, "sff_next", "sff_link", m)
      BY <1>10 DEF SffNext
  <2>2. OnlyNewOpen /\ PushingAt("sff_next")
      BY <2>1, <1>l DEF Store, Step, At
  <2>3. mem.next[head] = NULL /\ mem.tail = head /\ search.tmp = head /\ mem.buffer_wait_num = 0
      BY <2>2 DEF PushingAt, ListIs
  <2>4. /\ m.next[head] = NULL /\ m.next[new] = NULL /\ m.tail = head
        /\ m.buffer_wait_num = 0 /\ m.buffer_work_num = mem.buffer_work_num
      BY <2>2, <2>3, <1>t, <1>o, Stored
  <2>5. mem' = m /\ new' = new /\ search' = search
      BY <2>1, <1>n DEF Store, conns
  <2> HIDE DEF m
  <2>6. PushingAt("sff_link")'
      BY <2>3, <2>4, <2>5, <1>t DEF PushingAt, ListIs, head
  <2>7. QED
      BY <2>1, <2>4, <2>6, <1>store
<1>11. CASE SffLink
  <2> DEFINE m == [mem EXCEPT !.next[search.tmp] = new]
  <2>1. Store(master, "sff_link", "sff_next2", m)
      BY <1>11 DEF SffLink
  <2>2. OnlyNewOpen /\ PushingAt("sff_link")
      BY <2>1, <1>l DEF Store, Step, At
  <2>3. mem.next[new] = NULL /\ mem.tail = head /\ search.tmp = head /\ mem.buffer_wait_num = 0
      BY <2>2 DEF PushingAt, ListIs
  <2>4. /\ m.next[head] = new /\ m.next[new] = NULL /\ m.tail = head
        /\ m.buffer_wait_num = 0 /\ m.buffer_work_num = mem.buffer_work_num
      BY <2>2, <2>3, <1>t, <1>o, Stored
  <2>5. mem' = m /\ new' = new /\ search' = search
      BY <2>1, <1>n DEF Store, conns
  <2> HIDE DEF m
  <2>6. PushingAt("sff_next2")'
      BY <2>3, <2>4, <2>5, <1>t DEF PushingAt, ListIs, head
  <2>7. QED
      BY <2>1, <2>4, <2>6, <1>store
<1>12. CASE SffNext2
  <2>1. Load(master, "sff_next2", "sff_last", mem.next[search.tmp])
      BY <1>12 DEF SffNext2
  <2>2. PushingAt("sff_next2") /\ OnlyNewOpen /\ reg'[master] = mem.next[search.tmp] => PushingAt("sff_last")'
      BY <2>1, <1>n DEF PushingAt, ListIs, Load, conns, head
  <2>3. QED
      BY <2>1, <2>2, <1>load
<1>13. CASE SffLast
  <2>1. pc[master] = "sff_last" /\ UNCHANGED <<mem, conns, local>>
      BY <1>13 DEF SffLast, Branch, Step, At
  <2>2. OnlyNewOpen /\ PushingAt("sff_last")
      BY <2>1, <1>l
  <2>3. mem.next[reg[master]] = NULL
      BY <2>2 DEF PushingAt, ListIs
  <2>4. Step(master, "sff_last", "sff_next3")
      BY <1>13, <2>3 DEF SffLast, Branch
  <2>5. PushingAt("sff_next3")'
      BY <2>1, <2>2, <1>n DEF PushingAt, ListIs, conns, local, head
  <2>6. QED
      BY <2>1, <2>4, <2>5, <1>branch
<1>14. CASE SffNext3
  <2>1. Load(master, "sff_next3", "sff_settail", mem.next[search.tmp])
      BY <1>14 DEF SffNext3
  <2>2. PushingAt("sff_next3") /\ OnlyNewOpen /\ reg'[master] = mem.next[search.tmp] => PushingAt("sff_settail")'
      BY <2>1, <1>n DEF PushingAt, ListIs, Load, conns, head
  <2>3. QED
      BY <2>1, <2>2, <1>load
<1>15. CASE SffSetTail
    BY <1>15, <1>tail DEF SffSetTail
<1>16. QED
    BY <1>1, <1>2, <1>3, <1>4, <1>5, <1>6, <1>7, <1>8, <1>9, <1>10, <1>11, <1>12, <1>13,
       <1>14, <1>15 DEF QueuePush

\* The rest of the master's round.
LEMMA MasterRounds ==
  ASSUME Serial, TypeInv, ListInv, SerialInv, MasterStep
  PROVE  SerialInv'
<1>t. /\ Thread = {the_worker, master} /\ the_worker # master /\ DOMAIN reg = Thread
      /\ mem \in Memory
    BY SerialTypes
<1>1. ASSUME NEW from \in {"lock", "check_work", "check_wait", "sleep", "blocked"},
             NEW to \in {"check_work", "check_wait", "sleep", "blocked", "preprocess"},
             Step(master, from, to), UNCHANGED <<mem, fd, owner>>,
             reg'[the_worker] = reg[the_worker]
      PROVE  SerialInv'
  <2>1. from \in Pushing /\ to \in Pushing
      BY DEF Pushing
  <2>2. ListIs(NULL, head)' = ListIs(NULL, head)
      BY <1>1 DEF ListIs, new, accepted, head
  <2>3. PushingAt(from) => PushingAt(to)'
      BY <1>1, <2>2 DEF PushingAt
  <2>4. QED
      BY <1>1, <2>1, <2>3, PushStep
<1>2. CASE LockMutex \/ MasterAwake \/ WaitNotFull
    BY <1>1, <1>2 DEF LockMutex, MasterAwake, WaitNotFull, Lock, conns, local
<1>3. CASE CheckWork
  <2>1. reg' = [reg EXCEPT ![master] = mem.buffer_work_num]
        /\ UNCHANGED <<mem, fd, owner>> /\ Step(master, "check_work", "check_wait")
      BY <1>3 DEF CheckWork, Load, conns
  <2>2. QED
      BY <1>1, <1>t, <2>1
<1>4. CASE CheckWait
  <2>1. PICK to \in {"sleep", "preprocess"} :
           Step(master, "check_wait", to) /\ UNCHANGED <<mem, fd, owner, reg>>
      BY <1>4 DEF CheckWait, Branch, conns, local
  <2>2. QED
      BY <1>1, <2>1
<1>5. CASE QueuePush
    BY <1>5, PushesOn
<1>6. CASE Load(master, "wait_inc", "wait_inc_st", mem["buffer_wait_num"])
  <2>1. /\ Step(master, "wait_inc", "wait_inc_st") /\ UNCHANGED <<mem, fd, owner>>
        /\ reg' = [reg EXCEPT ![master] = mem.buffer_wait_num]
      BY <1>6 DEF Load, conns
  <2>2. reg'[the_worker] = reg[the_worker] /\ reg'[master] = mem.buffer_wait_num
      BY <1>t, <2>1
  <2>3. ListIs(new, new)' = ListIs(new, new)
      BY <2>1 DEF ListIs, new, accepted, head
  <2>4. PushingAt("wait_inc") => PushingAt("wait_inc_st")'
      BY <2>1, <2>2, <2>3 DEF PushingAt
  <2>5. "wait_inc" \in Pushing /\ "wait_inc_st" \in Pushing
      BY DEF Pushing
  <2>6. QED
      BY <2>1, <2>2, <2>4, <2>5, PushStep
<1>7. CASE Store(master, "wait_inc_st", "signal",
                 [mem EXCEPT !["buffer_wait_num"] = reg[master] + 1])
  <2>1. /\ Step(master, "wait_inc_st", "signal") /\ UNCHANGED <<fd, owner>>
        /\ reg' = [reg EXCEPT ![master] = 0]
        /\ mem' = [mem EXCEPT !["buffer_wait_num"] = reg[master] + 1]
      BY <1>7 DEF Store, conns
  <2>2. /\ pc[master] = "wait_inc_st" /\ pc'[master] = "signal" /\ server' = server
        /\ pc'[the_worker] = pc[the_worker]
      BY <2>1, SerialMove, <1>t
  <2>3. "wait_inc_st" \in Pushing /\ "signal" \in Between
      BY DEF Pushing, Between
  <2>4. Pushes /\ server = "up"
      BY <2>2, <2>3, PlacesApart DEF SerialInv, Rests, Handles
  <2>5. reg[master] = 0 /\ ListIs(new, new) /\ OnlyNewOpen /\ IdleAt(pc[the_worker])
      BY <2>2, <2>4 DEF Pushes, PushingAt
  <2>6. /\ mem'.next = mem.next /\ mem'.tail = mem.tail /\ mem'.buffer_wait_num = 1
        /\ mem'.buffer_work_num = mem.buffer_work_num
      BY <1>t, <2>1, <2>5, Bumped
  <2>7. ListIs(new, new)'
      BY <2>1, <2>5, <2>6 DEF ListIs, new, accepted, head
  <2>8. OnlyNewOpen'
      BY <2>1, <2>5 DEF OnlyNewOpen, OpenFds, new, accepted, head
  <2>9. IdleAt(pc[the_worker])'
      BY <1>t, <2>1, <2>2, <2>5, <2>6 DEF IdleAt
  <2>10. Rests'
      BY <2>2, <2>3, <2>4, <2>6, <2>7, <2>8, <2>9 DEF Rests, Pushes
  <2>11. QED
      BY <2>2, <2>4, <2>10 DEF SerialInv
<1>8. CASE SignalNotEmpty \/ UnlockMutex
  <2>1. "signal" \in Between /\ "unlock" \in Between /\ "accept" \in Between
      BY DEF Between
  <2>2. CASE SignalNotEmpty
      BY <2>1, <2>2, BetweenStep DEF SignalNotEmpty, conns, DataKept
  <2>3. CASE UnlockMutex
      BY <2>1, <2>3, BetweenStep DEF UnlockMutex, Unlock, conns, local, DataKept
  <2>4. QED
      BY <1>8, <2>2, <2>3
<1>9. QED
    BY <1>2, <1>3, <1>4, <1>5, <1>6, <1>7, <1>8 DEF MasterStep, WaitInc, Bump

\* A connection is accepted: nothing was open, now the newest node is.
LEMMA AcceptRounds ==
  ASSUME Serial, TypeInv, ListInv, SerialInv, Accept
  PROVE  SerialInv'
<1>t. /\ the_worker # master /\ head = 0 /\ mem \in Memory /\ NULL \notin Int
      /\ mem.next \in [Node -> Link]
    BY SerialTypes
<1>1. /\ Step(master, "accept", "lock") /\ accepted < MaxConn
      /\ Cardinality(OpenFds) < 1
      /\ UNCHANGED <<mem, node, reg, search>>
    BY DEF Accept, local, Serial
<1>2. PICK f \in Fd \ OpenFds : /\ fd' = Append(fd, f)
                               /\ owner' = [owner EXCEPT ![f] = accepted + 1]
    BY <1>1, DescriptorIsFree DEF Accept
<1>3. fd \in Seq(Fd) /\ Len(fd) \in Nat /\ owner \in [Fd -> Node]
    BY DEF TypeInv, DataTypes
<1>4. OpenFds = {}
  <2>1. IsFiniteSet(Fd)
      BY FS_Interval, ServerAssumption DEF Fd
  <2>2. IsFiniteSet(OpenFds)
      BY <2>1, FS_Subset DEF OpenFds
  <2>3. Cardinality(OpenFds) \in Nat
      BY <2>2, FS_CardinalityType
  <2>4. Cardinality(OpenFds) = 0
      BY <1>1, <2>3
  <2>5. QED
      BY <2>2, <2>4, FS_EmptySet
<1>5. new' = new + 1 /\ new' \in 1..MaxConn /\ fd'[new'] = f /\ new = Len(fd) /\ new \in Nat
    BY <1>1, <1>2, <1>3, ServerAssumption DEF new, accepted
<1>6. OpenFds' = {f}
  <2>1. owner' \in [Fd -> Nat] /\ owner'[f] = new' /\ \A g \in Fd : g # f => owner'[g] = owner[g]
      BY <1>2, <1>3, <1>5 DEF Node, new, accepted
  <2>2. \A g \in Fd : owner[g] = NOBODY
      BY <1>4 DEF OpenFds
  <2>3. new' # NOBODY
      BY <1>5 DEF NOBODY
  <2>4. QED
      BY <1>2, <2>1, <2>2, <2>3 DEF OpenFds
<1>7. OnlyNewOpen'
    BY <1>5, <1>6, <1>t DEF OnlyNewOpen, head
<1>8. /\ pc[master] = "accept" /\ pc'[master] = "lock" /\ server' = server
      /\ pc'[the_worker] = pc[the_worker]
    BY <1>1, SerialMove, SerialTypes
<1>9. "accept" \in Between /\ "lock" \in Pushing
    BY DEF Between, Pushing
<1>10. Rests /\ mem.buffer_wait_num = 0 /\ ListIs(NULL, head) /\ server = "up"
    BY <1>8, <1>9, <1>4, PlacesApart DEF SerialInv, Pushes, Rests, Handles, OnlyNewOpen
<1>11. ListIs(NULL, head)'
    BY <1>1, <1>5, <1>10, <1>t DEF ListIs, head
<1>12. PushingAt("lock")'
    BY <1>1, <1>10, <1>11 DEF PushingAt
<1>13. IdleAt(pc[the_worker])'
    BY <1>1, <1>8, <1>10 DEF Rests, IdleAt
<1>14. QED
    BY <1>7, <1>8, <1>9, <1>10, <1>12, <1>13 DEF SerialInv, Pushes, Rests

\* The worker without a request: it finds none, or the one the master counted.
LEMMA IdleRounds ==
  ASSUME Serial, TypeInv, ListInv, SerialInv,
         \/ LockSlot(the_worker) \/ CheckEmpty(the_worker) \/ WaitNotEmpty(the_worker)
         \/ WorkerAwake(the_worker) \/ WorkDec(the_worker)
         \/ SignalNotFull(the_worker) \/ UnlockSlot(the_worker)
  PROVE  SerialInv'
<1>t. /\ Thread = {the_worker, master} /\ the_worker # master /\ DOMAIN reg = Thread
      /\ mem \in Memory
    BY SerialTypes
<1>1. ASSUME NEW from \in {"lock", "check", "sleep", "blocked", "signal", "unlock"},
             NEW to \in {"lock", "check", "sleep", "blocked", "signal", "unlock"},
             Step(the_worker, from, to), UNCHANGED <<mem, conns, local>>
      PROVE  SerialInv'
  <2>1. from \in Unoccupied /\ to \in Unoccupied
      BY DEF Unoccupied
  <2>2. IdleAt(from) => IdleAt(to)'
      BY <1>1 DEF IdleAt
  <2>3. UNCHANGED <<fd, owner, search, reg, mem>>
      BY <1>1 DEF conns, local
  <2>4. QED
      BY <1>1, <2>1, <2>2, <2>3, IdleStep
<1>2. CASE \/ LockSlot(the_worker) \/ WaitNotEmpty(the_worker) \/ WorkerAwake(the_worker)
           \/ SignalNotFull(the_worker) \/ UnlockSlot(the_worker)
    BY <1>1, <1>2 DEF LockSlot, WaitNotEmpty, WorkerAwake, SignalNotFull, UnlockSlot, Lock, Unlock
<1>3. CASE CheckEmpty(the_worker) /\ mem.buffer_wait_num = 0
  <2>1. Step(the_worker, "check", "sleep") /\ UNCHANGED <<mem, conns, local>>
      BY <1>3 DEF CheckEmpty, Branch
  <2>2. QED
      BY <1>1, <2>1
<1>4. CASE CheckEmpty(the_worker) /\ mem.buffer_wait_num # 0
  <2>1. /\ Step(the_worker, "check", "peek")
        /\ UNCHANGED <<mem, fd, owner, reg, node, search>>
      BY <1>4 DEF CheckEmpty, Branch, conns, local
  <2>2. /\ pc[the_worker] = "check" /\ pc'[the_worker] = "peek" /\ server' = server
        /\ pc'[master] = pc[master]
      BY <2>1, SerialMove, <1>t
  <2>3. "check" \in Unoccupied /\ "peek" \in Handling
      BY DEF Unoccupied, Handling
  <2>4. /\ Rests /\ server = "up" /\ mem.buffer_wait_num = 1 /\ ListIs(new, new)
        /\ OnlyNewOpen /\ mem.buffer_work_num = 0
      BY <1>4, <2>2, <2>3, PlacesApart
      DEF SerialInv, Pushes, PushingAt, Rests, Handles, IdleAt
  <2>5. DataKept
      BY <2>1 DEF DataKept
  <2>6. HandlingAt("peek")
      BY <2>4 DEF HandlingAt
  <2>7. HandlingAt("peek")' /\ OnlyNewOpen'
      BY <2>4, <2>5, <2>6, DataKeptKeeps
  <2>8. Handles'
      BY <2>2, <2>3, <2>4, <2>7 DEF Handles, Rests
  <2>9. QED
      BY <2>2, <2>4, <2>8 DEF SerialInv
<1>5. CASE Load(the_worker, "work_dec", "work_dec_st", mem["buffer_work_num"])
  <2>1. /\ Step(the_worker, "work_dec", "work_dec_st") /\ UNCHANGED <<mem, fd, owner, search>>
        /\ reg' = [reg EXCEPT ![the_worker] = mem.buffer_work_num]
      BY <1>5 DEF Load, conns
  <2>2. reg'[master] = reg[master] /\ reg'[the_worker] = mem.buffer_work_num
      BY <1>t, <2>1
  <2>3. IdleAt("work_dec") => IdleAt("work_dec_st")'
      BY <2>1, <2>2 DEF IdleAt
  <2>4. "work_dec" \in Unoccupied /\ "work_dec_st" \in Unoccupied
      BY DEF Unoccupied
  <2>5. QED
      BY <2>1, <2>2, <2>3, <2>4, IdleStep
<1>6. CASE Store(the_worker, "work_dec_st", "signal",
                 [mem EXCEPT !["buffer_work_num"] = reg[the_worker] + (-1)])
  <2>1. /\ Step(the_worker, "work_dec_st", "signal") /\ UNCHANGED <<fd, owner, search>>
        /\ reg' = [reg EXCEPT ![the_worker] = 0]
        /\ mem' = [mem EXCEPT !["buffer_work_num"] = reg[the_worker] + (-1)]
      BY <1>6 DEF Store, conns
  <2>2. reg'[master] = reg[master]
      BY <1>t, <2>1
  <2>3. /\ mem'.next = mem.next /\ mem'.tail = mem.tail
        /\ mem'.buffer_wait_num = mem.buffer_wait_num
        /\ mem'.buffer_work_num = reg[the_worker] + (-1)
      BY <1>t, <2>1, Bumped
  <2>4. IdleAt("work_dec_st") => IdleAt("signal")'
      BY <2>3 DEF IdleAt
  <2>5. "work_dec_st" \in Unoccupied /\ "signal" \in Unoccupied
      BY DEF Unoccupied
  <2>6. QED
      BY <2>1, <2>2, <2>3, <2>4, <2>5, IdleStep
<1>7. QED
    BY <1>2, <1>3, <1>4, <1>5, <1>6 DEF WorkDec, Bump

\* The worker takes the only node and serves it; nothing it meets is NULL, and
\* the descriptor it writes to and closes is open.
LEMMA HandleRounds ==
  ASSUME Serial, TypeInv, ListInv, SerialInv, HandleRequest(the_worker), ~WorkDec(the_worker)
  PROVE  SerialInv'
<1> DEFINE w == the_worker
<1>t. /\ Worker = {w} /\ Thread = {w, master} /\ w # master
      /\ DOMAIN reg = Thread /\ DOMAIN node = Worker /\ mem \in Memory
      /\ new \in Node /\ head \in Node /\ head = 0 /\ NULL # head /\ NULL # new /\ NULL \notin Int
    BY SerialTypes
<1>l. \A l \in Handling : l = pc[w] => OnlyNewOpen /\ HandlingAt(l) /\ Handles
    BY PlacesApart DEF SerialInv, Pushes, Rests, Handles
<1>o. OnlyNewOpen => new # head
    BY DEF OnlyNewOpen
<1>n. fd' = fd => new' = new /\ head' = head
    BY DEF new, accepted, head
<1> USE DEF Handling
<1>q. ASSUME fd' = fd, mem' = mem
      PROVE  \A p, q : ListIs(p, q)' = ListIs(p, q)
    BY <1>q, <1>n DEF ListIs
<1>load. ASSUME NEW from \in Handling, NEW to \in Handling, NEW v, Load(w, from, to, v),
                HandlingAt(from) /\ OnlyNewOpen /\ reg'[w] = v /\ mem' = mem /\ node' = node
                  /\ fd' = fd => HandlingAt(to)'
         PROVE  SerialInv'
  <2>1. /\ Step(w, from, to) /\ reg' = [reg EXCEPT ![w] = v]
        /\ UNCHANGED <<mem, fd, owner, node>>
      BY <1>load DEF Load, conns
  <2>2. reg'[w] = v
      BY <2>1, <1>t
  <2>3. QED
      BY <1>load, <2>1, <2>2, HandleStep
<1>store. ASSUME NEW from \in Handling, NEW to \in Handling, NEW m, Store(w, from, to, m),
                 HandlingAt(from) /\ OnlyNewOpen /\ mem' = m /\ node' = node
                   /\ fd' = fd => HandlingAt(to)'
          PROVE  SerialInv'
  <2>1. /\ Step(w, from, to) /\ mem' = m /\ UNCHANGED <<fd, owner, node>>
      BY <1>store DEF Store, conns
  <2>2. QED
      BY <1>store, <2>1, HandleStep
<1>plain. ASSUME NEW from \in Handling, NEW to \in Handling, Step(w, from, to),
                 UNCHANGED <<mem, conns, local>>,
                 HandlingAt(from) => HandlingAt(to)
          PROVE  SerialInv'
  <2>1. DataKept /\ UNCHANGED <<fd, owner>>
      BY <1>plain DEF DataKept, conns, local
  <2>2. HandlingAt(to)' = HandlingAt(to)
      BY <2>1, DataKeptKeeps
  <2>3. QED
      BY <1>plain, <2>1, <2>2, HandleStep
<1>1. CASE Peek(w)
  <2>1. /\ Step(w, "peek", "pop_test") /\ node' = [node EXCEPT ![w] = mem.next[head]]
        /\ UNCHANGED <<mem, fd, owner>>
      BY <1>1 DEF Peek, conns
  <2>2. node'[w] = mem.next[head]
      BY <1>t, <2>1
  <2>3. HandlingAt("peek") => HandlingAt("pop_test")'
      BY <2>1, <2>2, <1>n, <1>q DEF HandlingAt, ListIs
  <2>4. QED
      BY <2>1, <2>3, HandleStep
<1>2. CASE PopTest(w)
  <2>1. pc[w] = "pop_test"
      BY <1>2 DEF PopTest, Branch, Step, At
  <2>2. mem.next[head] # NULL
      BY <1>l, <1>t, <2>1 DEF HandlingAt, ListIs
  <2>3. Step(w, "pop_test", "pop_load1") /\ UNCHANGED <<mem, conns, local>>
      BY <1>2, <2>2 DEF PopTest, Branch
  <2>4. QED
      BY <1>plain, <2>3 DEF HandlingAt
<1>3. CASE PopLoad1(w)
  <2>1. HandlingAt("pop_load1") /\ OnlyNewOpen /\ reg'[w] = mem.next[head] /\ mem' = mem /\ node' = node
        /\ fd' = fd => HandlingAt("pop_load2")'
      BY <1>n, <1>q DEF HandlingAt, ListIs
  <2>2. QED
      BY <1>3, <1>load, <2>1 DEF PopLoad1
<1>4. CASE PopLoad2(w)
  <2>1. pc[w] = "pop_load2"
      BY <1>4 DEF PopLoad2, Load, Step, At
  <2>2. reg[w] = new /\ mem.next[new] = NULL
      BY <1>l, <2>1 DEF HandlingAt, ListIs
  <2>3. HandlingAt("pop_load2") /\ OnlyNewOpen /\ reg'[w] = mem.next[reg[w]] /\ mem' = mem /\ node' = node
        /\ fd' = fd => HandlingAt("pop_store")'
      BY <1>n, <1>q, <2>2 DEF HandlingAt
  <2>4. QED
      BY <1>4, <1>load, <2>3 DEF PopLoad2
<1>5. CASE PopStore(w)
  <2>1. OnlyNewOpen => [mem EXCEPT !.next[head] = reg[w]].next[new] = mem.next[new]
      BY <1>o, <1>t, Stored
  <2>2. LET m == [mem EXCEPT !.next[head] = reg[w]] IN
          /\ m.next[head] = reg[w] /\ m.tail = mem.tail /\ m.buffer_wait_num = mem.buffer_wait_num
          /\ m.buffer_work_num = mem.buffer_work_num
      BY <1>t, Stored
  <2>3. HandlingAt("pop_store") /\ OnlyNewOpen /\ mem' = [mem EXCEPT !.next[head] = reg[w]]
        /\ node' = node /\ fd' = fd => HandlingAt("pop_empty")'
      BY <1>n, <1>t, <2>1, <2>2 DEF HandlingAt, ListIs
  <2>4. QED
      BY <1>5, <1>store, <2>3 DEF PopStore
<1>6. CASE PopEmpty(w)
  <2>1. pc[w] = "pop_empty"
      BY <1>6 DEF PopEmpty, Branch, Step, At
  <2>2. mem.next[head] = NULL
      BY <1>l, <2>1 DEF HandlingAt, ListIs
  <2>3. Step(w, "pop_empty", "pop_tail") /\ UNCHANGED <<mem, conns, local>>
      BY <1>6, <2>2 DEF PopEmpty, Branch
  <2>4. QED
      BY <1>plain, <2>3 DEF HandlingAt
<1>7. CASE PopTail(w)
  <2>1. LET m == [mem EXCEPT !.tail = head] IN
          /\ m.next = mem.next /\ m.tail = head /\ m.buffer_wait_num = mem.buffer_wait_num
          /\ m.buffer_work_num = mem.buffer_work_num
      BY <1>t, Stored
  <2>2. HandlingAt("pop_tail") /\ OnlyNewOpen /\ mem' = [mem EXCEPT !.tail = head]
        /\ node' = node /\ fd' = fd => HandlingAt("count")'
      BY <1>n, <1>t, <2>1 DEF HandlingAt, ListIs
  <2>3. QED
      BY <1>7, <1>store, <2>2 DEF PopTail
<1>8. CASE Count(w) \/ CountKind(w)
  <2>1. ASSUME NEW from \in {"count", "count_st", "count_kind", "static_st", "dynamic_st"},
               NEW to \in {"count_st", "count_kind", "static_st", "dynamic_st", "hist_inc"},
               NEW x, LoadStat(w, from, to, x) \/ StoreStat(w, from, to, x)
        PROVE  SerialInv'
    <3>1. Step(w, from, to) /\ UNCHANGED <<mem, fd, owner, node>>
        BY <2>1 DEF LoadStat, Load, StoreStat, conns
    <3>2. HandlingAt(from) => HandlingAt(to)'
        BY <3>1, <1>n, <1>q DEF HandlingAt
    <3>3. QED
        BY <3>1, <3>2, HandleStep
  <2>2. CASE Count(w)
      BY <2>1, <2>2 DEF Count
  <2>3. CASE CountKind(w)
      BY <2>1, <2>3 DEF CountKind
  <2>4. QED
      BY <1>8, <2>2, <2>3
<1>9. CASE HistInc(w)
  <2>1. HandlingAt("hist_inc") /\ mem' = mem /\ node' = node /\ fd' = fd
          => HandlingAt("hist_inc_st")'
      BY <1>n, <1>q DEF HandlingAt, ListIs
  <2>2. LET m == [mem EXCEPT !["buffer_head_hist"] = reg[w] + 1] IN
          HandlingAt("hist_inc_st") /\ OnlyNewOpen /\ mem' = m /\ node' = node /\ fd' = fd
            => HandlingAt("work_inc")'
      BY <1>n, <1>t, Bumped DEF HandlingAt, ListIs
  <2>3. QED
      BY <1>9, <1>load, <1>store, <2>1, <2>2 DEF HistInc, Bump
<1>10. CASE WorkInc(w)
  <2>1. HandlingAt("work_inc") /\ reg'[w] = mem["buffer_work_num"] /\ mem' = mem /\ node' = node
          /\ fd' = fd => HandlingAt("work_inc_st")'
      BY <1>n, <1>q DEF HandlingAt, ListIs
  <2>2. LET m == [mem EXCEPT !["buffer_work_num"] = reg[w] + 1] IN
          HandlingAt("work_inc_st") /\ OnlyNewOpen /\ mem' = m /\ node' = node /\ fd' = fd
            => HandlingAt("wait_dec")'
      BY <1>n, <1>t, Bumped DEF HandlingAt, ListIs
  <2>3. QED
      BY <1>10, <1>load, <1>store, <2>1, <2>2 DEF WorkInc, Bump
<1>11. CASE WaitDec(w)
  <2>1. HandlingAt("wait_dec") /\ reg'[w] = mem["buffer_wait_num"] /\ mem' = mem /\ node' = node
          /\ fd' = fd => HandlingAt("wait_dec_st")'
      BY <1>n, <1>q DEF HandlingAt, ListIs
  <2>2. LET m == [mem EXCEPT !["buffer_wait_num"] = reg[w] + (-1)] IN
          HandlingAt("wait_dec_st") /\ OnlyNewOpen /\ mem' = m /\ node' = node /\ fd' = fd
            => HandlingAt("serve")'
      BY <1>n, <1>t, Bumped DEF HandlingAt, ListIs
  <2>3. QED
      BY <1>11, <1>load, <1>store, <2>1, <2>2 DEF WaitDec, Bump
<1>12. CASE ServeStatic(w) \/ ServeDynamic(w) \/ Reap(w)
  <2>1. /\ HandlingAt("serve") => HandlingAt("close") /\ HandlingAt("wait")
        /\ HandlingAt("wait") => HandlingAt("close")
      BY DEF HandlingAt
  <2>2. QED
      BY <1>12, <1>plain, <2>1 DEF ServeStatic, ServeDynamic, Reap
<1>a. ASSUME pc[w] \in {"serve", "close"}
      PROVE  connfd(w) \in OpenFds /\ CanServe(w) /\ node[w] = new
  <2>1. OnlyNewOpen /\ node[w] = new
      BY <1>a, <1>l DEF HandlingAt
  <2>2. new # head /\ Complete(new)
      BY <2>1, <1>t DEF OnlyNewOpen, ListInv, LocalsComplete, Points
  <2>3. new \in 1..Len(request) /\ request \in Seq(Requests)
      BY <2>2, <1>t DEF Complete, Node, ListInv, ListTypes
  <2>4. Asks(w) \in Requests
      BY <2>1, <2>3 DEF Asks
  <2>5. Asks(w).is_static => Asks(w).ok /\ Asks(w).st_size > 0
      BY <2>4 DEF Serial
  <2>6. connfd(w) \in OpenFds
      BY <2>1 DEF OnlyNewOpen, connfd
  <2>7. QED
      BY <2>1, <2>5, <2>6 DEF CanServe
<1>13. CASE ServeFails(w) \/ CloseAgain(w)
    BY <1>13, <1>a DEF ServeFails, CloseAgain, At
<1>14. CASE Close(w)
  <2>1. /\ Step(w, "close", "work_dec") /\ owner' = [owner EXCEPT ![connfd(w)] = NOBODY]
        /\ UNCHANGED <<mem, fd, reg>>
      BY <1>14 DEF Close
  <2>2. /\ pc[w] = "close" /\ pc'[w] = "work_dec" /\ server' = server /\ pc'[master] = pc[master]
      BY <2>1, <1>t, SerialMove
  <2>3. Handles /\ HandlingAt("close") /\ OnlyNewOpen
      BY <1>l, <2>2
  <2>4. connfd(w) = fd[new] /\ OpenFds = {fd[new]}
      BY <2>2, <2>3, <1>a DEF connfd, OnlyNewOpen
  <2>5. OpenFds' = {}
    <3>1. owner \in [Fd -> Node]
        BY DEF TypeInv, DataTypes
    <3>2. \A f \in Fd : owner'[f] = IF f = fd[new] THEN NOBODY ELSE owner[f]
        BY <3>1, <2>1, <2>4
    <3>3. \A f \in Fd : f # fd[new] => owner[f] = NOBODY
        BY <2>4 DEF OpenFds
    <3>4. QED
        BY <3>2, <3>3 DEF OpenFds
  <2>6. IdleAt("work_dec")' /\ mem'.buffer_wait_num = 0 /\ ListIs(NULL, head)'
      BY <2>1, <2>3, <1>q DEF HandlingAt, IdleAt
  <2>7. "work_dec" \in Unoccupied
      BY DEF Unoccupied
  <2>8. Rests'
      BY <2>2, <2>3, <2>5, <2>6, <2>7 DEF Rests, Handles
  <2>9. QED
      BY <2>2, <2>8 DEF SerialInv
<1>15. QED
    BY <1>1, <1>2, <1>3, <1>4, <1>5, <1>6, <1>7, <1>8, <1>9, <1>10, <1>11, <1>12, <1>13, <1>14
    DEF HandleRequest

LEMMA InitSerialInv == Serial /\ Init => SerialInv
<1> SUFFICES ASSUME Serial, Init PROVE SerialInv
    OBVIOUS
<1>1. TypeInv /\ ListInv
    BY InitTypeInv, InitListInv
<1>2. pc[master] = "accept" /\ pc[the_worker] = "lock"
    BY <1>1, SerialTypes DEF Init, InitWith
<1>3. OpenFds = {} /\ new = 0
    BY DEF Init, InitWith, OpenFds, new, accepted
<1>4. ListIs(NULL, head) /\ mem.buffer_wait_num = 0 /\ mem.buffer_work_num = 0
    BY <1>1, <1>3, SerialTypes DEF Init, InitWith, ListIs
<1>5. "accept" \in Between /\ "lock" \in Unoccupied /\ IdleAt("lock")
    BY <1>4 DEF Between, Unoccupied, IdleAt
<1>6. QED
    BY <1>2, <1>3, <1>4, <1>5 DEF SerialInv, Rests, Init, InitWith

LEMMA NextSerialInv ==
  ASSUME Serial, TypeInv, ListInv, SerialInv, [Next]_vars
  PROVE  SerialInv'
<1>t. Worker = {the_worker} /\ head = 0 /\ NULL \notin Int /\ new \in Node /\ Node \subseteq Int
    BY SerialTypes
<1>1. CASE Accept \/ MasterStep
    BY <1>1, AcceptRounds, MasterRounds
<1>2. CASE WorkerStep(the_worker)
    BY <1>2, IdleRounds, HandleRounds DEF WorkerStep, HandleRequest
<1>3. CASE ChildExits \/ SpuriousWakeup \/ UNCHANGED vars
  <2>1. UNCHANGED <<pc, server, mem, fd, owner, node, reg, search>>
      BY <1>3 DEF ChildExits, SpuriousWakeup, vars, conns, local
  <2>2. DataKept
      BY <2>1 DEF DataKept
  <2>3. \A p, q : ListIs(p, q)' = ListIs(p, q)
      BY <2>2, DataKeptKeeps
  <2>4. new' = new /\ head' = head
      BY <2>1 DEF new, accepted, head
  <2>5. Pushes => Pushes'
      BY <2>1, <2>2, DataKeptKeeps DEF Pushes
  <2>6. Rests => Rests'
      BY <2>1, <2>2, <2>3, <2>4, DataKeptKeeps DEF Rests
  <2>7. Handles => Handles'
      BY <2>1, <2>2, DataKeptKeeps DEF Handles
  <2>8. QED
      BY <2>1, <2>5, <2>6, <2>7 DEF SerialInv
<1>4. ~Segv
  <2>1. ~At(master, "walk_size")
      BY PlacesApart DEF SerialInv, Pushes, Rests, Handles, At, Pushing, Between
  <2>2. \A l \in {"fifo_link", "fifo_next", "sff_last"} : At(master, l) => reg[master] # NULL
      BY <1>t DEF SerialInv, Pushes, PushingAt, Rests, Handles, At, Pushing, Between
  <2>3. \A l \in {"walk_next", "sff_next"} : At(master, l) => search.tmp # NULL
      BY <1>t DEF SerialInv, Pushes, PushingAt, Rests, Handles, At, Pushing, Between
  <2>4. At(the_worker, "peek") => mem.next[head] # NULL
      BY <1>t DEF SerialInv, Pushes, Rests, Handles, HandlingAt, ListIs, At, Unoccupied, Handling
  <2>5. At(the_worker, "pop_load2") => reg[the_worker] # NULL
      BY <1>t DEF SerialInv, Pushes, Rests, Handles, HandlingAt, At, Unoccupied, Handling
  <2>6. QED
      BY <1>t, <2>1, <2>2, <2>3, <2>4, <2>5 DEF Segv, NullAccess
<1>5. QED
    BY <1>t, <1>1, <1>2, <1>3, <1>4 DEF Next

LEMMA SerialQuiet == SerialInv => StaysUp /\ QuietCounters
<1> SUFFICES ASSUME SerialInv PROVE StaysUp /\ QuietCounters
    OBVIOUS
<1>1. StaysUp
    BY DEF SerialInv, StaysUp
<1>2. ASSUME pc[master] = "accept", \A w \in Worker : pc[w] \in {"lock", "blocked"},
             OpenFds = {}
      PROVE  /\ mem.buffer_wait_num = 0 /\ mem.buffer_work_num = 0
             /\ mem.next[head] = NULL /\ mem.tail = head
  <2>1. Rests /\ ~OnlyNewOpen
      BY <1>2 DEF SerialInv, Pushes, Handles, OnlyNewOpen
  <2>2. ListIs(NULL, head) /\ mem.buffer_wait_num = 0 /\ IdleAt(pc[the_worker])
      BY <2>1 DEF Rests
  <2>3. pc[the_worker] \notin {"work_dec", "work_dec_st"}
      BY <1>2, ServerAssumption DEF Worker, the_worker
  <2>4. QED
      BY <2>2, <2>3 DEF ListIs, IdleAt
<1>3. QuietCounters
    BY <1>2, Zenon DEF QuietCounters
<1>4. QED
    BY <1>1, <1>3

LEMMA SerialInvHolds ==
  ASSUME Serial
  PROVE  Spec => []SerialInv
<1>1. Init => SlotInv(Slot) /\ ListInv /\ TypeInv /\ SerialInv
    BY InitSlots, InitListInv, InitTypeInv, InitSerialInv
<1>2. SlotInv(Slot) /\ ListInv /\ TypeInv /\ SerialInv /\ [Next]_vars
        => (SlotInv(Slot) /\ ListInv /\ TypeInv /\ SerialInv)'
    BY NextSlots, NextListInv, NextTypeInv, NextSerialInv
<1>3. QED
    BY <1>1, <1>2, PTL DEF Spec

\* With one worker and one connection at a time no interleaving of the master
\* and the worker reads through NULL, closes a descriptor twice or writes to a
\* closed one: the process stays up, for any number of requests and each policy.
THEOREM StaysUpHolds ==
  ASSUME Serial
  PROVE  Spec => []StaysUp
<1>1. SerialInv => StaysUp
    BY SerialQuiet
<1>2. QED
    BY <1>1, SerialInvHolds, PTL

\* And when both are idle again the counters are back at zero and the list is
\* empty with its tail at the sentinel: nothing of a request is left behind.
THEOREM QuietCountersHolds ==
  ASSUME Serial
  PROVE  Spec => []QuietCounters
<1>1. SerialInv => QuietCounters
    BY SerialQuiet
<1>2. QED
    BY <1>1, SerialInvHolds, PTL
=============================================================================
