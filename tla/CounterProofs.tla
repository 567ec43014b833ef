--------------------------- MODULE CounterProofs ---------------------------
(***************************************************************************)
(* Proofs about the counter of p4-final, for any set of threads and any    *)
(* number of calls.                                                        *)
(***************************************************************************)
EXTENDS Counter, TLAPS

\* A thread inside ++ or -- holds the lock it asked for.
HoldsLock ==
  \A t \in Thread : InUpdate(t) => taken[LockOf(t)] = 1

LockInv == TypeOK /\ HoldsLock /\ MutualExclusion

\* Without PTH nobody stores between a thread's load and its store.
LoadIsCurrent == \A t \in Thread : pc[t] = "store" => reg[t] = val

\* Only Counter_GetValue skips the lock.
Updates ==
  \A t \in Thread :
    /\ pc[t] = "get" => op[t] = "get"
    /\ pc[t] \in {"acquire", "load", "store", "release"} => op[t] # "get"

CountInv == LockInv /\ LoadIsCurrent /\ CountExact /\ Updates

-----------------------------------------------------------------------------
LEMMA LockInvInit == Init => LockInv
BY CounterAssumption
DEF Init, Counter_Init, LockInv, TypeOK, LockWord, HoldsLock, MutualExclusion, InUpdate,
    Label, Op

\* The locks of Counter_Increment and Counter_Decrement stay held through ++
\* and --, whatever the other threads do.
LEMMA LockInvStep == LockInv /\ [Next]_vars => LockInv'
<1> SUFFICES ASSUME LockInv, [Next]_vars PROVE LockInv'
    OBVIOUS
<1> USE CounterAssumption DEF LockInv, TypeOK, HoldsLock, MutualExclusion, InUpdate,
                              LockOf, LockWord, Label, Op, Step
<1>1. CASE UNCHANGED vars
      BY <1>1 DEF vars
<1>2. ASSUME NEW t \in Thread, NEW o \in Op, Call(t, o) PROVE LockInv'
      BY <1>2 DEF Call
<1>3. ASSUME NEW t \in Thread, Acquire(t) PROVE LockInv'
  <2>1. \A u \in Thread : LockOf(u) \in LockName /\ LockOf(u)' = LockOf(u)
        BY <1>3 DEF Acquire, LockName
  <2>2. TypeOK'
        BY <1>3, <2>1 DEF Acquire
  <2> HIDE DEF LockOf
  <2>3. HoldsLock'
        BY <1>3, <2>1 DEF Acquire
  <2>4. MutualExclusion'
        BY <1>3, <2>1 DEF Acquire
  <2>5. QED
        BY <2>2, <2>3, <2>4
<1>4. ASSUME NEW t \in Thread, LoadVal(t) PROVE LockInv'
      BY <1>4 DEF LoadVal
<1>5. ASSUME NEW t \in Thread, StoreVal(t) PROVE LockInv'
      BY <1>5 DEF StoreVal
<1>6. ASSUME NEW t \in Thread, Release(t) PROVE LockInv'
  <2>1. \A u \in Thread : LockOf(u) \in LockName /\ LockOf(u)' = LockOf(u)
        BY <1>6 DEF Release, LockName
  <2>2. TypeOK'
        BY <1>6, <2>1 DEF Release
  <2> HIDE DEF LockOf
  <2>3. HoldsLock'
        BY <1>6, <2>1 DEF Release
  <2>4. MutualExclusion'
        BY <1>6, <2>1 DEF Release
  <2>5. QED
        BY <2>2, <2>3, <2>4
<1>7. ASSUME NEW t \in Thread, Counter_GetValue(t) PROVE LockInv'
      BY <1>7 DEF Counter_GetValue
<1>8. ASSUME NEW t \in Thread, Return(t) PROVE LockInv'
      BY <1>8 DEF Return
<1>9. QED
      BY <1>1, <1>2, <1>3, <1>4, <1>5, <1>6, <1>7, <1>8 DEF Next, InCall

\* The variables of the counter keep their types, with PTH whatever word the
\* uninitialised spinlock starts with (counter.c 18-27).
THEOREM TypeCorrect == Spec => []TypeOK
<1>1. LockInv => TypeOK
      BY DEF LockInv
<1>2. QED
      BY LockInvInit, LockInvStep, <1>1, PTL DEF Spec

\* Each lock admits one thread at a time, however the library was compiled and
\* whatever the spinlock starts with (counter.c 18-57).
THEOREM MutualExclusionHolds == Spec => []MutualExclusion
<1>1. LockInv => MutualExclusion
      BY DEF LockInv
<1>2. QED
      BY LockInvInit, LockInvStep, <1>1, PTL DEF Spec

-----------------------------------------------------------------------------
LEMMA CountInvInit == Init => CountInv
<1> SUFFICES ASSUME Init PROVE CountInv
    OBVIOUS
<1>1. LockInv
      BY LockInvInit
<1>2. LoadIsCurrent /\ CountExact /\ Updates
      BY CounterAssumption DEF Init, Counter_Init, LoadIsCurrent, CountExact, Updates
<1>3. QED
      BY <1>1, <1>2 DEF CountInv

\* Without PTH the spinlock keeps other threads away between the load and the
\* store of ++ and --, so the store never overwrites another one.
LEMMA CountInvStep ==
  ASSUME ~PTH
  PROVE  CountInv /\ [Next]_vars => CountInv'
<1> SUFFICES ASSUME CountInv, [Next]_vars PROVE CountInv'
    OBVIOUS
<1>0. LockInv /\ LockInv'
      BY LockInvStep DEF CountInv
<1>a. \A t, u \in Thread : InUpdate(t) /\ InUpdate(u) => t = u
      BY <1>0 DEF LockInv, MutualExclusion, LockOf
<1> SUFFICES LoadIsCurrent' /\ CountExact' /\ Updates'
    BY <1>0 DEF CountInv
<1> USE CounterAssumption, <1>0, <1>a
        DEF CountInv, LockInv, TypeOK, LoadIsCurrent, CountExact, Updates,
            InUpdate, LockOf, Label, Op, Step
<1>1. CASE UNCHANGED vars
      BY <1>1 DEF vars
<1>2. ASSUME NEW t \in Thread, NEW o \in Op, Call(t, o)
      PROVE  LoadIsCurrent' /\ CountExact' /\ Updates'
      BY <1>2 DEF Call
<1>3. ASSUME NEW t \in Thread, Acquire(t)
      PROVE  LoadIsCurrent' /\ CountExact' /\ Updates'
      BY <1>3 DEF Acquire
<1>4. ASSUME NEW t \in Thread, LoadVal(t)
      PROVE  LoadIsCurrent' /\ CountExact' /\ Updates'
      BY <1>4 DEF LoadVal
<1>5. ASSUME NEW t \in Thread, StoreVal(t)
      PROVE  LoadIsCurrent' /\ CountExact' /\ Updates'
  <2>1. reg[t] = val
        BY <1>5 DEF StoreVal
  <2>2. CountExact' /\ Updates'
        BY <1>5, <2>1 DEF StoreVal
  <2>3. LoadIsCurrent'
        BY <1>5 DEF StoreVal
  <2>4. QED
        BY <2>2, <2>3
<1>6. ASSUME NEW t \in Thread, Release(t)
      PROVE  LoadIsCurrent' /\ CountExact' /\ Updates'
      BY <1>6 DEF Release
<1>7. ASSUME NEW t \in Thread, Counter_GetValue(t)
      PROVE  LoadIsCurrent' /\ CountExact' /\ Updates'
      BY <1>7 DEF Counter_GetValue
<1>8. ASSUME NEW t \in Thread, Return(t)
       PROVE  LoadIsCurrent' /\ CountExact' /\ Updates'
      BY <1>8 DEF Return
<1>9. QED
      BY <1>1, <1>2, <1>3, <1>4, <1>5, <1>6, <1>7, <1>8 DEF Next, InCall

\* Compiled without -DPTH, Counter_Increment and Counter_Decrement lose and
\* repeat nothing, for any number of threads and calls.
THEOREM CountExactHolds ==
  ASSUME ~PTH
  PROVE  Spec => []CountExact
<1>1. CountInv /\ [Next]_vars => CountInv'
      BY CountInvStep
<1>2. CountInv => CountExact
      BY DEF CountInv
<1>3. QED
      BY CountInvInit, <1>1, <1>2, PTL DEF Spec

-----------------------------------------------------------------------------
\* The register of a thread is empty until Counter_GetValue loads its result.
QuietRegister == \A t \in Thread : pc[t] \in {"idle", "get"} => reg[t] = 0

AtomicInv == CountInv /\ QuietRegister

LEMMA AtomicInvInit == Init => AtomicInv
<1>1. Init => QuietRegister
      BY DEF Init, Counter_Init, QuietRegister
<1>2. QED
      BY <1>1, CountInvInit DEF AtomicInv

LEMMA AtomicInvStep ==
  ASSUME ~PTH
  PROVE  AtomicInv /\ [Next]_vars => AtomicInv'
<1> SUFFICES ASSUME AtomicInv, [Next]_vars PROVE AtomicInv'
    OBVIOUS
<1>1. CountInv'
      BY CountInvStep DEF AtomicInv
<1>2. QuietRegister'
      BY DEF AtomicInv, CountInv, LockInv, TypeOK, QuietRegister, Next, InCall, Call,
             Acquire, LoadVal, StoreVal, Release, Counter_GetValue, Return, Step, vars, Label, Op
<1>3. QED
      BY <1>1, <1>2 DEF AtomicInv

\* A step of one thread changes nobody else's call.
LEMMA OneCallChanges ==
  ASSUME NEW t \in Thread, AtomicInv,
         \A u \in Thread \ {t} : pc'[u] = pc[u] /\ op'[u] = op[u] /\ reg'[u] = reg[u]
  PROVE  calls_of' = [calls_of EXCEPT ![t] = CallOf(t)']
<1>1. \A u \in Thread \ {t} : CallOf(u)' = CallOf(u)
    BY DEF CallOf
<1>2. calls_of' = [u \in Thread |-> CallOf(u)']
    BY DEF calls_of
<1>3. QED
    BY <1>1, <1>2 DEF calls_of

\* Each step of the counter is a step of AtomicCounter or leaves it as it is:
\* the store of ++ and -- and the load of Counter_GetValue take the effect.
LEMMA StepIsAtomic ==
  ASSUME ~PTH
  PROVE  AtomicInv /\ [Next]_vars => [Atomic!Next]_(Atomic!vars)
<1> SUFFICES ASSUME AtomicInv, [Next]_vars PROVE [Atomic!Next]_(Atomic!vars)
    OBVIOUS
<1>1. CASE UNCHANGED vars
      BY <1>1 DEF vars, Atomic!vars, calls_of, CallOf
<1>2. ASSUME NEW t \in Thread, NEW o \in Op, Call(t, o)
      PROVE  Atomic!Begin(t, o)
  <2>1. CallOf(t) = Atomic!Idle
        BY <1>2 DEF CallOf, Call, Step, Atomic!Idle
  <2>a. pc'[t] # "idle" /\ op'[t] = o /\ reg'[t] = 0
        BY <1>2 DEF Call, Step, AtomicInv, CountInv, LockInv, TypeOK, QuietRegister
  <2>b. (pc'[t] \in {"release", "return"}) = FALSE
        BY <1>2 DEF Call, Step, AtomicInv, CountInv, LockInv, TypeOK
  <2>2. CallOf(t)' = [op |-> o, done |-> FALSE, result |-> 0]
        BY <2>a, <2>b DEF CallOf
  <2>3. calls_of' = [calls_of EXCEPT ![t] = CallOf(t)']
        BY <1>2, OneCallChanges DEF Call, Step, AtomicInv, CountInv, LockInv, TypeOK
  <2>4. val' = val
        BY <1>2 DEF Call
  <2>5. QED
        BY <2>1, <2>2, <2>3, <2>4 DEF Atomic!Begin, calls_of, CallOf
<1>3. ASSUME NEW t \in Thread,
             Acquire(t) \/ LoadVal(t) \/ Release(t)
      PROVE  UNCHANGED Atomic!vars
  <2>1. CallOf(t)' = CallOf(t)
        BY <1>3 DEF Acquire, LoadVal, Release,
                    Step, CallOf, AtomicInv, CountInv, LockInv, TypeOK, Updates, Label, Op
  <2>2. calls_of' = [calls_of EXCEPT ![t] = CallOf(t)']
        BY <1>3, OneCallChanges
           DEF Acquire, LoadVal, Release,
               Step, AtomicInv, CountInv, LockInv, TypeOK
  <2>3. val' = val
        BY <1>3 DEF Acquire, LoadVal, Release
  <2>4. calls_of' = calls_of
        BY <2>1, <2>2 DEF calls_of
  <2>5. QED
        BY <2>3, <2>4 DEF Atomic!vars, calls_of, CallOf
<1>4. ASSUME NEW t \in Thread, StoreVal(t)
      PROVE  Atomic!TakeEffect(t)
  <2>1. op[t] \in {"inc", "dec"} /\ reg[t] = val
        BY <1>4 DEF StoreVal, Step, AtomicInv, CountInv, LockInv, TypeOK, Op, Updates,
                    LoadIsCurrent
  <2>a. pc[t] # "idle" /\ (pc[t] \in {"release", "return"}) = FALSE
        BY <1>4 DEF StoreVal, Step
  <2>2. CallOf(t) = [op |-> op[t], done |-> FALSE, result |-> 0]
        BY <2>1, <2>a DEF CallOf
  <2>3. CallOf(t)' = [op |-> op[t], done |-> TRUE, result |-> 0]
    <3>1. pc'[t] = "release" /\ op'[t] = op[t]
        BY <1>4 DEF StoreVal, Step, AtomicInv, CountInv, LockInv, TypeOK
    <3>2. (pc'[t] \in {"release", "return"}) = TRUE
        BY <3>1
    <3>3. QED
        BY <2>1, <3>1, <3>2 DEF CallOf
  <2>4. calls_of' = [calls_of EXCEPT ![t] = CallOf(t)']
        BY <1>4, OneCallChanges DEF StoreVal, Step, AtomicInv, CountInv, LockInv, TypeOK
  <2>5. val' = Atomic!Effect(op[t], val)
        BY <1>4, <2>1 DEF StoreVal, Atomic!Effect
  <2>6. calls_of[t].op = op[t] /\ ~calls_of[t].done
        BY <2>2 DEF calls_of
  <2>7. QED
        BY <2>1, <2>3, <2>4, <2>5, <2>6 DEF Atomic!TakeEffect, Atomic!Op
<1>5. ASSUME NEW t \in Thread, Counter_GetValue(t)
      PROVE  Atomic!TakeEffect(t)
  <2>1. op[t] = "get" /\ reg[t] = 0
        BY <1>5 DEF Counter_GetValue, Step, AtomicInv, CountInv, Updates, QuietRegister
  <2>a. pc[t] # "idle" /\ (pc[t] \in {"release", "return"}) = FALSE
        BY <1>5 DEF Counter_GetValue, Step
  <2>2. CallOf(t) = [op |-> "get", done |-> FALSE, result |-> 0]
        BY <2>1, <2>a DEF CallOf
  <2>3. CallOf(t)' = [op |-> "get", done |-> TRUE, result |-> val]
    <3>1. pc'[t] = "return" /\ op'[t] = "get" /\ reg'[t] = val
        BY <1>5, <2>1 DEF Counter_GetValue, Step, AtomicInv, CountInv, LockInv, TypeOK
    <3>2. (pc'[t] \in {"release", "return"}) = TRUE
        BY <3>1
    <3>3. QED
        BY <3>1, <3>2 DEF CallOf
  <2>4. calls_of' = [calls_of EXCEPT ![t] = CallOf(t)']
        BY <1>5, OneCallChanges
           DEF Counter_GetValue, Step, AtomicInv, CountInv, LockInv, TypeOK
  <2>5. val' = Atomic!Effect("get", val)
        BY <1>5 DEF Counter_GetValue, Atomic!Effect
  <2>6. calls_of[t].op = "get" /\ ~calls_of[t].done
        BY <2>2 DEF calls_of
  <2>7. QED
        BY <2>3, <2>4, <2>5, <2>6 DEF Atomic!TakeEffect, Atomic!Op
<1>6. ASSUME NEW t \in Thread, Return(t)
      PROVE  Atomic!Return(t)
  <2>1. CallOf(t).done
        BY <1>6 DEF Return, Step, CallOf
  <2>2. CallOf(t)' = Atomic!Idle
        BY <1>6 DEF Return, Step, CallOf, Atomic!Idle, AtomicInv, CountInv, LockInv, TypeOK
  <2>3. calls_of' = [calls_of EXCEPT ![t] = CallOf(t)']
        BY <1>6, OneCallChanges DEF Return, Step, AtomicInv, CountInv, LockInv, TypeOK
  <2>4. val' = val
        BY <1>6 DEF Return
  <2>5. QED
        BY <2>1, <2>2, <2>3, <2>4 DEF Atomic!Return, calls_of, CallOf
<1>7. QED
      BY <1>1, <1>2, <1>3, <1>4, <1>5, <1>6
         DEF Next, InCall, Atomic!Next, Op, Atomic!Op

\* Without -DPTH the counter is atomic: whatever the threads do, each call
\* looks as if it took effect in one step between its start and its return.
THEOREM CounterIsAtomic ==
  ASSUME ~PTH
  PROVE  Spec => IsAtomic
<1>1. Init => Atomic!Init
      BY DEF Init, Counter_Init, Atomic!Init, Atomic!Idle, calls_of, CallOf
<1>2. AtomicInv /\ [Next]_vars => AtomicInv'
      BY AtomicInvStep
<1>3. AtomicInv /\ [Next]_vars => [Atomic!Next]_(Atomic!vars)
      BY StepIsAtomic
<1>4. QED
      BY AtomicInvInit, <1>1, <1>2, <1>3, PTL DEF Spec, IsAtomic, Atomic!Spec
=============================================================================
