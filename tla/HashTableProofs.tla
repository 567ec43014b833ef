-------------------------- MODULE HashTableProofs --------------------------
(***************************************************************************)
(* Proofs about the hash table of p4-final, for any threads, keys, number  *)
(* of buckets, calls and finite set of addresses: each bucket's spinlock   *)
(* admits one thread, nobody touches a node that was freed, no node is     *)
(* lost, and every call takes effect in one step: the table implements     *)
(* KeyStore.                                                               *)
(***************************************************************************)
EXTENDS HashTable, FiniteSetTheorems, WellFoundedInduction, TLAPS

\* What a call may be at, by its operation; prev_node is set by walking only.
Calls ==
  \A t \in Thread :
    /\ pc[t] # "idle" => args[t].op \in Op /\ args[t].key \in Key
    /\ pc[t] \in {"malloc", "next", "link"} => args[t].op = "insert"
    /\ pc[t] \in {"head", "walk"} => args[t].op # "insert"
    /\ pc[t] = "free" => args[t].op = "delete"
    /\ pc[t] \in {"idle", "malloc", "acquire", "head"} => prev_node[t] = NULL

\* Between its Acquire and its Release a thread has its bucket to itself.
Inside(t) == pc[t] \in {"next", "link", "head", "walk", "release"}

HoldsLock == \A t \in Thread : Inside(t) => flag[hash_key(t)] = 1

BucketExclusion ==
  \A t, u \in Thread :
    Inside(t) /\ Inside(u) /\ hash_key(t) = hash_key(u) => t = u

LockInv == TypeOK /\ Calls /\ HoldsLock /\ BucketExclusion

\* A node in the hands of a call is allocated, and in nobody else's hands.
Hands ==
  /\ \A t \in Thread : InFlight(t) => curr_node[t] \in used
  /\ \A t, u \in Thread :
       InFlight(t) /\ InFlight(u) /\ curr_node[t] = curr_node[u] => t = u

\* The allocated nodes that are in nobody's hands are those of the lists.
Linked == {a \in used : \A t \in Thread : InFlight(t) => curr_node[t] # a}
Home(a) == HashOf(heap[a].key)

\* A pointer of the list of bucket b.
InList(b, p) == p # NULL => p \in Linked /\ Home(p) = b

\* The lists, as far as one node and the next tell: who is pointed at is in the
\* same list, by one pointer only.
Lists ==
  /\ \A b \in Bucket : InList(b, head[b])
  /\ \A a \in Linked :
       /\ heap[a].key \in Key
       /\ InList(Home(a), heap[a].next)
       /\ heap[a].next # NULL => heap[a].next # head[Home(a)]
  /\ \A a, c \in Linked : heap[a].next = heap[c].next /\ heap[a].next # NULL => a = c

\* A walker stands in its own list, prev_node one node behind it.
Walker(t) ==
  /\ InList(hash_key(t), curr_node[t])
  /\ InList(hash_key(t), prev_node[t])
  /\ args[t].op = "delete" /\ curr_node[t] \notin {NULL, head[hash_key(t)]} =>
       prev_node[t] # NULL /\ heap[prev_node[t]].next = curr_node[t]

Walkers == \A t \in Thread : pc[t] = "walk" => Walker(t)

\* A new node has its key, and before it is linked the old head behind it.
Inserter(t) ==
  /\ heap[curr_node[t]].key = args[t].key
  /\ pc[t] = "link" => heap[curr_node[t]].next = head[hash_key(t)]

Inserters ==
  \A t \in Thread : args[t].op = "insert" /\ pc[t] \in {"acquire", "next", "link"} =>
    Inserter(t)

HashInv == LockInv /\ Hands /\ Lists /\ Walkers /\ Inserters

-----------------------------------------------------------------------------
LEMMA HashInBucket == \A k \in Key : HashOf(k) \in Bucket
BY HashAssumption DEF HashOf, Bucket

LEMMA LockInvInit == Init => LockInv
BY HashAssumption
DEF Init, LockInv, TypeOK, Calls, HoldsLock, BucketExclusion, Inside, NoCall, Op, Label,
    Pointer

Step(t) ==
  \/ \E o \in Op, k \in Key, e \in Element \cup {NULL} : Call(t, o, k, e)
  \/ \E a \in Addr : Malloc(t, a)
  \/ MallocFails(t) \/ SetNext(t) \/ Link(t)
  \/ UnlinkHead(t) \/ Unlink(t) \/ Free(t)
  \/ Found(t) \/ LoadHead(t) \/ WalkOn(t) \/ WalkEnds(t)
  \/ Acquire(t) \/ Release(t) \/ Return(t)

LEMMA NextIsStep == Next <=> \E t \in Thread : Step(t)
BY DEF Next, Step, List_Insert, List_Delete, List_Lookup, Traverse

\* The locals of a thread are its own.
LEMMA OthersStay ==
  ASSUME TypeOK, NEW t \in Thread, Step(t), NEW u \in Thread, u # t
  PROVE  /\ pc'[u] = pc[u] /\ args'[u] = args[u]
         /\ curr_node'[u] = curr_node[u] /\ prev_node'[u] = prev_node[u]
BY DEF TypeOK, Step, Goto, Call, Malloc, MallocFails, SetNext, Link, UnlinkHead, Unlink, Free,
       Found, LoadHead, WalkOn, WalkEnds, Acquire, Release, Return

Nodes == [key : Key \cup {NULL}, element : Element \cup {NULL}, next : Pointer]
Frames == [op : Op \cup {"none"}, key : Key \cup {NULL}, element : Element \cup {NULL}]

LEMMA TypeStep ==
  ASSUME TypeOK, Calls, NEW t \in Thread, Step(t)
  PROVE  TypeOK'
<1>1. /\ head \in [Bucket -> Pointer] /\ flag \in [Bucket -> {0, 1}]
      /\ heap \in [Addr -> Nodes] /\ args \in [Thread -> Frames]
      /\ curr_node \in [Thread -> Pointer] /\ prev_node \in [Thread -> Pointer]
      /\ element \in [Thread -> Element \cup {NULL}]
      /\ pc \in [Thread -> Label] /\ used \subseteq Addr /\ calls \in 0..MaxCalls
  BY DEF TypeOK, Nodes, Frames
<1>2. pc[t] # "idle" => args[t].op \in Op /\ args[t].key \in Key /\ hash_key(t) \in Bucket
  BY HashInBucket DEF Calls, hash_key
<1>3. args[t] \in Frames /\ args[t].element \in Element \cup {NULL}
  BY <1>1 DEF Frames
<1>4. ASSUME NEW a \in Addr
      PROVE  heap[a] \in Nodes /\ heap[a].next \in Pointer /\ heap[a].element \in Element \cup {NULL}
  BY <1>1 DEF Nodes
<1>5. ASSUME NEW n \in Nodes, NEW p \in Pointer, NEW k \in Key, NEW e \in Element \cup {NULL}
      PROVE  /\ [n EXCEPT !.next = p] \in Nodes
             /\ [n EXCEPT !.key = k, !.element = e] \in Nodes
  BY DEF Nodes
<1> HIDE DEF Nodes, Frames, Pointer, Bucket, Label
<1>6. NULL \in Pointer /\ \A a \in Pointer : a # NULL => a \in Addr
  BY DEF Pointer
<1>7. pc' \in [Thread -> Label]
  BY <1>1 DEF Step, Goto, Call, Malloc, MallocFails, SetNext, Link, UnlinkHead,
            Unlink, Free, Found, LoadHead, WalkOn, WalkEnds, Acquire, Release, Return, Label
<1>8. head' \in [Bucket -> Pointer] /\ flag' \in [Bucket -> {0, 1}]
  BY <1>1, <1>2, <1>4, <1>6
  DEF Step, Goto, Call, Malloc, MallocFails, SetNext, Link, UnlinkHead, Unlink, Free,
         Found, LoadHead, WalkOn, WalkEnds, Acquire, Release, Return,
      Matches, Here
<1>9. args' \in [Thread -> Frames] /\ calls' \in 0..MaxCalls
  <2>1. \A o \in Op, k \in Key, e \in Element \cup {NULL} :
          [op |-> o, key |-> k, element |-> e] \in Frames
    BY DEF Frames
  <2>2. NoCall \in Frames
    BY DEF Frames, NoCall
  <2> HIDE DEF NoCall
  <2>3. args' = args \/ \E f \in Frames : args' = [args EXCEPT ![t] = f]
    BY <2>1, <2>2
    DEF Step, Goto, Call, Malloc, MallocFails, SetNext, Link, UnlinkHead, Unlink, Free,
         Found, LoadHead, WalkOn, WalkEnds, Acquire, Release, Return
  <2>4. CASE \E o \in Op, k \in Key, e \in Element \cup {NULL} : Call(t, o, k, e)
    <3>1. calls < MaxCalls /\ calls' = calls + 1
      BY <2>4 DEF Call
    <3> QED  BY <1>1, <2>3, <3>1, HashAssumption
  <2>5. CASE calls' = calls
    BY <1>1, <2>3, <2>5
  <2> QED  BY <2>4, <2>5
    DEF Step, Malloc, MallocFails, SetNext, Link, UnlinkHead, Unlink, Free, Found, LoadHead,
        WalkOn, WalkEnds, Acquire, Release, Return
<1>10. heap' \in [Addr -> Nodes]
  <2>1. ASSUME NEW a \in Addr, Malloc(t, a) PROVE heap' \in [Addr -> Nodes]
    BY <1>1, <1>2, <1>3, <1>5, <2>1 DEF Malloc, Goto
  <2>2. CASE SetNext(t) \/ Unlink(t) \/ Free(t)
    <3>1. PICK p \in Pointer, q \in Pointer : heap' = [heap EXCEPT ![p].next = q]
      BY <1>1, <1>2, <1>4, <1>6, <2>2 DEF SetNext, Unlink, Free, Goto, Matches, Here
    <3>2. \A a \in Addr : [heap[a] EXCEPT !.next = q] \in Nodes
      BY <1>1 DEF Nodes
    <3> QED  BY <1>1, <3>1, <3>2
  <2> QED  BY <1>1, <2>1, <2>2
    DEF Step, Goto, Call, Malloc, MallocFails, SetNext, Link, UnlinkHead, Unlink, Free,
         Found, LoadHead, WalkOn, WalkEnds, Acquire, Release, Return
<1>11. used' \subseteq Addr
  BY <1>1
  DEF Step, Goto, Call, Malloc, MallocFails, SetNext, Link, UnlinkHead, Unlink, Free,
         Found, LoadHead, WalkOn, WalkEnds, Acquire, Release, Return
<1>12. curr_node' \in [Thread -> Pointer] /\ prev_node' \in [Thread -> Pointer]
  <2>1. \/ curr_node' = curr_node
        \/ \E p \in Pointer : curr_node' = [curr_node EXCEPT ![t] = p]
    BY <1>1, <1>2, <1>4, <1>6 DEF Step, Goto, Call, Malloc, MallocFails, SetNext, Link, UnlinkHead, Unlink, Free,
         Found, LoadHead, WalkOn, WalkEnds, Acquire, Release, Return,
       Matches, Here, Pointer
  <2>2. \/ prev_node' = prev_node
        \/ \E p \in Pointer : prev_node' = [prev_node EXCEPT ![t] = p]
    BY <1>1, <1>6 DEF Step, Goto, Call, Malloc, MallocFails, SetNext, Link, UnlinkHead, Unlink, Free,
         Found, LoadHead, WalkOn, WalkEnds, Acquire, Release, Return
  <2> QED  BY <1>1, <2>1, <2>2
<1>13. element' \in [Thread -> Element \cup {NULL}]
  BY <1>1, <1>4, <1>6
  DEF Step, Goto, Call, Malloc, MallocFails, SetNext, Link, UnlinkHead, Unlink, Free,
         Found, LoadHead, WalkOn, WalkEnds, Acquire, Release, Return,
      Matches, Here
<1> QED
  BY <1>7, <1>8, <1>9, <1>10, <1>11, <1>12, <1>13 DEF TypeOK, Nodes, Frames

\* The spinlock of a bucket: what a thread must hold, the thread that waits at
\* Acquire finds taken, and only the holder gives it back.
LEMMA LockInvStep == LockInv /\ [Next]_vars => LockInv'
<1> SUFFICES ASSUME LockInv, [Next]_vars PROVE LockInv'
    OBVIOUS
<1>0. TypeOK /\ Calls /\ HoldsLock /\ BucketExclusion
      BY DEF LockInv
<1>1. CASE UNCHANGED vars
      BY <1>0, <1>1
      DEF vars, LockInv, TypeOK, Calls, HoldsLock, BucketExclusion, Inside, hash_key, HashOf
<1>2. ASSUME NEW t \in Thread, Step(t) PROVE LockInv'
  <2>1. \A u \in Thread : u # t => /\ pc'[u] = pc[u] /\ args'[u] = args[u]
                                   /\ prev_node'[u] = prev_node[u]
        BY <1>0, <1>2, OthersStay
  <2>2. TypeOK'
        BY <1>0, <1>2, TypeStep
  <2>3. Calls'
    <3>1. CASE \E o \in Op, k \in Key, e \in Element \cup {NULL} : Call(t, o, k, e)
      BY <1>0, <2>1, <3>1 DEF TypeOK, Calls, Goto, Call
    <3>2. ASSUME NEW a \in Addr, Malloc(t, a) PROVE Calls'
      BY <1>0, <2>1, <3>2 DEF TypeOK, Calls, Goto, Malloc
    <3>8. CASE MallocFails(t)
      BY <1>0, <2>1, <3>8 DEF TypeOK, Calls, Goto, MallocFails
    <3>9. CASE SetNext(t)
      BY <1>0, <2>1, <3>9 DEF TypeOK, Calls, Goto, SetNext
    <3>10. CASE Link(t)
      BY <1>0, <2>1, <3>10 DEF TypeOK, Calls, Goto, Link
    <3>3. CASE Acquire(t)
      BY <1>0, <2>1, <3>3 DEF TypeOK, Calls, Goto, Acquire
    <3>4. CASE Release(t)
      BY <1>0, <2>1, <3>4 DEF TypeOK, Calls, Goto, Release
    <3>5. CASE UnlinkHead(t) \/ Unlink(t) \/ Free(t) \/ Found(t) \/ LoadHead(t)
      BY <1>0, <2>1, <3>5
      DEF TypeOK, Calls, Goto, UnlinkHead, Unlink, Free, Found, LoadHead
    <3>6. CASE WalkOn(t) \/ WalkEnds(t)
      BY <1>0, <2>1, <3>6 DEF TypeOK, Calls, Goto, WalkOn, WalkEnds
    <3>7. CASE Return(t)
      BY <1>0, <2>1, <3>7 DEF TypeOK, Calls, Goto, Return
    <3> QED  BY <1>2, <3>1, <3>2, <3>5, <3>6, <3>7, <3>3, <3>4, <3>8, <3>9, <3>10 DEF Step
  <2>4. HoldsLock' /\ BucketExclusion'
    <3>1. CASE Acquire(t)
      BY <1>0, <2>1, <3>1, HashInBucket
      DEF TypeOK, Calls, HoldsLock, BucketExclusion, Inside, Goto, hash_key, Acquire
    <3>2. CASE Release(t)
      BY <1>0, <2>1, <3>2, HashInBucket
      DEF TypeOK, Calls, HoldsLock, BucketExclusion, Inside, Goto, hash_key, Release
    <3>3. CASE ~Acquire(t) /\ ~Release(t)
      <4>1. flag' = flag /\ (Inside(t)' => Inside(t) /\ hash_key(t)' = hash_key(t))
        BY <1>0, <1>2, <3>3
        DEF TypeOK, Step, Goto, Call, Malloc, MallocFails, SetNext, Link, UnlinkHead, Unlink,
            Free, Found, LoadHead, WalkOn, WalkEnds, Return, Inside, hash_key
      <4>2. \A u \in Thread : Inside(u)' => Inside(u) /\ hash_key(u)' = hash_key(u)
        BY <2>1, <4>1 DEF Inside, hash_key
      <4> QED  BY <1>0, <4>1, <4>2 DEF HoldsLock, BucketExclusion
    <3> QED  BY <3>1, <3>2, <3>3
  <2> QED  BY <2>2, <2>3, <2>4 DEF LockInv
<1> QED  BY <1>1, <1>2, NextIsStep

-----------------------------------------------------------------------------
LEMMA HashInvInit == Init => HashInv
<1> SUFFICES ASSUME Init PROVE HashInv
    OBVIOUS
<1>1. LockInv
  BY LockInvInit
<1>2. \A t \in Thread : ~InFlight(t) /\ pc[t] = "idle"
  BY DEF Init, InFlight
<1>3. Linked = {} /\ \A b \in Bucket : head[b] = NULL
  BY DEF Init, Linked
<1> QED  BY <1>1, <1>2, <1>3 DEF HashInv, Hands, Lists, InList, Walkers, Inserters

\* What the node of a bucket's list is worth does not depend on other buckets.
LEMMA ListsStay ==
  ASSUME Lists, Linked' = Linked, head' = head, \A a \in Linked : heap'[a] = heap[a]
  PROVE  /\ Lists'
         /\ \A b, q : InList(b, q) => InList(b, q)'
BY DEF Lists, InList, Home

LEMMA WalkerStays ==
  ASSUME NEW u \in Thread, Walker(u),
         Linked' = Linked, head' = head, \A a \in Linked : heap'[a] = heap[a],
         args'[u] = args[u], curr_node'[u] = curr_node[u], prev_node'[u] = prev_node[u]
  PROVE  Walker(u)'
BY DEF Walker, InList, Home, hash_key

\* A step of t that neither takes a node nor lets one go.
LEMMA HandsStay ==
  ASSUME Hands, NEW t \in Thread, used' = used,
         \A u \in Thread : InFlight(u)' <=> InFlight(u),
         \A u \in Thread : InFlight(u) => curr_node'[u] = curr_node[u]
  PROVE  Hands' /\ Linked' = Linked
BY DEF Hands, Linked

\* Steps that leave the lists and every hand alone: a call begins or returns,
\* takes or gives back the lock, or walks.
QuietAction(t) ==
  \/ \E o \in Op, k \in Key, e \in Element \cup {NULL} : Call(t, o, k, e)
  \/ MallocFails(t) \/ Found(t) \/ LoadHead(t) \/ WalkOn(t) \/ WalkEnds(t)
  \/ Acquire(t) \/ Release(t) \/ Return(t)

LEMMA QuietKeeps ==
  ASSUME HashInv, NEW t \in Thread, Step(t), QuietAction(t)
  PROVE  Hands' /\ UNCHANGED <<Linked, head, heap, used>>
<1>1. TypeOK /\ Calls /\ Hands /\ Lists /\ Walkers /\ Inserters
  BY DEF HashInv, LockInv
<1>2. \A u \in Thread : u # t => /\ pc'[u] = pc[u] /\ args'[u] = args[u]
                                 /\ curr_node'[u] = curr_node[u] /\ prev_node'[u] = prev_node[u]
  BY <1>1, OthersStay
<1>3. head' = head /\ heap' = heap /\ used' = used
  BY DEF QuietAction, Call, MallocFails, Found, LoadHead, WalkOn, WalkEnds, Acquire, Release,
         Return
<1>4. (InFlight(t)' <=> InFlight(t)) /\ (InFlight(t) => curr_node'[t] = curr_node[t])
  <2>1. CASE \/ \E o \in Op, k \in Key, e \in Element \cup {NULL} : Call(t, o, k, e)
             \/ MallocFails(t) \/ Return(t)
    BY <1>1, <2>1 DEF TypeOK, Goto, Call, MallocFails, Return, InFlight
  <2>2. CASE LoadHead(t) \/ WalkOn(t) \/ WalkEnds(t) \/ Found(t)
    BY <1>1, <2>2 DEF TypeOK, Calls, Goto, LoadHead, WalkOn, WalkEnds, Found, InFlight
  <2>3. CASE Acquire(t)
    BY <1>1, <2>3 DEF TypeOK, Goto, Acquire, InFlight
  <2>4. CASE Release(t)
    BY <1>1, <2>4 DEF TypeOK, Goto, Release, InFlight
  <2> QED  BY <2>1, <2>2, <2>3, <2>4 DEF QuietAction
<1>5. \A u \in Thread : /\ InFlight(u)' <=> InFlight(u)
                        /\ InFlight(u) => curr_node'[u] = curr_node[u]
  BY <1>2, <1>4 DEF InFlight
<1>6. QED
  BY <1>1, <1>3, <1>5, HandsStay

LEMMA QuietStep ==
  ASSUME HashInv, LockInv', NEW t \in Thread, Step(t), QuietAction(t)
  PROVE  HashInv'
<1>1. TypeOK /\ Calls /\ Hands /\ Lists /\ Walkers /\ Inserters
  BY DEF HashInv, LockInv
<1>2. \A u \in Thread : u # t => /\ pc'[u] = pc[u] /\ args'[u] = args[u]
                                 /\ curr_node'[u] = curr_node[u] /\ prev_node'[u] = prev_node[u]
  BY <1>1, OthersStay
<1>3. Hands' /\ UNCHANGED <<Linked, head, heap, used>>
  BY QuietKeeps
<1>7. Lists' /\ \A b, q : InList(b, q) => InList(b, q)'
  BY <1>1, <1>3, ListsStay
<1>8. Walkers'
  <2> SUFFICES ASSUME NEW u \in Thread, pc'[u] = "walk" PROVE Walker(u)'
    BY DEF Walkers
  <2>1. CASE u # t
    BY <1>1, <1>2, <1>3, <2>1, WalkerStays DEF Walkers
  <2>2. CASE u = t /\ LoadHead(t)
    <3>1. /\ args'[t] = args[t] /\ prev_node'[t] = NULL /\ hash_key(t) \in Bucket
          /\ curr_node'[t] = head[hash_key(t)]
      BY <1>1, <2>2, HashInBucket DEF TypeOK, Calls, LoadHead, Goto, hash_key
    <3> QED  BY <1>1, <1>3, <1>7, <2>2, <3>1 DEF Walker, Lists, InList, hash_key
  <2>3. CASE u = t /\ WalkOn(t)
    <3>1. /\ args'[t] = args[t] /\ curr_node[t] # NULL /\ curr_node'[t] = heap[curr_node[t]].next
          /\ prev_node'[t] = IF args[t].op = "delete" THEN curr_node[t] ELSE prev_node[t]
      BY <1>1, <2>3 DEF TypeOK, WalkOn, Here
    <3>2. Walker(t)
      BY <1>1, <2>3 DEF Walkers, WalkOn, Goto
    <3>3. curr_node[t] \in Linked /\ Home(curr_node[t]) = hash_key(t)
      BY <3>1, <3>2 DEF Walker, InList
    <3>4. InList(hash_key(t), curr_node'[t]) /\ InList(hash_key(t), prev_node'[t])
      BY <1>1, <3>1, <3>2, <3>3 DEF Walker, InList, Lists
    <3> QED  BY <1>3, <1>7, <2>3, <3>1, <3>3, <3>4, HashAssumption, <1>1
             DEF Walker, hash_key, Linked, TypeOK
  <2>4. CASE u = t /\ ~LoadHead(t) /\ ~WalkOn(t)
    BY <1>1, <2>4 DEF TypeOK, QuietAction, Goto, Call, MallocFails, Found, WalkEnds, Acquire,
                      Release, Return
  <2> QED  BY <2>1, <2>2, <2>3, <2>4
<1>9. Inserters'
  <2> SUFFICES ASSUME NEW u \in Thread, args'[u].op = "insert",
                      pc'[u] \in {"acquire", "next", "link"}
               PROVE  Inserter(u)'
    BY DEF Inserters
  <2>1. CASE u # t
    BY <1>1, <1>2, <1>3, <2>1 DEF Inserters, Inserter, hash_key
  <2>2. CASE u = t
    <3>1. Acquire(t)
      BY <1>1, <2>2 DEF TypeOK, Calls, QuietAction, Goto, Call, MallocFails, Found, LoadHead,
                        WalkOn, WalkEnds, Release, Return
    <3>2. args' = args /\ curr_node' = curr_node /\ pc[t] = "acquire" /\ pc'[t] # "link"
      BY <1>1, <3>1 DEF TypeOK, Acquire, Goto
    <3> QED  BY <1>1, <1>3, <2>2, <3>2 DEF Inserters, Inserter
  <2> QED  BY <2>1, <2>2
<1> QED  BY <1>3, <1>7, <1>8, <1>9 DEF HashInv

\* Stores to a node that is in nobody's list: a new node is filled, its next
\* pointer is set, a deleted node is cleared and freed.
LEMMA NodeKeeps ==
  ASSUME HashInv, NEW t \in Thread, Step(t),
         (\E a \in Addr : Malloc(t, a)) \/ SetNext(t) \/ Free(t)
  PROVE  /\ Hands' /\ Linked' = Linked /\ head' = head
         /\ \A a \in Linked : heap'[a] = heap[a]
         /\ \A u \in Thread : u # t /\ InFlight(u) =>
              heap'[curr_node[u]] = heap[curr_node[u]]
<1>1. TypeOK /\ Calls /\ Hands /\ Lists /\ Walkers /\ Inserters
  BY DEF HashInv, LockInv
<1>2. \A u \in Thread : u # t => /\ pc'[u] = pc[u] /\ args'[u] = args[u]
                                 /\ curr_node'[u] = curr_node[u] /\ prev_node'[u] = prev_node[u]
  BY <1>1, OthersStay
<1>3. head' = head /\ args' = args /\ prev_node' = prev_node /\ pc'[t] # "walk"
  BY <1>1 DEF TypeOK, Malloc, SetNext, Free, Goto
<1>4. \A u \in Thread : u # t => (InFlight(u)' <=> InFlight(u))
  BY <1>2 DEF InFlight
<1> DEFINE Kept == /\ Hands' /\ Linked' = Linked
                   /\ \A a \in Linked : heap'[a] = heap[a]
                   /\ \A u \in Thread : u # t /\ InFlight(u) =>
                        heap'[curr_node[u]] = heap[curr_node[u]]
<1>5. Kept
  <2>1. ASSUME NEW a \in Addr, Malloc(t, a) PROVE Kept
    <3>1. /\ a \notin used /\ used' = used \cup {a} /\ curr_node'[t] = a
          /\ InFlight(t)' /\ ~InFlight(t)
          /\ \A c \in Addr : c # a => heap'[c] = heap[c]
      BY <1>1, <2>1 DEF TypeOK, Calls, Malloc, Goto, InFlight
    <3>2. \A u \in Thread : u # t /\ InFlight(u) => curr_node[u] # a /\ curr_node[u] \in Addr
      BY <1>1, <3>1 DEF Hands, TypeOK
    <3>3. Hands'
      BY <1>1, <1>2, <1>4, <3>1, <3>2 DEF Hands
    <3>4. Linked' = Linked /\ Linked \subseteq used
      BY <1>2, <1>4, <3>1 DEF Linked
    <3> QED  BY <1>1, <3>1, <3>2, <3>3, <3>4 DEF TypeOK
  <2>2. CASE SetNext(t)
    <3>1. /\ InFlight(t) /\ InFlight(t)' /\ curr_node' = curr_node /\ used' = used
          /\ \A c \in Addr : c # curr_node[t] => heap'[c] = heap[c]
      BY <1>1, <2>2 DEF TypeOK, Calls, SetNext, Goto, InFlight
    <3> QED  BY <1>1, <1>2, <1>4, <3>1 DEF Hands, Linked, TypeOK
  <2>3. CASE Free(t)
    <3>1. /\ InFlight(t) /\ ~InFlight(t)' /\ curr_node' = curr_node
          /\ used' = used \ {curr_node[t]}
          /\ \A c \in Addr : c # curr_node[t] => heap'[c] = heap[c]
      BY <1>1, <2>3 DEF TypeOK, Calls, Free, Goto, InFlight
    <3> QED  BY <1>1, <1>2, <1>4, <3>1 DEF Hands, Linked, TypeOK
  <2> QED  BY <2>1, <2>2, <2>3
<1>6. QED
  BY <1>3, <1>5

LEMMA NodeStep ==
  ASSUME HashInv, LockInv', NEW t \in Thread, Step(t),
         (\E a \in Addr : Malloc(t, a)) \/ SetNext(t) \/ Free(t)
  PROVE  HashInv'
<1>1. TypeOK /\ Calls /\ Hands /\ Lists /\ Walkers /\ Inserters
  BY DEF HashInv, LockInv
<1>2. \A u \in Thread : u # t => /\ pc'[u] = pc[u] /\ args'[u] = args[u]
                                 /\ curr_node'[u] = curr_node[u] /\ prev_node'[u] = prev_node[u]
  BY <1>1, OthersStay
<1>3. head' = head /\ args' = args /\ prev_node' = prev_node /\ pc'[t] # "walk"
  BY <1>1 DEF TypeOK, Malloc, SetNext, Free, Goto
<1>5. /\ Hands' /\ Linked' = Linked
      /\ \A a \in Linked : heap'[a] = heap[a]
      /\ \A u \in Thread : u # t /\ InFlight(u) =>
           heap'[curr_node[u]] = heap[curr_node[u]]
  BY NodeKeeps
<1>6. Lists'
  BY <1>1, <1>3, <1>5, ListsStay
<1>7. Walkers'
  BY <1>1, <1>2, <1>3, <1>5, WalkerStays DEF Walkers
<1>8. Inserters'
  <2> SUFFICES ASSUME NEW u \in Thread, args'[u].op = "insert",
                      pc'[u] \in {"acquire", "next", "link"}
               PROVE  Inserter(u)'
    BY DEF Inserters
  <2>1. CASE u # t
    <3>1. Inserter(u) /\ InFlight(u)
      BY <1>1, <1>2, <2>1 DEF Inserters, InFlight
    <3> QED  BY <1>2, <1>3, <1>5, <2>1, <3>1 DEF Inserter, hash_key
  <2>2. ASSUME u = t, NEW a \in Addr, Malloc(t, a) PROVE Inserter(u)'
    BY <1>1, <2>2 DEF TypeOK, Malloc, Goto, Inserter
  <2>3. CASE u = t /\ SetNext(t)
    <3>1. curr_node[t] \in Addr /\ Inserter(t)
      BY <1>1, <2>3 DEF TypeOK, Calls, Hands, SetNext, Goto, InFlight, Inserters
    <3> QED  BY <1>1, <2>3, <3>1 DEF TypeOK, SetNext, Inserter, hash_key
  <2>4. CASE u = t /\ Free(t)
    BY <1>1, <2>4 DEF TypeOK, Free, Goto
  <2> QED  BY <2>1, <2>2, <2>3, <2>4
<1> QED  BY <1>5, <1>6, <1>7, <1>8 DEF HashInv

\* A step inside the lock of one bucket that changes this bucket's list leaves
\* the other threads' view of theirs.
LEMMA OthersView ==
  ASSUME HashInv, NEW t \in Thread, Step(t), Inside(t), NEW b, b = hash_key(t),
         \A a \in Linked : Home(a) # b => a \in Linked' /\ heap'[a] = heap[a],
         \A c \in Bucket : c # b => head'[c] = head[c],
         \A u \in Thread : u # t /\ InFlight(u) => heap'[curr_node[u]] = heap[curr_node[u]],
         pc'[t] = "release"
  PROVE  Walkers' /\ Inserters'
<1>1. TypeOK /\ Calls /\ Hands /\ Lists /\ Walkers /\ Inserters /\ BucketExclusion
  BY DEF HashInv, LockInv
<1>2. \A u \in Thread : u # t => /\ pc'[u] = pc[u] /\ args'[u] = args[u]
                                 /\ curr_node'[u] = curr_node[u] /\ prev_node'[u] = prev_node[u]
  BY <1>1, OthersStay
<1>3. ASSUME NEW u \in Thread, u # t, Inside(u)
      PROVE  hash_key(u)' = hash_key(u) /\ hash_key(u) # b /\ hash_key(u) \in Bucket
  BY <1>1, <1>2, <1>3, HashInBucket DEF BucketExclusion, hash_key, Calls, Inside
<1>4. \A c, q : c # b /\ InList(c, q) => InList(c, q)'
  BY DEF InList, Home
<1>5. Walkers'
  <2> SUFFICES ASSUME NEW u \in Thread, u # t, pc[u] = "walk" PROVE Walker(u)'
    BY <1>2 DEF Walkers
  <2>1. Walker(u) /\ Inside(u)
    BY <1>1 DEF Walkers, Inside
  <2>2. InList(hash_key(u), curr_node[u])' /\ InList(hash_key(u), prev_node[u])'
    BY <1>2, <1>3, <1>4, <2>1 DEF Walker
  <2>3. prev_node[u] # NULL => heap'[prev_node[u]] = heap[prev_node[u]]
    BY <1>3, <2>1 DEF Walker, InList
  <2> QED  BY <1>2, <1>3, <2>1, <2>2, <2>3 DEF Walker
<1>6. Inserters'
  <2> SUFFICES ASSUME NEW u \in Thread, u # t, args[u].op = "insert",
                      pc[u] \in {"acquire", "next", "link"}
               PROVE  Inserter(u)'
    BY <1>2 DEF Inserters
  <2>1. Inserter(u) /\ InFlight(u)
    BY <1>1 DEF Inserters, InFlight
  <2>2. pc[u] = "link" => head'[hash_key(u)] = head[hash_key(u)] /\ hash_key(u)' = hash_key(u)
    BY <1>3 DEF Inside
  <2> QED  BY <1>2, <2>1, <2>2 DEF Inserter
<1> QED  BY <1>5, <1>6

\* Lists, with InList expanded.
LEMMA ListFacts ==
  ASSUME Lists
  PROVE  /\ \A x \in Bucket : head[x] # NULL => head[x] \in Linked /\ Home(head[x]) = x
         /\ \A a \in Linked : heap[a].key \in Key /\ Home(a) \in Bucket
         /\ \A a \in Linked : heap[a].next # NULL =>
              /\ heap[a].next \in Linked /\ Home(heap[a].next) = Home(a)
              /\ heap[a].next # head[Home(a)]
         /\ \A a, d \in Linked :
              heap[a].next = heap[d].next /\ heap[a].next # NULL => a = d
BY HashInBucket DEF Lists, InList, Home

\* List_Insert: the new node becomes the head of its key's bucket.
LEMMA LinkChanges ==
  ASSUME HashInv, NEW t \in Thread, Link(t)
  PROVE  /\ Hands' /\ InFlight(t) /\ ~InFlight(t)'
         /\ LET c == curr_node[t]
                b == hash_key(t)
            IN  /\ b \in Bucket /\ c \in used /\ c \notin Linked /\ c # NULL
                /\ args[t].key \in Key /\ heap[c].key = args[t].key /\ Home(c) = b
                /\ heap[c].next = head[b]
                /\ heap' = heap /\ Linked' = Linked \cup {c}
                /\ head'[b] = c /\ \A x \in Bucket : x # b => head'[x] = head[x]
                /\ pc'[t] = "release"
<1>1. TypeOK /\ Calls /\ Hands /\ Lists /\ Walkers /\ Inserters /\ Step(t) /\ Inside(t)
  BY DEF HashInv, LockInv, Step, Inside, Link, Goto
<1>a. PICK c, b : c = curr_node[t] /\ b = hash_key(t)
  OBVIOUS
<1>2. InFlight(t) /\ ~InFlight(t)' /\ b \in Bucket /\ args[t].key \in Key
  BY <1>a, <1>1, HashInBucket DEF TypeOK, Calls, Link, Goto, InFlight, hash_key
<1>3. /\ pc'[t] = "release" /\ \A u \in Thread : u # t => pc'[u] = pc[u]
      /\ heap' = heap /\ used' = used /\ args' = args /\ curr_node' = curr_node
      /\ head'[b] = c /\ \A x \in Bucket : x # b => head'[x] = head[x]
  BY <1>a, <1>1, <1>2 DEF TypeOK, Link, Goto
<1>4. \A u \in Thread : u # t => (InFlight(u)' <=> InFlight(u))
  BY <1>a, <1>3 DEF InFlight
<1>5. c \in used /\ c \notin Linked /\ c # NULL
  BY <1>a, <1>1, <1>2, HashAssumption DEF Hands, Linked, TypeOK
<1>6. Hands'
  BY <1>a, <1>1, <1>2, <1>3, <1>4 DEF Hands
<1>7. Linked' = Linked \cup {c}
  BY <1>a, <1>1, <1>2, <1>3, <1>4, <1>5 DEF Linked, Hands
<1>8. heap[c].key = args[t].key /\ heap[c].next = head[b] /\ Home(c) = b
  BY <1>a, <1>1 DEF Inserters, Inserter, Calls, Link, Goto, Home, hash_key
<1> QED
  BY <1>a, <1>2, <1>3, <1>5, <1>6, <1>7, <1>8

LEMMA LinkStep ==
  ASSUME HashInv, LockInv', NEW t \in Thread, Link(t)
  PROVE  HashInv'
<1>1. TypeOK /\ Calls /\ Hands /\ Lists /\ Walkers /\ Inserters /\ Step(t) /\ Inside(t)
  BY DEF HashInv, LockInv, Step, Inside, Link, Goto
<1>a. PICK c, b : c = curr_node[t] /\ b = hash_key(t)
  OBVIOUS
<1>2. b \in Bucket /\ args[t].key \in Key
  BY <1>a, LinkChanges
<1>3. /\ pc'[t] = "release" /\ heap' = heap
      /\ head'[b] = c /\ \A x \in Bucket : x # b => head'[x] = head[x]
  BY <1>a, LinkChanges
<1>5. c \notin Linked /\ c # NULL
  BY <1>a, LinkChanges
<1>6. Hands'
  BY LinkChanges
<1>7. Linked' = Linked \cup {c}
  BY <1>a, LinkChanges
<1>8. heap[c].key = args[t].key /\ heap[c].next = head[b] /\ Home(c) = b
  BY <1>a, LinkChanges
<1>b. /\ \A x \in Bucket : head[x] # NULL => head[x] \in Linked /\ Home(head[x]) = x
      /\ \A a \in Linked : heap[a].key \in Key /\ Home(a) \in Bucket
      /\ \A a \in Linked : heap[a].next # NULL =>
           /\ heap[a].next \in Linked /\ Home(heap[a].next) = Home(a)
           /\ heap[a].next # head[Home(a)]
      /\ \A a, d \in Linked : heap[a].next = heap[d].next /\ heap[a].next # NULL => a = d
  BY <1>1, ListFacts
<1>9. Lists'
  <2>1. \A q : Home(q)' = Home(q)
    BY <1>3 DEF Home
  <2>2. \A x \in Bucket : head'[x] # NULL => head'[x] \in Linked' /\ Home(head'[x]) = x
    BY <1>b, <1>3, <1>7, <1>8
  <2>3. ASSUME NEW a \in Linked'
        PROVE  /\ heap[a].key \in Key
               /\ heap[a].next # NULL =>
                    /\ heap[a].next \in Linked /\ Home(heap[a].next) = Home(a)
                    /\ heap[a].next # head'[Home(a)]
    <3>1. CASE a = c
      BY <1>b, <1>2, <1>3, <1>5, <1>8, <3>1
    <3>2. CASE a # c
      BY <1>b, <1>3, <1>5, <1>7, <3>2
    <3> QED  BY <3>1, <3>2
  <2>4. \A a \in Linked : heap[a].next = heap[c].next => heap[a].next = NULL
    BY <1>b, <1>8, <1>2
  <2>5. \A a, d \in Linked' : heap[a].next = heap[d].next /\ heap[a].next # NULL => a = d
    BY <1>b, <1>7, <2>4
  <2> QED  BY <1>3, <1>7, <2>1, <2>2, <2>3, <2>5 DEF Lists, InList
<1>10. Walkers' /\ Inserters'
  BY <1>a, <1>1, <1>3, <1>7, OthersView
<1> QED  BY <1>a, <1>6, <1>9, <1>10 DEF HashInv

\* List_Delete: the matching node leaves its bucket's list, at the head or
\* behind prev_node, and is from then on in the hands of this call.
LEMMA UnlinkChanges ==
  ASSUME HashInv, NEW t \in Thread, UnlinkHead(t) \/ Unlink(t)
  PROVE  /\ Hands' /\ ~InFlight(t) /\ InFlight(t)'
         /\ LET c == curr_node[t]
                b == hash_key(t)
                n == heap[c].next
                p == prev_node[t]
            IN  /\ b \in Bucket /\ c \in Linked /\ Home(c) = b /\ Linked' = Linked \ {c}
                /\ \/ UnlinkHead(t) /\ heap' = heap /\ head[b] = c /\ head'[b] = n
                      /\ \A x \in Bucket : x # b => head'[x] = head[x]
                   \/ Unlink(t) /\ head' = head /\ head[b] # c
                      /\ p \in Linked /\ Home(p) = b /\ heap[p].next = c
                      /\ heap' = [heap EXCEPT ![p].next = n] /\ p \in Addr
<1>1. TypeOK /\ Calls /\ Hands /\ Lists /\ Walkers /\ Inserters /\ Step(t) /\ Inside(t)
  BY DEF HashInv, LockInv, Step, Inside, UnlinkHead, Unlink, Goto
<1>a. PICK c, b, n, p : c = curr_node[t] /\ b = hash_key(t) /\ n = heap[c].next
                        /\ p = prev_node[t]
  OBVIOUS
<1>2. /\ pc[t] = "walk" /\ args[t].op = "delete" /\ c # NULL /\ b \in Bucket
      /\ pc'[t] = "release" /\ \A u \in Thread : u # t => pc'[u] = pc[u]
      /\ used' = used /\ args' = args /\ curr_node' = curr_node
  BY <1>a, <1>1, HashInBucket DEF TypeOK, Calls, UnlinkHead, Unlink, Goto, Matches, hash_key
<1>3. c \in Linked /\ Home(c) = b
  BY <1>a, <1>1, <1>2 DEF Walkers, Walker, InList
<1>4. ~InFlight(t) /\ InFlight(t)' /\ \A u \in Thread : u # t => (InFlight(u)' <=> InFlight(u))
  BY <1>a, <1>2 DEF InFlight
<1>5. Hands'
  BY <1>a, <1>1, <1>2, <1>3, <1>4 DEF Hands, Linked
<1>6. Linked' = Linked \ {c} /\ Linked \subseteq Addr
  BY <1>a, <1>1, <1>2, <1>4 DEF Linked, TypeOK
<1>7. CASE UnlinkHead(t)
  <2>1. /\ heap' = heap /\ head[b] = c /\ head'[b] = n
        /\ \A x \in Bucket : x # b => head'[x] = head[x]
    BY <1>a, <1>1, <1>2, <1>7 DEF TypeOK, UnlinkHead, Here
  <2> QED  BY <1>a, <1>2, <1>3, <1>4, <1>5, <1>6, <1>7, <2>1
<1>8. CASE Unlink(t)
  <2>1. head' = head /\ head[b] # c /\ p \in Linked /\ Home(p) = b /\ heap[p].next = c
    BY <1>a, <1>1, <1>2, <1>8 DEF Unlink, Walkers, Walker, InList
  <2>2. heap' = [heap EXCEPT ![p].next = n] /\ p \in Addr
    BY <1>a, <1>6, <1>8, <2>1 DEF Unlink, Here
  <2> QED  BY <1>a, <1>2, <1>3, <1>4, <1>5, <1>6, <1>8, <2>1, <2>2
<1> QED  BY <1>7, <1>8

LEMMA UnlinkStep ==
  ASSUME HashInv, LockInv', NEW t \in Thread, UnlinkHead(t) \/ Unlink(t)
  PROVE  HashInv'
<1>1. TypeOK /\ Calls /\ Hands /\ Lists /\ Walkers /\ Inserters /\ Step(t) /\ Inside(t)
  BY DEF HashInv, LockInv, Step, Inside, UnlinkHead, Unlink, Goto
<1>a. PICK c, b, n, p : c = curr_node[t] /\ b = hash_key(t) /\ n = heap[c].next
                        /\ p = prev_node[t]
  OBVIOUS
<1>2. /\ pc[t] = "walk" /\ args[t].op = "delete" /\ c # NULL /\ b \in Bucket
      /\ pc'[t] = "release" /\ \A u \in Thread : u # t => pc'[u] = pc[u]
      /\ used' = used /\ args' = args /\ curr_node' = curr_node
  BY <1>a, <1>1, HashInBucket DEF TypeOK, Calls, UnlinkHead, Unlink, Goto, Matches, hash_key
<1>b. /\ \A x \in Bucket : head[x] # NULL => head[x] \in Linked /\ Home(head[x]) = x
      /\ \A a \in Linked : heap[a].key \in Key /\ Home(a) \in Bucket
      /\ \A a \in Linked : heap[a].next # NULL =>
           /\ heap[a].next \in Linked /\ Home(heap[a].next) = Home(a)
           /\ heap[a].next # head[Home(a)]
      /\ \A a, d \in Linked : heap[a].next = heap[d].next /\ heap[a].next # NULL => a = d
  BY <1>1, ListFacts
<1>3. c \in Linked /\ Home(c) = b /\ (n # NULL => n \in Linked /\ Home(n) = b /\ n # head[b])
  BY <1>a, <1>b, <1>1, <1>2 DEF Walkers, Walker, InList
<1>5. Hands' /\ Linked' = Linked \ {c}
  BY <1>a, UnlinkChanges
<1>6. Linked' = Linked \ {c} /\ Linked \subseteq Addr
  BY <1>1, <1>5 DEF Linked, TypeOK
<1>7. CASE UnlinkHead(t)
  <2>1. /\ heap' = heap /\ head[b] = c /\ head'[b] = n
        /\ \A x \in Bucket : x # b => head'[x] = head[x]
    BY <1>a, <1>1, <1>2, <1>7 DEF TypeOK, UnlinkHead, Here
  <2>2. \A q : Home(q)' = Home(q)
    BY <2>1 DEF Home
  <2>3. \A x \in Bucket : head'[x] # NULL => head'[x] \in Linked' /\ Home(head'[x]) = x
    BY <1>a, <1>b, <1>3, <1>6, <2>1
  <2>4. ASSUME NEW a \in Linked'
        PROVE  /\ heap[a].key \in Key
               /\ heap[a].next # NULL =>
                    /\ heap[a].next \in Linked' /\ Home(heap[a].next) = Home(a)
                    /\ heap[a].next # head'[Home(a)]
    <3>1. a \in Linked /\ a # c
      BY <1>6
    <3>2. heap[a].next # c
      BY <1>b, <1>2, <1>3, <2>1, <3>1
    <3>3. heap[a].next # NULL => heap[a].next # n
      BY <1>a, <1>b, <1>3, <3>1
    <3> QED  BY <1>b, <1>6, <2>1, <3>1, <3>2, <3>3
  <2>5. Lists'
    BY <1>b, <1>6, <2>1, <2>2, <2>3, <2>4 DEF Lists, InList
  <2>6. Walkers' /\ Inserters'
    BY <1>a, <1>1, <1>2, <1>3, <1>6, <2>1, OthersView
  <2> QED  BY <1>a, <1>5, <2>5, <2>6 DEF HashInv
<1>8. CASE Unlink(t)
  <2>1. head' = head /\ head[b] # c /\ p \in Linked /\ Home(p) = b /\ heap[p].next = c
    BY <1>a, <1>1, <1>2, <1>8 DEF Unlink, Walkers, Walker, InList
  <2>2. /\ heap'[p].next = n /\ heap'[p].key = heap[p].key
        /\ \A a \in Addr : a # p => heap'[a] = heap[a]
    BY <1>a, <1>1, <1>6, <1>8, <2>1 DEF TypeOK, Unlink, Here
  <2>3. \A a \in Linked : Home(a)' = Home(a) /\ heap'[a].key = heap[a].key
    BY <1>6, <2>2 DEF Home
  <2>4. \A x \in Bucket : head'[x] # NULL => head'[x] \in Linked' /\ Home(head'[x]) = x
    BY <1>b, <1>3, <1>6, <2>1
  <2>5. ASSUME NEW a \in Linked'
        PROVE  /\ heap'[a].key \in Key
               /\ heap'[a].next # NULL =>
                    /\ heap'[a].next \in Linked' /\ Home(heap'[a].next) = Home(a)
                    /\ heap'[a].next # head'[Home(a)]
    <3>1. a \in Linked /\ a # c
      BY <1>6
    <3>2. CASE a = p
      <4>1. n # c
        BY <1>a, <1>b, <1>2, <1>3, <2>1, <3>1, <3>2
      <4> QED  BY <1>b, <1>3, <1>6, <2>1, <2>2, <3>1, <3>2, <4>1
    <3>3. CASE a # p
      <4>1. heap'[a] = heap[a] /\ heap[a].next # c
        BY <1>b, <1>2, <1>6, <2>1, <2>2, <3>1, <3>3
      <4> QED  BY <1>b, <1>6, <2>1, <3>1, <4>1
    <3> QED  BY <3>2, <3>3
  <2>6. \A a \in Linked' : a # p => heap'[a] = heap[a] /\ (heap[a].next = n => n = NULL)
    BY <1>a, <1>b, <1>3, <1>6, <2>2
  <2>7. \A a, d \in Linked' : heap'[a].next = heap'[d].next /\ heap'[a].next # NULL => a = d
    BY <1>b, <1>6, <2>2, <2>6
  <2>8. Lists'
    <3>1. \A a \in Linked' : a \in Linked
      BY <1>6
    <3> QED  BY <2>3, <2>4, <2>5, <2>7, <3>1 DEF Lists, InList
  <2>9. \A u \in Thread : u # t /\ InFlight(u) => heap'[curr_node[u]] = heap[curr_node[u]]
    BY <1>a, <1>1, <2>1, <2>2 DEF Hands, Linked, TypeOK
  <2>10. \A a \in Linked : Home(a) # b => a \in Linked' /\ heap'[a] = heap[a]
    BY <1>a, <1>3, <1>6, <2>1, <2>2
  <2>11. Walkers' /\ Inserters'
    BY <1>a, <1>1, <1>2, <2>1, <2>9, <2>10, OthersView
  <2> QED  BY <1>a, <1>5, <2>8, <2>11 DEF HashInv
<1> QED  BY <1>a, <1>7, <1>8

LEMMA HashInvStep == HashInv /\ [Next]_vars => HashInv'
<1> SUFFICES ASSUME HashInv, [Next]_vars PROVE HashInv'
    OBVIOUS
<1>1. LockInv'
  BY LockInvStep DEF HashInv
<1>2. CASE UNCHANGED vars
  <2>1. \A t \in Thread : (InFlight(t)' <=> InFlight(t)) /\ (Walker(t)' <=> Walker(t))
                          /\ (Inserter(t)' <=> Inserter(t))
    BY <1>2 DEF vars, InFlight, Walker, Inserter, InList, Linked, Home, hash_key
  <2> QED  BY <1>1, <1>2, <2>1
           DEF HashInv, vars, Hands, Lists, InList, Linked, Home, Walkers, Inserters
<1>3. ASSUME NEW t \in Thread, Step(t) PROVE HashInv'
  BY <1>1, <1>3, QuietStep, NodeStep, LinkStep, UnlinkStep DEF Step, QuietAction
<1> QED  BY <1>2, <1>3, NextIsStep

-----------------------------------------------------------------------------
\* The variables of the hash table keep their types.
THEOREM TypeCorrect == Spec => []TypeOK
<1>1. LockInv => TypeOK
  BY DEF LockInv
<1> QED  BY LockInvInit, LockInvStep, <1>1, PTL DEF Spec

\* Between spinlock_acquire and spinlock_release a thread is alone in its bucket
\* (list.c 34-42, 52-67, 80-91).
THEOREM BucketExclusionHolds == Spec => []BucketExclusion
<1>1. LockInv => BucketExclusion
  BY DEF LockInv
<1> QED  BY LockInvInit, LockInvStep, <1>1, PTL DEF Spec

\* Nobody reads or writes a node that a deletion freed, although the deletion
\* frees outside the lock and malloc hands addresses out again (list.c 69-73).
THEOREM NoUseAfterFreeHolds == Spec => []NoUseAfterFree
<1>1. HashInv => NoUseAfterFree
  <2> SUFFICES ASSUME HashInv, NEW t \in Thread
               PROVE  /\ pc[t] = "walk" /\ curr_node[t] # NULL => curr_node[t] \in used
                      /\ pc[t] = "walk" /\ prev_node[t] # NULL => prev_node[t] \in used
                      /\ pc[t] \in {"next", "link", "free"} => curr_node[t] \in used
    BY DEF NoUseAfterFree
  <2>1. pc[t] = "walk" => Walker(t)
    BY DEF HashInv, Walkers
  <2>2. pc[t] \in {"next", "link", "free"} => InFlight(t)
    BY DEF HashInv, LockInv, Calls, InFlight
  <2>3. Linked \subseteq used
    BY DEF Linked
  <2> QED  BY <2>1, <2>2, <2>3 DEF HashInv, Hands, Walker, InList
<1> QED  BY HashInvInit, HashInvStep, <1>1, PTL DEF Spec

-----------------------------------------------------------------------------
(* The lists as sequences.                                                 *)

Entry(n, s, i) == IF i \in 1..n THEN s[i] ELSE NULL

\* s is the list of bucket b: its n nodes in the order of the pointers.
IsChain(b, n, s) ==
  /\ n \in Nat /\ s \in [1..n -> Addr]
  /\ \A i \in 1..n : s[i] \in Linked /\ Home(s[i]) = b
  /\ \A a \in Linked : Home(a) = b => \E i \in 1..n : s[i] = a
  /\ \A i, j \in 1..n : s[i] = s[j] => i = j
  /\ head[b] = Entry(n, s, 1)
  /\ \A i \in 1..n : heap[s[i]].next = Entry(n, s, i + 1)

LEMMA LeastElement ==
  ASSUME NEW S, S \subseteq Nat, S # {}
  PROVE  \E x \in S : \A y \in S : x <= y
<1> DEFINE Less == {ss \in Nat \X Nat : ss[1] < ss[2]}
<1>1. IsWellFoundedOn(Less, Nat)
    BY NatLessThanWellFounded DEF OpToRel
<1> HIDE DEF Less
<1>2. PICK x \in S : \A y \in S : ~ (<<y, x>> \in Less)
    BY <1>1, WFMin
<1>3. \A y \in S : ~(y < x)
    BY <1>2 DEF Less
<1>4. QED
    BY <1>3

\* Nth is what its definition says: the recursion ends.
PartNth(b, f, m) == f = [n \in 0..m |-> IF n = 0 THEN head[b] ELSE After(f[n - 1])]

LEMMA PartNthExists ==
  ASSUME NEW b, NEW m \in Nat
  PROVE  \E f : PartNth(b, f, m)
<1> DEFINE Bad == {k \in Nat : ~ \E f : PartNth(b, f, k)}
<1> SUFFICES ASSUME Bad # {} PROVE FALSE
    OBVIOUS
<1>1. PICK k \in Bad : \A y \in Bad : k <= y
    BY LeastElement
<1>2. k \in Nat /\ ~ \E f : PartNth(b, f, k)
    OBVIOUS
<1>3. CASE k = 0
  <2>1. PartNth(b, [n \in 0..0 |-> head[b]], 0)
      BY DEF PartNth
  <2>2. QED
      BY <1>2, <1>3, <2>1
<1>4. CASE k # 0
  <2>1. k - 1 \in Nat /\ k - 1 \notin Bad
      BY <1>1, <1>2, <1>4
  <2>2. PICK f : PartNth(b, f, k - 1)
      BY <2>1
  <2> DEFINE g == [n \in 0..k |-> IF n = 0 THEN head[b] ELSE After(f[n - 1])]
  <2>3. \A n \in 0..(k - 1) : g[n] = f[n]
      BY <1>2, <2>1, <2>2 DEF PartNth
  <2>4. ASSUME NEW n \in 0..k
        PROVE  g[n] = IF n = 0 THEN head[b] ELSE After(g[n - 1])
    <3>1. CASE n = 0
        BY <3>1
    <3>2. CASE n # 0
      <4>1. n - 1 \in 0..(k - 1)
          BY <3>2, <1>2
      <4>2. g[n] = After(f[n - 1])
          BY <3>2
      <4> HIDE DEF g
      <4>3. QED
          BY <3>2, <4>1, <4>2, <2>3
    <3>3. QED
        BY <3>1, <3>2
  <2>5. PartNth(b, g, k)
    <3> DEFINE h == [n \in 0..k |-> IF n = 0 THEN head[b] ELSE After(g[n - 1])]
    <3>1. \A n \in 0..k : g[n] = h[n]
        BY <2>4
    <3>2. g = h
        BY <3>1
    <3>3. QED
        BY <3>2 DEF PartNth
  <2>6. QED
      BY <1>2, <2>5
<1>5. QED
    BY <1>3, <1>4

LEMMA AddrIsFinite == Cardinality(Addr) \in Nat
BY FS_CardinalityType, HashAssumption

LEMMA NthEquation ==
  ASSUME NEW b
  PROVE  \A n \in 0..Cardinality(Addr) :
           Nth(b)[n] = IF n = 0 THEN head[b] ELSE After(Nth(b)[n - 1])
<1>1. PICK f : PartNth(b, f, Cardinality(Addr))
    BY AddrIsFinite, PartNthExists
<1>2. PartNth(b, Nth(b), Cardinality(Addr))
    BY <1>1 DEF Nth, PartNth
<1>3. QED
    BY <1>2 DEF PartNth

\* A list has no more nodes than there are addresses.
LEMMA ChainIsShort ==
  ASSUME TypeOK, NEW b, NEW n, NEW s, IsChain(b, n, s)
  PROVE  n <= Cardinality(Addr)
<1>1. s \in Injection(1..n, Addr)
    BY DEF IsChain, Linked, TypeOK, Injection, IsInjective
<1>2. Cardinality(1..n) <= Cardinality(Addr)
    BY <1>1, FS_Injection, HashAssumption
<1>3. Cardinality(1..n) = n
  <2>1. \A i \in Int : Cardinality(1..i) = IF 1 > i THEN 0 ELSE i - 1 + 1
      BY FS_Interval
  <2>2. n \in Nat
      BY DEF IsChain
  <2>3. QED
      BY <2>1, <2>2
<1>4. QED
    BY <1>2, <1>3

LEMMA NthIsEntry ==
  ASSUME TypeOK, NEW b, NEW n, NEW s, IsChain(b, n, s), NEW m \in 0..Cardinality(Addr)
  PROVE  Nth(b)[m] = Entry(n, s, m + 1)
<1> DEFINE Bad == {k \in 0..Cardinality(Addr) : Nth(b)[k] # Entry(n, s, k + 1)}
<1> SUFFICES ASSUME Bad # {} PROVE FALSE
    OBVIOUS
<1>a. Bad \subseteq Nat
    BY AddrIsFinite
<1>1. PICK k \in Bad : \A y \in Bad : k <= y
    BY <1>a, LeastElement
<1>2. k \in 0..Cardinality(Addr) /\ Nth(b)[k] # Entry(n, s, k + 1)
    OBVIOUS
<1>3. k # 0
  <2>1. Nth(b)[0] = head[b] /\ head[b] = Entry(n, s, 0 + 1)
      BY NthEquation, AddrIsFinite DEF IsChain
  <2>2. QED
      BY <1>2, <2>1
<1>4. k - 1 \in 0..Cardinality(Addr) /\ k - 1 \notin Bad /\ k - 1 + 1 = k
    BY <1>1, <1>2, <1>3, AddrIsFinite
<1>5. Nth(b)[k] = After(Entry(n, s, k))
    BY <1>2, <1>3, <1>4, NthEquation
<1>6. After(Entry(n, s, k)) = Entry(n, s, k + 1)
  <2>1. CASE k \in 1..n
    <3>1. s[k] # NULL
        BY <2>1, HashAssumption DEF IsChain, Linked, TypeOK
    <3>2. QED
        BY <2>1, <3>1 DEF Entry, After, IsChain
  <2>2. CASE k \notin 1..n
    <3>1. k + 1 \notin 1..n
        BY <2>2, <1>2, <1>3 DEF IsChain
    <3>2. QED
        BY <2>2, <3>1 DEF Entry, After
  <2>3. QED
      BY <2>1, <2>2
<1>7. QED
    BY <1>2, <1>5, <1>6

ChainShown ==
  \A b, n, s : TypeOK /\ IsChain(b, n, s) => Chain(b) = s /\ Len(Chain(b)) = n

\* What Chain computes from the pointers is the list.
LEMMA ChainIs == ChainShown
<1> SUFFICES ASSUME TypeOK, NEW b, NEW n, NEW s, IsChain(b, n, s)
             PROVE  Chain(b) = s /\ Len(Chain(b)) = n
    BY DEF ChainShown
<1> DEFINE Filled == {m \in 0..(Cardinality(Addr) - 1) : Nth(b)[m] # NULL}
<1>a. n <= Cardinality(Addr)
    BY ChainIsShort
<1>1. n \in Nat /\ n <= Cardinality(Addr) /\ Cardinality(Addr) \in Nat
    BY <1>a, AddrIsFinite DEF IsChain
<1>2. \A m \in 0..(Cardinality(Addr) - 1) : Nth(b)[m] = Entry(n, s, m + 1)
    BY <1>1, NthIsEntry
<1>3. \A i \in 1..n : s[i] # NULL
    BY HashAssumption DEF IsChain, Linked, TypeOK
<1>4. Filled = 0..(n - 1)
    BY <1>1, <1>2, <1>3 DEF Entry
<1>5. Cardinality(Filled) = n
  <2>1. \A i \in Int : Cardinality(0..i) = IF 0 > i THEN 0 ELSE i - 0 + 1
      BY FS_Interval
  <2>2. n - 1 \in Int /\ (IF 0 > n - 1 THEN 0 ELSE (n - 1) - 0 + 1) = n
      BY <1>1
  <2>3. Cardinality(0..(n - 1)) = n
      BY <2>1, <2>2
  <2> HIDE DEF Filled
  <2>4. QED
      BY <1>4, <2>3
<1>6. Chain(b) = [i \in 1..n |-> Nth(b)[i - 1]]
    BY <1>5, Zenon DEF Chain
<1>7. \A i \in 1..n : Nth(b)[i - 1] = s[i]
    BY <1>1, <1>2 DEF Entry
<1>8. Chain(b) = [i \in 1..n |-> s[i]]
    BY <1>6, <1>7
<1>9. Len(Chain(b)) = n
    BY <1>1, <1>8
<1>10. QED
    BY <1>8, <1>9 DEF IsChain

LEMMA NextChainIs == ChainShown'
BY ChainIs, PTL


\* The lists the table has, each as Chain computes it.
Chained == \A b \in Bucket : IsChain(b, Len(Chain(b)), Chain(b))

LEMMA ChainedNext ==
  ASSUME TypeOK', \A b \in Bucket : \E n, s : IsChain(b, n, s)'
  PROVE  Chained'
<1> SUFFICES ASSUME NEW b \in Bucket PROVE IsChain(b, Len(Chain(b)), Chain(b))'
    BY DEF Chained
<1>1. PICK n, s : IsChain(b, n, s)'
    OBVIOUS
<1>2. Chain(b)' = s /\ Len(Chain(b))' = n
    BY <1>1, NextChainIs DEF ChainShown
<1>3. QED
    BY <1>1, <1>2

LEMMA ChainedInit == Init => Chained
<1> SUFFICES ASSUME Init, NEW b \in Bucket PROVE IsChain(b, Len(Chain(b)), Chain(b))
    BY DEF Chained
<1>1. TypeOK
    BY LockInvInit DEF LockInv
<1>2. Linked = {} /\ head[b] = NULL
    BY DEF Init, Linked
<1> DEFINE none == [i \in 1..0 |-> i]
<1>3. IsChain(b, 0, none)
    BY <1>2 DEF IsChain, Entry
<1>4. Chain(b) = none /\ Len(Chain(b)) = 0
    BY <1>1, <1>3, ChainIs DEF ChainShown
<1>5. QED
    BY <1>3, <1>4

\* A list none of whose nodes changes.
LEMMA ChainStays ==
  ASSUME NEW b, NEW n, NEW s, IsChain(b, n, s), head'[b] = head[b],
         \A a \in Linked : Home(a) = b => a \in Linked' /\ heap'[a] = heap[a],
         \A a \in Linked' : Home(a)' = b => a \in Linked /\ Home(a) = b
  PROVE  IsChain(b, n, s)'
<1>1. \A i \in 1..n : s[i] \in Linked' /\ Home(s[i])' = b /\ heap'[s[i]] = heap[s[i]]
    BY DEF IsChain, Home
<1>2. \A a \in Linked' : Home(a)' = b => \E i \in 1..n : s[i] = a
    BY DEF IsChain
<1>3. head'[b] = Entry(n, s, 1) /\ \A i \in 1..n : heap'[s[i]].next = Entry(n, s, i + 1)
    BY <1>1 DEF IsChain
<1>4. QED
    BY <1>1, <1>2, <1>3 DEF IsChain

\* A node in front of a list.
InFront(c, n, s) == [i \in 1..(n + 1) |-> IF i = 1 THEN c ELSE s[i - 1]]

LEMMA FrontIsChain ==
  ASSUME NEW b, NEW n, NEW s, IsChain(b, n, s),
         NEW c \in Addr, c \notin Linked, Linked' = Linked \cup {c}, heap' = heap,
         head'[b] = c, Home(c) = b, heap[c].next = head[b]
  PROVE  IsChain(b, n + 1, InFront(c, n, s))'
<1> DEFINE r == InFront(c, n, s)
<1>1. n \in Nat /\ n + 1 \in Nat /\ r \in [1..(n + 1) -> Addr]
    BY DEF IsChain, InFront
<1>2. r[1] = c /\ \A i \in 2..(n + 1) : i - 1 \in 1..n /\ r[i] = s[i - 1]
    BY <1>1 DEF InFront
<1>3. \A a : Home(a)' = Home(a)
    BY DEF Home
<1> HIDE DEF r
<1>4. ASSUME NEW i \in 1..(n + 1)
      PROVE  /\ r[i] \in Linked' /\ Home(r[i]) = b
             /\ heap[r[i]].next = Entry(n + 1, r, i + 1)
  <2>1. CASE i = 1
    <3>1. Entry(n + 1, r, 2) = Entry(n, s, 1)
        BY <1>1, <1>2 DEF Entry
    <3>2. QED
        BY <2>1, <3>1, <1>2 DEF IsChain
  <2>2. CASE i # 1
    <3>1. i \in 2..(n + 1) /\ i - 1 \in 1..n
        BY <2>2, <1>1
    <3>2. r[i] = s[i - 1] /\ heap[s[i - 1]].next = Entry(n, s, i)
        BY <3>1, <1>2 DEF IsChain
    <3>3. Entry(n + 1, r, i + 1) = Entry(n, s, i)
        BY <3>1, <1>1, <1>2 DEF Entry
    <3>4. QED
        BY <3>1, <3>2, <3>3 DEF IsChain
  <2>3. QED
      BY <2>1, <2>2
<1>5. ASSUME NEW a \in Linked', Home(a) = b PROVE \E i \in 1..(n + 1) : r[i] = a
  <2>1. CASE a = c
      BY <2>1, <1>1, <1>2
  <2>2. CASE a # c
    <3>1. PICK i \in 1..n : s[i] = a
        BY <1>5, <2>2 DEF IsChain
    <3>2. i + 1 \in 2..(n + 1) /\ r[i + 1] = s[i]
        BY <3>1, <1>1, <1>2
    <3>3. QED
        BY <3>1, <3>2, <1>1
  <2>3. QED
      BY <2>1, <2>2
<1>6. \A i \in 2..(n + 1) : r[i] # c
    BY <1>2 DEF IsChain
<1>7. ASSUME NEW i \in 1..(n + 1), NEW j \in 1..(n + 1), r[i] = r[j]
      PROVE  i = j
  <2>1. CASE i = 1 \/ j = 1
      BY <1>1, <1>2, <1>6, <1>7, <2>1
  <2>2. CASE i # 1 /\ j # 1
    <3>1. i \in 2..(n + 1) /\ j \in 2..(n + 1)
        BY <1>1, <2>2
    <3>2. s[i - 1] = s[j - 1] /\ i - 1 \in 1..n /\ j - 1 \in 1..n
        BY <1>2, <1>7, <3>1
    <3>3. i - 1 = j - 1
        BY <3>2 DEF IsChain
    <3>4. QED
        BY <3>3
  <2>3. QED
      BY <2>1, <2>2
<1>8. head'[b] = Entry(n + 1, r, 1)
    BY <1>1, <1>2 DEF Entry
<1>9. QED
    BY <1>1, <1>3, <1>4, <1>5, <1>7, <1>8 DEF IsChain, r

\* The list without its m-th node.
Without(m, n, s) == [i \in 1..(n - 1) |-> IF i < m THEN s[i] ELSE s[i + 1]]

\* Whoever points to the m-th node, the head or the node before, is made to
\* point behind it.
LEMMA WithoutIsChain ==
  ASSUME NEW b, NEW n, NEW s, IsChain(b, n, s), NULL \notin Linked,
         NEW m \in 1..n, Linked' = Linked \ {s[m]},
         \A a \in Linked : Home(a)' = Home(a),
         \A i \in 1..n : i # m - 1 => heap'[s[i]].next = heap[s[i]].next,
         IF m = 1 THEN head'[b] = heap[s[m]].next
         ELSE head'[b] = head[b] /\ heap'[s[m - 1]].next = heap[s[m]].next
  PROVE  IsChain(b, n - 1, Without(m, n, s))'
<1> DEFINE r == Without(m, n, s)
<1>1. n \in Nat /\ n - 1 \in Nat /\ r \in [1..(n - 1) -> Addr] /\ m \in Nat
    BY DEF IsChain, Without
<1>2. /\ \A i \in 1..(n - 1) : i < m => r[i] = s[i]
      /\ \A i \in 1..(n - 1) : ~(i < m) => r[i] = s[i + 1]
    BY <1>1 DEF Without
<1>a. \A i \in 1..(n - 1) : i \in 1..n /\ i + 1 \in 1..n /\ i \in Nat
    BY <1>1
<1> HIDE DEF r
<1>3. \A i, j \in 1..n : s[i] = s[j] => i = j
    BY DEF IsChain
<1>4. \A i \in 1..n : heap[s[i]].next = Entry(n, s, i + 1)
    BY DEF IsChain
<1>5. ASSUME NEW i \in 1..(n - 1)
      PROVE  /\ r[i] \in Linked' /\ Home(r[i])' = b
             /\ heap'[r[i]].next = Entry(n - 1, r, i + 1)
  <2>1. PICK k \in 1..n : r[i] = s[k] /\ k = (IF i < m THEN i ELSE i + 1)
    <3>1. CASE i < m
        BY <1>2, <1>a, <3>1
    <3>2. CASE ~(i < m)
        BY <1>2, <1>a, <3>2
    <3>3. QED
        BY <3>1, <3>2
  <2>2. k # m /\ s[k] # s[m] /\ s[k] \in Linked /\ Home(s[k]) = b
      BY <1>1, <1>3, <2>1 DEF IsChain
  <2>3. heap'[s[k]].next = Entry(n - 1, r, i + 1)
    <3>1. CASE k = m - 1
      <4>1. heap'[s[k]].next = Entry(n, s, m + 1) /\ i = m - 1
          BY <1>1, <1>4, <2>1, <3>1
      <4>2. Entry(n, s, m + 1) = Entry(n - 1, r, m)
          BY <1>1, <1>2 DEF Entry
      <4>3. QED
          BY <1>1, <4>1, <4>2
    <3>2. CASE k # m - 1
      <4>1. heap'[s[k]].next = Entry(n, s, k + 1)
          BY <1>4, <2>1, <3>2
      <4>2. CASE i < m
        <5>1. k = i /\ i + 1 < m /\ i + 1 \in 1..n /\ i + 1 \in 1..(n - 1)
            BY <1>1, <1>a, <2>1, <3>2, <4>2
        <5>2. r[i + 1] = s[i + 1]
            BY <1>2, <5>1
        <5>3. QED
            BY <4>1, <5>1, <5>2 DEF Entry
      <4>3. CASE ~(i < m)
        <5>1. k = i + 1 /\ ~(i + 1 < m)
            BY <1>1, <1>a, <2>1, <4>3
        <5>2. CASE i = n - 1
            BY <1>1, <4>1, <5>1, <5>2 DEF Entry
        <5>3. CASE i # n - 1
          <6>1. i + 1 \in 1..(n - 1) /\ i + 1 + 1 \in 1..n
              BY <1>1, <5>3
          <6>2. r[i + 1] = s[i + 1 + 1]
              BY <1>2, <5>1, <6>1
          <6>3. QED
              BY <4>1, <5>1, <6>1, <6>2 DEF Entry
        <5>4. QED
            BY <5>2, <5>3
      <4>4. QED
          BY <4>2, <4>3
    <3>3. QED
        BY <3>1, <3>2
  <2>4. QED
      BY <2>1, <2>2, <2>3
<1>6. ASSUME NEW a \in Linked', Home(a)' = b PROVE \E i \in 1..(n - 1) : r[i] = a
  <2>1. PICK k \in 1..n : s[k] = a
      BY <1>6 DEF IsChain
  <2>2. k # m
      BY <1>6, <2>1
  <2>3. CASE k < m
    <3>1. k \in 1..(n - 1)
        BY <1>1, <2>3
    <3>2. QED
        BY <1>2, <2>1, <2>3, <3>1
  <2>4. CASE k > m
    <3>1. k - 1 \in 1..(n - 1) /\ ~(k - 1 < m) /\ k - 1 + 1 = k
        BY <1>1, <2>4
    <3>2. QED
        BY <1>2, <2>1, <3>1
  <2>5. QED
      BY <1>1, <2>2, <2>3, <2>4
<1>7. ASSUME NEW i \in 1..(n - 1), NEW j \in 1..(n - 1), r[i] = r[j]
      PROVE  i = j
  <2>1. CASE i < m /\ j < m
      BY <1>2, <1>3, <1>7, <1>a, <2>1
  <2>2. CASE ~(i < m) /\ ~(j < m)
    <3>1. i + 1 = j + 1
        BY <1>2, <1>3, <1>7, <1>a, <2>2
    <3>2. QED
        BY <3>1
  <2>3. CASE i < m /\ ~(j < m)
    <3>1. i = j + 1
        BY <1>2, <1>3, <1>7, <1>a, <2>3
    <3>2. QED
        BY <1>1, <2>3, <3>1
  <2>4. CASE ~(i < m) /\ j < m
    <3>1. i + 1 = j
        BY <1>2, <1>3, <1>7, <1>a, <2>4
    <3>2. QED
        BY <1>1, <2>4, <3>1
  <2>5. QED
      BY <2>1, <2>2, <2>3, <2>4
<1>8. head'[b] = Entry(n - 1, r, 1)
  <2>1. CASE m = 1
    <3>1. head'[b] = Entry(n, s, 2)
        BY <1>4, <2>1
    <3>2. CASE n = 1
        BY <3>1, <3>2 DEF Entry
    <3>3. CASE n # 1
      <4>1. 1 \in 1..(n - 1) /\ ~(1 < m) /\ 2 \in 1..n
          BY <1>1, <2>1, <3>3
      <4>2. r[1] = s[2]
          BY <1>2, <4>1
      <4>3. QED
          BY <3>1, <4>1, <4>2 DEF Entry
    <3>4. QED
        BY <3>2, <3>3
  <2>2. CASE m # 1
    <3>1. head'[b] = Entry(n, s, 1) /\ 1 < m /\ 1 \in 1..n /\ 1 \in 1..(n - 1)
        BY <1>1, <2>2 DEF IsChain
    <3>2. r[1] = s[1]
        BY <1>2, <3>1
    <3>3. QED
        BY <3>1, <3>2 DEF Entry
  <2>3. QED
      BY <2>1, <2>2
<1>9. QED
    BY <1>1, <1>5, <1>6, <1>7, <1>8 DEF IsChain, r


LEMMA ChainNextIs ==
  ASSUME TypeOK', NEW b, NEW n, NEW s, IsChain(b, n, s)'
  PROVE  Chain(b)' = s /\ Len(Chain(b))' = n
BY NextChainIs DEF ChainShown

\* A step that leaves the lists alone leaves the sequences alone.
LEMMA ChainsStay ==
  ASSUME TypeOK', Chained, Linked' = Linked, head' = head,
         \A a \in Linked : heap'[a] = heap[a]
  PROVE  Chained' /\ \A b \in Bucket : Chain(b)' = Chain(b)
<1>1. ASSUME NEW b \in Bucket PROVE IsChain(b, Len(Chain(b)), Chain(b))'
                                    /\ Chain(b)' = Chain(b)
  <2> DEFINE n == Len(Chain(b))
             s == Chain(b)
  <2>1. IsChain(b, n, s)
      BY DEF Chained
  <2>2. PICK k, q : k = n /\ q = s
      OBVIOUS
  <2>3. IsChain(b, k, q)
      BY <2>1, <2>2
  <2>4. \A a \in Linked : Home(a)' = Home(a)
      BY DEF Home
  <2>5. IsChain(b, k, q)'
      BY <2>3, <2>4, ChainStays
  <2>6. Chain(b)' = q /\ Len(Chain(b))' = k
      BY <2>5, ChainNextIs
  <2>7. QED
      BY <2>2, <2>5, <2>6
<1>2. QED
    BY <1>1 DEF Chained

\* List_Insert puts its node in front of its bucket's list.
LEMMA LinkChain ==
  ASSUME HashInv, TypeOK', Chained, NEW t \in Thread, Link(t),
         NEW b, b = hash_key(t)
  PROVE  /\ Chain(b)' = InFront(curr_node[t], Len(Chain(b)), Chain(b))
         /\ Len(Chain(b))' = Len(Chain(b)) + 1
         /\ \A x \in Bucket : x # b => Chain(x)' = Chain(x)
         /\ Chained'
<1>1. PICK c : c = curr_node[t]
    OBVIOUS
<1>2. /\ b \in Bucket /\ c \in used /\ c \notin Linked /\ c # NULL /\ Home(c) = b
      /\ heap[c].next = head[b] /\ heap' = heap /\ Linked' = Linked \cup {c}
      /\ head'[b] = c /\ \A x \in Bucket : x # b => head'[x] = head[x]
    BY <1>1, LinkChanges
<1>3. c \in Addr
    BY <1>2 DEF HashInv, LockInv, TypeOK
<1>4. \A a : Home(a)' = Home(a)
    BY <1>2 DEF Home
<1>5. PICK n, s : n = Len(Chain(b)) /\ s = Chain(b)
    OBVIOUS
<1>6. IsChain(b, n, s)
    BY <1>2, <1>5 DEF Chained
<1>7. IsChain(b, n + 1, InFront(c, n, s))'
    BY <1>2, <1>3, <1>6, FrontIsChain
<1>8. Chain(b)' = InFront(c, n, s) /\ Len(Chain(b))' = n + 1
  <2>1. PICK k, q : k = n + 1 /\ q = InFront(c, n, s)
      OBVIOUS
  <2>2. IsChain(b, k, q)'
      BY <1>7, <2>1
  <2>3. QED
      BY <2>1, <2>2, ChainNextIs
<1>9. ASSUME NEW x \in Bucket, x # b
      PROVE  IsChain(x, Len(Chain(x)), Chain(x))' /\ Chain(x)' = Chain(x)
  <2>1. PICK k, q : k = Len(Chain(x)) /\ q = Chain(x)
      OBVIOUS
  <2>2. IsChain(x, k, q)
      BY <2>1 DEF Chained
  <2>3. IsChain(x, k, q)'
      BY <1>2, <1>4, <1>9, <2>2, ChainStays
  <2>4. Chain(x)' = q /\ Len(Chain(x))' = k
      BY <2>3, ChainNextIs
  <2>5. QED
      BY <2>1, <2>3, <2>4
<1>10. IsChain(b, Len(Chain(b)), Chain(b))'
    BY <1>7, <1>8
<1>11. Chained'
    BY <1>9, <1>10 DEF Chained
<1>12. QED
    BY <1>1, <1>5, <1>8, <1>9, <1>11

\* List_Delete takes its node out of its bucket's list, wherever it stood.
LEMMA UnlinkChain ==
  ASSUME HashInv, TypeOK', Chained, NEW t \in Thread, UnlinkHead(t) \/ Unlink(t),
         NEW b, b = hash_key(t), NEW m \in 1..Len(Chain(b)), Chain(b)[m] = curr_node[t]
  PROVE  /\ Chain(b)' = Without(m, Len(Chain(b)), Chain(b))
         /\ Len(Chain(b))' = Len(Chain(b)) - 1
         /\ \A x \in Bucket : x # b => Chain(x)' = Chain(x)
         /\ Chained'
<1>1. PICK c, p : c = curr_node[t] /\ p = prev_node[t]
    OBVIOUS
<1>2. /\ b \in Bucket /\ c \in Linked /\ Home(c) = b /\ Linked' = Linked \ {c}
      /\ \/ /\ heap' = heap /\ head[b] = c /\ head'[b] = heap[c].next
            /\ \A x \in Bucket : x # b => head'[x] = head[x]
         \/ /\ head' = head /\ head[b] # c /\ p \in Linked /\ Home(p) = b /\ heap[p].next = c
            /\ heap' = [heap EXCEPT ![p].next = heap[c].next] /\ p \in Addr
    BY <1>1, UnlinkChanges
<1>3. PICK n, s : n = Len(Chain(b)) /\ s = Chain(b)
    OBVIOUS
<1>4. IsChain(b, n, s) /\ m \in 1..n /\ s[m] = c
    BY <1>1, <1>2, <1>3 DEF Chained
<1>5. Linked \subseteq Addr /\ NULL \notin Linked /\ heap \in [Addr -> Nodes]
    BY HashAssumption DEF HashInv, LockInv, TypeOK, Linked, Nodes
<1>6. /\ \A a \in Linked : Home(a)' = Home(a)
      /\ \A a \in Linked : Home(a) # b => heap'[a] = heap[a] /\ a \in Linked'
    BY <1>2, <1>5 DEF Home, Nodes
<1>7. /\ \A i \in 1..n : i # m - 1 => heap'[s[i]].next = heap[s[i]].next
      /\ IF m = 1 THEN head'[b] = heap[s[m]].next
         ELSE head'[b] = head[b] /\ heap'[s[m - 1]].next = heap[s[m]].next
  <2>1. CASE heap' = heap /\ head[b] = c /\ head'[b] = heap[c].next
    <3>1. s[1] = c /\ 1 \in 1..n
        BY <1>4, <1>5, <1>2, <2>1 DEF IsChain, Entry
    <3>2. m = 1
        BY <1>4, <3>1 DEF IsChain
    <3>3. QED
        BY <1>4, <2>1, <3>2
  <2>2. CASE /\ head' = head /\ head[b] # c /\ p \in Linked /\ Home(p) = b /\ heap[p].next = c
             /\ heap' = [heap EXCEPT ![p].next = heap[c].next] /\ p \in Addr
    <3>1. PICK j \in 1..n : s[j] = p
        BY <1>4, <2>2 DEF IsChain
    <3>2. Entry(n, s, j + 1) = s[m] /\ s[m] # NULL
        BY <1>4, <1>5, <1>2, <2>2, <3>1 DEF IsChain
    <3>3. j + 1 \in 1..n /\ s[j + 1] = s[m]
        BY <3>2 DEF Entry
    <3>4. j + 1 = m /\ j = m - 1 /\ m # 1
        BY <1>4, <3>1, <3>3 DEF IsChain
    <3>5. heap'[p].next = heap[c].next /\ \A a \in Addr : a # p => heap'[a] = heap[a]
        BY <1>5, <2>2 DEF Nodes
    <3>6. \A i \in 1..n : i # j => s[i] # p /\ s[i] \in Addr
        BY <1>4, <1>5, <3>1 DEF IsChain
    <3>7. QED
        BY <1>4, <2>2, <3>1, <3>4, <3>5, <3>6
  <2>3. QED
      BY <1>2, <2>1, <2>2
<1>8. IsChain(b, n - 1, Without(m, n, s))'
    BY <1>2, <1>4, <1>5, <1>6, <1>7, WithoutIsChain
<1>9. Chain(b)' = Without(m, n, s) /\ Len(Chain(b))' = n - 1
  <2>1. PICK k, q : k = n - 1 /\ q = Without(m, n, s)
      OBVIOUS
  <2>2. IsChain(b, k, q)'
      BY <1>8, <2>1
  <2>3. QED
      BY <2>1, <2>2, ChainNextIs
<1>10. ASSUME NEW x \in Bucket, x # b
       PROVE  IsChain(x, Len(Chain(x)), Chain(x))' /\ Chain(x)' = Chain(x)
  <2>1. PICK k, q : k = Len(Chain(x)) /\ q = Chain(x)
      OBVIOUS
  <2>2. IsChain(x, k, q)
      BY <2>1 DEF Chained
  <2>3. head'[x] = head[x]
      BY <1>2, <1>10
  <2>4. IsChain(x, k, q)'
      BY <1>2, <1>6, <1>10, <2>2, <2>3, ChainStays
  <2>5. Chain(x)' = q /\ Len(Chain(x))' = k
      BY <2>4, ChainNextIs
  <2>6. QED
      BY <2>1, <2>4, <2>5
<1>11. IsChain(b, Len(Chain(b)), Chain(b))'
    BY <1>8, <1>9
<1>12. Chained'
    BY <1>10, <1>11 DEF Chained
<1>13. QED
    BY <1>3, <1>9, <1>10, <1>12

LEMMA ChainedStep ==
  ASSUME HashInv, TypeOK', Chained, NEW t \in Thread, Step(t)
  PROVE  Chained'
<1>1. CASE QuietAction(t)
    BY <1>1, QuietKeeps, ChainsStay
<1>2. CASE (\E a \in Addr : Malloc(t, a)) \/ SetNext(t) \/ Free(t)
    BY <1>2, NodeKeeps, ChainsStay
<1>3. CASE Link(t)
    BY <1>3, LinkChain
<1>4. CASE UnlinkHead(t) \/ Unlink(t)
  <2>1. hash_key(t) \in Bucket /\ curr_node[t] \in Linked /\ Home(curr_node[t]) = hash_key(t)
      BY <1>4, UnlinkChanges
  <2>2. PICK m \in 1..Len(Chain(hash_key(t))) : Chain(hash_key(t))[m] = curr_node[t]
      BY <2>1 DEF Chained, IsChain
  <2>3. QED
      BY <1>4, <2>2, UnlinkChain
<1>5. QED
    BY <1>1, <1>2, <1>3, <1>4 DEF Step, QuietAction

ChainInv == HashInv /\ Chained

LEMMA ChainInvInit == Init => ChainInv
BY HashInvInit, ChainedInit DEF ChainInv

LEMMA ChainInvStep == ChainInv /\ [Next]_vars => ChainInv'
<1> SUFFICES ASSUME ChainInv, [Next]_vars PROVE ChainInv'
    OBVIOUS
<1>1. HashInv /\ HashInv' /\ Chained /\ TypeOK'
    BY HashInvStep DEF ChainInv, HashInv, LockInv
<1>2. ASSUME NEW t \in Thread, Step(t) PROVE Chained'
    BY <1>1, <1>2, ChainedStep
<1>3. CASE UNCHANGED vars
  <2>1. Linked' = Linked /\ head' = head /\ heap' = heap
      BY <1>3 DEF vars, Linked, InFlight
  <2>2. Chained'
      BY <1>1, <2>1, ChainsStay
  <2>3. QED
      BY <1>1, <2>2 DEF ChainInv
<1>4. QED
    BY <1>1, <1>2, <1>3, NextIsStep DEF ChainInv

\* The hands are as many as the calls that hold one.
LEMMA HandsCounted ==
  ASSUME HashInv
  PROVE  LET held == {t \in Thread : InFlight(t)}
         IN  Cardinality({curr_node[t] : t \in held}) = Cardinality(held)
<1> DEFINE held == {t \in Thread : InFlight(t)}
           hands == {curr_node[t] : t \in held}
           f == [t \in held |-> curr_node[t]]
<1>1. hands \subseteq Addr
    BY DEF HashInv, LockInv, TypeOK, Hands
<1>2. IsFiniteSet(hands)
    BY <1>1, FS_Subset, HashAssumption
<1>3. f \in Injection(held, hands)
    BY DEF HashInv, Hands, Injection, IsInjective
<1>4. f \in Surjection(held, hands)
    BY DEF Surjection
<1> HIDE DEF f, held, hands
<1>5. /\ IsFiniteSet(held)
      /\ Cardinality(held) = Cardinality(hands) <=> f \in Surjection(held, hands)
    BY <1>2, <1>3, FS_Injection
<1>6. Cardinality(hands) = Cardinality(held)
    BY <1>4, <1>5
<1>7. QED
    BY <1>6 DEF held, hands

LEMMA NodesOfList ==
  ASSUME ChainInv, NEW b \in Bucket
  PROVE  NodesOf(b) = {a \in Linked : Home(a) = b}
<1>1. IsChain(b, Len(Chain(b)), Chain(b))
    BY DEF ChainInv, Chained
<1>2. QED
    BY <1>1 DEF IsChain, NodesOf

\* Every node that malloc gave out and nobody freed is in the list of its key's
\* bucket, once, or in the hands of one call (list.c 19-31, 52-73): whatever the
\* interleaving, no node is lost, and none is freed twice.
THEOREM NodesAccountedHolds == Spec => []NodesAccounted
<1>1. ChainInv => NodesAccounted
  <2> SUFFICES ASSUME ChainInv PROVE NodesAccounted
      OBVIOUS
  <2> DEFINE held == {t \in Thread : InFlight(t)}
             hands == {curr_node[t] : t \in held}
             lists == UNION {NodesOf(b) : b \in Bucket}
  <2>1. \A a \in Linked : Home(a) \in Bucket
      BY ListFacts DEF ChainInv, HashInv
  <2>2. lists = Linked
      BY <2>1, NodesOfList
  <2>3. Linked = used \ hands /\ hands \subseteq used
      BY DEF Linked, ChainInv, HashInv, Hands
  <2>4. \A b, c \in Bucket : b # c => NodesOf(b) \cap NodesOf(c) = {}
      BY NodesOfList
  <2>5. Cardinality(hands) = Cardinality(held)
      BY HandsCounted DEF ChainInv
  <2>6. used = lists \cup hands /\ lists \cap hands = {}
      BY <2>2, <2>3
  <2>7. QED
      BY <2>4, <2>5, <2>6 DEF NodesAccounted
<1>2. QED
    BY ChainInvInit, ChainInvStep, <1>1, PTL DEF Spec

-----------------------------------------------------------------------------
(* The elements of a key as a stack.                                       *)

Elements == Element \cup {NULL}

\* f[i] is the stack of the elements of k in the nodes from the i-th on.
Stacked(k, n, s, f) ==
  /\ f \in [1..(n + 1) -> Seq(Elements)] /\ f[n + 1] = <<>>
  /\ \A i \in 1..n : f[i] = IF HasKey(k, s[i]) THEN <<heap[s[i]].element>> \o f[i + 1]
                            ELSE f[i + 1]

LEMMA Downward ==
  ASSUME NEW n \in Nat, NEW P, n + 1 \in P, \A i \in 1..n : i + 1 \in P => i \in P
  PROVE  \A i \in 1..(n + 1) : i \in P
<1> DEFINE Bad == {j \in Nat : j <= n /\ n + 1 - j \notin P}
<1>1. ASSUME Bad # {} PROVE FALSE
  <2>a. Bad \subseteq Nat
      OBVIOUS
  <2>1. PICK j \in Bad : \A y \in Bad : j <= y
      BY <1>1, <2>a, LeastElement
  <2>2. j \in Nat /\ j <= n /\ n + 1 - j \notin P
      OBVIOUS
  <2>3. j # 0
      BY <2>2
  <2>4. j - 1 \in Nat /\ j - 1 \notin Bad /\ j - 1 <= n
      BY <2>1, <2>2, <2>3
  <2>5. n + 1 - (j - 1) \in P
      BY <2>4
  <2>6. n + 1 - j \in 1..n /\ n + 1 - (j - 1) = (n + 1 - j) + 1
      BY <2>2, <2>3
  <2>7. QED
      BY <2>2, <2>5, <2>6
<1>2. ASSUME NEW i \in 1..(n + 1) PROVE i \in P
  <2>1. n + 1 - i \in Nat /\ n + 1 - i <= n /\ n + 1 - (n + 1 - i) = i
      OBVIOUS
  <2>2. n + 1 - i \notin Bad
      BY <1>1
  <2> HIDE DEF Bad
  <2>3. PICK j : j = n + 1 - i
      OBVIOUS
  <2>4. j \in Nat /\ j <= n /\ n + 1 - j = i /\ j \notin Bad
      BY <2>1, <2>2, <2>3
  <2>5. QED
      BY <2>4 DEF Bad
<1>3. QED
    BY <1>2

\* Two ways to stack the same nodes are one.
LEMMA StackedOnce ==
  ASSUME NEW k, NEW n \in Nat, NEW s, NEW f, NEW g, Stacked(k, n, s, f), Stacked(k, n, s, g)
  PROVE  f[1] = g[1]
<1> DEFINE P == {i \in 1..(n + 1) : f[i] = g[i]}
<1>1. n + 1 \in P
    BY DEF Stacked
<1>2. ASSUME NEW i \in 1..n, i + 1 \in P PROVE i \in P
  <2>1. f[i + 1] = g[i + 1] /\ i \in 1..(n + 1)
      BY <1>2
  <2>2. CASE HasKey(k, s[i])
    <3>1. f[i] = <<heap[s[i]].element>> \o f[i + 1]
        BY <2>2 DEF Stacked
    <3>2. g[i] = <<heap[s[i]].element>> \o g[i + 1]
        BY <2>2 DEF Stacked
    <3>3. f[i] = g[i]
        BY <2>1, <3>1, <3>2, Zenon
    <3>4. QED
        BY <2>1, <3>3
  <2>3. CASE ~HasKey(k, s[i])
      BY <2>1, <2>3 DEF Stacked
  <2>4. QED
      BY <2>2, <2>3
<1> HIDE DEF P
<1>3. \A i \in 1..(n + 1) : i \in P
    BY <1>1, <1>2, Downward
<1>4. 1 \in P
    BY <1>3
<1>5. QED
    BY <1>4 DEF P

\* What the recursion in StackOf computes, from the m-th place before the end.
Above(k, b, f, i) ==
  IF i = Cardinality(Addr) \/ Nth(b)[i] = NULL THEN <<>>
  ELSE IF HasKey(k, Nth(b)[i]) THEN <<heap[Nth(b)[i]].element>> \o f[i + 1] ELSE f[i + 1]

PartStack(k, b, f, m) == f = [i \in (Cardinality(Addr) - m)..Cardinality(Addr) |-> Above(k, b, f, i)]
WholeStack(k, b, f) == f = [i \in 0..Cardinality(Addr) |-> Above(k, b, f, i)]

LEMMA PartStackExists ==
  ASSUME NEW k, NEW b, NEW m \in Nat
  PROVE  \E f : PartStack(k, b, f, m)
<1> DEFINE Bad == {j \in Nat : ~ \E f : PartStack(k, b, f, j)}
           last == Cardinality(Addr)
<1>0. last \in Nat
    BY AddrIsFinite
<1> SUFFICES ASSUME Bad # {} PROVE FALSE
    OBVIOUS
<1>1. PICK j \in Bad : \A y \in Bad : j <= y
    BY LeastElement
<1>2. j \in Nat /\ ~ \E f : PartStack(k, b, f, j)
    OBVIOUS
<1> HIDE DEF last
<1>3. CASE j = 0
  <2> DEFINE g == [i \in (last - 0)..last |-> <<>>]
             h == [i \in (last - 0)..last |-> Above(k, b, g, i)]
  <2>1. \A i \in (last - 0)..last : Above(k, b, g, i) = <<>>
      BY <1>0 DEF Above, last
  <2>2. g = h
      BY <2>1
  <2>3. PartStack(k, b, g, 0)
      BY <2>2 DEF PartStack, last
  <2>4. QED
      BY <1>2, <1>3, <2>3
<1>4. CASE j # 0
  <2>1. j - 1 \in Nat /\ j - 1 \notin Bad
      BY <1>1, <1>2, <1>4
  <2>2. PICK f : PartStack(k, b, f, j - 1)
      BY <2>1
  <2> DEFINE g == [i \in (last - j)..last |-> Above(k, b, f, i)]
             h == [i \in (last - j)..last |-> Above(k, b, g, i)]
  <2>3. \A i \in (last - (j - 1))..last : f[i] = Above(k, b, f, i)
      BY <2>2 DEF PartStack, last
  <2>4. \A i \in (last - (j - 1))..last : g[i] = f[i]
      BY <1>0, <1>2, <2>1, <2>3
  <2>5. ASSUME NEW i \in (last - j)..last PROVE Above(k, b, f, i) = Above(k, b, g, i)
    <3>1. CASE i = last
        BY <3>1 DEF Above, last
    <3>2. CASE i # last
      <4>1. i + 1 \in (last - (j - 1))..last
          BY <1>0, <1>2, <3>2
      <4>2. g[i + 1] = f[i + 1]
          BY <2>4, <4>1
      <4> HIDE DEF g
      <4>3. QED
          BY <4>2 DEF Above
    <3>3. QED
        BY <3>1, <3>2
  <2>6. g = h
      BY <2>5
  <2>7. PartStack(k, b, g, j)
      BY <2>6 DEF PartStack, last
  <2>8. QED
      BY <1>2, <2>7
<1>5. QED
    BY <1>3, <1>4

LEMMA StackOfEquation ==
  ASSUME NEW k
  PROVE  \E f : WholeStack(k, HashOf(k), f) /\ StackOf(k) = f[0]
<1>1. PICK g : PartStack(k, HashOf(k), g, Cardinality(Addr))
    BY AddrIsFinite, PartStackExists
<1>2. Cardinality(Addr) - Cardinality(Addr) = 0
    BY AddrIsFinite
<1>3. WholeStack(k, HashOf(k), g)
    BY <1>1, <1>2 DEF PartStack, WholeStack
<1> DEFINE f == CHOOSE h : WholeStack(k, HashOf(k), h)
<1>4. WholeStack(k, HashOf(k), f)
    BY <1>3
<1>5. StackOf(k) = f[0]
    BY Zenon DEF StackOf, WholeStack, Above
<1>6. QED
    BY <1>4, <1>5

\* StackOf computes the stack of the elements in the list.
LEMMA StackOfChain ==
  ASSUME TypeOK, NEW k, NEW n, NEW s, IsChain(HashOf(k), n, s)
  PROVE  \E f : Stacked(k, n, s, f) /\ StackOf(k) = f[1]
<1>1. PICK b : b = HashOf(k)
    OBVIOUS
<1>2. PICK from : WholeStack(k, b, from) /\ StackOf(k) = from[0]
    BY <1>1, StackOfEquation
<1>3. IsChain(b, n, s)
    BY <1>1
<1>4. n \in Nat /\ Cardinality(Addr) \in Nat /\ n <= Cardinality(Addr)
  <2>1. n <= Cardinality(Addr)
      BY <1>3, ChainIsShort
  <2>2. QED
      BY <1>3, <2>1, AddrIsFinite DEF IsChain
<1>5. \A i \in 0..Cardinality(Addr) : from[i] = Above(k, b, from, i)
    BY <1>2 DEF WholeStack
<1>6. \A i \in 0..Cardinality(Addr) : Nth(b)[i] = Entry(n, s, i + 1)
    BY <1>3, NthIsEntry
<1> DEFINE f == [i \in 1..(n + 1) |-> from[i - 1]]
<1>7. f[n + 1] = <<>>
  <2>1. n = Cardinality(Addr) \/ Nth(b)[n] = NULL
      BY <1>4, <1>6 DEF Entry
  <2>2. from[n] = <<>>
    <3>1. n \in 0..Cardinality(Addr)
        BY <1>4
    <3>2. from[n] = Above(k, b, from, n)
        BY <1>5, <3>1
    <3>3. QED
        BY <2>1, <3>2 DEF Above
  <2>3. QED
      BY <1>4, <2>2
<1>8. ASSUME NEW i \in 1..n
      PROVE  f[i] = IF HasKey(k, s[i]) THEN <<heap[s[i]].element>> \o f[i + 1] ELSE f[i + 1]
  <2>1. PICK j : j = i - 1 /\ j + 1 = i /\ j \in 0..Cardinality(Addr) /\ j # Cardinality(Addr)
      BY <1>4
  <2>2. Nth(b)[j] = s[i] /\ s[i] # NULL
      BY <1>3, <1>6, <2>1, HashAssumption DEF Entry, IsChain, Linked, TypeOK
  <2>3. from[j] = Above(k, b, from, j)
      BY <1>5, <2>1
  <2>4. f[i] = from[j] /\ f[i + 1] = from[i]
      BY <1>4, <2>1
  <2> HIDE DEF f
  <2>5. QED
      BY <2>1, <2>2, <2>3, <2>4 DEF Above
<1>9. \A i \in 1..(n + 1) : f[i] \in Seq(Elements)
  <2> DEFINE P == {i \in 1..(n + 1) : f[i] \in Seq(Elements)}
  <2> HIDE DEF f
  <2>1. n + 1 \in P
    <3>1. <<>> \in Seq(Elements) /\ n + 1 \in 1..(n + 1)
        BY <1>4
    <3>2. QED
        BY <1>7, <3>1
  <2>2. ASSUME NEW i \in 1..n, i + 1 \in P PROVE i \in P
    <3>1. PICK e, q : e = heap[s[i]].element /\ q = f[i + 1]
        OBVIOUS
    <3>2. e \in Elements /\ q \in Seq(Elements) /\ i \in 1..(n + 1)
      <4>1. s[i] \in Addr
          BY <1>3 DEF IsChain
      <4>2. heap[s[i]].element \in Element \cup {NULL}
          BY <4>1 DEF TypeOK
      <4>3. QED
          BY <1>4, <2>2, <3>1, <4>2 DEF Elements
    <3>3. <<e>> \o q \in Seq(Elements)
        BY <3>2
    <3>4. f[i] \in Seq(Elements)
        BY <1>8, <3>1, <3>2, <3>3
    <3>5. QED
        BY <3>2, <3>4
  <2> HIDE DEF P
  <2>3. \A i \in 1..(n + 1) : i \in P
      BY <1>4, <2>1, <2>2, Downward
  <2>4. QED
      BY <2>3 DEF P
<1>10. f \in [1..(n + 1) -> Seq(Elements)]
    BY <1>9
<1>11. f[1] = from[0]
    BY <1>4
<1> HIDE DEF f
<1>12. Stacked(k, n, s, f)
    BY <1>7, <1>8, <1>10 DEF Stacked
<1>13. QED
    BY <1>2, <1>11, <1>12

StackShown ==
  \A k, n, s, f : TypeOK /\ IsChain(HashOf(k), n, s) /\ Stacked(k, n, s, f) => StackOf(k) = f[1]

LEMMA StackIs == StackShown
<1> SUFFICES ASSUME TypeOK, NEW k, NEW n, NEW s, NEW f,
                    IsChain(HashOf(k), n, s), Stacked(k, n, s, f)
             PROVE  StackOf(k) = f[1]
    BY DEF StackShown
<1>1. PICK g : Stacked(k, n, s, g) /\ StackOf(k) = g[1]
    BY StackOfChain
<1>2. n \in Nat
    BY DEF IsChain
<1>3. QED
    BY <1>1, <1>2, StackedOnce

LEMMA NextStackIs == StackShown'
BY StackIs, PTL

LEMMA StackNextIs ==
  ASSUME TypeOK', NEW k, NEW n, NEW s, NEW f, IsChain(HashOf(k), n, s)', Stacked(k, n, s, f)'
  PROVE  StackOf(k)' = f[1]
BY NextStackIs DEF StackShown

-----------------------------------------------------------------------------
(* How a change of the list changes the stacks.                            *)

\* The nodes of a list keep what they hold.
Keeps(n, s) ==
  \A i \in 1..n : heap'[s[i]].key = heap[s[i]].key /\ heap'[s[i]].element = heap[s[i]].element

LEMMA StackStays ==
  ASSUME TypeOK, TypeOK', NEW k, NEW n, NEW s,
         IsChain(HashOf(k), n, s), IsChain(HashOf(k), n, s)', Keeps(n, s)
  PROVE  StackOf(k)' = StackOf(k)
<1>1. PICK f : Stacked(k, n, s, f) /\ StackOf(k) = f[1]
    BY StackOfChain
<1>2. Stacked(k, n, s, f)'
    BY <1>1 DEF Stacked, Keeps, HasKey
<1>3. QED
    BY <1>1, <1>2, StackNextIs

LEMMA TopOfStack ==
  ASSUME NEW e \in Elements, NEW q \in Seq(Elements)
  PROVE  /\ <<e>> \o q # <<>> /\ Head(<<e>> \o q) = e /\ Tail(<<e>> \o q) = q
         /\ <<e>> \o q \in Seq(Elements)
<1>1. Len(<<e>> \o q) = Len(q) + 1 /\ (<<e>> \o q)[1] = e
    OBVIOUS
<1>2. Tail(<<e>> \o q) = q
    OBVIOUS
<1>3. QED
    BY <1>1, <1>2

\* A node that goes in front puts its element on top of its key's stack.
LEMMA StackFront ==
  ASSUME TypeOK, TypeOK', NEW k, NEW n, NEW s, NEW c \in Addr, heap' = heap,
         IsChain(HashOf(k), n, s), IsChain(HashOf(k), n + 1, InFront(c, n, s))'
  PROVE  StackOf(k)' = IF HasKey(k, c) THEN <<heap[c].element>> \o StackOf(k) ELSE StackOf(k)
<1>1. PICK f : Stacked(k, n, s, f) /\ StackOf(k) = f[1]
    BY StackOfChain
<1>2. n \in Nat /\ n + 1 \in Nat /\ n + 1 + 1 = n + 2
    BY DEF IsChain
<1>3. PICK q : q = IF HasKey(k, c) THEN <<heap[c].element>> \o f[1] ELSE f[1]
    OBVIOUS
<1>4. q \in Seq(Elements)
  <2>1. f[1] \in Seq(Elements)
      BY <1>1, <1>2 DEF Stacked
  <2>2. heap[c].element \in Elements
      BY DEF TypeOK, Elements
  <2>3. <<heap[c].element>> \o f[1] \in Seq(Elements)
      BY <2>1, <2>2, TopOfStack
  <2>4. QED
      BY <1>3, <2>1, <2>3
<1> DEFINE g == [i \in 1..(n + 2) |-> IF i = 1 THEN q ELSE f[i - 1]]
           r == InFront(c, n, s)
<1>5. /\ g \in [1..(n + 2) -> Seq(Elements)] /\ g[1] = q
      /\ \A i \in 2..(n + 2) : g[i] = f[i - 1]
    BY <1>1, <1>2, <1>4 DEF Stacked
<1>6. r[1] = c /\ \A i \in 2..(n + 1) : i - 1 \in 1..n /\ r[i] = s[i - 1]
    BY <1>2 DEF InFront
<1> HIDE DEF g, r
<1>7. ASSUME NEW i \in 1..(n + 1)
      PROVE  g[i] = IF HasKey(k, r[i]) THEN <<heap[r[i]].element>> \o g[i + 1] ELSE g[i + 1]
  <2>1. CASE i = 1
    <3>1. g[2] = f[1]
        BY <1>2, <1>5
    <3>2. QED
        BY <1>3, <1>5, <1>6, <2>1, <3>1
  <2>2. CASE i # 1
    <3>1. PICK j \in 1..n : i = j + 1 /\ r[i] = s[j]
      <4>1. i \in 2..(n + 1)
          BY <1>2, <2>2
      <4>2. i - 1 \in 1..n /\ r[i] = s[i - 1] /\ i = (i - 1) + 1
          BY <1>6, <4>1
      <4>3. QED
          BY <4>2
    <3>2. g[i] = f[j] /\ g[i + 1] = f[j + 1]
        BY <1>2, <1>5, <3>1
    <3>3. f[j] = IF HasKey(k, s[j]) THEN <<heap[s[j]].element>> \o f[j + 1] ELSE f[j + 1]
        BY <1>1 DEF Stacked
    <3>4. CASE HasKey(k, s[j])
        BY <3>1, <3>2, <3>3, <3>4
    <3>5. CASE ~HasKey(k, s[j])
        BY <3>1, <3>2, <3>3, <3>5
    <3>6. QED
        BY <3>4, <3>5
  <2>3. QED
      BY <2>1, <2>2
<1>8. g[n + 2] = <<>>
    BY <1>1, <1>2, <1>5 DEF Stacked
<1>9. Stacked(k, n + 1, r, g)'
    BY <1>2, <1>5, <1>7, <1>8 DEF Stacked, HasKey
<1>10. StackOf(k)' = g[1]
  <2>1. PICK m : m = n + 1
      OBVIOUS
  <2>2. IsChain(HashOf(k), m, r)' /\ Stacked(k, m, r, g)'
      BY <1>9, <2>1 DEF r
  <2>3. QED
      BY <2>2, StackNextIs
<1>11. QED
    BY <1>1, <1>3, <1>5, <1>10

\* No node of the key: nothing is stacked.
LEMMA StackEmpty ==
  ASSUME TypeOK, NEW k, NEW n, NEW s, IsChain(HashOf(k), n, s),
         \A i \in 1..n : ~HasKey(k, s[i])
  PROVE  StackOf(k) = <<>>
<1> DEFINE none == [i \in 1..(n + 1) |-> <<>>]
<1>1. n \in Nat
    BY DEF IsChain
<1>2. Stacked(k, n, s, none)
  <2>1. <<>> \in Seq(Elements)
      OBVIOUS
  <2>2. \A i \in 1..(n + 1) : none[i] = <<>>
      OBVIOUS
  <2>3. none \in [1..(n + 1) -> Seq(Elements)]
      BY <2>1
  <2> HIDE DEF none
  <2>4. none[n + 1] = <<>> /\ \A i \in 1..n : none[i] = none[i + 1]
      BY <1>1, <2>2
  <2>5. QED
      BY <2>3, <2>4 DEF Stacked
<1>3. StackOf(k) = none[1]
    BY <1>2, StackIs DEF StackShown
<1>4. QED
    BY <1>1, <1>3

\* The first node of the key has the element on top.
LEMMA StackFirst ==
  ASSUME TypeOK, NEW k, NEW n, NEW s, IsChain(HashOf(k), n, s),
         NEW m \in 1..n, HasKey(k, s[m]), \A i \in 1..n : i < m => ~HasKey(k, s[i]),
         NEW f, Stacked(k, n, s, f)
  PROVE  StackOf(k) = <<heap[s[m]].element>> \o f[m + 1]
<1> DEFINE h == [i \in 1..(n + 1) |-> IF i < m THEN f[m] ELSE f[i]]
<1>1. n \in Nat /\ m \in Nat /\ m \in 1..(n + 1)
    BY DEF IsChain
<1>2. f \in [1..(n + 1) -> Seq(Elements)] /\ f[n + 1] = <<>>
    BY DEF Stacked
<1>3. h \in [1..(n + 1) -> Seq(Elements)]
    BY <1>1, <1>2
<1>4. /\ \A i \in 1..(n + 1) : i < m => h[i] = f[m]
      /\ \A i \in 1..(n + 1) : ~(i < m) => h[i] = f[i]
    OBVIOUS
<1> HIDE DEF h
<1>5. ASSUME NEW i \in 1..n
      PROVE  h[i] = IF HasKey(k, s[i]) THEN <<heap[s[i]].element>> \o h[i + 1] ELSE h[i + 1]
  <2>1. i \in 1..(n + 1) /\ i + 1 \in 1..(n + 1) /\ i \in Nat
      BY <1>1
  <2>2. CASE i < m
    <3>1. ~HasKey(k, s[i]) /\ h[i] = f[m]
        BY <1>4, <2>1, <2>2
    <3>2. h[i + 1] = f[m]
      <4>1. CASE i + 1 < m
          BY <1>4, <2>1, <4>1
      <4>2. CASE ~(i + 1 < m)
        <5>1. i + 1 = m
            BY <1>1, <2>1, <2>2, <4>2
        <5>2. QED
            BY <1>4, <2>1, <4>2, <5>1
      <4>3. QED
          BY <4>1, <4>2
    <3>3. QED
        BY <3>1, <3>2
  <2>3. CASE ~(i < m)
    <3>1. ~(i + 1 < m)
        BY <1>1, <2>1, <2>3
    <3>2. h[i] = f[i] /\ h[i + 1] = f[i + 1]
        BY <1>4, <2>1, <2>3, <3>1
    <3>3. f[i] = IF HasKey(k, s[i]) THEN <<heap[s[i]].element>> \o f[i + 1] ELSE f[i + 1]
        BY DEF Stacked
    <3>4. CASE HasKey(k, s[i])
        BY <3>2, <3>3, <3>4
    <3>5. CASE ~HasKey(k, s[i])
        BY <3>2, <3>3, <3>5
    <3>6. QED
        BY <3>4, <3>5
  <2>4. QED
      BY <2>2, <2>3
<1>6. h[n + 1] = <<>>
  <2>1. n + 1 \in 1..(n + 1) /\ ~(n + 1 < m)
      BY <1>1
  <2>2. h[n + 1] = f[n + 1]
      BY <1>4, <2>1
  <2>3. QED
      BY <1>2, <2>2
<1>7. Stacked(k, n, s, h)
    BY <1>3, <1>5, <1>6 DEF Stacked
<1>8. StackOf(k) = h[1]
    BY <1>7, StackIs DEF StackShown
<1>9. h[1] = f[m]
    BY <1>1, <1>4
<1>10. f[m] = <<heap[s[m]].element>> \o f[m + 1]
    BY DEF Stacked
<1>11. QED
    BY <1>8, <1>9, <1>10

\* The list without its m-th node: the nodes behind move up.
LEMMA StackWithout ==
  ASSUME TypeOK, TypeOK', NEW k, NEW n, NEW s, NEW m \in 1..n, Keeps(n, s),
         IsChain(HashOf(k), n, s), IsChain(HashOf(k), n - 1, Without(m, n, s))',
         HasKey(k, s[m]) => \A i \in 1..n : i < m => ~HasKey(k, s[i])
  PROVE  /\ ~HasKey(k, s[m]) => StackOf(k)' = StackOf(k)
         /\ HasKey(k, s[m]) => StackOf(k) # <<>> /\ StackOf(k)' = Tail(StackOf(k))
<1>1. PICK f : Stacked(k, n, s, f) /\ StackOf(k) = f[1]
    BY StackOfChain
<1>a. PICK found \in BOOLEAN : found = HasKey(k, s[m])
    BY DEF HasKey
<1> DEFINE g == [i \in 1..n |-> IF i < m THEN (IF found THEN f[m + 1] ELSE f[i])
                               ELSE f[i + 1]]
           r == Without(m, n, s)
<1>2. n \in Nat /\ n - 1 \in Nat /\ m \in Nat /\ n - 1 + 1 = n
      /\ \A i \in 1..n : i \in 1..(n + 1) /\ i + 1 \in 1..(n + 1) /\ i \in Nat
    BY DEF IsChain
<1>3. f \in [1..(n + 1) -> Seq(Elements)] /\ f[n + 1] = <<>>
    BY <1>1 DEF Stacked
<1>4. g \in [1..n -> Seq(Elements)]
  <2>1. \A i \in 1..n : g[i] \in Seq(Elements)
      BY <1>2, <1>3
  <2>2. QED
      BY <2>1
<1>5. /\ \A i \in 1..n : i < m => g[i] = IF HasKey(k, s[m]) THEN f[m + 1] ELSE f[i]
      /\ \A i \in 1..n : ~(i < m) => g[i] = f[i + 1]
    BY <1>a
<1>6. /\ \A i \in 1..(n - 1) : i < m => r[i] = s[i]
      /\ \A i \in 1..(n - 1) : ~(i < m) => r[i] = s[i + 1]
    BY <1>2 DEF Without
<1>7. \A i \in 1..n : f[i] = IF HasKey(k, s[i]) THEN <<heap[s[i]].element>> \o f[i + 1]
                             ELSE f[i + 1]
    BY <1>1 DEF Stacked
<1> HIDE DEF g, r
<1>8. g[n] = <<>>
  <2>1. n \in 1..n /\ ~(n < m)
      BY <1>2
  <2>2. QED
      BY <1>3, <1>5, <2>1
<1>9. ASSUME NEW i \in 1..(n - 1)
      PROVE  g[i] = IF HasKey(k, r[i]) THEN <<heap[r[i]].element>> \o g[i + 1] ELSE g[i + 1]
  <2>1. i \in 1..n /\ i + 1 \in 1..n /\ i \in Nat
      BY <1>2
  <2>2. CASE ~(i < m)
    <3>1. g[i] = f[i + 1] /\ g[i + 1] = f[i + 1 + 1] /\ r[i] = s[i + 1]
        BY <1>2, <1>5, <1>6, <2>1, <2>2
    <3>2. CASE HasKey(k, s[i + 1])
        BY <1>7, <2>1, <3>1, <3>2
    <3>3. CASE ~HasKey(k, s[i + 1])
        BY <1>7, <2>1, <3>1, <3>3
    <3>4. QED
        BY <3>2, <3>3
  <2>3. CASE i < m /\ HasKey(k, s[m])
    <3>1. r[i] = s[i] /\ ~HasKey(k, s[i]) /\ g[i] = f[m + 1]
        BY <1>5, <1>6, <2>1, <2>3
    <3>2. CASE i + 1 < m
      <4>1. g[i + 1] = f[m + 1]
          BY <1>5, <2>1, <2>3, <3>2
      <4>2. QED
          BY <3>1, <4>1
    <3>3. CASE ~(i + 1 < m)
      <4>1. i + 1 = m
          BY <1>2, <2>1, <2>3, <3>3
      <4>2. g[i + 1] = f[m + 1]
          BY <1>5, <2>1, <3>3, <4>1
      <4>3. QED
          BY <3>1, <4>2
    <3>4. QED
        BY <3>2, <3>3
  <2>4. CASE i < m /\ ~HasKey(k, s[m])
    <3>1. r[i] = s[i] /\ g[i] = f[i]
        BY <1>5, <1>6, <2>1, <2>4
    <3>2. g[i + 1] = f[i + 1]
      <4>1. CASE i + 1 < m
          BY <1>5, <2>1, <2>4, <4>1
      <4>2. CASE ~(i + 1 < m)
        <5>1. i + 1 = m
            BY <1>2, <2>1, <2>4, <4>2
        <5>2. g[i + 1] = f[m + 1] /\ f[m] = f[m + 1]
            BY <1>5, <1>7, <2>1, <2>4, <4>2, <5>1
        <5>3. QED
            BY <5>1, <5>2
      <4>3. QED
          BY <4>1, <4>2
    <3>3. CASE HasKey(k, s[i])
        BY <1>7, <2>1, <3>1, <3>2, <3>3
    <3>4. CASE ~HasKey(k, s[i])
        BY <1>7, <2>1, <3>1, <3>2, <3>4
    <3>5. QED
        BY <3>3, <3>4
  <2>5. QED
      BY <2>2, <2>3, <2>4
<1>10. ASSUME NEW i \in 1..(n - 1)
       PROVE  heap'[r[i]].key = heap[r[i]].key /\ heap'[r[i]].element = heap[r[i]].element
  <2>1. CASE i < m
      BY <1>2, <1>6, <2>1 DEF Keeps
  <2>2. CASE ~(i < m)
    <3>1. r[i] = s[i + 1] /\ i + 1 \in 1..n
        BY <1>2, <1>6, <2>2
    <3>2. QED
        BY <3>1 DEF Keeps
  <2>3. QED
      BY <2>1, <2>2
<1>11. ASSUME NEW q, q = n - 1 PROVE Stacked(k, q, r, g)'
  <2>1. g \in [1..(q + 1) -> Seq(Elements)] /\ g[q + 1] = <<>>
      BY <1>2, <1>4, <1>8, <1>11
  <2>2. \A i \in 1..q :
          g[i] = IF HasKey(k, r[i])' THEN <<heap'[r[i]].element>> \o g[i + 1] ELSE g[i + 1]
      BY <1>9, <1>10, <1>11 DEF HasKey
  <2>3. QED
      BY <2>1, <2>2 DEF Stacked
<1>12. StackOf(k)' = g[1]
  <2>1. PICK q : q = n - 1
      OBVIOUS
  <2>2. IsChain(HashOf(k), q, r)' /\ Stacked(k, q, r, g)'
      BY <1>11, <2>1 DEF r
  <2>3. QED
      BY <2>2, StackNextIs
<1>13. CASE HasKey(k, s[m])
  <2>1. StackOf(k) = <<heap[s[m]].element>> \o f[m + 1]
      BY <1>1, <1>13, StackFirst
  <2>2. heap[s[m]].element \in Elements /\ f[m + 1] \in Seq(Elements)
    <3>1. s[m] \in Addr
        BY DEF IsChain
    <3>2. heap[s[m]].element \in Element \cup {NULL}
        BY <3>1 DEF TypeOK
    <3>3. QED
        BY <1>2, <1>3, <3>2 DEF Elements
  <2>3. StackOf(k) # <<>> /\ Tail(StackOf(k)) = f[m + 1]
      BY <2>1, <2>2, TopOfStack
  <2>4. g[1] = f[m + 1]
    <3>1. CASE 1 < m
        BY <1>2, <1>5, <1>13, <3>1
    <3>2. CASE ~(1 < m)
      <4>1. m = 1 /\ 1 \in 1..n
          BY <1>2, <3>2
      <4>2. QED
          BY <1>5, <3>2, <4>1
    <3>3. QED
        BY <3>1, <3>2
  <2>5. QED
      BY <1>12, <1>13, <2>3, <2>4
<1>14. CASE ~HasKey(k, s[m])
  <2>1. g[1] = f[1]
    <3>1. CASE 1 < m
        BY <1>2, <1>5, <1>14, <3>1
    <3>2. CASE ~(1 < m)
      <4>1. m = 1 /\ 1 \in 1..n
          BY <1>2, <3>2
      <4>2. QED
        <5>1. g[1] = f[1 + 1]
            BY <1>5, <3>2, <4>1
        <5>2. f[1] = f[1 + 1]
            BY <1>7, <1>14, <4>1
        <5>3. QED
            BY <5>1, <5>2
    <3>3. QED
        BY <3>1, <3>2
  <2>2. QED
      BY <1>1, <1>12, <1>14, <2>1
<1>15. QED
    BY <1>13, <1>14

-----------------------------------------------------------------------------
(* What the refinement needs to know of the calls.                         *)

\* A walker at the i-th place of its list found its key at none before.
Passed(t, n, s) ==
  \E i \in 1..(n + 1) :
    /\ curr_node[t] = Entry(n, s, i)
    /\ \A j \in 1..n : j < i => ~HasKey(args[t].key, s[j])

Walked ==
  \A t \in Thread :
    pc[t] = "walk" => Passed(t, Len(Chain(hash_key(t))), Chain(hash_key(t)))

Over == {"release", "free", "return"}

\* A call knows its result when it took effect, a thread without one knows none.
Frame(t) ==
  /\ pc[t] = "idle" => args[t] = NoCall
  /\ pc[t] \notin Over => element[t] = NULL

\* A new node holds what it was made for.
Filled(t) ==
  args[t].op = "insert" /\ pc[t] \in {"acquire", "next", "link"} =>
    heap[curr_node[t]].element = args[t].element

StoreInv == ChainInv /\ Walked /\ \A t \in Thread : Frame(t) /\ Filled(t)

LEMMA ListOf ==
  ASSUME Chained, NEW k \in Key
  PROVE  IsChain(HashOf(k), Len(Chain(HashOf(k))), Chain(HashOf(k)))
BY HashInBucket DEF Chained

\* Linked nodes keep their keys and elements.
LEMMA FieldsStay ==
  ASSUME HashInv, NEW t \in Thread, Step(t), NEW a \in Linked
  PROVE  heap'[a].key = heap[a].key /\ heap'[a].element = heap[a].element
<1>1. CASE QuietAction(t)
    BY <1>1, QuietKeeps
<1>2. CASE (\E x \in Addr : Malloc(t, x)) \/ SetNext(t) \/ Free(t)
    BY <1>2, NodeKeeps
<1>3. CASE Link(t)
    BY <1>3 DEF Link
<1>4. CASE UnlinkHead(t) \/ Unlink(t)
  <2>1. heap \in [Addr -> Nodes] /\ a \in Addr
      BY DEF HashInv, LockInv, TypeOK, Linked, Nodes
  <2>2. heap' = heap \/ \E p \in Addr : \E q : heap' = [heap EXCEPT ![p].next = q]
      BY <1>4, UnlinkChanges
  <2>3. QED
      BY <2>1, <2>2 DEF Nodes
<1>5. QED
    BY <1>1, <1>2, <1>3, <1>4 DEF Step, QuietAction

\* Who is inside a bucket finds its list unchanged by the others.
LEMMA OthersList ==
  ASSUME HashInv, TypeOK', Chained, NEW t \in Thread, Step(t),
         NEW u \in Thread, u # t, Inside(u), NEW b \in Bucket, b = hash_key(u)
  PROVE  Chain(b)' = Chain(b)
<1>1. CASE QuietAction(t)
  <2>1. UNCHANGED <<Linked, head, heap>>
      BY <1>1, QuietKeeps
  <2>2. QED
      BY <2>1, ChainsStay
<1>2. CASE (\E x \in Addr : Malloc(t, x)) \/ SetNext(t) \/ Free(t)
    BY <1>2, NodeKeeps, ChainsStay
<1>3. CASE Link(t) \/ UnlinkHead(t) \/ Unlink(t)
  <2>1. Inside(t)
      BY <1>3 DEF Inside, Link, UnlinkHead, Unlink, Goto
  <2>2. hash_key(t) # hash_key(u)
      BY <2>1 DEF HashInv, LockInv, BucketExclusion
  <2>3. CASE Link(t)
      BY <2>2, <2>3, LinkChain
  <2>4. CASE UnlinkHead(t) \/ Unlink(t)
    <3>1. hash_key(t) \in Bucket /\ curr_node[t] \in Linked /\ Home(curr_node[t]) = hash_key(t)
        BY <2>4, UnlinkChanges
    <3>2. PICK m \in 1..Len(Chain(hash_key(t))) : Chain(hash_key(t))[m] = curr_node[t]
        BY <3>1 DEF Chained, IsChain
    <3>3. QED
        BY <2>2, <2>4, <3>2, UnlinkChain
  <2>5. QED
      BY <1>3, <2>3, <2>4
<1>4. QED
    BY <1>1, <1>2, <1>3 DEF Step, QuietAction

LEMMA FramesInit == Init => \A t \in Thread : Frame(t) /\ Filled(t) /\ pc[t] # "walk"
BY DEF Init, Frame, Filled, NoCall

LEMMA FramesStep ==
  ASSUME HashInv, NEW t \in Thread, Step(t), \A u \in Thread : Frame(u) /\ Filled(u)
  PROVE  \A u \in Thread : Frame(u)' /\ Filled(u)'
<1>1. TypeOK /\ Calls /\ Hands
    BY DEF HashInv, LockInv
<1>2. ASSUME NEW u \in Thread, u # t
      PROVE  /\ pc'[u] = pc[u] /\ args'[u] = args[u]
             /\ curr_node'[u] = curr_node[u] /\ prev_node'[u] = prev_node[u]
             /\ element'[u] = element[u]
  <2>1. element'[u] = element[u]
      BY <1>1, <1>2
      DEF TypeOK, Step, Call, Malloc, MallocFails, SetNext, Link, UnlinkHead, Unlink, Free,
          Found, LoadHead, WalkOn, WalkEnds, Acquire, Release, Return
  <2>2. QED
      BY <1>1, <1>2, <2>1, OthersStay
<1>3. Frame(t)'
  <2>1. Frame(t)
      OBVIOUS
  <2>2. CASE \E o \in Op, k \in Key, e \in Element \cup {NULL} : Call(t, o, k, e)
      BY <1>1, <2>1, <2>2 DEF TypeOK, Frame, Call, Goto, Over
  <2>3. CASE (\E a \in Addr : Malloc(t, a)) \/ MallocFails(t) \/ SetNext(t) \/ Link(t)
      BY <1>1, <2>1, <2>3 DEF TypeOK, Frame, Malloc, MallocFails, SetNext, Link, Goto, Over
  <2>4. CASE UnlinkHead(t) \/ Unlink(t) \/ Free(t) \/ Found(t)
      BY <1>1, <2>1, <2>4 DEF TypeOK, Frame, UnlinkHead, Unlink, Free, Found, Goto, Over
  <2>5. CASE LoadHead(t) \/ WalkOn(t) \/ WalkEnds(t) \/ Acquire(t)
      BY <1>1, <2>1, <2>5 DEF TypeOK, Frame, LoadHead, WalkOn, WalkEnds, Acquire, Goto, Over
  <2>6. CASE Release(t)
      BY <1>1, <2>1, <2>6 DEF TypeOK, Frame, Release, Goto, Over
  <2>7. CASE Return(t)
      BY <1>1, <2>1, <2>7 DEF TypeOK, Frame, Return, Goto, Over
  <2>8. QED
      BY <2>2, <2>3, <2>4, <2>5, <2>6, <2>7 DEF Step
<1>4. ASSUME NEW u \in Thread, u # t PROVE Frame(u)'
    BY <1>2, <1>4 DEF Frame
<1>5. ASSUME NEW u \in Thread, ~Malloc(t, curr_node'[u]), Filled(u),
             args'[u].op = "insert", pc'[u] \in {"acquire", "next", "link"},
             /\ curr_node'[u] = curr_node[u] /\ args'[u] = args[u]
             /\ pc[u] \in {"acquire", "next", "link"}
      PROVE  heap'[curr_node'[u]].element = args'[u].element
  <2>1. InFlight(u) /\ curr_node[u] \in used /\ used \subseteq Addr
      BY <1>1, <1>5 DEF InFlight, Hands, TypeOK
  <2>2. heap'[curr_node[u]].element = heap[curr_node[u]].element
    <3>1. PICK c \in Addr : c = curr_node[u]
        BY <2>1
    <3>2. heap \in [Addr -> Nodes] /\ ~Malloc(t, c)
        BY <1>1, <1>5, <3>1 DEF TypeOK, Nodes
    <3>3. CASE \E a \in Addr : Malloc(t, a)
        BY <3>1, <3>2, <3>3 DEF Malloc, Nodes
    <3>4. CASE SetNext(t) \/ Unlink(t) \/ Free(t)
        BY <3>1, <3>2, <3>4 DEF SetNext, Unlink, Free, Nodes
    <3>5. CASE heap' = heap
        BY <3>5
    <3>6. QED
        BY <3>3, <3>4, <3>5
        DEF Step, Call, MallocFails, Link, UnlinkHead, Found, LoadHead, WalkOn, WalkEnds,
            Acquire, Release, Return
  <2>3. QED
      BY <1>5, <2>2 DEF Filled
<1>6. ASSUME NEW u \in Thread, u # t PROVE Filled(u)'
  <2>1. SUFFICES ASSUME args'[u].op = "insert", pc'[u] \in {"acquire", "next", "link"}
                 PROVE  heap'[curr_node'[u]].element = args'[u].element
      BY DEF Filled
  <2>2. InFlight(u) /\ curr_node[u] \in used
      BY <1>1, <1>2, <1>6, <2>1 DEF InFlight, Hands
  <2>3. ~Malloc(t, curr_node'[u])
      BY <1>2, <1>6, <2>2 DEF Malloc
  <2>4. QED
      BY <1>2, <1>5, <1>6, <2>1, <2>3
<1>7. Filled(t)'
  <2>1. SUFFICES ASSUME args'[t].op = "insert", pc'[t] \in {"acquire", "next", "link"}
                 PROVE  heap'[curr_node'[t]].element = args'[t].element
      BY DEF Filled
  <2>2. CASE \E a \in Addr : Malloc(t, a)
    <3>1. PICK a \in Addr : Malloc(t, a)
        BY <2>2
    <3>2. heap \in [Addr -> Nodes] /\ curr_node' = [curr_node EXCEPT ![t] = a] /\ args' = args
          /\ heap' = [heap EXCEPT ![a].key = args[t].key, ![a].element = args[t].element]
        BY <1>1, <3>1 DEF TypeOK, Nodes, Malloc
    <3>3. curr_node'[t] = a
        BY <1>1, <3>2 DEF TypeOK
    <3>4. heap'[a].element = args[t].element
        BY <3>2 DEF Nodes
    <3>5. QED
        BY <3>2, <3>3, <3>4
  <2>3. CASE SetNext(t) \/ Acquire(t)
    <3>1. /\ curr_node'[t] = curr_node[t] /\ args'[t] = args[t]
          /\ pc[t] \in {"acquire", "next", "link"} /\ ~Malloc(t, curr_node'[t])
        BY <2>3 DEF SetNext, Acquire, Malloc, Goto
    <3>2. QED
        BY <1>5, <2>1, <3>1
  <2>4. CASE ~(\E a \in Addr : Malloc(t, a)) /\ ~SetNext(t) /\ ~Acquire(t)
    <3>1. CASE \E o \in Op, k \in Key, e \in Element \cup {NULL} : Call(t, o, k, e)
        BY <1>1, <2>1, <3>1 DEF TypeOK, Call, Goto
    <3>2. CASE ~\E o \in Op, k \in Key, e \in Element \cup {NULL} : Call(t, o, k, e)
        BY <1>1, <2>1, <2>4, <3>2
        DEF TypeOK, Step, Goto, MallocFails, Link, UnlinkHead, Unlink, Free, Found, LoadHead,
            WalkOn, WalkEnds, Release, Return
    <3>3. QED
        BY <3>1, <3>2
  <2>5. QED
      BY <2>2, <2>3, <2>4
<1>8. QED
    BY <1>3, <1>4, <1>6, <1>7

LEMMA WalkedStep ==
  ASSUME HashInv, TypeOK', Chained, Walked, NEW t \in Thread, Step(t)
  PROVE  Walked'
<1> SUFFICES ASSUME NEW u \in Thread, pc'[u] = "walk"
             PROVE  Passed(u, Len(Chain(hash_key(u))), Chain(hash_key(u)))'
    BY DEF Walked
<1>1. TypeOK /\ Calls
    BY DEF HashInv, LockInv
<1>2. ASSUME pc[u] \in {"head", "walk"}, args'[u] = args[u],
             NEW b, b = hash_key(u), Chain(b)' = Chain(b),
             NEW n, NEW s, n = Len(Chain(b)), s = Chain(b),
             NEW i \in 1..(n + 1), curr_node'[u] = Entry(n, s, i),
             \A j \in 1..n : j < i => ~HasKey(args[u].key, s[j])
      PROVE  Passed(u, Len(Chain(hash_key(u))), Chain(hash_key(u)))'
  <2>1. hash_key(u)' = b
      BY <1>2 DEF hash_key
  <2>2. Chain(hash_key(u))' = s /\ Len(Chain(hash_key(u)))' = n
    <3>1. Chain(hash_key(u))' = Chain(b)'
        BY <2>1
    <3>2. QED
        BY <1>2, <2>1
  <2>3. b \in Bucket
      BY <1>1, <1>2, HashInBucket DEF Calls, hash_key
  <2>4. \A j \in 1..n : s[j] \in Linked
      BY <1>2, <2>3 DEF Chained, IsChain
  <2>5. \A j \in 1..n : j < i => ~HasKey(args[u].key, s[j])'
      BY <1>2, <2>4, FieldsStay DEF HasKey
  <2>6. Passed(u, n, s)'
      BY <1>2, <2>5 DEF Passed
  <2>7. QED
      BY <2>2, <2>6
<1>3. CASE u # t
  <2>1. pc[u] = "walk" /\ args'[u] = args[u] /\ curr_node'[u] = curr_node[u]
      BY <1>1, <1>3, OthersStay
  <2>2. PICK b : b = hash_key(u)
      OBVIOUS
  <2>3. b \in Bucket /\ Inside(u)
      BY <1>1, <2>1, <2>2, HashInBucket DEF Calls, hash_key, Inside
  <2>4. Chain(b)' = Chain(b)
      BY <1>3, <2>2, <2>3, OthersList
  <2>5. PICK n, s : n = Len(Chain(b)) /\ s = Chain(b)
      OBVIOUS
  <2>6. Passed(u, n, s)
      BY <2>1, <2>2, <2>5 DEF Walked
  <2>7. QED
      BY <1>2, <2>1, <2>2, <2>4, <2>5, <2>6 DEF Passed
<1>4. CASE u = t
  <2>1. LoadHead(t) \/ WalkOn(t)
      BY <1>1, <1>4
      DEF TypeOK, Step, Goto, Call, Malloc, MallocFails, SetNext, Link, UnlinkHead, Unlink,
          Free, Found, LoadHead, WalkOn, WalkEnds, Acquire, Release, Return
  <2>2. pc[t] \in {"head", "walk"} /\ args'[t] = args[t] /\ QuietAction(t)
      BY <2>1 DEF LoadHead, WalkOn, Goto, QuietAction
  <2>3. PICK b : b = hash_key(t)
      OBVIOUS
  <2>4. b \in Bucket
      BY <1>1, <2>2, <2>3, HashInBucket DEF Calls, hash_key
  <2>5. Chain(b)' = Chain(b)
      BY <2>2, <2>4, QuietKeeps, ChainsStay
  <2>6. PICK n, s : n = Len(Chain(b)) /\ s = Chain(b)
      OBVIOUS
  <2>7. IsChain(b, n, s)
      BY <2>4, <2>6 DEF Chained
  <2>8. n \in Nat
      BY <2>7 DEF IsChain
  <2>9. CASE LoadHead(t)
    <3>1. curr_node'[t] = Entry(n, s, 1)
        BY <1>1, <2>3, <2>7, <2>9 DEF TypeOK, LoadHead, IsChain
    <3>2. 1 \in 1..(n + 1) /\ \A j \in 1..n : ~(j < 1)
        BY <2>8
    <3>3. QED
        BY <1>2, <1>4, <2>2, <2>3, <2>5, <2>6, <3>1, <3>2
  <2>10. CASE WalkOn(t)
    <3>1. /\ pc[t] = "walk" /\ curr_node[t] # NULL /\ ~HasKey(args[t].key, curr_node[t])
          /\ curr_node'[t] = heap[curr_node[t]].next
        BY <1>1, <2>10 DEF TypeOK, WalkOn, Goto, Matches, Here, HasKey
    <3>2. Passed(t, n, s)
        BY <2>3, <2>6, <3>1 DEF Walked
    <3>3. PICK i \in 1..(n + 1) : /\ curr_node[t] = Entry(n, s, i)
                                  /\ \A j \in 1..n : j < i => ~HasKey(args[t].key, s[j])
        BY <3>2 DEF Passed
    <3>4. i \in 1..n /\ curr_node[t] = s[i]
        BY <3>1, <3>3 DEF Entry
    <3>5. curr_node'[t] = Entry(n, s, i + 1)
        BY <2>7, <3>1, <3>4 DEF IsChain
    <3>6. i + 1 \in 1..(n + 1) /\ \A j \in 1..n : j < i + 1 => j < i \/ j = i
        BY <2>8, <3>4
    <3>7. \A j \in 1..n : j < i + 1 => ~HasKey(args[t].key, s[j])
        BY <3>1, <3>3, <3>4, <3>6
    <3>8. QED
        BY <1>2, <1>4, <2>2, <2>3, <2>5, <2>6, <3>5, <3>6, <3>7
  <2>11. QED
      BY <2>1, <2>9, <2>10
<1>5. QED
    BY <1>3, <1>4

LEMMA StoreInvInit == Init => StoreInv
BY ChainInvInit, FramesInit DEF StoreInv, Walked

LEMMA StoreInvStep == StoreInv /\ [Next]_vars => StoreInv'
<1> SUFFICES ASSUME StoreInv, [Next]_vars PROVE StoreInv'
    OBVIOUS
<1>1. HashInv /\ Chained /\ ChainInv' /\ TypeOK'
    BY ChainInvStep DEF StoreInv, ChainInv, HashInv, LockInv
<1>2. ASSUME NEW t \in Thread, Step(t) PROVE StoreInv'
    BY <1>1, <1>2, WalkedStep, FramesStep DEF StoreInv
<1>3. CASE UNCHANGED vars
  <2>1. /\ head' = head /\ heap' = heap /\ pc' = pc /\ args' = args
        /\ curr_node' = curr_node /\ element' = element /\ Linked' = Linked
      BY <1>3 DEF vars, Linked, InFlight
  <2>2. \A b \in Bucket : Chain(b)' = Chain(b)
      BY <1>1, <2>1, ChainsStay
  <2>3. \A t \in Thread : Frame(t)' /\ Filled(t)'
      BY <2>1 DEF StoreInv, Frame, Filled
  <2>4. ASSUME NEW t \in Thread, pc'[t] = "walk"
        PROVE  Passed(t, Len(Chain(hash_key(t))), Chain(hash_key(t)))'
    <3>1. PICK b : b = hash_key(t)
        OBVIOUS
    <3>2. b \in Bucket
        BY <1>1, <2>1, <2>4, <3>1, HashInBucket DEF HashInv, LockInv, Calls, hash_key
    <3>3. PICK n, s : n = Len(Chain(b)) /\ s = Chain(b)
        OBVIOUS
    <3>4. Passed(t, n, s)
        BY <2>1, <2>4, <3>1, <3>3 DEF StoreInv, Walked
    <3>5. Passed(t, n, s)'
        BY <2>1, <3>4 DEF Passed, HasKey
    <3>6. hash_key(t)' = b /\ Chain(b)' = s
        BY <2>1, <2>2, <3>1, <3>2, <3>3 DEF hash_key
    <3>7. Chain(hash_key(t))' = s /\ Len(Chain(hash_key(t)))' = n
      <4>1. Chain(hash_key(t))' = Chain(b)'
          BY <3>6
      <4>2. QED
          BY <3>3, <3>6, <4>1
    <3>8. QED
        BY <3>5, <3>7
  <2>5. QED
      BY <1>1, <2>3, <2>4 DEF StoreInv, Walked
<1>4. QED
    BY <1>2, <1>3, NextIsStep

-----------------------------------------------------------------------------
(* The table is a KeyStore.                                                *)

LEMMA SameListSameStack ==
  ASSUME HashInv, TypeOK', Chained, Chained', NEW t \in Thread, Step(t),
         NEW k \in Key, Chain(HashOf(k))' = Chain(HashOf(k))
  PROVE  StackOf(k)' = StackOf(k)
<1>1. PICK b, n, s : b = HashOf(k) /\ n = Len(Chain(b)) /\ s = Chain(b)
    OBVIOUS
<1>2. b \in Bucket /\ Chain(b)' = s /\ Len(Chain(b))' = n
    BY <1>1, HashInBucket
<1>3. IsChain(b, n, s)
    BY <1>1, <1>2 DEF Chained
<1>4. IsChain(b, n, s)'
  <2>1. IsChain(b, Len(Chain(b)), Chain(b))'
      BY <1>2 DEF Chained
  <2>2. QED
      BY <1>2, <2>1
<1>5. Keeps(n, s)
    BY <1>3, FieldsStay DEF Keeps, IsChain
<1>6. IsChain(HashOf(k), n, s) /\ IsChain(HashOf(k), n, s)'
    BY <1>1, <1>3, <1>4
<1>7. TypeOK
    BY DEF HashInv, LockInv
<1>8. QED
    BY <1>5, <1>6, <1>7, StackStays

LEMMA StacksStay ==
  ASSUME HashInv, TypeOK', Chained, Chained', NEW t \in Thread, Step(t),
         ~Link(t), ~UnlinkHead(t), ~Unlink(t), NEW k \in Key
  PROVE  StackOf(k)' = StackOf(k)
<1>1. CASE QuietAction(t)
  <2>1. UNCHANGED <<Linked, head, heap>>
      BY <1>1, QuietKeeps
  <2>2. QED
      BY <2>1, ChainsStay, HashInBucket, SameListSameStack
<1>2. CASE (\E x \in Addr : Malloc(t, x)) \/ SetNext(t) \/ Free(t)
    BY <1>2, NodeKeeps, ChainsStay, HashInBucket, SameListSameStack
<1>3. QED
    BY <1>1, <1>2 DEF Step, QuietAction

\* Linking a node pushes its element.
LEMMA LinkStacks ==
  ASSUME StoreInv, TypeOK', Chained', NEW t \in Thread, Link(t), NEW k \in Key
  PROVE  StackOf(k)' = IF k = args[t].key THEN <<args[t].element>> \o StackOf(k)
                       ELSE StackOf(k)
<1>1. HashInv /\ Chained /\ TypeOK /\ Calls
    BY DEF StoreInv, ChainInv, HashInv, LockInv
<1>2. PICK b, c : b = hash_key(t) /\ c = curr_node[t]
    OBVIOUS
<1>3. /\ b \in Bucket /\ c \in used /\ heap[c].key = args[t].key /\ args[t].key \in Key
      /\ heap' = heap
    BY <1>1, <1>2, LinkChanges
<1>4. heap[c].element = args[t].element /\ c \in Addr
  <2>1. pc[t] = "link"
      BY DEF Link, Goto
  <2>2. args[t].op = "insert"
      BY <1>1, <2>1 DEF Calls
  <2>3. QED
      BY <1>1, <1>2, <1>3, <2>1, <2>2 DEF StoreInv, Filled, TypeOK
<1>5. PICK n, s : n = Len(Chain(b)) /\ s = Chain(b)
    OBVIOUS
<1>6. /\ Chain(b)' = InFront(c, n, s) /\ Len(Chain(b))' = n + 1
      /\ \A x \in Bucket : x # b => Chain(x)' = Chain(x)
    BY <1>1, <1>2, <1>5, LinkChain
<1>7. HashOf(k) \in Bucket
    BY HashInBucket
<1>8. CASE HashOf(k) = b
  <2>1. IsChain(b, n, s)
      BY <1>1, <1>3, <1>5 DEF Chained
  <2>2. IsChain(b, Len(Chain(b)), Chain(b))'
      BY <1>3 DEF Chained
  <2>3. IsChain(b, n + 1, InFront(c, n, s))'
      BY <1>6, <2>2
  <2>4. IsChain(HashOf(k), n, s) /\ IsChain(HashOf(k), n + 1, InFront(c, n, s))'
      BY <1>8, <2>1, <2>3
  <2>5. StackOf(k)' = IF HasKey(k, c) THEN <<heap[c].element>> \o StackOf(k) ELSE StackOf(k)
      BY <1>1, <1>3, <1>4, <2>4, StackFront
  <2>6. HasKey(k, c) <=> k = args[t].key
      BY <1>3 DEF HasKey
  <2>7. QED
      BY <1>4, <2>5, <2>6
<1>9. CASE HashOf(k) # b
  <2>1. k # args[t].key
      BY <1>2, <1>9 DEF hash_key
  <2>2. Chain(HashOf(k))' = Chain(HashOf(k))
      BY <1>6, <1>7, <1>9
  <2>3. Step(t)
      BY DEF Step
  <2>4. StackOf(k)' = StackOf(k)
      BY <1>1, <2>2, <2>3, SameListSameStack
  <2>5. QED
      BY <2>1, <2>4
<1>10. QED
    BY <1>8, <1>9

\* A walker that stands on its key stands on the first node of it.
LEMMA FirstOfKey ==
  ASSUME StoreInv, NEW t \in Thread, pc[t] = "walk", Matches(t),
         NEW b, b = hash_key(t), NEW n, NEW s, n = Len(Chain(b)), s = Chain(b)
  PROVE  \E m \in 1..n : /\ s[m] = curr_node[t] /\ HasKey(args[t].key, s[m])
                         /\ \A j \in 1..n : j < m => ~HasKey(args[t].key, s[j])
<1>1. Passed(t, n, s)
    BY DEF StoreInv, Walked
<1>2. PICK i \in 1..(n + 1) : /\ curr_node[t] = Entry(n, s, i)
                              /\ \A j \in 1..n : j < i => ~HasKey(args[t].key, s[j])
    BY <1>1 DEF Passed
<1>3. curr_node[t] # NULL /\ heap[curr_node[t]].key = args[t].key
    BY DEF Matches, Here
<1>4. i \in 1..n /\ s[i] = curr_node[t]
    BY <1>2, <1>3 DEF Entry
<1>5. QED
    BY <1>2, <1>3, <1>4 DEF HasKey

\* Unlinking a node pops its element.
LEMMA UnlinkStacks ==
  ASSUME StoreInv, TypeOK', Chained', NEW t \in Thread, UnlinkHead(t) \/ Unlink(t),
         NEW k \in Key
  PROVE  IF k = args[t].key THEN StackOf(k) # <<>> /\ StackOf(k)' = Tail(StackOf(k))
         ELSE StackOf(k)' = StackOf(k)
<1>1. HashInv /\ Chained /\ TypeOK /\ Calls
    BY DEF StoreInv, ChainInv, HashInv, LockInv
<1>2. PICK b, c, key : b = hash_key(t) /\ c = curr_node[t] /\ key = args[t].key
    OBVIOUS
<1>3. b \in Bucket /\ pc[t] = "walk" /\ Matches(t) /\ Step(t)
    BY <1>1, <1>2, UnlinkChanges DEF UnlinkHead, Unlink, Goto, Step
<1>4. PICK n, s : n = Len(Chain(b)) /\ s = Chain(b)
    OBVIOUS
<1>5. PICK m \in 1..n : /\ s[m] = c /\ HasKey(key, s[m])
                        /\ \A j \in 1..n : j < m => ~HasKey(key, s[j])
    BY <1>2, <1>3, <1>4, FirstOfKey
<1>6. /\ Chain(b)' = Without(m, n, s) /\ Len(Chain(b))' = n - 1
      /\ \A x \in Bucket : x # b => Chain(x)' = Chain(x)
    BY <1>1, <1>2, <1>4, <1>5, UnlinkChain
<1>7. HashOf(k) \in Bucket
    BY HashInBucket
<1>8. CASE HashOf(k) = b
  <2>1. IsChain(b, n, s)
      BY <1>1, <1>3, <1>4 DEF Chained
  <2>2. IsChain(b, Len(Chain(b)), Chain(b))'
      BY <1>3 DEF Chained
  <2>3. IsChain(b, n - 1, Without(m, n, s))'
      BY <1>6, <2>2
  <2>4. IsChain(HashOf(k), n, s) /\ IsChain(HashOf(k), n - 1, Without(m, n, s))'
      BY <1>8, <2>1, <2>3
  <2>5. Keeps(n, s)
      BY <1>1, <1>3, <2>1, FieldsStay DEF Keeps, IsChain
  <2>6. HasKey(k, s[m]) <=> k = key
      BY <1>5 DEF HasKey
  <2>7. HasKey(k, s[m]) => \A i \in 1..n : i < m => ~HasKey(k, s[i])
      BY <1>5, <2>6
  <2>8. /\ ~HasKey(k, s[m]) => StackOf(k)' = StackOf(k)
        /\ HasKey(k, s[m]) => StackOf(k) # <<>> /\ StackOf(k)' = Tail(StackOf(k))
      BY <1>1, <2>4, <2>5, <2>7, StackWithout
  <2>9. QED
      BY <1>2, <2>6, <2>8
<1>9. CASE HashOf(k) # b
  <2>1. k # args[t].key
      BY <1>2, <1>9 DEF hash_key
  <2>2. Chain(HashOf(k))' = Chain(HashOf(k))
      BY <1>6, <1>7, <1>9
  <2>3. StackOf(k)' = StackOf(k)
      BY <1>1, <1>3, <2>2, SameListSameStack
  <2>4. QED
      BY <2>1, <2>3
<1>10. QED
    BY <1>8, <1>9

\* A lookup that stands on its key reads the element on top.
LEMMA FoundTop ==
  ASSUME StoreInv, NEW t \in Thread, pc[t] = "walk", Matches(t)
  PROVE  LET top == StackOf(args[t].key) IN top # <<>> /\ Head(top) = Here(t).element
<1>1. Chained /\ TypeOK /\ Calls
    BY DEF StoreInv, ChainInv, HashInv, LockInv
<1>2. PICK b, key : b = hash_key(t) /\ key = args[t].key
    OBVIOUS
<1>3. key \in Key /\ b = HashOf(key) /\ b \in Bucket
    BY <1>1, <1>2, HashInBucket DEF Calls, hash_key
<1>4. PICK n, s : n = Len(Chain(b)) /\ s = Chain(b)
    OBVIOUS
<1>5. IsChain(HashOf(key), n, s)
    BY <1>1, <1>3, <1>4 DEF Chained
<1>6. PICK m \in 1..n : /\ s[m] = curr_node[t] /\ HasKey(key, s[m])
                        /\ \A j \in 1..n : j < m => ~HasKey(key, s[j])
    BY <1>2, <1>4, FirstOfKey
<1>7. PICK f : Stacked(key, n, s, f)
    BY <1>1, <1>5, StackOfChain
<1>8. StackOf(key) = <<heap[s[m]].element>> \o f[m + 1]
    BY <1>1, <1>5, <1>6, <1>7, StackFirst
<1>9. heap[s[m]].element \in Elements /\ f[m + 1] \in Seq(Elements)
  <2>1. s[m] \in Addr /\ n \in Nat
      BY <1>5 DEF IsChain
  <2>2. heap[s[m]].element \in Element \cup {NULL}
      BY <1>1, <2>1 DEF TypeOK
  <2>3. QED
      BY <1>7, <2>1, <2>2 DEF Elements, Stacked
<1>10. QED
    BY <1>2, <1>6, <1>8, <1>9, TopOfStack DEF Here

\* A walker at the end has no node of its key in the list.
LEMMA EndsEmpty ==
  ASSUME StoreInv, NEW t \in Thread, pc[t] = "walk", curr_node[t] = NULL
  PROVE  StackOf(args[t].key) = <<>>
<1>1. Chained /\ TypeOK /\ Calls
    BY DEF StoreInv, ChainInv, HashInv, LockInv
<1>2. PICK b, key : b = hash_key(t) /\ key = args[t].key
    OBVIOUS
<1>3. key \in Key /\ b = HashOf(key) /\ b \in Bucket
    BY <1>1, <1>2, HashInBucket DEF Calls, hash_key
<1>4. PICK n, s : n = Len(Chain(b)) /\ s = Chain(b)
    OBVIOUS
<1>5. IsChain(HashOf(key), n, s)
    BY <1>1, <1>3, <1>4 DEF Chained
<1>6. PICK i \in 1..(n + 1) : /\ curr_node[t] = Entry(n, s, i)
                              /\ \A j \in 1..n : j < i => ~HasKey(key, s[j])
    BY <1>2, <1>4 DEF StoreInv, Walked, Passed
<1>7. n \in Nat /\ \A j \in 1..n : s[j] # NULL
    BY <1>1, <1>5, HashAssumption DEF IsChain, Linked, TypeOK
<1>8. i \notin 1..n
    BY <1>6, <1>7 DEF Entry
<1>9. \A j \in 1..n : ~HasKey(key, s[j])
    BY <1>6, <1>7, <1>8
<1>10. QED
    BY <1>1, <1>2, <1>5, <1>9, StackEmpty

\* The record that a KeyStore keeps of a call.
Shown(o, k, e, d, r) == [op |-> o, key |-> k, element |-> e, done |-> d, result |-> r]

LEMMA ShownFields ==
  ASSUME NEW o, NEW k, NEW e, NEW d, NEW r
  PROVE  LET x == Shown(o, k, e, d, r)
             fields == {"op", "key", "element", "done", "result"}
         IN  /\ x = [f \in fields |-> x[f]] /\ DOMAIN x = fields
             /\ x.op = o /\ x.key = k /\ x.element = e /\ x.done = d /\ x.result = r
BY DEF Shown

\* What the table shows of its stacks and of its calls.
StackBar == [k \in Key |-> StackOf(k)]
CallOf(t) ==
  Shown(args[t].op, args[t].key, args[t].element, pc[t] \in Over, element[t])
CallBar == [t \in Thread |-> CallOf(t)]

LEMMA CallChanges ==
  ASSUME NEW t \in Thread, NEW c, CallOf(t)' = c,
         \A u \in Thread : u # t => CallOf(u)' = CallOf(u)
  PROVE  CallBar' = [CallBar EXCEPT ![t] = c]
BY DEF CallBar

LEMMA StackKeeps ==
  ASSUME \A k \in Key : StackOf(k)' = StackOf(k)
  PROVE  StackBar' = StackBar
BY DEF StackBar

LEMMA StackChanges ==
  ASSUME NEW k \in Key, NEW q, StackOf(k)' = q,
         \A x \in Key : x # k => StackOf(x)' = StackOf(x)
  PROVE  StackBar' = [StackBar EXCEPT ![k] = q]
BY DEF StackBar

\* The steps of the abstract table, in these terms.
LEMMA BarBegin ==
  ASSUME NEW t \in Thread, NEW o \in Op, NEW k \in Key, NEW e \in Element \cup {NULL},
         CallOf(t) = Store!Idle,
         CallBar' = [CallBar EXCEPT ![t] = [Store!Idle EXCEPT !.op = o, !.key = k,
                                                              !.element = e]],
         StackBar' = StackBar
  PROVE  Store!Next
<1>1. Store!Begin(t, o, k, e)
    BY DEF Store!Begin, CallBar, StackBar, CallOf, Shown, Over
<1>2. QED
    BY <1>1 DEF Store!Next, Store!Op, Op

LEMMA BarInsert ==
  ASSUME NEW t \in Thread, Store!Waits(t, "insert"),
         \/ StackBar' = [StackBar EXCEPT ![CallBar[t].key] = <<CallBar[t].element>> \o @]
         \/ StackBar' = StackBar,
         CallBar' = [CallBar EXCEPT ![t].done = TRUE]
  PROVE  Store!Next
<1>1. Store!Insert(t)
    BY DEF Store!Insert, CallBar, StackBar, CallOf, Shown, Over
<1>2. QED
    BY <1>1 DEF Store!Next

LEMMA BarDelete ==
  ASSUME NEW t \in Thread, Store!Waits(t, "delete"),
         StackBar' = [StackBar EXCEPT ![CallBar[t].key] = IF @ = <<>> THEN @ ELSE Tail(@)],
         CallBar' = [CallBar EXCEPT ![t].done = TRUE]
  PROVE  Store!Next
<1>1. Store!Delete(t)
    BY DEF Store!Delete, CallBar, StackBar, CallOf, Shown, Over
<1>2. QED
    BY <1>1 DEF Store!Next

LEMMA BarLookup ==
  ASSUME NEW t \in Thread, Store!Waits(t, "lookup"), StackBar' = StackBar,
         LET found == StackBar[CallBar[t].key]
         IN  CallBar' = [CallBar EXCEPT ![t].done = TRUE,
                           ![t].result = IF found = <<>> THEN NULL ELSE Head(found)]
  PROVE  Store!Next
<1>1. Store!Lookup(t)
    BY DEF Store!Lookup, CallBar, StackBar, CallOf, Shown, Over
<1>2. QED
    BY <1>1 DEF Store!Next

LEMMA BarReturn ==
  ASSUME NEW t \in Thread, CallOf(t).done, StackBar' = StackBar,
         CallBar' = [CallBar EXCEPT ![t] = Store!Idle]
  PROVE  Store!Next
<1>1. Store!Return(t)
    BY DEF Store!Return, CallBar, StackBar, CallOf, Shown, Over
<1>2. QED
    BY <1>1 DEF Store!Next

LEMMA BarStutter ==
  ASSUME CallBar' = CallBar, StackBar' = StackBar
  PROVE  UNCHANGED Store!vars
BY DEF Store!vars, CallBar, StackBar, CallOf, Shown, Over

\* A record's mark is TRUE or FALSE.
LEMMA CallIs ==
  ASSUME NEW t \in Thread
  PROVE  LET shown(d) == Shown(args[t].op, args[t].key, args[t].element, d, element[t])
         IN  /\ pc[t] \in Over => CallOf(t) = shown(TRUE)
             /\ pc[t] \notin Over => CallOf(t) = shown(FALSE)
<1>1. ASSUME pc[t] \in Over
      PROVE  CallOf(t) = Shown(args[t].op, args[t].key, args[t].element, TRUE, element[t])
  <2>1. (pc[t] \in Over) = TRUE
      BY <1>1
  <2>2. QED
      BY <2>1, Zenon DEF CallOf
<1>2. ASSUME pc[t] \notin Over
      PROVE  CallOf(t) = Shown(args[t].op, args[t].key, args[t].element, FALSE, element[t])
  <2>1. (pc[t] \in Over) = FALSE
      BY <1>2
  <2>2. QED
      BY <2>1, Zenon DEF CallOf
<1>3. QED
    BY <1>1, <1>2, Zenon

CallsShown ==
  \A t \in Thread :
    LET shown(d) == Shown(args[t].op, args[t].key, args[t].element, d, element[t])
    IN  /\ pc[t] \in Over => CallOf(t) = shown(TRUE)
        /\ pc[t] \notin Over => CallOf(t) = shown(FALSE)

LEMMA CallsAre == CallsShown
BY CallIs, Zenon DEF CallsShown

LEMMA NextCallsAre == CallsShown'
BY CallsAre, PTL

LEMMA IdleIs ==
  /\ Store!Idle = Shown("none", NULL, NULL, FALSE, NULL)
  /\ \A o, k, e : [Store!Idle EXCEPT !.op = o, !.key = k, !.element = e] =
                    Shown(o, k, e, FALSE, NULL)
<1> DEFINE fields == {"op", "key", "element", "done", "result"}
<1>1. Store!Idle = Shown("none", NULL, NULL, FALSE, NULL)
    BY Zenon DEF Store!Idle, Shown
<1>2. ASSUME NEW o, NEW k, NEW e
      PROVE  [Store!Idle EXCEPT !.op = o, !.key = k, !.element = e] = Shown(o, k, e, FALSE, NULL)
  <2>1. PICK x, d : x = Store!Idle /\ d = FALSE
      OBVIOUS
  <2>a. x = Shown("none", NULL, NULL, d, NULL)
      BY <1>1, <2>1, Zenon
  <2>2. /\ DOMAIN x = fields /\ x = [f \in fields |-> x[f]]
        /\ x.done = FALSE /\ x.result = NULL
    <3>1. /\ DOMAIN x = fields /\ x = [f \in fields |-> x[f]]
          /\ x.done = d /\ x.result = NULL
        BY <2>a, ShownFields
    <3>2. QED
        BY <2>1, <3>1
  <2> DEFINE z == [x EXCEPT !.op = o, !.key = k, !.element = e]
  <2>3. /\ z = [f \in fields |-> z[f]]
        /\ z.op = o /\ z.key = k /\ z.element = e /\ z.result = NULL
      BY <2>2
  <2>4. z.done = FALSE
      BY <2>2
  <2>5. z = Shown(o, k, e, FALSE, NULL)
    <3> HIDE DEF z
    <3>1. QED
        BY <2>3, <2>4 DEF Shown
  <2>6. QED
      BY <2>1, <2>5
<1>3. QED
    BY <1>1, <1>2

\* What the step of t does to t's call; the others' calls stay.
LEMMA OthersCalls ==
  ASSUME TypeOK, NEW t \in Thread, Step(t), NEW u \in Thread, u # t
  PROVE  CallOf(u)' = CallOf(u)
<1>1. pc'[u] = pc[u] /\ args'[u] = args[u]
    BY OthersStay
<1>2. element'[u] = element[u]
    BY DEF TypeOK, Step, Call, Malloc, MallocFails, SetNext, Link, UnlinkHead, Unlink, Free,
           Found, LoadHead, WalkOn, WalkEnds, Acquire, Release, Return
<1>3. QED
    BY <1>1, <1>2 DEF CallOf

LEMMA CallsStay ==
  ASSUME TypeOK, NEW t \in Thread, Step(t),
         args'[t] = args[t], element'[t] = element[t], pc'[t] \in Over <=> pc[t] \in Over
  PROVE  CallBar' = CallBar
<1>1. CallOf(t)' = CallOf(t)
    BY DEF CallOf, Shown
<1>2. QED
    BY <1>1, OthersCalls DEF CallBar

\* The call of t takes effect with result r.
LEMMA CallTakesEffect ==
  ASSUME TypeOK, NEW t \in Thread, Step(t), NEW r,
         args'[t] = args[t], element'[t] = r, pc[t] \notin Over, pc'[t] \in Over
  PROVE  /\ CallBar' = [CallBar EXCEPT ![t].done = TRUE, ![t].result = r]
         /\ r = element[t] => CallBar' = [CallBar EXCEPT ![t].done = TRUE]
         /\ \A o : args[t].op = o => Store!Waits(t, o)
         /\ CallBar[t].key = args[t].key /\ CallBar[t].element = args[t].element
<1>1. PICK o, k, e, q : o = args[t].op /\ k = args[t].key /\ e = args[t].element /\ q = element[t]
    OBVIOUS
<1>2. CallBar[t] = Shown(o, k, e, FALSE, q)
  <2>1. CallOf(t) = Shown(o, k, e, FALSE, q)
      BY <1>1, CallsAre DEF CallsShown
  <2>2. CallBar[t] = CallOf(t)
      BY DEF CallBar
  <2>3. QED
      BY <2>1, <2>2, Zenon
<1>3. CallOf(t)' = Shown(o, k, e, TRUE, r)
    BY <1>1, NextCallsAre DEF CallsShown
<1>4. CallBar' = [CallBar EXCEPT ![t] = Shown(o, k, e, TRUE, r)]
  <2>1. PICK c : c = Shown(o, k, e, TRUE, r)
      OBVIOUS
  <2>2. CallBar' = [CallBar EXCEPT ![t] = c]
      BY <1>3, <2>1, OthersCalls, CallChanges
  <2>3. QED
      BY <2>1, <2>2, Zenon
<1>5. PICK f, d : f = CallBar /\ d = FALSE
    OBVIOUS
<1>6. f = [u \in Thread |-> f[u]]
    BY <1>5 DEF CallBar
<1> DEFINE fields == {"op", "key", "element", "done", "result"}
<1>7. /\ DOMAIN f[t] = fields /\ f[t] = [x \in fields |-> f[t][x]]
      /\ f[t].op = o /\ f[t].key = k /\ f[t].element = e /\ f[t].result = q
  <2>1. f[t] = Shown(o, k, e, d, q)
      BY <1>2, <1>5, Zenon
  <2>2. QED
      BY <2>1, ShownFields
<1>8. ASSUME NEW z, NEW p, z = [x \in fields |-> z[x]],
             z.op = o /\ z.key = k /\ z.element = e, z.done = TRUE, z.result = p
      PROVE  z = Shown(o, k, e, TRUE, p)
    BY <1>8 DEF Shown
<1>9. [f EXCEPT ![t].done = TRUE] = [f EXCEPT ![t] = Shown(o, k, e, TRUE, q)]
  <2> DEFINE g == [f EXCEPT ![t].done = TRUE]
  <2>1. g = [u \in Thread |-> g[u]] /\ \A u \in Thread : u # t => g[u] = f[u]
      BY <1>6
  <2>2. /\ g[t].op = o /\ g[t].key = k /\ g[t].element = e /\ g[t].result = q
        /\ g[t] = [x \in fields |-> g[t][x]]
      BY <1>6, <1>7
  <2>3. g[t].done = TRUE
      BY <1>6, <1>7
  <2> HIDE DEF g
  <2>4. PICK v : v = Shown(o, k, e, TRUE, q)
      OBVIOUS
  <2>5. g[t] = v
      BY <1>8, <2>2, <2>3, <2>4
  <2>6. g = [f EXCEPT ![t] = v]
      BY <1>6, <2>1, <2>5
  <2>7. QED
      BY <2>4, <2>6 DEF g
<1>10. [f EXCEPT ![t].done = TRUE, ![t].result = r] = [f EXCEPT ![t] = Shown(o, k, e, TRUE, r)]
  <2> DEFINE g == [f EXCEPT ![t].done = TRUE, ![t].result = r]
  <2>1. g = [u \in Thread |-> g[u]] /\ \A u \in Thread : u # t => g[u] = f[u]
      BY <1>6
  <2>2. /\ g[t].op = o /\ g[t].key = k /\ g[t].element = e
        /\ g[t] = [x \in fields |-> g[t][x]]
      BY <1>6, <1>7
  <2>3. g[t].done = TRUE
      BY <1>6, <1>7
  <2>4. g[t].result = r
      BY <1>6, <1>7
  <2> HIDE DEF g
  <2>5. PICK v : v = Shown(o, k, e, TRUE, r)
      OBVIOUS
  <2>6. g[t] = v
      BY <1>8, <2>2, <2>3, <2>4, <2>5
  <2>7. g = [f EXCEPT ![t] = v]
      BY <1>6, <2>1, <2>6
  <2>8. QED
      BY <2>5, <2>7 DEF g
<1>11. CallBar' = [CallBar EXCEPT ![t].done = TRUE, ![t].result = r]
    BY <1>4, <1>5, <1>10, Zenon
<1>12. ASSUME r = element[t] PROVE CallBar' = [CallBar EXCEPT ![t].done = TRUE]
    BY <1>1, <1>4, <1>5, <1>9, <1>12, Zenon
<1>13. \A p : args[t].op = p => Store!Waits(t, p)
    BY DEF Store!Waits, Over
<1>14. CallBar[t].key = args[t].key /\ CallBar[t].element = args[t].element
  <2>1. CallBar[t] = Shown(o, k, e, d, q)
      BY <1>2, <1>5, Zenon
  <2>2. QED
      BY <1>1, <2>1, ShownFields
<1>15. QED
    BY <1>11, <1>12, <1>13, <1>14

LEMMA StoreStep ==
  ASSUME StoreInv, TypeOK', Chained', NEW t \in Thread, Step(t)
  PROVE  Store!Next \/ UNCHANGED Store!vars
<1>1. HashInv /\ Chained /\ TypeOK /\ Calls /\ Frame(t)
    BY DEF StoreInv, ChainInv, HashInv, LockInv
<1>2. ASSUME ~Link(t), ~UnlinkHead(t), ~Unlink(t) PROVE StackBar' = StackBar
    BY <1>1, <1>2, StacksStay, StackKeeps
<1>3. CASE \E o \in Op, k \in Key, e \in Element \cup {NULL} : Call(t, o, k, e)
  <2>1. PICK o \in Op, k \in Key, e \in Element \cup {NULL} : Call(t, o, k, e)
      BY <1>3
  <2>2. /\ pc[t] = "idle" /\ pc'[t] \notin Over /\ element' = element
        /\ args'[t] = [op |-> o, key |-> k, element |-> e]
      BY <1>1, <2>1 DEF Call, Goto, TypeOK, Over
  <2>3. args[t] = NoCall /\ element[t] = NULL
      BY <1>1, <2>2 DEF Frame, Over
  <2>4. CallOf(t) = Store!Idle
    <3>1. CallOf(t) = Shown("none", NULL, NULL, FALSE, NULL)
      <4>1. args[t].op = "none" /\ args[t].key = NULL /\ args[t].element = NULL
          BY <2>3 DEF NoCall
      <4>2. CallOf(t) = Shown(args[t].op, args[t].key, args[t].element, FALSE, element[t])
          BY <2>2, CallsAre DEF CallsShown, Over
      <4>3. QED
          BY <2>3, <4>1, <4>2, Zenon
    <3>2. QED
        BY <3>1, IdleIs, Zenon
  <2>5. CallOf(t)' = [Store!Idle EXCEPT !.op = o, !.key = k, !.element = e]
    <3>1. CallOf(t)' = Shown(o, k, e, FALSE, NULL)
      <4>1. args'[t].op = o /\ args'[t].key = k /\ args'[t].element = e /\ element'[t] = NULL
          BY <2>2, <2>3
      <4>2. CallOf(t)' = Shown(args'[t].op, args'[t].key, args'[t].element, FALSE, element'[t])
          BY <2>2, NextCallsAre DEF CallsShown
      <4>3. QED
          BY <4>1, <4>2, Zenon
    <3>2. QED
        BY <3>1, IdleIs, Zenon
  <2>6. CallBar' = [CallBar EXCEPT ![t] = [Store!Idle EXCEPT !.op = o, !.key = k,
                                                            !.element = e]]
    <3>1. PICK c : c = [Store!Idle EXCEPT !.op = o, !.key = k, !.element = e]
        OBVIOUS
    <3>2. QED
        BY <1>1, <2>5, <3>1, OthersCalls, CallChanges
  <2>7. StackBar' = StackBar
      BY <1>2, <2>1, <2>2 DEF Link, UnlinkHead, Unlink, Goto
  <2>8. QED
      BY <2>4, <2>6, <2>7, BarBegin
<1>4. CASE MallocFails(t)
  <2>1. /\ pc[t] = "malloc" /\ pc'[t] \in Over /\ pc[t] \notin Over
        /\ args'[t] = args[t] /\ element'[t] = element[t]
      BY <1>1, <1>4 DEF MallocFails, Goto, TypeOK, Over
  <2>2. args[t].op = "insert"
      BY <1>1, <2>1 DEF Calls
  <2>3. StackBar' = StackBar
      BY <1>2, <2>1 DEF Link, UnlinkHead, Unlink, Goto
  <2>4. Store!Waits(t, "insert") /\ CallBar' = [CallBar EXCEPT ![t].done = TRUE]
      BY <1>1, <2>1, <2>2, CallTakesEffect
  <2>5. QED
      BY <2>3, <2>4, BarInsert
<1>5. CASE Link(t)
  <2>1. /\ pc[t] = "link" /\ pc'[t] \in Over /\ pc[t] \notin Over
        /\ args'[t] = args[t] /\ element'[t] = element[t]
      BY <1>1, <1>5 DEF Link, Goto, TypeOK, Over
  <2>2. args[t].op = "insert" /\ args[t].key \in Key
      BY <1>1, <2>1 DEF Calls
  <2>3. /\ Store!Waits(t, "insert") /\ CallBar' = [CallBar EXCEPT ![t].done = TRUE]
        /\ CallBar[t].key = args[t].key /\ CallBar[t].element = args[t].element
      BY <1>1, <2>1, <2>2, CallTakesEffect
  <2>4. PICK k \in Key : k = args[t].key
      BY <2>2
  <2>10. PICK q : q = <<args[t].element>> \o StackOf(k)
      OBVIOUS
  <2>5. StackOf(k)' = q /\ \A x \in Key : x # k => StackOf(x)' = StackOf(x)
      BY <1>5, <2>4, <2>10, LinkStacks
  <2>6. StackBar' = [StackBar EXCEPT ![k] = q]
      BY <2>5, StackChanges
  <2>7. StackBar[k] = StackOf(k)
      BY DEF StackBar
  <2>8. StackBar' = [StackBar EXCEPT ![CallBar[t].key] = <<CallBar[t].element>> \o @]
      BY <2>3, <2>4, <2>10, <2>6, <2>7
  <2>9. QED
      BY <2>3, <2>8, BarInsert
<1>6. CASE UnlinkHead(t) \/ Unlink(t)
  <2>1. /\ pc[t] = "walk" /\ pc'[t] \in Over /\ pc[t] \notin Over /\ args[t].op = "delete"
        /\ args'[t] = args[t] /\ element'[t] = element[t]
      BY <1>1, <1>6 DEF UnlinkHead, Unlink, Goto, TypeOK, Over
  <2>2. args[t].key \in Key
      BY <1>1, <2>1 DEF Calls
  <2>3. /\ Store!Waits(t, "delete") /\ CallBar' = [CallBar EXCEPT ![t].done = TRUE]
        /\ CallBar[t].key = args[t].key
      BY <1>1, <2>1, CallTakesEffect
  <2>4. PICK k \in Key : k = args[t].key
      BY <2>2
  <2>10. PICK q : q = Tail(StackOf(k))
      OBVIOUS
  <2>5. StackOf(k) # <<>> /\ StackOf(k)' = q /\ \A x \in Key : x # k => StackOf(x)' = StackOf(x)
      BY <1>6, <2>4, <2>10, UnlinkStacks
  <2>6. StackBar' = [StackBar EXCEPT ![k] = q]
      BY <2>5, StackChanges
  <2>7. StackBar[k] = StackOf(k)
      BY DEF StackBar
  <2>8. StackBar' = [StackBar EXCEPT ![CallBar[t].key] = IF @ = <<>> THEN @ ELSE Tail(@)]
      BY <2>3, <2>4, <2>10, <2>5, <2>6, <2>7
  <2>9. QED
      BY <2>3, <2>8, BarDelete
<1>7. CASE Found(t)
  <2>1. /\ pc[t] = "walk" /\ pc'[t] \in Over /\ pc[t] \notin Over /\ args[t].op = "lookup"
        /\ args'[t] = args[t] /\ Matches(t) /\ element'[t] = Here(t).element
      BY <1>1, <1>7 DEF Found, Goto, TypeOK, Over
  <2>2. PICK k \in Key : k = args[t].key
      BY <1>1, <2>1 DEF Calls
  <2>8. PICK r : r = Here(t).element
      OBVIOUS
  <2>3. StackOf(k) # <<>> /\ Head(StackOf(k)) = r
      BY <2>1, <2>2, <2>8, FoundTop
  <2>4. /\ Store!Waits(t, "lookup") /\ CallBar[t].key = k
        /\ CallBar' = [CallBar EXCEPT ![t].done = TRUE, ![t].result = r]
      BY <1>1, <2>1, <2>2, <2>8, CallTakesEffect
  <2>5. StackBar[k] = StackOf(k)
      BY DEF StackBar
  <2>6. StackBar' = StackBar
      BY <1>2, <2>1, <1>7 DEF Link, UnlinkHead, Unlink, Goto
  <2>7. QED
      BY <2>3, <2>4, <2>5, <2>6, BarLookup
<1>8. CASE WalkEnds(t)
  <2>1. /\ pc[t] = "walk" /\ pc'[t] \in Over /\ pc[t] \notin Over /\ curr_node[t] = NULL
        /\ args'[t] = args[t] /\ element'[t] = element[t] /\ element[t] = NULL
      BY <1>1, <1>8 DEF WalkEnds, Goto, TypeOK, Over, Frame
  <2>2. args[t].op \in {"delete", "lookup"} /\ args[t].key \in Key
      BY <1>1, <2>1 DEF Calls, Op
  <2>3. PICK k \in Key : k = args[t].key
      BY <2>2
  <2>4. StackBar[k] = <<>>
      BY <2>1, <2>3, EndsEmpty DEF StackBar
  <2>5. /\ \A o : args[t].op = o => Store!Waits(t, o)
        /\ CallBar[t].key = k /\ CallBar' = [CallBar EXCEPT ![t].done = TRUE]
        /\ CallBar' = [CallBar EXCEPT ![t].done = TRUE, ![t].result = NULL]
      BY <1>1, <2>1, <2>3, CallTakesEffect
  <2>6. StackBar' = StackBar
      BY <1>2, <2>1, <1>8 DEF Link, UnlinkHead, Unlink, Goto, Matches
  <2>7. CASE args[t].op = "delete"
    <3>1. StackBar' = [StackBar EXCEPT ![CallBar[t].key] = IF @ = <<>> THEN @ ELSE Tail(@)]
        BY <2>4, <2>5, <2>6 DEF StackBar
    <3>2. QED
        BY <2>5, <2>7, <3>1, BarDelete
  <2>8. CASE args[t].op = "lookup"
      BY <2>4, <2>5, <2>6, <2>8, BarLookup
  <2>9. QED
      BY <2>2, <2>7, <2>8
<1>9. CASE Return(t)
  <2>1. /\ pc[t] = "return" /\ pc'[t] = "idle" /\ args'[t] = NoCall /\ element'[t] = NULL
      BY <1>1, <1>9 DEF Return, Goto, TypeOK
  <2>2. CallOf(t).done /\ CallOf(t)' = Store!Idle
    <3>1. CallOf(t)' = Shown("none", NULL, NULL, FALSE, NULL)
      <4>1. args'[t].op = "none" /\ args'[t].key = NULL /\ args'[t].element = NULL
          BY <2>1 DEF NoCall
      <4>2. CallOf(t)' = Shown(args'[t].op, args'[t].key, args'[t].element, FALSE, element'[t])
          BY <2>1, NextCallsAre DEF CallsShown, Over
      <4>3. QED
          BY <2>1, <4>1, <4>2, Zenon
    <3>2. CallOf(t).done
        BY <2>1 DEF CallOf, Shown, Over
    <3>3. QED
        BY <3>1, <3>2, IdleIs, Zenon
  <2>3. CallBar' = [CallBar EXCEPT ![t] = Store!Idle]
    <3>1. PICK c : c = Store!Idle
        OBVIOUS
    <3>2. QED
        BY <1>1, <2>2, <3>1, OthersCalls, CallChanges
  <2>4. StackBar' = StackBar
      BY <1>2, <2>1 DEF Link, UnlinkHead, Unlink, Goto
  <2>5. QED
      BY <2>2, <2>3, <2>4, BarReturn
<1>10. CASE \/ \E a \in Addr : Malloc(t, a)
            \/ SetNext(t) \/ Free(t) \/ LoadHead(t) \/ WalkOn(t) \/ Acquire(t) \/ Release(t)
  <2>1. /\ args'[t] = args[t] /\ element'[t] = element[t]
        /\ (pc'[t] \in Over <=> pc[t] \in Over)
        /\ pc'[t] # "release" /\ ~(pc[t] = "walk" /\ pc'[t] # "walk")
      BY <1>1, <1>10
      DEF Malloc, SetNext, Free, LoadHead, WalkOn, Acquire, Release, Goto, TypeOK, Over
  <2>2. CallBar' = CallBar
      BY <1>1, <2>1, CallsStay
  <2>3. StackBar' = StackBar
      BY <1>1, <1>2, <2>1 DEF Link, UnlinkHead, Unlink, Goto, TypeOK
  <2>4. QED
      BY <2>2, <2>3, BarStutter
<1>11. QED
    BY <1>3, <1>4, <1>5, <1>6, <1>7, <1>8, <1>9, <1>10 DEF Step

\* Every call of the hash table takes effect in one step between its call and
\* its return (hash.c 12-25 over list.c 17-92): insertions push, deletions pop
\* and lookups read the latest element of their key, however they interleave.
THEOREM TableIsStore == Spec => ImplementsStore
<1>1. Init => Store!Init
  <2> SUFFICES ASSUME Init PROVE Store!Init
      OBVIOUS
  <2>1. TypeOK /\ Chained
      BY StoreInvInit DEF StoreInv, ChainInv, HashInv, LockInv
  <2>2. Linked = {}
      BY DEF Init, Linked
  <2>3. ASSUME NEW k \in Key PROVE StackOf(k) = <<>>
    <3>1. PICK n, s : IsChain(HashOf(k), n, s)
        BY <2>1, ListOf
    <3>2. \A i \in 1..n : FALSE
        BY <2>2, <3>1 DEF IsChain
    <3>3. QED
        BY <2>1, <3>1, <3>2, StackEmpty
  <2>4. StackBar = [k \in Key |-> <<>>]
      BY <2>3 DEF StackBar
  <2>5. \A t \in Thread : CallOf(t) = Store!Idle
    <3>1. ASSUME NEW t \in Thread PROVE CallOf(t) = Shown("none", NULL, NULL, FALSE, NULL)
        BY CallsAre DEF CallsShown, Init, NoCall, Over
    <3>2. QED
        BY <3>1, IdleIs, Zenon
  <2>6. CallBar = [t \in Thread |-> Store!Idle]
      BY <2>5 DEF CallBar
  <2>7. QED
      BY <2>4, <2>6 DEF Store!Init, StackBar, CallBar, CallOf, Shown, Over
<1>2. StoreInv /\ StoreInv' /\ [Next]_vars => [Store!Next]_(Store!vars)
  <2> SUFFICES ASSUME StoreInv, StoreInv', [Next]_vars
               PROVE  Store!Next \/ UNCHANGED Store!vars
      OBVIOUS
  <2>1. TypeOK' /\ Chained'
      BY DEF StoreInv, ChainInv, HashInv, LockInv
  <2>2. ASSUME NEW t \in Thread, Step(t) PROVE Store!Next \/ UNCHANGED Store!vars
      BY <2>1, <2>2, StoreStep
  <2>3. CASE UNCHANGED vars
    <3>1. /\ head' = head /\ heap' = heap /\ pc' = pc /\ args' = args
          /\ element' = element /\ Linked' = Linked
        BY <2>3 DEF vars, Linked, InFlight
    <3>2. CallBar' = CallBar
        BY <3>1 DEF CallBar, CallOf, Shown
    <3>3. HashInv /\ Chained /\ TypeOK
        BY DEF StoreInv, ChainInv, HashInv, LockInv
    <3>4. ASSUME NEW k \in Key PROVE StackOf(k)' = StackOf(k)
      <4>1. PICK b, n, s : b = HashOf(k) /\ n = Len(Chain(b)) /\ s = Chain(b)
          OBVIOUS
      <4>2. b \in Bucket /\ IsChain(b, n, s)
          BY <3>3, <4>1, HashInBucket DEF Chained
      <4>3. IsChain(b, n, s)' /\ Keeps(n, s)
          BY <3>1, <4>2 DEF IsChain, Home, Keeps
      <4>4. QED
          BY <2>1, <3>3, <4>1, <4>2, <4>3, StackStays
    <3>5. StackBar' = StackBar
        BY <3>4, StackKeeps
    <3>6. QED
        BY <3>2, <3>5, BarStutter
  <2>4. QED
      BY <2>2, <2>3, NextIsStep
<1>3. QED
    BY StoreInvInit, StoreInvStep, <1>1, <1>2, PTL DEF Spec, ImplementsStore, Store!Spec
=============================================================================
