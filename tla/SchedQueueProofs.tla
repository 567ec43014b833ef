-------------------------- MODULE SchedQueueProofs --------------------------
(***************************************************************************)
(* The waiting line, for every set of sizes, every N and any number of     *)
(* requests.  First the abstract scheduler, as SchedQueue instantiates it: *)
(* SFF serves the shortest request first.  Its order is not inductive      *)
(* alone: that a newcomer comes after its equals rests on its number being *)
(* new.  Then the linked list: that the pointers always form a path from   *)
(* the sentinel to the tail, that every call does to it what the scheduler *)
(* does to the line, and what SFF-BS promises.                             *)
(***************************************************************************)
EXTENDS SchedQueue, SequenceTheorems, FiniteSetTheorems, WellFoundedInduction, TLAPS

Sizes == FileSize \cup Garbage \cup {0}   \* the StSize of the scheduler

-----------------------------------------------------------------------------
(* The scheduler.                                                          *)

\* Every request that was ever in line has a number already given.
NumbersGiven == \A i \in 1..Len(Line) : Line[i].id <= pushed

OrderInv == Scheduler!TypeOK /\ NumbersGiven /\ Scheduler!LineOrdered

\* InsertAt leaves the order of the others alone and puts the new element at
\* the place asked for.
LEMMA InsertAtProperties ==
  ASSUME NEW S, NEW s \in Seq(S), NEW q \in 1..(Len(s) + 1), NEW e \in S
  PROVE  /\ Scheduler!InsertAt(s, q, e) \in Seq(S)
         /\ Len(Scheduler!InsertAt(s, q, e)) = Len(s) + 1
         /\ \A i \in 1..(Len(s) + 1) :
              Scheduler!InsertAt(s, q, e)[i] =
                IF i < q THEN s[i] ELSE IF i = q THEN e ELSE s[i - 1]
<1> DEFINE a == SubSeq(s, 1, q - 1)
           b == SubSeq(s, q, Len(s))
<1>1. a \in Seq(S) /\ Len(a) = q - 1 /\ \A i \in 1..(q - 1) : a[i] = s[i]
  OBVIOUS
<1>2. b \in Seq(S) /\ Len(b) = Len(s) - q + 1
      /\ \A i \in 1..(Len(s) - q + 1) : b[i] = s[q - 1 + i]
  OBVIOUS
<1>3. Scheduler!InsertAt(s, q, e) = (a \o <<e>>) \o b
  BY DEF Scheduler!InsertAt
<1> HIDE DEF a, b
<1> DEFINE c == a \o <<e>>
<1>4. c \in Seq(S) /\ Len(c) = q /\ c[q] = e
      /\ \A i \in 1..(q - 1) : c[i] = s[i]
  BY <1>1, SMTT(20)
<1> HIDE DEF c
<1> DEFINE t == c \o b
<1>5. t \in Seq(S) /\ Len(t) = Len(s) + 1
  <2>1. t \in Seq(S) /\ Len(t) = Len(c) + Len(b)
    BY <1>2, <1>4, ConcatProperties
  <2> QED  BY <1>2, <1>4, <2>1
<1>6. ASSUME NEW i \in 1..Len(t)
      PROVE  t[i] = IF i < q THEN s[i] ELSE IF i = q THEN e ELSE s[i - 1]
  <2>1. CASE i <= q
    BY <1>2, <1>4, <1>5, <2>1
  <2>2. CASE i > q
    <3>1. t[i] = b[i - q]
      BY <1>2, <1>4, <1>5, <2>2
    <3>2. i - q \in 1..(Len(s) - q + 1) /\ q - 1 + (i - q) = i - 1
      BY <1>5, <2>2
    <3> QED  BY <1>2, <2>2, <3>1, <3>2
  <2> QED  BY <2>1, <2>2
<1>7. Scheduler!InsertAt(s, q, e) = t
  BY <1>3 DEF c
<1> HIDE DEF t
<1> QED  BY <1>5, <1>6, <1>7

\* What InsertAtProperties says of a line t, as one predicate.
InsertedAt(t, S, s, q, e) ==
  /\ t \in Seq(S)
  /\ Len(t) = Len(s) + 1
  /\ \A i \in 1..(Len(s) + 1) :
       t[i] = IF i < q THEN s[i] ELSE IF i = q THEN e ELSE s[i - 1]

LEMMA InsertAtInserts ==
  ASSUME NEW S, NEW s \in Seq(S), NEW q \in 1..(Len(s) + 1), NEW e \in S
  PROVE  InsertedAt(Scheduler!InsertAt(s, q, e), S, s, q, e)
BY InsertAtProperties, SMTT(30) DEF InsertedAt

LEMMA RequestTypes ==
  ASSUME QueueAssumption, Scheduler!TypeOK, NEW k \in 1..Len(Line)
  PROVE  Line[k].size \in Int /\ Line[k].id \in Nat
<1>1. Line[k] \in Scheduler!Request
  BY DEF Scheduler!TypeOK
<1>2. 1..MaxReq \subseteq Nat
  BY DEF QueueAssumption
<1> QED  BY <1>1, <1>2 DEF QueueAssumption, Scheduler!Request

LEMMA InitOrderInv ==
  ASSUME QueueAssumption
  PROVE  Scheduler!Init => OrderInv
BY DEF QueueAssumption, Scheduler!Init, OrderInv, Scheduler!TypeOK, NumbersGiven, Scheduler!LineOrdered

\* The order survives an arrival: SffPlace leaves the newcomer behind all that
\* are not larger, its equals among them, and in front of all that are.
LEMMA ArriveOrderInv ==
  ASSUME QueueAssumption, OrderInv, NEW s \in Sizes, Scheduler!Arrive(s)
  PROVE  OrderInv'
<1> DEFINE new == Scheduler!NewRequest(s)
<1>1. PICK p \in 0..Len(Line) :
        Scheduler!Place(s, p) /\ Line' = Scheduler!InsertAt(Line, p + 1, new)
  BY DEF Scheduler!Arrive
<1>2. Line \in Seq(Scheduler!Request) /\ served \in Seq(Scheduler!Request) /\ served' = served
  BY DEF OrderInv, Scheduler!TypeOK, Scheduler!Arrive
<1>3. pushed \in Nat /\ pushed < MaxReq /\ new \in Scheduler!Request
  BY DEF QueueAssumption, OrderInv, Scheduler!TypeOK, Scheduler!Arrive, Scheduler!Request, Scheduler!NewRequest, Sizes
<1>n. new.id = pushed + 1 /\ new.size = s
  BY DEF Scheduler!NewRequest
<1> HIDE DEF new
<1>4. /\ Line' \in Seq(Scheduler!Request)
      /\ Len(Line') = Len(Line) + 1
      /\ \A i \in 1..Len(Line') :
           Line'[i] = IF i <= p THEN Line[i]
                         ELSE IF i = p + 1 THEN new ELSE Line[i - 1]
  <2> DEFINE q == p + 1
  <2>1. q \in 1..(Len(Line) + 1)
    BY <1>2
  <2>2. Line' = Scheduler!InsertAt(Line, q, new)
    BY <1>1 DEF new
  <2> HIDE DEF q
  <2>3. /\ Scheduler!InsertAt(Line, q, new) \in Seq(Scheduler!Request)
        /\ Len(Scheduler!InsertAt(Line, q, new)) = Len(Line) + 1
        /\ \A i \in 1..(Len(Line) + 1) :
             Scheduler!InsertAt(Line, q, new)[i] =
               IF i < q THEN Line[i] ELSE IF i = q THEN new ELSE Line[i - 1]
    <3>1. InsertedAt(Scheduler!InsertAt(Line, q, new), Scheduler!Request, Line, q, new)
      BY <1>2, <1>3, <2>1, InsertAtInserts
    <3> QED  BY <3>1 DEF InsertedAt
  <2>4. p \in Int /\ q = p + 1
    BY <1>2 DEF q
  <2>5. Len(Line') = Len(Line) + 1 /\ Line' \in Seq(Scheduler!Request)
    BY <2>2, <2>3
  <2>6. ASSUME NEW i \in 1..Len(Line')
        PROVE  Line'[i] = IF i <= p THEN Line[i]
                          ELSE IF i = p + 1 THEN new ELSE Line[i - 1]
    <3>1. i \in 1..(Len(Line) + 1) /\ i \in Int
      BY <2>5, <2>6
    <3>2. Line'[i] = IF i < q THEN Line[i] ELSE IF i = q THEN new ELSE Line[i - 1]
      BY <2>2, <2>3, <3>1
    <3>3. (i < q) <=> (i <= p)
      BY <2>4, <3>1
    <3> QED  BY <2>4, <3>2, <3>3
  <2> QED  BY <2>5, <2>6
<1>5. pushed' = pushed + 1 /\ sched_alg_code' = sched_alg_code
  BY DEF Scheduler!Arrive
<1>6. Scheduler!TypeOK'
  BY <1>2, <1>3, <1>4, <1>5 DEF QueueAssumption, OrderInv, Scheduler!TypeOK
<1>7. NumbersGiven'
  <2> SUFFICES ASSUME NEW i \in 1..Len(Line') PROVE Line'[i].id <= pushed'
    BY DEF NumbersGiven
  <2>1. \A k \in 1..Len(Line) : Line[k].id \in Nat /\ Line[k].id <= pushed
    BY RequestTypes DEF OrderInv, NumbersGiven
  <2>2. CASE i <= p
    <3>1. i \in 1..Len(Line) /\ Line'[i] = Line[i]
      BY <1>2, <1>4, <2>2
    <3> QED  BY <1>3, <1>5, <2>1, <3>1
  <2>3. CASE i = p + 1
    BY <1>3, <1>4, <1>5, <1>n, <2>3
  <2>4. CASE i > p + 1
    <3>1. i - 1 \in 1..Len(Line) /\ Line'[i] = Line[i - 1]
      BY <1>2, <1>4, <2>4
    <3> QED  BY <1>3, <1>5, <2>1, <3>1
  <2> QED  BY <1>2, <1>4, <2>2, <2>3, <2>4
<1>8. Scheduler!LineOrdered'
  <2> SUFFICES ASSUME sched_alg_code = Scheduler!SFF,
                      NEW i \in 1..Len(Line'), NEW j \in 1..Len(Line'), i < j
               PROVE  Scheduler!Before(Line'[i], Line'[j])
    BY <1>5 DEF Scheduler!LineOrdered
  <2>1. Scheduler!SffPlace(s, p)
    BY <1>1 DEF Scheduler!Place, Scheduler!FIFO, Scheduler!SFF, Scheduler!SFF_BS
  <2>2. \A k \in 1..Len(Line) : /\ Line[k].size \in Int
                                   /\ Line[k].id \in Nat
                                   /\ Line[k].id <= pushed
    BY RequestTypes DEF OrderInv, NumbersGiven
  <2>3. \A k, l \in 1..Len(Line) : k < l => Scheduler!Before(Line[k], Line[l])
    BY DEF OrderInv, Scheduler!LineOrdered
  <2>4. s \in Int
    BY DEF QueueAssumption, Sizes
  <2>5. CASE i # p + 1 /\ j # p + 1
    <3> DEFINE Old(n) == IF n <= p THEN n ELSE n - 1
    <3>1. Old(i) \in 1..Len(Line) /\ Old(j) \in 1..Len(Line) /\ Old(i) < Old(j)
      BY <1>2, <1>4, <2>5
    <3>2. Line'[i] = Line[Old(i)] /\ Line'[j] = Line[Old(j)]
      BY <1>2, <1>4, <2>5
    <3> HIDE DEF Old
    <3> QED  BY <2>3, <3>1, <3>2
  <2>6. CASE j = p + 1
    <3>1. i \in 1..p /\ i \in 1..Len(Line) /\ Line'[i] = Line[i]
      BY <1>2, <1>4, <2>6
    <3>2. Line'[j] = new
      BY <1>2, <1>4, <2>6
    <3>3. Line[i].size <= s
      BY <2>1, <3>1 DEF Scheduler!SffPlace
    <3> QED  BY <1>3, <1>n, <2>2, <2>4, <3>1, <3>2, <3>3, SMTT(20) DEF Scheduler!Before
  <2>7. CASE i = p + 1
    <3>1. j - 1 \in (p + 1)..Len(Line) /\ Line'[j] = Line[j - 1]
      BY <1>2, <1>4, <2>7
    <3>2. Line'[i] = new
      BY <1>2, <1>4, <2>7
    <3>3. Line[j - 1].size > s
      BY <2>1, <3>1 DEF Scheduler!SffPlace
    <3> QED  BY <1>n, <2>2, <2>4, <3>1, <3>2, <3>3 DEF Scheduler!Before
  <2> QED  BY <2>5, <2>6, <2>7
<1> QED  BY <1>6, <1>7, <1>8 DEF OrderInv

\* What is left after a dispatch is the old line without its front.
LEMMA DispatchLine ==
  ASSUME Scheduler!TypeOK, Scheduler!Dispatch
  PROVE  /\ Len(Line') = Len(Line) - 1
         /\ Len(Line) \in Nat \ {0}
         /\ \A i \in 1..Len(Line') : Line'[i] = Line[i + 1]
         /\ Line' \in Seq(Scheduler!Request)
         /\ served' \in Seq(Scheduler!Request)
         /\ Len(served') = Len(served) + 1
         /\ Scheduler!Last(served') = Line[1]
BY DEF Scheduler!TypeOK, Scheduler!Dispatch, Scheduler!Last

LEMMA DispatchOrderInv ==
  ASSUME OrderInv, Scheduler!Dispatch
  PROVE  OrderInv'
<1>1. Scheduler!TypeOK
  BY DEF OrderInv
<1>2. Scheduler!TypeOK'
  BY <1>1, DispatchLine DEF Scheduler!TypeOK, Scheduler!Dispatch
<1>3. pushed' = pushed /\ sched_alg_code' = sched_alg_code
  BY DEF Scheduler!Dispatch
<1>4. ASSUME NEW i \in 1..Len(Line')
      PROVE  i + 1 \in 1..Len(Line) /\ Line'[i] = Line[i + 1]
  BY <1>1, DispatchLine
<1>5. NumbersGiven'
  BY <1>3, <1>4 DEF OrderInv, NumbersGiven
<1>6. Scheduler!LineOrdered'
  <2> SUFFICES ASSUME sched_alg_code = Scheduler!SFF,
                      NEW i \in 1..Len(Line'), NEW j \in 1..Len(Line'), i < j
               PROVE  Scheduler!Before(Line'[i], Line'[j])
    BY <1>3 DEF Scheduler!LineOrdered
  <2>1. i + 1 < j + 1
    OBVIOUS
  <2>2. Scheduler!Before(Line[i + 1], Line[j + 1])
    BY <1>4, <2>1 DEF OrderInv, Scheduler!LineOrdered
  <2> QED  BY <1>4, <2>2
<1> QED  BY <1>2, <1>5, <1>6 DEF OrderInv

LEMMA StepOrderInv ==
  ASSUME QueueAssumption
  PROVE  OrderInv /\ [Scheduler!Next]_(Scheduler!vars) => OrderInv'
<1> SUFFICES ASSUME OrderInv, [Scheduler!Next]_(Scheduler!vars) PROVE OrderInv'
  OBVIOUS
<1>1. CASE Scheduler!Dispatch
  BY <1>1, DispatchOrderInv
<1>2. CASE \E s \in Sizes : Scheduler!Arrive(s)
  BY <1>2, ArriveOrderInv
<1>3. CASE UNCHANGED Scheduler!vars
  BY <1>3 DEF Scheduler!vars, OrderInv, Scheduler!TypeOK, NumbersGiven, Scheduler!LineOrdered
<1> QED  BY <1>1, <1>2, <1>3 DEF Scheduler!Next, Sizes

\* The scheduler keeps the line of SFF (server.c 73-89) in order of size and,
\* among equals, of arrival.
THEOREM LineOrderedHolds == Scheduler!Spec => []Scheduler!LineOrdered
<1>1. OrderInv => Scheduler!LineOrdered
  BY DEF OrderInv
<1> QED  BY QueueAssumption, InitOrderInv, StepOrderInv, <1>1, PTL DEF Scheduler!Spec

\* Under SFF a dispatch of the scheduler (server.c 172-212) takes the shortest
\* request of the line, the earliest of these when there are several.
THEOREM SchedulerShortestFirst == Scheduler!Spec => Scheduler!ShortestFirst
<1> DEFINE A == sched_alg_code = Scheduler!SFF /\ served' # served =>
                  \A i \in 1..Len(Line') : Scheduler!Before(Scheduler!Last(served'), Line'[i])
<1>1. ASSUME OrderInv, [Scheduler!Next]_(Scheduler!vars) PROVE A
  <2> SUFFICES ASSUME sched_alg_code = Scheduler!SFF, served' # served,
                      NEW i \in 1..Len(Line')
               PROVE  Scheduler!Before(Scheduler!Last(served'), Line'[i])
    OBVIOUS
  <2>1. Scheduler!Dispatch
    BY <1>1 DEF Scheduler!Next, Scheduler!Arrive, Scheduler!vars
  <2>2. Scheduler!TypeOK
    BY <1>1 DEF OrderInv
  <2>3. 1 \in 1..Len(Line) /\ i + 1 \in 1..Len(Line) /\ 1 < i + 1
    BY <2>1, <2>2, DispatchLine
  <2>4. Scheduler!Before(Line[1], Line[i + 1])
    BY <1>1, <2>3 DEF OrderInv, Scheduler!LineOrdered
  <2> QED  BY <2>1, <2>2, <2>4, DispatchLine
<1>2. OrderInv /\ [Scheduler!Next]_(Scheduler!vars) => [A]_(Scheduler!vars)
  BY <1>1
<1> QED  BY QueueAssumption, InitOrderInv, StepOrderInv, <1>2, PTL DEF Scheduler!Spec, Scheduler!ShortestFirst

-----------------------------------------------------------------------------
(* The list.  O[k] is the number of the k-th request dispatched and, behind *)
(* the gone ones, of those in line.  A dispatch does not change it, a       *)
(* newcomer is inserted.                                                    *)

gone == Len(served)
At(O, k) == IF k <= pushed THEN O[k] ELSE NULL
InFrontOf(O, k) == IF k = gone + 1 THEN head ELSE O[k - 1]

\* The pointers form a path through the places behind the gone ones.
Path(O) ==
  /\ gone <= pushed
  /\ O \in [1..pushed -> 1..pushed]
  /\ \A i, j \in 1..pushed : O[i] = O[j] => i = j
  /\ next[head] = At(O, gone + 1)
  /\ \A i \in (gone + 1)..pushed : next[O[i]] = At(O, i + 1)
  /\ tail = IF gone = pushed THEN head ELSE O[pushed]

Record(O) ==
  /\ buffer_head_hist = gone
  /\ \A k \in 1..gone : served[k] = [id |-> O[k], size |-> st_size[O[k]]]

QueueInv == TypeOK /\ \E O \in [1..pushed -> 1..pushed] : Path(O) /\ Record(O)

LEMMA LeastElement ==
  ASSUME NEW S, S \subseteq Nat, S # {}
  PROVE  \E x \in S : \A y \in S : x <= y
<1> DEFINE Less == {ss \in Nat \X Nat : ss[1] < ss[2]}
<1>1. IsWellFoundedOn(Less, Nat)
    BY NatLessThanWellFounded DEF OpToRel
<1> HIDE DEF Less
<1>2. PICK x \in S : \A y \in S : ~ (<<y, x>> \in Less)
    BY <1>1, WFMin
<1>3. \A y \in S : ~(y < x)
    BY <1>2 DEF Less
<1>4. QED
    BY <1>3

\* Nth is what its definition says: the recursion ends.
PartNth(f, m) == f = [n \in 0..m |-> IF n = 0 THEN head ELSE next[f[n - 1]]]

LEMMA PartNthExists == ASSUME NEW m \in Nat PROVE \E f : PartNth(f, m)
<1> DEFINE Bad == {k \in Nat : ~ \E f : PartNth(f, k)}
<1> SUFFICES ASSUME Bad # {} PROVE FALSE
    OBVIOUS
<1>1. PICK k \in Bad : \A y \in Bad : k <= y
    BY LeastElement
<1>2. k \in Nat /\ ~ \E f : PartNth(f, k)
    OBVIOUS
<1>3. CASE k = 0
  <2>1. PartNth([n \in 0..0 |-> head], 0)
      BY DEF PartNth
  <2>2. QED
      BY <1>2, <1>3, <2>1
<1>4. CASE k # 0
  <2>1. k - 1 \in Nat /\ k - 1 \notin Bad
      BY <1>1, <1>2, <1>4
  <2>2. PICK f : PartNth(f, k - 1)
      BY <2>1
  <2> DEFINE g == [n \in 0..k |-> IF n = 0 THEN head ELSE next[f[n - 1]]]
  <2>3. \A n \in 0..(k - 1) : g[n] = f[n]
      BY <1>2, <2>1, <2>2 DEF PartNth
  <2>4. ASSUME NEW n \in 0..k
        PROVE  g[n] = IF n = 0 THEN head ELSE next[g[n - 1]]
    <3>1. CASE n = 0
        BY <3>1
    <3>2. CASE n # 0
      <4>1. n - 1 \in 0..(k - 1)
          BY <3>2, <1>2
      <4>2. g[n] = next[f[n - 1]]
          BY <3>2
      <4> HIDE DEF g
      <4>3. QED
          BY <3>2, <4>1, <4>2, <2>3
    <3>3. QED
        BY <3>1, <3>2
  <2>5. PartNth(g, k)
    <3> DEFINE h == [n \in 0..k |-> IF n = 0 THEN head ELSE next[g[n - 1]]]
    <3>1. \A n \in 0..k : g[n] = h[n]
        BY <2>4
    <3>2. g = h
        BY <3>1
    <3>3. QED
        BY <3>2 DEF PartNth
  <2>6. QED
      BY <1>2, <2>5
<1>5. QED
    BY <1>3, <1>4

LEMMA NthEquation ==
  \A n \in 0..MaxReq : Nth[n] = IF n = 0 THEN head ELSE next[Nth[n - 1]]
<1>1. MaxReq \in Nat
    BY QueueAssumption
<1>2. PICK f : PartNth(f, MaxReq)
    BY <1>1, PartNthExists
<1>3. PartNth(Nth, MaxReq)
    BY <1>2 DEF Nth, PartNth
<1>4. QED
    BY <1>3 DEF PartNth

LEMMA Basics ==
  ASSUME TypeOK, NEW O, Path(O)
  PROVE  /\ MaxReq \in Nat /\ pushed \in Nat /\ pushed <= MaxReq /\ gone \in Nat /\ gone <= pushed
         /\ \A i \in 1..pushed : O[i] \in 1..pushed
         /\ NULL \notin Nat /\ head = 0 /\ next \in [Node -> Link] /\ tail \in Node
<1>1. MaxReq \in Nat /\ NULL \notin Nat
    BY QueueAssumption
<1>2. pushed \in Nat /\ pushed <= MaxReq
    BY <1>1 DEF TypeOK
<1>3. gone \in Nat
    BY DEF TypeOK, gone
<1>4. gone <= pushed /\ \A i \in 1..pushed : O[i] \in 1..pushed
    BY DEF Path
<1>5. head = 0 /\ next \in [Node -> Link] /\ tail \in Node
    BY DEF TypeOK, head
<1>6. QED
    BY <1>1, <1>2, <1>3, <1>4, <1>5

\* The nodes one meets from the sentinel are those of the path.
LEMMA NthIsPlace ==
  ASSUME TypeOK, NEW O, Path(O), NEW p \in 0..(pushed - gone)
  PROVE  /\ Nth[p] = InFrontOf(O, gone + p + 1)
         /\ next[Nth[p]] = At(O, gone + p + 1)
<1> DEFINE Good(i) == Nth[i] = InFrontOf(O, gone + i + 1)
           Bad == {i \in 0..(pushed - gone) : ~Good(i)}
<1> USE Basics
<1>1. \A i \in 0..(pushed - gone) : Good(i) => next[Nth[i]] = At(O, gone + i + 1)
  <2> SUFFICES ASSUME NEW i \in 0..(pushed - gone), Good(i)
               PROVE  next[Nth[i]] = At(O, gone + i + 1)
      OBVIOUS
  <2>1. CASE i = 0
    <3>1. gone + i + 1 = gone + 1
        BY <2>1
    <3>2. QED
        BY <3>1 DEF Path, InFrontOf
  <2>2. CASE i # 0
    <3>1. gone + i \in (gone + 1)..pushed /\ gone + i + 1 - 1 = gone + i
        BY <2>2
    <3>2. Nth[i] = O[gone + i]
        BY <2>2, <3>1 DEF InFrontOf
    <3>3. QED
        BY <3>1, <3>2 DEF Path
  <2>3. QED
      BY <2>1, <2>2
<1>2. Bad = {}
  <2> SUFFICES ASSUME Bad # {} PROVE FALSE
      OBVIOUS
  <2>1. Bad \subseteq Nat
      OBVIOUS
  <2>2. PICK i \in Bad : \A y \in Bad : i <= y
      BY <2>1, LeastElement
  <2>3. i # 0
      BY <2>2, NthEquation DEF InFrontOf
  <2>4. i \in 0..(pushed - gone) /\ i - 1 \in 0..(pushed - gone) /\ i \in 0..MaxReq /\ i - 1 \notin Bad
      BY <2>2, <2>3
  <2>5. next[Nth[i - 1]] = At(O, gone + i)
      BY <2>4, <1>1
  <2>6. Nth[i] = At(O, gone + i)
      BY <2>3, <2>4, <2>5, NthEquation
  <2>7. gone + i + 1 # gone + 1 /\ gone + i + 1 - 1 = gone + i /\ gone + i <= pushed
      BY <2>3, <2>4
  <2>8. Good(i)
      BY <2>6, <2>7 DEF At, InFrontOf
  <2>9. QED
      BY <2>2, <2>8
<1>3. QED
    BY <1>1, <1>2

Waits(O, i) == [id |-> O[gone + i], size |-> st_size[O[gone + i]]]

LineShown ==
  \A O : TypeOK /\ Path(O) => Line = [i \in 1..(pushed - gone) |-> Waits(O, i)]

LEMMA LineIsPath == LineShown
<1> SUFFICES ASSUME TypeOK, NEW O, Path(O)
             PROVE  Line = [i \in 1..(pushed - gone) |-> Waits(O, i)]
    BY DEF LineShown
<1> USE Basics
<1> DEFINE Ends(n) == /\ next[Nth[n]] = NULL
                      /\ \A m \in 0..(n - 1) : next[Nth[m]] # NULL
           last == CHOOSE n \in 0..MaxReq : Ends(n)
<1>1. pushed - gone \in 0..MaxReq
    OBVIOUS
<1>2. next[Nth[pushed - gone]] = NULL
    BY NthIsPlace DEF At
<1>3. \A m \in 0..(pushed - gone - 1) : next[Nth[m]] # NULL
  <2> SUFFICES ASSUME NEW m \in 0..(pushed - gone - 1) PROVE next[Nth[m]] # NULL
      OBVIOUS
  <2>1. m \in 0..(pushed - gone) /\ gone + m + 1 \in 1..pushed
      OBVIOUS
  <2>2. next[Nth[m]] = O[gone + m + 1]
      BY <2>1, NthIsPlace DEF At
  <2>3. QED
      BY <2>1, <2>2
<1>4. Ends(pushed - gone)
    BY <1>2, <1>3
<1>5. last \in 0..MaxReq /\ Ends(last)
    BY <1>1, <1>4
<1>6. last = pushed - gone
  <2> HIDE DEF last
  <2>1. ~(last < pushed - gone)
      BY <1>3, <1>5
  <2>2. ~(pushed - gone < last)
      BY <1>1, <1>2, <1>5
  <2>3. QED
      BY <1>1, <1>5, <2>1, <2>2
<1>7. Line = [i \in 1..last |-> [id |-> Nth[i], size |-> st_size[Nth[i]]]]
    BY DEF Line
<1> HIDE DEF last
<1>8. ASSUME NEW i \in 1..(pushed - gone) PROVE Nth[i] = O[gone + i]
  <2>1. i \in 0..(pushed - gone) /\ gone + i + 1 # gone + 1 /\ gone + i + 1 - 1 = gone + i
      OBVIOUS
  <2>2. QED
      BY <2>1, NthIsPlace DEF InFrontOf
<1>9. QED
    BY <1>6, <1>7, <1>8 DEF Waits

LEMMA NextLineIsPath == LineShown'
BY LineIsPath, PTL

-----------------------------------------------------------------------------
(* A newcomer.  It is linked at place q: behind InFrontOf(O, q).            *)

Inserted(O, q) ==
  [i \in 1..(pushed + 1) |->
     IF i < q THEN O[i] ELSE IF i = q THEN pushed + 1 ELSE O[i - 1]]

\* What queue_push knows of the place: it passed m - gone - 1 nodes to reach m.
PlaceFor(O, s, q) ==
  IF sched_alg_code = FIFO THEN q = pushed + 1
  ELSE /\ q - gone >= max_search \/ q = pushed + 1 \/ st_size[O[q]] > s
       /\ \A m \in (gone + 1)..(q - 1) : m - gone < max_search /\ st_size[O[m]] <= s

LinkedAt(O, q) ==
  /\ next' = [next EXCEPT ![pushed + 1] = At(O, q), ![InFrontOf(O, q)] = pushed + 1]
  /\ tail' = IF q = pushed + 1 THEN pushed + 1 ELSE tail

LEMMA SearchLength ==
  ASSUME TypeOK
  PROVE  /\ max_search \in Int /\ max_search >= 1
         /\ sched_alg_code = SFF_BS => max_search = sff_bs_value - (buffer_head_hist % sff_bs_value)
<1>1. sff_bs_value \in Nat \ {0} /\ MaxReq \in Nat /\ buffer_head_hist \in Nat
    BY QueueAssumption DEF TypeOK
<1>2. buffer_head_hist % sff_bs_value \in 0..(sff_bs_value - 1)
    BY <1>1
<1>3. QED
    BY <1>1, <1>2 DEF max_search

\* The search stops, at the first node at which it may.
LEMMA SearchStops ==
  ASSUME TypeOK, NEW O, Path(O), NEW s \in StSize
  PROVE  \E p \in 0..(pushed - gone) :
           /\ InsertionPoint(s) = InFrontOf(O, gone + p + 1)
           /\ p + 1 >= max_search \/ p = pushed - gone \/ st_size[O[gone + p + 1]] > s
           /\ \A m \in 0..(p - 1) : m + 1 < max_search /\ ~(st_size[O[gone + m + 1]] > s)
<1> USE Basics
<1> DEFINE Stops(n) == \/ n + 1 >= max_search
                       \/ next[Nth[n]] = NULL
                       \/ st_size[next[Nth[n]]] > s
           First(n) == Stops(n) /\ \A m \in 0..(n - 1) : ~Stops(m)
           c == CHOOSE n \in 0..MaxReq : First(n)
           S == {n \in 0..(pushed - gone) : Stops(n)}
<1>1. max_search \in Int
    BY SearchLength
<1>2. \A n \in 0..(pushed - gone) : next[Nth[n]] = At(O, gone + n + 1)
    BY NthIsPlace
<1>3. pushed - gone \in S
  <2>1. ~(gone + (pushed - gone) + 1 <= pushed)
      OBVIOUS
  <2>2. next[Nth[pushed - gone]] = NULL
      BY <1>2, <2>1 DEF At
  <2>3. QED
      BY <2>2
<1>4. InsertionPoint(s) = Nth[c]
    BY DEF InsertionPoint
<1>5. \A n \in 0..(pushed - gone) : n # pushed - gone =>
        (Stops(n) <=> n + 1 >= max_search \/ st_size[O[gone + n + 1]] > s)
  <2> SUFFICES ASSUME NEW n \in 0..(pushed - gone), n # pushed - gone
               PROVE  Stops(n) <=> n + 1 >= max_search \/ st_size[O[gone + n + 1]] > s
      OBVIOUS
  <2>1. gone + n + 1 \in 1..pushed
      OBVIOUS
  <2>2. next[Nth[n]] = O[gone + n + 1] /\ next[Nth[n]] # NULL
      BY <1>2, <2>1 DEF At
  <2>3. QED
      BY <2>2
<1> HIDE DEF Stops
<1>6. PICK p \in S : \A y \in S : p <= y
  <2>1. S \subseteq Nat
      OBVIOUS
  <2>2. QED
      BY <1>3, <2>1, LeastElement
<1>7. p \in 0..(pushed - gone) /\ p \in 0..MaxReq /\ First(p)
    BY <1>6
<1>8. c \in 0..MaxReq /\ First(c)
    BY <1>7
<1> HIDE DEF c
<1>9. c = p
    BY <1>7, <1>8
<1>10. InsertionPoint(s) = InFrontOf(O, gone + p + 1)
    BY <1>4, <1>7, <1>9, NthIsPlace
<1>11. p + 1 >= max_search \/ p = pushed - gone \/ st_size[O[gone + p + 1]] > s
    BY <1>5, <1>7
<1>12. ASSUME NEW m \in 0..(p - 1)
       PROVE  m + 1 < max_search /\ ~(st_size[O[gone + m + 1]] > s)
  <2>1. m \in 0..(pushed - gone) /\ m # pushed - gone /\ ~Stops(m)
      BY <1>7
  <2>2. QED
      BY <1>1, <1>5, <2>1
<1>13. QED
    BY <1>7, <1>10, <1>11, <1>12

\* Both ways queue_push links a node, seen as the insertion of a place.
LEMMA PushLinks ==
  ASSUME TypeOK, NEW O, Path(O), NEW s \in StSize, queue_push(s)
  PROVE  \E q \in (gone + 1)..(pushed + 1) : LinkedAt(O, q) /\ PlaceFor(O, s, q)
<1> USE Basics
<1>1. CASE sched_alg_code = FIFO
  <2> DEFINE q == pushed + 1
  <2>1. q \in (gone + 1)..(pushed + 1) /\ q - 1 = pushed
      OBVIOUS
  <2>2. At(O, q) = NULL
      BY DEF At
  <2>3. InFrontOf(O, q) = tail
      BY <2>1 DEF InFrontOf, Path
  <2>4. LinkedAt(O, q)
      BY <1>1, <2>2, <2>3 DEF queue_push, LinkAtTail, LinkedAt
  <2>5. PlaceFor(O, s, q)
      BY <1>1 DEF PlaceFor
  <2>6. QED
      BY <2>1, <2>4, <2>5
<1>2. CASE sched_alg_code # FIFO
  <2>1. PICK p \in 0..(pushed - gone) :
           /\ InsertionPoint(s) = InFrontOf(O, gone + p + 1)
           /\ p + 1 >= max_search \/ p = pushed - gone \/ st_size[O[gone + p + 1]] > s
           /\ \A m \in 0..(p - 1) : m + 1 < max_search /\ ~(st_size[O[gone + m + 1]] > s)
      BY SearchStops
  <2> DEFINE q == gone + p + 1
  <2>2. q \in (gone + 1)..(pushed + 1) /\ q - gone = p + 1 /\ (p = pushed - gone <=> q = pushed + 1)
      OBVIOUS
  <2>3. next[InsertionPoint(s)] = At(O, q)
      BY <2>1, NthIsPlace
  <2>4. At(O, q) = NULL <=> q = pushed + 1
      BY <2>2 DEF At
  <2>5. LinkBehind(pushed + 1, InsertionPoint(s))
      BY <1>2 DEF queue_push
  <2>6. LinkedAt(O, q)
      BY <2>1, <2>3, <2>4, <2>5 DEF LinkBehind, LinkedAt
  <2>7. ASSUME NEW m \in (gone + 1)..(q - 1)
        PROVE  m - gone < max_search /\ st_size[O[m]] <= s
    <3>1. m - gone - 1 \in 0..(p - 1) /\ gone + (m - gone - 1) + 1 = m /\ (m - gone - 1) + 1 = m - gone
        OBVIOUS
    <3>2. m - gone < max_search /\ ~(st_size[O[m]] > s)
        BY <2>1, <3>1
    <3>3. st_size[O[m]] \in Int /\ s \in Int
      <4>1. m \in 1..pushed
          OBVIOUS
      <4>2. st_size[O[m]] \in StSize
          BY <4>1 DEF TypeOK
      <4>3. QED
          BY <4>2, QueueAssumption DEF StSize
    <3>4. QED
        BY <3>2, <3>3
  <2>8. PlaceFor(O, s, q)
      BY <1>2, <2>1, <2>2, <2>7 DEF PlaceFor
  <2>9. QED
      BY <2>2, <2>6, <2>8
<1>3. QED
    BY <1>1, <1>2

InsertedElements(O, q, Q) ==
  /\ Q \in [1..(pushed + 1) -> 1..(pushed + 1)]
  /\ Q[q] = pushed + 1
  /\ \A i \in 1..(q - 1) : i \in 1..pushed /\ Q[i] = O[i]
  /\ \A i \in (q + 1)..(pushed + 1) : i - 1 \in 1..pushed /\ Q[i] = O[i - 1]

LEMMA InsertedIs ==
  ASSUME TypeOK, NEW O, Path(O), NEW q \in (gone + 1)..(pushed + 1),
         NEW Q, Q = Inserted(O, q)
  PROVE  InsertedElements(O, q, Q)
<1> USE Basics
<1>0. gone \in Nat /\ pushed \in Nat /\ gone <= pushed /\ q \in Int /\ gone + 1 <= q /\ q <= pushed + 1
    OBVIOUS
<1>1. ASSUME NEW i \in 1..(pushed + 1)
      PROVE  /\ i < q => i \in 1..pushed
             /\ i > q => i - 1 \in 1..pushed
             /\ Q[i] = IF i < q THEN O[i] ELSE IF i = q THEN pushed + 1 ELSE O[i - 1]
    BY <1>0 DEF Inserted
<1>2. \A i \in 1..(pushed + 1) : Q[i] \in 1..(pushed + 1)
    BY <1>0, <1>1
<1>3. Q \in [1..(pushed + 1) -> 1..(pushed + 1)]
  <2>1. Q = [i \in 1..(pushed + 1) |-> Q[i]]
      BY DEF Inserted
  <2>2. QED
      BY <1>2, <2>1
<1>4. ASSUME NEW i \in 1..(q - 1) PROVE i \in 1..pushed /\ Q[i] = O[i]
  <2>1. i \in 1..(pushed + 1) /\ i < q
      BY <1>0
  <2>2. QED
      BY <1>1, <2>1
<1>5. ASSUME NEW i \in (q + 1)..(pushed + 1) PROVE i - 1 \in 1..pushed /\ Q[i] = O[i - 1]
  <2>1. i \in 1..(pushed + 1) /\ i > q /\ i # q /\ ~(i < q)
      BY <1>0
  <2>2. QED
      BY <1>1, <2>1
<1>6. Q[q] = pushed + 1
  <2>1. q \in 1..(pushed + 1) /\ ~(q < q)
      BY <1>0
  <2>2. QED
      BY <1>1, <2>1
<1>7. QED
    BY <1>3, <1>4, <1>5, <1>6 DEF InsertedElements

LEMMA LinkKeepsPath ==
  ASSUME TypeOK, NEW O, Path(O), NEW q \in (gone + 1)..(pushed + 1),
         pushed < MaxReq, pushed' = pushed + 1, served' = served,
         LinkedAt(O, q), NEW Q, InsertedElements(O, q, Q)
  PROVE  Path(Q)'
<1> USE Basics
<1> DEFINE new == pushed + 1
           F == InFrontOf(O, q)
<1>0. /\ gone \in Nat /\ gone <= pushed /\ pushed \in Nat /\ pushed < MaxReq /\ MaxReq \in Nat
      /\ q \in Int /\ gone + 1 <= q /\ q <= pushed + 1 /\ gone' = gone /\ pushed' = pushed + 1
      /\ q \in 1..(pushed + 1)
    BY DEF gone
<1>1. \A i \in 1..pushed : O[i] \in 1..pushed /\ O[i] # new /\ O[i] # head /\ O[i] \in Node
  <2>1. \A i \in 1..pushed : O[i] \in 1..pushed
      OBVIOUS
  <2>2. QED
      BY <1>0, <2>1 DEF Node, head
<1>2. F \in Node /\ F # new /\ head \in Node /\ new \in Node /\ new # head
  <2>1. head \in Node /\ new \in Node /\ new # head
      BY <1>0 DEF Node, head
  <2>2. CASE q = gone + 1
      BY <2>1, <2>2 DEF InFrontOf
  <2>3. CASE q # gone + 1
    <3>1. q - 1 \in 1..pushed
        BY <1>0, <2>3
    <3>2. F = O[q - 1]
        BY <2>3 DEF InFrontOf
    <3>3. QED
        BY <1>1, <2>1, <3>1, <3>2
  <2>4. QED
      BY <2>2, <2>3
<1>3. /\ next'[new] = At(O, q)
      /\ next'[F] = new
      /\ \A n \in Node : n # new /\ n # F => next'[n] = next[n]
  <2>1. next \in [Node -> Link]
      OBVIOUS
  <2>2. next' = [next EXCEPT ![new] = At(O, q), ![F] = new]
      BY DEF LinkedAt
  <2> HIDE DEF F, new
  <2>3. QED
      BY <1>2, <2>1, <2>2
<1>4. q = gone + 1 => F = head
    BY DEF InFrontOf
<1>5. q # gone + 1 => q - 1 \in 1..pushed /\ F = O[q - 1]
    BY <1>0 DEF InFrontOf
<1>6. \A i \in (gone + 1)..pushed : (O[i] = F) => i = q - 1
  <2> SUFFICES ASSUME NEW i \in (gone + 1)..pushed, O[i] = F PROVE i = q - 1
      OBVIOUS
  <2>1. i \in 1..pushed
      BY <1>0
  <2>2. q # gone + 1
      BY <1>1, <1>4, <2>1
  <2>3. QED
      BY <1>5, <2>1, <2>2 DEF Path
<1>7. q # gone + 1 => head # F
    BY <1>1, <1>5
<1> HIDE DEF F
<1>e. /\ Q \in [1..(pushed + 1) -> 1..(pushed + 1)]
      /\ Q[q] = new
      /\ \A i \in 1..(q - 1) : i \in 1..pushed /\ Q[i] = O[i]
      /\ \A i \in (q + 1)..(pushed + 1) : i - 1 \in 1..pushed /\ Q[i] = O[i - 1]
    BY DEF InsertedElements
<1> HIDE DEF new
<1>8. \A i, j \in 1..(pushed + 1) : Q[i] = Q[j] => i = j
  <2> SUFFICES ASSUME NEW i \in 1..(pushed + 1), NEW j \in 1..(pushed + 1), Q[i] = Q[j] PROVE i = j
      OBVIOUS
  <2> DEFINE Old(n) == IF n < q THEN n ELSE n - 1
  <2>1. ASSUME NEW n \in 1..(pushed + 1), n # q
        PROVE  Old(n) \in 1..pushed /\ Q[n] = O[Old(n)]
    <3>1. CASE n < q
      <4>1. n \in 1..(q - 1) /\ Old(n) = n
          BY <1>0, <3>1
      <4>2. QED
          BY <1>e, <4>1
    <3>2. CASE n > q
      <4>1. n \in (q + 1)..(pushed + 1) /\ Old(n) = n - 1
          BY <1>0, <3>2
      <4>2. QED
          BY <1>e, <4>1
    <3>3. QED
        BY <1>0, <2>1, <3>1, <3>2
  <2>2. CASE i = q
    <3>1. j # q => FALSE
        BY <1>1, <1>e, <2>1, <2>2
    <3>2. QED
        BY <2>2, <3>1
  <2>3. CASE j = q
    <3>1. i # q => FALSE
        BY <1>1, <1>e, <2>1, <2>3
    <3>2. QED
        BY <2>3, <3>1
  <2>4. CASE i # q /\ j # q
    <3>1. Old(i) \in 1..pushed /\ Old(j) \in 1..pushed /\ O[Old(i)] = O[Old(j)]
        BY <2>1, <2>4
    <3>2. Old(i) = Old(j)
        BY <3>1 DEF Path
    <3>3. QED
        BY <1>0, <2>4, <3>2
  <2>5. QED
      BY <2>2, <2>3, <2>4
<1>9. next'[head] = Q[gone + 1]
  <2>1. CASE q = gone + 1
      BY <1>3, <1>4, <1>e, <2>1
  <2>2. CASE q # gone + 1
    <3>1. gone + 1 \in 1..(q - 1) /\ gone + 1 <= pushed
        BY <1>0, <2>2
    <3>2. next[head] = O[gone + 1]
        BY <3>1 DEF Path, At
    <3>3. QED
        BY <1>2, <1>3, <1>7, <1>e, <2>2, <3>1, <3>2
  <2>3. QED
      BY <2>1, <2>2
<1>10. ASSUME NEW i \in (gone + 1)..(pushed + 1)
       PROVE  next'[Q[i]] = IF i + 1 <= pushed + 1 THEN Q[i + 1] ELSE NULL
  <2>0. i \in Int /\ gone + 1 <= i /\ i <= pushed + 1
      BY <1>0
  <2>1. CASE i < q - 1
    <3>1. i \in 1..(q - 1) /\ i + 1 \in 1..(q - 1) /\ i \in (gone + 1)..pushed /\ i + 1 <= pushed
        BY <1>0, <2>0, <2>1
    <3>2. Q[i] = O[i] /\ Q[i + 1] = O[i + 1] /\ O[i] # F /\ O[i] # new /\ O[i] \in Node
        BY <1>1, <1>6, <1>e, <2>0, <2>1, <3>1
    <3>3. next[O[i]] = O[i + 1]
        BY <3>1 DEF Path, At
    <3>4. QED
        BY <1>0, <1>3, <2>0, <3>1, <3>2, <3>3
  <2>2. CASE i = q - 1
    <3>1. q # gone + 1 /\ i \in 1..(q - 1) /\ i + 1 = q
        BY <1>0, <2>0, <2>2
    <3>2. Q[i] = F
        BY <1>5, <1>e, <2>2, <3>1
    <3>3. QED
        BY <1>0, <1>3, <1>e, <3>1, <3>2
  <2>3. CASE i = q
    <3>1. next'[Q[i]] = At(O, q)
        BY <1>3, <1>e, <2>3
    <3>2. CASE q = pushed + 1
      <4>1. ~(q <= pushed) /\ ~(i + 1 <= pushed + 1)
          BY <1>0, <2>3, <3>2
      <4>2. QED
          BY <3>1, <4>1 DEF At
    <3>3. CASE q # pushed + 1
      <4>1. q <= pushed /\ i + 1 <= pushed + 1 /\ i + 1 \in (q + 1)..(pushed + 1) /\ i + 1 - 1 = q
          BY <1>0, <2>3, <3>3
      <4>2. Q[i + 1] = O[q]
          BY <1>e, <4>1
      <4>3. QED
          BY <3>1, <4>1, <4>2 DEF At
    <3>4. QED
        BY <3>2, <3>3
  <2>4. CASE i > q
    <3>1. i \in (q + 1)..(pushed + 1) /\ i - 1 \in (gone + 1)..pushed /\ i - 1 \in 1..pushed /\ i - 1 + 1 = i /\ i - 1 # q - 1
        BY <1>0, <2>0, <2>4
    <3>2. Q[i] = O[i - 1] /\ O[i - 1] # F /\ O[i - 1] # new /\ O[i - 1] \in Node
        BY <1>1, <1>6, <1>e, <3>1
    <3>3. next'[Q[i]] = At(O, i)
        BY <1>3, <3>1, <3>2 DEF Path
    <3>4. CASE i = pushed + 1
        BY <1>0, <3>3, <3>4 DEF At
    <3>5. CASE i # pushed + 1
      <4>1. i <= pushed /\ i + 1 <= pushed + 1 /\ i + 1 \in (q + 1)..(pushed + 1) /\ i + 1 - 1 = i
          BY <1>0, <2>0, <2>4, <3>5
      <4>2. Q[i + 1] = O[i]
          BY <1>e, <4>1
      <4>3. QED
          BY <3>3, <4>1, <4>2 DEF At
    <3>6. QED
        BY <3>4, <3>5
  <2>5. QED
      BY <1>0, <2>0, <2>1, <2>2, <2>3, <2>4
<1>11. tail' = Q[pushed + 1]
  <2>1. CASE q = pushed + 1
      BY <1>e, <2>1 DEF LinkedAt, new
  <2>2. CASE q # pushed + 1
    <3>1. pushed + 1 \in (q + 1)..(pushed + 1) /\ pushed + 1 - 1 = pushed /\ gone # pushed
        BY <1>0, <2>2
    <3>2. Q[pushed + 1] = O[pushed]
        BY <1>e, <3>1
    <3>3. QED
        BY <2>2, <3>1, <3>2 DEF LinkedAt, Path
  <2>3. QED
      BY <2>1, <2>2
<1>12. gone' <= pushed' /\ gone' # pushed' /\ gone' + 1 <= pushed'
    BY <1>0
<1>14. \A i \in (gone + 1)..(pushed + 1) : next'[Q[i]] = At(Q, i + 1)'
    BY <1>0, <1>10 DEF At
<1>15. gone' <= pushed' /\ Q \in [1..pushed' -> 1..pushed']
    BY <1>0, <1>e
<1>16. \A i, j \in 1..pushed' : Q[i] = Q[j] => i = j
    BY <1>0, <1>8
<1>17. next'[head] = At(Q, gone + 1)'
    BY <1>0, <1>9, <1>12 DEF At
<1>18. \A i \in (gone' + 1)..pushed' : next'[Q[i]] = At(Q, i + 1)'
    BY <1>0, <1>14
<1>19. tail' = IF gone' = pushed' THEN head ELSE Q[pushed']
    BY <1>0, <1>11, <1>12
<1>20. QED
    BY <1>15, <1>16, <1>17, <1>18, <1>19 DEF Path, head

LEMMA AppendField ==
  ASSUME NEW S, NEW n \in Nat, NEW f \in [1..n -> S], NEW e \in S
  PROVE  /\ Append(f, e) \in [1..(n + 1) -> S]
         /\ \A i \in 1..n : Append(f, e)[i] = f[i]
         /\ Append(f, e)[n + 1] = e
<1>1. f \in Seq(S) /\ Len(f) = n
    OBVIOUS
<1>2. /\ Append(f, e) \in Seq(S)
      /\ Len(Append(f, e)) = n + 1
      /\ \A i \in 1..n : Append(f, e)[i] = f[i]
      /\ Append(f, e)[n + 1] = e
    BY <1>1, AppendProperties
<1>3. Append(f, e) \in [1..(n + 1) -> S]
    BY <1>2, LenProperties
<1>4. QED
    BY <1>2, <1>3

LEMMA ArrivalFields ==
  ASSUME TypeOK, NEW s \in StSize, queue_push(s)
  PROVE  /\ pushed < MaxReq /\ pushed' = pushed + 1 /\ served' = served
         /\ buffer_head_hist' = buffer_head_hist /\ sched_alg_code' = sched_alg_code
         /\ st_size' \in [1..(pushed + 1) -> StSize]
         /\ \A i \in 1..pushed : st_size'[i] = st_size[i]
         /\ st_size'[pushed + 1] = s
<1>1. pushed \in Nat /\ MaxReq \in Nat
    BY QueueAssumption DEF TypeOK
<1>2. st_size \in [1..pushed -> StSize]
    BY DEF TypeOK
<1>3. st_size' = Append(st_size, s)
    BY DEF queue_push, Allocate
<1>4. buffer_head_hist \in 0..MaxReq
    BY DEF TypeOK
<1>5. /\ st_size' \in [1..(pushed + 1) -> StSize]
      /\ \A i \in 1..pushed : st_size'[i] = st_size[i]
      /\ st_size'[pushed + 1] = s
  <2>1. Append(st_size, s) \in [1..(pushed + 1) -> StSize]
      BY <1>1, <1>2, <1>4, AppendField
  <2>2. \A i \in 1..pushed : Append(st_size, s)[i] = st_size[i]
      BY <1>1, <1>2, <1>4, AppendField
  <2>3. Append(st_size, s)[pushed + 1] = s
      BY <1>1, <1>2, <1>4, AppendField
  <2>4. QED
      BY <1>3, <2>1, <2>2, <2>3, Zenon
<1>6. QED
    BY <1>5 DEF queue_push, Allocate

LEMMA ArrivalType ==
  ASSUME TypeOK, NEW O, Path(O), NEW s \in StSize, queue_push(s)
  PROVE  TypeOK'
<1>1. StSize' = StSize
    BY ArrivalFields DEF StSize
<1>2. pushed' \in 0..MaxReq
    BY ArrivalFields, QueueAssumption DEF TypeOK
<1>3. next' \in [Node -> Link] /\ tail' \in Node
  <2> USE Basics
  <2>1. PICK q \in (gone + 1)..(pushed + 1) : LinkedAt(O, q)
      BY PushLinks
  <2>2. pushed < MaxReq
      BY ArrivalFields
  <2>3. pushed + 1 \in Node
      BY <2>2 DEF Node
  <2>4. At(O, q) \in Link
      BY DEF At, Link, Node
  <2>5. QED
      BY <2>1, <2>3, <2>4 DEF LinkedAt, Link
<1>4. st_size' \in [1..pushed' -> StSize']
    BY <1>1, ArrivalFields
<1>5. QED
    BY <1>1, <1>2, <1>3, <1>4, ArrivalFields DEF TypeOK

LEMMA ArrivalKeepsRecord ==
  ASSUME TypeOK, NEW O, Path(O), Record(O), NEW s \in StSize, queue_push(s),
         NEW q \in (gone + 1)..(pushed + 1), NEW Q, InsertedElements(O, q, Q)
  PROVE  Record(Q)'
<1> USE Basics
<1>1. gone' = gone /\ served' = served /\ buffer_head_hist' = buffer_head_hist
    BY ArrivalFields DEF gone
<1>2. ASSUME NEW k \in 1..gone
      PROVE  served[k] = [id |-> Q[k], size |-> st_size'[Q[k]]]
  <2>1. k \in 1..(q - 1) /\ k \in 1..pushed
      OBVIOUS
  <2>2. Q[k] = O[k]
      BY <2>1 DEF InsertedElements
  <2>3. O[k] \in 1..pushed
      BY <2>1
  <2>4. st_size'[O[k]] = st_size[O[k]]
      BY <2>3, ArrivalFields
  <2>5. QED
      BY <2>2, <2>4 DEF Record
<1>3. QED
    BY <1>1, <1>2 DEF Record

-----------------------------------------------------------------------------
(* A dispatch.                                                              *)

LEMMA DispatchFields ==
  ASSUME TypeOK, NEW O, Path(O), handle_request
  PROVE  /\ gone < pushed /\ next[head] = O[gone + 1] /\ gone + 1 \in 1..pushed
         /\ gone' = gone + 1 /\ pushed' = pushed
         /\ next' = [next EXCEPT ![head] = At(O, gone + 2)]
         /\ tail' = IF gone + 1 = pushed THEN head ELSE tail
         /\ UNCHANGED <<st_size, sched_alg_code>>
         /\ served' = Append(served, [id |-> O[gone + 1], size |-> st_size[O[gone + 1]]])
         /\ buffer_head_hist' = buffer_head_hist + 1
<1> USE Basics
<1>1. gone < pushed /\ next[head] = O[gone + 1] /\ gone + 1 \in 1..pushed
  <2>1. next[head] # NULL
      BY DEF handle_request
  <2>2. gone + 1 <= pushed /\ next[head] = O[gone + 1]
      BY <2>1 DEF Path, At
  <2>3. QED
      BY <2>2
<1>2. next[O[gone + 1]] = At(O, gone + 2)
  <2>1. gone + 1 \in (gone + 1)..pushed /\ gone + 1 + 1 = gone + 2
      BY <1>1
  <2>2. QED
      BY <2>1 DEF Path
<1>3. next' = [next EXCEPT ![head] = At(O, gone + 2)]
    BY <1>1, <1>2 DEF handle_request, queue_pop
<1>4. next'[head] = At(O, gone + 2)
  <2>1. head \in Node
      BY DEF Node, head
  <2>2. QED
      BY <1>3, <2>1
<1>5. At(O, gone + 2) = NULL <=> gone + 1 = pushed
  <2>1. CASE gone + 1 = pushed
    <3>1. ~(gone + 2 <= pushed)
        BY <2>1
    <3>2. QED
        BY <2>1, <3>1 DEF At
  <2>2. CASE gone + 1 # pushed
    <3>1. gone + 2 \in 1..pushed /\ gone + 2 <= pushed
        BY <1>1, <2>2
    <3>2. QED
        BY <2>2, <3>1 DEF At
  <2>3. QED
      BY <2>1, <2>2
<1>6. tail' = IF gone + 1 = pushed THEN head ELSE tail
    BY <1>4, <1>5 DEF handle_request, queue_pop
<1>7. served' = Append(served, [id |-> O[gone + 1], size |-> st_size[O[gone + 1]]])
    BY <1>1 DEF handle_request
<1>8. gone' = gone + 1
    BY <1>7 DEF gone, TypeOK
<1>9. QED
    BY <1>1, <1>3, <1>6, <1>7, <1>8 DEF handle_request

LEMMA DispatchKeepsPath ==
  ASSUME TypeOK, NEW O, Path(O), handle_request
  PROVE  Path(O)'
<1> USE Basics
<1>0. gone \in Nat /\ pushed \in Nat /\ gone < pushed /\ gone' = gone + 1 /\ pushed' = pushed
    BY DispatchFields
<1>1. /\ next'[head] = At(O, gone + 2)
      /\ \A n \in Node : n # head => next'[n] = next[n]
  <2>1. head \in Node
      BY DEF Node, head
  <2>2. next' = [next EXCEPT ![head] = At(O, gone + 2)]
      BY DispatchFields
  <2>3. QED
      BY <2>1, <2>2
<1>2. next'[head] = At(O, gone + 1)'
    BY <1>0, <1>1 DEF At
<1>3. ASSUME NEW i \in (gone + 2)..pushed PROVE next'[O[i]] = At(O, i + 1)'
  <2>1. i \in (gone + 1)..pushed /\ i \in 1..pushed
      BY <1>0
  <2>2. O[i] \in 1..pushed
      BY <2>1
  <2>3. O[i] \in Node /\ O[i] # head
      BY <2>2 DEF Node, head
  <2>4. next'[O[i]] = At(O, i + 1)
      BY <1>1, <2>1, <2>3 DEF Path
  <2>5. QED
      BY <1>0, <2>4 DEF At
<1>4. tail' = IF gone' = pushed' THEN head ELSE O[pushed']
  <2>1. tail = O[pushed]
      BY <1>0 DEF Path
  <2>2. QED
      BY <1>0, <2>1, DispatchFields
<1>5. gone' <= pushed' /\ O \in [1..pushed' -> 1..pushed'] /\ \A i, j \in 1..pushed' : O[i] = O[j] => i = j
    BY <1>0 DEF Path
<1>6. \A i \in (gone' + 1)..pushed' : next'[O[i]] = At(O, i + 1)'
    BY <1>0, <1>3
<1>7. QED
    BY <1>2, <1>4, <1>5, <1>6 DEF Path, head

LEMMA DispatchKeepsRecord ==
  ASSUME TypeOK, NEW O, Path(O), Record(O), handle_request
  PROVE  Record(O)'
<1> USE Basics
<1>1. gone' = gone + 1 /\ buffer_head_hist' = gone + 1 /\ st_size' = st_size
    BY DispatchFields DEF Record
<1> DEFINE T == [id : 1..MaxReq, size : StSize]
           r == [id |-> O[gone + 1], size |-> st_size[O[gone + 1]]]
<1>2. served' = Append(served, r) /\ served \in Seq(T)
    BY DispatchFields DEF Record, TypeOK
<1> HIDE DEF r, T
<1>3. served'[gone + 1] = r /\ \A k \in 1..gone : served'[k] = served[k]
    BY <1>2 DEF gone
<1>4. ASSUME NEW k \in 1..(gone + 1)
      PROVE  served'[k] = [id |-> O[k], size |-> st_size[O[k]]]
  <2>1. CASE k = gone + 1
    <3>1. k - 1 = gone
        BY <2>1
    <3>2. QED
        BY <1>3, <2>1, <3>1 DEF r
  <2>2. CASE k # gone + 1
    <3>1. k \in 1..gone
        BY <2>2
    <3>2. QED
        BY <1>3, <3>1 DEF Record
  <2>3. QED
      BY <2>1, <2>2
<1>5. QED
    BY <1>1, <1>4 DEF Record

LEMMA DispatchType ==
  ASSUME TypeOK, NEW O, Path(O), Record(O), handle_request
  PROVE  TypeOK'
<1> USE Basics
<1>1. StSize' = StSize /\ pushed' = pushed /\ st_size' = st_size /\ sched_alg_code' = sched_alg_code
    BY DispatchFields DEF StSize
<1>2. next' \in [Node -> Link] /\ tail' \in Node
  <2>1. At(O, gone + 2) \in Link /\ head \in Node
      BY DEF At, Link, Node, head
  <2>2. QED
      BY <2>1, DispatchFields
<1>3. buffer_head_hist' \in 0..MaxReq
  <2>1. gone < pushed /\ buffer_head_hist' = gone + 1
      BY DispatchFields DEF Record
  <2>2. QED
      BY <2>1
<1>4. served' \in Seq([id : 1..MaxReq, size : StSize])
  <2> DEFINE T == [id : 1..MaxReq, size : StSize]
             r == [id |-> O[gone + 1], size |-> st_size[O[gone + 1]]]
  <2>1. O[gone + 1] \in 1..pushed /\ gone + 1 \in 1..pushed
      BY DispatchFields
  <2>2. st_size[O[gone + 1]] \in StSize
      BY <2>1 DEF TypeOK
  <2>3. r \in T
      BY <2>1, <2>2
  <2>4. served' = Append(served, r) /\ served \in Seq(T)
      BY DispatchFields DEF TypeOK
  <2> HIDE DEF r, T
  <2>5. served' \in Seq(T)
      BY <2>3, <2>4
  <2>6. QED
      BY <2>5 DEF T
<1>5. QED
    BY <1>1, <1>2, <1>3, <1>4 DEF TypeOK

-----------------------------------------------------------------------------
(* The list and the line.                                                   *)

LEMMA ListInLine ==
  ASSUME TypeOK, NEW O, Path(O)
  PROVE  /\ Line \in Seq(Scheduler!Request)
         /\ Len(Line) = pushed - gone
         /\ \A i \in 1..(pushed - gone) :
              /\ gone + i \in 1..pushed
              /\ st_size[O[gone + i]] \in Int
              /\ Line[i].id = O[gone + i] /\ Line[i].size = st_size[O[gone + i]]
              /\ Line[i] = [id |-> O[gone + i], size |-> st_size[O[gone + i]]]
<1> USE Basics
<1>1. Line = [i \in 1..(pushed - gone) |-> Waits(O, i)]
    BY LineIsPath DEF LineShown
<1>2. ASSUME NEW i \in 1..(pushed - gone)
      PROVE  /\ gone + i \in 1..pushed /\ O[gone + i] \in 1..MaxReq
             /\ st_size[O[gone + i]] \in Int /\ st_size[O[gone + i]] \in Sizes
  <2>1. gone + i \in 1..pushed
      OBVIOUS
  <2>2. O[gone + i] \in 1..pushed
      BY <2>1
  <2>3. st_size[O[gone + i]] \in StSize
      BY <2>2 DEF TypeOK
  <2>4. QED
      BY <2>1, <2>2, <2>3, QueueAssumption DEF StSize, Sizes
<1>3. \A i \in 1..(pushed - gone) : Waits(O, i) \in Scheduler!Request
    BY <1>2 DEF Waits, Scheduler!Request, Sizes
<1>4. Line \in [1..(pushed - gone) -> Scheduler!Request]
    BY <1>1, <1>3
<1>5. pushed - gone \in Nat
    OBVIOUS
<1>6. Line \in Seq(Scheduler!Request) /\ Len(Line) = pushed - gone
    BY <1>4, <1>5
<1>7. \A i \in 1..(pushed - gone) : Line[i] = Waits(O, i)
    BY <1>1
<1>8. QED
    BY <1>2, <1>6, <1>7 DEF Waits

LEMMA NextListInLine ==
  ASSUME TypeOK', NEW O, Path(O)'
  PROVE  /\ Line' \in Seq(Scheduler!Request)
         /\ Len(Line') = pushed' - gone'
         /\ \A i \in 1..(pushed' - gone') :
              Line'[i] = [id |-> O[gone' + i], size |-> st_size'[O[gone' + i]]]
<1>0. PICK g, n, z : g = gone' /\ n = pushed' /\ z = st_size'
    OBVIOUS
<1>1. Line' = [i \in 1..(n - g) |-> [id |-> O[g + i], size |-> z[O[g + i]]]]
    BY <1>0, NextLineIsPath DEF LineShown, Waits
<1>2. n \in Nat /\ g \in Nat /\ g <= n /\ MaxReq \in Nat /\ n <= MaxReq
  <2>1. MaxReq \in Nat /\ n \in 0..MaxReq
      BY <1>0, QueueAssumption DEF TypeOK
  <2>2. g \in Nat
      BY <1>0 DEF TypeOK, gone
  <2>3. g <= n
      BY <1>0 DEF Path
  <2>4. QED
      BY <2>1, <2>2, <2>3
<1>3. ASSUME NEW i \in 1..(n - g)
      PROVE  O[g + i] \in 1..MaxReq /\ z[O[g + i]] \in Sizes
  <2>1. g + i \in 1..n
      BY <1>2
  <2>2. O[g + i] \in 1..n
      BY <1>0, <2>1 DEF Path
  <2>3. z[O[g + i]] \in StSize'
      BY <1>0, <2>2 DEF TypeOK
  <2>4. QED
      BY <1>2, <2>2, <2>3 DEF StSize, Sizes
<1>4. Line' \in [1..(n - g) -> Scheduler!Request]
    BY <1>1, <1>3 DEF Scheduler!Request, Sizes
<1>5. n - g \in Nat
    BY <1>2
<1>6. Line' \in Seq(Scheduler!Request) /\ Len(Line') = n - g
    BY <1>4, <1>5
<1>7. \A i \in 1..(n - g) : Line'[i] = [id |-> O[g + i], size |-> z[O[g + i]]]
    BY <1>1
<1>8. QED
    BY <1>0, <1>6, <1>7

\* queue_push finds the place the policy names.
LEMMA PlaceIsPlace ==
  ASSUME TypeOK, NEW O, Path(O), Record(O), Scheduler!LineOrdered, NEW s \in StSize, pushed < MaxReq,
         NEW q \in (gone + 1)..(pushed + 1), PlaceFor(O, s, q)
  PROVE  Scheduler!Place(s, q - gone - 1)
<1> USE Basics
<1> DEFINE p == q - gone - 1
<1>0. /\ q \in Int /\ gone + 1 <= q /\ q <= pushed + 1 /\ pushed \in Nat /\ gone \in Nat
      /\ pushed < MaxReq /\ MaxReq \in Nat
    OBVIOUS
<1>1. Len(Line) = pushed - gone
    BY ListInLine
<1>2. s \in Int
    BY QueueAssumption DEF StSize
<1>3. CASE sched_alg_code = FIFO
  <2>1. p = Len(Line)
      BY <1>0, <1>1, <1>3 DEF PlaceFor
  <2>2. QED
      BY <1>3, <2>1 DEF Scheduler!Place, Scheduler!FifoPlace, Scheduler!FIFO, FIFO
<1>4. ASSUME sched_alg_code # FIFO
      PROVE  /\ \A i \in 1..p : i < max_search /\ Line[i].size <= s
             /\ p + 1 >= max_search \/ p = Len(Line) \/ (p < Len(Line) /\ Line[p + 1].size > s)
  <2>1. ASSUME NEW i \in 1..p PROVE i < max_search /\ Line[i].size <= s
    <3>1. gone + i \in (gone + 1)..(q - 1) /\ i \in 1..(pushed - gone) /\ gone + i - gone = i
        BY <1>0
    <3>2. i < max_search /\ st_size[O[gone + i]] <= s
        BY <1>4, <3>1 DEF PlaceFor
    <3>3. QED
        BY <3>1, <3>2, ListInLine
  <2>2. q - gone = p + 1 /\ (q = pushed + 1 <=> p = Len(Line)) /\ gone + (p + 1) = q
      BY <1>0, <1>1
  <2>3. q # pushed + 1 => p + 1 \in 1..(pushed - gone) /\ p < Len(Line)
      BY <1>0, <1>1
  <2>4. q # pushed + 1 => Line[p + 1].size = st_size[O[q]]
      BY <2>2, <2>3, ListInLine
  <2>5. QED
      BY <1>4, <2>1, <2>2, <2>3, <2>4 DEF PlaceFor
<1>5. CASE sched_alg_code = SFF
  <2>1. max_search = MaxReq + 1
      BY <1>5 DEF max_search, SFF, SFF_BS
  <2>2. p = Len(Line) \/ (p < Len(Line) /\ Line[p + 1].size > s)
      BY <1>0, <1>4, <1>5, <2>1 DEF SFF, FIFO
  <2>3. ASSUME NEW i \in (p + 1)..Len(Line) PROVE Line[i].size > s
    <3>1. p < Len(Line) /\ Line[p + 1].size > s
        BY <1>0, <1>1, <2>2
    <3>2. p + 1 \in 1..(pushed - gone) /\ i \in 1..(pushed - gone) /\ p + 1 \in 1..Len(Line) /\ i \in 1..Len(Line)
        BY <1>0, <1>1
    <3>3. Line[p + 1].size \in Int /\ Line[i].size \in Int
        BY <3>2, ListInLine
    <3>4. CASE i = p + 1
        BY <3>1, <3>4
    <3>5. CASE i # p + 1
      <4>1. p + 1 < i
          BY <1>0, <3>5
      <4>2. Line[p + 1].size <= Line[i].size
        <5>1. Scheduler!Before(Line[p + 1], Line[i])
            BY <1>5, <3>2, <4>1 DEF Scheduler!LineOrdered, Scheduler!SFF, SFF
        <5>2. Line[p + 1].size < Line[i].size \/ Line[p + 1].size = Line[i].size
            BY <5>1 DEF Scheduler!Before
        <5>3. QED
            BY <3>3, <5>2
      <4>3. QED
          BY <1>2, <3>1, <3>3, <4>2, SMTT(40)
    <3>6. QED
        BY <3>4, <3>5
  <2>4. \A i \in 1..p : Line[i].size <= s
      BY <1>4, <1>5 DEF SFF, FIFO
  <2> HIDE DEF p
  <2>5. Scheduler!SffPlace(s, p)
      BY <2>3, <2>4 DEF Scheduler!SffPlace
  <2>6. Scheduler!Place(s, p)
      BY <1>5, <2>5 DEF Scheduler!Place, Scheduler!SFF, SFF
  <2>7. QED
      BY <2>6 DEF p
<1>6. CASE sched_alg_code = SFF_BS
    BY <1>6 DEF Scheduler!Place, Scheduler!SFF_BS, SFF_BS
<1>7. QED
    BY <1>3, <1>5, <1>6, QueueAssumption DEF TypeOK

LEMMA ArrivalArrives ==
  ASSUME TypeOK, NEW O, Path(O), Record(O), Scheduler!LineOrdered, NEW s \in StSize, queue_push(s),
         NEW q \in (gone + 1)..(pushed + 1), PlaceFor(O, s, q),
         NEW Q, InsertedElements(O, q, Q), TypeOK', Path(Q)'
  PROVE  Scheduler!Arrive(s)
<1> USE Basics
<1> DEFINE p == q - gone - 1
           new == Scheduler!NewRequest(s)
<1>0. /\ q \in Int /\ gone + 1 <= q /\ q <= pushed + 1 /\ pushed \in Nat /\ gone \in Nat
      /\ pushed < MaxReq /\ MaxReq \in Nat /\ pushed' = pushed + 1 /\ gone' = gone
    BY ArrivalFields DEF gone
<1>1. Len(Line) = pushed - gone /\ Line \in Seq(Scheduler!Request)
    BY ListInLine
<1>2. p \in 0..Len(Line) /\ p + 1 \in 1..(Len(Line) + 1) /\ p \in Int /\ gone + (p + 1) = q
    BY <1>0, <1>1
<1>3. Scheduler!Place(s, p)
    BY ArrivalFields, PlaceIsPlace
<1>4. new = [id |-> pushed + 1, size |-> s] /\ new \in Scheduler!Request
  <2>1. s \in Sizes
      BY DEF StSize, Sizes
  <2>2. QED
      BY <1>0, <2>1 DEF Scheduler!NewRequest, Scheduler!Request, Sizes
<1> HIDE DEF new, p
<1>5. /\ Scheduler!InsertAt(Line, p + 1, new) \in Seq(Scheduler!Request)
      /\ Len(Scheduler!InsertAt(Line, p + 1, new)) = Len(Line) + 1
      /\ \A i \in 1..(Len(Line) + 1) :
           Scheduler!InsertAt(Line, p + 1, new)[i] =
             IF i < p + 1 THEN Line[i] ELSE IF i = p + 1 THEN new ELSE Line[i - 1]
  <2> DEFINE place == p + 1
  <2>1. place \in 1..(Len(Line) + 1)
      BY <1>2
  <2> HIDE DEF place
  <2>2. /\ Scheduler!InsertAt(Line, place, new) \in Seq(Scheduler!Request)
        /\ Len(Scheduler!InsertAt(Line, place, new)) = Len(Line) + 1
        /\ \A i \in 1..(Len(Line) + 1) :
             Scheduler!InsertAt(Line, place, new)[i] =
               IF i < place THEN Line[i] ELSE IF i = place THEN new ELSE Line[i - 1]
    <3>1. Line \in Seq(Scheduler!Request) /\ new \in Scheduler!Request
        BY <1>1, <1>4
    <3>2. QED
        <4>1. InsertedAt(Scheduler!InsertAt(Line, place, new), Scheduler!Request, Line, place, new)
            BY <2>1, <3>1, InsertAtInserts
        <4>2. QED
            BY <4>1 DEF InsertedAt
  <2>3. QED
      BY <2>2 DEF place
<1>6. /\ Line' \in Seq(Scheduler!Request) /\ Len(Line') = Len(Line) + 1
      /\ \A i \in 1..(Len(Line) + 1) :
           Line'[i] = [id |-> Q[gone + i], size |-> st_size'[Q[gone + i]]]
  <2>1. pushed' - gone' = Len(Line) + 1
      BY <1>0, <1>1
  <2>2. QED
      BY <1>0, <2>1, NextListInLine
<1>7. ASSUME NEW i \in 1..(Len(Line) + 1)
      PROVE  Line'[i] = Scheduler!InsertAt(Line, p + 1, new)[i]
  <2>0. i \in Int /\ i >= 1 /\ i <= pushed - gone + 1
      BY <1>0, <1>1
  <2>1. CASE i < p + 1
    <3>1. gone + i \in 1..(q - 1) /\ i \in 1..(pushed - gone)
        BY <1>0, <1>2, <2>0, <2>1
    <3>2. Q[gone + i] = O[gone + i] /\ gone + i \in 1..pushed
        BY <3>1 DEF InsertedElements
    <3>3. O[gone + i] \in 1..pushed
        BY <3>2
    <3>4. st_size'[O[gone + i]] = st_size[O[gone + i]]
        BY <3>3, ArrivalFields
    <3>5. Line'[i] = Line[i]
        BY <1>6, <3>1, <3>2, <3>4, ListInLine
    <3>6. QED
        BY <1>5, <2>1, <3>5
  <2>2. CASE i = p + 1
    <3>1. Q[gone + i] = pushed + 1
        BY <1>2, <2>2 DEF InsertedElements
    <3>2. st_size'[pushed + 1] = s
        BY ArrivalFields
    <3>3. Line'[i] = new
        BY <1>4, <1>6, <3>1, <3>2
    <3>4. QED
        BY <1>2, <1>5, <2>2, <3>3
  <2>3. CASE i > p + 1
    <3>1. gone + i \in (q + 1)..(pushed + 1) /\ i - 1 \in 1..(pushed - gone) /\ gone + i - 1 = gone + (i - 1)
        BY <1>0, <1>2, <2>0, <2>3
    <3>2. Q[gone + i] = O[gone + (i - 1)] /\ gone + (i - 1) \in 1..pushed
      <4>1. gone + i - 1 \in 1..pushed /\ Q[gone + i] = O[gone + i - 1]
        <5> DEFINE k == gone + i
        <5>1. k \in (q + 1)..(pushed + 1)
            BY <3>1
        <5> HIDE DEF k
        <5>2. k - 1 \in 1..pushed /\ Q[k] = O[k - 1]
            BY <5>1 DEF InsertedElements
        <5>3. QED
            BY <5>2 DEF k
      <4>2. QED
          BY <3>1, <4>1
    <3>3. O[gone + (i - 1)] \in 1..pushed
        BY <3>2
    <3>4. st_size'[O[gone + (i - 1)]] = st_size[O[gone + (i - 1)]]
        BY <3>3, ArrivalFields
    <3>5. Line'[i] = Line[i - 1]
        BY <1>6, <3>1, <3>2, <3>4, ListInLine, SMTT(40)
    <3>6. ~(i < p + 1) /\ i # p + 1
        BY <1>2, <2>0, <2>3
    <3>7. QED
        BY <1>5, <3>5, <3>6
  <2>4. QED
      BY <1>2, <2>0, <2>1, <2>2, <2>3
<1>8. Line' = Scheduler!InsertAt(Line, p + 1, new)
    BY ONLY <1>5, <1>6, <1>7, SeqEqual
<1>9. served' = served /\ sched_alg_code' = sched_alg_code
    BY ArrivalFields
<1>10. QED
    BY <1>0, <1>2, <1>3, <1>8, <1>9 DEF Scheduler!Arrive, new

LEMMA DispatchDispatches ==
  ASSUME TypeOK, NEW O, Path(O), handle_request, TypeOK', Path(O)'
  PROVE  /\ Scheduler!Dispatch
         /\ Len(Line) > 0
         /\ Last(served').id = Line[1].id /\ Last(served').size = Line[1].size
<1> USE Basics
<1> DEFINE r == [id |-> O[gone + 1], size |-> st_size[O[gone + 1]]]
           T == [id : 1..MaxReq, size : StSize]
<1>0. /\ gone \in Nat /\ pushed \in Nat /\ gone < pushed /\ gone' = gone + 1 /\ pushed' = pushed
      /\ st_size' = st_size /\ sched_alg_code' = sched_alg_code /\ served' = Append(served, r)
    BY DispatchFields
<1>1. /\ Line \in Seq(Scheduler!Request) /\ Len(Line) = pushed - gone
      /\ \A i \in 1..(pushed - gone) : Line[i] = [id |-> O[gone + i], size |-> st_size[O[gone + i]]]
    BY ListInLine
<1>2. /\ Line' \in Seq(Scheduler!Request) /\ Len(Line') = pushed - (gone + 1)
      /\ \A i \in 1..(pushed - (gone + 1)) : Line'[i] = [id |-> O[gone + 1 + i], size |-> st_size[O[gone + 1 + i]]]
    BY <1>0, NextListInLine
<1>3. Line # <<>> /\ Len(Line) > 0
    BY <1>0, <1>1
<1>4. Tail(Line) \in Seq(Scheduler!Request) /\ Len(Tail(Line)) = Len(Line) - 1
      /\ \A i \in 1..(Len(Line) - 1) : Tail(Line)[i] = Line[i + 1]
    BY <1>1, <1>3, HeadTailProperties
<1>5. ASSUME NEW i \in 1..Len(Line') PROVE Line'[i] = Tail(Line)[i]
  <2>1. i \in 1..(pushed - (gone + 1)) /\ i + 1 \in 1..(pushed - gone) /\ i \in 1..(Len(Line) - 1) /\ gone + (i + 1) = gone + 1 + i
      BY <1>0, <1>1, <1>2, SMTT(40)
  <2>2. QED
      BY <1>1, <1>2, <1>4, <2>1
<1>6. Line' = Tail(Line)
  <2>1. Len(Line') = Len(Tail(Line))
      BY <1>0, <1>1, <1>2, <1>4
  <2>2. QED
      BY ONLY <1>2, <1>4, <1>5, <2>1, SeqEqual
<1>7. Line[1] = [id |-> O[gone + 1], size |-> st_size[O[gone + 1]]] /\ Head(Line) = Line[1]
    BY <1>0, <1>1, <1>3
<1>8. served \in Seq(T) /\ r \in T
  <2>1. O[gone + 1] \in 1..pushed /\ gone + 1 \in 1..pushed
      BY <1>0
  <2>2. st_size[O[gone + 1]] \in StSize
      BY <2>1 DEF TypeOK
  <2>3. r \in T
      BY <2>1, <2>2
  <2>4. QED
      BY <2>3 DEF TypeOK
<1>r. r.id = Line[1].id /\ r.size = Line[1].size /\ Line[1] = [id |-> r.id, size |-> r.size]
    BY <1>7
<1> HIDE DEF r, T
<1>9. /\ served' \in Seq(T) /\ Len(served') = gone + 1 /\ served'[gone + 1] = r
      /\ \A i \in 1..gone : served'[i] = served[i]
    BY <1>0, <1>8 DEF gone
<1>10. Last(served') = r
    BY <1>9 DEF Last
<1>11. served' = Append(served, Head(Line))
    BY <1>0, <1>7 DEF r
<1>12. QED
    BY <1>0, <1>3, <1>6, <1>10, <1>11, <1>r DEF Scheduler!Dispatch

-----------------------------------------------------------------------------
(* The theorems.                                                            *)

LEMMA InitQueueInv == Init => QueueInv /\ Scheduler!Init
<1> SUFFICES ASSUME Init PROVE QueueInv /\ Scheduler!Init
    OBVIOUS
<1>1. /\ sched_alg_code \in Policies /\ next = [n \in Node |-> NULL] /\ tail = head
      /\ st_size = <<>> /\ pushed = 0 /\ buffer_head_hist = 0 /\ served = <<>>
    BY DEF Init, getargs, queue_init
<1>2. MaxReq \in Nat /\ gone = 0 /\ head \in Node
    BY <1>1, QueueAssumption DEF gone, Node, head
<1>3. TypeOK
  <2>1. next \in [Node -> Link] /\ tail \in Node
      BY <1>1, <1>2 DEF Link
  <2>2. <<>> \in [1..0 -> StSize]
      OBVIOUS
  <2>3. st_size \in [1..pushed -> StSize]
      BY <1>1, <2>2
  <2>4. served \in Seq([id : 1..MaxReq, size : StSize])
      BY <1>1
  <2>5. QED
      BY <1>1, <1>2, <2>1, <2>3, <2>4 DEF TypeOK
<1> DEFINE O == [i \in 1..0 |-> i]
<1>4. Path(O)
  <2>1. O \in [1..pushed -> 1..pushed] /\ \A i, j \in 1..pushed : O[i] = O[j] => i = j
      BY <1>1
  <2>2. next[head] = At(O, gone + 1)
      BY <1>1, <1>2 DEF At
  <2>3. (gone + 1)..pushed = {}
      BY <1>1, <1>2
  <2> HIDE DEF O
  <2>4. QED
      BY <1>1, <1>2, <2>1, <2>2, <2>3 DEF Path
<1>5. Record(O)
    BY <1>1, <1>2 DEF Record
<1>7. QueueInv
  <2>1. O \in [1..pushed -> 1..pushed]
      BY <1>1
  <2>2. QED
      BY <1>3, <1>4, <1>5, <2>1 DEF QueueInv
<1>8. Line = <<>>
  <2>1. Len(Line) = 0 /\ Line \in Seq(Scheduler!Request)
      BY <1>1, <1>2, <1>3, <1>4, ListInLine
  <2>2. QED
      BY <2>1
<1>9. QED
    BY <1>1, <1>7, <1>8 DEF Scheduler!Init

LEMMA StepQueueInv ==
  ASSUME QueueInv, Scheduler!LineOrdered, [Next]_vars
  PROVE  QueueInv' /\ [Scheduler!Next]_(Scheduler!vars)
<1>1. TypeOK
    BY DEF QueueInv
<1>2. PICK O : Path(O) /\ Record(O)
    BY DEF QueueInv
<1>3. CASE handle_request
  <2>1. TypeOK' /\ Path(O)' /\ Record(O)'
      BY <1>1, <1>2, <1>3, DispatchType, DispatchKeepsPath, DispatchKeepsRecord
  <2>3. O \in [1..pushed' -> 1..pushed']
      BY <2>1 DEF Path
  <2>4. Scheduler!Dispatch
      BY <1>1, <1>2, <1>3, <2>1, DispatchDispatches
  <2>5. QED
      BY <2>1, <2>3, <2>4 DEF QueueInv, Scheduler!Next
<1>4. ASSUME NEW s \in StSize, queue_push(s) PROVE QueueInv' /\ [Scheduler!Next]_(Scheduler!vars)
  <2>1. PICK q \in (gone + 1)..(pushed + 1) : LinkedAt(O, q) /\ PlaceFor(O, s, q)
      BY <1>1, <1>2, <1>4, PushLinks
  <2>2. PICK Q : Q = Inserted(O, q)
      OBVIOUS
  <2>3. InsertedElements(O, q, Q)
      BY <1>1, <1>2, <2>2, InsertedIs
  <2>4. TypeOK'
      BY <1>1, <1>2, <1>4, ArrivalType
  <2>5. Path(Q)'
    <3>1. pushed < MaxReq /\ pushed' = pushed + 1 /\ served' = served
        BY <1>1, <1>4, ArrivalFields
    <3>2. QED
        BY <1>1, <1>2, <2>1, <2>3, <3>1, LinkKeepsPath
  <2>6. Record(Q)'
      BY <1>1, <1>2, <1>4, <2>3, ArrivalKeepsRecord
  <2>8. Q \in [1..pushed' -> 1..pushed']
      BY <2>5 DEF Path
  <2>9. Scheduler!Arrive(s)
      BY <1>1, <1>2, <1>4, <2>1, <2>3, <2>4, <2>5, ArrivalArrives
  <2>10. s \in Sizes
      BY DEF StSize, Sizes
  <2>11. QED
      BY <2>4, <2>5, <2>6, <2>8, <2>9, <2>10 DEF QueueInv, Scheduler!Next, Sizes
<1>5. CASE UNCHANGED vars
  <2>1. /\ next' = next /\ tail' = tail /\ st_size' = st_size /\ pushed' = pushed
        /\ buffer_head_hist' = buffer_head_hist /\ served' = served /\ sched_alg_code' = sched_alg_code
      BY <1>5 DEF vars
  <2>2. gone' = gone /\ StSize' = StSize
      BY <2>1 DEF gone, StSize
  <2>3. TypeOK'
      BY <1>1, <2>1, <2>2 DEF TypeOK
  <2>4. \A k : At(O, k)' = At(O, k)
      BY <2>1 DEF At
  <2>5. Path(O)'
      BY <1>2, <2>1, <2>2 DEF Path, At, head
  <2>6. Record(O)'
      BY <1>2, <2>1, <2>2 DEF Record
  <2>7. O \in [1..pushed' -> 1..pushed']
      BY <2>5 DEF Path
  <2>8. Line' = Line
    <3>1. Line = [i \in 1..(pushed - gone) |-> Waits(O, i)]
        BY <1>1, <1>2, LineIsPath DEF LineShown
    <3>2. Line' = [i \in 1..(pushed' - gone') |-> [id |-> O[gone' + i], size |-> st_size'[O[gone' + i]]]]
        BY <2>3, <2>5, NextLineIsPath DEF LineShown, Waits
    <3>3. QED
        BY <2>1, <2>2, <3>1, <3>2 DEF Waits
  <2>10. QED
      BY <2>1, <2>3, <2>5, <2>6, <2>7, <2>8 DEF QueueInv, Scheduler!vars
<1>6. QED
    BY <1>3, <1>4, <1>5 DEF Next

ListAndLine == QueueInv /\ OrderInv

LEMMA InitListAndLine == Init => ListAndLine /\ Scheduler!Init
BY InitQueueInv, InitOrderInv, QueueAssumption DEF ListAndLine

LEMMA StepListAndLine == ListAndLine /\ [Next]_vars => ListAndLine' /\ [Scheduler!Next]_(Scheduler!vars)
<1> SUFFICES ASSUME ListAndLine, [Next]_vars
             PROVE  ListAndLine' /\ [Scheduler!Next]_(Scheduler!vars)
    OBVIOUS
<1>1. QueueInv' /\ [Scheduler!Next]_(Scheduler!vars)
    BY StepQueueInv DEF ListAndLine, OrderInv
<1>2. OrderInv'
    BY <1>1, StepOrderInv, QueueAssumption DEF ListAndLine
<1>3. QED
    BY <1>1, <1>2 DEF ListAndLine

LEMMA ListAndLineHolds == Spec => []ListAndLine
BY InitListAndLine, StepListAndLine, PTL DEF Spec

\* The types of the list hold in every state.
THEOREM TypeCorrect == Spec => []TypeOK
<1>1. ListAndLine => TypeOK
    BY DEF ListAndLine, QueueInv
<1>2. QED
    BY ListAndLineHolds, <1>1, PTL

\* tail is the last node of the list from the sentinel, whichever policy pushes
\* and however often the list runs empty (server.c 69-71, 105-109, 119-130).
THEOREM TailIsLastHolds == Spec => []TailIsLast
<1>1. ASSUME ListAndLine PROVE TailIsLast
  <2>1. TypeOK
      BY <1>1 DEF ListAndLine, QueueInv
  <2>2. PICK O : Path(O)
      BY <1>1 DEF ListAndLine, QueueInv
  <2>3. /\ Line \in Seq(Scheduler!Request) /\ Len(Line) = pushed - gone
        /\ \A i \in 1..(pushed - gone) : Line[i].id = O[gone + i]
      BY <2>1, <2>2, ListInLine
  <2>4. gone \in Nat /\ pushed \in Nat /\ gone <= pushed
      BY <2>1, <2>2, Basics
  <2>5. CASE gone = pushed
    <3>1. Line = <<>>
        BY <2>3, <2>4, <2>5
    <3>2. QED
        BY <2>2, <2>5, <3>1 DEF Path, TailIsLast
  <2>6. CASE gone # pushed
    <3>1. Line # <<>> /\ Last(Line) = Line[pushed - gone]
        BY <2>3, <2>4, <2>6 DEF Last
    <3>2. pushed - gone \in 1..(pushed - gone) /\ gone + (pushed - gone) = pushed
        BY <2>4, <2>6
    <3>3. Last(Line).id = O[pushed]
        BY <2>3, <3>1, <3>2
    <3>4. QED
        BY <2>2, <2>6, <3>1, <3>3 DEF Path, TailIsLast
  <2>7. QED
      BY <2>5, <2>6
<1>2. QED
    BY ListAndLineHolds, <1>1, PTL

\* Every call of queue_push and every dispatch is a step of the scheduler: the
\* list is the line, whatever the policy (server.c 53-130, 172-199).
THEOREM ImplementsSchedulerHolds == Spec => ImplementsScheduler
BY InitListAndLine, StepListAndLine, ListAndLineHolds, PTL
   DEF Spec, ImplementsScheduler, Scheduler!Spec

\* Under SFF the handler takes the node with the smallest st_size, among equals
\* the first allocated (server.c 73-89, 172-199).
THEOREM ShortestFirstHolds == Spec => ShortestFirst
<1> DEFINE A == sched_alg_code = SFF /\ served' # served =>
                  LET r == Last(served') IN
                  \A i \in 1..Len(Line) :
                    \/ r.size < Line[i].size
                    \/ r.size = Line[i].size /\ r.id <= Line[i].id
<1>1. ASSUME ListAndLine, [Next]_vars PROVE A
  <2> SUFFICES ASSUME sched_alg_code = SFF, served' # served, NEW i \in 1..Len(Line)
               PROVE  \/ Last(served').size < Line[i].size
                      \/ Last(served').size = Line[i].size /\ Last(served').id <= Line[i].id
      BY DEF A
  <2>1. handle_request
      BY <1>1 DEF Next, queue_push, Allocate, vars
  <2>2. TypeOK
      BY <1>1 DEF ListAndLine, QueueInv
  <2>3. PICK O : Path(O) /\ Record(O)
      BY <1>1 DEF ListAndLine, QueueInv
  <2>4. Last(served').id = Line[1].id /\ Last(served').size = Line[1].size /\ Len(Line) > 0
      BY <2>1, <2>2, <2>3, DispatchType, DispatchKeepsPath, DispatchDispatches
  <2>5. Scheduler!TypeOK /\ Scheduler!LineOrdered
      BY <1>1 DEF ListAndLine, OrderInv
  <2>6. Line[i].size \in Int /\ Line[i].id \in Nat
      BY <2>5, RequestTypes, QueueAssumption
  <2>7. CASE i = 1
      BY <2>4, <2>6, <2>7
  <2>8. CASE i # 1
    <3>1. 1 \in 1..Len(Line) /\ 1 < i
        BY <2>4, <2>8
    <3>2. Scheduler!Before(Line[1], Line[i])
        BY <2>5, <3>1 DEF Scheduler!LineOrdered, Scheduler!SFF, SFF
    <3>3. Line[1].id \in Nat
        BY <2>5, <3>1, RequestTypes, QueueAssumption
    <3>4. QED
        BY <2>4, <2>6, <3>2, <3>3 DEF Scheduler!Before
  <2>9. QED
      BY <2>7, <2>8
<1>2. ListAndLine /\ [Next]_vars => [A]_vars
    BY <1>1
<1>3. QED
    BY ListAndLineHolds, <1>2, PTL DEF Spec, ShortestFirst
=============================================================================
