----------------------------- MODULE MemProofs -----------------------------
(***************************************************************************)
(* The allocator of p3/mem.c, for regions and requests of any size: what   *)
(* Mem promises of the region, of the patterns and of its blocks.          *)
(*                                                                         *)
(* The region is cut into pieces: chunks, which the free list chains, and  *)
(* blocks.  The proofs are about the set C of chunks and the set K of      *)
(* blocks; that the list in memory is C in the order of the addresses is   *)
(* one lemma (TheFreeList), and what Mem_Alloc and Mem_Free write is       *)
(* followed word by word.                                                  *)
(*                                                                         *)
(* Nothing is assumed of the sizes that clients ask for.  A call that cuts *)
(* a block out of a chunk without room for it (mem.c, lines 100 and 123)   *)
(* is the one way to lose the promises: process = "astray" records it.     *)
(***************************************************************************)
EXTENDS Mem, FiniteSetTheorems, WellFoundedInduction, TLAPS

-----------------------------------------------------------------------------
(* Words of memory.                                                        *)

LEMMA AtType ==
  ASSUME NEW m \in Seq(Int), NEW a \in 0..(Len(m) - 1)
  PROVE  At(m, a) \in Int
BY DEF At

LEMMA PutWord ==
  ASSUME NEW m \in Seq(Int), NEW a \in 0..(Len(m) - 1), NEW v \in Int
  PROVE  /\ Put(m, a, v) \in Seq(Int) /\ Len(Put(m, a, v)) = Len(m)
         /\ \A x \in 0..(Len(m) - 1) : At(Put(m, a, v), x) = IF x = a THEN v ELSE At(m, x)
<1>1. a + 1 \in 1..Len(m) /\ DOMAIN m = 1..Len(m) /\ Len(m) \in Nat
  OBVIOUS
<1>2. Put(m, a, v) \in Seq(Int) /\ Len(Put(m, a, v)) = Len(m)
  BY <1>1 DEF Put
<1>3. ASSUME NEW x \in 0..(Len(m) - 1)
      PROVE  At(Put(m, a, v), x) = IF x = a THEN v ELSE At(m, x)
  <2>1. x + 1 \in 1..Len(m) /\ (x = a <=> x + 1 = a + 1)
    BY <1>1
  <2> QED  BY <1>1, <2>1 DEF Put, At
<1> QED  BY <1>2, <1>3

LEMMA FillWords ==
  ASSUME NEW m \in Seq(Int), NEW from \in Int, NEW to \in Int, NEW v \in Int
  PROVE  /\ Fill(m, from, to, v) \in Seq(Int) /\ Len(Fill(m, from, to, v)) = Len(m)
         /\ \A x \in 0..(Len(m) - 1) :
              At(Fill(m, from, to, v), x) = IF from <= x /\ x < to THEN v ELSE At(m, x)
<1>1. DOMAIN m = 1..Len(m) /\ Len(m) \in Nat /\ \A i \in 1..Len(m) : m[i] \in Int
  OBVIOUS
<1>2. Fill(m, from, to, v) = [i \in 1..Len(m) |-> IF i - 1 \in from..(to - 1) THEN v ELSE m[i]]
  BY <1>1 DEF Fill
<1>3. Fill(m, from, to, v) \in Seq(Int) /\ Len(Fill(m, from, to, v)) = Len(m)
  BY <1>1, <1>2
<1>4. ASSUME NEW x \in 0..(Len(m) - 1)
      PROVE  At(Fill(m, from, to, v), x) = IF from <= x /\ x < to THEN v ELSE At(m, x)
  <2>1. x + 1 \in 1..Len(m) /\ (x + 1) - 1 = x /\ (x \in from..(to - 1) <=> from <= x /\ x < to)
    BY <1>1
  <2>2. Fill(m, from, to, v)[x + 1] = IF x \in from..(to - 1) THEN v ELSE m[x + 1]
    BY <1>2, <2>1
  <2> QED  BY <2>1, <2>2 DEF At
<1> QED  BY <1>3, <1>4

LEMMA LeastElement ==
  ASSUME NEW S, S \subseteq Nat, S # {}
  PROVE  \E x \in S : \A y \in S : x <= y
<1> DEFINE Less == {ss \in Nat \X Nat : ss[1] < ss[2]}
<1>1. IsWellFoundedOn(Less, Nat)
  BY NatLessThanWellFounded DEF OpToRel
<1> HIDE DEF Less
<1>2. PICK x \in S : \A y \in S : ~ (<<y, x>> \in Less)
  BY <1>1, WFMin
<1>3. \A y \in S : ~(y < x)
  BY <1>2 DEF Less
<1> QED  BY <1>3

LEMMA MinIsLeast ==
  ASSUME NEW S, S \subseteq Nat, S # {}
  PROVE  Min(S) \in S /\ \A y \in S : Min(S) <= y
BY LeastElement DEF Min

\* A bounded set of numbers has a greatest element.
LEMMA GreatestElement ==
  ASSUME NEW S, S \subseteq Nat, S # {}, NEW n \in Nat, \A y \in S : y <= n
  PROVE  \E x \in S : \A y \in S : y <= x
<1> DEFINE R == {n - y : y \in S}
<1>0. \A y \in S : y \in Nat /\ y <= n
  OBVIOUS
<1>1. R \subseteq Nat /\ R # {}
  <2>1. PICK y \in S : TRUE
    OBVIOUS
  <2>2. n - y \in R
    OBVIOUS
  <2>3. R \subseteq Nat
    BY <1>0
  <2> QED  BY <2>2, <2>3
<1>2. PICK r \in R : \A q \in R : r <= q
  BY <1>1, LeastElement
<1>3. PICK x \in S : r = n - x
  OBVIOUS
<1>4. ASSUME NEW y \in S PROVE y <= x
  <2>1. n - y \in R
    OBVIOUS
  <2>2. n - x <= n - y
    BY <1>2, <1>3, <2>1
  <2> QED  BY <1>0, <2>2
<1> QED  BY <1>4

-----------------------------------------------------------------------------
(* The pieces of the region.                                               *)

\* Every piece has room for a header.
Piece == {p \in [at : Nat, end : Nat] :
            p.at + HEADER <= p.end}

Apart(p, q) == p.end <= q.at \/ q.end <= p.at

Tiling(Q, n) ==
  /\ Q \subseteq Piece
  /\ \A p \in Q : p.end <= n
  /\ \A p, q \in Q : p # q => Apart(p, q)
  /\ \A a \in 0..(n - 1) : \E p \in Q : p.at <= a /\ a < p.end

\* q is the next chunk behind p.
Follows(C, p, q) == q \in C /\ p.at < q.at /\ \A r \in C : r.at <= p.at \/ q.at <= r.at

Linked(C, m) ==
  /\ \E p \in C : p.at = 0
  /\ \A p \in C : size_of(m, p.at) = p.end - p.at - HEADER
  /\ \A p \in C : \/ next_of(m, p.at) = -1 /\ \A q \in C : q.at <= p.at
                  \/ \E q \in C : Follows(C, p, q) /\ next_of(m, p.at) = q.at - p.at

Heap(m, C, K) ==
  /\ m \in Seq(Int) /\ C \cap K = {}
  /\ Tiling(C \cup K, Len(m))
  /\ Linked(C, m)

LEMMA PieceFields ==
  ASSUME NEW p \in Piece
  PROVE  /\ p.at \in Nat /\ p.end \in Nat /\ p.at + 2 <= p.end
         /\ p = [at |-> p.at, end |-> p.end]
BY DEF Piece, HEADER

LEMMA PieceIs ==
  ASSUME NEW a \in Nat, NEW e \in Nat, a + 2 <= e
  PROVE  [at |-> a, end |-> e] \in Piece
BY DEF Piece, HEADER

\* What is known of the chunks of a heap.
LEMMA ChunkFacts ==
  ASSUME NEW m, NEW C, NEW K, Heap(m, C, K), NEW p \in C
  PROVE  /\ m \in Seq(Int) /\ Len(m) \in Nat
         /\ p \in Piece /\ p.at \in Nat /\ p.end \in Nat /\ p.at + 2 <= p.end /\ p.end <= Len(m)
         /\ size_of(m, p.at) = p.end - p.at - 2
         /\ \A q \in C : p # q => Apart(p, q) /\ p.at # q.at
<1>1. m \in Seq(Int) /\ Len(m) \in Nat /\ p \in Piece /\ p.end <= Len(m)
  BY DEF Heap, Tiling
<1>2. size_of(m, p.at) = p.end - p.at - 2
  BY DEF Heap, Linked, HEADER
<1>3. ASSUME NEW q \in C, p # q PROVE Apart(p, q) /\ p.at # q.at
  <2>1. Apart(p, q) /\ q \in Piece
    BY <1>3 DEF Heap, Tiling
  <2> QED  BY <1>1, <2>1, PieceFields DEF Apart
<1> QED  BY <1>1, <1>2, <1>3, PieceFields

-----------------------------------------------------------------------------
(* The free list.                                                          *)

\* Walk is what its definition says: the recursion ends.
PartWalk(m, f, n) == f = [k \in 0..n |-> IF k = 0 THEN 0 ELSE NextOf(m, f[k - 1])]

LEMMA PartWalkExists ==
  ASSUME NEW m, NEW n \in Nat
  PROVE  \E f : PartWalk(m, f, n)
<1> DEFINE Bad == {k \in Nat : ~ \E f : PartWalk(m, f, k)}
<1> SUFFICES ASSUME Bad # {} PROVE FALSE
  OBVIOUS
<1>1. PICK k \in Bad : \A y \in Bad : k <= y
  BY LeastElement
<1>2. k \in Nat /\ ~ \E f : PartWalk(m, f, k)
  OBVIOUS
<1>3. CASE k = 0
  <2>1. PartWalk(m, [j \in 0..0 |-> 0], 0)
    BY DEF PartWalk
  <2> QED  BY <1>2, <1>3, <2>1
<1>4. CASE k # 0
  <2>1. k - 1 \in Nat /\ k - 1 \notin Bad
    BY <1>1, <1>2, <1>4
  <2>2. PICK f : PartWalk(m, f, k - 1)
    BY <2>1
  <2> DEFINE g == [j \in 0..k |-> IF j = 0 THEN 0 ELSE NextOf(m, f[j - 1])]
  <2>3. \A j \in 0..(k - 1) : g[j] = f[j]
    BY <1>2, <2>1, <2>2 DEF PartWalk
  <2>4. ASSUME NEW j \in 0..k
        PROVE  g[j] = IF j = 0 THEN 0 ELSE NextOf(m, g[j - 1])
    <3>1. CASE j = 0
      BY <3>1
    <3>2. CASE j # 0
      <4>1. j - 1 \in 0..(k - 1)
        BY <3>2, <1>2
      <4>2. g[j] = NextOf(m, f[j - 1])
        BY <3>2
      <4> HIDE DEF g
      <4> QED  BY <3>2, <4>1, <4>2, <2>3
    <3> QED  BY <3>1, <3>2
  <2>5. PartWalk(m, g, k)
    <3> DEFINE h == [j \in 0..k |-> IF j = 0 THEN 0 ELSE NextOf(m, g[j - 1])]
    <3>1. \A j \in 0..k : g[j] = h[j]
      BY <2>4
    <3>2. g = h
      BY <3>1
    <3> QED  BY <3>2 DEF PartWalk
  <2> QED  BY <1>2, <2>5
<1> QED  BY <1>3, <1>4

LEMMA WalkEquation ==
  ASSUME NEW m, Len(m) \in Nat
  PROVE  \A k \in 0..Len(m) : Walk(m)[k] = IF k = 0 THEN 0 ELSE NextOf(m, Walk(m)[k - 1])
<1>1. PICK f : PartWalk(m, f, Len(m))
  BY PartWalkExists
<1>2. PartWalk(m, Walk(m), Len(m))
  BY <1>1 DEF Walk, PartWalk
<1> QED  BY <1>2 DEF PartWalk

\* From a chunk the walk goes to the next chunk, or ends behind the last.
LEMMA NextOfChunk ==
  ASSUME NEW m, NEW C, NEW K, Heap(m, C, K), NEW p \in C
  PROVE  \/ NextOf(m, p.at) = NULL /\ next_of(m, p.at) = -1 /\ \A q \in C : q.at <= p.at
         \/ \E q \in C : Follows(C, p, q) /\ NextOf(m, p.at) = q.at
                         /\ next_of(m, p.at) # -1 /\ q.at = p.at + next_of(m, p.at)
<1>1. p.at \in Nat /\ p.at # NULL
  BY ChunkFacts DEF NULL
<1>2. CASE next_of(m, p.at) = -1 /\ \A q \in C : q.at <= p.at
  BY <1>1, <1>2 DEF NextOf
<1>3. ASSUME NEW q \in C, Follows(C, p, q), next_of(m, p.at) = q.at - p.at
      PROVE  /\ NextOf(m, p.at) = q.at /\ next_of(m, p.at) # -1
             /\ q.at = p.at + next_of(m, p.at)
  <2>1. q.at \in Nat /\ p.at < q.at
    BY <1>3, ChunkFacts DEF Follows
  <2>2. next_of(m, p.at) # -1 /\ q.at = p.at + next_of(m, p.at)
    BY <1>1, <1>3, <2>1
  <2> QED  BY <1>1, <2>2 DEF NextOf
<1> QED  BY <1>2, <1>3 DEF Heap, Linked

\* The walk meets chunks only, at ever higher addresses, and ends.
LEMMA WalkMeetsChunks ==
  ASSUME NEW m, NEW C, NEW K, Heap(m, C, K), NEW n \in 0..Len(m)
  PROVE  Walk(m)[n] = NULL \/ \E p \in C : Walk(m)[n] = p.at /\ n <= p.at
<1> DEFINE Bad == {k \in 0..Len(m) :
                     ~(Walk(m)[k] = NULL \/ \E p \in C : Walk(m)[k] = p.at /\ k <= p.at)}
<1> SUFFICES ASSUME Bad # {} PROVE FALSE
  OBVIOUS
<1>0. Len(m) \in Nat
  BY DEF Heap
<1>a. Bad \subseteq Nat
  BY <1>0
<1>1. PICK k \in Bad : \A y \in Bad : k <= y
  BY <1>a, LeastElement
<1>2. k \in 0..Len(m) /\ ~(Walk(m)[k] = NULL \/ \E p \in C : Walk(m)[k] = p.at /\ k <= p.at)
  OBVIOUS
<1>3. k # 0
  <2>1. PICK p \in C : p.at = 0
    BY DEF Heap, Linked
  <2>2. Walk(m)[0] = 0
    BY <1>0, WalkEquation
  <2> QED  BY <1>2, <2>1, <2>2
<1>4. k - 1 \in 0..Len(m) /\ k - 1 \notin Bad
  BY <1>0, <1>1, <1>2, <1>3
<1> DEFINE w == Walk(m)[k - 1]
<1>5. w = NULL \/ \E p \in C : w = p.at /\ k - 1 <= p.at
  BY <1>4
<1>6. Walk(m)[k] = NextOf(m, w)
  BY <1>0, <1>2, <1>3, WalkEquation
<1> HIDE DEF w, Bad
<1>7. CASE w = NULL
  BY <1>2, <1>6, <1>7 DEF NextOf
<1>8. ASSUME NEW p \in C, w = p.at, k - 1 <= p.at PROVE FALSE
  <2>1. CASE NextOf(m, p.at) = NULL
    BY <1>2, <1>6, <1>8, <2>1
  <2>2. ASSUME NEW q \in C, Follows(C, p, q), NextOf(m, p.at) = q.at PROVE FALSE
    <3>1. p.at < q.at /\ p.at \in Nat /\ q.at \in Nat
      BY <2>2, ChunkFacts DEF Follows
    <3>2. k <= q.at
      BY <1>2, <1>8, <3>1
    <3> QED  BY <1>2, <1>6, <1>8, <2>2, <3>2
  <2> QED  BY <2>1, <2>2, NextOfChunk
<1> QED  BY <1>5, <1>7, <1>8

\* The walk ends after n chunks.
LEMMA WalkEnds ==
  ASSUME NEW m, NEW C, NEW K, Heap(m, C, K)
  PROVE  \E n \in 1..Len(m) : /\ \A k \in 0..(n - 1) : Walk(m)[k] # NULL
                              /\ \A k \in n..Len(m) : Walk(m)[k] = NULL
<1> DEFINE Over == {k \in 0..Len(m) : Walk(m)[k] = NULL}
<1>0. Len(m) \in Nat
  BY DEF Heap
<1>1. PICK n \in Over : \A k \in Over : n <= k
  <2>1. Walk(m)[Len(m)] = NULL
    <3>1. ASSUME NEW p \in C, Len(m) <= p.at PROVE FALSE
      BY <3>1, ChunkFacts
    <3>2. Len(m) \in 0..Len(m)
      BY <1>0
    <3> QED  BY <3>1, <3>2, WalkMeetsChunks
  <2>2. Over # {} /\ Over \subseteq Nat
    BY <1>0, <2>1
  <2> HIDE DEF Over
  <2> QED  BY <2>2, LeastElement
<1>2. n # 0
  <2>1. Walk(m)[0] = 0
    BY <1>0, WalkEquation
  <2> QED  BY <2>1 DEF NULL
<1>3. n \in 1..Len(m) /\ Walk(m)[n] = NULL
  BY <1>0, <1>1, <1>2
<1>4. \A k \in 0..(n - 1) : Walk(m)[k] # NULL
  BY <1>0, <1>1
<1>5. \A k \in n..Len(m) : Walk(m)[k] = NULL
  <2> DEFINE Bad == {k \in n..Len(m) : Walk(m)[k] # NULL}
  <2> SUFFICES ASSUME Bad # {} PROVE FALSE
    OBVIOUS
  <2>1. Bad \subseteq Nat
    BY <1>0, <1>3
  <2>2. PICK k \in Bad : \A y \in Bad : k <= y
    BY <2>1, LeastElement
  <2>3. k \in n..Len(m) /\ Walk(m)[k] # NULL /\ k # n
    BY <1>3
  <2>4. k - 1 \in n..Len(m) /\ k - 1 \notin Bad
    BY <1>0, <1>3, <2>1, <2>2, <2>3
  <2>5. Walk(m)[k - 1] = NULL
    BY <2>4
  <2>6. k \in 0..Len(m) /\ k # 0
    BY <1>0, <1>3, <2>3
  <2>7. Walk(m)[k] = NextOf(m, Walk(m)[k - 1])
    BY <1>0, <2>6, WalkEquation
  <2> QED  BY <2>3, <2>5, <2>7 DEF NextOf
<1> QED  BY <1>3, <1>4, <1>5

\* L lists the n chunks of C in the order of their addresses.
InOrder(L, n, C) ==
  /\ n \in Nat \ {0} /\ L \in Seq(Nat) /\ Len(L) = n /\ L[1] = 0
  /\ \A i \in 1..n : \E p \in C : L[i] = p.at
  /\ \A p \in C : \E i \in 1..n : L[i] = p.at
  /\ \A i, j \in 1..n : i < j => L[i] < L[j]
  /\ \A i \in 1..(n - 1) : \E p, q \in C : L[i] = p.at /\ L[i + 1] = q.at /\ Follows(C, p, q)

\* What climbs at every step is in order.
LEMMA Climbs ==
  ASSUME NEW n \in Nat, NEW L, \A i \in 1..n : L[i] \in Nat,
         \A i \in 1..(n - 1) : L[i] < L[i + 1]
  PROVE  \A i, j \in 1..n : i < j => L[i] < L[j]
<1> SUFFICES ASSUME NEW i \in 1..n PROVE \A j \in 1..n : i < j => L[i] < L[j]
  OBVIOUS
<1> DEFINE Bad == {j \in 1..n : i < j /\ ~(L[i] < L[j])}
<1> SUFFICES ASSUME Bad # {} PROVE FALSE
  OBVIOUS
<1>1. Bad \subseteq Nat
  OBVIOUS
<1>2. PICK j \in Bad : \A y \in Bad : j <= y
  BY <1>1, LeastElement
<1>3. j \in 1..n /\ i < j /\ ~(L[i] < L[j])
  OBVIOUS
<1>4. j - 1 \in 1..(n - 1) /\ j - 1 \in 1..n /\ j - 1 \notin Bad /\ i <= j - 1 /\ (j - 1) + 1 = j
  BY <1>2, <1>3
<1>5. L[j - 1] < L[j]
  BY <1>4
<1>6. i = j - 1 \/ L[i] < L[j - 1]
  BY <1>4
<1> QED  BY <1>3, <1>4, <1>5, <1>6

\* What FreeList reads from the words of memory are the chunks of the heap.
LEMMA TheFreeList ==
  ASSUME NEW m, NEW C, NEW K, Heap(m, C, K)
  PROVE  \E n : InOrder(FreeList(m), n, C)
<1> DEFINE L == FreeList(m)
<1>0. Len(m) \in Nat
  BY DEF Heap
<1>1. PICK n \in 1..Len(m) : /\ \A k \in 0..(n - 1) : Walk(m)[k] # NULL
                             /\ \A k \in n..Len(m) : Walk(m)[k] = NULL
  BY WalkEnds
<1>11. n \in Nat \ {0}
  BY <1>0
<1>2. L = [i \in 1..n |-> Walk(m)[i - 1]]
  <2> DEFINE Met == {k \in 0..Len(m) : Walk(m)[k] # NULL}
  <2>1. Met = 0..(n - 1)
    BY <1>0, <1>1
  <2>2. Cardinality(0..(n - 1)) = n
    <3>1. \A i \in Int : Cardinality(0..i) = IF 0 > i THEN 0 ELSE i - 0 + 1
      BY FS_Interval
    <3>2. n - 1 \in Int /\ (IF 0 > n - 1 THEN 0 ELSE (n - 1) - 0 + 1) = n
      BY <1>0
    <3> QED  BY <3>1, <3>2
  <2>3. Cardinality(Met) = n
    <3> HIDE DEF Met
    <3> QED  BY <2>1, <2>2
  <2> QED  BY <2>3, Zenon DEF FreeList
<1>3. \A i \in 1..n : L[i] = Walk(m)[i - 1]
  BY <1>2
<1>4. ASSUME NEW i \in 1..n PROVE \E p \in C : L[i] = p.at
  <2>1. i - 1 \in 0..Len(m) /\ i - 1 \in 0..(n - 1)
    BY <1>0
  <2>2. \E p \in C : Walk(m)[i - 1] = p.at
    BY <1>1, <2>1, WalkMeetsChunks
  <2> QED  BY <1>3, <2>2
<1>5. \A i \in 1..n : L[i] \in Nat
  <2>1. \A p \in C : p.at \in Nat
    BY ChunkFacts
  <2> QED  BY <1>4, <2>1
<1>6. L \in Seq(Nat) /\ Len(L) = n
  <2>1. L \in [1..n -> Nat]
    BY <1>2, <1>5
  <2> QED  BY <1>0, <2>1
<1>7. L[1] = 0
  BY <1>0, <1>3, WalkEquation
<1>8. ASSUME NEW i \in 1..(n - 1)
      PROVE  \E p, q \in C : L[i] = p.at /\ L[i + 1] = q.at /\ Follows(C, p, q)
  <2>1. /\ i \in 1..n /\ i + 1 \in 1..n /\ (i + 1) - 1 = i
        /\ i \in 0..Len(m) /\ i # 0 /\ i \in 0..(n - 1)
    BY <1>0
  <2>2. PICK p \in C : L[i] = p.at
    BY <1>4, <2>1
  <2>3. Walk(m)[i] = NextOf(m, Walk(m)[i - 1])
    BY <1>0, <2>1, WalkEquation
  <2>4. L[i + 1] = NextOf(m, p.at) /\ L[i + 1] # NULL
    <3>1. L[i + 1] = Walk(m)[i]
      BY <1>3, <2>1
    <3> QED  BY <1>1, <1>3, <2>1, <2>2, <2>3, <3>1
  <2>5. PICK q \in C : Follows(C, p, q) /\ NextOf(m, p.at) = q.at
    BY <2>4, NextOfChunk
  <2> QED  BY <2>2, <2>4, <2>5
<1>9. \A i, j \in 1..n : i < j => L[i] < L[j]
  <2>1. ASSUME NEW i \in 1..(n - 1) PROVE L[i] < L[i + 1]
    BY <1>8 DEF Follows
  <2> HIDE DEF L
  <2>2. n \in Nat
    BY <1>11
  <2> QED  BY <1>5, <2>1, <2>2, Climbs
<1>10. ASSUME NEW p \in C PROVE \E i \in 1..n : L[i] = p.at
  <2> DEFINE Below == {i \in 1..n : L[i] <= p.at}
  <2>1. p.at \in Nat
    BY ChunkFacts
  <2>2. 1 \in Below
    BY <1>0, <1>7, <2>1
  <2>3. Below \subseteq Nat /\ Below # {} /\ \A y \in Below : y <= n
    BY <1>0, <2>2
  <2>4. PICK i \in Below : \A y \in Below : y <= i
    <3> HIDE DEF Below
    <3>1. n \in Nat
      BY <1>11
    <3> QED  BY <2>3, <3>1, GreatestElement
  <2>5. i \in 1..n /\ L[i] <= p.at
    OBVIOUS
  <2>6. CASE i = n
    <3>1. PICK q \in C : L[n] = q.at
      BY <1>0, <1>4
    <3>2. n \in 0..Len(m) /\ n # 0 /\ n \in n..Len(m) /\ n \in 1..n
      BY <1>0
    <3>3. Walk(m)[n] = NextOf(m, Walk(m)[n - 1])
      BY <1>0, <3>2, WalkEquation
    <3>4. NextOf(m, q.at) = NULL
      BY <1>1, <1>3, <3>1, <3>2, <3>3
    <3>5. \A r \in C : NextOf(m, q.at) # r.at
      <4>1. \A r \in C : r.at \in Nat
        BY ChunkFacts
      <4> QED  BY <3>4, <4>1 DEF NULL
    <3>6. p.at <= q.at
      BY <3>5, NextOfChunk
    <3>7. L[i] = p.at
      <4>1. q.at \in Nat
        BY ChunkFacts
      <4> QED  BY <2>1, <2>5, <2>6, <3>1, <3>6, <4>1
    <3> QED  BY <2>5, <3>7
  <2>7. CASE i # n
    <3>1. i \in 1..(n - 1) /\ i + 1 \in 1..n /\ i + 1 \notin Below
      BY <1>0, <2>4, <2>5, <2>7
    <3>2. PICK o, q \in C : L[i] = o.at /\ L[i + 1] = q.at /\ Follows(C, o, q)
      BY <1>8, <3>1
    <3>3. ~(L[i + 1] <= p.at)
      BY <3>1
    <3>4. p.at <= o.at \/ q.at <= p.at
      BY <3>2 DEF Follows
    <3>5. o.at \in Nat /\ q.at \in Nat
      BY ChunkFacts
    <3> QED  BY <2>1, <2>5, <3>2, <3>3, <3>4, <3>5
  <2> QED  BY <2>6, <2>7
<1> HIDE DEF L
<1>12. InOrder(L, n, C)
  BY <1>4, <1>6, <1>7, <1>8, <1>9, <1>10, <1>11 DEF InOrder
<1> QED  BY <1>12 DEF L

LEMMA SameAt ==
  ASSUME NEW m, NEW C, NEW K, Heap(m, C, K), NEW p \in C, NEW q \in C, p.at = q.at
  PROVE  p = q
BY ChunkFacts

\* The search of Mem_Alloc stops at the lowest chunk that passes its tests.
Fit(c, n) == HasMore(c, n) \/ HasExactly(c, n)

FoundFirst(f, C, n) ==
  \/ f.chunk = NULL /\ \A p \in C : ~Fit(p.at, n)
  \/ \E p \in C :
       /\ f.chunk = p.at /\ Fit(p.at, n)
       /\ \A q \in C : q.at < p.at => ~Fit(q.at, n)
       /\ p.at = 0 \/ \E q \in C : Follows(C, q, p) /\ f.prev = q.at

LEMMA FirstFitIs ==
  ASSUME NEW C, NEW K, Heap(mem, C, K), NEW n
  PROVE  FoundFirst(FirstFit(n), C, n)
<1> DEFINE L == FreeList(mem)
           I == {i \in 1..Len(L) : Fit(L[i], n)}
<1>1. PICK N : InOrder(L, N, C)
  BY TheFreeList
<1>2. FirstFit(n) = IF I = {} THEN [chunk |-> NULL, prev |-> NULL]
                    ELSE [chunk |-> L[Min(I)], prev |-> IF Min(I) = 1 THEN NULL ELSE L[Min(I) - 1]]
  <2> DEFINE i == IF I # {} THEN Min(I) ELSE 0
  <2>1. FirstFit(n) = IF i = 0 THEN [chunk |-> NULL, prev |-> NULL]
                      ELSE [chunk |-> L[i], prev |-> IF i = 1 THEN NULL ELSE L[i - 1]]
    BY DEF FirstFit, SelectInSeq, Fit
  <2>2. I # {} => Min(I) # 0
    <3>1. I \subseteq Nat /\ 0 \notin I
      BY <1>1 DEF InOrder
    <3> HIDE DEF I
    <3> QED  BY <3>1, MinIsLeast
  <2> HIDE DEF I, L
  <2> QED  BY <2>1, <2>2
<1>3. N \in Nat \ {0} /\ Len(L) = N /\ \A i \in 1..N : L[i] \in Nat
  BY <1>1 DEF InOrder
<1> HIDE DEF L
<1>4. CASE I = {}
  <2>1. ASSUME NEW p \in C PROVE ~Fit(p.at, n)
    <3>1. PICK i \in 1..N : L[i] = p.at
      BY <1>1 DEF InOrder
    <3> QED  BY <1>3, <1>4, <3>1
  <2>2. FirstFit(n).chunk = NULL
    BY <1>2, <1>4
  <2> QED  BY <2>1, <2>2 DEF FoundFirst
<1>5. CASE I # {}
  <2>1. PICK i \in I : i = Min(I) /\ \A j \in I : i <= j
    <3>1. I \subseteq Nat
      BY <1>3
    <3> HIDE DEF I
    <3> QED  BY <1>5, <3>1, MinIsLeast
  <2>2. i \in 1..N /\ Fit(L[i], n)
    BY <1>3
  <2>3. PICK p \in C : L[i] = p.at
    BY <1>1, <2>2 DEF InOrder
  <2>4. FirstFit(n).chunk = p.at /\ (i # 1 => FirstFit(n).prev = L[i - 1])
    BY <1>2, <1>5, <2>1, <2>3
  <2>5. ASSUME NEW q \in C, q.at < p.at PROVE ~Fit(q.at, n)
    <3>1. PICK j \in 1..N : L[j] = q.at
      BY <1>1 DEF InOrder
    <3>2. j < i
      <4>1. i < j => L[i] < L[j]
        BY <1>1, <2>2 DEF InOrder
      <4>2. L[j] < L[i] /\ L[i] \in Nat /\ L[j] \in Nat
        BY <1>3, <2>2, <2>3, <2>5, <3>1
      <4>3. ~(i < j) /\ i # j
        BY <4>1, <4>2
      <4> QED  BY <2>2, <4>3
    <3>3. j \notin I
      BY <2>1, <2>2, <3>2
    <3> QED  BY <1>3, <3>1, <3>3
  <2>6. p.at = 0 \/ \E q \in C : Follows(C, q, p) /\ FirstFit(n).prev = q.at
    <3>1. CASE i = 1
      BY <1>1, <2>3, <3>1 DEF InOrder
    <3>2. CASE i # 1
      <4>1. i - 1 \in 1..(N - 1) /\ (i - 1) + 1 = i
        BY <1>3, <2>2, <3>2
      <4>2. PICK q, r \in C : L[i - 1] = q.at /\ L[i] = r.at /\ Follows(C, q, r)
        BY <1>1, <4>1 DEF InOrder
      <4>3. r = p
        BY <2>3, <4>2, SameAt
      <4> QED  BY <2>4, <3>2, <4>2, <4>3
    <3> QED  BY <3>1, <3>2
  <2> QED  BY <2>2, <2>3, <2>4, <2>5, <2>6 DEF FoundFirst
<1> QED  BY <1>4, <1>5

\* Mem_Free finds the chunks around the address it frees.
FoundAround(f, C, new) ==
  \E p \in C :
    /\ f.prev = p.at /\ p.at <= new
    /\ \/ f.next = NULL /\ \A q \in C : q.at <= p.at
       \/ \E q \in C : Follows(C, p, q) /\ f.next = q.at /\ new < q.at

LEMMA NeighboursAre ==
  ASSUME NEW C, NEW K, Heap(mem, C, K), NEW new \in Nat
  PROVE  FoundAround(Neighbours(new), C, new)
<1> DEFINE L == FreeList(mem)
           I == {i \in 1..Len(Tail(L)) : Tail(L)[i] > new}
<1>1. PICK N : InOrder(L, N, C)
  BY TheFreeList
<1>2. N \in Nat \ {0} /\ L \in Seq(Nat) /\ Len(L) = N /\ L[1] = 0 /\ \A i \in 1..N : L[i] \in Nat
  BY <1>1 DEF InOrder
<1>3. Len(Tail(L)) = N - 1 /\ \A i \in 1..(N - 1) : Tail(L)[i] = L[i + 1]
  <2> HIDE DEF L
  <2> QED  BY <1>2
<1>4. I = {i \in 1..(N - 1) : L[i + 1] > new}
  <2> HIDE DEF L
  <2> QED  BY <1>3
<1>5. I \subseteq Nat /\ 0 \notin I
  <2> HIDE DEF L
  <2> QED  BY <1>2, <1>4
<1>6. Neighbours(new) = IF I = {} THEN [prev |-> L[N], next |-> NULL]
                        ELSE [prev |-> L[Min(I)], next |-> L[Min(I) + 1]]
  <2> DEFINE i == IF I # {} THEN Min(I) ELSE 0
  <2>1. Neighbours(new) = IF i = 0 THEN [prev |-> Last(L), next |-> NULL]
                          ELSE [prev |-> L[i], next |-> L[i + 1]]
    BY DEF Neighbours, SelectInSeq
  <2>2. Last(L) = L[N]
    BY <1>2 DEF Last
  <2>3. I # {} => Min(I) # 0
    <3> HIDE DEF I
    <3> QED  BY <1>5, MinIsLeast
  <2> HIDE DEF I, L
  <2> QED  BY <2>1, <2>2, <2>3
<1> HIDE DEF L, I
<1>7. ASSUME NEW i \in 1..N, i = 1 \/ i - 1 \notin I PROVE L[i] <= new
  <2>1. CASE i = 1
    BY <1>2, <2>1
  <2>2. CASE i # 1
    <3>1. i - 1 \in 1..(N - 1) /\ (i - 1) + 1 = i
      BY <1>2, <2>2
    <3> QED  BY <1>2, <1>4, <1>7, <2>2, <3>1
  <2> QED  BY <2>1, <2>2
<1>8. CASE I = {}
  <2>1. N \in 1..N
    BY <1>2
  <2>2. PICK p \in C : L[N] = p.at
    BY <1>1, <2>1 DEF InOrder
  <2>3. p.at <= new
    BY <1>7, <1>8, <2>1, <2>2
  <2>4. ASSUME NEW q \in C PROVE q.at <= p.at
    <3>1. PICK j \in 1..N : L[j] = q.at
      BY <1>1 DEF InOrder
    <3>2. j < N => L[j] < L[N]
      BY <1>1, <2>1 DEF InOrder
    <3>3. j < N \/ j = N
      BY <1>2
    <3>4. L[j] \in Nat /\ L[N] \in Nat
      BY <1>2, <2>1
    <3> QED  BY <2>2, <3>1, <3>2, <3>3, <3>4
  <2> QED  BY <1>6, <1>8, <2>2, <2>3, <2>4 DEF FoundAround
<1>9. CASE I # {}
  <2>1. PICK i \in I : i = Min(I) /\ \A j \in I : i <= j
    BY <1>5, <1>9, MinIsLeast
  <2>2. i \in 1..(N - 1) /\ L[i + 1] > new /\ i \in 1..N
    BY <1>2, <1>4
  <2>3. PICK p, q \in C : L[i] = p.at /\ L[i + 1] = q.at /\ Follows(C, p, q)
    BY <1>1, <2>2 DEF InOrder
  <2>4. p.at <= new
    <3>1. i - 1 \notin I
      BY <1>5, <2>1, <2>2
    <3> QED  BY <1>7, <2>2, <2>3, <3>1
  <2>5. new < q.at
    BY <1>2, <2>2, <2>3
  <2> QED  BY <1>6, <1>9, <2>1, <2>3, <2>4, <2>5 DEF FoundAround
<1> QED  BY <1>8, <1>9

-----------------------------------------------------------------------------
(* The links depend only on where the chunks begin.                        *)

Ats(C) == {p.at : p \in C}

Behind(A, a, b) == b \in A /\ a < b /\ \A c \in A : c <= a \/ b <= c

Links(A, m) ==
  /\ 0 \in A
  /\ \A a \in A : \/ next_of(m, a) = -1 /\ \A c \in A : c <= a
                  \/ \E b \in A : Behind(A, a, b) /\ next_of(m, a) = b - a

LEMMA LinkedIsLinks ==
  ASSUME NEW C, NEW m
  PROVE  Linked(C, m) <=> /\ Links(Ats(C), m)
                          /\ \A p \in C : size_of(m, p.at) = p.end - p.at - HEADER
<1>1. \A p, q \in C : Follows(C, p, q) <=> Behind(Ats(C), p.at, q.at)
  BY DEF Follows, Behind, Ats
<1>2. 0 \in Ats(C) <=> \E p \in C : p.at = 0
  BY DEF Ats
<1>3. ASSUME NEW p \in C
      PROVE  /\ (\A c \in Ats(C) : c <= p.at) <=> (\A q \in C : q.at <= p.at)
             /\ (\E b \in Ats(C) : Behind(Ats(C), p.at, b) /\ next_of(m, p.at) = b - p.at)
                <=> (\E q \in C : Follows(C, p, q) /\ next_of(m, p.at) = q.at - p.at)
  BY <1>1 DEF Ats
<1>4. (\A a \in Ats(C) : \/ next_of(m, a) = -1 /\ \A c \in Ats(C) : c <= a
                         \/ \E b \in Ats(C) : Behind(Ats(C), a, b) /\ next_of(m, a) = b - a)
      <=> (\A p \in C : \/ next_of(m, p.at) = -1 /\ \A q \in C : q.at <= p.at
                        \/ \E q \in C : Follows(C, p, q) /\ next_of(m, p.at) = q.at - p.at)
  <2> DEFINE P(a) == \/ next_of(m, a) = -1 /\ \A c \in Ats(C) : c <= a
                     \/ \E b \in Ats(C) : Behind(Ats(C), a, b) /\ next_of(m, a) = b - a
             R(p) == \/ next_of(m, p.at) = -1 /\ \A q \in C : q.at <= p.at
                     \/ \E q \in C : Follows(C, p, q) /\ next_of(m, p.at) = q.at - p.at
  <2>1. \A p \in C : P(p.at) <=> R(p)
    BY <1>3
  <2> HIDE DEF P, R
  <2>2. (\A a \in Ats(C) : P(a)) <=> (\A p \in C : R(p))
    BY <2>1 DEF Ats
  <2> QED  BY <2>2 DEF P, R
<1> QED  BY <1>2, <1>4 DEF Linked, Links

LEMMA SameLinks ==
  ASSUME NEW A, NEW m, Links(A, m), NEW m2, \A a \in A : next_of(m2, a) = next_of(m, a)
  PROVE  Links(A, m2)
BY DEF Links

\* The chunk at b leaves the list: the one at a before it takes over its link.
Unlinks(A, m, a, b, m2) ==
  /\ A \subseteq Nat /\ a \in A /\ b \in A /\ Behind(A, a, b)
  /\ \A c \in A \ {a, b} : next_of(m2, c) = next_of(m, c)
  /\ next_of(m2, a) = IF next_of(m, b) = -1 THEN -1 ELSE next_of(m, a) + next_of(m, b)

LEMMA Unlinked ==
  ASSUME NEW A, NEW m, NEW a, NEW b, NEW m2, Links(A, m), Unlinks(A, m, a, b, m2)
  PROVE  Links(A \ {b}, m2)
<1>0. /\ A \subseteq Nat /\ a \in A /\ b \in A /\ Behind(A, a, b)
      /\ \A c \in A \ {a, b} : next_of(m2, c) = next_of(m, c)
      /\ next_of(m2, a) = IF next_of(m, b) = -1 THEN -1 ELSE next_of(m, a) + next_of(m, b)
  BY DEF Unlinks
<1> DEFINE B == A \ {b}
<1>1. a \in B /\ a < b /\ b # 0 /\ 0 \in B
  BY <1>0 DEF Behind, Links
<1>2. ASSUME NEW c \in B, NEW d \in A, Behind(A, c, d), d # b PROVE Behind(B, c, d)
  BY <1>0, <1>2 DEF Behind
<1>3. next_of(m, a) = b - a
  <2>1. ~ \A c \in A : c <= a
    BY <1>0, <1>1
  <2>2. PICK d \in A : Behind(A, a, d) /\ next_of(m, a) = d - a
    BY <1>0, <2>1 DEF Links
  <2>3. d = b
    BY <1>0, <2>2 DEF Behind
  <2> QED  BY <1>0, <2>2, <2>3
<1>4. ASSUME NEW c \in B, c # a
      PROVE  \/ next_of(m2, c) = -1 /\ \A e \in B : e <= c
             \/ \E d \in B : Behind(B, c, d) /\ next_of(m2, c) = d - c
  <2>1. next_of(m2, c) = next_of(m, c)
    BY <1>0, <1>4
  <2>2. CASE next_of(m, c) = -1 /\ \A e \in A : e <= c
    BY <1>0, <2>1, <2>2
  <2>3. ASSUME NEW d \in A, Behind(A, c, d), next_of(m, c) = d - c
        PROVE  \E e \in B : Behind(B, c, e) /\ next_of(m2, c) = e - c
    <3>1. d # b
      BY <1>0, <1>1, <1>4, <2>3 DEF Behind
    <3> QED  BY <1>0, <1>2, <2>1, <2>3, <3>1
  <2> QED  BY <1>0, <2>2, <2>3 DEF Links
<1>5. \/ next_of(m2, a) = -1 /\ \A e \in B : e <= a
      \/ \E d \in B : Behind(B, a, d) /\ next_of(m2, a) = d - a
  <2>1. CASE next_of(m, b) = -1 /\ \A c \in A : c <= b
    <3>1. ASSUME NEW e \in B PROVE e <= a
      BY <1>0, <1>1, <2>1 DEF Behind
    <3> QED  BY <1>0, <2>1, <3>1
  <2>2. ASSUME NEW d \in A, Behind(A, b, d), next_of(m, b) = d - b
        PROVE  \E e \in B : Behind(B, a, e) /\ next_of(m2, a) = e - a
    <3>1. d \in B /\ a < d /\ b < d
      BY <1>0, <1>1, <2>2 DEF Behind
    <3>2. Behind(B, a, d)
      <4>1. ASSUME NEW c \in B PROVE c <= a \/ d <= c
        BY <1>0, <1>1, <2>2 DEF Behind
      <4> QED  BY <1>0, <3>1, <4>1 DEF Behind
    <3>3. next_of(m2, a) = d - a
      <4>1. next_of(m, b) # -1
        BY <1>0, <2>2, <3>1
      <4> QED  BY <1>0, <1>3, <2>2, <4>1
    <3> QED  BY <1>0, <3>1, <3>2, <3>3
  <2> QED  BY <1>0, <2>1, <2>2 DEF Links
<1> QED  BY <1>0, <1>1, <1>4, <1>5 DEF Links

\* A chunk at x enters the list between a and what was behind a.
LinksIn(A, m, a, x, m2) ==
  /\ A \subseteq Nat /\ a \in A /\ x \in Nat \ A /\ a < x
  /\ \A c \in A \ {a} : next_of(m2, c) = next_of(m, c)
  /\ next_of(m2, a) = x - a
  /\ \/ next_of(m2, x) = -1 /\ \A c \in A : c <= a
     \/ \E b \in A : Behind(A, a, b) /\ x < b /\ next_of(m2, x) = b - x

LEMMA LinkedIn ==
  ASSUME NEW A, NEW m, NEW a, NEW x, NEW m2, Links(A, m), LinksIn(A, m, a, x, m2)
  PROVE  Links(A \cup {x}, m2)
<1>0. /\ A \subseteq Nat /\ a \in A /\ x \in Nat \ A /\ a < x
      /\ \A c \in A \ {a} : next_of(m2, c) = next_of(m, c)
      /\ next_of(m2, a) = x - a
      /\ \/ next_of(m2, x) = -1 /\ \A c \in A : c <= a
         \/ \E b \in A : Behind(A, a, b) /\ x < b /\ next_of(m2, x) = b - x
  BY DEF LinksIn
<1> DEFINE B == A \cup {x}
<1>1. ASSUME NEW c \in A PROVE c <= a \/ x < c
  BY <1>0 DEF Behind
<1>2. 0 \in B
  BY <1>0 DEF Links
<1>3. Behind(B, a, x)
  BY <1>0, <1>1 DEF Behind
<1>4. \/ next_of(m2, x) = -1 /\ \A c \in B : c <= x
      \/ \E b \in B : Behind(B, x, b) /\ next_of(m2, x) = b - x
  <2>1. CASE next_of(m2, x) = -1 /\ \A c \in A : c <= a
    BY <1>0, <2>1
  <2>2. ASSUME NEW b \in A, Behind(A, a, b), x < b, next_of(m2, x) = b - x
        PROVE  \E e \in B : Behind(B, x, e) /\ next_of(m2, x) = e - x
    <3>1. Behind(B, x, b)
      BY <1>0, <2>2 DEF Behind
    <3> QED  BY <1>0, <2>2, <3>1
  <2> QED  BY <1>0, <2>1, <2>2
<1>5. ASSUME NEW c \in A, c # a
      PROVE  \/ next_of(m2, c) = -1 /\ \A e \in B : e <= c
             \/ \E d \in B : Behind(B, c, d) /\ next_of(m2, c) = d - c
  <2>1. next_of(m2, c) = next_of(m, c) /\ c \in Nat
    BY <1>0, <1>5
  <2>2. CASE next_of(m, c) = -1 /\ \A e \in A : e <= c
    <3>1. a < c
      BY <1>0, <1>5, <2>2
    <3>2. x < c
      BY <1>0, <1>1, <3>1
    <3> QED  BY <1>0, <2>1, <2>2, <3>2
  <2>3. ASSUME NEW d \in A, Behind(A, c, d), next_of(m, c) = d - c
        PROVE  \E e \in B : Behind(B, c, e) /\ next_of(m2, c) = e - c
    <3>1. x <= c \/ d <= x
      <4>1. a < c \/ c < a
        BY <1>0, <1>5
      <4>2. CASE a < c
        BY <1>0, <1>1, <4>2
      <4>3. CASE c < a
        BY <1>0, <2>3, <4>3 DEF Behind
      <4> QED  BY <1>0, <4>1, <4>2, <4>3
    <3>2. Behind(B, c, d)
      BY <1>0, <2>3, <3>1 DEF Behind
    <3> QED  BY <1>0, <2>1, <2>3, <3>2
  <2> QED  BY <1>0, <2>2, <2>3 DEF Links
<1> QED  BY <1>0, <1>2, <1>3, <1>4, <1>5 DEF Links

-----------------------------------------------------------------------------
(* Pieces are split and joined.                                            *)

LEMMA SplitTiling ==
  ASSUME NEW Q, NEW n \in Nat, Tiling(Q, n), NEW p \in Q, NEW x \in Nat,
         p.at + 2 <= x, x + 2 <= p.end
  PROVE  /\ Tiling((Q \ {p}) \cup {[at |-> p.at, end |-> x], [at |-> x, end |-> p.end]}, n)
         /\ [at |-> p.at, end |-> x] \notin Q /\ [at |-> x, end |-> p.end] \notin Q
<1> DEFINE lo == [at |-> p.at, end |-> x]
           hi == [at |-> x, end |-> p.end]
           R  == (Q \ {p}) \cup {lo, hi}
<1>1. p \in Piece /\ p.end <= n
  BY DEF Tiling
<1>2. p.at \in Nat /\ p.end \in Nat
  BY <1>1, PieceFields
<1>3. lo \in Piece /\ hi \in Piece
  BY <1>2, PieceIs
<1>4. lo.at = p.at /\ lo.end = x /\ hi.at = x /\ hi.end = p.end
  OBVIOUS
<1> HIDE DEF lo, hi
<1>5. ASSUME NEW q \in Q, q # p
      PROVE  Apart(lo, q) /\ Apart(hi, q) /\ Apart(q, lo) /\ Apart(q, hi)
  <2>1. Apart(p, q) /\ q \in Piece
    BY <1>5 DEF Tiling
  <2>2. q.at \in Nat /\ q.end \in Nat
    BY <2>1, PieceFields
  <2> QED  BY <1>2, <1>4, <2>1, <2>2 DEF Apart
<1>6. \A q, r \in R : q # r => Apart(q, r)
  <2>1. Apart(lo, hi) /\ Apart(hi, lo)
    BY <1>4 DEF Apart
  <2>2. \A q, r \in Q : q # r => Apart(q, r)
    BY DEF Tiling
  <2> QED  BY <1>5, <2>1, <2>2
<1>7. \A a \in 0..(n - 1) : \E q \in R : q.at <= a /\ a < q.end
  <2> SUFFICES ASSUME NEW a \in 0..(n - 1) PROVE \E q \in R : q.at <= a /\ a < q.end
    OBVIOUS
  <2>1. PICK q \in Q : q.at <= a /\ a < q.end
    BY DEF Tiling
  <2>2. CASE q # p
    BY <2>1, <2>2
  <2>3. CASE q = p
    <3>1. a < x \/ x <= a
      OBVIOUS
    <3>2. (lo.at <= a /\ a < lo.end) \/ (hi.at <= a /\ a < hi.end)
      BY <1>2, <1>4, <2>1, <2>3, <3>1
    <3> QED  BY <3>2
  <2> QED  BY <2>2, <2>3
<1>8. \A q \in R : q \in Piece /\ q.end <= n
  <2>1. \A q \in Q : q \in Piece /\ q.end <= n
    BY DEF Tiling
  <2> QED  BY <1>1, <1>2, <1>3, <1>4, <2>1
<1>9. lo \notin Q /\ hi \notin Q
  <2>1. ~Apart(p, lo) /\ ~Apart(p, hi) /\ lo # p /\ hi # p
    BY <1>2, <1>4 DEF Apart
  <2> QED  BY <2>1 DEF Tiling
<1>10. Tiling(R, n)
  BY <1>6, <1>7, <1>8 DEF Tiling
<1> QED  BY <1>9, <1>10 DEF lo, hi

LEMMA JoinTiling ==
  ASSUME NEW Q, NEW n \in Nat, Tiling(Q, n), NEW p \in Q, NEW q \in Q, p.end = q.at
  PROVE  /\ Tiling((Q \ {p, q}) \cup {[at |-> p.at, end |-> q.end]}, n)
         /\ [at |-> p.at, end |-> q.end] \notin Q
<1> DEFINE all == [at |-> p.at, end |-> q.end]
           R   == (Q \ {p, q}) \cup {all}
<1>1. p \in Piece /\ q \in Piece /\ q.end <= n
  BY DEF Tiling
<1>2. /\ p.at \in Nat /\ p.end \in Nat /\ p.at + 2 <= p.end
      /\ q.at \in Nat /\ q.end \in Nat /\ q.at + 2 <= q.end
  BY <1>1, PieceFields
<1>3. all \in Piece
  BY <1>2, PieceIs
<1>4. all.at = p.at /\ all.end = q.end
  OBVIOUS
<1> HIDE DEF all
<1>5. ASSUME NEW r \in Q, r # p, r # q PROVE Apart(all, r) /\ Apart(r, all)
  <2>1. Apart(p, r) /\ Apart(q, r) /\ r \in Piece
    BY <1>5 DEF Tiling
  <2>2. r.at \in Nat /\ r.end \in Nat /\ r.at + 2 <= r.end
    BY <2>1, PieceFields
  <2> QED  BY <1>2, <1>4, <2>1, <2>2 DEF Apart
<1>6. \A r, s \in R : r # s => Apart(r, s)
  <2>1. \A r, s \in Q : r # s => Apart(r, s)
    BY DEF Tiling
  <2> QED  BY <1>5, <2>1
<1>7. \A a \in 0..(n - 1) : \E r \in R : r.at <= a /\ a < r.end
  <2> SUFFICES ASSUME NEW a \in 0..(n - 1) PROVE \E r \in R : r.at <= a /\ a < r.end
    OBVIOUS
  <2>1. PICK r \in Q : r.at <= a /\ a < r.end
    BY DEF Tiling
  <2>2. CASE r # p /\ r # q
    BY <2>1, <2>2
  <2>3. CASE r = p \/ r = q
    BY <1>2, <1>4, <2>1, <2>3
  <2> QED  BY <2>2, <2>3
<1>8. \A r \in R : r \in Piece /\ r.end <= n
  <2>1. \A r \in Q : r \in Piece /\ r.end <= n
    BY DEF Tiling
  <2> QED  BY <1>1, <1>3, <1>4, <2>1
<1>9. all \notin Q
  <2>1. ~Apart(p, all) /\ all # p
    <3>1. all # p
      BY <1>2, <1>4
    <3>2. ~Apart(p, all)
      BY <1>2, <1>4 DEF Apart
    <3> QED  BY <3>1, <3>2
  <2> QED  BY <2>1 DEF Tiling
<1>10. Tiling(R, n)
  BY <1>6, <1>7, <1>8 DEF Tiling
<1> QED  BY <1>9, <1>10 DEF all

\* The words W are the only ones in which m2 differs from m.
OnlyIn(W, m, m2) ==
  /\ m2 \in Seq(Int) /\ Len(m2) = Len(m)
  /\ \A a \in 0..(Len(m) - 1) : a \in W \/ At(m2, a) = At(m, a)

WordsOf(p) == p.at..(p.end - 1)

\* A chunk that none of the changed words belongs to keeps its header.
LEMMA HeaderKept ==
  ASSUME NEW m, NEW C, NEW K, Heap(m, C, K), NEW W, NEW m2, OnlyIn(W, m, m2),
         NEW r \in C, r.at \notin W, r.at + 1 \notin W
  PROVE  next_of(m2, r.at) = next_of(m, r.at) /\ size_of(m2, r.at) = size_of(m, r.at)
<1>1. PICK a \in Nat, e \in Nat, n \in Nat : a = r.at /\ e = r.end /\ n = Len(m) /\ a + 2 <= e /\ e <= n
  <2>1. r.at \in Nat /\ r.end \in Nat /\ r.at + 2 <= r.end /\ r.end <= Len(m)
    BY ChunkFacts
  <2>2. Len(m) \in Nat
    BY DEF Heap
  <2> QED  BY <2>1, <2>2
<1>2. a \in 0..(n - 1) /\ a + 1 \in 0..(n - 1)
  BY <1>1
<1>3. r.at \in 0..(Len(m) - 1) /\ r.at + 1 \in 0..(Len(m) - 1)
  BY <1>1, <1>2
<1> QED  BY <1>3 DEF OnlyIn, next_of, size_of

\* Words of one piece are words of no other.
LEMMA WordsApart ==
  ASSUME NEW Q, NEW n, Tiling(Q, n), NEW p \in Q, NEW q \in Q, p # q
  PROVE  /\ q.at \notin WordsOf(p) /\ q.at + 1 \notin WordsOf(p)
         /\ \A a \in WordsOf(q) : a \notin WordsOf(p)
<1>1. p \in Piece /\ q \in Piece /\ Apart(p, q)
  BY DEF Tiling
<1>2. /\ p.at \in Nat /\ p.end \in Nat /\ p.at + 2 <= p.end
      /\ q.at \in Nat /\ q.end \in Nat /\ q.at + 2 <= q.end
  BY <1>1, PieceFields
<1> QED  BY <1>1, <1>2 DEF Apart, WordsOf

-----------------------------------------------------------------------------
(* What Mem_Alloc and Mem_Free do to a heap.                               *)

\* Mem_Alloc cuts a block from the end of chunk p, at x.
LEMMA CutHeap ==
  ASSUME NEW m, NEW C, NEW K, Heap(m, C, K), NEW p \in C, NEW x \in Nat,
         p.at + 2 <= x, x + 2 <= p.end,
         NEW m2, OnlyIn({p.at + 1} \cup (x..(p.end - 1)), m, m2),
         size_of(m2, p.at) = x - p.at - 2
  PROVE  Heap(m2, (C \ {p}) \cup {[at |-> p.at, end |-> x]}, K \cup {[at |-> x, end |-> p.end]})
<1> DEFINE lo == [at |-> p.at, end |-> x]
           hi == [at |-> x, end |-> p.end]
           C2 == (C \ {p}) \cup {lo}
           K2 == K \cup {hi}
           Q  == C \cup K
           W  == {p.at + 1} \cup (x..(p.end - 1))
<1>1. Tiling(Q, Len(m)) /\ C \cap K = {} /\ Len(m) \in Nat /\ Linked(C, m)
  BY DEF Heap
<1>2. /\ Tiling((Q \ {p}) \cup {lo, hi}, Len(m)) /\ lo \notin Q /\ hi \notin Q
  BY <1>1, SplitTiling
<1>3. p.at \in Nat /\ p.end \in Nat
  BY ChunkFacts
<1>4. lo.at = p.at /\ lo.end = x /\ hi.at = x
  OBVIOUS
<1>5. W \subseteq WordsOf(p) /\ p.at \notin W
  BY <1>3 DEF WordsOf
<1> HIDE DEF lo, hi, W
<1>6. Tiling(C2 \cup K2, Len(m)) /\ C2 \cap K2 = {}
  <2>1. C2 \cup K2 = (Q \ {p}) \cup {lo, hi}
    BY <1>1
  <2>2. lo # hi
    BY <1>3, <1>4
  <2>3. C2 \cap K2 = {}
    BY <1>1, <1>2, <2>2
  <2> QED  BY <1>2, <2>1, <2>3
<1>7. Ats(C2) = Ats(C)
  BY <1>4 DEF Ats
<1>8. OnlyIn(W, m, m2)
  BY DEF W
<1>9. ASSUME NEW r \in C, r # p
      PROVE  next_of(m2, r.at) = next_of(m, r.at) /\ size_of(m2, r.at) = size_of(m, r.at)
  <2>1. r.at \notin W /\ r.at + 1 \notin W
    BY <1>1, <1>5, <1>9, WordsApart
  <2> QED  BY <1>8, <2>1, HeaderKept
<1>10. next_of(m2, p.at) = next_of(m, p.at)
  <2>1. p.at \in 0..(Len(m) - 1)
    BY ChunkFacts
  <2> QED  BY <1>5, <1>8, <2>1 DEF OnlyIn, next_of
<1>11. \A a \in Ats(C) : next_of(m2, a) = next_of(m, a)
  BY <1>9, <1>10 DEF Ats
<1>12. Links(Ats(C2), m2)
  BY <1>1, <1>7, <1>11, LinkedIsLinks, SameLinks
<1>13. \A r \in C2 : size_of(m2, r.at) = r.end - r.at - HEADER
  <2>1. \A r \in C : size_of(m, r.at) = r.end - r.at - HEADER
    BY <1>1, LinkedIsLinks
  <2>2. size_of(m2, lo.at) = lo.end - lo.at - HEADER
    BY <1>4 DEF HEADER
  <2> QED  BY <1>9, <2>1, <2>2
<1>14. Linked(C2, m2)
  BY <1>12, <1>13, LinkedIsLinks
<1>15. m2 \in Seq(Int) /\ Len(m2) = Len(m)
  BY DEF OnlyIn
<1> HIDE DEF C2, K2
<1>16. Heap(m2, C2, K2)
  BY <1>6, <1>14, <1>15 DEF Heap
<1> QED  BY <1>16 DEF C2, K2, lo, hi

LEMMA AtsAreNat ==
  ASSUME NEW m, NEW C, NEW K, Heap(m, C, K)
  PROVE  Ats(C) \subseteq Nat
BY ChunkFacts DEF Ats

LEMMA FollowsIsBehind ==
  ASSUME NEW C, NEW p \in C, NEW q \in C
  PROVE  Follows(C, p, q) <=> Behind(Ats(C), p.at, q.at)
BY DEF Follows, Behind, Ats

LEMMA AtsWithout ==
  ASSUME NEW m, NEW C, NEW K, Heap(m, C, K), NEW p \in C
  PROVE  Ats(C \ {p}) = Ats(C) \ {p.at}
<1>1. \A q \in C : q # p => q.at # p.at
  BY ChunkFacts
<1> QED  BY <1>1 DEF Ats

\* Mem_Alloc takes chunk p whole; o is the one before it in the list.
LEMMA TakeHeap ==
  ASSUME NEW m, NEW C, NEW K, Heap(m, C, K), NEW p \in C, NEW o \in C, Follows(C, o, p),
         NEW m2, OnlyIn({o.at} \cup WordsOf(p), m, m2),
         next_of(m2, o.at) = IF next_of(m, p.at) = -1 THEN -1
                             ELSE next_of(m, o.at) + next_of(m, p.at)
  PROVE  Heap(m2, C \ {p}, K \cup {p})
<1> DEFINE W == {o.at} \cup WordsOf(p)
           Q == C \cup K
<1>1. Tiling(Q, Len(m)) /\ C \cap K = {} /\ Linked(C, m)
  BY DEF Heap
<1>2. Tiling((C \ {p}) \cup (K \cup {p}), Len(m)) /\ (C \ {p}) \cap (K \cup {p}) = {}
  <2>1. (C \ {p}) \cup (K \cup {p}) = Q
    OBVIOUS
  <2> QED  BY <1>1, <2>1
<1>3. p # o /\ o.at \in Nat
  BY ChunkFacts DEF Follows
<1>4. OnlyIn(W, m, m2)
  OBVIOUS
<1>5. ASSUME NEW r \in C, r # p
      PROVE  /\ r.at + 1 \notin W
             /\ r # o => r.at \notin W
  <2>1. r.at \notin WordsOf(p) /\ r.at + 1 \notin WordsOf(p)
    BY <1>1, <1>5, WordsApart
  <2>2. r.at + 1 # o.at /\ (r # o => r.at # o.at)
    <3>1. r # o => Apart(r, o) /\ r.at # o.at
      BY ChunkFacts
    <3>2. r.at \in Nat /\ r.at + 2 <= r.end /\ r.end \in Nat /\ o.at + 2 <= o.end /\ o.end \in Nat
      BY ChunkFacts
    <3> QED  BY <1>3, <3>1, <3>2 DEF Apart
  <2> QED  BY <2>1, <2>2
<1> HIDE DEF W
<1>6. \A r \in C \ {o, p} : next_of(m2, r.at) = next_of(m, r.at)
  BY <1>4, <1>5, HeaderKept
<1>7. \A r \in C \ {p} : size_of(m2, r.at) = size_of(m, r.at)
  <2> SUFFICES ASSUME NEW r \in C \ {p} PROVE size_of(m2, r.at) = size_of(m, r.at)
    OBVIOUS
  <2>1. r.at + 1 \notin W
    BY <1>5
  <2>2. r.at + 1 \in 0..(Len(m) - 1)
    <3>1. r.at \in Nat /\ r.end \in Nat /\ r.at + 2 <= r.end /\ r.end <= Len(m) /\ Len(m) \in Nat
      BY ChunkFacts
    <3> QED  BY <3>1
  <2> QED  BY <1>4, <2>1, <2>2 DEF OnlyIn, size_of
<1>8. Links(Ats(C) \ {p.at}, m2)
  <2>1. Ats(C) \subseteq Nat /\ Links(Ats(C), m) /\ o.at \in Ats(C) /\ p.at \in Ats(C)
    BY <1>1, AtsAreNat, LinkedIsLinks DEF Ats
  <2>2. Behind(Ats(C), o.at, p.at)
    BY FollowsIsBehind
  <2>3. \A c \in Ats(C) \ {o.at, p.at} : next_of(m2, c) = next_of(m, c)
    BY <1>6 DEF Ats
  <2> DEFINE A == Ats(C)
             a == o.at
             b == p.at
  <2>4. next_of(m2, a) = IF next_of(m, b) = -1 THEN -1 ELSE next_of(m, a) + next_of(m, b)
    OBVIOUS
  <2>5. Unlinks(A, m, a, b, m2)
    BY <2>1, <2>2, <2>3, <2>4 DEF Unlinks
  <2> HIDE DEF A, a, b
  <2>6. Links(A \ {b}, m2)
    BY <2>1, <2>5, Unlinked DEF A
  <2> QED  BY <2>6 DEF A, b
<1>9. Linked(C \ {p}, m2)
  <2>1. \A r \in C : size_of(m, r.at) = r.end - r.at - HEADER
    BY <1>1, LinkedIsLinks
  <2>2. \A r \in C \ {p} : size_of(m2, r.at) = r.end - r.at - HEADER
    BY <1>7, <2>1
  <2>3. Links(Ats(C \ {p}), m2)
    BY <1>8, AtsWithout
  <2> QED  BY <2>2, <2>3, LinkedIsLinks
<1>10. m2 \in Seq(Int) /\ Len(m2) = Len(m)
  BY DEF OnlyIn
<1> QED  BY <1>2, <1>9, <1>10 DEF Heap

\* Mem_Free links block k into the list behind chunk o.
LEMMA FreeHeap ==
  ASSUME NEW m, NEW C, NEW K, Heap(m, C, K), NEW k \in K, NEW o \in C, o.at <= k.at,
         NEW m2, OnlyIn({o.at} \cup WordsOf(k), m, m2),
         next_of(m2, o.at) = k.at - o.at, size_of(m2, k.at) = k.end - k.at - 2,
         \/ next_of(m2, k.at) = -1 /\ \A q \in C : q.at <= o.at
         \/ \E q \in C : Follows(C, o, q) /\ k.at < q.at /\ next_of(m2, k.at) = q.at - k.at
  PROVE  Heap(m2, C \cup {k}, K \ {k})
<1> DEFINE W == {o.at} \cup WordsOf(k)
           Q == C \cup K
<1>1. Tiling(Q, Len(m)) /\ C \cap K = {} /\ Linked(C, m)
  BY DEF Heap
<1>2. Tiling((C \cup {k}) \cup (K \ {k}), Len(m)) /\ (C \cup {k}) \cap (K \ {k}) = {}
  <2>1. (C \cup {k}) \cup (K \ {k}) = Q
    OBVIOUS
  <2> QED  BY <1>1, <2>1
<1>3. k \in Piece /\ k \notin C /\ o.at \in Nat /\ k.at \in Nat
  <2>1. k \in Piece /\ k \notin C
    BY <1>1 DEF Tiling
  <2> QED  BY <2>1, ChunkFacts, PieceFields
<1>4. ASSUME NEW r \in C PROVE r.at \notin WordsOf(k) /\ r.at + 1 \notin WordsOf(k) /\ r.at # k.at
  <2>1. r.at \notin WordsOf(k) /\ r.at + 1 \notin WordsOf(k)
    BY <1>1, <1>3, WordsApart
  <2>2. k.at \in WordsOf(k)
    BY <1>3, PieceFields DEF WordsOf
  <2> QED  BY <2>1, <2>2
<1>5. OnlyIn(W, m, m2)
  OBVIOUS
<1>6. ASSUME NEW r \in C
      PROVE  /\ r.at + 1 \notin W
             /\ r # o => r.at \notin W
  <2>1. r.at + 1 # o.at /\ (r # o => r.at # o.at)
    <3>1. r # o => Apart(r, o) /\ r.at # o.at
      BY ChunkFacts
    <3>2. /\ r.at \in Nat /\ r.at + 2 <= r.end /\ r.end \in Nat
          /\ o.at \in Nat /\ o.at + 2 <= o.end /\ o.end \in Nat
      BY ChunkFacts
    <3> QED  BY <3>1, <3>2 DEF Apart
  <2> QED  BY <1>4, <2>1
<1> HIDE DEF W
<1>7. \A r \in C \ {o} : next_of(m2, r.at) = next_of(m, r.at)
  BY <1>5, <1>6, HeaderKept
<1>8. \A r \in C : size_of(m2, r.at) = size_of(m, r.at)
  <2> SUFFICES ASSUME NEW r \in C PROVE size_of(m2, r.at) = size_of(m, r.at)
    OBVIOUS
  <2>1. r.at + 1 \notin W
    BY <1>6
  <2>2. r.at + 1 \in 0..(Len(m) - 1)
    <3>1. r.at \in Nat /\ r.end \in Nat /\ r.at + 2 <= r.end /\ r.end <= Len(m) /\ Len(m) \in Nat
      BY ChunkFacts
    <3> QED  BY <3>1
  <2> QED  BY <1>5, <2>1, <2>2 DEF OnlyIn, size_of
<1>9. Links(Ats(C) \cup {k.at}, m2)
  <2> DEFINE A == Ats(C)
             a == o.at
             x == k.at
  <2>1. A \subseteq Nat /\ Links(A, m) /\ a \in A
    BY <1>1, AtsAreNat, LinkedIsLinks DEF Ats
  <2>2. x \in Nat \ A /\ a < x
    <3>1. x \notin A
      BY <1>4 DEF Ats
    <3>2. a # x
      BY <1>4
    <3> QED  BY <1>3, <3>1, <3>2
  <2>3. \A c \in A \ {a} : next_of(m2, c) = next_of(m, c)
    BY <1>7 DEF Ats
  <2>4. next_of(m2, a) = x - a
    OBVIOUS
  <2>5. \/ next_of(m2, x) = -1 /\ \A c \in A : c <= a
        \/ \E b \in A : Behind(A, a, b) /\ x < b /\ next_of(m2, x) = b - x
    <3>1. CASE next_of(m2, k.at) = -1 /\ \A q \in C : q.at <= o.at
      BY <3>1 DEF Ats
    <3>2. ASSUME NEW q \in C, Follows(C, o, q), k.at < q.at, next_of(m2, k.at) = q.at - k.at
          PROVE  \E b \in A : Behind(A, a, b) /\ x < b /\ next_of(m2, x) = b - x
      <4>1. Behind(Ats(C), o.at, q.at) /\ q.at \in Ats(C)
        BY <3>2, FollowsIsBehind DEF Behind
      <4> QED  BY <3>2, <4>1
    <3> QED  BY <3>1, <3>2
  <2>6. LinksIn(A, m, a, x, m2)
    BY <2>1, <2>2, <2>3, <2>4, <2>5 DEF LinksIn
  <2> HIDE DEF A, a, x
  <2>7. Links(A \cup {x}, m2)
    BY <2>1, <2>6, LinkedIn
  <2> QED  BY <2>7 DEF A, x
<1>10. Linked(C \cup {k}, m2)
  <2>1. \A r \in C : size_of(m, r.at) = r.end - r.at - HEADER
    BY <1>1, LinkedIsLinks
  <2>2. \A r \in C \cup {k} : size_of(m2, r.at) = r.end - r.at - HEADER
    BY <1>8, <2>1 DEF HEADER
  <2>3. Ats(C \cup {k}) = Ats(C) \cup {k.at}
    BY DEF Ats
  <2> QED  BY <1>9, <2>2, <2>3, LinkedIsLinks
<1>11. m2 \in Seq(Int) /\ Len(m2) = Len(m)
  BY DEF OnlyIn
<1> QED  BY <1>2, <1>10, <1>11 DEF Heap

\* Chunk p swallows q, the next in the list, which begins where p ends.
LEMMA SwallowHeap ==
  ASSUME NEW m, NEW C, NEW K, Heap(m, C, K), NEW p \in C, NEW q \in C,
         Follows(C, p, q), p.end = q.at,
         NEW m2, OnlyIn({p.at, p.at + 1} \cup WordsOf(q), m, m2),
         size_of(m2, p.at) = q.end - p.at - 2,
         next_of(m2, p.at) = IF next_of(m, q.at) = -1 THEN -1
                             ELSE next_of(m, p.at) + next_of(m, q.at)
  PROVE  Heap(m2, (C \ {p, q}) \cup {[at |-> p.at, end |-> q.end]}, K)
<1> DEFINE all == [at |-> p.at, end |-> q.end]
           C2  == (C \ {p, q}) \cup {all}
           Q   == C \cup K
           W   == {p.at, p.at + 1} \cup WordsOf(q)
<1>1. Tiling(Q, Len(m)) /\ C \cap K = {} /\ Linked(C, m) /\ Len(m) \in Nat
  BY DEF Heap
<1>2. Tiling((Q \ {p, q}) \cup {all}, Len(m)) /\ all \notin Q
  BY <1>1, JoinTiling
<1>3. all.at = p.at /\ all.end = q.end
  OBVIOUS
<1> HIDE DEF all
<1>4. Tiling(C2 \cup K, Len(m)) /\ C2 \cap K = {}
  <2>1. C2 \cup K = (Q \ {p, q}) \cup {all}
    BY <1>1
  <2> QED  BY <1>1, <1>2, <2>1
<1>5. OnlyIn(W, m, m2)
  OBVIOUS
<1>6. ASSUME NEW r \in C, r # p, r # q PROVE r.at \notin W /\ r.at + 1 \notin W
  <2>1. /\ r.at \notin WordsOf(q) /\ r.at + 1 \notin WordsOf(q)
        /\ r.at \notin WordsOf(p) /\ r.at + 1 \notin WordsOf(p)
    BY <1>1, <1>6, WordsApart
  <2>2. p.at \in WordsOf(p) /\ p.at + 1 \in WordsOf(p)
    <3>1. p.at \in Nat /\ p.end \in Nat /\ p.at + 2 <= p.end
      BY ChunkFacts
    <3> QED  BY <3>1 DEF WordsOf
  <2> QED  BY <2>1, <2>2
<1> HIDE DEF W
<1>7. \A r \in C \ {p, q} : /\ next_of(m2, r.at) = next_of(m, r.at)
                            /\ size_of(m2, r.at) = size_of(m, r.at)
  BY <1>5, <1>6, HeaderKept
<1>8. Links(Ats(C) \ {q.at}, m2)
  <2> DEFINE A == Ats(C)
             a == p.at
             b == q.at
  <2>1. A \subseteq Nat /\ Links(A, m) /\ a \in A /\ b \in A
    BY <1>1, AtsAreNat, LinkedIsLinks DEF Ats
  <2>2. Behind(A, a, b)
    BY FollowsIsBehind
  <2>3. \A c \in A \ {a, b} : next_of(m2, c) = next_of(m, c)
    BY <1>7 DEF Ats
  <2>4. next_of(m2, a) = IF next_of(m, b) = -1 THEN -1 ELSE next_of(m, a) + next_of(m, b)
    OBVIOUS
  <2>5. Unlinks(A, m, a, b, m2)
    BY <2>1, <2>2, <2>3, <2>4 DEF Unlinks
  <2> HIDE DEF A, a, b
  <2>6. Links(A \ {b}, m2)
    BY <2>1, <2>5, Unlinked
  <2> QED  BY <2>6 DEF A, b
<1>9. Ats(C2) = Ats(C) \ {q.at}
  <2>1. \A r \in C : r # q => r.at # q.at
    BY ChunkFacts
  <2>2. p # q
    BY ChunkFacts DEF Follows
  <2> QED  BY <1>3, <2>1, <2>2 DEF Ats
<1>10. \A r \in C2 : size_of(m2, r.at) = r.end - r.at - HEADER
  <2>1. \A r \in C : size_of(m, r.at) = r.end - r.at - HEADER
    BY <1>1, LinkedIsLinks
  <2>2. size_of(m2, all.at) = all.end - all.at - HEADER
    BY <1>3 DEF HEADER
  <2> QED  BY <1>7, <2>1, <2>2
<1>11. Linked(C2, m2)
  BY <1>8, <1>9, <1>10, LinkedIsLinks
<1>12. m2 \in Seq(Int) /\ Len(m2) = Len(m)
  BY DEF OnlyIn
<1> HIDE DEF C2
<1>13. Heap(m2, C2, K)
  BY <1>4, <1>11, <1>12 DEF Heap
<1> QED  BY <1>13 DEF C2, all

-----------------------------------------------------------------------------
(* What the calls write, word by word.                                     *)

LEMMA OnlyInMore ==
  ASSUME NEW W, NEW m, NEW m2, OnlyIn(W, m, m2), NEW V, W \subseteq V
  PROVE  OnlyIn(V, m, m2)
BY DEF OnlyIn

LEMMA OnlyInBoth ==
  ASSUME NEW V, NEW W, NEW m, NEW m2, NEW m3, OnlyIn(V, m, m2), OnlyIn(W, m2, m3)
  PROVE  OnlyIn(V \cup W, m, m3)
BY DEF OnlyIn

LEMMA OnlyPut ==
  ASSUME NEW m \in Seq(Int), NEW a \in 0..(Len(m) - 1), NEW v \in Int
  PROVE  OnlyIn({a}, m, Put(m, a, v)) /\ At(Put(m, a, v), a) = v
BY PutWord DEF OnlyIn

LEMMA OnlyFill ==
  ASSUME NEW m \in Seq(Int), NEW from \in Int, NEW to \in Int, NEW v \in Int
  PROVE  /\ OnlyIn(from..(to - 1), m, Fill(m, from, to, v))
         /\ \A a \in 0..(Len(m) - 1) : from <= a /\ a < to => At(Fill(m, from, to, v), a) = v
<1>1. Len(m) \in Nat
  OBVIOUS
<1> QED  BY <1>1, FillWords DEF OnlyIn

\* A block of n words is to be cut at x from the chunk of the words c to e - 1.
CutAt(c, e, x, n) ==
  /\ mem \in Seq(Int) /\ PADDING_SIZE \in Nat
  /\ c \in Nat /\ e \in Nat /\ x \in Nat /\ n \in Nat \ {0}
  /\ e <= Len(mem) /\ size_of(mem, c) = e - c - 2 /\ x = e - Need(n) /\ c + 2 <= x

CutDone(t, c, x, n) ==
  /\ t.ptr = x + 2 + PADDING_SIZE
  /\ OnlyIn({c + 1, x}, mem, t.mem)
  /\ size_of(t.mem, c) = x - c - 2 /\ At(t.mem, x) = n

LEMMA CutWords ==
  ASSUME NEW c, NEW e, NEW x, NEW n, CutAt(c, e, x, n)
  PROVE  CutDone(CutFrom(c, n), c, x, n)
<1> DEFINE less == Put(mem, c + 1, size_of(mem, c) - Need(n))
           cut  == Put(less, c + 2 + size_of(less, c), n)
<1>a. /\ mem \in Seq(Int) /\ PADDING_SIZE \in Nat
      /\ c \in Nat /\ e \in Nat /\ x \in Nat /\ n \in Nat \ {0}
      /\ e <= Len(mem) /\ size_of(mem, c) = e - c - 2 /\ x = e - Need(n) /\ c + 2 <= x
  BY DEF CutAt
<1>0. Len(mem) \in Nat /\ Need(n) \in Nat /\ Need(n) >= 2 /\ n \in Int
  BY <1>a DEF Need, HEADER
<1>1. c + 1 \in 0..(Len(mem) - 1) /\ x \in 0..(Len(mem) - 1)
  BY <1>0, <1>a
<1>2. size_of(mem, c) - Need(n) = x - c - 2 /\ x - c - 2 \in Int
  <2>1. PICK need \in Nat : need = Need(n)
    BY <1>0
  <2>2. x = e - need
    BY <1>a, <2>1
  <2>3. c \in Nat /\ e \in Nat
    BY <1>a
  <2>4. (e - c - 2) - need = x - c - 2
    BY <2>2, <2>3
  <2> QED  BY <1>a, <2>1, <2>4
<1>3. OnlyIn({c + 1}, mem, less) /\ size_of(less, c) = x - c - 2
  BY <1>1, <1>2, <1>a, OnlyPut DEF size_of
<1>4. less \in Seq(Int) /\ Len(less) = Len(mem)
  BY <1>3 DEF OnlyIn
<1> HIDE DEF less
<1>5. c + 2 + size_of(less, c) = x
  BY <1>3, <1>a
<1>6. cut = Put(less, x, n)
  BY <1>5
<1>7. OnlyIn({x}, less, cut) /\ At(cut, x) = n
  <2>1. x \in 0..(Len(less) - 1)
    BY <1>1, <1>4
  <2>2. OnlyIn({x}, less, Put(less, x, n)) /\ At(Put(less, x, n), x) = n
    BY <1>0, <1>4, <2>1, OnlyPut
  <2> HIDE DEF cut
  <2> QED  BY <1>6, <2>2
<1> HIDE DEF cut
<1>8. OnlyIn({c + 1, x}, mem, cut)
  <2>1. OnlyIn({c + 1} \cup {x}, mem, cut)
    BY <1>3, <1>7, OnlyInBoth
  <2> QED  BY <2>1, OnlyInMore
<1>9. size_of(cut, c) = x - c - 2
  <2>1. c + 1 # x
    BY <1>a
  <2> QED  BY <1>1, <1>3, <1>4, <1>7, <2>1 DEF OnlyIn, size_of
<1>10. CutFrom(c, n).mem = cut /\ CutFrom(c, n).ptr = x + 2 + PADDING_SIZE
  <2>1. CutFrom(c, n) = [mem |-> cut, ptr |-> c + 2 + size_of(cut, c) + 2 + PADDING_SIZE]
    BY DEF CutFrom, less, cut, HEADER
  <2> QED  BY <1>9, <1>a, <2>1
<1> QED  BY <1>7, <1>8, <1>9, <1>10 DEF CutDone

LEMMA TakeWords ==
  ASSUME mem \in Seq(Int), NEW c \in 0..(Len(mem) - 1), NEW o \in 0..(Len(mem) - 1), c # o,
         NEW n \in Nat
  PROVE  LET cut == TakeWhole(c, o, n).mem
         IN  /\ TakeWhole(c, o, n).ptr = c + 2
             /\ OnlyIn({o, c}, mem, cut) /\ At(cut, c) = n
             /\ next_of(cut, o) = IF next_of(mem, c) = -1 THEN -1
                                  ELSE next_of(mem, o) + next_of(mem, c)
<1> DEFINE v == IF next_of(mem, c) = -1 THEN -1 ELSE next_of(mem, o) + next_of(mem, c)
           less == Put(mem, o, v)
           cut == Put(less, c, n)
<1>1. v \in Int
  <2>1. next_of(mem, c) \in Int /\ next_of(mem, o) \in Int
    BY AtType DEF next_of
  <2> QED  BY <2>1
<1> HIDE DEF v
<1>2. OnlyIn({o}, mem, less) /\ At(less, o) = v
  BY <1>1, OnlyPut
<1>3. less \in Seq(Int) /\ Len(less) = Len(mem)
  BY <1>2 DEF OnlyIn
<1> HIDE DEF less
<1>4. OnlyIn({c}, less, cut) /\ At(cut, c) = n
  <2>1. c \in 0..(Len(less) - 1) /\ n \in Int
    BY <1>3
  <2> QED  BY <1>3, <2>1, OnlyPut
<1> HIDE DEF cut
<1>5. OnlyIn({o, c}, mem, cut)
  <2>1. OnlyIn({o} \cup {c}, mem, cut)
    BY <1>2, <1>4, OnlyInBoth
  <2> QED  BY <2>1, OnlyInMore
<1>6. next_of(cut, o) = v
  BY <1>2, <1>3, <1>4 DEF OnlyIn, next_of
<1>7. TakeWhole(c, o, n) = [mem |-> cut, ptr |-> c + 2]
  BY DEF TakeWhole, v, less, cut, HEADER
<1> QED  BY <1>4, <1>5, <1>6, <1>7 DEF v

LEMMA PaddingWordsSet ==
  ASSUME NEW m \in Seq(Int), NEW ptr \in Nat, NEW n \in Nat, PADDING_SIZE \in Nat
  PROVE  LET set == SetPaddings(m, ptr, n)
             top == (ptr - PADDING_SIZE)..(ptr - 1)
             bottom == (ptr + n)..(ptr + n + PADDING_SIZE - 1)
         IN  /\ OnlyIn(top \cup bottom, m, set)
             /\ \A a \in 0..(Len(m) - 1) : a \in top \cup bottom => At(set, a) = PADDING_PATTERN
<1> DEFINE P == PADDING_SIZE
           one == Fill(m, ptr - P, ptr, PADDING_PATTERN)
           set == Fill(one, ptr + n, ptr + n + P, PADDING_PATTERN)
           top == (ptr - P)..(ptr - 1)
           bottom == (ptr + n)..(ptr + n + P - 1)
<1>1. /\ ptr \in Int /\ ptr - P \in Int /\ ptr + n \in Int /\ ptr + n + P \in Int
      /\ PADDING_PATTERN \in Int
  BY DEF PADDING_PATTERN
<1>2. /\ OnlyIn(top, m, one)
      /\ \A a \in 0..(Len(m) - 1) : ptr - P <= a /\ a < ptr => At(one, a) = PADDING_PATTERN
  BY <1>1, OnlyFill
<1>3. one \in Seq(Int) /\ Len(one) = Len(m)
  BY <1>2 DEF OnlyIn
<1> HIDE DEF one
<1>4. /\ OnlyIn(bottom, one, set)
      /\ \A a \in 0..(Len(m) - 1) : ptr + n <= a /\ a < ptr + n + P => At(set, a) = PADDING_PATTERN
  BY <1>1, <1>3, OnlyFill
<1> HIDE DEF set
<1>5. OnlyIn(top \cup bottom, m, set)
  BY <1>2, <1>4, OnlyInBoth
<1>6. ASSUME NEW a \in 0..(Len(m) - 1), a \in top \cup bottom
      PROVE  At(set, a) = PADDING_PATTERN
  <2>1. CASE a \in bottom
    BY <1>4, <2>1
  <2>2. CASE a \notin bottom
    <3>1. At(one, a) = PADDING_PATTERN
      BY <1>2, <1>6, <2>2
    <3>2. At(set, a) = At(one, a)
      BY <1>3, <1>4, <2>2 DEF OnlyIn
    <3> QED  BY <3>1, <3>2
  <2> QED  BY <2>1, <2>2
<1>7. SetPaddings(m, ptr, n) = set
  BY DEF SetPaddings, one, set
<1> QED  BY <1>5, <1>6, <1>7

-----------------------------------------------------------------------------
(* Blocks in a heap.  B are the blocks that were given out, P the words of *)
(* a padding, D the words the client damaged.                              *)

PieceOf(b, P) == [at |-> b.ptr - P - HEADER, end |-> b.ptr + b.size + P]
PiecesOf(B, P) == {PieceOf(b, P) : b \in B}

Block == [ptr : Nat, size : Nat \ {0}]

\* The header of a block holds its size.
Headed(m, B, P) == \A b \in B : At(m, b.ptr - P - HEADER) = b.size

FreeClean(m, C, D) ==
  \A p \in C : \A a \in (p.at + HEADER)..(p.end - 1) : a \in D \/ At(m, a) = FREE_PATTERN

Padded(b, P) == ((b.ptr - P)..(b.ptr + b.size + P - 1)) \ (b.ptr..(b.ptr + b.size - 1))

PadClean(m, B, P, D) ==
  \A b \in B : \A a \in Padded(b, P) : a \in D \/ At(m, a) = PADDING_PATTERN

\* No two chunks touch.
Merged(C) == \A p, q \in C : p.end # q.at

Carving(m, C, B, P, D, isdebug) ==
  /\ B \subseteq Block /\ P \in Nat
  /\ Heap(m, C, PiecesOf(B, P))
  /\ Headed(m, B, P)
  /\ isdebug => FreeClean(m, C, D) /\ PadClean(m, B, P, D)

Carved(m, C, B, P, D, isdebug) == Carving(m, C, B, P, D, isdebug) /\ Merged(C)

LEMMA BlockFields ==
  ASSUME NEW b \in Block
  PROVE  b.ptr \in Nat /\ b.size \in Nat \ {0} /\ b = [ptr |-> b.ptr, size |-> b.size]
BY DEF Block

\* Where the piece of a block lies.
LEMMA BlockFacts ==
  ASSUME NEW m, NEW C, NEW B, NEW P, B \subseteq Block, P \in Nat, Heap(m, C, PiecesOf(B, P)),
         NEW b \in B
  PROVE  /\ b.ptr \in Nat /\ b.size \in Nat \ {0} /\ PieceOf(b, P) \in PiecesOf(B, P)
         /\ PieceOf(b, P).at = b.ptr - P - 2 /\ PieceOf(b, P).end = b.ptr + b.size + P
         /\ PieceOf(b, P) \in Piece /\ b.ptr - P - 2 \in Nat /\ b.ptr + b.size + P <= Len(m)
<1>1. b.ptr \in Nat /\ b.size \in Nat \ {0}
  BY BlockFields
<1>2. PieceOf(b, P) \in PiecesOf(B, P)
  BY DEF PiecesOf
<1>3. PieceOf(b, P) \in Piece /\ PieceOf(b, P).end <= Len(m)
  BY <1>2 DEF Heap, Tiling
<1>4. PieceOf(b, P).at = b.ptr - P - 2 /\ PieceOf(b, P).end = b.ptr + b.size + P
  BY DEF PieceOf, HEADER
<1>5. /\ b.ptr - P - 2 \in Nat /\ b.ptr + b.size + P <= Len(m)
  BY <1>3, <1>4, PieceFields
<1> QED  BY <1>1, <1>2, <1>3, <1>4, <1>5

LEMMA PieceOfIsOne ==
  ASSUME NEW P \in Nat, NEW b \in Block, NEW c \in Block, PieceOf(b, P) = PieceOf(c, P)
  PROVE  b = c
<1>1. b.ptr - P - 2 = c.ptr - P - 2 /\ b.ptr + b.size + P = c.ptr + c.size + P
  BY DEF PieceOf, HEADER
<1>2. b.ptr = c.ptr /\ b.size = c.size
  BY <1>1, BlockFields
<1> QED  BY <1>2, BlockFields

\* Blocks whose words are not written keep their header and their paddings.
Spared(S, B, P, W) ==
  /\ S \subseteq B /\ B \subseteq Block /\ P \in Nat
  /\ \A b \in S : \A a \in WordsOf(PieceOf(b, P)) : a \notin W

BlocksKeep(m, m2, S, B, P, D) ==
  /\ Headed(m, B, P) => Headed(m2, S, P)
  /\ PadClean(m, B, P, D) => PadClean(m2, S, P, D)

LEMMA BlocksKept ==
  ASSUME NEW m, NEW C, NEW B, NEW P, NEW D, Heap(m, C, PiecesOf(B, P)),
         NEW W, NEW m2, OnlyIn(W, m, m2), NEW S, Spared(S, B, P, W)
  PROVE  BlocksKeep(m, m2, S, B, P, D)
<1>0. /\ S \subseteq B /\ B \subseteq Block /\ P \in Nat
      /\ \A b \in S : \A a \in WordsOf(PieceOf(b, P)) : a \notin W
  BY DEF Spared
<1>1. ASSUME NEW b \in S, NEW a \in Int, b.ptr - P - 2 <= a, a < b.ptr + b.size + P
      PROVE  At(m2, a) = At(m, a)
  <2>1. /\ b.ptr - P - 2 \in Nat /\ b.ptr + b.size + P <= Len(m)
        /\ PieceOf(b, P).at = b.ptr - P - 2 /\ PieceOf(b, P).end = b.ptr + b.size + P
        /\ b.ptr \in Nat /\ b.size \in Nat /\ P \in Nat
    BY <1>0, BlockFacts
  <2>2. a \in WordsOf(PieceOf(b, P))
    BY <1>1, <2>1 DEF WordsOf
  <2>3. Len(m) \in Nat
    BY DEF Heap
  <2>4. a \in 0..(Len(m) - 1)
    BY <1>1, <2>1, <2>3
  <2> QED  BY <1>0, <2>2, <2>4 DEF OnlyIn
<1>2. ASSUME Headed(m, B, P), NEW b \in S PROVE At(m2, b.ptr - P - HEADER) = b.size
  <2>1. b.ptr \in Nat /\ b.size \in Nat /\ P \in Nat
    BY <1>0, BlockFacts
  <2>2. At(m2, b.ptr - P - 2) = At(m, b.ptr - P - 2)
    BY <1>1, <2>1
  <2> QED  BY <1>0, <1>2, <2>2 DEF Headed, HEADER
<1>3. ASSUME PadClean(m, B, P, D), NEW b \in S, NEW a \in Padded(b, P)
      PROVE  a \in D \/ At(m2, a) = PADDING_PATTERN
  <2>1. b.ptr \in Nat /\ b.size \in Nat /\ P \in Nat
    BY <1>0, BlockFacts
  <2>2. a \in Int /\ b.ptr - P - 2 <= a /\ a < b.ptr + b.size + P
    BY <2>1 DEF Padded
  <2>3. At(m2, a) = At(m, a)
    BY <1>1, <2>2
  <2> QED  BY <1>0, <1>3, <2>3 DEF PadClean
<1> QED  BY <1>2, <1>3 DEF Headed, PadClean, BlocksKeep

\* So do chunks: S are pieces of free words that belonged to chunks before.
LEMMA ChunksKept ==
  ASSUME NEW m, NEW C, NEW K, NEW D, Heap(m, C, K), FreeClean(m, C, D),
         NEW W, NEW m2, OnlyIn(W, m, m2), NEW S,
         \A p \in S : \A a \in (p.at + HEADER)..(p.end - 1) :
           /\ a \notin W
           /\ \E q \in C : a \in (q.at + HEADER)..(q.end - 1)
  PROVE  FreeClean(m2, S, D)
<1> SUFFICES ASSUME NEW p \in S, NEW a \in (p.at + HEADER)..(p.end - 1)
             PROVE  a \in D \/ At(m2, a) = FREE_PATTERN
  BY DEF FreeClean
<1>1. PICK q \in C : a \in (q.at + HEADER)..(q.end - 1)
  OBVIOUS
<1>2. a \in 0..(Len(m) - 1)
  <2>1. q.at \in Nat /\ q.end \in Nat /\ q.end <= Len(m) /\ Len(m) \in Nat
    BY ChunkFacts
  <2> QED  BY <1>1, <2>1 DEF HEADER
<1>3. At(m2, a) = At(m, a)
  BY <1>2 DEF OnlyIn
<1>4. a \in D \/ At(m, a) = FREE_PATTERN
  BY <1>1 DEF FreeClean
<1> QED  BY <1>3, <1>4

-----------------------------------------------------------------------------
(* Mem_Alloc, when it found a chunk.                                       *)

\* What a block of n words takes with its header and paddings.
LEMMA NeedIsMore ==
  ASSUME NEW n \in Nat \ {0}, PADDING_SIZE \in Nat
  PROVE  Need(n) \in Nat /\ Need(n) >= 3 /\ Need(n) = n + 2 * PADDING_SIZE + 2
BY DEF Need, HEADER

\* What passes the first test leaves room for the header of the free chunk, or
\* Overlap tells that it does not.
LEMMA CutPlace ==
  ASSUME NEW C, NEW K, Heap(mem, C, K), NEW p \in C, NEW n \in Nat \ {0},
         PADDING_SIZE \in Nat, HasMore(p.at, n), ~NoRoom(p.at, n)
  PROVE  \E x \in Nat : x = p.end - Need(n) /\ p.at + 2 <= x /\ x + 2 <= p.end
<1>1. p.at \in Nat /\ p.end \in Nat /\ size_of(mem, p.at) = p.end - p.at - 2
  BY ChunkFacts, PieceFields
<1>2. PICK need \in Nat : need = Need(n) /\ need >= 3
  BY NeedIsMore
<1>3. PICK a \in Nat, e \in Nat : a = p.at /\ e = p.end
  BY <1>1
<1>4. PICK size \in Int : size = size_of(mem, p.at) /\ size = e - a - 2
  BY <1>1, <1>3
<1>5. ~(size < need)
  BY <1>2, <1>4 DEF NoRoom
<1>6. e - need >= a + 2 /\ e - need \in Nat /\ e - need + 2 <= e
  BY <1>2, <1>4, <1>5
<1> QED  BY <1>2, <1>3, <1>6

\* The memory Mem_Alloc leaves behind, and the block.
Taken(c, prev, n) == IF HasMore(c, n) THEN CutFrom(c, n) ELSE TakeWhole(c, prev, n)
AfterTaken(t, n) == IF debug THEN SetPaddings(t.mem, t.ptr, n) ELSE t.mem
BlockTaken(t, n) == [ptr |-> t.ptr, size |-> n]

CutIs(p, n, x, t, after) ==
  /\ t.ptr = x + 2 + PADDING_SIZE /\ t.ptr + n + PADDING_SIZE = p.end
  /\ OnlyIn({p.at + 1} \cup (x..(p.end - 1)), mem, after)
  /\ size_of(after, p.at) = x - p.at - 2 /\ At(after, x) = n
  /\ debug => \A a \in Padded(BlockTaken(t, n), PADDING_SIZE) : At(after, a) = PADDING_PATTERN

LEMMA CutAfter ==
  ASSUME NEW C, NEW K, Heap(mem, C, K), NEW p \in C, NEW n \in Nat \ {0}, PADDING_SIZE \in Nat,
         NEW x \in Nat, x = p.end - Need(n), p.at + 2 <= x, x + 2 <= p.end,
         NEW t, t = CutFrom(p.at, n), NEW after, after = AfterTaken(t, n)
  PROVE  CutIs(p, n, x, t, after)
<1> SUFFICES /\ t.ptr = x + 2 + PADDING_SIZE /\ t.ptr + n + PADDING_SIZE = p.end
             /\ OnlyIn({p.at + 1} \cup (x..(p.end - 1)), mem, after)
             /\ size_of(after, p.at) = x - p.at - 2 /\ At(after, x) = n
             /\ debug => \A a \in Padded(BlockTaken(t, n), PADDING_SIZE) : At(after, a) = PADDING_PATTERN
  BY DEF CutIs
<1> DEFINE P == PADDING_SIZE
           W == {p.at + 1} \cup (x..(p.end - 1))
<1>1. PICK c \in Nat, e \in Nat : c = p.at /\ e = p.end
  BY ChunkFacts
<1>2. mem \in Seq(Int) /\ Len(mem) \in Nat /\ e <= Len(mem) /\ size_of(mem, c) = e - c - 2
  BY <1>1, ChunkFacts
<1>3. x = e - Need(n) /\ c + 2 <= x /\ x + 2 <= e /\ t = CutFrom(c, n)
  BY <1>1
<1>4. /\ t.ptr = x + 2 + P
      /\ OnlyIn({c + 1, x}, mem, t.mem)
      /\ size_of(t.mem, c) = x - c - 2 /\ At(t.mem, x) = n
  <2>1. CutAt(c, e, x, n)
    BY <1>2, <1>3 DEF CutAt
  <2>2. CutDone(t, c, x, n)
    BY <1>3, <2>1, CutWords
  <2> QED  BY <2>2 DEF CutDone
<1>9. c + 2 <= x /\ x + 2 <= e /\ e <= Len(mem) /\ Len(mem) \in Nat
  BY <1>2, <1>3
<1>5. e = x + n + 2 * P + 2 /\ t.ptr \in Nat /\ t.ptr + n + P = e
  <2>1. Need(n) = n + 2 * P + 2
    BY DEF Need, HEADER
  <2> QED  BY <1>3, <1>4, <2>1
<1>6. t.mem \in Seq(Int) /\ Len(t.mem) = Len(mem)
  BY <1>4 DEF OnlyIn
<1>7. CASE ~debug
  <2>1. after = t.mem
    BY <1>7 DEF AfterTaken
  <2>2. OnlyIn(W, mem, after)
    <3>1. {c + 1, x} \subseteq W
      BY <1>1, <1>9
    <3> QED  BY <1>4, <2>1, <3>1, OnlyInMore
  <2> QED  BY <1>1, <1>4, <1>5, <1>7, <2>1, <2>2
<1>8. CASE debug
  <2> DEFINE V == ((t.ptr - P)..(t.ptr - 1)) \cup ((t.ptr + n)..(t.ptr + n + P - 1))
  <2>1. after = SetPaddings(t.mem, t.ptr, n)
    BY <1>8 DEF AfterTaken
  <2>2. /\ OnlyIn(V, t.mem, after)
        /\ \A a \in 0..(Len(mem) - 1) : a \in V => At(after, a) = PADDING_PATTERN
    <3>1. /\ OnlyIn(V, t.mem, SetPaddings(t.mem, t.ptr, n))
          /\ \A a \in 0..(Len(t.mem) - 1) : a \in V => At(SetPaddings(t.mem, t.ptr, n), a) = PADDING_PATTERN
      BY <1>5, <1>6, PaddingWordsSet
    <3> HIDE DEF V
    <3> QED  BY <1>6, <2>1, <3>1
  <2>3. V \subseteq (x + 2)..(e - 1)
    BY <1>4, <1>5
  <2>4. V = Padded(BlockTaken(t, n), P)
    BY <1>5 DEF Padded, BlockTaken
  <2> HIDE DEF V
  <2>5. OnlyIn(W, mem, after)
    <3>1. OnlyIn({c + 1, x} \cup V, mem, after)
      BY <1>4, <2>2, OnlyInBoth
    <3>2. (x + 2)..(e - 1) \subseteq x..(e - 1) /\ x \in x..(e - 1)
      BY <1>9
    <3>3. {c + 1, x} \cup V \subseteq {c + 1} \cup (x..(e - 1))
      BY <2>3, <3>2
    <3> QED  BY <1>1, <3>1, <3>3, OnlyInMore
  <2>6. size_of(after, c) = x - c - 2
    <3>1. c + 1 \notin V /\ c + 1 \in 0..(Len(mem) - 1)
      BY <1>9, <2>3
    <3> QED  BY <1>4, <1>6, <2>2, <3>1 DEF OnlyIn, size_of
  <2>7. At(after, x) = n
    <3>1. x \notin V /\ x \in 0..(Len(mem) - 1)
      BY <1>9, <2>3
    <3> QED  BY <1>4, <1>6, <2>2, <3>1 DEF OnlyIn
  <2>8. \A a \in Padded(BlockTaken(t, n), P) : At(after, a) = PADDING_PATTERN
    <3>1. \A a \in V : a \in 0..(Len(mem) - 1)
      BY <1>9, <2>3
    <3> QED  BY <2>2, <2>4, <3>1
  <2> QED  BY <1>1, <1>4, <1>5, <2>5, <2>6, <2>7, <2>8
<1> QED  BY <1>7, <1>8

\* Cut or taken whole, the block becomes a piece of the region.
TakenFrom(p, B, n, t, after) ==
  /\ \E C : Carved(after, C, B \cup {BlockTaken(t, n)}, PADDING_SIZE, damage, debug)
  /\ t.ptr - PADDING_SIZE - 2 = p.end - Need(n) /\ Len(after) = Len(mem)

LEMMA CutCarved ==
  ASSUME NEW C, NEW B, Carved(mem, C, B, PADDING_SIZE, damage, debug), NEW p \in C,
         NEW n \in Nat \ {0}, HasMore(p.at, n), ~NoRoom(p.at, n),
         NEW t, t = CutFrom(p.at, n), NEW after, after = AfterTaken(t, n)
  PROVE  TakenFrom(p, B, n, t, after)
<1> DEFINE P == PADDING_SIZE
           K == PiecesOf(B, P)
           b == BlockTaken(t, n)
<1>1. /\ Heap(mem, C, K) /\ P \in Nat /\ B \subseteq Block /\ Merged(C) /\ Headed(mem, B, P)
      /\ debug => FreeClean(mem, C, damage) /\ PadClean(mem, B, P, damage)
  BY DEF Carved, Carving
<1>2. PICK x \in Nat : x = p.end - Need(n) /\ p.at + 2 <= x /\ x + 2 <= p.end
  BY <1>1, CutPlace
<1> DEFINE W == {p.at + 1} \cup (x..(p.end - 1))
           lo == [at |-> p.at, end |-> x]
           hi == [at |-> x, end |-> p.end]
           C2 == (C \ {p}) \cup {lo}
<1>3. /\ t.ptr = x + 2 + P /\ t.ptr + n + P = p.end
      /\ OnlyIn(W, mem, after)
      /\ size_of(after, p.at) = x - p.at - 2 /\ At(after, x) = n
      /\ debug => \A a \in Padded(b, P) : At(after, a) = PADDING_PATTERN
  <2>1. x = p.end - Need(n) /\ p.at + 2 <= x /\ x + 2 <= p.end /\ PADDING_SIZE \in Nat /\ Heap(mem, C, K)
    BY <1>1, <1>2
  <2> HIDE DEF K, W, b, P, lo, hi, C2
  <2>2. /\ t.ptr = x + 2 + PADDING_SIZE /\ t.ptr + n + PADDING_SIZE = p.end
        /\ OnlyIn({p.at + 1} \cup (x..(p.end - 1)), mem, after)
        /\ size_of(after, p.at) = x - p.at - 2 /\ At(after, x) = n
        /\ debug => \A a \in Padded(BlockTaken(t, n), PADDING_SIZE) : At(after, a) = PADDING_PATTERN
    <3>1. CutIs(p, n, x, t, after)
      BY <2>1, CutAfter
    <3> QED  BY <3>1, Zenon DEF CutIs
  <2> QED  BY <2>2, Zenon DEF W, b, P
<1>4. Heap(after, C2, K \cup {hi})
  BY <1>1, <1>2, <1>3, CutHeap
<1>5. p.at \in Nat /\ p.end \in Nat
  BY <1>1, ChunkFacts
<1>6. b \in Block /\ b.ptr = x + 2 + P /\ b.size = n
  BY <1>1, <1>2, <1>3 DEF BlockTaken, Block
<1>7. PiecesOf(B \cup {b}, P) = K \cup {hi}
  <2>1. PieceOf(b, P) = hi
    BY <1>1, <1>2, <1>3, <1>6 DEF PieceOf, HEADER
  <2> HIDE DEF b, hi
  <2> QED  BY <2>1 DEF PiecesOf
<1>8. WordsOf(p) \cap W = W
  BY <1>2, <1>5 DEF WordsOf
<1>9. Merged(C2)
  <2>1. ASSUME NEW q \in C, q # p PROVE q.at # x /\ q.end # p.at
    <3>1. Apart(p, q) /\ q.at \in Nat /\ q.end \in Nat /\ q.at + 2 <= q.end
      BY <1>1, <2>1, ChunkFacts
    <3>2. q.end # p.at
      BY <1>1 DEF Merged
    <3> QED  BY <1>2, <1>5, <3>1, <3>2 DEF Apart
  <2>2. lo.at = p.at /\ lo.end = x /\ x # p.at
    BY <1>2, <1>5
  <2> HIDE DEF lo
  <2> QED  BY <1>1, <2>1, <2>2 DEF Merged
<1> HIDE DEF W, lo, hi, b
<1>10. \A c \in B : \A a \in WordsOf(PieceOf(c, P)) : a \notin W
  <2> SUFFICES ASSUME NEW c \in B, NEW a \in WordsOf(PieceOf(c, P)) PROVE a \notin W
    OBVIOUS
  <2>1. PieceOf(c, P) \in K /\ p \notin K
    BY <1>1 DEF PiecesOf, Heap
  <2>2. Tiling(C \cup K, Len(mem))
    BY <1>1 DEF Heap
  <2>3. a \notin WordsOf(p)
    BY <2>1, <2>2, WordsApart
  <2> QED  BY <1>8, <2>3
<1>11. /\ Headed(mem, B, P) => Headed(after, B, P)
       /\ PadClean(mem, B, P, damage) => PadClean(after, B, P, damage)
  <2>1. Spared(B, B, P, W)
    BY <1>1, <1>10 DEF Spared
  <2>2. BlocksKeep(mem, after, B, B, P, damage)
    BY <1>1, <1>3, <2>1, BlocksKept
  <2> QED  BY <2>2 DEF BlocksKeep
<1>12. Headed(after, B \cup {b}, P)
  <2>1. b.ptr - P - HEADER = x
    BY <1>1, <1>2, <1>6 DEF HEADER
  <2> QED  BY <1>1, <1>3, <1>6, <1>11, <2>1 DEF Headed
<1>13. debug => PadClean(after, B \cup {b}, P, damage)
  BY <1>1, <1>3, <1>11 DEF PadClean
<1>14. debug => FreeClean(after, C2, damage)
  <2> SUFFICES ASSUME debug PROVE FreeClean(after, C2, damage)
    OBVIOUS
  <2>1. ASSUME NEW q \in C2, NEW a \in (q.at + HEADER)..(q.end - 1)
        PROVE  /\ a \notin W
               /\ \E r \in C : a \in (r.at + HEADER)..(r.end - 1)
    <3>1. CASE q = lo
      <4>1. a \in (p.at + 2)..(x - 1)
        BY <2>1, <3>1 DEF lo, HEADER
      <4>2. a \notin W /\ a \in (p.at + HEADER)..(p.end - 1)
        BY <1>2, <1>5, <4>1 DEF W, HEADER
      <4> QED  BY <4>2
    <3>2. CASE q # lo
      <4>1. q \in C /\ q # p /\ Tiling(C \cup K, Len(mem))
        BY <1>1, <3>2 DEF Heap
      <4>2. a \in WordsOf(q)
        <5>1. q.at \in Nat /\ q.end \in Nat
          BY <1>1, <4>1, ChunkFacts
        <5> QED  BY <2>1, <5>1 DEF WordsOf, HEADER
      <4>3. a \notin WordsOf(p)
        BY <4>1, <4>2, WordsApart
      <4> QED  BY <1>8, <2>1, <4>1, <4>3
    <3> QED  BY <3>1, <3>2
  <2> HIDE DEF C2
  <2> QED  BY <1>1, <1>3, <2>1, ChunksKept
<1>15. Carved(after, C2, B \cup {b}, P, damage, debug)
  BY <1>1, <1>4, <1>6, <1>7, <1>9, <1>12, <1>13, <1>14 DEF Carved, Carving
<1>16. t.ptr - P - 2 = p.end - Need(n)
  BY <1>1, <1>2, <1>3
<1>17. Len(after) = Len(mem)
  BY <1>3 DEF OnlyIn
<1> HIDE DEF C2
<1> QED  BY <1>15, <1>16, <1>17 DEF b, TakenFrom

LEMMA TakeCarved ==
  ASSUME NEW C, NEW B, Carved(mem, C, B, PADDING_SIZE, damage, debug), ~debug, PADDING_SIZE = 0,
         NEW p \in C, NEW o \in C, Follows(C, o, p),
         NEW n \in Nat \ {0}, HasExactly(p.at, n),
         NEW t, t = TakeWhole(p.at, o.at, n), NEW after, after = AfterTaken(t, n)
  PROVE  TakenFrom(p, B, n, t, after)
<1> DEFINE P == PADDING_SIZE
           K == PiecesOf(B, P)
           b == BlockTaken(t, n)
           W == {o.at} \cup WordsOf(p)
<1>1. /\ Heap(mem, C, K) /\ B \subseteq Block /\ Merged(C) /\ Headed(mem, B, P)
  BY DEF Carved, Carving
<1>2. /\ p.at \in Nat /\ p.end \in Nat /\ p.end <= Len(mem) /\ p.at + 2 <= p.end
      /\ o.at \in Nat /\ o.end \in Nat /\ o.end <= Len(mem) /\ o.at + 2 <= o.end
      /\ Len(mem) \in Nat
  BY <1>1, ChunkFacts
<1>m. mem \in Seq(Int) /\ size_of(mem, p.at) = p.end - p.at - 2
  BY <1>1, ChunkFacts
<1>3. p.end = p.at + n + 2 /\ p.end = p.at + Need(n)
  <2>1. Need(n) = n + 2
    BY DEF Need, HEADER
  <2>2. size_of(mem, p.at) + 2 = n + 2
    BY <2>1 DEF HasExactly, HEADER
  <2>3. (p.end - p.at - 2) + 2 = n + 2
    BY <1>m, <2>2
  <2>4. p.end = p.at + n + 2
    BY <1>2, <2>3
  <2>5. p.at + n + 2 = p.at + (n + 2)
    BY <1>2
  <2> QED  BY <2>1, <2>4, <2>5
<1>4. p.at # o.at
  BY <1>2 DEF Follows
<1>5. /\ t.ptr = p.at + 2
      /\ OnlyIn({o.at, p.at}, mem, t.mem) /\ At(t.mem, p.at) = n
      /\ next_of(t.mem, o.at) = IF next_of(mem, p.at) = -1 THEN -1
                                ELSE next_of(mem, o.at) + next_of(mem, p.at)
  <2>1. p.at \in 0..(Len(mem) - 1) /\ o.at \in 0..(Len(mem) - 1)
    BY <1>2
  <2> QED  BY <1>m, <1>4, <2>1, TakeWords
<1>6. after = t.mem
  BY DEF AfterTaken
<1>7. OnlyIn(W, mem, after)
  <2>1. {o.at, p.at} \subseteq W
    BY <1>2 DEF WordsOf
  <2> QED  BY <1>5, <1>6, <2>1, OnlyInMore
<1>8. Heap(after, C \ {p}, K \cup {p})
  BY <1>1, <1>5, <1>6, <1>7, TakeHeap
<1>9. b \in Block /\ b.ptr = p.at + 2 /\ b.size = n
  <2>1. t.ptr \in Nat
    BY <1>2, <1>5
  <2> QED  BY <1>5, <2>1 DEF BlockTaken, Block
<1>10. PiecesOf(B \cup {b}, P) = K \cup {p}
  <2>1. p \in Piece
    BY <1>1, ChunkFacts
  <2>2. PieceOf(b, P) = [at |-> p.at, end |-> p.end]
    BY <1>2, <1>3, <1>9 DEF PieceOf, HEADER
  <2>3. PieceOf(b, P) = p
    BY <2>1, <2>2, PieceFields
  <2> HIDE DEF b
  <2> QED  BY <2>3 DEF PiecesOf
<1> HIDE DEF W, b
<1>11. Merged(C \ {p})
  BY <1>1 DEF Merged
<1>12. \A c \in B : \A a \in WordsOf(PieceOf(c, P)) : a \notin W
  <2> SUFFICES ASSUME NEW c \in B, NEW a \in WordsOf(PieceOf(c, P)) PROVE a \notin W
    OBVIOUS
  <2>1. PieceOf(c, P) \in K /\ p \notin K /\ o \notin K
    BY <1>1 DEF PiecesOf, Heap
  <2>2. Tiling(C \cup K, Len(mem))
    BY <1>1 DEF Heap
  <2>3. a \notin WordsOf(p) /\ a \notin WordsOf(o)
    BY <2>1, <2>2, WordsApart
  <2>4. o.at \in WordsOf(o)
    BY <1>2 DEF WordsOf
  <2> QED  BY <2>3, <2>4 DEF W
<1>13. Headed(after, B, P)
  <2>1. Spared(B, B, P, W)
    BY <1>1, <1>12 DEF Spared
  <2>2. BlocksKeep(mem, after, B, B, P, damage)
    BY <1>1, <1>7, <2>1, BlocksKept
  <2> QED  BY <1>1, <2>2 DEF BlocksKeep
<1>14. Headed(after, B \cup {b}, P)
  <2>1. b.ptr - P - HEADER = p.at
    BY <1>2, <1>9 DEF HEADER
  <2>2. At(after, b.ptr - P - HEADER) = b.size
    BY <1>5, <1>6, <1>9, <2>1
  <2> QED  BY <1>13, <2>2 DEF Headed
<1>15. Carved(after, C \ {p}, B \cup {b}, P, damage, debug)
  BY <1>1, <1>8, <1>9, <1>10, <1>11, <1>14 DEF Carved, Carving
<1>16. t.ptr - P - 2 = p.end - Need(n)
  <2>1. PICK need \in Nat : need = Need(n)
    <3>1. Need(n) \in Nat
      BY DEF Need, HEADER
    <3> QED  BY <3>1
  <2>2. p.end - need = p.at
    BY <1>2, <1>3, <2>1
  <2> QED  BY <1>2, <1>5, <2>1, <2>2
<1>17. Len(after) = Len(mem)
  BY <1>7 DEF OnlyIn
<1> QED  BY <1>15, <1>16, <1>17 DEF b, TakenFrom

-----------------------------------------------------------------------------
(* Mem_Free.                                                               *)

\* The words that link the block k.at .. k.end - 1 into the list behind o.
LinkDone(m2, o, a, e, next) ==
  /\ OnlyIn({o} \cup (a..(e - 1)), mem, m2)
  /\ next_of(m2, o) = a - o /\ size_of(m2, a) = e - a - 2
  /\ next_of(m2, a) = IF next = NULL THEN -1 ELSE next - a
  /\ debug => \A x \in (a + 2)..(e - 1) : At(m2, x) = FREE_PATTERN

LEMMA LinkWords ==
  ASSUME mem \in Seq(Int), NEW o \in Nat, NEW a \in Nat, NEW e \in Nat,
         o < a, a + 2 <= e, e <= Len(mem), NEW next \in Int, NEW f, f.prev = o, f.next = next
  PROVE  LinkDone(Link(a, e - a - 2, f), o, a, e, next)
<1> DEFINE v == IF next = NULL THEN -1 ELSE next - a
           space == e - a - 2
           one == Put(mem, a, v)
           two == Put(one, a + 1, space)
           three == IF ~debug THEN two ELSE Fill(two, a + HEADER, a + HEADER + space, FREE_PATTERN)
           four == Put(three, o, a - o)
<1>0. Len(mem) \in Nat
  OBVIOUS
<1>1. v \in Int /\ space \in Int /\ a - o \in Int /\ a + 2 + space = e /\ a + 2 \in Int
  OBVIOUS
<1>2. a \in 0..(Len(mem) - 1) /\ a + 1 \in 0..(Len(mem) - 1) /\ o \in 0..(Len(mem) - 1)
  BY <1>0
<1>3. Link(a, space, f) = four
  BY DEF Link, v, one, two, three, four
<1> HIDE DEF v, space
<1>4. OnlyIn({a}, mem, one) /\ At(one, a) = v
  BY <1>1, <1>2, OnlyPut
<1>5. one \in Seq(Int) /\ Len(one) = Len(mem)
  BY <1>4 DEF OnlyIn
<1> HIDE DEF one
<1>6. OnlyIn({a + 1}, one, two) /\ At(two, a + 1) = space
  <2>1. a + 1 \in 0..(Len(one) - 1)
    BY <1>2, <1>5
  <2> QED  BY <1>1, <1>5, <2>1, OnlyPut
<1>7. two \in Seq(Int) /\ Len(two) = Len(mem)
  BY <1>5, <1>6 DEF OnlyIn
<1> HIDE DEF two
<1>8. /\ OnlyIn((a + 2)..(e - 1), two, three)
      /\ debug => \A x \in (a + 2)..(e - 1) : At(three, x) = FREE_PATTERN
  <2>1. CASE ~debug
    BY <1>7, <2>1 DEF OnlyIn
  <2>2. CASE debug
    <3>1. three = Fill(two, a + 2, e, FREE_PATTERN)
      BY <1>1, <2>2 DEF HEADER
    <3>2. FREE_PATTERN \in Int /\ e \in Int
      BY DEF FREE_PATTERN
    <3>3. /\ OnlyIn((a + 2)..(e - 1), two, Fill(two, a + 2, e, FREE_PATTERN))
          /\ \A x \in 0..(Len(two) - 1) :
               a + 2 <= x /\ x < e => At(Fill(two, a + 2, e, FREE_PATTERN), x) = FREE_PATTERN
      BY <1>1, <1>7, <3>2, OnlyFill
    <3>4. \A x \in (a + 2)..(e - 1) : x \in 0..(Len(two) - 1) /\ a + 2 <= x /\ x < e
      BY <1>0, <1>7
    <3> HIDE DEF three
    <3> QED  BY <3>1, <3>3, <3>4
  <2> QED  BY <2>1, <2>2
<1>9. three \in Seq(Int) /\ Len(three) = Len(mem)
  BY <1>7, <1>8 DEF OnlyIn
<1> HIDE DEF three
<1>10. OnlyIn({o}, three, four) /\ At(four, o) = a - o
  <2>1. o \in 0..(Len(three) - 1)
    BY <1>2, <1>9
  <2> QED  BY <1>1, <1>9, <2>1, OnlyPut
<1> HIDE DEF four
<1>11. OnlyIn({o} \cup (a..(e - 1)), mem, four)
  <2>1. OnlyIn(({a} \cup {a + 1}) \cup ((a + 2)..(e - 1)), mem, three)
    BY <1>4, <1>6, <1>8, OnlyInBoth
  <2>2. OnlyIn((({a} \cup {a + 1}) \cup ((a + 2)..(e - 1))) \cup {o}, mem, four)
    BY <1>10, <2>1, OnlyInBoth
  <2>3. (({a} \cup {a + 1}) \cup ((a + 2)..(e - 1))) \cup {o} \subseteq {o} \cup (a..(e - 1))
    OBVIOUS
  <2> QED  BY <2>2, <2>3, OnlyInMore
<1>12. At(four, a) = v
  <2>1. At(two, a) = v
    BY <1>2, <1>4, <1>5, <1>6 DEF OnlyIn
  <2>2. At(three, a) = At(two, a)
    <3>1. a \notin (a + 2)..(e - 1)
      OBVIOUS
    <3> QED  BY <1>2, <1>7, <1>8, <3>1 DEF OnlyIn
  <2>3. At(four, a) = At(three, a)
    BY <1>2, <1>9, <1>10 DEF OnlyIn
  <2> QED  BY <2>1, <2>2, <2>3
<1>13. At(four, a + 1) = space
  <2>1. At(three, a + 1) = At(two, a + 1)
    <3>1. a + 1 \notin (a + 2)..(e - 1)
      OBVIOUS
    <3> QED  BY <1>2, <1>7, <1>8, <3>1 DEF OnlyIn
  <2>2. At(four, a + 1) = At(three, a + 1)
    BY <1>2, <1>9, <1>10 DEF OnlyIn
  <2> QED  BY <1>6, <2>1, <2>2
<1>14. ASSUME debug, NEW x \in (a + 2)..(e - 1) PROVE At(four, x) = FREE_PATTERN
  <2>1. x # o /\ x \in 0..(Len(mem) - 1)
    BY <1>0
  <2>2. At(four, x) = At(three, x)
    BY <1>9, <1>10, <2>1 DEF OnlyIn
  <2> QED  BY <1>8, <1>14, <2>2
<1>15. LinkDone(four, o, a, e, next)
  BY <1>10, <1>11, <1>12, <1>13, <1>14 DEF LinkDone, next_of, size_of, v, space
<1> QED  BY <1>3, <1>15 DEF space

\* The words that chunk c changes when it swallows the one at d.
SwallowDone(m2, m, c, d) ==
  /\ OnlyIn({c, c + 1} \cup (d..(d + 1)), m, m2)
  /\ next_of(m2, c) = IF next_of(m, d) = -1 THEN -1 ELSE next_of(m, c) + next_of(m, d)
  /\ size_of(m2, c) = size_of(m, c) + size_of(m, d) + 2
  /\ debug => At(m2, d) = FREE_PATTERN /\ At(m2, d + 1) = FREE_PATTERN

LEMMA SwallowWords ==
  ASSUME NEW m \in Seq(Int), NEW c \in Nat, NEW d \in Nat, c + 2 <= d, d + 2 <= Len(m)
  PROVE  SwallowDone(Swallow(m, c, d), m, c, d)
<1> DEFINE v == IF next_of(m, d) = -1 THEN -1 ELSE next_of(m, c) + next_of(m, d)
           s == size_of(m, c) + size_of(m, d) + 2
           one == Put(m, c, v)
           two == Put(one, c + 1, s)
           three == IF debug THEN Fill(two, d, d + 2, FREE_PATTERN) ELSE two
<1>0. Len(m) \in Nat
  OBVIOUS
<1>1. c \in 0..(Len(m) - 1) /\ c + 1 \in 0..(Len(m) - 1) /\ d \in 0..(Len(m) - 1) /\ d + 1 \in 0..(Len(m) - 1)
  BY <1>0
<1>2. v \in Int /\ s \in Int
  <2>1. next_of(m, c) \in Int /\ next_of(m, d) \in Int /\ size_of(m, c) \in Int /\ size_of(m, d) \in Int
    BY <1>1, AtType DEF next_of, size_of
  <2> QED  BY <2>1
<1>3. Swallow(m, c, d) = three
  BY DEF Swallow, v, s, one, two, three, HEADER
<1> HIDE DEF v, s
<1>4. OnlyIn({c}, m, one) /\ At(one, c) = v
  BY <1>1, <1>2, OnlyPut
<1>5. one \in Seq(Int) /\ Len(one) = Len(m)
  BY <1>4 DEF OnlyIn
<1> HIDE DEF one
<1>6. OnlyIn({c + 1}, one, two) /\ At(two, c + 1) = s
  <2>1. c + 1 \in 0..(Len(one) - 1)
    BY <1>1, <1>5
  <2> QED  BY <1>2, <1>5, <2>1, OnlyPut
<1>7. two \in Seq(Int) /\ Len(two) = Len(m)
  BY <1>5, <1>6 DEF OnlyIn
<1> HIDE DEF two
<1>8. /\ OnlyIn(d..(d + 1), two, three)
      /\ debug => At(three, d) = FREE_PATTERN /\ At(three, d + 1) = FREE_PATTERN
  <2>1. CASE ~debug
    BY <1>7, <2>1 DEF OnlyIn
  <2>2. CASE debug
    <3>1. three = Fill(two, d, d + 2, FREE_PATTERN)
      BY <2>2
    <3>2. FREE_PATTERN \in Int /\ d \in Int /\ d + 2 \in Int /\ (d + 2) - 1 = d + 1
      BY DEF FREE_PATTERN
    <3>3. /\ OnlyIn(d..((d + 2) - 1), two, Fill(two, d, d + 2, FREE_PATTERN))
          /\ \A x \in 0..(Len(two) - 1) :
               d <= x /\ x < d + 2 => At(Fill(two, d, d + 2, FREE_PATTERN), x) = FREE_PATTERN
      BY <1>7, <3>2, OnlyFill
    <3>4. d \in 0..(Len(two) - 1) /\ d + 1 \in 0..(Len(two) - 1) /\ d < d + 2 /\ d <= d + 1 /\ d + 1 < d + 2
      BY <1>1, <1>7
    <3> HIDE DEF three
    <3> QED  BY <3>1, <3>2, <3>3, <3>4
  <2> QED  BY <2>1, <2>2
<1>9. three \in Seq(Int) /\ Len(three) = Len(m)
  BY <1>7, <1>8 DEF OnlyIn
<1> HIDE DEF three
<1>10. OnlyIn({c, c + 1} \cup (d..(d + 1)), m, three)
  <2>1. OnlyIn(({c} \cup {c + 1}) \cup (d..(d + 1)), m, three)
    BY <1>4, <1>6, <1>8, OnlyInBoth
  <2> QED  BY <2>1, OnlyInMore
<1>11. c \notin d..(d + 1) /\ c + 1 \notin d..(d + 1) /\ c # c + 1
  OBVIOUS
<1>12. At(three, c) = v
  <2>1. At(two, c) = v
    BY <1>1, <1>4, <1>5, <1>6, <1>11 DEF OnlyIn
  <2> QED  BY <1>1, <1>7, <1>8, <1>11, <2>1 DEF OnlyIn
<1>13. At(three, c + 1) = s
  BY <1>1, <1>6, <1>7, <1>8, <1>11 DEF OnlyIn
<1>14. SwallowDone(three, m, c, d)
  BY <1>8, <1>10, <1>12, <1>13 DEF SwallowDone, next_of, size_of, v, s
<1> QED  BY <1>3, <1>14

LEMMA SwallowLen ==
  ASSUME NEW m, NEW C, NEW K, Heap(m, C, K), NEW p \in C, NEW q \in C, p.end = q.at
  PROVE  Len(Swallow(m, p.at, q.at)) = Len(m)
<1>1. PICK c \in Nat, d \in Nat : c = p.at /\ d = q.at
  BY ChunkFacts
<1>2. m \in Seq(Int)
  BY DEF Heap
<1>3. c + 2 <= d /\ d + 2 <= Len(m)
  BY <1>1, ChunkFacts
<1>4. SwallowDone(Swallow(m, c, d), m, c, d)
  BY <1>2, <1>3, SwallowWords
<1> QED  BY <1>1, <1>4 DEF SwallowDone, OnlyIn

\* A chunk may swallow the next one that it touches.
LEMMA SwallowCarving ==
  ASSUME NEW m, NEW C, NEW B, NEW P, NEW D, Carving(m, C, B, P, D, debug),
         NEW p \in C, NEW q \in C, Follows(C, p, q), p.end = q.at,
         NEW m2, m2 = Swallow(m, p.at, q.at)
  PROVE  Carving(m2, (C \ {p, q}) \cup {[at |-> p.at, end |-> q.end]}, B, P, D, debug)
<1> DEFINE K == PiecesOf(B, P)
           W == {p.at, p.at + 1} \cup (q.at..(q.at + 1))
           V == {p.at, p.at + 1} \cup WordsOf(q)
           all == [at |-> p.at, end |-> q.end]
           C2 == (C \ {p, q}) \cup {all}
<1>1. /\ Heap(m, C, K) /\ P \in Nat /\ B \subseteq Block /\ Headed(m, B, P)
      /\ debug => FreeClean(m, C, D) /\ PadClean(m, B, P, D)
  BY DEF Carving
<1>2. /\ p.at \in Nat /\ p.end \in Nat /\ p.at + 2 <= p.end
      /\ q.at \in Nat /\ q.end \in Nat /\ q.at + 2 <= q.end /\ q.end <= Len(m)
      /\ Len(m) \in Nat
  BY <1>1, ChunkFacts
<1>3. /\ m \in Seq(Int) /\ size_of(m, p.at) = p.end - p.at - 2
      /\ size_of(m, q.at) = q.end - q.at - 2
  BY <1>1, ChunkFacts
<1>4. SwallowDone(m2, m, p.at, q.at)
  <2>1. p.at + 2 <= q.at /\ q.at + 2 <= Len(m)
    BY <1>2
  <2>2. SwallowDone(Swallow(m, p.at, q.at), m, p.at, q.at)
    BY <1>2, <1>3, <2>1, SwallowWords
  <2> QED  BY <2>2
<1>5. /\ OnlyIn(W, m, m2)
      /\ next_of(m2, p.at) = IF next_of(m, q.at) = -1 THEN -1
                             ELSE next_of(m, p.at) + next_of(m, q.at)
      /\ debug => At(m2, q.at) = FREE_PATTERN /\ At(m2, q.at + 1) = FREE_PATTERN
  BY <1>4 DEF SwallowDone
<1>6. size_of(m2, p.at) = q.end - p.at - 2
  <2>1. size_of(m2, p.at) = size_of(m, p.at) + size_of(m, q.at) + 2
    BY <1>4 DEF SwallowDone
  <2>2. (p.end - p.at - 2) + (q.end - q.at - 2) + 2 = q.end - p.at - 2
    BY <1>2
  <2> QED  BY <1>3, <2>1, <2>2
<1>7. OnlyIn(V, m, m2)
  <2>1. W \subseteq V
    BY <1>2 DEF WordsOf
  <2> QED  BY <1>5, <2>1, OnlyInMore
<1>8. Heap(m2, C2, K)
  BY <1>1, <1>5, <1>6, <1>7, SwallowHeap
<1>9. all.at = p.at /\ all.end = q.end
  OBVIOUS
<1>10. ASSUME NEW a \in W PROVE a \in WordsOf(p) \/ a \in WordsOf(q)
  BY <1>2, <1>10 DEF WordsOf
<1> HIDE DEF W, V, all
<1>11. \A c \in B : \A a \in WordsOf(PieceOf(c, P)) : a \notin W
  <2> SUFFICES ASSUME NEW c \in B, NEW a \in WordsOf(PieceOf(c, P)) PROVE a \notin W
    OBVIOUS
  <2>1. PieceOf(c, P) \in K /\ p \notin K /\ q \notin K
    BY <1>1 DEF PiecesOf, Heap
  <2>2. Tiling(C \cup K, Len(m))
    BY <1>1 DEF Heap
  <2>3. a \notin WordsOf(p) /\ a \notin WordsOf(q)
    BY <2>1, <2>2, WordsApart
  <2> QED  BY <1>10, <2>3
<1>12. /\ Headed(m, B, P) => Headed(m2, B, P)
       /\ PadClean(m, B, P, D) => PadClean(m2, B, P, D)
  <2>1. Spared(B, B, P, W)
    BY <1>1, <1>11 DEF Spared
  <2>2. BlocksKeep(m, m2, B, B, P, D)
    BY <1>1, <1>5, <2>1, BlocksKept
  <2> QED  BY <2>2 DEF BlocksKeep
<1>13. debug => FreeClean(m2, C2, D)
  <2> SUFFICES ASSUME debug PROVE FreeClean(m2, C2, D)
    OBVIOUS
  <2>1. ASSUME NEW r \in C2, NEW a \in (r.at + HEADER)..(r.end - 1), a \notin {q.at, q.at + 1}
        PROVE  /\ a \notin W
               /\ \E s \in C : a \in (s.at + HEADER)..(s.end - 1)
    <3>1. CASE r = all
      <4>1. a \in (p.at + 2)..(q.end - 1)
        BY <1>9, <2>1, <3>1 DEF HEADER
      <4>2. a \notin W
        BY <1>2, <2>1, <4>1 DEF W
      <4>3. a \in (p.at + 2)..(p.end - 1) \/ a \in (q.at + 2)..(q.end - 1)
        BY <1>2, <2>1, <4>1
      <4> QED  BY <4>2, <4>3 DEF HEADER
    <3>2. CASE r # all
      <4>1. r \in C /\ r # p /\ r # q /\ Tiling(C \cup K, Len(m))
        BY <1>1, <3>2 DEF Heap
      <4>2. a \in WordsOf(r)
        <5>1. r.at \in Nat /\ r.end \in Nat
          BY <1>1, <4>1, ChunkFacts
        <5> QED  BY <2>1, <5>1 DEF WordsOf, HEADER
      <4>3. a \notin WordsOf(p) /\ a \notin WordsOf(q)
        BY <4>1, <4>2, WordsApart
      <4> QED  BY <1>10, <2>1, <4>1, <4>3
    <3> QED  BY <3>1, <3>2
  <2> HIDE DEF C2
  <2>2. ASSUME NEW r \in C2, NEW a \in (r.at + HEADER)..(r.end - 1)
        PROVE  a \in D \/ At(m2, a) = FREE_PATTERN
    <3>1. CASE a \in {q.at, q.at + 1}
      BY <1>5, <3>1
    <3>2. CASE a \notin {q.at, q.at + 1}
      <4>1. a \notin W
        BY <2>1, <3>2
      <4>2. PICK s \in C : a \in (s.at + HEADER)..(s.end - 1)
        BY <2>1, <3>2
      <4>3. s.at \in Nat /\ s.end \in Nat /\ s.end <= Len(m) /\ Len(m) \in Nat
        BY <1>1, ChunkFacts
      <4>4. a \in 0..(Len(m) - 1)
        BY <4>2, <4>3 DEF HEADER
      <4>5. At(m2, a) = At(m, a)
        BY <1>5, <4>1, <4>4 DEF OnlyIn
      <4> QED  BY <1>1, <4>2, <4>5 DEF FreeClean
    <3> QED  BY <3>1, <3>2
  <2> QED  BY <2>2 DEF FreeClean
<1> HIDE DEF C2, K
<1>14. Carving(m2, C2, B, P, D, debug)
  BY <1>1, <1>8, <1>12, <1>13 DEF Carving, K
<1> QED  BY <1>14 DEF C2, all

\* While Mem_Free works: chunk k was linked in behind o, next behind k.
Between(m, C, B, o, k) ==
  /\ Carving(m, C, B, PADDING_SIZE, damage, debug)
  /\ o \in C /\ k \in C /\ Follows(C, o, k)

NextIs(C, k, next) ==
  \/ next = NULL /\ \A q \in C : q.at <= k.at
  \/ \E q \in C : Follows(C, k, q) /\ next = q.at

LinkedBehind(m2, C, B, f, o, k) ==
  /\ f.prev = o.at /\ Between(m2, C, B, o, k) /\ NextIs(C, k, f.next)
  /\ \A p, q \in C : p.end = q.at => p = k \/ q = k
  /\ Len(m2) = Len(mem)

LEMMA LinkCarving ==
  ASSUME NEW C, NEW B, Carved(mem, C, B, PADDING_SIZE, damage, debug), NEW b \in B,
         NEW k, k = PieceOf(b, PADDING_SIZE), NEW f, FoundAround(f, C, k.at),
         NEW m2, m2 = Link(k.at, b.size + 2 * PADDING_SIZE, f)
  PROVE  \E o \in C : LinkedBehind(m2, C \cup {k}, B \ {b}, f, o, k)
<1> DEFINE P == PADDING_SIZE
           K == PiecesOf(B, P)
           C2 == C \cup {k}
<1>1. /\ Heap(mem, C, K) /\ P \in Nat /\ B \subseteq Block /\ Headed(mem, B, P) /\ Merged(C)
      /\ debug => FreeClean(mem, C, damage) /\ PadClean(mem, B, P, damage)
  BY DEF Carved, Carving
<1>2. PICK o \in C :
        /\ f.prev = o.at /\ o.at <= k.at
        /\ \/ f.next = NULL /\ \A q \in C : q.at <= o.at
           \/ \E q \in C : Follows(C, o, q) /\ f.next = q.at /\ k.at < q.at
  BY DEF FoundAround
<1>3. /\ k \in K /\ k.at = b.ptr - P - 2 /\ k.end = b.ptr + b.size + P /\ k \in Piece
      /\ b.ptr \in Nat /\ b.size \in Nat \ {0}
  BY <1>1, BlockFacts
<1>4. /\ k.at \in Nat /\ k.end \in Nat /\ k.at + 2 <= k.end
  BY <1>3, PieceFields
<1>5. /\ o.at \in Nat /\ o.end \in Nat /\ o.at + 2 <= o.end /\ mem \in Seq(Int)
      /\ Tiling(C \cup K, Len(mem)) /\ C \cap K = {}
  BY <1>1, ChunkFacts DEF Heap
<1>6. o.at < k.at /\ k.end <= Len(mem)
  <2>1. k.end <= Len(mem) /\ o # k
    BY <1>3, <1>5 DEF Tiling
  <2>2. Apart(o, k)
    BY <1>3, <1>5, <2>1 DEF Tiling
  <2> QED  BY <1>2, <1>4, <1>5, <2>1, <2>2 DEF Apart
<1>7. f.next \in Int /\ (f.next = NULL \/ \E q \in C : f.next = q.at /\ q.at \in Nat)
  <2>1. \A q \in C : q.at \in Nat
    BY <1>1, ChunkFacts
  <2> QED  BY <1>2, <2>1 DEF NULL
<1>8. LinkDone(m2, o.at, k.at, k.end, f.next)
  <2>1. k.end - k.at - 2 = b.size + 2 * P
    BY <1>1, <1>3
  <2>2. m2 = Link(k.at, k.end - k.at - 2, f)
    BY <2>1
  <2>3. f.next \in Int
    BY <1>7
  <2>4. LinkDone(Link(k.at, k.end - k.at - 2, f), o.at, k.at, k.end, f.next)
    BY <1>2, <1>4, <1>5, <1>6, <2>3, LinkWords
  <2> QED  BY <2>2, <2>4
<1> DEFINE W == {o.at} \cup WordsOf(k)
<1>9. /\ OnlyIn(W, mem, m2)
      /\ next_of(m2, o.at) = k.at - o.at /\ size_of(m2, k.at) = k.end - k.at - 2
      /\ next_of(m2, k.at) = IF f.next = NULL THEN -1 ELSE f.next - k.at
      /\ debug => \A x \in (k.at + 2)..(k.end - 1) : At(m2, x) = FREE_PATTERN
  BY <1>8 DEF LinkDone, WordsOf
<1>10. \/ next_of(m2, k.at) = -1 /\ \A q \in C : q.at <= o.at
       \/ \E q \in C : Follows(C, o, q) /\ k.at < q.at /\ next_of(m2, k.at) = q.at - k.at
  <2>1. CASE f.next = NULL /\ \A q \in C : q.at <= o.at
    BY <1>9, <2>1
  <2>2. ASSUME NEW q \in C, Follows(C, o, q), f.next = q.at, k.at < q.at
        PROVE  Follows(C, o, q) /\ k.at < q.at /\ next_of(m2, k.at) = q.at - k.at
    <3>1. q.at \in Nat
      BY <1>1, ChunkFacts
    <3>2. f.next # NULL
      BY <2>2, <3>1 DEF NULL
    <3> QED  BY <1>9, <2>2, <3>2
  <2> QED  BY <1>2, <2>1, <2>2
<1>11. Heap(m2, C2, K \ {k})
  <2>1. o.at <= k.at /\ OnlyIn({o.at} \cup WordsOf(k), mem, m2)
    BY <1>2, <1>9
  <2>2. Heap(mem, C, K) /\ k \in K
    BY <1>1, <1>3
  <2> HIDE DEF K, W
  <2>3. Heap(m2, C \cup {k}, K \ {k})
    BY <1>9, <1>10, <2>1, <2>2, FreeHeap
  <2> QED  BY <2>3
<1>12. PiecesOf(B \ {b}, P) = K \ {k}
  <2>1. \A c \in B : PieceOf(c, P) = k => c = b
    BY <1>1, PieceOfIsOne
  <2> QED  BY <2>1 DEF PiecesOf
<1> HIDE DEF W
<1>13. \A c \in B \ {b} : \A a \in WordsOf(PieceOf(c, P)) : a \notin W
  <2> SUFFICES ASSUME NEW c \in B \ {b}, NEW a \in WordsOf(PieceOf(c, P)) PROVE a \notin W
    OBVIOUS
  <2>1. PieceOf(c, P) \in K \ {k} /\ o \notin K
    BY <1>5, <1>12 DEF PiecesOf
  <2>2. a \notin WordsOf(k) /\ a \notin WordsOf(o)
    BY <1>3, <1>5, <2>1, WordsApart
  <2>3. o.at \in WordsOf(o)
    BY <1>5 DEF WordsOf
  <2> QED  BY <2>2, <2>3 DEF W
<1>14. /\ Headed(mem, B, P) => Headed(m2, B \ {b}, P)
       /\ PadClean(mem, B, P, damage) => PadClean(m2, B \ {b}, P, damage)
  <2>1. Spared(B \ {b}, B, P, W)
    BY <1>1, <1>13 DEF Spared
  <2>2. BlocksKeep(mem, m2, B \ {b}, B, P, damage)
    BY <1>1, <1>9, <2>1, BlocksKept
  <2> QED  BY <2>2 DEF BlocksKeep
<1>15. debug => FreeClean(m2, C2, damage)
  <2> SUFFICES ASSUME debug PROVE FreeClean(m2, C2, damage)
    OBVIOUS
  <2>1. ASSUME NEW p \in C, NEW a \in (p.at + HEADER)..(p.end - 1)
        PROVE  /\ a \notin W
               /\ \E q \in C : a \in (q.at + HEADER)..(q.end - 1)
    <3>1. p.at \in Nat /\ p.end \in Nat
      BY <1>1, ChunkFacts
    <3>2. a \in WordsOf(p) /\ a # p.at
      BY <2>1, <3>1 DEF WordsOf, HEADER
    <3>3. p # k
      BY <1>3, <1>5
    <3>4. a \notin WordsOf(k)
      BY <1>3, <1>5, <3>2, <3>3, WordsApart
    <3>5. a # o.at
      <4>1. CASE p = o
        BY <3>2, <4>1
      <4>2. CASE p # o
        <5>1. a \notin WordsOf(o)
          BY <1>5, <3>2, <4>2, WordsApart
        <5> QED  BY <1>5, <5>1 DEF WordsOf
      <4> QED  BY <4>1, <4>2
    <3> QED  BY <2>1, <3>4, <3>5 DEF W
  <2>2. FreeClean(m2, C, damage)
    BY <1>1, <1>9, <2>1, ChunksKept
  <2>3. \A a \in (k.at + HEADER)..(k.end - 1) : At(m2, a) = FREE_PATTERN
    BY <1>9 DEF HEADER
  <2> QED  BY <2>2, <2>3 DEF FreeClean
<1>16. Carving(m2, C2, B \ {b}, P, damage, debug)
  BY <1>1, <1>11, <1>12, <1>14, <1>15 DEF Carving
<1>17. Follows(C2, o, k)
  <2>1. ASSUME NEW r \in C PROVE r.at <= o.at \/ k.at <= r.at
    <3>1. r.at \in Nat
      BY <1>1, ChunkFacts
    <3>2. CASE \A q \in C : q.at <= o.at
      BY <3>2
    <3>3. ASSUME NEW q \in C, Follows(C, o, q), k.at < q.at PROVE r.at <= o.at \/ k.at <= r.at
      <4>1. q.at \in Nat
        BY <1>1, ChunkFacts
      <4>2. r.at <= o.at \/ q.at <= r.at
        BY <3>3 DEF Follows
      <4> QED  BY <1>4, <3>1, <3>3, <4>1, <4>2
    <3> QED  BY <1>2, <3>2, <3>3
  <2>2. k.at <= k.at
    BY <1>4
  <2> QED  BY <1>6, <2>1, <2>2 DEF Follows
<1>18. NextIs(C2, k, f.next)
  <2>1. CASE f.next = NULL /\ \A q \in C : q.at <= o.at
    <3>1. ASSUME NEW q \in C PROVE q.at <= k.at
      <4>1. q.at \in Nat
        BY <1>1, ChunkFacts
      <4> QED  BY <1>4, <1>5, <1>6, <2>1, <4>1
    <3>2. k.at <= k.at
      BY <1>4
    <3> QED  BY <2>1, <3>1, <3>2 DEF NextIs
  <2>2. ASSUME NEW q \in C, Follows(C, o, q), f.next = q.at, k.at < q.at
        PROVE  Follows(C2, k, q)
    <3>1. ASSUME NEW r \in C PROVE r.at <= k.at \/ q.at <= r.at
      <4>1. r.at \in Nat
        BY <1>1, ChunkFacts
      <4>2. r.at <= o.at \/ q.at <= r.at
        BY <2>2 DEF Follows
      <4> QED  BY <1>4, <1>5, <1>6, <4>1, <4>2
    <3>2. k.at <= k.at
      BY <1>4
    <3> QED  BY <2>2, <3>1, <3>2 DEF Follows
  <2> QED  BY <1>2, <2>1, <2>2 DEF NextIs
<1>19. \A p, q \in C2 : p.end = q.at => p = k \/ q = k
  BY <1>1 DEF Merged
<1> HIDE DEF K, W
<1>20. Between(m2, C2, B \ {b}, o, k)
  BY <1>16, <1>17 DEF Between
<1>21. Len(m2) = Len(mem)
  BY <1>9 DEF OnlyIn
<1> QED  BY <1>2, <1>18, <1>19, <1>20, <1>21 DEF LinkedBehind

\* Touch compares what the list says with the addresses of the chunks.
LEMMA TouchIs ==
  ASSUME NEW m, NEW C, NEW K, Heap(m, C, K), NEW p \in C, NEW a \in Nat
  PROVE  Touch(m, p.at, a) <=> p.end = a
<1>1. p.at \in Nat /\ p.end \in Nat /\ size_of(m, p.at) = p.end - p.at - 2
  BY ChunkFacts
<1>2. p.at + 2 + (p.end - p.at - 2) = p.end
  BY <1>1
<1> QED  BY <1>1, <1>2 DEF Touch, HEADER

\* After MergeNext nothing touches chunk k from behind.
LEMMA NextMerged ==
  ASSUME NEW m, NEW C, NEW B, NEW o, NEW k, Between(m, C, B, o, k),
         NEW f, NextIs(C, k, f.next), \A p, q \in C : p.end = q.at => p = k \/ q = k,
         NEW m2, m2 = MergeNext(m, k.at, f)
  PROVE  \E C2, j : /\ Between(m2, C2, B, o, j) /\ j.at = k.at /\ Len(m2) = Len(m)
                    /\ \A p, q \in C2 : p.end = q.at => q = j
<1> DEFINE P == PADDING_SIZE
           K == PiecesOf(B, P)
<1>1. Carving(m, C, B, P, damage, debug) /\ o \in C /\ k \in C /\ Follows(C, o, k)
  BY DEF Between
<1>2. Heap(m, C, K)
  BY <1>1 DEF Carving
<1>3. \A q \in C : /\ q.at \in Nat /\ q.end \in Nat /\ q.at + 2 <= q.end
                   /\ k # q => Apart(k, q)
  BY <1>1, <1>2, ChunkFacts
<1>4. ASSUME m2 = m, \A q \in C : k.end # q.at
      PROVE  \E C2, j : /\ Between(m2, C2, B, o, j) /\ j.at = k.at /\ Len(m2) = Len(m)
                        /\ \A p, q \in C2 : p.end = q.at => q = j
  BY <1>4
<1>5. CASE f.next = NULL /\ \A q \in C : q.at <= k.at
  <2>1. m2 = m
    BY <1>5 DEF MergeNext
  <2>2. \A q \in C : k.end # q.at
    BY <1>1, <1>3, <1>5
  <2> QED  BY <1>4, <2>1, <2>2
<1>6. ASSUME NEW q0 \in C, Follows(C, k, q0), f.next = q0.at
      PROVE  \E C2, j : /\ Between(m2, C2, B, o, j) /\ j.at = k.at /\ Len(m2) = Len(m)
                        /\ \A p, q \in C2 : p.end = q.at => q = j
  <2>1. q0.at \in Nat /\ f.next # NULL /\ k.at < q0.at
    BY <1>3, <1>6 DEF NULL, Follows
  <2>2. Touch(m, k.at, q0.at) <=> k.end = q0.at
    BY <1>1, <1>2, <2>1, TouchIs
  <2>3. CASE k.end # q0.at
    <3>1. m2 = m
      BY <1>6, <2>1, <2>2, <2>3 DEF MergeNext
    <3>2. ASSUME NEW q \in C PROVE k.end # q.at
      <4>1. k # q0 /\ Apart(k, q0)
        BY <1>3, <2>1
      <4>2. k.end < q0.at
        BY <1>1, <1>3, <2>1, <2>3, <4>1 DEF Apart
      <4>3. q.at <= k.at \/ q0.at <= q.at
        BY <1>6 DEF Follows
      <4> QED  BY <1>1, <1>3, <2>1, <4>2, <4>3
    <3> QED  BY <1>4, <3>1, <3>2
  <2>4. CASE k.end = q0.at
    <3> DEFINE j == [at |-> k.at, end |-> q0.end]
               C2 == (C \ {k, q0}) \cup {j}
    <3>1. m2 = Swallow(m, k.at, q0.at)
      BY <1>6, <2>1, <2>2, <2>4 DEF MergeNext
    <3>2. Carving(m2, C2, B, P, damage, debug)
      BY <1>1, <1>6, <2>4, <3>1, SwallowCarving
    <3>8. Len(m2) = Len(m)
      BY <1>1, <1>2, <1>6, <2>4, <3>1, SwallowLen
    <3>3. j.at = k.at /\ j.end = q0.end
      OBVIOUS
    <3> HIDE DEF j
    <3>4. o.at < k.at /\ o # k /\ o # q0 /\ k # q0
      BY <1>1, <1>3, <2>1 DEF Follows
    <3>5. Follows(C2, o, j)
      <4>1. \A r \in C : r.at <= o.at \/ k.at <= r.at
        BY <1>1 DEF Follows
      <4>2. k.at <= k.at
        BY <1>1, <1>3
      <4> QED  BY <3>3, <3>4, <4>1, <4>2 DEF Follows
    <3>6. Between(m2, C2, B, o, j)
      BY <1>1, <3>2, <3>4, <3>5 DEF Between
    <3>7. ASSUME NEW p \in C2, NEW q \in C2, p.end = q.at, q # j PROVE FALSE
      <4>1. q \in C /\ q # k /\ q # q0
        BY <3>7
      <4>2. CASE p = j
        BY <3>3, <3>4, <3>7, <4>1, <4>2
      <4>3. CASE p # j
        <5>1. p \in C /\ p # k
          BY <4>3
        <5> QED  BY <3>7, <4>1, <5>1
      <4> QED  BY <4>2, <4>3
    <3> HIDE DEF C2
    <3> QED  BY <3>3, <3>6, <3>7, <3>8
  <2> QED  BY <2>3, <2>4
<1> QED  BY <1>5, <1>6 DEF NextIs

\* After MergePrev no two chunks touch.
LEMMA PrevMerged ==
  ASSUME NEW m, NEW C, NEW B, NEW o, NEW k, Between(m, C, B, o, k),
         \A p, q \in C : p.end = q.at => q = k,
         NEW f, f.prev = o.at, NEW m2, m2 = MergePrev(m, k.at, f)
  PROVE  Len(m2) = Len(m) /\ \E C2 : Carved(m2, C2, B, PADDING_SIZE, damage, debug)
<1> DEFINE P == PADDING_SIZE
           K == PiecesOf(B, P)
<1>1. Carving(m, C, B, P, damage, debug) /\ o \in C /\ k \in C /\ Follows(C, o, k)
  BY DEF Between
<1>2. Heap(m, C, K)
  BY <1>1 DEF Carving
<1>3. \A q \in C : /\ q.at \in Nat /\ q.end \in Nat /\ q.at + 2 <= q.end
                   /\ o # q => Apart(o, q)
  BY <1>1, <1>2, ChunkFacts
<1>4. Touch(m, o.at, k.at) <=> o.end = k.at
  BY <1>1, <1>2, <1>3, TouchIs
<1>5. CASE o.end # k.at
  <2>1. m2 = m
    BY <1>4, <1>5 DEF MergePrev
  <2>2. ASSUME NEW p \in C, NEW q \in C, p.end = q.at PROVE FALSE
    <3>1. p.end = k.at
      BY <2>2
    <3>2. p.at <= o.at \/ k.at <= p.at
      BY <1>1 DEF Follows
    <3>3. p.at <= o.at /\ p # o
      BY <1>1, <1>3, <1>5, <3>1, <3>2
    <3>4. Apart(o, p)
      BY <1>3, <3>3
    <3>5. o.at < k.at
      BY <1>1 DEF Follows
    <3> QED  BY <1>1, <1>3, <3>1, <3>3, <3>4, <3>5 DEF Apart
  <2> QED  BY <1>1, <2>1, <2>2 DEF Carved, Merged
<1>6. CASE o.end = k.at
  <2> DEFINE j == [at |-> o.at, end |-> k.end]
             C2 == (C \ {o, k}) \cup {j}
  <2>1. m2 = Swallow(m, o.at, k.at)
    BY <1>4, <1>6 DEF MergePrev
  <2>2. Carving(m2, C2, B, P, damage, debug)
    BY <1>1, <1>6, <2>1, SwallowCarving
  <2>6. Len(m2) = Len(m)
    BY <1>1, <1>2, <1>6, <2>1, SwallowLen
  <2>3. j.at = o.at /\ j.end = k.end
    OBVIOUS
  <2> HIDE DEF j
  <2>4. o # k /\ o.at < k.at
    BY <1>1, <1>3 DEF Follows
  <2>5. ASSUME NEW p \in C2, NEW q \in C2, p.end = q.at PROVE FALSE
    <3>1. CASE q = j
      <4>1. CASE p = j
        BY <1>1, <1>3, <2>3, <2>4, <2>5, <3>1, <4>1
      <4>2. CASE p # j
        <5>1. p \in C /\ p.end = o.at
          BY <2>3, <2>5, <3>1, <4>2
        <5> QED  BY <1>1, <2>4, <5>1
      <4> QED  BY <4>1, <4>2
    <3>2. CASE q # j
      <4>1. q \in C /\ q # k
        BY <3>2
      <4>2. CASE p = j
        BY <1>1, <2>3, <2>5, <4>1, <4>2
      <4>3. CASE p # j
        BY <2>5, <4>1, <4>3
      <4> QED  BY <4>2, <4>3
    <3> QED  BY <3>1, <3>2
  <2> HIDE DEF C2
  <2> QED  BY <2>2, <2>5, <2>6 DEF Carved, Merged
<1> QED  BY <1>5, <1>6

\* The memory Mem_Free leaves behind.
Freed(new, n) ==
  LET f == Neighbours(new)
  IN  MergePrev(MergeNext(Link(new, n + 2 * PADDING_SIZE, f), new, f), new, f)

\* Freed and merged, the block's words belong to a chunk again.
LEMMA FreeCarved ==
  ASSUME NEW C, NEW B, Carved(mem, C, B, PADDING_SIZE, damage, debug), NEW b \in B
  PROVE  LET m2 == Freed(b.ptr - PADDING_SIZE - 2, b.size)
         IN  Len(m2) = Len(mem) /\ \E C2 : Carved(m2, C2, B \ {b}, PADDING_SIZE, damage, debug)
<1> DEFINE P == PADDING_SIZE
           K == PiecesOf(B, P)
           new == b.ptr - P - 2
<1>1. Heap(mem, C, K) /\ P \in Nat /\ B \subseteq Block
  BY DEF Carved, Carving
<1>2. PICK k : k = PieceOf(b, P)
  OBVIOUS
<1>3. k.at = new /\ new \in Nat
  BY <1>1, <1>2, BlockFacts
<1>4. PICK f : f = Neighbours(k.at)
  OBVIOUS
<1>5. FoundAround(f, C, k.at)
  BY <1>1, <1>3, <1>4, NeighboursAre
<1>6. PICK m1 : m1 = Link(k.at, b.size + 2 * P, f)
  OBVIOUS
<1>13. PICK o \in C : LinkedBehind(m1, C \cup {k}, B \ {b}, f, o, k)
  BY <1>2, <1>5, <1>6, LinkCarving
<1>7. /\ f.prev = o.at /\ Between(m1, C \cup {k}, B \ {b}, o, k)
      /\ NextIs(C \cup {k}, k, f.next)
      /\ \A p, q \in C \cup {k} : p.end = q.at => p = k \/ q = k
      /\ Len(m1) = Len(mem)
  BY <1>13 DEF LinkedBehind
<1>8. PICK m2 : m2 = MergeNext(m1, k.at, f)
  OBVIOUS
<1>9. PICK C2, j : /\ Between(m2, C2, B \ {b}, o, j) /\ j.at = k.at /\ Len(m2) = Len(m1)
                   /\ \A p, q \in C2 : p.end = q.at => q = j
  BY <1>7, <1>8, NextMerged
<1>10. PICK m3 : m3 = MergePrev(m2, j.at, f)
  OBVIOUS
<1>11. Len(m3) = Len(m2) /\ \E C3 : Carved(m3, C3, B \ {b}, P, damage, debug)
  BY <1>7, <1>9, <1>10, PrevMerged
<1>12. m3 = Freed(new, b.size)
  BY <1>3, <1>4, <1>6, <1>8, <1>9, <1>10 DEF Freed
<1> QED  BY <1>7, <1>9, <1>11, <1>12

-----------------------------------------------------------------------------
(* Mem_Init, the client's stray writes, and the search of Mem_Alloc.       *)

\* As long as no header of a chunk is written, the list stays as it is.
LEMMA HeapKept ==
  ASSUME NEW m, NEW C, NEW K, Heap(m, C, K), NEW W, NEW m2, OnlyIn(W, m, m2),
         \A r \in C : r.at \notin W /\ r.at + 1 \notin W
  PROVE  Heap(m2, C, K)
<1>1. \A r \in C : next_of(m2, r.at) = next_of(m, r.at) /\ size_of(m2, r.at) = size_of(m, r.at)
  BY HeaderKept
<1>2. Links(Ats(C), m) /\ \A r \in C : size_of(m, r.at) = r.end - r.at - HEADER
  BY LinkedIsLinks DEF Heap
<1>3. \A a \in Ats(C) : next_of(m2, a) = next_of(m, a)
  BY <1>1 DEF Ats
<1>4. Links(Ats(C), m2)
  BY <1>2, <1>3, SameLinks
<1>5. Linked(C, m2)
  BY <1>1, <1>2, <1>4, LinkedIsLinks
<1>6. m2 \in Seq(Int) /\ Len(m2) = Len(m)
  BY DEF OnlyIn
<1> QED  BY <1>5, <1>6 DEF Heap

\* A word of a free chunk or of a padding may be lost: it is known as damaged.
Stray(a, C, B, P) ==
  \/ \E p \in C : a \in (p.at + HEADER)..(p.end - 1)
  \/ \E b \in B : a \in Padded(b, P)

LEMMA StrayCarved ==
  ASSUME NEW m, NEW C, NEW B, NEW P, NEW D, NEW isdebug, Carved(m, C, B, P, D, isdebug),
         NEW a, Stray(a, C, B, P)
  PROVE  a \in Nat /\ Carved(Put(m, a, 0), C, B, P, D \cup {a}, isdebug)
<1> DEFINE K == PiecesOf(B, P)
<1>1. /\ Heap(m, C, K) /\ P \in Nat /\ B \subseteq Block /\ Headed(m, B, P) /\ Merged(C)
      /\ isdebug => FreeClean(m, C, D) /\ PadClean(m, B, P, D)
  BY DEF Carved, Carving
<1>2. /\ m \in Seq(Int) /\ Len(m) \in Nat /\ Tiling(C \cup K, Len(m)) /\ C \cap K = {}
  BY <1>1 DEF Heap
<1>3. ASSUME NEW b \in B
      PROVE  /\ PieceOf(b, P) \in K /\ PieceOf(b, P) \notin C /\ b.ptr - P - 2 \in WordsOf(PieceOf(b, P))
             /\ b.ptr - P - 2 \in 0..(Len(m) - 1)
             /\ \A x \in Padded(b, P) : x \in WordsOf(PieceOf(b, P)) /\ x # b.ptr - P - 2
                                        /\ x \in 0..(Len(m) - 1)
  <2>1. /\ b.ptr \in Nat /\ b.size \in Nat \ {0} /\ PieceOf(b, P) \in K
        /\ PieceOf(b, P).at = b.ptr - P - 2 /\ PieceOf(b, P).end = b.ptr + b.size + P
        /\ b.ptr - P - 2 \in Nat /\ b.ptr + b.size + P <= Len(m)
    BY <1>1, BlockFacts
  <2>n. Len(m) \in Nat /\ P \in Nat
    BY <1>1, <1>2
  <2>p. PICK lo \in Nat, hi \in Nat : lo = PieceOf(b, P).at /\ hi = PieceOf(b, P).end
    BY <2>1, <2>n
  <2>q. lo = b.ptr - P - 2 /\ hi = b.ptr + b.size + P /\ lo < hi /\ hi <= Len(m)
    BY <2>1, <2>n, <2>p
  <2>w. WordsOf(PieceOf(b, P)) = lo..(hi - 1)
    BY <2>p DEF WordsOf
  <2>2. b.ptr - P - 2 \in WordsOf(PieceOf(b, P)) /\ b.ptr - P - 2 \in 0..(Len(m) - 1)
    BY <2>n, <2>q, <2>w
  <2>3. ASSUME NEW x \in Padded(b, P)
        PROVE  x \in WordsOf(PieceOf(b, P)) /\ x # b.ptr - P - 2 /\ x \in 0..(Len(m) - 1)
    <3>1. x \in (b.ptr - P)..(b.ptr + b.size + P - 1)
      BY DEF Padded
    <3>2. x \in Int /\ lo < x /\ x < hi
      BY <2>1, <2>n, <2>q, <3>1
    <3> QED  BY <2>n, <2>q, <2>w, <3>2
  <2> QED  BY <1>2, <2>1, <2>2, <2>3
<1>4. ASSUME NEW r \in C
      PROVE  /\ r.at \in Nat /\ r.at \in WordsOf(r) /\ r.at + 1 \in WordsOf(r)
             /\ \A x \in (r.at + HEADER)..(r.end - 1) :
                  x \in WordsOf(r) /\ x # r.at /\ x # r.at + 1 /\ x \in 0..(Len(m) - 1)
  <2>1. r.at \in Nat /\ r.end \in Nat /\ r.at + 2 <= r.end /\ r.end <= Len(m)
    BY <1>1, ChunkFacts
  <2>n. Len(m) \in Nat
    BY <1>2
  <2> QED  BY <2>1, <2>n DEF WordsOf, HEADER
<1>5. /\ a \in 0..(Len(m) - 1)
      /\ \A r \in C : a # r.at /\ a # r.at + 1
      /\ \A b \in B : a # b.ptr - P - 2
  <2>1. ASSUME NEW p \in C, a \in (p.at + HEADER)..(p.end - 1)
        PROVE  /\ a \in 0..(Len(m) - 1)
               /\ \A r \in C : a # r.at /\ a # r.at + 1
               /\ \A b \in B : a # b.ptr - P - 2
    <3>1. a \in WordsOf(p) /\ a # p.at /\ a # p.at + 1 /\ a \in 0..(Len(m) - 1)
      BY <1>4, <2>1
    <3>2. ASSUME NEW r \in C PROVE a # r.at /\ a # r.at + 1
      <4>1. CASE r = p
        BY <3>1, <4>1
      <4>2. CASE r # p
        <5>1. a \notin WordsOf(r)
          BY <1>2, <3>1, <4>2, WordsApart
        <5> QED  BY <1>4, <5>1
      <4> QED  BY <4>1, <4>2
    <3>3. ASSUME NEW b \in B PROVE a # b.ptr - P - 2
      <4>1. a \notin WordsOf(PieceOf(b, P))
        BY <1>2, <1>3, <3>1, WordsApart
      <4> QED  BY <1>3, <4>1
    <3> QED  BY <3>1, <3>2, <3>3
  <2>2. ASSUME NEW c \in B, a \in Padded(c, P)
        PROVE  /\ a \in 0..(Len(m) - 1)
               /\ \A r \in C : a # r.at /\ a # r.at + 1
               /\ \A b \in B : a # b.ptr - P - 2
    <3>1. a \in WordsOf(PieceOf(c, P)) /\ a # c.ptr - P - 2 /\ a \in 0..(Len(m) - 1)
      BY <1>3, <2>2
    <3>2. ASSUME NEW r \in C PROVE a # r.at /\ a # r.at + 1
      <4>1. PieceOf(c, P) \in K /\ PieceOf(c, P) # r
        BY <1>3
      <4>2. a \notin WordsOf(r)
        BY <1>2, <3>1, <4>1, WordsApart
      <4> QED  BY <1>4, <4>2
    <3>3. ASSUME NEW b \in B PROVE a # b.ptr - P - 2
      <4>1. CASE PieceOf(b, P) = PieceOf(c, P)
        <5>1. b = c
          BY <1>1, <4>1, PieceOfIsOne
        <5> QED  BY <3>1, <5>1
      <4>2. CASE PieceOf(b, P) # PieceOf(c, P)
        <5>1. PieceOf(c, P) \in K /\ PieceOf(b, P) \in K
          BY <1>3
        <5>2. a \notin WordsOf(PieceOf(b, P))
          BY <1>2, <3>1, <4>2, <5>1, WordsApart
        <5> QED  BY <1>3, <5>2
      <4> QED  BY <4>1, <4>2
    <3> QED  BY <3>1, <3>2, <3>3
  <2> QED  BY <2>1, <2>2 DEF Stray
<1> DEFINE m2 == Put(m, a, 0)
<1>6. OnlyIn({a}, m, m2)
  BY <1>2, <1>5, OnlyPut
<1> HIDE DEF m2
<1>7. Heap(m2, C, K)
  <2>1. \A r \in C : r.at \notin {a} /\ r.at + 1 \notin {a}
    BY <1>5
  <2> HIDE DEF K
  <2> QED  BY <1>1, <1>6, <2>1, HeapKept
<1>8. Headed(m2, B, P)
  <2>1. ASSUME NEW b \in B PROVE At(m2, b.ptr - P - 2) = b.size
    <3>1. At(m2, b.ptr - P - 2) = At(m, b.ptr - P - 2)
      BY <1>3, <1>5, <1>6 DEF OnlyIn
    <3> QED  BY <1>1, <3>1 DEF Headed, HEADER
  <2> QED  BY <2>1 DEF Headed, HEADER
<1>9. ASSUME isdebug PROVE FreeClean(m2, C, D \cup {a})
  <2>1. ASSUME NEW p \in C, NEW x \in (p.at + HEADER)..(p.end - 1), x # a
        PROVE  x \in D \/ At(m2, x) = FREE_PATTERN
    <3>1. x \in 0..(Len(m) - 1)
      BY <1>4
    <3>2. At(m2, x) = At(m, x)
      BY <1>6, <2>1, <3>1 DEF OnlyIn
    <3> QED  BY <1>1, <1>9, <3>2 DEF FreeClean
  <2> QED  BY <2>1 DEF FreeClean
<1>10. ASSUME isdebug PROVE PadClean(m2, B, P, D \cup {a})
  <2>1. ASSUME NEW b \in B, NEW x \in Padded(b, P), x # a
        PROVE  x \in D \/ At(m2, x) = PADDING_PATTERN
    <3>1. x \in 0..(Len(m) - 1)
      BY <1>3
    <3>2. At(m2, x) = At(m, x)
      BY <1>6, <2>1, <3>1 DEF OnlyIn
    <3> QED  BY <1>1, <1>10, <3>2 DEF PadClean
  <2> QED  BY <2>1 DEF PadClean
<1>11. Carved(m2, C, B, P, D \cup {a}, isdebug)
  BY <1>1, <1>7, <1>8, <1>9, <1>10 DEF Carved, Carving
<1> QED  BY <1>5, <1>11 DEF m2

\* Mem_Init makes the region one free chunk.
LEMMA FreshCarved ==
  ASSUME NEW words \in Nat, NEW P \in Nat, NEW isdebug \in BOOLEAN
  PROVE  /\ \E C : Carved(Fresh(words, isdebug), C, {}, P, {}, isdebug)
         /\ Len(Fresh(words, isdebug)) = words + 2
<1> DEFINE v == IF isdebug THEN FREE_PATTERN ELSE 0
           zeros == [i \in 1..(words + 2) |-> 0]
           one == Fill(zeros, 2, words + 2, v)
           two == Put(one, 0, -1)
           three == Put(two, 1, words)
           all == [at |-> 0, end |-> words + 2]
           C == {all}
<1>1. zeros \in Seq(Int) /\ Len(zeros) = words + 2 /\ v \in Int /\ words + 2 \in Nat
  BY DEF FREE_PATTERN
<1>2. Fresh(words, isdebug) = three
  BY DEF Fresh, HEADER
<1> HIDE DEF v, zeros
<1>3. /\ OnlyIn(2..((words + 2) - 1), zeros, one)
      /\ \A a \in 0..(Len(zeros) - 1) : 2 <= a /\ a < words + 2 => At(one, a) = v
  BY <1>1, OnlyFill
<1>4. one \in Seq(Int) /\ Len(one) = words + 2
  BY <1>1, <1>3 DEF OnlyIn
<1> HIDE DEF one
<1>5. OnlyIn({0}, one, two) /\ At(two, 0) = -1
  <2>1. 0 \in 0..(Len(one) - 1) /\ -1 \in Int
    BY <1>1, <1>4
  <2> QED  BY <1>4, <2>1, OnlyPut
<1>6. two \in Seq(Int) /\ Len(two) = words + 2
  BY <1>4, <1>5 DEF OnlyIn
<1> HIDE DEF two
<1>7. OnlyIn({1}, two, three) /\ At(three, 1) = words
  <2>1. 1 \in 0..(Len(two) - 1) /\ words \in Int
    BY <1>1, <1>6
  <2> QED  BY <1>6, <2>1, OnlyPut
<1>8. three \in Seq(Int) /\ Len(three) = words + 2
  BY <1>6, <1>7 DEF OnlyIn
<1> HIDE DEF three
<1>9. At(three, 0) = -1
  <2>1. 0 \in 0..(Len(two) - 1) /\ 0 # 1
    BY <1>1, <1>6
  <2> QED  BY <1>5, <1>7, <2>1 DEF OnlyIn
<1>10. \A a \in 2..(words + 1) : At(three, a) = v
  <2> SUFFICES ASSUME NEW a \in 2..(words + 1) PROVE At(three, a) = v
    OBVIOUS
  <2>1. a \in 0..(words + 1) /\ a # 0 /\ a # 1 /\ 2 <= a /\ a < words + 2 /\ words + 2 - 1 = words + 1
    OBVIOUS
  <2>2. At(one, a) = v
    BY <1>1, <1>3, <2>1
  <2>3. At(two, a) = At(one, a)
    BY <1>4, <1>5, <2>1 DEF OnlyIn
  <2>4. At(three, a) = At(two, a)
    BY <1>6, <1>7, <2>1 DEF OnlyIn
  <2> QED  BY <2>2, <2>3, <2>4
<1>11. all \in Piece /\ all.at = 0 /\ all.end = words + 2
  BY <1>1 DEF Piece, HEADER
<1> HIDE DEF all
<1>12. Tiling(C, words + 2)
  <2>1. \A a \in 0..((words + 2) - 1) : 0 <= a /\ a < words + 2
    BY <1>1
  <2>2. all.end <= words + 2
    BY <1>1, <1>11
  <2> QED  BY <1>11, <2>1, <2>2 DEF Tiling
<1>13. Linked(C, three)
  <2>1. size_of(three, all.at) = all.end - all.at - HEADER
    BY <1>1, <1>7, <1>11 DEF size_of, HEADER
  <2>2. next_of(three, all.at) = -1 /\ all.at <= all.at
    BY <1>9, <1>11 DEF next_of
  <2> QED  BY <1>11, <2>1, <2>2 DEF Linked
<1>14. PiecesOf({}, P) = {}
  BY DEF PiecesOf
<1>15. Heap(three, C, PiecesOf({}, P))
  BY <1>8, <1>12, <1>13, <1>14 DEF Heap
<1>16. isdebug => FreeClean(three, C, {}) /\ PadClean(three, {}, P, {})
  BY <1>10, <1>11 DEF FreeClean, PadClean, HEADER, v
<1>17. Merged(C)
  BY <1>11 DEF Merged
<1>18. Carved(three, C, {}, P, {}, isdebug)
  BY <1>15, <1>16, <1>17 DEF Carved, Carving, Headed
<1> HIDE DEF C
<1> QED  BY <1>2, <1>8, <1>18

\* What Mem_Alloc cuts from a chunk was no block before.
LEMMA NewBlock ==
  ASSUME NEW C, NEW B, NEW P, B \subseteq Block, P \in Nat, Heap(mem, C, PiecesOf(B, P)),
         NEW p \in C, NEW b, b.ptr - P - 2 \in WordsOf(p)
  PROVE  b \notin B
<1> SUFFICES ASSUME b \in B PROVE FALSE
  OBVIOUS
<1>1. /\ PieceOf(b, P) \in PiecesOf(B, P) /\ PieceOf(b, P).at = b.ptr - P - 2
      /\ PieceOf(b, P) \in Piece
  BY BlockFacts
<1>2. PieceOf(b, P).at \in WordsOf(PieceOf(b, P))
  BY <1>1, PieceFields DEF WordsOf
<1>3. PieceOf(b, P) # p /\ Tiling(C \cup PiecesOf(B, P), Len(mem))
  BY <1>1 DEF Heap
<1>4. PieceOf(b, P).at \notin WordsOf(p)
  BY <1>1, <1>2, <1>3, WordsApart
<1> QED  BY <1>1, <1>4

\* The block Mem_Alloc gives out is the end of the first chunk with room.
IsTaken(C, B, n, t) ==
  LET b == BlockTaken(t, n)
      after == AfterTaken(t, n)
  IN  /\ \E C2 : Carved(after, C2, B \cup {b}, PADDING_SIZE, damage, debug)
      /\ b \notin B /\ Len(after) = Len(mem)
      /\ \E p \in C : /\ Fit(p.at, n) /\ ~NoRoom(p.at, n)
                      /\ \A q \in C : q.at < p.at => ~Fit(q.at, n)
                      /\ t.ptr - PADDING_SIZE - 2 = p.end - Need(n)

LEMMA AllocCarved ==
  ASSUME NEW C, NEW B, Carved(mem, C, B, PADDING_SIZE, damage, debug), ~debug => PADDING_SIZE = 0,
         NEW n \in Nat \ {0}, NEW f, FoundFirst(f, C, n), f.chunk # NULL,
         ~NoRoom(f.chunk, n), NEW t, t = Taken(f.chunk, f.prev, n)
  PROVE  IsTaken(C, B, n, t)
<1> DEFINE b == BlockTaken(t, n)
           after == AfterTaken(t, n)
<1>1. /\ Heap(mem, C, PiecesOf(B, PADDING_SIZE)) /\ PADDING_SIZE \in Nat /\ B \subseteq Block
  BY DEF Carved, Carving
<1>2. PICK p \in C :
        /\ f.chunk = p.at /\ Fit(p.at, n)
        /\ \A q \in C : q.at < p.at => ~Fit(q.at, n)
        /\ p.at = 0 \/ \E q \in C : Follows(C, q, p) /\ f.prev = q.at
  BY DEF FoundFirst
<1>3. /\ \E C2 : Carved(after, C2, B \cup {b}, PADDING_SIZE, damage, debug)
      /\ Len(after) = Len(mem) /\ t.ptr - PADDING_SIZE - 2 = p.end - Need(n)
  <2>1. CASE HasMore(p.at, n)
    <3>1. t = CutFrom(p.at, n)
      BY <1>2, <2>1 DEF Taken
    <3>2. TakenFrom(p, B, n, t, AfterTaken(t, n))
      BY <1>2, <2>1, <3>1, CutCarved
    <3> QED  BY <3>2 DEF TakenFrom
  <2>2. CASE ~HasMore(p.at, n)
    <3>1. HasExactly(p.at, n) /\ p.at # 0
      BY <1>2, <2>2 DEF Fit, HasExactly
    <3>2. ~debug /\ PADDING_SIZE = 0
      BY <1>2, <3>1 DEF NoRoom
    <3>3. PICK o \in C : Follows(C, o, p) /\ f.prev = o.at
      BY <1>2, <3>1
    <3>4. t = TakeWhole(p.at, o.at, n)
      BY <1>2, <2>2, <3>3 DEF Taken
    <3>5. TakenFrom(p, B, n, t, AfterTaken(t, n))
      BY <3>1, <3>2, <3>3, <3>4, TakeCarved
    <3> QED  BY <3>5 DEF TakenFrom
  <2> QED  BY <2>1, <2>2
<1>4. p.end - Need(n) \in WordsOf(p)
  <2>1. PICK at \in Nat, end \in Nat : at = p.at /\ end = p.end /\ size_of(mem, p.at) = end - at - 2
    BY <1>1, ChunkFacts
  <2>2. PICK need \in Nat : need = Need(n) /\ need >= 3
    BY <1>1, NeedIsMore
  <2>3. size_of(mem, p.at) + 2 >= need
    BY <1>2, <2>1, <2>2 DEF Fit, HasMore, HasExactly, HEADER
  <2>4. (end - at - 2) + 2 >= need
    BY <2>1, <2>3
  <2>5. at <= end - need /\ end - need <= end - 1
    BY <2>2, <2>4
  <2>6. end - need \in at..(end - 1)
    BY <2>5
  <2> QED  BY <2>1, <2>2, <2>6 DEF WordsOf
<1>5. b \notin B
  <2>1. b.ptr = t.ptr
    BY DEF BlockTaken
  <2>2. b.ptr - PADDING_SIZE - 2 \in WordsOf(p)
    BY <1>3, <1>4, <2>1
  <2> HIDE DEF b
  <2> QED  BY <1>1, <2>2, NewBlock
<1> QED  BY <1>2, <1>3, <1>5 DEF IsTaken

-----------------------------------------------------------------------------
(* The inductive invariant.  While there is a region its words are carved  *)
(* into chunks and the blocks given out, and complaints come of damage.    *)

Complaints == {"E_PADDING_OVERWRITTEN", "E_CORRUPT_FREESPACE"}

Rest ==
  /\ use \in Uses /\ ptr_header \in {"NULL", "MAP_FAILED", "mapped"}
  /\ process \in {"up", "segv"}
  /\ PADDING_SIZE = IF debug /\ ptr_header = "mapped" THEN Padding ELSE 0
  /\ held \cup lost \subseteq Block /\ held \cap lost = {} /\ damage \subseteq Nat
  /\ m_error \in Complaints => damage # {}

MemInv ==
  /\ Rest
  /\ ptr_header # "mapped" => mem = <<>> /\ held \cup lost = {} /\ damage = {}
  /\ ptr_header = "mapped" =>
       \E C : Carved(mem, C, held \cup lost, PADDING_SIZE, damage, debug)

\* Once a call went astray nothing is claimed but the types.
StateInv == MemInv \/ (process = "astray" /\ TypeOK)

LEMMA ListRange ==
  ASSUME NEW m, NEW C, NEW K, Heap(m, C, K)
  PROVE  Range(FreeList(m)) = Ats(C)
<1>1. PICK n : InOrder(FreeList(m), n, C)
  BY TheFreeList
<1> DEFINE L == FreeList(m)
<1>2. /\ n \in Nat \ {0} /\ L \in Seq(Nat) /\ Len(L) = n
      /\ \A i \in 1..n : \E p \in C : L[i] = p.at
      /\ \A p \in C : \E i \in 1..n : L[i] = p.at
  BY <1>1 DEF InOrder
<1> HIDE DEF L
<1>3. DOMAIN L = 1..n
  BY <1>2
<1>4. Range(L) = {L[i] : i \in 1..n}
  BY <1>3 DEF Range
<1>5. Range(L) = Ats(C)
  BY <1>2, <1>4 DEF Ats
<1> QED  BY <1>5 DEF L

\* Without damage Mem_Alloc finds the pattern in every free word,
LEMMA FreeSpaceIsIntact ==
  ASSUME NEW m, NEW C, NEW K, Heap(m, C, K), FreeClean(m, C, {})
  PROVE  FreeSpaceIntact(m)
<1> SUFFICES ASSUME NEW c \in Range(FreeList(m))
             PROVE  Whole(m, c + HEADER, c + HEADER + size_of(m, c), FREE_PATTERN)
  BY DEF FreeSpaceIntact
<1>1. PICK p \in C : c = p.at
  BY ListRange DEF Ats
<1>2. p.at \in Nat /\ p.end \in Nat /\ size_of(m, p.at) = p.end - p.at - 2
  BY ChunkFacts
<1>3. c + 2 + (p.end - p.at - 2) = p.end
  BY <1>1, <1>2
<1>4. c + HEADER + size_of(m, c) = p.end
  BY <1>1, <1>2, <1>3 DEF HEADER
<1>5. \A a \in (p.at + HEADER)..(p.end - 1) : At(m, a) = FREE_PATTERN
  BY DEF FreeClean
<1>6. Whole(m, p.at + HEADER, p.end, FREE_PATTERN)
  BY <1>5, Zenon DEF Whole
<1> QED  BY <1>1, <1>4, <1>6

\* and Mem_Free in the paddings of a block.
LEMMA PaddingIsIntact ==
  ASSUME NEW B, PADDING_SIZE \in Nat, PadClean(mem, B, PADDING_SIZE, {}), NEW b \in B, b \in Block
  PROVE  PaddingIntact(b.ptr, b.size)
<1>1. b.ptr \in Nat /\ b.size \in Nat
  BY BlockFields
<1>2. \A a \in Padded(b, PADDING_SIZE) : At(mem, a) = PADDING_PATTERN
  BY DEF PadClean
<1>3. \A a \in (b.ptr - PADDING_SIZE)..(b.ptr - 1) : a \in Padded(b, PADDING_SIZE)
  BY <1>1 DEF Padded
<1>4. \A a \in (b.ptr + b.size)..((b.ptr + b.size + PADDING_SIZE) - 1) : a \in Padded(b, PADDING_SIZE)
  BY <1>1 DEF Padded
<1>5. Whole(mem, b.ptr - PADDING_SIZE, b.ptr, PADDING_PATTERN)
  BY <1>2, <1>3, Zenon DEF Whole
<1>6. Whole(mem, b.ptr + b.size, b.ptr + b.size + PADDING_SIZE, PADDING_PATTERN)
  BY <1>2, <1>4, Zenon DEF Whole
<1> QED  BY <1>5, <1>6 DEF PaddingIntact

LEMMA WordsForIsSome ==
  ASSUME use \in Uses, MemAssumption, NEW s \in use.sizes, s > 0
  PROVE  WordsFor(s) \in Nat \ {0}
<1>1. s \in Int
  BY DEF MemAssumption
<1>2. (s - 1) \div 4 \in Nat
  BY <1>1
<1> QED  BY <1>2 DEF WordsFor

\* What a call of Mem_Alloc comes to.
AllocRefused(C, n) ==
  /\ \A p \in C : ~Fit(p.at, n)
  /\ mem' = mem /\ held' = held /\ lost' = lost /\ m_error' = "E_NO_SPACE"
  /\ last' = [need |-> Need(n), at |-> NULL]

AllocDone(C, n, t) ==
  /\ IsTaken(C, held \cup lost, n, t)
  /\ mem' = AfterTaken(t, n)
  /\ last' = [need |-> Need(n), at |-> t.ptr - PADDING_SIZE - HEADER]
  /\ held' \cup lost' = held \cup lost \cup {BlockTaken(t, n)}
  /\ \/ held' = held \cup {BlockTaken(t, n)} /\ lost' = lost /\ m_error' = m_error
     \/ held' = held /\ lost' = lost \cup {BlockTaken(t, n)} /\ damage # {}

LEMMA AllocIs ==
  ASSUME MemAssumption, MemInv, NEW s \in use.sizes, Mem_Alloc(s)
  PROVE  \E C : /\ Carved(mem, C, held \cup lost, PADDING_SIZE, damage, debug)
                /\ AllocRefused(C, WordsFor(s)) \/ \E t : AllocDone(C, WordsFor(s), t)
<1> DEFINE n == WordsFor(s)
           f == FirstFit(n)
           t == Taken(f.chunk, f.prev, n)
           B == held \cup lost
<1>1. ptr_header = "mapped" /\ s > 0 /\ Cardinality(B) < use.live
  BY DEF Mem_Alloc
<1>2. PICK C : Carved(mem, C, B, PADDING_SIZE, damage, debug)
  BY <1>1 DEF MemInv
<1>3. n \in Nat \ {0}
  BY <1>1, WordsForIsSome DEF MemInv, Rest
<1>4. IF f.chunk = NULL
      THEN /\ m_error' = "E_NO_SPACE" /\ last' = [need |-> Need(n), at |-> NULL]
           /\ UNCHANGED <<mem, held, lost>>
      ELSE /\ mem' = AfterTaken(t, n)
           /\ last' = [need |-> Need(n), at |-> t.ptr - PADDING_SIZE - HEADER]
           /\ IF ~debug \/ FreeSpaceIntact(AfterTaken(t, n))
              THEN held' = held \cup {BlockTaken(t, n)} /\ UNCHANGED <<lost, m_error>>
              ELSE /\ lost' = lost \cup {BlockTaken(t, n)} /\ m_error' = "E_CORRUPT_FREESPACE"
                   /\ UNCHANGED held
  BY DEF Mem_Alloc, Taken, AfterTaken, BlockTaken
<1>5. f.chunk = NULL \/ ~NoRoom(f.chunk, n)
  BY DEF Mem_Alloc
<1> HIDE DEF n
<1>6. FoundFirst(f, C, n)
  BY <1>2, FirstFitIs DEF Carved, Carving
<1>7. ~debug => PADDING_SIZE = 0
  BY DEF MemInv, Rest
<1> HIDE DEF f
<1>8. CASE f.chunk = NULL
  <2>1. \A p \in C : f.chunk # p.at
    <3>1. \A p \in C : p.at \in Nat
      BY <1>2, ChunkFacts DEF Carved, Carving
    <3> QED  BY <1>8, <3>1 DEF NULL
  <2>2. AllocRefused(C, n)
    BY <1>4, <1>6, <1>8, <2>1 DEF FoundFirst, AllocRefused
  <2> QED  BY <1>2, <2>2 DEF n
<1>9. CASE f.chunk # NULL
  <2>1. IsTaken(C, B, n, t)
    BY <1>2, <1>3, <1>5, <1>6, <1>7, <1>9, AllocCarved
  <2>2. CASE ~debug \/ FreeSpaceIntact(AfterTaken(t, n))
    <3>1. AllocDone(C, n, t)
      BY <1>4, <1>9, <2>1, <2>2, Zenon DEF AllocDone
    <3> QED  BY <1>2, <3>1 DEF n
  <2>3. CASE ~(~debug \/ FreeSpaceIntact(AfterTaken(t, n)))
    <3>1. PICK C2 : Carved(AfterTaken(t, n), C2, B \cup {BlockTaken(t, n)}, PADDING_SIZE, damage, debug)
      BY <2>1 DEF IsTaken
    <3>2. /\ Heap(AfterTaken(t, n), C2, PiecesOf(B \cup {BlockTaken(t, n)}, PADDING_SIZE))
          /\ FreeClean(AfterTaken(t, n), C2, damage)
      BY <2>3, <3>1 DEF Carved, Carving
    <3>3. damage # {}
      BY <2>3, <3>2, FreeSpaceIsIntact
    <3>4. AllocDone(C, n, t)
      BY <1>4, <1>9, <2>1, <2>3, <3>3, Zenon DEF AllocDone
    <3> QED  BY <1>2, <3>4 DEF n
  <2> QED  BY <2>2, <2>3
<1> QED  BY <1>8, <1>9

\* What a call of Mem_Free comes to.
FreeDone(b) ==
  /\ \E C : Carved(mem', C, (held \cup lost) \ {b}, PADDING_SIZE, damage, debug)
  /\ Len(mem') = Len(mem) /\ held' = held \ {b} /\ last' = [need |-> 0, at |-> NULL]
  /\ UNCHANGED <<m_error, damage>>

LEMMA FreeIs ==
  ASSUME MemInv, NEW b \in held, Mem_Free(b)
  PROVE  \/ UNCHANGED <<mem, held, ghosts>> /\ damage # {}
         \/ FreeDone(b)
<1> DEFINE P == PADDING_SIZE
           B == held \cup lost
           new == b.ptr - P - 2
           n == At(mem, new)
<1>1. ptr_header = "mapped"
  BY DEF MemInv
<1>2. PICK C : Carved(mem, C, B, P, damage, debug)
  BY <1>1 DEF MemInv
<1>3. /\ P \in Nat /\ B \subseteq Block /\ Heap(mem, C, PiecesOf(B, P)) /\ Headed(mem, B, P)
      /\ debug => PadClean(mem, B, P, damage)
  BY <1>2 DEF Carved, Carving
<1>4. b \in Block /\ b.size \in Nat \ {0} /\ n = b.size
  <2>1. b \in Block
    BY <1>3
  <2>2. b.size \in Nat \ {0}
    BY <2>1, BlockFields
  <2> QED  BY <1>3, <2>1, <2>2 DEF Headed, HEADER
<1>5. \/ n < 0
      \/ debug /\ ~PaddingIntact(b.ptr, n) /\ UNCHANGED <<mem, held, ghosts>>
      \/ /\ mem' = Freed(new, n) /\ held' = held \ {b} /\ last' = [need |-> 0, at |-> NULL]
         /\ UNCHANGED <<m_error, damage>>
  BY DEF Mem_Free, Freed, HEADER
<1> HIDE DEF n
<1>6. CASE debug /\ ~PaddingIntact(b.ptr, n) /\ UNCHANGED <<mem, held, ghosts>>
  <2>1. b \in B /\ PadClean(mem, B, P, damage)
    BY <1>3, <1>6
  <2>2. damage # {}
    BY <1>3, <1>4, <1>6, <2>1, PaddingIsIntact
  <2> QED  BY <1>6, <2>2
<1>7. CASE /\ mem' = Freed(new, n) /\ held' = held \ {b} /\ last' = [need |-> 0, at |-> NULL]
           /\ UNCHANGED <<m_error, damage>>
  <2>1. b \in B
    OBVIOUS
  <2> HIDE DEF B
  <2>2. PICK m2 : m2 = Freed(b.ptr - PADDING_SIZE - 2, b.size)
    OBVIOUS
  <2>3. Len(m2) = Len(mem) /\ \E C2 : Carved(m2, C2, B \ {b}, PADDING_SIZE, damage, debug)
    BY <1>2, <2>1, <2>2, FreeCarved
  <2>4. mem' = m2
    BY <1>4, <1>7, <2>2
  <2> QED  BY <1>7, <2>3, <2>4 DEF FreeDone, B
<1> QED  BY <1>4, <1>5, <1>6, <1>7

\* The words the client may spoil are free words and paddings.
LEMMA FreeWordsAre ==
  ASSUME NEW C, NEW K, Heap(mem, C, K)
  PROVE  \A a : a \in FreeWords <=> \E p \in C : a \in (p.at + HEADER)..(p.end - 1)
<1>1. ASSUME NEW p \in C PROVE Chunk(p.at) \ {p.at, p.at + 1} = (p.at + HEADER)..(p.end - 1)
  <2>1. PICK c \in Nat, e \in Nat : c = p.at /\ e = p.end /\ size_of(mem, p.at) = e - c - 2
    BY ChunkFacts
  <2>2. c + 2 + (e - c - 2) - 1 = e - 1
    OBVIOUS
  <2>3. Chunk(p.at) = c..(e - 1)
    BY <2>1, <2>2 DEF Chunk, HEADER
  <2> QED  BY <2>1, <2>3 DEF HEADER
<1>2. FreeWords = UNION {Chunk(c) \ {c, c + 1} : c \in Ats(C)}
  BY ListRange DEF FreeWords
<1>3. FreeWords = UNION {Chunk(p.at) \ {p.at, p.at + 1} : p \in C}
  BY <1>2 DEF Ats
<1> QED  BY <1>1, <1>3

\* What a stray write comes to.
LEMMA StrayIs ==
  ASSUME MemInv, StrayWrite
  PROVE  \E a \in Nat : /\ damage' = damage \cup {a} /\ Len(mem') = Len(mem)
                        /\ \E C : Carved(mem', C, held \cup lost, PADDING_SIZE, damage \cup {a}, debug)
<1> DEFINE P == PADDING_SIZE
           B == held \cup lost
<1>1. ptr_header = "mapped"
  BY DEF StrayWrite
<1>2. PICK C : Carved(mem, C, B, P, damage, debug)
  BY <1>1 DEF MemInv
<1>3. Heap(mem, C, PiecesOf(B, P))
  BY <1>2 DEF Carved, Carving
<1>4. PICK a \in FreeWords \cup UNION {PaddingWords(b) : b \in held} :
        mem' = Put(mem, a, 0) /\ damage' = damage \cup {a}
  BY DEF StrayWrite
<1>5. \A b \in held : PaddingWords(b) = Padded(b, P)
  BY DEF PaddingWords, Padded
<1>6. Stray(a, C, B, P)
  <2>1. CASE a \in FreeWords
    BY <1>3, <2>1, FreeWordsAre DEF Stray
  <2>2. CASE a \in UNION {PaddingWords(b) : b \in held}
    <3>1. PICK b \in held : a \in Padded(b, P)
      BY <1>5, <2>2
    <3> QED  BY <3>1 DEF Stray
  <2> QED  BY <2>1, <2>2
<1>7. a \in Nat /\ Carved(Put(mem, a, 0), C, B, P, damage \cup {a}, debug)
  BY <1>2, <1>6, StrayCarved
<1>8. Len(Put(mem, a, 0)) = Len(mem)
  <2>1. mem \in Seq(Int)
    BY <1>3 DEF Heap
  <2> QED  BY <2>1 DEF Put
<1> QED  BY <1>4, <1>7, <1>8

-----------------------------------------------------------------------------
\* Every call and every mistake of the client keeps the region carved.
LEMMA InvInit ==
  ASSUME Init PROVE MemInv
BY DEF Init, MemInv, Rest, Complaints

LEMMA InitKeeps ==
  ASSUME MemAssumption, MemInv, Mem_Init PROVE MemInv'
<1>1. ptr_header = "NULL" /\ mem = <<>> /\ held \cup lost = {} /\ damage = {}
  BY DEF Mem_Init, MemInv
<1>2. UNCHANGED <<use, held, lost, damage, process>>
  BY DEF Mem_Init, ghosts
<1>3. use \in Uses /\ process \in {"up", "segv"} /\ held \cap lost = {} /\ PADDING_SIZE = 0
  BY <1>1 DEF MemInv, Rest
<1>4. CASE /\ ptr_header' = "mapped"
           /\ use.sizeOfRegion > 0
           /\ mem' = Fresh(use.sizeOfRegion \div 4, debug)
           /\ PADDING_SIZE' = PaddingFor(use.debug)
           /\ UNCHANGED m_error
  <2>1. PICK words \in Nat : words = use.sizeOfRegion \div 4
    <3>1. use.sizeOfRegion \in Int
      BY <1>3 DEF MemAssumption
    <3>2. use.sizeOfRegion \div 4 \in Nat
      BY <1>4, <3>1
    <3> QED  BY <3>2
  <2>2. PADDING_SIZE' = (IF debug THEN Padding ELSE 0) /\ PADDING_SIZE' \in Nat /\ debug \in BOOLEAN
    BY <1>3, <1>4 DEF PaddingFor, MemAssumption, debug
  <2>3. \E C : Carved(Fresh(words, debug), C, {}, PADDING_SIZE', {}, debug)
    BY <2>1, <2>2, FreshCarved
  <2>4. PICK C : Carved(mem', C, held' \cup lost', PADDING_SIZE', damage', debug')
    BY <1>1, <1>2, <1>4, <2>1, <2>3 DEF debug
  <2>5. m_error' \in Complaints => damage' # {}
    BY <1>2, <1>4 DEF MemInv, Rest
  <2>6. Rest'
    BY <1>1, <1>2, <1>3, <1>4, <2>2, <2>5 DEF Rest, debug
  <2> QED  BY <1>4, <2>4, <2>6 DEF MemInv
<1>5. CASE /\ ptr_header' \in {"NULL", "MAP_FAILED"} /\ m_error' = "E_BAD_ARGS"
           /\ UNCHANGED <<mem, PADDING_SIZE>>
  BY <1>1, <1>2, <1>3, <1>5 DEF MemInv, Rest, Complaints, debug
<1>6. use.sizeOfRegion \in Int
  BY <1>3 DEF MemAssumption
<1>7. use.sizeOfRegion > 0 \/ use.sizeOfRegion <= 0
  BY <1>6
<1>8. CASE use.sizeOfRegion <= 0
  BY <1>1, <1>5, <1>8 DEF Mem_Init
<1>9. CASE ~(use.sizeOfRegion <= 0)
  BY <1>1, <1>4, <1>5, <1>7, <1>9 DEF Mem_Init
<1> QED  BY <1>8, <1>9

LEMMA AllocKeeps ==
  ASSUME MemAssumption, MemInv, NEW s \in use.sizes, Mem_Alloc(s)
  PROVE  MemInv'
<1> DEFINE n == WordsFor(s)
<1>1. ptr_header = "mapped" /\ UNCHANGED <<region, damage, process>>
  BY DEF Mem_Alloc
<1>2. /\ Rest /\ ptr_header' = ptr_header /\ use' = use /\ PADDING_SIZE' = PADDING_SIZE
      /\ damage' = damage /\ process' = process /\ debug' = debug
  BY <1>1 DEF MemInv, region, debug
<1>3. PICK C : /\ Carved(mem, C, held \cup lost, PADDING_SIZE, damage, debug)
               /\ AllocRefused(C, n) \/ \E t : AllocDone(C, n, t)
  BY AllocIs
<1> HIDE DEF n
<1>4. CASE AllocRefused(C, n)
  <2>1. mem' = mem /\ held' = held /\ lost' = lost /\ m_error' \notin Complaints
    BY <1>4 DEF AllocRefused, Complaints
  <2>2. Rest'
    BY <1>2, <2>1 DEF Rest
  <2>3. Carved(mem', C, held' \cup lost', PADDING_SIZE', damage', debug')
    BY <1>2, <1>3, <2>1
  <2> QED  BY <1>1, <1>2, <2>2, <2>3 DEF MemInv
<1>5. ASSUME NEW t, AllocDone(C, n, t) PROVE MemInv'
  <2> DEFINE b == BlockTaken(t, n)
             B == held \cup lost
  <2>1. PICK C2 : Carved(AfterTaken(t, n), C2, B \cup {b}, PADDING_SIZE, damage, debug)
    BY <1>5 DEF AllocDone, IsTaken
  <2>2. b \notin B /\ mem' = AfterTaken(t, n) /\ held' \cup lost' = B \cup {b}
    BY <1>5 DEF AllocDone, IsTaken
  <2>3. B \cup {b} \subseteq Block
    BY <2>1 DEF Carved, Carving
  <2>4. \/ held' = held \cup {b} /\ lost' = lost /\ m_error' = m_error
        \/ held' = held /\ lost' = lost \cup {b} /\ damage # {}
    BY <1>5 DEF AllocDone
  <2> HIDE DEF b
  <2>5. held' \cap lost' = {}
    BY <1>2, <2>2, <2>4 DEF Rest
  <2>6. Rest'
    BY <1>2, <2>2, <2>3, <2>4, <2>5 DEF Rest
  <2>7. Carved(mem', C2, held' \cup lost', PADDING_SIZE', damage', debug')
    BY <1>2, <2>1, <2>2
  <2> QED  BY <1>1, <1>2, <2>6, <2>7 DEF MemInv
<1> QED  BY <1>3, <1>4, <1>5

LEMMA FreeKeeps ==
  ASSUME MemInv, NEW b \in held, Mem_Free(b) PROVE MemInv'
<1>1. UNCHANGED <<region, lost, process>>
  BY DEF Mem_Free
<1>2. /\ Rest /\ ptr_header' = ptr_header /\ use' = use /\ PADDING_SIZE' = PADDING_SIZE
      /\ lost' = lost /\ process' = process /\ debug' = debug
  BY <1>1 DEF MemInv, region, debug
<1>3. ptr_header = "mapped"
  BY DEF MemInv
<1>4. CASE UNCHANGED <<mem, held, ghosts>> /\ damage # {}
  <2>1. mem' = mem /\ held' = held /\ damage' = damage
    BY <1>4 DEF ghosts
  <2>2. Rest'
    BY <1>2, <1>4, <2>1 DEF Rest
  <2> QED  BY <1>2, <1>3, <2>1, <2>2 DEF MemInv
<1>5. CASE FreeDone(b)
  <2>1. PICK C : Carved(mem', C, (held \cup lost) \ {b}, PADDING_SIZE, damage, debug)
    BY <1>5 DEF FreeDone
  <2>2. held' = held \ {b} /\ m_error' = m_error /\ damage' = damage
    BY <1>5 DEF FreeDone
  <2>3. held' \cup lost' = (held \cup lost) \ {b}
    BY <1>2, <2>2 DEF Rest
  <2>4. Rest'
    BY <1>2, <2>2 DEF Rest
  <2>5. Carved(mem', C, held' \cup lost', PADDING_SIZE', damage', debug')
    BY <1>2, <2>1, <2>2, <2>3
  <2> QED  BY <1>2, <1>3, <2>4, <2>5 DEF MemInv
<1> QED  BY <1>4, <1>5, FreeIs

LEMMA StrayKeeps ==
  ASSUME MemInv, StrayWrite PROVE MemInv'
<1>1. /\ ptr_header = "mapped" /\ UNCHANGED <<region, m_error, held, lost, process>>
  BY DEF StrayWrite
<1>2. PICK a, C : /\ a \in Nat /\ damage' = damage \cup {a}
                  /\ Carved(mem', C, held \cup lost, PADDING_SIZE, damage \cup {a}, debug)
  BY StrayIs
<1>3. /\ ptr_header' = ptr_header /\ use' = use /\ PADDING_SIZE' = PADDING_SIZE /\ debug' = debug
      /\ held' = held /\ lost' = lost
  BY <1>1 DEF region, debug
<1>4. Rest'
  BY <1>1, <1>2, <1>3 DEF MemInv, Rest
<1>5. Carved(mem', C, held' \cup lost', PADDING_SIZE', damage', debug')
  BY <1>2, <1>3
<1> QED  BY <1>1, <1>3, <1>4, <1>5 DEF MemInv

\* A call that goes astray still writes integers to words of the region.
LEMMA PutKeeps ==
  ASSUME NEW m \in Seq(Int), NEW a, NEW v \in Int
  PROVE  Put(m, a, v) \in Seq(Int) /\ Len(Put(m, a, v)) = Len(m)
<1>1. Put(m, a, v) = [i \in 1..Len(m) |-> IF i = a + 1 THEN v ELSE m[i]]
  BY DEF Put
<1>2. Len(m) \in Nat /\ \A i \in 1..Len(m) : m[i] \in Int
  OBVIOUS
<1> QED  BY <1>1, <1>2

Wrecked == process' = "astray" /\ TypeOK' /\ Len(mem') = Len(mem)

LEMMA OverlapIs ==
  ASSUME MemAssumption, MemInv, NEW s \in use.sizes, Overlap(s)
  PROVE  Wrecked
<1> DEFINE n == WordsFor(s)
           f == FirstFit(n)
<1>1. /\ ptr_header = "mapped" /\ s > 0 /\ f.chunk # NULL /\ process' = "astray"
      /\ UNCHANGED <<region, m_error, held, lost, ghosts>>
      /\ mem' = IF HasMore(f.chunk, n) THEN CutFrom(f.chunk, n).mem
                ELSE TakeWhole(f.chunk, f.prev, n).mem
  BY DEF Overlap
<1>2. PICK C : Carved(mem, C, held \cup lost, PADDING_SIZE, damage, debug)
  BY <1>1 DEF MemInv
<1>3. Heap(mem, C, PiecesOf(held \cup lost, PADDING_SIZE)) /\ mem \in Seq(Int)
  BY <1>2 DEF Carved, Carving, Heap
<1>4. n \in Nat \ {0}
  BY <1>1, WordsForIsSome DEF MemInv, Rest
<1> HIDE DEF n
<1>5. FoundFirst(f, C, n)
  BY <1>2, FirstFitIs DEF Carved, Carving
<1> HIDE DEF f
<1>6. PICK p \in C : /\ f.chunk = p.at /\ Fit(p.at, n)
                    /\ (p.at = 0 \/ \E q \in C : Follows(C, q, p) /\ f.prev = q.at)
  BY <1>1, <1>5 DEF FoundFirst
<1>7. \A q \in C : q.at \in Nat /\ size_of(mem, q.at) \in Int /\ next_of(mem, q.at) \in Int
  <2> SUFFICES ASSUME NEW q \in C
               PROVE  q.at \in Nat /\ size_of(mem, q.at) \in Int /\ next_of(mem, q.at) \in Int
    OBVIOUS
  <2>1. /\ q.at \in Nat /\ q.end \in Nat /\ q.at + 2 <= q.end /\ q.end <= Len(mem)
    BY <1>3, ChunkFacts
  <2>2. q.at \in 0..(Len(mem) - 1) /\ q.at + 1 \in 0..(Len(mem) - 1)
    BY <1>3, <2>1
  <2> QED  BY <1>3, <2>1, <2>2, AtType DEF size_of, next_of
<1>8. Need(n) \in Int
  BY <1>2, <1>4, NeedIsMore DEF Carved, Carving
<1>9. mem' \in Seq(Int) /\ Len(mem') = Len(mem)
  <2>1. CASE HasMore(p.at, n)
    <3>1. PICK m1 : m1 = Put(mem, p.at + 1, size_of(mem, p.at) - Need(n))
      OBVIOUS
    <3>2. size_of(mem, p.at) - Need(n) \in Int
      BY <1>7, <1>8
    <3>3. m1 \in Seq(Int) /\ Len(m1) = Len(mem)
      BY <1>3, <3>1, <3>2, PutKeeps
    <3>5. mem' = CutFrom(p.at, n).mem
      BY <1>1, <1>6, <2>1, Zenon
    <3>4. mem' = Put(m1, p.at + HEADER + size_of(m1, p.at), n)
      BY <3>1, <3>5 DEF CutFrom
    <3> QED  BY <1>4, <3>3, <3>4, PutKeeps
  <2>2. CASE ~HasMore(p.at, n)
    <3>1. PICK o \in C : f.prev = o.at
      BY <1>6, <2>2 DEF Fit, HasExactly
    <3>2. PICK v : v = IF next_of(mem, p.at) = -1 THEN -1 ELSE next_of(mem, o.at) + next_of(mem, p.at)
      OBVIOUS
    <3>3. v \in Int
      BY <1>7, <3>2
    <3>4. Put(mem, o.at, v) \in Seq(Int) /\ Len(Put(mem, o.at, v)) = Len(mem)
      BY <1>3, <3>3, PutKeeps
    <3>6. mem' = TakeWhole(p.at, o.at, n).mem
      BY <1>1, <1>6, <2>2, <3>1, Zenon
    <3>5. mem' = Put(Put(mem, o.at, v), p.at, n)
      BY <3>2, <3>6 DEF TakeWhole
    <3> QED  BY <1>4, <3>4, <3>5, PutKeeps
  <2> QED  BY <2>1, <2>2
<1>10. TypeOK'
  <2>1. /\ ptr_header' = ptr_header /\ use' = use /\ PADDING_SIZE' = PADDING_SIZE
        /\ held' = held /\ lost' = lost /\ damage' = damage /\ debug' = debug
    BY <1>1 DEF region, ghosts, debug
  <2>2. held \cup lost \subseteq [ptr : Nat, size : Nat]
    BY DEF MemInv, Rest, Block
  <2> QED  BY <1>1, <1>9, <2>1, <2>2 DEF TypeOK, MemInv, Rest
<1> QED  BY <1>1, <1>9, <1>10 DEF Wrecked

LEMMA InvNext ==
  ASSUME MemAssumption, MemInv, [process = "up" /\ Next]_vars
  PROVE  StateInv'
<1>1. ASSUME Mem_Init PROVE MemInv'
  BY <1>1, InitKeeps
<1>2. ASSUME StrayWrite PROVE MemInv'
  BY <1>2, StrayKeeps
<1>3. ASSUME NEW s \in use.sizes, Mem_Alloc(s) PROVE MemInv'
  BY <1>3, AllocKeeps
<1>4. ASSUME NEW b \in held, Mem_Free(b) PROVE MemInv'
  BY <1>4, FreeKeeps
<1>5. ASSUME UNCHANGED <<region, mem, held, lost, ghosts>>, process' \in {"up", "segv"},
             m_error' \in Complaints => m_error' = m_error
      PROVE  MemInv'
  <2>1. /\ ptr_header' = ptr_header /\ use' = use /\ PADDING_SIZE' = PADDING_SIZE /\ mem' = mem
        /\ held' = held /\ lost' = lost /\ damage' = damage /\ debug' = debug
    BY <1>5 DEF region, ghosts, debug
  <2>2. Rest'
    BY <1>5, <2>1 DEF MemInv, Rest
  <2> QED  BY <2>1, <2>2 DEF MemInv
<1>6. process \in {"up", "segv"}
  BY DEF MemInv, Rest
<1>7. ASSUME InitAgain PROVE MemInv'
  BY <1>5, <1>6, <1>7 DEF InitAgain, Complaints
<1>8. ASSUME FreeRefuses PROVE MemInv'
  BY <1>5, <1>6, <1>8 DEF FreeRefuses, Complaints
<1>9. ASSUME NEW s \in use.sizes, AllocRefuses(s) PROVE MemInv'
  BY <1>5, <1>6, <1>9 DEF AllocRefuses, Complaints
<1>10. ASSUME NEW s \in use.sizes, AllocCrashes(s) PROVE MemInv'
  BY <1>5, <1>10 DEF AllocCrashes
<1>11. ASSUME UNCHANGED vars PROVE MemInv'
  BY <1>5, <1>6, <1>11 DEF vars
<1>12. ASSUME NEW s \in use.sizes, Overlap(s) PROVE StateInv'
  BY <1>12, OverlapIs DEF StateInv, Wrecked
<1> QED  BY <1>1, <1>2, <1>3, <1>4, <1>7, <1>8, <1>9, <1>10, <1>11, <1>12 DEF Next, StateInv

LEMMA StateInvNext ==
  ASSUME MemAssumption, StateInv, [process = "up" /\ Next]_vars
  PROVE  StateInv'
<1>1. CASE MemInv
  BY <1>1, InvNext
<1>2. CASE process = "astray" /\ TypeOK
  <2>1. UNCHANGED vars
    BY <1>2
  <2>2. TypeOK' /\ process' = "astray"
    BY <1>2, <2>1 DEF vars, region, ghosts, TypeOK, debug
  <2> QED  BY <2>2 DEF StateInv
<1> QED  BY <1>1, <1>2 DEF StateInv

\* The region stays carved, as long as no call goes astray.
THEOREM RegionCarved == Spec => []StateInv
<1>1. Init => StateInv
  BY InvInit DEF StateInv
<1>2. StateInv /\ [process = "up" /\ Next]_vars => StateInv'
  BY MemAssumption, StateInvNext
<1> QED  BY <1>1, <1>2, PTL DEF Spec

\* The words of chunks and blocks are those of the pieces.
LEMMA PartsArePieces ==
  ASSUME NEW C, NEW B, B \subseteq Block, PADDING_SIZE \in Nat,
         Heap(mem, C, PiecesOf(B, PADDING_SIZE))
  PROVE  {Chunk(c) : c \in Range(FreeList(mem))} \cup {Extent(b) : b \in B}
           = {WordsOf(p) : p \in C \cup PiecesOf(B, PADDING_SIZE)}
<1>1. ASSUME NEW p \in C PROVE Chunk(p.at) = WordsOf(p)
  <2>1. PICK c \in Nat, e \in Nat : c = p.at /\ e = p.end /\ size_of(mem, p.at) = e - c - 2
    BY ChunkFacts
  <2>2. c + 2 + (e - c - 2) - 1 = e - 1
    OBVIOUS
  <2> QED  BY <2>1, <2>2 DEF Chunk, WordsOf, HEADER
<1>2. ASSUME NEW b \in B PROVE Extent(b) = WordsOf(PieceOf(b, PADDING_SIZE))
  <2>1. /\ PieceOf(b, PADDING_SIZE).at = b.ptr - PADDING_SIZE - HEADER
        /\ PieceOf(b, PADDING_SIZE).end = b.ptr + b.size + PADDING_SIZE
    BY DEF PieceOf
  <2>2. b.ptr \in Nat /\ b.size \in Nat
    BY BlockFields
  <2>3. b.ptr + b.size + PADDING_SIZE - 1 = (b.ptr + b.size + PADDING_SIZE) - 1
    BY <2>2
  <2> QED  BY <2>1, <2>3 DEF Extent, WordsOf
<1>3. Range(FreeList(mem)) = {p.at : p \in C}
  BY ListRange DEF Ats
<1>4. {Chunk(c) : c \in Range(FreeList(mem))} = {WordsOf(p) : p \in C}
  BY <1>1, <1>3
<1>5. {Extent(b) : b \in B} = {WordsOf(p) : p \in PiecesOf(B, PADDING_SIZE)}
  BY <1>2 DEF PiecesOf
<1> QED  BY <1>4, <1>5

LEMMA CarvedIsTiled ==
  ASSUME NEW C, Carved(mem, C, held \cup lost, PADDING_SIZE, damage, debug)
  PROVE  Tiled
<1> DEFINE B == held \cup lost
           K == PiecesOf(B, PADDING_SIZE)
           list == FreeList(mem)
           parts == {Chunk(c) : c \in Range(list)} \cup {Extent(b) : b \in B}
<1>1. /\ Heap(mem, C, K) /\ PADDING_SIZE \in Nat /\ B \subseteq Block /\ Merged(C)
      /\ Tiling(C \cup K, Len(mem)) /\ Len(mem) \in Nat
  <2>1. Heap(mem, C, K) /\ PADDING_SIZE \in Nat /\ B \subseteq Block /\ Merged(C)
    BY DEF Carved, Carving
  <2> HIDE DEF K
  <2>2. Tiling(C \cup K, Len(mem)) /\ mem \in Seq(Int)
    BY <2>1 DEF Heap
  <2>3. Len(mem) \in Nat
    BY <2>2
  <2> QED  BY <2>1, <2>2, <2>3
<1>2. parts = {WordsOf(p) : p \in C \cup K}
  <2> HIDE DEF B
  <2> QED  BY <1>1, PartsArePieces
<1>3. ASSUME NEW i \in 1..(Len(list) - 1)
      PROVE  list[i] + HEADER + size_of(mem, list[i]) < list[i + 1]
  <2>1. PICK n : InOrder(list, n, C)
    BY <1>1, TheFreeList
  <2>2. PICK p \in C, q \in C : list[i] = p.at /\ list[i + 1] = q.at /\ Follows(C, p, q)
    BY <1>3, <2>1 DEF InOrder
  <2>3. /\ p.at \in Nat /\ p.end \in Nat /\ size_of(mem, p.at) = p.end - p.at - 2
        /\ q.at \in Nat /\ q.end \in Nat /\ q.at + 2 <= q.end
    BY <1>1, ChunkFacts
  <2>4. p.at < q.at /\ p.end # q.at
    BY <1>1, <2>2 DEF Merged, Follows
  <2>5. Apart(p, q)
    <3>1. p # q
      BY <2>3, <2>4
    <3> QED  BY <1>1, <3>1, ChunkFacts
  <2>6. p.end < q.at
    BY <2>3, <2>4, <2>5 DEF Apart
  <2>7. p.at + 2 + (p.end - p.at - 2) = p.end
    BY <2>3
  <2> HIDE DEF list
  <2> QED  BY <2>2, <2>3, <2>6, <2>7 DEF HEADER
<1>4. UNION parts = 0..(Len(mem) - 1)
  <2>1. ASSUME NEW p \in C \cup K PROVE WordsOf(p) \subseteq 0..(Len(mem) - 1)
    <3>1. p \in Piece /\ p.end <= Len(mem)
      BY <1>1 DEF Tiling
    <3>2. p.at \in Nat /\ p.end \in Nat
      BY <3>1, PieceFields
    <3> QED  BY <1>1, <3>1, <3>2 DEF WordsOf
  <2>2. ASSUME NEW a \in 0..(Len(mem) - 1) PROVE \E p \in C \cup K : a \in WordsOf(p)
    <3>1. PICK p \in C \cup K : p.at <= a /\ a < p.end
      BY <1>1 DEF Tiling
    <3>2. p.at \in Nat /\ p.end \in Nat
      BY <1>1, PieceFields DEF Tiling
    <3> QED  BY <3>1, <3>2 DEF WordsOf
  <2> HIDE DEF parts
  <2> QED  BY <1>2, <2>1, <2>2
<1>5. \A p, q \in parts : p # q => p \cap q = {}
  <2>1. ASSUME NEW p \in C \cup K, NEW q \in C \cup K, p # q PROVE WordsOf(p) \cap WordsOf(q) = {}
    BY <1>1, <2>1, WordsApart
  <2> HIDE DEF parts
  <2> QED  BY <1>2, <2>1
<1> HIDE DEF list
<1> QED  BY <1>3, <1>4, <1>5 DEF Tiled, total_size, list

LEMMA CarvedIsClean ==
  ASSUME NEW C, Carved(mem, C, held \cup lost, PADDING_SIZE, damage, debug)
  PROVE  PatternsKept
<1> SUFFICES ASSUME debug PROVE PatternsKept
  BY DEF PatternsKept
<1>1. /\ Heap(mem, C, PiecesOf(held \cup lost, PADDING_SIZE))
      /\ FreeClean(mem, C, damage) /\ PadClean(mem, held \cup lost, PADDING_SIZE, damage)
  BY DEF Carved, Carving
<1>2. \A a \in FreeWords \ damage : At(mem, a) = FREE_PATTERN
  BY <1>1, FreeWordsAre DEF FreeClean
<1>3. \A b \in held : PaddingWords(b) = Padded(b, PADDING_SIZE)
  BY DEF PaddingWords, Padded
<1>4. \A b \in held : \A a \in PaddingWords(b) \ damage : At(mem, a) = PADDING_PATTERN
  BY <1>1, <1>3 DEF PadClean
<1> QED  BY <1>2, <1>4 DEF PatternsKept

LEMMA InvIsTyped ==
  ASSUME MemInv PROVE TypeOK
<1>1. mem \in Seq(Int)
  <2>1. CASE ptr_header # "mapped"
    <3>1. mem = <<>>
      BY <2>1 DEF MemInv
    <3> QED  BY <3>1
  <2>2. CASE ptr_header = "mapped"
    BY <2>2 DEF MemInv, Carved, Carving, Heap
  <2> QED  BY <2>1, <2>2
<1>2. held \cup lost \subseteq [ptr : Nat, size : Nat]
  BY DEF MemInv, Rest, Block
<1> QED  BY <1>1, <1>2 DEF TypeOK, MemInv, Rest

-----------------------------------------------------------------------------
\* Every state of p3/mem.c has the shape the globals and lists promise.
THEOREM TypeOKHolds == Spec => []TypeOK
<1>1. StateInv => TypeOK
  BY InvIsTyped DEF StateInv
<1> QED  BY <1>1, RegionCarved, PTL

\* Whatever is allocated and freed, in any order and of any size (mem.c 76-255),
\* unless a call went astray: chunks and blocks cover every word of the region
\* once, and no two chunks touch.
THEOREM TiledHolds == Spec => []Tiled
<1>1. StateInv => Tiled
  <2> SUFFICES ASSUME MemInv, ptr_header = "mapped" PROVE Tiled
    BY DEF Tiled, StateInv
  <2> QED  BY CarvedIsTiled DEF MemInv
<1> QED  BY <1>1, RegionCarved, PTL

\* In debug mode free words and paddings carry their pattern, but for those the
\* client spoiled (mem.c 140-159, 200-211, 222-253), unless a call went astray.
THEOREM PatternsKeptHolds == Spec => []PatternsKept
<1>1. StateInv => PatternsKept
  <2> SUFFICES ASSUME MemInv, ptr_header = "mapped" PROVE PatternsKept
    BY DEF PatternsKept, StateInv
  <2> QED  BY CarvedIsClean DEF MemInv
<1> QED  BY <1>1, RegionCarved, PTL

LEMMA DamageIsTheClients ==
  ASSUME MemInv, [process = "up" /\ Next]_vars
  PROVE  damage' = damage \/ StrayWrite
<1>1. CASE Mem_Init
  BY <1>1 DEF Mem_Init, ghosts
<1>2. CASE InitAgain \/ FreeRefuses
  BY <1>2 DEF InitAgain, FreeRefuses, ghosts
<1>3. ASSUME NEW s \in use.sizes, Mem_Alloc(s) \/ AllocRefuses(s) \/ AllocCrashes(s)
      PROVE  damage' = damage
  <2>1. CASE Mem_Alloc(s)
    BY <2>1 DEF Mem_Alloc
  <2>2. CASE AllocRefuses(s)
    BY <2>2 DEF AllocRefuses, ghosts
  <2>3. CASE AllocCrashes(s)
    BY <2>3 DEF AllocCrashes, ghosts
  <2> QED  BY <1>3, <2>1, <2>2, <2>3
<1>6. ASSUME NEW s \in use.sizes, Overlap(s) PROVE damage' = damage
  BY <1>6 DEF Overlap, ghosts
<1>4. ASSUME NEW b \in held, Mem_Free(b) PROVE damage' = damage
  BY <1>4, FreeIs DEF FreeDone, ghosts
<1>5. CASE UNCHANGED vars
  BY <1>5 DEF vars, ghosts
<1> QED  BY <1>1, <1>2, <1>3, <1>4, <1>5, <1>6 DEF Next

LEMMA AllocLoses ==
  ASSUME [process = "up" /\ Next]_vars
  PROVE  lost' = lost \/ \E s \in use.sizes : Mem_Alloc(s)
<1>1. CASE Mem_Init
  BY <1>1 DEF Mem_Init
<1>2. CASE InitAgain \/ FreeRefuses
  BY <1>2 DEF InitAgain, FreeRefuses
<1>3. ASSUME NEW s \in use.sizes, Overlap(s) \/ AllocRefuses(s) \/ AllocCrashes(s)
      PROVE  lost' = lost
  BY <1>3 DEF Overlap, AllocRefuses, AllocCrashes
<1>4. ASSUME NEW b \in held, Mem_Free(b) PROVE lost' = lost
  BY <1>4 DEF Mem_Free
<1>5. CASE StrayWrite
  BY <1>5 DEF StrayWrite
<1>6. CASE UNCHANGED vars
  BY <1>6 DEF vars
<1> QED  BY <1>1, <1>2, <1>3, <1>4, <1>5, <1>6 DEF Next

LEMMA StrayedKeeps ==
  ASSUME MemInv, [process = "up" /\ Next]_vars, process' = "astray"
  PROVE  m_error' = m_error
<1>1. process \in {"up", "segv"}
  BY DEF MemInv, Rest
<1>2. CASE Mem_Init \/ InitAgain \/ FreeRefuses \/ StrayWrite \/ UNCHANGED vars
  BY <1>1, <1>2 DEF Mem_Init, InitAgain, FreeRefuses, StrayWrite, vars
<1>3. ASSUME NEW s \in use.sizes, Mem_Alloc(s) \/ AllocRefuses(s) \/ AllocCrashes(s)
      PROVE  FALSE
  BY <1>1, <1>3 DEF Mem_Alloc, AllocRefuses, AllocCrashes
<1>4. ASSUME NEW s \in use.sizes, Overlap(s) PROVE m_error' = m_error
  BY <1>4 DEF Overlap
<1>5. ASSUME NEW b \in held, Mem_Free(b) PROVE FALSE
  BY <1>1, <1>5 DEF Mem_Free
<1> QED  BY <1>2, <1>3, <1>4, <1>5 DEF Next

\* So Mem_Alloc and Mem_Free complain, and blocks are lost, over real damage only.
THEOREM NoFalseAlarmHolds == Spec => NoFalseAlarm
<1> DEFINE Alarm == m_error' \in {"E_PADDING_OVERWRITTEN", "E_CORRUPT_FREESPACE"} \/ lost' # lost
           Step == [process = "up" /\ Next]_vars
<1>1. ASSUME MemInv, Step, Alarm PROVE damage # {}
  <2>1. CASE lost' # lost
    <3>1. PICK s \in use.sizes : Mem_Alloc(s)
      BY <1>1, <2>1, AllocLoses
    <3>2. PICK C : AllocRefused(C, WordsFor(s)) \/ \E t : AllocDone(C, WordsFor(s), t)
      BY <1>1, <3>1, MemAssumption, AllocIs
    <3> QED  BY <2>1, <3>2 DEF AllocRefused, AllocDone
  <2>2. CASE m_error' \in Complaints
    <3>1. CASE damage' = damage
      <4>1. StateInv' /\ (process' # "astray" => MemInv')
        BY <1>1, MemAssumption, InvNext DEF StateInv
      <4>2. CASE process' # "astray"
        BY <2>2, <3>1, <4>1, <4>2 DEF MemInv, Rest
      <4>3. CASE process' = "astray"
        <5>1. m_error' = m_error
          BY <1>1, <4>3, StrayedKeeps
        <5> QED  BY <1>1, <2>2, <5>1 DEF MemInv, Rest
      <4> QED  BY <4>2, <4>3
    <3>2. CASE StrayWrite
      <4>1. m_error' = m_error
        BY <3>2 DEF StrayWrite
      <4> QED  BY <1>1, <2>2, <4>1 DEF MemInv, Rest
    <3> QED  BY <1>1, <3>1, <3>2, DamageIsTheClients
  <2> QED  BY <1>1, <2>1, <2>2 DEF Complaints
<1>2. StateInv /\ Step => [Alarm => damage # {}]_vars
  BY <1>1 DEF StateInv
<1> QED  BY <1>2, RegionCarved, PTL DEF Spec, NoFalseAlarm

-----------------------------------------------------------------------------
(* Mem implements BlockStore: the gaps between blocks are the chunks.      *)

\* In a tiled region a piece begins where another ends.
LEMMA NextPiece ==
  ASSUME NEW Q, NEW n \in Nat, Tiling(Q, n), NEW p \in Q
  PROVE  p.end = n \/ \E q \in Q : q.at = p.end
<1>1. \A q \in Q : q.at \in Nat /\ q.end \in Nat /\ q.at + 2 <= q.end /\ q.end <= n
  BY PieceFields DEF Tiling
<1>2. CASE p.end # n
  <2>1. p.end \in 0..(n - 1)
    BY <1>1, <1>2
  <2>2. PICK q \in Q : q.at <= p.end /\ p.end < q.end
    BY <2>1 DEF Tiling
  <2>3. p # q
    BY <1>1, <2>2
  <2>4. Apart(p, q)
    BY <2>3 DEF Tiling
  <2>5. q.at = p.end
    BY <1>1, <2>2, <2>4 DEF Apart
  <2> QED  BY <2>5
<1> QED  BY <1>2

LEMMA PreviousPiece ==
  ASSUME NEW Q, NEW n \in Nat, Tiling(Q, n), NEW p \in Q
  PROVE  p.at = 0 \/ \E q \in Q : q.end = p.at
<1>1. \A q \in Q : q.at \in Nat /\ q.end \in Nat /\ q.at + 2 <= q.end /\ q.end <= n
  BY PieceFields DEF Tiling
<1>2. CASE p.at # 0
  <2>1. p.at - 1 \in 0..(n - 1)
    BY <1>1, <1>2
  <2>2. PICK q \in Q : q.at <= p.at - 1 /\ p.at - 1 < q.end
    BY <2>1 DEF Tiling
  <2>3. p # q
    BY <1>1, <2>2
  <2>4. Apart(p, q)
    BY <2>3 DEF Tiling
  <2>5. q.end = p.at
    BY <1>1, <2>2, <2>4 DEF Apart
  <2> QED  BY <2>5
<1> QED  BY <1>2

\* The gap a chunk is, which does not count the first header.
GapOf(p) == IF p.at = 0 THEN 2 ELSE p.at

IsStart(K, lo) == lo = 2 \/ \E k \in K : lo = k.end
IsEnd(K, n, hi) == hi = n \/ \E k \in K : hi = k.at
IsGap(K, lo, hi) ==
  /\ lo < hi \/ (lo = hi /\ lo = 2)
  /\ \A k \in K : k.end <= lo \/ hi <= k.at

ChunkGap(C, lo, hi) == \E p \in C : lo = GapOf(p) /\ hi = p.end

\* A region whose chunks do not touch.
Settled(m, C, K) == Heap(m, C, K) /\ Merged(C) /\ K \subseteq Piece

SettledIs(n, C, K) ==
  /\ n \in Nat /\ C \cap K = {} /\ \E p \in C : p.at = 0
  /\ \A q \in C \cup K : /\ q.at \in Nat /\ q.end \in Nat /\ q.at + 2 <= q.end
                         /\ q.end <= n
  /\ \A p, q \in C \cup K : p # q => Apart(p, q)
  /\ \A p \in C : p.end = n \/ \E k \in K : k.at = p.end
  /\ \A p \in C : p.at = 0 \/ \E k \in K : k.end = p.at
  /\ \A k \in K : k.end = n \/ \E q \in C \cup K : q.at = k.end

LEMMA SettledFacts ==
  ASSUME NEW m, NEW C, NEW K, Settled(m, C, K)
  PROVE  SettledIs(Len(m), C, K)
<1>1. Tiling(C \cup K, Len(m)) /\ C \cap K = {} /\ m \in Seq(Int) /\ Linked(C, m) /\ Merged(C)
  BY DEF Settled, Heap
<1>2. Len(m) \in Nat
  BY <1>1
<1>3. \A q \in C \cup K : /\ q.at \in Nat /\ q.end \in Nat /\ q.at + 2 <= q.end
                          /\ q.end <= Len(m)
  BY <1>1, PieceFields DEF Tiling
<1>4. \A p, q \in C \cup K : p # q => Apart(p, q)
  BY <1>1 DEF Tiling
<1>5. \A p \in C : p.end = Len(m) \/ \E k \in K : k.at = p.end
  <2> SUFFICES ASSUME NEW p \in C, p.end # Len(m) PROVE \E k \in K : k.at = p.end
    OBVIOUS
  <2>1. PICK q \in C \cup K : q.at = p.end
    BY <1>1, <1>2, NextPiece
  <2>2. q \notin C
    BY <1>1, <2>1 DEF Merged
  <2> QED  BY <2>1, <2>2
<1>6. \A p \in C : p.at = 0 \/ \E k \in K : k.end = p.at
  <2> SUFFICES ASSUME NEW p \in C, p.at # 0 PROVE \E k \in K : k.end = p.at
    OBVIOUS
  <2>1. PICK q \in C \cup K : q.end = p.at
    BY <1>1, <1>2, PreviousPiece
  <2>2. q \notin C
    BY <1>1, <2>1 DEF Merged
  <2> QED  BY <2>1, <2>2
<1>7. \A k \in K : k.end = Len(m) \/ \E q \in C \cup K : q.at = k.end
  BY <1>1, <1>2, NextPiece
<1>8. \E p \in C : p.at = 0
  BY <1>1 DEF Linked
<1> QED  BY <1>1, <1>2, <1>3, <1>4, <1>5, <1>6, <1>7, <1>8 DEF SettledIs

\* Every chunk is a gap,
LEMMA ChunksAreGaps ==
  ASSUME NEW m, NEW C, NEW K, Settled(m, C, K), NEW p \in C
  PROVE  IsStart(K, GapOf(p)) /\ IsEnd(K, Len(m), p.end) /\ IsGap(K, GapOf(p), p.end)
<1>0. SettledIs(Len(m), C, K)
  BY SettledFacts
<1>1. \A q \in C \cup K : /\ q.at \in Nat /\ q.end \in Nat /\ q.at + 2 <= q.end
  BY <1>0 DEF SettledIs
<1>2. p.end = Len(m) \/ \E k \in K : k.at = p.end
  BY <1>0 DEF SettledIs
<1>3. p.at = 0 \/ \E k \in K : k.end = p.at
  BY <1>0 DEF SettledIs
<1>4. IsStart(K, GapOf(p))
  BY <1>3 DEF IsStart, GapOf
<1>5. IsEnd(K, Len(m), p.end)
  BY <1>2 DEF IsEnd
<1>6. \A k \in K : Apart(p, k)
  <2>1. \A k \in K : p # k
    BY <1>0 DEF SettledIs
  <2>2. \A k \in K : p # k => Apart(p, k)
    BY <1>0 DEF SettledIs
  <2> QED  BY <2>1, <2>2
<1>7. ASSUME NEW k \in K PROVE k.end <= GapOf(p) \/ p.end <= k.at
  BY <1>1, <1>6 DEF Apart, GapOf
<1>8. GapOf(p) < p.end \/ (GapOf(p) = p.end /\ GapOf(p) = 2)
  BY <1>1 DEF GapOf
<1> QED  BY <1>4, <1>5, <1>7, <1>8 DEF IsGap

\* and every gap is a chunk.
LEMMA GapsAreChunks ==
  ASSUME NEW m, NEW C, NEW K, Settled(m, C, K), NEW lo, NEW hi,
         IsStart(K, lo), IsEnd(K, Len(m), hi), IsGap(K, lo, hi)
  PROVE  ChunkGap(C, lo, hi)
<1>0. SettledIs(Len(m), C, K)
  BY SettledFacts
<1>1. /\ Len(m) \in Nat
      /\ \A q \in C \cup K : /\ q.at \in Nat /\ q.end \in Nat /\ q.at + 2 <= q.end /\ q.end <= Len(m)
  BY <1>0 DEF SettledIs
<1>2. hi \in Nat /\ hi <= Len(m) /\ lo \in Nat
  <2>1. hi \in Nat /\ hi <= Len(m)
    <3>1. CASE hi = Len(m)
      BY <1>1, <3>1
    <3>2. ASSUME NEW k \in K, hi = k.at PROVE hi \in Nat /\ hi <= Len(m)
      BY <1>1, <3>2
    <3> QED  BY <3>1, <3>2 DEF IsEnd
  <2>2. lo \in Nat
    BY <1>1 DEF IsStart
  <2> QED  BY <2>1, <2>2
<1>3. \A k \in K : k.end <= lo \/ hi <= k.at
  BY DEF IsGap
\* The chunk that begins at lo ends at hi.
<1>4. ASSUME NEW p \in C, lo = GapOf(p), p.at = 0 \/ lo < hi PROVE hi = p.end
  <2>0. p.at <= lo /\ lo <= p.end /\ (p.at # 0 => lo < p.end) /\ p.at \in Nat /\ p.end \in Nat
    BY <1>1, <1>4 DEF GapOf
  <2>1. hi <= p.end
    <3>1. CASE p.end = Len(m)
      BY <1>2, <3>1
    <3>2. ASSUME NEW k \in K, k.at = p.end PROVE hi <= p.end
      BY <1>1, <1>2, <1>3, <2>0, <3>2
    <3> QED  BY <1>0, <3>1, <3>2 DEF SettledIs
  <2>2. p.end <= hi
    <3>1. CASE hi = Len(m)
      BY <1>1, <3>1
    <3>2. ASSUME NEW k \in K, hi = k.at PROVE p.end <= hi
      <4>1. p # k
        BY <1>0 DEF SettledIs
      <4>2. Apart(p, k)
        BY <1>0, <4>1 DEF SettledIs
      <4>3. k.at \in Nat /\ k.end \in Nat /\ k.at + 2 <= k.end
        BY <1>1
      <4>4. ~(k.end <= p.at)
        BY <1>2, <1>4, <2>0, <3>2, <4>3
      <4> QED  BY <3>2, <4>2, <4>4 DEF Apart
    <3> QED  BY <3>1, <3>2 DEF IsEnd
  <2> QED  BY <1>2, <2>0, <2>1, <2>2
<1>5. CASE lo = 2
  <2>1. PICK p \in C : p.at = 0
    BY <1>0 DEF SettledIs
  <2>2. lo = GapOf(p)
    BY <1>5, <2>1 DEF GapOf
  <2>3. hi = p.end
    BY <1>4, <2>1, <2>2
  <2> QED  BY <2>2, <2>3 DEF ChunkGap
<1>6. ASSUME NEW k \in K, lo = k.end, lo # 2 PROVE ChunkGap(C, lo, hi)
  <2>1. lo < hi
    BY <1>6 DEF IsGap
  <2>2. k.end # Len(m)
    BY <1>1, <1>2, <1>6, <2>1
  <2>3. PICK q \in C \cup K : q.at = k.end
    BY <1>0, <2>2 DEF SettledIs
  <2>4. q \in C
    <3> SUFFICES ASSUME q \in K PROVE FALSE
      OBVIOUS
    <3>1. q.end <= lo \/ hi <= q.at
      BY <1>3
    <3>2. q.at \in Nat /\ q.end \in Nat /\ q.at + 2 <= q.end
      BY <1>1
    <3> QED  BY <1>2, <1>6, <2>1, <2>3, <3>1, <3>2
  <2>5. q.at # 0
    BY <1>1, <2>3
  <2>6. lo = GapOf(q)
    BY <1>6, <2>3, <2>5 DEF GapOf
  <2>7. hi = q.end
    BY <1>4, <2>1, <2>4, <2>6
  <2> QED  BY <2>4, <2>6, <2>7 DEF ChunkGap
<1> QED  BY <1>5, <1>6 DEF IsStart

\* The first chunk is the only one that begins below word 3.
LEMMA ChunksBegin ==
  ASSUME NEW m, NEW C, NEW K, Settled(m, C, K), NEW p \in C, p.at # 0
  PROVE  p.at > 2 /\ GapOf(p) = p.at
<1>0. SettledIs(Len(m), C, K)
  BY SettledFacts
<1>1. PICK o \in C : o.at = 0
  BY <1>0 DEF SettledIs
<1>2. /\ p.at \in Nat /\ p.end \in Nat /\ p.at + 2 <= p.end
      /\ o.at \in Nat /\ o.end \in Nat /\ o.at + 2 <= o.end
  BY <1>0 DEF SettledIs
<1>3. Apart(o, p)
  BY <1>0, <1>1 DEF SettledIs
<1>4. o.end <= p.at
  BY <1>1, <1>2, <1>3 DEF Apart
<1>5. o.end # p.at
  BY DEF Settled, Merged
<1> QED  BY <1>1, <1>2, <1>4, <1>5 DEF GapOf

\* The search of Mem_Alloc takes the chunks that BlockStore has room in.
LEMMA RoomIsFit ==
  ASSUME NEW C, NEW K, Settled(mem, C, K), NEW p \in C,
         NEW n \in Nat \ {0}, PADDING_SIZE \in Nat
  PROVE  /\ Abstract!HasRoom(GapOf(p), p.end, Need(n)) => Fit(p.at, n)
         /\ Fit(p.at, n) /\ ~NoRoom(p.at, n) => Abstract!HasRoom(GapOf(p), p.end, Need(n))
<1>0. SettledIs(Len(mem), C, K)
  BY SettledFacts
<1>1. PICK at \in Nat, end \in Nat : at = p.at /\ end = p.end
  BY <1>0 DEF SettledIs
<1>3. PICK need \in Nat : need = Need(n) /\ need >= 3
  BY NeedIsMore
<1>4. PICK size \in Int : size = size_of(mem, p.at) /\ size + 2 = end - at
  <2>1. size_of(mem, p.at) = end - at - 2
    BY <1>1, ChunkFacts DEF Settled
  <2>2. end - at - 2 \in Int /\ (end - at - 2) + 2 = end - at
    OBVIOUS
  <2> QED  BY <2>1, <2>2
<1>5. Fit(p.at, n) <=> end - at > need \/ (at # 0 /\ end - at = need)
  BY <1>1, <1>3, <1>4 DEF Fit, HasMore, HasExactly, HEADER
<1>9. ~NoRoom(p.at, n) => ~(end - at > need) \/ end - at >= need + 2
  <2>1. ~NoRoom(p.at, n) => ~(size + 2 > need) \/ ~(size < need)
    BY <1>1, <1>3, <1>4 DEF NoRoom, HasMore, HEADER
  <2> QED  BY <1>4, <2>1
<1>6. Abstract!HasRoom(GapOf(p), end, need)
        <=> IF GapOf(p) = 2 THEN end - GapOf(p) >= need
            ELSE end - GapOf(p) = need \/ end - GapOf(p) >= need + 2
  BY DEF Abstract!HasRoom, HEADER
<1>7. CASE at = 0
  <2>1. GapOf(p) = 2
    BY <1>1, <1>7 DEF GapOf
  <2>2. /\ end - 2 >= need => end - at > need
        /\ end - at >= need + 2 => end - 2 >= need
    BY <1>3, <1>7
  <2> QED  BY <1>1, <1>3, <1>5, <1>6, <1>7, <1>9, <2>1, <2>2
<1>8. CASE at # 0
  <2>1. GapOf(p) = at /\ at # 2
    BY <1>1, <1>8, ChunksBegin
  <2>2. PICK len \in Int : len = end - at
    BY <1>1
  <2> QED  BY <1>1, <1>3, <1>5, <1>6, <1>8, <1>9, <2>1, <2>2
<1> QED  BY <1>7, <1>8

\* The blocks of BlockStore are the pieces that are no chunks.
BlockOf(b) == [at |-> b.ptr - PADDING_SIZE - HEADER, len |-> b.size + 2 * PADDING_SIZE + HEADER]
TheBlocks == {BlockOf(b) : b \in held \cup lost}

LEMMA BlockOfFields ==
  ASSUME NEW b \in Block, PADDING_SIZE \in Nat
  PROVE  /\ BlockOf(b).at = PieceOf(b, PADDING_SIZE).at
         /\ BlockOf(b).at + BlockOf(b).len = PieceOf(b, PADDING_SIZE).end
<1>1. b.ptr \in Nat /\ b.size \in Nat
  BY BlockFields
<1> QED  BY <1>1 DEF BlockOf, PieceOf, HEADER

LEMMA StoreWords ==
  ASSUME held \cup lost \subseteq Block, PADDING_SIZE \in Nat,
         NEW K, K = PiecesOf(held \cup lost, PADDING_SIZE), NEW lo, NEW hi
  PROVE  /\ lo \in Abstract!Starts <=> IsStart(K, lo)
         /\ hi \in Abstract!Ends <=> IsEnd(K, Len(mem), hi)
         /\ Abstract!Gap(lo, hi) <=> IsGap(K, lo, hi)
<1>1. /\ Abstract!Starts = {HEADER} \cup {b.at + b.len : b \in TheBlocks}
      /\ Abstract!Ends = {Len(mem)} \cup {b.at : b \in TheBlocks}
      /\ Abstract!Gap(lo, hi) <=> /\ lo < hi \/ (lo = hi /\ lo = HEADER)
                                  /\ \A b \in TheBlocks : b.at + b.len <= lo \/ hi <= b.at
  BY DEF Abstract!Starts, Abstract!Ends, Abstract!Gap, TheBlocks, BlockOf
<1>2. \A b \in held \cup lost : /\ BlockOf(b).at = PieceOf(b, PADDING_SIZE).at
                                /\ BlockOf(b).at + BlockOf(b).len = PieceOf(b, PADDING_SIZE).end
  BY BlockOfFields
<1>3. lo \in Abstract!Starts <=> IsStart(K, lo)
  BY <1>1, <1>2 DEF IsStart, PiecesOf, TheBlocks, HEADER
<1>4. hi \in Abstract!Ends <=> IsEnd(K, Len(mem), hi)
  BY <1>1, <1>2 DEF IsEnd, PiecesOf, TheBlocks
<1>5. Abstract!Gap(lo, hi) <=> IsGap(K, lo, hi)
  BY <1>1, <1>2 DEF IsGap, PiecesOf, TheBlocks, HEADER
<1> QED  BY <1>3, <1>4, <1>5

\* What fits in BlockStore, fits a chunk.
InStore(lo, hi, need) == lo \in Abstract!Starts /\ hi \in Abstract!Ends /\ Abstract!Fits(lo, hi, need)

LEMMA FitsAreFits ==
  ASSUME NEW C, Carved(mem, C, held \cup lost, PADDING_SIZE, damage, debug),
         NEW n \in Nat \ {0}, NEW lo, NEW hi
  PROVE  /\ InStore(lo, hi, Need(n)) => \E p \in C : lo = GapOf(p) /\ hi = p.end /\ Fit(p.at, n)
         /\ \A p \in C : lo = GapOf(p) /\ hi = p.end /\ Fit(p.at, n) /\ ~NoRoom(p.at, n)
                         => InStore(lo, hi, Need(n))
<1>1. PICK K : K = PiecesOf(held \cup lost, PADDING_SIZE)
  OBVIOUS
<1>2. /\ held \cup lost \subseteq Block /\ PADDING_SIZE \in Nat /\ Heap(mem, C, K) /\ Merged(C)
  BY <1>1 DEF Carved, Carving
<1>3. Settled(mem, C, K)
  BY <1>2 DEF Settled, Heap, Tiling
<1>4. /\ lo \in Abstract!Starts <=> IsStart(K, lo)
      /\ hi \in Abstract!Ends <=> IsEnd(K, Len(mem), hi)
      /\ Abstract!Gap(lo, hi) <=> IsGap(K, lo, hi)
  BY <1>1, <1>2, StoreWords
<1>5. InStore(lo, hi, Need(n)) <=> /\ IsStart(K, lo) /\ IsEnd(K, Len(mem), hi) /\ IsGap(K, lo, hi)
                                   /\ Abstract!HasRoom(lo, hi, Need(n))
  BY <1>4 DEF InStore, Abstract!Fits
<1>6. ASSUME InStore(lo, hi, Need(n))
      PROVE  \E p \in C : lo = GapOf(p) /\ hi = p.end /\ Fit(p.at, n)
  <2>1. PICK p \in C : lo = GapOf(p) /\ hi = p.end
    BY <1>3, <1>5, <1>6, GapsAreChunks DEF ChunkGap
  <2>2. Fit(p.at, n)
    BY <1>2, <1>3, <1>5, <1>6, <2>1, RoomIsFit
  <2> QED  BY <2>1, <2>2
<1>7. ASSUME NEW p \in C, lo = GapOf(p), hi = p.end, Fit(p.at, n), ~NoRoom(p.at, n)
      PROVE  InStore(lo, hi, Need(n))
  <2>1. IsStart(K, lo) /\ IsEnd(K, Len(mem), hi) /\ IsGap(K, lo, hi)
    BY <1>3, <1>7, ChunksAreGaps
  <2>2. Abstract!HasRoom(lo, hi, Need(n))
    BY <1>2, <1>3, <1>7, RoomIsFit
  <2> QED  BY <1>5, <2>1, <2>2
<1> QED  BY <1>6, <1>7

\* Steps that leave what BlockStore sees as it is.
LEMMA StoreStutters ==
  ASSUME Len(mem') = Len(mem), PADDING_SIZE' = PADDING_SIZE, held' \cup lost' = held \cup lost,
         last' = last
  PROVE  UNCHANGED Abstract!vars
BY DEF Abstract!vars

LEMMA SameBlocks ==
  ASSUME PADDING_SIZE' = PADDING_SIZE, NEW B, held' \cup lost' = B
  PROVE  TheBlocks' = {BlockOf(b) : b \in B}
BY DEF TheBlocks, BlockOf

TheRegions == {u.sizeOfRegion \div 4 + HEADER : u \in {v \in Uses : v.sizeOfRegion > 0}}
TheRequests == {(s - 1) \div 4 + 1 + 2 * p + HEADER :
                  s \in {t \in UNION {u.sizes : u \in Uses} : t > 0}, p \in {0, Padding}}

\* A request is one of those BlockStore knows.
LEMMA NeedIsRequest ==
  ASSUME MemInv, NEW s \in use.sizes, s > 0
  PROVE  Need(WordsFor(s)) \in TheRequests
<1> DEFINE T == {r \in UNION {u.sizes : u \in Uses} : r > 0}
           words(t, p) == (t - 1) \div 4 + 1 + 2 * p + HEADER
<1>1. s \in T
  BY DEF MemInv, Rest
<1>2. PADDING_SIZE \in {0, Padding}
  BY DEF MemInv, Rest
<1>3. Need(WordsFor(s)) = words(s, PADDING_SIZE)
  BY DEF Need, WordsFor
<1> HIDE DEF words, T
<1>4. \E t \in T, p \in {0, Padding} : Need(WordsFor(s)) = words(t, p)
  BY <1>1, <1>2, <1>3
<1>5. Need(WordsFor(s)) \in {words(t, p) : t \in T, p \in {0, Padding}}
  BY <1>4
<1> QED  BY <1>5 DEF words, T, TheRequests

LEMMA RefuseMaps ==
  ASSUME NEW C, Carved(mem, C, held \cup lost, PADDING_SIZE, damage, debug),
         NEW n \in Nat \ {0}, AllocRefused(C, n), PADDING_SIZE' = PADDING_SIZE,
         NEW need, need = Need(n)
  PROVE  Abstract!Refuse(need)
<1>1. \A lo \in Abstract!Starts, hi \in Abstract!Ends : ~Abstract!Fits(lo, hi, need)
  <2> SUFFICES ASSUME NEW lo, NEW hi, InStore(lo, hi, Need(n)) PROVE FALSE
    BY DEF InStore
  <2>1. \E p \in C : lo = GapOf(p) /\ hi = p.end /\ Fit(p.at, n)
    BY FitsAreFits
  <2> QED  BY <2>1 DEF AllocRefused
<1>2. last' = [need |-> need, at |-> -1] /\ mem' = mem /\ held' = held /\ lost' = lost
  BY DEF AllocRefused, NULL
<1> QED  BY <1>1, <1>2 DEF Abstract!Refuse, Abstract!NONE

LEMMA AllocMaps ==
  ASSUME NEW C, Carved(mem, C, held \cup lost, PADDING_SIZE, damage, debug),
         NEW n \in Nat \ {0}, NEW t, AllocDone(C, n, t), PADDING_SIZE' = PADDING_SIZE,
         NEW need, need = Need(n)
  PROVE  Abstract!Alloc(need)
<1> DEFINE B == held \cup lost
           b == BlockTaken(t, n)
<1>1. PADDING_SIZE \in Nat /\ Heap(mem, C, PiecesOf(B, PADDING_SIZE)) /\ B \subseteq Block /\ Merged(C)
  BY DEF Carved, Carving
<1>2. /\ mem' = AfterTaken(t, n) /\ held' \cup lost' = B \cup {b}
      /\ last' = [need |-> Need(n), at |-> t.ptr - PADDING_SIZE - HEADER]
      /\ Len(AfterTaken(t, n)) = Len(mem)
  BY DEF AllocDone, IsTaken
<1>3. PICK p \in C : /\ Fit(p.at, n) /\ ~NoRoom(p.at, n)
                     /\ \A q \in C : q.at < p.at => ~Fit(q.at, n)
                     /\ t.ptr - PADDING_SIZE - 2 = p.end - Need(n)
  BY DEF AllocDone, IsTaken
<1> DEFINE lo == GapOf(p)
           hi == p.end
<1>4. InStore(lo, hi, Need(n))
  BY <1>3, FitsAreFits
<1>5. ASSUME NEW l, NEW h, InStore(l, h, Need(n)) PROVE lo <= l
  <2>1. PICK q \in C : l = GapOf(q) /\ Fit(q.at, n)
    BY <1>5, FitsAreFits
  <2>2. p.at \in Nat /\ q.at \in Nat
    BY <1>1, ChunkFacts
  <2>3. ~(q.at < p.at)
    BY <1>3, <2>1
  <2>4. Settled(mem, C, PiecesOf(B, PADDING_SIZE))
    BY <1>1 DEF Settled, Heap, Tiling
  <2>5. q.at # 0 => q.at > 2 /\ GapOf(q) = q.at
    BY <2>4, ChunksBegin
  <2> QED  BY <2>1, <2>2, <2>3, <2>5 DEF GapOf
<1> DEFINE new == [at |-> hi - need, len |-> need]
<1>6. BlockOf(b) = new
  BY <1>3 DEF BlockOf, BlockTaken, Need, HEADER
<1>7. last' = [need |-> need, at |-> hi - need]
  BY <1>2, <1>3 DEF HEADER
<1> HIDE DEF b, lo, hi, new
<1>8. TheBlocks' = TheBlocks \cup {new}
  <2>1. TheBlocks' = {BlockOf(c) : c \in B \cup {b}}
    BY <1>2, SameBlocks
  <2> QED  BY <1>6, <2>1 DEF TheBlocks
<1>9. Len(mem') = Len(mem)
  BY <1>2
<1>10. /\ lo \in Abstract!Starts /\ hi \in Abstract!Ends
       /\ Abstract!Fits(lo, hi, need)
       /\ \A l \in Abstract!Starts, h \in Abstract!Ends : Abstract!Fits(l, h, need) => lo <= l
  BY <1>4, <1>5 DEF InStore
<1>11. Abstract!Alloc(need)
        <=> /\ \E l \in Abstract!Starts, h \in Abstract!Ends :
                 /\ Abstract!Fits(l, h, need)
                 /\ \A l2 \in Abstract!Starts, h2 \in Abstract!Ends :
                      Abstract!Fits(l2, h2, need) => l <= l2
                 /\ TheBlocks' = TheBlocks \cup {[at |-> h - need, len |-> need]}
                 /\ last' = [need |-> need, at |-> h - need]
            /\ UNCHANGED Len(mem)
  BY DEF Abstract!Alloc, TheBlocks, BlockOf
<1> QED  BY <1>7, <1>8, <1>9, <1>10, <1>11 DEF new

LEMMA FreshLength ==
  ASSUME NEW words \in Nat, NEW isdebug \in BOOLEAN
  PROVE  Len(Fresh(words, isdebug)) = words + 2
<1> DEFINE v == IF isdebug THEN FREE_PATTERN ELSE 0
           zeros == [i \in 1..(words + 2) |-> 0]
           one == Fill(zeros, 2, words + 2, v)
           two == Put(one, 0, -1)
<1>1. zeros \in Seq(Int) /\ Len(zeros) = words + 2 /\ v \in Int /\ words + 2 \in Nat
  BY DEF FREE_PATTERN
<1>2. Fresh(words, isdebug) = Put(two, 1, words)
  BY DEF Fresh, HEADER
<1> HIDE DEF v, zeros
<1>3. one \in Seq(Int) /\ Len(one) = words + 2
  BY <1>1, FillWords
<1> HIDE DEF one
<1>4. two \in Seq(Int) /\ Len(two) = words + 2
  BY <1>3, PutWord
<1> HIDE DEF two
<1>5. Len(Put(two, 1, words)) = words + 2
  BY <1>4, PutWord
<1> QED  BY <1>2, <1>5

LEMMA StrayPuts ==
  ASSUME StrayWrite PROVE \E a : mem' = Put(mem, a, 0)
BY DEF StrayWrite

LEMMA PaddingIsNat ==
  ASSUME MemAssumption, MemInv PROVE PADDING_SIZE \in Nat
BY DEF MemAssumption, MemInv, Rest

LEMMA BlockOfIsOne ==
  ASSUME PADDING_SIZE \in Nat, NEW b \in Block, NEW c \in Block, BlockOf(b) = BlockOf(c)
  PROVE  b = c
<1>1. /\ b.ptr - PADDING_SIZE - 2 = c.ptr - PADDING_SIZE - 2
      /\ b.size + 2 * PADDING_SIZE + 2 = c.size + 2 * PADDING_SIZE + 2
  BY DEF BlockOf, HEADER
<1>2. b.ptr = c.ptr /\ b.size = c.size
  BY <1>1, BlockFields
<1> QED  BY <1>2, BlockFields

LEMMA FreeMaps ==
  ASSUME held \cup lost \subseteq Block, PADDING_SIZE \in Nat, PADDING_SIZE' = PADDING_SIZE,
         NEW b \in held, FreeDone(b), held' \cup lost' = (held \cup lost) \ {b}
  PROVE  \E k \in TheBlocks : Abstract!Release(k)
<1> DEFINE B == held \cup lost
<1>1. TheBlocks' = {BlockOf(c) : c \in B \ {b}}
  BY SameBlocks
<1>2. \A c \in B : BlockOf(c) = BlockOf(b) => c = b
  BY BlockOfIsOne
<1>3. TheBlocks = {BlockOf(c) : c \in B} /\ b \in B
  BY DEF TheBlocks
<1> HIDE DEF B
<1>4. TheBlocks' = TheBlocks \ {BlockOf(b)} /\ BlockOf(b) \in TheBlocks
  BY <1>1, <1>2, <1>3
<1>5. last' = [need |-> 0, at |-> -1] /\ Len(mem') = Len(mem)
  BY DEF FreeDone, NULL
<1>6. PICK k : k = BlockOf(b)
  OBVIOUS
<1>7. Abstract!Release(k)
        <=> /\ k \in TheBlocks /\ TheBlocks' = TheBlocks \ {k}
            /\ last' = Abstract!NoRequest /\ UNCHANGED Len(mem)
  BY DEF Abstract!Release, TheBlocks, BlockOf
<1> QED  BY <1>4, <1>5, <1>6, <1>7 DEF Abstract!NoRequest, Abstract!NONE

LEMMA InitMaps ==
  ASSUME MemAssumption, MemInv, Mem_Init
  PROVE  UNCHANGED Abstract!vars \/ \E n \in TheRegions : Abstract!Open(n)
<1>1. ptr_header = "NULL" /\ mem = <<>> /\ held \cup lost = {} /\ last' = last
  BY DEF Mem_Init, MemInv, ghosts
<1>2. held' \cup lost' = {}
  BY <1>1 DEF Mem_Init
<1>3. use \in Uses /\ use.sizeOfRegion \in Int /\ PADDING_SIZE = 0 /\ debug \in BOOLEAN
  BY <1>1 DEF MemInv, Rest, MemAssumption, debug
<1>4. TheBlocks = {} /\ TheBlocks' = {}
  BY <1>1, <1>2 DEF TheBlocks, BlockOf
<1>5. CASE use.sizeOfRegion > 0 /\ mem' = Fresh(use.sizeOfRegion \div 4, debug)
  <2>1. PICK words \in Nat : words = use.sizeOfRegion \div 4
    BY <1>3, <1>5
  <2>2. Len(mem') = words + 2
    BY <1>3, <1>5, <2>1, FreshLength
  <2>3. words + 2 \in TheRegions
    BY <1>3, <1>5, <2>1 DEF TheRegions, HEADER
  <2>4. Abstract!Open(words + 2)
          <=> /\ Len(mem) = 0 /\ Len(mem') = words + 2
              /\ TheBlocks' = TheBlocks /\ last' = last
    BY DEF Abstract!Open, TheBlocks, BlockOf
  <2>5. Abstract!Open(words + 2)
    BY <1>1, <1>4, <2>2, <2>4
  <2> QED  BY <2>3, <2>5
<1>6. CASE mem' = mem
  <2>1. UNCHANGED Abstract!vars <=> Len(mem') = Len(mem) /\ TheBlocks' = TheBlocks /\ last' = last
    BY DEF Abstract!vars, TheBlocks, BlockOf
  <2> QED  BY <1>1, <1>4, <1>6, <2>1
<1>7. use.sizeOfRegion > 0 \/ use.sizeOfRegion <= 0
  BY <1>3
<1> QED  BY <1>5, <1>6, <1>7 DEF Mem_Init

LEMMA StoreInit ==
  ASSUME Init PROVE Abstract!Init
BY DEF Init, Abstract!Init, Abstract!NoRequest, Abstract!NONE, NULL

LEMMA StoreNext ==
  Abstract!Next <=> \/ \E n \in TheRegions : Abstract!Open(n)
                    \/ \E need \in TheRequests : Abstract!Alloc(need) \/ Abstract!Refuse(need)
                    \/ \E b \in TheBlocks : Abstract!Release(b)
BY DEF Abstract!Next, TheRegions, TheRequests, TheBlocks, BlockOf

LEMMA StoreStep ==
  ASSUME MemAssumption, MemInv, [process = "up" /\ Next]_vars
  PROVE  [Abstract!Next]_(Abstract!vars)
<1>1. CASE Mem_Init
  BY <1>1, InitMaps, StoreNext
<1>2. ASSUME UNCHANGED <<region, mem, held, lost, last>> PROVE UNCHANGED Abstract!vars
  BY <1>2, StoreStutters DEF region
<1>3. CASE StrayWrite
  <2>1. PICK a : mem' = Put(mem, a, 0)
    BY <1>3, StrayPuts
  <2>2. Len(mem') = Len(mem)
    BY <2>1 DEF Put
  <2> QED  BY <1>3, <2>2, StoreStutters DEF StrayWrite, region
<1>4. ASSUME NEW s \in use.sizes, Mem_Alloc(s) PROVE Abstract!Next
  <2>1. PICK C : /\ Carved(mem, C, held \cup lost, PADDING_SIZE, damage, debug)
                 /\ AllocRefused(C, WordsFor(s)) \/ \E t : AllocDone(C, WordsFor(s), t)
    BY <1>4, AllocIs
  <2>2. s > 0 /\ PADDING_SIZE' = PADDING_SIZE
    BY <1>4 DEF Mem_Alloc, region
  <2>3. WordsFor(s) \in Nat \ {0}
    BY <2>2, WordsForIsSome DEF MemInv, Rest
  <2>4. PICK need \in TheRequests : need = Need(WordsFor(s))
    BY <2>2, NeedIsRequest
  <2>5. Abstract!Alloc(need) \/ Abstract!Refuse(need)
    BY <2>1, <2>2, <2>3, <2>4, RefuseMaps, AllocMaps
  <2> QED  BY <2>4, <2>5, StoreNext
<1>5. ASSUME NEW b \in held, Mem_Free(b) PROVE [Abstract!Next]_(Abstract!vars)
  <2>1. UNCHANGED <<region, lost>>
    BY <1>5 DEF Mem_Free
  <2>2. CASE UNCHANGED <<mem, held, ghosts>>
    BY <1>2, <2>1, <2>2 DEF ghosts
  <2>3. CASE FreeDone(b)
    <3>1. PADDING_SIZE' = PADDING_SIZE /\ PADDING_SIZE \in Nat
      BY <2>1, PaddingIsNat DEF region
    <3>2. held' \cup lost' = (held \cup lost) \ {b}
      BY <2>1, <2>3 DEF FreeDone, MemInv, Rest
    <3>3. PICK k \in TheBlocks : Abstract!Release(k)
      BY <2>3, <3>1, <3>2, FreeMaps DEF MemInv, Rest
    <3> QED  BY <3>3, StoreNext
  <2> QED  BY <1>5, <2>2, <2>3, FreeIs
<1>6. CASE InitAgain \/ FreeRefuses
  BY <1>2, <1>6 DEF InitAgain, FreeRefuses, ghosts
<1>7. ASSUME NEW s \in use.sizes, AllocRefuses(s) \/ AllocCrashes(s) PROVE UNCHANGED Abstract!vars
  BY <1>2, <1>7 DEF AllocRefuses, AllocCrashes, ghosts
<1>9. ASSUME NEW s \in use.sizes, Overlap(s) PROVE UNCHANGED Abstract!vars
  <2>1. UNCHANGED <<region, held, lost, last>> /\ Len(mem') = Len(mem)
    BY <1>9, OverlapIs DEF Overlap, ghosts, Wrecked
  <2> QED  BY <2>1, StoreStutters DEF region
<1>8. CASE UNCHANGED vars
  BY <1>2, <1>8 DEF vars, ghosts
<1> QED  BY <1>1, <1>3, <1>4, <1>5, <1>6, <1>7, <1>8, <1>9 DEF Next

\* For regions and requests of any size, what the words of the region come to
\* is BlockStore: the first gap with room, and no refusal while there is one.
THEOREM ImplementsBlockStoreHolds == Spec => ImplementsBlockStore
<1>1. Init => Abstract!Init
  BY StoreInit
<1>2. MemInv /\ [process = "up" /\ Next]_vars => [Abstract!Next]_(Abstract!vars)
  BY MemAssumption, StoreStep
<1>3. process = "astray" /\ [process = "up" /\ Next]_vars => [Abstract!Next]_(Abstract!vars)
  <2> SUFFICES ASSUME UNCHANGED vars PROVE UNCHANGED Abstract!vars
    OBVIOUS
  <2> QED  BY StoreStutters DEF vars, region, ghosts
<1>4. StateInv /\ [process = "up" /\ Next]_vars => [Abstract!Next]_(Abstract!vars)
  BY <1>2, <1>3 DEF StateInv
<1> QED  BY <1>1, <1>4, RegionCarved, PTL DEF Spec, ImplementsBlockStore, Abstract!Spec

-----------------------------------------------------------------------------
(* What BlockStore is for: its blocks are apart.                           *)

\* One interval ends before the other begins.
Clear(b, c) == b.at + b.len <= c.at \/ c.at + c.len <= b.at

Inside(b) == HEADER <= b.at /\ b.at + b.len <= Len(mem)

StoreInv ==
  /\ Len(mem) \in Nat
  /\ TheBlocks \subseteq [at : Nat, len : Nat \ {0}]
  /\ \A b \in TheBlocks : Inside(b)
  /\ \A b, c \in TheBlocks : b # c => Clear(b, c)

LEMMA StoreConstants ==
  /\ \A n \in TheRegions : n \in Nat /\ n >= HEADER
  /\ \A need \in TheRequests : need \in Nat \ {0}
BY UsesAssumption DEF Abstract!StoreAssumption, TheRegions, TheRequests

\* The place in the code is the end of the chunk that Mem_Alloc found: what it
\* cuts off there lies in the gap and above the first header.
LEMMA CutAtTheEnd ==
  ASSUME StoreInv, NEW need \in TheRequests,
         NEW lo \in Abstract!Starts, NEW hi \in Abstract!Ends, Abstract!Fits(lo, hi, need)
  PROVE  /\ [at |-> hi - need, len |-> need] \in [at : Nat, len : Nat \ {0}]
         /\ HEADER <= hi - need /\ hi <= Len(mem)
         /\ \A b \in TheBlocks : b.at + b.len <= hi - need \/ hi <= b.at
<1>1. need \in Nat \ {0} /\ HEADER \in Nat \ {0}
  BY StoreConstants DEF HEADER
<1>2. lo \in Nat /\ HEADER <= lo
  <2>1. CASE lo = HEADER
    BY <1>1, <2>1
  <2>2. ASSUME NEW b \in TheBlocks, lo = b.at + b.len PROVE lo \in Nat /\ HEADER <= lo
    BY <1>1, <2>2 DEF StoreInv, Inside
  <2> QED  BY <2>1, <2>2 DEF Abstract!Starts, TheBlocks, BlockOf
<1>3. hi \in Nat /\ hi <= Len(mem)
  <2>1. CASE hi = Len(mem)
    BY <2>1 DEF StoreInv
  <2>2. ASSUME NEW b \in TheBlocks, hi = b.at PROVE hi \in Nat /\ hi <= Len(mem)
    BY <2>2 DEF StoreInv, Inside
  <2> QED  BY <2>1, <2>2 DEF Abstract!Ends, TheBlocks, BlockOf
<1>4. hi - lo >= need
  BY <1>1, <1>2, <1>3 DEF Abstract!Fits, Abstract!HasRoom
<1>5. \A b \in TheBlocks : b.at + b.len <= lo \/ hi <= b.at
  BY DEF Abstract!Fits, Abstract!Gap, TheBlocks, BlockOf
<1>6. ASSUME NEW b \in TheBlocks PROVE b.at + b.len <= hi - need \/ hi <= b.at
  <2>1. b.at \in Nat /\ b.len \in Nat
    BY DEF StoreInv
  <2> QED  BY <1>1, <1>2, <1>3, <1>4, <1>5, <2>1
<1> QED  BY <1>1, <1>2, <1>3, <1>4, <1>6

LEMMA AllocKeepsApart ==
  ASSUME StoreInv, NEW need \in TheRequests, Abstract!Alloc(need)
  PROVE  StoreInv'
<1>1. PICK lo \in Abstract!Starts, hi \in Abstract!Ends :
        /\ Abstract!Fits(lo, hi, need)
        /\ TheBlocks' = TheBlocks \cup {[at |-> hi - need, len |-> need]}
  BY DEF Abstract!Alloc, TheBlocks, BlockOf
<1> DEFINE new == [at |-> hi - need, len |-> need]
<1>2. /\ new \in [at : Nat, len : Nat \ {0}]
      /\ HEADER <= hi - need /\ hi <= Len(mem)
      /\ \A b \in TheBlocks : b.at + b.len <= hi - need \/ hi <= b.at
  BY <1>1, CutAtTheEnd
<1>3. /\ new.at = hi - need /\ new.at + new.len = hi
      /\ new.at \in Nat /\ new.len \in Nat
  <2>1. hi - need \in Nat /\ need \in Nat
    BY <1>2
  <2>2. hi \in Int
    <3>1. hi = Len(mem) \/ \E b \in TheBlocks : hi = b.at
      BY DEF Abstract!Ends, TheBlocks, BlockOf
    <3> QED  BY <3>1 DEF StoreInv
  <2> QED  BY <2>1, <2>2
<1>4. Len(mem') = Len(mem)
  BY DEF Abstract!Alloc
<1> HIDE DEF new
<1>5. TheBlocks' \subseteq [at : Nat, len : Nat \ {0}] /\ Len(mem') \in Nat
  BY <1>1, <1>2, <1>4 DEF StoreInv, new
<1>6. \A b \in TheBlocks' : HEADER <= b.at /\ b.at + b.len <= Len(mem')
  BY <1>1, <1>2, <1>3, <1>4 DEF StoreInv, Inside, new
<1>7. \A b \in TheBlocks : Clear(b, new) /\ Clear(new, b)
  BY <1>2, <1>3 DEF Clear
<1>8. \A b, c \in TheBlocks' : b # c => Clear(b, c)
  BY <1>1, <1>7 DEF StoreInv, new
<1> QED  BY <1>5, <1>6, <1>8 DEF StoreInv, Inside, Clear

\* BlockStore never gives out a word twice, whatever is asked for and freed.
LEMMA StoreKeepsApart ==
  Abstract!Spec => []Abstract!BlocksApart
<1>1. Abstract!Init => StoreInv
  BY DEF Abstract!Init, StoreInv, TheBlocks, BlockOf
<1>2. StoreInv /\ [Abstract!Next]_(Abstract!vars) => StoreInv'
  <2> SUFFICES ASSUME StoreInv, [Abstract!Next]_(Abstract!vars) PROVE StoreInv'
    OBVIOUS
  <2>1. ASSUME NEW n \in TheRegions, Abstract!Open(n) PROVE StoreInv'
    <3>1. Len(mem) = 0 /\ Len(mem') = n /\ TheBlocks' = TheBlocks
      BY <2>1 DEF Abstract!Open, TheBlocks, BlockOf
    <3>2. TheBlocks = {}
      BY <3>1 DEF StoreInv, Inside, HEADER
    <3> QED  BY <3>1, <3>2, StoreConstants DEF StoreInv
  <2>2. ASSUME NEW need \in TheRequests, Abstract!Alloc(need) PROVE StoreInv'
    BY <2>2, AllocKeepsApart
  <2>3. ASSUME Len(mem') = Len(mem), TheBlocks' \subseteq TheBlocks PROVE StoreInv'
    BY <2>3 DEF StoreInv, Inside, Clear
  <2>4. ASSUME NEW need \in TheRequests, Abstract!Refuse(need) PROVE StoreInv'
    BY <2>3, <2>4 DEF Abstract!Refuse, TheBlocks, BlockOf
  <2>5. ASSUME NEW b \in TheBlocks, Abstract!Release(b) PROVE StoreInv'
    BY <2>3, <2>5 DEF Abstract!Release, TheBlocks, BlockOf
  <2>6. CASE UNCHANGED Abstract!vars
    BY <2>3, <2>6 DEF Abstract!vars, TheBlocks, BlockOf
  <2> QED  BY <2>1, <2>2, <2>4, <2>5, <2>6, StoreNext
<1>3. StoreInv => Abstract!BlocksApart
  <2> SUFFICES ASSUME StoreInv PROVE Abstract!BlocksApart
    OBVIOUS
  <2>1. ASSUME NEW b \in TheBlocks
        PROVE  Abstract!Words(b) # {} /\ Abstract!Words(b) \subseteq HEADER .. (Len(mem) - 1)
    <3>1. b.at \in Nat /\ b.len \in Nat \ {0} /\ HEADER <= b.at /\ b.at + b.len <= Len(mem)
      BY DEF StoreInv, Inside
    <3>2. b.at \in Abstract!Words(b)
      BY <3>1 DEF Abstract!Words
    <3> QED  BY <3>1, <3>2 DEF Abstract!Words, StoreInv, HEADER
  <2>2. ASSUME NEW b \in TheBlocks, NEW c \in TheBlocks, b # c
        PROVE  Abstract!Words(b) \cap Abstract!Words(c) = {}
    <3>1. b.at \in Nat /\ b.len \in Nat /\ c.at \in Nat /\ c.len \in Nat
      BY DEF StoreInv
    <3>2. b.at + b.len <= c.at \/ c.at + c.len <= b.at
      BY <2>2 DEF StoreInv, Clear
    <3> QED  BY <3>1, <3>2 DEF Abstract!Words
  <2> QED  BY <2>1, <2>2 DEF Abstract!BlocksApart, TheBlocks, BlockOf
<1> QED  BY <1>1, <1>2, <1>3, PTL DEF Abstract!Spec

\* Mem_Alloc never gives out a word twice (p3/mem.c 76-165): the blocks that
\* clients have, with their headers and paddings, share no word, leave the
\* region nowhere and spare its first header.
THEOREM BlocksApartHold == Spec => []Abstract!BlocksApart
<1>1. Spec => Abstract!Spec
  BY ImplementsBlockStoreHolds DEF ImplementsBlockStore
<1> QED  BY <1>1, StoreKeepsApart

=============================================================================
