-------------------------------- MODULE Mem --------------------------------
(***************************************************************************)
(* The allocator of p3/mem.c: one region, in which headers, patterns and   *)
(* the clients' data overlay each other.  Memory is an array of 4-byte     *)
(* words, and addresses are counted in words from ptr_header.  A free      *)
(* chunk c holds in word c the distance to the next one (-1: none), in     *)
(* word c + 1 the words behind its header; the header of a block holds its *)
(* size.  In debug mode free words and the paddings around a block carry   *)
(* patterns, which Mem_Alloc and Mem_Free check.                           *)
(*                                                                         *)
(* Definitions named "..._bug" are deviations a careless edit could make;  *)
(* each stands before the definition it would replace and is used nowhere. *)
(***************************************************************************)
EXTENDS Integers, FiniteSets, SequencesExt

CONSTANTS
  Uses,       \* how clients use the library: [sizeOfRegion : Int (bytes, a
              \* multiple of 4), debug : BOOLEAN, sizes : the sizes, in bytes,
              \* that are asked for, live : how many blocks are out at most]
  Padding,    \* words of one padding in debug mode (16 in the code)
  MaxDamage   \* bound: stray writes of the client, ever

HEADER == 2                       \* HEADER_FREE_SIZE and HEADER_ALLOCATED_SIZE
FREE_PATTERN == -559038737        \* 0xDEADBEEF, as an int
PADDING_PATTERN == -1412571974    \* 0xABCDDCBA
NULL == -1

ASSUME MemAssumption ==
  /\ Uses \subseteq [sizeOfRegion : Int, debug : BOOLEAN, sizes : SUBSET Int, live : Nat]
  /\ Padding \in Nat /\ MaxDamage \in Nat

VARIABLES
  ptr_header,     \* "NULL", "MAP_FAILED" or "mapped", which is address 0
  use,            \* the arguments of Mem_Init
  mem,            \* the words of the region
  PADDING_SIZE,   \* in words
  m_error,        \* set by a call that fails, never reset
  held,           \* what the client has: [ptr : Nat, size : Nat], in words
  lost,           \* the same, of blocks cut out by a call that returned NULL
  last,           \* history: the latest request, as in BlockStore
  damage,         \* history: words of the region the client wrote by mistake
  process         \* "up", "segv", or "astray": see Overlap

region == <<ptr_header, use, PADDING_SIZE>>
ghosts == <<last, damage>>
vars == <<region, mem, m_error, held, lost, ghosts, process>>

debug == use.debug
total_size == Len(mem)   \* mem is numbered from 0, see Word

\* Memory as a sequence, so that words are numbered from 0 here.
At(m, a) == m[a + 1]
Put(m, a, v) == [m EXCEPT ![a + 1] = v]
Fill(m, from, to, v) == [i \in DOMAIN m |-> IF i - 1 \in from..(to - 1) THEN v ELSE m[i]]
Whole(m, from, to, v) == \A a \in from..(to - 1) : At(m, a) = v

next_of(m, c) == At(m, c)
size_of(m, c) == At(m, c + 1)

\* Where the walk along the list goes from c.
NextOf(m, c) == IF c = NULL \/ next_of(m, c) = -1 THEN NULL ELSE c + next_of(m, c)

\* The free chunks in the order of the list; there are no more than words.
Walk(m) ==
  LET nth[n \in 0..Len(m)] == IF n = 0 THEN 0 ELSE NextOf(m, nth[n - 1])
  IN  nth

FreeList(m) ==
  LET length == Cardinality({n \in 0..Len(m) : Walk(m)[n] # NULL})
  IN  [i \in 1..length |-> Walk(m)[i - 1]]

-----------------------------------------------------------------------------
Init ==
  /\ ptr_header = "NULL" /\ use \in Uses /\ PADDING_SIZE = 0
  /\ mem = <<>> /\ m_error = "none" /\ held = {} /\ lost = {}
  /\ last = [need |-> 0, at |-> NULL] /\ damage = {} /\ process = "up"

\* The words of /dev/zero, then the first header and in debug mode the pattern.
Fresh(words, isdebug) ==
  Put(Put(Fill([i \in 1..(words + HEADER) |-> 0], HEADER, words + HEADER,
               IF isdebug THEN FREE_PATTERN ELSE 0),
          0, -1), 1, words)

PaddingFor_bug(isdebug) == Padding
PaddingFor(isdebug) == IF isdebug THEN Padding ELSE 0

Mem_Init ==
  /\ ptr_header = "NULL"
  /\ IF use.sizeOfRegion <= 0
     THEN /\ m_error' = "E_BAD_ARGS"
          /\ UNCHANGED <<ptr_header, mem, PADDING_SIZE>>
     ELSE \/ /\ ptr_header' = "mapped"
             /\ mem' = Fresh(use.sizeOfRegion \div 4, debug)
             /\ PADDING_SIZE' = PaddingFor(use.debug)
             /\ UNCHANGED m_error
          \/ /\ ptr_header' = "MAP_FAILED"     \* mmap fails
             /\ m_error' = "E_BAD_ARGS"
             /\ UNCHANGED <<mem, PADDING_SIZE>>
  /\ UNCHANGED <<use, held, lost, ghosts, process>>

\* Mem_Init after Mem_Init, also after one that failed in mmap.
InitAgain ==
  /\ ptr_header # "NULL" /\ m_error' = "E_BAD_ARGS"
  /\ UNCHANGED <<region, mem, held, lost, ghosts, process>>

-----------------------------------------------------------------------------
(* Mem_Alloc.                                                              *)

WordsFor(bytes) == (bytes - 1) \div 4 + 1
Need(n) == n + 2 * PADDING_SIZE + HEADER

HasMore_bug(c, n) == size_of(mem, c) > Need(n)    \* forgets that the header is there too
HasMore(c, n) == size_of(mem, c) + HEADER > Need(n)
HasExactly(c, n) == c # 0 /\ size_of(mem, c) + HEADER = Need(n)

\* Of the chunk the search stops at: see Overlap.
NoRoom(c, n) ==
  \/ HasMore(c, n) /\ size_of(mem, c) < Need(n)
  \/ debug /\ HasExactly(c, n)

\* The chunk the search stops at, and the one before it in the list.
FirstFit(n) ==
  LET list == FreeList(mem)
      i    == SelectInSeq(list, LAMBDA c : HasMore(c, n) \/ HasExactly(c, n))
  IN  IF i = 0 THEN [chunk |-> NULL, prev |-> NULL]
      ELSE [chunk |-> list[i], prev |-> IF i = 1 THEN NULL ELSE list[i - 1]]

\* The block is cut from the end of the chunk.  The size of the chunk is read
\* again for the returned pointer, after the block's header was written.
CutFrom(c, n) ==
  LET less == Put(mem, c + 1, size_of(mem, c) - Need(n))
      cut  == Put(less, c + HEADER + size_of(less, c), n)
  IN  [mem |-> cut, ptr |-> c + HEADER + size_of(cut, c) + HEADER + PADDING_SIZE]

\* The chunk is used up and leaves the list.
TakeWhole(c, prev, n) ==
  [mem |-> Put(Put(mem, prev, IF next_of(mem, c) = -1 THEN -1
                              ELSE next_of(mem, prev) + next_of(mem, c)), c, n),
   ptr |-> c + HEADER]

SetPaddings_bug(m, ptr, n) ==      \* the one behind the block begins late
  Fill(Fill(m, ptr - PADDING_SIZE, ptr, PADDING_PATTERN),
       ptr + n + 1, ptr + n + PADDING_SIZE, PADDING_PATTERN)

SetPaddings(m, ptr, n) ==
  Fill(Fill(m, ptr - PADDING_SIZE, ptr, PADDING_PATTERN),
       ptr + n, ptr + n + PADDING_SIZE, PADDING_PATTERN)

FreeSpaceIntact(m) ==
  \A c \in Range(FreeList(m)) :
    Whole(m, c + HEADER, c + HEADER + size_of(m, c), FREE_PATTERN)

Mem_Alloc(bytes) ==
  /\ ptr_header = "mapped" /\ bytes > 0
  /\ Cardinality(held \cup lost) < use.live
  /\ LET n     == WordsFor(bytes)
         f     == FirstFit(n)
         taken == IF HasMore(f.chunk, n) THEN CutFrom(f.chunk, n)
                  ELSE TakeWhole(f.chunk, f.prev, n)
         after == IF debug THEN SetPaddings(taken.mem, taken.ptr, n) ELSE taken.mem
         block == [ptr |-> taken.ptr, size |-> n]
     IN  IF f.chunk = NULL
         THEN /\ m_error' = "E_NO_SPACE" /\ last' = [need |-> Need(n), at |-> NULL]
              /\ UNCHANGED <<mem, held, lost>>
         ELSE /\ ~NoRoom(f.chunk, n)
              /\ mem' = after
              /\ last' = [need |-> Need(n), at |-> taken.ptr - PADDING_SIZE - HEADER]
              /\ IF ~debug \/ FreeSpaceIntact(after)
                 THEN held' = held \cup {block} /\ UNCHANGED <<lost, m_error>>
                 ELSE /\ lost' = lost \cup {block} /\ m_error' = "E_CORRUPT_FREESPACE"
                      /\ UNCHANGED held
  /\ UNCHANGED <<region, damage, process>>

\* The same call where the chunk has no room for what is cut from it.  A chunk
\* 4 bytes larger than the block passes the first test although its own header
\* does not fit: the header of the block is written over it.  A chunk that debug
\* mode takes whole yields a pointer behind the header, and the padding in front
\* of the block is written over what lies before the chunk.  From there on
\* headers, patterns and data overlay each other, and the model ends.
Overlap(bytes) ==
  /\ ptr_header = "mapped" /\ bytes > 0
  /\ Cardinality(held \cup lost) < use.live
  /\ LET n == WordsFor(bytes)
         f == FirstFit(n)
     IN  /\ f.chunk # NULL /\ NoRoom(f.chunk, n)
         /\ mem' = IF HasMore(f.chunk, n) THEN CutFrom(f.chunk, n).mem
                   ELSE TakeWhole(f.chunk, f.prev, n).mem
  /\ process' = "astray"
  /\ UNCHANGED <<region, m_error, held, lost, ghosts>>

\* size <= 0 returns NULL; without a region so does every size.
AllocRefuses(bytes) ==
  /\ ptr_header = "NULL" \/ (ptr_header = "mapped" /\ bytes <= 0)
  /\ m_error' = IF ptr_header = "NULL" THEN "E_NO_SPACE" ELSE m_error
  /\ UNCHANGED <<region, mem, held, lost, ghosts, process>>

\* MAP_FAILED is not NULL: the search reads through it.
AllocCrashes(bytes) ==
  /\ ptr_header = "MAP_FAILED" /\ bytes > 0 /\ process' = "segv"
  /\ UNCHANGED <<region, mem, m_error, held, lost, ghosts>>

-----------------------------------------------------------------------------
(* Mem_Free, of a pointer Mem_Alloc returned.                              *)

PaddingIntact(ptr, n) ==
  /\ Whole(mem, ptr - PADDING_SIZE, ptr, PADDING_PATTERN)
  /\ Whole(mem, ptr + n, ptr + n + PADDING_SIZE, PADDING_PATTERN)

\* The chunk in front of the freed block and the one behind, NULL if none.
Neighbours(new) ==
  LET list == FreeList(mem)
      i    == SelectInSeq(Tail(list), LAMBDA c : c > new)
  IN  IF i = 0 THEN [prev |-> Last(list), next |-> NULL]
      ELSE [prev |-> list[i], next |-> list[i + 1]]

Link(new, space, f) ==
  LET linked == Put(Put(mem, new, IF f.next = NULL THEN -1 ELSE f.next - new),
                    new + 1, space)
      filled == IF ~debug THEN linked
                ELSE Fill(linked, new + HEADER, new + HEADER + space, FREE_PATTERN)
  IN  Put(filled, f.prev, new - f.prev)

\* Chunk c swallows d, the next in the list, which begins where c ends.
Swallow(m, c, d) ==
  LET longer == Put(Put(m, c, IF next_of(m, d) = -1 THEN -1
                              ELSE next_of(m, c) + next_of(m, d)),
                    c + 1, size_of(m, c) + size_of(m, d) + HEADER)
  IN  IF debug THEN Fill(longer, d, d + HEADER, FREE_PATTERN) ELSE longer

Touch(m, c, d) == c + HEADER + size_of(m, c) = d

MergePrev_bug(m, new, f) ==    \* leaves the header of the swallowed chunk
  IF Touch(m, f.prev, new)
  THEN Put(Put(m, f.prev, IF next_of(m, new) = -1 THEN -1
                          ELSE next_of(m, f.prev) + next_of(m, new)),
           f.prev + 1, size_of(m, f.prev) + size_of(m, new) + HEADER)
  ELSE m

MergeNext_bug(m, new, f) == m  \* merges with the chunk in front only

MergeNext(m, new, f) ==
  IF f.next # NULL /\ Touch(m, new, f.next) THEN Swallow(m, new, f.next) ELSE m

MergePrev(m, new, f) ==
  IF Touch(m, f.prev, new) THEN Swallow(m, f.prev, new) ELSE m

Mem_Free(b) ==
  /\ b \in held /\ b.ptr < total_size
  /\ LET new == b.ptr - PADDING_SIZE - HEADER
         n   == At(mem, new)        \* allocated_size
         f   == Neighbours(new)
         space == n + 2 * PADDING_SIZE
     IN  \/ /\ n < 0 /\ m_error' = "E_BAD_POINTER"
            /\ UNCHANGED <<mem, held, ghosts>>
         \/ /\ n >= 0 /\ debug /\ ~PaddingIntact(b.ptr, n)
            /\ m_error' = "E_PADDING_OVERWRITTEN"
            /\ UNCHANGED <<mem, held, ghosts>>
         \/ /\ n >= 0 /\ (debug => PaddingIntact(b.ptr, n))
            /\ mem' = MergePrev(MergeNext(Link(new, space, f), new, f), new, f)
            /\ held' = held \ {b}
            /\ last' = [need |-> 0, at |-> NULL]
            /\ UNCHANGED <<m_error, damage>>
  /\ UNCHANGED <<region, lost, process>>

\* A pointer outside the region, or any without a region.  Free of NULL does
\* nothing.
FreeRefuses ==
  /\ m_error' = "E_BAD_POINTER"
  /\ UNCHANGED <<region, mem, held, lost, ghosts, process>>

-----------------------------------------------------------------------------
(* The client's mistakes, in debug mode: a word of a padding or of a free  *)
(* chunk is overwritten.                                                   *)

Extent(b) == (b.ptr - PADDING_SIZE - HEADER) .. (b.ptr + b.size + PADDING_SIZE - 1)
PaddingWords(b) ==
  ((b.ptr - PADDING_SIZE) .. (b.ptr + b.size + PADDING_SIZE - 1))
    \ (b.ptr .. (b.ptr + b.size - 1))
Chunk(c) == c .. (c + HEADER + size_of(mem, c) - 1)
FreeWords == UNION {Chunk(c) \ {c, c + 1} : c \in Range(FreeList(mem))}

StrayWrite ==
  /\ ptr_header = "mapped" /\ debug /\ Cardinality(damage) < MaxDamage
  /\ \E a \in FreeWords \cup UNION {PaddingWords(b) : b \in held} :
       mem' = Put(mem, a, 0) /\ damage' = damage \cup {a}
  /\ UNCHANGED <<region, m_error, held, lost, last, process>>

Next == \/ Mem_Init \/ InitAgain \/ FreeRefuses \/ StrayWrite
        \/ \E s \in use.sizes : \/ Mem_Alloc(s) \/ Overlap(s)
                                \/ AllocRefuses(s) \/ AllocCrashes(s)
        \/ \E b \in held : Mem_Free(b)

Spec == Init /\ [][process = "up" /\ Next]_vars

-----------------------------------------------------------------------------
TypeOK ==
  /\ ptr_header \in {"NULL", "MAP_FAILED", "mapped"} /\ use \in Uses
  /\ mem \in Seq(Int)
  /\ PADDING_SIZE = IF debug /\ ptr_header = "mapped" THEN Padding ELSE 0
  /\ held \cup lost \subseteq [ptr : Nat, size : Nat]
  /\ damage \subseteq Nat /\ process \in {"up", "segv", "astray"}

\* Unless a call cut a block out of a chunk without room for it (mem.c:100, 123),
\* headers, free words and blocks tile the region, without a word left over or
\* claimed twice, after any order of calls and for sizes of every kind; the list
\* is in address order and no two of its chunks touch.  So freeing everything
\* restores one chunk.
Tiled ==
  ptr_header = "mapped" /\ process # "astray" =>
    LET list  == FreeList(mem)
        parts == {Chunk(c) : c \in Range(list)} \cup {Extent(b) : b \in held \cup lost}
    IN  /\ \A i \in 1..(Len(list) - 1) :
             list[i] + HEADER + size_of(mem, list[i]) < list[i + 1]
        /\ UNION parts = 0..(total_size - 1)
        /\ \A p, q \in parts : p # q => p \cap q = {}

\* Debug mode tells damage from its absence: whatever the client did not write
\* still carries the pattern that Mem_Alloc and Mem_Free look for.
PatternsKept ==
  debug /\ ptr_header = "mapped" /\ process # "astray" =>
    /\ \A a \in FreeWords \ damage : At(mem, a) = FREE_PATTERN
    /\ \A b \in held : \A a \in PaddingWords(b) \ damage : At(mem, a) = PADDING_PATTERN

\* No call complains of damage, or loses a block over it, unless the client
\* did write where it must not.
NoFalseAlarm ==
  [][(\/ m_error' \in {"E_PADDING_OVERWRITTEN", "E_CORRUPT_FREESPACE"}
      \/ lost' # lost) => damage # {}]_vars

\* The allocator gives out blocks as BlockStore does, also when it loses one.
Abstract == INSTANCE BlockStore WITH
  Header <- HEADER,
  Regions <- {u.sizeOfRegion \div 4 + HEADER : u \in {v \in Uses : v.sizeOfRegion > 0}},
  Requests <- {(s - 1) \div 4 + 1 + 2 * p + HEADER :
                 s \in {t \in UNION {u.sizes : u \in Uses} : t > 0}, p \in {0, Padding}},
  size   <- Len(mem),
  blocks <- {[at |-> b.ptr - PADDING_SIZE - HEADER,
              len |-> b.size + 2 * PADDING_SIZE + HEADER] : b \in held \cup lost},
  last   <- last
ASSUME UsesAssumption == Abstract!StoreAssumption
ImplementsBlockStore == Abstract!Spec
=============================================================================
