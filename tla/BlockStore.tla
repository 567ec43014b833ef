----------------------------- MODULE BlockStore -----------------------------
(***************************************************************************)
(* What the allocator of p3 promises: blocks are disjoint intervals of one *)
(* region, each cut from the end of the first gap with room for it, and a  *)
(* request is refused only when no gap has room.  The first Header words   *)
(* hold the header of the first free chunk, which is never given away; a   *)
(* gap elsewhere keeps room for a header of its own or is used up whole.   *)
(***************************************************************************)
EXTENDS Integers, FiniteSets

CONSTANTS
  Header,     \* words of a header
  Regions,    \* how many words a region may have
  Requests    \* how many a block may have

\* Mem assumes it of its own constants.
StoreAssumption ==
  /\ Header \in Nat \ {0}
  /\ Regions \subseteq Nat /\ \A n \in Regions : n >= Header
  /\ Requests \subseteq Nat \ {0}

VARIABLES
  size,      \* words of the region, its first header included; 0: none yet
  blocks,    \* the intervals in use: [at, len]
  last       \* the latest request, if nothing was freed since: [need, at],
             \* at = NONE if it was refused

vars == <<size, blocks, last>>

NONE == -1
NoRequest == [need |-> 0, at |-> NONE]

Words(b) == b.at .. (b.at + b.len - 1)

\* lo .. hi-1 is a gap: from the first header or the end of a block to the next
\* block or the end of the region.  The one behind the first header may be empty.
Starts == {Header} \cup {b.at + b.len : b \in blocks}
Ends   == {size} \cup {b.at : b \in blocks}
Gap(lo, hi) ==
  /\ lo < hi \/ (lo = hi /\ lo = Header)
  /\ \A b \in blocks : b.at + b.len <= lo \/ hi <= b.at

HasRoom(lo, hi, need) ==
  IF lo = Header THEN hi - lo >= need
                 ELSE hi - lo = need \/ hi - lo >= need + Header

Fits(lo, hi, need) == Gap(lo, hi) /\ HasRoom(lo, hi, need)

Init == size = 0 /\ blocks = {} /\ last = NoRequest

Open(n) == size = 0 /\ size' = n /\ UNCHANGED <<blocks, last>>

Alloc(need) ==
  /\ \E lo \in Starts, hi \in Ends :
       /\ Fits(lo, hi, need)
       /\ \A l \in Starts, h \in Ends : Fits(l, h, need) => lo <= l
       /\ blocks' = blocks \cup {[at |-> hi - need, len |-> need]}
       /\ last' = [need |-> need, at |-> hi - need]
  /\ UNCHANGED size

Refuse(need) ==
  /\ \A lo \in Starts, hi \in Ends : ~Fits(lo, hi, need)
  /\ last' = [need |-> need, at |-> NONE]
  /\ UNCHANGED <<size, blocks>>

Release(b) ==
  /\ b \in blocks
  /\ blocks' = blocks \ {b}
  /\ last' = NoRequest
  /\ UNCHANGED size

Next == \/ \E n \in Regions : Open(n)
        \/ \E need \in Requests : Alloc(need) \/ Refuse(need)
        \/ \E b \in blocks : Release(b)

Spec == Init /\ [][Next]_vars

\* No two blocks share a word, and none leaves the region or covers the first
\* header: what a client writes in its block is nobody else's.
BlocksApart ==
  /\ \A b \in blocks : Words(b) # {} /\ Words(b) \subseteq Header .. (size - 1)
  /\ \A b, c \in blocks : b # c => Words(b) \cap Words(c) = {}
=============================================================================
