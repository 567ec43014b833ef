------------------------------- MODULE MCMem -------------------------------
EXTENDS Mem

\* A region that is refused; sizes of every kind, of which some go astray; four
\* blocks of one size that fill the region, so that a chunk in the middle is used
\* up whole; and debug mode, in which a block may meet a chunk that fits exactly.
AnyUses ==
  {[sizeOfRegion |-> 0, debug |-> FALSE, sizes |-> {8}, live |-> 0],
   [sizeOfRegion |-> 36, debug |-> FALSE, sizes |-> {0, 4, 9}, live |-> 3],
   [sizeOfRegion |-> 48, debug |-> FALSE, sizes |-> {0, 8, 11}, live |-> 3],
   [sizeOfRegion |-> 64, debug |-> FALSE, sizes |-> {8}, live |-> 4],
   [sizeOfRegion |-> 60, debug |-> TRUE, sizes |-> {8, 11}, live |-> 2],
   [sizeOfRegion |-> 84, debug |-> TRUE, sizes |-> {8}, live |-> 3]}
=============================================================================
