---------------------------- MODULE MCHashTable ----------------------------
EXTENDS HashTable, TLC

\* Nothing in HashTable tells threads, addresses or elements apart.
Symmetry == Permutations(Thread) \cup Permutations(Addr) \cup Permutations(Element)
=============================================================================
