---------------------------- MODULE MCSchedQueue ----------------------------
EXTENDS SchedQueue

\* A fresh node's st_size: memory malloc never used, or an old value that is
\* smaller or larger than every file.
GarbageSizes == {-1, 9}
=============================================================================
