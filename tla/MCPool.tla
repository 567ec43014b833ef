------------------------------- MODULE MCPool -------------------------------
EXTENDS Pool

\* A CGI program (static files: MCServer).
OneRequest == {[ok |-> TRUE, is_static |-> FALSE, st_size |-> 0]}

\* The local th_index before it is assigned: any value will do.
Unassigned == {[w \in Worker |-> w]}

\* Behind the arrays: a lock that looks free whoever is inside, odd statistics.
\* (One that looks taken only keeps the worker out, as if it never ran.)
SomeMemory == {[word |-> NULL, stat |-> [count |-> 1, static |-> 0, dynamic |-> 0]]}
=============================================================================
