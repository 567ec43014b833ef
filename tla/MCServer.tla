------------------------------ MODULE MCServer ------------------------------
EXTENDS Server

StaticOnly == {[ok |-> TRUE, is_static |-> TRUE, st_size |-> 1]}

\* A refused request is served as a CGI program if malloc left is_static = 0.
AnyKind == StaticOnly \cup {[ok |-> FALSE, is_static |-> FALSE, st_size |-> 0]}

\* Every worker started before the loop went on, or any of them did not.
EarlyStart == {[w \in Worker |-> w]}
AnyStart == {f \in [Worker -> Slot] : \A w \in Worker : f[w] >= w}

\* Bound: files under SFF-BS; under FIFO one refused request.
SomeKinds ==
  /\ \A r \in Range(request) : r.is_static <=> sched_alg_code = 2
  /\ sched_alg_code = 0 => accepted <= 1
=============================================================================
