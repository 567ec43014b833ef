----------------------------- MODULE HashTable -----------------------------
(***************************************************************************)
(* p4-final/handin/hash.c over list.c, built without -DPTH as p4/Makefile  *)
(* does: a table of linked lists, each with a spinlock.  Insertion         *)
(* allocates before it takes the lock, deletion frees after it gave the    *)
(* lock back, and malloc may return an address that was freed before or    *)
(* nothing at all.                                                         *)
(*                                                                         *)
(* Definitions named "..._bug" are deviations a careless edit could make;  *)
(* each stands before the definition it would replace and is used nowhere. *)
(***************************************************************************)
EXTENDS Integers, Sequences, FiniteSets

CONSTANTS
  Thread,
  size,        \* the number of buckets
  Key,
  Element,
  Addr,        \* bound: the addresses malloc may return
  MaxCalls,    \* bound: calls ever made
  NULL

ASSUME HashAssumption ==
  /\ size \in Nat \ {0} /\ Key \subseteq Nat /\ MaxCalls \in Nat
  /\ IsFiniteSet(Addr) /\ NULL \notin Addr \cup Element \cup Key

Bucket == 0..(size - 1)
Pointer == Addr \cup {NULL}
Op == {"insert", "delete", "lookup"}
Label == {"idle", "malloc", "acquire", "next", "link", "head", "walk", "release",
          "free", "return"}

VARIABLES
  head, flag,  \* of each bucket's list: its first node, its spinlock's flag
  heap,        \* heap[a]: the node last stored at a
  used,        \* the addresses malloc gave out and nobody freed
  pc,
  args,        \* args[t]: the call t is in: [op, key, element]
  curr_node,   \* curr_node[t]: for List_Insert its new_node
  prev_node,
  element,     \* element[t]: what List_Lookup found
  calls        \* calls made so far

vars == <<head, flag, heap, used, pc, args, curr_node, prev_node, element, calls>>

TypeOK ==
  /\ head \in [Bucket -> Pointer] /\ flag \in [Bucket -> {0, 1}]
  /\ heap \in [Addr -> [key : Key \cup {NULL}, element : Element \cup {NULL},
                        next : Pointer]]
  /\ used \subseteq Addr
  /\ pc \in [Thread -> Label]
  /\ args \in [Thread -> [op : Op \cup {"none"}, key : Key \cup {NULL},
                          element : Element \cup {NULL}]]
  /\ curr_node \in [Thread -> Pointer] /\ prev_node \in [Thread -> Pointer]
  /\ element \in [Thread -> Element \cup {NULL}]
  /\ calls \in 0..MaxCalls

NoCall == [op |-> "none", key |-> NULL, element |-> NULL]
HashOf(key) == key % size
hash_key(t) == HashOf(args[t].key)

Goto(t, from, to) == pc[t] = from /\ pc' = [pc EXCEPT ![t] = to]

-----------------------------------------------------------------------------

Init_bug ==         \* the lists are not initialised: heads hold what malloc left
  /\ head = [b \in Bucket |-> 0] /\ flag = [b \in Bucket |-> 0]
  /\ heap = [a \in Addr |-> [key |-> NULL, element |-> NULL, next |-> NULL]]
  /\ used = {}
  /\ pc = [t \in Thread |-> "idle"] /\ args = [t \in Thread |-> NoCall]
  /\ curr_node = [t \in Thread |-> NULL] /\ prev_node = [t \in Thread |-> NULL]
  /\ element = [t \in Thread |-> NULL]
  /\ calls = 0

Init ==
  /\ head = [b \in Bucket |-> NULL] /\ flag = [b \in Bucket |-> 0]
  /\ heap = [a \in Addr |-> [key |-> NULL, element |-> NULL, next |-> NULL]]
  /\ used = {}
  /\ pc = [t \in Thread |-> "idle"] /\ args = [t \in Thread |-> NoCall]
  /\ curr_node = [t \in Thread |-> NULL] /\ prev_node = [t \in Thread |-> NULL]
  /\ element = [t \in Thread |-> NULL]
  /\ calls = 0

\* Hash_Insert, Hash_Delete, Hash_Lookup
Call(t, o, k, e) ==
  /\ Goto(t, "idle", IF o = "insert" THEN "malloc" ELSE "acquire")
  /\ calls < MaxCalls
  /\ o = "insert" <=> e # NULL
  /\ args' = [args EXCEPT ![t] = [op |-> o, key |-> k, element |-> e]]
  /\ calls' = calls + 1
  /\ UNCHANGED <<head, flag, heap, used, curr_node, prev_node, element>>

\* new_node = malloc(...); the node is filled before it is linked.
Malloc(t, a) ==
  /\ Goto(t, "malloc", "acquire")
  /\ a \notin used
  /\ used' = used \cup {a}
  /\ heap' = [heap EXCEPT ![a].key = args[t].key, ![a].element = args[t].element]
  /\ curr_node' = [curr_node EXCEPT ![t] = a]
  /\ UNCHANGED <<head, flag, args, prev_node, element, calls>>

MallocFails(t) ==
  /\ Goto(t, "malloc", "return")
  /\ UNCHANGED <<head, flag, heap, used, args, curr_node, prev_node, element, calls>>

Acquire_bug(t) ==   \* readers take no lock
  /\ Goto(t, "acquire", IF args[t].op = "insert" THEN "next" ELSE "head")
  /\ args[t].op # "lookup" => flag[hash_key(t)] # 1
  /\ flag' = [flag EXCEPT ![hash_key(t)] = 1]
  /\ UNCHANGED <<head, heap, used, args, curr_node, prev_node, element, calls>>

Acquire(t) ==
  /\ Goto(t, "acquire", IF args[t].op = "insert" THEN "next" ELSE "head")
  /\ flag[hash_key(t)] # 1
  /\ flag' = [flag EXCEPT ![hash_key(t)] = 1]
  /\ UNCHANGED <<head, heap, used, args, curr_node, prev_node, element, calls>>

\* new_node->next = list->head
SetNext(t) ==
  /\ Goto(t, "next", "link")
  /\ heap' = [heap EXCEPT ![curr_node[t]].next = head[hash_key(t)]]
  /\ UNCHANGED <<head, flag, used, args, curr_node, prev_node, element, calls>>

\* list->head = new_node
Link(t) ==
  /\ Goto(t, "link", "release")
  /\ head' = [head EXCEPT ![hash_key(t)] = curr_node[t]]
  /\ UNCHANGED <<flag, heap, used, args, curr_node, prev_node, element, calls>>

\* curr_node = list->head
LoadHead(t) ==
  /\ Goto(t, "head", "walk")
  /\ curr_node' = [curr_node EXCEPT ![t] = head[hash_key(t)]]
  /\ UNCHANGED <<head, flag, heap, used, args, prev_node, element, calls>>

Here(t) == heap[curr_node[t]]
Matches(t) == curr_node[t] # NULL /\ Here(t).key = args[t].key

WalkOn(t) ==
  /\ Goto(t, "walk", "walk")
  /\ curr_node[t] # NULL /\ ~Matches(t)
  /\ prev_node' = IF args[t].op = "delete" THEN [prev_node EXCEPT ![t] = curr_node[t]]
                                            ELSE prev_node
  /\ curr_node' = [curr_node EXCEPT ![t] = Here(t).next]
  /\ UNCHANGED <<head, flag, heap, used, args, element, calls>>

WalkEnds(t) ==
  /\ Goto(t, "walk", "release")
  /\ curr_node[t] = NULL
  /\ UNCHANGED <<head, flag, heap, used, args, curr_node, prev_node, element, calls>>

Found(t) ==
  /\ Goto(t, "walk", "release")
  /\ args[t].op = "lookup" /\ Matches(t)
  /\ element' = [element EXCEPT ![t] = Here(t).element]
  /\ UNCHANGED <<head, flag, heap, used, args, curr_node, prev_node, calls>>

UnlinkHead(t) ==
  /\ Goto(t, "walk", "release")
  /\ args[t].op = "delete" /\ Matches(t)
  /\ head[hash_key(t)] = curr_node[t]
  /\ head' = [head EXCEPT ![hash_key(t)] = Here(t).next]
  /\ UNCHANGED <<flag, heap, used, args, curr_node, prev_node, element, calls>>

Unlink_bug(t) ==    \* unlinks the head instead of the node behind prev_node
  /\ Goto(t, "walk", "release")
  /\ args[t].op = "delete" /\ Matches(t)
  /\ head[hash_key(t)] # curr_node[t]
  /\ head' = [head EXCEPT ![hash_key(t)] = Here(t).next]
  /\ UNCHANGED <<flag, heap, used, args, curr_node, prev_node, element, calls>>

Unlink(t) ==
  /\ Goto(t, "walk", "release")
  /\ args[t].op = "delete" /\ Matches(t)
  /\ head[hash_key(t)] # curr_node[t]
  /\ heap' = [heap EXCEPT ![prev_node[t]].next = Here(t).next]
  /\ UNCHANGED <<head, flag, used, args, curr_node, prev_node, element, calls>>

Release(t) ==
  /\ Goto(t, "release", IF args[t].op = "delete" /\ curr_node[t] # NULL
                        THEN "free" ELSE "return")
  /\ flag' = [flag EXCEPT ![hash_key(t)] = 0]
  /\ UNCHANGED <<head, heap, used, args, curr_node, prev_node, element, calls>>

\* curr_node->next = NULL; free (curr_node)
Free(t) ==
  /\ Goto(t, "free", "return")
  /\ heap' = [heap EXCEPT ![curr_node[t]].next = NULL]
  /\ used' = used \ {curr_node[t]}
  /\ UNCHANGED <<head, flag, args, curr_node, prev_node, element, calls>>

\* return; the locals are gone.
Return(t) ==
  /\ Goto(t, "return", "idle")
  /\ args' = [args EXCEPT ![t] = NoCall]
  /\ curr_node' = [curr_node EXCEPT ![t] = NULL]
  /\ prev_node' = [prev_node EXCEPT ![t] = NULL]
  /\ element' = [element EXCEPT ![t] = NULL]
  /\ UNCHANGED <<head, flag, heap, used, calls>>

List_Insert(t) == (\E a \in Addr : Malloc(t, a)) \/ MallocFails(t) \/ SetNext(t) \/ Link(t)
List_Delete(t) == UnlinkHead(t) \/ Unlink(t) \/ Free(t)
List_Lookup(t) == Found(t)
Traverse(t)    == LoadHead(t) \/ WalkOn(t) \/ WalkEnds(t)

Next == \E t \in Thread :
          \/ \E o \in Op, k \in Key, e \in Element \cup {NULL} : Call(t, o, k, e)
          \/ List_Insert(t) \/ List_Delete(t) \/ List_Lookup(t) \/ Traverse(t)
          \/ Acquire(t) \/ Release(t) \/ Return(t)

Spec == Init /\ [][Next]_vars

-----------------------------------------------------------------------------
\* The nodes of a bucket's list, first to last, and NULL behind the last; no
\* more than there are addresses, so that a list that closed on itself ends too.
After(p) == IF p = NULL THEN NULL ELSE heap[p].next

Nth(b) ==
  LET nth[n \in 0..Cardinality(Addr)] == IF n = 0 THEN head[b] ELSE After(nth[n - 1])
  IN  nth

Chain(b) ==
  LET length == Cardinality({n \in 0..(Cardinality(Addr) - 1) : Nth(b)[n] # NULL})
  IN  [i \in 1..length |-> Nth(b)[i - 1]]

NodesOf(b) == {Chain(b)[i] : i \in 1..Len(Chain(b))}

\* Nobody touches a node after its deletion freed it, although the deletion
\* frees outside the lock: a walker stands on a node only inside the lock that
\* the deletion needed to unlink it.
NoUseAfterFree ==
  \A t \in Thread :
    /\ pc[t] = "walk" /\ curr_node[t] # NULL => curr_node[t] \in used
    /\ pc[t] = "walk" /\ prev_node[t] # NULL => prev_node[t] \in used
    /\ pc[t] \in {"next", "link", "free"} => curr_node[t] \in used

InFlight(t) == \/ args[t].op = "insert" /\ pc[t] \in {"acquire", "next", "link"}
               \/ args[t].op = "delete" /\ pc[t] = "free"
               \/ args[t].op = "delete" /\ pc[t] = "release" /\ curr_node[t] # NULL

\* Every node that was allocated and not freed is in one list, once, or in the
\* hands of one call that is about to link or to free it: no node is lost, and
\* none can be freed twice.
NodesAccounted ==
  LET held == {t \in Thread : InFlight(t)}
      hands == {curr_node[t] : t \in held}
      lists == UNION {NodesOf(b) : b \in Bucket}
  IN  /\ used = lists \cup hands
      /\ lists \cap hands = {}
      /\ Cardinality(hands) = Cardinality(held)
      /\ \A b, c \in Bucket : b # c => NodesOf(b) \cap NodesOf(c) = {}

\* The table is a KeyStore: insertions take effect when they are linked,
\* deletions when they unlink or reach the end, lookups when they find their
\* node or reach the end.
HasKey(k, a) == heap[a].key = k

StackOf(k) ==
  LET nth == Nth(HashOf(k))
      from[i \in 0..Cardinality(Addr)] ==
        IF i = Cardinality(Addr) \/ nth[i] = NULL THEN <<>>
        ELSE IF HasKey(k, nth[i]) THEN <<heap[nth[i]].element>> \o from[i + 1]
             ELSE from[i + 1]
  IN  from[0]

Store == INSTANCE KeyStore WITH
  stack <- [k \in Key |-> StackOf(k)],
  call  <- [t \in Thread |->
              [op |-> args[t].op, key |-> args[t].key, element |-> args[t].element,
               done |-> pc[t] \in {"release", "free", "return"},
               result |-> element[t]]]
ImplementsStore == Store!Spec
=============================================================================
