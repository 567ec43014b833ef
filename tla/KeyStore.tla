------------------------------ MODULE KeyStore ------------------------------
(***************************************************************************)
(* What a concurrent table with duplicate keys promises: an insertion puts *)
(* an element on top of the others of its key, a deletion removes the one  *)
(* on top if there is one, a lookup returns it, and each call does so in   *)
(* one step between its start and its return.                              *)
(***************************************************************************)
EXTENDS Sequences

CONSTANTS Thread, Key, Element, NULL

VARIABLES
  stack,     \* stack[k]: the elements stored under k, the latest first
  call       \* call[t]: what t asked for, whether it took effect, its result

vars == <<stack, call>>

Op == {"insert", "delete", "lookup"}

Idle == [op |-> "none", key |-> NULL, element |-> NULL, done |-> FALSE, result |-> NULL]

Init == stack = [k \in Key |-> <<>>] /\ call = [t \in Thread |-> Idle]

Begin(t, o, k, e) ==
  /\ call[t] = Idle
  /\ call' = [call EXCEPT ![t] = [Idle EXCEPT !.op = o, !.key = k, !.element = e]]
  /\ UNCHANGED stack

Waits(t, o) == call[t].op = o /\ ~call[t].done

\* The table holds as much as memory allows: an insertion may do nothing.
Insert(t) ==
  /\ Waits(t, "insert")
  /\ \/ stack' = [stack EXCEPT ![call[t].key] = <<call[t].element>> \o @]
     \/ UNCHANGED stack
  /\ call' = [call EXCEPT ![t].done = TRUE]

Delete(t) ==
  /\ Waits(t, "delete")
  /\ stack' = [stack EXCEPT ![call[t].key] = IF @ = <<>> THEN @ ELSE Tail(@)]
  /\ call' = [call EXCEPT ![t].done = TRUE]

Lookup(t) ==
  /\ Waits(t, "lookup")
  /\ LET found == stack[call[t].key]
     IN  call' = [call EXCEPT ![t].done = TRUE,
                              ![t].result = IF found = <<>> THEN NULL ELSE Head(found)]
  /\ UNCHANGED stack

Return(t) ==
  /\ call[t].done
  /\ call' = [call EXCEPT ![t] = Idle]
  /\ UNCHANGED stack

Next == \E t \in Thread :
          \/ Insert(t) \/ Delete(t) \/ Lookup(t) \/ Return(t)
          \/ \E o \in Op, k \in Key, e \in Element \cup {NULL} : Begin(t, o, k, e)

Spec == Init /\ [][Next]_vars
=============================================================================
