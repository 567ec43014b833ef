--------------------------- MODULE AtomicCounter ---------------------------
(***************************************************************************)
(* What a concurrent counter promises: each call takes effect in one step  *)
(* between its start and its return.                                       *)
(***************************************************************************)
EXTENDS Integers

CONSTANTS Thread, InitValue

Op == {"inc", "dec", "get"}

VARIABLES
  value,
  call       \* call[t]: what t asked for, whether it took effect, its result

vars == <<value, call>>

Idle == [op |-> "none", done |-> FALSE, result |-> 0]

Effect(op, v) == CASE op = "inc" -> v + 1
                   [] op = "dec" -> v - 1
                   [] op = "get" -> v

Init == value = InitValue /\ call = [t \in Thread |-> Idle]

Begin(t, op) ==
  /\ call[t] = Idle
  /\ call' = [call EXCEPT ![t] = [op |-> op, done |-> FALSE, result |-> 0]]
  /\ UNCHANGED value

TakeEffect(t) ==
  /\ call[t].op \in Op /\ ~call[t].done
  /\ value' = Effect(call[t].op, value)
  /\ call' = [call EXCEPT ![t] =
                [op |-> call[t].op, done |-> TRUE,
                 result |-> IF call[t].op = "get" THEN value ELSE 0]]

Return(t) ==
  /\ call[t].done
  /\ call' = [call EXCEPT ![t] = Idle]
  /\ UNCHANGED value

Next == \E t \in Thread : TakeEffect(t) \/ Return(t) \/ \E op \in Op : Begin(t, op)

Spec == Init /\ [][Next]_vars
=============================================================================
