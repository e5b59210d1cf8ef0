----------------------------- MODULE MCWiring -----------------------------
(* Wiring with two connections. *)
EXTENDS Wiring

Distinct == [c \in Conns |-> c]
Shared == [c \in Conns |-> 1]
=============================================================================
