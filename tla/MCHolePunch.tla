----------------------------- MODULE MCHolePunch -----------------------------
(* An instance of HolePunch for TLC: machine A makes two attempts at B,    *)
(* one after the other or at the same time, B one at A.  At B's local      *)
(* address A finds C, which is punching to A for reasons of its own.       *)
EXTENDS HolePunch

CONSTANTS A, B, C, a1, a2, b1, c1

ends == {A, B, C}
attempts == {a1, a2, b1, c1}
owners == [a \in attempts |-> IF a \in {a1, a2} THEN A ELSE IF a = b1 THEN B ELSE C]
targets == [a \in attempts |-> IF a \in {a1, a2} THEN B ELSE A]
locals == [a \in attempts |-> IF a = a1 THEN {C} ELSE {}]

=============================================================================
