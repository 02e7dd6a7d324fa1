------------------------------ MODULE MCGreeting ------------------------------
(* Greeting for TLC.                                                           *)
EXTENDS Greeting, TLC

CONSTANTS m1, m2, u1, start

Symmetry == Permutations(Messages)
=============================================================================
