-------------------------- MODULE MCCommandRepository --------------------------
(* CommandRepository for TLC: two commands, the default variant and another,   *)
(* and three texts, two of which differ only in case.                          *)
EXTENDS CommandRepositoryStore, TLC

CONSTANTS socials, hug, default, discord, hello, HELLO, bye

MCFold == hello :> "hello" @@ HELLO :> "hello" @@ bye :> "bye"

\* Fold tells neither hello from HELLO, nor does anything else.
Symmetry == Permutations(Names) \cup Permutations({hello, HELLO})
=============================================================================
