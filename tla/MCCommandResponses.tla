-------------------------- MODULE MCCommandResponses --------------------------
(* CommandResponses for TLC: one chat-editable key and one that is not, two    *)
(* texts the unique index tells apart and one that differs from the first      *)
(* only in case.                                                               *)
EXTENDS CommandResponses, TLC

CONSTANTS c1, c2, socials, hug, hello, HELLO, bye

MCFold == hello :> "hello" @@ HELLO :> "hello" @@ bye :> "bye"

InDb(k, t, removed) == [key |-> k, text |-> t, removed |-> removed]

MCInitialRows ==
    {<<>>,
     <<InDb(socials, hello, FALSE)>>,
     <<InDb(socials, hello, TRUE)>>,
     <<InDb(socials, hello, TRUE), InDb(hug, bye, FALSE)>>,
     <<InDb(socials, hello, FALSE), InDb(socials, bye, FALSE)>>}

Symmetry == Permutations(Calls)
=============================================================================
