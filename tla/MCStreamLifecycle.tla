--------------------------- MODULE MCStreamLifecycle ---------------------------
(* StreamLifecycle for TLC.  The clock starts at a date of 2026 in five-minute *)
(* units since 1970; 7158 units are the whole ones in 2^31 - 1 ms.             *)
EXTENDS StreamLifecycle, TLC

CONSTANTS s1, s2, h1, h2, m1, m2, u1, u2

MCEpoch == 5900000
MCMaxTimerDelay == 7158

Symmetry ==
    Permutations(Starts) \cup Permutations(Handlers) \cup Permutations(Messages) \cup Permutations(Users)

\* The bound on what one behaviour combines: three flips with a repeat or a crash, or
\* two with both; with a second start in a process, two flips, or one and a repeat or
\* a crash.
FewUpsets ==
    used.flips + used.repeats + used.crashes + (IF used.starts > 1 THEN 2 ELSE 0) <= 4
=============================================================================
