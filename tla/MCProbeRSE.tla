----------------------------- MODULE MCProbeRSE -----------------------------
(***************************************************************************)
(* Model-checking instance of ProbeRSE.                                     *)
(***************************************************************************)
EXTENDS ProbeRSE, TLC

\* Threads other than Main that play the same part are interchangeable.
Symmetry == Permutations(Thread \ (Untracked \cup Unannounced \cup Silent
                                     \cup Spawners \cup {Main}))
              \cup Permutations(Untracked)
=============================================================================
