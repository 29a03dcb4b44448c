---------------------------- MODULE MCThreadGroup ----------------------------
(* Instances of ThreadGroup for TLC.                                       *)
EXTENDS ThreadGroupInv, TLC

\* m_generation wraps around in every instance; two values are the fewest the
\* barrier can work with, so a larger counter allows no more behaviours.
MCGenerations == 2

\* An indeterminate int: below, at and above every value the counter takes.
MCIndeterminate == {-1, 0, numThreads, numThreads + 5}

\* Render threads differ in nothing but their identity.
Symmetry == Permutations(Threads)
=============================================================================
