------------------------------ MODULE MCNetSync ------------------------------
(* Instances of NetSync for TLC.                                            *)
EXTENDS NetSync, TLC

\* Two clocks' worth of time: equal stamps, and one earlier than the other.
MCTimes == {1, 2}
MCOneTime == {1}

\* Clients differ in nothing but their identity.
Symmetry == Permutations(Clients)
=============================================================================
