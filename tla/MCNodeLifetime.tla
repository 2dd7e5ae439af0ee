--------------------------- MODULE MCNodeLifetime ---------------------------
(***************************************************************************)
(* Instances of NodeLifetime for TLC.                                      *)
(***************************************************************************)
EXTENDS NodeLifetime, TLC

\* The values of each set are interchangeable: nothing in the binding names one.
Symmetry ==
    Permutations(Starts) \cup Permutations(Handles)
        \cup Permutations(Observers)
=============================================================================
