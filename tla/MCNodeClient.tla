---------------------------- MODULE MCNodeClient ----------------------------
(***************************************************************************)
(* Instances of NodeClient for TLC.                                        *)
(***************************************************************************)
EXTENDS NodeClient, TLC

\* The values of each set are interchangeable: nothing in the client names one.
Symmetry ==
    Permutations(Starts) \cup Permutations(Handles) \cup Permutations(Addresses)
=============================================================================
