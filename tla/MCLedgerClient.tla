--------------------------- MODULE MCLedgerClient ---------------------------
(***************************************************************************)
(* Instances of LedgerClient for TLC.                                      *)
(***************************************************************************)
EXTENDS LedgerClientInv, TLC

\* The values of each set are interchangeable: nothing in the core names one.
Symmetry ==
    Permutations(Starts) \cup Permutations(Handles)
        \cup Permutations(Observers) \cup Permutations(Addresses)
=============================================================================
