--------------------------- MODULE MCObjcContext ---------------------------
(* The instances of ObjcContext that TLC checks. *)
EXTENDS ObjcContext, TLC

CONSTANTS r1, r2, d1, d2, w1, w2, main, nil

\* One millisecond, which the code turns into no nanosecond at all, and one
\* second, which it turns into one.
LongDelays == {1, 1000}

\* A timer may fire any time after it is due, so that two delays that are both
\* due at once still allow every order.
ShortDelays == {1, 2}

Symmetry == Permutations(Runnables) \cup Permutations(Delayers)
                \cup Permutations(Waiters)
=============================================================================
