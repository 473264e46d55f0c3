---------------------------- MODULE MCMfaAccount ----------------------------
(* MfaAccount for TLC: at most two browsers and two requests in flight. *)
EXTENDS MfaAccount, TLC

CONSTANTS b1, b2, p1, p2

(* A code is typed as soon as it is shown, or one step late. *)
MCPrompt == {0}
MCLate   == {-1, 0}

Symmetry == Permutations(Slots)

=============================================================================
