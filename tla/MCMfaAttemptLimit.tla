------------------------- MODULE MCMfaAttemptLimit -------------------------
(* Three step-up challenges in flight beside the locked routes. *)
EXTENDS MfaAttemptLimit, TLC

CONSTANTS p1, p2, p3

=============================================================================
