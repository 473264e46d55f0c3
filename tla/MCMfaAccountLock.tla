-------------------------- MODULE MCMfaAccountLock --------------------------
(* Two replicas, two requests on the first and one or two on the second.   *)
EXTENDS MfaAccountLock, TLC

CONSTANTS r1, r2, q1, q2, q3, q4

MCHome == q1 :> r1 @@ q2 :> r1 @@ q3 :> r1 @@ q4 :> r2

=============================================================================
