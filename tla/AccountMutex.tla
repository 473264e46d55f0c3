---------------------------- MODULE AccountMutex ----------------------------
(***************************************************************************)
(* What `withMfaAccountLock` promises its callers: the pieces of work that *)
(* different requests run for one account never overlap.  A request asks,  *)
(* is granted the account when nobody holds it, and gives it back; a       *)
(* request may also give up (or be lost with its server) at any point.     *)
(***************************************************************************)

CONSTANTS Requests, NoRequest

VARIABLES
  asking,   \* requests that want the account
  holder    \* the request whose work is running, or NoRequest

vars == <<asking, holder>>

TypeOK ==
  /\ asking \subseteq Requests
  /\ holder \in Requests \cup {NoRequest}

Init ==
  /\ asking = {}
  /\ holder = NoRequest

Ask(q) ==
  /\ q \notin asking
  /\ q # holder
  /\ asking' = asking \cup {q}
  /\ UNCHANGED holder

Grant(q) ==
  /\ q \in asking
  /\ holder = NoRequest
  /\ asking' = asking \ {q}
  /\ holder' = q

GiveBack ==
  /\ holder # NoRequest
  /\ holder' = NoRequest
  /\ UNCHANGED asking

(* Several requests can be lost at once, when the server they run on dies. *)
GiveUp(Q) ==
  /\ asking' = asking \ Q
  /\ holder' = IF holder \in Q THEN NoRequest ELSE holder

Next ==
  \/ \E q \in Requests : Ask(q) \/ Grant(q)
  \/ GiveBack
  \/ \E Q \in SUBSET Requests : GiveUp(Q)

Spec == Init /\ [][Next]_vars

=============================================================================
