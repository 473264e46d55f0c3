---------------------------- MODULE OneTimeToken ----------------------------
(***************************************************************************)
(* What every single-use credential of UnionOps promises, whatever its     *)
(* store: MFA session grants, password-reset tokens, sign-in links,        *)
(* invitations.  A token is issued once, redeemed at most once, and a      *)
(* token that was redeemed or voided (superseded, expired, revoked) never  *)
(* comes back.                                                             *)
(***************************************************************************)

CONSTANT Tokens

VARIABLE status   \* [Tokens -> {"unissued", "live", "spent", "void"}]

TypeOK == status \in [Tokens -> {"unissued", "live", "spent", "void"}]

Init == status = [t \in Tokens |-> "unissued"]

LiveTokens == {t \in Tokens : status[t] = "live"}

(* Issuing a token may void others that were live. *)
Issue(t, V) ==
  /\ status[t] = "unissued"
  /\ status' = [u \in Tokens |-> IF u = t THEN "live"
                                 ELSE IF u \in V THEN "void" ELSE status[u]]

Redeem(t) ==
  /\ status[t] = "live"
  /\ status' = [status EXCEPT ![t] = "spent"]

Void(V) ==
  status' = [u \in Tokens |-> IF u \in V THEN "void" ELSE status[u]]

Next ==
  \/ \E t \in Tokens : Redeem(t)
  \/ \E V \in SUBSET LiveTokens : Void(V) \/ \E t \in Tokens : Issue(t, V)

Spec == Init /\ [][Next]_status

=============================================================================
