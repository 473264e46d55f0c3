--------------------------- MODULE MCUnionAccounts ---------------------------
(***************************************************************************)
(* The components around accounts, roles, seats, consent, money and alerts,*)
(* checked in one run.  They share no state, so a behaviour is about one   *)
(* of them: the scene, chosen at the start, says which.  The others keep   *)
(* their initial state, which is one state even where they may start in    *)
(* several.                                                                *)
(***************************************************************************)
EXTENDS EmailLinks, Invitations, SiteRoles, LocalMembership, MemberBroadcast,
        OutreachLists, Travel, Purchases, Alerts, TLC

CONSTANTS x1, x2, y1, y2, z1, d1, d2

VARIABLE scene

(* Components that never meet use the same model values: that keeps the
   group of permutations small. *)
X == {x1, x2}
Y == {y1, y2}
Z == {x1, x2, z1}
OneDesk == {d1}
TwoRuns == {d1, d2}
OneOrTwo == {1, 2}

AccountSymmetry == Permutations(X) \cup Permutations(Y)

Scenes == {"links", "invitations", "roles", "seats", "broadcast", "outreach", "travel",
           "purchases", "alerts"}

AccountVars == <<scene, linkVars, inviteVars, roleVars, seatVars, broadcastVars,
                 outreachVars, travelVars, purchaseVars, alertVars>>

AccountInit ==
  /\ scene \in Scenes
  /\ LinkInit /\ InviteInit /\ RolesInit /\ SeatInit /\ BroadcastInit /\ OutreachInit
  /\ TravelInit /\ PurchaseInit /\ AlertInit
  /\ scene # "invitations" => ~invitee.exists /\ ~policed
  /\ scene # "purchases" => purchase.total = 1
  /\ scene # "alerts" => ~mapped

AccountNext ==
  /\ UNCHANGED scene
  /\ \/ /\ scene = "links" /\ LinkNext
        /\ UNCHANGED <<inviteVars, roleVars, seatVars, broadcastVars, outreachVars,
                       travelVars, purchaseVars, alertVars>>
     \/ /\ scene = "invitations" /\ InviteNext
        /\ UNCHANGED <<linkVars, roleVars, seatVars, broadcastVars, outreachVars,
                       travelVars, purchaseVars, alertVars>>
     \/ /\ scene = "roles" /\ RolesNext
        /\ UNCHANGED <<linkVars, inviteVars, seatVars, broadcastVars, outreachVars,
                       travelVars, purchaseVars, alertVars>>
     \/ /\ scene = "seats" /\ SeatNext
        /\ UNCHANGED <<linkVars, inviteVars, roleVars, broadcastVars, outreachVars,
                       travelVars, purchaseVars, alertVars>>
     \/ /\ scene = "broadcast" /\ BroadcastNext
        /\ UNCHANGED <<linkVars, inviteVars, roleVars, seatVars, outreachVars,
                       travelVars, purchaseVars, alertVars>>
     \/ /\ scene = "outreach" /\ OutreachNext
        /\ UNCHANGED <<linkVars, inviteVars, roleVars, seatVars, broadcastVars,
                       travelVars, purchaseVars, alertVars>>
     \/ /\ scene = "travel" /\ TravelNext
        /\ UNCHANGED <<linkVars, inviteVars, roleVars, seatVars, broadcastVars,
                       outreachVars, purchaseVars, alertVars>>
     \/ /\ scene = "purchases" /\ PurchaseNext
        /\ UNCHANGED <<linkVars, inviteVars, roleVars, seatVars, broadcastVars,
                       outreachVars, travelVars, alertVars>>
     \/ /\ scene = "alerts" /\ AlertNext
        /\ UNCHANGED <<linkVars, inviteVars, roleVars, seatVars, broadcastVars,
                       outreachVars, travelVars, purchaseVars>>

AccountSpec == AccountInit /\ [][AccountNext]_AccountVars

-----------------------------------------------------------------------------
(* The rows of every component keep their shape, histories included; one active
   seat at most is primary, and only a released campaign has deliveries
   (outreach-lists.ts:215). *)
AccountsTypeOK ==
  LinkTypeOK /\ InviteTypeOK /\ RolesTypeOK /\ SeatTypeOK /\ BroadcastTypeOK
  /\ OutreachTypeOK /\ TravelTypeOK /\ PurchaseTypeOK /\ AlertTypeOK

(* What is mailed to be used once is used once: links by the conditional update
   of consumeToken (sign-in-link-drizzle-adapter.ts:98), invitations by the row
   lock of acceptInvitePostgres (invite-postgres.ts:239), and neither after it
   was superseded, ran out or was marked expired. *)
TokensAreOneTime == LinksAreOneTime /\ InvitesAreOneTime

(* What the local paid is what its ledger says: for a trip and for a purchase. *)
MoneyIsAccountedFor == TripIsSettled /\ PurchaseIsPaidOnce

(* A broadcast goes to a member whose last committed word was a consent.  A letter
   is not sent when its composition began after the address was suppressed, nor by
   a dispatch that began after its subscription was, and it is sent once unless
   dispatches overlapped or one was lost (member-broadcast.ts:196,
   outreach-lists.ts:272). *)
MailIsWarranted == ConsentIsTheLastWord /\ LettersAreWarranted

=============================================================================
