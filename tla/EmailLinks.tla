----------------------------- MODULE EmailLinks -----------------------------
(***************************************************************************)
(* The links UnionOps mails to an account: sign-in links and password      *)
(* resets.  Both are rows of a table that several replicas serve, and both *)
(* stores run the same statements, each committed on its own.              *)
(*                                                                         *)
(* A sign-in link does not sign in by itself: using it puts a grant into   *)
(* the memory of the replica that served the request, and the browser      *)
(* spends the grant with a second request that may reach another replica.  *)
(***************************************************************************)
EXTENDS Naturals, FiniteSets

CONSTANTS LinkReplicas,
          MaxLinks       \* bound: links mailed to the account

ASSUME LinkBoundAssumption == MaxLinks \in Nat

Purposes == {"sign_in", "reset"}
Links == 1..MaxLinks

VARIABLES
  link,       \* sign_in_tokens and password_reset_tokens of one account
  asking,     \* link requests between their two statements
  clicks,     \* link uses that have read the row and not yet written it
  used,       \* uses that consumed the row and have not had their effect
  grants,     \* the sign-in grants in the memory of each replica
  nonces,     \* sign-in links whose grant the browser holds
  effects,    \* history: sign-ins and password changes by each link
  older       \* history: how many links were out when each one was asked for

linkVars == <<link, asking, clicks, used, grants, nonces, effects, older>>

NoLink == [purpose |-> "sign_in", status |-> "unissued", late |-> FALSE]
Issued == {l \in Links : link[l].status # "unissued"}
LiveLinks(p) == {l \in Issued : link[l].purpose = p /\ link[l].status = "live"}
Newest == Cardinality(Issued)

LinkInit ==
  /\ link = [l \in Links |-> NoLink]
  /\ asking = {}
  /\ clicks = {}
  /\ used = {}
  /\ grants = [r \in LinkReplicas |-> {}]
  /\ nonces = {}
  /\ effects = [l \in Links |-> 0]
  /\ older = [l \in Links |-> 0]

-----------------------------------------------------------------------------
(* Asking for a link. *)

\* What is live of the purpose is marked consumed.
Superseded(p) ==
  [l \in Links |-> IF l \in LiveLinks(p) THEN [link[l] EXCEPT !.status = "void"]
                                         ELSE link[l]]

\* The first statement of createToken.  Two requests that ask at once are one
\* element, whose insert may happen twice.
AskLink(p) ==
  /\ Newest < MaxLinks
  /\ link' = Superseded(p)
  /\ asking' = asking \union {<<p, Newest>>}
  /\ UNCHANGED <<clicks, used, grants, nonces, effects, older>>

\* The second: the new row, whose link is mailed.
MailLink(a) ==
  /\ Newest < MaxLinks
  /\ link' = [link EXCEPT ![Newest + 1] =
                [purpose |-> a[1], status |-> "live", late |-> FALSE]]
  /\ older' = [older EXCEPT ![Newest + 1] = a[2]]
  /\ \E rest \in {asking, asking \ {a}} : asking' = rest
  /\ UNCHANGED <<clicks, used, grants, nonces, effects>>

-----------------------------------------------------------------------------
(* Using a link. *)

\* consumeToken reads the row; a link past its time is marked and refused.
ReadLink(l) ==
  /\ link[l].status = "live"
  /\ ~link[l].late
  /\ clicks' = clicks \union {l}
  /\ UNCHANGED <<link, asking, used, grants, nonces, effects, older>>

RefuseLate(l) ==
  /\ link[l].status = "live"
  /\ link[l].late
  /\ link' = [link EXCEPT ![l].status = "void"]
  /\ UNCHANGED <<asking, clicks, used, grants, nonces, effects, older>>

\* Mutant: the row read before decides.
ConsumeUnguarded(l) ==
  /\ l \in clicks
  /\ link' = [link EXCEPT ![l].status = "used"]
  /\ used' = used \union {l}
  /\ \E rest \in {clicks, clicks \ {l}} : clicks' = rest
  /\ UNCHANGED <<asking, grants, nonces, effects, older>>

\* The update that counts: only a row not consumed yet.  Several uses may have
\* read the row, so the set keeps it or not.
Consume(l) ==
  /\ l \in clicks
  /\ \/ /\ link[l].status = "live"
        /\ link' = [link EXCEPT ![l].status = "used"]
        /\ used' = used \union {l}
     \/ /\ link[l].status # "live"
        /\ UNCHANGED <<link, used>>
  /\ \E rest \in {clicks, clicks \ {l}} : clicks' = rest
  /\ UNCHANGED <<asking, grants, nonces, effects, older>>

\* The route of the sign-in link: a grant in this replica, its nonce in the
\* answer.
IssueGrant(l, r) ==
  /\ l \in used
  /\ link[l].purpose = "sign_in"
  /\ used' = used \ {l}
  /\ grants' = [grants EXCEPT ![r] = @ \union {l}]
  /\ nonces' = nonces \union {l}
  /\ UNCHANGED <<link, asking, clicks, effects, older>>

\* Mutant: a grant is looked up and left in the map.
AuthorizeKeeping(l, r) ==
  /\ l \in nonces
  /\ \E active \in BOOLEAN : effects' = [effects EXCEPT ![l] = IF l \in grants[r] /\ active THEN @ + 1 ELSE @]
  /\ UNCHANGED <<link, asking, clicks, used, grants, nonces, older>>

\* authorize() in any replica, as often as the browser sends the nonce: found
\* or not, the grant is gone from that replica.  A locked account stays out.
Authorize(l, r) ==
  /\ l \in nonces
  /\ grants' = [grants EXCEPT ![r] = @ \ {l}]
  /\ \E active \in BOOLEAN : effects' = [effects EXCEPT ![l] = IF l \in grants[r] /\ active THEN @ + 1 ELSE @]
  /\ UNCHANGED <<link, asking, clicks, used, nonces, older>>

\* The route of the reset link: the password is written by address, in a
\* statement of its own.
ChangePassword(l) ==
  /\ l \in used
  /\ link[l].purpose = "reset"
  /\ used' = used \ {l}
  /\ effects' = [effects EXCEPT ![l] = @ + 1]
  /\ UNCHANGED <<link, asking, clicks, grants, nonces, older>>

-----------------------------------------------------------------------------
(* Time and crashes. *)

LinkExpires(l) ==
  /\ link[l].status = "live"
  /\ ~link[l].late
  /\ link' = [link EXCEPT ![l].late = TRUE]
  /\ UNCHANGED <<asking, clicks, used, grants, nonces, effects, older>>

\* Sixty seconds have passed, or the replica was restarted.  A request that dies
\* is one that takes no further step.
LoseGrant(l, r) ==
  /\ l \in grants[r]
  /\ grants' = [grants EXCEPT ![r] = @ \ {l}]
  /\ UNCHANGED <<link, asking, clicks, used, nonces, effects, older>>

LinkNext ==
  \/ \E p \in Purposes : AskLink(p)
  \/ \E a \in asking : MailLink(a)
  \/ \E l \in Links :
       \/ ReadLink(l) \/ RefuseLate(l) \/ Consume(l) \/ ChangePassword(l)
       \/ LinkExpires(l)
       \/ \E r \in LinkReplicas :
            IssueGrant(l, r) \/ Authorize(l, r) \/ LoseGrant(l, r)

LinkSpec == LinkInit /\ [][LinkNext]_linkVars

-----------------------------------------------------------------------------
(* What must hold. *)

LinkTypeOK ==
  /\ link \in [Links -> [purpose : Purposes, late : BOOLEAN,
                         status : {"unissued", "live", "used", "void"}]]
  /\ asking \subseteq Purposes \X (0..MaxLinks)
  /\ clicks \subseteq Links
  /\ used \subseteq Links
  /\ grants \in [LinkReplicas -> SUBSET Links]
  /\ nonces \subseteq Links
  /\ effects \in [Links -> Nat]
  /\ older \in [Links -> 0..MaxLinks]

LinkStatus == [l \in Links |->
  IF link[l].status = "used" THEN "spent" ELSE link[l].status]

Token == INSTANCE OneTimeToken WITH Tokens <- Links, status <- LinkStatus

\* Whatever requests overlap or die, a link is used at most once, and a link
\* that was superseded or ran out is never used (consumeToken's conditional
\* update, sign-in-link-drizzle-adapter.ts:98).
LinksAreOneTime == Token!Spec

OneEffectPerLink == \A l \in Links :
  /\ effects[l] <= 1
  /\ effects[l] = 1 => link[l].status = "used" /\ l \notin used

NewLinkEndsOlder == \A l \in Issued : \A o \in 1..older[l] :
  link[o].purpose = link[l].purpose => link[o].status # "live"

\* A link changes the password once or signs in once, though its effect is a
\* later statement in another replica's memory, and only a link that was used
\* has any (sign-in-grants.ts:38, reset-password/[token]/route.ts:57).  When a
\* new link goes out, no link issued before it was asked for works any more;
\* only requests that overlap leave two (createToken).
NewestLinkWorksOnce == OneEffectPerLink /\ NewLinkEndsOlder
=============================================================================
