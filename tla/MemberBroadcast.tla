--------------------------- MODULE MemberBroadcast ---------------------------
(***************************************************************************)
(* Consent and sending of the member broadcast of one local:               *)
(* src/lib/email/member-broadcast.ts, member-broadcast-unsubscribe.ts and  *)
(* the functions of migration 0085, for one member.                        *)
(*                                                                         *)
(* The member's word is two rows, a consent and a suppression, written by  *)
(* transactions at READ COMMITTED that lock what they write, in different  *)
(* orders: the member's own setting (several tabs), the link of a message, *)
(* the provider's feedback.  A transaction is its statements; it waits for *)
(* a row another one wrote, and when two wait for each other PostgreSQL    *)
(* ends one.  The officer's campaign reads the roster once and sends in a  *)
(* loop without looking at the consent again.                              *)
(***************************************************************************)
EXTENDS Naturals, FiniteSets

CONSTANTS
  Settings,     \* requests that set or withdraw the own consent
  Mailings      \* campaigns an officer sends to the member

VARIABLES
  consentRow,   \* member_broadcast_consents: none, confirmed, revoked
  suppressed,   \* a member_broadcast_suppressions row exists
  statement,    \* [transactions]: the transactions under way
  mailing,      \* [Mailings]: sendMemberBroadcast
  linkUsed,     \* action tokens that were consumed
  eventsSeen,   \* messages whose refusal by the provider is recorded
  lastWord      \* history: what the last committed decision said

broadcastVars == <<consentRow, suppressed, statement, mailing, linkUsed,
                   eventsSeen, lastWord>>

(* A setting, the link in a mailing, or the refusal of a mailing *)
Transactions == (Settings \X {"setting"}) \cup (Mailings \X {"link", "event"})
NoStatement == [at |-> "idle", holds |-> {}, consents |-> FALSE, cleared |-> FALSE,
                fresh |-> FALSE, matched |-> FALSE]

BroadcastTypeOK ==
  /\ consentRow \in {"none", "confirmed", "revoked"}
  /\ suppressed \in BOOLEAN
  /\ statement \in [Transactions ->
       [at : {"idle", "begun", "first", "second", "over"},
        holds : SUBSET {"consent", "suppression"}, consents : BOOLEAN,
        cleared : BOOLEAN, fresh : BOOLEAN, matched : BOOLEAN]]
  /\ mailing \in [Mailings -> {"none", "listed", "sent", "over"}]
  /\ linkUsed \subseteq Mailings /\ eventsSeen \subseteq Mailings
  /\ lastWord \in {"none", "consent", "refusal"}

BroadcastInit ==
  /\ consentRow = "none" /\ suppressed = FALSE
  /\ statement = [t \in Transactions |-> NoStatement]
  /\ mailing = [c \in Mailings |-> "none"]
  /\ linkUsed = {} /\ eventsSeen = {}
  /\ lastWord = "none"

Free(t, row) == \A u \in Transactions \ {t} : row \notin statement[u].holds

Advance(t, to, row) ==
  statement' = [statement EXCEPT ![t].at = to, ![t].holds = @ \cup {row}]

KeepRows == UNCHANGED <<consentRow, suppressed, mailing, linkUsed, eventsSeen, lastWord>>

(* setOwnBroadcastConsent reads whether there is a consent row. *)
BeginSetting(t, consents) ==
  /\ t[2] = "setting" /\ statement[t].at = "idle"
  /\ statement' = [statement EXCEPT ![t] = [NoStatement EXCEPT
       !.at = "begun", !.consents = consents, !.fresh = consentRow = "none"]]
  /\ KeepRows

(* A consent deletes the suppression it can see; there is none to lock
   otherwise. *)
ClearSuppression(t) ==
  /\ t[2] = "setting" /\ statement[t].at = "begun" /\ statement[t].consents
  /\ \/ ~suppressed /\ statement' = [statement EXCEPT ![t].at = "first"]
     \/ /\ suppressed /\ Free(t, "suppression")
        /\ statement' = [statement EXCEPT ![t].at = "first", ![t].cleared = TRUE,
                                          ![t].holds = @ \cup {"suppression"}]
  /\ KeepRows

(* A withdrawal inserts or replaces the suppression: after the consent row
   when there was one, before it otherwise. *)
SuppressSelf(t) ==
  /\ t[2] = "setting" /\ ~statement[t].consents
  /\ statement[t].at = IF statement[t].fresh THEN "begun" ELSE "first"
  /\ Free(t, "suppression")
  /\ ~(statement[t].fresh /\ suppressed)
  /\ Advance(t, IF statement[t].fresh THEN "first" ELSE "second", "suppression")
  /\ KeepRows

(* The consent row is updated, or inserted where there was none. *)
WriteOwnConsent(t) ==
  /\ t[2] = "setting"
  /\ statement[t].at = IF statement[t].consents \/ statement[t].fresh
                       THEN "first" ELSE "begun"
  /\ Free(t, "consent")
  /\ statement[t].fresh => consentRow = "none"
  /\ Advance(t, IF statement[t].consents \/ statement[t].fresh
                THEN "second" ELSE "first", "consent")
  /\ KeepRows

(* member_broadcast_revoke_from_token and ..._record_provider_event: the
   suppression first; a link counts once, and a repeated event ends here. *)
BeginRefusal(t) ==
  /\ t[2] # "setting" /\ statement[t].at = "idle"
  /\ mailing[t[1]] \in {"sent", "over"}
  /\ t[2] = "link" => t[1] \notin linkUsed
  /\ t[2] = "event" => t[1] \notin eventsSeen
  /\ Free(t, "suppression")
  /\ Advance(t, "first", "suppression")
  /\ KeepRows

(* The link revokes any consent row or inserts one; the event revokes a row
   it sees confirmed, and passes by a confirmation that is not committed. *)
RefuseConsent(t) ==
  /\ t[2] # "setting" /\ statement[t].at = "first"
  /\ \/ /\ t[2] = "link" \/ consentRow = "confirmed"
        /\ Free(t, "consent")
        /\ statement' = [statement EXCEPT ![t].at = "second", ![t].matched = TRUE,
                                          ![t].holds = @ \cup {"consent"}]
     \/ /\ t[2] = "event" /\ consentRow # "confirmed"
        /\ statement' = [statement EXCEPT ![t].at = "second"]
  /\ KeepRows

AfterStatement(t) == [NoStatement EXCEPT !.at = IF t[2] = "setting" THEN "over" ELSE "idle"]

Commit(t) ==
  /\ statement[t].at = "second"
  /\ IF t[2] = "setting" /\ statement[t].consents
     THEN /\ consentRow' = "confirmed"
          /\ suppressed' = (suppressed /\ ~statement[t].cleared)
          /\ lastWord' = "consent"
     ELSE /\ consentRow' = IF t[2] = "event" /\ ~statement[t].matched
                           THEN consentRow ELSE "revoked"
          /\ suppressed' = TRUE
          /\ lastWord' = "refusal"
  /\ linkUsed' = IF t[2] = "link" THEN linkUsed \cup {t[1]} ELSE linkUsed
  /\ eventsSeen' = IF t[2] = "event" THEN eventsSeen \cup {t[1]} ELSE eventsSeen
  /\ statement' = [statement EXCEPT ![t] = AfterStatement(t)]
  /\ UNCHANGED mailing

(* A deadlock, a violated key or a lost connection: nothing is kept. *)
Abort(t) ==
  /\ statement[t].at \in {"begun", "first", "second"}
  /\ statement' = [statement EXCEPT ![t] = AfterStatement(t)]
  /\ KeepRows

(* The suppression is not looked at. *)
EligibleByConsent == consentRow = "confirmed"

(* isSendEligible *)
SendEligible == consentRow = "confirmed" /\ ~suppressed

(* sendMemberBroadcast: the roster is read once ... *)
ListRecipients(c) ==
  /\ mailing[c] = "none"
  /\ SendEligible
  /\ mailing' = [mailing EXCEPT ![c] = "listed"]
  /\ UNCHANGED <<consentRow, suppressed, statement, linkUsed, eventsSeen, lastWord>>

(* ... and the message goes out whenever its turn comes, or the process ends. *)
SendToMember(c) ==
  /\ mailing[c] = "listed"
  /\ mailing' \in {[mailing EXCEPT ![c] = "sent"], [mailing EXCEPT ![c] = "over"]}
  /\ UNCHANGED <<consentRow, suppressed, statement, linkUsed, eventsSeen, lastWord>>

BroadcastNext ==
  \/ \E t \in Transactions :
       \/ \E consents \in BOOLEAN : BeginSetting(t, consents)
       \/ ClearSuppression(t) \/ SuppressSelf(t) \/ WriteOwnConsent(t)
       \/ BeginRefusal(t) \/ RefuseConsent(t)
       \/ Commit(t) \/ Abort(t)
  \/ \E c \in Mailings : ListRecipients(c) \/ SendToMember(c)

BroadcastSpec == BroadcastInit /\ [][BroadcastNext]_broadcastVars

-----------------------------------------------------------------------------
(* A member counts as consenting only if the last decision that was committed
   is a consent: tabs that consent and withdraw at once, a link followed and a
   complaint reported meanwhile never leave a refused member on the roster.
   member-broadcast.ts:47, 162; migration 0085. *)
ConsentIsTheLastWord == SendEligible => lastWord = "consent"

=============================================================================
