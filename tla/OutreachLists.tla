---------------------------- MODULE OutreachLists ----------------------------
(***************************************************************************)
(* The outreach lists of one union: import and double opt-in               *)
(* (outreach-import.ts, outreach-confirm.ts, migration 0089), campaigns    *)
(* and their dispatch (outreach-lists.ts, the cron of                      *)
(* api/cron/outreach-lists), the provider's feedback (migration 0088).     *)
(*                                                                         *)
(* One person stands on several lists of the union; a suppression is the   *)
(* union's, the status is the subscription's.  A campaign is composed in   *)
(* one transaction that reads the suppressions, then the subscribers, and  *)
(* then inserts the deliveries: each statement sees what others have       *)
(* committed by then.  A dispatch is one transaction as well: it selects   *)
(* queued deliveries without a lock, mails each while the transaction is   *)
(* open, and loses every mark when it dies.                                *)
(***************************************************************************)
EXTENDS Naturals, FiniteSets

CONSTANTS
  Lists,         \* lists the person is imported into
  NoList,
  Letters,       \* campaigns
  Dispatchers,   \* runs of the cron
  MaxCopies      \* bound on the copies of one letter

ASSUME CopiesAssumption == MaxCopies \in Nat

VARIABLES
  subscription,  \* [Lists]: status of the person's outreach_subscribers row
  confirmLink,   \* [Lists]: the confirmation token
  blocked,       \* the union has suppressed the person's address
  letter,        \* [Letters]: a campaign and its one delivery
  dispatch,      \* [Dispatchers]: the transaction of a cron run
  copies,        \* history: [Letters]: messages sent
  unclear,       \* history: letters two open dispatches had, or one lost
  late           \* history: letters sent after a refusal they should have met

outreachVars == <<subscription, confirmLink, blocked, letter, dispatch, copies,
                  unclear, late>>

NoLetter == [list |-> NoList, campaign |-> "none", delivery |-> "none",
             clean |-> FALSE, found |-> FALSE]
NoBatch == [at |-> "idle", batch |-> {}, stale |-> {}, held |-> {}, sent |-> {}]

OutreachTypeOK ==
  /\ subscription \in [Lists -> {"none", "pending", "confirmed", "suppressed"}]
  /\ confirmLink \in [Lists -> {"none", "live", "consumed", "expired"}]
  /\ blocked \in BOOLEAN
  /\ letter \in [Letters ->
       [list : Lists \cup {NoList},
        campaign : {"none", "screened", "addressed", "draft", "released"},
        delivery : {"none", "queued", "accepted", "failed", "suppressed"},
        clean : BOOLEAN, found : BOOLEAN]]
  /\ \A m \in Letters : letter[m].delivery # "none" => letter[m].campaign = "released"
  /\ dispatch \in [Dispatchers -> [at : {"idle", "open"}, batch : SUBSET Letters,
                                   stale : SUBSET Letters, held : SUBSET Letters,
                                   sent : SUBSET Letters]]
  /\ copies \in [Letters -> 0..MaxCopies]
  /\ unclear \subseteq Letters /\ late \subseteq Letters

OutreachInit ==
  /\ subscription = [n \in Lists |-> "none"]
  /\ confirmLink = [n \in Lists |-> "none"]
  /\ blocked = FALSE
  /\ letter = [m \in Letters |-> NoLetter]
  /\ dispatch = [d \in Dispatchers |-> NoBatch]
  /\ copies = [m \in Letters |-> 0]
  /\ unclear = {} /\ late = {}

(* importOutreachSubscribers: never a suppressed or known address *)
ImportPerson(n) ==
  /\ ~blocked /\ subscription[n] = "none"
  /\ subscription' = [subscription EXCEPT ![n] = "pending"]
  /\ confirmLink' = [confirmLink EXCEPT ![n] = "live"]
  /\ UNCHANGED <<blocked, letter, dispatch, copies, unclear, late>>

(* outreach_confirm_from_token *)
ConfirmPerson(n) ==
  /\ confirmLink[n] = "live"
  /\ subscription[n] # "suppressed"
  /\ subscription' = [subscription EXCEPT ![n] = "confirmed"]
  /\ confirmLink' = [confirmLink EXCEPT ![n] = "consumed"]
  /\ UNCHANGED <<blocked, letter, dispatch, copies, unclear, late>>

ConfirmLinkExpires(n) ==
  /\ confirmLink[n] = "live"
  /\ confirmLink' = [confirmLink EXCEPT ![n] = "expired"]
  /\ UNCHANGED <<subscription, blocked, letter, dispatch, copies, unclear, late>>

(* createOutreachCampaign, statement by statement: who is suppressed ... *)
ReadSuppressions(m, n) ==
  /\ letter[m].campaign = "none"
  /\ letter' = [letter EXCEPT ![m] =
       [NoLetter EXCEPT !.list = n, !.campaign = "screened", !.clean = ~blocked]]
  /\ UNCHANGED <<subscription, confirmLink, blocked, dispatch, copies, unclear, late>>

(* ... who has confirmed ... *)
ReadSubscribers(m) ==
  LET confirmed == subscription[letter[m].list] = "confirmed" IN
    /\ letter[m].campaign = "screened"
    /\ letter' = [letter EXCEPT ![m].campaign = "addressed", ![m].found = confirmed]
    /\ UNCHANGED <<subscription, confirmLink, blocked, dispatch, copies, unclear, late>>

IsRecipient(m) == letter[m].clean /\ letter[m].found

(* A draft's recipients are queued as well. *)
QueuedWithDraft(m, release) == IsRecipient(m)

(* Whoever has confirmed is queued, suppressed or not. *)
QueuedUnscreened(m, release) == release /\ letter[m].found

QueuedFor(m, release) == release /\ IsRecipient(m)

(* ... and the rows, with the commit.  A draft has no deliveries and is never
   released. *)
InsertCampaign(m, release) ==
  LET campaign == IF release THEN "released" ELSE "draft"
      delivery == IF QueuedFor(m, release) THEN "queued" ELSE "none" IN
    /\ letter[m].campaign = "addressed"
    /\ letter' = [letter EXCEPT ![m].campaign = campaign, ![m].delivery = delivery]
    /\ UNCHANGED <<subscription, confirmLink, blocked, dispatch, copies, unclear, late>>

(* The request fails before that. *)
LoseCampaign(m) ==
  /\ letter[m].campaign \in {"screened", "addressed"}
  /\ letter' = [letter EXCEPT ![m] = NoLetter]
  /\ UNCHANGED <<subscription, confirmLink, blocked, dispatch, copies, unclear, late>>

(* Any delivery that was not settled for good *)
NotFailed == {m \in Letters : letter[m].delivery \in {"queued", "accepted"}}

(* The select of dispatchOutreachBatch: no lock, no claim *)
QueuedLetters == {m \in Letters : letter[m].delivery = "queued"}

(* A subscription whose status is not looked at again *)
AnyStatus(m) == TRUE

StillConfirmed(m) == subscription[letter[m].list] = "confirmed"

OpenElsewhere(d) == UNION {dispatch[o].batch : o \in Dispatchers \ {d}}

(* The subscriber's status comes with the delivery, in the same select:
   a stale delivery is marked and not mailed. *)
BeginDispatch(d) ==
  /\ dispatch[d].at = "idle" /\ QueuedLetters # {}
  /\ LET stale == {m \in QueuedLetters : ~StillConfirmed(m)} IN
       dispatch' = [dispatch EXCEPT ![d] =
         [NoBatch EXCEPT !.at = "open", !.batch = QueuedLetters, !.stale = stale]]
  /\ unclear' = unclear \cup (QueuedLetters \cap OpenElsewhere(d))
  /\ late' = late \cup {m \in QueuedLetters \ dispatch'[d].stale :
                         subscription[letter[m].list] = "suppressed"}
  /\ UNCHANGED <<subscription, confirmLink, blocked, letter, copies>>

HeldElsewhere(d, m) == \E o \in Dispatchers \ {d} : m \in dispatch[o].held

(* The message goes out; only the mark behind it waits for the row. *)
SendLetter(d, m) ==
  /\ m \in dispatch[d].batch \ (dispatch[d].sent \cup dispatch[d].stale)
  /\ dispatch[d].sent \subseteq dispatch[d].held
  /\ m \notin dispatch[d].held
  /\ copies[m] < MaxCopies
  /\ copies' = [copies EXCEPT ![m] = @ + 1]
  /\ dispatch' = [dispatch EXCEPT ![d].sent = @ \cup {m}]
  /\ late' = IF letter[m].clean THEN late ELSE late \cup {m}
  /\ UNCHANGED <<subscription, confirmLink, blocked, letter, unclear>>

(* The mark of a sent, a refused or a stale delivery locks its row. *)
MarkLetter(d, m) ==
  /\ m \in dispatch[d].batch \ dispatch[d].held
  /\ ~HeldElsewhere(d, m)
  /\ dispatch[d].sent \ {m} \subseteq dispatch[d].held
  /\ dispatch' = [dispatch EXCEPT ![d].held = @ \cup {m}]
  /\ UNCHANGED <<subscription, confirmLink, blocked, letter, copies, unclear, late>>

(* Every row of the batch is dealt with and the transaction ends.  A message
   whose answer was not heard counts as failed, wherever it went. *)
CommitDispatch(d, heard) ==
  /\ heard \subseteq dispatch[d].sent
  /\ dispatch[d].at = "open" /\ dispatch[d].held = dispatch[d].batch
  /\ letter' = [m \in Letters |->
       IF m \in dispatch[d].held
       THEN [letter[m] EXCEPT !.delivery =
               IF m \in heard THEN "accepted"
               ELSE IF m \in dispatch[d].stale THEN "suppressed" ELSE "failed"]
       ELSE letter[m]]
  /\ dispatch' = [dispatch EXCEPT ![d] = NoBatch]
  /\ UNCHANGED <<subscription, confirmLink, blocked, copies, unclear, late>>

(* The replica dies or the transaction fails: every mark is undone. *)
LoseDispatch(d) ==
  /\ dispatch[d].at = "open"
  /\ dispatch' = [dispatch EXCEPT ![d] = NoBatch]
  /\ unclear' = unclear \cup dispatch[d].sent
  /\ UNCHANGED <<subscription, confirmLink, blocked, letter, copies, late>>

(* outreach_record_provider_event for a complaint, an unsubscription or a
   permanent failure: the address is suppressed for the union, the
   subscription on this list only. *)
ProviderRefusal(m, verdict) ==
  /\ letter[m].delivery = "accepted"
  /\ \A d \in Dispatchers : m \notin dispatch[d].held
  /\ letter' = [letter EXCEPT ![m].delivery = verdict]
  /\ blocked' = TRUE
  /\ subscription' = [subscription EXCEPT ![letter[m].list] =
       IF @ = "confirmed" THEN "suppressed" ELSE @]
  /\ UNCHANGED <<confirmLink, dispatch, copies, unclear, late>>

OutreachNext ==
  \/ \E n \in Lists : ImportPerson(n) \/ ConfirmPerson(n) \/ ConfirmLinkExpires(n)
  \/ \E m \in Letters :
       \/ \E n \in Lists : ReadSuppressions(m, n)
       \/ ReadSubscribers(m) \/ LoseCampaign(m)
       \/ \E release \in BOOLEAN : InsertCampaign(m, release)
       \/ \E verdict \in {"suppressed", "failed"} : ProviderRefusal(m, verdict)
  \/ \E d \in Dispatchers :
       \/ BeginDispatch(d) \/ LoseDispatch(d)
       \/ \E heard \in SUBSET dispatch[d].sent : CommitDispatch(d, heard)
       \/ \E m \in Letters : SendLetter(d, m) \/ MarkLetter(d, m)

OutreachSpec == OutreachInit /\ [][OutreachNext]_outreachVars

-----------------------------------------------------------------------------
CopiesAreExplained == \A m \in Letters : copies[m] > 1 => m \in unclear

RefusalsStopLaterLetters == late = {}

(* A letter is sent twice only if two dispatches had it open at once or one
   was lost after it had sent it (outreach-lists.ts:272), whether or not its
   answer was heard.  A refusal stops what begins after it: no letter is sent
   whose composition began after the union had suppressed the address, on any
   list, and no dispatch mails a subscription that was suppressed when the
   dispatch began (outreach-lists.ts:215, 300).  One that is recorded while a
   campaign is composed, or afterwards through another list, does not stop the
   letter: no later statement reads the suppressions. *)
LettersAreWarranted == CopiesAreExplained /\ RefusalsStopLaterLetters

=============================================================================
