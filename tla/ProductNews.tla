----------------------------- MODULE ProductNews -----------------------------
(***************************************************************************)
(* Product-news email: the consent of each address, the campaigns a site   *)
(* administrator runs, the delivery queue in Postgres, the cron workers    *)
(* that drain it and the feedback the mail provider reports.               *)
(*                                                                         *)
(* Statements of one transaction are one action where no other transaction *)
(* can tell them apart.  The transaction that sends is four: it holds the  *)
(* person's row and the delivery's row across the call to the provider, so *)
(* it may die, or others may act, between the checks, the call and the     *)
(* commit.  A transaction that needs a row a sender has locked waits for   *)
(* it: that is the guard ~PersonLocked.                                    *)
(***************************************************************************)
EXTENDS Naturals, FiniteSets

CONSTANTS Subscribers,   \* addresses
          Campaigns,
          Workers,       \* runs of the cron route, in any number of processes
          Testers,       \* addresses an administrator queues a test for
          MaxGrants,     \* bound: subscription requests of one address
          NoDelivery     \* the claim of a worker that holds none

ASSUME TestersAssumption == Testers \subseteq Subscribers
ASSUME GrantsAssumption == MaxGrants \in Nat

Kinds == {"campaign", "test"}
Deliveries == Campaigns \X Subscribers \X Kinds
Feedback == {"temporary_failure", "permanent_failure", "complained", "unsubscribed"}

ASSUME NoDeliveryAssumption == NoDelivery \notin Deliveries

VARIABLES
  person,       \* marketing_subscribers, and the last row of the consent events
  confirmLinks, \* grants whose confirmation link has not been used
  campaign,     \* marketing_campaigns.status
  delivery,     \* marketing_deliveries
  slotFree,     \* next_send_at of marketing_dispatch_control has passed
  worker,       \* where each worker is and what it holds
  events,       \* marketing_provider_events
  copies,       \* external: messages the provider has accepted, per delivery
  objected      \* external: people whose refusal the provider has reported
                \* since they last confirmed

vars == <<person, confirmLinks, campaign, delivery, slotFree, worker, events,
          copies, objected>>

consentVars == <<person, confirmLinks>>
queueVars == <<campaign, delivery, slotFree>>
providerVars == <<events, copies, objected>>

CampaignOf(d) == d[1]
PersonOf(d) == d[2]
KindOf(d) == d[3]

NoRow == [status |-> "absent", grant |-> 0, event |-> "none", of |-> 0]
NotQueued == [status |-> "none", stale |-> FALSE, messageId |-> FALSE]
Idle == [pc |-> "idle", claim |-> NoDelivery, ok |-> FALSE, named |-> FALSE,
         drained |-> FALSE]

Init ==
  /\ person = [s \in Subscribers |-> NoRow]
  /\ confirmLinks = [s \in Subscribers |-> {}]
  /\ campaign = [c \in Campaigns |-> "absent"]
  /\ delivery = [d \in Deliveries |-> NotQueued]
  /\ slotFree = TRUE
  /\ worker = [w \in Workers |-> Idle]
  /\ events = {}
  /\ copies = [d \in Deliveries |-> 0]
  /\ objected = {}

Sending(w) == worker[w].pc \in {"calling", "recorded"}
PersonLocked(s) == \E w \in Workers : Sending(w) /\ PersonOf(worker[w].claim) = s
CampaignLocked(c) == \E w \in Workers :
  worker[w].drained /\ CampaignOf(worker[w].claim) = c
Confirmed(s) == person[s].status = "confirmed"

-----------------------------------------------------------------------------
(* Consent: the functions of the migration that the public forms, the links *)
(* in the mail and the site administrator reach.                            *)

Suppress(s, event) ==
  person' = [person EXCEPT ![s].status = "suppressed", ![s].event = event]

\* A new grant makes the address pending, whatever it was but confirmed.
RequestSubscription(s) ==
  /\ ~PersonLocked(s)
  /\ ~Confirmed(s)
  /\ person[s].grant < MaxGrants
  /\ LET g == person[s].grant + 1 IN
       /\ person' = [person EXCEPT ![s] =
            [status |-> "pending_confirmation", grant |-> g, event |-> "grant", of |-> g]]
       /\ confirmLinks' = [confirmLinks EXCEPT ![s] = @ \union {g}]
  /\ UNCHANGED <<queueVars, worker, providerVars>>

\* Mutant: any unused link confirms a pending address.
ConfirmAnyGrant(s, g) ==
  /\ ~PersonLocked(s)
  /\ g \in confirmLinks[s]
  /\ person[s].status = "pending_confirmation"
  /\ person' = [person EXCEPT ![s].status = "confirmed",
                              ![s].event = "confirmation", ![s].of = g]
  /\ confirmLinks' = [confirmLinks EXCEPT ![s] = @ \ {g}]
  /\ objected' = objected \ {s}
  /\ UNCHANGED <<queueVars, worker, events, copies>>

\* Only the link of the latest grant confirms, and only a pending address.
ConfirmSubscription(s, g) ==
  /\ ~PersonLocked(s)
  /\ g \in confirmLinks[s]
  /\ person[s].status = "pending_confirmation"
  /\ person[s].grant = g
  /\ person' = [person EXCEPT ![s].status = "confirmed",
                              ![s].event = "confirmation", ![s].of = g]
  /\ confirmLinks' = [confirmLinks EXCEPT ![s] = @ \ {g}]
  /\ objected' = objected \ {s}
  /\ UNCHANGED <<queueVars, worker, events, copies>>

\* An unsubscribe or preference link; using it twice changes nothing.
Unsubscribe(s) ==
  /\ ~PersonLocked(s)
  /\ person[s].status \notin {"absent", "suppressed"}
  /\ Suppress(s, "unsubscribe")
  /\ UNCHANGED <<confirmLinks, queueVars, worker, providerVars>>

AdminSuppress(s) ==
  /\ ~PersonLocked(s)
  /\ person[s].grant # 0
  /\ person' = [person EXCEPT ![s].status = "suppressed",
                  ![s].event = "admin_correction", ![s].of = person[s].grant]
  /\ UNCHANGED <<confirmLinks, queueVars, worker, providerVars>>

-----------------------------------------------------------------------------
(* Campaigns: the site-admin route, one transaction on the locked row.      *)

MoveCampaign(c, from, to) ==
  /\ ~CampaignLocked(c)
  /\ campaign[c] = from
  /\ campaign' = [campaign EXCEPT ![c] = to]
  /\ UNCHANGED <<consentVars, slotFree, worker, providerVars>>

Create(c) == MoveCampaign(c, "absent", "draft") /\ UNCHANGED delivery
Approve(c) == MoveCampaign(c, "draft", "approved") /\ UNCHANGED delivery
Pause(c) == MoveCampaign(c, "released", "paused") /\ UNCHANGED delivery
Resume(c) == MoveCampaign(c, "paused", "released") /\ UNCHANGED delivery

Enqueue(ds) == delivery' = [d \in Deliveries |->
  IF d \in ds /\ delivery[d].status = "none"
    THEN [delivery[d] EXCEPT !.status = "queued"] ELSE delivery[d]]

\* The foreign key of a new delivery waits for the person's row.
Release(c) ==
  LET audience == {s \in Subscribers : Confirmed(s)} IN
    /\ \A s \in audience : ~PersonLocked(s)
    /\ MoveCampaign(c, "approved", "released")
    /\ Enqueue({<<c, s, "campaign">> : s \in audience})

QueueTest(c, s) ==
  LET d == <<c, s, "test">> IN
    /\ s \in Testers
    /\ ~PersonLocked(s)
    /\ ~CampaignLocked(c)
    /\ campaign[c] = "approved"
    /\ Confirmed(s)
    /\ delivery[d].status = "none"
    /\ Enqueue({d})
    /\ UNCHANGED <<consentVars, campaign, slotFree, worker, providerVars>>

-----------------------------------------------------------------------------
(* The worker's first transaction: claimNext.                               *)

\* Mutants: a stuck claim is queued again, or left alone.
SweptRequeues == [d \in Deliveries |->
  IF delivery[d].status = "sending" /\ delivery[d].stale
    THEN [delivery[d] EXCEPT !.status = "queued", !.stale = FALSE] ELSE delivery[d]]
SweptNothing == delivery

\* Claims older than fifteen minutes fail: their outcome is unknown.
Swept == [d \in Deliveries |->
  IF delivery[d].status = "sending" /\ delivery[d].stale
    THEN [delivery[d] EXCEPT !.status = "failed", !.stale = FALSE] ELSE delivery[d]]

\* The sweep waits for the row of a claim that is being sent.
SweepBlocked == \E w \in Workers :
  Sending(w) /\ delivery[worker[w].claim].stale

MaySend(d) ==
  CASE KindOf(d) = "campaign" -> campaign[CampaignOf(d)] = "released"
    [] KindOf(d) = "test" -> campaign[CampaignOf(d)] \in {"approved", "released"}

Eligible == {d \in Deliveries : delivery[d].status = "queued" /\ MaySend(d)}

\* Tests go first; the queue's order among the rest is left open.
Candidates == LET tests == {d \in Eligible : KindOf(d) = "test"} IN
  IF tests # {} THEN tests ELSE Eligible

\* Mutant: messages on their way are forgotten.
UnfinishedQueuedOnly(c, rows) == {s \in Subscribers :
  rows[<<c, s, "campaign">>].status = "queued"}

Unfinished(c, rows) == {s \in Subscribers :
  rows[<<c, s, "campaign">>].status \in {"queued", "sending"}}

SlotTaken ==
  /\ ~slotFree
  /\ delivery' = Swept
  /\ UNCHANGED <<campaign, slotFree, worker>>

\* Mutant: only senders complete campaigns.
NothingQueuedLeaves ==
  /\ slotFree
  /\ Eligible = {}
  /\ delivery' = Swept
  /\ UNCHANGED <<campaign, slotFree, worker>>

NothingQueued ==
  /\ slotFree
  /\ Eligible = {}
  /\ delivery' = Swept
  /\ campaign' = [c \in Campaigns |->
       IF campaign[c] = "released" /\ Unfinished(c, Swept) = {}
         THEN "completed" ELSE campaign[c]]
  /\ UNCHANGED <<slotFree, worker>>

NoConsent(d) ==
  /\ slotFree
  /\ d \in Candidates
  /\ ~PersonLocked(PersonOf(d))
  /\ ~Confirmed(PersonOf(d))
  /\ delivery' = [Swept EXCEPT ![d].status = "suppressed"]
  /\ UNCHANGED <<campaign, slotFree, worker>>

Claim(w, d) ==
  /\ slotFree
  /\ d \in Candidates
  /\ ~PersonLocked(PersonOf(d))
  /\ Confirmed(PersonOf(d))
  /\ delivery' = [Swept EXCEPT ![d].status = "sending", ![d].stale = FALSE]
  /\ slotFree' = FALSE
  /\ worker' = [worker EXCEPT ![w].pc = "claimed", ![w].claim = d]
  /\ UNCHANGED campaign

ClaimNext(w) ==
  /\ worker[w].pc = "idle"
  /\ ~SweepBlocked
  /\ \/ SlotTaken
     \/ NothingQueued
     \/ \E d \in Deliveries : NoConsent(d) \/ Claim(w, d)
  /\ UNCHANGED <<consentVars, providerVars>>

-----------------------------------------------------------------------------
(* The worker's second transaction: sendClaim.                              *)

Finish(w) == worker' = [worker EXCEPT ![w] = Idle]

\* The rows are locked and read, then one of the three branches is taken.
Deferred(w, d) ==
  /\ delivery[d].status = "sending"
  /\ Confirmed(PersonOf(d))
  /\ campaign[CampaignOf(d)] = "paused"
  /\ KindOf(d) = "campaign"
  /\ delivery' = [delivery EXCEPT ![d].status = "queued", ![d].stale = FALSE]
  /\ Finish(w)

Passes(d) == /\ Confirmed(PersonOf(d))
             /\ delivery[d].status = "sending"
             /\ MaySend(d)

Withdrawn(w, d) ==
  /\ ~Passes(d)
  /\ ~(/\ delivery[d].status = "sending" /\ Confirmed(PersonOf(d))
       /\ campaign[CampaignOf(d)] = "paused" /\ KindOf(d) = "campaign")
  /\ delivery' = [delivery EXCEPT ![d].status = "suppressed", ![d].stale = FALSE]
  /\ Finish(w)

StartCall(w, d) ==
  /\ Passes(d)
  /\ worker' = [worker EXCEPT ![w].pc = "calling"]
  /\ UNCHANGED delivery

Recheck(w) ==
  LET d == worker[w].claim IN
    /\ worker[w].pc = "claimed"
    /\ ~PersonLocked(PersonOf(d))
    /\ Deferred(w, d) \/ Withdrawn(w, d) \/ StartCall(w, d)
    /\ UNCHANGED <<consentVars, campaign, slotFree, providerVars>>

\* What the provider did and what the worker was told: a call that timed out
\* may have been accepted, an answer may lack the message id.  The campaign is
\* looked at in the same transaction, where the rows other senders have not
\* committed still read "sending".
Call(w) ==
  LET d == worker[w].claim
      c == CampaignOf(d) IN
    /\ worker[w].pc = "calling"
    /\ \E taken, told, named \in BOOLEAN :
         /\ named => told
         /\ told => taken
         /\ copies' = [copies EXCEPT ![d] = IF taken THEN @ + 1 ELSE @]
         /\ worker' = [worker EXCEPT ![w] =
              [pc |-> "recorded", claim |-> d, ok |-> told, named |-> named,
               drained |-> /\ KindOf(d) = "campaign"
                           /\ campaign[c] = "released"
                           /\ Unfinished(c, delivery) \ {PersonOf(d)} = {}]]
    /\ UNCHANGED <<consentVars, queueVars, events, objected>>

Commit(w) ==
  LET d == worker[w].claim IN
    /\ worker[w].pc = "recorded"
    /\ delivery' = [delivery EXCEPT ![d] =
         [status |-> IF worker[w].ok THEN "accepted" ELSE "failed",
          stale |-> FALSE, messageId |-> worker[w].named]]
    /\ campaign' = IF worker[w].drained
                     THEN [campaign EXCEPT ![CampaignOf(d)] = "completed"] ELSE campaign
    /\ Finish(w)
    /\ UNCHANGED <<consentVars, slotFree, providerVars>>

\* The process dies, or the transaction is aborted: what was not committed is
\* gone, and the delivery still reads "sending".
Crash(w) ==
  /\ worker[w].pc # "idle"
  /\ Finish(w)
  /\ UNCHANGED <<consentVars, queueVars, providerVars>>

-----------------------------------------------------------------------------
(* Feedback and time.                                                       *)

Refusals == Feedback \ {"temporary_failure"}

\* Mutant: an event that was recorded before counts again.
ProviderEventUnchecked(d, type) ==
  LET s == PersonOf(d) IN
    /\ copies[d] > 0
    /\ delivery[d].messageId
    /\ ~PersonLocked(s)
    /\ objected' = IF type \in Refusals THEN objected \union {s} ELSE objected
    /\ events' = events \union {<<d, type>>}
    /\ IF type \in Refusals /\ person[s].status # "suppressed"
         THEN Suppress(s, type) ELSE UNCHANGED person
    /\ UNCHANGED <<confirmLinks, queueVars, worker, copies>>

\* The provider reports on a message it accepted, once or again.  Without the
\* message id of a committed delivery the event is turned away.
ProviderEvent(d, type) ==
  LET s == PersonOf(d) IN
    /\ copies[d] > 0
    /\ objected' = IF type \in Refusals THEN objected \union {s} ELSE objected
    /\ \/ /\ ~delivery[d].messageId \/ <<d, type>> \in events
          /\ UNCHANGED <<person, delivery, events>>
       \/ /\ delivery[d].messageId
          /\ <<d, type>> \notin events
          /\ ~PersonLocked(s)
          /\ events' = events \union {<<d, type>>}
          /\ delivery' = CASE type = "temporary_failure" -> delivery
               [] type = "permanent_failure" -> [delivery EXCEPT ![d].status = "failed"]
               [] OTHER -> [delivery EXCEPT ![d].status = "suppressed"]
          /\ IF type \in Refusals /\ person[s].status # "suppressed"
               THEN Suppress(s, type) ELSE UNCHANGED person
    /\ UNCHANGED <<confirmLinks, campaign, slotFree, worker, copies>>

\* Fifteen minutes since the claim.
GoStale(d) ==
  /\ delivery[d].status = "sending"
  /\ ~delivery[d].stale
  /\ delivery' = [delivery EXCEPT ![d].stale = TRUE]
  /\ UNCHANGED <<consentVars, campaign, slotFree, worker, providerVars>>

\* The send interval has passed.
SlotFrees ==
  /\ ~slotFree
  /\ slotFree' = TRUE
  /\ UNCHANGED <<consentVars, campaign, delivery, worker, providerVars>>

Consent == \E s \in Subscribers :
  \/ RequestSubscription(s) \/ Unsubscribe(s) \/ AdminSuppress(s)
  \/ \E g \in 1..MaxGrants : ConfirmSubscription(s, g)

Administer == \E c \in Campaigns :
  \/ Create(c) \/ Approve(c) \/ Release(c) \/ Pause(c) \/ Resume(c)
  \/ \E s \in Subscribers : QueueTest(c, s)

Work == \E w \in Workers :
  ClaimNext(w) \/ Recheck(w) \/ Call(w) \/ Commit(w) \/ Crash(w)

Next == \/ Consent \/ Administer \/ Work \/ SlotFrees
        \/ \E d \in Deliveries : GoStale(d)
        \/ \E d \in Deliveries, type \in Feedback : ProviderEvent(d, type)

\* Cron keeps calling the route and time passes; a worker that is alive goes on.
Fairness ==
  /\ WF_vars(\E w \in Workers : ClaimNext(w))
  /\ WF_vars(SlotFrees)
  /\ \A d \in Deliveries : WF_vars(GoStale(d))
  /\ \A w \in Workers : WF_vars(Recheck(w) \/ Call(w) \/ Commit(w))

Spec == Init /\ [][Next]_vars
FairSpec == Spec /\ Fairness

-----------------------------------------------------------------------------
(* Types. *)

ConsentEvents == {"none", "grant", "confirmation", "unsubscribe", "admin_correction"}
                   \union Refusals

PersonRows == [status : {"absent", "pending_confirmation", "confirmed", "suppressed"},
               grant : 0..MaxGrants, event : ConsentEvents, of : 0..MaxGrants]
CampaignStatus == {"absent", "draft", "approved", "released", "paused", "completed"}
DeliveryRows == [status : {"none", "queued", "sending", "accepted", "failed", "suppressed"},
                 stale : BOOLEAN, messageId : BOOLEAN]
WorkerStates == [pc : {"idle", "claimed", "calling", "recorded"},
                 claim : Deliveries \union {NoDelivery},
                 ok : BOOLEAN, named : BOOLEAN, drained : BOOLEAN]

\* Every row has the shape the tables allow, a worker that is not idle holds a
\* delivery, and only a claim of a sender that is about to commit completes a
\* campaign (marketing.ts and the CHECKs of migration 0077).
TypeOK ==
  /\ person \in [Subscribers -> PersonRows]
  /\ confirmLinks \in [Subscribers -> SUBSET (1..MaxGrants)]
  /\ campaign \in [Campaigns -> CampaignStatus]
  /\ delivery \in [Deliveries -> DeliveryRows]
  /\ slotFree \in BOOLEAN
  /\ worker \in [Workers -> WorkerStates]
  /\ \A w \in Workers : worker[w].pc # "idle" => worker[w].claim \in Deliveries
  /\ \A w \in Workers : worker[w].drained => worker[w].pc = "recorded"
  /\ events \in SUBSET (Deliveries \X Feedback)
  /\ copies \in [Deliveries -> Nat]
  /\ objected \in SUBSET Subscribers

(* What must hold. *)

Mailing == INSTANCE ConsentedMailing WITH
  People <- Subscribers, Messages <- Deliveries, To <- [d \in Deliveries |-> PersonOf(d)],
  consenting <- {s \in Subscribers : Confirmed(s)}, copies <- copies

\* Whatever workers die or overlap, nobody gets a message twice and nobody gets
\* one who is not confirmed at the moment the provider takes it
\* (product-news-delivery.ts:38 and 96-97).
SendsAreConsented == Mailing!MailingSpec

\* The consent history backs the state of an address: confirmed rests on the
\* confirmation of the latest grant and nothing after it, so an older link or a
\* late withdrawal cannot leave an address confirmed that should not be
\* (marketing_confirm_subscription).
ConsentEvidence == \A s \in Subscribers :
  /\ Confirmed(s) => person[s].event = "confirmation" /\ person[s].of = person[s].grant
  /\ person[s].status = "pending_confirmation" => person[s].event = "grant"

\* A campaign is not completed while a message of it is queued or on its way,
\* though completion is decided by two transactions and neither locks the
\* deliveries (product-news-delivery.ts:57 and 148).
CompletedIsDrained == \A d \in Deliveries :
  KindOf(d) = "campaign" /\ campaign[CampaignOf(d)] = "completed"
    => delivery[d].status \notin {"queued", "sending"}

\* An event the provider repeats does not undo a consent given after it was
\* first recorded (marketing_record_provider_event).
RepeatedEventIsInert ==
  [][\A s \in Subscribers :
       /\ person[s].status # "suppressed"
       /\ person'[s].status = "suppressed"
       /\ person'[s].event \in Refusals
       => \E d \in Deliveries :
            PersonOf(d) = s /\ <<d, person'[s].event>> \in events' \ events]_vars

\* A claim whose worker died does not stay "sending" for ever: the sweep of a
\* later batch settles it (product-news-delivery.ts:39).
ClaimsSettle == \A d \in Deliveries :
  delivery[d].status = "sending" ~> delivery[d].status # "sending"

\* A released campaign that is not paused comes to its end, also when the
\* senders of its last two messages each saw the other still sending
\* (product-news-delivery.ts:57 and 148).
ReleasedEnds == \A c \in Campaigns :
  campaign[c] = "released" ~> campaign[c] \in {"completed", "paused"}

\* "Permanent failures, complaints, and provider unsubscribes suppress the
\* subscriber": no call starts for a person whose refusal the provider reported
\* (marketing_record_provider_event).
RefusalsAreHonoured == \A w \in Workers :
  worker[w].pc = "claimed" /\ Passes(worker[w].claim)
    => PersonOf(worker[w].claim) \notin objected
=============================================================================
