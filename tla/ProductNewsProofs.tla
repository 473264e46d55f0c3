------------------------- MODULE ProductNewsProofs -------------------------
(***************************************************************************)
(* Theorems about ProductNews: its types, the row locks and claims, the    *)
(* copies that are out, the refinement of ConsentedMailing, the evidence   *)
(* of consent and the completion of campaigns.                             *)
(***************************************************************************)
EXTENDS ProductNews, TLAPS

(* A delivery is made of a campaign, a person and a kind. *)
LEMMA Parts ==
  ASSUME NEW d \in Deliveries
  PROVE  /\ CampaignOf(d) \in Campaigns /\ PersonOf(d) \in Subscribers
         /\ KindOf(d) \in Kinds
         /\ d = <<CampaignOf(d), PersonOf(d), KindOf(d)>>
         /\ d # NoDelivery
BY NoDeliveryAssumption DEF Deliveries, CampaignOf, PersonOf, KindOf

LEMMA Triple ==
  ASSUME NEW c \in Campaigns, NEW s \in Subscribers, NEW k \in Kinds
  PROVE  /\ <<c, s, k>> \in Deliveries
         /\ CampaignOf(<<c, s, k>>) = c /\ PersonOf(<<c, s, k>>) = s
         /\ KindOf(<<c, s, k>>) = k
BY DEF Deliveries, CampaignOf, PersonOf, KindOf

-----------------------------------------------------------------------------
(* Types *)

(* The sweep and the queueing of deliveries return tables of rows. *)
LEMMA RowsTyped ==
  ASSUME TypeOK
  PROVE  /\ Swept \in [Deliveries -> DeliveryRows]
         /\ \A ds : Enqueue(ds) => delivery' \in [Deliveries -> DeliveryRows]
<1>1. \A d \in Deliveries : delivery[d] \in DeliveryRows
  BY DEF TypeOK
<1>2. Swept \in [Deliveries -> DeliveryRows]
  BY <1>1 DEF Swept, DeliveryRows
<1>3. \A ds : Enqueue(ds) => delivery' \in [Deliveries -> DeliveryRows]
  BY <1>1 DEF Enqueue, DeliveryRows
<1> QED BY <1>2, <1>3

LEMMA IdleTyped == Idle \in WorkerStates
BY DEF Idle, WorkerStates

(* Consent changes the row of one person and nothing that others hold. *)
LEMMA ConsentTyped == TypeOK /\ Consent => TypeOK'
<1> SUFFICES ASSUME TypeOK, NEW s \in Subscribers,
                    \/ RequestSubscription(s) \/ Unsubscribe(s) \/ AdminSuppress(s)
                    \/ \E g \in 1..MaxGrants : ConfirmSubscription(s, g)
             PROVE  TypeOK'
  BY DEF Consent
<1> USE GrantsAssumption DEF TypeOK, PersonRows, ConsentEvents, Refusals, Feedback,
      queueVars, providerVars, Suppress
<1>0. person[s] \in PersonRows /\ confirmLinks[s] \in SUBSET (1..MaxGrants)
  OBVIOUS
<1>1. CASE RequestSubscription(s)
  BY <1>0, <1>1 DEF RequestSubscription
<1>2. CASE Unsubscribe(s)
  BY <1>0, <1>2 DEF Unsubscribe
<1>3. CASE AdminSuppress(s)
  BY <1>0, <1>3 DEF AdminSuppress
<1>4. ASSUME NEW g \in 1..MaxGrants, ConfirmSubscription(s, g) PROVE TypeOK'
  BY <1>0, <1>4 DEF ConfirmSubscription
<1> QED BY <1>1, <1>2, <1>3, <1>4

(* An administrator moves one campaign and queues deliveries. *)
LEMMA AdministerTyped == TypeOK /\ Administer => TypeOK'
<1> SUFFICES ASSUME TypeOK, NEW c \in Campaigns,
                    \/ Create(c) \/ Approve(c) \/ Release(c) \/ Pause(c) \/ Resume(c)
                    \/ \E s \in Subscribers : QueueTest(c, s)
             PROVE  TypeOK'
  BY DEF Administer
<1>1. delivery' \in [Deliveries -> DeliveryRows]
  BY RowsTyped DEF TypeOK, Create, Approve, Release, Pause, Resume, QueueTest
<1>2. campaign' \in [Campaigns -> CampaignStatus]
  BY DEF TypeOK, Create, Approve, Release, Pause, Resume, QueueTest, MoveCampaign,
         CampaignStatus
<1>3. UNCHANGED <<consentVars, slotFree, worker, providerVars>>
  BY DEF Create, Approve, Release, Pause, Resume, QueueTest, MoveCampaign
<1> QED BY <1>1, <1>2, <1>3 DEF TypeOK, consentVars, providerVars

(* A worker changes the row of its claim and its own state. *)
LEMMA WorkTyped == TypeOK /\ Work => TypeOK'
<1> SUFFICES ASSUME TypeOK, NEW w \in Workers,
                    ClaimNext(w) \/ Recheck(w) \/ Call(w) \/ Commit(w) \/ Crash(w)
             PROVE  TypeOK'
  BY DEF Work
<1> DEFINE d == worker[w].claim
<1>0. /\ worker[w] \in WorkerStates
      /\ worker[w].pc # "idle" => d \in Deliveries /\ delivery[d] \in DeliveryRows
      /\ Swept \in [Deliveries -> DeliveryRows]
  BY RowsTyped DEF TypeOK
<1> DEFINE WorkerOK == /\ worker' \in [Workers -> WorkerStates]
                       /\ \A v \in Workers : worker'[v].pc # "idle" => worker'[v].claim \in Deliveries
                       /\ \A v \in Workers : worker'[v].drained => worker'[v].pc = "recorded"
<1>a. Finish(w) => WorkerOK
  BY IdleTyped DEF Finish, TypeOK, Idle
<1>b. UNCHANGED worker => WorkerOK
  BY DEF TypeOK
<1>1. CASE ClaimNext(w)
  <2>0. \A e \in Deliveries : Swept[e] \in DeliveryRows
    BY <1>0
  <2>1. CASE SlotTaken
    BY <1>0, <1>1, <1>b, <2>1 DEF ClaimNext, SlotTaken, TypeOK, consentVars, providerVars
  <2>2. CASE NothingQueued
    <3>1. campaign' \in [Campaigns -> CampaignStatus]
      BY <2>2 DEF NothingQueued, TypeOK, CampaignStatus
    <3> QED BY <1>0, <1>1, <1>b, <2>2, <3>1
            DEF ClaimNext, NothingQueued, TypeOK, consentVars, providerVars
  <2>3. ASSUME NEW e \in Deliveries, NoConsent(e) PROVE TypeOK'
    <3>1. delivery' \in [Deliveries -> DeliveryRows]
      BY <1>0, <2>0, <2>3 DEF NoConsent, DeliveryRows
    <3> QED BY <1>1, <1>b, <2>3, <3>1
            DEF ClaimNext, NoConsent, TypeOK, consentVars, providerVars
  <2>4. ASSUME NEW e \in Deliveries, Claim(w, e) PROVE TypeOK'
    <3>1. delivery' \in [Deliveries -> DeliveryRows]
      BY <1>0, <2>0, <2>4 DEF Claim, DeliveryRows
    <3>2. worker[w].drained = FALSE
      BY <1>0, <1>1 DEF ClaimNext, TypeOK, WorkerStates
    <3>3. WorkerOK
      BY <1>0, <2>4, <3>2 DEF Claim, TypeOK, WorkerStates
    <3> QED BY <1>1, <2>4, <3>1, <3>3
            DEF ClaimNext, Claim, TypeOK, consentVars, providerVars
  <2> QED BY <1>1, <2>1, <2>2, <2>3, <2>4 DEF ClaimNext
<1>2. CASE Recheck(w)
  <2>0. d \in Deliveries /\ delivery[d] \in DeliveryRows
    BY <1>0, <1>2 DEF Recheck
  <2>1. delivery' \in [Deliveries -> DeliveryRows]
    BY <2>0, <1>2 DEF Recheck, Deferred, Withdrawn, StartCall, TypeOK, DeliveryRows
  <2>2. CASE StartCall(w, d)
    <3>1. worker[w].drained = FALSE
      BY <1>0, <1>2 DEF Recheck, TypeOK, WorkerStates
    <3>2. WorkerOK
      BY <1>0, <2>0, <2>2, <3>1 DEF StartCall, TypeOK, WorkerStates
    <3> QED BY <1>2, <2>1, <3>2 DEF TypeOK, Recheck, consentVars, providerVars
  <2>3. CASE Finish(w)
    BY <1>2, <1>a, <2>1, <2>3 DEF TypeOK, Recheck, consentVars, providerVars
  <2> QED BY <1>2, <2>2, <2>3 DEF Recheck, Deferred, Withdrawn
<1>3. CASE Call(w)
  <2>0. d \in Deliveries
    BY <1>0, <1>3 DEF Call
  <2>1. PICK taken \in BOOLEAN, told \in BOOLEAN, named \in BOOLEAN, dr \in BOOLEAN :
          /\ copies' = [copies EXCEPT ![d] = IF taken THEN @ + 1 ELSE @]
          /\ worker' = [worker EXCEPT ![w] =
               [pc |-> "recorded", claim |-> d, ok |-> told, named |-> named,
                drained |-> dr]]
    BY <1>3 DEF Call
  <2>2. copies' \in [Deliveries -> Nat]
    BY <2>0, <2>1 DEF TypeOK
  <2>3. /\ worker' \in [Workers -> WorkerStates]
        /\ \A v \in Workers : worker'[v].pc # "idle" => worker'[v].claim \in Deliveries
        /\ \A v \in Workers : worker'[v].drained => worker'[v].pc = "recorded"
    BY <2>0, <2>1 DEF TypeOK, WorkerStates
  <2> QED BY <1>3, <2>2, <2>3 DEF TypeOK, Call, consentVars, queueVars
<1>4. CASE Commit(w)
  <2>1. delivery' \in [Deliveries -> DeliveryRows]
    BY <1>0, <1>4 DEF Commit, TypeOK, DeliveryRows, WorkerStates
  <2>2. campaign' \in [Campaigns -> CampaignStatus]
    BY <1>4 DEF Commit, TypeOK, CampaignStatus
  <2>3. /\ worker' \in [Workers -> WorkerStates]
        /\ \A v \in Workers : worker'[v].pc # "idle" => worker'[v].claim \in Deliveries
        /\ \A v \in Workers : worker'[v].drained => worker'[v].pc = "recorded"
    BY <1>4 DEF Commit, Finish, Idle, TypeOK, WorkerStates
  <2> QED BY <1>4, <2>1, <2>2, <2>3 DEF TypeOK, Commit, consentVars, providerVars
<1>5. CASE Crash(w)
  BY <1>5 DEF Crash, Finish, Idle, TypeOK, WorkerStates, consentVars, queueVars,
              providerVars
<1> QED BY <1>1, <1>2, <1>3, <1>4, <1>5

(* Feedback touches the row of a delivery and of its person. *)
LEMMA EventTyped ==
  ASSUME TypeOK, NEW d \in Deliveries, NEW type \in Feedback, ProviderEvent(d, type)
  PROVE  TypeOK'
<1>1. person' \in [Subscribers -> PersonRows]
  BY Parts, SMTT(20) DEF ProviderEvent, TypeOK, Suppress, PersonRows, ConsentEvents
<1>2. delivery' \in [Deliveries -> DeliveryRows]
  BY SMTT(20) DEF ProviderEvent, TypeOK, DeliveryRows
<1>3. events' \in SUBSET (Deliveries \X Feedback) /\ objected' \in SUBSET Subscribers
  BY Parts DEF ProviderEvent, TypeOK
<1> QED BY <1>1, <1>2, <1>3 DEF ProviderEvent, TypeOK

LEMMA InitTyped == Init => TypeOK
BY GrantsAssumption DEF Init, TypeOK, PersonRows, ConsentEvents, NoRow, NotQueued,
   DeliveryRows, CampaignStatus, WorkerStates, Idle

LEMMA TypeStep == TypeOK /\ [Next]_vars => TypeOK'
<1> SUFFICES ASSUME TypeOK, [Next]_vars PROVE TypeOK'
  OBVIOUS
<1>1. CASE SlotFrees
  BY <1>1 DEF SlotFrees, TypeOK, consentVars, providerVars
<1>2. ASSUME NEW d \in Deliveries, GoStale(d) PROVE TypeOK'
  BY <1>2 DEF GoStale, TypeOK, DeliveryRows, consentVars, providerVars
<1>3. CASE UNCHANGED vars
  BY <1>3 DEF vars, TypeOK
<1> QED
  BY <1>1, <1>2, <1>3, ConsentTyped, AdministerTyped, WorkTyped, EventTyped DEF Next

(* Rows and workers keep their shape (migration 0077). *)
THEOREM NewsTypes == Spec => []TypeOK
BY InitTyped, TypeStep, PTL DEF Spec

-----------------------------------------------------------------------------
(* Who holds what, and which copies can be out *)

(* A claim belongs to one worker, a person's row to one sender. *)
ClaimsDistinct ==
  \A v, w \in Workers : v # w /\ worker[v].pc # "idle" /\ worker[w].pc # "idle"
                          => worker[v].claim # worker[w].claim
PeopleDistinct ==
  \A v, w \in Workers : v # w /\ Sending(v) /\ Sending(w)
                          => PersonOf(worker[v].claim) # PersonOf(worker[w].claim)

(* What a sender has locked stays as it was when it passed the checks. *)
SendersHold ==
  \A w \in Workers : Sending(w) => /\ delivery[worker[w].claim].status = "sending"
                                   /\ Confirmed(PersonOf(worker[w].claim))

(* A claimed message left the queue. *)
ClaimsTaken ==
  \A w \in Workers : worker[w].pc # "idle"
                       => delivery[worker[w].claim].status \notin {"none", "queued"}

(* What is queued, or claimed and not handed over, has no copy out. *)
QueuedFresh ==
  \A d \in Deliveries : delivery[d].status \in {"none", "queued"} => copies[d] = 0
ClaimedFresh ==
  \A w \in Workers : /\ worker[w].pc \in {"claimed", "calling"}
                     /\ delivery[worker[w].claim].status = "sending"
                     => copies[worker[w].claim] = 0

LocksInv == ClaimsDistinct /\ PeopleDistinct /\ SendersHold /\ ClaimsTaken
CopiesInv == QueuedFresh /\ ClaimedFresh
MailInv == LocksInv /\ CopiesInv

(* How a step that hands nothing over may change the row of a delivery. *)
MayBecome(d) ==
  \/ delivery'[d].status = delivery[d].status
  \/ /\ delivery'[d].status = "queued"
     /\ copies[d] = 0
     /\ \A v \in Workers : worker'[v].pc # "idle" => worker'[v].claim # d
  \/ /\ delivery'[d].status \in {"accepted", "failed", "suppressed"}
     /\ \A v \in Workers : worker'[v].pc \in {"calling", "recorded"}
                             => worker'[v].claim # d

(* Steps that only end claims, requeue or settle deliveries and leave the     *)
(* people alone whose rows are locked keep the invariant.                     *)
LEMMA Frame ==
  ASSUME TypeOK, TypeOK', MailInv, UNCHANGED copies,
         \A v \in Workers : worker'[v] = worker[v] \/ worker'[v].pc = "idle",
         \A v \in Workers : Sending(v) /\ worker'[v] = worker[v]
           => person'[PersonOf(worker[v].claim)].status = "confirmed",
         \A d \in Deliveries : MayBecome(d)
  PROVE  MailInv'
<1>0. \A v \in Workers : /\ worker[v].pc # "idle" => worker[v].claim \in Deliveries
                         /\ worker'[v].pc # "idle" => worker'[v].claim \in Deliveries
  BY DEF TypeOK
<1>1. ClaimsDistinct'
  BY DEF MailInv, LocksInv, ClaimsDistinct
<1>2. PeopleDistinct'
  BY DEF MailInv, LocksInv, PeopleDistinct, Sending
<1>3. SendersHold'
  <2> SUFFICES ASSUME NEW w \in Workers, Sending(w)'
               PROVE  /\ delivery'[worker'[w].claim].status = "sending"
                      /\ person'[PersonOf(worker'[w].claim)].status = "confirmed"
    BY DEF SendersHold, Confirmed
  <2>1. worker'[w] = worker[w] /\ Sending(w) /\ worker[w].claim \in Deliveries
    BY <1>0 DEF Sending
  <2>2. delivery[worker[w].claim].status = "sending"
    BY <2>1 DEF MailInv, LocksInv, SendersHold
  <2>3. MayBecome(worker[w].claim)
    BY <2>1
  <2> QED BY <2>1, <2>2, <2>3 DEF MayBecome, Sending
<1>4. ClaimsTaken'
  <2> SUFFICES ASSUME NEW w \in Workers, worker'[w].pc # "idle"
               PROVE  delivery'[worker'[w].claim].status \notin {"none", "queued"}
    BY DEF ClaimsTaken
  <2>1. worker'[w] = worker[w] /\ worker[w].claim \in Deliveries
    BY <1>0
  <2>2. delivery[worker[w].claim].status \notin {"none", "queued"}
    BY <2>1 DEF MailInv, LocksInv, ClaimsTaken
  <2>3. MayBecome(worker[w].claim)
    BY <2>1
  <2> QED BY <2>1, <2>2, <2>3 DEF MayBecome
<1>5. QueuedFresh'
  BY DEF MailInv, CopiesInv, QueuedFresh, MayBecome
<1>6. ClaimedFresh'
  <2> SUFFICES ASSUME NEW w \in Workers, worker'[w].pc \in {"claimed", "calling"},
                      delivery'[worker'[w].claim].status = "sending"
               PROVE  copies'[worker'[w].claim] = 0
    BY DEF ClaimedFresh
  <2>1. worker'[w] = worker[w] /\ worker[w].claim \in Deliveries
    BY <1>0
  <2>2. MayBecome(worker[w].claim)
    BY <2>1
  <2>3. delivery[worker[w].claim].status = "sending"
    BY <2>1, <2>2 DEF MayBecome
  <2> QED BY <2>1, <2>3 DEF MailInv, CopiesInv, ClaimedFresh
<1> QED BY <1>1, <1>2, <1>3, <1>4, <1>5, <1>6 DEF MailInv, LocksInv, CopiesInv

(* The people whose rows are locked are confirmed. *)
LEMMA LockedConfirmed ==
  ASSUME MailInv, NEW v \in Workers, Sending(v)
  PROVE  /\ person[PersonOf(worker[v].claim)].status = "confirmed"
         /\ PersonLocked(PersonOf(worker[v].claim))
BY DEF MailInv, LocksInv, SendersHold, Confirmed, PersonLocked

LEMMA ConsentMail == TypeOK /\ TypeOK' /\ MailInv /\ Consent => MailInv'
<1> SUFFICES ASSUME TypeOK, TypeOK', MailInv, NEW s \in Subscribers,
                    \/ RequestSubscription(s) \/ Unsubscribe(s) \/ AdminSuppress(s)
                    \/ \E g \in 1..MaxGrants : ConfirmSubscription(s, g)
             PROVE  MailInv'
  BY DEF Consent
<1>1. UNCHANGED <<worker, delivery, copies>>
  BY DEF RequestSubscription, Unsubscribe, AdminSuppress, ConfirmSubscription,
         queueVars, providerVars
<1>2. ~PersonLocked(s) /\ \A t \in Subscribers : t # s => person'[t] = person[t]
  BY DEF RequestSubscription, Unsubscribe, AdminSuppress, ConfirmSubscription,
         Suppress, TypeOK
<1>3. \A v \in Workers : Sending(v)
        => /\ PersonOf(worker[v].claim) \in Subscribers
           /\ PersonOf(worker[v].claim) # s
  BY <1>2, LockedConfirmed, Parts DEF TypeOK, Sending
<1>4. \A v \in Workers : Sending(v) => person'[PersonOf(worker[v].claim)].status = "confirmed"
  BY <1>2, <1>3, LockedConfirmed
<1>5. \A d \in Deliveries : MayBecome(d)
  BY <1>1 DEF MayBecome
<1> QED BY <1>1, <1>4, <1>5, Frame

LEMMA AdministerMail == TypeOK /\ TypeOK' /\ MailInv /\ Administer => MailInv'
<1> SUFFICES ASSUME TypeOK, TypeOK', MailInv, Administer PROVE MailInv'
  OBVIOUS
<1>1. UNCHANGED <<worker, person, copies>>
  BY DEF Administer, Create, Approve, Release, Pause, Resume, QueueTest, MoveCampaign,
         consentVars, providerVars
<1>2. \A d \in Deliveries :
        \/ delivery'[d].status = delivery[d].status
        \/ delivery[d].status = "none" /\ delivery'[d].status = "queued"
  <2>1. UNCHANGED delivery \/ \E ds : Enqueue(ds)
    BY DEF Administer, Create, Approve, Release, Pause, Resume, QueueTest
  <2>2. ASSUME NEW ds, Enqueue(ds), NEW d \in Deliveries
        PROVE  \/ delivery'[d].status = delivery[d].status
               \/ delivery[d].status = "none" /\ delivery'[d].status = "queued"
    <3>1. delivery[d] \in DeliveryRows
      BY DEF TypeOK
    <3> QED BY <2>2, <3>1 DEF Enqueue, DeliveryRows
  <2> QED BY <2>1, <2>2
<1>3. \A d \in Deliveries : MayBecome(d)
  BY <1>1, <1>2 DEF MayBecome, MailInv, LocksInv, CopiesInv, ClaimsTaken, QueuedFresh
<1> QED BY <1>1, <1>3, LockedConfirmed, Frame

(* The sweep fails only claims that nobody is sending. *)
LEMMA SweepMail ==
  ASSUME TypeOK, MailInv, ~SweepBlocked, NEW d \in Deliveries
  PROVE  /\ Swept[d] \in DeliveryRows
         /\ \/ Swept[d] = delivery[d]
            \/ /\ Swept[d].status = "failed" /\ delivery[d].status = "sending"
               /\ \A v \in Workers : Sending(v) => worker[v].claim # d
<1>1. delivery[d] \in DeliveryRows
  BY DEF TypeOK
<1> QED BY <1>1, RowsTyped DEF Swept, SweepBlocked, DeliveryRows

LEMMA ClaimMail ==
  ASSUME TypeOK, TypeOK', MailInv, NEW w \in Workers, NEW e \in Deliveries,
         worker[w].pc = "idle", ~SweepBlocked, Claim(w, e),
         UNCHANGED <<consentVars, providerVars>>
  PROVE  MailInv'
<1>0. /\ \A d \in Deliveries : d # e => delivery'[d] = Swept[d]
      /\ delivery'[e].status = "sending"
      /\ delivery[e].status = "queued"
  BY RowsTyped DEF Claim, TypeOK, Candidates, Eligible, DeliveryRows
<1>1. /\ worker'[w].pc = "claimed" /\ worker'[w].claim = e
      /\ \A v \in Workers : v # w => worker'[v] = worker[v]
  BY DEF Claim, TypeOK, WorkerStates
<1>2. UNCHANGED <<person, copies>>
  BY DEF consentVars, providerVars
<1>3. \A v \in Workers : worker[v].pc # "idle"
        => worker[v].claim \in Deliveries /\ worker[v].claim # e
  BY <1>0 DEF MailInv, LocksInv, ClaimsTaken, TypeOK
<1>4. ClaimsDistinct'
  BY <1>1, <1>3 DEF MailInv, LocksInv, ClaimsDistinct
<1>5. PeopleDistinct'
  BY <1>1 DEF MailInv, LocksInv, PeopleDistinct, Sending
<1>6. SendersHold'
  <2> SUFFICES ASSUME NEW v \in Workers, Sending(v)'
               PROVE  /\ delivery'[worker'[v].claim].status = "sending"
                      /\ person'[PersonOf(worker'[v].claim)].status = "confirmed"
    BY DEF SendersHold, Confirmed
  <2>1. v # w /\ Sending(v) /\ worker'[v] = worker[v]
    BY <1>1 DEF Sending
  <2>2. worker[v].claim \in Deliveries /\ worker[v].claim # e
    BY <1>3, <2>1 DEF Sending
  <2>3. Swept[worker[v].claim] = delivery[worker[v].claim]
    BY <2>1, <2>2, SweepMail
  <2> QED BY <1>0, <1>2, <2>1, <2>2, <2>3, LockedConfirmed DEF MailInv, LocksInv, SendersHold
<1>7. ClaimsTaken'
  <2> SUFFICES ASSUME NEW v \in Workers, worker'[v].pc # "idle"
               PROVE  delivery'[worker'[v].claim].status \notin {"none", "queued"}
    BY DEF ClaimsTaken
  <2>1. CASE v = w
    BY <1>0, <1>1, <2>1
  <2>2. CASE v # w
    BY <1>0, <1>1, <1>3, <2>2, SweepMail DEF MailInv, LocksInv, ClaimsTaken
  <2> QED BY <2>1, <2>2
<1>8. QueuedFresh'
  BY <1>0, <1>2, SweepMail DEF MailInv, CopiesInv, QueuedFresh
<1>9. ClaimedFresh'
  <2> SUFFICES ASSUME NEW v \in Workers, worker'[v].pc \in {"claimed", "calling"},
                      delivery'[worker'[v].claim].status = "sending"
               PROVE  copies'[worker'[v].claim] = 0
    BY DEF ClaimedFresh
  <2>1. CASE v = w
    BY <1>0, <1>1, <1>2, <2>1 DEF MailInv, CopiesInv, QueuedFresh
  <2>2. CASE v # w
    BY <1>0, <1>1, <1>2, <1>3, <2>2, SweepMail DEF MailInv, CopiesInv, ClaimedFresh
  <2> QED BY <2>1, <2>2
<1> QED BY <1>4, <1>5, <1>6, <1>7, <1>8, <1>9 DEF MailInv, LocksInv, CopiesInv

LEMMA ClaimNextMail ==
  ASSUME TypeOK, TypeOK', MailInv, NEW w \in Workers, ClaimNext(w)
  PROVE  MailInv'
<1>0. UNCHANGED <<person, copies>> /\ worker[w].pc = "idle" /\ ~SweepBlocked
  BY DEF ClaimNext, consentVars, providerVars
<1>1. CASE SlotTaken \/ NothingQueued
  <2>1. delivery' = Swept /\ UNCHANGED worker
    BY <1>1 DEF SlotTaken, NothingQueued
  <2>2. \A d \in Deliveries : MayBecome(d)
    BY <1>0, <2>1, SweepMail DEF MayBecome, Sending
  <2> QED BY <1>0, <2>1, <2>2, LockedConfirmed, Frame
<1>2. ASSUME NEW e \in Deliveries, NoConsent(e) PROVE MailInv'
  <2>1. /\ \A d \in Deliveries : d # e => delivery'[d] = Swept[d]
        /\ delivery'[e].status = "suppressed"
        /\ delivery[e].status = "queued"
        /\ UNCHANGED worker
    BY <1>2, RowsTyped DEF NoConsent, Candidates, Eligible, DeliveryRows
  <2>2. \A v \in Workers : worker[v].pc # "idle" => worker[v].claim # e
    BY <2>1 DEF MailInv, LocksInv, ClaimsTaken
  <2>3. \A d \in Deliveries : MayBecome(d)
    BY <1>0, <2>1, <2>2, SweepMail DEF MayBecome, Sending
  <2> QED BY <1>0, <2>1, <2>3, LockedConfirmed, Frame
<1>3. ASSUME NEW e \in Deliveries, Claim(w, e) PROVE MailInv'
  BY <1>0, <1>3, ClaimMail DEF ClaimNext
<1> QED BY <1>1, <1>2, <1>3 DEF ClaimNext

(* Passing the checks locks a row nobody else has locked. *)
LEMMA StartCallMail ==
  ASSUME TypeOK, TypeOK', MailInv, NEW w \in Workers, worker[w].pc = "claimed",
         ~PersonLocked(PersonOf(worker[w].claim)), StartCall(w, worker[w].claim),
         UNCHANGED <<person, copies>>
  PROVE  MailInv'
<1>1. /\ worker'[w].pc = "calling" /\ worker'[w].claim = worker[w].claim
      /\ \A v \in Workers : v # w => worker'[v] = worker[v]
      /\ UNCHANGED delivery
  BY DEF StartCall, TypeOK, WorkerStates
<1>2. Confirmed(PersonOf(worker[w].claim)) /\ delivery[worker[w].claim].status = "sending"
  BY DEF StartCall, Passes
<1>3. ClaimsDistinct'
  BY <1>1 DEF MailInv, LocksInv, ClaimsDistinct
<1>4. PeopleDistinct'
  BY <1>1 DEF MailInv, LocksInv, PeopleDistinct, Sending, PersonLocked
<1>5. SendersHold'
  BY <1>1, <1>2 DEF MailInv, LocksInv, SendersHold, Sending, Confirmed
<1>6. ClaimsTaken'
  BY <1>1 DEF MailInv, LocksInv, ClaimsTaken
<1>7. QueuedFresh'
  BY <1>1 DEF MailInv, CopiesInv, QueuedFresh
<1>8. ClaimedFresh'
  BY <1>1 DEF MailInv, CopiesInv, ClaimedFresh
<1> QED BY <1>3, <1>4, <1>5, <1>6, <1>7, <1>8 DEF MailInv, LocksInv, CopiesInv

LEMMA RecheckMail ==
  ASSUME TypeOK, TypeOK', MailInv, NEW w \in Workers, Recheck(w)
  PROVE  MailInv'
<1> DEFINE d == worker[w].claim
<1>0. /\ UNCHANGED <<person, copies>> /\ worker[w].pc = "claimed"
      /\ ~PersonLocked(PersonOf(d)) /\ d \in Deliveries
      /\ delivery[d] \in DeliveryRows
  BY DEF Recheck, consentVars, providerVars, TypeOK
<1>1. CASE StartCall(w, d)
  BY <1>0, <1>1, StartCallMail
<1>2. CASE Deferred(w, d) \/ Withdrawn(w, d)
  <2>1. /\ \A e \in Deliveries : e # d => delivery'[e] = delivery[e]
        /\ delivery'[d].status = "queued" => delivery[d].status = "sending"
        /\ delivery'[d].status \in {"queued", "suppressed"}
        /\ \A v \in Workers : v # w => worker'[v] = worker[v]
        /\ worker'[w].pc = "idle"
    BY <1>0, <1>2 DEF Deferred, Withdrawn, Finish, Idle, TypeOK, DeliveryRows
  <2>2. \A v \in Workers : worker'[v].pc # "idle" => worker'[v].claim # d
    BY <1>0, <2>1 DEF MailInv, LocksInv, ClaimsDistinct
  <2>3. delivery[d].status = "sending" => copies[d] = 0
    BY <1>0 DEF MailInv, CopiesInv, ClaimedFresh
  <2>4. \A e \in Deliveries : MayBecome(e)
    BY <2>1, <2>2, <2>3 DEF MayBecome
  <2> QED BY <1>0, <2>1, <2>4, LockedConfirmed, Frame
<1> QED BY <1>1, <1>2 DEF Recheck

(* The call hands over a message that had no copy out. *)
LEMMA CallMail ==
  ASSUME TypeOK, TypeOK', MailInv, NEW w \in Workers, Call(w)
  PROVE  MailInv'
<1> DEFINE d == worker[w].claim
<1>0. /\ worker[w].pc = "calling" /\ d \in Deliveries /\ Sending(w)
      /\ UNCHANGED <<person, delivery>>
  BY DEF Call, TypeOK, Sending, consentVars, queueVars
<1>1. /\ worker'[w].pc = "recorded" /\ worker'[w].claim = d
      /\ \A v \in Workers : v # w => worker'[v] = worker[v]
  BY DEF Call, TypeOK
<1>2. \A e \in Deliveries : e # d => copies'[e] = copies[e]
  BY <1>0 DEF Call, TypeOK
<1>3. ClaimsDistinct'
  BY <1>0, <1>1 DEF MailInv, LocksInv, ClaimsDistinct
<1>4. PeopleDistinct'
  BY <1>0, <1>1 DEF MailInv, LocksInv, PeopleDistinct, Sending
<1>5. SendersHold'
  BY <1>0, <1>1 DEF MailInv, LocksInv, SendersHold, Sending, Confirmed
<1>6. ClaimsTaken'
  BY <1>0, <1>1 DEF MailInv, LocksInv, ClaimsTaken
<1>7. QueuedFresh'
  BY <1>0, <1>2 DEF MailInv, LocksInv, CopiesInv, QueuedFresh, SendersHold
<1>8. ClaimedFresh'
  <2> SUFFICES ASSUME NEW v \in Workers, worker'[v].pc \in {"claimed", "calling"},
                      delivery'[worker'[v].claim].status = "sending"
               PROVE  copies'[worker'[v].claim] = 0
    BY DEF ClaimedFresh
  <2>1. v # w /\ worker'[v] = worker[v] /\ worker[v].claim \in Deliveries
    BY <1>1 DEF TypeOK
  <2>2. worker[v].claim # d
    BY <1>0, <2>1 DEF MailInv, LocksInv, ClaimsDistinct
  <2> QED BY <1>0, <1>2, <2>1, <2>2 DEF MailInv, CopiesInv, ClaimedFresh
<1> QED BY <1>3, <1>4, <1>5, <1>6, <1>7, <1>8 DEF MailInv, LocksInv, CopiesInv

LEMMA CommitMail ==
  ASSUME TypeOK, TypeOK', MailInv, NEW w \in Workers, Commit(w)
  PROVE  MailInv'
<1> DEFINE d == worker[w].claim
<1>0. /\ UNCHANGED <<person, copies>> /\ worker[w].pc = "recorded" /\ d \in Deliveries
  BY DEF Commit, consentVars, providerVars, TypeOK
<1>1. /\ \A e \in Deliveries : e # d => delivery'[e] = delivery[e]
      /\ delivery'[d].status \in {"accepted", "failed"}
      /\ \A v \in Workers : v # w => worker'[v] = worker[v]
      /\ worker'[w].pc = "idle"
  BY <1>0 DEF Commit, Finish, Idle, TypeOK
<1>2. \A v \in Workers : worker'[v].pc # "idle" => worker'[v].claim # d
  BY <1>0, <1>1 DEF MailInv, LocksInv, ClaimsDistinct
<1>3. \A e \in Deliveries : MayBecome(e)
  BY <1>1, <1>2 DEF MayBecome
<1> QED BY <1>0, <1>1, <1>3, LockedConfirmed, Frame

LEMMA CrashMail ==
  ASSUME TypeOK, TypeOK', MailInv, NEW w \in Workers, Crash(w)
  PROVE  MailInv'
<1>1. /\ UNCHANGED <<person, copies, delivery>>
      /\ \A v \in Workers : v # w => worker'[v] = worker[v]
      /\ worker'[w].pc = "idle"
  BY DEF Crash, Finish, Idle, TypeOK, consentVars, queueVars, providerVars
<1>2. \A e \in Deliveries : MayBecome(e)
  BY <1>1 DEF MayBecome
<1> QED BY <1>1, <1>2, LockedConfirmed, Frame

LEMMA EventMail ==
  ASSUME TypeOK, TypeOK', MailInv, NEW d \in Deliveries, NEW type \in Feedback,
         ProviderEvent(d, type)
  PROVE  MailInv'
<1>0. UNCHANGED <<worker, copies>>
  BY DEF ProviderEvent
<1>1. CASE UNCHANGED <<person, delivery>>
  <2>1. \A e \in Deliveries : MayBecome(e)
    BY <1>1 DEF MayBecome
  <2> QED BY <1>0, <1>1, <2>1, LockedConfirmed, Frame
<1>2. CASE ~PersonLocked(PersonOf(d))
  <2>1. /\ \A e \in Deliveries : e # d => delivery'[e] = delivery[e]
        /\ \/ delivery'[d].status = delivery[d].status
           \/ delivery'[d].status \in {"failed", "suppressed"}
        /\ \A t \in Subscribers : t # PersonOf(d) => person'[t] = person[t]
    <3>1. delivery[d] \in DeliveryRows /\ PersonOf(d) \in Subscribers
      BY Parts DEF TypeOK
    <3> QED BY <3>1 DEF ProviderEvent, Suppress, TypeOK, DeliveryRows
  <2>2. \A v \in Workers : Sending(v)
          => /\ PersonOf(worker[v].claim) \in Subscribers
             /\ PersonOf(worker[v].claim) # PersonOf(d)
    BY <1>2, LockedConfirmed, Parts DEF TypeOK, Sending
  <2>3. \A v \in Workers : Sending(v)
          => person'[PersonOf(worker[v].claim)].status = "confirmed"
    BY <2>1, <2>2, LockedConfirmed
  <2>4. \A e \in Deliveries : MayBecome(e)
    BY <1>0, <2>1, <2>2 DEF MayBecome, Sending
  <2> QED BY <1>0, <2>3, <2>4, Frame
<1> QED BY <1>1, <1>2 DEF ProviderEvent

LEMMA InitMail == Init => MailInv
BY DEF Init, MailInv, LocksInv, CopiesInv, ClaimsDistinct, PeopleDistinct, SendersHold,
   ClaimsTaken, QueuedFresh, ClaimedFresh, Sending, Idle, NotQueued

LEMMA MailStep == TypeOK /\ TypeOK' /\ MailInv /\ [Next]_vars => MailInv'
<1> SUFFICES ASSUME TypeOK, TypeOK', MailInv, [Next]_vars PROVE MailInv'
  OBVIOUS
<1>1. CASE Work
  BY <1>1, ClaimNextMail, RecheckMail, CallMail, CommitMail, CrashMail DEF Work
<1>2. CASE SlotFrees \/ UNCHANGED vars
  <2>1. UNCHANGED <<person, delivery, worker, copies>>
    BY <1>2 DEF SlotFrees, vars, consentVars, providerVars
  <2>2. \A e \in Deliveries : MayBecome(e)
    BY <2>1 DEF MayBecome
  <2> QED BY <2>1, <2>2, LockedConfirmed, Frame
<1>3. ASSUME NEW d \in Deliveries, GoStale(d) PROVE MailInv'
  <2>1. UNCHANGED <<person, worker, copies>>
    BY <1>3 DEF GoStale, consentVars, providerVars
  <2>2. \A e \in Deliveries : delivery'[e].status = delivery[e].status
    <3>1. delivery[d] \in DeliveryRows
      BY DEF TypeOK
    <3> QED BY <1>3, <3>1 DEF GoStale, TypeOK, DeliveryRows
  <2>3. \A e \in Deliveries : MayBecome(e)
    BY <2>2 DEF MayBecome
  <2> QED BY <2>1, <2>3, LockedConfirmed, Frame
<1> QED
  BY <1>1, <1>2, <1>3, ConsentMail, AdministerMail, EventMail DEF Next

(* At any time each message has one sender at most, and what may still be     *)
(* sent has no copy out.                                                      *)
THEOREM NewsInvariant == Spec => [](TypeOK /\ MailInv)
BY InitTyped, TypeStep, InitMail, MailStep, PTL DEF Spec

-----------------------------------------------------------------------------
(* Refinement of ConsentedMailing *)

OnList == {s \in Subscribers : Confirmed(s)}

LEMMA InitMailing == Init => Mailing!MailingInit
BY DEF Init, Mailing!MailingInit, Confirmed, NoRow

(* Consent moves one person on or off the list. *)
LEMMA OnePerson ==
  ASSUME TypeOK, UNCHANGED copies, NEW s \in Subscribers,
         \A t \in Subscribers : t # s => person'[t] = person[t]
  PROVE  [Mailing!MailingNext]_(Mailing!mailingVars)
<1>1. OnList' = OnList \union {s} \/ OnList' = OnList \ {s}
  BY DEF OnList, Confirmed
<1> QED BY <1>1 DEF OnList, Mailing!MailingNext, Mailing!Join, Mailing!Leave,
                Mailing!mailingVars

LEMMA MailingStep ==
  TypeOK /\ MailInv /\ [Next]_vars => [Mailing!MailingNext]_(Mailing!mailingVars)
<1> SUFFICES ASSUME TypeOK, MailInv, [Next]_vars
             PROVE  [Mailing!MailingNext]_(Mailing!mailingVars)
  OBVIOUS
<1>1. CASE Consent
  <2>1. PICK s \in Subscribers :
          \/ RequestSubscription(s) \/ Unsubscribe(s) \/ AdminSuppress(s)
          \/ \E g \in 1..MaxGrants : ConfirmSubscription(s, g)
    BY <1>1 DEF Consent
  <2>2. UNCHANGED copies /\ \A t \in Subscribers : t # s => person'[t] = person[t]
    BY <2>1 DEF RequestSubscription, Unsubscribe, AdminSuppress, ConfirmSubscription,
                Suppress, providerVars, TypeOK
  <2> QED BY <2>2, OnePerson
<1>2. ASSUME NEW d \in Deliveries, NEW type \in Feedback, ProviderEvent(d, type)
      PROVE  [Mailing!MailingNext]_(Mailing!mailingVars)
  <2>1. UNCHANGED copies /\ \A t \in Subscribers : t # PersonOf(d) => person'[t] = person[t]
    BY <1>2 DEF ProviderEvent, Suppress, TypeOK
  <2> QED BY <2>1, OnePerson, Parts
<1>3. ASSUME NEW w \in Workers, Call(w)
      PROVE  [Mailing!MailingNext]_(Mailing!mailingVars)
  <2> DEFINE d == worker[w].claim
  <2>1. d \in Deliveries /\ Sending(w) /\ worker[w].pc = "calling" /\ UNCHANGED person
    BY <1>3 DEF Call, TypeOK, Sending, consentVars
  <2>2. Confirmed(PersonOf(d)) /\ copies[d] = 0
    BY <2>1 DEF MailInv, LocksInv, CopiesInv, SendersHold, ClaimedFresh
  <2>3. copies' = [copies EXCEPT ![d] = 1] \/ copies' = copies
    <3>1. PICK taken \in BOOLEAN :
            copies' = [copies EXCEPT ![d] = IF taken THEN @ + 1 ELSE @]
      BY <1>3 DEF Call
    <3>2. CASE taken
      BY <2>1, <2>2, <3>1, <3>2 DEF TypeOK
    <3>3. CASE ~taken
      BY <2>1, <3>1, <3>3 DEF TypeOK
    <3> QED BY <3>2, <3>3
  <2>4. PersonOf(d) \in OnList /\ OnList' = OnList
    BY <2>1, <2>2, Parts DEF OnList, Confirmed
  <2> QED BY <2>1, <2>2, <2>3, <2>4
          DEF OnList, Mailing!MailingNext, Mailing!Deliver, Mailing!mailingVars
<1>4. CASE UNCHANGED <<person, copies>>
  BY <1>4 DEF Mailing!mailingVars, Confirmed
<1>5. ASSUME NEW w \in Workers, ClaimNext(w) \/ Recheck(w) \/ Commit(w) \/ Crash(w)
      PROVE  UNCHANGED <<person, copies>>
  BY <1>5 DEF ClaimNext, Recheck, Commit, Crash, consentVars, providerVars
<1>6. CASE Administer
  BY <1>4, <1>6 DEF Administer, Create, Approve, Release, Pause, Resume, QueueTest,
                   MoveCampaign, consentVars, providerVars
<1>7. CASE SlotFrees \/ UNCHANGED vars \/ \E d \in Deliveries : GoStale(d)
  BY <1>4, <1>7 DEF SlotFrees, GoStale, vars, consentVars, providerVars
<1> QED BY <1>1, <1>2, <1>3, <1>4, <1>5, <1>6, <1>7 DEF Next, Work

(* Nobody gets a message twice, nor one without being on the list when the    *)
(* provider takes it, for any number of people, campaigns and workers and     *)
(* whichever of them die (product-news-delivery.ts:38, 96-97).                *)
THEOREM DeliveryImplementsMailing == Spec => SendsAreConsented
<1>1. Spec => Mailing!MailingInit
  BY InitMailing DEF Spec
<1>2. Spec => [][Mailing!MailingNext]_(Mailing!mailingVars)
  BY NewsInvariant, MailingStep, PTL DEF Spec
<1> QED BY <1>1, <1>2, PTL DEF SendsAreConsented, Mailing!MailingSpec

-----------------------------------------------------------------------------
(* Consent                                                                  *)

LEMMA ConsentStep == TypeOK /\ ConsentEvidence /\ [Next]_vars => ConsentEvidence'
<1> SUFFICES ASSUME TypeOK, ConsentEvidence, [Next]_vars PROVE ConsentEvidence'
  OBVIOUS
<1> DEFINE Backed(row) ==
      /\ row.status = "confirmed" => row.event = "confirmation" /\ row.of = row.grant
      /\ row.status = "pending_confirmation" => row.event = "grant"
<1>0. \A s \in Subscribers : person[s] \in PersonRows /\ Backed(person[s])
  BY DEF TypeOK, ConsentEvidence, Confirmed
<1>a. SUFFICES \A s \in Subscribers : Backed(person'[s])
  BY DEF ConsentEvidence, Confirmed
<1>1. ASSUME NEW s \in Subscribers, NEW event, Suppress(s, event)
      PROVE  \A t \in Subscribers : Backed(person'[t])
  BY <1>0, <1>1 DEF Suppress, TypeOK, PersonRows
<1>2. CASE UNCHANGED person
  BY <1>0, <1>2
<1>3. ASSUME NEW s \in Subscribers,
             \/ RequestSubscription(s) \/ AdminSuppress(s)
             \/ \E g \in 1..MaxGrants : ConfirmSubscription(s, g)
      PROVE  \A t \in Subscribers : Backed(person'[t])
  <2>1. CASE RequestSubscription(s)
    BY <1>0, <2>1 DEF RequestSubscription, TypeOK, PersonRows
  <2>2. CASE AdminSuppress(s)
    BY <1>0, <2>2 DEF AdminSuppress, TypeOK, PersonRows
  <2>3. ASSUME NEW g \in 1..MaxGrants, ConfirmSubscription(s, g)
        PROVE  \A t \in Subscribers : Backed(person'[t])
    BY <1>0, <2>3 DEF ConfirmSubscription, TypeOK, PersonRows
  <2> QED BY <1>3, <2>1, <2>2, <2>3
<1>4. CASE Consent
  BY <1>1, <1>3, <1>4 DEF Consent, Unsubscribe
<1>5. ASSUME NEW d \in Deliveries, NEW type \in Feedback, ProviderEvent(d, type)
      PROVE  \A t \in Subscribers : Backed(person'[t])
  BY <1>1, <1>2, <1>5, Parts DEF ProviderEvent
<1>6. CASE Administer
  BY <1>2, <1>6 DEF Administer, Create, Approve, Release, Pause, Resume, QueueTest,
                   MoveCampaign, consentVars
<1>7. CASE Work
  BY <1>2, <1>7 DEF Work, ClaimNext, Recheck, Call, Commit, Crash, consentVars
<1>8. CASE SlotFrees \/ UNCHANGED vars \/ \E d \in Deliveries : GoStale(d)
  BY <1>2, <1>8 DEF SlotFrees, GoStale, vars, consentVars
<1> QED BY <1>4, <1>5, <1>6, <1>7, <1>8 DEF Next

(* An address is confirmed only on the confirmation of its latest grant, with *)
(* nothing recorded since, for any number of grants                           *)
(* (marketing_confirm_subscription).                                          *)
THEOREM ConsentIsBacked == Spec => []ConsentEvidence
<1>1. Init => ConsentEvidence
  BY DEF Init, ConsentEvidence, Confirmed, NoRow
<1> QED BY <1>1, NewsTypes, ConsentStep, PTL DEF Spec

(* A refusal the provider repeats suppresses nobody: the event that does is   *)
(* recorded in the same step for the first time                               *)
(* (marketing_record_provider_event).                                         *)
THEOREM RepeatsAreInert == Spec => RepeatedEventIsInert
<1> DEFINE Inert == \A s \in Subscribers :
      /\ person[s].status # "suppressed"
      /\ person'[s].status = "suppressed"
      /\ person'[s].event \in Refusals
      => \E d \in Deliveries :
           PersonOf(d) = s /\ <<d, person'[s].event>> \in events' \ events
<1>1. ASSUME TypeOK, [Next]_vars PROVE Inert
  <2>1. CASE UNCHANGED person
    BY <2>1
  <2>2. ASSUME NEW t \in Subscribers,
               \/ RequestSubscription(t) \/ Unsubscribe(t) \/ AdminSuppress(t)
               \/ \E g \in 1..MaxGrants : ConfirmSubscription(t, g)
        PROVE  Inert
    <3>0. \A s \in Subscribers : person[s] \in PersonRows
      BY <1>1 DEF TypeOK
    <3>1. \A s \in Subscribers : person'[s] = person[s]
            \/ person'[s].status # "suppressed" \/ person'[s].event \notin Refusals
      BY <1>1, <2>2, <3>0 DEF RequestSubscription, Unsubscribe, AdminSuppress,
           ConfirmSubscription, Suppress, TypeOK, PersonRows, Refusals, Feedback
    <3> QED BY <3>1
  <2>3. CASE Consent
    BY <2>2, <2>3 DEF Consent
  <2>4. ASSUME NEW d \in Deliveries, NEW type \in Feedback, ProviderEvent(d, type)
        PROVE  Inert
    <3>1. CASE Suppress(PersonOf(d), type) /\ events' = events \union {<<d, type>>}
                 /\ <<d, type>> \notin events
      <4>1. PersonOf(d) \in Subscribers /\ person[PersonOf(d)] \in PersonRows
        BY <1>1, Parts DEF TypeOK
      <4>2. person'[PersonOf(d)].event = type
        BY <1>1, <3>1, <4>1 DEF Suppress, TypeOK, PersonRows
      <4>3. \A s \in Subscribers : s # PersonOf(d) => person'[s] = person[s]
        BY <1>1, <3>1 DEF Suppress, TypeOK
      <4> QED BY <3>1, <4>1, <4>2, <4>3
    <3> QED BY <2>1, <2>4, <3>1 DEF ProviderEvent
  <2>5. CASE Administer
    BY <2>1, <2>5 DEF Administer, Create, Approve, Release, Pause, Resume, QueueTest,
                     MoveCampaign, consentVars
  <2>6. CASE Work
    BY <2>1, <2>6 DEF Work, ClaimNext, Recheck, Call, Commit, Crash, consentVars
  <2>7. CASE SlotFrees \/ UNCHANGED vars \/ \E d \in Deliveries : GoStale(d)
    BY <2>1, <2>7 DEF SlotFrees, GoStale, vars, consentVars
  <2> QED BY <1>1, <2>3, <2>4, <2>5, <2>6, <2>7 DEF Next
<1>2. TypeOK /\ [Next]_vars => [Inert]_vars
  BY <1>1
<1> QED BY <1>2, NewsTypes, PTL DEF Spec, RepeatedEventIsInert

-----------------------------------------------------------------------------
(* The end of a campaign                                                     *)

(* A message of a campaign that is queued or on its way. *)
Open(d) == KindOf(d) = "campaign" /\ delivery[d].status \in {"queued", "sending"}

(* A sender that found its campaign drained still has it locked, and only its *)
(* own message is open.                                                       *)
DrainKnown(w) ==
  LET e == worker[w].claim IN
    /\ KindOf(e) = "campaign"
    /\ campaign[CampaignOf(e)] = "released"
    /\ \A d \in Deliveries : Open(d) /\ CampaignOf(d) = CampaignOf(e) => d = e
DrainInv == CompletedIsDrained /\ \A w \in Workers : worker[w].drained => DrainKnown(w)

(* Steps that complete no campaign, move none that is locked and open no      *)
(* message of a campaign that is past its release keep it.                    *)
LEMMA DrainFrame ==
  ASSUME TypeOK, TypeOK', DrainInv,
         \A c \in Campaigns :
           campaign'[c] = campaign[c] \/ (campaign'[c] # "completed" /\ ~CampaignLocked(c)),
         \A d \in Deliveries : Open(d)' /\ ~Open(d)
           => campaign[CampaignOf(d)] = "approved" /\ campaign'[CampaignOf(d)] # "completed",
         \A w \in Workers : worker'[w].drained => worker'[w] = worker[w]
  PROVE  DrainInv'
<1>1. CompletedIsDrained'
  <2> SUFFICES ASSUME NEW d \in Deliveries, Open(d)', campaign'[CampaignOf(d)] = "completed"
               PROVE  FALSE
    BY DEF CompletedIsDrained, Open
  <2>1. Open(d) /\ CampaignOf(d) \in Campaigns
    BY Parts
  <2>2. campaign[CampaignOf(d)] = "completed"
    BY <2>1
  <2> QED BY <2>1, <2>2 DEF DrainInv, CompletedIsDrained, Open
<1>2. ASSUME NEW w \in Workers, worker'[w].drained PROVE DrainKnown(w)'
  <2> DEFINE e == worker[w].claim
  <2>1. worker'[w] = worker[w] /\ worker[w].drained /\ e \in Deliveries /\ DrainKnown(w)
    BY <1>2 DEF DrainInv, TypeOK
  <2>2. CampaignOf(e) \in Campaigns /\ CampaignLocked(CampaignOf(e))
    BY <2>1, Parts DEF CampaignLocked
  <2>3. campaign'[CampaignOf(e)] = "released" /\ campaign[CampaignOf(e)] = "released"
    BY <2>1, <2>2 DEF DrainKnown
  <2>4. \A d \in Deliveries : Open(d)' /\ CampaignOf(d) = CampaignOf(e) => d = e
    BY <2>1, <2>3 DEF DrainKnown
  <2> QED BY <2>1, <2>3, <2>4 DEF DrainKnown
<1> QED BY <1>1, <1>2 DEF DrainInv

LEMMA AdministerDrain == TypeOK /\ TypeOK' /\ DrainInv /\ Administer => DrainInv'
<1> SUFFICES ASSUME TypeOK, TypeOK', DrainInv, NEW c \in Campaigns,
                    \/ Create(c) \/ Approve(c) \/ Release(c) \/ Pause(c) \/ Resume(c)
                    \/ \E s \in Subscribers : QueueTest(c, s)
             PROVE  DrainInv'
  BY DEF Administer
<1>1. UNCHANGED worker
  BY DEF Create, Approve, Release, Pause, Resume, QueueTest, MoveCampaign
<1>2. /\ \A b \in Campaigns : b # c => campaign'[b] = campaign[b]
      /\ \/ campaign'[c] = campaign[c]
         \/ /\ campaign[c] # "completed" /\ campaign'[c] # "completed"
            /\ ~CampaignLocked(c)
  BY DEF Create, Approve, Release, Pause, Resume, QueueTest, MoveCampaign, TypeOK
<1>3. \A d \in Deliveries : Open(d)' /\ ~Open(d)
        => CampaignOf(d) = c /\ campaign[c] = "approved" /\ campaign'[c] = "released"
  <2>1. CASE UNCHANGED delivery
    BY <2>1 DEF Open
  <2>2. CASE Release(c)
    BY <2>2 DEF Release, MoveCampaign, Enqueue, Open, CampaignOf, TypeOK
  <2>3. ASSUME NEW s \in Subscribers, QueueTest(c, s)
        PROVE  \A d \in Deliveries : Open(d)' => Open(d)
    BY <2>3, Triple DEF QueueTest, Enqueue, Open, Kinds
  <2> QED BY <2>1, <2>2, <2>3 DEF Create, Approve, Pause, Resume
<1> QED BY <1>1, <1>2, <1>3, DrainFrame

(* The sweep opens nothing, and leaves open what a sender holds. *)
LEMMA SweepDrain ==
  ASSUME TypeOK, MailInv, ~SweepBlocked
  PROVE  /\ \A d \in Deliveries :
              Swept[d].status \in {"queued", "sending"} => Swept[d].status = delivery[d].status
         /\ \A w \in Workers :
              Sending(w) => Swept[worker[w].claim].status = "sending"
<1>1. \A d \in Deliveries : delivery[d] \in DeliveryRows
  BY DEF TypeOK
<1>2. \A d \in Deliveries :
        Swept[d].status \in {"queued", "sending"} => Swept[d].status = delivery[d].status
  BY <1>1 DEF Swept, DeliveryRows
<1>3. ASSUME NEW w \in Workers, Sending(w)
      PROVE  Swept[worker[w].claim].status = "sending"
  <2>1. worker[w].claim \in Deliveries /\ ~delivery[worker[w].claim].stale
    BY <1>3 DEF TypeOK, Sending, SweepBlocked
  <2> QED BY <1>3, <2>1 DEF Swept, MailInv, LocksInv, SendersHold
<1> QED BY <1>2, <1>3

LEMMA ClaimNextDrain ==
  ASSUME TypeOK, TypeOK', MailInv, DrainInv, NEW w \in Workers, ClaimNext(w)
  PROVE  DrainInv'
<1>0. worker[w].pc = "idle" /\ ~SweepBlocked
  BY DEF ClaimNext
<1>1. CASE NothingQueued
  <2>1. UNCHANGED worker /\ \A d \in Deliveries : Open(d)' => Open(d)
    BY <1>0, <1>1, SweepDrain DEF NothingQueued, Open
  <2>2. CompletedIsDrained'
    <3> SUFFICES ASSUME NEW d \in Deliveries, Open(d)', campaign'[CampaignOf(d)] = "completed"
                 PROVE  FALSE
      BY DEF CompletedIsDrained, Open
    <3>1. Open(d) /\ CampaignOf(d) \in Campaigns /\ PersonOf(d) \in Subscribers
          /\ d = <<CampaignOf(d), PersonOf(d), "campaign">>
      BY <2>1, Parts DEF Open
    <3>2. campaign[CampaignOf(d)] # "completed"
      BY <3>1 DEF DrainInv, CompletedIsDrained, Open
    <3>3. Unfinished(CampaignOf(d), Swept) = {}
      BY <1>1, <3>1, <3>2 DEF NothingQueued
    <3>4. Swept[d].status \in {"queued", "sending"}
      BY <1>1 DEF NothingQueued, Open
    <3> QED BY <3>1, <3>3, <3>4 DEF Unfinished
  <2>3. ASSUME NEW v \in Workers, worker'[v].drained PROVE DrainKnown(v)'
    <3> DEFINE e == worker[v].claim
    <3>1. worker[v].drained /\ DrainKnown(v) /\ Sending(v) /\ e \in Deliveries
      BY <2>1, <2>3 DEF DrainInv, TypeOK, Sending
    <3>2. Swept[e].status = "sending" /\ CampaignOf(e) \in Campaigns
          /\ PersonOf(e) \in Subscribers /\ e = <<CampaignOf(e), PersonOf(e), "campaign">>
      BY <1>0, <3>1, SweepDrain, Parts DEF DrainKnown
    <3>3. Unfinished(CampaignOf(e), Swept) # {}
      BY <3>2 DEF Unfinished
    <3>4. campaign'[CampaignOf(e)] = campaign[CampaignOf(e)]
      BY <1>1, <3>2, <3>3 DEF NothingQueued
    <3> QED BY <2>1, <3>1, <3>4 DEF DrainKnown
  <2> QED BY <2>2, <2>3 DEF DrainInv
<1>2. CASE SlotTaken
  <2>1. UNCHANGED <<worker, campaign>> /\ \A d \in Deliveries : Open(d)' => Open(d)
    BY <1>0, <1>2, SweepDrain DEF SlotTaken, Open
  <2> QED BY <2>1, DrainFrame
<1>3. ASSUME NEW e \in Deliveries, NoConsent(e) PROVE DrainInv'
  <2>1. /\ \A d \in Deliveries : d # e => delivery'[d] = Swept[d]
        /\ delivery'[e].status = "suppressed"
    BY <1>3, RowsTyped DEF NoConsent, DeliveryRows
  <2>2. UNCHANGED <<worker, campaign>> /\ \A d \in Deliveries : Open(d)' => Open(d)
    BY <1>0, <1>3, <2>1, SweepDrain DEF NoConsent, Open
  <2> QED BY <2>2, DrainFrame
<1>4. ASSUME NEW e \in Deliveries, Claim(w, e) PROVE DrainInv'
  <2>1. /\ \A d \in Deliveries : d # e => delivery'[d] = Swept[d]
        /\ delivery[e].status = "queued"
        /\ UNCHANGED campaign
        /\ \A v \in Workers : v # w => worker'[v] = worker[v]
    BY <1>4, RowsTyped DEF Claim, Candidates, Eligible, DeliveryRows, TypeOK
  <2>2. \A d \in Deliveries : Open(d)' => Open(d)
    BY <1>0, <2>1, SweepDrain DEF Open
  <2>3. ~worker'[w].drained
    BY <1>0, <1>4 DEF Claim, TypeOK, WorkerStates
  <2> QED BY <2>1, <2>2, <2>3, DrainFrame
<1> QED BY <1>1, <1>2, <1>3, <1>4 DEF ClaimNext

LEMMA RecheckDrain ==
  ASSUME TypeOK, TypeOK', DrainInv, NEW w \in Workers, Recheck(w)
  PROVE  DrainInv'
<1> DEFINE d == worker[w].claim
<1>0. d \in Deliveries /\ delivery[d] \in DeliveryRows /\ worker[w].pc = "claimed"
      /\ UNCHANGED campaign
  BY DEF Recheck, TypeOK
<1>1. \A e \in Deliveries : Open(e)' => Open(e)
  <2>1. CASE StartCall(w, d)
    BY <2>1 DEF StartCall, Open
  <2>2. CASE Deferred(w, d)
    BY <1>0, <2>2 DEF Deferred, Open, TypeOK
  <2>3. CASE Withdrawn(w, d)
    <3>1. delivery'[d].status = "suppressed"
      BY <1>0, <2>3 DEF Withdrawn, TypeOK, DeliveryRows
    <3>2. \A e \in Deliveries : e # d => delivery'[e] = delivery[e]
      BY <1>0, <2>3 DEF Withdrawn, TypeOK
    <3> QED BY <3>1, <3>2 DEF Open
  <2> QED BY <2>1, <2>2, <2>3 DEF Recheck
<1>2. /\ \A v \in Workers : v # w => worker'[v] = worker[v]
      /\ ~worker'[w].drained
  BY <1>0 DEF Recheck, Deferred, Withdrawn, StartCall, Finish, Idle, TypeOK, WorkerStates
<1> QED BY <1>0, <1>1, <1>2, DrainFrame

(* A sender decides on rows it reads in its own transaction. *)
LEMMA CallDrain ==
  ASSUME TypeOK, TypeOK', MailInv, DrainInv, NEW w \in Workers, Call(w)
  PROVE  DrainInv'
<1> DEFINE d == worker[w].claim
<1>0. d \in Deliveries /\ UNCHANGED <<campaign, delivery>>
  BY DEF Call, TypeOK, queueVars
<1>1. /\ \A v \in Workers : v # w => worker'[v] = worker[v]
      /\ worker'[w].claim = d
      /\ worker'[w].drained =
           (/\ KindOf(d) = "campaign" /\ campaign[CampaignOf(d)] = "released"
            /\ Unfinished(CampaignOf(d), delivery) \ {PersonOf(d)} = {})
  BY DEF Call, TypeOK
<1>2. CompletedIsDrained'
  BY <1>0 DEF DrainInv, CompletedIsDrained
<1>3. ASSUME NEW v \in Workers, worker'[v].drained PROVE DrainKnown(v)'
  <2>1. CASE v # w
    BY <1>0, <1>1, <1>3, <2>1 DEF DrainInv, DrainKnown, Open
  <2>2. CASE v = w
    <3>1. KindOf(d) = "campaign" /\ campaign[CampaignOf(d)] = "released"
          /\ Unfinished(CampaignOf(d), delivery) \ {PersonOf(d)} = {}
      BY <1>1, <1>3, <2>2
    <3>2. ASSUME NEW e \in Deliveries, Open(e), CampaignOf(e) = CampaignOf(d) PROVE e = d
      <4>1. PersonOf(e) \in Unfinished(CampaignOf(d), delivery)
        BY <3>2, Parts DEF Unfinished, Open
      <4>2. PersonOf(e) = PersonOf(d)
        BY <3>1, <4>1
      <4> QED BY <1>0, <3>1, <3>2, <4>2, Parts DEF Open
    <3> QED BY <1>0, <1>1, <2>2, <3>1, <3>2 DEF DrainKnown, Open
  <2> QED BY <2>1, <2>2
<1> QED BY <1>2, <1>3 DEF DrainInv

(* Two senders cannot both have found one campaign drained: each would have   *)
(* seen the message of the other.                                             *)
LEMMA OneDrains ==
  ASSUME TypeOK, MailInv, DrainInv, NEW v \in Workers, NEW w \in Workers, v # w,
         worker[v].drained, worker[w].drained
  PROVE  CampaignOf(worker[v].claim) # CampaignOf(worker[w].claim)
<1>1. Sending(v) /\ Sending(w) /\ worker[v].claim \in Deliveries
      /\ worker[w].claim \in Deliveries /\ DrainKnown(v) /\ DrainKnown(w)
  BY DEF TypeOK, Sending, DrainInv
<1>2. Open(worker[v].claim) /\ Open(worker[w].claim)
  BY <1>1 DEF Open, DrainKnown, MailInv, LocksInv, SendersHold
<1>3. worker[v].claim # worker[w].claim
  BY <1>1 DEF MailInv, LocksInv, PeopleDistinct
<1> QED BY <1>1, <1>2, <1>3 DEF DrainKnown

LEMMA CommitDrain ==
  ASSUME TypeOK, TypeOK', MailInv, DrainInv, NEW w \in Workers, Commit(w)
  PROVE  DrainInv'
<1> DEFINE d == worker[w].claim
<1>0. d \in Deliveries /\ worker[w].pc = "recorded"
  BY DEF Commit, TypeOK
<1>1. /\ \A e \in Deliveries : e # d => delivery'[e] = delivery[e]
      /\ delivery'[d].status \notin {"queued", "sending"}
      /\ \A v \in Workers : v # w => worker'[v] = worker[v]
      /\ ~worker'[w].drained
  BY <1>0 DEF Commit, Finish, Idle, TypeOK
<1>2. \A e \in Deliveries : Open(e)' => Open(e) /\ e # d
  <2>1. ASSUME NEW e \in Deliveries, Open(e)' PROVE Open(e) /\ e # d
    <3>1. KindOf(e) = "campaign" /\ delivery'[e].status \in {"queued", "sending"}
      BY <2>1 DEF Open
    <3>2. e # d
      BY <1>1, <3>1
    <3> QED BY <1>1, <3>1, <3>2 DEF Open
  <2> QED BY <2>1
<1>3. CASE ~worker[w].drained
  BY <1>1, <1>2, <1>3, DrainFrame DEF Commit
<1>4. CASE worker[w].drained
  <2>0. campaign' = [campaign EXCEPT ![CampaignOf(d)] = "completed"] /\ DrainKnown(w)
        /\ CampaignOf(d) \in Campaigns
    BY <1>0, <1>4, Parts DEF Commit, DrainInv
  <2>1. CompletedIsDrained'
    <3> SUFFICES ASSUME NEW e \in Deliveries, Open(e)', campaign'[CampaignOf(e)] = "completed"
                 PROVE  FALSE
      BY DEF CompletedIsDrained, Open
    <3>1. CampaignOf(e) # CampaignOf(d)
      BY <1>2, <2>0 DEF DrainKnown
    <3>2. campaign[CampaignOf(e)] = "completed"
      BY <2>0, <3>1, Parts DEF TypeOK
    <3> QED BY <1>2, <3>2 DEF DrainInv, CompletedIsDrained, Open
  <2>2. ASSUME NEW v \in Workers, worker'[v].drained PROVE DrainKnown(v)'
    <3>1. v # w /\ worker'[v] = worker[v] /\ worker[v].drained /\ DrainKnown(v)
          /\ worker[v].claim \in Deliveries
      BY <1>1, <2>2 DEF DrainInv, TypeOK
    <3>2. CampaignOf(worker[v].claim) # CampaignOf(d)
          /\ CampaignOf(worker[v].claim) \in Campaigns
      BY <1>4, <3>1, OneDrains, Parts
    <3>3. campaign'[CampaignOf(worker[v].claim)] = campaign[CampaignOf(worker[v].claim)]
      BY <2>0, <3>2 DEF TypeOK
    <3> QED BY <1>2, <3>1, <3>3 DEF DrainKnown
  <2> QED BY <2>1, <2>2 DEF DrainInv
<1> QED BY <1>3, <1>4

LEMMA DrainStep == TypeOK /\ TypeOK' /\ MailInv /\ DrainInv /\ [Next]_vars => DrainInv'
<1> SUFFICES ASSUME TypeOK, TypeOK', MailInv, DrainInv, [Next]_vars PROVE DrainInv'
  OBVIOUS
<1>1. CASE UNCHANGED <<campaign, delivery, worker>>
  <2>1. \A d \in Deliveries : Open(d)' => Open(d)
    BY <1>1 DEF Open
  <2> QED BY <1>1, <2>1, DrainFrame
<1>2. CASE Consent \/ SlotFrees \/ UNCHANGED vars
  BY <1>1, <1>2 DEF Consent, RequestSubscription, Unsubscribe, AdminSuppress,
       ConfirmSubscription, SlotFrees, queueVars, vars
<1>3. ASSUME NEW d \in Deliveries, GoStale(d) PROVE DrainInv'
  <2>1. \A e \in Deliveries : delivery'[e].status = delivery[e].status
    BY <1>3 DEF GoStale, TypeOK, DeliveryRows
  <2>2. UNCHANGED <<campaign, worker>> /\ \A e \in Deliveries : Open(e)' => Open(e)
    BY <1>3, <2>1 DEF GoStale, Open
  <2> QED BY <2>2, DrainFrame
<1>4. ASSUME NEW d \in Deliveries, NEW type \in Feedback, ProviderEvent(d, type)
      PROVE  DrainInv'
  <2>0. delivery[d] \in DeliveryRows
    BY DEF TypeOK
  <2>1. \A e \in Deliveries : delivery'[e].status = delivery[e].status
                             \/ delivery'[e].status \in {"failed", "suppressed"}
    BY <1>4, <2>0 DEF ProviderEvent, TypeOK, DeliveryRows
  <2>2. UNCHANGED <<campaign, worker>> /\ \A e \in Deliveries : Open(e)' => Open(e)
    BY <1>4, <2>1 DEF ProviderEvent, Open
  <2> QED BY <2>2, DrainFrame
<1>5. ASSUME NEW w \in Workers, Crash(w) PROVE DrainInv'
  <2>1. /\ UNCHANGED <<campaign, delivery>>
        /\ \A v \in Workers : v # w => worker'[v] = worker[v]
        /\ ~worker'[w].drained
    BY <1>5 DEF Crash, Finish, Idle, TypeOK, queueVars
  <2>2. \A e \in Deliveries : Open(e)' => Open(e)
    BY <2>1 DEF Open
  <2> QED BY <2>1, <2>2, DrainFrame
<1>6. CASE Work
  BY <1>5, <1>6, ClaimNextDrain, RecheckDrain, CallDrain, CommitDrain DEF Work
<1> QED BY <1>2, <1>3, <1>4, <1>6, AdministerDrain DEF Next

(* A completed campaign has nothing queued and nothing on its way, for any    *)
(* number of senders that decide at once (product-news-delivery.ts:57, 148).  *)
THEOREM CompletionIsLast == Spec => []CompletedIsDrained
<1>1. Init => DrainInv
  BY DEF Init, DrainInv, CompletedIsDrained, NotQueued, Idle
<1>2. DrainInv => CompletedIsDrained
  BY DEF DrainInv
<1> QED BY <1>1, <1>2, NewsInvariant, DrainStep, PTL DEF Spec
=============================================================================
