------------------------------- MODULE Alerts -------------------------------
(***************************************************************************)
(* The alert cron over the event log (lib/observability/evaluate-alerts.ts *)
(* behind api/cron/observability-alerts, PostgreSQL store): one enabled     *)
(* rule for the whole host, with a threshold, a window and a cooldown,      *)
(* whose mails go to one list, or to a list for each union.                 *)
(*                                                                         *)
(* A run is one transaction at READ COMMITTED: it reads events and          *)
(* acknowledgements (one step here), then takes bucket after bucket, reads  *)
(* its last firing, mails and inserts one, which others see when it commits. *)
(* A mail that is not answered within 12 seconds counts as not sent, though  *)
(* the provider may have taken it (lib/email/send.ts).                      *)
(* Levels, sources and the cap of 2000 rows are left out.                   *)
(***************************************************************************)
EXTENDS Integers, FiniteSets, Sequences

CONSTANTS
  Chapters,      \* unions that events belong to
  Host,          \* the bucket of events of no union, and of an unmapped rule
  Issues,        \* fingerprints
  Crons,         \* runs under way at a time
  Threshold, Window, Cooldown,
  MaxClock,      \* bound on time
  MaxEvents      \* bound on the events within a window

ASSUME AlertAssumption ==
  /\ Host \notin Chapters
  /\ Threshold \in Nat \ {0} /\ Window \in Nat /\ Cooldown \in Nat \ {0}
  /\ MaxClock \in Nat /\ MaxEvents \in Nat

VARIABLES
  mapped,      \* whether the rule has recipients by union
  clock,
  events,      \* observability_events, in the order logged
  acked,       \* observability_issue_acks
  firings,     \* [Buckets]: the time of its last row in observability_alert_firings, if any
  cron,        \* [Crons]: what a run has read, and its firings to be
  mailedAt,    \* history: [Buckets]: when a mail that was answered for last left;
               \*   -Cooldown before any
  early,       \* history: a mail left within the cooldown of such a mail
  missed,      \* history: a run ended and mailed nobody about what was due
  spoiled      \* history: runs overlapped, or one mailed and was rolled back

alertVars == <<mapped, clock, events, acked, firings, cron, mailedAt, early, missed, spoiled>>

Buckets == Chapters \cup {Host}
NoCron == [at |-> "idle"]

AlertInit ==
  /\ mapped \in BOOLEAN
  /\ clock = 0
  /\ events = <<>> /\ acked = {}
  /\ firings = [b \in Buckets |-> {}]
  /\ cron = [r \in Crons |-> NoCron]
  /\ mailedAt = [b \in Buckets |-> -Cooldown]
  /\ early = FALSE /\ missed = FALSE /\ spoiled = FALSE

Running == {r \in Crons : cron[r] # NoCron}

-----------------------------------------------------------------------------
(* What happens around the cron. *)

LogEvent(issue, union) ==
  /\ Len(events) < MaxEvents
  /\ events' = Append(events, [issue |-> issue, union |-> union, at |-> clock])
  /\ UNCHANGED <<mapped, clock, acked, firings, cron, mailedAt, early, missed, spoiled>>

(* acknowledgeObservabilityIssue, by an administrator or on a deploy, and its inverse *)
ToggleAck(issue) ==
  /\ acked' = IF issue \in acked THEN acked \ {issue} ELSE acked \cup {issue}
  /\ UNCHANGED <<mapped, clock, events, firings, cron, mailedAt, early, missed, spoiled>>

(* Events no later run will read are forgotten. *)
AlertTick ==
  /\ clock < MaxClock
  /\ clock' = clock + 1
  /\ \E old \in 0..Len(events) :
       /\ \A n \in 1..Len(events) : n <= old <=> events[n].at < clock + 1 - Window
       /\ events' = SubSeq(events, old + 1, Len(events))
  /\ UNCHANGED <<mapped, acked, firings, cron, mailedAt, early, missed, spoiled>>

-----------------------------------------------------------------------------
(* A run. *)

(* collectMatchingIssuesForRule: the positions of the events it returns. *)
Matching ==
  {n \in DOMAIN events : events[n].issue \notin acked /\ events[n].at >= clock - Window}

(* aggregateMatchingRows: an issue is counted whole for the union of its newest event. *)
OwnerOf(issue) ==
  LET its == {n \in Matching : events[n].issue = issue}
  IN events[CHOOSE n \in its : \A k \in its : k <= n].union

(* resolveRecipientBuckets *)
Addressed ==
  IF ~mapped \/ Matching = {} THEN {Host}
  ELSE {events[n].union : n \in Matching}

(* The bucket of no union counts every event. *)
CountFor(bucket) ==
  Cardinality(IF bucket = Host THEN Matching
              ELSE {n \in Matching : OwnerOf(events[n].issue) = bucket})

(* Mutant: the cooldown is the rule's, not the bucket's. *)
FiringsOfRule(bucket) == UNION {firings[b] : b \in Buckets}

(* getLastAlertFiring: the bucket of no union falls back to any firing of the rule. *)
FiringsRead(bucket) ==
  IF firings[bucket] = {} /\ bucket = Host THEN UNION {firings[b] : b \in Buckets}
  ELSE firings[bucket]

CoolAt(times, now) == \A t \in times : now - t >= Cooldown

(* What a run ought to mail about: a union with enough events in issues no other
   union shares, and the host when the rule has only its list.  (With lists by
   union, the first mail to the host's waits for the cooldown of the others.) *)
Due ==
  {b \in Addressed :
     /\ mapped => b # Host
     /\ CoolAt(firings[b], clock)
     /\ Threshold <= Cardinality({n \in Matching :
          b = Host \/ \A k \in Matching :
                        events[k].issue = events[n].issue => events[k].union = b})}

BeginRun(r) ==
  /\ cron[r] = NoCron
  /\ cron' = [cron EXCEPT ![r] =
       [at |-> "running", now |-> clock, due |-> Due, fired |-> {},
        todo |-> {b \in Addressed : CountFor(b) >= Threshold}]]
  /\ spoiled' = (spoiled \/ Running # {})
  /\ UNCHANGED <<mapped, clock, events, acked, firings, mailedAt, early, missed>>

(* A run sees its own firings too. *)
OwnFirings(r, bucket) ==
  LET own == {f \in cron[r].fired : f.bucket = bucket \/ (bucket = Host /\ firings[Host] = {})}
  IN {f.time : f \in own}

MayFire(r, bucket) ==
  CoolAt(FiringsRead(bucket) \cup OwnFirings(r, bucket), cron[r].now)

TakeBucket(r, bucket) ==
  /\ cron[r] # NoCron
  /\ bucket \in cron[r].todo

SkipBucket(r, bucket) ==
  /\ TakeBucket(r, bucket)
  /\ ~MayFire(r, bucket)
  /\ cron' = [cron EXCEPT ![r].todo = @ \ {bucket}]
  /\ UNCHANGED <<mapped, clock, events, acked, firings, mailedAt, early, missed, spoiled>>

(* sendClassifiedEmail failed for everybody, or its answers were lost after the
   mail had left: no firing is recorded, and the next run mails again. *)
MailUnanswered(r, bucket, left) ==
  /\ TakeBucket(r, bucket)
  /\ MayFire(r, bucket)
  /\ cron' = [cron EXCEPT ![r].todo = @ \ {bucket}, ![r].due = @ \ {bucket}]
  /\ early' = (early \/ (left /\ clock - mailedAt[bucket] < Cooldown))
  /\ UNCHANGED <<mapped, clock, events, acked, firings, mailedAt, missed, spoiled>>

Fire(r, bucket) ==
  /\ TakeBucket(r, bucket)
  /\ MayFire(r, bucket)
  /\ cron' = [cron EXCEPT ![r].todo = @ \ {bucket}, ![r].due = @ \ {bucket},
                          ![r].fired = @ \cup {[bucket |-> bucket, time |-> clock]}]
  /\ early' = (early \/ clock - mailedAt[bucket] < Cooldown)
  /\ mailedAt' = [mailedAt EXCEPT ![bucket] = clock]
  /\ UNCHANGED <<mapped, clock, events, acked, firings, missed, spoiled>>

CommitRun(r) ==
  /\ cron[r] # NoCron /\ cron[r].todo = {}
  /\ firings' = [b \in Buckets |->
       LET own == {f.time : f \in {g \in cron[r].fired : g.bucket = b}}
       IN IF own = {} THEN firings[b] ELSE own]
  /\ missed' = (missed \/ cron[r].due # {})
  /\ cron' = [cron EXCEPT ![r] = NoCron]
  /\ UNCHANGED <<mapped, clock, events, acked, mailedAt, early, spoiled>>

(* An error or a crash: the firings are rolled back, the mails have left. *)
AbortRun(r) ==
  /\ cron[r] # NoCron
  /\ spoiled' = (spoiled \/ cron[r].fired # {})
  /\ cron' = [cron EXCEPT ![r] = NoCron]
  /\ UNCHANGED <<mapped, clock, events, acked, firings, mailedAt, early, missed>>

(* Bound: nothing is asked of what follows a spoiled run. *)
AlertNext ==
  /\ ~spoiled
  /\ \/ \E issue \in Issues : ToggleAck(issue) \/ \E union \in Buckets : LogEvent(issue, union)
     \/ AlertTick
     \/ \E r \in Crons :
          \/ BeginRun(r) \/ CommitRun(r) \/ AbortRun(r)
          \/ \E b \in Buckets : SkipBucket(r, b) \/ Fire(r, b)
          \/ \E b \in Buckets, left \in BOOLEAN : MailUnanswered(r, b, left)

AlertSpec == AlertInit /\ [][AlertNext]_alertVars

-----------------------------------------------------------------------------
AlertTypeOK ==
  /\ mapped \in BOOLEAN /\ clock \in 0..MaxClock
  /\ events \in Seq([issue : Issues, union : Buckets, at : 0..MaxClock])
  /\ acked \subseteq Issues
  /\ firings \in [Buckets -> {{}} \cup {{t} : t \in 0..MaxClock}]
  /\ mailedAt \in [Buckets -> -Cooldown..MaxClock]
  /\ {early, missed, spoiled} \subseteq BOOLEAN

(* Unless runs overlap or one that mailed is rolled back, no mail of the rule
   leaves for a bucket within the cooldown of one the provider answered for, and a
   run that ends has mailed, or tried to mail, every union whose own issues reached
   the threshold, and the host (evaluate-alerts.ts:149, alert-rules.ts:75): whatever
   was logged, acknowledged or timed out between its steps.  A mail whose answer
   was lost starts no cooldown: it is not recorded (evaluate-alerts.ts:209). *)
AlertsAreDue == ~spoiled => ~early /\ ~missed

=============================================================================
