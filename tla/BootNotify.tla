----------------------------- MODULE BootNotify -----------------------------
(***************************************************************************)
(* The operator mails of src/lib/ops/boot-notify.ts: "a new image runs" or *)
(* "the same image restarted", sent by a booting replica, and the deploy   *)
(* mail of api/cron/deploy-notify.  With PostgreSQL, both notifications    *)
(* switched on, and the commit of every image known.                       *)
(*                                                                         *)
(* A boot reads the row, sends and saves in one transaction under an       *)
(* advisory lock that every reader and writer takes: one step, which may   *)
(* end after the sending with its transaction lost.  The cron sends first, *)
(* and then records in two transactions, each under the lock.              *)
(***************************************************************************)
EXTENDS Naturals

CONSTANTS
  Boots,          \* starts of a replica
  Crons,          \* runs of the cron
  Images,         \* commits of the images that boot or serve the cron
  Cooldown,       \* OPS_NOTIFY_RESTART_COOLDOWN_MINUTES
  Dedupe,         \* OPS_NOTIFY_DEPLOY_DEDUPE_MINUTES
  MaxUptime,      \* bound on the clock
  NoImage

ASSUME BootAssumption ==
  /\ Cooldown \in Nat /\ Dedupe \in Nat /\ MaxUptime \in Nat
  /\ NoImage \notin Images

VARIABLES
  clock,       \* Date.now()
  opsRow,      \* ops_boot_notify_state
  boot,        \* [Boots]: a scheduled boot notification
  cron,        \* [Crons]: a run of the cron, with the row it loaded
  deployMail,  \* history: image of the last deploy mail
  restartMail, \* history: start of the last boot that mailed a restart
  repeated,    \* history: a boot mailed what had been mailed
  unsettled    \* history: a mail went unrecorded, or a replica mailed while
               \* a cron run had mailed and not yet recorded

bootVars == <<clock, opsRow, boot, cron, deployMail, restartMail,
              repeated, unsettled>>

Never == MaxUptime + 1
Times == 0..MaxUptime
Rows == [image : Images \cup {NoImage}, deployAt : Times \cup {Never},
         restartAt : Times \cup {Never}]
EmptyRow == [image |-> NoImage, deployAt |-> Never, restartAt |-> Never]

BootTypeOK ==
  /\ clock \in Times
  /\ opsRow \in Rows
  /\ boot \in [Boots -> [stage : {"none", "waiting", "over"},
                         image : Images \cup {NoImage}, startedAt : Times]]
  /\ cron \in [Crons -> [stage : {"none", "sent", "loaded", "over"},
                         image : Images \cup {NoImage}, at : Times,
                         previous : Rows]]
  /\ deployMail \in Images \cup {NoImage}
  /\ restartMail \in Times \cup {Never}
  /\ repeated \in BOOLEAN /\ unsettled \in BOOLEAN

Unscheduled == [stage |-> "none", image |-> NoImage, startedAt |-> 0]
NotRun == [stage |-> "none", image |-> NoImage, at |-> 0, previous |-> EmptyRow]

BootInit ==
  /\ clock = 0 /\ opsRow = EmptyRow
  /\ boot = [b \in Boots |-> Unscheduled]
  /\ cron = [r \in Crons |-> NotRun]
  /\ deployMail = NoImage /\ restartMail = Never
  /\ repeated = FALSE /\ unsettled = FALSE

(* A cron run has mailed and not recorded. *)
Recording == \E r \in Crons : cron[r].stage \in {"sent", "loaded"}

(* scheduleBootLifecycleNotify: the start is noted before the lock is had. *)
StartBoot(b, image) ==
  /\ boot[b].stage = "none"
  /\ boot' = [boot EXCEPT ![b] = [stage |-> "waiting", image |-> image,
                                  startedAt |-> clock]]
  /\ UNCHANGED <<clock, opsRow, cron, deployMail, restartMail, repeated, unsettled>>

Passed(at, minutes) == at = Never \/ clock - at >= minutes

(* decideBootNotifyAction *)
Decision(image) ==
  IF opsRow.image # image THEN "deploy"
  ELSE IF ~Passed(opsRow.deployAt, Dedupe) \/ ~Passed(opsRow.restartAt, Cooldown)
       THEN "skip"
       ELSE "restart"

(* A row of a deploy without the spread of the old one *)
DeployedAlone(row, image, at) == [EmptyRow EXCEPT !.image = image, !.deployAt = at]

Deployed(row, image, at) == [row EXCEPT !.image = image, !.deployAt = at]

(* The row is kept, or lost with the transaction after the mail is out:
   the replica dies, the audit or the auto-acknowledgement fails. *)
SaveOrLose(row) ==
  \/ opsRow' = row /\ unsettled' = (unsettled \/ Recording)
  \/ unsettled' = TRUE /\ UNCHANGED opsRow

(* runBootLifecycleNotify; a failed sending ends it without a change. *)
RunBoot(b) ==
  LET image == boot[b].image
      start == boot[b].startedAt
  IN  /\ boot[b].stage = "waiting"
      /\ boot' = [boot EXCEPT ![b] = [Unscheduled EXCEPT !.stage = "over"]]
      /\ \/ UNCHANGED <<opsRow, deployMail, restartMail, repeated, unsettled>>
         \/ /\ Decision(image) = "deploy"
            /\ deployMail' = image
            /\ repeated' = (repeated \/ image = deployMail)
            /\ SaveOrLose(Deployed(opsRow, image, start))
            /\ UNCHANGED restartMail
         \/ /\ Decision(image) = "restart"
            /\ restartMail' = start
            /\ repeated' = (repeated \/ ~Passed(restartMail, Cooldown))
            /\ SaveOrLose([opsRow EXCEPT !.restartAt = start])
            /\ UNCHANGED deployMail
      /\ UNCHANGED <<clock, cron>>

(* sendDeployNotifyEmail: the cron mails without a look at the row; the time
   it will record is taken when the mail is out. *)
CronSend(r, image) ==
  /\ cron[r].stage = "none"
  /\ cron' = [cron EXCEPT ![r].stage = "sent", ![r].image = image, ![r].at = clock]
  /\ deployMail' = image
  /\ unsettled' = (unsettled \/ Recording)
  /\ UNCHANGED <<clock, opsRow, boot, restartMail, repeated>>

(* recordDeployNotifySuccess, first transaction: a failed load is an empty row. *)
CronLoad(r) ==
  /\ cron[r].stage = "sent"
  /\ \/ /\ cron' = [cron EXCEPT ![r].stage = "loaded", ![r].previous = opsRow]
        /\ UNCHANGED unsettled
     \/ /\ cron' = [cron EXCEPT ![r].stage = "loaded", ![r].previous = EmptyRow]
        /\ unsettled' = TRUE
  /\ UNCHANGED <<clock, opsRow, boot, deployMail, restartMail, repeated>>

(* Second transaction: the whole row is written from what was loaded. *)
CronSave(r) ==
  /\ cron[r].stage = "loaded"
  /\ opsRow' = Deployed(cron[r].previous, cron[r].image, cron[r].at)
  /\ cron' = [cron EXCEPT ![r] = [NotRun EXCEPT !.stage = "over"]]
  /\ UNCHANGED <<clock, boot, deployMail, restartMail, repeated, unsettled>>

(* The save fails and is only logged. *)
CronGivesUp(r) ==
  /\ cron[r].stage \in {"sent", "loaded"}
  /\ cron' = [cron EXCEPT ![r] = [NotRun EXCEPT !.stage = "over"]]
  /\ unsettled' = TRUE
  /\ UNCHANGED <<clock, opsRow, boot, deployMail, restartMail, repeated>>

ClockTicks ==
  /\ clock < MaxUptime
  /\ clock' = clock + 1
  /\ UNCHANGED <<opsRow, boot, cron, deployMail, restartMail, repeated, unsettled>>

BootNext ==
  \/ \E b \in Boots : RunBoot(b) \/ \E image \in Images : StartBoot(b, image)
  \/ \E r \in Crons : \/ CronLoad(r) \/ CronSave(r) \/ CronGivesUp(r)
                      \/ \E image \in Images : CronSend(r, image)
  \/ ClockTicks

BootSpec == BootInit /\ [][BootNext]_bootVars

-----------------------------------------------------------------------------
(* Undisturbed, a boot announces no image that the last deploy mail already
   announced, whoever sent it, and mails no restart within the cooldown of the
   boot the last restart mail was for: deploys recorded in between by boots or
   by the cron forget neither.  boot-notify.ts:300, recordDeployNotifySuccess. *)
NoRepeatedMail == repeated => unsettled

=============================================================================
