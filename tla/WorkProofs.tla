----------------------------- MODULE WorkProofs -----------------------------
(***************************************************************************)
(* What holds, for any number of whoever takes part, of the operator mails,*)
(* of publishing, of check-ins and their nudges, of the team of a case, of *)
(* imports of reporting lines, and, last, of the rows of all the components*)
(* of MCUnionWork together.                                                *)
(***************************************************************************)
EXTENDS MCUnionWork, TimeProofs

-----------------------------------------------------------------------------
(* Operator mails. *)

Pending(r) == cron[r].stage \in {"sent", "loaded"}

(* While nothing unsettled happened, the row knows the last mails, except for
   the deploy mail of the one cron run that has not recorded it yet. *)
RowKnows ==
  /\ ~repeated
  /\ opsRow.restartAt = restartMail
  /\ \A r, q \in Crons : Pending(r) /\ Pending(q) => r = q
  /\ (\A r \in Crons : ~Pending(r)) => opsRow.image = deployMail
  /\ \A r \in Crons :
       /\ Pending(r) => cron[r].image = deployMail
       /\ cron[r].stage = "loaded" => cron[r].previous.restartAt = opsRow.restartAt

BootInv == BootTypeOK /\ (~unsettled => RowKnows)

LEMMA BootInvInit == BootInit => BootInv
<1> SUFFICES ASSUME BootInit
             PROVE  BootInv
  OBVIOUS
<1> USE DEF BootInit
<1>1. EmptyRow \in Rows
  BY DEF EmptyRow, Rows, Never, Times
<1>2. BootTypeOK
  <2>1. 0 \in Times
    BY BootAssumption DEF Times
  <2>2. QED
    BY <1>1, <2>1 DEF BootTypeOK, Unscheduled, NotRun
<1>3. RowKnows
  BY DEF RowKnows, Pending, NotRun, EmptyRow
<1>4. QED
  BY <1>2, <1>3 DEF BootInv

CronRuns == [stage : {"none", "sent", "loaded", "over"}, image : Images \cup {NoImage},
             at : Times, previous : Rows]

(* One run moves; the others stay. *)
LEMMA OneCronMoves ==
  ASSUME BootTypeOK, NEW r \in Crons, NEW run \in CronRuns,
         cron' = [cron EXCEPT ![r] = run]
  PROVE  /\ cron' \in [Crons -> CronRuns] /\ cron'[r] = run
         /\ \A q \in Crons \ {r} : cron'[q] = cron[q]
<1>1. cron \in [Crons -> CronRuns]
  BY DEF BootTypeOK, CronRuns
<1>2. QED
  BY <1>1

LEMMA DeployedRow ==
  ASSUME NEW row \in Rows, NEW image \in Images \cup {NoImage}, NEW at \in Times
  PROVE  /\ Deployed(row, image, at) \in Rows
         /\ Deployed(row, image, at).image = image
         /\ Deployed(row, image, at).restartAt = row.restartAt
BY DEF Deployed, Rows

LEMMA RunBootKeeps ==
  ASSUME BootInv, NEW b \in Boots, RunBoot(b)
  PROVE  BootInv'
<1> DEFINE image == boot[b].image
           start == boot[b].startedAt
<1>1. /\ image \in Images \cup {NoImage} /\ start \in Times /\ opsRow \in Rows
      /\ clock' = clock /\ cron' = cron
  BY DEF RunBoot, BootInv, BootTypeOK
<1>2. /\ boot' = [boot EXCEPT ![b] = [Unscheduled EXCEPT !.stage = "over"]]
  BY DEF RunBoot
<1>3. boot' \in [Boots -> [stage : {"none", "waiting", "over"},
                           image : Images \cup {NoImage}, startedAt : Times]]
  <2>1. [Unscheduled EXCEPT !.stage = "over"]
          \in [stage : {"none", "waiting", "over"}, image : Images \cup {NoImage},
               startedAt : Times]
    BY BootAssumption DEF Unscheduled, Times
  <2>2. QED
    BY <1>2, <2>1 DEF BootInv, BootTypeOK
<1>4. (\A r \in Crons : ~Pending(r)) <=> ~Recording
  BY DEF Pending, Recording
<1>5. CASE UNCHANGED <<opsRow, deployMail, restartMail, repeated, unsettled>>
  BY <1>1, <1>3, <1>5 DEF BootInv, BootTypeOK, RowKnows, Pending
<1>6. CASE /\ Decision(image) = "deploy"
           /\ deployMail' = image
           /\ repeated' = (repeated \/ image = deployMail)
           /\ SaveOrLose(Deployed(opsRow, image, start))
           /\ UNCHANGED restartMail
  <2>1. image # opsRow.image
    BY <1>6 DEF Decision
  <2>2. image \in Images \cup {NoImage} /\ opsRow' \in Rows /\ unsettled' \in BOOLEAN
    <3>1. Deployed(opsRow, image, start) \in Rows
      BY <1>1, DeployedRow
    <3>2. unsettled \in BOOLEAN /\ Recording \in BOOLEAN
      BY DEF BootInv, BootTypeOK, Recording
    <3>3. opsRow' \in Rows /\ unsettled' \in BOOLEAN
      BY <1>1, <1>6, <3>1, <3>2 DEF SaveOrLose
    <3>4. QED
      BY <1>1, <3>3
  <2>3. ASSUME ~unsettled'
        PROVE  RowKnows'
    <3>1. ~unsettled /\ ~Recording /\ opsRow' = Deployed(opsRow, image, start)
      BY <1>6, <2>3 DEF SaveOrLose
    <3>2. RowKnows /\ \A r \in Crons : ~Pending(r)
      BY <3>1, <1>4 DEF BootInv
    <3>3. image # deployMail
      BY <2>1, <3>2 DEF RowKnows
    <3>4. opsRow'.image = image /\ opsRow'.restartAt = opsRow.restartAt
      BY <1>1, <3>1, DeployedRow
    <3>5. \A r \in Crons : ~Pending(r)' /\ cron'[r].stage # "loaded"
      BY <1>1, <3>2 DEF Pending
    <3>6. QED
      BY <1>6, <3>2, <3>3, <3>4, <3>5 DEF RowKnows
  <2>4. deployMail' \in Images \cup {NoImage} /\ repeated' \in BOOLEAN
    BY <1>1, <1>6 DEF BootInv, BootTypeOK
  <2>5. BootTypeOK'
    BY <1>1, <1>3, <1>6, <2>2, <2>4 DEF BootInv, BootTypeOK
  <2>6. QED
    BY <2>3, <2>5 DEF BootInv
<1>7. CASE /\ Decision(image) = "restart"
           /\ restartMail' = start
           /\ repeated' = (repeated \/ ~Passed(restartMail, Cooldown))
           /\ SaveOrLose([opsRow EXCEPT !.restartAt = start])
           /\ UNCHANGED deployMail
  <2>1. Passed(opsRow.restartAt, Cooldown)
    BY <1>7 DEF Decision
  <2>2. [opsRow EXCEPT !.restartAt = start] \in Rows
    BY <1>1 DEF Rows
  <2>3. opsRow' \in Rows /\ unsettled' \in BOOLEAN
    BY <1>1, <1>7, <2>2 DEF SaveOrLose, BootInv, BootTypeOK
  <2>4. ASSUME ~unsettled'
        PROVE  RowKnows'
    <3>1. ~unsettled /\ ~Recording /\ opsRow' = [opsRow EXCEPT !.restartAt = start]
      BY <1>7, <2>4 DEF SaveOrLose
    <3>2. RowKnows /\ \A r \in Crons : ~Pending(r)
      BY <3>1, <1>4 DEF BootInv
    <3>3. Passed(restartMail, Cooldown)
      BY <2>1, <3>2 DEF RowKnows
    <3>4. opsRow'.image = opsRow.image /\ opsRow'.restartAt = start
      BY <1>1, <3>1 DEF Rows
    <3>5. \A r \in Crons : ~Pending(r)' /\ cron'[r].stage # "loaded"
      BY <1>1, <3>2 DEF Pending
    <3>6. QED
      BY <1>7, <3>2, <3>3, <3>4, <3>5 DEF RowKnows
  <2>5. restartMail' \in Times \cup {Never} /\ repeated' \in BOOLEAN
    BY <1>1, <1>7 DEF BootInv, BootTypeOK
  <2>6. BootTypeOK'
    BY <1>1, <1>3, <1>7, <2>3, <2>5 DEF BootInv, BootTypeOK
  <2>7. QED
    BY <2>4, <2>6 DEF BootInv
<1>8. QED
  BY <1>5, <1>6, <1>7 DEF RunBoot

LEMMA CronKeeps ==
  ASSUME BootInv, NEW r \in Crons,
         \/ CronLoad(r) \/ CronSave(r) \/ CronGivesUp(r)
         \/ \E image \in Images : CronSend(r, image)
  PROVE  BootInv'
<1> USE DEF BootInv
<1>1. cron \in [Crons -> CronRuns] /\ opsRow \in Rows /\ clock \in Times
  BY DEF BootTypeOK, CronRuns
<1>2. EmptyRow \in Rows /\ 0 \in Times
  BY BootAssumption DEF EmptyRow, Rows, Never, Times
<1>3. ASSUME NEW image \in Images, CronSend(r, image)
      PROVE  BootInv'
  <2> DEFINE run == [cron[r] EXCEPT !.stage = "sent", !.image = image, !.at = clock]
  <2>1. cron' = [cron EXCEPT ![r] = run]
    BY <1>1, <1>3 DEF CronSend
  <2>2. run \in CronRuns /\ run.stage = "sent" /\ run.image = image
    BY <1>1 DEF CronRuns
  <2> HIDE DEF run
  <2>3. /\ cron' \in [Crons -> CronRuns] /\ cron'[r] = run
        /\ \A q \in Crons \ {r} : cron'[q] = cron[q]
    BY <2>1, <2>2, OneCronMoves
  <2>4. BootTypeOK'
    BY <1>3, <2>3 DEF CronSend, BootTypeOK, CronRuns
  <2>5. ASSUME ~unsettled'
        PROVE  RowKnows'
    <3>1. ~unsettled /\ \A q \in Crons : ~Pending(q)
      BY <1>3, <2>5 DEF CronSend, Recording, Pending
    <3>2. \A q \in Crons \ {r} : ~Pending(q)' /\ cron'[q].stage # "loaded"
      BY <2>3, <3>1 DEF Pending
    <3>3. Pending(r)' /\ cron'[r].image = deployMail' /\ cron'[r].stage # "loaded"
      BY <1>3, <2>2, <2>3 DEF CronSend, Pending
    <3>4. QED
      BY <1>3, <3>1, <3>2, <3>3 DEF CronSend, RowKnows
  <2>6. QED
    BY <2>4, <2>5
<1>4. CASE CronLoad(r)
  <2>1. PICK row \in Rows :
          /\ cron' = [cron EXCEPT ![r] = [cron[r] EXCEPT !.stage = "loaded", !.previous = row]]
          /\ row = opsRow \/ unsettled'
    BY <1>1, <1>2, <1>4 DEF CronLoad
  <2> DEFINE run == [cron[r] EXCEPT !.stage = "loaded", !.previous = row]
  <2>2. /\ run \in CronRuns /\ run.stage = "loaded" /\ run.previous = row
        /\ run.image = cron[r].image
    BY <1>1 DEF CronRuns
  <2> HIDE DEF run
  <2>3. /\ cron' \in [Crons -> CronRuns] /\ cron'[r] = run
        /\ \A q \in Crons \ {r} : cron'[q] = cron[q]
    BY <2>1, <2>2, OneCronMoves DEF run
  <2>4. BootTypeOK'
    BY <1>4, <2>3 DEF CronLoad, BootTypeOK, CronRuns
  <2>5. ASSUME ~unsettled'
        PROVE  RowKnows'
    <3>1. RowKnows /\ row = opsRow /\ Pending(r)
      BY <1>4, <2>1, <2>5 DEF CronLoad, Pending
    <3>2. \A q \in Crons : Pending(q)' <=> Pending(q)
      BY <2>2, <2>3, <3>1 DEF Pending
    <3>3. \A q \in Crons : cron'[q].image = cron[q].image
      BY <2>2, <2>3
    <3>4. \A q \in Crons : cron'[q].stage = "loaded"
                             => cron'[q].previous.restartAt = opsRow.restartAt
      BY <2>2, <2>3, <3>1 DEF RowKnows
    <3>5. UNCHANGED <<opsRow, deployMail, restartMail, repeated>>
      BY <1>4 DEF CronLoad
    <3>6. QED
      BY <3>1, <3>2, <3>3, <3>4, <3>5 DEF RowKnows
  <2>6. QED
    BY <2>4, <2>5
<1>5. ASSUME CronSave(r) \/ CronGivesUp(r)
      PROVE  /\ cron' \in [Crons -> CronRuns] /\ cron'[r].stage = "over"
             /\ \A q \in Crons \ {r} : cron'[q] = cron[q]
  <2> DEFINE run == [NotRun EXCEPT !.stage = "over"]
  <2>1. run \in CronRuns /\ run.stage = "over"
    BY <1>2 DEF CronRuns, NotRun
  <2>2. cron' = [cron EXCEPT ![r] = run]
    BY <1>5 DEF CronSave, CronGivesUp
  <2> HIDE DEF run
  <2>3. QED
    BY <2>1, <2>2, OneCronMoves
<1>6. CASE CronSave(r)
  <2>1. /\ cron[r].previous \in Rows /\ cron[r].at \in Times
        /\ cron[r].image \in Images \cup {NoImage}
    BY <1>1 DEF CronRuns
  <2>2. /\ opsRow' \in Rows /\ opsRow'.image = cron[r].image
        /\ opsRow'.restartAt = cron[r].previous.restartAt
    BY <1>6, <2>1, DeployedRow DEF CronSave
  <2>3. BootTypeOK'
    BY <1>5, <1>6, <2>2 DEF CronSave, BootTypeOK, CronRuns
  <2>4. ASSUME ~unsettled'
        PROVE  RowKnows'
    <3>1. /\ RowKnows /\ Pending(r) /\ cron[r].stage = "loaded"
          /\ UNCHANGED <<deployMail, restartMail, repeated>>
      BY <1>6, <2>4 DEF CronSave, Pending
    <3>2. /\ opsRow'.image = deployMail' /\ opsRow'.restartAt = restartMail'
          /\ ~repeated'
      BY <2>2, <3>1 DEF RowKnows
    <3>3. \A q \in Crons : ~Pending(q)' /\ cron'[q].stage # "loaded"
      BY <1>5, <1>6, <3>1 DEF RowKnows, Pending
    <3>4. QED
      BY <3>2, <3>3 DEF RowKnows
  <2>5. QED
    BY <2>3, <2>4
<1>7. CASE CronGivesUp(r)
  BY <1>5, <1>7 DEF CronGivesUp, BootTypeOK, CronRuns
<1>8. QED
  BY <1>3, <1>4, <1>6, <1>7

LEMMA BootInvStep == BootInv /\ [BootNext]_bootVars => BootInv'
<1> SUFFICES ASSUME BootInv, [BootNext]_bootVars
             PROVE  BootInv'
  OBVIOUS
<1>1. ASSUME NEW b \in Boots, NEW image \in Images, StartBoot(b, image)
      PROVE  BootInv'
  <2>1. boot' \in [Boots -> [stage : {"none", "waiting", "over"},
                             image : Images \cup {NoImage}, startedAt : Times]]
    BY <1>1 DEF StartBoot, BootInv, BootTypeOK
  <2>2. QED
    BY <1>1, <2>1 DEF StartBoot, BootInv, BootTypeOK, RowKnows, Pending
<1>2. CASE ClockTicks
  <2>1. clock' \in Times
    BY <1>2, BootAssumption DEF ClockTicks, BootInv, BootTypeOK, Times
  <2>2. QED
    BY <1>2, <2>1 DEF ClockTicks, BootInv, BootTypeOK, RowKnows, Pending
<1>3. CASE UNCHANGED bootVars
  BY <1>3 DEF bootVars, BootInv, BootTypeOK, RowKnows, Pending
<1>4. QED
  BY <1>1, <1>2, <1>3, RunBootKeeps, CronKeeps DEF BootNext

(* However many replicas boot and however many cron runs mail deploys, a boot
   repeats a mail only after a mail went unrecorded or overlapped a cron run
   (boot-notify.ts:300, decideBootNotifyAction). *)
THEOREM RepeatsAreUnsettled == BootSpec => []NoRepeatedMail
<1>1. BootInv => NoRepeatedMail
  BY DEF BootInv, RowKnows, NoRepeatedMail, BootTypeOK
<1>2. QED
  BY BootInvInit, BootInvStep, <1>1, PTL DEF BootSpec

-----------------------------------------------------------------------------
(* Publishing. *)

Drafts == [lock : Nat, payload : Layers \cup {NoText}, reviews : Layers \cup {NoText}]
Releases == [payload : Layers, replaces : Nat, historical : BOOLEAN]
Screens == [lock : Nat, payload : Layers \cup {NoText}, generation : Nat,
            active : Nat, withdrawn : BOOLEAN, version : Nat]
Policies == [withdrawn : BOOLEAN, version : Nat]

PubShape ==
  /\ draft \in Drafts
  /\ releases \in Seq(Releases)
  /\ policy \in Policies
  /\ screen \in [Editors -> Screens]

(* What was released had been reviewed, and so has what the draft holds if its
   reviews are of it. *)
ReviewInv ==
  /\ draft.lock > 0 => draft.payload # NoText
  /\ draft.reviews \in reviewedEver \cup {NoText}
  /\ NoText \notin reviewedEver
  /\ \A n \in 1..Len(releases) : releases[n].payload \in reviewedEver

(* The operation of a release carries the generation the release made. *)
OperationInv ==
  /\ generation = Len(releases) + 1
  /\ IsFiniteSet(operations) /\ Cardinality(operations) = Len(releases)
  /\ \A o \in operations : o.release \in 1..Len(releases)
                             /\ o.request.generation = o.release
  /\ \A o, p \in operations :
       o.release = p.release \/ (o.actor = p.actor /\ o.key = p.key) => o = p

(* A screen is behind, or shows what there is. *)
Knows(s) ==
  /\ s.lock <= draft.lock
  /\ s.lock = draft.lock => s.payload = draft.payload
  /\ s.generation = s.active + 1 /\ s.active <= Len(releases)
  /\ s.version <= policy.version
  /\ s.version = policy.version => s.withdrawn = policy.withdrawn

PubInv == PubShape /\ ReviewInv /\ OperationInv /\ \A e \in Editors : Knows(screen[e])

LEMMA ShownKnows == PubShape /\ OperationInv => Shown \in Screens /\ Knows(Shown)
<1> SUFFICES ASSUME PubShape, OperationInv
             PROVE  Shown \in Screens /\ Knows(Shown)
  OBVIOUS
<1>1. Len(releases) \in Nat
  BY DEF PubShape
<1>2. QED
  BY <1>1 DEF Shown, Active, Screens, Knows, PubShape, OperationInv, Drafts, Policies

LEMMA PubInvInit == PubInit => PubInv
<1> SUFFICES ASSUME PubInit
             PROVE  PubInv
  OBVIOUS
<1> USE DEF PubInit
<1>1. PubShape /\ OperationInv /\ \A e \in Editors : screen[e] = Shown
  <2>1. draft \in Drafts /\ policy \in Policies /\ releases \in Seq(Releases)
          /\ Len(releases) = 0
    BY DEF Drafts, Policies
  <2>2. Shown \in Screens
    BY <2>1 DEF Shown, Active, Screens
  <2>3. IsFiniteSet(operations) /\ Cardinality(operations) = 0
    BY FS_EmptySet
  <2>4. QED
    BY <2>1, <2>2, <2>3 DEF PubShape, OperationInv
<1>2. ReviewInv
  BY DEF ReviewInv
<1>3. QED
  BY <1>1, <1>2, ShownKnows DEF PubInv

(* A screen that stays is still behind, or shows what there is. *)
LEMMA StillKnows ==
  ASSUME PubInv, PubShape', NEW f \in Editors, screen'[f] = screen[f],
         Len(releases') >= Len(releases),
         draft' = draft \/ draft'.lock > draft.lock,
         policy' = policy \/ policy'.version > policy.version
  PROVE  Knows(screen[f])'
<1>1. /\ Len(releases) \in Nat /\ Len(releases') \in Nat
      /\ draft.lock \in Nat /\ draft'.lock \in Nat
      /\ policy.version \in Nat /\ policy'.version \in Nat
  BY DEF PubInv, PubShape, Drafts, Policies
<1>2. screen[f] \in Screens /\ Knows(screen[f])
  BY DEF PubInv, PubShape
<1>3. screen[f].lock <= draft'.lock
        /\ (screen[f].lock = draft'.lock => screen[f].payload = draft'.payload)
  BY <1>1, <1>2 DEF Knows, Screens
<1>4. screen[f].version <= policy'.version
        /\ (screen[f].version = policy'.version => screen[f].withdrawn = policy'.withdrawn)
  BY <1>1, <1>2 DEF Knows, Screens
<1>5. screen[f].active <= Len(releases') /\ screen[f].generation = screen[f].active + 1
  BY <1>1, <1>2 DEF Knows, Screens
<1>6. QED
  BY <1>3, <1>4, <1>5 DEF Knows

(* The answer of a step that was right about what there is now *)
LEMMA AnswerKnows ==
  ASSUME PubInv, NEW e \in Editors,
         draft' \in Drafts, releases' \in Seq(Releases), policy' \in Policies,
         Len(releases') >= Len(releases),
         draft' = draft \/ draft'.lock > draft.lock,
         policy' = policy \/ policy'.version > policy.version,
         screen' \in [Editors -> Screens],
         \A f \in Editors \ {e} : screen'[f] = screen[f],
         screen'[e] = screen[e] \/ Knows(screen[e])'
  PROVE  PubShape' /\ \A f \in Editors : Knows(screen[f])'
<1>1. PubShape'
  BY DEF PubShape
<1>2. ASSUME NEW f \in Editors, screen'[f] = screen[f]
      PROVE  Knows(screen[f])'
  BY <1>1, <1>2, StillKnows
<1>3. QED
  BY <1>1, <1>2

LEMMA AnswerShape ==
  ASSUME PubShape, NEW e \in Editors, NEW seen \in Screens, Answered(e, seen)
  PROVE  /\ screen' \in [Editors -> Screens]
         /\ \A f \in Editors \ {e} : screen'[f] = screen[f]
         /\ screen'[e] = screen[e] \/ screen'[e] = seen
<1>1. screen \in [Editors -> Screens]
  BY DEF PubShape
<1>2. CASE screen' = screen
  BY <1>1, <1>2
<1>3. CASE screen' = [screen EXCEPT ![e] = seen]
  BY <1>1, <1>3
<1>4. QED
  BY <1>2, <1>3 DEF Answered

(* A step that writes the draft and neither releases nor sets the policy *)
LEMMA DraftKeeps ==
  ASSUME PubInv, NEW e \in Editors, NEW text \in Layers \ {NoText}, NEW reviewed \in BOOLEAN,
         draft' = [lock |-> draft.lock + 1, payload |-> text,
                   reviews |-> IF reviewed THEN text ELSE draft.reviews],
         reviewedEver' = IF reviewed THEN reviewedEver \cup {text} ELSE reviewedEver,
         NEW seen \in Screens, Answered(e, seen),
         seen.lock = draft.lock + 1, seen.payload = text,
         seen.generation = screen[e].generation, seen.active = screen[e].active,
         seen.version = screen[e].version, seen.withdrawn = screen[e].withdrawn,
         UNCHANGED <<releases, generation, policy, operations>>
  PROVE  PubInv'
<1>1. screen[e] \in Screens /\ draft \in Drafts /\ Knows(screen[e]) /\ Len(releases) \in Nat
  BY DEF PubInv, PubShape
<1>2. /\ screen' \in [Editors -> Screens]
      /\ \A f \in Editors \ {e} : screen'[f] = screen[f]
      /\ screen'[e] = screen[e] \/ screen'[e] = seen
  BY AnswerShape DEF PubInv
<1>3. draft' \in Drafts /\ draft'.lock = draft.lock + 1 /\ draft'.payload = text
        /\ draft'.lock > draft.lock
  BY <1>1 DEF Drafts
<1>4. screen'[e] = seen => Knows(screen[e])'
  <2>1. /\ releases' = releases /\ policy' = policy
        /\ screen[e].generation \in Nat /\ screen[e].active \in Nat
        /\ draft.lock \in Nat
    BY <1>1 DEF Screens, Drafts
  <2>2. QED
    BY <1>1, <1>3, <2>1 DEF Knows
<1>5. PubShape' /\ \A f \in Editors : Knows(screen[f])'
  <2>1. releases' \in Seq(Releases) /\ policy' \in Policies /\ Len(releases') >= Len(releases)
    BY <1>1 DEF PubInv, PubShape
  <2>2. QED
    BY <2>1, <1>2, <1>3, <1>4, AnswerKnows
<1>6. ReviewInv'
  <2>1. draft'.reviews \in reviewedEver' \cup {NoText}
    BY DEF PubInv, ReviewInv
  <2>2. NoText \notin reviewedEver'
    BY DEF PubInv, ReviewInv
  <2>3. QED
    BY <1>3, <2>1, <2>2 DEF PubInv, ReviewInv
<1>7. OperationInv'
  BY DEF PubInv, OperationInv
<1>8. QED
  BY <1>5, <1>6, <1>7 DEF PubInv

(* writeRelease adds one release, its operation and a generation. *)
LEMMA ReleaseKeeps ==
  ASSUME PubInv, NEW e \in Editors, NEW key, NEW req, NEW layer \in Layers,
         layer \in reviewedEver, req.historical \in BOOLEAN,
         Prior(e, key, req) = {}, WriteRelease(e, key, req, layer)
  PROVE  /\ OperationInv' /\ releases' \in Seq(Releases)
         /\ Len(releases') = Len(releases) + 1 /\ generation' = generation + 1
         /\ \A n \in 1..Len(releases') : releases'[n].payload \in reviewedEver
<1> DEFINE new == [payload |-> layer, replaces |-> Active, historical |-> req.historical]
           op == [actor |-> e, key |-> key, request |-> req, release |-> Active + 1]
<1>1. releases \in Seq(Releases) /\ Active = Len(releases) /\ Len(releases) \in Nat
  BY DEF PubInv, PubShape, Active
<1>2. new \in Releases /\ new.payload = layer
  BY <1>1 DEF Releases
<1>3. /\ op.actor = e /\ op.key = key /\ op.release = Len(releases) + 1
      /\ op.request.generation = Len(releases) + 1
  BY <1>1 DEF WriteRelease, PubInv, OperationInv
<1>4. /\ releases' = Append(releases, new) /\ operations' = operations \cup {op}
      /\ generation' = generation + 1
  BY DEF WriteRelease
<1> HIDE DEF new, op
<1>5. /\ releases' \in Seq(Releases) /\ Len(releases') = Len(releases) + 1
      /\ \A n \in 1..Len(releases) : releases'[n] = releases[n]
      /\ releases'[Len(releases) + 1] = new
  BY <1>1, <1>2, <1>4
<1>6. \A n \in 1..Len(releases') : releases'[n].payload \in reviewedEver
  <2>1. ASSUME NEW n \in 1..Len(releases')
        PROVE  releases'[n].payload \in reviewedEver
    <3>1. n \in 1..Len(releases) \/ n = Len(releases) + 1
      BY <1>1, <1>5
    <3>2. QED
      BY <1>2, <1>5, <3>1 DEF PubInv, ReviewInv
  <2>2. QED
    BY <2>1
<1>7. \A o \in operations : /\ o.release \in 1..Len(releases)
                            /\ o.release # op.release
                            /\ ~(o.actor = op.actor /\ o.key = op.key)
  BY <1>1, <1>3 DEF PubInv, OperationInv, Prior
<1>8. IsFiniteSet(operations') /\ Cardinality(operations') = Len(releases')
  <2>1. op \notin operations
    BY <1>7
  <2>2. IsFiniteSet(operations) /\ Cardinality(operations) = Len(releases)
    BY DEF PubInv, OperationInv
  <2>3. IsFiniteSet(operations \cup {op})
          /\ Cardinality(operations \cup {op}) = Cardinality(operations) + 1
    BY <2>1, <2>2, FS_AddElement
  <2>4. QED
    BY <1>4, <1>5, <2>2, <2>3
<1>9. \A o, p \in operations' :
        o.release = p.release \/ (o.actor = p.actor /\ o.key = p.key) => o = p
  BY <1>4, <1>7 DEF PubInv, OperationInv
<1>10. \A o \in operations' : o.release \in 1..Len(releases')
                                /\ o.request.generation = o.release
  BY <1>1, <1>3, <1>4, <1>5, <1>7 DEF PubInv, OperationInv
<1>11. generation' = Len(releases') + 1
  BY <1>1, <1>4, <1>5 DEF PubInv, OperationInv
<1>12. QED
  BY <1>4, <1>5, <1>6, <1>8, <1>9, <1>10, <1>11 DEF OperationInv

LEMMA EditsKeep ==
  ASSUME PubInv, NEW e \in Editors,
         \/ InheritAgain(e)
         \/ \E text \in (Texts \cup {screen[e].payload}) \ {NoText}, reviewed \in BOOLEAN :
              SaveDraft(e, text, reviewed)
  PROVE  PubInv'
<1>1. screen[e] \in Screens /\ draft \in Drafts
  BY DEF PubInv, PubShape
<1>2. draft.lock \in Nat /\ draft.lock + 1 \in Nat
  BY <1>1 DEF Drafts
<1>3. ASSUME NEW text \in Layers
      PROVE  LET seen == [screen[e] EXCEPT !.lock = draft.lock + 1, !.payload = text]
             IN  /\ seen \in Screens
                 /\ seen.lock = draft.lock + 1 /\ seen.payload = text
                 /\ seen.generation = screen[e].generation
                 /\ seen.active = screen[e].active /\ seen.version = screen[e].version
                 /\ seen.withdrawn = screen[e].withdrawn
  BY <1>1, <1>2 DEF Screens
<1>4. ASSUME NEW text \in (Texts \cup {screen[e].payload}) \ {NoText}, NEW reviewed \in BOOLEAN,
             SaveDraft(e, text, reviewed)
      PROVE  PubInv'
  <2>1. text \in Layers \ {NoText}
    BY <1>1 DEF Screens, Layers
  <2>2. /\ draft' = [lock |-> draft.lock + 1, payload |-> text,
                     reviews |-> IF reviewed THEN text ELSE draft.reviews]
        /\ reviewedEver' = IF reviewed THEN reviewedEver \cup {text} ELSE reviewedEver
        /\ Answered(e, [screen[e] EXCEPT !.lock = draft.lock + 1, !.payload = text])
        /\ UNCHANGED <<releases, generation, policy, operations>>
    BY <1>4 DEF SaveDraft
  <2>3. QED
    BY <1>3, <2>1, <2>2, DraftKeeps
<1>5. CASE InheritAgain(e)
  <2> DEFINE text == draft.lock + 1
  <2>1. text \in Layers \ {NoText}
    BY <1>2, <1>5, PublishingAssumption DEF InheritAgain, DraftAsSeen, Layers
  <2>2. draft' = [lock |-> draft.lock + 1, payload |-> text,
                  reviews |-> IF FALSE THEN text ELSE draft.reviews]
    BY <1>1, <1>5 DEF InheritAgain, Drafts
  <2>3. /\ reviewedEver' = IF FALSE THEN reviewedEver \cup {text} ELSE reviewedEver
        /\ Answered(e, [screen[e] EXCEPT !.lock = draft.lock + 1, !.payload = text])
        /\ UNCHANGED <<releases, generation, policy, operations>>
    BY <1>5 DEF InheritAgain
  <2> HIDE DEF text
  <2>4. QED
    BY <1>3, <2>1, <2>2, <2>3, DraftKeeps
<1>6. QED
  BY <1>4, <1>5

LEMMA PublishKeeps ==
  ASSUME PubInv, NEW e \in Editors, NEW key \in OpKeys, Publish(e, key)
  PROVE  PubInv' /\ screen[e].payload = draft.payload /\ screen[e].active = Active
<1> DEFINE req == [lock |-> screen[e].lock, generation |-> screen[e].generation,
                       historical |-> FALSE]
           seen == [screen[e] EXCEPT !.generation = generation + 1, !.active = Active + 1]
<1>1. /\ draft.lock > 0 /\ Prior(e, key, req) = {} /\ draft.lock = screen[e].lock
      /\ Reviewed /\ WriteRelease(e, key, req, draft.payload)
      /\ Answered(e, seen) /\ UNCHANGED <<draft, policy, reviewedEver>>
  BY DEF Publish, HasDraft
<1>2. /\ screen[e] \in Screens /\ draft \in Drafts /\ policy \in Policies
      /\ Knows(screen[e]) /\ Active = Len(releases) /\ Len(releases) \in Nat
      /\ generation = Len(releases) + 1
  BY DEF PubInv, PubShape, OperationInv, Active
<1>3. /\ seen \in Screens /\ seen.lock = screen[e].lock /\ seen.payload = screen[e].payload
      /\ seen.generation = Len(releases) + 2 /\ seen.active = Len(releases) + 1
      /\ seen.version = screen[e].version /\ seen.withdrawn = screen[e].withdrawn
  <2>1. /\ generation + 1 = Len(releases) + 2 /\ Active + 1 = Len(releases) + 1
        /\ generation + 1 \in Nat /\ Active + 1 \in Nat
    BY <1>2
  <2>2. QED
    BY <1>2, <2>1 DEF Screens
<1>4. draft.payload \in reviewedEver /\ draft.payload \in Layers
  BY <1>1, <1>2 DEF PubInv, ReviewInv, Reviewed, Drafts
<1>5. req.historical \in BOOLEAN /\ req.generation = screen[e].generation
  OBVIOUS
<1>6. screen[e].generation = generation
  BY <1>1, <1>5 DEF WriteRelease
<1> HIDE DEF req, seen
<1>7. /\ OperationInv' /\ releases' \in Seq(Releases)
      /\ Len(releases') = Len(releases) + 1 /\ generation' = generation + 1
      /\ \A n \in 1..Len(releases') : releases'[n].payload \in reviewedEver
  BY <1>1, <1>4, <1>5, ReleaseKeeps
<1>8. /\ screen' \in [Editors -> Screens]
      /\ \A f \in Editors \ {e} : screen'[f] = screen[f]
      /\ screen'[e] = screen[e] \/ screen'[e] = seen
  BY <1>1, <1>3, AnswerShape DEF PubInv
<1>9. screen'[e] = seen => Knows(screen[e])'
  BY <1>1, <1>2, <1>3, <1>7 DEF Knows
<1>10. PubShape' /\ \A f \in Editors : Knows(screen[f])'
  <2>1. draft' \in Drafts /\ policy' \in Policies /\ Len(releases') >= Len(releases)
    BY <1>1, <1>2, <1>7
  <2>2. QED
    BY <2>1, <1>1, <1>7, <1>8, <1>9, AnswerKnows
<1>11. ReviewInv'
  BY <1>1, <1>7 DEF PubInv, ReviewInv
<1>12. screen[e].payload = draft.payload /\ screen[e].active = Active
  BY <1>1, <1>2, <1>6 DEF Knows, Screens
<1>13. QED
  BY <1>7, <1>10, <1>11, <1>12 DEF PubInv

LEMMA ReplayKeeps ==
  ASSUME PubInv, NEW e \in Editors, NEW key \in OpKeys, ReplayPublish(e, key)
  PROVE  PubInv'
<1> DEFINE req == [lock |-> screen[e].lock, generation |-> screen[e].generation,
                       historical |-> FALSE]
<1>1. PICK o \in Prior(e, key, req) :
        /\ o.request = req
        /\ screen' = [screen EXCEPT ![e].generation = req.generation + 1,
                                    ![e].active = o.release]
        /\ UNCHANGED <<draft, releases, generation, policy, operations, reviewedEver>>
  BY DEF ReplayPublish
<1> DEFINE seen == [screen[e] EXCEPT !.generation = req.generation + 1,
                                     !.active = o.release]
<1>2. screen \in [Editors -> Screens] /\ Knows(screen[e]) /\ Len(releases) \in Nat
  BY DEF PubInv, PubShape
<1>3. req.generation = o.release /\ o.release \in 1..Len(releases)
  BY <1>1 DEF Prior, PubInv, OperationInv
<1>4. /\ seen \in Screens /\ seen.lock = screen[e].lock /\ seen.payload = screen[e].payload
      /\ seen.generation = seen.active + 1 /\ seen.active \in 1..Len(releases)
      /\ seen.version = screen[e].version /\ seen.withdrawn = screen[e].withdrawn
  <2>1. o.release \in Nat /\ o.release + 1 \in Nat
    BY <1>2, <1>3
  <2>2. QED
    BY <1>2, <1>3, <2>1 DEF Screens
<1>5. screen' = [screen EXCEPT ![e] = seen]
  BY <1>1, <1>2
<1> HIDE DEF req, seen
<1>6. /\ screen' \in [Editors -> Screens] /\ screen'[e] = seen
      /\ \A f \in Editors \ {e} : screen'[f] = screen[f]
  BY <1>2, <1>4, <1>5
<1>7. Knows(screen[e])'
  <2>1. draft' = draft /\ policy' = policy /\ releases' = releases
    BY <1>1
  <2>2. QED
    BY <1>2, <1>4, <1>6, <2>1 DEF Knows
<1>8. PubShape' /\ \A f \in Editors : Knows(screen[f])'
  <2>1. /\ draft' \in Drafts /\ releases' \in Seq(Releases) /\ policy' \in Policies
        /\ Len(releases') >= Len(releases)
    BY <1>1, <1>2 DEF PubInv, PubShape
  <2>2. QED
    BY <2>1, <1>1, <1>6, <1>7, AnswerKnows
<1>9. QED
  BY <1>1, <1>8 DEF PubInv, ReviewInv, OperationInv

LEMMA RollbackKeeps ==
  ASSUME PubInv, NEW e \in Editors, NEW key \in OpKeys, NEW number \in 1..Len(releases),
         Rollback(e, key, number)
  PROVE  /\ PubInv'
         /\ draft'.reviews = NoText /\ draft'.payload = releases[number].payload
         /\ releases' # releases => /\ screen[e].active = Active
                                    /\ releases'[Len(releases')].historical
<1> DEFINE layer == releases[number].payload
           req == [lock |-> draft.lock + 1, generation |-> screen[e].generation,
                       historical |-> TRUE]
           seen == [screen[e] EXCEPT !.generation = generation + 1, !.active = Active + 1,
                                     !.lock = @ + 1, !.payload = layer]
<1>1. /\ draft' = [lock |-> draft.lock + 1, payload |-> layer, reviews |-> NoText]
      /\ policy' = policy /\ reviewedEver' = reviewedEver
  BY DEF Rollback
<1>2. /\ screen[e] \in Screens /\ draft \in Drafts /\ policy \in Policies
      /\ screen \in [Editors -> Screens] /\ releases \in Seq(Releases)
      /\ Knows(screen[e]) /\ Active = Len(releases) /\ Len(releases) \in Nat
      /\ generation = Len(releases) + 1
  BY DEF PubInv, PubShape, OperationInv, Active
<1>3. layer \in Layers /\ layer \in reviewedEver /\ layer # NoText
  <2>1. releases[number] \in Releases
    BY <1>2
  <2>2. layer \in Layers
    BY <2>1 DEF Releases
  <2>3. layer \in reviewedEver /\ NoText \notin reviewedEver
    BY DEF PubInv, ReviewInv
  <2>4. QED
    BY <2>2, <2>3
<1>4. /\ draft' \in Drafts /\ draft'.lock = draft.lock + 1 /\ draft'.lock > draft.lock
      /\ draft'.payload = layer /\ draft'.reviews = NoText /\ draft.lock \in Nat
  BY <1>1, <1>2, <1>3 DEF Drafts
<1>5. /\ seen \in Screens /\ seen.lock = screen[e].lock + 1 /\ seen.payload = layer
      /\ seen.generation = Len(releases) + 2 /\ seen.active = Len(releases) + 1
      /\ seen.version = screen[e].version /\ seen.withdrawn = screen[e].withdrawn
  <2>1. /\ generation + 1 = Len(releases) + 2 /\ Active + 1 = Len(releases) + 1
        /\ generation + 1 \in Nat /\ Active + 1 \in Nat /\ screen[e].lock + 1 \in Nat
    BY <1>2 DEF Screens
  <2>2. QED
    BY <1>2, <1>3, <2>1 DEF Screens
<1>6. req.historical = TRUE /\ req.generation = screen[e].generation
  OBVIOUS
<1>7. CASE /\ Prior(e, key, req) = {} /\ WriteRelease(e, key, req, layer)
           /\ Answered(e, seen)
  <2> HIDE DEF req, seen, layer
  <2>1. /\ OperationInv' /\ releases' \in Seq(Releases)
        /\ Len(releases') = Len(releases) + 1 /\ generation' = generation + 1
        /\ \A n \in 1..Len(releases') : releases'[n].payload \in reviewedEver
    BY <1>3, <1>6, <1>7, ReleaseKeeps
  <2>2. /\ screen' \in [Editors -> Screens]
        /\ \A f \in Editors \ {e} : screen'[f] = screen[f]
        /\ screen'[e] = screen[e] \/ screen'[e] = seen
    BY <1>5, <1>7, AnswerShape DEF PubInv
  <2>3. screen'[e] = seen => Knows(screen[e])'
    <3>1. screen[e].lock \in Nat
      BY <1>2 DEF Screens
    <3>2. QED
      BY <1>1, <1>2, <1>4, <1>5, <2>1, <3>1 DEF Knows
  <2>4. PubShape' /\ \A f \in Editors : Knows(screen[f])'
    <3>1. policy' \in Policies /\ Len(releases') >= Len(releases)
      BY <1>1, <1>2, <2>1
    <3>2. QED
      BY <1>1, <1>4, <2>1, <2>2, <2>3, <3>1, AnswerKnows
  <2>5. ReviewInv'
    BY <1>1, <1>3, <1>4, <2>1 DEF PubInv, ReviewInv
  <2>6. screen[e].active = Active
    <3>1. screen[e].generation = generation
      BY <1>6, <1>7 DEF WriteRelease
    <3>2. QED
      BY <1>2, <3>1 DEF Knows, Screens
  <2>7. releases'[Len(releases')].historical
    <3>1. releases' = Append(releases, [payload |-> layer, replaces |-> Active,
                                        historical |-> req.historical])
      BY <1>7 DEF WriteRelease
    <3>2. [payload |-> layer, replaces |-> Active, historical |-> req.historical]
            \in Releases
      BY <1>2, <1>3, <1>6 DEF Releases
    <3>3. QED
      BY <1>2, <1>6, <2>1, <3>1, <3>2
  <2>8. QED
    BY <1>4, <2>1, <2>4, <2>5, <2>6, <2>7 DEF PubInv, layer
<1>8. CASE UNCHANGED <<releases, generation, operations, screen>>
  <2> HIDE DEF req, seen, layer
  <2>1. /\ releases' \in Seq(Releases) /\ policy' \in Policies
        /\ Len(releases') >= Len(releases)
        /\ screen' \in [Editors -> Screens] /\ screen'[e] = screen[e]
        /\ \A f \in Editors \ {e} : screen'[f] = screen[f]
    BY <1>1, <1>2, <1>8
  <2>2. PubShape' /\ \A f \in Editors : Knows(screen[f])'
    BY <1>1, <1>4, <2>1, AnswerKnows
  <2>3. ReviewInv'
    BY <1>1, <1>3, <1>4, <1>8 DEF PubInv, ReviewInv
  <2>4. OperationInv'
    BY <1>8 DEF PubInv, OperationInv
  <2>5. QED
    BY <1>4, <1>8, <2>2, <2>3, <2>4 DEF PubInv, layer
<1>9. QED
  BY <1>7, <1>8 DEF Rollback

LEMMA PolicyKeeps ==
  ASSUME PubInv, NEW e \in Editors, NEW withdrawn \in BOOLEAN, SetPolicy(e, withdrawn)
  PROVE  PubInv' /\ (policy.withdrawn => screen[e].withdrawn)
<1> DEFINE seen == [screen[e] EXCEPT !.withdrawn = withdrawn, !.version = policy.version + 1]
<1>1. /\ policy.version = screen[e].version
      /\ policy' = [withdrawn |-> withdrawn, version |-> policy.version + 1]
      /\ Answered(e, seen)
      /\ UNCHANGED <<draft, releases, generation, operations, reviewedEver>>
  BY DEF SetPolicy, PolicyAsSeen
<1>2. /\ screen[e] \in Screens /\ policy \in Policies /\ draft \in Drafts
      /\ Knows(screen[e]) /\ Len(releases) \in Nat /\ releases \in Seq(Releases)
  BY DEF PubInv, PubShape
<1>3. /\ policy' \in Policies /\ policy'.version > policy.version
      /\ policy'.version = policy.version + 1 /\ policy'.withdrawn = withdrawn
      /\ policy.version + 1 \in Nat
  BY <1>1, <1>2 DEF Policies
<1>4. /\ seen \in Screens /\ seen.lock = screen[e].lock /\ seen.payload = screen[e].payload
      /\ seen.generation = screen[e].generation /\ seen.active = screen[e].active
      /\ seen.version = policy.version + 1 /\ seen.withdrawn = withdrawn
  BY <1>2, <1>3 DEF Screens
<1> HIDE DEF seen
<1>5. /\ screen' \in [Editors -> Screens]
      /\ \A f \in Editors \ {e} : screen'[f] = screen[f]
      /\ screen'[e] = screen[e] \/ screen'[e] = seen
  BY <1>1, <1>4, AnswerShape DEF PubInv
<1>6. screen'[e] = seen => Knows(screen[e])'
  <2>1. draft' = draft /\ releases' = releases
    BY <1>1
  <2>2. QED
    BY <1>2, <1>3, <1>4, <2>1 DEF Knows
<1>7. PubShape' /\ \A f \in Editors : Knows(screen[f])'
  <2>1. /\ draft' \in Drafts /\ releases' \in Seq(Releases) /\ Len(releases') >= Len(releases)
        /\ draft' = draft
    BY <1>1, <1>2
  <2>2. QED
    BY <2>1, <1>3, <1>5, <1>6, AnswerKnows
<1>8. ReviewInv' /\ OperationInv'
  BY <1>1 DEF PubInv, ReviewInv, OperationInv
<1>9. policy.withdrawn => screen[e].withdrawn
  BY <1>1, <1>2 DEF Knows
<1>10. QED
  BY <1>7, <1>8, <1>9 DEF PubInv

LEMMA LoadKeeps ==
  ASSUME PubInv, NEW e \in Editors, LoadScreen(e)
  PROVE  PubInv'
<1>1. /\ screen' = [screen EXCEPT ![e] = Shown]
      /\ UNCHANGED <<draft, releases, generation, policy, operations, reviewedEver>>
  BY DEF LoadScreen
<1>2. Shown \in Screens /\ Knows(Shown)
  BY ShownKnows DEF PubInv
<1>3. /\ screen' \in [Editors -> Screens] /\ screen'[e] = Shown
      /\ \A f \in Editors \ {e} : screen'[f] = screen[f]
  BY <1>1, <1>2 DEF PubInv, PubShape
<1>4. Knows(screen[e])'
  BY <1>1, <1>2, <1>3 DEF Knows
<1>5. PubShape' /\ \A f \in Editors : Knows(screen[f])'
  <2>1. /\ draft' \in Drafts /\ releases' \in Seq(Releases) /\ policy' \in Policies
        /\ Len(releases') >= Len(releases)
    BY <1>1 DEF PubInv, PubShape
  <2>2. QED
    BY <2>1, <1>1, <1>3, <1>4, AnswerKnows
<1>6. QED
  BY <1>1, <1>5 DEF PubInv, ReviewInv, OperationInv

LEMMA PubInvStep == PubInv /\ [PubNext]_pubVars => PubInv'
<1> SUFFICES ASSUME PubInv, [PubNext]_pubVars
             PROVE  PubInv'
  OBVIOUS
<1>1. CASE UNCHANGED pubVars
  BY <1>1 DEF pubVars, PubInv, PubShape, ReviewInv, OperationInv, Knows
<1>2. QED
  BY <1>1, LoadKeeps, EditsKeep, PublishKeeps, ReplayKeeps, RollbackKeeps, PolicyKeeps
     DEF PubNext

LEMMA PubInvHolds == PubSpec => []PubInv
BY PubInvInit, PubInvStep, PTL DEF PubSpec

(* No operator, however many and whatever they repeat, makes a layer live that
   nobody marked as reviewed (publish.ts: bilingual_review_required). *)
THEOREM ReleasesWereReviewed == PubSpec => []LiveWasReviewed
<1>1. PubInv => LiveWasReviewed
  BY DEF PubInv, ReviewInv, LiveWasReviewed
<1>2. QED
  BY PubInvHolds, <1>1, PTL

(* A key publishes once, for any number of keys, operators and retries
   (publish.ts: the operations table). *)
THEOREM RetriesPublishOnce == PubSpec => []KeyPublishesOnce
<1>1. PubInv => KeyPublishesOnce
  BY DEF PubInv, OperationInv, KeyPublishesOnce
<1>2. QED
  BY PubInvHolds, <1>1, PTL

(* The versions a screen sends back let nobody replace what they did not see:
   no screen is ahead of the rows, and one whose version is the row's shows the
   row (drafts.ts: expectedLockVersion; publish.ts: expectedGeneration). *)
THEOREM OperatorsActOnWhatTheySaw == PubSpec => ActedOnWhatWasSeen
<1> DEFINE Acted ==
      author' \in Editors =>
        LET seen == screen[author'] IN
        /\ draft' # draft =>
             \/ seen.payload = draft.payload
             \/ draft.lock = 0
             \/ draft'.reviews = NoText
                /\ \E n \in 1..Len(releases) : draft'.payload = releases[n].payload
        /\ releases' # releases =>
             /\ seen.active = Active
             /\ releases'[Len(releases')].historical
                  \/ releases'[Len(releases')].payload = seen.payload
        /\ policy.withdrawn /\ ~policy'.withdrawn => seen.withdrawn
<1>1. PubInv /\ [PubNext]_pubVars => [Acted]_pubVars
  <2> SUFFICES ASSUME PubInv, NEW e \in Editors,
                      \/ LoadScreen(e)
                      \/ \E text \in (Texts \cup {screen[e].payload}) \ {NoText},
                            reviewed \in BOOLEAN : SaveDraft(e, text, reviewed)
                      \/ InheritAgain(e)
                      \/ \E key \in OpKeys :
                           \/ Publish(e, key)
                           \/ ReplayPublish(e, key)
                           \/ \E number \in 1..Len(releases) : Rollback(e, key, number)
                      \/ \E withdrawn \in BOOLEAN : SetPolicy(e, withdrawn)
               PROVE  Acted
    BY DEF PubNext, pubVars
  <2>1. CASE LoadScreen(e) \/ \E key \in OpKeys : ReplayPublish(e, key)
    BY <2>1 DEF LoadScreen, ReplayPublish
  <2>2. CASE InheritAgain(e) \/ \E text \in (Texts \cup {screen[e].payload}) \ {NoText},
                                   reviewed \in BOOLEAN : SaveDraft(e, text, reviewed)
    <3>1. /\ author' = e /\ releases' = releases /\ policy' = policy
          /\ draft.lock = 0 \/ draft.lock = screen[e].lock
      BY <2>2 DEF InheritAgain, SaveDraft, DraftAsSeen
    <3>2. draft.lock = 0 \/ screen[e].payload = draft.payload
      BY <3>1 DEF PubInv, Knows
    <3>3. QED
      BY <3>1, <3>2
  <2>3. ASSUME NEW key \in OpKeys, Publish(e, key)
        PROVE  Acted
    <3>1. screen[e].payload = draft.payload /\ screen[e].active = Active
      BY <2>3, PublishKeeps
    <3>2. /\ author' = e /\ draft' = draft /\ policy' = policy
          /\ releases' = Append(releases, [payload |-> draft.payload, replaces |-> Active,
                                           historical |-> FALSE])
      BY <2>3 DEF Publish, HasDraft, WriteRelease
    <3>3. releases'[Len(releases')].payload = draft.payload
      <4>1. [payload |-> draft.payload, replaces |-> Active, historical |-> FALSE] \in Releases
        BY <2>3 DEF Publish, HasDraft, Reviewed, Releases, PubInv, PubShape, ReviewInv, Drafts, Active
      <4>2. QED
        BY <3>2, <4>1 DEF PubInv, PubShape
    <3>4. QED
      BY <3>1, <3>2, <3>3
  <2>4. ASSUME NEW key \in OpKeys, NEW number \in 1..Len(releases), Rollback(e, key, number)
        PROVE  Acted
    <3>1. author' = e /\ policy' = policy
      BY <2>4 DEF Rollback
    <3>2. /\ draft'.reviews = NoText /\ draft'.payload = releases[number].payload
          /\ releases' # releases => /\ screen[e].active = Active
                                     /\ releases'[Len(releases')].historical
      BY <2>4, RollbackKeeps
    <3>3. QED
      BY <3>1, <3>2
  <2>5. ASSUME NEW withdrawn \in BOOLEAN, SetPolicy(e, withdrawn)
        PROVE  Acted
    <3>1. author' = e /\ draft' = draft /\ releases' = releases
      BY <2>5 DEF SetPolicy
    <3>2. policy.withdrawn => screen[e].withdrawn
      BY <2>5, PolicyKeeps
    <3>3. QED
      BY <3>1, <3>2
  <2>6. QED
    BY <2>1, <2>2, <2>3, <2>4, <2>5
<1>2. QED
  BY PubInvHolds, <1>1, PTL DEF PubSpec, ActedOnWhatWasSeen

-----------------------------------------------------------------------------
(* Check-ins. *)

(* What a run of the cron has read. *)
NudgeStates ==
  {NoNudge} \cup [stage : {"list", "send"}, period : Periods, left : SUBSET Members,
                  jobs : SUBSET Members, had : SUBSET Members]

(* An edit as the route read it, or with the weekday the store derived. *)
EditStates ==
  {NoEdit} \cup [stage : {"store"}, want : Changes]
  \cup [stage : {"write"}, want : [cadence : SUBSET Cadences,
          weekday : {{w} : w \in Targets \cup {NoDay}}, active : SUBSET BOOLEAN]]

(* Nobody a run has put on its list had answered when it began: Consider looks
   at the answers, which are never taken back. *)
JobsWereFree ==
  \A r \in NudgeRuns : nudge[r] # NoNudge =>
    /\ \A m \in nudge[r].had : <<nudge[r].period, m>> \in answers
    /\ nudge[r].jobs \cap nudge[r].had = {}

Sound(s) == s.cadence = "weekly" <=> s.weekday # NoDay

\* What an edit is about to write is sound against the schedule there is.
EditIsSound(e) ==
  LET want == edit[e].want IN
    edit[e].stage = "store" =>
       \/ Over(want.cadence, schedule.cadence) # "weekly"
       \/ Over(want.weekday, schedule.weekday) # NoDay

WriteIsSound(e) ==
  LET want == edit[e].want IN
    edit[e].stage = "write" =>
       (Over(want.cadence, schedule.cadence) = "weekly" <=> Over(want.weekday, schedule.weekday) # NoDay)

CheckinInv ==
  /\ CheckinTypeOK
  /\ nudge \in [NudgeRuns -> NudgeStates]
  /\ edit \in [Edits -> EditStates]
  /\ JobsWereFree
  /\ NudgesAreDue
  /\ ~tangled => /\ \A e \in Edits : EditIsSound(e) /\ WriteIsSound(e)
                 /\ \A e, f \in Edits : edit[e] # NoEdit /\ edit[f] # NoEdit => e = f
-----------------------------------------------------------------------------
(* What an edit leaves out keeps its value. *)
LEMMA OverType ==
  ASSUME NEW S, NEW sent \in SUBSET S, NEW old \in S
  PROVE  Over(sent, old) \in S
BY DEF Over

(* What it gives is taken. *)
LEMMA OverGiven ==
  ASSUME NEW v, NEW old
  PROVE  Over({v}, old) = v
BY DEF Over

(* Seven days in a row have every weekday. *)
LEMMA WeekIsFull ==
  ASSUME NEW dow \in Int, NEW w \in 0..6
  PROVE  \E k \in (dow - 6)..dow : Dow(k) = w
<1> FirstDow \in Int
  BY CheckinAssumption
<1> DEFINE k == dow - ((dow + FirstDow - w) % 7)
<1>1. k \in (dow - 6)..dow
  OBVIOUS
<1>2. (k + FirstDow) % 7 = w
  OBVIOUS
<1>3. QED
  BY <1>1, <1>2 DEF Dow

(* The period of a schedule is among those the model counts. *)
LEMMA PeriodType ==
  ASSUME CheckinTypeOK
  PROVE  PeriodOf(schedule, today) \in Periods \cup {NoPeriod}
<1>1. today \in 0..MaxToday /\ MaxToday \in Nat /\ Targets \subseteq 0..6
  BY CheckinAssumption DEF CheckinTypeOK
<1>2. today \in Periods
  BY <1>1 DEF Periods
<1>3. schedule.cadence \in Cadences /\ schedule.weekday \in Targets \cup {NoDay}
  BY DEF CheckinTypeOK
<1>4. CASE schedule.cadence \in {"daily", "weekdays"}
  BY <1>2, <1>4 DEF PeriodOf
<1>5. CASE schedule.cadence = "weekly"
  <2> DEFINE w == IF schedule.weekday = NoDay THEN 1 ELSE schedule.weekday
             k == CHOOSE j \in (today - 6)..today : Dow(j) = w
  <2>1. w \in 0..6
    <3>1. CASE schedule.weekday = NoDay
      BY <3>1
    <3>2. CASE schedule.weekday # NoDay
      BY <1>1, <1>3, <3>2
    <3>3. QED
      BY <3>1, <3>2
  <2>2. k \in (today - 6)..today
    <3> HIDE DEF w
    <3>1. \E j \in (today - 6)..today : Dow(j) = w
      <4>1. today \in Int
        BY <1>1
      <4>2. QED
        BY <2>1, <4>1, WeekIsFull
    <3>2. QED
      BY <3>1
  <2>3. PeriodOf(schedule, today) = k
    BY <1>5 DEF PeriodOf
  <2> HIDE DEF k
  <2>4. QED
    BY <1>1, <2>2, <2>3 DEF Periods
<1>6. QED
  BY <1>3, <1>4, <1>5 DEF Cadences

-----------------------------------------------------------------------------
LEMMA CheckinInvInit == CheckinInit => CheckinInv
<1> SUFFICES ASSUME CheckinInit
             PROVE  CheckinInv
  OBVIOUS
<1> USE CheckinAssumption DEF CheckinInit
<1>1. CheckinTypeOK
  <2>1. schedule \in [cadence : Cadences, weekday : Targets \cup {NoDay}, active : BOOLEAN]
    OBVIOUS
  <2>2. {unfit, tangled} \subseteq BOOLEAN
    OBVIOUS
  <2>3. today \in 0..MaxToday /\ begun \in 0..MaxEdits
    OBVIOUS
  <2>4. QED
    BY <2>1, <2>2, <2>3 DEF CheckinTypeOK
<1>2. nudge \in [NudgeRuns -> NudgeStates] /\ edit \in [Edits -> EditStates]
  BY DEF NudgeStates, EditStates
<1>3. JobsWereFree
  BY DEF JobsWereFree
<1>4. NudgesAreDue
  BY DEF NudgesAreDue, Cadences
<1>5. \A e \in Edits : EditIsSound(e) /\ WriteIsSound(e)
  BY DEF EditIsSound, WriteIsSound, NoEdit
<1>6. QED
  BY <1>1, <1>2, <1>3, <1>4, <1>5 DEF CheckinInv

(* Days pass and people answer: nothing an edit or a run relies on is lost. *)
LEMMA NextDayKeeps ==
  ASSUME CheckinInv, NextDay
  PROVE  CheckinInv'
<1> USE DEF NextDay, CheckinInv
<1>1. CheckinTypeOK'
  BY CheckinAssumption DEF CheckinTypeOK
<1>2. JobsWereFree' /\ NudgesAreDue'
  BY DEF JobsWereFree, NudgesAreDue
<1>3. \A e \in Edits : EditIsSound(e)' = EditIsSound(e) /\ WriteIsSound(e)' = WriteIsSound(e)
  BY DEF EditIsSound, WriteIsSound
<1>4. QED
  BY <1>1, <1>2, <1>3

LEMMA AnswerKeeps ==
  ASSUME CheckinInv, NEW m \in Members, Answer(m)
  PROVE  CheckinInv'
<1> DEFINE p == PeriodOf(schedule, today)
<1>1. p \in Periods
  BY PeriodType DEF Answer, CheckinInv
<1>2. /\ answers' = answers \cup {<<p, m>>}
      /\ UNCHANGED <<today, schedule, edit, begun, claims, nudge, nudged, unfit, tangled>>
  BY DEF Answer
<1> HIDE DEF p
<1> USE DEF CheckinInv
<1>3. CheckinTypeOK'
  BY <1>1, <1>2 DEF CheckinTypeOK
<1>4. JobsWereFree' /\ NudgesAreDue'
  BY <1>2 DEF JobsWereFree, NudgesAreDue
<1>5. \A e \in Edits : EditIsSound(e)' = EditIsSound(e) /\ WriteIsSound(e)' = WriteIsSound(e)
  BY <1>2 DEF EditIsSound, WriteIsSound
<1>6. QED
  BY <1>2, <1>3, <1>4, <1>5

-----------------------------------------------------------------------------
(* Edits. *)

LEMMA EditReadKeeps ==
  ASSUME CheckinInv, NEW e \in Edits, NEW want \in Changes, EditRead(e, want)
  PROVE  CheckinInv'
<1> USE DEF CheckinInv
<1>1. /\ edit' = [edit EXCEPT ![e] = [stage |-> "store", want |-> want]]
      /\ begun < MaxEdits /\ begun' = begun + 1
      /\ tangled' = (tangled \/ \E f \in Edits \ {e} : edit[f] # NoEdit)
      /\ UNCHANGED <<today, schedule, answers, claims, nudge, nudged, unfit>>
  BY DEF EditRead
<1>2. /\ edit' \in [Edits -> EditStates]
      /\ edit'[e] = [stage |-> "store", want |-> want]
      /\ \A f \in Edits \ {e} : edit'[f] = edit[f]
  BY <1>1 DEF EditStates
<1>3. CheckinTypeOK'
  BY <1>1, CheckinAssumption DEF CheckinTypeOK
<1>4. JobsWereFree' /\ NudgesAreDue'
  BY <1>1 DEF JobsWereFree, NudgesAreDue, CheckinTypeOK
<1>5. ASSUME ~tangled'
      PROVE  /\ \A f \in Edits : EditIsSound(f)' /\ WriteIsSound(f)'
             /\ \A f, g \in Edits : edit'[f] # NoEdit /\ edit'[g] # NoEdit => f = g
  <2>1. ~tangled /\ \A f \in Edits \ {e} : edit'[f] = NoEdit
    BY <1>1, <1>2, <1>5
  <2>2. EditIsSound(e)' /\ WriteIsSound(e)'
    BY <1>1, <1>2 DEF EditIsSound, WriteIsSound, EditRead
  <2>3. \A f \in Edits \ {e} : EditIsSound(f)' /\ WriteIsSound(f)'
    BY <2>1 DEF EditIsSound, WriteIsSound, NoEdit
  <2>4. QED
    BY <2>1, <2>2, <2>3
<1>6. QED
  BY <1>1, <1>2, <1>3, <1>4, <1>5

LEMMA EditReadAgainKeeps ==
  ASSUME CheckinInv, NEW e \in Edits, EditReadAgain(e)
  PROVE  CheckinInv'
<1> USE DEF CheckinInv
<1> DEFINE want == edit[e].want
           dow == WeekdayWritten(want, schedule)
           new == [stage |-> "write", want |-> [want EXCEPT !.weekday = {dow}]]
<1>1. /\ edit[e].stage = "store"
      /\ edit' = [edit EXCEPT ![e] = new]
      /\ UNCHANGED <<today, schedule, begun, answers, claims, nudge, nudged, unfit, tangled>>
  BY DEF EditReadAgain
<1>2. want \in [cadence : SUBSET Cadences, weekday : SUBSET (Targets \cup {NoDay}),
                active : SUBSET BOOLEAN]
  BY <1>1, CheckinAssumption DEF EditStates, NoEdit, Cadences
<1>3. schedule \in [cadence : Cadences, weekday : Targets \cup {NoDay}, active : BOOLEAN]
  BY DEF CheckinTypeOK
<1>4. dow \in Targets \cup {NoDay}
  BY <1>2, <1>3, OverType DEF WeekdayWritten
<1>5. /\ new.want.weekday = {dow} /\ new.want.cadence = want.cadence
      /\ new \in EditStates /\ new # NoEdit /\ new.stage = "write"
  <2> HIDE DEF dow, want
  <2>1. [want EXCEPT !.weekday = {dow}]
          \in [cadence : SUBSET Cadences, weekday : {{w} : w \in Targets \cup {NoDay}},
               active : SUBSET BOOLEAN]
    BY <1>2, <1>4
  <2>2. QED
    BY <1>2, <2>1 DEF EditStates, NoEdit
<1> HIDE DEF new
<1>6. /\ edit' \in [Edits -> EditStates] /\ edit'[e] = new
      /\ \A f \in Edits \ {e} : edit'[f] = edit[f]
  BY <1>1, <1>5
<1>7. CheckinTypeOK' /\ JobsWereFree' /\ NudgesAreDue'
  BY <1>1 DEF CheckinTypeOK, JobsWereFree, NudgesAreDue
<1>8. ASSUME ~tangled
      PROVE  \A f \in Edits : EditIsSound(f)' /\ WriteIsSound(f)'
  <2>1. WriteIsSound(e)'
    <3>1. Over(new.want.weekday, schedule.weekday) = dow
      BY <1>5, OverGiven
    <3>2. EditIsSound(e)
      BY <1>8
    <3>3. Over(want.cadence, schedule.cadence) = "weekly" <=> dow # NoDay
      BY <1>1, <3>2 DEF EditIsSound, WeekdayWritten
    <3> HIDE DEF dow, want
    <3>4. QED
      BY <1>1, <1>5, <1>6, <3>1, <3>3 DEF WriteIsSound
  <2>2. EditIsSound(e)'
    BY <1>5, <1>6 DEF EditIsSound
  <2>3. \A f \in Edits \ {e} : EditIsSound(f)' /\ WriteIsSound(f)'
    <3> SUFFICES ASSUME NEW f \in Edits \ {e}
                 PROVE  EditIsSound(f)' /\ WriteIsSound(f)'
      OBVIOUS
    <3>1. EditIsSound(f) /\ WriteIsSound(f)
      BY <1>8
    <3>2. edit'[f] = edit[f] /\ schedule' = schedule
      BY <1>1, <1>6
    <3>3. QED
      BY <3>1, <3>2 DEF EditIsSound, WriteIsSound
  <2>4. QED
    BY <2>1, <2>2, <2>3
<1>9. ASSUME ~tangled, NEW f \in Edits, NEW g \in Edits, edit'[f] # NoEdit, edit'[g] # NoEdit
      PROVE  f = g
  <2>1. edit[e] # NoEdit
    BY <1>1 DEF NoEdit
  <2>2. QED
    BY <1>6, <1>9, <2>1
<1>10. QED
  BY <1>1, <1>6, <1>7, <1>8, <1>9

LEMMA EditWriteKeeps ==
  ASSUME CheckinInv, NEW e \in Edits, EditWrite(e)
  PROVE  CheckinInv'
<1> USE DEF CheckinInv
<1> DEFINE want == edit[e].want
           new == [cadence |-> Over(want.cadence, schedule.cadence),
                   weekday |-> Over(want.weekday, schedule.weekday),
                   active |-> Over(want.active, schedule.active)]
<1>1. /\ edit[e].stage = "write"
      /\ schedule' = new
      /\ edit' = [edit EXCEPT ![e] = NoEdit]
      /\ UNCHANGED <<today, begun, answers, claims, nudge, nudged, unfit, tangled>>
  BY DEF EditWrite
<1>2. /\ want.cadence \in SUBSET Cadences /\ want.weekday \in SUBSET (Targets \cup {NoDay})
      /\ want.active \in SUBSET BOOLEAN
  <2>1. edit[e] \in [stage : {"write"}, want : [cadence : SUBSET Cadences,
          weekday : {{w} : w \in Targets \cup {NoDay}}, active : SUBSET BOOLEAN]]
    BY <1>1 DEF EditStates, NoEdit
  <2>2. QED
    BY <2>1
<1>3. schedule \in [cadence : Cadences, weekday : Targets \cup {NoDay}, active : BOOLEAN]
  BY DEF CheckinTypeOK
<1>4. new \in [cadence : Cadences, weekday : Targets \cup {NoDay}, active : BOOLEAN]
  <2> HIDE DEF want
  <2>1. schedule.cadence \in Cadences /\ schedule.weekday \in Targets \cup {NoDay}
        /\ schedule.active \in BOOLEAN
    BY <1>3
  <2>2. /\ Over(want.cadence, schedule.cadence) \in Cadences
        /\ Over(want.weekday, schedule.weekday) \in Targets \cup {NoDay}
        /\ Over(want.active, schedule.active) \in BOOLEAN
    BY <1>2, <2>1, OverType
  <2>3. QED
    BY <2>2
<1>5. ~tangled => Sound(new)
  BY <1>1 DEF WriteIsSound, Sound
<1>6. /\ edit' \in [Edits -> EditStates] /\ edit'[e] = NoEdit
      /\ \A f \in Edits \ {e} : edit'[f] = edit[f]
  BY <1>1 DEF EditStates
<1> HIDE DEF new
<1>7. CheckinTypeOK' /\ JobsWereFree' /\ NudgesAreDue'
  BY <1>1, <1>4, <1>5 DEF CheckinTypeOK, JobsWereFree, NudgesAreDue, Sound
<1>8. ASSUME ~tangled'
      PROVE  \A f \in Edits : edit'[f] = NoEdit
  <2>1. edit[e] # NoEdit
    BY <1>1 DEF NoEdit
  <2>2. QED
    BY <1>1, <1>6, <1>8, <2>1
<1>9. ASSUME ~tangled'
      PROVE  \A f \in Edits : EditIsSound(f)' /\ WriteIsSound(f)'
  BY <1>8, <1>9 DEF EditIsSound, WriteIsSound, NoEdit
<1>10. QED
  BY <1>1, <1>6, <1>7, <1>8, <1>9

-----------------------------------------------------------------------------
(* Runs of the cron.  They leave schedule and edits alone. *)

LEMMA NudgeStepKeeps ==
  ASSUME CheckinInv, UNCHANGED <<today, schedule, edit, begun, answers, tangled>>,
         nudge' \in [NudgeRuns -> NudgeStates], JobsWereFree',
         claims' \cup nudged' \subseteq Periods \X Members, nudged' \subseteq claims',
         unfit' \in BOOLEAN, ~unfit'
  PROVE  CheckinInv'
<1> USE DEF CheckinInv
<1>1. CheckinTypeOK' /\ NudgesAreDue'
  BY DEF CheckinTypeOK, NudgesAreDue
<1>2. \A e \in Edits : EditIsSound(e)' = EditIsSound(e) /\ WriteIsSound(e)' = WriteIsSound(e)
  BY DEF EditIsSound, WriteIsSound
<1>3. QED
  BY <1>1, <1>2

LEMMA BeginNudgesKeeps ==
  ASSUME CheckinInv, NEW r \in NudgeRuns, BeginNudges(r)
  PROVE  CheckinInv'
<1> DEFINE p == PeriodOf(schedule, today)
           new == [stage |-> "list", period |-> p, left |-> Members, jobs |-> {},
                   had |-> {m \in Members : <<p, m>> \in answers}]
<1>1. p \in Periods
  BY PeriodType DEF BeginNudges, CheckinInv
<1>2. /\ nudge' = [nudge EXCEPT ![r] = new]
      /\ UNCHANGED <<today, schedule, edit, begun, answers, claims, nudged, unfit, tangled>>
  BY DEF BeginNudges
<1> HIDE DEF p
<1>3. new \in NudgeStates
  BY <1>1 DEF NudgeStates
<1>4. /\ nudge' \in [NudgeRuns -> NudgeStates] /\ nudge'[r] = new
      /\ \A q \in NudgeRuns \ {r} : nudge'[q] = nudge[q]
  BY <1>2, <1>3 DEF CheckinInv
<1>5. JobsWereFree'
  BY <1>2, <1>4 DEF CheckinInv, JobsWereFree
<1>6. QED
  BY <1>2, <1>4, <1>5, NudgeStepKeeps DEF CheckinInv, CheckinTypeOK, NudgesAreDue

LEMMA ConsiderKeeps ==
  ASSUME CheckinInv, NEW r \in NudgeRuns, NEW m \in Members, Consider(r, m)
  PROVE  CheckinInv'
<1> DEFINE n == nudge[r]
           slot == <<n.period, m>>
           jobs == IF slot \in answers \cup claims THEN n.jobs ELSE n.jobs \cup {m}
           new == [n EXCEPT !.left = @ \ {m}, !.jobs = jobs,
                            !.stage = IF n.left = {m} THEN "send" ELSE @]
<1>1. /\ n.stage = "list"
      /\ nudge' = [nudge EXCEPT ![r] = new]
      /\ UNCHANGED <<today, schedule, edit, begun, answers, claims, nudged, unfit, tangled>>
  BY DEF Consider, CheckinInv
<1>2. n \in [stage : {"list", "send"}, period : Periods, left : SUBSET Members,
             jobs : SUBSET Members, had : SUBSET Members]
  BY <1>1 DEF CheckinInv, NudgeStates, NoNudge
<1>3. n # NoNudge
  BY <1>1 DEF NoNudge
<1>4. /\ new \in NudgeStates /\ new.period = n.period /\ new.had = n.had /\ new.jobs = jobs
  BY <1>2 DEF NudgeStates
<1>5. jobs \cap n.had = {} /\ \A k \in n.had : <<n.period, k>> \in answers
  BY <1>3 DEF CheckinInv, JobsWereFree
<1> HIDE DEF n, jobs, new
<1>6. /\ nudge' \in [NudgeRuns -> NudgeStates] /\ nudge'[r] = new
      /\ \A q \in NudgeRuns \ {r} : nudge'[q] = nudge[q]
  BY <1>1, <1>4 DEF CheckinInv
<1>7. JobsWereFree'
  BY <1>1, <1>4, <1>5, <1>6 DEF CheckinInv, JobsWereFree
<1>8. QED
  BY <1>1, <1>6, <1>7, NudgeStepKeeps DEF CheckinInv, CheckinTypeOK, NudgesAreDue

(* The claim decides: whoever loses it mails nobody. *)
LEMMA ClaimAndMailKeeps ==
  ASSUME CheckinInv, NEW r \in NudgeRuns, NEW m \in Members, NEW leaves \in BOOLEAN,
         ClaimAndMail(r, m, leaves)
  PROVE  CheckinInv'
<1> DEFINE n == nudge[r]
           slot == <<n.period, m>>
           mailed == Claims(slot) /\ leaves
           new == [n EXCEPT !.jobs = @ \ {m}]
<1>1. /\ n.stage = "send" /\ m \in n.jobs
      /\ nudge' = [nudge EXCEPT ![r] = new]
      /\ claims' = claims \cup {slot}
      /\ nudged' = IF mailed THEN nudged \cup {slot} ELSE nudged
      /\ unfit' = (unfit \/ (mailed /\ (slot \in nudged \/ m \in n.had)))
      /\ UNCHANGED <<today, schedule, edit, begun, answers, tangled>>
  BY DEF ClaimAndMail, CheckinInv
<1>2. n \in [stage : {"list", "send"}, period : Periods, left : SUBSET Members,
             jobs : SUBSET Members, had : SUBSET Members]
  BY <1>1 DEF CheckinInv, NudgeStates, NoNudge
<1>3. n # NoNudge
  BY <1>1 DEF NoNudge
<1>4. /\ new \in NudgeStates /\ new.period = n.period /\ new.had = n.had
      /\ new.jobs \subseteq n.jobs
  BY <1>2 DEF NudgeStates
<1>5. n.jobs \cap n.had = {} /\ \A k \in n.had : <<n.period, k>> \in answers
  BY <1>3 DEF CheckinInv, JobsWereFree
<1> HIDE DEF n, new
<1>6. /\ nudge' \in [NudgeRuns -> NudgeStates] /\ nudge'[r] = new
      /\ \A q \in NudgeRuns \ {r} : nudge'[q] = nudge[q]
  BY <1>1, <1>4 DEF CheckinInv
<1>7. JobsWereFree'
  BY <1>1, <1>4, <1>5, <1>6 DEF CheckinInv, JobsWereFree
<1>8. slot \in Periods \X Members
  BY <1>2
<1>9. ~unfit /\ nudged \subseteq claims /\ claims \cup nudged \subseteq Periods \X Members
  BY DEF CheckinInv, CheckinTypeOK, NudgesAreDue
<1>10. mailed => slot \notin nudged /\ m \notin n.had
  BY <1>1, <1>5, <1>9 DEF Claims
<1> HIDE DEF slot, mailed
<1>11. /\ ~unfit' /\ unfit' \in BOOLEAN /\ nudged' \subseteq claims'
       /\ claims' \cup nudged' \subseteq Periods \X Members
  BY <1>1, <1>8, <1>9, <1>10
<1>12. QED
  BY <1>1, <1>6, <1>7, <1>11, NudgeStepKeeps

LEMMA EndNudgesKeeps ==
  ASSUME CheckinInv, NEW r \in NudgeRuns, EndNudges(r)
  PROVE  CheckinInv'
<1>1. /\ nudge' = [nudge EXCEPT ![r] = NoNudge]
      /\ UNCHANGED <<today, schedule, edit, begun, answers, claims, nudged, unfit, tangled>>
  BY DEF EndNudges
<1>2. /\ nudge' \in [NudgeRuns -> NudgeStates] /\ nudge'[r] = NoNudge
      /\ \A q \in NudgeRuns \ {r} : nudge'[q] = nudge[q]
  BY <1>1 DEF CheckinInv, NudgeStates
<1>3. JobsWereFree'
  BY <1>1, <1>2 DEF CheckinInv, JobsWereFree
<1>4. QED
  BY <1>1, <1>2, <1>3, NudgeStepKeeps DEF CheckinInv, CheckinTypeOK, NudgesAreDue

-----------------------------------------------------------------------------
LEMMA CheckinInvStep == CheckinInv /\ [CheckinNext]_checkinVars => CheckinInv'
<1> SUFFICES ASSUME CheckinInv, [CheckinNext]_checkinVars
             PROVE  CheckinInv'
  OBVIOUS
<1>1. CASE NextDay
  BY <1>1, NextDayKeeps
<1>2. ASSUME NEW e \in Edits, NEW want \in Changes, EditRead(e, want)
      PROVE  CheckinInv'
  BY <1>2, EditReadKeeps
<1>3. ASSUME NEW e \in Edits, EditReadAgain(e) \/ EditWrite(e)
      PROVE  CheckinInv'
  BY <1>3, EditReadAgainKeeps, EditWriteKeeps
<1>4. ASSUME NEW m \in Members, Answer(m)
      PROVE  CheckinInv'
  BY <1>4, AnswerKeeps
<1>5. ASSUME NEW r \in NudgeRuns, BeginNudges(r) \/ EndNudges(r)
      PROVE  CheckinInv'
  BY <1>5, BeginNudgesKeeps, EndNudgesKeeps
<1>6. ASSUME NEW r \in NudgeRuns, NEW m \in Members, Consider(r, m)
      PROVE  CheckinInv'
  BY <1>6, ConsiderKeeps
<1>7. ASSUME NEW r \in NudgeRuns, NEW m \in Members, NEW leaves \in BOOLEAN,
             ClaimAndMail(r, m, leaves)
      PROVE  CheckinInv'
  BY <1>7, ClaimAndMailKeeps
<1>8. CASE UNCHANGED checkinVars
  <2> USE <1>8 DEF checkinVars, CheckinInv
  <2>1. CheckinTypeOK' /\ JobsWereFree' /\ NudgesAreDue'
    BY DEF CheckinTypeOK, JobsWereFree, NudgesAreDue
  <2>2. \A e \in Edits : EditIsSound(e)' = EditIsSound(e) /\ WriteIsSound(e)' = WriteIsSound(e)
    BY DEF EditIsSound, WriteIsSound
  <2>3. QED
    BY <2>1, <2>2
<1>9. QED
  BY <1>1, <1>2, <1>3, <1>4, <1>5, <1>6, <1>7, <1>8 DEF CheckinNext

(* Nobody is nudged twice for a period, nor after they had answered when the  *)
(* run began, and a weekly schedule names its weekday unless edits overlapped,*)
(* for any number of members, edits and runs: the unique row of a claim is    *)
(* what decides, so that overlap, deaths and midnight do not matter           *)
(* (nudge-cron.ts, cron/checkin-nudges/route.ts:17).                          *)
THEOREM NudgesWereDue == CheckinSpec => []NudgesAreDue
<1>1. CheckinInv => NudgesAreDue
  BY DEF CheckinInv
<1>2. QED
  BY <1>1, CheckinInvInit, CheckinInvStep, PTL DEF CheckinSpec

-----------------------------------------------------------------------------
(* Cases. *)

Added == {"member", "case_worker"} \cup Levels
Somebody == Involved \cup {NoOne}

(* What a request in flight has read and still wants. *)
AskStates ==
  {NoAsk}
  \cup [stage : {"look", "write"}, kind : {"add"}, by : Involved, on : Involved, says : Added,
        was : Somebody, found : {0} \cup RowIds]
  \cup [stage : {"look"}, kind : {"remove"}, by : Involved, on : Involved, says : {"revoked"},
        was : Somebody, found : {0}]
  \cup [stage : {"write"}, kind : {"remove"}, by : Involved, on : Involved, says : {"revoked"},
        was : Somebody, found : RowIds]
  \cup [stage : {"write"}, kind : {"change"}, by : Involved, on : Somebody,
        says : Privacy \cup {"same"}, was : Somebody, found : {0}]
  \cup [stage : {"enlist"}, kind : {"change"}, by : Involved, on : Involved,
        says : Privacy \cup {"same"}, was : Somebody, found : {0}]

(* Only requests that add people share the case while nothing is excused ... *)
AddsShare ==
  \A p, q \in Asks : ask[p] # NoAsk /\ ask[q] # NoAsk /\ p # q =>
    ask[p].kind = "add" /\ ask[q].kind = "add"

(* ... so that who changes or removes somebody knows the case worker ... *)
WorkerIsKnown ==
  \A q \in Asks : ask[q] # NoAsk /\ ask[q].kind # "add" /\ ask[q].stage # "enlist" =>
    ask[q].was = file.assigned

(* ... and the case worker is on the team, or about to be enlisted. *)
WorkerStands ==
  \/ file.assigned = NoOne
  \/ Standing(file.assigned, team) # {}
  \/ \E q \in Asks : ask[q].stage = "enlist" /\ ask[q].on = file.assigned

CaseInv ==
  /\ CaseTypeOK
  /\ ask \in [Asks -> AskStates]
  /\ ~excused => AddsShare /\ WorkerIsKnown /\ WorkerStands
-----------------------------------------------------------------------------
(* One request moves; the others stay. *)
LEMMA OneAskMoves ==
  ASSUME CaseInv, NEW q \in Asks, NEW a \in AskStates, ask' = [ask EXCEPT ![q] = a]
  PROVE  /\ ask' \in [Asks -> AskStates] /\ ask'[q] = a
         /\ \A p \in Asks \ {q} : ask'[p] = ask[p]
BY DEF CaseInv

(* A request that changes or removes somebody is alone. *)
LEMMA Alone ==
  ASSUME CaseInv, ~excused, NEW q \in Asks, ask[q] # NoAsk, ask[q].kind # "add"
  PROVE  \A p \in Asks \ {q} : ask[p] = NoAsk
BY DEF CaseInv, AddsShare

(* A row that is written does not touch the others of the team, ... *)
LEMMA OthersStand ==
  ASSUME CaseInv, NEW u \in Involved, NEW i \in RowIds, NEW says, NEW v \in Involved \ {u}
  PROVE  Standing(v, [team EXCEPT ![u][i] = says]) = Standing(v, team)
BY DEF Standing, CaseInv, CaseTypeOK

(* ... and stands if it is not revoked. *)
LEMMA PlacedStands ==
  ASSUME CaseInv, NEW u \in Involved, NEW i \in RowIds, NEW says, Lasting(says)
  PROVE  Standing(u, [team EXCEPT ![u][i] = says]) # {}
<1> DEFINE t == [team EXCEPT ![u][i] = says]
<1>1. t[u][i] = says
  BY DEF CaseInv, CaseTypeOK
<1>2. Standing(u, t) # {}
  <2> HIDE DEF t
  <2>1. QED
    BY <1>1 DEF Standing
<1>3. QED
  BY <1>2

LEMMA TeamType ==
  ASSUME CaseInv, NEW u \in Involved, NEW i \in RowIds, NEW says \in RowStates
  PROVE  [team EXCEPT ![u][i] = says] \in [Involved -> [RowIds -> RowStates]]
BY DEF CaseInv, CaseTypeOK

(* What a new row does to the team. *)
LEMMA RowIsPlaced ==
  ASSUME CaseInv, NEW u \in Involved, NEW i \in RowIds, NEW says \in RowStates,
         team' = [team EXCEPT ![u][i] = says]
  PROVE  /\ team' \in [Involved -> [RowIds -> RowStates]]
         /\ Lasting(says) => Standing(u, team') # {}
         /\ \A v \in Involved \ {u} : Standing(v, team') = Standing(v, team)
<1> DEFINE t == [team EXCEPT ![u][i] = says]
<1>1. t \in [Involved -> [RowIds -> RowStates]]
  BY TeamType
<1>2. Lasting(says) => Standing(u, t) # {}
  BY PlacedStands
<1>3. \A v \in Involved \ {u} : Standing(v, t) = Standing(v, team)
  BY OthersStand
<1>4. team' = t
  OBVIOUS
<1> HIDE DEF t
<1>5. QED
  BY <1>1, <1>2, <1>3, <1>4

(* The stages a request can be in. *)
LEMMA StageOfAsk ==
  ASSUME NEW a \in AskStates
  PROVE  a.stage \in {"none", "look", "write", "enlist"} /\ (a = NoAsk <=> a.stage = "none")
BY DEF AskStates, NoAsk

-----------------------------------------------------------------------------
LEMMA CaseInvInit == CaseInit => CaseInv
<1> SUFFICES ASSUME CaseInit
             PROVE  CaseInv
  OBVIOUS
<1>1. PICK worker \in Involved, member \in Somebody, privacy \in Privacy :
        /\ file = [privacy |-> privacy, assigned |-> worker, member |-> member]
        /\ team = [u \in Involved |-> [i \in RowIds |->
                     IF i # 1 THEN "none"
                     ELSE IF u = worker THEN "case_worker"
                     ELSE IF u = member THEN "member" ELSE "none"]]
  BY DEF CaseInit, Somebody
<1>2. ask = [q \in Asks |-> NoAsk] /\ asked = 0 /\ excused = FALSE
  BY DEF CaseInit
<1>3. file \in [privacy : Privacy, assigned : Somebody, member : Somebody]
  BY <1>1 DEF Somebody
<1>4. team \in [Involved -> [RowIds -> RowStates]]
  BY <1>1 DEF RowStates
<1>5. ask \in [Asks -> AskStates] /\ asked \in 0..MaxAsks
  BY <1>2, CaseAssumption DEF AskStates
<1>6. AddsShare /\ WorkerIsKnown
  BY <1>2 DEF AddsShare, WorkerIsKnown
<1>7. WorkerStands
  <2>1. team[worker][1] = "case_worker" /\ file.assigned = worker /\ 1 \in RowIds
    BY <1>1, CaseAssumption
  <2>2. QED
    BY <2>1 DEF WorkerStands, Standing, Lasting
<1>8. QED
  BY <1>2, <1>3, <1>4, <1>5, <1>6, <1>7, StageOfAsk DEF CaseInv, CaseTypeOK, Somebody

LEMMA BeginKeeps ==
  ASSUME CaseInv, NEW q \in Asks, NEW kind \in {"add", "remove", "change"},
         NEW by \in Involved, NEW on \in Somebody, NEW says,
         kind = "add" => on \in Involved /\ says \in Added,
         kind = "remove" => on \in Involved /\ says = "revoked",
         kind = "change" => says \in Privacy \cup {"same"},
         Begin(q, kind, by, on, says)
  PROVE  CaseInv'
<1> USE DEF CaseInv
<1> DEFINE a == [stage |-> IF kind = "change" THEN "write" ELSE "look", kind |-> kind,
                 by |-> by, on |-> on, says |-> says, was |-> file.assigned, found |-> 0]
<1>1. /\ ask[q] = NoAsk /\ asked < MaxAsks /\ ~excused
      /\ ask' = [ask EXCEPT ![q] = a] /\ asked' = asked + 1
      /\ excused' = \/ excused
                    \/ \E p \in Asks \ {q} :
                         ask[p] # NoAsk /\ ~(kind = "add" /\ ask[p].kind = "add")
      /\ UNCHANGED <<file, team>>
  BY DEF Begin
<1>2. file.assigned \in Somebody
  BY DEF CaseTypeOK, Somebody
<1>3. a \in AskStates /\ a.stage # "enlist" /\ a # NoAsk
  <2>1. CASE kind = "add"
    BY <1>2, <2>1 DEF AskStates, NoAsk
  <2>2. CASE kind = "remove"
    BY <1>2, <2>2 DEF AskStates, NoAsk
  <2>3. CASE kind = "change"
    BY <1>2, <2>3 DEF AskStates, NoAsk
  <2>4. QED
    BY <2>1, <2>2, <2>3
<1>4. a.kind = kind /\ a.was = file.assigned
  OBVIOUS
<1> HIDE DEF a
<1>5. /\ ask' \in [Asks -> AskStates] /\ ask'[q] = a
      /\ \A p \in Asks \ {q} : ask'[p] = ask[p]
  BY <1>1, <1>3, OneAskMoves
<1>6. asked' \in 0..MaxAsks /\ excused' \in BOOLEAN
  BY <1>1, CaseAssumption DEF CaseTypeOK
<1>7. CaseTypeOK'
  BY <1>1, <1>5, <1>6, StageOfAsk DEF CaseTypeOK, Somebody
<1>8. ASSUME ~excused'
      PROVE  AddsShare' /\ WorkerIsKnown' /\ WorkerStands'
  <2>1. \A p \in Asks \ {q} : ask[p] # NoAsk => kind = "add" /\ ask[p].kind = "add"
    BY <1>1, <1>8
  <2>2. AddsShare'
    BY <1>1, <1>4, <1>5, <2>1 DEF AddsShare
  <2>3. WorkerIsKnown'
    BY <1>1, <1>4, <1>5 DEF WorkerIsKnown
  <2>4. WorkerStands'
    BY <1>1, <1>5 DEF WorkerStands, NoAsk
  <2>5. QED
    BY <2>2, <2>3, <2>4
<1>9. QED
  BY <1>5, <1>7, <1>8

(* A request that leaves case and team as they are, and goes on or ends. *)
LEMMA QuietStepKeeps ==
  ASSUME CaseInv, NEW q \in Asks, ask[q] # NoAsk, NEW a \in AskStates,
         a # NoAsk => a.kind = ask[q].kind /\ a.was = ask[q].was /\ a.stage # "enlist",
         ask[q].stage # "enlist" \/ excused', excused' \in BOOLEAN, excused => excused',
         ask' = [ask EXCEPT ![q] = a], UNCHANGED <<file, team, asked>>
  PROVE  CaseInv'
<1> USE DEF CaseInv
<1>1. /\ ask' \in [Asks -> AskStates] /\ ask'[q] = a
      /\ \A p \in Asks \ {q} : ask'[p] = ask[p]
  BY OneAskMoves
<1>2. CaseTypeOK'
  BY <1>1, StageOfAsk DEF CaseTypeOK, Somebody
<1>3. ASSUME ~excused'
      PROVE  AddsShare' /\ WorkerIsKnown' /\ WorkerStands'
  <2>1. AddsShare'
    BY <1>1, <1>3 DEF AddsShare
  <2>2. WorkerIsKnown'
    BY <1>1, <1>3 DEF WorkerIsKnown
  <2>3. WorkerStands'
    BY <1>1, <1>3 DEF WorkerStands
  <2>4. QED
    BY <2>1, <2>2, <2>3
<1>4. QED
  BY <1>1, <1>2, <1>3

LEMMA LookKeeps ==
  ASSUME CaseInv, NEW q \in Asks, Look(q)
  PROVE  CaseInv'
<1> DEFINE a == ask[q]
           rows == Found(a.by, a.on, IF a.kind = "add" THEN Kept ELSE Kept \ {"revoked"})
<1>1. /\ a.stage = "look" /\ UNCHANGED <<file, team, asked, excused>>
      /\ IF rows # {}
           THEN \E i \in rows : ask' = [ask EXCEPT ![q].stage = "write", ![q].found = i]
           ELSE IF a.kind = "add" THEN ask' = [ask EXCEPT ![q].stage = "write"] ELSE End(q)
  BY DEF Look
<1>2. a \in AskStates /\ a # NoAsk /\ rows \subseteq RowIds /\ NoAsk \in AskStates
  BY <1>1 DEF CaseInv, AskStates, NoAsk, Found
<1>3. \/ a \in [stage : {"look", "write"}, kind : {"add"}, by : Involved, on : Involved,
                says : Added, was : Somebody, found : {0} \cup RowIds]
      \/ a \in [stage : {"look"}, kind : {"remove"}, by : Involved, on : Involved,
                says : {"revoked"}, was : Somebody, found : {0}]
  BY <1>1, <1>2 DEF AskStates, NoAsk
<1> HIDE DEF rows
<1>4. CASE rows # {}
  <2>1. PICK i \in RowIds : ask' = [ask EXCEPT ![q].stage = "write", ![q].found = i]
    BY <1>1, <1>2, <1>4
  <2> DEFINE b == [a EXCEPT !.stage = "write", !.found = i]
  <2>2. b \in AskStates /\ b.kind = a.kind /\ b.was = a.was /\ b.stage = "write"
    BY <1>3 DEF AskStates
  <2>3. ask' = [ask EXCEPT ![q] = b]
    BY <2>1 DEF CaseInv
  <2> HIDE DEF b
  <2>4. QED
    BY <1>1, <1>2, <2>2, <2>3, QuietStepKeeps DEF CaseInv, CaseTypeOK
<1>5. CASE rows = {} /\ a.kind = "add"
  <2> DEFINE b == [a EXCEPT !.stage = "write"]
  <2>1. b \in AskStates /\ b.kind = a.kind /\ b.was = a.was /\ b.stage = "write"
    BY <1>3, <1>5 DEF AskStates
  <2>2. ask' = [ask EXCEPT ![q] = b]
    BY <1>1, <1>5 DEF CaseInv
  <2> HIDE DEF b
  <2>3. QED
    BY <1>1, <1>2, <2>1, <2>2, QuietStepKeeps DEF CaseInv, CaseTypeOK
<1>6. CASE rows = {} /\ a.kind # "add"
  <2>1. ask' = [ask EXCEPT ![q] = NoAsk]
    BY <1>1, <1>6 DEF End
  <2>2. QED
    BY <1>1, <1>2, <2>1, QuietStepKeeps DEF CaseInv, CaseTypeOK
<1>7. QED
  BY <1>4, <1>5, <1>6

LEMMA AskDiesKeeps ==
  ASSUME CaseInv, NEW q \in Asks, AskDies(q)
  PROVE  CaseInv'
<1>1. /\ ask[q] # NoAsk /\ ask' = [ask EXCEPT ![q] = NoAsk]
      /\ excused' = (excused \/ ask[q].stage = "enlist")
      /\ UNCHANGED <<file, team, asked>>
  BY DEF AskDies, End
<1>2. NoAsk \in AskStates /\ excused \in BOOLEAN
  BY DEF AskStates, CaseInv, CaseTypeOK
<1>3. QED
  BY <1>1, <1>2, QuietStepKeeps

(* Whoever is added stands; a new case worker takes the case over. *)
LEMMA AddKeeps ==
  ASSUME CaseInv, NEW q \in Asks, Add(q)
  PROVE  CaseInv'
<1> USE DEF CaseInv
<1> DEFINE a == ask[q]
<1>1. /\ a.stage = "write" /\ a.kind = "add" /\ ask' = [ask EXCEPT ![q] = NoAsk]
      /\ UNCHANGED <<asked, excused>>
  BY DEF Add, End
<1>2. a \in [stage : {"look", "write"}, kind : {"add"}, by : Involved, on : Involved,
             says : Added, was : Somebody, found : {0} \cup RowIds]
  BY <1>1 DEF AskStates, NoAsk
<1>3. a # NoAsk /\ NoAsk \in AskStates
  BY <1>1 DEF NoAsk, AskStates
<1>4. CASE UNCHANGED <<file, team>>
  BY <1>1, <1>3, <1>4, QuietStepKeeps DEF CaseTypeOK
<1>5. ASSUME NEW i \in RowIds, team' = [team EXCEPT ![a.on][i] = a.says],
             file' = IF a.says = "case_worker" THEN [file EXCEPT !.assigned = a.on] ELSE file
      PROVE  CaseInv'
  <2>1. /\ ask' \in [Asks -> AskStates] /\ ask'[q] = NoAsk
        /\ \A p \in Asks \ {q} : ask'[p] = ask[p]
    BY <1>1, <1>3, OneAskMoves
  <2>2. a.on \in Involved /\ a.says \in RowStates /\ Lasting(a.says)
    BY <1>2, CaseAssumption DEF Added, RowStates, Lasting
  <2>3. /\ team' \in [Involved -> [RowIds -> RowStates]]
        /\ Standing(a.on, team') # {}
        /\ \A v \in Involved \ {a.on} : Standing(v, team') = Standing(v, team)
    BY <1>5, <2>2, RowIsPlaced
  <2>4. file' \in [privacy : Privacy, assigned : Somebody, member : Somebody]
    BY <1>5, <2>2 DEF CaseTypeOK, Somebody
  <2>5. CaseTypeOK'
    BY <1>1, <2>1, <2>3, <2>4, StageOfAsk DEF CaseTypeOK, Somebody
  <2>6. ASSUME ~excused'
        PROVE  AddsShare' /\ WorkerIsKnown' /\ WorkerStands'
    <3>1. \A p \in Asks : ask'[p] # NoAsk => ask'[p].kind = "add"
      BY <1>1, <1>3, <2>1, <2>6 DEF AddsShare
    <3>2. AddsShare' /\ WorkerIsKnown'
      BY <3>1 DEF AddsShare, WorkerIsKnown
    <3>3. WorkerStands'
      <4>1. CASE file'.assigned = a.on
        BY <2>3, <4>1 DEF WorkerStands
      <4>2. CASE file'.assigned # a.on
        <5>1. file'.assigned = file.assigned
          BY <1>5, <4>2 DEF CaseTypeOK
        <5>2. \A p \in Asks : ask[p].stage # "enlist"
          <6>1. \A p \in Asks : ask[p].stage = "enlist" => ask[p] # NoAsk /\ ask[p].kind = "change"
            BY DEF AskStates, NoAsk
          <6>2. QED
            BY <1>1, <1>3, <2>6, <6>1 DEF AddsShare
        <5>3. file.assigned = NoOne \/ Standing(file.assigned, team) # {}
          BY <1>1, <2>6, <5>2 DEF WorkerStands
        <5>4. file.assigned \in Somebody
          BY DEF CaseTypeOK, Somebody
        <5>5. QED
          BY <2>3, <4>2, <5>1, <5>3, <5>4 DEF WorkerStands, Somebody
      <4>3. QED
        BY <4>1, <4>2
    <3>4. QED
      BY <3>2, <3>3
  <2>7. QED
    BY <2>1, <2>5, <2>6
<1>6. QED
  BY <1>4, <1>5 DEF Add

(* Whoever is taken off is relieved of the case; what could not be written any *)
(* more is excused.                                                            *)
LEMMA TakeOffKeeps ==
  ASSUME CaseInv, NEW q \in Asks, TakeOff(q)
  PROVE  CaseInv'
<1> USE DEF CaseInv
<1> DEFINE a == ask[q]
           left == [team EXCEPT ![a.on][a.found] = "revoked"]
<1>1. /\ a.stage = "write" /\ a.kind = "remove" /\ ask' = [ask EXCEPT ![q] = NoAsk]
      /\ UNCHANGED asked
      /\ IF PolicyWrites(a.by, file, team)
           THEN /\ team' = left
                /\ file' = IF PolicyWrites(a.by, file, left)
                             THEN Relieved(file, a.was, a.on) ELSE file
                /\ excused' = (excused \/ (a.was = a.on /\ ~PolicyWrites(a.by, file, left)))
           ELSE UNCHANGED <<file, team, excused>>
  BY DEF TakeOff, End
<1>2. a \in [stage : {"write"}, kind : {"remove"}, by : Involved, on : Involved,
             says : {"revoked"}, was : Somebody, found : RowIds]
  BY <1>1 DEF AskStates, NoAsk
<1>3. a # NoAsk /\ NoAsk \in AskStates
  BY <1>1 DEF NoAsk, AskStates
<1>4. CASE ~PolicyWrites(a.by, file, team)
  BY <1>1, <1>3, <1>4, QuietStepKeeps DEF CaseTypeOK
<1>5. CASE PolicyWrites(a.by, file, team)
  <2>1. /\ ask' \in [Asks -> AskStates] /\ ask'[q] = NoAsk
        /\ \A p \in Asks \ {q} : ask'[p] = ask[p]
    BY <1>1, <1>3, OneAskMoves
  <2>2. a.on \in Involved /\ a.found \in RowIds /\ "revoked" \in RowStates
    BY <1>2 DEF RowStates
  <2>3. /\ team' = left /\ team' \in [Involved -> [RowIds -> RowStates]]
        /\ \A v \in Involved \ {a.on} : Standing(v, team') = Standing(v, team)
    BY <1>1, <1>5, <2>2, RowIsPlaced
  <2>4. file' \in {file, [file EXCEPT !.assigned = NoOne]}
    BY <1>1, <1>5 DEF Relieved
  <2> HIDE DEF left
  <2>5. file' \in [privacy : Privacy, assigned : Somebody, member : Somebody]
    BY <2>4 DEF CaseTypeOK, Somebody
  <2>6. CaseTypeOK'
    BY <1>1, <1>5, <2>1, <2>3, <2>5, StageOfAsk DEF CaseTypeOK, Somebody
  <2>7. ASSUME ~excused'
        PROVE  AddsShare' /\ WorkerIsKnown' /\ WorkerStands'
    <3>1. ~excused
      BY <1>1, <1>5, <2>7
    <3>2. \A p \in Asks : ask'[p] = NoAsk
      BY <1>1, <1>3, <2>1, <3>1, Alone
    <3>3. AddsShare' /\ WorkerIsKnown'
      BY <3>2 DEF AddsShare, WorkerIsKnown
    <3>4. a.was = file.assigned
      BY <1>1, <1>3, <3>1 DEF WorkerIsKnown
    <3>5. WorkerStands'
      <4>1. CASE a.was = a.on
        <5>1. file' = [file EXCEPT !.assigned = NoOne]
          BY <1>1, <1>5, <2>7, <4>1 DEF Relieved
        <5>2. QED
          BY <5>1 DEF WorkerStands, CaseTypeOK
      <4>2. CASE a.was # a.on
        <5>1. file' = file /\ team' = left
          BY <1>1, <1>5, <4>2 DEF Relieved
        <5>2. file.assigned = NoOne \/ Standing(file.assigned, team) # {}
          <6>1. \A p \in Asks : ask[p].stage # "enlist"
            <7>1. \A p \in Asks \ {q} : ask[p] = NoAsk
              BY <1>1, <1>3, <3>1, Alone
            <7>2. QED
              BY <1>1, <7>1 DEF NoAsk
          <6>2. QED
            BY <3>1, <6>1 DEF WorkerStands
        <5>3. file.assigned \in Somebody
          BY DEF CaseTypeOK, Somebody
        <5>4. QED
          BY <2>3, <3>4, <4>2, <5>1, <5>2, <5>3 DEF WorkerStands, Somebody
      <4>3. QED
        BY <4>1, <4>2
    <3>6. QED
      BY <3>3, <3>5
  <2>8. QED
    BY <2>1, <2>6, <2>7
<1>6. QED
  BY <1>4, <1>5

(* A new case worker is enlisted next, or the change is excused. *)
LEMMA ChangeKeeps ==
  ASSUME CaseInv, NEW q \in Asks, Change(q)
  PROVE  CaseInv'
<1> USE DEF CaseInv
<1> DEFINE a == ask[q]
           changed == [file EXCEPT !.privacy = IF a.says = "same" THEN @ ELSE a.says,
                                   !.assigned = IF a.on = NoOne THEN @ ELSE a.on]
           writes == PolicyWrites(a.by, file, team)
           after == IF writes THEN changed ELSE file
           enlisting == [a EXCEPT !.stage = "enlist"]
<1>1. /\ a.stage = "write" /\ a.kind = "change" /\ UNCHANGED <<team, asked>>
      /\ IF ~Sees(a.by, file, team)
           THEN End(q) /\ UNCHANGED <<file, excused>>
           ELSE /\ file' = after
                /\ IF Sees(a.by, after, team) /\ Enlists(a)
                     THEN ask' = [ask EXCEPT ![q].stage = "enlist"] /\ UNCHANGED excused
                     ELSE /\ End(q)
                          /\ excused' = (excused \/ (Enlists(a) /\ writes))
  BY DEF Change
<1>2. a \in [stage : {"write"}, kind : {"change"}, by : Involved, on : Somebody,
             says : Privacy \cup {"same"}, was : Somebody, found : {0}]
  BY <1>1 DEF AskStates, NoAsk
<1>3. a # NoAsk /\ NoAsk \in AskStates
  BY <1>1 DEF NoAsk, AskStates
<1>4. CASE ~Sees(a.by, file, team)
  BY <1>1, <1>3, <1>4, QuietStepKeeps DEF CaseTypeOK, End
<1>5. CASE Sees(a.by, file, team)
  <2>1. /\ after \in [privacy : Privacy, assigned : Somebody, member : Somebody]
        /\ after.assigned = IF writes /\ a.on # NoOne THEN a.on ELSE file.assigned
    <3>1. file \in [privacy : Privacy, assigned : Somebody, member : Somebody]
      BY DEF CaseTypeOK, Somebody
    <3> HIDE DEF writes, a
    <3>2. QED
      BY <1>2, <3>1
  <2> HIDE DEF after, writes
  <2>2. ASSUME ~excused
        PROVE  /\ a.was = file.assigned /\ \A p \in Asks \ {q} : ask[p] = NoAsk
               /\ file.assigned = NoOne \/ Standing(file.assigned, team) # {}
    <3>1. \A p \in Asks \ {q} : ask[p] = NoAsk
      BY <1>1, <1>3, <2>2, Alone
    <3>2. \A p \in Asks : ask[p].stage # "enlist"
      BY <1>1, <3>1 DEF NoAsk
    <3>3. QED
      BY <1>1, <1>3, <2>2, <3>1, <3>2 DEF WorkerIsKnown, WorkerStands
  <2>3. CASE Sees(a.by, after, team) /\ Enlists(a)
    <3>1. enlisting \in AskStates /\ enlisting.stage = "enlist" /\ enlisting.on = a.on
          /\ enlisting.kind = "change"
      BY <1>2, <2>3 DEF Enlists, AskStates, Somebody
    <3>2. ask' = [ask EXCEPT ![q] = enlisting] /\ excused' = excused /\ file' = after
      BY <1>1, <1>5, <2>3
    <3> HIDE DEF enlisting
    <3>3. /\ ask' \in [Asks -> AskStates] /\ ask'[q] = enlisting
          /\ \A p \in Asks \ {q} : ask'[p] = ask[p]
      BY <3>1, <3>2, OneAskMoves
    <3>4. CaseTypeOK'
      BY <1>1, <2>1, <3>2, <3>3, StageOfAsk DEF CaseTypeOK, Somebody
    <3>5. ASSUME ~excused'
          PROVE  AddsShare' /\ WorkerIsKnown' /\ WorkerStands'
      <4>1. AddsShare' /\ WorkerIsKnown'
        BY <2>2, <3>1, <3>2, <3>3, <3>5 DEF AddsShare, WorkerIsKnown
      <4>2. WorkerStands'
        BY <1>1, <2>1, <2>2, <2>3, <3>1, <3>2, <3>3, <3>5 DEF WorkerStands, Enlists
      <4>3. QED
        BY <4>1, <4>2
    <3>6. QED
      BY <3>3, <3>4, <3>5
  <2>4. CASE ~(Sees(a.by, after, team) /\ Enlists(a))
    <3>1. /\ ask' = [ask EXCEPT ![q] = NoAsk] /\ file' = after
          /\ excused' = (excused \/ (Enlists(a) /\ writes))
      BY <1>1, <1>5, <2>4 DEF End
    <3>2. /\ ask' \in [Asks -> AskStates] /\ ask'[q] = NoAsk
          /\ \A p \in Asks \ {q} : ask'[p] = ask[p]
      BY <1>3, <3>1, OneAskMoves
    <3>3. CaseTypeOK'
      BY <1>1, <2>1, <3>1, <3>2, StageOfAsk DEF CaseTypeOK, Somebody
    <3>4. ASSUME ~excused'
          PROVE  AddsShare' /\ WorkerIsKnown' /\ WorkerStands'
      <4>1. ~excused /\ ~(Enlists(a) /\ writes)
        BY <3>1, <3>4
      <4>2. AddsShare' /\ WorkerIsKnown'
        BY <2>2, <3>2, <4>1 DEF AddsShare, WorkerIsKnown
      <4>3. file'.assigned = file.assigned
        BY <2>1, <2>2, <3>1, <4>1 DEF Enlists
      <4>4. WorkerStands'
        BY <1>1, <2>2, <4>1, <4>3 DEF WorkerStands
      <4>5. QED
        BY <4>2, <4>4
    <3>5. QED
      BY <3>2, <3>3, <3>4
  <2>5. QED
    BY <2>3, <2>4
<1>6. QED
  BY <1>4, <1>5

LEMMA EnlistKeeps ==
  ASSUME CaseInv, NEW q \in Asks, Enlist(q)
  PROVE  CaseInv'
<1> USE DEF CaseInv
<1> DEFINE a == ask[q]
<1>1. /\ a.stage = "enlist" /\ ask' = [ask EXCEPT ![q] = NoAsk] /\ UNCHANGED <<file, asked>>
      /\ \/ \E i \in RowIds : team' = [team EXCEPT ![a.on][i] = "case_worker"] /\ UNCHANGED excused
         \/ excused' = TRUE /\ UNCHANGED team
  BY DEF Enlist, End
<1>2. a \in [stage : {"enlist"}, kind : {"change"}, by : Involved, on : Involved,
             says : Privacy \cup {"same"}, was : Somebody, found : {0}]
  BY <1>1 DEF AskStates, NoAsk
<1>3. a # NoAsk /\ NoAsk \in AskStates /\ a.kind = "change"
  BY <1>1, <1>2 DEF NoAsk, AskStates
<1>4. CASE excused' = TRUE /\ UNCHANGED team
  BY <1>1, <1>3, <1>4, QuietStepKeeps
<1>5. ASSUME NEW i \in RowIds, team' = [team EXCEPT ![a.on][i] = "case_worker"],
             UNCHANGED excused
      PROVE  CaseInv'
  <2>1. /\ ask' \in [Asks -> AskStates] /\ ask'[q] = NoAsk
        /\ \A p \in Asks \ {q} : ask'[p] = ask[p]
    BY <1>1, <1>3, OneAskMoves
  <2>2. a.on \in Involved /\ "case_worker" \in RowStates /\ Lasting("case_worker")
    BY <1>2 DEF RowStates, Lasting
  <2>3. /\ team' \in [Involved -> [RowIds -> RowStates]]
        /\ Standing(a.on, team') # {}
        /\ \A v \in Involved \ {a.on} : Standing(v, team') = Standing(v, team)
    BY <1>5, <2>2, RowIsPlaced
  <2>4. CaseTypeOK'
    BY <1>1, <1>5, <2>1, <2>3, StageOfAsk DEF CaseTypeOK, Somebody
  <2>5. ASSUME ~excused'
        PROVE  AddsShare' /\ WorkerIsKnown' /\ WorkerStands'
    <3>1. ~excused /\ \A p \in Asks \ {q} : ask[p] = NoAsk
      BY <1>3, <1>5, <2>5, Alone
    <3>2. AddsShare' /\ WorkerIsKnown'
      BY <2>1, <3>1 DEF AddsShare, WorkerIsKnown
    <3>3. \/ file.assigned = NoOne \/ Standing(file.assigned, team) # {}
          \/ a.on = file.assigned
      BY <3>1 DEF WorkerStands, NoAsk
    <3>4. file.assigned \in Somebody
      BY DEF CaseTypeOK, Somebody
    <3>5. WorkerStands'
      BY <1>1, <2>3, <3>3, <3>4 DEF WorkerStands, Somebody
    <3>6. QED
      BY <3>2, <3>5
  <2>6. QED
    BY <2>1, <2>4, <2>5
<1>6. QED
  BY <1>1, <1>4, <1>5

-----------------------------------------------------------------------------
LEMMA CaseInvStep == CaseInv /\ [CaseNext]_caseVars => CaseInv'
<1> SUFFICES ASSUME CaseInv, [CaseNext]_caseVars
             PROVE  CaseInv'
  OBVIOUS
<1>1. ASSUME NEW q \in Asks, NEW by \in Involved, NEW on \in Involved, NEW says \in Added,
             Begin(q, "add", by, on, says)
      PROVE  CaseInv'
  BY <1>1, BeginKeeps DEF Somebody
<1>2. ASSUME NEW q \in Asks, NEW by \in Involved, NEW on \in Involved,
             Begin(q, "remove", by, on, "revoked")
      PROVE  CaseInv'
  BY <1>2, BeginKeeps DEF Somebody
<1>3. ASSUME NEW q \in Asks, NEW by \in Involved, NEW on \in Somebody,
             NEW says \in Privacy \cup {"same"}, Begin(q, "change", by, on, says)
      PROVE  CaseInv'
  BY <1>3, BeginKeeps
<1>4. ASSUME NEW q \in Asks, Look(q) \/ Add(q) \/ TakeOff(q)
      PROVE  CaseInv'
  BY <1>4, LookKeeps, AddKeeps, TakeOffKeeps
<1>5. ASSUME NEW q \in Asks, Change(q) \/ Enlist(q) \/ AskDies(q)
      PROVE  CaseInv'
  BY <1>5, ChangeKeeps, EnlistKeeps, AskDiesKeeps
<1>6. CASE UNCHANGED caseVars
  BY <1>6 DEF caseVars, CaseInv, CaseTypeOK, AddsShare, WorkerIsKnown, WorkerStands
<1>7. QED
  BY <1>1, <1>2, <1>3, <1>4, <1>5, <1>6 DEF CaseNext, Somebody, Added

(* A row that says "member" is of the member concerned. *)
MemberRows ==
  /\ \A u \in Involved, i \in RowIds : team[u][i] = "member" => u = file.member
  /\ \A q \in Asks : ask[q] # NoAsk /\ ask[q].says = "member" => ask[q].on = file.member

LEMMA MemberRowsInit == CaseInit => MemberRows
BY DEF CaseInit, MemberRows

(* One row is written; the member concerned is never another. *)
LEMMA RowKeepsMembers ==
  ASSUME CaseInv, MemberRows, NEW u \in Involved, NEW i \in RowIds, NEW says,
         says = "member" => u = file.member, team' = [team EXCEPT ![u][i] = says],
         file'.member = file.member, NEW q \in Asks, ask' = [ask EXCEPT ![q] = NoAsk]
  PROVE  MemberRows'
<1>1. \A v \in Involved, j \in RowIds : team'[v][j] = "member" => v = file'.member
  <2>1. \A v \in Involved, j \in RowIds :
          team'[v][j] = IF v = u /\ j = i THEN says ELSE team[v][j]
    BY DEF CaseInv, CaseTypeOK
  <2>2. QED
    BY <2>1 DEF MemberRows
<1>2. \A p \in Asks : ask'[p] # NoAsk => ask'[p] = ask[p]
  BY DEF CaseInv
<1>3. QED
  BY <1>1, <1>2 DEF MemberRows

LEMMA MemberRowsStep == CaseInv /\ MemberRows /\ [CaseNext]_caseVars => MemberRows'
<1> SUFFICES ASSUME CaseInv, MemberRows, [CaseNext]_caseVars
             PROVE  MemberRows'
  OBVIOUS
<1>1. ask \in [Asks -> AskStates] /\ file \in [privacy : Privacy, assigned : Somebody, member : Somebody]
  BY DEF CaseInv, CaseTypeOK, Somebody
<1>2. ASSUME NEW q \in Asks, NEW kind \in {"add", "remove", "change"}, NEW by, NEW on, NEW says,
             kind # "add" => says # "member", Begin(q, kind, by, on, says)
      PROVE  MemberRows'
  <2>1. /\ UNCHANGED <<file, team>>
        /\ ask' = [ask EXCEPT ![q] =
             [stage |-> IF kind = "change" THEN "write" ELSE "look", kind |-> kind, by |-> by,
              on |-> on, says |-> says, was |-> file.assigned, found |-> 0]]
        /\ says = "member" => on = file.member
    BY <1>2 DEF Begin
  <2>2. \A p \in Asks : ask'[p] = ask[p] \/ (ask'[p].says = says /\ ask'[p].on = on)
    BY <1>1, <2>1
  <2>3. QED
    BY <2>1, <2>2 DEF MemberRows
<1>3. ASSUME NEW q \in Asks, Look(q)
      PROVE  MemberRows'
  <2>1. UNCHANGED <<file, team>> /\ ask[q] # NoAsk
    BY <1>3 DEF Look, NoAsk
  <2>2. ask'[q] = NoAsk \/ (ask'[q].says = ask[q].says /\ ask'[q].on = ask[q].on)
    BY <1>1, <1>3, <2>1 DEF Look, End, AskStates
  <2>3. \A p \in Asks \ {q} : ask'[p] = ask[p]
    BY <1>1, <1>3 DEF Look, End
  <2>4. QED
    BY <2>1, <2>2, <2>3 DEF MemberRows
<1>4. ASSUME NEW q \in Asks, AskDies(q)
      PROVE  MemberRows'
  BY <1>1, <1>4 DEF AskDies, End, MemberRows
<1>5. ASSUME NEW q \in Asks, Add(q)
      PROVE  MemberRows'
  <2>1. ask[q] # NoAsk /\ ask' = [ask EXCEPT ![q] = NoAsk] /\ ask[q].kind = "add"
    BY <1>5 DEF Add, End, NoAsk
  <2>2. ask[q].on \in Involved
    BY <1>1, <2>1 DEF AskStates, NoAsk
  <2>3. CASE UNCHANGED <<file, team>>
    BY <1>1, <2>1, <2>3 DEF MemberRows
  <2>4. ASSUME NEW i \in RowIds, team' = [team EXCEPT ![ask[q].on][i] = ask[q].says],
               file' \in {file, [file EXCEPT !.assigned = ask[q].on]}
        PROVE  MemberRows'
    <3>1. file'.member = file.member
      BY <1>1, <2>4
    <3>2. ask[q].says = "member" => ask[q].on = file.member
      BY <2>1 DEF MemberRows
    <3>3. QED
      BY <2>1, <2>2, <2>4, <3>1, <3>2, RowKeepsMembers
  <2>5. \/ UNCHANGED <<file, team>>
        \/ \E i \in RowIds : /\ team' = [team EXCEPT ![ask[q].on][i] = ask[q].says]
                             /\ file' \in {file, [file EXCEPT !.assigned = ask[q].on]}
    BY <1>5 DEF Add
  <2>6. QED
    BY <2>3, <2>4, <2>5
<1>6. ASSUME NEW q \in Asks, TakeOff(q)
      PROVE  MemberRows'
  <2>1. ask[q] # NoAsk /\ ask' = [ask EXCEPT ![q] = NoAsk]
    BY <1>6 DEF TakeOff, End, NoAsk
  <2>2. ask[q].on \in Involved /\ ask[q].found \in RowIds
    BY <1>1, <1>6, <2>1 DEF TakeOff, AskStates
  <2>3. CASE UNCHANGED <<file, team>>
    BY <1>1, <2>1, <2>3 DEF MemberRows
  <2>4. CASE /\ team' = [team EXCEPT ![ask[q].on][ask[q].found] = "revoked"]
             /\ file' \in {file, [file EXCEPT !.assigned = NoOne]}
    <3>1. file'.member = file.member
      BY <1>1, <2>4
    <3> DEFINE i == ask[q].found
               on == ask[q].on
    <3>2. on \in Involved /\ i \in RowIds /\ team' = [team EXCEPT ![on][i] = "revoked"]
      BY <2>2, <2>4
    <3> HIDE DEF i, on
    <3>3. QED
      BY <2>1, <3>1, <3>2, RowKeepsMembers
  <2>5. \/ UNCHANGED <<file, team>>
        \/ /\ team' = [team EXCEPT ![ask[q].on][ask[q].found] = "revoked"]
           /\ \/ file' = file
              \/ file' = Relieved(file, ask[q].was, ask[q].on)
    BY <1>6 DEF TakeOff
  <2>6. Relieved(file, ask[q].was, ask[q].on) \in {file, [file EXCEPT !.assigned = NoOne]}
    BY DEF Relieved
  <2>7. QED
    BY <2>3, <2>4, <2>5, <2>6
<1>7. ASSUME NEW q \in Asks, Change(q)
      PROVE  MemberRows'
  <2>1. UNCHANGED team /\ ask[q] # NoAsk
    BY <1>7 DEF Change, NoAsk
  <2>2. ask'[q] = NoAsk \/ (ask'[q].says = ask[q].says /\ ask'[q].on = ask[q].on)
    BY <1>1, <1>7, <2>1 DEF Change, End, AskStates
  <2>3. \A p \in Asks \ {q} : ask'[p] = ask[p]
    BY <1>1, <1>7 DEF Change, End
  <2>4. file'.member = file.member
    <3> DEFINE changed == [file EXCEPT !.privacy = IF ask[q].says = "same" THEN @ ELSE ask[q].says,
                                       !.assigned = IF ask[q].on = NoOne THEN @ ELSE ask[q].on]
    <3>1. changed.member = file.member
      BY <1>1
    <3>2. file' \in {file, changed}
      BY <1>7 DEF Change
    <3> HIDE DEF changed
    <3>3. QED
      BY <3>1, <3>2
  <2>5. QED
    BY <2>1, <2>2, <2>3, <2>4 DEF MemberRows
<1>8. ASSUME NEW q \in Asks, Enlist(q)
      PROVE  MemberRows'
  <2>1. ask[q] # NoAsk /\ ask' = [ask EXCEPT ![q] = NoAsk] /\ UNCHANGED file
    BY <1>8 DEF Enlist, End, NoAsk
  <2>2. ask[q].on \in Involved
    BY <1>1, <1>8, <2>1 DEF Enlist, AskStates
  <2>3. CASE UNCHANGED team
    BY <1>1, <2>1, <2>3 DEF MemberRows
  <2>4. ASSUME NEW i \in RowIds, team' = [team EXCEPT ![ask[q].on][i] = "case_worker"]
        PROVE  MemberRows'
    BY <2>1, <2>2, <2>4, RowKeepsMembers
  <2>5. \/ UNCHANGED team
        \/ \E i \in RowIds : team' = [team EXCEPT ![ask[q].on][i] = "case_worker"]
    BY <1>8 DEF Enlist
  <2>6. QED
    BY <2>3, <2>4, <2>5
<1>9. CASE UNCHANGED caseVars
  BY <1>9 DEF caseVars, MemberRows
<1>10. "member" \notin Privacy \cup {"same", "revoked"}
  BY DEF Privacy
<1>11. QED
  BY <1>2, <1>3, <1>4, <1>5, <1>6, <1>7, <1>8, <1>9, <1>10 DEF CaseNext

(* Whoever may write by the handlers has a row that says so, or an office that  *)
(* the policies know, or is the case worker: who is on the team, and of whom    *)
(* the policies show no more than a summary.                                    *)
LEMMA GrantsAreBacked == CaseInv /\ MemberRows => CaseTeamIsSound
<1> SUFFICES ASSUME CaseInv, MemberRows, ~excused, \A q \in Asks : ask[q].stage # "enlist"
             PROVE  /\ file.assigned # NoOne => Standing(file.assigned, team) # {}
                    /\ \A u \in Involved : Grants(u) = "case_write" =>
                         \/ PolicyWrites(u, file, team)
                         \/ u = file.assigned /\ Standing(u, team) = {"summary"}
  BY DEF CaseTeamIsSound, Settled
<1>1. file.assigned # NoOne => Standing(file.assigned, team) # {}
  BY DEF CaseInv, WorkerStands
<1>2. ASSUME NEW u \in Involved, Grants(u) = "case_write", OwnRow(u) # {}
      PROVE  PolicyWrites(u, file, team)
  <2> DEFINE s == CHOOSE r \in OwnRow(u) : TRUE
  <2>1. s \in OwnRow(u) /\ LevelOf(s) = "case_write"
    BY <1>2 DEF Grants
  <2> HIDE DEF s
  <2>2. s \in Standing(u, team) /\ s # "member"
    BY <2>1 DEF OwnRow, LevelOf
  <2>3. QED
    BY <2>1, <2>2 DEF PolicyWrites, Policy
<1>3. ASSUME NEW u \in Involved, Grants(u) = "case_write", OwnRow(u) = {},
             ~PolicyWrites(u, file, team)
      PROVE  u = file.assigned /\ Standing(u, team) = {"summary"}
  <2>1. u = file.assigned /\ u # file.member
    BY <1>3 DEF Grants, PolicyWrites, Policy
  <2>2. Standing(u, team) # {} /\ ~PolicyReads(u, file, team)
    BY <1>1, <1>3, <2>1, CaseAssumption DEF OwnRow
  <2>3. ASSUME NEW s \in Standing(u, team)
        PROVE  s = "summary"
    <3>1. s \in RowStates /\ s \notin {"none", "revoked"} /\ s # "member"
      BY <2>1, <2>3 DEF Standing, Lasting, MemberRows, CaseInv, CaseTypeOK
    <3>2. LevelOf(s) \notin {"case_read", "case_write"}
      BY <2>2, <2>3, <3>1 DEF PolicyReads, Policy
    <3>3. s \in {"case_worker", "summary", "case_read", "case_write"}
      BY <3>1, CaseAssumption DEF RowStates
    <3>4. QED
      BY <3>2, <3>3 DEF LevelOf
  <2>4. QED
    BY <2>1, <2>2, <2>3
<1>4. QED
  BY <1>1, <1>2, <1>3

(* The case worker is on the team, and whoever the handlers let write, the row  *)
(* policies let write, for any number of people, rows and requests, but for the *)
(* case worker who was listed again with a summary: a request that changes or   *)
(* removes somebody knows the case worker as long as no other one is under way  *)
(* (grievances/[id]/route.ts, participants/[participantId]/route.ts,            *)
(* grievance/authorization.ts).                                                 *)
THEOREM TeamAndPoliciesAgree == CaseSpec => []CaseTeamIsSound
BY CaseInvInit, CaseInvStep, MemberRowsInit, MemberRowsStep, GrantsAreBacked, PTL DEF CaseSpec

-----------------------------------------------------------------------------
(* Imports. *)

UploadStates ==
  [status : {"none", "review", "partially_published", "published"}, of : Datasets \cup {"none"},
   rows : Sheets \cup {{}}, mapping : Mappings, version : 0..MaxMapping]

TaskStates ==
  {NoTask} \cup [at : {"open"}, upload : Uploads, mapping : Mappings, rows : SUBSET FileRows,
                 back : SUBSET FileRows, pending : BOOLEAN, newcomers : SUBSET People]

Begun(u) == upload[u].status # "none"

ImportShape ==
  /\ upload \in [Uploads -> UploadStates]
  /\ task \in [Requesters -> TaskStates]
  /\ verdict = [u \in Uploads |-> verdict[u]]
  /\ \A u \in Uploads : upload[u].status = "none" => upload[u].rows = {}

(* The dataset is locked as long as a publication of it is open; that nothing
   else is open is what the history leaves out. *)
LocksHold ==
  /\ \A q \in OpenPublications : Begun(task[q].upload)
  /\ \A o, q \in OpenPublications :
       upload[task[o].upload].of = upload[task[q].upload].of => o = q
  /\ ~crossed => \A o, q \in OpenPublications : o = q

(* What an open publication is about to write names people who exist ... *)
Grounds(q) ==
  \A r \in task[q].rows :
    /\ r.who \in known \cup task[q].newcomers
    /\ BossUnder(r, task[q].mapping) \in {Nobody} \cup known \cup task[q].newcomers

(* ... closes no circle with the lines there are ... *)
Lines(q) == CurrentEdges \cup NewEdges(task[q].rows, task[q].mapping)

Opens(q) ==
  \A r \in task[q].rows :
    BossUnder(r, task[q].mapping) # Nobody =>
      ~Reaches(Lines(q), BossUnder(r, task[q].mapping), r.who)

(* ... and is accepted in a run that still has the mapping. *)
Accepted(q) ==
  LET t == task[q] IN
    /\ t.mapping = upload[t.upload].mapping
    /\ \A r \in t.rows \cup t.back :
         r \in upload[t.upload].rows /\ verdict[t.upload][r] = "accept"

(* What is published is a row of its run, which says so. *)
OutputHasARun ==
  \A x \in output : x[1] \in Uploads
                    /\ upload[x[1]].status \in {"partially_published", "published"}

OutputStands ==
  \A x \in output : \E r \in upload[x[1]].rows :
    r.line = x[2] /\ verdict[x[1]][r] = "published"

ImportInv ==
  /\ ImportTypeOK /\ ImportShape
  /\ LocksHold
  /\ \A q \in OpenPublications : Grounds(q)
  /\ ~crossed => \A q \in OpenPublications : Opens(q)
  /\ OutputHasARun
  /\ ~edited => OutputStands /\ \A q \in OpenPublications : Accepted(q)
  /\ PublishedLinesAreSound
-----------------------------------------------------------------------------
(* Circles. *)

(* What is reached is still reached when there are more lines. *)
LEMMA ReachesMore ==
  ASSUME NEW E, NEW F, E \subseteq F, NEW a, NEW b, Reaches(E, a, b)
  PROVE  Reaches(F, a, b)
BY DEF Reaches

(* Lines that are new close no circle if none of them is reached from where it *)
(* leads: in a smallest circle with a new line, what is reached from the end   *)
(* of that line would be a smaller one.                                        *)
LEMMA NewLinesCloseNoCircle ==
  ASSUME NEW before, NEW after, NEW E,
         \A p \in People : after[p] \in People => <<p, after[p]>> \in E,
         \A p \in People : after[p] \in People =>
           after[p] = before[p] \/ ~Reaches(E, after[p], p),
         \A S \in (SUBSET People) \ {{}} : \E p \in S : before[p] \notin S
  PROVE  \A S \in (SUBSET People) \ {{}} : \E p \in S : after[p] \notin S
<1> DEFINE Circles == {S \in SUBSET People : S # {} /\ \A p \in S : after[p] \in S}
<1>1. SUFFICES ASSUME Circles # {}
               PROVE  FALSE
  OBVIOUS
<1>2. PICK S \in Circles : \A T \in Circles : T \subseteq S => T = S
  <2>1. Circles \in SUBSET SUBSET People /\ IsFiniteSet(People)
    BY ImportAssumption
  <2> HIDE DEF Circles
  <2>2. QED
    BY <1>1, <2>1, SmallestSubset
<1>3. S \in SUBSET People /\ S # {} /\ \A p \in S : after[p] \in S
  BY <1>2
<1>4. PICK p \in S : before[p] \notin S
  BY <1>3
<1>5. p \in People /\ after[p] \in S /\ after[p] \in People /\ ~Reaches(E, after[p], p)
  BY <1>3, <1>4
<1>6. PICK T \in SUBSET People : /\ after[p] \in T /\ p \notin T
                                 /\ \A e \in E : e[1] \in T => e[2] \in T
  BY <1>5 DEF Reaches
<1>7. \A x \in T \cap S : after[x] \in T \cap S
  <2>1. ASSUME NEW x \in T \cap S
        PROVE  after[x] \in T
    <3>1. <<x, after[x]>> \in E
      BY <1>3
    <3>2. QED
      BY <1>6, <3>1
  <2>2. QED
    BY <1>3, <2>1
<1>8. T \cap S \in Circles
  BY <1>5, <1>6, <1>7
<1>9. QED
  BY <1>2, <1>4, <1>6, <1>8

(* What may be published: accepted rows, one for a person, under supervisors who *)
(* exist or are published too, and on no circle with the lines there are.        *)
LEMMA EligibleRows ==
  ASSUME NEW u, NEW m
  PROVE  LET rows == Eligible(u, m) IN
         /\ \A r \in rows : r \in upload[u].rows /\ verdict[u][r] = "accept"
         /\ \A r, x \in rows : x.who = r.who => x = r
         /\ \A r \in rows : BossUnder(r, m) \in {Nobody} \cup known \cup {x.who : x \in rows}
         /\ \A r \in rows : BossUnder(r, m) # Nobody =>
              ~Reaches(CurrentEdges \cup NewEdges(rows, m), BossUnder(r, m), r.who)
<1> DEFINE accepted == {r \in upload[u].rows : verdict[u][r] = "accept"}
           single   == {r \in accepted : \A x \in accepted : x.who = r.who => x = r}
           resolved == {r \in single :
                          BossUnder(r, m) \in {Nobody} \cup known \cup {x.who : x \in single}}
           open     == resolved \ Cyclic(resolved, m)
           rows     == Eligible(u, m)
<1>1. rows = Grounded(open, m)
  BY DEF Eligible
<1> HIDE DEF resolved
<1>2. rows \subseteq open
  BY <1>1 DEF Grounded
<1>3. \A r \in rows : BossUnder(r, m) \in {Nobody} \cup known \cup {x.who : x \in rows}
  <2>1. SUFFICES ASSUME NEW r \in rows
                 PROVE  BossUnder(r, m) \in {Nobody} \cup known \cup {x.who : x \in rows}
    OBVIOUS
  <2>2. PICK S \in SUBSET open :
          /\ r \in S
          /\ \A y \in S : BossUnder(y, m) \in {Nobody} \cup known \cup {x.who : x \in S}
    BY <1>1 DEF Grounded
  <2>3. S \subseteq rows
    BY <1>1, <2>2 DEF Grounded
  <2>4. QED
    BY <2>2, <2>3
<1> HIDE DEF rows
<1>4. resolved \subseteq single
  BY DEF resolved
<1>5. \A r \in rows : r \in accepted /\ \A x \in accepted : x.who = r.who => x = r
  BY <1>2, <1>4
<1>6. ASSUME NEW r \in rows, BossUnder(r, m) # Nobody,
             Reaches(CurrentEdges \cup NewEdges(rows, m), BossUnder(r, m), r.who)
      PROVE  FALSE
  <2>1. NewEdges(rows, m) \subseteq NewEdges(resolved, m)
    BY <1>2 DEF NewEdges
  <2>2. Reaches(CurrentEdges \cup NewEdges(resolved, m), BossUnder(r, m), r.who)
    BY <1>6, <2>1, ReachesMore
  <2>3. r \in resolved /\ r \notin Cyclic(resolved, m)
    BY <1>2
  <2>4. QED
    BY <1>6, <2>2, <2>3 DEF Cyclic
<1>7. QED
  BY <1>3, <1>5, <1>6 DEF rows
-----------------------------------------------------------------------------
LEMMA ImportInvInit == ImportInit => ImportInv
<1> SUFFICES ASSUME ImportInit
             PROVE  ImportInv
  OBVIOUS
<1> USE ImportAssumption DEF ImportInit
<1>1. ImportShape
  BY DEF ImportShape, UploadStates, TaskStates, NoUpload, Mappings
<1>2. ImportTypeOK
  <2>1. dataset \in [Datasets -> [mapping : Mappings, version : 1..MaxMapping]]
    BY DEF Mappings
  <2>2. \A u \in Uploads : upload[u] = NoUpload /\ verdict[u] = <<>>
    OBVIOUS
  <2>3. NoUpload.rows = {} /\ NoUpload.status = "none" /\ NoUpload.mapping \in Mappings
        /\ DOMAIN <<>> = {}
    BY DEF NoUpload, Mappings
  <2>4. reportsTo \in [People -> People \cup {Nobody, "unassigned"}] /\ known \subseteq People
    OBVIOUS
  <2>5. crossed \in BOOLEAN /\ edited \in BOOLEAN /\ again \in BOOLEAN
    OBVIOUS
  <2> HIDE DEF NoUpload, ImportInit
  <2>6. QED
    BY <2>1, <2>2, <2>3, <2>4, <2>5 DEF ImportTypeOK
<1>3. OpenPublications = {}
  BY DEF OpenPublications
<1>4. LocksHold /\ OutputHasARun /\ OutputStands
  BY <1>3 DEF LocksHold, OutputHasARun, OutputStands
<1>5. PublishedLinesAreSound
  <2>1. ASSUME NEW S \in (SUBSET People) \ {{}}
        PROVE  \E p \in S : reportsTo[p] \notin S
    <3> HIDE DEF ImportInit
    <3>1. PICK p : p \in S
      BY <2>1
    <3>2. p \in People /\ reportsTo[p] = "unassigned"
      BY <2>1, <3>1 DEF ImportInit
    <3>3. QED
      BY <3>1, <3>2
  <2>2. QED
    BY <2>1 DEF PublishedLinesAreSound, NoCircle, OneMapping
<1>6. QED
  BY <1>1, <1>2, <1>3, <1>4, <1>5 DEF ImportInv

(* Uploads, mappings and decisions leave people, their lines and the open *)
(* publications alone.                                                    *)
LEMMA PreparingKeeps ==
  ASSUME ImportInv, UNCHANGED <<known, reportsTo, task, crossed, again, output>>,
         ImportTypeOK', ImportShape', edited => edited',
         \A u \in Uploads : Begun(u) =>
           upload'[u].of = upload[u].of /\ upload'[u].status = upload[u].status,
         ~edited' => OutputStands' /\ OneMapping' /\ \A q \in OpenPublications : Accepted(q)'
  PROVE  ImportInv'
<1> USE DEF ImportInv
<1>1. OpenPublications' = OpenPublications
  BY DEF OpenPublications
<1>2. \A q \in OpenPublications : task[q].upload \in Uploads
  BY DEF OpenPublications, ImportShape, TaskStates
<1>3. LocksHold'
  BY <1>1, <1>2 DEF LocksHold, Begun
<1>4. \A q \in OpenPublications : Grounds(q)' /\ (~crossed' => Opens(q)')
  BY DEF Grounds, Opens, Lines, CurrentEdges
<1>5. OutputHasARun'
  BY DEF OutputHasARun, Begun
<1>6. PublishedLinesAreSound'
  BY DEF PublishedLinesAreSound, NoCircle
<1>7. QED
  BY <1>1, <1>3, <1>4, <1>5, <1>6

LEMMA CreateImportRunKeeps ==
  ASSUME ImportInv, NEW u \in Uploads, NEW d \in Datasets, NEW rows \in Sheets, NEW m \in Mappings,
         NEW v \in 1..dataset[d].version, CreateImportRun(u, d, rows, v, m)
  PROVE  ImportInv'
<1> USE DEF ImportInv
<1> DEFINE new == [status |-> "review", of |-> d, rows |-> rows, mapping |-> m, version |-> v]
<1>1. /\ upload[u].status = "none"
      /\ upload' = [upload EXCEPT ![u] = new]
      /\ verdict' = [verdict EXCEPT ![u] = [r \in rows |-> "pending"]]
      /\ UNCHANGED <<dataset, known, reportsTo, task, crossed, edited, again, output>>
  BY DEF CreateImportRun
<1>2. v \in 0..MaxMapping
  BY ImportAssumption DEF ImportTypeOK
<1>3. new \in UploadStates /\ rows \subseteq FileRows
  BY <1>2, ImportAssumption DEF UploadStates
<1>4. /\ upload' \in [Uploads -> UploadStates] /\ upload'[u] = new
      /\ \A w \in Uploads \ {u} : upload'[w] = upload[w]
  BY <1>1, <1>3 DEF ImportShape
<1>5. verdict'[u] = [r \in rows |-> "pending"] /\ \A w \in Uploads \ {u} : verdict'[w] = verdict[w]
  BY <1>1 DEF ImportShape
<1>6. ImportTypeOK'
  BY <1>1, <1>3, <1>4, <1>5 DEF ImportTypeOK
<1>7. ImportShape'
  <2>1. verdict' = [w \in Uploads |-> verdict'[w]]
    BY <1>1 DEF ImportShape
  <2>2. QED
    BY <1>1, <1>4, <2>1 DEF ImportShape
<1>8. \A q \in OpenPublications : task[q].upload \in Uploads \ {u}
  BY <1>1 DEF OpenPublications, ImportShape, TaskStates, LocksHold, Begun
<1>9. \A x \in output : x[1] \in Uploads \ {u}
  BY <1>1 DEF OutputHasARun
<1>10. ~edited' => OutputStands' /\ OneMapping' /\ \A q \in OpenPublications : Accepted(q)'
  <2>1. ~edited' => OutputStands'
    BY <1>1, <1>4, <1>5, <1>9 DEF OutputStands
  <2>2. ~edited' => OneMapping'
    BY <1>1, <1>4, <1>9 DEF OneMapping, PublishedLinesAreSound
  <2>3. ~edited' => \A q \in OpenPublications : Accepted(q)'
    BY <1>1, <1>4, <1>5, <1>8 DEF Accepted
  <2>4. QED
    BY <2>1, <2>2, <2>3
<1>11. QED
  BY <1>1, <1>4, <1>6, <1>7, <1>10, PreparingKeeps DEF Begun

LEMMA SaveImportMappingKeeps ==
  ASSUME ImportInv, NEW u \in Uploads, NEW m \in Mappings, NEW v \in 1..MaxMapping,
         SaveImportMapping(u, m, v)
  PROVE  ImportInv'
<1> USE DEF ImportInv
<1> DEFINE d == upload[u].of
           new == [upload[u] EXCEPT !.mapping = m, !.version = v]
<1>1. /\ upload' = [upload EXCEPT ![u] = new]
      /\ dataset' = [dataset EXCEPT ![d] = [mapping |-> m, version |-> v]]
      /\ edited' = (edited \/ Overlaps(u) \/ upload[u].status # "review")
      /\ UNCHANGED <<verdict, known, reportsTo, task, crossed, again, output>>
  BY DEF SaveImportMapping, ImportShape
<1>2. /\ new \in UploadStates /\ new.rows = upload[u].rows /\ new.of = upload[u].of
      /\ new.status = upload[u].status /\ new.mapping = m
  <2>1. upload[u] \in UploadStates /\ v \in 0..MaxMapping
    BY ImportAssumption DEF ImportShape
  <2>2. QED
    BY <2>1 DEF UploadStates
<1> HIDE DEF new, d
<1>3. /\ upload' \in [Uploads -> UploadStates] /\ upload'[u] = new
      /\ \A w \in Uploads \ {u} : upload'[w] = upload[w]
  BY <1>1, <1>2 DEF ImportShape
<1>4. ImportTypeOK'
  <2>1. dataset' \in [Datasets -> [mapping : Mappings, version : 1..MaxMapping]]
    BY <1>1 DEF ImportTypeOK
  <2>2. edited' \in BOOLEAN
    BY <1>1 DEF ImportTypeOK
  <2>3. QED
    BY <1>1, <1>2, <1>3, <2>1, <2>2 DEF ImportTypeOK
<1>5. ImportShape'
  BY <1>1, <1>2, <1>3 DEF ImportShape
<1>6. ASSUME ~edited'
      PROVE  OutputStands' /\ OneMapping' /\ \A q \in OpenPublications : Accepted(q)'
  <2>1. ~edited /\ ~Overlaps(u) /\ upload[u].status = "review"
    BY <1>1, <1>6
  <2>2. \A q \in OpenPublications : task[q].upload \in Uploads \ {u}
    BY <2>1 DEF Overlaps, OpenPublications, ImportShape, TaskStates
  <2>3. \A x \in output : x[1] \in Uploads \ {u}
    BY <2>1 DEF OutputHasARun
  <2>4. OutputStands' /\ OneMapping'
    BY <1>1, <1>3, <2>1, <2>3 DEF OutputStands, OneMapping, PublishedLinesAreSound
  <2>5. \A q \in OpenPublications : Accepted(q)'
    BY <1>1, <1>3, <2>1, <2>2 DEF Accepted
  <2>6. QED
    BY <2>4, <2>5
<1>7. QED
  BY <1>1, <1>2, <1>3, <1>4, <1>5, <1>6, PreparingKeeps

LEMMA SetImportDecisionsKeeps ==
  ASSUME ImportInv, NEW u \in Uploads, NEW rows \in SUBSET upload[u].rows,
         NEW decision \in {"accept", "exclude"}, SetImportDecisions(u, rows, decision)
  PROVE  ImportInv'
<1> USE DEF ImportInv
<1>1. /\ verdict' = [verdict EXCEPT ![u] =
           [r \in DOMAIN @ |-> IF r \in rows THEN decision ELSE @[r]]]
      /\ edited' = (edited \/ Overlaps(u) \/ upload[u].status = "published"
                           \/ \E r \in rows : verdict[u][r] = "published")
      /\ UNCHANGED <<dataset, upload, known, reportsTo, task, crossed, again, output>>
  BY DEF SetImportDecisions
<1>2. /\ verdict'[u] = [r \in upload[u].rows |-> IF r \in rows THEN decision ELSE verdict[u][r]]
      /\ \A w \in Uploads \ {u} : verdict'[w] = verdict[w]
  <2>1. DOMAIN verdict[u] = upload[u].rows
    BY DEF ImportTypeOK
  <2>2. QED
    BY <1>1, <2>1 DEF ImportShape
<1>3. ImportTypeOK' /\ ImportShape'
  <2>1. edited' \in BOOLEAN
    BY <1>1 DEF ImportTypeOK
  <2>2. verdict' = [w \in Uploads |-> verdict'[w]]
    BY <1>1 DEF ImportShape
  <2>3. ImportShape'
    BY <1>1, <2>2 DEF ImportShape
  <2>4. QED
    BY <1>1, <1>2, <2>1, <2>3 DEF ImportTypeOK
<1>4. ASSUME ~edited'
      PROVE  OutputStands' /\ OneMapping' /\ \A q \in OpenPublications : Accepted(q)'
  <2>1. ~edited /\ ~Overlaps(u) /\ \A r \in rows : verdict[u][r] # "published"
    BY <1>1, <1>4
  <2>2. \A q \in OpenPublications : task[q].upload \in Uploads \ {u}
    BY <2>1 DEF Overlaps, OpenPublications, ImportShape, TaskStates
  <2>3. OutputStands'
    <3>1. SUFFICES ASSUME NEW x \in output
                   PROVE  \E r \in upload[x[1]].rows : r.line = x[2] /\ verdict'[x[1]][r] = "published"
      BY <1>1 DEF OutputStands
    <3>2. PICK r \in upload[x[1]].rows : r.line = x[2] /\ verdict[x[1]][r] = "published"
      BY <2>1 DEF OutputStands
    <3>3. verdict'[x[1]][r] = "published"
      BY <1>2, <2>1, <3>2 DEF OutputHasARun
    <3>4. QED
      BY <3>2, <3>3
  <2>4. OneMapping'
    BY <1>1, <2>1 DEF OneMapping, PublishedLinesAreSound
  <2>5. \A q \in OpenPublications : Accepted(q)'
    BY <1>1, <1>2, <2>1, <2>2 DEF Accepted
  <2>6. QED
    BY <2>3, <2>4, <2>5
<1>5. QED
  BY <1>1, <1>3, <1>4, PreparingKeeps

-----------------------------------------------------------------------------
(* Publication. *)

LEMMA OpenPublicationKeeps ==
  ASSUME ImportInv, NEW q \in Requesters, NEW u \in Uploads, NEW m \in Mappings,
         NEW v \in 1..MaxMapping, OpenPublication(q, u, m, v)
  PROVE  ImportInv'
<1> USE DEF ImportInv
<1> DEFINE rows == Eligible(u, m)
           new == [at |-> "open", upload |-> u, mapping |-> m, rows |-> rows,
                   back |-> {r \in upload[u].rows : verdict[u][r] = "accept"} \ rows,
                   pending |-> \E r \in upload[u].rows : verdict[u][r] = "pending",
                   newcomers |-> {r.who : r \in rows} \ known]
<1>1. /\ task[q] = NoTask /\ ~Locked(u) /\ upload[u].status # "none"
      /\ task' = [task EXCEPT ![q] = new]
      /\ crossed' = (crossed \/ \E o \in OpenPublications :
                        upload[task[o].upload].of # upload[u].of)
      /\ edited' = (edited \/ m # upload[u].mapping)
      /\ UNCHANGED <<dataset, upload, verdict, known, reportsTo, again, output>>
  BY DEF OpenPublication, MayOpen
<1>2. /\ \A r \in rows : r \in upload[u].rows /\ verdict[u][r] = "accept"
      /\ \A r \in rows : BossUnder(r, m) \in {Nobody} \cup known \cup {x.who : x \in rows}
      /\ \A r \in rows : BossUnder(r, m) # Nobody =>
           ~Reaches(CurrentEdges \cup NewEdges(rows, m), BossUnder(r, m), r.who)
  BY EligibleRows
<1>3. upload[u].rows \subseteq FileRows
  BY DEF ImportTypeOK
<1> HIDE DEF rows
<1>4. /\ new \in TaskStates /\ new # NoTask /\ new.upload = u /\ new.mapping = m
      /\ new.rows = rows /\ new.newcomers = {r.who : r \in rows} \ known
      /\ \A r \in new.rows \cup new.back : r \in upload[u].rows /\ verdict[u][r] = "accept"
  <2>1. \A r \in rows : r.who \in People
    BY <1>2, <1>3 DEF FileRows
  <2>2. (\E r \in upload[u].rows : verdict[u][r] = "pending") \in BOOLEAN
    OBVIOUS
  <2>3. new \in [at : {"open"}, upload : Uploads, mapping : Mappings, rows : SUBSET FileRows,
                 back : SUBSET FileRows, pending : BOOLEAN, newcomers : SUBSET People]
    BY <1>2, <1>3, <2>1, <2>2
  <2>4. QED
    BY <1>2, <2>3 DEF TaskStates, NoTask
<1> HIDE DEF new
<1>5. /\ task' \in [Requesters -> TaskStates] /\ task'[q] = new
      /\ \A o \in Requesters \ {q} : task'[o] = task[o]
  BY <1>1, <1>4 DEF ImportShape
<1>6. OpenPublications' = OpenPublications \cup {q} /\ q \notin OpenPublications
  BY <1>1, <1>4, <1>5 DEF OpenPublications
<1>7. \A o \in OpenPublications : task'[o] = task[o] /\ task[o].upload \in Uploads
  BY <1>5, <1>6 DEF OpenPublications, ImportShape, TaskStates
<1>8. ImportTypeOK' /\ ImportShape'
  <2>1. crossed' \in BOOLEAN /\ edited' \in BOOLEAN
    BY <1>1 DEF ImportTypeOK
  <2>2. QED
    BY <1>1, <1>5, <2>1 DEF ImportTypeOK, ImportShape
<1>9. LocksHold'
  <2>1. \A o \in OpenPublications : upload[task[o].upload].of # upload[u].of
    BY <1>1 DEF Locked, LockedDataset
  <2>2. ~crossed' => OpenPublications = {}
    BY <1>1, <2>1
  <2>3. QED
    BY <1>1, <1>4, <1>5, <1>6, <1>7, <2>1, <2>2 DEF LocksHold, Begun
<1>10. \A o \in OpenPublications' : Grounds(o)'
  <2>1. Grounds(q)'
    BY <1>1, <1>2, <1>4, <1>5 DEF Grounds
  <2>2. \A o \in OpenPublications : Grounds(o)'
    BY <1>1, <1>7 DEF Grounds
  <2>3. QED
    BY <1>6, <2>1, <2>2
<1>11. ASSUME ~crossed'
       PROVE  \A o \in OpenPublications' : Opens(o)'
  <2>1. Opens(q)'
    BY <1>1, <1>2, <1>4, <1>5 DEF Opens, Lines, CurrentEdges
  <2>2. OpenPublications = {}
    <3>1. \A o \in OpenPublications : upload[task[o].upload].of # upload[u].of
      BY <1>1 DEF Locked, LockedDataset
    <3>2. QED
      BY <1>1, <1>11, <3>1
  <2>3. QED
    BY <1>6, <2>1, <2>2
<1>12. ASSUME ~edited'
       PROVE  \A o \in OpenPublications' : Accepted(o)'
  <2>1. Accepted(q)'
    BY <1>1, <1>4, <1>5, <1>12 DEF Accepted
  <2>2. ASSUME NEW o \in OpenPublications
        PROVE  Accepted(o)'
    <3>1. Accepted(o) /\ task'[o] = task[o] /\ upload' = upload /\ verdict' = verdict
      BY <1>1, <1>7, <1>12
    <3>2. QED
      BY <3>1 DEF Accepted
  <2>3. QED
    BY <1>6, <2>1, <2>2
<1>13. OutputHasARun' /\ (~edited' => OutputStands') /\ PublishedLinesAreSound'
  BY <1>1 DEF OutputHasARun, OutputStands, PublishedLinesAreSound, NoCircle, OneMapping
<1>14. QED
  BY <1>8, <1>9, <1>10, <1>11, <1>12, <1>13

LEMMA AbandonPublicationKeeps ==
  ASSUME ImportInv, NEW q \in Requesters, AbandonPublication(q)
  PROVE  ImportInv'
<1> USE DEF ImportInv
<1>1. /\ task' = [task EXCEPT ![q] = NoTask]
      /\ UNCHANGED <<dataset, upload, verdict, known, reportsTo, crossed, edited, again, output>>
  BY DEF AbandonPublication, EndTask
<1>2. /\ task' \in [Requesters -> TaskStates] /\ task'[q] = NoTask
      /\ \A o \in Requesters \ {q} : task'[o] = task[o]
  BY <1>1 DEF ImportShape, TaskStates
<1>3. OpenPublications' \subseteq OpenPublications
      /\ \A o \in OpenPublications' : task'[o] = task[o]
  BY <1>2 DEF OpenPublications
<1>4. ImportTypeOK' /\ ImportShape'
  BY <1>1, <1>2 DEF ImportTypeOK, ImportShape
<1>5. LocksHold'
  BY <1>1, <1>3 DEF LocksHold, Begun
<1>6. \A o \in OpenPublications' : /\ Grounds(o)' /\ (~crossed' => Opens(o)')
                                   /\ (~edited' => Accepted(o)')
  BY <1>1, <1>3 DEF Grounds, Opens, Lines, CurrentEdges, Accepted
<1>7. OutputHasARun' /\ (~edited' => OutputStands') /\ PublishedLinesAreSound'
  BY <1>1 DEF OutputHasARun, OutputStands, PublishedLinesAreSound, NoCircle, OneMapping
<1>8. QED
  BY <1>4, <1>5, <1>6, <1>7

(* An assignment is the one before, none, or the supervisor of the row. *)
LEMMA AssignedIs ==
  ASSUME NEW before, NEW r, NEW m
  PROVE  Assigned(before, r, m) \in {before, "unassigned", Nobody, BossUnder(r, m)}
BY DEF Assigned

LEMMA CommitPublicationKeeps ==
  ASSUME ImportInv, NEW q \in Requesters, CommitPublication(q)
  PROVE  ImportInv'
<1> USE DEF ImportInv
<1> DEFINE t == task[q]
           RowOf(p) == CHOOSE r \in t.rows : r.who = p
           status == IF t.back = {} /\ ~t.pending THEN "published" ELSE "partially_published"
<1>1. /\ q \in OpenPublications
      /\ known' = known \cup t.newcomers
      /\ reportsTo' = [p \in People |->
           IF \E r \in t.rows : r.who = p THEN Assigned(reportsTo[p], RowOf(p), t.mapping)
           ELSE reportsTo[p]]
      /\ verdict' = [verdict EXCEPT ![t.upload] =
           [r \in DOMAIN @ |-> IF r \in t.rows THEN "published"
                               ELSE IF r \in t.back THEN "pending" ELSE @[r]]]
      /\ upload' = [upload EXCEPT ![t.upload].status = status]
      /\ again' = (again \/ \E r \in t.rows, x \in output : x[1] = t.upload /\ x[2] = r.line)
      /\ output' = output \cup {<<t.upload, r.line, t.mapping>> : r \in t.rows}
      /\ task' = [task EXCEPT ![q] = NoTask]
      /\ UNCHANGED <<dataset, crossed, edited>>
  BY DEF CommitPublication, EndTask
<1>2. /\ t \in [at : {"open"}, upload : Uploads, mapping : Mappings, rows : SUBSET FileRows,
                back : SUBSET FileRows, pending : BOOLEAN, newcomers : SUBSET People]
  BY <1>1 DEF OpenPublications, ImportShape, TaskStates
<1>3. /\ task' \in [Requesters -> TaskStates] /\ task'[q] = NoTask
      /\ \A o \in Requesters \ {q} : task'[o] = task[o]
  BY <1>1 DEF ImportShape, TaskStates
<1>4. /\ OpenPublications' = OpenPublications \ {q}
      /\ \A o \in OpenPublications' : task'[o] = task[o] /\ task[o].upload \in Uploads
  BY <1>3 DEF OpenPublications, ImportShape, TaskStates
<1> HIDE DEF status
<1>5. /\ upload' \in [Uploads -> UploadStates]
      /\ \A u \in Uploads : /\ upload'[u].of = upload[u].of /\ upload'[u].rows = upload[u].rows
                            /\ upload'[u].mapping = upload[u].mapping
      /\ upload'[t.upload].status = status
      /\ \A u \in Uploads \ {t.upload} : upload'[u] = upload[u]
  <2>1. status \in {"partially_published", "published"}
    BY DEF status
  <2>2. QED
    BY <1>1, <1>2, <2>1 DEF ImportShape, UploadStates
<1>6. /\ DOMAIN verdict'[t.upload] = upload[t.upload].rows
      /\ \A r \in upload[t.upload].rows :
           verdict'[t.upload][r] = IF r \in t.rows THEN "published"
                                   ELSE IF r \in t.back THEN "pending" ELSE verdict[t.upload][r]
      /\ \A u \in Uploads \ {t.upload} : verdict'[u] = verdict[u]
  <2>1. DOMAIN verdict[t.upload] = upload[t.upload].rows
    BY <1>2 DEF ImportTypeOK
  <2>2. verdict'[t.upload] = [r \in upload[t.upload].rows |->
          IF r \in t.rows THEN "published"
          ELSE IF r \in t.back THEN "pending" ELSE verdict[t.upload][r]]
    BY <1>1, <1>2, <2>1 DEF ImportShape
  <2>3. \A u \in Uploads \ {t.upload} : verdict'[u] = verdict[u]
    BY <1>1, <1>2 DEF ImportShape
  <2>4. QED
    BY <2>2, <2>3
<1>7. ASSUME NEW p \in People
      PROVE  \/ reportsTo'[p] \in {reportsTo[p], "unassigned", Nobody}
             \/ \E r \in t.rows : r.who = p /\ reportsTo'[p] = BossUnder(r, t.mapping)
  <2>1. CASE \E r \in t.rows : r.who = p
    <3>1. RowOf(p) \in t.rows /\ RowOf(p).who = p
      BY <2>1
    <3>2. reportsTo'[p] = Assigned(reportsTo[p], RowOf(p), t.mapping)
      BY <1>1, <2>1
    <3> HIDE DEF RowOf
    <3>3. QED
      BY <3>1, <3>2, AssignedIs
  <2>2. CASE ~\E r \in t.rows : r.who = p
    BY <1>1, <2>2
  <2>3. QED
    BY <2>1, <2>2
<1>8. reportsTo' \in [People -> People \cup {Nobody, "unassigned"}]
  <2>1. \A r \in t.rows : BossUnder(r, t.mapping) \in People \cup {Nobody}
    BY <1>2 DEF BossUnder, FileRows
  <2>2. \A p \in People : reportsTo'[p] \in People \cup {Nobody, "unassigned"}
    BY <1>7, <2>1 DEF ImportTypeOK
  <2>3. \E f : reportsTo' = [p \in People |-> f[p]]
    <3> DEFINE f == [p \in People |->
           IF \E r \in t.rows : r.who = p THEN Assigned(reportsTo[p], RowOf(p), t.mapping)
           ELSE reportsTo[p]]
    <3>1. reportsTo' = f
      BY <1>1
    <3>2. f = [p \in People |-> f[p]]
      OBVIOUS
    <3>3. QED
      BY <3>1, <3>2
  <2>4. QED
    BY <2>2, <2>3
<1>9. ImportTypeOK'
  <2>1. again' \in BOOLEAN /\ known' \subseteq People
    BY <1>1, <1>2 DEF ImportTypeOK
  <2>2. \A u \in Uploads : /\ DOMAIN verdict'[u] = upload'[u].rows
                           /\ \A r \in upload'[u].rows :
                                verdict'[u][r] \in {"pending", "accept", "exclude", "published"}
    BY <1>2, <1>5, <1>6 DEF ImportTypeOK
  <2>3. \A u \in Uploads :
          /\ upload'[u].status \in {"none", "review", "partially_published", "published"}
          /\ upload'[u].mapping \in Mappings /\ upload'[u].rows \subseteq FileRows
    BY <1>5 DEF ImportTypeOK, UploadStates
  <2>4. QED
    BY <1>1, <1>8, <2>1, <2>2, <2>3 DEF ImportTypeOK
<1>10. status \in {"partially_published", "published"}
  BY DEF status
<1>11. ImportShape'
  <2>1. verdict' = [w \in Uploads |-> verdict'[w]]
    BY <1>1 DEF ImportShape
  <2>2. QED
    BY <1>2, <1>3, <1>5, <1>10, <2>1 DEF ImportShape
<1>12. LocksHold'
  <2>1. \A o \in OpenPublications' : Begun(task[o].upload)'
    BY <1>4, <1>5, <1>10 DEF LocksHold, Begun
  <2>2. \A o, p \in OpenPublications' :
          upload'[task'[o].upload].of = upload'[task'[p].upload].of => o = p
    BY <1>4, <1>5 DEF LocksHold
  <2>3. ~crossed' => \A o, p \in OpenPublications' : o = p
    BY <1>1, <1>4 DEF LocksHold
  <2>4. QED
    BY <1>4, <2>1, <2>2, <2>3 DEF LocksHold, Begun
<1>13. \A o \in OpenPublications' : Grounds(o)'
  BY <1>1, <1>4 DEF Grounds
<1>14. ~crossed' => OpenPublications' = {}
  BY <1>1, <1>4 DEF LocksHold
<1>15. OutputHasARun'
  BY <1>1, <1>2, <1>5, <1>10 DEF OutputHasARun
<1>16. \A p \in People : reportsTo'[p] \in known' \cup {Nobody, "unassigned"}
  <2>1. known' = known \cup t.newcomers /\ Grounds(q)
    BY <1>1
  <2>2. \A r \in t.rows : BossUnder(r, t.mapping) \in {Nobody} \cup known'
    BY <2>1 DEF Grounds
  <2>3. \A p \in People : reportsTo[p] \in known' \cup {Nobody, "unassigned"}
    BY <2>1 DEF PublishedLinesAreSound
  <2>4. QED
    BY <1>7, <2>2, <2>3
<1>17. ASSUME ~crossed'
       PROVE  NoCircle'
  <2>1. NoCircle /\ Opens(q)
    BY <1>1, <1>17 DEF PublishedLinesAreSound
  <2>2. \A p \in People : reportsTo'[p] \in People => <<p, reportsTo'[p]>> \in Lines(q)
    BY <1>7, ImportAssumption DEF Lines, CurrentEdges, NewEdges
  <2>3. \A p \in People : reportsTo'[p] \in People =>
          reportsTo'[p] = reportsTo[p] \/ ~Reaches(Lines(q), reportsTo'[p], p)
    BY <1>7, <2>1, ImportAssumption DEF Opens
  <2>4. \A S \in (SUBSET People) \ {{}} : \E p \in S : reportsTo[p] \notin S
    BY <2>1 DEF NoCircle
  <2>5. \A S \in (SUBSET People) \ {{}} : \E p \in S : reportsTo'[p] \notin S
    BY <2>2, <2>3, <2>4, NewLinesCloseNoCircle
  <2>6. QED
    BY <2>5 DEF NoCircle
<1>18. ASSUME ~edited'
       PROVE  ~again' /\ OneMapping' /\ OutputStands' /\ \A o \in OpenPublications' : Accepted(o)'
  <2>1. ~edited /\ Accepted(q) /\ OutputStands /\ ~again /\ OneMapping
    BY <1>1, <1>18 DEF PublishedLinesAreSound
  <2>2. \A r \in t.rows \cup t.back : r \in upload[t.upload].rows /\ verdict[t.upload][r] = "accept"
    BY <2>1 DEF Accepted
  <2>3. \A r, x \in upload[t.upload].rows : r.line = x.line => r = x
    BY <1>2, ImportAssumption DEF ImportShape, UploadStates
  <2>4. ~again'
    <3>1. SUFFICES ASSUME NEW r \in t.rows, NEW x \in output, x[1] = t.upload, x[2] = r.line
                   PROVE  FALSE
      BY <1>1, <2>1
    <3>2. PICK y \in upload[t.upload].rows : y.line = r.line /\ verdict[t.upload][y] = "published"
      BY <2>1, <3>1 DEF OutputStands
    <3>3. y = r
      BY <2>2, <2>3, <3>2
    <3>4. QED
      BY <2>2, <3>2, <3>3
  <2>5. OneMapping'
    <3>1. \A x \in output : x[3] = upload'[x[1]].mapping
      BY <1>5, <2>1 DEF OneMapping, OutputHasARun
    <3>2. t.mapping = upload'[t.upload].mapping
      BY <1>2, <1>5, <2>1 DEF Accepted
    <3>3. QED
      BY <1>1, <3>1, <3>2 DEF OneMapping
  <2>6. OutputStands'
    <3>1. ASSUME NEW x \in output
          PROVE  \E r \in upload'[x[1]].rows : r.line = x[2] /\ verdict'[x[1]][r] = "published"
      <4>1. x[1] \in Uploads
        BY DEF OutputHasARun
      <4>2. PICK r \in upload[x[1]].rows : r.line = x[2] /\ verdict[x[1]][r] = "published"
        BY <2>1 DEF OutputStands
      <4>3. verdict'[x[1]][r] = "published"
        BY <1>6, <2>2, <4>1, <4>2
      <4>4. QED
        BY <1>5, <4>1, <4>2, <4>3
    <3>2. ASSUME NEW r \in t.rows
          PROVE  r \in upload'[t.upload].rows /\ verdict'[t.upload][r] = "published"
      BY <1>2, <1>5, <1>6, <2>2
    <3>3. \A x \in output' : x \in output \/ \E r \in t.rows : x = <<t.upload, r.line, t.mapping>>
      BY <1>1
    <3>4. ASSUME NEW x \in output'
          PROVE  \E r \in upload'[x[1]].rows : r.line = x[2] /\ verdict'[x[1]][r] = "published"
      <4>1. CASE x \in output
        BY <3>1, <4>1
      <4>2. ASSUME NEW r \in t.rows, x = <<t.upload, r.line, t.mapping>>
            PROVE  \E y \in upload'[x[1]].rows : y.line = x[2] /\ verdict'[x[1]][y] = "published"
        <5>1. x[1] = t.upload /\ x[2] = r.line
          BY <4>2
        <5>2. QED
          BY <3>2, <5>1
      <4>3. QED
        BY <3>3, <4>1, <4>2
    <3>5. QED
      BY <3>4 DEF OutputStands
  <2>7. ASSUME NEW o \in OpenPublications'
        PROVE  Accepted(o)'
    <3>1. Accepted(o) /\ task'[o] = task[o] /\ task[o].upload \in Uploads
      BY <1>4, <2>1
    <3>2. task[o].upload # t.upload
      BY <1>1, <1>4 DEF LocksHold
    <3>3. QED
      BY <1>5, <1>6, <3>1, <3>2 DEF Accepted
  <2>8. QED
    BY <2>4, <2>5, <2>6, <2>7
<1>19. PublishedLinesAreSound'
  BY <1>16, <1>17, <1>18 DEF PublishedLinesAreSound
<1>20. QED
  BY <1>9, <1>11, <1>12, <1>13, <1>14, <1>15, <1>18, <1>19

-----------------------------------------------------------------------------
LEMMA ImportInvStep == ImportInv /\ [ImportNext]_importVars => ImportInv'
<1> SUFFICES ASSUME ImportInv, [ImportNext]_importVars
             PROVE  ImportInv'
  OBVIOUS
<1>1. ASSUME NEW u \in Uploads, NEW d \in Datasets, NEW rows \in Sheets, NEW m \in Mappings,
             NEW v \in 1..dataset[d].version, CreateImportRun(u, d, rows, v, m)
      PROVE  ImportInv'
  BY <1>1, CreateImportRunKeeps
<1>2. ASSUME NEW u \in Uploads, NEW m \in Mappings, NEW v \in 1..MaxMapping,
             SaveImportMapping(u, m, v)
      PROVE  ImportInv'
  BY <1>2, SaveImportMappingKeeps
<1>3. ASSUME NEW u \in Uploads, NEW rows \in SUBSET upload[u].rows,
             NEW v \in {"accept", "exclude"}, SetImportDecisions(u, rows, v)
      PROVE  ImportInv'
  BY <1>3, SetImportDecisionsKeeps
<1>4. ASSUME NEW q \in Requesters, NEW u \in Uploads, NEW m \in Mappings,
             NEW v \in 1..MaxMapping, OpenPublication(q, u, m, v)
      PROVE  ImportInv'
  BY <1>4, OpenPublicationKeeps
<1>5. ASSUME NEW q \in Requesters, CommitPublication(q) \/ AbandonPublication(q)
      PROVE  ImportInv'
  BY <1>5, CommitPublicationKeeps, AbandonPublicationKeeps
<1>6. CASE UNCHANGED importVars
  <2> USE <1>6 DEF importVars, ImportInv
  <2>1. OpenPublications' = OpenPublications
    BY DEF OpenPublications
  <2>2. ImportTypeOK' /\ ImportShape' /\ LocksHold'
    BY <2>1 DEF ImportTypeOK, ImportShape, LocksHold, Begun
  <2>3. \A q \in OpenPublications : /\ Grounds(q)' /\ (~crossed => Opens(q)')
                                    /\ (~edited => Accepted(q)')
    BY DEF Grounds, Opens, Lines, CurrentEdges, Accepted
  <2>4. OutputHasARun' /\ (~edited => OutputStands') /\ PublishedLinesAreSound'
    BY DEF OutputHasARun, OutputStands, PublishedLinesAreSound, NoCircle, OneMapping
  <2>5. QED
    BY <2>1, <2>2, <2>3, <2>4
<1>7. QED
  BY <1>1, <1>2, <1>3, <1>4, <1>5, <1>6 DEF ImportNext

(* Going up the reporting lines ends with people who exist, no row is published *)
(* twice and no run under two mappings, for any number of people, files and     *)
(* publications at once: up to what publications of two datasets, or changes    *)
(* read before a publication and written after, may do (service.ts:285, 349).   *)
THEOREM LinesAreSound == ImportSpec => []PublishedLinesAreSound
<1>1. ImportInv => PublishedLinesAreSound
  BY DEF ImportInv
<1>2. QED
  BY <1>1, ImportInvInit, ImportInvStep, PTL DEF ImportSpec

-----------------------------------------------------------------------------
(* The components in one system, and the shape of all their rows.  Time      *)
(* entries, time off and publishing need bounds beside what their proofs     *)
(* above carry.                                                              *)

(* Only clocked time is active, and it began before now: whatever clocks out,
   the range does not end before it begins. *)
RowBounded(x) ==
  /\ x.in \in 0..MaxTime /\ x.out \in 0..MaxTime /\ x.in <= x.out
  /\ x.createdAt \in 0..MaxTime
  /\ x.source = "clock" => x.in <= now
  /\ x.status = "active" => x.source = "clock"

TimeBounds ==
  /\ now \in 0..MaxTime
  /\ \A e \in Entries : RowBounded(entry[e])
  /\ \A p \in Punches : punch[p].kind = "clock-out" =>
       entry[punch[p].entry].status # "none" /\ entry[punch[p].entry].source = "clock"

LEMMA TimeBoundsInit == TimeInit => TimeBounds
<1> SUFFICES ASSUME TimeInit
             PROVE  TimeBounds
  OBVIOUS
<1>1. \A e \in Entries : entry[e] = NoEntry
  BY DEF TimeInit
<1>2. \A p \in Punches : punch[p] = NoPunch
  BY DEF TimeInit
<1>3. now = 0 /\ 0 \in 0..MaxTime
  BY MaxTimeAssumption DEF TimeInit
<1>4. QED
  BY <1>1, <1>2, <1>3 DEF TimeBounds, RowBounded, NoEntry, NoPunch

(* The rows after one changed; what was clocked in stays so. *)
LEMMA BoundedRows ==
  ASSUME TimeShape, TimeBounds, NEW e \in Entries, now' = now,
         \A f \in Entries \ {e} : entry'[f] = entry[f],
         RowBounded(entry'[e]),
         entry[e].status # "none" => entry'[e].status # "none" /\ entry'[e].source = entry[e].source,
         \A p \in Punches : punch'[p].kind = "clock-out" => punch'[p] = punch[p]
  PROVE  TimeBounds'
<1>1. ASSUME NEW f \in Entries
      PROVE  RowBounded(entry[f])'
  BY DEF TimeBounds, RowBounded
<1>2. ASSUME NEW p \in Punches, punch'[p].kind = "clock-out"
      PROVE  entry'[punch'[p].entry].status # "none" /\ entry'[punch'[p].entry].source = "clock"
  <2>1. /\ punch'[p] = punch[p] /\ punch[p].entry \in Entries
        /\ entry[punch[p].entry].status # "none" /\ entry[punch[p].entry].source = "clock"
    BY <1>2 DEF TimeBounds, TimeShape, PunchShape
  <2>2. QED
    BY <2>1
<1>3. QED
  BY <1>1, <1>2 DEF TimeBounds

LEMMA InsertBounded ==
  ASSUME TimeShape, TimeBounds, NEW e \in Entries, now' = now,
         \/ \E h \in Halls : InsertEntry(e, "active", "clock", h, now, now)
         \/ \E h \in Halls, r \in ManualRanges, status \in {"completed", "submitted"} :
              InsertEntry(e, status, "range", h, r.in, r.out),
         \A p \in Punches : punch'[p].kind = "clock-out" => punch'[p] = punch[p]
  PROVE  TimeBounds'
<1>1. entry \in [Entries -> EntryRows] /\ entry[e].status = "none" /\ now \in 0..MaxTime
  BY DEF InsertEntry, TimeShape, TimeBounds
<1>2. ASSUME NEW h \in Halls, InsertEntry(e, "active", "clock", h, now, now)
      PROVE  TimeBounds'
  <2>1. entry'[e] = [status |-> "active", source |-> "clock", local |-> h,
                     in |-> now, out |-> now, createdAt |-> now]
          /\ \A f \in Entries \ {e} : entry'[f] = entry[f]
    BY <1>1, <1>2 DEF InsertEntry
  <2>2. RowBounded(entry'[e])
    BY <1>1, <2>1, MaxTimeAssumption DEF RowBounded
  <2>3. QED
    BY <1>1, <2>1, <2>2, BoundedRows
<1>3. ASSUME NEW h \in Halls, NEW r \in ManualRanges,
             NEW status \in {"completed", "submitted"},
             InsertEntry(e, status, "range", h, r.in, r.out)
      PROVE  TimeBounds'
  <2>1. entry'[e] = [status |-> status, source |-> "range", local |-> h,
                     in |-> r.in, out |-> r.out, createdAt |-> now]
          /\ \A f \in Entries \ {e} : entry'[f] = entry[f]
    BY <1>1, <1>3 DEF InsertEntry
  <2>2. r.in \in 0..MaxTime /\ r.out \in 0..MaxTime /\ r.in <= r.out
    BY MaxTimeAssumption DEF ManualRanges
  <2>3. RowBounded(entry'[e])
    BY <1>1, <2>1, <2>2 DEF RowBounded
  <2>4. QED
    BY <1>1, <2>1, <2>3, BoundedRows
<1>4. QED
  BY <1>2, <1>3

LEMMA CloseBounded ==
  ASSUME TimeShape, TimeBounds, NEW e \in Entries, now' = now,
         entry[e].status # "none", entry[e].source = "clock", entry' = ClosedEntry(e),
         \A p \in Punches : punch'[p].kind = "clock-out" => punch'[p] = punch[p]
  PROVE  TimeBounds'
<1>1. entry \in [Entries -> EntryRows] /\ entry[e] \in EntryRows /\ now \in 0..MaxTime
  BY DEF TimeShape, TimeBounds
<1>2. entry' = [entry EXCEPT ![e] = [entry[e] EXCEPT !.status = "completed", !.out = now]]
  BY <1>1 DEF ClosedEntry
<1>3. /\ entry'[e] = [entry[e] EXCEPT !.status = "completed", !.out = now]
      /\ \A f \in Entries \ {e} : entry'[f] = entry[f]
  BY <1>1, <1>2
<1>4. /\ entry'[e].status = "completed" /\ entry'[e].out = now
      /\ entry'[e].in = entry[e].in /\ entry'[e].source = entry[e].source
      /\ entry'[e].createdAt = entry[e].createdAt
  BY <1>1, <1>3 DEF EntryRows
<1>5. RowBounded(entry'[e])
  BY <1>1, <1>4 DEF RowBounded, TimeBounds
<1>6. QED
  BY <1>3, <1>4, <1>5, BoundedRows

LEMMA ReviewBounded ==
  ASSUME TimeShape, TimeBounds, NEW p \in Punches, ReviewWrite(p)
  PROVE  TimeBounds'
<1> DEFINE e == punch[p].entry
           status == punch[p].status
<1>1. /\ e \in Entries /\ status \in {"submitted", "approved", "rejected"}
      /\ entry \in [Entries -> EntryRows] /\ entry[e] \in EntryRows
  BY DEF ReviewWrite, TimeShape, PunchShape
<1>2. entry' = [entry EXCEPT ![e] = [entry[e] EXCEPT !.status = status]]
  BY <1>1 DEF ReviewWrite
<1>3. /\ entry'[e] = [entry[e] EXCEPT !.status = status]
      /\ \A f \in Entries \ {e} : entry'[f] = entry[f]
  BY <1>1, <1>2
<1>4. /\ entry'[e].status = status /\ entry'[e].out = entry[e].out
      /\ entry'[e].in = entry[e].in /\ entry'[e].source = entry[e].source
      /\ entry'[e].createdAt = entry[e].createdAt
  BY <1>1, <1>3 DEF EntryRows
<1>5. /\ now' = now
      /\ \A q \in Punches : punch'[q].kind = "clock-out" => punch'[q] = punch[q]
  BY DEF ReviewWrite, EndPunch, TimeShape, NoPunch
<1> HIDE DEF e, status
<1>6. RowBounded(entry'[e])
  BY <1>1, <1>4 DEF RowBounded, TimeBounds
<1>7. QED
  BY <1>1, <1>3, <1>4, <1>5, <1>6, BoundedRows

LEMMA TimeBoundsStep == TimeShape /\ TimeBounds /\ [TimeNext]_timeVars => TimeBounds'
<1> SUFFICES ASSUME TimeShape, TimeBounds, [TimeNext]_timeVars
             PROVE  TimeBounds'
  OBVIOUS
<1>1. ASSUME NEW p \in Punches, NEW m, StartPunch(p, m),
             m.kind = "clock-out" => entry[m.entry].status # "none" /\ entry[m.entry].source = "clock"
      PROVE  TimeBounds'
  <2>1. punch'[p] = m /\ \A q \in Punches \ {p} : punch'[q] = punch[q]
    BY <1>1 DEF StartPunch, TimeShape
  <2>2. UNCHANGED <<now, entry>>
    BY <1>1 DEF StartPunch
  <2>3. QED
    BY <1>1, <2>1, <2>2 DEF TimeBounds, RowBounded
<1>2. ASSUME NEW p \in Punches, ClockInRead(p)
      PROVE  TimeBounds'
  BY <1>1, <1>2 DEF ClockInRead
<1>3. ASSUME NEW p \in Punches, NEW e \in Entries, ClockOutRead(p, e)
      PROVE  TimeBounds'
  <2>1. entry[e].status = "active" /\ entry[e].source = "clock"
    BY <1>3 DEF ClockOutRead, TimeBounds, RowBounded
  <2>2. QED
    BY <1>1, <1>3, <2>1 DEF ClockOutRead
<1>4. ASSUME NEW p \in Punches, NEW h \in Halls, NEW r \in ManualRanges, NEW s,
             RangeRead(p, h, r, s)
      PROVE  TimeBounds'
  BY <1>1, <1>4 DEF RangeRead
<1>5. ASSUME NEW p \in Punches, NEW e \in Entries, NEW next, ReviewRead(p, e, next)
      PROVE  TimeBounds'
  BY <1>1, <1>5 DEF ReviewRead
<1>6. ASSUME NEW p \in Punches, EndPunch(p)
      PROVE  /\ now' = now
             /\ \A q \in Punches : punch'[q].kind = "clock-out" => punch'[q] = punch[q]
  BY <1>6 DEF EndPunch, TimeShape, NoPunch
<1>7. ASSUME NEW p \in Punches, NEW e \in Entries, NEW h \in Halls, ClockInInsert(p, e, h)
      PROVE  TimeBounds'
  BY <1>6, <1>7, InsertBounded DEF ClockInInsert
<1>8. ASSUME NEW p \in Punches, NEW e \in Entries, RangeInsert(p, e)
      PROVE  TimeBounds'
  <2>1. /\ punch[p].local \in Halls /\ punch[p].range \in ManualRanges
        /\ punch[p].status \in {"completed", "submitted"}
    BY <1>8 DEF RangeInsert, TimeShape, PunchShape
  <2>2. QED
    BY <1>6, <1>8, <2>1, InsertBounded DEF RangeInsert
<1>9. ASSUME NEW p \in Punches, ClockOutWrite(p)
      PROVE  TimeBounds'
  <2>1. /\ punch[p].entry \in Entries /\ entry[punch[p].entry].status # "none"
        /\ entry[punch[p].entry].source = "clock"
    BY <1>9 DEF ClockOutWrite, TimeShape, PunchShape, TimeBounds
  <2>2. QED
    BY <1>6, <1>9, <2>1, CloseBounded DEF ClockOutWrite
<1>10. ASSUME NEW p \in Punches, DropPunch(p)
       PROVE  TimeBounds'
  <2>1. EndPunch(p) /\ entry' = entry
    BY <1>10 DEF DropPunch
  <2>2. QED
    BY <1>6, <2>1 DEF TimeBounds, RowBounded
<1>11. ASSUME NEW e \in Entries,
              \/ ClockOutMemory(e)
              \/ \E h \in Halls : ClockInMemory(e, h)
              \/ \E h \in Halls, r \in ManualRanges, s \in {"completed", "submitted"} :
                   RangeMemory(e, h, r, s)
       PROVE  TimeBounds'
  <2>1. MemoryStep
    BY <1>11 DEF ClockInMemory, ClockOutMemory, RangeMemory
  <2>2. now' = now /\ \A p \in Punches : punch'[p] = punch[p]
    BY <2>1 DEF MemoryStep
  <2>3. CASE ClockOutMemory(e)
    <3>1. entry[e].status # "none" /\ entry[e].source = "clock" /\ entry' = ClosedEntry(e)
      BY <2>3 DEF ClockOutMemory, TimeBounds, RowBounded
    <3>2. QED
      BY <2>2, <3>1, CloseBounded
  <2>4. QED
    BY <1>11, <2>2, <2>3, InsertBounded DEF ClockInMemory, RangeMemory
<1>12. CASE TimePasses
  <2>1. now' = now + 1 /\ now < MaxTime /\ UNCHANGED <<entry, punch>> /\ now \in Nat
    BY <1>12 DEF TimePasses, TimeShape
  <2>2. now' \in 0..MaxTime
    BY <2>1, MaxTimeAssumption
  <2>3. ASSUME NEW e \in Entries
        PROVE  RowBounded(entry[e])'
    BY <2>1, MaxTimeAssumption DEF TimeBounds, RowBounded
  <2>4. QED
    BY <2>1, <2>2, <2>3 DEF TimeBounds
<1>13. CASE UNCHANGED timeVars
  BY <1>13 DEF timeVars, TimeBounds, RowBounded
<1>14. QED
  BY <1>2, <1>3, <1>4, <1>5, <1>7, <1>8, <1>9, <1>10, <1>11, <1>12, <1>13, ReviewBounded
     DEF TimeNext

LEMMA TimeTypes == TimeSpec => []TimeTypeOK
<1>1. TimeInv => TimeShape
  BY DEF TimeInv
<1>2. TimeShape /\ TimeBounds => TimeTypeOK
  <2> SUFFICES ASSUME TimeShape, TimeBounds
               PROVE  TimeTypeOK
    OBVIOUS
  <2> DEFINE Rows0 == [status : {"none", "active", "completed", "submitted", "approved", "rejected"},
                       source : {"none", "clock", "range"}, local : Halls \cup {"none"},
                       in : 0..MaxTime, out : 0..MaxTime, createdAt : 0..MaxTime]
  <2>1. ASSUME NEW e \in Entries
        PROVE  entry[e] \in Rows0 /\ entry[e].in <= entry[e].out
    <3>1. entry[e] \in EntryRows /\ entry[e].in \in 0..MaxTime /\ entry[e].out \in 0..MaxTime
            /\ entry[e].in <= entry[e].out /\ entry[e].createdAt \in 0..MaxTime
      BY DEF TimeShape, TimeBounds, RowBounded
    <3>2. QED
      BY <3>1 DEF EntryRows, Statuses
  <2>2. entry \in [Entries -> Rows0]
    BY <2>1 DEF TimeShape
  <2>3. QED
    BY <2>1, <2>2 DEF TimeTypeOK, TimeShape, TimeBounds, LiveEntries
<1>3. QED
  BY <1>1, <1>2, TimeInvHolds, TimeBoundsInit, TimeBoundsStep, PTL DEF TimeSpec

(* The hours a request asks for, and the credits counted. *)
OffBounds ==
  /\ \A r \in Requests : request[r].hours \in Hours \cup {0}
  /\ credits \in 0..MaxCredits

LEMMA OffBoundsStep == OffShape /\ OffBounds /\ [OffNext]_offVars => OffBounds'
<1> SUFFICES ASSUME OffShape, OffBounds, [OffNext]_offVars
             PROVE  OffBounds'
  OBVIOUS
<1>1. request \in [Requests -> OffRows]
  BY DEF OffShape
<1>2. ASSUME NEW r \in Requests, NEW a \in Accounts, NEW h \in Hours \union {0},
             NEW s \in {"draft", "submitted"}, CreateRequest(r, a, h, s)
      PROVE  OffBounds'
  BY <1>1, <1>2 DEF CreateRequest, OffBounds
<1>3. ASSUME NEW c \in Clerks, StatusWritten(c)
      PROVE  OffBounds'
  <2> DEFINE r == clerk[c].request
             next == clerk[c].next
  <2>1. /\ r \in Requests /\ credits' = credits
        /\ request' = [request EXCEPT ![r].status = next]
    BY <1>3 DEF StatusWritten, OffShape, ClerkShape
  <2>2. request' = [request EXCEPT ![r] = [request[r] EXCEPT !.status = next]]
    BY <1>1, <2>1
  <2>3. [request[r] EXCEPT !.status = next].hours = request[r].hours
    BY <1>1, <2>1 DEF OffRows
  <2>4. \A q \in Requests : request'[q].hours = request[q].hours
    BY <1>1, <2>1, <2>2, <2>3
  <2>5. QED
    BY <2>1, <2>4 DEF OffBounds
<1>4. ASSUME NEW c \in Clerks, NEW a \in Accounts, NEW h \in Hours, NEW mode,
             Credit(c, a, h, mode)
      PROVE  OffBounds'
  <2>1. credits' = credits + 1 /\ credits < MaxCredits /\ request' = request
    BY <1>4 DEF Credit
  <2>2. QED
    BY <2>1, HoursAssumption DEF OffBounds
<1>5. ASSUME NEW c \in Clerks,
             \/ \E r \in Requests, next \in {"submitted", "approved", "rejected", "cancelled"} :
                  RouteReads(c, r, next)
             \/ StoreReads(c) \/ BalanceRead(c) \/ BalanceWritten(c) \/ ClerkDies(c)
      PROVE  OffBounds'
  <2>1. UNCHANGED <<request, credits>>
    BY <1>5 DEF RouteReads, StoreReads, BalanceRead, BalanceWritten, ClerkDies
  <2>2. QED
    BY <2>1 DEF OffBounds
<1>6. CASE UNCHANGED offVars
  BY <1>6 DEF offVars, OffBounds
<1>7. QED
  BY <1>2, <1>3, <1>4, <1>5, <1>6 DEF OffNext

LEMMA OffTypes == OffSpec => []OffTypeOK
<1>1. OffInit => OffBounds
  BY HoursAssumption DEF OffInit, OffBounds
<1>2. OffInv => OffShape
  BY DEF OffInv
<1>3. OffShape /\ OffBounds => OffTypeOK
  <2> SUFFICES ASSUME OffShape, OffBounds
               PROVE  OffTypeOK
    OBVIOUS
  <2>1. \A r \in Requests : request[r].status \in {"none", "draft", "submitted", "approved",
                                                   "rejected", "cancelled"}
    BY DEF OffShape, OffRows
  <2>2. QED
    BY <2>1 DEF OffTypeOK, OffShape, OffBounds
<1>4. QED
  BY <1>1, <1>2, <1>3, OffInvInit, OffInvStep, OffBoundsStep, PTL DEF OffSpec

(* How far the versions of drafts and policies count, and what an operation says. *)
PublishedOperations ==
  [actor : Editors, key : OpKeys, request : PublishRequests, release : Nat]

PubBounds ==
  /\ draft.lock <= MaxLock
  /\ policy.version \in 1..MaxPolicy
  /\ operations \subseteq PublishedOperations
  /\ author \in Editors \cup {NoEditor}
  /\ reviewedEver \subseteq Layers

LEMMA PubBoundsStep == PubInv /\ PubBounds /\ [PubNext]_pubVars => PubBounds'
<1> SUFFICES ASSUME PubInv, PubBounds, [PubNext]_pubVars
             PROVE  PubBounds'
  OBVIOUS
<1>1. /\ draft.lock \in Nat /\ policy.version \in 1..MaxPolicy /\ generation \in Nat
      /\ Active + 1 \in Nat
      /\ \A e \in Editors : screen[e].generation \in Nat /\ screen[e].lock \in Nat
                              /\ screen[e].payload \in Layers \cup {NoText}
  BY DEF PubInv, PubShape, PubBounds, OperationInv, Drafts, Screens, Active
<1>2. ASSUME NEW e \in Editors, NEW key \in OpKeys, NEW req \in PublishRequests, NEW layer,
             WriteRelease(e, key, req, layer)
      PROVE  operations' \subseteq PublishedOperations
  <2>1. [actor |-> e, key |-> key, request |-> req, release |-> Active + 1] \in PublishedOperations
    BY <1>1 DEF PublishedOperations
  <2>2. QED
    BY <1>2, <2>1 DEF WriteRelease, PubBounds
<1>3. ASSUME NEW lock \in 0..MaxLock + 1, NEW n \in Nat, NEW h \in BOOLEAN
      PROVE  [lock |-> lock, generation |-> n, historical |-> h] \in PublishRequests
  BY DEF PublishRequests
<1>4. ASSUME NEW e \in Editors, NEW text \in (Texts \cup {screen[e].payload}) \ {NoText},
             NEW reviewed \in BOOLEAN, SaveDraft(e, text, reviewed)
      PROVE  PubBounds'
  <2>1. /\ draft'.lock = draft.lock + 1
        /\ draft.lock = 0 \/ draft.lock < MaxLock
        /\ author' = e /\ UNCHANGED <<policy, operations>>
        /\ reviewedEver' = IF reviewed THEN reviewedEver \cup {text} ELSE reviewedEver
    BY <1>4 DEF SaveDraft, DraftAsSeen
  <2>2. text \in Layers
    BY <1>1 DEF Layers
  <2>3. draft'.lock <= MaxLock
    BY <1>1, <2>1, PublishingAssumption
  <2>4. reviewedEver' \subseteq Layers
    BY <2>1, <2>2 DEF PubBounds
  <2>5. QED
    BY <2>1, <2>3, <2>4 DEF PubBounds
<1>5. ASSUME NEW e \in Editors, InheritAgain(e)
      PROVE  PubBounds'
  <2>1. /\ draft'.lock = draft.lock + 1 /\ draft.lock < MaxLock
        /\ author' = e /\ UNCHANGED <<policy, operations, reviewedEver>>
    BY <1>5 DEF InheritAgain, DraftAsSeen, PubInv, PubShape, Drafts
  <2>2. draft'.lock <= MaxLock
    BY <1>1, <2>1, PublishingAssumption
  <2>3. QED
    BY <2>1, <2>2 DEF PubBounds
<1>6. ASSUME NEW e \in Editors, NEW key \in OpKeys, Publish(e, key)
      PROVE  PubBounds'
  <2> DEFINE req == [lock |-> screen[e].lock, generation |-> screen[e].generation,
                     historical |-> FALSE]
  <2>1. /\ draft.lock = screen[e].lock /\ WriteRelease(e, key, req, draft.payload)
        /\ author' = e /\ UNCHANGED <<draft, policy, reviewedEver>>
    BY <1>6 DEF Publish, HasDraft
  <2>2. screen[e].lock \in 0..MaxLock + 1
    BY <1>1, <2>1, PublishingAssumption DEF PubBounds
  <2>3. req \in PublishRequests
    BY <1>1, <1>3, <2>2
  <2> HIDE DEF req
  <2>4. operations' \subseteq PublishedOperations
    BY <1>2, <2>1, <2>3
  <2>5. QED
    BY <2>1, <2>4 DEF PubBounds
<1>7. ASSUME NEW e \in Editors, NEW key \in OpKeys, NEW number \in 1..Len(releases),
             Rollback(e, key, number)
      PROVE  PubBounds'
  <2> DEFINE req == [lock |-> draft.lock + 1, generation |-> screen[e].generation,
                     historical |-> TRUE]
             layer == releases[number].payload
  <2>1. /\ draft.lock < MaxLock /\ draft'.lock = draft.lock + 1
        /\ author' = e /\ UNCHANGED <<policy, reviewedEver>>
        /\ WriteRelease(e, key, req, layer) \/ operations' = operations
    BY <1>7 DEF Rollback
  <2>2. draft.lock + 1 \in 0..MaxLock + 1 /\ draft'.lock <= MaxLock
    BY <1>1, <2>1, PublishingAssumption
  <2>3. req \in PublishRequests
    BY <1>1, <1>3, <2>2
  <2> HIDE DEF req, layer
  <2>4. operations' \subseteq PublishedOperations
    BY <1>2, <2>1, <2>3 DEF PubBounds
  <2>5. QED
    BY <2>1, <2>2, <2>4 DEF PubBounds
<1>8. ASSUME NEW e \in Editors, NEW withdrawn \in BOOLEAN, SetPolicy(e, withdrawn)
      PROVE  PubBounds'
  <2>1. /\ policy'.version = policy.version + 1 /\ policy.version < MaxPolicy
        /\ author' = e /\ UNCHANGED <<draft, operations, reviewedEver>>
    BY <1>8 DEF SetPolicy
  <2>2. policy'.version \in 1..MaxPolicy
    BY <1>1, <2>1, PublishingAssumption
  <2>3. QED
    BY <2>1, <2>2 DEF PubBounds
<1>9. ASSUME NEW e \in Editors, LoadScreen(e) \/ \E key \in OpKeys : ReplayPublish(e, key)
      PROVE  PubBounds'
  <2>1. author' = e /\ UNCHANGED <<draft, policy, operations, reviewedEver>>
    BY <1>9 DEF LoadScreen, ReplayPublish
  <2>2. QED
    BY <2>1 DEF PubBounds
<1>10. CASE UNCHANGED pubVars
  BY <1>10 DEF pubVars, PubBounds
<1>11. QED
  BY <1>4, <1>5, <1>6, <1>7, <1>8, <1>9, <1>10 DEF PubNext

LEMMA PubTypes == PubSpec => []PubTypeOK
<1>1. PubInit => PubBounds
  BY PublishingAssumption DEF PubInit, PubBounds
<1>2. PubInv /\ PubBounds => PubTypeOK
  <2> SUFFICES ASSUME PubInv, PubBounds
               PROVE  PubTypeOK
    OBVIOUS
  <2>1. draft \in [lock : 0..MaxLock, payload : Layers \cup {NoText},
                   reviews : Layers \cup {NoText}]
    <3>1. draft \in Drafts /\ draft.lock \in 0..MaxLock
      BY PublishingAssumption DEF PubInv, PubShape, PubBounds, Drafts
    <3>2. QED
      BY <3>1 DEF Drafts
  <2>2. policy \in [withdrawn : BOOLEAN, version : 1..MaxPolicy]
    BY DEF PubInv, PubShape, PubBounds, Policies
  <2>3. releases \in Seq([payload : Layers, replaces : Nat, historical : BOOLEAN])
          /\ generation \in Nat
    BY DEF PubInv, PubShape, OperationInv, Releases
  <2>4. QED
    BY <2>1, <2>2, <2>3 DEF PubTypeOK, PubInv, PubShape, PubBounds, Screens, PublishedOperations
<1>3. QED
  BY <1>1, <1>2, PubInvInit, PubInvStep, PubBoundsStep, PTL DEF PubSpec

(* Whatever the scene, each component behaves as its own specification says. *)
LEMMA WorkPartsBehave ==
  WorkSpec => /\ TimeSpec /\ OffSpec /\ SeriesSpec /\ OtSpec /\ PubSpec /\ BootSpec
              /\ ImportSpec /\ CaseSpec /\ CheckinSpec
<1>1. WorkInit => /\ TimeInit /\ OffInit /\ SeriesInit /\ OtInit /\ PubInit /\ BootInit
                  /\ ImportInit /\ CaseInit /\ CheckinInit
  BY DEF WorkInit
<1>2. [WorkNext]_WorkVars =>
        /\ [TimeNext]_timeVars /\ [OffNext]_offVars /\ [SeriesNext]_seriesVars
        /\ [OtNext]_otVars /\ [PubNext]_pubVars /\ [BootNext]_bootVars
        /\ [ImportNext]_importVars /\ [CaseNext]_caseVars /\ [CheckinNext]_checkinVars
  BY DEF WorkNext, WorkVars
<1>3. QED
  BY <1>1, <1>2, PTL DEF WorkSpec, TimeSpec, OffSpec, SeriesSpec, OtSpec, PubSpec, BootSpec,
     ImportSpec, CaseSpec, CheckinSpec

(* Every row of work, publishing and operations keeps its shape, and no range of *)
(* worked time ends before it begins, however requests interleave and whether    *)
(* they look again before they write (drizzle-adapter.ts clockOut,               *)
(* assertValidRange).                                                            *)
THEOREM WorkTypes == WorkSpec => []WorkTypeOK
<1>1. SeriesInv => SeriesTypeOK
  BY DEF SeriesInv
<1>2. OtInv => OtTypeOK
  BY DEF OtInv
<1>3. BootInv => BootTypeOK
  BY DEF BootInv
<1>4. ImportInv => ImportTypeOK
  BY DEF ImportInv
<1>5. CaseInv => CaseTypeOK
  BY DEF CaseInv
<1>6. CheckinInv => CheckinTypeOK
  BY DEF CheckinInv
<1>7. SeriesSpec => []SeriesInv
  BY SeriesInvInit, SeriesInvStep, PTL DEF SeriesSpec
<1>8. OtSpec => []OtInv
  BY OtInvInit, OtInvStep, PTL DEF OtSpec
<1>9. BootSpec => []BootInv
  BY BootInvInit, BootInvStep, PTL DEF BootSpec
<1>10. ImportSpec => []ImportInv
  BY ImportInvInit, ImportInvStep, PTL DEF ImportSpec
<1>11. CaseSpec => []CaseInv
  BY CaseInvInit, CaseInvStep, PTL DEF CaseSpec
<1>12. CheckinSpec => []CheckinInv
  BY CheckinInvInit, CheckinInvStep, PTL DEF CheckinSpec
<1>13. QED
  BY <1>1, <1>2, <1>3, <1>4, <1>5, <1>6, <1>7, <1>8, <1>9, <1>10, <1>11, <1>12,
     WorkPartsBehave, TimeTypes, OffTypes, PubTypes, PTL DEF WorkTypeOK

=============================================================================
