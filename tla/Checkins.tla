------------------------------ MODULE Checkins ------------------------------
(***************************************************************************)
(* One check-in schedule of a local: its edits, the answers of the people  *)
(* it asks, and the runs of the cron that nudges who has not answered      *)
(* (lib/checkins, api/checkins, api/cron/checkin-nudges), in PostgreSQL and*)
(* for a role its row policies do not bind: the routes name no tenant.     *)
(*                                                                         *)
(* Every query is a transaction.  An edit reads the schedule in the route, *)
(* reads it again in the store and writes it.  A run works out the period  *)
(* once, asks about each person, and then claims and mails one after the   *)
(* other; what it claimed is not taken back.  Who is asked does not change,*)
(* and the module is switched on.                                          *)
(***************************************************************************)
EXTENDS Integers, FiniteSets

CONSTANTS
  Members,      \* who may answer
  FirstDow,     \* day of the week of day 0; Sunday is 0
  MaxToday,     \* bound on days
  Targets,      \* weekdays a weekly schedule may name
  NoDay,        \* no weekday
  Changes,      \* what an edit may send: a field is {value}, or {} if left out
  Edits,        \* requests to edit under way
  MaxEdits,     \* bound on edits
  NudgeRuns,    \* runs of the cron under way
  MaxBusy       \* bound on edits and runs under way together

ASSUME CheckinAssumption ==
  /\ Changes \subseteq [cadence : SUBSET {"daily", "weekdays", "weekly"},
                        weekday : SUBSET (Targets \cup {NoDay}),
                        active : SUBSET BOOLEAN]
  /\ FirstDow \in 0..6 /\ Targets \subseteq 0..6 /\ NoDay \notin Targets
  /\ MaxToday \in Nat /\ MaxEdits \in Nat /\ MaxBusy \in Nat

VARIABLES
  today,
  schedule,   \* the row of checkin_schedules
  edit,       \* [Edits]: what is asked for, and what has been read
  begun,     \* bound on edits
  answers,    \* checkin_answers: <<period, person>>
  claims,     \* checkin_nudge_sends
  nudge,      \* [NudgeRuns]: a run, with the answers there were when it began
  nudged,     \* history: whom a mail has reached, by period
  unfit,      \* history: a mail was a second one, or went to somebody who had
              \* answered before its run began
  tangled     \* history: two edits were under way together

checkinVars == <<today, schedule, edit, begun, answers, claims, nudge,
                 nudged, unfit, tangled>>

Cadences == {"daily", "weekdays", "weekly"}
NoPeriod == -7
Periods == -6..MaxToday
NoEdit == [stage |-> "none"]
NoNudge == [stage |-> "none"]

Dow(day) == (day + FirstDow) % 7

\* currentPeriodForCadence: the day itself, or the last day of the weekday
\* named, Monday if none is.  A period is named by its first day.
PeriodOf(s, day) ==
  CASE s.cadence = "daily" -> day
    [] s.cadence = "weekdays" -> IF Dow(day) \in {0, 6} THEN NoPeriod ELSE day
    [] OTHER -> CHOOSE k \in (day - 6)..day :
                  Dow(k) = IF s.weekday = NoDay THEN 1 ELSE s.weekday

\* Bounds: nothing begins beside so much, nor after edits overlapped.
Room ==
  /\ ~tangled
  /\ Cardinality({e \in Edits : edit[e] # NoEdit})
       + Cardinality({r \in NudgeRuns : nudge[r] # NoNudge}) < MaxBusy

CheckinInit ==
  /\ today = 0
  /\ \E c \in Cadences, w \in Targets :
       schedule = [cadence |-> c, weekday |-> IF c = "weekly" THEN w ELSE NoDay, active |-> TRUE]
  /\ edit = [e \in Edits |-> NoEdit] /\ begun = 0
  /\ answers = {} /\ claims = {}
  /\ nudge = [r \in NudgeRuns |-> NoNudge]
  /\ nudged = {} /\ unfit = FALSE /\ tangled = FALSE

NextDay ==
  /\ today < MaxToday
  /\ today' = today + 1
  /\ UNCHANGED <<schedule, edit, begun, answers, claims, nudge, nudged, unfit, tangled>>

-----------------------------------------------------------------------------
(* Edits. *)

Over(sent, old) == IF sent = {} THEN old ELSE CHOOSE v \in sent : TRUE

\* The route: a weekly schedule must come out with a weekday.
EditRead(e, want) ==
  /\ edit[e] = NoEdit /\ begun < MaxEdits /\ Room
  /\ \/ Over(want.cadence, schedule.cadence) # "weekly"
     \/ Over(want.weekday, schedule.weekday) # NoDay
  /\ edit' = [edit EXCEPT ![e] = [stage |-> "store", want |-> want]]
  /\ begun' = begun + 1
  /\ tangled' = (tangled \/ \E f \in Edits \ {e} : edit[f] # NoEdit)
  /\ UNCHANGED <<today, schedule, answers, claims, nudge, nudged, unfit>>

\* Mutant: a weekday is written as it was sent.
WeekdayAsSent(want, old) == Over(want.weekday, old.weekday)

\* The weekday is always written, from the schedule that was read.
WeekdayWritten(want, old) ==
  IF Over(want.cadence, old.cadence) # "weekly" THEN NoDay ELSE Over(want.weekday, old.weekday)

EditReadAgain(e) ==
  /\ edit[e].stage = "store"
  /\ edit' = [edit EXCEPT ![e] =
       [stage |-> "write",
        want |-> [edit[e].want EXCEPT !.weekday = {WeekdayWritten(edit[e].want, schedule)}]]]
  /\ UNCHANGED <<today, schedule, begun, answers, claims, nudge, nudged, unfit, tangled>>

EditWrite(e) ==
  LET want == edit[e].want IN
    /\ edit[e].stage = "write"
    /\ schedule' = [cadence |-> Over(want.cadence, schedule.cadence),
                    weekday |-> Over(want.weekday, schedule.weekday),
                    active |-> Over(want.active, schedule.active)]
    /\ edit' = [edit EXCEPT ![e] = NoEdit]
    /\ UNCHANGED <<today, begun, answers, claims, nudge, nudged, unfit, tangled>>

-----------------------------------------------------------------------------
(* Answers.  The store reads first, but it is the unique index that refuses a  *)
(* second one.  Midnight or an edit may pass between the check of the period   *)
(* and the insert; the answer is then to a period that is over, as if it had   *)
(* come before.                                                                *)

Answer(m) ==
  LET p == PeriodOf(schedule, today) IN
    /\ schedule.active /\ p # NoPeriod
    /\ <<p, m>> \notin answers
    /\ answers' = answers \cup {<<p, m>>}
    /\ UNCHANGED <<today, schedule, edit, begun, claims, nudge, nudged, unfit, tangled>>

-----------------------------------------------------------------------------
(* A run of the cron. *)

BeginNudges(r) ==
  LET p == PeriodOf(schedule, today) IN
    /\ nudge[r] = NoNudge /\ Room
    /\ schedule.active /\ p # NoPeriod
    /\ nudge' = [nudge EXCEPT ![r] =
         [stage |-> "list", period |-> p, left |-> Members, jobs |-> {},
          had |-> {m \in Members : <<p, m>> \in answers}]]
    /\ UNCHANGED <<today, schedule, edit, begun, answers, claims, nudged, unfit, tangled>>

\* getAnswer and hasCheckinNudgeBeenSent; a claim found is final, an answer too.
Consider(r, m) ==
  LET n == nudge[r]
      slot == <<n.period, m>> IN
    /\ n.stage = "list" /\ m \in n.left
    /\ nudge' = [nudge EXCEPT
         ![r].left = @ \ {m},
         ![r].jobs = IF slot \in answers \cup claims THEN @ ELSE @ \cup {m},
         ![r].stage = IF n.left = {m} THEN "send" ELSE @]
    /\ UNCHANGED <<today, schedule, edit, begun, answers, claims, nudged, unfit, tangled>>

\* Mutant: whoever was free when the run listed them is mailed.
FreeWhenListed(slot) == TRUE

\* claimCheckinNudgeSend: the insert that meets no earlier row.
Claims(slot) == slot \notin claims

\* The mail follows its claim and reads nothing more, so that both are one step;
\* it leaves, or fails or dies with the replica, and the claim stays.
ClaimAndMail(r, m, leaves) ==
  LET slot == <<nudge[r].period, m>>
      mailed == Claims(slot) /\ leaves IN
    /\ nudge[r].stage = "send" /\ m \in nudge[r].jobs
    /\ nudge' = [nudge EXCEPT ![r].jobs = @ \ {m}]
    /\ claims' = claims \cup {slot}
    /\ nudged' = IF mailed THEN nudged \cup {slot} ELSE nudged
    /\ unfit' = (unfit \/ (mailed /\ (slot \in nudged \/ m \in nudge[r].had)))
    /\ UNCHANGED <<today, schedule, edit, begun, answers, tangled>>

\* The run is through, or its replica dies.
EndNudges(r) ==
  /\ nudge[r] # NoNudge
  /\ nudge' = [nudge EXCEPT ![r] = NoNudge]
  /\ UNCHANGED <<today, schedule, edit, begun, answers, claims, nudged, unfit, tangled>>

CheckinNext ==
  \/ NextDay
  \/ \E e \in Edits :
       \/ EditReadAgain(e) \/ EditWrite(e)
       \/ \E want \in Changes : EditRead(e, want)
  \/ \E m \in Members : Answer(m)
  \/ \E r \in NudgeRuns :
       \/ BeginNudges(r) \/ EndNudges(r)
       \/ \E m \in Members :
            Consider(r, m) \/ \E leaves \in BOOLEAN : ClaimAndMail(r, m, leaves)

CheckinSpec == CheckinInit /\ [][CheckinNext]_checkinVars

-----------------------------------------------------------------------------
CheckinTypeOK ==
  /\ today \in 0..MaxToday
  /\ schedule \in [cadence : Cadences, weekday : Targets \cup {NoDay}, active : BOOLEAN]
  /\ answers \cup claims \cup nudged \subseteq Periods \X Members
  /\ begun \in 0..MaxEdits
  /\ {unfit, tangled} \subseteq BOOLEAN

(* "One nudge per (schedule, period, user)", and none to somebody who had       *)
(* answered before the run began, however runs overlap, die, or cross midnight  *)
(* or an edit; and the period is one the editor chose: a weekly schedule names  *)
(* its weekday unless edits overlapped (cron/checkin-nudges/route.ts:17,        *)
(* nudge-cron.ts, drizzle-adapter.ts:138).                                      *)
NudgesAreDue ==
  /\ ~unfit /\ nudged \subseteq claims
  /\ ~tangled => (schedule.cadence = "weekly" <=> schedule.weekday # NoDay)
=============================================================================
