----------------------------- MODULE ShiftSeries -----------------------------
(***************************************************************************)
(* A recurring shift and the shifts made from it, a window of days at a    *)
(* time.  An expansion computes the dates of its window and takes them one *)
(* by one: it looks for a shift of the series on that date, creates one,   *)
(* and only then marks it as the series' own.  Each is a transaction.      *)
(***************************************************************************)
EXTENDS Integers, FiniteSets, FiniteSetsExt

CONSTANTS Rules,      \* rules of recurrence; days count from the first
          Windows,    \* windows of days that are expanded
          Planners,   \* expansions in flight
          MaxDay,     \* bound: the last day
          MaxDeaths   \* bound: expansions that die

\* "anchor" is startsOn, "weekdays" {} when absent, "max" 0 when absent, "ends"
\* MaxDay when absent.
ASSUME RulesAssumption ==
  /\ MaxDay \in Nat /\ MaxDeaths \in Nat /\ IsFiniteSet(Planners)
  /\ Rules \subseteq [frequency : {"daily", "weekly", "biweekly"}, anchor : 0..MaxDay,
                      interval : Nat \ {0}, weekdays : SUBSET (0..6), ends : 0..MaxDay,
                      max : 0..MaxDay]

VARIABLES
  rule,       \* the series
  marked,     \* shifts of the series on each day
  unmarked,   \* shifts created and not (or not yet) marked, on each day
  planner,    \* what each expansion has left to do
  expanded,   \* history: windows whose expansion ended
  deaths,     \* bound on deaths
  disturbed   \* history: two expansions were in flight together, or one died

seriesVars == <<rule, marked, unmarked, planner, expanded, deaths, disturbed>>

SeriesDays == 0..MaxDay
NoPlan == [at |-> "none"]

SeriesInit ==
  /\ rule \in Rules
  /\ marked = [d \in SeriesDays |-> 0]
  /\ unmarked = [d \in SeriesDays |-> 0]
  /\ planner = [p \in Planners |-> NoPlan]
  /\ expanded = {}
  /\ deaths = 0
  /\ disturbed = FALSE

Weekdays(r) == IF r.weekdays = {} THEN {r.anchor % 7} ELSE r.weekdays

\* Mutant: the weeks are counted from the window's first day.
MatchesFromWindow(r, d, from) ==
  CASE r.frequency = "daily"  -> (d - from) % r.interval = 0
    [] r.frequency = "weekly" -> ((d - from) \div 7) % r.interval = 0 /\ d % 7 \in Weekdays(r)
    [] OTHER                  -> ((d - from) \div 7) % 2 = 0 /\ d % 7 \in Weekdays(r)

Matches(r, d, from) ==
  CASE r.frequency = "daily"  -> (d - r.anchor) % r.interval = 0
    [] r.frequency = "weekly" -> ((d - r.anchor) \div 7) % r.interval = 0 /\ d % 7 \in Weekdays(r)
    [] OTHER                  -> ((d - r.anchor) \div 7) % 2 = 0 /\ d % 7 \in Weekdays(r)

\* The dates of a window: no more than the rule's maximum are taken from it.
OccurrenceDates(r, w) ==
  LET D == {d \in SeriesDays : /\ d >= r.anchor /\ d >= w.from /\ d <= w.to /\ d <= r.ends
                         /\ Matches(r, d, w.from)}
  IN  IF r.max = 0 THEN D
      ELSE {d \in D : Cardinality({c \in D : c <= d}) <= r.max}

PlannersBusy(P) == \E p \in P : planner[p] # NoPlan

Plan(p, o) ==
  /\ planner' = [planner EXCEPT ![p] = o]
  /\ disturbed' = (disturbed \/ PlannersBusy(Planners \ {p}))
  /\ UNCHANGED deaths

ExpandBegin(p, w) ==
  /\ planner[p] = NoPlan
  /\ Plan(p, [at |-> "look", left |-> OccurrenceDates(rule, w), window |-> w])
  /\ UNCHANGED <<rule, marked, unmarked, expanded>>

\* Mutant: the date is not looked for.
AlwaysMissing(d) == TRUE
Missing(d) == marked[d] = 0

ExpandLook(p) ==
  LET k == planner[p] IN
    /\ k.at = "look" /\ k.left # {}
    /\ LET d == Min(k.left) IN
         IF Missing(d)
           THEN Plan(p, [at |-> "create", left |-> k.left, window |-> k.window])
           ELSE Plan(p, [k EXCEPT !.left = @ \ {d}])
    /\ UNCHANGED <<rule, marked, unmarked, expanded>>

ExpandCreate(p) ==
  /\ planner[p].at = "create"
  /\ unmarked' = [unmarked EXCEPT ![Min(planner[p].left)] = @ + 1]
  /\ Plan(p, [planner[p] EXCEPT !.at = "mark"])
  /\ UNCHANGED <<rule, marked, expanded>>

ExpandMark(p) ==
  LET k == planner[p]
      d == Min(k.left) IN
    /\ k.at = "mark"
    /\ unmarked' = [unmarked EXCEPT ![d] = @ - 1]
    /\ marked' = [marked EXCEPT ![d] = @ + 1]
    /\ Plan(p, [at |-> "look", left |-> k.left \ {d}, window |-> k.window])
    /\ UNCHANGED <<rule, expanded>>

ExpandEnd(p) ==
  /\ planner[p].at = "look" /\ planner[p].left = {}
  /\ expanded' = expanded \union {planner[p].window}
  /\ Plan(p, NoPlan)
  /\ UNCHANGED <<rule, marked, unmarked>>

\* The handler fails or its replica dies; what it created stays.
ExpandDies(p) ==
  /\ planner[p] # NoPlan
  /\ deaths < MaxDeaths
  /\ deaths' = deaths + 1
  /\ planner' = [planner EXCEPT ![p] = NoPlan]
  /\ disturbed' = TRUE
  /\ UNCHANGED <<rule, marked, unmarked, expanded>>

SeriesNext ==
  \E p \in Planners :
    \/ \E w \in Windows : ExpandBegin(p, w)
    \/ ExpandLook(p) \/ ExpandCreate(p) \/ ExpandMark(p) \/ ExpandEnd(p) \/ ExpandDies(p)

SeriesSpec == SeriesInit /\ [][SeriesNext]_seriesVars

-----------------------------------------------------------------------------
(* What must hold. *)

SeriesTypeOK ==
  /\ rule \in Rules
  /\ marked \in [SeriesDays -> Nat] /\ unmarked \in [SeriesDays -> Nat]
  /\ \A p \in Planners : planner[p].at \in {"none", "look", "create", "mark"}
  /\ expanded \subseteq Windows /\ disturbed \in BOOLEAN

Scheduled == {d \in SeriesDays : marked[d] > 0}

WindowsCompose ==
  ~disturbed /\ ~PlannersBusy(Planners) =>
    /\ \A d \in SeriesDays : marked[d] <= 1 /\ unmarked[d] = 0
    /\ rule.max = 0 =>
         LET all == OccurrenceDates(rule, [from |-> 0, to |-> MaxDay]) IN
           Scheduled = {d \in SeriesDays :
                          (\E w \in expanded : w.from <= d /\ d <= w.to) /\ d \in all}

ShiftsBounded == \A d \in SeriesDays : marked[d] <= Cardinality(Planners)

\* Windows may be expanded in any order, may overlap and may be repeated: each
\* day gets one shift, and what they produce together is what one expansion
\* over all the days would have produced there (shift-recurrence.ts:37).  Only
\* for a rule without a maximum: the maximum holds for each window.  Whatever
\* overlaps or dies, and however often a window is expanded again, a day never
\* has more shifts of the series than expansions can be in flight together.
SeriesIsFilledOnce == WindowsCompose /\ ShiftsBounded
=============================================================================
