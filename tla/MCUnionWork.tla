----------------------------- MODULE MCUnionWork -----------------------------
(***************************************************************************)
(* The components around work, publishing and operations, checked in one   *)
(* run.  They share no state, so a behaviour is about one of them: the     *)
(* scene, chosen at the start, says which.  The others keep their initial  *)
(* state, which is one state even where they may start in several.         *)
(***************************************************************************)
EXTENDS TimeEntries, TimeOff, ShiftSeries, OvertimeSplit, Publishing, BootNotify,
        DataImports, CaseAccess, Checkins, TLC

CONSTANTS x1, x2, y1, y2, b1, b2, b3, a1, k1, u1, u2, u3

VARIABLE scene

(* Components that never meet use the same model values: that keeps the
   group of permutations small. *)
X == {x1, x2}
Y == {y1, y2}
ThreeBoots == {b1, b2, b3}
OneAccount == {a1}
OneRun == {k1}
OneHours == {2}
ThreeDays == {1, 2, 3}
SomeLengths == {2, 3, 6}

(* A rule without an interval, with one, with two weekdays and an end, by
   fortnights, and with a maximum. *)
Rule(frequency, anchor, interval, weekdays, ends, max) ==
  [frequency |-> frequency, anchor |-> anchor, interval |-> interval,
   weekdays |-> weekdays, ends |-> ends, max |-> max]
SomeRules == {Rule("daily", 1, 5, {}, 17, 0), Rule("weekly", 2, 1, {1, 4}, 9, 0),
              Rule("biweekly", 3, 1, {}, 17, 0), Rule("daily", 0, 4, {}, 17, 1)}
SomeWindows == {[from |-> 0, to |-> 4], [from |-> 4, to |-> 10], [from |-> 11, to |-> 17]}

(* Three files of one local: an assignment that is history under one that is
   current, somebody whose supervisor must exist, an end beside a beginning.
   Together they close a circle between u1 and u2. *)
Row(line, who, boss, dated) == [line |-> line, who |-> who, boss |-> boss, dated |-> dated]
ThreePeople == {u1, u2, u3}
ThreeSheets == {{Row(1, u2, Nobody, "now"), Row(2, u1, u2, "past")},
                {Row(1, u2, u1, "now")},
                {Row(1, u1, u2, "ended"), Row(2, u3, u1, "now")}}

(* On a grievance: the president, a grievance officer and somebody without an
   office, who reads a summary or writes as a representative. *)
SomeOffices == [u \in ThreePeople |->
  IF u = u1 THEN "president" ELSE IF u = u2 THEN "grievance_officer" ELSE "none"]
SomeLevels == {"summary", "case_write"}
TwoRows == {1, 2}

(* Check-ins are on working days or on Mondays, and day 0 is a Sunday: an
   editor resumes one for Mondays, pauses it on working days, or sends a weekday
   alone. *)
Monday == {1}
Send(cadence, weekday, active) == [cadence |-> cadence, weekday |-> weekday, active |-> active]
SomeChanges == {Send({"weekly"}, {1}, {TRUE}), Send({"weekdays"}, {}, {FALSE}),
                Send({}, {1}, {})}

WorkSymmetry == Permutations(X) \cup Permutations(Y)

Scenes == {"time", "time off", "series", "overtime", "publishing", "boot", "imports",
           "cases", "checkins"}

WorkVars == <<scene, timeVars, offVars, seriesVars, otVars, pubVars, bootVars,
              importVars, caseVars, checkinVars>>

WorkInit ==
  /\ scene \in Scenes
  /\ TimeInit /\ OffInit /\ SeriesInit /\ OtInit /\ PubInit /\ BootInit
  /\ ImportInit /\ CaseInit /\ CheckinInit
  /\ scene # "time" => store = "postgres"
  /\ scene # "series" => rule = CHOOSE r \in Rules : TRUE
  /\ scene # "overtime" => holidays = {}
  /\ scene # "cases" => file = [privacy |-> "restricted", assigned |-> u3, member |-> NoOne]
  /\ scene # "checkins" => schedule.cadence = "weekdays"

(* Bound: nothing is said of a worker's entries once two requests were in flight
   together, so no step makes them overlap. *)
WorkNext ==
  /\ UNCHANGED scene
  /\ \/ /\ scene = "time" /\ TimeNext /\ ~collided'
        /\ UNCHANGED <<offVars, seriesVars, otVars, pubVars, bootVars, importVars,
                       caseVars, checkinVars>>
     \/ /\ scene = "time off" /\ OffNext
        /\ UNCHANGED <<timeVars, seriesVars, otVars, pubVars, bootVars, importVars,
                       caseVars, checkinVars>>
     \/ /\ scene = "series" /\ SeriesNext
        /\ UNCHANGED <<timeVars, offVars, otVars, pubVars, bootVars, importVars,
                       caseVars, checkinVars>>
     \/ /\ scene = "overtime" /\ OtNext
        /\ UNCHANGED <<timeVars, offVars, seriesVars, pubVars, bootVars, importVars,
                       caseVars, checkinVars>>
     \/ /\ scene = "publishing" /\ PubNext
        /\ UNCHANGED <<timeVars, offVars, seriesVars, otVars, bootVars, importVars,
                       caseVars, checkinVars>>
     \/ /\ scene = "boot" /\ BootNext
        /\ UNCHANGED <<timeVars, offVars, seriesVars, otVars, pubVars, importVars,
                       caseVars, checkinVars>>
     \/ /\ scene = "imports" /\ ImportNext
        /\ UNCHANGED <<timeVars, offVars, seriesVars, otVars, pubVars, bootVars,
                       caseVars, checkinVars>>
     \/ /\ scene = "cases" /\ CaseNext
        /\ UNCHANGED <<timeVars, offVars, seriesVars, otVars, pubVars, bootVars,
                       importVars, checkinVars>>
     \/ /\ scene = "checkins" /\ CheckinNext
        /\ UNCHANGED <<timeVars, offVars, seriesVars, otVars, pubVars, bootVars,
                       importVars, caseVars>>

WorkSpec == WorkInit /\ [][WorkNext]_WorkVars

-----------------------------------------------------------------------------
(* The rows of every component keep their shape, and no range of worked time
   ends before it begins. *)
WorkTypeOK ==
  TimeTypeOK /\ OffTypeOK /\ SeriesTypeOK /\ OtTypeOK /\ PubTypeOK /\ BootTypeOK
  /\ ImportTypeOK /\ CaseTypeOK /\ CheckinTypeOK

=============================================================================
