---------------------------- MODULE OvertimeSplit ----------------------------
(***************************************************************************)
(* The policy engine that splits the hours of one worker, entry by entry   *)
(* in the order they were begun, into regular, overtime, double and        *)
(* holiday hours, with a running total per day and one per week.  An entry *)
(* is any number of moments long (milliseconds in the code, whose hours    *)
(* are numbers with a fraction); it is cut from its beginning into slices  *)
(* of a quarter of an hour, of which the last may be shorter, and a slice  *)
(* is classed as a whole by where it ends.  The rounding of what is handed *)
(* out to hundredths of an hour is left out.                               *)
(***************************************************************************)
EXTENDS Integers, FiniteSets, FiniteSetsExt

CONSTANTS WeekDays,     \* the days of one week, as numbers
          Lengths,      \* lengths of an entry, in moments
          Quarter,      \* moments in a quarter of an hour
          DailyOt,      \* dailyOtThreshold
          DailyDouble,  \* dailyDoubleThreshold
          WeeklyOt,     \* weeklyRegularHours
          MaxWorked     \* bound: moments worked in the week

ASSUME OvertimeAssumption ==
  /\ WeekDays \subseteq Nat /\ IsFiniteSet(WeekDays) /\ WeekDays # {}
  /\ Lengths \subseteq Nat /\ Quarter \in Nat \ {0}
  /\ DailyOt \in Nat /\ DailyDouble \in Nat /\ WeeklyOt \in Nat

VARIABLES
  holidays,   \* holidayDates of the policy
  day,        \* the day of the last entry
  worked,     \* dailyRunning
  week,       \* weeklyRunning
  split,      \* what the entries of each day were split into
  ragged      \* history: an entry was not of whole quarters

otVars == <<holidays, day, worked, week, split, ragged>>

OtInit ==
  /\ holidays \in SUBSET WeekDays
  /\ day = Min(WeekDays)
  /\ worked = [d \in WeekDays |-> 0]
  /\ week = 0
  /\ split = [d \in WeekDays |-> [regular |-> 0, ot |-> 0, double |-> 0, holiday |-> 0]]
  /\ ragged = FALSE

Least(a, b) == IF a <= b THEN a ELSE b
Above(a, b) == IF a <= b THEN 0 ELSE a - b

IsWhole(n) == n % Quarter = 0

\* Where the slice ends in which moment t of an entry of length h lies.
SliceEnd(t, h) == Least(Quarter * ((t - 1) \div Quarter + 1), h)

\* Hours are binary fractions: a sum that lands on a threshold may come out a
\* hair above it (1), unless everything summed is whole quarters.
Hairs == [double : {0, 1}, ot : {0, 1}, week : {0, 1}]
NoHair == [double |-> 0, ot |-> 0, week |-> 0]

\* Mutant: only the entry itself counts towards the day.
DoubleOfEntry(d, h, hair) == {t \in 1..h : SliceEnd(t, h) + hair.double > DailyDouble}

\* The moments of an entry of length h on day d that are paid double, and the
\* overtime among the others.
DoubleTime(d, h, hair) ==
  {t \in 1..h : worked[d] + SliceEnd(t, h) + hair.double > DailyDouble}
OverTime(d, h, hair) ==
  {t \in 1..h \ DoubleTime(d, h, hair) :
     \/ worked[d] + SliceEnd(t, h) + hair.ot > DailyOt
     \/ week + SliceEnd(t, h) + hair.week > WeeklyOt}

ApplyEntry(d, h, hair) ==
  /\ d >= day
  /\ week + h <= MaxWorked
  /\ day' = d
  /\ worked' = [worked EXCEPT ![d] = @ + h]
  /\ week' = week + h
  /\ split' = [split EXCEPT ![d] =
       IF d \in holidays THEN [split[d] EXCEPT !.holiday = split[d].holiday + h]
       ELSE [regular |-> @.regular + h - Cardinality(DoubleTime(d, h, hair))
                                         - Cardinality(OverTime(d, h, hair)),
             ot      |-> @.ot + Cardinality(OverTime(d, h, hair)),
             double  |-> @.double + Cardinality(DoubleTime(d, h, hair)),
             holiday |-> 0]]
  /\ ragged' = (ragged \/ ~IsWhole(h))
  /\ hair # NoHair => ragged'
  /\ UNCHANGED holidays

OtNext == \E d \in WeekDays, h \in Lengths, hair \in Hairs : ApplyEntry(d, h, hair)

OtSpec == OtInit /\ [][OtNext]_otVars

-----------------------------------------------------------------------------
(* What must hold. *)

OtTypeOK ==
  /\ holidays \subseteq WeekDays /\ day \in WeekDays
  /\ worked \in [WeekDays -> Nat] /\ week \in Nat /\ ragged \in BOOLEAN
  /\ split \in [WeekDays -> [regular : Nat, ot : Nat, double : Nat, holiday : Nat]]

\* Time worked in the week before day d.
WeekBefore(d) == MapThenSumSet(LAMBDA e : worked[e], {e \in WeekDays : e < d})

\* What a day's total is split into where each threshold is reached to the
\* moment, from the totals of the days alone.
DaySplit(d) ==
  LET w == worked[d]
      plain == Least(w, DailyDouble)
      regular == Least(Least(w, DailyDouble), Least(DailyOt, Above(WeeklyOt, WeekBefore(d)))) IN
    IF d \in holidays THEN [regular |-> 0, ot |-> 0, double |-> 0, holiday |-> w]
    ELSE [regular |-> regular, ot |-> plain - regular, double |-> w - plain, holiday |-> 0]

WholeThresholds == IsWhole(DailyOt) /\ IsWhole(DailyDouble) /\ IsWhole(WeeklyOt)

\* Into how many entries a day's work is cut moves a slice at most, and in the
\* worker's favour: whatever the entries, no moment is lost or paid in two
\* buckets, the regular time of a day falls short of what its totals make it, and
\* the double time exceeds it, by no more than a quarter of an hour; and where the
\* entries and the thresholds are whole quarters it does not matter at all.  The
\* cuts do matter up to that, as the slice that passes a threshold is classed as a
\* whole (ot-policy.ts:90).
CutsMoveASliceAtMost ==
  \A d \in WeekDays :
    /\ split[d].regular + split[d].ot + split[d].double + split[d].holiday = worked[d]
    /\ worked[d] > 0 =>
         LET due == DaySplit(d) IN
           /\ split[d].holiday = due.holiday
           /\ split[d].regular \in (due.regular - Quarter)..due.regular
           /\ split[d].double \in due.double..(due.double + Quarter)
           /\ ~ragged /\ WholeThresholds => split[d] = due
=============================================================================
