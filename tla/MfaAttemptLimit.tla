-------------------------- MODULE MfaAttemptLimit --------------------------
(***************************************************************************)
(* The attempt limiter of src/lib/auth/mfa-attempt-limits.ts for one       *)
(* account, and how the callers use it: the routes under api/mfa reserve   *)
(* an attempt and compare the code in one transaction under the account    *)
(* lock, a step-up challenge commits the reservation first and compares    *)
(* afterwards, on any replica.                                             *)
(*                                                                         *)
(* The row holds the count and the start of the fixed window; the model    *)
(* keeps the window's age, which is all the code looks at, so that it has  *)
(* finitely many states.  What else a challenge does is in MfaAccount.     *)
(***************************************************************************)
EXTENDS Naturals, FiniteSets

CONSTANTS
  Slots,           \* step-up challenges the replicas serve at the same time
  AttemptLimit,    \* MFA_ATTEMPT_LIMIT, also the check constraint of the table
  AttemptWindow,   \* MFA_ATTEMPT_WINDOW_MS
  Postgres,        \* durable row, or the process-local map
  MaxTried         \* bound on the history of codes compared in a window

ASSUME LimitAssumption == AttemptLimit \in Nat \ {0} /\ AttemptWindow \in Nat \ {0}
ASSUME PostgresAssumption == Postgres \in BOOLEAN
ASSUME SlotsAssumption == IsFiniteSet(Slots)

VARIABLES
  count,    \* attempt_count, 0 while there is no row
  age,      \* now - window_started_at, at most AttemptWindow
  stage,    \* [Slots]: step-ups between reservation and comparison
  wrong,    \* history: wrong codes compared on attempts of this window
  tried     \* history: all codes compared while this window was the row's

vars == <<count, age, stage, wrong, tried>>

TypeOK ==
  /\ count \in 0..AttemptLimit
  /\ age \in 0..AttemptWindow
  /\ stage \in [Slots -> {"idle", "reserved", "earlier"}]
  /\ wrong \in Nat
  /\ tried \in Nat

Init ==
  /\ count = 0 /\ age = 0
  /\ stage = [p \in Slots |-> "idle"]
  /\ wrong = 0 /\ tried = 0

(* INSERT ... ON CONFLICT DO UPDATE ... WHERE: both in one statement. *)
WindowOver == count = 0 \/ age >= AttemptWindow
MayAttempt == WindowOver \/ count < AttemptLimit

(* An attempt that is not counted inside the window *)
ReserveUncounted(w, t) ==
  /\ MayAttempt
  /\ IF WindowOver
     THEN /\ count' = 1 /\ age' = 0
          /\ wrong' = w /\ tried' = t
     ELSE UNCHANGED <<count, age>> /\ wrong' = wrong + w /\ tried' = tried + t

(* Reserve an attempt; w and t are the comparisons already made on it. *)
Reserve(w, t) ==
  /\ MayAttempt
  /\ IF WindowOver
     THEN /\ count' = 1 /\ age' = 0
          /\ wrong' = w /\ tried' = t
     ELSE /\ count' = count + 1 /\ age' = age
          /\ wrong' = wrong + w /\ tried' = tried + t

(* In-flight attempts of a window that a new one replaces. *)
Outdated == [p \in Slots |->
  IF WindowOver /\ stage[p] = "reserved" THEN "earlier" ELSE stage[p]]

(* A route under the account lock: reserved, compared and committed. *)
RightCode == tried < MaxTried /\ Reserve(0, 1) /\ stage' = Outdated
WrongCode == tried < MaxTried /\ Reserve(1, 1) /\ stage' = Outdated

(***************************************************************************)
(* api/mfa/verify compares a right code and then throws, because a grant   *)
(* is pending or a store failed: PostgreSQL rolls the reservation back     *)
(* with the rest, the process-local map keeps it.                          *)
(***************************************************************************)
RightCodeThrows ==
  /\ tried < MaxTried
  /\ MayAttempt
  /\ IF Postgres
     THEN tried' = tried + 1 /\ UNCHANGED <<count, age, wrong, stage>>
     ELSE Reserve(0, 1) /\ stage' = Outdated

(* A step-up challenge: verifyMfaCode with its own transactions *)
StepUpReserve(p) ==
  /\ stage[p] = "idle"
  /\ Reserve(0, 0)
  /\ stage' = [Outdated EXCEPT ![p] = "reserved"]

StepUpCompare(p, isWrong) ==
  /\ stage[p] # "idle"
  /\ tried < MaxTried
  /\ stage' = [stage EXCEPT ![p] = "idle"]
  /\ IF stage[p] = "reserved"
     THEN tried' = tried + 1 /\ wrong' = IF isWrong THEN wrong + 1 ELSE wrong
     ELSE UNCHANGED <<wrong, tried>>
  /\ UNCHANGED <<count, age>>

(* Its replica dies, or the secret cannot be read. *)
StepUpFails(p) ==
  /\ stage[p] # "idle"
  /\ stage' = [stage EXCEPT ![p] = "idle"]
  /\ UNCHANGED <<count, age, wrong, tried>>

(* A sliding window: a refused attempt starts it over. *)
LimitedSlides == ~MayAttempt /\ age' = 0 /\ UNCHANGED <<count, stage, wrong, tried>>

(* The limiter answers 429: nothing is written, the window is not moved. *)
Limited == ~MayAttempt /\ UNCHANGED vars

Tick ==
  /\ count > 0 /\ age < AttemptWindow
  /\ age' = age + 1
  /\ UNCHANGED <<count, stage, wrong, tried>>

Next ==
  \/ RightCode \/ WrongCode \/ RightCodeThrows \/ Limited \/ Tick
  \/ \E p \in Slots :
       StepUpReserve(p) \/ StepUpFails(p) \/ \E w \in BOOLEAN : StepUpCompare(p, w)

Spec == Init /\ [][Next]_vars

(* Time passes. *)
FairSpec == Spec /\ WF_vars(Tick)

-----------------------------------------------------------------------------
(* Properties *)

InFlight == {p \in Slots : stage[p] = "reserved"}

(***************************************************************************)
(* Per window, over all routes, replicas and challenges in flight, at most *)
(* AttemptLimit wrong codes are ever compared: each one, made or still to  *)
(* come, is charged to the row before the comparison.                      *)
(***************************************************************************)
WrongCodesCapped == wrong + Cardinality(InFlight) <= AttemptLimit

(***************************************************************************)
(* "Short-window cap for MFA challenges, shared by hosted app replicas"    *)
(* (db/schema/auth.ts:52): every challenge, right or wrong, is counted.    *)
(***************************************************************************)
ChallengesCapped == tried <= AttemptLimit

(***************************************************************************)
(* An account at its limit is let in again when its window is over, however*)
(* often it is tried in the meantime: refused attempts move nothing.       *)
(***************************************************************************)
LimitLifts == (count = AttemptLimit) ~> MayAttempt

=============================================================================
