----------------------- MODULE MfaAttemptLimitProofs -----------------------
(***************************************************************************)
(* The cap on wrong MFA codes, for any limit, window and number of step-up *)
(* challenges in flight.  The cap itself is not inductive: what a step     *)
(* preserves is that every wrong code compared in this window, and every   *)
(* challenge that may still compare one, is charged to the row's count.    *)
(***************************************************************************)
EXTENDS MfaAttemptLimit, FiniteSetTheorems, TLAPS

Charged == wrong + Cardinality(InFlight) <= count

IInv == TypeOK /\ Charged

LEMMA InFlightFinite ==
  /\ IsFiniteSet(InFlight)
  /\ Cardinality(InFlight) \in Nat
<1>1. InFlight \subseteq Slots
  BY DEF InFlight
<1> QED
  BY <1>1, SlotsAssumption, FS_Subset, FS_CardinalityType

LEMMA InitCharged == Init => IInv
<1> SUFFICES ASSUME Init PROVE IInv
  OBVIOUS
<1>1. InFlight = {}
  BY DEF Init, InFlight
<1>2. Cardinality(InFlight) = 0
  BY <1>1, FS_EmptySet
<1> QED
  BY <1>2, LimitAssumption DEF Init, IInv, TypeOK, Charged

(* A reservation charges the window it falls into. *)
LEMMA ReserveCharges ==
  ASSUME IInv, NEW w \in {0, 1}, NEW t \in Nat, Reserve(w, t)
  PROVE  /\ count' \in 0..AttemptLimit /\ age' \in 0..AttemptWindow
         /\ wrong' \in Nat /\ tried' \in Nat
         /\ WindowOver => wrong' = w /\ count' = 1
         /\ ~WindowOver => wrong' = wrong + w /\ count' = count + 1
<1>1. CASE WindowOver
  BY <1>1, LimitAssumption DEF IInv, TypeOK, Reserve
<1>2. CASE ~WindowOver
  <2>1. count < AttemptLimit
    BY <1>2 DEF Reserve, MayAttempt
  <2> QED
    BY <1>2, <2>1, LimitAssumption DEF IInv, TypeOK, Reserve
<1> QED
  BY <1>1, <1>2

LEMMA OutdatedInFlight ==
  ASSUME IInv
  PROVE  /\ Outdated \in [Slots -> {"idle", "reserved", "earlier"}]
         /\ WindowOver => \A p \in Slots : Outdated[p] # "reserved"
         /\ ~WindowOver => \A p \in Slots : Outdated[p] = stage[p]
BY DEF IInv, TypeOK, Outdated

(* A route reserves and compares in one step. *)
LEMMA RouteStep ==
  ASSUME IInv, NEW w \in {0, 1}, NEW t \in Nat, Reserve(w, t), stage' = Outdated
  PROVE  IInv'
<1>1. TypeOK'
  BY ReserveCharges, OutdatedInFlight DEF TypeOK
<1>2. CASE WindowOver
  <2>1. InFlight' = {}
    BY <1>2, OutdatedInFlight DEF InFlight
  <2>2. Cardinality(InFlight') = 0
    BY <2>1, FS_EmptySet
  <2> QED
    BY <1>1, <1>2, <2>2, ReserveCharges DEF IInv, Charged
<1>3. CASE ~WindowOver
  <2>1. InFlight' = InFlight
    BY <1>3, OutdatedInFlight DEF InFlight
  <2> QED
    BY <1>1, <1>3, <2>1, ReserveCharges, InFlightFinite DEF IInv, TypeOK, Charged
<1> QED
  BY <1>2, <1>3

LEMMA StepUpReserveStep ==
  ASSUME IInv, NEW p \in Slots, StepUpReserve(p)
  PROVE  IInv'
<1>1. Reserve(0, 0) /\ stage' = [Outdated EXCEPT ![p] = "reserved"]
  BY DEF StepUpReserve
<1>2. TypeOK'
  BY <1>1, ReserveCharges, OutdatedInFlight DEF TypeOK
<1>3. CASE WindowOver
  <2>1. InFlight' = {p}
    BY <1>1, <1>3, OutdatedInFlight DEF InFlight
  <2>2. Cardinality(InFlight') = 1
    BY <2>1, FS_Singleton
  <2> QED
    BY <1>1, <1>2, <1>3, <2>2, ReserveCharges DEF IInv, Charged
<1>4. CASE ~WindowOver
  <2>1. InFlight' = InFlight \cup {p} /\ p \notin InFlight
    BY <1>1, <1>4, OutdatedInFlight DEF InFlight, StepUpReserve
  <2>2. Cardinality(InFlight') = Cardinality(InFlight) + 1
    BY <2>1, InFlightFinite, FS_AddElement
  <2> QED
    BY <1>1, <1>2, <1>4, <2>2, ReserveCharges, InFlightFinite
       DEF IInv, TypeOK, Charged
<1> QED
  BY <1>3, <1>4

(* A challenge that was in flight is over: its charge is used or lost. *)
LEMMA SlotFreed ==
  ASSUME IInv, NEW p \in Slots, stage' = [stage EXCEPT ![p] = "idle"]
  PROVE  /\ stage[p] = "reserved" =>
              Cardinality(InFlight') = Cardinality(InFlight) - 1
         /\ stage[p] # "reserved" => InFlight' = InFlight
<1>1. stage \in [Slots -> {"idle", "reserved", "earlier"}]
  BY DEF IInv, TypeOK
<1>2. InFlight' = InFlight \ {p}
  BY <1>1 DEF InFlight
<1>3. p \in InFlight <=> stage[p] = "reserved"
  BY DEF InFlight
<1>4. p \in InFlight => Cardinality(InFlight \ {p}) = Cardinality(InFlight) - 1
  BY InFlightFinite, FS_RemoveElement
<1> QED
  BY <1>2, <1>3, <1>4

LEMMA StepUpCompareStep ==
  ASSUME IInv, NEW p \in Slots, NEW isWrong \in BOOLEAN, StepUpCompare(p, isWrong)
  PROVE  IInv'
<1>1. stage' = [stage EXCEPT ![p] = "idle"] /\ UNCHANGED <<count, age>>
  BY DEF StepUpCompare
<1>2. CASE stage[p] = "reserved"
  <2>1. tried' = tried + 1 /\ (wrong' = wrong + 1 \/ wrong' = wrong)
    BY <1>2 DEF StepUpCompare
  <2>2. TypeOK'
    BY <1>1, <2>1 DEF IInv, TypeOK
  <2>3. Cardinality(InFlight') = Cardinality(InFlight) - 1
    BY <1>1, <1>2, SlotFreed
  <2>4. wrong' + Cardinality(InFlight') <= count'
    <3>1. wrong \in Nat /\ count \in Nat /\ wrong + Cardinality(InFlight) <= count
      BY DEF IInv, TypeOK, Charged
    <3> QED
      BY <1>1, <2>1, <2>3, <3>1, InFlightFinite
  <2> QED
    BY <2>2, <2>4 DEF IInv, Charged
<1>3. CASE stage[p] # "reserved"
  <2>1. UNCHANGED <<wrong, tried>>
    BY <1>3 DEF StepUpCompare
  <2>2. TypeOK'
    BY <1>1, <2>1 DEF IInv, TypeOK
  <2> QED
    BY <1>1, <1>3, <2>1, <2>2, SlotFreed DEF IInv, Charged
<1> QED
  BY <1>2, <1>3

LEMMA StepUpFailsStep ==
  ASSUME IInv, NEW p \in Slots, StepUpFails(p)
  PROVE  IInv'
<1>1. stage' = [stage EXCEPT ![p] = "idle"] /\ UNCHANGED <<count, age, wrong, tried>>
  BY DEF StepUpFails
<1>2. TypeOK'
  BY <1>1 DEF IInv, TypeOK
<1>3. \/ Cardinality(InFlight') = Cardinality(InFlight) - 1
      \/ InFlight' = InFlight
  BY <1>1, SlotFreed
<1>4. wrong' + Cardinality(InFlight') <= count'
  <2>1. wrong \in Nat /\ count \in Nat /\ wrong + Cardinality(InFlight) <= count
    BY DEF IInv, TypeOK, Charged
  <2> QED
    BY <1>1, <1>3, <2>1, InFlightFinite
<1> QED
  BY <1>2, <1>4 DEF IInv, Charged

(* Steps that leave the charges alone *)
LEMMA UnchargedStep ==
  ASSUME IInv, UNCHANGED <<count, stage, wrong>>, tried' \in Nat,
         age' \in 0..AttemptWindow
  PROVE  IInv'
BY DEF IInv, TypeOK, Charged, InFlight

LEMMA ChargedStep == IInv /\ [Next]_vars => IInv'
<1> SUFFICES ASSUME IInv, [Next]_vars PROVE IInv'
  OBVIOUS
<1>1. CASE RightCode
  BY <1>1, RouteStep DEF RightCode
<1>2. CASE WrongCode
  BY <1>2, RouteStep DEF WrongCode
<1>3. CASE RightCodeThrows
  <2>1. CASE Postgres
    BY <1>3, <2>1, UnchargedStep DEF RightCodeThrows, IInv, TypeOK
  <2>2. CASE ~Postgres
    BY <1>3, <2>2, RouteStep DEF RightCodeThrows
  <2> QED
    BY <2>1, <2>2
<1>4. CASE Limited \/ UNCHANGED vars
  BY <1>4, UnchargedStep DEF Limited, vars, IInv, TypeOK
<1>5. CASE Tick
  <2>1. age' \in 0..AttemptWindow
    BY <1>5, LimitAssumption DEF Tick, IInv, TypeOK
  <2> QED
    BY <1>5, <2>1, UnchargedStep DEF Tick, IInv, TypeOK
<1>6. ASSUME NEW p \in Slots,
             \/ StepUpReserve(p) \/ StepUpFails(p)
             \/ \E w \in BOOLEAN : StepUpCompare(p, w)
      PROVE  IInv'
  BY <1>6, StepUpReserveStep, StepUpFailsStep, StepUpCompareStep
<1> QED
  BY <1>1, <1>2, <1>3, <1>4, <1>5, <1>6 DEF Next

(***************************************************************************)
(* TypeOK: the count stays within the check constraint of the table        *)
(* (mfa_verification_attempts), whatever windows and challenges overlap.   *)
(***************************************************************************)
THEOREM LimitTypes == Spec => []TypeOK
<1>1. IInv => TypeOK
  BY DEF IInv
<1> QED
  BY <1>1, InitCharged, ChargedStep, PTL DEF Spec

(***************************************************************************)
(* WrongCodesCapped: over all routes, replicas and challenges in flight, a *)
(* window admits at most AttemptLimit wrong codes.                         *)
(***************************************************************************)
THEOREM WrongCodesAreCapped == Spec => []WrongCodesCapped
<1>1. IInv => WrongCodesCapped
  <2> SUFFICES ASSUME IInv PROVE WrongCodesCapped
    OBVIOUS
  <2> QED
    BY InFlightFinite, LimitAssumption DEF IInv, TypeOK, Charged, WrongCodesCapped
<1> QED
  BY <1>1, InitCharged, ChargedStep, PTL DEF Spec

=============================================================================
