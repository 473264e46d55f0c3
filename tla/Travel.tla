------------------------------- MODULE Travel -------------------------------
(***************************************************************************)
(* The money of one trip: its authorization, a cash advance, the claim of   *)
(* what was spent and its reconciliation, with the entries each leaves in   *)
(* the ledger (lib/travel/drizzle-adapter.ts behind api/travel/[id]).       *)
(*                                                                         *)
(* Every call of a store is a transaction of its own and locks no row: a    *)
(* route reads, books in the ledger, and then calls the store, which reads  *)
(* again before it writes.  Reads of one request that only other reads      *)
(* separate are one step; so is a read and the ledger entry after it, which *)
(* commutes with what others do.  Manual changes of the ledger are left out.*)
(***************************************************************************)
EXTENDS Integers, FiniteSets, Sequences

CONSTANTS
  TravelCalls,   \* requests under way at a time
  Sums,          \* amounts of money
  MaxBooked      \* bound on what the ledger may hold for the trip

ASSUME TravelAssumption ==
  Sums \subseteq Nat \ {0} /\ MaxBooked \in Nat /\ IsFiniteSet(TravelCalls)

VARIABLES
  trip,       \* [status, advances, claims]: the rows; "gone" is no row
  booked,     \* expenses less income that the ledger holds for the trip
  errand,     \* [TravelCalls]: what a request is doing
  slipped     \* history: a request wrote what had changed since it read it, or
              \* ended without the row its ledger entry was for

travelVars == <<trip, booked, errand, slipped>>

AdvanceRow == [amount : Sums, late : BOOLEAN]     \* late: issued after a reconciliation
(* An open claim is a draft or submitted: nothing depends on which. *)
ClaimRow == [status : {"open", "reconciled"}, spent : Sums, advance : Sums \cup {0},
             difference : Int]
NoErrand == [at |-> "idle"]

TravelInit ==
  /\ trip = [status |-> "requested", advances |-> <<>>, claims |-> <<>>]
  /\ booked = 0
  /\ errand = [c \in TravelCalls |-> NoErrand]
  /\ slipped = FALSE

Idle(c) == errand[c] = NoErrand
(* Bound: no request begins once one has slipped. *)
Begins(c) == Idle(c) /\ ~slipped
EndErrand(c) == errand' = [errand EXCEPT ![c] = NoErrand]
Goes(c, e) == errand' = [errand EXCEPT ![c] = e]

Book(sum) == booked + sum \in -MaxBooked..MaxBooked /\ booked' = booked + sum

(* A write by a request that had read `seen` where there is `now` *)
WrittenAfter(seen, now) == slipped' = (slipped \/ now # seen)

-----------------------------------------------------------------------------
(* The authorization. *)

Verdicts == {"approved", "denied", "gone"}

(* approveAuthorization, denyAuthorization and removeAuthorization read the status *)
ReadForVerdict(c, verdict) ==
  /\ Begins(c)
  /\ trip.status = "requested" \/ (trip.status = "denied" /\ verdict = "gone")
  /\ Goes(c, [at |-> "verdict", verdict |-> verdict, seen |-> trip.status])
  /\ UNCHANGED <<trip, booked, slipped>>

(* ... and write whatever it is by now.  Advances and claims go with the row. *)
WriteVerdict(c) ==
  /\ errand[c].at = "verdict"
  /\ IF trip.status = "gone" THEN UNCHANGED <<trip, slipped>>
     ELSE /\ trip' = IF errand[c].verdict = "gone"
                     THEN [status |-> "gone", advances |-> <<>>, claims |-> <<>>]
                     ELSE [trip EXCEPT !.status = errand[c].verdict]
          /\ WrittenAfter(errand[c].seen, trip.status)
  /\ EndErrand(c)
  /\ UNCHANGED booked

-----------------------------------------------------------------------------
(* The advance. *)

(* POST advance: approved, none issued; the ledger first *)
BookAdvance(c, sum) ==
  /\ Begins(c)
  /\ trip.status = "approved" /\ trip.advances = <<>>
  /\ Book(sum)
  /\ Goes(c, [at |-> "booked", sum |-> sum])
  /\ UNCHANGED <<trip, slipped>>

(* issueAdvance reads again, and throws when there is one *)
RecheckAdvance(c) ==
  /\ errand[c].at = "booked"
  /\ Goes(c, [at |-> IF trip.advances = <<>> THEN "issuing" ELSE "undoing",
              sum |-> errand[c].sum, seen |-> trip.advances])
  /\ UNCHANGED <<trip, booked, slipped>>

(* The insert fails on its foreign key when the trip is gone. *)
IssueAdvance(c) ==
  /\ errand[c].at = "issuing"
  /\ IF trip.status = "gone"
     THEN Goes(c, [errand[c] EXCEPT !.at = "undoing"]) /\ UNCHANGED <<trip, slipped>>
     ELSE /\ LET late == \E i \in DOMAIN trip.claims : trip.claims[i].status = "reconciled"
             IN trip' = [trip EXCEPT !.advances =
                           Append(@, [amount |-> errand[c].sum, late |-> late])]
          /\ WrittenAfter(errand[c].seen, trip.advances)
          /\ EndErrand(c)
  /\ UNCHANGED booked

(* The route removes the entry when issueAdvance threw. *)
UndoAdvance(c) ==
  /\ errand[c].at = "undoing"
  /\ Book(-errand[c].sum)
  /\ EndErrand(c)
  /\ UNCHANGED <<trip, slipped>>

-----------------------------------------------------------------------------
(* The claim. *)

(* getAdvanceForAuth: whichever row comes first; 0 when there is none *)
AdvancesRead == IF trip.advances = <<>> THEN {0}
                ELSE {trip.advances[i].amount : i \in DOMAIN trip.advances}

ReadForClaim(c, spent) ==
  /\ Begins(c)
  /\ trip.status = "approved" /\ trip.claims = <<>>
  /\ \E sum \in AdvancesRead :
       Goes(c, [at |-> "claiming", spent |-> spent, sum |-> sum, seen |-> trip.claims])
  /\ UNCHANGED <<trip, booked, slipped>>

CreateClaim(c) ==
  /\ errand[c].at = "claiming"
  /\ IF trip.status = "gone" THEN UNCHANGED <<trip, slipped>>
     ELSE /\ trip' = [trip EXCEPT !.claims =
                        Append(@, [status |-> "open", spent |-> errand[c].spent,
                                   advance |-> errand[c].sum, difference |-> 0])]
          /\ WrittenAfter(errand[c].seen, trip.claims)
  /\ EndErrand(c)
  /\ UNCHANGED booked

Open(i) == trip.claims[i].status # "reconciled"

(* updateClaim: read; an edit gives lines, a status or both (0: no lines) ... *)
ReadForEdit(c, i, spent, reopens) ==
  /\ Begins(c)
  /\ i \in DOMAIN trip.claims /\ Open(i)
  /\ Goes(c, [at |-> "editing", claim |-> i, spent |-> spent, reopens |-> reopens,
              seen |-> trip.claims])
  /\ UNCHANGED <<trip, booked, slipped>>

(* ... and write *)
Edited(claim, spent, reopens) ==
  [claim EXCEPT !.spent = IF spent = 0 THEN claim.spent ELSE spent,
                !.status = IF reopens THEN "open" ELSE claim.status]
EditClaim(c) ==
  /\ errand[c].at = "editing"
  /\ IF trip.status = "gone" THEN UNCHANGED <<trip, slipped>>
     ELSE /\ trip' = [trip EXCEPT !.claims[errand[c].claim] =
                                    Edited(@, errand[c].spent, errand[c].reopens)]
          /\ WrittenAfter(errand[c].seen, trip.claims)
  /\ EndErrand(c)
  /\ UNCHANGED booked

-----------------------------------------------------------------------------
(* Reconciliation. *)

(* Mutant: the advance is not set off *)
SpentInFull(claim, sum) == claim.spent

(* reconcileDifference: an expense when positive, an income when negative *)
Difference(claim, sum) == claim.spent - sum

(* POST reconcile reads claim and advance and books the difference, if any.  The
   advance recorded in the claim stands in when there is none. *)
BookDifference(c, i) ==
  /\ Begins(c)
  /\ trip.status # "gone"
  /\ i \in DOMAIN trip.claims /\ Open(i)
  /\ \E sum \in IF trip.advances = <<>> THEN {trip.claims[i].advance} ELSE AdvancesRead :
       LET difference == Difference(trip.claims[i], sum) IN
         /\ Book(difference)
         /\ Goes(c, [at |-> "settling", claim |-> i, difference |-> difference,
                     seen |-> <<trip.claims, trip.advances>>])
  /\ UNCHANGED <<trip, slipped>>

(* reconcileClaim reads the claim again.  A refusal leaves the entry. *)
RecheckClaim(c) ==
  /\ errand[c].at = "settling"
  /\ IF trip.status # "gone" /\ Open(errand[c].claim)
     THEN Goes(c, [errand[c] EXCEPT !.at = "reconciling"]) /\ UNCHANGED slipped
     ELSE EndErrand(c) /\ slipped' = (slipped \/ errand[c].difference # 0)
  /\ UNCHANGED <<trip, booked>>

Reconciled(claim, difference) ==
  [claim EXCEPT !.status = "reconciled", !.difference = difference]
ReconcileClaim(c) ==
  /\ errand[c].at = "reconciling"
  /\ IF trip.status = "gone"
     THEN slipped' = (slipped \/ errand[c].difference # 0) /\ UNCHANGED trip
     ELSE /\ trip' = [trip EXCEPT !.claims[errand[c].claim] =
                                    Reconciled(@, errand[c].difference)]
          /\ WrittenAfter(errand[c].seen, <<trip.claims, trip.advances>>)
  /\ EndErrand(c)
  /\ UNCHANGED booked

(* The process dies: what was booked stays without its row. *)
DropErrand(c) ==
  /\ ~Idle(c)
  /\ slipped' = (slipped \/ errand[c].at \in {"booked", "issuing", "undoing"}
                         \/ (errand[c].at \in {"settling", "reconciling"}
                               /\ errand[c].difference # 0))
  /\ EndErrand(c)
  /\ UNCHANGED <<trip, booked>>

TravelNext == \E c \in TravelCalls :
  \/ \E verdict \in Verdicts : ReadForVerdict(c, verdict)
  \/ WriteVerdict(c)
  \/ \E sum \in Sums : BookAdvance(c, sum) \/ ReadForClaim(c, sum)
  \/ RecheckAdvance(c) \/ IssueAdvance(c) \/ UndoAdvance(c)
  \/ CreateClaim(c)
  \/ \E i \in DOMAIN trip.claims :
       \/ \E spent \in Sums \cup {0}, reopens \in BOOLEAN : ReadForEdit(c, i, spent, reopens)
       \/ BookDifference(c, i)
  \/ EditClaim(c)
  \/ RecheckClaim(c) \/ ReconcileClaim(c)
  \/ DropErrand(c)

TravelSpec == TravelInit /\ [][TravelNext]_travelVars

-----------------------------------------------------------------------------
(* There is an advance more or a claim more than one only by a write on what
   had changed since it was read. *)
TravelTypeOK ==
  /\ trip.status \in {"requested", "approved", "denied", "gone"}
  /\ trip.advances \in Seq(AdvanceRow) /\ trip.claims \in Seq(ClaimRow)
  /\ booked \in -MaxBooked..MaxBooked
  /\ slipped \in BOOLEAN
  /\ ~slipped => Len(trip.advances) <= 1 /\ Len(trip.claims) <= 1

(* With no request under way, the ledger holds the advance until the claim is
   reconciled and what was spent from then on, whatever the order of advances,
   claims, edits and refusals, and only an approved trip costs anything
   (advance/route.ts:61, reconcile/route.ts:47): unless a request wrote what had
   changed since it read it or ended without the row of its entry.  An advance
   issued after the reconciliation is never settled and comes on top. *)
TripIsSettled ==
  (~slipped /\ \A c \in TravelCalls : Idle(c)) =>
    LET sum(late) == IF trip.advances # <<>> /\ (late => trip.advances[1].late)
                     THEN trip.advances[1].amount ELSE 0
    IN /\ trip.advances # <<>> \/ trip.claims # <<>> => trip.status = "approved"
       /\ booked = IF trip.claims # <<>> /\ ~Open(1)
                   THEN trip.claims[1].spent + sum(TRUE)
                   ELSE sum(FALSE)

=============================================================================
