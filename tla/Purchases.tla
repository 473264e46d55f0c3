------------------------------ MODULE Purchases ------------------------------
(***************************************************************************)
(* One expense submission, a purchase an officer made for the local, from   *)
(* draft to decision, and the ledger entry its approval books               *)
(* (lib/expenses/drizzle-adapter.ts behind api/expenses).                   *)
(*                                                                         *)
(* As for trips, each store call is a transaction that locks no row, the    *)
(* approval books in the ledger before the store decides whether it may     *)
(* approve, and nothing takes the entry back.  Attachments, texts and       *)
(* manual changes of the ledger are left out.                               *)
(***************************************************************************)
EXTENDS Naturals

CONSTANTS
  PurchaseCalls,   \* requests under way at a time
  Totals,          \* amounts of money
  MaxPaid          \* bound on what the ledger may hold for the purchase

ASSUME PurchaseAssumption == Totals \subseteq Nat \ {0} /\ MaxPaid \in Nat

VARIABLES
  purchase,    \* [status, total]: the row
  paid,        \* what the ledger holds for it
  matter,      \* [PurchaseCalls]: what a request is doing
  strayed      \* history: a request wrote what had changed since it read it, or
               \* left its ledger entry behind

purchaseVars == <<purchase, paid, matter, strayed>>

NoMatter == [at |-> "idle"]

PurchaseInit ==
  /\ purchase \in [status : {"draft"}, total : Totals]
  /\ paid = 0
  /\ matter = [c \in PurchaseCalls |-> NoMatter]
  /\ strayed = FALSE

(* Bound: no request begins once one has strayed. *)
Comes(c) == matter[c] = NoMatter /\ ~strayed
EndMatter(c) == matter' = [matter EXCEPT ![c] = NoMatter]
Takes(c, m) == matter' = [matter EXCEPT ![c] = m]

(* update reads a draft and writes lines, its own or those it read, and perhaps
   the status; `total` is the sum of the lines. *)
ReadForUpdate(c, total, submits) ==
  /\ Comes(c)
  /\ purchase.status = "draft"
  /\ Takes(c, [at |-> "updating", total |-> total, submits |-> submits, seen |-> purchase])
  /\ UNCHANGED <<purchase, paid, strayed>>

WriteAfter(c, row) ==
  /\ IF purchase.status = "gone" THEN UNCHANGED <<purchase, strayed>>
     ELSE purchase' = row /\ strayed' = (strayed \/ purchase # matter[c].seen)
  /\ EndMatter(c)
  /\ UNCHANGED paid

UpdatePurchase(c) ==
  LET m == matter[c] IN
    /\ m.at = "updating"
    /\ WriteAfter(c, [status |-> IF m.submits THEN "submitted" ELSE purchase.status,
                      total |-> m.total])

(* Mutant: the route of removal does not look at the status *)
DecisionsOfAny == {<<"draft", "submitted">>, <<"submitted", "denied">>}
                    \cup ({"draft", "submitted", "denied", "approved"} \X {"gone"})

(* submit reads a draft, deny a submission, and the route of removal whatever is
   not approved; each sets the status alone. *)
Decisions == {<<"draft", "submitted">>, <<"submitted", "denied">>,
              <<"draft", "gone">>, <<"submitted", "gone">>, <<"denied", "gone">>}

ReadForDecision(c, to) ==
  /\ Comes(c)
  /\ <<purchase.status, to>> \in Decisions
  /\ Takes(c, [at |-> "deciding", to |-> to, seen |-> purchase])
  /\ UNCHANGED <<purchase, paid, strayed>>

DecidePurchase(c) ==
  /\ matter[c].at = "deciding"
  /\ WriteAfter(c, [purchase EXCEPT !.status = matter[c].to])

(* POST approve reads a submission and books its total. *)
BookPurchase(c) ==
  /\ Comes(c)
  /\ purchase.status = "submitted"
  /\ paid + purchase.total <= MaxPaid
  /\ paid' = paid + purchase.total
  /\ Takes(c, [at |-> "booked", seen |-> purchase])
  /\ UNCHANGED <<purchase, strayed>>

(* approve reads it again; refused, the entry stays. *)
RecheckPurchase(c) ==
  /\ matter[c].at = "booked"
  /\ IF purchase.status = "submitted"
     THEN Takes(c, [matter[c] EXCEPT !.at = "approving"]) /\ UNCHANGED strayed
     ELSE EndMatter(c) /\ strayed' = TRUE
  /\ UNCHANGED <<purchase, paid>>

ApprovePurchase(c) ==
  /\ matter[c].at = "approving"
  /\ purchase' = IF purchase.status = "gone" THEN purchase
                 ELSE [purchase EXCEPT !.status = "approved"]
  /\ strayed' = (strayed \/ purchase # matter[c].seen)
  /\ EndMatter(c)
  /\ UNCHANGED paid

(* The process dies. *)
DropMatter(c) ==
  /\ matter[c] # NoMatter
  /\ strayed' = (strayed \/ matter[c].at \in {"booked", "approving"})
  /\ EndMatter(c)
  /\ UNCHANGED <<purchase, paid>>

PurchaseNext == \E c \in PurchaseCalls :
  \/ \E total \in Totals, submits \in BOOLEAN : ReadForUpdate(c, total, submits)
  \/ \E decision \in Decisions : ReadForDecision(c, decision[2])
  \/ UpdatePurchase(c) \/ DecidePurchase(c)
  \/ BookPurchase(c) \/ RecheckPurchase(c) \/ ApprovePurchase(c)
  \/ DropMatter(c)

PurchaseSpec == PurchaseInit /\ [][PurchaseNext]_purchaseVars

-----------------------------------------------------------------------------
PurchaseTypeOK ==
  /\ purchase \in [status : {"draft", "submitted", "approved", "denied", "gone"},
                   total : Totals]
  /\ paid \in 0..MaxPaid
  /\ strayed \in BOOLEAN

(* With no request under way, the ledger holds the total of a purchase that is
   approved, in the amount it has now, and nothing for any other
   (approve/route.ts:42, drizzle-adapter.ts:158): unless a request wrote what
   had changed since it read it or left its entry behind. *)
PurchaseIsPaidOnce ==
  (~strayed /\ \A c \in PurchaseCalls : matter[c] = NoMatter) =>
    paid = IF purchase.status = "approved" THEN purchase.total ELSE 0

=============================================================================
