------------------------------- MODULE TimeOff -------------------------------
(***************************************************************************)
(* Time off of one worker: requests, their approval, and the balances it   *)
(* draws on.  A balance is kept per worker and type, and a worker may be   *)
(* known by two identifiers, the account and the entry of the roster: a    *)
(* request made by the worker carries the account's, an accrual run the    *)
(* roster's, so each is a balance of its own here as in the table.         *)
(*                                                                         *)
(* Every query is a transaction.  An approval is four of them: the route   *)
(* reads the request, the store reads it again, sets its status, and reads *)
(* and writes the balance.                                                 *)
(***************************************************************************)
EXTENDS Integers, Sequences, SequencesExt

CONSTANTS Requests,    \* pto_requests
          Accounts,    \* identifiers a balance is kept under
          Clerks,      \* handlers in flight
          Hours,       \* hours of a request or a credit
          MaxCredits   \* bound: credits and accrual runs

ASSUME HoursAssumption == Hours \subseteq Nat \ {0} /\ MaxCredits \in Nat

VARIABLES
  request,   \* status, balance it draws on, hours
  balance,   \* pto_balances: the rows of each identifier, oldest first
  clerk,     \* what each handler in flight has read
  credits,   \* bound on credits
  due,       \* history: what the balances ought to be
  muddled    \* history: two handlers were in flight together, or one died

offVars == <<request, balance, clerk, credits, due, muddled>>

NoClerk == [step |-> "none"]

OffInit ==
  /\ request = [r \in Requests |-> [status |-> "none", of |-> "none", hours |-> 0]]
  /\ balance = [a \in Accounts |-> <<>>]
  /\ clerk = [c \in Clerks |-> NoClerk]
  /\ credits = 0
  /\ due = [a \in Accounts |-> 0]
  /\ muddled = FALSE

ClerksBusy(C) == \E c \in C : clerk[c] # NoClerk

Occupy(c, o) ==
  /\ clerk' = [clerk EXCEPT ![c] = o]
  /\ muddled' = (muddled \/ ClerksBusy(Clerks \ {c}))

Free(c) == Occupy(c, NoClerk)

-----------------------------------------------------------------------------
(* Requests. *)

\* Created as a draft or handed in at once; a positive number of hours, or none.
CreateRequest(r, a, h, status) ==
  /\ request[r].status = "none"
  /\ request' = [request EXCEPT ![r] = [status |-> status, of |-> a, hours |-> h]]
  /\ UNCHANGED <<balance, clerk, credits, due, muddled>>

\* Mutant: an approved request may still be cancelled.
MayMoveLate(r, next) ==
  CASE next = "submitted" -> request[r].status = "draft"
    [] next = "cancelled" -> request[r].status \in {"draft", "submitted", "approved"}
    [] OTHER -> request[r].status = "submitted"

MayMove(r, next) ==
  CASE next = "submitted" -> request[r].status = "draft"
    [] next = "cancelled" -> request[r].status \in {"draft", "submitted"}
    [] OTHER -> request[r].status = "submitted"

RouteReads(c, r, next) ==
  /\ clerk[c] = NoClerk
  /\ MayMove(r, next)
  /\ Occupy(c, [step |-> "store", request |-> r, next |-> next])
  /\ UNCHANGED <<request, balance, credits, due>>

StoreReads(c) ==
  /\ clerk[c].step = "store"
  /\ Occupy(c, [step |-> "status", request |-> clerk[c].request, next |-> clerk[c].next,
                was |-> request[clerk[c].request].status])
  /\ UNCHANGED <<request, balance, credits, due>>

\* What a request of this status takes from its balance.
Drawn(status, hours) == IF status = "approved" THEN hours ELSE 0

StatusWritten(c) ==
  LET k == clerk[c]
      row == request[k.request]
      draws == k.next = "approved" /\ k.was # "approved" /\ row.hours > 0 IN
    /\ k.step = "status"
    /\ request' = [request EXCEPT ![k.request].status = k.next]
    /\ due' = [due EXCEPT ![row.of] =
                @ + Drawn(row.status, row.hours) - Drawn(k.next, row.hours)]
    /\ IF draws
         THEN Occupy(c, [step |-> "read", of |-> row.of, mode |-> "adjust", hours |-> -row.hours])
         ELSE Free(c)
    /\ UNCHANGED <<balance, credits>>

-----------------------------------------------------------------------------
(* Balances: upsertPtoBalance, called by an approval, by the route of the    *)
(* balances, and for each result of an accrual run.                          *)

Credit(c, a, h, mode) ==
  /\ clerk[c] = NoClerk
  /\ credits < MaxCredits
  /\ credits' = credits + 1
  /\ Occupy(c, [step |-> "read", of |-> a, mode |-> mode, hours |-> h])
  /\ due' = [due EXCEPT ![a] = IF mode = "set" THEN h ELSE @ + h]
  /\ UNCHANGED <<request, balance>>

\* The row found, if there are several, is any of them.
BalanceRead(c) ==
  LET k == clerk[c] IN
    /\ k.step = "read"
    /\ \E row \in IF balance[k.of] = <<>> THEN {0} ELSE DOMAIN balance[k.of] :
         Occupy(c, [step |-> "write", of |-> k.of, mode |-> k.mode, hours |-> k.hours,
                    row |-> row, held |-> IF row = 0 THEN 0 ELSE balance[k.of][row]])
    /\ UNCHANGED <<request, balance, credits, due>>

\* Mutant: an adjustment of a balance that exists replaces it.
NewBalanceSet(k) == k.hours

NewBalance(k) == IF k.mode = "set" \/ k.row = 0 THEN k.hours ELSE k.held + k.hours

BalanceWritten(c) ==
  LET k == clerk[c] IN
    /\ k.step = "write"
    /\ balance' = [balance EXCEPT ![k.of] =
         IF k.row = 0 THEN Append(@, NewBalance(k)) ELSE ReplaceAt(@, k.row, NewBalance(k))]
    /\ Free(c)
    /\ UNCHANGED <<request, credits, due>>

\* The handler dies between two of its queries: what it wrote stays.
ClerkDies(c) ==
  /\ clerk[c] # NoClerk
  /\ clerk' = [clerk EXCEPT ![c] = NoClerk]
  /\ muddled' = TRUE
  /\ UNCHANGED <<request, balance, credits, due>>

OffNext ==
  \/ \E r \in Requests, a \in Accounts, h \in Hours \union {0}, s \in {"draft", "submitted"} :
       CreateRequest(r, a, h, s)
  \/ \E c \in Clerks :
       \/ \E r \in Requests, next \in {"submitted", "approved", "rejected", "cancelled"} :
            RouteReads(c, r, next)
       \/ \E a \in Accounts, h \in Hours, mode \in {"set", "adjust"} : Credit(c, a, h, mode)
       \/ StoreReads(c) \/ StatusWritten(c) \/ BalanceRead(c) \/ BalanceWritten(c)
       \/ ClerkDies(c)

OffSpec == OffInit /\ [][OffNext]_offVars

-----------------------------------------------------------------------------
(* What must hold. *)

OffTypeOK ==
  /\ \A r \in Requests :
       /\ request[r].status \in {"none", "draft", "submitted", "approved", "rejected", "cancelled"}
       /\ request[r].hours \in Hours \union {0}
  /\ \A a \in Accounts : balance[a] \in Seq(Int)
  /\ due \in [Accounts -> Int]
  /\ credits \in 0..MaxCredits /\ muddled \in BOOLEAN

\* The books balance: when handlers follow one another, each identifier has at
\* most one row, and it holds what was credited less the hours of what is
\* approved, whatever was set, drafted, refused or cancelled in between; no
\* request leaves "approved" and keeps what it drew
\* (drizzle-adapter.ts:980, :1045, pto/[id]/route.ts:49).
BooksBalance ==
  ~muddled /\ ~ClerksBusy(Clerks) =>
    \A a \in Accounts :
      /\ Len(balance[a]) <= 1
      /\ due[a] = IF balance[a] = <<>> THEN 0 ELSE Head(balance[a])
=============================================================================
