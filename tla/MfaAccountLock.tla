--------------------------- MODULE MfaAccountLock ---------------------------
(***************************************************************************)
(* src/lib/auth/mfa-account-lock.ts for one account.                       *)
(*                                                                         *)
(* A request first joins a chain of promises kept in the process-wide map  *)
(* `processQueues`: it remembers the promise that was last in the map,     *)
(* puts its own there, and awaits the remembered one.  With the PostgreSQL *)
(* backend it then opens a transaction and takes the account's row with    *)
(* SELECT ... FOR UPDATE, so that replicas exclude one another too.  The   *)
(* `finally` block resolves the request's promise after the transaction    *)
(* ended and drops the map entry when nobody queued behind it.             *)
(*                                                                         *)
(* Promises are named by the request that created them: `tail[r]` is the   *)
(* promise in replica r's map, `previous[q]` the unresolved promise that q *)
(* awaits.  A replica may die at any time; the database then rolls back    *)
(* the transactions it had open.                                           *)
(***************************************************************************)
EXTENDS Naturals

CONSTANTS
  Replicas,     \* server processes
  Requests,     \* requests for the account
  Home,         \* [Requests -> Replicas]: the process that serves a request
  Postgres,     \* AUTH_USERS_BACKEND=postgres with a configured database
  NoRequest,
  MaxTickets    \* bound on how often requests join a queue

ASSUME HomeAssumption == Home \in [Requests -> Replicas]
ASSUME NoRequestAssumption == NoRequest \notin Requests
ASSUME PostgresAssumption == Postgres \in BOOLEAN
ASSUME MaxTicketsAssumption == MaxTickets \in Nat
(* The memory backend is documented for one process only. *)
ASSUME OneProcessAssumption ==
  ~Postgres => \A r1, r2 \in Replicas : r1 = r2

VARIABLES
  pc,         \* [Requests -> Stages]
  tail,       \* [Replicas -> Requests or NoRequest]: processQueues.get(userId)
  previous,   \* [Requests -> Requests or NoRequest]
  rowLock,    \* transaction that holds the account row
  ticket,     \* history: the order in which requests joined the queues
  tickets     \* history: tickets handed out so far

vars == <<pc, tail, previous, rowLock, ticket, tickets>>

Stages == {"idle", "queued", "locking", "working", "releasing"}

Live(q) == pc[q] # "idle"

TypeOK ==
  /\ pc \in [Requests -> Stages]
  /\ tail \in [Replicas -> Requests \cup {NoRequest}]
  /\ previous \in [Requests -> Requests \cup {NoRequest}]
  /\ rowLock \in Requests \cup {NoRequest}
  /\ ticket \in [Requests -> Nat]
  /\ tickets \in Nat

Init ==
  /\ pc = [q \in Requests |-> "idle"]
  /\ tail = [r \in Replicas |-> NoRequest]
  /\ previous = [q \in Requests |-> NoRequest]
  /\ rowLock = NoRequest
  /\ ticket = [q \in Requests |-> 0]
  /\ tickets = 0

(* processQueues.get(userId) ?? Promise.resolve(); processQueues.set(...) *)
Enqueue(q) ==
  /\ pc[q] = "idle"
  /\ tickets < MaxTickets
  /\ pc' = [pc EXCEPT ![q] = "queued"]
  /\ previous' = [previous EXCEPT ![q] = tail[Home[q]]]
  /\ tail' = [tail EXCEPT ![Home[q]] = q]
  /\ tickets' = tickets + 1
  /\ ticket' = [ticket EXCEPT ![q] = tickets + 1]
  /\ UNCHANGED rowLock

(* `await previous` returns; the memory backend goes straight to work(). *)
TakeTurn(q) ==
  /\ pc[q] = "queued"
  /\ previous[q] = NoRequest
  /\ pc' = [pc EXCEPT ![q] = IF Postgres THEN "locking" ELSE "working"]
  /\ UNCHANGED <<tail, previous, rowLock, ticket, tickets>>

(* Mutant: the account row is read without FOR UPDATE. *)
LockRowUnlocked(q) ==
  /\ pc[q] = "locking"
  /\ rowLock' = q
  /\ pc' = [pc EXCEPT ![q] = "working"]
  /\ UNCHANGED <<tail, previous, ticket, tickets>>

(* SELECT id FROM users WHERE id = userId FOR UPDATE returns the row. *)
LockRow(q) ==
  /\ pc[q] = "locking"
  /\ rowLock = NoRequest
  /\ rowLock' = q
  /\ pc' = [pc EXCEPT ![q] = "working"]
  /\ UNCHANGED <<tail, previous, ticket, tickets>>

(* No such account, or the database fails: the transaction is rolled back. *)
LockFails(q) ==
  /\ pc[q] = "locking"
  /\ pc' = [pc EXCEPT ![q] = "releasing"]
  /\ UNCHANGED <<tail, previous, rowLock, ticket, tickets>>

(* work() returned or threw: COMMIT or ROLLBACK ends the row lock. *)
EndWork(q) ==
  /\ pc[q] = "working"
  /\ rowLock' = IF rowLock = q THEN NoRequest ELSE rowLock
  /\ pc' = [pc EXCEPT ![q] = "releasing"]
  /\ UNCHANGED <<tail, previous, ticket, tickets>>

(* Without release(); and without the `=== current` test before the delete *)
ReleaseUnresolved(q) ==
  /\ pc[q] = "releasing"
  /\ pc' = [pc EXCEPT ![q] = "idle"]
  /\ tail' = [tail EXCEPT ![Home[q]] = IF @ = q THEN NoRequest ELSE @]
  /\ UNCHANGED <<previous, rowLock, ticket, tickets>>

ReleaseDeletes(q) ==
  /\ pc[q] = "releasing"
  /\ pc' = [pc EXCEPT ![q] = "idle"]
  /\ previous' = [w \in Requests |->
                    IF previous[w] = q THEN NoRequest ELSE previous[w]]
  /\ tail' = [tail EXCEPT ![Home[q]] = NoRequest]
  /\ UNCHANGED <<rowLock, ticket, tickets>>

(* finally: release(), and delete the map entry if it is still this one. *)
Release(q) ==
  /\ pc[q] = "releasing"
  /\ pc' = [pc EXCEPT ![q] = "idle"]
  /\ previous' = [w \in Requests |->
                    IF previous[w] = q THEN NoRequest ELSE previous[w]]
  /\ tail' = [tail EXCEPT ![Home[q]] = IF @ = q THEN NoRequest ELSE @]
  /\ UNCHANGED <<rowLock, ticket, tickets>>

(* The process dies with its map; its open transactions are rolled back. *)
Crash(r) ==
  /\ \E q \in Requests : Home[q] = r /\ Live(q)
  /\ pc' = [q \in Requests |-> IF Home[q] = r THEN "idle" ELSE pc[q]]
  /\ previous' = [q \in Requests |->
                    IF Home[q] = r THEN NoRequest ELSE previous[q]]
  /\ tail' = [tail EXCEPT ![r] = NoRequest]
  /\ rowLock' = IF \E q \in Requests : q = rowLock /\ Home[q] = r
                THEN NoRequest ELSE rowLock
  /\ UNCHANGED <<ticket, tickets>>

Step(q) ==
  \/ TakeTurn(q) \/ LockRow(q) \/ LockFails(q) \/ EndWork(q) \/ Release(q)

Next ==
  \/ \E q \in Requests : Enqueue(q) \/ Step(q)
  \/ \E r \in Replicas : Crash(r)

Spec == Init /\ [][Next]_vars

(***************************************************************************)
(* The event loop runs a resolved continuation, a driver call returns, and *)
(* the row lock queue of the database is fair.                             *)
(***************************************************************************)
Fairness ==
  \A q \in Requests :
    /\ WF_vars(TakeTurn(q))
    /\ SF_vars(LockRow(q))
    /\ WF_vars(EndWork(q))
    /\ WF_vars(Release(q))

FairSpec == Spec /\ Fairness

-----------------------------------------------------------------------------
(* Properties *)

(***************************************************************************)
(* The pieces of work of two requests never overlap, whichever processes   *)
(* serve them ("Serialize factor use and grant issuance per account,       *)
(* across processes in Postgres mode", mfa-account-lock.ts:26).            *)
(***************************************************************************)
MutualExclusion ==
  \A q1, q2 \in Requests :
    pc[q1] = "working" /\ pc[q2] = "working" => q1 = q2

(***************************************************************************)
(* Inside one process at most one request is past `await previous`: a      *)
(* request that failed, or whose replica has a long queue, never lets two  *)
(* successors through.                                                     *)
(***************************************************************************)
OneHeadPerProcess ==
  \A q1, q2 \in Requests :
    /\ Home[q1] = Home[q2]
    /\ pc[q1] \in {"locking", "working", "releasing"}
    /\ pc[q2] \in {"locking", "working", "releasing"}
    => q1 = q2

(***************************************************************************)
(* A process serves its requests in the order in which they asked: the one *)
(* past `await previous` is the oldest of those it still serves.           *)
(***************************************************************************)
ServedInOrder ==
  \A q1, q2 \in Requests :
    /\ Home[q1] = Home[q2]
    /\ pc[q1] \in {"locking", "working", "releasing"}
    /\ Live(q2)
    => ticket[q1] <= ticket[q2]

(***************************************************************************)
(* The map keeps an entry exactly while the process has a request for the  *)
(* account: an entry is neither leaked nor dropped under a waiting request *)
(* (the `=== current` test in the finally block).                          *)
(***************************************************************************)
MapEntryIffInUse ==
  \A r \in Replicas :
    tail[r] # NoRequest <=> \E q \in Requests : Home[q] = r /\ Live(q)

(* A row lock is never left behind by a request that is gone. *)
RowLockHeldByWorker ==
  rowLock # NoRequest => rowLock \in Requests /\ pc[rowLock] = "working"

(***************************************************************************)
(* A request that joined the queue is eventually done with it, whatever    *)
(* the requests before it do: neither a failed predecessor nor a crashed   *)
(* replica blocks the account for good.                                    *)
(***************************************************************************)
EveryRequestEnds ==
  \A q \in Requests : Live(q) ~> ~Live(q)

Asking == {q \in Requests : pc[q] \in {"queued", "locking"}}

Holder ==
  IF \E q \in Requests : pc[q] = "working"
  THEN CHOOSE q \in Requests : pc[q] = "working"
  ELSE NoRequest

Abstract == INSTANCE AccountMutex WITH asking <- Asking, holder <- Holder

(* The promise chain and the row lock together implement the mutex. *)
ImplementsMutex == Abstract!Spec

=============================================================================
