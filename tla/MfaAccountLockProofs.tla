------------------------ MODULE MfaAccountLockProofs ------------------------
(***************************************************************************)
(* Mutual exclusion of `withMfaAccountLock`, its first-come-first-served   *)
(* order inside a process, and the refinement of AccountMutex, for every   *)
(* number of replicas and requests.                                        *)
(***************************************************************************)
EXTENDS MfaAccountLock, TLAPS

Peers(q1, q2) == Home[q1] = Home[q2]

(* A map entry names a request that the process still serves. *)
TailLive ==
  \A r \in Replicas : tail[r] # NoRequest =>
    tail[r] \in Requests /\ Home[tail[r]] = r /\ Live(tail[r])

(* The map entry is the youngest of the requests in service. *)
TailYoungest ==
  \A q \in Requests : Live(q) =>
    tail[Home[q]] # NoRequest /\ ticket[q] <= ticket[tail[Home[q]]]

(* Tickets are handed out in order, one per request. *)
TicketsDistinct ==
  /\ \A q \in Requests : Live(q) => ticket[q] <= tickets
  /\ \A q1, q2 \in Requests :
       Live(q1) /\ Live(q2) /\ ticket[q1] = ticket[q2] => q1 = q2

(* A request awaits the one that joined its process' queue just before. *)
PreviousIsNeighbour ==
  \A q \in Requests : previous[q] # NoRequest =>
    /\ pc[q] = "queued"
    /\ Live(previous[q])
    /\ Peers(previous[q], q)
    /\ ticket[previous[q]] < ticket[q]
    /\ \A x \in Requests : Live(x) /\ Peers(x, q) =>
         ~(ticket[previous[q]] < ticket[x] /\ ticket[x] < ticket[q])

(* A request that awaits nobody is the oldest of its process. *)
HeadIsOldest ==
  \A q \in Requests : Live(q) /\ previous[q] = NoRequest =>
    \A x \in Requests : Live(x) /\ Peers(x, q) => ticket[q] <= ticket[x]

(* With PostgreSQL, the request at work holds the account row. *)
RowLockOwner ==
  /\ rowLock # NoRequest => pc[rowLock] = "working"
  /\ Postgres => \A q \in Requests : pc[q] = "working" => rowLock = q

IInv ==
  /\ TypeOK
  /\ TailLive
  /\ TailYoungest
  /\ TicketsDistinct
  /\ PreviousIsNeighbour
  /\ HeadIsOldest
  /\ RowLockOwner

USE DEF Peers, Live

(* The initial state has no request in service. *)
LEMMA InitIInv == Init => IInv
BY HomeAssumption, NoRequestAssumption
   DEF Init, IInv, TypeOK, Stages, TailLive, TailYoungest, TicketsDistinct,
       PreviousIsNeighbour, HeadIsOldest, RowLockOwner

(* Every step keeps the variables in their types. *)
LEMMA TypeStep == TypeOK /\ [Next]_vars => TypeOK'
<1> SUFFICES ASSUME TypeOK, [Next]_vars PROVE TypeOK'
  OBVIOUS
<1> USE HomeAssumption, NoRequestAssumption, PostgresAssumption DEF TypeOK, Stages
<1>1. ASSUME NEW q \in Requests, Enqueue(q) PROVE TypeOK'
  BY <1>1 DEF Enqueue
<1>2. ASSUME NEW q \in Requests, Step(q) PROVE TypeOK'
  BY <1>2 DEF Step, TakeTurn, LockRow, LockFails, EndWork, Release
<1>3. ASSUME NEW r \in Replicas, Crash(r) PROVE TypeOK'
  BY <1>3 DEF Crash
<1>4. CASE UNCHANGED vars
  BY <1>4 DEF vars
<1> QED
  BY <1>1, <1>2, <1>3, <1>4 DEF Next

(* Joining the queue puts a request behind all the others of its process. *)
LEMMA EnqueueIInv ==
  ASSUME IInv, TypeOK', NEW q \in Requests, Enqueue(q) PROVE IInv'
<1> USE HomeAssumption, NoRequestAssumption DEF IInv, TypeOK, Stages, Enqueue
<1>1. TailLive'
  BY DEF TailLive
<1>2. TailYoungest'
  BY DEF TailYoungest, TicketsDistinct, TailLive
<1>3. TicketsDistinct'
  BY DEF TicketsDistinct
<1>4. PreviousIsNeighbour'
  <2> SUFFICES ASSUME NEW w \in Requests, previous'[w] # NoRequest
               PROVE  /\ pc'[w] = "queued"
                      /\ pc'[previous'[w]] # "idle"
                      /\ Home[previous'[w]] = Home[w]
                      /\ ticket'[previous'[w]] < ticket'[w]
                      /\ \A x \in Requests : pc'[x] # "idle" /\ Home[x] = Home[w] =>
                           ~(ticket'[previous'[w]] < ticket'[x] /\ ticket'[x] < ticket'[w])
    BY DEF PreviousIsNeighbour
  <2>1. CASE w = q
    <3>1. previous'[w] = tail[Home[q]] /\ tail[Home[q]] \in Requests
      BY <2>1
    <3>2. Home[tail[Home[q]]] = Home[q] /\ pc[tail[Home[q]]] # "idle"
      BY <3>1, <2>1 DEF TailLive
    <3>3. tail[Home[q]] # q
      BY <3>2
    <3>4. ticket[tail[Home[q]]] <= tickets
      BY <3>1, <3>2 DEF TicketsDistinct
    <3> QED
      BY <2>1, <3>1, <3>2, <3>3, <3>4 DEF TailYoungest
  <2>2. CASE w # q
    <3>1. previous'[w] = previous[w] /\ previous[w] \in Requests /\ pc[w] = "queued"
      BY <2>2 DEF PreviousIsNeighbour
    <3>2. pc[previous[w]] # "idle" /\ previous[w] # q
      BY <2>2, <3>1 DEF PreviousIsNeighbour
    <3>3. ticket[w] <= tickets
      BY <3>1 DEF TicketsDistinct
    <3> QED
      BY <2>2, <3>1, <3>2, <3>3 DEF PreviousIsNeighbour
  <2> QED
    BY <2>1, <2>2
<1>5. HeadIsOldest'
  BY DEF HeadIsOldest, TailYoungest, TicketsDistinct
<1>6. RowLockOwner'
  BY DEF RowLockOwner
<1> QED
  BY <1>1, <1>2, <1>3, <1>4, <1>5, <1>6

(* Moving from one stage in service to a later one disturbs no queue. *)
LEMMA StageIInv ==
  ASSUME IInv, TypeOK', NEW q \in Requests,
         TakeTurn(q) \/ LockRow(q) \/ LockFails(q) \/ EndWork(q)
  PROVE  IInv'
<1> USE HomeAssumption, NoRequestAssumption, PostgresAssumption
    DEF IInv, TypeOK, Stages, TakeTurn, LockRow, LockFails, EndWork
<1>0. /\ UNCHANGED <<tail, previous, ticket, tickets>>
      /\ \A x \in Requests : pc'[x] # "idle" <=> pc[x] # "idle"
      /\ \A x \in Requests : previous[x] # NoRequest => pc'[x] = pc[x]
  BY DEF PreviousIsNeighbour
<1>1. TailLive'
  BY <1>0 DEF TailLive
<1>2. TailYoungest'
  BY <1>0 DEF TailYoungest
<1>3. TicketsDistinct'
  BY <1>0 DEF TicketsDistinct
<1>4. PreviousIsNeighbour'
  BY <1>0 DEF PreviousIsNeighbour
<1>5. HeadIsOldest'
  BY <1>0 DEF HeadIsOldest
<1>6. RowLockOwner'
  BY DEF RowLockOwner
<1> QED
  BY <1>1, <1>2, <1>3, <1>4, <1>5, <1>6

(* The successor of the oldest request becomes the oldest. *)
LEMMA ReleaseIInv ==
  ASSUME IInv, TypeOK', NEW q \in Requests, Release(q) PROVE IInv'
<1> USE HomeAssumption, NoRequestAssumption DEF IInv, TypeOK, Stages, Release
<1>0. /\ previous[q] = NoRequest
      /\ \A x \in Requests : pc[x] # "idle" /\ Home[x] = Home[q] /\ x # q
                               => ticket[q] < ticket[x]
  BY DEF PreviousIsNeighbour, HeadIsOldest, TicketsDistinct
<1>1. TailLive'
  BY <1>0 DEF TailLive
<1>2. TailYoungest'
  BY <1>0 DEF TailYoungest, TailLive
<1>3. TicketsDistinct'
  BY DEF TicketsDistinct
<1>4. PreviousIsNeighbour'
  BY DEF PreviousIsNeighbour
<1>5. HeadIsOldest'
  <2> SUFFICES ASSUME NEW w \in Requests, pc'[w] # "idle", previous'[w] = NoRequest,
                      NEW x \in Requests, pc'[x] # "idle", Home[x] = Home[w]
               PROVE  ticket[w] <= ticket[x]
    BY DEF HeadIsOldest
  <2>1. CASE previous[w] = q
    BY <2>1, <1>0 DEF PreviousIsNeighbour
  <2>2. CASE previous[w] = NoRequest
    BY <2>2 DEF HeadIsOldest
  <2> QED
    BY <2>1, <2>2
<1>6. RowLockOwner'
  BY DEF RowLockOwner
<1> QED
  BY <1>1, <1>2, <1>3, <1>4, <1>5, <1>6

(* A crash empties one process' queue and leaves the others alone. *)
LEMMA CrashIInv ==
  ASSUME IInv, TypeOK', NEW r \in Replicas, Crash(r) PROVE IInv'
<1> USE HomeAssumption, NoRequestAssumption DEF IInv, TypeOK, Stages, Crash
<1>1. TailLive'
  BY DEF TailLive
<1>2. TailYoungest'
  BY DEF TailYoungest
<1>3. TicketsDistinct'
  BY DEF TicketsDistinct
<1>4. PreviousIsNeighbour'
  BY DEF PreviousIsNeighbour
<1>5. HeadIsOldest'
  BY DEF HeadIsOldest
<1>6. RowLockOwner'
  BY DEF RowLockOwner
<1> QED
  BY <1>1, <1>2, <1>3, <1>4, <1>5, <1>6

(* Every step preserves the inductive invariant. *)
LEMMA NextIInv == IInv /\ [Next]_vars => IInv'
<1> SUFFICES ASSUME IInv, [Next]_vars PROVE IInv'
  OBVIOUS
<1>0. TypeOK'
  BY TypeStep DEF IInv
<1>1. ASSUME NEW q \in Requests, Enqueue(q) PROVE IInv'
  BY <1>0, <1>1, EnqueueIInv
<1>2. ASSUME NEW q \in Requests, Step(q) PROVE IInv'
  BY <1>0, <1>2, StageIInv, ReleaseIInv DEF Step
<1>3. ASSUME NEW r \in Replicas, Crash(r) PROVE IInv'
  BY <1>0, <1>3, CrashIInv
<1>4. CASE UNCHANGED vars
  BY <1>4 DEF vars, IInv, TypeOK, Stages, TailLive, TailYoungest, TicketsDistinct,
       PreviousIsNeighbour, HeadIsOldest, RowLockOwner
<1> QED
  BY <1>1, <1>2, <1>3, <1>4 DEF Next

(* The inductive invariant holds of every behaviour of the lock. *)
THEOREM LockInvariant == Spec => []IInv
  BY InitIInv, NextIInv, PTL DEF Spec

(* What the invariant says about the requests past `await previous`. *)
LEMMA IInvImplies ==
  IInv => MutualExclusion /\ OneHeadPerProcess /\ ServedInOrder
            /\ MapEntryIffInUse /\ RowLockHeldByWorker
<1> SUFFICES ASSUME IInv
             PROVE  MutualExclusion /\ OneHeadPerProcess /\ ServedInOrder
                      /\ MapEntryIffInUse /\ RowLockHeldByWorker
  OBVIOUS
<1> USE HomeAssumption, NoRequestAssumption DEF IInv, TypeOK
<1>1. \A q \in Requests : pc[q] \in {"locking", "working", "releasing"}
                            => previous[q] = NoRequest
  BY DEF PreviousIsNeighbour
<1>2. ServedInOrder
  BY <1>1 DEF ServedInOrder, HeadIsOldest
<1>3. OneHeadPerProcess
  BY <1>2 DEF ServedInOrder, OneHeadPerProcess, TicketsDistinct
<1>4. MutualExclusion
  <2>1. CASE Postgres
    BY <2>1 DEF MutualExclusion, RowLockOwner
  <2>2. CASE ~Postgres
    BY <2>2, <1>3, OneProcessAssumption DEF MutualExclusion, OneHeadPerProcess
  <2> QED
    BY <2>1, <2>2
<1>5. MapEntryIffInUse
  BY DEF MapEntryIffInUse, TailLive, TailYoungest
<1>6. RowLockHeldByWorker
  BY DEF RowLockHeldByWorker, RowLockOwner
<1> QED
  BY <1>2, <1>3, <1>4, <1>5, <1>6

(***************************************************************************)
(* No two requests ever run their work for the account at once, in either  *)
(* backend and for any number of replicas (mfa-account-lock.ts:26).        *)
(***************************************************************************)
THEOREM LockExcludes == Spec => []MutualExclusion
  BY LockInvariant, IInvImplies, PTL

(* A process serves its requests for the account in the order they came. *)
THEOREM LockServesInOrder == Spec => []ServedInOrder
  BY LockInvariant, IInvImplies, PTL

(* The process-wide map holds an entry exactly while it is needed. *)
THEOREM LockMapTidy == Spec => []MapEntryIffInUse
  BY LockInvariant, IInvImplies, PTL

-----------------------------------------------------------------------------

(* The request at work is the one the abstract mutex calls its holder. *)
LEMMA HolderIsWorker ==
  ASSUME TypeOK, MutualExclusion
  PROVE  /\ \A q \in Requests : pc[q] = "working" <=> Holder = q
         /\ Holder \in Requests \cup {NoRequest}
BY NoRequestAssumption DEF TypeOK, MutualExclusion, Holder

(* The lock starts free and unasked for. *)
LEMMA InitAbstract == Init => Abstract!Init
BY DEF Init, Abstract!Init, Asking, Holder

(* Every step of the lock is a step of the mutex, or leaves it unchanged. *)
LEMMA NextAbstract ==
  ASSUME IInv, IInv', [Next]_vars PROVE [Abstract!Next]_(Abstract!vars)
<1> USE NoRequestAssumption, HomeAssumption DEF TypeOK, Stages
<1>a. TypeOK /\ TypeOK' /\ MutualExclusion /\ OneHeadPerProcess
  BY IInvImplies DEF IInv
<1>b. MutualExclusion'
  BY IInvImplies, PTL
<1>c. /\ \A q \in Requests : pc[q] = "working" <=> Holder = q
      /\ Holder \in Requests \cup {NoRequest}
  BY <1>a, HolderIsWorker
<1>d. /\ \A q \in Requests : pc'[q] = "working" <=> Holder' = q
      /\ Holder' \in Requests \cup {NoRequest}
  BY <1>a, <1>b, NoRequestAssumption DEF TypeOK, MutualExclusion, Holder
<1>1. ASSUME NEW q \in Requests, Enqueue(q) PROVE Abstract!Ask(q)
  BY <1>1, <1>a, <1>c, <1>d DEF Enqueue, Abstract!Ask, Asking
<1>2. ASSUME NEW q \in Requests, TakeTurn(q), Postgres
      PROVE  UNCHANGED <<Asking, Holder>>
  BY <1>2, <1>a, <1>c, <1>d DEF TakeTurn, Asking
<1>3. ASSUME NEW q \in Requests, TakeTurn(q), ~Postgres PROVE Abstract!Grant(q)
  <2>1. Holder = NoRequest
    <3> SUFFICES ASSUME Holder # NoRequest PROVE FALSE
      OBVIOUS
    <3>1. PICK w \in Requests : pc[w] = "working"
      BY <1>c
    <3>2. pc'[w] = "working" /\ pc'[q] = "working" /\ w # q
      BY <3>1, <1>3, <1>a DEF TakeTurn
    <3> QED
      BY <3>2, <1>b DEF MutualExclusion
  <2> QED
    BY <2>1, <1>3, <1>a, <1>d DEF TakeTurn, Abstract!Grant, Asking
<1>4. ASSUME NEW q \in Requests, LockRow(q) PROVE Abstract!Grant(q)
  <2>1. Holder = NoRequest
    <3> SUFFICES ASSUME Holder # NoRequest PROVE FALSE
      OBVIOUS
    <3>1. PICK w \in Requests : pc[w] = "working"
      BY <1>c
    <3>2. pc'[w] = "working" /\ pc'[q] = "working" /\ w # q
      BY <3>1, <1>4, <1>a DEF LockRow
    <3> QED
      BY <3>2, <1>b DEF MutualExclusion
  <2> QED
    BY <2>1, <1>4, <1>a, <1>d DEF LockRow, Abstract!Grant, Asking
<1>5. ASSUME NEW q \in Requests, LockFails(q) PROVE Abstract!GiveUp({q})
  BY <1>5, <1>a, <1>c, <1>d DEF LockFails, Abstract!GiveUp, Asking
<1>6. ASSUME NEW q \in Requests, EndWork(q) PROVE Abstract!GiveBack
  BY <1>6, <1>a, <1>c, <1>d DEF EndWork, Abstract!GiveBack, Asking
<1>7. ASSUME NEW q \in Requests, Release(q) PROVE UNCHANGED <<Asking, Holder>>
  BY <1>7, <1>a, <1>c, <1>d DEF Release, Asking
<1>8. ASSUME NEW r \in Replicas, Crash(r)
      PROVE  Abstract!GiveUp({q \in Requests : Home[q] = r})
  BY <1>8, <1>a, <1>c, <1>d DEF Crash, Abstract!GiveUp, Asking
<1>9. CASE UNCHANGED vars
  BY <1>9 DEF vars, Abstract!vars, Asking, Holder
<1> QED
  BY <1>1, <1>2, <1>3, <1>4, <1>5, <1>6, <1>7, <1>8, <1>9
     DEF Next, Step, Abstract!Next, Abstract!vars

(***************************************************************************)
(* The promise chain and the row lock implement the mutex that the callers *)
(* of withMfaAccountLock count on.                                         *)
(***************************************************************************)
THEOREM LockImplementsMutex == Spec => ImplementsMutex
<1>1. IInv /\ IInv' /\ [Next]_vars => [Abstract!Next]_(Abstract!vars)
  BY NextAbstract
<1> QED
  BY <1>1, InitAbstract, LockInvariant, PTL DEF Spec, ImplementsMutex, Abstract!Spec

=============================================================================
