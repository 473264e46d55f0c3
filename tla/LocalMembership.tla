--------------------------- MODULE LocalMembership ---------------------------
(***************************************************************************)
(* One account and its seats in the locals of a union: the membership      *)
(* rows, the primary local and the accessible locals of the user's row,    *)
(* the offices that rest on a seat, the portal hall that follows it, and   *)
(* the operations of site administrators and officers on all of these.     *)
(*                                                                         *)
(* An operation reads first and writes later.  Most of what it read was    *)
(* read without a lock, so that two operations on the account may each act *)
(* on what the other has changed.  A transaction is one action, unless     *)
(* another one can act between its statements: the end of a membership     *)
(* looks for offices before it waits for the user's row, and an            *)
(* appointment holds that row while it looks at the seat.                  *)
(***************************************************************************)
EXTENDS FiniteSets, Naturals

CONSTANTS Locals,   \* locals of the union
          NoLocal,
          Desks     \* operations in flight

ASSUME NoLocalAssumption == NoLocal \notin Locals /\ IsFiniteSet(Locals)

VARIABLES
  policy,        \* unions.membership_policy
  account,       \* users: local_id and accessible_local_ids
  seat,          \* local_memberships
  office,        \* officer_assignments not revoked (president or vice president)
  hall,          \* portal_circle_memberships of the halls
  fresh,         \* session_version: no change since the cookie was last renewed
  op,            \* what each operation in flight has read
  overlapped     \* history: two operations were in flight together

seatVars == <<policy, account, seat, office, hall, fresh, op, overlapped>>

NoOp == [kind |-> "none", at |-> NoLocal, primary |-> FALSE, was |-> "none",
         local |-> NoLocal, accessible |-> {}, ends |-> {}, seen |-> {}]

SeatInit ==
  /\ policy = "multi_local"
  /\ account = [local |-> NoLocal, accessible |-> {}]
  /\ seat = [l \in Locals |-> [state |-> "none", primary |-> FALSE]]
  /\ office = {}
  /\ hall = {}
  /\ fresh = TRUE
  /\ op = [d \in Desks |-> NoOp]
  /\ overlapped = FALSE

Active == {l \in Locals : seat[l].state = "active"}
UserLocked == \E d \in Desks : op[d].kind = "appoint"
SeatLocked(l) == \E d \in Desks : op[d].kind = "ending" /\ op[d].at = l
InFlight(D) == \E d \in D : op[d].kind # "none"

\* The unique index: one active primary seat.
Indexed(s) == Cardinality({l \in Locals : s[l].state = "active" /\ s[l].primary}) <= 1

\* What every start, write and end of an operation does beside its own work.
Begin(d, o) ==
  /\ op[d].kind = "none"
  /\ op' = [op EXCEPT ![d] = o]
  /\ overlapped' = (overlapped \/ InFlight(Desks))
  /\ UNCHANGED <<policy, account, seat, office, hall, fresh>>

Finish(d) ==
  /\ op' = [op EXCEPT ![d] = NoOp]
  /\ overlapped' = (overlapped \/ InFlight(Desks \ {d}))
  /\ UNCHANGED policy

AtOnce ==
  /\ overlapped' = (overlapped \/ InFlight(Desks))
  /\ UNCHANGED <<op, policy>>

\* The seats in E end, and the user's row after each was revoked.
Ended(E) == [l \in Locals |-> IF l \in E THEN [state |-> "ended", primary |-> FALSE]
                                         ELSE seat[l]]
PrimaryOf(s) == LET P == {l \in Locals : s[l].state = "active" /\ s[l].primary} IN
  IF P = {} THEN NoLocal ELSE CHOOSE l \in P : TRUE
Revoked(E) ==
  [local |-> IF account.local \in E THEN PrimaryOf(Ended(E)) ELSE account.local,
   accessible |-> account.accessible \ E]

\* Mutant: making a seat primary leaves the other one primary.
OthersStayPrimary(s) == s
NonePrimary(s) == [l \in Locals |-> [s[l] EXCEPT !.primary = FALSE]]

-----------------------------------------------------------------------------
(* Assignment by a site administrator: reads, then one transaction.         *)

AssignRead(d, l, setPrimary, replace) ==
  LET others == Active \ {l}
      single == policy = "single_local" IN
    /\ single /\ others # {} => replace
    /\ Begin(d, [NoOp EXCEPT !.kind = "assign", !.at = l,
         !.primary = setPrimary \/ account.local \in {NoLocal, l},
         !.local = account.local, !.accessible = account.accessible,
         !.ends = IF single THEN others ELSE {}])

Cleared(d, l) ==
  LET rest == Ended(op[d].ends) IN
    IF op[d].primary THEN NonePrimary(rest) ELSE rest

AssignWrite(d) ==
  LET o == op[d]
      seats == [Cleared(d, o.at) EXCEPT ![o.at] = [state |-> "active", primary |-> o.primary]] IN
    /\ o.kind = "assign"
    /\ ~UserLocked
    /\ \A l \in o.ends \union {o.at} : ~SeatLocked(l)
    /\ Indexed(seats)
    /\ seat' = seats
    /\ office' = office \ o.ends
    /\ hall' = (hall \ o.ends) \union {o.at}
    /\ account' = [local |-> IF o.primary \/ o.local = NoLocal THEN o.at ELSE o.local,
                   accessible |-> (o.accessible \ o.ends) \union {o.at}]
    /\ fresh' = FALSE
    /\ Finish(d)

-----------------------------------------------------------------------------
(* The membership routes of an officer. *)

JoinRead(d, l, replace) ==
  LET others == Active \ {l}
      single == policy = "single_local" IN
    /\ single /\ others # {} => replace
    /\ Begin(d, [NoOp EXCEPT !.kind = "join", !.at = l, !.accessible = account.accessible,
                             !.ends = IF single THEN others ELSE {}])

\* Somebody who has the seat keeps it, and only the seats to be replaced end.
\* Otherwise the accessible locals are those read before any seat ended.
JoinWrite(d) ==
  LET o == op[d]
      had == seat[o.at].state = "active"
      seats == [Ended(o.ends) EXCEPT ![o.at].state = "active"] IN
    /\ o.kind = "join"
    /\ ~UserLocked
    /\ \A l \in o.ends \union {o.at} : ~SeatLocked(l)
    /\ Indexed(seats)
    /\ seat' = seats
    /\ office' = office \ o.ends
    /\ hall' = (hall \ o.ends) \union {o.at}
    /\ account' = [local |-> Revoked(o.ends).local,
                   accessible |-> IF had THEN Revoked(o.ends).accessible
                                  ELSE o.accessible \union {o.at}]
    /\ fresh' = (fresh /\ had /\ o.ends = {})
    /\ Finish(d)

\* One route ends, reactivates and makes primary; it reads the row first.
PatchRead(d, l, kind) ==
  /\ seat[l].state # "none"
  /\ kind = "primary" => seat[l].state = "active"
  /\ Begin(d, [NoOp EXCEPT !.kind = kind, !.at = l, !.was = seat[l].state])

\* The row is updated and what rests on the seat is looked up; the update of
\* the user's row comes last and may have to wait.
EndWrite(d) ==
  LET o == op[d] IN
    /\ o.kind = "end"
    /\ ~SeatLocked(o.at)
    /\ op' = [op EXCEPT ![d].kind = "ending",
                        ![d].seen = IF o.at \in office THEN {o.at} ELSE {},
                        ![d].accessible = IF o.at \in hall THEN {o.at} ELSE {}]
    /\ UNCHANGED <<policy, account, seat, office, hall, fresh, overlapped>>

\* Mutant: ending a seat leaves the office.
EndKeepsOffice(d) == office

EndsOffice(d) == office \ op[d].seen

EndCommit(d) ==
  LET o == op[d] IN
    /\ o.kind = "ending"
    /\ ~UserLocked
    /\ seat' = Ended({o.at})
    /\ IF o.was = "active"
         THEN /\ office' = EndsOffice(d)
              /\ hall' = hall \ o.accessible
              /\ account' = Revoked({o.at})
         ELSE UNCHANGED <<office, hall, account>>
    /\ fresh' = FALSE
    /\ Finish(d)

ActivateWrite(d) ==
  LET o == op[d]
      seats == [seat EXCEPT ![o.at].state = "active"] IN
    /\ o.kind = "activate"
    /\ ~UserLocked /\ ~SeatLocked(o.at)
    /\ Indexed(seats)
    /\ seat' = seats
    /\ hall' = hall \union {o.at}
    /\ account' = [account EXCEPT !.accessible = @ \union {o.at}]
    /\ fresh' = FALSE
    /\ UNCHANGED office
    /\ Finish(d)

\* Mutant: the account's own pointer is left behind.
PrimaryKeepsLocal(d) == account
PrimaryMoves(d) == [account EXCEPT !.local = op[d].at]

PrimaryWrite(d) ==
  LET o == op[d] IN
    /\ o.kind = "primary"
    /\ ~UserLocked /\ \A l \in Locals : ~SeatLocked(l)
    /\ seat' = [NonePrimary(seat) EXCEPT ![o.at].primary = TRUE]
    /\ account' = PrimaryMoves(d)
    /\ fresh' = FALSE
    /\ UNCHANGED <<office, hall>>
    /\ Finish(d)

-----------------------------------------------------------------------------
(* Offices. *)

\* The seat is looked at, the assignment inserted, the user's row updated ...
AppointStart(d, l) ==
  /\ l \in Active \ office
  /\ ~UserLocked
  /\ Begin(d, [NoOp EXCEPT !.kind = "appoint", !.at = l])

\* ... and the synchronisation of the hall looks at the seat again.
AppointCommit(d) ==
  LET l == op[d].at IN
    /\ op[d].kind = "appoint"
    /\ l \in Active
    /\ office' = office \union {l}
    /\ hall' = hall \union {l}
    /\ fresh' = FALSE
    /\ UNCHANGED <<account, seat>>
    /\ Finish(d)

\* Without an active seat the synchronisation fails and the office stays.
RevokeOffice(l) ==
  /\ l \in office \intersect Active
  /\ ~UserLocked
  /\ office' = office \ {l}
  /\ hall' = hall \union {l}
  /\ fresh' = FALSE
  /\ UNCHANGED <<account, seat>>
  /\ AtOnce

-----------------------------------------------------------------------------
(* The invitation to a local, the union's policy, cookies, failures.        *)

\* Mutant: an accepted invitation does not renew the session.
AcceptQuietly == fresh
AcceptRenews == FALSE

\* The policy is not looked at.
AcceptInvitation(l, president) ==
  LET primary == account.local \in {NoLocal, l}
      seats == [seat EXCEPT ![l] = [state |-> "active", primary |-> primary \/ @.primary]] IN
    /\ ~UserLocked /\ ~SeatLocked(l)
    /\ Indexed(seats)
    /\ seat' = seats
    /\ account' = [local |-> IF account.local = NoLocal THEN l ELSE account.local,
                   accessible |-> account.accessible \union {l}]
    /\ office' = IF president THEN office \union {l} ELSE office
    /\ hall' = hall \union {l}
    /\ fresh' = AcceptRenews
    /\ AtOnce

SetPolicy(p) ==
  /\ p # policy
  /\ policy' = p
  /\ overlapped' = (overlapped \/ InFlight(Desks))
  /\ UNCHANGED <<account, seat, office, hall, fresh, op>>

RenewCookie ==
  /\ ~fresh
  /\ fresh' = TRUE
  /\ UNCHANGED <<policy, account, seat, office, hall, op, overlapped>>

\* An error or a crash: the transaction is undone.
Abandon(d) ==
  /\ op[d].kind # "none"
  /\ UNCHANGED <<account, seat, office, hall, fresh>>
  /\ Finish(d)

SeatNext ==
  \/ \E d \in Desks :
       \/ \E l \in Locals :
            \/ \E b, replace \in BOOLEAN : AssignRead(d, l, b, replace)
            \/ \E replace \in BOOLEAN : JoinRead(d, l, replace)
            \/ \E kind \in {"end", "activate", "primary"} : PatchRead(d, l, kind)
            \/ AppointStart(d, l)
       \/ AssignWrite(d) \/ JoinWrite(d) \/ EndWrite(d) \/ EndCommit(d)
       \/ ActivateWrite(d) \/ PrimaryWrite(d) \/ AppointCommit(d) \/ Abandon(d)
  \/ \E l \in Locals :
       RevokeOffice(l) \/ \E president \in BOOLEAN : AcceptInvitation(l, president)
  \/ \E p \in {"multi_local", "single_local"} : SetPolicy(p)
  \/ RenewCookie

SeatSpec == SeatInit /\ [][SeatNext]_seatVars

-----------------------------------------------------------------------------
(* What must hold. *)

SeatTypeOK ==
  /\ policy \in {"multi_local", "single_local"}
  /\ account \in [local : Locals \union {NoLocal}, accessible : SUBSET Locals]
  /\ seat \in [Locals -> [state : {"none", "active", "ended"}, primary : BOOLEAN]]
  /\ Indexed(seat)
  /\ office \subseteq Locals
  /\ hall \subseteq Locals
  /\ fresh \in BOOLEAN /\ overlapped \in BOOLEAN
  /\ \A d \in Desks : op[d].kind # "none" => op[d].at \in Locals

\* What the routes rely on: the primary seat is the account's local, offices
\* rest on active seats, the halls are those of the active seats, and whoever
\* has a seat has access to its local.
PrimaryIsLocal == \A l \in Active : seat[l].primary => account.local = l
OfficesHaveSeats == office \subseteq Active
HallsAreSeats == hall = Active
SeatsAreAccessible == Active \subseteq account.accessible

\* However many operations follow each other, and whichever of them fail, these
\* four agree: only operations on one account that overlap break them.  Of the
\* findings of the integrity scan this is primary_drift (membership-integrity.ts
\* :152); the others arise from operations one after the other as well:
\* an account without a local or whose local is no seat of its own (:127, :140,
\* after an assignment that replaces without becoming primary), two seats under
\* a policy of one (:189, an invitation does not ask), access to a local whose
\* seat was replaced (:210, a join writes back what it had read).
SoundUnlessOverlapped ==
  ~overlapped => PrimaryIsLocal /\ OfficesHaveSeats /\ HallsAreSeats /\ SeatsAreAccessible

\* Every change of what a cookie stands for moves the session version, so that
\* the next request renews the cookie, whichever of the operations made it and
\* whatever it overlapped (refresh-jwt-tenancy.ts:28).
AuthorityMovesVersion ==
  [][<<account', office'>> # <<account, office>> => ~fresh']_seatVars

=============================================================================
