----------------------------- MODULE CaseAccess -----------------------------
(***************************************************************************)
(* Who works on a grievance: its case worker                               *)
(* (grievances.assigned_steward_id), its privacy, and the rows of          *)
(* grievance_participants, under the three requests that change them, in   *)
(* PostgreSQL with its row policies in force.                              *)
(*                                                                         *)
(* Access is decided twice.  authorizeGrievance decides in the handler from*)
(* the case it read and the row of whoever asks; the policies of migration *)
(* 0044 decide again in every statement, from the tables alone, and do not *)
(* know the assignment.  A request is several transactions, and what it    *)
(* wrote may hide the case from its own next statement.                    *)
(*                                                                         *)
(* Everybody is an active member of the local, and offices do not change.  *)
(* Delegations, executive members and break-glass grants are left out: they*)
(* add people who may read or write, and touch neither team nor assignment.*)
(* Once something is excused no request begins: that bounds the states.    *)
(***************************************************************************)
EXTENDS Naturals

CONSTANTS
  Involved, NoOne,
  Office,     \* [Involved]: "president", "grievance_officer" or "none"
  Levels,     \* access of representatives and observers
  RowIds,     \* participant rows one person may have had, numbered from 1
  Asks,       \* requests in flight
  MaxAsks     \* bound on requests

ASSUME CaseAssumption ==
  /\ NoOne \notin Involved
  /\ Office \in [Involved -> {"president", "grievance_officer", "none"}]
  /\ Levels \subseteq {"summary", "case_read", "case_write"}
  /\ 1 \in RowIds /\ RowIds \subseteq Nat \ {0} /\ MaxAsks \in Nat

VARIABLES
  file,     \* the row of grievances: privacy, case worker, member concerned
  team,     \* [Involved -> [RowIds -> what a participant row says]]
  ask,      \* [Asks]: a request, with what it has read
  asked,    \* bound on requests
  excused   \* history: requests overlapped, or one ended between its
            \* transactions, or lost sight of the case it had written

caseVars == <<file, team, ask, asked, excused>>

Privacy == {"standard", "restricted"}
RowStates == {"none", "revoked", "member", "case_worker"} \cup Levels
Kept == RowStates \ {"none"}
NoAsk == [stage |-> "none"]

Lasting(says) == says \notin {"none", "revoked"}

\* Rows of one person that are not revoked: one at most, by a partial unique index.
Standing(u, t) == {t[u][i] : i \in {j \in RowIds : Lasting(t[u][j])}}

LevelOf(says) ==
  CASE says = "member" -> "member_safe"
    [] says = "case_worker" -> "case_write"
    [] OTHER -> says

-----------------------------------------------------------------------------
(* The two decisions. *)

\* app_grievance_case_access
Policy(u, f, t, levels) ==
  \/ Office[u] = "grievance_officer"
  \/ Office[u] = "president" /\ f.privacy = "standard"
  \/ \E s \in Standing(u, t) : s # "member" /\ LevelOf(s) \in levels

PolicyWrites(u, f, t) == Policy(u, f, t, {"case_write"})
PolicyReads(u, f, t) == Policy(u, f, t, {"case_read", "case_write"})

\* grievances_tenant_isolation: who finds the row of the case at all.
Sees(u, f, t) == Policy(u, f, t, {"summary", "case_read", "case_write"}) \/ u = f.member

\* explicitParticipant: whoever asks reads their own row under the policy of the
\* table, which shows rows to those alone who may read the whole case.
OwnRow(u) == IF PolicyReads(u, file, team) THEN Standing(u, team) ELSE {}

\* authorizeGrievance: the row it found comes before the assignment, and both
\* before the office.
Grants(u) ==
  LET own == OwnRow(u) IN
  IF own # {} THEN LevelOf(CHOOSE s \in own : TRUE)
  ELSE IF u = file.member THEN "member_safe"
  ELSE IF \/ u = file.assigned
          \/ Office[u] = "grievance_officer"
          \/ Office[u] = "president" /\ file.privacy = "standard"
    THEN "case_write"
  ELSE "none"

\* grievances.access.manage is a capability of these offices.
MayManage(u) == Grants(u) = "case_write" /\ Office[u] # "none"

-----------------------------------------------------------------------------
(* Filing: one transaction.  The policies let nobody but these file a case:   *)
(* an event is inserted before the participants are, so its author must have  *)
(* access to the case by office.                                              *)

CaseInit ==
  \E author, worker \in Involved, member \in Involved \cup {NoOne}, privacy \in Privacy :
    /\ \/ Office[author] = "grievance_officer"
       \/ Office[author] = "president" /\ privacy = "standard"
    /\ file = [privacy |-> privacy, assigned |-> worker, member |-> member]
    /\ team = [u \in Involved |-> [i \in RowIds |->
                 IF i # 1 THEN "none"
                 ELSE IF u = worker THEN "case_worker"
                 ELSE IF u = member THEN "member" ELSE "none"]]
    /\ ask = [q \in Asks |-> NoAsk]
    /\ asked = 0
    /\ excused = FALSE

-----------------------------------------------------------------------------
(* A request reads the case and decides.  Two that add people may overlap: the *)
(* unique index is enough for them.                                            *)

Begin(q, kind, by, on, says) ==
  /\ ask[q] = NoAsk /\ asked < MaxAsks /\ ~excused
  /\ Sees(by, file, team) /\ MayManage(by)
  /\ kind = "add" /\ says = "member" => on = file.member
  /\ ask' = [ask EXCEPT ![q] =
       [stage |-> IF kind = "change" THEN "write" ELSE "look", kind |-> kind, by |-> by,
        on |-> on, says |-> says, was |-> file.assigned, found |-> 0]]
  /\ asked' = asked + 1
  /\ excused' = \/ excused
                \/ \E p \in Asks \ {q} :
                     ask[p] # NoAsk /\ ~(kind = "add" /\ ask[p].kind = "add")
  /\ UNCHANGED <<file, team>>

End(q) == ask' = [ask EXCEPT ![q] = NoAsk]

\* Rows of a person that a statement of somebody finds.
Found(by, on, states) ==
  {i \in RowIds : PolicyReads(by, file, team) /\ team[on][i] \in states}

\* Any row of the person, revoked or not; or, to remove, one that is active.
Look(q) ==
  LET a == ask[q]
      rows == Found(a.by, a.on, IF a.kind = "add" THEN Kept ELSE Kept \ {"revoked"}) IN
    /\ a.stage = "look"
    /\ IF rows # {}
         THEN \E i \in rows : ask' = [ask EXCEPT ![q].stage = "write", ![q].found = i]
         ELSE IF a.kind = "add" THEN ask' = [ask EXCEPT ![q].stage = "write"] ELSE End(q)
    /\ UNCHANGED <<file, team, asked, excused>>

\* A row of the person that may become active: the one found, or a new one.
\* Another that is active already makes the statement fail.
Place(by, on, i, found) ==
  /\ PolicyWrites(by, file, team)
  /\ \A j \in RowIds \ {i} : ~Lasting(team[on][j])
  /\ IF found = 0 THEN team[on][i] = "none" ELSE i = found

-----------------------------------------------------------------------------
(* POST .../participants *)

Add(q) ==
  LET a == ask[q] IN
    /\ a.stage = "write" /\ a.kind = "add"
    /\ \/ \E i \in RowIds :
            /\ Place(a.by, a.on, i, a.found)
            /\ team' = [team EXCEPT ![a.on][i] = a.says]
            /\ file' = IF a.says = "case_worker" THEN [file EXCEPT !.assigned = a.on] ELSE file
       \/ /\ \A i \in RowIds : ~Place(a.by, a.on, i, a.found)
          /\ UNCHANGED <<file, team>>
    /\ End(q)
    /\ UNCHANGED <<asked, excused>>

-----------------------------------------------------------------------------
(* DELETE .../participants/[participantId] *)

\* Mutant: the case keeps the case worker who was removed.
RelievedOfTheRow(f, was, on) == f

\* Relieved of the case too, if the case read in the first transaction says so.
Relieved(f, was, on) == IF was = on THEN [f EXCEPT !.assigned = NoOne] ELSE f

TakeOff(q) ==
  LET a == ask[q]
      left == [team EXCEPT ![a.on][a.found] = "revoked"] IN
    /\ a.stage = "write" /\ a.kind = "remove"
    /\ IF PolicyWrites(a.by, file, team)
         THEN /\ team' = left
              /\ file' = IF PolicyWrites(a.by, file, left)
                           THEN Relieved(file, a.was, a.on) ELSE file
              /\ excused' = (excused \/ (a.was = a.on /\ ~PolicyWrites(a.by, file, left)))
         ELSE UNCHANGED <<file, team, excused>>
    /\ End(q)
    /\ UNCHANGED asked

-----------------------------------------------------------------------------
(* PATCH of the case: privacy, case worker or both.  The row of the case is    *)
(* one transaction, the participant row of a new case worker the next.         *)

Enlists(a) == a.on # NoOne /\ a.on # a.was

Change(q) ==
  LET a == ask[q]
      changed == [file EXCEPT !.privacy = IF a.says = "same" THEN @ ELSE a.says,
                              !.assigned = IF a.on = NoOne THEN @ ELSE a.on]
      writes == PolicyWrites(a.by, file, team)
      after == IF writes THEN changed ELSE file IN
    /\ a.stage = "write" /\ a.kind = "change"
    /\ IF ~Sees(a.by, file, team)
         THEN End(q) /\ UNCHANGED <<file, excused>>
         ELSE /\ file' = after
              /\ IF Sees(a.by, after, team) /\ Enlists(a)
                   THEN ask' = [ask EXCEPT ![q].stage = "enlist"] /\ UNCHANGED excused
                   ELSE /\ End(q)
                        /\ excused' = (excused \/ (Enlists(a) /\ writes))
    /\ UNCHANGED <<team, asked>>

Enlist(q) ==
  LET a == ask[q]
      rows == Found(a.by, a.on, Kept) IN
    /\ a.stage = "enlist"
    /\ \/ \E i \in RowIds, found \in IF rows = {} THEN {0} ELSE rows :
            /\ Place(a.by, a.on, i, found)
            /\ team' = [team EXCEPT ![a.on][i] = "case_worker"]
            /\ UNCHANGED excused
       \/ /\ \E found \in IF rows = {} THEN {0} ELSE rows :
               \A i \in RowIds : ~Place(a.by, a.on, i, found)
          /\ excused' = TRUE
          /\ UNCHANGED team
    /\ End(q)
    /\ UNCHANGED <<file, asked>>

\* The replica dies: what is committed stays.
AskDies(q) ==
  /\ ask[q] # NoAsk
  /\ excused' = (excused \/ ask[q].stage = "enlist")
  /\ End(q)
  /\ UNCHANGED <<file, team, asked>>

CaseNext ==
  \E q \in Asks :
    \/ \E by, on \in Involved :
         \/ \E says \in {"member", "case_worker"} \cup Levels : Begin(q, "add", by, on, says)
         \/ Begin(q, "remove", by, on, "revoked")
         \/ \E says \in Privacy \cup {"same"} : Begin(q, "change", by, on, says)
    \/ \E by \in Involved, says \in Privacy : Begin(q, "change", by, NoOne, says)
    \/ Look(q) \/ Add(q) \/ TakeOff(q) \/ Change(q) \/ Enlist(q) \/ AskDies(q)

CaseSpec == CaseInit /\ [][CaseNext]_caseVars

-----------------------------------------------------------------------------
CaseTypeOK ==
  /\ file \in [privacy : Privacy, assigned : Involved \cup {NoOne}, member : Involved \cup {NoOne}]
  /\ team \in [Involved -> [RowIds -> RowStates]]
  /\ \A q \in Asks : ask[q].stage \in {"none", "look", "write", "enlist"}
  /\ asked \in 0..MaxAsks /\ excused \in BOOLEAN

Settled == ~excused /\ \A q \in Asks : ask[q].stage # "enlist"

(* The team, the assignment and the two decisions tell one story: the case      *)
(* worker is on the team, so whoever is taken off it is relieved of the case,   *)
(* and whoever the handlers let write, the tables let write.  One exception is  *)
(* sequential: a case worker listed again with a summary keeps the assignment,  *)
(* and the handlers, to whom that row is hidden, go by the assignment.          *)
(* Requests that change or remove somebody while another is under way are       *)
(* excused, and so are those cut off before the participant row                 *)
(* (grievances/[id]/route.ts, participants/route.ts,                            *)
(* participants/[participantId]/route.ts, grievance/authorization.ts).          *)
CaseTeamIsSound ==
  Settled =>
    /\ file.assigned # NoOne => Standing(file.assigned, team) # {}
    /\ \A u \in Involved : Grants(u) = "case_write" =>
         \/ PolicyWrites(u, file, team)
         \/ u = file.assigned /\ Standing(u, team) = {"summary"}
=============================================================================
