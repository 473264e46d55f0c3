---------------------------- MODULE Invitations -----------------------------
(***************************************************************************)
(* Invitations to one address, and the account they activate or extend.    *)
(*                                                                         *)
(* A request looks at the invitation outside any transaction.  Then one    *)
(* transaction locks the invitation's row, shares the head of the Terms    *)
(* document, locks the account's row if there is one, merges the roles and *)
(* marks the invitation accepted.  A request that finds the invitation     *)
(* past its time marks it expired, with an update that has no condition.   *)
(*                                                                         *)
(* The head says which version of the Terms is in force, now and from a    *)
(* date on: a scheduled version comes into force by the clock, without a   *)
(* write the lock could hold off.  FOR SHARE is subject to the policy on   *)
(* updates (migration 0065), which only a platform administrator passes:   *)
(* on a connection the policies bind it finds no head and locks none.      *)
(***************************************************************************)
CONSTANTS Invites,      \* each brings a role of its own to the same address
          Acceptances,  \* requests in flight
          NoInvite,
          Versions,     \* of the Terms
          NoTerms

ASSUME NoInviteAssumption == NoInvite \notin Invites
ASSUME NoTermsAssumption == NoTerms \notin Versions

VARIABLES
  invite,      \* user_invites
  policed,     \* the connection is unionops_app's, which the row policies bind
  head,        \* public_documents: the head of the Terms
  attempt,     \* what each request has read
  invitee,     \* the account's row: does it exist, and its roles
  recorded,    \* public_document_acceptances: the version each activation took
  granted      \* history: roles given by invitations since roles were last set

inviteVars == <<invite, policed, head, attempt, invitee, recorded, granted>>

NoAttempt == [pc |-> "idle", of |-> NoInvite, terms |-> NoTerms, known |-> FALSE,
              roles |-> {}, overtaken |-> FALSE]
NoHead == [status |-> "none", published |-> NoTerms, scheduled |-> NoTerms, due |-> FALSE]

\* The version a head puts in force; a draft or an archived one puts none.
InForce(h) == CASE h.status = "published" -> h.published
                [] h.status = "scheduled" /\ ~h.due -> h.published
                [] h.status = "scheduled" /\ h.due -> h.scheduled
                [] OTHER -> NoTerms

InviteInit ==
  /\ invite = [i \in Invites |-> [status |-> "none", late |-> FALSE, accepted |-> FALSE]]
  /\ policed \in BOOLEAN
  /\ head = NoHead
  /\ attempt = [a \in Acceptances |-> NoAttempt]
  /\ invitee \in [exists : BOOLEAN, roles : {{}}]
  /\ recorded = [i \in Invites |-> NoTerms]
  /\ granted = {}

InTransaction(a) == attempt[a].pc = "open"
InviteLocked(i) == \E a \in Acceptances : InTransaction(a) /\ attempt[a].of = i
AccountLocked == \E a \in Acceptances : InTransaction(a) /\ attempt[a].known
HeadShared == ~policed /\ \E a \in Acceptances : InTransaction(a)
HeadSeen == IF policed THEN NoHead ELSE head
Leave(a) == attempt' = [attempt EXCEPT ![a] = NoAttempt]

-----------------------------------------------------------------------------

CreateInvite(i) ==
  /\ invite[i].status = "none"
  /\ invite' = [invite EXCEPT ![i].status = "pending"]
  /\ UNCHANGED <<policed, head, attempt, invitee, recorded, granted>>

TimePasses(i) ==
  /\ invite[i].status = "pending"
  /\ ~invite[i].late
  /\ invite' = [invite EXCEPT ![i].late = TRUE]
  /\ UNCHANGED <<policed, head, attempt, invitee, recorded, granted>>

\* The route checks the version the page showed, then reads the invitation.
OpenInvite(a, i) ==
  /\ attempt[a].pc = "idle"
  /\ invite[i].status = "pending"
  /\ attempt' = [attempt EXCEPT ![a] =
       [NoAttempt EXCEPT !.pc = IF invite[i].late THEN "late" ELSE "read",
                         !.of = i, !.terms = InForce(head)]]
  /\ UNCHANGED <<invite, policed, head, invitee, recorded, granted>>

\* Whatever became of the invitation since it was read.
MarkExpired(a) ==
  /\ attempt[a].pc = "late"
  /\ ~InviteLocked(attempt[a].of)
  /\ invite' = [invite EXCEPT ![attempt[a].of].status = "expired"]
  /\ Leave(a)
  /\ UNCHANGED <<policed, head, invitee, recorded, granted>>

\* Mutants: the invitation's state under its lock is not looked at; the
\* account's row is read without a lock.
BeginUnchecked(a) ==
  LET i == attempt[a].of IN
    /\ attempt[a].pc = "read"
    /\ ~InviteLocked(i)
    /\ invitee.exists => ~AccountLocked
    /\ attempt[a].terms = InForce(HeadSeen)
    /\ attempt' = [attempt EXCEPT ![a].pc = "open", ![a].known = invitee.exists,
                                  ![a].roles = invitee.roles]
    /\ UNCHANGED <<invite, policed, head, invitee, recorded, granted>>

BeginWithoutAccountLock(a) ==
  LET i == attempt[a].of IN
    /\ attempt[a].pc = "read"
    /\ ~InviteLocked(i)
    /\ invite[i].status = "pending"
    /\ attempt[a].terms = InForce(HeadSeen)
    /\ attempt' = [attempt EXCEPT ![a].pc = "open", ![a].known = invitee.exists,
                                  ![a].roles = invitee.roles]
    /\ UNCHANGED <<invite, policed, head, invitee, recorded, granted>>

\* The transaction up to its reads: the invitation must still be pending, the
\* version accepted must be the one in force.
BeginAccept(a) ==
  LET i == attempt[a].of IN
    /\ attempt[a].pc = "read"
    /\ ~InviteLocked(i)
    /\ invitee.exists => ~AccountLocked
    /\ invite[i].status = "pending"
    /\ attempt[a].terms = InForce(HeadSeen)
    /\ attempt' = [attempt EXCEPT ![a].pc = "open", ![a].known = invitee.exists,
                                  ![a].roles = invitee.roles]
    /\ UNCHANGED <<invite, policed, head, invitee, recorded, granted>>

\* Its writes.  Two activations of a new address both insert it: the second
\* breaks the unique index and is undone.
CommitAccept(a) ==
  LET i == attempt[a].of IN
    /\ InTransaction(a)
    /\ attempt[a].known \/ ~invitee.exists
    /\ invite' = [invite EXCEPT ![i].status = "accepted", ![i].accepted = TRUE]
    /\ invitee' = [exists |-> TRUE, roles |-> attempt[a].roles \union {i}]
    /\ recorded' = [recorded EXCEPT ![i] = attempt[a].terms]
    /\ granted' = granted \union {i}
    /\ Leave(a)
    /\ UNCHANGED <<policed, head>>

\* A refusal (the invitation, the Terms, the password, the account), the unique
\* index, or the end of the process: nothing is kept.
AbandonAccept(a) ==
  /\ attempt[a].pc # "idle"
  /\ Leave(a)
  /\ UNCHANGED <<invite, policed, head, invitee, recorded, granted>>

\* Mutant: activations do not share the head of the document.
PublishUnlocked(v) ==
  /\ head' = [status |-> "published", published |-> v, scheduled |-> NoTerms, due |-> FALSE]
  /\ UNCHANGED <<invite, policed, attempt, invitee, recorded, granted>>

\* A write of the head waits for the activations that share it.
PublishTerms(v) ==
  /\ ~HeadShared
  /\ head' = [status |-> "published", published |-> v, scheduled |-> NoTerms, due |-> FALSE]
  /\ UNCHANGED <<invite, policed, attempt, invitee, recorded, granted>>

\* It keeps in force what its own read of the head found published, which
\* another editor may have replaced since: any version, or none.
ScheduleTerms(v, kept) ==
  /\ ~HeadShared
  /\ head' = [status |-> "scheduled", published |-> kept, scheduled |-> v, due |-> FALSE]
  /\ UNCHANGED <<invite, policed, attempt, invitee, recorded, granted>>

\* Archived, or restored to a draft.
WithdrawTerms ==
  /\ ~HeadShared
  /\ head' = NoHead
  /\ UNCHANGED <<invite, policed, attempt, invitee, recorded, granted>>

\* The clock passes publishAt, whatever is locked; an activation that has read
\* its clock goes on with what was in force until then.
TermsFallDue ==
  /\ head.status = "scheduled" /\ ~head.due
  /\ head' = [head EXCEPT !.due = TRUE]
  /\ attempt' = [a \in Acceptances |->
                   [attempt[a] EXCEPT !.overtaken = InTransaction(a)]]
  /\ UNCHANGED <<invite, policed, invitee, recorded, granted>>

\* A site administrator replaces the roles.
SetInviteeRoles(R) ==
  /\ invitee.exists
  /\ ~AccountLocked
  /\ invitee' = [invitee EXCEPT !.roles = R]
  /\ granted' = {}
  /\ UNCHANGED <<invite, policed, head, attempt, recorded>>

InviteNext ==
  \/ \E i \in Invites : CreateInvite(i) \/ TimePasses(i)
  \/ \E a \in Acceptances :
       \/ \E i \in Invites : OpenInvite(a, i)
       \/ MarkExpired(a) \/ BeginAccept(a) \/ CommitAccept(a) \/ AbandonAccept(a)
  \/ \E v \in Versions :
       \/ PublishTerms(v)
       \/ \E kept \in Versions \union {NoTerms} : ScheduleTerms(v, kept)
  \/ WithdrawTerms
  \/ TermsFallDue
  \/ \E R \in SUBSET Invites : SetInviteeRoles(R)

InviteSpec == InviteInit /\ [][InviteNext]_inviteVars

-----------------------------------------------------------------------------
(* What must hold. *)

InviteTypeOK ==
  /\ invite \in [Invites -> [status : {"none", "pending", "accepted", "expired"},
                             late : BOOLEAN, accepted : BOOLEAN]]
  /\ policed \in BOOLEAN
  /\ head \in [status : {"none", "published", "scheduled"}, due : BOOLEAN,
              published : Versions \union {NoTerms}, scheduled : Versions \union {NoTerms}]
  /\ attempt \in [Acceptances -> [pc : {"idle", "read", "late", "open"},
                                  of : Invites \union {NoInvite},
                                  terms : Versions \union {NoTerms}, known : BOOLEAN,
                                  roles : SUBSET Invites, overtaken : BOOLEAN]]
  /\ \A a \in Acceptances : attempt[a].pc # "idle" => attempt[a].of \in Invites
  /\ invitee \in [exists : BOOLEAN, roles : SUBSET Invites]
  /\ recorded \in [Invites -> Versions \union {NoTerms}]
  /\ granted \subseteq Invites

\* An invitation as a one-time token
InviteStatus == [i \in Invites |->
    CASE invite[i].accepted -> "spent"
      [] ~invite[i].accepted /\ invite[i].status = "none" -> "unissued"
      [] ~invite[i].accepted /\ invite[i].status = "pending" -> "live"
      [] OTHER -> "void"]

Invitation == INSTANCE OneTimeToken WITH Tokens <- Invites, status <- InviteStatus

\* An invitation activates once and never after it was marked expired, though
\* two requests may have read it as pending, and though a late reader may still
\* overwrite "accepted" with "expired" (acceptInvitePostgres).
InvitesAreOneTime == Invitation!Spec

\* "Lock the public document head so a concurrent publication cannot make this
\* activation accept a stale Terms version" (invite-postgres.ts:256): an activation
\* records what is in force when it commits, or what a version that fell due while
\* it was open replaced.  Where the policies hide the head it records nothing.
TermsTakenBy(i) ==
  IF policed THEN NoTerms
  ELSE IF \E a \in Acceptances : InTransaction(a) /\ attempt[a].of = i /\ attempt[a].overtaken
       THEN head.published
       ELSE InForce(head)

TermsInForce ==
  [][\A i \in Invites : ~invite[i].accepted /\ invite'[i].accepted
       => recorded'[i] = TermsTakenBy(i)]_inviteVars

\* Two invitations accepted at the same time both count: neither transaction
\* writes roles it merged with an older row (invite-postgres.ts:299).
GrantedRolesKept == granted \subseteq invitee.roles
=============================================================================
