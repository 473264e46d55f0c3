--------------------------- MODULE AccountsProofs ---------------------------
(***************************************************************************)
(* What holds of the components around accounts, for any number of people, *)
(* rows and requests.  They share no variable: each part is about the      *)
(* specification of one of them, in this order: site administrators,       *)
(* invitations, purchases, mailed links, seats, the member broadcast,      *)
(* outreach lists, trips, alerts.  The last part puts them together.       *)
(***************************************************************************)
EXTENDS MCUnionAccounts, SumProofs, FiniteSetTheorems, TLAPS

-----------------------------------------------------------------------------
(* Site administrators. *)

(* A removal that nobody outran would leave an administrator. *)
OthersLeft == \A o \in removing \ outrun : o \in admins => \E p \in admins : p # o

LEMMA OthersRemainMeans ==
  ASSUME NEW o, o \in admins, OthersRemain(o)
  PROVE  \E p \in admins : p # o
<1>1. SUFFICES ASSUME \A p \in admins : p = o
               PROVE  FALSE
  OBVIOUS
<1>2. admins = {o}
  BY <1>1
<1>3. Cardinality(admins) = 1
  BY <1>2, FS_Singleton
<1>4. QED
  BY <1>3 DEF OthersRemain

LEMMA OthersLeftInit == RolesInit => OthersLeft
BY DEF RolesInit, OthersLeft

LEMMA OthersLeftStep == OthersLeft /\ [RolesNext]_roleVars => OthersLeft'
<1> SUFFICES ASSUME OthersLeft, [RolesNext]_roleVars
             PROVE  OthersLeft'
  OBVIOUS
<1> USE DEF OthersLeft
<1>1. ASSUME NEW o \in Operators, CheckRemoval(o)
      PROVE  OthersLeft'
  <2>1. o \in admins => \E p \in admins : p # o
    BY <1>1, OthersRemainMeans DEF CheckRemoval
  <2>2. QED
    BY <1>1, <2>1 DEF CheckRemoval
<1>2. ASSUME NEW o \in Operators, RemoveAdmin(o)
      PROVE  OthersLeft'
  <2>1. CASE o \in admins
    BY <1>2, <2>1 DEF RemoveAdmin
  <2>2. CASE o \notin admins
    <3>1. admins' = admins /\ outrun' = outrun
      BY <1>2, <2>2 DEF RemoveAdmin
    <3>2. QED
      BY <1>2, <3>1 DEF RemoveAdmin
  <2>3. QED
    BY <2>1, <2>2
<1>3. ASSUME NEW o \in Operators, GiveAdmin(o)
      PROVE  OthersLeft'
  BY <1>3 DEF GiveAdmin
<1>4. CASE UNCHANGED roleVars
  BY <1>4 DEF roleVars
<1>5. QED
  BY <1>1, <1>2, <1>3, <1>4 DEF RolesNext

(* Whatever other changes of roles overlap, only a removal that one of them
   outran takes the last administrator (set-user-roles.ts:49 and 73). *)
THEOREM LastAdminFallsToRaces == RolesSpec => LastAdminOnlyToRace
<1>1. OthersLeft /\ [RolesNext]_roleVars
        => [\A o \in removing : admins # {} /\ admins' = {} /\ o \notin removing'
              => o \in outrun]_roleVars
  <2> SUFFICES ASSUME OthersLeft, RolesNext,
                      NEW o \in removing, admins # {}, admins' = {}, o \notin removing'
               PROVE  o \in outrun
    BY DEF roleVars
  <2>1. RemoveAdmin(o)
    <3>1. PICK p \in Operators : CheckRemoval(p) \/ RemoveAdmin(p) \/ GiveAdmin(p)
      BY DEF RolesNext
    <3>2. QED
      BY <3>1 DEF CheckRemoval, RemoveAdmin, GiveAdmin
  <2>2. admins = {o}
    BY <2>1 DEF RemoveAdmin
  <2>3. QED
    BY <2>2 DEF OthersLeft
<1>2. QED
  BY <1>1, OthersLeftInit, OthersLeftStep, PTL DEF RolesSpec, LastAdminOnlyToRace

-----------------------------------------------------------------------------
(* Invitations. *)

(* The row lock: an invitation is in one transaction, pending there. *)
OpenIsAlone ==
  \A a, b \in Acceptances :
    InTransaction(a) /\ InTransaction(b) /\ attempt[a].of = attempt[b].of => a = b
OpenIsPending ==
  \A a \in Acceptances : InTransaction(a) => invite[attempt[a].of].status = "pending"

(* An accepted invitation may be overwritten with expired, and is not reopened. *)
AcceptedStays ==
  \A i \in Invites : /\ invite[i].accepted => invite[i].status \in {"accepted", "expired"}
                     /\ invite[i].status = "accepted" => invite[i].accepted
ReadWasIssued ==
  \A a \in Acceptances : attempt[a].pc # "idle" => invite[attempt[a].of].status # "none"

(* The account's row is in one transaction that knows its roles. *)
KnownIsAlone ==
  \A a, b \in Acceptances :
    InTransaction(a) /\ InTransaction(b) /\ attempt[a].known /\ attempt[b].known => a = b
KnownIsCurrent ==
  \A a \in Acceptances : InTransaction(a) /\ attempt[a].known =>
    invitee.exists /\ attempt[a].roles = invitee.roles
FirstGrants == ~invitee.exists => granted = {}

(* What an open activation takes is what the head it shares puts in force, or did
   until a version fell due while the activation was open. *)
SharedTerms ==
  \A a \in Acceptances :
    /\ attempt[a].overtaken => InTransaction(a)
    /\ InTransaction(a) =>
         attempt[a].terms = IF policed THEN NoTerms
                            ELSE IF attempt[a].overtaken THEN head.published
                            ELSE InForce(head)

InviteInv ==
  /\ InviteTypeOK
  /\ OpenIsAlone /\ OpenIsPending /\ AcceptedStays /\ ReadWasIssued
  /\ KnownIsAlone /\ KnownIsCurrent /\ FirstGrants /\ GrantedRolesKept
  /\ SharedTerms

LEMMA InviteInvInit == InviteInit => InviteInv
<1> SUFFICES ASSUME InviteInit
             PROVE  InviteInv
  OBVIOUS
<1> USE DEF InviteInit, NoAttempt
<1>1. InviteTypeOK
  BY DEF InviteTypeOK, NoHead
<1>2. \A a \in Acceptances :
        attempt[a].pc = "idle" /\ ~InTransaction(a) /\ ~attempt[a].overtaken
  BY DEF InTransaction
<1>3. OpenIsAlone /\ OpenIsPending /\ ReadWasIssued /\ KnownIsAlone /\ KnownIsCurrent
        /\ SharedTerms
  BY <1>2 DEF OpenIsAlone, OpenIsPending, ReadWasIssued, KnownIsAlone, KnownIsCurrent,
              SharedTerms
<1>4. AcceptedStays /\ FirstGrants /\ GrantedRolesKept
  BY DEF AcceptedStays, FirstGrants, GrantedRolesKept
<1>5. QED
  BY <1>1, <1>3, <1>4 DEF InviteInv

(* Everything but types, for a step that leaves no request in another state
   than it was or takes one out. *)
LEMMA InForceIsAVersion ==
  ASSUME NEW h, h.published \in Versions \union {NoTerms},
         h.scheduled \in Versions \union {NoTerms}
  PROVE  InForce(h) \in Versions \union {NoTerms}
BY DEF InForce

LEMMA SharedUnlessGone ==
  ASSUME InviteInv, NEW a \in Acceptances, UNCHANGED <<policed, head>>,
         attempt'[a].pc # "open", attempt'[a].overtaken = FALSE,
         \A b \in Acceptances \ {a} : attempt'[b] = attempt[b]
  PROVE  SharedTerms'
BY DEF InviteInv, SharedTerms, InTransaction

LEMMA InviteInvStep == InviteInv /\ [InviteNext]_inviteVars => InviteInv'
<1> SUFFICES ASSUME InviteInv, [InviteNext]_inviteVars
             PROVE  InviteInv'
  OBVIOUS
<1> USE DEF InviteInv, InviteTypeOK
<1>1. ASSUME NEW i \in Invites, CreateInvite(i)
      PROVE  InviteInv'
  <2> USE <1>1 DEF CreateInvite
  <2>1. InviteTypeOK'
    OBVIOUS
  <2>2. OpenIsAlone' /\ KnownIsAlone' /\ KnownIsCurrent' /\ FirstGrants' /\ GrantedRolesKept'
          /\ SharedTerms'
    BY DEF OpenIsAlone, KnownIsAlone, KnownIsCurrent, FirstGrants, GrantedRolesKept,
           SharedTerms, InTransaction
  <2>3. OpenIsPending' /\ AcceptedStays' /\ ReadWasIssued'
    BY DEF OpenIsPending, AcceptedStays, ReadWasIssued, InTransaction
  <2>4. QED
    BY <2>1, <2>2, <2>3
<1>2. ASSUME NEW i \in Invites, TimePasses(i)
      PROVE  InviteInv'
  <2> USE <1>2 DEF TimePasses
  <2>1. InviteTypeOK'
    <3> DEFINE rows == [status : {"none", "pending", "accepted", "expired"},
                        late : BOOLEAN, accepted : BOOLEAN]
    <3>1. [invite[i] EXCEPT !.late = TRUE] \in rows
      OBVIOUS
    <3>2. invite' = [invite EXCEPT ![i] = [invite[i] EXCEPT !.late = TRUE]]
      OBVIOUS
    <3>3. invite' \in [Invites -> rows]
      BY <3>1, <3>2
    <3>4. QED
      BY <3>3
  <2>2. OpenIsAlone' /\ KnownIsAlone' /\ KnownIsCurrent' /\ FirstGrants' /\ GrantedRolesKept'
          /\ SharedTerms'
    BY DEF OpenIsAlone, KnownIsAlone, KnownIsCurrent, FirstGrants, GrantedRolesKept,
           SharedTerms, InTransaction
  <2>3. OpenIsPending' /\ AcceptedStays' /\ ReadWasIssued'
    BY DEF OpenIsPending, AcceptedStays, ReadWasIssued, InTransaction
  <2>4. QED
    BY <2>1, <2>2, <2>3
<1>3. ASSUME NEW a \in Acceptances, NEW i \in Invites, OpenInvite(a, i)
      PROVE  InviteInv'
  <2> USE <1>3 DEF OpenInvite, NoAttempt
  <2>1. InviteTypeOK'
    <3>1. InForce(head) \in Versions \union {NoTerms}
      BY InForceIsAVersion
    <3>2. QED
      BY <3>1
  <2>2. \A b \in Acceptances :
          /\ InTransaction(b)' => b # a /\ InTransaction(b)
          /\ b # a => attempt'[b] = attempt[b]
    BY DEF InTransaction
  <2>3. attempt'[a].of = i /\ invite[i].status # "none"
    OBVIOUS
  <2>4. OpenIsAlone' /\ OpenIsPending' /\ AcceptedStays' /\ ReadWasIssued'
    BY <2>2, <2>3 DEF OpenIsAlone, OpenIsPending, AcceptedStays, ReadWasIssued
  <2>5. KnownIsAlone' /\ KnownIsCurrent' /\ FirstGrants' /\ GrantedRolesKept' /\ SharedTerms'
    <3>0. attempt'[a].pc # "open" /\ attempt'[a].overtaken = FALSE
      OBVIOUS
    <3>1. SharedTerms'
      BY <3>0, SharedUnlessGone
    <3>2. QED
      BY <2>2, <3>1 DEF KnownIsAlone, KnownIsCurrent, FirstGrants, GrantedRolesKept
  <2>6. QED
    BY <2>1, <2>4, <2>5
<1>4. ASSUME NEW a \in Acceptances, MarkExpired(a)
      PROVE  InviteInv'
  <2> USE <1>4 DEF MarkExpired, Leave, NoAttempt
  <2> DEFINE i == attempt[a].of
  <2>0. i \in Invites
    OBVIOUS
  <2>1. InviteTypeOK'
    <3>1. invite' \in [Invites -> [status : {"none", "pending", "accepted", "expired"},
                                   late : BOOLEAN, accepted : BOOLEAN]]
      BY <2>0, SMTT(20)
    <3>2. attempt' \in [Acceptances -> [pc : {"idle", "read", "late", "open"},
                           of : Invites \union {NoInvite},
                           terms : Versions \union {NoTerms}, known : BOOLEAN,
                           roles : SUBSET Invites, overtaken : BOOLEAN]]
      OBVIOUS
    <3>3. \A b \in Acceptances : attempt'[b].pc # "idle" => attempt'[b].of \in Invites
      OBVIOUS
    <3>4. /\ head' = head /\ policed' = policed /\ granted' \subseteq Invites
          /\ invitee' \in [exists : BOOLEAN, roles : SUBSET Invites]
          /\ recorded' \in [Invites -> Versions \union {NoTerms}]
      BY <2>0
    <3>5. QED
      BY <3>1, <3>2, <3>3, <3>4
  <2>2. \A b \in Acceptances :
          /\ InTransaction(b)' => b # a /\ InTransaction(b) /\ attempt[b].of # i
          /\ b # a => attempt'[b] = attempt[b]
    BY DEF InTransaction, InviteLocked
  <2>3. attempt'[a].pc = "idle"
    OBVIOUS
  <2>4. OpenIsAlone' /\ OpenIsPending'
    BY <2>1, <2>2 DEF OpenIsAlone, OpenIsPending
  <2>5. AcceptedStays' /\ ReadWasIssued'
    BY <2>0, <2>2, <2>3 DEF AcceptedStays, ReadWasIssued
  <2>6. KnownIsAlone' /\ KnownIsCurrent' /\ FirstGrants' /\ GrantedRolesKept' /\ SharedTerms'
    <3>1. SharedTerms'
      BY SharedUnlessGone
    <3>2. QED
      BY <2>2, <3>1 DEF KnownIsAlone, KnownIsCurrent, FirstGrants, GrantedRolesKept
  <2>7. QED
    BY <2>1, <2>4, <2>5, <2>6
<1>5. ASSUME NEW a \in Acceptances, BeginAccept(a)
      PROVE  InviteInv'
  <2> USE <1>5 DEF BeginAccept
  <2>1. InviteTypeOK'
    <3> DEFINE its == [pc |-> "open", of |-> attempt[a].of, terms |-> attempt[a].terms,
                       known |-> invitee.exists, roles |-> invitee.roles,
                       overtaken |-> attempt[a].overtaken]
               Attempts == [pc : {"idle", "read", "late", "open"},
                            of : Invites \union {NoInvite},
                            terms : Versions \union {NoTerms}, known : BOOLEAN,
                            roles : SUBSET Invites, overtaken : BOOLEAN]
    <3>1. attempt' \in [Acceptances -> Attempts]
      <4>1. attempt[a] \in Attempts /\ invitee.exists \in BOOLEAN
              /\ invitee.roles \in SUBSET Invites
        OBVIOUS
      <4>2. its \in Attempts
        BY <4>1
      <4>3. attempt'[a] = its /\ \A b \in Acceptances \ {a} : attempt'[b] = attempt[b]
        BY <4>1
      <4>4. attempt' = [b \in Acceptances |-> attempt'[b]]
        OBVIOUS
      <4>5. QED
        BY <4>2, <4>3, <4>4
    <3>2. \A b \in Acceptances : attempt'[b].pc # "idle" => attempt'[b].of \in Invites
      OBVIOUS
    <3>3. QED
      BY <3>1, <3>2
  <2>2. \A b \in Acceptances \ {a} : attempt'[b] = attempt[b] /\ InTransaction(b)' = InTransaction(b)
    BY DEF InTransaction
  <2>3. attempt'[a].of = attempt[a].of /\ attempt'[a].terms = InForce(HeadSeen)
          /\ ~attempt'[a].overtaken /\ attempt'[a].known = invitee.exists /\ attempt'[a].roles = invitee.roles
    BY DEF SharedTerms, InTransaction
  <2>4. OpenIsAlone' /\ OpenIsPending' /\ AcceptedStays'
    BY <2>2, <2>3 DEF OpenIsAlone, OpenIsPending, AcceptedStays, InviteLocked
  <2>5. ReadWasIssued'
    BY <2>2, <2>3 DEF ReadWasIssued
  <2>6. KnownIsAlone' /\ KnownIsCurrent'
    BY <2>2, <2>3 DEF KnownIsAlone, KnownIsCurrent, AccountLocked
  <2>7. FirstGrants' /\ GrantedRolesKept' /\ SharedTerms'
    BY <2>2, <2>3 DEF FirstGrants, GrantedRolesKept, SharedTerms, HeadSeen, NoHead, InForce
  <2>8. QED
    BY <2>1, <2>4, <2>5, <2>6, <2>7
<1>6. ASSUME NEW a \in Acceptances, CommitAccept(a)
      PROVE  InviteInv'
  <2> USE <1>6 DEF CommitAccept, Leave, NoAttempt
  <2> DEFINE i == attempt[a].of
  <2>0. i \in Invites /\ InTransaction(a)
    BY DEF InTransaction
  <2>1. InviteTypeOK'
    <3>1. invite' \in [Invites -> [status : {"none", "pending", "accepted", "expired"},
                                   late : BOOLEAN, accepted : BOOLEAN]]
      BY <2>0
    <3>2. attempt' \in [Acceptances -> [pc : {"idle", "read", "late", "open"},
                           of : Invites \union {NoInvite},
                           terms : Versions \union {NoTerms}, known : BOOLEAN,
                           roles : SUBSET Invites, overtaken : BOOLEAN]]
      OBVIOUS
    <3>3. \A b \in Acceptances : attempt'[b].pc # "idle" => attempt'[b].of \in Invites
      OBVIOUS
    <3>4. /\ head' = head /\ policed' = policed /\ granted' \subseteq Invites
          /\ invitee' \in [exists : BOOLEAN, roles : SUBSET Invites]
          /\ recorded' \in [Invites -> Versions \union {NoTerms}]
      BY <2>0
    <3>5. QED
      BY <3>1, <3>2, <3>3, <3>4
  <2>2. \A b \in Acceptances :
          /\ InTransaction(b)' => b # a /\ InTransaction(b) /\ attempt[b].of # i
          /\ b # a => attempt'[b] = attempt[b]
    BY <2>0 DEF InTransaction, OpenIsAlone
  <2>3. attempt'[a].pc = "idle"
    OBVIOUS
  <2>4. OpenIsAlone' /\ OpenIsPending'
    <3>1. OpenIsAlone'
      BY <2>2 DEF OpenIsAlone
    <3>2. ASSUME NEW b \in Acceptances, InTransaction(b)'
          PROVE  invite'[attempt'[b].of].status = "pending"
      <4>1. attempt[b].of \in Invites /\ attempt[b].of # i
        BY <2>2, <3>2 DEF InTransaction
      <4>2. invite'[attempt[b].of] = invite[attempt[b].of]
        BY <4>1
      <4>3. QED
        BY <2>2, <3>2, <4>2 DEF OpenIsPending
    <3>3. QED
      BY <3>1, <3>2 DEF OpenIsPending
  <2>5. AcceptedStays' /\ ReadWasIssued'
    BY <2>0, <2>2, <2>3, SMTT(20) DEF AcceptedStays, ReadWasIssued
  <2>6. \A b \in Acceptances : InTransaction(b)' => ~attempt'[b].known
    BY <2>0, <2>2 DEF KnownIsAlone, KnownIsCurrent
  <2>7. KnownIsAlone' /\ KnownIsCurrent'
    BY <2>6 DEF KnownIsAlone, KnownIsCurrent
  <2>8. granted \subseteq attempt[a].roles
    BY <2>0 DEF KnownIsCurrent, FirstGrants, GrantedRolesKept
  <2>9. FirstGrants' /\ GrantedRolesKept'
    BY <2>8 DEF FirstGrants, GrantedRolesKept
  <2>10. SharedTerms'
    BY SharedUnlessGone
  <2>11. QED
    BY <2>1, <2>4, <2>5, <2>7, <2>9, <2>10
<1>7. ASSUME NEW a \in Acceptances, AbandonAccept(a)
      PROVE  InviteInv'
  <2> USE <1>7 DEF AbandonAccept, Leave, NoAttempt
  <2>1. InviteTypeOK'
    OBVIOUS
  <2>2. \A b \in Acceptances :
          /\ InTransaction(b)' => b # a /\ InTransaction(b)
          /\ b # a => attempt'[b] = attempt[b]
    BY DEF InTransaction
  <2>3. attempt'[a].pc = "idle"
    OBVIOUS
  <2>4. OpenIsAlone' /\ OpenIsPending' /\ AcceptedStays' /\ ReadWasIssued'
    BY <2>2, <2>3 DEF OpenIsAlone, OpenIsPending, AcceptedStays, ReadWasIssued
  <2>5. KnownIsAlone' /\ KnownIsCurrent' /\ FirstGrants' /\ GrantedRolesKept' /\ SharedTerms'
    <3>1. SharedTerms'
      BY SharedUnlessGone
    <3>2. QED
      BY <2>2, <3>1 DEF KnownIsAlone, KnownIsCurrent, FirstGrants, GrantedRolesKept
  <2>6. QED
    BY <2>1, <2>4, <2>5
<1>8. ASSUME ~HeadShared, head' \in [status : {"none", "published", "scheduled"},
                                     due : BOOLEAN, published : Versions \union {NoTerms},
                                     scheduled : Versions \union {NoTerms}],
             UNCHANGED <<invite, policed, attempt, invitee, recorded, granted>>
      PROVE  InviteInv'
  <2> USE <1>8
  <2>1. InviteTypeOK'
    OBVIOUS
  <2>2. SharedTerms'
    BY DEF SharedTerms, HeadShared, InTransaction
  <2>3. QED
    BY <2>1, <2>2 DEF OpenIsAlone, OpenIsPending, AcceptedStays, ReadWasIssued, KnownIsAlone,
                      KnownIsCurrent, FirstGrants, GrantedRolesKept, InTransaction
<1>8a. ASSUME NEW v \in Versions, NEW kept \in Versions \union {NoTerms},
              PublishTerms(v) \/ ScheduleTerms(v, kept)
       PROVE  InviteInv'
  <2>1. CASE PublishTerms(v)
    BY <1>8, <2>1 DEF PublishTerms
  <2>2. CASE ScheduleTerms(v, kept)
    BY <1>8, <2>2 DEF ScheduleTerms
  <2>3. QED
    BY <1>8a, <2>1, <2>2
<1>8b. CASE WithdrawTerms
  BY <1>8, <1>8b DEF WithdrawTerms, NoHead
<1>8c. CASE TermsFallDue
  <2> USE <1>8c DEF TermsFallDue
  <2>1. /\ head' \in [status : {"none", "published", "scheduled"}, due : BOOLEAN,
                     published : Versions \union {NoTerms},
                     scheduled : Versions \union {NoTerms}]
        /\ head'.published = head.published /\ InForce(head) = head.published
    BY DEF InForce
  <2>2. \A a \in Acceptances :
          /\ attempt'[a] = [attempt[a] EXCEPT !.overtaken = InTransaction(a)]
          /\ InTransaction(a) \in BOOLEAN
    BY DEF InTransaction
  <2>3. \A a \in Acceptances :
          /\ attempt'[a].pc = attempt[a].pc /\ attempt'[a].of = attempt[a].of
          /\ attempt'[a].terms = attempt[a].terms /\ attempt'[a].known = attempt[a].known
          /\ attempt'[a].roles = attempt[a].roles
          /\ attempt'[a].overtaken = InTransaction(a)
          /\ InTransaction(a)' = InTransaction(a)
    BY <2>2 DEF InTransaction
  <2>4. InviteTypeOK'
    BY <2>1, <2>2, <2>3
  <2>5. SharedTerms'
    BY <2>1, <2>3 DEF SharedTerms
  <2>6. OpenIsAlone' /\ OpenIsPending' /\ AcceptedStays' /\ ReadWasIssued'
    BY <2>3 DEF OpenIsAlone, OpenIsPending, AcceptedStays, ReadWasIssued
  <2>7. KnownIsAlone' /\ KnownIsCurrent' /\ FirstGrants' /\ GrantedRolesKept'
    BY <2>3 DEF KnownIsAlone, KnownIsCurrent, FirstGrants, GrantedRolesKept
  <2>8. QED
    BY <2>4, <2>5, <2>6, <2>7
<1>9. ASSUME NEW R \in SUBSET Invites, SetInviteeRoles(R)
      PROVE  InviteInv'
  <2> USE <1>9 DEF SetInviteeRoles
  <2>1. InviteTypeOK'
    OBVIOUS
  <2>2. KnownIsCurrent'
    BY DEF KnownIsCurrent, AccountLocked, InTransaction
  <2>3. QED
    BY <2>1, <2>2 DEF OpenIsAlone, OpenIsPending, AcceptedStays, ReadWasIssued, KnownIsAlone,
                      FirstGrants, GrantedRolesKept, SharedTerms, InTransaction
<1>10. CASE UNCHANGED inviteVars
  BY <1>10 DEF inviteVars, OpenIsAlone, OpenIsPending, AcceptedStays, ReadWasIssued,
     KnownIsAlone, KnownIsCurrent, FirstGrants, GrantedRolesKept, SharedTerms, InTransaction
<1>11. QED
  BY <1>1, <1>2, <1>3, <1>4, <1>5, <1>6, <1>7, <1>8a, <1>8b, <1>8c, <1>9, <1>10
     DEF InviteNext

LEMMA InviteInvHolds == InviteSpec => []InviteInv
BY InviteInvInit, InviteInvStep, PTL DEF InviteSpec

(* For any number of invitations and requests, two that are accepted at once
   both count (invite-postgres.ts:299). *)
THEOREM AcceptancesMergeRoles == InviteSpec => []GrantedRolesKept
BY InviteInvHolds, PTL DEF InviteInv

(* What an activation records is in force when it commits, or is what a version
   that fell due meanwhile replaced: every write of the head waits for it
   (invite-postgres.ts:256). *)
THEOREM ActivationsTakeTermsInForce == InviteSpec => TermsInForce
<1>1. InviteInv /\ [InviteNext]_inviteVars
        => [\A i \in Invites : ~invite[i].accepted /\ invite'[i].accepted
              => recorded'[i] = TermsTakenBy(i)]_inviteVars
  <2> SUFFICES ASSUME InviteInv, InviteNext, NEW i \in Invites,
                      ~invite[i].accepted, invite'[i].accepted
               PROVE  recorded'[i] = TermsTakenBy(i)
    BY DEF inviteVars
  <2> USE DEF InviteInv, InviteTypeOK
  <2>1. PICK a \in Acceptances : CommitAccept(a)
    <3>1. ASSUME NEW j \in Invites, CreateInvite(j) \/ TimePasses(j)
          PROVE  FALSE
      <4>1. CASE CreateInvite(j)
        <5>1. invite' = [invite EXCEPT ![j].status = "pending"]
          BY <4>1 DEF CreateInvite
        <5>2. invite'[i].accepted = invite[i].accepted
          BY <5>1
        <5>3. QED
          BY <5>2
      <4>2. CASE TimePasses(j)
        <5>1. invite' = [invite EXCEPT ![j].late = TRUE]
          BY <4>2 DEF TimePasses
        <5>2. invite'[i].accepted = invite[i].accepted
          BY <5>1
        <5>3. QED
          BY <5>2
      <4>3. QED
        BY <3>1, <4>1, <4>2
    <3>2. ASSUME NEW a \in Acceptances, MarkExpired(a)
          PROVE  FALSE
      BY <3>2 DEF MarkExpired
    <3>3. ASSUME invite' = invite
          PROVE  FALSE
      BY <3>3
    <3>4. QED
      BY <3>1, <3>2, <3>3
         DEF InviteNext, OpenInvite, BeginAccept, AbandonAccept, PublishTerms,
             ScheduleTerms, WithdrawTerms, TermsFallDue, SetInviteeRoles
  <2>2. attempt[a].of = i
    BY <2>1 DEF CommitAccept
  <2>3. recorded'[i] = attempt[a].terms /\ InTransaction(a)
    BY <2>1, <2>2 DEF CommitAccept
  <2>4. \A b \in Acceptances : InTransaction(b) /\ attempt[b].of = i => b = a
    BY <2>2, <2>3 DEF OpenIsAlone
  <2>5. QED
    BY <2>2, <2>3, <2>4 DEF SharedTerms, TermsTakenBy
<1>2. QED
  BY <1>1, InviteInvHolds, PTL DEF InviteSpec, TermsInForce

LEMMA InviteStatusIs ==
  ASSUME NEW i \in Invites
  PROVE  InviteStatus[i] = IF invite[i].accepted THEN "spent"
                           ELSE IF invite[i].status = "none" THEN "unissued"
                           ELSE IF invite[i].status = "pending" THEN "live" ELSE "void"
BY DEF InviteStatus

LEMMA InviteStatusIsNext ==
  ASSUME NEW i \in Invites
  PROVE  InviteStatus'[i] = IF invite'[i].accepted THEN "spent"
                            ELSE IF invite'[i].status = "none" THEN "unissued"
                            ELSE IF invite'[i].status = "pending" THEN "live" ELSE "void"
BY DEF InviteStatus

(* Invitations that a step leaves alone keep their place as tokens. *)
LEMMA SameInviteSameStatus ==
  ASSUME NEW i \in Invites, invite'[i].accepted = invite[i].accepted,
         invite'[i].status = invite[i].status
  PROVE  InviteStatus'[i] = InviteStatus[i]
BY InviteStatusIs, InviteStatusIsNext

LEMMA SameStatus ==
  ASSUME \A i \in Invites : InviteStatus'[i] = InviteStatus[i]
  PROVE  InviteStatus' = InviteStatus
BY DEF InviteStatus

LEMMA InviteStepRefines ==
  InviteInv /\ [InviteNext]_inviteVars => [Invitation!Next]_InviteStatus
<1> SUFFICES ASSUME InviteInv, [InviteNext]_inviteVars
             PROVE  [Invitation!Next]_InviteStatus
  OBVIOUS
<1> USE DEF InviteInv, InviteTypeOK
<1>1. ASSUME NEW i \in Invites, CreateInvite(i)
      PROVE  [Invitation!Next]_InviteStatus
  <2>1. \A j \in Invites \ {i} : invite'[j] = invite[j]
    BY <1>1 DEF CreateInvite
  <2>2. InviteStatus[i] = "unissued"
    BY <1>1, InviteStatusIs DEF CreateInvite, AcceptedStays
  <2>3. InviteStatus'[i] = "live"
    <3>1. ~invite'[i].accepted /\ invite'[i].status = "pending"
      BY <1>1 DEF CreateInvite, AcceptedStays
    <3>2. QED
      BY <3>1, InviteStatusIsNext
  <2>4. \A j \in Invites \ {i} : InviteStatus'[j] = InviteStatus[j]
    BY <2>1, SameInviteSameStatus
  <2>5. InviteStatus' = [u \in Invites |-> IF u = i THEN "live"
                                           ELSE IF u \in {} THEN "void" ELSE InviteStatus[u]]
    BY <2>3, <2>4 DEF InviteStatus
  <2>6. Invitation!Issue(i, {})
    BY <2>2, <2>5 DEF Invitation!Issue
  <2>7. QED
    BY <2>6 DEF Invitation!Next
<1>2. ASSUME NEW i \in Invites, TimePasses(i)
      PROVE  [Invitation!Next]_InviteStatus
  <2>1. \A j \in Invites : invite'[j].accepted = invite[j].accepted
                             /\ invite'[j].status = invite[j].status
    BY <1>2 DEF TimePasses
  <2>2. QED
    BY <2>1, SameInviteSameStatus, SameStatus
<1>3. ASSUME invite' = invite
      PROVE  [Invitation!Next]_InviteStatus
  BY <1>3, SameInviteSameStatus, SameStatus
<1>4. ASSUME NEW a \in Acceptances, MarkExpired(a)
      PROVE  [Invitation!Next]_InviteStatus
  <2> DEFINE i == attempt[a].of
  <2>1. i \in Invites /\ invite[i].status # "none"
    BY <1>4 DEF MarkExpired, ReadWasIssued
  <2>2. \A j \in Invites \ {i} : invite'[j] = invite[j]
    BY <1>4 DEF MarkExpired
  <2>3. invite'[i].accepted = invite[i].accepted /\ invite'[i].status = "expired"
    BY <1>4, <2>1 DEF MarkExpired
  <2>4. \A j \in Invites \ {i} : InviteStatus'[j] = InviteStatus[j]
    BY <2>2, SameInviteSameStatus
  <2>5. CASE InviteStatus[i] = "live"
    <3>1. InviteStatus'[i] = "void"
      BY <2>1, <2>3, <2>5, InviteStatusIs, InviteStatusIsNext
    <3>2. Invitation!Void({i}) /\ {i} \in SUBSET Invitation!LiveTokens
      BY <2>1, <2>4, <2>5, <3>1 DEF Invitation!Void, Invitation!LiveTokens, InviteStatus
    <3>3. QED
      BY <3>2 DEF Invitation!Next
  <2>6. CASE InviteStatus[i] # "live"
    <3>1. InviteStatus'[i] = InviteStatus[i]
      BY <2>1, <2>3, <2>6, InviteStatusIs, InviteStatusIsNext
    <3>2. QED
      BY <3>1, <2>4, SameStatus
  <2>7. QED
    BY <2>5, <2>6
<1>5. ASSUME NEW a \in Acceptances, CommitAccept(a)
      PROVE  [Invitation!Next]_InviteStatus
  <2> DEFINE i == attempt[a].of
  <2>1. i \in Invites /\ invite[i].status = "pending" /\ ~invite[i].accepted
    BY <1>5 DEF CommitAccept, InTransaction, OpenIsPending, AcceptedStays
  <2>2. \A j \in Invites \ {i} : invite'[j] = invite[j]
    BY <1>5 DEF CommitAccept
  <2>3. invite'[i].accepted
    BY <1>5, <2>1 DEF CommitAccept
  <2>4. InviteStatus[i] = "live" /\ InviteStatus'[i] = "spent"
    BY <2>1, <2>3, InviteStatusIs, InviteStatusIsNext
  <2>5. \A j \in Invites \ {i} : InviteStatus'[j] = InviteStatus[j]
    BY <2>2, SameInviteSameStatus
  <2>6. InviteStatus' = [InviteStatus EXCEPT ![i] = "spent"]
    BY <2>1, <2>4, <2>5 DEF InviteStatus
  <2>7. QED
    BY <2>1, <2>4, <2>6 DEF Invitation!Next, Invitation!Redeem
<1>6. CASE UNCHANGED inviteVars
  BY <1>6, <1>3 DEF inviteVars
<1>7. QED
  BY <1>1, <1>2, <1>3, <1>4, <1>5, <1>6
     DEF InviteNext, OpenInvite, BeginAccept, AbandonAccept, PublishTerms, ScheduleTerms,
         WithdrawTerms, TermsFallDue, SetInviteeRoles

(* For any number of invitations and requests, an invitation activates once and
   never after it was marked expired (acceptInvitePostgres). *)
THEOREM InvitationsImplementOneTimeToken == InviteSpec => InvitesAreOneTime
<1>1. InviteInit => Invitation!Init
  BY DEF InviteInit, Invitation!Init, InviteStatus
<1>2. QED
  BY <1>1, InviteInvHolds, InviteStepRefines, PTL
     DEF InviteSpec, InvitesAreOneTime, Invitation!Spec

-----------------------------------------------------------------------------
(* Purchases. *)

(* Requests that have booked in the ledger and not yet approved *)
Booking == {c \in PurchaseCalls : matter[c].at \in {"booked", "approving"}}

(* What requests read is what they looked for. *)
ReadRight(m) ==
  /\ m.at \in {"idle", "updating", "deciding", "booked", "approving"}
  /\ m.at = "idle" => m = NoMatter
  /\ m.at = "updating" => m.total \in Nat /\ m.seen.status = "draft"
  /\ m.at = "deciding" => m.to \in {"submitted", "denied", "gone"} /\ m.seen.status # "approved"
  /\ m.at \in {"booked", "approving"} => m.seen.status = "submitted"

PurchaseRows ==
  [status : {"draft", "submitted", "approved", "denied", "gone"}, total : Nat]

MatterShape ==
  /\ DOMAIN matter = PurchaseCalls
  /\ \A c \in PurchaseCalls : ReadRight(matter[c])
  /\ purchase \in PurchaseRows

(* Of two requests that have booked, at most one ends without straying, and that
   one leaves the other behind: so only the sum of a lone one matters. *)
PaidInv ==
  ~strayed =>
    /\ Booking = {} => paid = IF purchase.status = "approved" THEN purchase.total ELSE 0
    /\ \A c \in PurchaseCalls :
         Booking = {c} /\ purchase.status # "approved" => paid = matter[c].seen.total

PurchaseInv == MatterShape /\ PaidInv

LEMMA PurchaseInvInit == PurchaseInit => PurchaseInv
<1> SUFFICES ASSUME PurchaseInit
             PROVE  PurchaseInv
  OBVIOUS
<1> USE DEF PurchaseInit, NoMatter
<1>1. purchase \in PurchaseRows /\ purchase.status = "draft"
  BY PurchaseAssumption DEF PurchaseRows
<1>2. MatterShape
  BY <1>1 DEF MatterShape, ReadRight
<1>3. Booking = {}
  BY DEF Booking
<1>4. PaidInv
  BY <1>1, <1>3 DEF PaidInv
<1>5. QED
  BY <1>2, <1>4 DEF PurchaseInv

(* A step of one request that has not booked, before or after *)
LEMMA AsideKeepsShape ==
  ASSUME PurchaseInv, NEW c \in PurchaseCalls, NEW m, ReadRight(m),
         matter' = [matter EXCEPT ![c] = m],
         matter[c].at \notin {"booked", "approving"}, m.at \notin {"booked", "approving"},
         purchase' \in PurchaseRows
  PROVE  MatterShape' /\ Booking' = Booking
           /\ \A b \in Booking : matter'[b] = matter[b]
<1>1. DOMAIN matter' = PurchaseCalls /\ matter'[c] = m
        /\ \A b \in PurchaseCalls \ {c} : matter'[b] = matter[b]
  BY DEF PurchaseInv, MatterShape
<1>2. Booking' = Booking
  BY <1>1 DEF Booking
<1>3. \A b \in PurchaseCalls : ReadRight(matter'[b])
  BY <1>1 DEF PurchaseInv, MatterShape
<1>4. MatterShape'
  BY <1>1, <1>3 DEF MatterShape, ReadRight, NoMatter, PurchaseRows
<1>5. \A b \in Booking : matter'[b] = matter[b]
  BY <1>1 DEF Booking
<1>6. QED
  BY <1>2, <1>4, <1>5

(* A write by such a request *)
LEMMA WriteAfterKeeps ==
  ASSUME PurchaseInv, NEW c \in PurchaseCalls, NEW row, WriteAfter(c, row),
         matter[c].at \in {"updating", "deciding"}, row \in PurchaseRows,
         purchase = matter[c].seen => row.status # "approved"
  PROVE  PurchaseInv'
<1>1. ReadRight(NoMatter) /\ NoMatter.at = "idle"
  BY DEF ReadRight, NoMatter
<1>2. purchase' \in PurchaseRows
  BY DEF WriteAfter, PurchaseInv, MatterShape
<1>3. /\ MatterShape' /\ Booking' = Booking
      /\ \A b \in Booking : matter'[b] = matter[b]
  BY <1>1, <1>2, AsideKeepsShape DEF WriteAfter, EndMatter
<1>4. ASSUME ~strayed'
      PROVE  /\ ~strayed
             /\ purchase'.status = "approved" <=> purchase.status = "approved"
             /\ purchase'.status = "approved" => purchase' = purchase
  <2>1. CASE purchase.status = "gone"
    BY <2>1, <1>4 DEF WriteAfter
  <2>2. CASE purchase.status # "gone"
    <3>1. purchase = matter[c].seen /\ purchase' = row /\ ~strayed
      BY <1>4, <2>2 DEF WriteAfter
    <3>2. purchase.status # "approved"
      BY <3>1 DEF PurchaseInv, MatterShape, ReadRight
    <3>3. QED
      BY <3>1, <3>2
  <2>3. QED
    BY <2>1, <2>2
<1>5. paid' = paid
  BY DEF WriteAfter
<1>6. PaidInv'
  <2>1. ASSUME ~strayed', Booking' = {}
        PROVE  paid' = IF purchase'.status = "approved" THEN purchase'.total ELSE 0
    <3>1. ~strayed /\ Booking = {}
      BY <1>3, <1>4, <2>1
    <3>2. paid = IF purchase.status = "approved" THEN purchase.total ELSE 0
      BY <3>1 DEF PaidInv, PurchaseInv
    <3>3. QED
      BY <3>2, <1>4, <1>5, <2>1
  <2>2. ASSUME ~strayed', NEW b \in PurchaseCalls, Booking' = {b}, purchase'.status # "approved"
        PROVE  paid' = matter'[b].seen.total
    <3>1. ~strayed /\ Booking = {b} /\ purchase.status # "approved"
      BY <1>3, <1>4, <2>2
    <3>2. paid = matter[b].seen.total
      BY <3>1 DEF PaidInv, PurchaseInv
    <3>3. matter'[b] = matter[b]
      BY <3>1, <1>3
    <3>4. QED
      BY <3>2, <3>3, <1>5
  <2>3. QED
    BY <2>1, <2>2 DEF PaidInv
<1>7. QED
  BY <1>3, <1>6 DEF PurchaseInv

(* A read by such a request *)
LEMMA ReadKeeps ==
  ASSUME PurchaseInv, NEW c \in PurchaseCalls, NEW m, ReadRight(m), Takes(c, m),
         matter[c] = NoMatter, m.at \notin {"booked", "approving"},
         UNCHANGED <<purchase, paid, strayed>>
  PROVE  PurchaseInv'
<1>1. purchase' \in PurchaseRows
  BY DEF PurchaseInv, MatterShape
<1>2. matter[c].at = "idle"
  BY DEF NoMatter
<1>3. /\ MatterShape' /\ Booking' = Booking
      /\ \A b \in Booking : matter'[b] = matter[b]
  BY <1>1, <1>2, AsideKeepsShape DEF Takes
<1>4. PaidInv'
  <2>1. ASSUME NEW b \in PurchaseCalls, Booking = {b}
        PROVE  matter'[b] = matter[b]
    BY <1>3, <2>1
  <2>2. QED
    BY <1>3, <2>1 DEF PaidInv, PurchaseInv
<1>5. QED
  BY <1>3, <1>4 DEF PurchaseInv

(* A step of a request that has booked or books: the others' are as they were. *)
LEMMA BookingShape ==
  ASSUME PurchaseInv, NEW c \in PurchaseCalls, NEW m, ReadRight(m),
         matter' = [matter EXCEPT ![c] = m], purchase' \in PurchaseRows
  PROVE  /\ MatterShape' /\ matter'[c] = m
         /\ \A b \in PurchaseCalls \ {c} : matter'[b] = matter[b]
         /\ Booking' = IF m.at \in {"booked", "approving"} THEN Booking \cup {c}
                       ELSE Booking \ {c}
<1>1. DOMAIN matter' = PurchaseCalls /\ matter'[c] = m
        /\ \A b \in PurchaseCalls \ {c} : matter'[b] = matter[b]
  BY DEF PurchaseInv, MatterShape
<1>2. \A b \in PurchaseCalls : ReadRight(matter'[b])
  BY <1>1 DEF PurchaseInv, MatterShape
<1>3. MatterShape'
  BY <1>1, <1>2 DEF MatterShape, ReadRight, NoMatter, PurchaseRows
<1>4. Booking' = IF m.at \in {"booked", "approving"} THEN Booking \cup {c} ELSE Booking \ {c}
  BY <1>1 DEF Booking
<1>5. QED
  BY <1>1, <1>3, <1>4

LEMMA BookingKeeps ==
  ASSUME PurchaseInv, NEW c \in PurchaseCalls, BookPurchase(c)
  PROVE  PurchaseInv'
<1> DEFINE m == [at |-> "booked", seen |-> purchase]
<1>1. /\ matter[c] = NoMatter /\ ~strayed /\ purchase.status = "submitted"
      /\ paid' = paid + purchase.total /\ matter' = [matter EXCEPT ![c] = m]
      /\ UNCHANGED <<purchase, strayed>>
  BY DEF BookPurchase, Comes, Takes
<1>2. ReadRight(m) /\ m.at = "booked" /\ purchase' \in PurchaseRows /\ c \notin Booking
  BY <1>1 DEF ReadRight, NoMatter, Booking, PurchaseInv, MatterShape
<1> HIDE DEF m
<1>3. /\ MatterShape' /\ matter'[c] = m
      /\ Booking' = Booking \cup {c}
  BY <1>1, <1>2, BookingShape
<1>4. m.seen.total = purchase.total
  BY DEF m
<1>5. PaidInv'
  <2>1. ASSUME NEW b \in PurchaseCalls, Booking' = {b}
        PROVE  paid' = matter'[b].seen.total
    <3>1. b = c /\ Booking = {}
      BY <1>2, <1>3, <2>1
    <3>2. paid = 0
      BY <3>1, <1>1 DEF PaidInv, PurchaseInv
    <3>3. purchase.total \in Nat
      BY DEF PurchaseInv, MatterShape, PurchaseRows
    <3>4. QED
      BY <1>1, <1>3, <1>4, <3>1, <3>2, <3>3
  <2>2. Booking' # {}
    BY <1>3
  <2>3. QED
    BY <2>1, <2>2 DEF PaidInv
<1>6. QED
  BY <1>3, <1>5 DEF PurchaseInv

LEMMA RecheckKeeps ==
  ASSUME PurchaseInv, NEW c \in PurchaseCalls, RecheckPurchase(c)
  PROVE  PurchaseInv'
<1>1. purchase' \in PurchaseRows /\ c \in Booking
  BY DEF RecheckPurchase, PurchaseInv, MatterShape, Booking
<1>2. CASE purchase.status # "submitted"
  <2>1. strayed' /\ matter' = [matter EXCEPT ![c] = NoMatter]
    BY <1>2 DEF RecheckPurchase, EndMatter
  <2>2. ReadRight(NoMatter)
    BY DEF ReadRight, NoMatter
  <2>3. MatterShape'
    BY <1>1, <2>1, <2>2, BookingShape
  <2>4. QED
    BY <2>1, <2>3 DEF PurchaseInv, PaidInv
<1>3. CASE purchase.status = "submitted"
  <2> DEFINE m == [matter[c] EXCEPT !.at = "approving"]
  <2>1. matter' = [matter EXCEPT ![c] = m] /\ UNCHANGED <<purchase, paid, strayed>>
    BY <1>3 DEF RecheckPurchase, Takes
  <2>2. matter[c].seen.status = "submitted" /\ matter[c].at = "booked"
    BY DEF RecheckPurchase, PurchaseInv, MatterShape, ReadRight
  <2>3. m.at = "approving" /\ m.seen = matter[c].seen
    OBVIOUS
  <2> HIDE DEF m
  <2>4. ReadRight(m)
    BY <2>2, <2>3 DEF ReadRight
  <2>5. /\ MatterShape' /\ matter'[c] = m /\ Booking' = Booking
        /\ \A b \in PurchaseCalls \ {c} : matter'[b] = matter[b]
    <3>1. /\ MatterShape' /\ matter'[c] = m /\ Booking' = Booking \cup {c}
          /\ \A b \in PurchaseCalls \ {c} : matter'[b] = matter[b]
      BY <1>1, <2>1, <2>3, <2>4, BookingShape
    <3>2. QED
      BY <1>1, <3>1
  <2>6. \A b \in PurchaseCalls : matter'[b].seen = matter[b].seen
    BY <2>3, <2>5
  <2>7. PaidInv'
    BY <2>1, <2>5, <2>6 DEF PaidInv, PurchaseInv
  <2>8. QED
    BY <2>5, <2>7 DEF PurchaseInv
<1>4. QED
  BY <1>2, <1>3

LEMMA ApprovalKeeps ==
  ASSUME PurchaseInv, NEW c \in PurchaseCalls, ApprovePurchase(c)
  PROVE  PurchaseInv'
<1>1. purchase' \in PurchaseRows /\ c \in Booking
  BY DEF ApprovePurchase, PurchaseInv, MatterShape, Booking, PurchaseRows
<1>2. matter' = [matter EXCEPT ![c] = NoMatter] /\ paid' = paid
  BY DEF ApprovePurchase, EndMatter
<1>3. ReadRight(NoMatter) /\ NoMatter.at = "idle"
  BY DEF ReadRight, NoMatter
<1>4. MatterShape' /\ Booking' = Booking \ {c}
  BY <1>1, <1>2, <1>3, BookingShape
<1>5. ASSUME ~strayed'
      PROVE  /\ ~strayed /\ purchase = matter[c].seen
             /\ purchase.status = "submitted"
             /\ purchase'.status = "approved" /\ purchase'.total = purchase.total
  <2>1. ~strayed /\ purchase = matter[c].seen
    BY <1>5 DEF ApprovePurchase
  <2>2. purchase.status = "submitted"
    BY <2>1 DEF ApprovePurchase, PurchaseInv, MatterShape, ReadRight
  <2>3. purchase' = [purchase EXCEPT !.status = "approved"]
    BY <2>2 DEF ApprovePurchase
  <2>4. purchase'.status = "approved" /\ purchase'.total = purchase.total
    BY <2>3 DEF PurchaseInv, MatterShape, PurchaseRows
  <2>5. QED
    BY <2>1, <2>2, <2>4
<1>6. ASSUME ~strayed', Booking' = {}
      PROVE  paid' = purchase'.total
  <2>1. Booking = {c}
    BY <1>1, <1>4, <1>6
  <2>2. paid = matter[c].seen.total
    BY <1>5, <1>6, <2>1 DEF PaidInv, PurchaseInv
  <2>3. QED
    BY <1>2, <1>5, <1>6, <2>2
<1>7. PaidInv'
  BY <1>5, <1>6 DEF PaidInv
<1>8. QED
  BY <1>4, <1>7 DEF PurchaseInv

LEMMA DropKeeps ==
  ASSUME PurchaseInv, NEW c \in PurchaseCalls, DropMatter(c)
  PROVE  PurchaseInv'
<1>1. /\ matter' = [matter EXCEPT ![c] = NoMatter] /\ UNCHANGED <<purchase, paid>>
      /\ strayed' = (strayed \/ matter[c].at \in {"booked", "approving"})
  BY DEF DropMatter, EndMatter
<1>2. purchase' \in PurchaseRows
  BY <1>1 DEF PurchaseInv, MatterShape
<1>3. ReadRight(NoMatter) /\ NoMatter.at = "idle"
  BY DEF ReadRight, NoMatter
<1>4. /\ MatterShape' /\ Booking' = Booking \ {c}
      /\ \A b \in PurchaseCalls \ {c} : matter'[b] = matter[b]
  BY <1>1, <1>2, <1>3, BookingShape
<1>5. ASSUME ~strayed'
      PROVE  ~strayed /\ Booking' = Booking
  BY <1>1, <1>4, <1>5 DEF Booking
<1>6. ASSUME ~strayed', NEW b \in PurchaseCalls, Booking' = {b}
      PROVE  matter'[b] = matter[b]
  <2>1. b # c
    BY <1>4, <1>6
  <2>2. QED
    BY <1>4, <2>1
<1>7. PaidInv'
  BY <1>1, <1>5, <1>6 DEF PaidInv, PurchaseInv
<1>8. QED
  BY <1>4, <1>7 DEF PurchaseInv

LEMMA PurchaseInvStep == PurchaseInv /\ [PurchaseNext]_purchaseVars => PurchaseInv'
<1> SUFFICES ASSUME PurchaseInv, [PurchaseNext]_purchaseVars
             PROVE  PurchaseInv'
  OBVIOUS
<1>1. ASSUME NEW c \in PurchaseCalls, NEW total \in Totals, NEW submits \in BOOLEAN,
             ReadForUpdate(c, total, submits)
      PROVE  PurchaseInv'
  <2> DEFINE m == [at |-> "updating", total |-> total, submits |-> submits, seen |-> purchase]
  <2>1. ReadRight(m)
    BY <1>1, PurchaseAssumption DEF ReadRight, ReadForUpdate
  <2>2. m.at \notin {"booked", "approving"}
    OBVIOUS
  <2>3. Takes(c, m) /\ matter[c] = NoMatter /\ UNCHANGED <<purchase, paid, strayed>>
    BY <1>1 DEF ReadForUpdate, Comes
  <2> HIDE DEF m
  <2>4. QED
    BY <2>1, <2>2, <2>3, ReadKeeps
<1>2. ASSUME NEW c \in PurchaseCalls, NEW to, ReadForDecision(c, to)
      PROVE  PurchaseInv'
  <2> DEFINE m == [at |-> "deciding", to |-> to, seen |-> purchase]
  <2>1. to \in {"submitted", "denied", "gone"} /\ purchase.status # "approved"
    BY <1>2 DEF ReadForDecision, Decisions
  <2>2. ReadRight(m)
    BY <2>1 DEF ReadRight
  <2>3. m.at \notin {"booked", "approving"}
    OBVIOUS
  <2>4. Takes(c, m) /\ matter[c] = NoMatter /\ UNCHANGED <<purchase, paid, strayed>>
    BY <1>2 DEF ReadForDecision, Comes
  <2> HIDE DEF m
  <2>5. QED
    BY <2>2, <2>3, <2>4, ReadKeeps
<1>3. ASSUME NEW c \in PurchaseCalls, UpdatePurchase(c)
      PROVE  PurchaseInv'
  <2> DEFINE row == [status |-> IF matter[c].submits THEN "submitted" ELSE purchase.status,
                     total |-> matter[c].total]
  <2>1. WriteAfter(c, row) /\ matter[c].at = "updating"
    BY <1>3 DEF UpdatePurchase
  <2>2. matter[c].total \in Nat /\ matter[c].seen.status = "draft"
    BY <2>1 DEF PurchaseInv, MatterShape, ReadRight
  <2>3. row \in PurchaseRows
    BY <2>2 DEF PurchaseRows, PurchaseInv, MatterShape
  <2>4. purchase = matter[c].seen => row.status # "approved"
    BY <2>2
  <2> HIDE DEF row
  <2>5. QED
    BY <2>1, <2>3, <2>4, WriteAfterKeeps
<1>4. ASSUME NEW c \in PurchaseCalls, DecidePurchase(c)
      PROVE  PurchaseInv'
  <2> DEFINE row == [purchase EXCEPT !.status = matter[c].to]
  <2>1. WriteAfter(c, row) /\ matter[c].at = "deciding"
    BY <1>4 DEF DecidePurchase
  <2>2. matter[c].to \in {"submitted", "denied", "gone"}
    BY <2>1 DEF PurchaseInv, MatterShape, ReadRight
  <2>3. row \in PurchaseRows /\ row.status # "approved"
    BY <2>2 DEF PurchaseRows, PurchaseInv, MatterShape
  <2> HIDE DEF row
  <2>4. QED
    BY <2>1, <2>3, WriteAfterKeeps
<1>5. CASE UNCHANGED purchaseVars
  BY <1>5 DEF purchaseVars, PurchaseInv, MatterShape, PaidInv, Booking
<1>6. QED
  BY <1>1, <1>2, <1>3, <1>4, <1>5, BookingKeeps, RecheckKeeps, ApprovalKeeps, DropKeeps
     DEF PurchaseNext

LEMMA PurchaseInvHolds == PurchaseSpec => []PurchaseInv
BY PurchaseInvInit, PurchaseInvStep, PTL DEF PurchaseSpec

(* What an approval books is what the ledger holds in the end: for any number of
   requests, one that ends without having written what had changed leaves the
   total of the purchase, once (approve/route.ts:42, drizzle-adapter.ts:158). *)
THEOREM ApprovalsBookOnce == PurchaseSpec => []PurchaseIsPaidOnce
<1>1. PurchaseInv => PurchaseIsPaidOnce
  <2>1. ASSUME \A c \in PurchaseCalls : matter[c] = NoMatter
        PROVE  Booking = {}
    BY <2>1 DEF Booking, NoMatter
  <2>2. QED
    BY <2>1 DEF PurchaseInv, PaidInv, PurchaseIsPaidOnce
<1>2. QED
  BY PurchaseInvHolds, <1>1, PTL

-----------------------------------------------------------------------------
(* Mailed links. *)

LinkRows == [purpose : Purposes, late : BOOLEAN,
             status : {"unissued", "live", "used", "void"}]

LinkShape ==
  /\ link \in [Links -> LinkRows]
  /\ asking \subseteq Purposes \X Nat
  /\ clicks \subseteq Links /\ used \subseteq Links
  /\ grants \in [LinkReplicas -> SUBSET Links]
  /\ effects \in [Links -> Nat]
  /\ older \in [Links -> Nat]

(* Links are issued one after the other, and only what was issued is clicked. *)
InOrder ==
  /\ Issued = 1..Newest /\ Newest \in Nat
  /\ clicks \subseteq Issued
  /\ \A l \in Issued : older[l] <= Newest

(* A used link is on its way in one place, or has had its effect, or is lost. *)
OncePlaced ==
  /\ \A l \in used : link[l].status = "used" /\ effects[l] = 0
  /\ \A r \in LinkReplicas : \A l \in grants[r] :
       /\ link[l].status = "used" /\ effects[l] = 0 /\ l \notin used
       /\ \A q \in LinkReplicas : l \in grants[q] => q = r
  /\ \A l \in Links : effects[l] <= 1 /\ (effects[l] = 1 => link[l].status = "used")

(* What a request has superseded stays so. *)
AskedFor ==
  \A a \in asking : a[2] <= Newest
    /\ \A o \in 1..a[2] : link[o].purpose = a[1] => link[o].status # "live"

LinkInv == LinkShape /\ InOrder /\ OncePlaced /\ AskedFor /\ NewLinkEndsOlder

LEMMA LinkInvInit == LinkInit => LinkInv
<1> SUFFICES ASSUME LinkInit
             PROVE  LinkInv
  OBVIOUS
<1> USE DEF LinkInit
<1>1. LinkShape
  BY DEF LinkShape, NoLink, LinkRows, Purposes
<1>2. Issued = {} /\ Newest = 0
  BY FS_EmptySet DEF Issued, Newest, NoLink
<1>3. InOrder /\ OncePlaced /\ AskedFor /\ NewLinkEndsOlder
  BY <1>2 DEF InOrder, OncePlaced, AskedFor, NewLinkEndsOlder, NoLink
<1>4. QED
  BY <1>1, <1>3 DEF LinkInv

(* A step that issues no link and makes none live again *)
LEMMA NoNewLink ==
  ASSUME LinkInv, LinkShape', UNCHANGED <<asking, older>>, clicks' \subseteq Issued,
         \A l \in Links : /\ link'[l].purpose = link[l].purpose
                          /\ link'[l].status = "unissued" <=> link[l].status = "unissued"
                          /\ link'[l].status = "live" => link[l].status = "live"
  PROVE  InOrder' /\ AskedFor' /\ NewLinkEndsOlder'
<1>1. Issued' = Issued
  BY DEF Issued
<1>2. Newest' = Newest
  BY <1>1 DEF Newest
<1>3. Issued = 1..Newest /\ Newest \in Nat /\ Issued \subseteq Links
  BY DEF LinkInv, InOrder, Issued
<1>4. InOrder'
  BY <1>1, <1>2 DEF LinkInv, InOrder
<1>5. AskedFor'
  <2>1. ASSUME NEW a \in asking, NEW o \in 1..a[2], link'[o].purpose = a[1]
        PROVE  link'[o].status # "live"
    <3>1. a[2] <= Newest /\ a[2] \in Nat /\ (link[o].purpose = a[1] => link[o].status # "live")
      BY DEF LinkInv, AskedFor, LinkShape
    <3>2. o \in Links
      BY <1>3, <3>1
    <3>3. QED
      BY <2>1, <3>1, <3>2
  <2>2. QED
    BY <1>2, <2>1 DEF LinkInv, AskedFor
<1>6. NewLinkEndsOlder'
  <2>1. ASSUME NEW l \in Issued, NEW o \in 1..older[l], link'[o].purpose = link'[l].purpose
        PROVE  link'[o].status # "live"
    <3>1. older[l] <= Newest /\ older[l] \in Nat
      BY <1>3 DEF LinkInv, InOrder, LinkShape
    <3>2. o \in Links /\ l \in Links
      BY <1>3, <3>1
    <3>3. QED
      BY <2>1, <3>2 DEF LinkInv, NewLinkEndsOlder
  <2>2. QED
    BY <1>1, <2>1 DEF NewLinkEndsOlder
<1>7. QED
  BY <1>4, <1>5, <1>6

LEMMA AskKeeps ==
  ASSUME LinkInv, NEW p \in Purposes, AskLink(p)
  PROVE  LinkInv'
<1>1. /\ link' = Superseded(p) /\ asking' = asking \cup {<<p, Newest>>}
      /\ UNCHANGED <<clicks, used, grants, effects, older>>
  BY DEF AskLink
<1>2. /\ Issued = 1..Newest /\ Newest \in Nat /\ Issued \subseteq Links
      /\ link \in [Links -> LinkRows]
  BY DEF LinkInv, InOrder, LinkShape, Issued
<1>3. \A l \in Links :
        /\ link'[l] \in LinkRows
        /\ link'[l].purpose = link[l].purpose
        /\ link'[l].status = IF l \in LiveLinks(p) THEN "void" ELSE link[l].status
  BY <1>1, <1>2 DEF Superseded, LinkRows
<1>4. LinkShape'
  <2>1. link' \in [Links -> LinkRows]
    BY <1>1, <1>3 DEF Superseded
  <2>2. asking' \subseteq Purposes \X Nat
    BY <1>1, <1>2 DEF LinkInv, LinkShape
  <2>3. QED
    BY <1>1, <2>1, <2>2 DEF LinkInv, LinkShape
<1>5. \A l \in Links : /\ link'[l].status = "unissued" <=> link[l].status = "unissued"
                       /\ link'[l].status = "live" => link[l].status = "live"
                       /\ link'[l].status = "used" <=> link[l].status = "used"
  BY <1>3 DEF LiveLinks
<1>6. Issued' = Issued /\ Newest' = Newest
  <2>1. Issued' = Issued
    BY <1>5 DEF Issued
  <2>2. QED
    BY <2>1 DEF Newest
<1>7. InOrder'
  BY <1>1, <1>6 DEF LinkInv, InOrder
<1>8. OncePlaced'
  <2>1. \A r \in LinkReplicas : grants[r] \subseteq Links
    BY DEF LinkInv, LinkShape
  <2>2. used \subseteq Links
    BY DEF LinkInv, LinkShape
  <2>3. QED
    BY <1>1, <1>5, <2>1, <2>2 DEF LinkInv, OncePlaced
<1>9. AskedFor'
  <2>1. ASSUME NEW a \in asking', NEW o \in 1..a[2], link'[o].purpose = a[1]
        PROVE  a[2] <= Newest /\ link'[o].status # "live"
    <3>1. a[2] <= Newest /\ a[2] \in Nat
      BY <1>1, <1>2 DEF LinkInv, AskedFor, LinkShape
    <3>2. o \in Issued /\ o \in Links
      BY <1>2, <3>1
    <3>3. CASE a \in asking
      BY <1>3, <1>5, <2>1, <3>1, <3>2, <3>3 DEF LinkInv, AskedFor
    <3>4. CASE a = <<p, Newest>>
      BY <1>3, <2>1, <3>2, <3>4, <3>1 DEF LiveLinks
    <3>5. QED
      BY <1>1, <3>3, <3>4
  <2>2. \A a \in asking' : a[2] <= Newest
    BY <1>1, <1>2 DEF LinkInv, AskedFor
  <2>3. QED
    BY <1>6, <2>1, <2>2 DEF AskedFor
<1>10. NewLinkEndsOlder'
  <2>1. ASSUME NEW l \in Issued, NEW o \in 1..older[l], link'[o].purpose = link'[l].purpose
        PROVE  link'[o].status # "live"
    <3>1. older[l] <= Newest /\ older[l] \in Nat
      BY <1>2 DEF LinkInv, InOrder, LinkShape
    <3>2. o \in Links /\ l \in Links
      BY <1>2, <3>1
    <3>3. QED
      BY <1>3, <1>5, <2>1, <3>2 DEF LinkInv, NewLinkEndsOlder
  <2>2. QED
    BY <1>1, <1>6, <2>1 DEF NewLinkEndsOlder
<1>11. QED
  BY <1>4, <1>7, <1>8, <1>9, <1>10 DEF LinkInv

LEMMA MailKeeps ==
  ASSUME LinkInv, NEW a \in asking, MailLink(a)
  PROVE  LinkInv'
<1> DEFINE n == Newest + 1
           row == [purpose |-> a[1], status |-> "live", late |-> FALSE]
<1>1. /\ Newest < MaxLinks /\ link' = [link EXCEPT ![n] = row]
      /\ older' = [older EXCEPT ![n] = a[2]] /\ asking' \subseteq asking
      /\ UNCHANGED <<clicks, used, grants, effects>>
  BY DEF MailLink
<1>2. /\ Issued = 1..Newest /\ Newest \in Nat /\ link \in [Links -> LinkRows]
      /\ a[1] \in Purposes /\ a[2] \in Nat /\ a[2] <= Newest
  BY DEF LinkInv, InOrder, LinkShape, AskedFor
<1>3. n \in Links /\ n \notin Issued
  BY <1>1, <1>2, LinkBoundAssumption DEF Links
<1>4. /\ link' \in [Links -> LinkRows] /\ link'[n] = row
      /\ \A l \in Links \ {n} : link'[l] = link[l]
  BY <1>1, <1>2, <1>3 DEF LinkRows
<1>5. Issued' = Issued \cup {n}
  BY <1>3, <1>4 DEF Issued
<1>6. Issued' = 1..n /\ Newest' = n
  <2>1. Issued' = 1..n
    BY <1>2, <1>5
  <2>2. Cardinality(1..n) = n
    BY <1>2, FS_Interval
  <2>3. QED
    BY <2>1, <2>2 DEF Newest
<1>7. /\ older' \in [Links -> Nat] /\ older'[n] = a[2]
      /\ \A l \in Links \ {n} : older'[l] = older[l]
  BY <1>1, <1>2, <1>3 DEF LinkInv, LinkShape
<1> HIDE DEF row
<1>8. LinkShape'
  BY <1>1, <1>4, <1>7 DEF LinkInv, LinkShape
<1>9. \A l \in Issued : l \in Links /\ l # n /\ l <= Newest /\ older[l] \in Nat /\ older[l] <= Newest
  BY <1>2, <1>3 DEF Issued, LinkInv, InOrder, LinkShape
<1>10. InOrder'
  BY <1>1, <1>2, <1>5, <1>6, <1>7, <1>9 DEF LinkInv, InOrder
<1>11. link[n].status = "unissued"
  BY <1>3 DEF Issued
<1>12. OncePlaced'
  <2>1. ASSUME NEW l \in Links, link[l].status = "used"
        PROVE  link'[l].status = "used"
    BY <1>4, <1>11, <2>1
  <2>2. used \subseteq Links /\ \A r \in LinkReplicas : grants[r] \subseteq Links
    BY DEF LinkInv, LinkShape
  <2>3. QED
    BY <1>1, <2>1, <2>2 DEF LinkInv, OncePlaced
<1>13. ASSUME NEW b \in asking
       PROVE  /\ b[2] <= n
              /\ \A o \in 1..b[2] : link'[o] = link[o]
  <2>1. b[2] <= Newest /\ b[2] \in Nat
    BY DEF LinkInv, AskedFor, LinkShape
  <2>2. \A o \in 1..b[2] : o \in Issued
    BY <1>2, <2>1
  <2>3. QED
    BY <1>2, <1>4, <1>9, <2>1, <2>2
<1>14. AskedFor'
  BY <1>1, <1>6, <1>13 DEF LinkInv, AskedFor
<1>15. NewLinkEndsOlder'
  <2>1. ASSUME NEW l \in Issued', NEW o \in 1..older'[l], link'[o].purpose = link'[l].purpose
        PROVE  link'[o].status # "live"
    <3>1. CASE l = n
      <4>1. o \in 1..a[2]
        BY <1>7, <3>1
      <4>2. link'[o] = link[o]
        BY <1>13, <4>1
      <4>3. link'[l].purpose = a[1]
        BY <1>4, <3>1 DEF row
      <4>4. QED
        BY <2>1, <4>1, <4>2, <4>3 DEF LinkInv, AskedFor
    <3>2. CASE l \in Issued
      <4>1. older'[l] = older[l] /\ o \in Issued /\ o \in 1..older[l]
        BY <1>2, <1>7, <1>9, <3>2
      <4>2. link'[o] = link[o] /\ link'[l] = link[l]
        BY <1>4, <1>9, <3>2, <4>1
      <4>3. QED
        BY <2>1, <3>2, <4>1, <4>2 DEF LinkInv, NewLinkEndsOlder
    <3>3. QED
      BY <1>5, <3>1, <3>2
  <2>2. QED
    BY <2>1 DEF NewLinkEndsOlder
<1>16. QED
  BY <1>8, <1>10, <1>12, <1>14, <1>15 DEF LinkInv

(* A step that writes one row, and does not issue it *)
LEMMA RowWritten ==
  ASSUME LinkInv, NEW l \in Links, NEW row \in LinkRows,
         link' = [link EXCEPT ![l] = row], row.purpose = link[l].purpose,
         link[l].status = "live", row.status # "unissued",
         UNCHANGED <<asking, older, grants, effects>>,
         clicks' \subseteq clicks, used' \subseteq Links
  PROVE  /\ LinkShape' /\ InOrder' /\ AskedFor' /\ NewLinkEndsOlder'
         /\ link'[l] = row /\ \A k \in Links \ {l} : link'[k] = link[k]
<1>1. /\ link' \in [Links -> LinkRows] /\ link'[l] = row
      /\ \A k \in Links \ {l} : link'[k] = link[k]
  BY DEF LinkInv, LinkShape
<1>2. LinkShape'
  BY <1>1 DEF LinkInv, LinkShape
<1>3. clicks' \subseteq Issued
  BY DEF LinkInv, InOrder
<1>4. \A k \in Links : /\ link'[k].purpose = link[k].purpose
                       /\ link'[k].status = "unissued" <=> link[k].status = "unissued"
                       /\ link'[k].status = "live" => link[k].status = "live"
  BY <1>1
<1>5. QED
  BY <1>1, <1>2, <1>3, <1>4, NoNewLink

(* A step that writes no row *)
LEMMA NoRowWritten ==
  ASSUME LinkInv, UNCHANGED <<link, asking, older>>, clicks' \subseteq Issued,
         used' \subseteq Links, grants' \in [LinkReplicas -> SUBSET Links],
         effects' \in [Links -> Nat], OncePlaced'
  PROVE  LinkInv'
<1>1. LinkShape'
  BY DEF LinkInv, LinkShape, Issued
<1>2. InOrder' /\ AskedFor' /\ NewLinkEndsOlder'
  BY <1>1, NoNewLink
<1>3. QED
  BY <1>1, <1>2 DEF LinkInv

LEMMA UseKeeps ==
  ASSUME LinkInv, NEW l \in Links,
         ReadLink(l) \/ RefuseLate(l) \/ Consume(l) \/ LinkExpires(l)
  PROVE  LinkInv'
<1>1. /\ link \in [Links -> LinkRows] /\ link[l] \in LinkRows /\ used \subseteq Links
      /\ \A r \in LinkReplicas : grants[r] \subseteq Links
  BY DEF LinkInv, LinkShape
<1>2. CASE ReadLink(l)
  <2>1. clicks' \subseteq Issued /\ UNCHANGED <<link, asking, used, grants, effects, older>>
    BY <1>2 DEF ReadLink, LinkInv, InOrder, Issued
  <2>2. OncePlaced'
    BY <2>1 DEF LinkInv, OncePlaced
  <2>3. QED
    BY <2>1, <2>2, NoRowWritten DEF LinkInv, LinkShape
<1>3. CASE RefuseLate(l) \/ LinkExpires(l)
  <2>1. PICK row \in LinkRows :
          /\ link' = [link EXCEPT ![l] = row] /\ row.purpose = link[l].purpose
          /\ row.status \in {"live", "void"}
    <3>1. CASE RefuseLate(l)
      <4> DEFINE row == [link[l] EXCEPT !.status = "void"]
      <4>1. row \in LinkRows /\ row.purpose = link[l].purpose /\ row.status = "void"
        BY <1>1 DEF LinkRows
      <4>2. link' = [link EXCEPT ![l] = row]
        BY <1>1, <3>1 DEF RefuseLate
      <4>3. QED
        BY <4>1, <4>2
    <3>2. CASE LinkExpires(l)
      <4> DEFINE row == [link[l] EXCEPT !.late = TRUE]
      <4>1. row \in LinkRows /\ row.purpose = link[l].purpose /\ row.status = "live"
        BY <1>1, <3>2 DEF LinkRows, LinkExpires
      <4>2. link' = [link EXCEPT ![l] = row]
        BY <1>1, <3>2 DEF LinkExpires
      <4>3. QED
        BY <4>1, <4>2
    <3>3. QED
      BY <1>3, <3>1, <3>2
  <2>2. /\ link[l].status = "live"
        /\ UNCHANGED <<asking, clicks, used, grants, effects, older>>
    BY <1>3 DEF RefuseLate, LinkExpires
  <2>3. /\ LinkShape' /\ InOrder' /\ AskedFor' /\ NewLinkEndsOlder'
        /\ \A k \in Links \ {l} : link'[k] = link[k]
    BY <1>1, <2>1, <2>2, RowWritten
  <2>4. OncePlaced'
    <3>1. \A k \in Links : link[k].status = "used" => link'[k].status = "used"
      BY <2>2, <2>3
    <3>2. QED
      BY <1>1, <2>2, <3>1 DEF LinkInv, OncePlaced
  <2>5. QED
    BY <2>3, <2>4 DEF LinkInv
<1>4. CASE Consume(l)
  <2>1. clicks' \subseteq clicks /\ UNCHANGED <<asking, grants, effects, older>>
    BY <1>4 DEF Consume
  <2>2. CASE UNCHANGED <<link, used>>
    <3>1. OncePlaced'
      BY <2>1, <2>2 DEF LinkInv, OncePlaced
    <3>2. clicks' \subseteq Issued
      BY <2>1 DEF LinkInv, InOrder
    <3>3. QED
      BY <2>1, <2>2, <3>1, <3>2, NoRowWritten DEF LinkInv, LinkShape
  <2>3. CASE /\ link[l].status = "live"
             /\ link' = [link EXCEPT ![l].status = "used"]
             /\ used' = used \cup {l}
    <3> DEFINE row == [link[l] EXCEPT !.status = "used"]
    <3>1. row \in LinkRows /\ row.purpose = link[l].purpose /\ row.status = "used"
      BY <1>1 DEF LinkRows
    <3>2. link' = [link EXCEPT ![l] = row] /\ used' \subseteq Links
      BY <1>1, <2>3
    <3> HIDE DEF row
    <3>3. /\ LinkShape' /\ InOrder' /\ AskedFor' /\ NewLinkEndsOlder'
          /\ link'[l] = row /\ \A k \in Links \ {l} : link'[k] = link[k]
      BY <2>1, <2>3, <3>1, <3>2, RowWritten
    <3>4. effects[l] = 0 /\ l \notin used /\ \A r \in LinkReplicas : l \notin grants[r]
      BY <2>3 DEF LinkInv, OncePlaced, LinkShape
    <3>5. \A k \in Links : link[k].status = "used" => link'[k].status = "used"
      BY <3>1, <3>3
    <3>6. OncePlaced'
      BY <1>1, <2>1, <2>3, <3>1, <3>3, <3>4, <3>5 DEF LinkInv, OncePlaced
    <3>7. QED
      BY <3>3, <3>6 DEF LinkInv
  <2>4. QED
    BY <1>4, <2>2, <2>3 DEF Consume
<1>5. QED
  BY <1>2, <1>3, <1>4

LEMMA EffectsKeep ==
  ASSUME LinkInv, NEW l \in Links,
         \/ ChangePassword(l)
         \/ \E r \in LinkReplicas : IssueGrant(l, r) \/ Authorize(l, r) \/ LoseGrant(l, r)
  PROVE  LinkInv'
<1>1. /\ clicks \subseteq Issued /\ used \subseteq Links /\ effects \in [Links -> Nat]
      /\ grants \in [LinkReplicas -> SUBSET Links] /\ OncePlaced
  BY DEF LinkInv, LinkShape, InOrder
<1>2. CASE ChangePassword(l)
  <2>1. /\ used' = used \ {l} /\ effects' = [effects EXCEPT ![l] = @ + 1] /\ l \in used
        /\ UNCHANGED <<link, asking, clicks, grants, older>>
    BY <1>2 DEF ChangePassword
  <2>2. /\ effects' \in [Links -> Nat] /\ effects'[l] = 1
        /\ \A k \in Links \ {l} : effects'[k] = effects[k]
    BY <1>1, <2>1 DEF OncePlaced
  <2>3. \A r \in LinkReplicas : l \notin grants[r]
    BY <1>1, <2>1 DEF OncePlaced
  <2>4. OncePlaced'
    BY <1>1, <2>1, <2>2, <2>3 DEF OncePlaced
  <2>5. QED
    BY <1>1, <2>1, <2>2, <2>4, NoRowWritten
<1>3. ASSUME NEW r \in LinkReplicas, IssueGrant(l, r)
      PROVE  LinkInv'
  <2>1. /\ used' = used \ {l} /\ grants' = [grants EXCEPT ![r] = @ \cup {l}] /\ l \in used
        /\ UNCHANGED <<link, asking, clicks, effects, older>>
    BY <1>3 DEF IssueGrant
  <2>2. /\ grants' \in [LinkReplicas -> SUBSET Links] /\ grants'[r] = grants[r] \cup {l}
        /\ \A q \in LinkReplicas \ {r} : grants'[q] = grants[q]
    BY <1>1, <2>1
  <2>3. \A q \in LinkReplicas : l \notin grants[q]
    BY <1>1, <2>1 DEF OncePlaced
  <2>4. OncePlaced'
    BY <1>1, <2>1, <2>2, <2>3 DEF OncePlaced
  <2>5. QED
    BY <1>1, <2>1, <2>2, <2>4, NoRowWritten
<1>4. ASSUME NEW r \in LinkReplicas, LoseGrant(l, r)
      PROVE  LinkInv'
  <2>1. /\ grants' = [grants EXCEPT ![r] = @ \ {l}]
        /\ UNCHANGED <<link, asking, clicks, used, effects, older>>
    BY <1>4 DEF LoseGrant
  <2>2. /\ grants' \in [LinkReplicas -> SUBSET Links] /\ grants'[r] = grants[r] \ {l}
        /\ \A q \in LinkReplicas \ {r} : grants'[q] = grants[q]
    BY <1>1, <2>1
  <2>3. OncePlaced'
    BY <1>1, <2>1, <2>2 DEF OncePlaced
  <2>4. QED
    BY <1>1, <2>1, <2>2, <2>3, NoRowWritten
<1>5. ASSUME NEW r \in LinkReplicas, Authorize(l, r)
      PROVE  LinkInv'
  <2>1. PICK active \in BOOLEAN :
          /\ grants' = [grants EXCEPT ![r] = @ \ {l}]
          /\ effects' = [effects EXCEPT ![l] = IF l \in grants[r] /\ active THEN @ + 1 ELSE @]
          /\ UNCHANGED <<link, asking, clicks, used, older>>
    BY <1>5 DEF Authorize
  <2>2. /\ grants' \in [LinkReplicas -> SUBSET Links] /\ grants'[r] = grants[r] \ {l}
        /\ \A q \in LinkReplicas \ {r} : grants'[q] = grants[q]
    BY <1>1, <2>1
  <2>3. /\ effects' \in [Links -> Nat]
        /\ effects'[l] = IF l \in grants[r] /\ active THEN effects[l] + 1 ELSE effects[l]
        /\ \A k \in Links \ {l} : effects'[k] = effects[k]
    BY <1>1, <2>1
  <2>4. CASE ~(l \in grants[r] /\ active)
    <3>1. effects' = effects
      BY <1>1, <2>3, <2>4
    <3>2. OncePlaced'
      BY <1>1, <2>1, <2>2, <3>1 DEF OncePlaced
    <3>3. QED
      BY <1>1, <2>1, <2>2, <2>3, <3>2, NoRowWritten
  <2>5. CASE l \in grants[r] /\ active
    <3>1. /\ effects[l] = 0 /\ link[l].status = "used" /\ l \notin used
          /\ \A q \in LinkReplicas : l \notin grants'[q]
      BY <1>1, <2>2, <2>5 DEF OncePlaced
    <3>2. effects'[l] = 1
      BY <2>3, <2>5, <3>1
    <3>3. OncePlaced'
      BY <1>1, <2>1, <2>2, <2>3, <3>1, <3>2 DEF OncePlaced
    <3>4. QED
      BY <1>1, <2>1, <2>2, <2>3, <3>3, NoRowWritten
  <2>6. QED
    BY <2>4, <2>5
<1>6. QED
  BY <1>2, <1>3, <1>4, <1>5

LEMMA LinkInvHolds == LinkSpec => []LinkInv
<1>1. LinkInv /\ [LinkNext]_linkVars => LinkInv'
  <2> SUFFICES ASSUME LinkInv, [LinkNext]_linkVars
               PROVE  LinkInv'
    OBVIOUS
  <2>1. CASE UNCHANGED linkVars
    BY <2>1 DEF linkVars, LinkInv, LinkShape, InOrder, OncePlaced, AskedFor, NewLinkEndsOlder,
                Issued, Newest
  <2>2. QED
    BY <2>1, AskKeeps, MailKeeps, UseKeeps, EffectsKeep DEF LinkNext
<1>2. QED
  BY LinkInvInit, <1>1, PTL DEF LinkSpec

(* However many links are mailed and in however many replicas they are used, one
   has its effect once, and a new one ends those issued before it was asked for
   (sign-in-grants.ts:38, createToken). *)
THEOREM LinksWorkOnce == LinkSpec => []NewestLinkWorksOnce
<1>1. LinkInv => NewestLinkWorksOnce
  <2> SUFFICES ASSUME LinkInv, NEW l \in Links
               PROVE  effects[l] <= 1 /\ (effects[l] = 1 => link[l].status = "used" /\ l \notin used)
    BY DEF LinkInv, NewestLinkWorksOnce, OneEffectPerLink
  <2>1. QED
    BY DEF LinkInv, OncePlaced
<1>2. QED
  BY LinkInvHolds, <1>1, PTL

LEMMA LinkStepRefines == LinkInv /\ [LinkNext]_linkVars => [Token!Next]_LinkStatus
<1> SUFFICES ASSUME LinkInv, [LinkNext]_linkVars
             PROVE  [Token!Next]_LinkStatus
  OBVIOUS
<1>1. link \in [Links -> LinkRows]
  BY DEF LinkInv, LinkShape
<1>2. ASSUME link' = link
      PROVE  LinkStatus' = LinkStatus
  BY <1>2 DEF LinkStatus
<1>3. ASSUME NEW p \in Purposes, AskLink(p)
      PROVE  [Token!Next]_LinkStatus
  <2>1. LinkStatus' = [u \in Links |-> IF u \in LiveLinks(p) THEN "void" ELSE LinkStatus[u]]
    BY <1>1, <1>3 DEF AskLink, Superseded, LinkStatus, LiveLinks, LinkRows
  <2>2. LiveLinks(p) \in SUBSET Token!LiveTokens
    BY DEF LiveLinks, Issued, Token!LiveTokens, LinkStatus
  <2>3. QED
    BY <2>1, <2>2 DEF Token!Next, Token!Void
<1>4. ASSUME NEW a \in asking, MailLink(a)
      PROVE  [Token!Next]_LinkStatus
  <2> DEFINE n == Newest + 1
             row == [purpose |-> a[1], status |-> "live", late |-> FALSE]
  <2>1. link' = [link EXCEPT ![n] = row]
    BY <1>4 DEF MailLink
  <2>2. n \in Links /\ n \notin Issued
    BY <1>4, LinkBoundAssumption DEF MailLink, LinkInv, InOrder, Links
  <2>3. LinkStatus[n] = "unissued"
    BY <2>2 DEF Issued, LinkStatus
  <2>4. LinkStatus' = [u \in Links |-> IF u = n THEN "live"
                                       ELSE IF u \in {} THEN "void" ELSE LinkStatus[u]]
    BY <1>1, <2>1, <2>2 DEF LinkStatus
  <2>5. Token!Issue(n, {})
    BY <2>3, <2>4 DEF Token!Issue
  <2>6. QED
    BY <2>2, <2>5 DEF Token!Next
<1>5. ASSUME NEW l \in Links, RefuseLate(l)
      PROVE  [Token!Next]_LinkStatus
  <2>1. LinkStatus' = [u \in Links |-> IF u \in {l} THEN "void" ELSE LinkStatus[u]]
    BY <1>1, <1>5 DEF RefuseLate, LinkStatus, LinkRows
  <2>2. {l} \in SUBSET Token!LiveTokens
    BY <1>5 DEF RefuseLate, Token!LiveTokens, LinkStatus
  <2>3. QED
    BY <2>1, <2>2 DEF Token!Next, Token!Void
<1>6. ASSUME NEW l \in Links, Consume(l), link' # link
      PROVE  [Token!Next]_LinkStatus
  <2>1. link[l].status = "live" /\ link' = [link EXCEPT ![l].status = "used"]
    BY <1>6 DEF Consume
  <2>2. LinkStatus[l] = "live" /\ LinkStatus' = [LinkStatus EXCEPT ![l] = "spent"]
    BY <1>1, <2>1 DEF LinkStatus, LinkRows
  <2>3. QED
    BY <2>2 DEF Token!Next, Token!Redeem
<1>7. ASSUME NEW l \in Links, LinkExpires(l)
      PROVE  LinkStatus' = LinkStatus
  BY <1>1, <1>7 DEF LinkExpires, LinkStatus, LinkRows
<1>8. CASE UNCHANGED linkVars
  BY <1>2, <1>8 DEF linkVars
<1>9. QED
  BY <1>2, <1>3, <1>4, <1>5, <1>6, <1>7, <1>8
     DEF LinkNext, ReadLink, IssueGrant, Authorize, ChangePassword, LoseGrant

(* For any number of links, replicas and requests, a link is redeemed once, and
   none that was superseded or ran out comes back (consumeToken). *)
THEOREM LinksImplementOneTimeToken == LinkSpec => LinksAreOneTime
<1>1. LinkInit => Token!Init
  BY DEF LinkInit, NoLink, Token!Init, LinkStatus
<1>2. QED
  BY <1>1, LinkInvHolds, LinkStepRefines, PTL DEF LinkSpec, LinksAreOneTime, Token!Spec

-----------------------------------------------------------------------------
(* Seats. *)

SeatStates == {"none", "active", "ended"}
SeatRows == [state : SeatStates, primary : BOOLEAN]
Seats == [Locals -> SeatRows]
Operations ==
  [kind : {"none", "assign", "join", "end", "ending", "activate", "primary", "appoint"},
   at : Locals \cup {NoLocal}, primary : BOOLEAN, was : SeatStates,
   local : Locals \cup {NoLocal}, accessible : SUBSET Locals,
   ends : SUBSET Locals, seen : SUBSET Locals]

SeatShape == SeatTypeOK /\ op \in [Desks -> Operations]

(* What an operation has read is still so when it writes. *)
StillRead(o) ==
  /\ o.kind \in {"assign", "join"} => o.accessible = account.accessible
  /\ o.kind = "assign" => /\ o.local = account.local
                          /\ account.local \in {NoLocal, o.at} => o.primary
                          /\ o.at \notin o.ends
  /\ o.kind = "join" => o.at \notin o.ends
  /\ o.kind \in {"end", "ending", "primary"} => o.was = seat[o.at].state
  /\ o.kind = "primary" => o.was = "active"
  /\ o.kind = "ending" => /\ o.seen = {o.at} \cap office
                          /\ o.accessible = {o.at} \cap hall

OnlyActivePrimary == \A l \in Locals : seat[l].primary => seat[l].state = "active"
OneInFlight == \A d, e \in Desks : op[d].kind # "none" /\ op[e].kind # "none" => d = e

SeatsAgree ==
  /\ PrimaryIsLocal /\ OfficesHaveSeats /\ HallsAreSeats /\ SeatsAreAccessible
  /\ OnlyActivePrimary

SeatInv ==
  /\ SeatShape
  /\ ~overlapped => SeatsAgree /\ OneInFlight /\ \A d \in Desks : StillRead(op[d])

LEMMA SeatInvInit == SeatInit => SeatInv
<1> SUFFICES ASSUME SeatInit
             PROVE  SeatInv
  OBVIOUS
<1> USE DEF SeatInit
<1>1. Indexed(seat)
  <2>1. {l \in Locals : seat[l].state = "active" /\ seat[l].primary} = {}
    OBVIOUS
  <2>2. Cardinality({l \in Locals : seat[l].state = "active" /\ seat[l].primary}) = 0
    BY <2>1, FS_EmptySet
  <2>3. QED
    BY <2>2 DEF Indexed
<1>2. SeatShape
  BY <1>1 DEF SeatShape, SeatTypeOK, SeatStates, Operations, NoOp
<1>3. SeatsAgree
  BY DEF SeatsAgree, PrimaryIsLocal, OfficesHaveSeats, HallsAreSeats, SeatsAreAccessible,
         OnlyActivePrimary, Active
<1>4. OneInFlight /\ \A d \in Desks : StillRead(op[d])
  BY DEF OneInFlight, StillRead, NoOp
<1>5. QED
  BY <1>2, <1>3, <1>4 DEF SeatInv

(* Fewer primary seats need no check of the index. *)
LEMMA FewerIndexed ==
  ASSUME NEW s, NEW t, Indexed(s),
         \A l \in Locals : t[l].state = "active" /\ t[l].primary =>
                           s[l].state = "active" /\ s[l].primary
  PROVE  Indexed(t)
<1> DEFINE S == {l \in Locals : s[l].state = "active" /\ s[l].primary}
           T == {l \in Locals : t[l].state = "active" /\ t[l].primary}
<1>1. T \subseteq S /\ S \subseteq Locals
  OBVIOUS
<1>2. IsFiniteSet(S) /\ IsFiniteSet(T)
  BY <1>1, FS_Subset, NoLocalAssumption
<1>3. Cardinality(T) <= Cardinality(S) /\ Cardinality(T) \in Nat /\ Cardinality(S) \in Nat
  BY <1>1, <1>2, FS_Subset, FS_CardinalityType
<1>4. QED
  BY <1>3 DEF Indexed

LEMMA SoleIndexed ==
  ASSUME NEW s, NEW k \in Locals, \A l \in Locals : s[l].primary <=> l = k
  PROVE  Indexed(s)
<1> DEFINE S == {l \in Locals : s[l].state = "active" /\ s[l].primary}
<1>1. S = {} \/ S = {k}
  OBVIOUS
<1>2. Cardinality(S) \in {0, 1}
  BY <1>1, FS_EmptySet, FS_Singleton
<1>3. QED
  BY <1>2 DEF Indexed

-----------------------------------------------------------------------------
(* An operation begins: it is alone, or from now on operations have overlapped. *)
LEMMA BeginKeeps ==
  ASSUME SeatInv, NEW d \in Desks, NEW o \in Operations, Begin(d, o),
         o.kind # "none" => o.at \in Locals,
         ~overlapped => StillRead(o)
  PROVE  SeatInv'
<1>1. /\ SeatShape /\ op[d].kind = "none" /\ op' = [op EXCEPT ![d] = o]
      /\ overlapped' = (overlapped \/ InFlight(Desks))
      /\ UNCHANGED <<policy, account, seat, office, hall, fresh>>
  BY DEF SeatInv, Begin
<1>2. /\ op' \in [Desks -> Operations] /\ op'[d] = o
      /\ \A e \in Desks \ {d} : op'[e] = op[e]
  BY <1>1 DEF SeatShape
<1>3. SeatShape'
  BY <1>1, <1>2 DEF SeatShape, SeatTypeOK, Indexed, InFlight
<1>4. ASSUME ~overlapped'
      PROVE  SeatsAgree' /\ OneInFlight' /\ \A e \in Desks : StillRead(op[e])'
  <2>1. ~overlapped /\ \A e \in Desks : op[e].kind = "none"
    BY <1>1, <1>4 DEF InFlight
  <2>2. SeatsAgree'
    BY <1>1, <2>1 DEF SeatInv, SeatsAgree, PrimaryIsLocal, OfficesHaveSeats, HallsAreSeats,
                      SeatsAreAccessible, OnlyActivePrimary, Active
  <2>3. OneInFlight'
    BY <1>2, <2>1 DEF OneInFlight
  <2>4. ASSUME NEW e \in Desks
        PROVE  StillRead(op[e])'
    <3>1. StillRead(op'[e])
      BY <1>2, <2>1 DEF StillRead
    <3>2. QED
      BY <1>1, <3>1 DEF StillRead
  <2>5. QED
    BY <2>2, <2>3, <2>4
<1>5. QED
  BY <1>3, <1>4 DEF SeatInv

(* An operation ends and leaves what agrees, if nothing overlapped it. *)
LEMMA FinishKeeps ==
  ASSUME SeatInv, NEW d \in Desks, Finish(d),
         account' \in [local : Locals \union {NoLocal}, accessible : SUBSET Locals],
         seat' \in Seats, Indexed(seat'),
         office' \subseteq Locals, hall' \subseteq Locals, fresh' \in BOOLEAN,
         ~overlapped => SeatsAgree'
  PROVE  SeatInv'
<1>1. /\ SeatShape /\ op' = [op EXCEPT ![d] = NoOp]
      /\ overlapped' = (overlapped \/ InFlight(Desks \ {d}))
      /\ UNCHANGED policy
  BY DEF SeatInv, Finish
<1>2. NoOp \in Operations
  BY DEF Operations, NoOp, SeatStates
<1>3. /\ op' \in [Desks -> Operations] /\ op'[d] = NoOp
      /\ \A e \in Desks \ {d} : op'[e] = op[e]
  BY <1>1, <1>2 DEF SeatShape
<1>4. SeatShape'
  BY <1>1, <1>3 DEF SeatShape, SeatTypeOK, Indexed, InFlight, Seats, SeatRows, SeatStates, NoOp
<1>5. ASSUME ~overlapped'
      PROVE  SeatsAgree' /\ OneInFlight' /\ \A e \in Desks : StillRead(op[e])'
  <2>1. ~overlapped /\ \A e \in Desks \ {d} : op[e].kind = "none"
    BY <1>1, <1>5 DEF InFlight
  <2>2. \A e \in Desks : op'[e].kind = "none"
    BY <1>3, <2>1 DEF NoOp
  <2>3. QED
    BY <2>1, <2>2 DEF OneInFlight, StillRead
<1>6. QED
  BY <1>4, <1>5 DEF SeatInv

(* What is done at once overlaps whatever is in flight. *)
LEMMA AtOnceKeeps ==
  ASSUME SeatInv, AtOnce,
         account' \in [local : Locals \union {NoLocal}, accessible : SUBSET Locals],
         seat' \in Seats, Indexed(seat'),
         office' \subseteq Locals, hall' \subseteq Locals, fresh' \in BOOLEAN,
         ~overlapped => SeatsAgree'
  PROVE  SeatInv'
<1>1. /\ SeatShape /\ UNCHANGED <<op, policy>>
      /\ overlapped' = (overlapped \/ InFlight(Desks))
  BY DEF SeatInv, AtOnce
<1>2. SeatShape'
  BY <1>1 DEF SeatShape, SeatTypeOK, Indexed, InFlight, Seats, SeatRows, SeatStates
<1>3. ASSUME ~overlapped'
      PROVE  SeatsAgree' /\ OneInFlight' /\ \A e \in Desks : StillRead(op[e])'
  <2>1. ~overlapped /\ \A e \in Desks : op'[e].kind = "none"
    BY <1>1, <1>3 DEF InFlight
  <2>2. QED
    BY <2>1 DEF OneInFlight, StillRead
<1>4. QED
  BY <1>2, <1>3 DEF SeatInv

LEMMA AssignReadKeeps ==
  ASSUME SeatInv, NEW d \in Desks, NEW l \in Locals, NEW b \in BOOLEAN,
         NEW replace \in BOOLEAN, AssignRead(d, l, b, replace)
  PROVE  SeatInv'
<1> DEFINE o == [NoOp EXCEPT !.kind = "assign", !.at = l,
                   !.primary = b \/ account.local \in {NoLocal, l},
                   !.local = account.local, !.accessible = account.accessible,
                   !.ends = IF policy = "single_local" THEN Active \ {l} ELSE {}]
<1>1. Begin(d, o)
  BY DEF AssignRead
<1>2. o.kind = "assign" /\ o.at = l /\ o.local = account.local /\ l \notin o.ends
      /\ o.accessible = account.accessible
      /\ (account.local \in {NoLocal, l} => o.primary)
  BY DEF NoOp
<1>3. o \in Operations
  <2>1. account \in [local : Locals \union {NoLocal}, accessible : SUBSET Locals]
    BY DEF SeatInv, SeatShape, SeatTypeOK
  <2>2. Active \subseteq Locals
    BY DEF Active
  <2>3. QED
    BY <2>1, <2>2 DEF Operations, NoOp, SeatStates
<1> HIDE DEF o
<1>4. StillRead(o)
  BY <1>2 DEF StillRead
<1>5. QED
  BY <1>1, <1>2, <1>3, <1>4, BeginKeeps

LEMMA JoinReadKeeps ==
  ASSUME SeatInv, NEW d \in Desks, NEW l \in Locals, NEW replace \in BOOLEAN,
         JoinRead(d, l, replace)
  PROVE  SeatInv'
<1> DEFINE o == [NoOp EXCEPT !.kind = "join", !.at = l, !.accessible = account.accessible,
                   !.ends = IF policy = "single_local" THEN Active \ {l} ELSE {}]
<1>1. Begin(d, o)
  BY DEF JoinRead
<1>2. o.kind = "join" /\ o.at = l /\ l \notin o.ends /\ o.accessible = account.accessible
  BY DEF NoOp
<1>3. o \in Operations
  <2>1. account \in [local : Locals \union {NoLocal}, accessible : SUBSET Locals]
    BY DEF SeatInv, SeatShape, SeatTypeOK
  <2>2. Active \subseteq Locals
    BY DEF Active
  <2>3. QED
    BY <2>1, <2>2 DEF Operations, NoOp, SeatStates
<1> HIDE DEF o
<1>4. StillRead(o)
  BY <1>2 DEF StillRead
<1>5. QED
  BY <1>1, <1>2, <1>3, <1>4, BeginKeeps

LEMMA PatchReadKeeps ==
  ASSUME SeatInv, NEW d \in Desks, NEW l \in Locals,
         NEW kind \in {"end", "activate", "primary"}, PatchRead(d, l, kind)
  PROVE  SeatInv'
<1> DEFINE o == [NoOp EXCEPT !.kind = kind, !.at = l, !.was = seat[l].state]
<1>1. Begin(d, o) /\ (kind = "primary" => seat[l].state = "active")
  BY DEF PatchRead
<1>2. o.kind = kind /\ o.at = l /\ o.was = seat[l].state
  BY DEF NoOp
<1>3. o \in Operations
  BY DEF SeatInv, SeatShape, SeatTypeOK, Operations, NoOp, SeatStates
<1> HIDE DEF o
<1>4. StillRead(o)
  BY <1>1, <1>2 DEF StillRead
<1>5. QED
  BY <1>1, <1>2, <1>3, <1>4, BeginKeeps

LEMMA AppointStartKeeps ==
  ASSUME SeatInv, NEW d \in Desks, NEW l \in Locals, AppointStart(d, l)
  PROVE  SeatInv'
<1> DEFINE o == [NoOp EXCEPT !.kind = "appoint", !.at = l]
<1>1. Begin(d, o) /\ o.kind = "appoint" /\ o.at = l
  BY DEF AppointStart, NoOp
<1>2. o \in Operations
  BY DEF Operations, NoOp, SeatStates
<1> HIDE DEF o
<1>3. StillRead(o)
  BY <1>1 DEF StillRead
<1>4. QED
  BY <1>1, <1>2, <1>3, BeginKeeps

LEMMA EndedIs ==
  ASSUME seat \in Seats, NEW E
  PROVE  /\ Ended(E) \in Seats
         /\ \A l \in Locals : /\ l \in E => /\ Ended(E)[l].state = "ended"
                                            /\ ~Ended(E)[l].primary
                              /\ l \notin E => Ended(E)[l] = seat[l]
<1>1. \A l \in Locals : seat[l] \in SeatRows
  BY DEF Seats
<1>2. \A l \in Locals : Ended(E)[l] = IF l \in E THEN [state |-> "ended", primary |-> FALSE]
                                      ELSE seat[l]
  BY DEF Ended
<1>3. \A l \in Locals : Ended(E)[l] \in SeatRows
  <2>1. [state |-> "ended", primary |-> FALSE] \in SeatRows
    BY DEF SeatRows, SeatStates
  <2>2. QED
    BY <1>1, <1>2, <2>1
<1>4. Ended(E) = [l \in Locals |-> Ended(E)[l]]
  BY DEF Ended
<1>5. Ended(E) \in Seats
  <2> DEFINE f == Ended(E)
  <2>1. f = [l \in Locals |-> f[l]] /\ \A l \in Locals : f[l] \in SeatRows
    BY <1>3, <1>4
  <2> HIDE DEF f
  <2>2. f \in Seats
    BY <2>1 DEF Seats
  <2>3. QED
    BY <2>2 DEF f
<1>6. QED
  BY <1>2, <1>5

LEMMA NonePrimaryIs ==
  ASSUME NEW s \in Seats
  PROVE  /\ NonePrimary(s) \in Seats
         /\ \A l \in Locals : /\ NonePrimary(s)[l].state = s[l].state
                             /\ ~NonePrimary(s)[l].primary
<1>1. \A l \in Locals : NonePrimary(s)[l] = [s[l] EXCEPT !.primary = FALSE]
  BY DEF NonePrimary
<1>2. \A l \in Locals : s[l] \in SeatRows
  BY DEF Seats
<1>3. \A l \in Locals : /\ NonePrimary(s)[l] \in SeatRows
                       /\ NonePrimary(s)[l].state = s[l].state
                       /\ ~NonePrimary(s)[l].primary
  BY <1>1, <1>2 DEF SeatRows
<1>4. NonePrimary(s) = [l \in Locals |-> NonePrimary(s)[l]]
  BY DEF NonePrimary
<1>5. NonePrimary(s) \in Seats
  <2> DEFINE f == NonePrimary(s)
  <2>1. f = [l \in Locals |-> f[l]] /\ \A l \in Locals : f[l] \in SeatRows
    BY <1>3, <1>4
  <2> HIDE DEF f
  <2>2. f \in Seats
    BY <2>1 DEF Seats
  <2>3. QED
    BY <2>2 DEF f
<1>6. QED
  BY <1>3, <1>5

LEMMA AssignWriteKeeps ==
  ASSUME SeatInv, NEW d \in Desks, AssignWrite(d)
  PROVE  SeatInv'
<1> DEFINE o == op[d]
<1>1. /\ o.kind = "assign" /\ o \in Operations /\ o.at \in Locals
      /\ account \in [local : Locals \union {NoLocal}, accessible : SUBSET Locals]
      /\ seat \in Seats /\ office \subseteq Locals /\ hall \subseteq Locals
  BY DEF SeatInv, SeatShape, SeatTypeOK, AssignWrite, Seats, SeatRows, SeatStates
<1>2. /\ Finish(d) /\ Indexed(seat') /\ fresh' = FALSE
      /\ office' = office \ o.ends
      /\ hall' = (hall \ o.ends) \union {o.at}
      /\ account' = [local |-> IF o.primary \/ o.local = NoLocal THEN o.at ELSE o.local,
                     accessible |-> (o.accessible \ o.ends) \union {o.at}]
      /\ seat' = [Cleared(d, o.at) EXCEPT ![o.at] = [state |-> "active", primary |-> o.primary]]
  BY DEF AssignWrite
<1>3. /\ seat' \in Seats
      /\ seat'[o.at] = [state |-> "active", primary |-> o.primary]
      /\ \A l \in Locals \ {o.at} :
           /\ l \in o.ends => seat'[l].state = "ended" /\ ~seat'[l].primary
           /\ l \notin o.ends => /\ seat'[l].state = seat[l].state
                                 /\ seat'[l].primary => seat[l].primary /\ ~o.primary
  <2> DEFINE rest == Ended(o.ends)
             clear == IF o.primary THEN NonePrimary(rest) ELSE rest
  <2>1. /\ rest \in Seats
        /\ \A l \in Locals : /\ l \in o.ends => rest[l].state = "ended" /\ ~rest[l].primary
                             /\ l \notin o.ends => rest[l] = seat[l]
    BY <1>1, EndedIs
  <2>2. seat' = [clear EXCEPT ![o.at] = [state |-> "active", primary |-> o.primary]]
    BY <1>2 DEF Cleared
  <2>3. [state |-> "active", primary |-> o.primary] \in SeatRows
    BY <1>1 DEF Operations, SeatRows, SeatStates
  <2> HIDE DEF rest, o
  <2>4. CASE o.primary
    <3>1. /\ NonePrimary(rest) \in Seats
          /\ \A l \in Locals : /\ NonePrimary(rest)[l].state = rest[l].state
                              /\ ~NonePrimary(rest)[l].primary
      BY <2>1, NonePrimaryIs
    <3>2. seat' = [NonePrimary(rest) EXCEPT ![o.at] = [state |-> "active", primary |-> o.primary]]
      BY <2>2, <2>4
    <3>3. /\ seat' \in Seats /\ seat'[o.at] = [state |-> "active", primary |-> o.primary]
          /\ \A l \in Locals \ {o.at} : seat'[l] = NonePrimary(rest)[l]
      BY <1>1, <2>3, <3>1, <3>2 DEF Seats
    <3>4. \A l \in Locals \ {o.at} : seat'[l].state = rest[l].state /\ ~seat'[l].primary
      BY <3>1, <3>3
    <3>5. QED
      BY <2>1, <3>3, <3>4
  <2>5. CASE ~o.primary
    <3>1. seat' = [rest EXCEPT ![o.at] = [state |-> "active", primary |-> o.primary]]
      BY <2>2, <2>5
    <3>2. /\ seat' \in Seats /\ seat'[o.at] = [state |-> "active", primary |-> o.primary]
          /\ \A l \in Locals \ {o.at} : seat'[l] = rest[l]
      BY <1>1, <2>1, <2>3, <3>1 DEF Seats
    <3>3. QED
      BY <2>1, <2>5, <3>2
  <2>6. QED
    BY <2>4, <2>5
<1>4. o.primary \in BOOLEAN /\ o.ends \subseteq Locals /\ o.accessible \subseteq Locals
      /\ o.local \in Locals \cup {NoLocal}
  BY <1>1 DEF Operations
<1>5. ASSUME ~overlapped
      PROVE  SeatsAgree'
  <2>1. SeatsAgree /\ StillRead(o)
    BY <1>5 DEF SeatInv
  <2>2. /\ o.local = account.local /\ o.at \notin o.ends /\ o.accessible = account.accessible
        /\ account.local \in {NoLocal, o.at} => o.primary
    BY <1>1, <2>1 DEF StillRead
  <2>3. Active' = (Active \ o.ends) \cup {o.at}
    BY <1>1, <1>3 DEF Active
  <2>4. HallsAreSeats' /\ OfficesHaveSeats' /\ SeatsAreAccessible'
    BY <1>2, <2>1, <2>2, <2>3 DEF SeatsAgree, HallsAreSeats, OfficesHaveSeats, SeatsAreAccessible
  <2>5. OnlyActivePrimary'
    BY <1>3, <2>1 DEF SeatsAgree, OnlyActivePrimary
  <2>6. ASSUME NEW l \in Active', seat'[l].primary
        PROVE  account'.local = l
    <3>1. CASE l = o.at
      BY <1>2, <1>3, <2>2, <2>6, <3>1, <1>4
    <3>2. CASE l # o.at
      <4>1. l \in Active /\ l \in Locals /\ l \notin o.ends
        BY <2>3, <2>6, <3>2 DEF Active
      <4>2. seat[l].primary /\ ~o.primary
        BY <1>3, <2>6, <3>2, <4>1
      <4>3. account.local = l
        BY <2>1, <4>1, <4>2 DEF SeatsAgree, PrimaryIsLocal
      <4>4. l # NoLocal
        BY <4>1, NoLocalAssumption
      <4>5. QED
        BY <1>2, <2>2, <4>2, <4>3, <4>4
    <3>3. QED
      BY <3>1, <3>2
  <2>7. QED
    BY <2>4, <2>5, <2>6 DEF SeatsAgree, PrimaryIsLocal
<1> HIDE DEF o
<1>6. /\ account' \in [local : Locals \union {NoLocal}, accessible : SUBSET Locals]
      /\ office' \subseteq Locals /\ hall' \subseteq Locals /\ fresh' \in BOOLEAN
  BY <1>1, <1>2, <1>4
<1>7. QED
  BY <1>2, <1>3, <1>5, <1>6, FinishKeeps

LEMMA JoinWriteKeeps ==
  ASSUME SeatInv, NEW d \in Desks, JoinWrite(d)
  PROVE  SeatInv'
<1> DEFINE o == op[d]
           had == seat[o.at].state = "active"
<1>1. /\ o.kind = "join" /\ o \in Operations /\ o.at \in Locals
      /\ account \in [local : Locals \union {NoLocal}, accessible : SUBSET Locals]
      /\ seat \in Seats /\ office \subseteq Locals /\ hall \subseteq Locals
      /\ fresh \in BOOLEAN
  BY DEF SeatInv, SeatShape, SeatTypeOK, JoinWrite, Seats, SeatRows, SeatStates
<1>2. /\ Finish(d) /\ Indexed(seat') /\ fresh' = (fresh /\ had /\ o.ends = {})
      /\ office' = office \ o.ends
      /\ hall' = (hall \ o.ends) \union {o.at}
      /\ account' = [local |-> Revoked(o.ends).local,
                     accessible |-> IF had THEN Revoked(o.ends).accessible
                                    ELSE o.accessible \union {o.at}]
      /\ seat' = [Ended(o.ends) EXCEPT ![o.at].state = "active"]
  BY DEF JoinWrite
<1>3. o.ends \subseteq Locals /\ o.accessible \subseteq Locals
  BY <1>1 DEF Operations
<1>4. /\ seat' \in Seats
      /\ seat'[o.at].state = "active"
      /\ o.at \notin o.ends => seat'[o.at].primary = seat[o.at].primary
      /\ \A l \in Locals \ {o.at} :
           /\ l \in o.ends => seat'[l].state = "ended" /\ ~seat'[l].primary
           /\ l \notin o.ends => seat'[l] = seat[l]
  <2> DEFINE rest == Ended(o.ends)
  <2>1. /\ rest \in Seats
        /\ \A l \in Locals : /\ l \in o.ends => rest[l].state = "ended" /\ ~rest[l].primary
                             /\ l \notin o.ends => rest[l] = seat[l]
    BY <1>1, EndedIs
  <2>2. seat' = [rest EXCEPT ![o.at].state = "active"]
    BY <1>2
  <2> HIDE DEF rest, o
  <2> DEFINE row == [rest[o.at] EXCEPT !.state = "active"]
  <2>3. seat' = [rest EXCEPT ![o.at] = row]
    BY <2>2
  <2>4. rest[o.at] \in SeatRows
    BY <1>1, <2>1 DEF Seats
  <2>5. row \in SeatRows /\ row.state = "active" /\ row.primary = rest[o.at].primary
    BY <2>4 DEF SeatRows, SeatStates
  <2> HIDE DEF row
  <2>6. /\ seat' \in Seats /\ seat'[o.at] = row
        /\ \A l \in Locals \ {o.at} : seat'[l] = rest[l]
    BY <1>1, <2>1, <2>3, <2>5 DEF Seats
  <2>7. o.at \notin o.ends => rest[o.at] = seat[o.at]
    BY <1>1, <2>1
  <2>8. QED
    <3>1. seat'[o.at].state = "active" /\ (o.at \notin o.ends => seat'[o.at].primary = seat[o.at].primary)
      BY <2>5, <2>6, <2>7
    <3>2. ASSUME NEW l \in Locals \ {o.at}
          PROVE  /\ l \in o.ends => seat'[l].state = "ended" /\ ~seat'[l].primary
                 /\ l \notin o.ends => seat'[l] = seat[l]
      BY <2>1, <2>6
    <3>3. QED
      BY <2>6, <3>1, <3>2
<1>5. PrimaryOf(Ended(o.ends)) \in Locals \cup {NoLocal}
  BY DEF PrimaryOf
<1>6. Revoked(o.ends) \in [local : Locals \union {NoLocal}, accessible : SUBSET Locals]
  BY <1>1, <1>5 DEF Revoked
<1>7. ASSUME ~overlapped
      PROVE  SeatsAgree'
  <2>1. SeatsAgree /\ o.at \notin o.ends /\ o.accessible = account.accessible
    BY <1>1, <1>7 DEF SeatInv, StillRead
  <2>2. Active' = (Active \ o.ends) \cup {o.at}
    BY <1>1, <1>4 DEF Active
  <2>3. HallsAreSeats' /\ OfficesHaveSeats'
    BY <1>2, <2>1, <2>2 DEF SeatsAgree, HallsAreSeats, OfficesHaveSeats
  <2>7. SeatsAreAccessible'
    <3>2. had => o.at \in account.accessible
      BY <1>1, <2>1 DEF SeatsAgree, SeatsAreAccessible, Active
    <3>3. CASE had
      BY <1>2, <2>1, <2>2, <3>2, <3>3 DEF SeatsAgree, SeatsAreAccessible, Revoked
    <3>4. CASE ~had
      BY <1>2, <2>1, <2>2, <3>4 DEF SeatsAgree, SeatsAreAccessible
    <3>5. QED
      BY <3>3, <3>4
  <2>4. OnlyActivePrimary'
    BY <1>4, <2>1 DEF SeatsAgree, OnlyActivePrimary
  <2>5. ASSUME NEW l \in Active', seat'[l].primary
        PROVE  account'.local = l
    <3>1. l \in Locals /\ seat[l].primary /\ l \notin o.ends
      BY <1>4, <2>1, <2>2, <2>5 DEF Active
    <3>2. account.local = l
      BY <2>1, <3>1 DEF SeatsAgree, OnlyActivePrimary, PrimaryIsLocal, Active
    <3>3. Revoked(o.ends).local = l
      BY <3>1, <3>2 DEF Revoked
    <3>4. QED
      BY <1>2, <3>3
  <2>6. QED
    BY <2>3, <2>4, <2>5, <2>7 DEF SeatsAgree, PrimaryIsLocal
<1> HIDE DEF o, had
<1>8. /\ account' \in [local : Locals \union {NoLocal}, accessible : SUBSET Locals]
      /\ office' \subseteq Locals /\ hall' \subseteq Locals /\ fresh' \in BOOLEAN
  BY <1>1, <1>2, <1>3, <1>6
<1>9. QED
  BY <1>2, <1>4, <1>7, <1>8, FinishKeeps

LEMMA EndWriteKeeps ==
  ASSUME SeatInv, NEW d \in Desks, EndWrite(d)
  PROVE  SeatInv'
<1> DEFINE o == op[d]
           new == [o EXCEPT !.kind = "ending",
                            !.seen = IF o.at \in office THEN {o.at} ELSE {},
                            !.accessible = IF o.at \in hall THEN {o.at} ELSE {}]
<1>1. /\ o.kind = "end" /\ o \in Operations /\ o.at \in Locals
      /\ UNCHANGED <<policy, account, seat, office, hall, fresh, overlapped>>
      /\ SeatShape
  BY DEF SeatInv, SeatShape, SeatTypeOK, EndWrite
<1>2. op' = [op EXCEPT ![d] = new]
  BY DEF EndWrite
<1>3. /\ new \in Operations /\ new.kind = "ending" /\ new.at = o.at /\ new.was = o.was
      /\ new.seen = {o.at} \cap office /\ new.accessible = {o.at} \cap hall
  BY <1>1 DEF Operations
<1> HIDE DEF new, o
<1>4. op' \in [Desks -> Operations] /\ op'[d] = new /\ \A e \in Desks \ {d} : op'[e] = op[e]
  BY <1>1, <1>2, <1>3 DEF SeatShape
<1>5. SeatShape'
  BY <1>1, <1>3, <1>4 DEF SeatShape, SeatTypeOK, Indexed
<1>6. ASSUME ~overlapped
      PROVE  SeatsAgree' /\ OneInFlight' /\ \A e \in Desks : StillRead(op[e])'
  <2>1. SeatsAgree /\ OneInFlight /\ \A e \in Desks : StillRead(op[e])
    BY <1>6 DEF SeatInv
  <2>2. SeatsAgree'
    BY <1>1, <2>1 DEF SeatsAgree, PrimaryIsLocal, OfficesHaveSeats, HallsAreSeats,
                      SeatsAreAccessible, OnlyActivePrimary, Active
  <2>3. OneInFlight'
    BY <1>1, <1>3, <1>4, <2>1 DEF OneInFlight, o
  <2>4. StillRead(o)
    BY <2>1 DEF o
  <2>5. StillRead(new)
    BY <1>1, <1>3, <2>4 DEF StillRead
  <2>6. ASSUME NEW e \in Desks
        PROVE  StillRead(op[e])'
    <3>1. StillRead(op'[e])
      BY <1>4, <2>1, <2>5
    <3>2. QED
      BY <1>1, <3>1 DEF StillRead
  <2>7. QED
    BY <2>2, <2>3, <2>6
<1>7. QED
  BY <1>1, <1>5, <1>6 DEF SeatInv

LEMMA EndCommitKeeps ==
  ASSUME SeatInv, NEW d \in Desks, EndCommit(d)
  PROVE  SeatInv'
<1> DEFINE o == op[d]
<1>1. /\ o.kind = "ending" /\ o \in Operations /\ o.at \in Locals
      /\ account \in [local : Locals \union {NoLocal}, accessible : SUBSET Locals]
      /\ seat \in Seats /\ office \subseteq Locals /\ hall \subseteq Locals
      /\ Indexed(seat)
  BY DEF SeatInv, SeatShape, SeatTypeOK, EndCommit, Seats, SeatRows, SeatStates
<1>2. /\ Finish(d) /\ fresh' = FALSE /\ seat' = Ended({o.at})
      /\ o.was = "active" => /\ office' = office \ o.seen
                             /\ hall' = hall \ o.accessible
                             /\ account' = Revoked({o.at})
      /\ o.was # "active" => office' = office /\ hall' = hall /\ account' = account
  BY DEF EndCommit, EndsOffice
<1>3. /\ seat' \in Seats
      /\ seat'[o.at].state = "ended" /\ ~seat'[o.at].primary
      /\ \A l \in Locals \ {o.at} : seat'[l] = seat[l]
  BY <1>1, <1>2, EndedIs
<1>4. Indexed(seat')
  BY <1>1, <1>3, FewerIndexed
<1>5. PrimaryOf(Ended({o.at})) \in Locals \cup {NoLocal}
  BY DEF PrimaryOf
<1>6. Revoked({o.at}) \in [local : Locals \union {NoLocal}, accessible : SUBSET Locals]
  BY <1>1, <1>5 DEF Revoked
<1>7. ASSUME ~overlapped
      PROVE  SeatsAgree'
  <2>1. /\ SeatsAgree /\ o.was = seat[o.at].state
        /\ o.seen = {o.at} \cap office /\ o.accessible = {o.at} \cap hall
    BY <1>1, <1>7 DEF SeatInv, StillRead
  <2>2. Active' = Active \ {o.at}
    BY <1>1, <1>3 DEF Active
  <2>3. HallsAreSeats' /\ OfficesHaveSeats' /\ SeatsAreAccessible'
    <3>1. o.was = "active" <=> o.at \in Active
      BY <1>1, <2>1 DEF Active
    <3>2. hall = Active /\ office \subseteq Active /\ Active \subseteq account.accessible
      BY <2>1 DEF SeatsAgree, HallsAreSeats, OfficesHaveSeats, SeatsAreAccessible
    <3>3. CASE o.was = "active"
      <4>1. account'.accessible = account.accessible \ {o.at}
        BY <1>2, <3>3 DEF Revoked
      <4>2. QED
        BY <1>2, <2>1, <2>2, <3>2, <3>3, <4>1 DEF HallsAreSeats, OfficesHaveSeats, SeatsAreAccessible
    <3>4. CASE o.was # "active"
      BY <1>2, <2>2, <3>1, <3>2, <3>4 DEF HallsAreSeats, OfficesHaveSeats, SeatsAreAccessible
    <3>5. QED
      BY <3>3, <3>4
  <2>4. OnlyActivePrimary'
    BY <1>3, <2>1 DEF SeatsAgree, OnlyActivePrimary
  <2>5. ASSUME NEW l \in Active', seat'[l].primary
        PROVE  account'.local = l
    <3>1. l \in Active /\ seat[l].primary /\ l # o.at
      BY <1>3, <2>2, <2>5 DEF Active
    <3>2. account.local = l
      BY <2>1, <3>1 DEF SeatsAgree, PrimaryIsLocal
    <3>3. Revoked({o.at}).local = l
      BY <3>1, <3>2 DEF Revoked
    <3>4. QED
      BY <1>2, <3>2, <3>3
  <2>6. QED
    BY <2>3, <2>4, <2>5 DEF SeatsAgree, PrimaryIsLocal
<1> HIDE DEF o
<1>8. /\ account' \in [local : Locals \union {NoLocal}, accessible : SUBSET Locals]
      /\ office' \subseteq Locals /\ hall' \subseteq Locals /\ fresh' \in BOOLEAN
  BY <1>1, <1>2, <1>6
<1>9. QED
  BY <1>2, <1>3, <1>4, <1>7, <1>8, FinishKeeps

LEMMA SeatActivated ==
  ASSUME seat \in Seats, NEW l \in Locals, seat' = [seat EXCEPT ![l].state = "active"]
  PROVE  /\ seat' \in Seats /\ seat'[l].state = "active" /\ seat'[l].primary = seat[l].primary
         /\ \A k \in Locals \ {l} : seat'[k] = seat[k]
         /\ Active' = Active \cup {l}
<1> DEFINE row == [seat[l] EXCEPT !.state = "active"]
<1>1. seat' = [seat EXCEPT ![l] = row] /\ seat[l] \in SeatRows
  BY DEF Seats
<1>2. row \in SeatRows /\ row.state = "active" /\ row.primary = seat[l].primary
  BY <1>1 DEF SeatRows, SeatStates
<1> HIDE DEF row
<1>3. /\ seat' \in Seats /\ seat'[l] = row /\ \A k \in Locals \ {l} : seat'[k] = seat[k]
  BY <1>1, <1>2 DEF Seats
<1>4. Active' = Active \cup {l}
  BY <1>2, <1>3 DEF Active
<1>5. QED
  BY <1>2, <1>3, <1>4

LEMMA ActivateWriteKeeps ==
  ASSUME SeatInv, NEW d \in Desks, ActivateWrite(d)
  PROVE  SeatInv'
<1> DEFINE o == op[d]
<1>1. /\ o.kind = "activate" /\ o.at \in Locals
      /\ account \in [local : Locals \union {NoLocal}, accessible : SUBSET Locals]
      /\ seat \in Seats /\ office \subseteq Locals /\ hall \subseteq Locals
  BY DEF SeatInv, SeatShape, SeatTypeOK, ActivateWrite, Seats, SeatRows, SeatStates
<1>2. /\ Finish(d) /\ Indexed(seat') /\ fresh' = FALSE /\ office' = office
      /\ seat' = [seat EXCEPT ![o.at].state = "active"]
      /\ hall' = hall \union {o.at}
      /\ account' = [account EXCEPT !.accessible = account.accessible \union {o.at}]
  BY DEF ActivateWrite
<1>3. /\ seat' \in Seats /\ seat'[o.at].state = "active" /\ seat'[o.at].primary = seat[o.at].primary
      /\ \A k \in Locals \ {o.at} : seat'[k] = seat[k]
      /\ Active' = Active \cup {o.at}
  BY <1>1, <1>2, SeatActivated
<1>4. /\ account' \in [local : Locals \union {NoLocal}, accessible : SUBSET Locals]
      /\ account'.local = account.local /\ account'.accessible = account.accessible \union {o.at}
      /\ office' \subseteq Locals /\ hall' \subseteq Locals /\ fresh' \in BOOLEAN
  BY <1>1, <1>2
<1>5. ASSUME ~overlapped
      PROVE  SeatsAgree'
  <2>1. SeatsAgree
    BY <1>5 DEF SeatInv
  <2>2. HallsAreSeats' /\ OfficesHaveSeats' /\ SeatsAreAccessible' /\ OnlyActivePrimary'
    BY <1>2, <1>3, <1>4, <2>1 DEF SeatsAgree, HallsAreSeats, OfficesHaveSeats,
                                  SeatsAreAccessible, OnlyActivePrimary
  <2>3. PrimaryIsLocal'
    BY <1>1, <1>3, <1>4, <2>1 DEF SeatsAgree, PrimaryIsLocal, OnlyActivePrimary, Active
  <2>4. QED
    BY <2>2, <2>3 DEF SeatsAgree
<1>6. QED
  BY <1>2, <1>3, <1>4, <1>5, FinishKeeps

LEMMA PrimaryWriteKeeps ==
  ASSUME SeatInv, NEW d \in Desks, PrimaryWrite(d)
  PROVE  SeatInv'
<1> DEFINE o == op[d]
<1>1. /\ o.kind = "primary" /\ o.at \in Locals
      /\ account \in [local : Locals \union {NoLocal}, accessible : SUBSET Locals]
      /\ seat \in Seats /\ office \subseteq Locals /\ hall \subseteq Locals
  BY DEF SeatInv, SeatShape, SeatTypeOK, PrimaryWrite, Seats, SeatRows, SeatStates
<1>2. /\ Finish(d) /\ fresh' = FALSE /\ office' = office /\ hall' = hall
      /\ seat' = [NonePrimary(seat) EXCEPT ![o.at].primary = TRUE]
      /\ account' = [account EXCEPT !.local = o.at]
  BY DEF PrimaryWrite, PrimaryMoves
<1>3. /\ seat' \in Seats
      /\ \A l \in Locals : seat'[l].state = seat[l].state /\ (seat'[l].primary <=> l = o.at)
  <2> DEFINE plain == NonePrimary(seat)
             row == [plain[o.at] EXCEPT !.primary = TRUE]
  <2>1. /\ plain \in Seats
        /\ \A l \in Locals : plain[l].state = seat[l].state /\ ~plain[l].primary
    BY <1>1, NonePrimaryIs
  <2>2. seat' = [plain EXCEPT ![o.at] = row]
    BY <1>2
  <2> HIDE DEF plain
  <2>3. plain[o.at] \in SeatRows
    BY <1>1, <2>1 DEF Seats
  <2>4. row \in SeatRows /\ row.state = plain[o.at].state /\ row.primary
    BY <2>3 DEF SeatRows
  <2> HIDE DEF row
  <2>5. /\ seat' \in Seats /\ seat'[o.at] = row /\ \A l \in Locals \ {o.at} : seat'[l] = plain[l]
    BY <1>1, <2>1, <2>2, <2>4 DEF Seats
  <2>6. QED
    BY <2>1, <2>4, <2>5
<1>4. Indexed(seat')
  BY <1>1, <1>3, SoleIndexed
<1>5. /\ account' \in [local : Locals \union {NoLocal}, accessible : SUBSET Locals]
      /\ account'.local = o.at /\ account'.accessible = account.accessible
      /\ office' \subseteq Locals /\ hall' \subseteq Locals /\ fresh' \in BOOLEAN
  BY <1>1, <1>2
<1>6. ASSUME ~overlapped
      PROVE  SeatsAgree'
  <2>1. SeatsAgree /\ seat[o.at].state = "active"
    BY <1>1, <1>6 DEF SeatInv, StillRead
  <2>2. Active' = Active
    BY <1>3 DEF Active
  <2>3. QED
    BY <1>2, <1>3, <1>5, <2>1, <2>2 DEF SeatsAgree, HallsAreSeats, OfficesHaveSeats,
                                        SeatsAreAccessible, OnlyActivePrimary, PrimaryIsLocal,
                                        Active
<1>7. QED
  BY <1>2, <1>3, <1>4, <1>5, <1>6, FinishKeeps

LEMMA AppointCommitKeeps ==
  ASSUME SeatInv, NEW d \in Desks, AppointCommit(d)
  PROVE  SeatInv'
<1> DEFINE l == op[d].at
<1>1. /\ Finish(d) /\ l \in Active /\ office' = office \union {l} /\ hall' = hall \union {l}
      /\ fresh' = FALSE /\ account' = account /\ seat' = seat
  BY DEF AppointCommit
<1>2. /\ account \in [local : Locals \union {NoLocal}, accessible : SUBSET Locals]
      /\ seat \in Seats /\ office \subseteq Locals /\ hall \subseteq Locals
      /\ Indexed(seat)
  BY DEF SeatInv, SeatShape, SeatTypeOK, Seats, SeatRows, SeatStates
<1> HIDE DEF l
<1>3. ASSUME ~overlapped
      PROVE  SeatsAgree'
  BY <1>1, <1>3 DEF SeatInv, SeatsAgree, HallsAreSeats, OfficesHaveSeats,
                    SeatsAreAccessible, OnlyActivePrimary, PrimaryIsLocal, Active
<1>4. /\ account' \in [local : Locals \union {NoLocal}, accessible : SUBSET Locals]
      /\ seat' \in Seats /\ Indexed(seat')
      /\ office' \subseteq Locals /\ hall' \subseteq Locals /\ fresh' \in BOOLEAN
  BY <1>1, <1>2 DEF Active
<1>5. QED
  BY <1>1, <1>3, <1>4, FinishKeeps

LEMMA RevokeOfficeKeeps ==
  ASSUME SeatInv, NEW l \in Locals, RevokeOffice(l)
  PROVE  SeatInv'
<1>1. /\ AtOnce /\ l \in Active /\ office' = office \ {l} /\ hall' = hall \union {l}
      /\ fresh' = FALSE /\ account' = account /\ seat' = seat
  BY DEF RevokeOffice
<1>2. /\ account \in [local : Locals \union {NoLocal}, accessible : SUBSET Locals]
      /\ seat \in Seats /\ office \subseteq Locals /\ hall \subseteq Locals
      /\ Indexed(seat)
  BY DEF SeatInv, SeatShape, SeatTypeOK, Seats, SeatRows, SeatStates
<1>3. ASSUME ~overlapped
      PROVE  SeatsAgree'
  BY <1>1, <1>3 DEF SeatInv, SeatsAgree, HallsAreSeats, OfficesHaveSeats,
                    SeatsAreAccessible, OnlyActivePrimary, PrimaryIsLocal, Active
<1>4. /\ account' \in [local : Locals \union {NoLocal}, accessible : SUBSET Locals]
      /\ seat' \in Seats /\ Indexed(seat')
      /\ office' \subseteq Locals /\ hall' \subseteq Locals /\ fresh' \in BOOLEAN
  BY <1>1, <1>2 DEF Active
<1>5. QED
  BY <1>1, <1>3, <1>4, AtOnceKeeps

LEMMA AcceptInvitationKeeps ==
  ASSUME SeatInv, NEW l \in Locals, NEW president \in BOOLEAN, AcceptInvitation(l, president)
  PROVE  SeatInv'
<1> DEFINE primary == account.local \in {NoLocal, l}
           row == [state |-> "active", primary |-> primary \/ seat[l].primary]
<1>1. /\ AtOnce /\ Indexed(seat') /\ seat' = [seat EXCEPT ![l] = row]
      /\ account' = [local |-> IF account.local = NoLocal THEN l ELSE account.local,
                     accessible |-> account.accessible \union {l}]
      /\ office' = IF president THEN office \union {l} ELSE office
      /\ hall' = hall \union {l} /\ fresh' = FALSE
  BY DEF AcceptInvitation, AcceptRenews
<1>2. /\ account \in [local : Locals \union {NoLocal}, accessible : SUBSET Locals]
      /\ seat \in Seats /\ office \subseteq Locals /\ hall \subseteq Locals
  BY DEF SeatInv, SeatShape, SeatTypeOK, Seats, SeatRows, SeatStates
<1>3. row \in SeatRows /\ row.state = "active" /\ (row.primary <=> primary \/ seat[l].primary)
  BY <1>2 DEF Seats, SeatRows, SeatStates
<1> HIDE DEF row
<1>4. /\ seat' \in Seats /\ seat'[l] = row /\ \A k \in Locals \ {l} : seat'[k] = seat[k]
  BY <1>1, <1>2, <1>3 DEF Seats
<1>5. ASSUME ~overlapped
      PROVE  SeatsAgree'
  <2>1. SeatsAgree
    BY <1>5 DEF SeatInv
  <2>2. Active' = Active \cup {l}
    BY <1>3, <1>4 DEF Active
  <2>3. HallsAreSeats' /\ OfficesHaveSeats' /\ SeatsAreAccessible'
    BY <1>1, <2>1, <2>2 DEF SeatsAgree, HallsAreSeats, OfficesHaveSeats, SeatsAreAccessible
  <2>4. OnlyActivePrimary'
    BY <1>3, <1>4, <2>1 DEF SeatsAgree, OnlyActivePrimary
  <2>5. ASSUME NEW k \in Active', seat'[k].primary
        PROVE  account'.local = k
    <3>1. CASE k = l
      <4>1. account.local \in {NoLocal, l}
        BY <1>3, <1>4, <2>1, <2>5, <3>1 DEF SeatsAgree, OnlyActivePrimary, PrimaryIsLocal, Active
      <4>2. QED
        BY <1>1, <3>1, <4>1
    <3>2. CASE k # l
      <4>1. k \in Active /\ seat[k].primary
        BY <1>4, <2>2, <2>5, <3>2 DEF Active
      <4>2. account.local = k /\ k # NoLocal
        BY <2>1, <4>1, NoLocalAssumption DEF SeatsAgree, PrimaryIsLocal, Active
      <4>3. QED
        BY <1>1, <4>2
    <3>3. QED
      BY <3>1, <3>2
  <2>6. QED
    BY <2>3, <2>4, <2>5 DEF SeatsAgree, PrimaryIsLocal
<1> HIDE DEF primary
<1>6. /\ account' \in [local : Locals \union {NoLocal}, accessible : SUBSET Locals]
      /\ office' \subseteq Locals /\ hall' \subseteq Locals /\ fresh' \in BOOLEAN
  BY <1>1, <1>2
<1>7. QED
  BY <1>1, <1>4, <1>5, <1>6, AtOnceKeeps

LEMMA AbandonKeeps ==
  ASSUME SeatInv, NEW d \in Desks, Abandon(d)
  PROVE  SeatInv'
<1>1. Finish(d) /\ UNCHANGED <<account, seat, office, hall, fresh>>
  BY DEF Abandon
<1>2. /\ account \in [local : Locals \union {NoLocal}, accessible : SUBSET Locals]
      /\ seat \in Seats /\ office \subseteq Locals /\ hall \subseteq Locals
      /\ Indexed(seat) /\ fresh \in BOOLEAN
  BY DEF SeatInv, SeatShape, SeatTypeOK, Seats, SeatRows, SeatStates
<1>3. ~overlapped => SeatsAgree'
  BY <1>1 DEF SeatInv, SeatsAgree, HallsAreSeats, OfficesHaveSeats, SeatsAreAccessible,
              OnlyActivePrimary, PrimaryIsLocal, Active
<1>4. QED
  BY <1>1, <1>2, <1>3, FinishKeeps

LEMMA AsideKeepsSeats ==
  ASSUME SeatInv,
         (\E p \in {"multi_local", "single_local"} : SetPolicy(p)) \/ RenewCookie \/ UNCHANGED seatVars
  PROVE  SeatInv'
<1>1. /\ UNCHANGED <<account, seat, office, hall, op>>
      /\ policy' \in {"multi_local", "single_local"}
      /\ fresh' \in BOOLEAN /\ overlapped' \in BOOLEAN
      /\ ~overlapped' => ~overlapped
  BY DEF SeatInv, SeatShape, SeatTypeOK, SetPolicy, RenewCookie, seatVars, InFlight
<1>2. SeatShape'
  BY <1>1 DEF SeatInv, SeatShape, SeatTypeOK, Indexed
<1>3. ASSUME ~overlapped'
      PROVE  SeatsAgree' /\ OneInFlight' /\ \A e \in Desks : StillRead(op[e])'
  BY <1>1, <1>3 DEF SeatInv, SeatsAgree, HallsAreSeats, OfficesHaveSeats, SeatsAreAccessible,
              OnlyActivePrimary, PrimaryIsLocal, Active, OneInFlight, StillRead
<1>4. QED
  BY <1>2, <1>3 DEF SeatInv

LEMMA SeatInvStep == SeatInv /\ [SeatNext]_seatVars => SeatInv'
<1> SUFFICES ASSUME SeatInv, [SeatNext]_seatVars
             PROVE  SeatInv'
  OBVIOUS
<1>1. ASSUME NEW d \in Desks,
             \/ \E l \in Locals :
                  \/ \E b, replace \in BOOLEAN : AssignRead(d, l, b, replace)
                  \/ \E replace \in BOOLEAN : JoinRead(d, l, replace)
                  \/ \E kind \in {"end", "activate", "primary"} : PatchRead(d, l, kind)
                  \/ AppointStart(d, l)
             \/ AssignWrite(d) \/ JoinWrite(d) \/ EndWrite(d) \/ EndCommit(d)
             \/ ActivateWrite(d) \/ PrimaryWrite(d) \/ AppointCommit(d) \/ Abandon(d)
      PROVE  SeatInv'
  BY <1>1, AssignReadKeeps, JoinReadKeeps, PatchReadKeeps, AppointStartKeeps,
     AssignWriteKeeps, JoinWriteKeeps, EndWriteKeeps, EndCommitKeeps, ActivateWriteKeeps,
     PrimaryWriteKeeps, AppointCommitKeeps, AbandonKeeps
<1>2. ASSUME NEW l \in Locals,
             RevokeOffice(l) \/ \E president \in BOOLEAN : AcceptInvitation(l, president)
      PROVE  SeatInv'
  BY <1>2, RevokeOfficeKeeps, AcceptInvitationKeeps
<1>3. QED
  BY <1>1, <1>2, AsideKeepsSeats DEF SeatNext

LEMMA SeatInvHolds == SeatSpec => []SeatInv
<1>1. QED
  BY SeatInvInit, SeatInvStep, PTL DEF SeatSpec

(* For any number of locals and of operations in flight: whatever operations    *)
(* follow each other and whichever fail, the primary seat is the account's      *)
(* local, offices rest on active seats, halls are those of the active seats and *)
(* the locals of the active seats are accessible, unless two operations on the  *)
(* account overlapped (membership-integrity.ts:152,                             *)
(* app_revoke_local_portal_membership).                                         *)
THEOREM SeatsStaySound == SeatSpec => []SoundUnlessOverlapped
<1>1. SeatInv => SoundUnlessOverlapped
  BY DEF SeatInv, SeatsAgree, SoundUnlessOverlapped
<1>2. QED
  BY SeatInvHolds, <1>1, PTL

(* Whichever operation changes the locals or the offices of the account, and    *)
(* whatever it overlapped, moves the session version: the next request renews   *)
(* the cookie (refresh-jwt-tenancy.ts:28).                                      *)
THEOREM AuthorityMoves == SeatSpec => AuthorityMovesVersion
<1>1. ASSUME SeatInv, [SeatNext]_seatVars, <<account', office'>> # <<account, office>>
      PROVE  ~fresh'
  <2>1. /\ account \in [local : Locals \union {NoLocal}, accessible : SUBSET Locals]
        /\ op \in [Desks -> Operations]
    BY <1>1 DEF SeatInv, SeatShape, SeatTypeOK
  <2>2. ASSUME NEW d \in Desks, JoinWrite(d)
        PROVE  ~fresh'
    <3>1. SUFFICES ASSUME fresh'
                   PROVE  account' = account /\ office' = office
      BY <1>1
    <3>2. op[d].ends = {} /\ seat[op[d].at].state = "active"
      BY <2>2, <3>1 DEF JoinWrite
    <3>3. Revoked({}) = account
      BY <2>1 DEF Revoked
    <3>4. account' = [local |-> account.local, accessible |-> account.accessible]
      BY <2>2, <3>2, <3>3 DEF JoinWrite
    <3>5. office' = office
      BY <2>2, <3>2 DEF JoinWrite
    <3>6. QED
      BY <2>1, <3>4, <3>5
  <2>3. ASSUME NEW d \in Desks,
               AssignWrite(d) \/ EndCommit(d) \/ ActivateWrite(d) \/ PrimaryWrite(d)
                 \/ AppointCommit(d)
        PROVE  ~fresh'
    BY <2>3 DEF AssignWrite, EndCommit, ActivateWrite, PrimaryWrite, AppointCommit
  <2>4. ASSUME NEW l \in Locals,
               RevokeOffice(l) \/ \E president \in BOOLEAN : AcceptInvitation(l, president)
        PROVE  ~fresh'
    BY <2>4 DEF RevokeOffice, AcceptInvitation, AcceptRenews
  <2>5. ASSUME NEW d \in Desks,
               \/ \E l \in Locals :
                    \/ \E b, replace \in BOOLEAN : AssignRead(d, l, b, replace)
                    \/ \E replace \in BOOLEAN : JoinRead(d, l, replace)
                    \/ \E kind \in {"end", "activate", "primary"} : PatchRead(d, l, kind)
                    \/ AppointStart(d, l)
               \/ EndWrite(d) \/ Abandon(d)
        PROVE  UNCHANGED <<account, office>>
    BY <2>5 DEF AssignRead, JoinRead, PatchRead, AppointStart, EndWrite, Abandon, Begin
  <2>6. ASSUME (\E p \in {"multi_local", "single_local"} : SetPolicy(p)) \/ RenewCookie
               \/ UNCHANGED seatVars
        PROVE  UNCHANGED <<account, office>>
    BY <2>6 DEF SetPolicy, RenewCookie, seatVars
  <2>7. QED
    BY <1>1, <2>2, <2>3, <2>4, <2>5, <2>6 DEF SeatNext
<1>2. QED
  BY SeatInvHolds, <1>1, PTL DEF SeatSpec, AuthorityMovesVersion

-----------------------------------------------------------------------------
(* The member broadcast. *)

(* Two transactions never hold one row. *)
RowsHeldOnce ==
  \A t, u \in Transactions : t # u => statement[t].holds \cap statement[u].holds = {}

Statements ==
  [at : {"idle", "begun", "first", "second", "over"},
   holds : SUBSET {"consent", "suppression"}, consents : BOOLEAN,
   cleared : BOOLEAN, fresh : BOOLEAN, matched : BOOLEAN]

BroadcastInv == BroadcastTypeOK /\ RowsHeldOnce /\ ConsentIsTheLastWord

LEMMA BroadcastInvInit == BroadcastInit => BroadcastInv
<1> SUFFICES ASSUME BroadcastInit
             PROVE  BroadcastInv
  OBVIOUS
<1>1. NoStatement \in Statements /\ NoStatement.holds = {}
  BY DEF NoStatement, Statements
<1>2. BroadcastTypeOK
  BY <1>1 DEF BroadcastInit, BroadcastTypeOK, Statements
<1>3. RowsHeldOnce
  BY <1>1 DEF BroadcastInit, RowsHeldOnce
<1>4. QED
  BY <1>2, <1>3 DEF BroadcastInit, BroadcastInv, ConsentIsTheLastWord, SendEligible

(* A transaction takes a row that is free, or none, and no row changes. *)
LEMMA StatementKeeps ==
  ASSUME BroadcastInv, NEW t \in Transactions, NEW s \in Statements, KeepRows,
         statement' = [statement EXCEPT ![t] = s],
         \A row \in s.holds : row \in statement[t].holds \/ Free(t, row)
  PROVE  BroadcastInv'
<1>1. /\ statement \in [Transactions -> Statements] /\ RowsHeldOnce
      /\ UNCHANGED <<consentRow, suppressed, mailing, linkUsed, eventsSeen, lastWord>>
  BY DEF BroadcastInv, BroadcastTypeOK, KeepRows, Statements
<1>2. /\ statement' \in [Transactions -> Statements] /\ statement'[t] = s
      /\ \A u \in Transactions \ {t} : statement'[u] = statement[u]
  BY <1>1
<1>3. BroadcastTypeOK'
  BY <1>1, <1>2 DEF BroadcastInv, BroadcastTypeOK, Statements
<1>4. \A u \in Transactions \ {t} : s.holds \cap statement[u].holds = {}
  BY <1>1 DEF RowsHeldOnce, Free
<1>5. RowsHeldOnce'
  BY <1>1, <1>2, <1>4 DEF RowsHeldOnce
<1>6. ConsentIsTheLastWord'
  BY <1>1 DEF BroadcastInv, ConsentIsTheLastWord, SendEligible
<1>7. QED
  BY <1>3, <1>5, <1>6 DEF BroadcastInv

LEMMA SettingKeeps ==
  ASSUME BroadcastInv, NEW t \in Transactions, NEW consents \in BOOLEAN,
         \/ BeginSetting(t, consents) \/ ClearSuppression(t) \/ SuppressSelf(t)
         \/ WriteOwnConsent(t)
  PROVE  BroadcastInv'
<1>1. statement[t] \in Statements /\ KeepRows /\ statement \in [Transactions -> Statements]
  BY DEF BroadcastInv, BroadcastTypeOK, Statements, BeginSetting, ClearSuppression,
         SuppressSelf, WriteOwnConsent
<1>2. CASE BeginSetting(t, consents)
  <2> DEFINE s == [NoStatement EXCEPT !.at = "begun", !.consents = consents,
                                      !.fresh = consentRow = "none"]
  <2>1. statement' = [statement EXCEPT ![t] = s]
    BY <1>2 DEF BeginSetting
  <2>2. s \in Statements /\ s.holds = {}
    BY DEF NoStatement, Statements
  <2> HIDE DEF s
  <2>3. QED
    BY <1>1, <2>1, <2>2, StatementKeeps
<1>3. CASE ClearSuppression(t)
  <2> DEFINE s == [statement[t] EXCEPT !.at = "first"]
             r == [statement[t] EXCEPT !.at = "first", !.cleared = TRUE,
                                       !.holds = statement[t].holds \cup {"suppression"}]
  <2>1. \/ statement' = [statement EXCEPT ![t] = s]
        \/ statement' = [statement EXCEPT ![t] = r] /\ Free(t, "suppression")
    BY <1>3 DEF ClearSuppression
  <2>2. /\ s \in Statements /\ s.holds = statement[t].holds
        /\ r \in Statements /\ r.holds = statement[t].holds \cup {"suppression"}
    BY <1>1 DEF Statements
  <2> HIDE DEF s, r
  <2>3. QED
    BY <1>1, <2>1, <2>2, StatementKeeps
<1>4. ASSUME NEW to \in {"first", "second"}, NEW row \in {"consent", "suppression"},
             Advance(t, to, row), Free(t, row)
      PROVE  BroadcastInv'
  <2> DEFINE s == [statement[t] EXCEPT !.at = to, !.holds = statement[t].holds \cup {row}]
  <2>1. statement' = [statement EXCEPT ![t] = s]
    BY <1>4 DEF Advance
  <2>2. s \in Statements /\ s.holds = statement[t].holds \cup {row}
    BY <1>1 DEF Statements
  <2> HIDE DEF s
  <2>3. QED
    BY <1>1, <1>4, <2>1, <2>2, StatementKeeps
<1>5. CASE SuppressSelf(t)
  BY <1>4, <1>5 DEF SuppressSelf
<1>6. CASE WriteOwnConsent(t)
  BY <1>4, <1>6 DEF WriteOwnConsent
<1>7. QED
  BY <1>2, <1>3, <1>5, <1>6

LEMMA RefusalKeeps ==
  ASSUME BroadcastInv, NEW t \in Transactions, BeginRefusal(t) \/ RefuseConsent(t)
  PROVE  BroadcastInv'
<1>1. statement[t] \in Statements /\ KeepRows
  BY DEF BroadcastInv, BroadcastTypeOK, Statements, BeginRefusal, RefuseConsent
<1>2. CASE BeginRefusal(t)
  <2> DEFINE s == [statement[t] EXCEPT !.at = "first",
                                       !.holds = statement[t].holds \cup {"suppression"}]
  <2>1. statement' = [statement EXCEPT ![t] = s] /\ Free(t, "suppression")
    BY <1>2 DEF Advance, BeginRefusal
  <2>2. s \in Statements /\ s.holds = statement[t].holds \cup {"suppression"}
    BY <1>1 DEF Statements
  <2> HIDE DEF s
  <2>3. QED
    BY <1>1, <2>1, <2>2, StatementKeeps
<1>3. CASE RefuseConsent(t)
  <2> DEFINE s == [statement[t] EXCEPT !.at = "second"]
             r == [statement[t] EXCEPT !.at = "second", !.matched = TRUE,
                                       !.holds = statement[t].holds \cup {"consent"}]
  <2>1. \/ statement' = [statement EXCEPT ![t] = s]
        \/ statement' = [statement EXCEPT ![t] = r] /\ Free(t, "consent")
    BY <1>3 DEF RefuseConsent
  <2>2. /\ s \in Statements /\ s.holds = statement[t].holds
        /\ r \in Statements /\ r.holds = statement[t].holds \cup {"consent"}
    BY <1>1 DEF Statements
  <2> HIDE DEF s, r
  <2>3. QED
    BY <1>1, <2>1, <2>2, StatementKeeps
<1>4. QED
  BY <1>2, <1>3

LEMMA CommitKeeps ==
  ASSUME BroadcastInv, NEW t \in Transactions, Commit(t) \/ Abort(t)
  PROVE  BroadcastInv'
<1> DEFINE s == AfterStatement(t)
<1>1. s \in Statements /\ s.holds = {}
  BY DEF AfterStatement, NoStatement, Statements
<1>2. statement' = [statement EXCEPT ![t] = s]
  BY DEF Commit, Abort
<1> HIDE DEF s
<1>3. CASE Abort(t)
  BY <1>1, <1>2, <1>3, StatementKeeps DEF Abort
<1>4. CASE Commit(t)
  <2>1. /\ statement \in [Transactions -> Statements] /\ RowsHeldOnce
        /\ consentRow \in {"none", "confirmed", "revoked"} /\ suppressed \in BOOLEAN
        /\ mailing' = mailing
    BY <1>4 DEF BroadcastInv, BroadcastTypeOK, Commit, Statements
  <2>2. /\ statement' \in [Transactions -> Statements] /\ statement'[t] = s
        /\ \A u \in Transactions \ {t} : statement'[u] = statement[u]
    BY <1>1, <1>2, <2>1
  <2>3. RowsHeldOnce'
    BY <1>1, <2>1, <2>2 DEF RowsHeldOnce
  <2>4. t[2] # "setting" => t[1] \in Mailings
    BY DEF Transactions
  <2>5. linkUsed' \subseteq Mailings /\ eventsSeen' \subseteq Mailings
    BY <1>4, <2>4 DEF Commit, BroadcastInv, BroadcastTypeOK
  <2>6. /\ consentRow' \in {"none", "confirmed", "revoked"} /\ suppressed' \in BOOLEAN
        /\ lastWord' \in {"consent", "refusal"}
        /\ lastWord' = "refusal" => suppressed'
    BY <1>4, <2>1 DEF Commit
  <2>7. BroadcastTypeOK'
    BY <2>1, <2>2, <2>5, <2>6 DEF BroadcastInv, BroadcastTypeOK, Statements
  <2>8. ConsentIsTheLastWord'
    BY <2>6 DEF ConsentIsTheLastWord, SendEligible
  <2>9. QED
    BY <2>3, <2>7, <2>8 DEF BroadcastInv
<1>5. QED
  BY <1>3, <1>4

LEMMA BroadcastInvStep == BroadcastInv /\ [BroadcastNext]_broadcastVars => BroadcastInv'
<1> SUFFICES ASSUME BroadcastInv, [BroadcastNext]_broadcastVars
             PROVE  BroadcastInv'
  OBVIOUS
<1>1. ASSUME NEW c \in Mailings, ListRecipients(c) \/ SendToMember(c)
      PROVE  BroadcastInv'
  BY <1>1 DEF ListRecipients, SendToMember, BroadcastInv, BroadcastTypeOK, RowsHeldOnce,
              ConsentIsTheLastWord, SendEligible
<1>2. CASE UNCHANGED broadcastVars
  BY <1>2 DEF broadcastVars, BroadcastInv, BroadcastTypeOK, RowsHeldOnce,
              ConsentIsTheLastWord, SendEligible
<1>3. QED
  BY <1>1, <1>2, SettingKeeps, RefusalKeeps, CommitKeeps DEF BroadcastNext

LEMMA BroadcastInvHolds == BroadcastSpec => []BroadcastInv
<1>1. QED
  BY BroadcastInvInit, BroadcastInvStep, PTL DEF BroadcastSpec

(* For any number of settings and mailings: a member is on the roster only if    *)
(* the last decision that was committed is a consent (member-broadcast.ts:47).   *)
THEOREM LastWordIsConsent == BroadcastSpec => []ConsentIsTheLastWord
<1>1. BroadcastInv => ConsentIsTheLastWord
  BY DEF BroadcastInv
<1>2. QED
  BY BroadcastInvHolds, <1>1, PTL

-----------------------------------------------------------------------------
(* Outreach lists. *)

LetterRows ==
  [list : Lists \cup {NoList},
   campaign : {"none", "screened", "addressed", "draft", "released"},
   delivery : {"none", "queued", "accepted", "failed", "suppressed"},
   clean : BOOLEAN, found : BOOLEAN]
Batches ==
  [at : {"idle", "open"}, batch : SUBSET Letters, stale : SUBSET Letters,
   held : SUBSET Letters, sent : SUBSET Letters]

(* Only what was begun before any refusal is delivered, and only that is open. *)
DeliveriesAreClean ==
  \A m \in Letters : letter[m].delivery # "none" => letter[m].clean
OpenIsDelivered ==
  \A d \in Dispatchers : /\ \A m \in dispatch[d].batch : letter[m].delivery # "none"
                         /\ dispatch[d].sent \subseteq dispatch[d].batch
                         /\ dispatch[d].at = "idle" => dispatch[d].batch = {}

(* An unclouded letter is open in one dispatch at most, which alone may have
   mailed it, and is mailed but once: after that it is marked or still open. *)
OpenInOne ==
  \A d \in Dispatchers : \A m \in dispatch[d].batch \ unclear :
    /\ letter[m].delivery = "queued"
    /\ \A o \in Dispatchers \ {d} : m \notin dispatch[o].batch
CopiedOnce ==
  \A m \in Letters \ unclear :
    /\ copies[m] <= 1
    /\ letter[m].delivery \in {"none", "queued"} /\ (\A d \in Dispatchers : m \notin dispatch[d].sent)
         => copies[m] = 0

OutreachInv ==
  /\ OutreachTypeOK /\ DeliveriesAreClean /\ OpenIsDelivered /\ OpenInOne /\ CopiedOnce
  /\ late = {}

LEMMA OutreachInvInit == OutreachInit => OutreachInv
<1> SUFFICES ASSUME OutreachInit
             PROVE  OutreachInv
  OBVIOUS
<1>1. OutreachTypeOK
  <2>1. NoBatch \in Batches /\ 0 \in 0..MaxCopies
    BY CopiesAssumption DEF NoBatch, Batches
  <2>2. dispatch \in [Dispatchers -> Batches] /\ copies \in [Letters -> 0..MaxCopies]
    BY <2>1 DEF OutreachInit
  <2>3. /\ letter \in [Letters -> LetterRows]
        /\ \A m \in Letters : letter[m].delivery # "none" => letter[m].campaign = "released"
    BY DEF OutreachInit, LetterRows, NoLetter
  <2>4. QED
    BY <2>2, <2>3 DEF OutreachInit, OutreachTypeOK, Batches, LetterRows
<1>2. QED
  BY <1>1 DEF OutreachInit, NoLetter, OutreachInv, DeliveriesAreClean, OpenIsDelivered,
              OpenInOne, CopiedOnce, NoBatch

(* What leaves letters, dispatches and copies alone *)
LEMMA ListsKeep ==
  ASSUME OutreachInv, UNCHANGED <<blocked, letter, dispatch, copies, unclear, late>>,
         subscription' \in [Lists -> {"none", "pending", "confirmed", "suppressed"}],
         confirmLink' \in [Lists -> {"none", "live", "consumed", "expired"}]
  PROVE  OutreachInv'
BY DEF OutreachInv, OutreachTypeOK, DeliveriesAreClean, OpenIsDelivered, OpenInOne, CopiedOnce

LEMMA SubscriptionKeeps ==
  ASSUME OutreachInv, NEW n \in Lists,
         ImportPerson(n) \/ ConfirmPerson(n) \/ ConfirmLinkExpires(n)
  PROVE  OutreachInv'
<1>1. /\ UNCHANGED <<blocked, letter, dispatch, copies, unclear, late>>
      /\ subscription' \in [Lists -> {"none", "pending", "confirmed", "suppressed"}]
      /\ confirmLink' \in [Lists -> {"none", "live", "consumed", "expired"}]
  BY DEF OutreachInv, OutreachTypeOK, ImportPerson, ConfirmPerson, ConfirmLinkExpires
<1>2. QED
  BY <1>1, ListsKeep

(* A campaign without deliveries becomes one with clean ones or with none. *)
LEMMA ComposingKeeps ==
  ASSUME OutreachInv, NEW m \in Letters, NEW row \in LetterRows,
         letter[m].delivery = "none", letter' = [letter EXCEPT ![m] = row],
         row.delivery \in {"none", "queued"},
         row.delivery # "none" => row.clean /\ row.campaign = "released",
         UNCHANGED <<subscription, confirmLink, blocked, dispatch, copies, unclear, late>>
  PROVE  OutreachInv'
<1>1. letter \in [Letters -> LetterRows] /\ OutreachTypeOK
  BY DEF OutreachInv, OutreachTypeOK, LetterRows
<1>2. /\ letter' \in [Letters -> LetterRows] /\ letter'[m] = row
      /\ \A k \in Letters \ {m} : letter'[k] = letter[k]
  BY <1>1
<1>3. OutreachTypeOK'
  BY <1>1, <1>2 DEF OutreachTypeOK, LetterRows
<1>4. \A d \in Dispatchers : m \notin dispatch[d].batch /\ m \notin dispatch[d].sent
  BY DEF OutreachInv, OpenIsDelivered
<1>5. DeliveriesAreClean'
  BY <1>2 DEF OutreachInv, DeliveriesAreClean
<1>6. OpenIsDelivered' /\ OpenInOne'
  <2>1. \A d \in Dispatchers : dispatch[d].batch \subseteq Letters
    BY <1>1 DEF OutreachTypeOK
  <2>2. QED
    BY <1>2, <1>4, <2>1 DEF OutreachInv, OpenIsDelivered, OpenInOne
<1>7. CopiedOnce'
  BY <1>2, <1>4 DEF OutreachInv, CopiedOnce
<1>8. QED
  BY <1>3, <1>5, <1>6, <1>7 DEF OutreachInv

LEMMA CampaignKeeps ==
  ASSUME OutreachInv, NEW m \in Letters,
         \/ \E n \in Lists : ReadSuppressions(m, n)
         \/ ReadSubscribers(m) \/ LoseCampaign(m)
         \/ \E release \in BOOLEAN : InsertCampaign(m, release)
  PROVE  OutreachInv'
<1>1. letter[m] \in LetterRows /\ blocked \in BOOLEAN
      /\ (letter[m].delivery # "none" => letter[m].campaign = "released")
  BY DEF OutreachInv, OutreachTypeOK, LetterRows
<1>2. ASSUME NEW n \in Lists, ReadSuppressions(m, n)
      PROVE  OutreachInv'
  <2> DEFINE row == [NoLetter EXCEPT !.list = n, !.campaign = "screened", !.clean = ~blocked]
  <2>1. row \in LetterRows /\ row.delivery = "none"
    BY <1>1 DEF NoLetter, LetterRows
  <2>2. letter' = [letter EXCEPT ![m] = row]
        /\ UNCHANGED <<subscription, confirmLink, blocked, dispatch, copies, unclear, late>>
    BY <1>2 DEF ReadSuppressions
  <2>3. letter[m].delivery = "none"
    BY <1>1, <1>2 DEF ReadSuppressions
  <2> HIDE DEF row
  <2>4. QED
    BY <2>1, <2>2, <2>3, ComposingKeeps
<1>3. ASSUME ReadSubscribers(m)
      PROVE  OutreachInv'
  <2> DEFINE confirmed == subscription[letter[m].list] = "confirmed"
             row == [letter[m] EXCEPT !.campaign = "addressed", !.found = confirmed]
  <2>1. confirmed \in BOOLEAN /\ letter[m].delivery = "none"
    BY <1>1, <1>3 DEF ReadSubscribers
  <2>2. letter' = [letter EXCEPT ![m] = row]
        /\ UNCHANGED <<subscription, confirmLink, blocked, dispatch, copies, unclear, late>>
    BY <1>3 DEF ReadSubscribers
  <2> HIDE DEF confirmed
  <2>3. row \in LetterRows /\ row.delivery = "none"
    BY <1>1, <2>1 DEF LetterRows
  <2> HIDE DEF row
  <2>4. QED
    BY <2>1, <2>2, <2>3, ComposingKeeps
<1>4. ASSUME NEW release \in BOOLEAN, InsertCampaign(m, release)
      PROVE  OutreachInv'
  <2> DEFINE campaign == IF release THEN "released" ELSE "draft"
             delivery == IF QueuedFor(m, release) THEN "queued" ELSE "none"
             row == [letter[m] EXCEPT !.campaign = campaign, !.delivery = delivery]
  <2>1. /\ campaign \in {"draft", "released"} /\ delivery \in {"none", "queued"}
        /\ delivery # "none" => letter[m].clean /\ campaign = "released"
    BY DEF QueuedFor, IsRecipient
  <2>2. letter' = [letter EXCEPT ![m] = row] /\ letter[m].delivery = "none"
        /\ UNCHANGED <<subscription, confirmLink, blocked, dispatch, copies, unclear, late>>
    BY <1>1, <1>4 DEF InsertCampaign
  <2> HIDE DEF campaign, delivery
  <2>3. /\ row \in LetterRows /\ row.delivery = delivery /\ row.campaign = campaign
        /\ row.clean = letter[m].clean
    BY <1>1, <2>1 DEF LetterRows
  <2> HIDE DEF row
  <2>4. QED
    BY <2>1, <2>2, <2>3, ComposingKeeps
<1>5. ASSUME LoseCampaign(m)
      PROVE  OutreachInv'
  <2>1. NoLetter \in LetterRows /\ NoLetter.delivery = "none"
    BY DEF NoLetter, LetterRows
  <2>2. letter' = [letter EXCEPT ![m] = NoLetter] /\ letter[m].delivery = "none"
        /\ UNCHANGED <<subscription, confirmLink, blocked, dispatch, copies, unclear, late>>
    BY <1>1, <1>5 DEF LoseCampaign
  <2>3. QED
    BY <2>1, <2>2, ComposingKeeps
<1>6. QED
  BY <1>2, <1>3, <1>4, <1>5

LEMMA BeginDispatchKeeps ==
  ASSUME OutreachInv, NEW d \in Dispatchers, BeginDispatch(d)
  PROVE  OutreachInv'
<1> DEFINE stale == {m \in QueuedLetters : ~StillConfirmed(m)}
           run == [NoBatch EXCEPT !.at = "open", !.batch = QueuedLetters, !.stale = stale]
<1>1. /\ dispatch' = [dispatch EXCEPT ![d] = run]
      /\ unclear' = unclear \cup (QueuedLetters \cap OpenElsewhere(d))
      /\ late' = late \cup {m \in QueuedLetters \ dispatch'[d].stale :
                              subscription[letter[m].list] = "suppressed"}
      /\ UNCHANGED <<subscription, confirmLink, blocked, letter, copies>>
      /\ dispatch[d].at = "idle"
  BY DEF BeginDispatch
<1>2. /\ OutreachTypeOK /\ dispatch \in [Dispatchers -> Batches]
      /\ QueuedLetters \subseteq Letters /\ stale \subseteq Letters
  BY DEF OutreachInv, OutreachTypeOK, Batches, QueuedLetters
<1>3. /\ run \in Batches /\ run.batch = QueuedLetters /\ run.stale = stale /\ run.sent = {}
      /\ run.at = "open"
  BY <1>2 DEF Batches, NoBatch
<1> HIDE DEF run
<1>4. /\ dispatch' \in [Dispatchers -> Batches] /\ dispatch'[d] = run
      /\ \A o \in Dispatchers \ {d} : dispatch'[o] = dispatch[o]
  BY <1>1, <1>2, <1>3
<1>5. late' = {}
  BY <1>1, <1>3, <1>4 DEF OutreachInv, StillConfirmed
<1>6. OutreachTypeOK'
  BY <1>1, <1>2, <1>4, <1>5 DEF OutreachTypeOK, Batches
<1>7. \A m \in QueuedLetters : m \in Letters /\ letter[m].delivery = "queued"
  BY DEF QueuedLetters
<1>8. DeliveriesAreClean' /\ OpenIsDelivered'
  BY <1>1, <1>3, <1>4, <1>7 DEF OutreachInv, DeliveriesAreClean, OpenIsDelivered
<1>9. OpenInOne'
  <2>1. \A o \in Dispatchers \ {d} : dispatch[o].batch \cap QueuedLetters \subseteq unclear'
    BY <1>1 DEF OpenElsewhere
  <2>2. ASSUME NEW o \in Dispatchers, NEW m \in dispatch'[o].batch \ unclear'
        PROVE  /\ letter'[m].delivery = "queued"
               /\ \A p \in Dispatchers \ {o} : m \notin dispatch'[p].batch
    <3>1. CASE o = d
      BY <1>1, <1>3, <1>4, <1>7, <2>1, <2>2, <3>1
    <3>2. CASE o # d
      <4>1. m \in dispatch[o].batch \ unclear /\ m \notin QueuedLetters
        BY <1>1, <1>4, <2>1, <2>2, <3>2
      <4>2. letter[m].delivery = "queued" /\ m \in Letters
        BY <1>2, <4>1 DEF OutreachInv, OpenInOne, OutreachTypeOK
      <4>3. QED
        BY <4>1, <4>2 DEF QueuedLetters
    <3>3. QED
      BY <3>1, <3>2
  <2>3. QED
    BY <2>2 DEF OpenInOne
<1>10. CopiedOnce'
  <2>1. ASSUME NEW m \in Letters \ unclear'
        PROVE  /\ copies[m] <= 1
               /\ letter[m].delivery \in {"none", "queued"}
                    /\ (\A o \in Dispatchers : m \notin dispatch'[o].sent) => copies[m] = 0
    <3>1. m \in Letters \ unclear
      BY <1>1, <2>1
    <3>2. m \notin dispatch[d].sent
      BY <1>1 DEF OutreachInv, OpenIsDelivered
    <3>3. QED
      BY <1>4, <3>1, <3>2 DEF OutreachInv, CopiedOnce
  <2>2. QED
    BY <1>1, <2>1 DEF CopiedOnce
<1>11. QED
  BY <1>5, <1>6, <1>8, <1>9, <1>10 DEF OutreachInv

LEMMA SendLetterKeeps ==
  ASSUME OutreachInv, NEW d \in Dispatchers, NEW m \in Letters, SendLetter(d, m)
  PROVE  OutreachInv'
<1> DEFINE run == [dispatch[d] EXCEPT !.sent = dispatch[d].sent \cup {m}]
<1>1. /\ m \in dispatch[d].batch \ (dispatch[d].sent \cup dispatch[d].stale)
      /\ copies[m] < MaxCopies
      /\ copies' = [copies EXCEPT ![m] = copies[m] + 1]
      /\ dispatch' = [dispatch EXCEPT ![d] = run]
      /\ late' = IF letter[m].clean THEN late ELSE late \cup {m}
      /\ UNCHANGED <<subscription, confirmLink, blocked, letter, unclear>>
  BY DEF SendLetter
<1>2. /\ OutreachTypeOK /\ dispatch \in [Dispatchers -> Batches]
      /\ copies \in [Letters -> 0..MaxCopies]
  BY DEF OutreachInv, OutreachTypeOK, Batches
<1>3. /\ run \in Batches /\ run.at = dispatch[d].at /\ run.batch = dispatch[d].batch
      /\ run.sent = dispatch[d].sent \cup {m}
  BY <1>2 DEF Batches
<1> HIDE DEF run
<1>4. /\ dispatch' \in [Dispatchers -> Batches] /\ dispatch'[d] = run
      /\ \A o \in Dispatchers \ {d} : dispatch'[o] = dispatch[o]
  BY <1>1, <1>2, <1>3
<1>5. /\ copies' \in [Letters -> 0..MaxCopies] /\ copies'[m] = copies[m] + 1
      /\ \A k \in Letters \ {m} : copies'[k] = copies[k]
  BY <1>1, <1>2, CopiesAssumption
<1>6. late' = {}
  BY <1>1 DEF OutreachInv, OpenIsDelivered, DeliveriesAreClean
<1>7. OutreachTypeOK'
  BY <1>1, <1>2, <1>4, <1>5, <1>6 DEF OutreachTypeOK, Batches
<1>8. DeliveriesAreClean' /\ OpenIsDelivered' /\ OpenInOne'
  <2>1. \A o \in Dispatchers : dispatch'[o].batch = dispatch[o].batch /\ dispatch'[o].at = dispatch[o].at
    BY <1>3, <1>4
  <2>2. \A o \in Dispatchers : dispatch'[o].sent \subseteq dispatch'[o].batch
    BY <1>1, <1>3, <1>4 DEF OutreachInv, OpenIsDelivered
  <2>3. QED
    BY <1>1, <2>1, <2>2 DEF OutreachInv, DeliveriesAreClean, OpenIsDelivered, OpenInOne
<1>9. CopiedOnce'
  <2>1. ASSUME NEW k \in Letters \ unclear'
        PROVE  /\ copies'[k] <= 1
               /\ letter'[k].delivery \in {"none", "queued"}
                    /\ (\A o \in Dispatchers : k \notin dispatch'[o].sent) => copies'[k] = 0
    <3>1. k \in Letters \ unclear
      BY <1>1, <2>1
    <3>2. CASE k = m
      <4>1. letter[m].delivery = "queued" /\ \A o \in Dispatchers \ {d} : m \notin dispatch[o].batch
        BY <1>1, <3>1, <3>2 DEF OutreachInv, OpenInOne
      <4>2. \A o \in Dispatchers : m \notin dispatch[o].sent
        BY <1>1, <4>1 DEF OutreachInv, OpenIsDelivered
      <4>3. copies[m] = 0
        BY <3>1, <3>2, <4>1, <4>2 DEF OutreachInv, CopiedOnce
      <4>4. QED
        BY <1>3, <1>4, <1>5, <3>2, <4>3
    <3>3. CASE k # m
      <4>1. \A o \in Dispatchers : k \in dispatch'[o].sent <=> k \in dispatch[o].sent
        BY <1>3, <1>4, <3>3
      <4>2. QED
        BY <1>1, <1>5, <3>1, <3>3, <4>1 DEF OutreachInv, CopiedOnce
    <3>4. QED
      BY <3>2, <3>3
  <2>2. QED
    BY <2>1 DEF CopiedOnce
<1>10. QED
  BY <1>6, <1>7, <1>8, <1>9 DEF OutreachInv

LEMMA MarkLetterKeeps ==
  ASSUME OutreachInv, NEW d \in Dispatchers, NEW m \in Letters, MarkLetter(d, m)
  PROVE  OutreachInv'
<1> DEFINE run == [dispatch[d] EXCEPT !.held = dispatch[d].held \cup {m}]
<1>1. /\ dispatch' = [dispatch EXCEPT ![d] = run]
      /\ UNCHANGED <<subscription, confirmLink, blocked, letter, copies, unclear, late>>
  BY DEF MarkLetter
<1>2. OutreachTypeOK /\ dispatch \in [Dispatchers -> Batches]
  BY DEF OutreachInv, OutreachTypeOK, Batches
<1>3. /\ run \in Batches /\ run.at = dispatch[d].at /\ run.batch = dispatch[d].batch
      /\ run.sent = dispatch[d].sent
  BY <1>2 DEF Batches
<1> HIDE DEF run
<1>4. /\ dispatch' \in [Dispatchers -> Batches]
      /\ \A o \in Dispatchers : /\ dispatch'[o].batch = dispatch[o].batch
                               /\ dispatch'[o].sent = dispatch[o].sent
                               /\ dispatch'[o].at = dispatch[o].at
  BY <1>1, <1>2, <1>3
<1>5. OutreachTypeOK'
  BY <1>1, <1>2, <1>4 DEF OutreachTypeOK, Batches
<1>6. QED
  BY <1>1, <1>4, <1>5 DEF OutreachInv, DeliveriesAreClean, OpenIsDelivered, OpenInOne, CopiedOnce

LEMMA EndDispatchKeeps ==
  ASSUME OutreachInv, NEW d \in Dispatchers, NEW heard \in SUBSET dispatch[d].sent,
         CommitDispatch(d, heard) \/ LoseDispatch(d)
  PROVE  OutreachInv'
<1>1. /\ OutreachTypeOK /\ dispatch \in [Dispatchers -> Batches] /\ letter \in [Letters -> LetterRows]
      /\ dispatch' = [dispatch EXCEPT ![d] = NoBatch]
      /\ UNCHANGED <<subscription, confirmLink, blocked, copies, late>>
  BY DEF OutreachInv, OutreachTypeOK, Batches, LetterRows, CommitDispatch, LoseDispatch
<1>2. NoBatch \in Batches /\ NoBatch.batch = {} /\ NoBatch.sent = {}
  BY DEF NoBatch, Batches
<1>3. /\ dispatch' \in [Dispatchers -> Batches] /\ dispatch'[d] = NoBatch
      /\ \A o \in Dispatchers \ {d} : dispatch'[o] = dispatch[o]
  BY <1>1, <1>2
<1>4. CASE CommitDispatch(d, heard)
  <2> DEFINE verdict(m) == IF m \in heard THEN "accepted"
                           ELSE IF m \in dispatch[d].stale THEN "suppressed" ELSE "failed"
  <2>1. /\ dispatch[d].held = dispatch[d].batch /\ unclear' = unclear
        /\ letter' = [m \in Letters |->
             IF m \in dispatch[d].batch THEN [letter[m] EXCEPT !.delivery = verdict(m)] ELSE letter[m]]
    BY <1>4 DEF CommitDispatch
  <2>2. \A m \in Letters : verdict(m) \in {"accepted", "failed", "suppressed"}
    OBVIOUS
  <2> HIDE DEF verdict
  <2>3. ASSUME NEW m \in Letters
        PROVE  /\ letter'[m] \in LetterRows
               /\ letter'[m].campaign = letter[m].campaign /\ letter'[m].clean = letter[m].clean
               /\ m \in dispatch[d].batch => letter'[m].delivery \in {"accepted", "failed", "suppressed"}
               /\ m \notin dispatch[d].batch => letter'[m] = letter[m]
    <3>1. letter[m] \in LetterRows
      BY <1>1
    <3>2. CASE m \in dispatch[d].batch
      <4>1. letter'[m] = [letter[m] EXCEPT !.delivery = verdict(m)]
        BY <2>1, <3>2
      <4>2. QED
        BY <2>2, <3>1, <3>2, <4>1 DEF LetterRows
    <3>3. CASE m \notin dispatch[d].batch
      BY <2>1, <3>1, <3>3
    <3>4. QED
      BY <3>2, <3>3
  <2>4. letter' \in [Letters -> LetterRows]
    <3>1. letter' = [m \in Letters |-> letter'[m]]
      BY <2>1
    <3>2. QED
      BY <2>3, <3>1
  <2>5. \A m \in dispatch[d].batch : m \in Letters /\ letter[m].delivery # "none"
    BY <1>1 DEF OutreachInv, OpenIsDelivered, Batches
  <2>6. \A m \in Letters : letter'[m].delivery # "none" <=> letter[m].delivery # "none"
    BY <2>3, <2>5
  <2>7. OutreachTypeOK'
    BY <1>1, <1>3, <2>1, <2>3, <2>4, <2>6 DEF OutreachTypeOK, Batches, LetterRows
  <2>8. DeliveriesAreClean' /\ OpenIsDelivered'
    <3>1. \A o \in Dispatchers : dispatch[o].batch \subseteq Letters
      BY <1>1 DEF Batches
    <3>2. QED
      BY <1>2, <1>3, <2>3, <2>6, <3>1 DEF OutreachInv, DeliveriesAreClean, OpenIsDelivered, NoBatch
  <2>9. OpenInOne'
    <3>1. ASSUME NEW o \in Dispatchers, NEW m \in dispatch'[o].batch \ unclear'
          PROVE  /\ letter'[m].delivery = "queued"
                 /\ \A p \in Dispatchers \ {o} : m \notin dispatch'[p].batch
      <4>1. o # d /\ m \in dispatch[o].batch \ unclear /\ m \in Letters
        BY <1>1, <1>2, <1>3, <2>1, <3>1 DEF Batches
      <4>2. letter[m].delivery = "queued" /\ \A p \in Dispatchers \ {o} : m \notin dispatch[p].batch
        BY <4>1 DEF OutreachInv, OpenInOne
      <4>3. QED
        BY <1>2, <1>3, <2>3, <4>1, <4>2
    <3>2. QED
      BY <3>1 DEF OpenInOne
  <2>10. CopiedOnce'
    <3>1. ASSUME NEW m \in Letters \ unclear'
          PROVE  /\ copies'[m] <= 1
                 /\ letter'[m].delivery \in {"none", "queued"}
                      /\ (\A o \in Dispatchers : m \notin dispatch'[o].sent) => copies'[m] = 0
      <4>1. CASE m \in dispatch[d].batch
        BY <1>1, <2>1, <2>3, <3>1, <4>1 DEF OutreachInv, CopiedOnce
      <4>2. CASE m \notin dispatch[d].batch
        <5>1. m \notin dispatch[d].sent
          BY <4>2 DEF OutreachInv, OpenIsDelivered
        <5>2. QED
          BY <1>1, <1>3, <2>1, <2>3, <3>1, <4>2, <5>1 DEF OutreachInv, CopiedOnce
      <4>3. QED
        BY <4>1, <4>2
    <3>2. QED
      BY <3>1 DEF CopiedOnce
  <2>11. QED
    BY <1>1, <2>7, <2>8, <2>9, <2>10 DEF OutreachInv
<1>5. CASE LoseDispatch(d)
  <2>1. letter' = letter /\ unclear' = unclear \cup dispatch[d].sent
    BY <1>5 DEF LoseDispatch
  <2>2. OutreachTypeOK'
    BY <1>1, <1>3, <2>1 DEF OutreachTypeOK, Batches
  <2>3. DeliveriesAreClean' /\ OpenIsDelivered'
    BY <1>2, <1>3, <2>1 DEF OutreachInv, DeliveriesAreClean, OpenIsDelivered, NoBatch
  <2>4. OpenInOne'
    BY <1>2, <1>3, <2>1 DEF OutreachInv, OpenInOne
  <2>5. CopiedOnce'
    <3>1. \A m \in Letters \ unclear' : m \in Letters \ unclear /\ m \notin dispatch[d].sent
      BY <2>1
    <3>2. QED
      BY <1>1, <1>3, <2>1, <3>1 DEF OutreachInv, CopiedOnce
  <2>6. QED
    BY <1>1, <2>2, <2>3, <2>4, <2>5 DEF OutreachInv
<1>6. QED
  BY <1>4, <1>5

LEMMA ProviderRefusalKeeps ==
  ASSUME OutreachInv, NEW m \in Letters, NEW verdict \in {"suppressed", "failed"},
         ProviderRefusal(m, verdict)
  PROVE  OutreachInv'
<1> DEFINE row == [letter[m] EXCEPT !.delivery = verdict]
<1>1. /\ letter[m].delivery = "accepted" /\ letter' = [letter EXCEPT ![m] = row]
      /\ blocked' = TRUE
      /\ UNCHANGED <<confirmLink, dispatch, copies, unclear, late>>
  BY DEF ProviderRefusal
<1>2. letter \in [Letters -> LetterRows] /\ OutreachTypeOK
  BY DEF OutreachInv, OutreachTypeOK, LetterRows
<1>3. /\ row \in LetterRows /\ row.delivery = verdict /\ row.clean = letter[m].clean
      /\ row.campaign = letter[m].campaign
  BY <1>2 DEF LetterRows
<1> HIDE DEF row
<1>4. /\ letter' \in [Letters -> LetterRows] /\ letter'[m] = row
      /\ \A k \in Letters \ {m} : letter'[k] = letter[k]
  BY <1>1, <1>2, <1>3
<1>5. subscription' \in [Lists -> {"none", "pending", "confirmed", "suppressed"}]
  BY <1>2 DEF ProviderRefusal, OutreachTypeOK
<1>6. OutreachTypeOK'
  BY <1>1, <1>2, <1>3, <1>4, <1>5 DEF OutreachTypeOK, LetterRows
<1>7. DeliveriesAreClean'
  BY <1>1, <1>3, <1>4 DEF OutreachInv, DeliveriesAreClean
<1>8. OpenIsDelivered' /\ OpenInOne'
  <2>1. \A d \in Dispatchers : dispatch[d].batch \subseteq Letters /\ (m \in dispatch[d].batch => m \in unclear)
    BY <1>1, <1>2 DEF OutreachInv, OpenInOne, OutreachTypeOK
  <2>2. QED
    BY <1>1, <1>3, <1>4, <2>1 DEF OutreachInv, OpenIsDelivered, OpenInOne
<1>9. CopiedOnce'
  BY <1>1, <1>3, <1>4 DEF OutreachInv, CopiedOnce
<1>10. QED
  BY <1>1, <1>6, <1>7, <1>8, <1>9 DEF OutreachInv

LEMMA OutreachInvStep == OutreachInv /\ [OutreachNext]_outreachVars => OutreachInv'
<1> SUFFICES ASSUME OutreachInv, [OutreachNext]_outreachVars
             PROVE  OutreachInv'
  OBVIOUS
<1>1. CASE UNCHANGED outreachVars
  BY <1>1 DEF outreachVars, OutreachInv, OutreachTypeOK, DeliveriesAreClean, OpenIsDelivered,
              OpenInOne, CopiedOnce
<1>2. ASSUME NEW d \in Dispatchers, LoseDispatch(d)
      PROVE  OutreachInv'
  BY <1>2, {} \in SUBSET dispatch[d].sent, EndDispatchKeeps
<1>3. QED
  BY <1>1, <1>2, SubscriptionKeeps, CampaignKeeps, BeginDispatchKeeps, SendLetterKeeps,
     MarkLetterKeeps, EndDispatchKeeps, ProviderRefusalKeeps DEF OutreachNext

LEMMA OutreachInvHolds == OutreachSpec => []OutreachInv
<1>1. QED
  BY OutreachInvInit, OutreachInvStep, PTL DEF OutreachSpec

(* For any number of lists, letters and runs of the cron: a letter is sent twice  *)
(* only if two dispatches had it open or one that sent it was lost, and no letter *)
(* is sent whose composition, or whose dispatch, began after the refusal it reads *)
(* (outreach-lists.ts:215, 272, 300).                                             *)
THEOREM LettersWereWarranted == OutreachSpec => []LettersAreWarranted
<1>1. OutreachInv => LettersAreWarranted
  <2> SUFFICES ASSUME OutreachInv
               PROVE  LettersAreWarranted
    OBVIOUS
  <2>1. CopiesAreExplained
    BY DEF OutreachInv, CopiedOnce, CopiesAreExplained, OutreachTypeOK
  <2>2. QED
    BY <2>1 DEF OutreachInv, LettersAreWarranted, RefusalsStopLaterLetters
<1>2. QED
  BY OutreachInvHolds, <1>1, PTL

-----------------------------------------------------------------------------
(* The money of a trip. *)

TripStatuses == {"requested", "approved", "denied", "gone"}
TripRows == [status : TripStatuses, advances : Seq(AdvanceRow), claims : Seq(ClaimRow)]

Booked == {"booked", "issuing", "undoing"}
Settling == {"settling", "reconciling"}

(* What a request has in hand was of the kind it looked for. *)
ErrandRight(e) ==
  /\ e.at \in {"idle", "verdict", "claiming", "editing"} \cup Booked \cup Settling
  /\ e.at = "idle" => e = NoErrand
  /\ e.at = "verdict" => /\ e.verdict \in Verdicts /\ e.seen \in {"requested", "denied"}
                         /\ e.seen = "denied" => e.verdict = "gone"
  /\ e.at \in Booked => e.sum \in Sums
  /\ e.at = "issuing" => e = [at |-> "issuing", sum |-> e.sum, seen |-> <<>>]
  /\ e.at = "claiming" => e.seen = <<>> /\ e.spent \in Sums /\ e.sum \in Sums \cup {0}
  /\ e.at = "editing" => /\ e.spent \in Sums \cup {0} /\ e.reopens \in BOOLEAN
                         /\ e.claim \in Nat /\ e.seen[e.claim].status = "open"
  /\ e.at = "settling" => e = [at |-> "settling", claim |-> e.claim,
                              difference |-> e.difference, seen |-> e.seen]
  /\ e.at \in Settling => /\ e.difference \in Int
                          /\ e.claim \in Nat /\ e.seen[1][e.claim].status = "open"

(* The claim it is about is there, or the trip is gone with all its rows. *)
ClaimKnown(e, t) ==
  e.at \in {"editing"} \cup Settling => t.status = "gone" \/ e.claim \in DOMAIN t.claims

(* Unless a request slipped: requests are about an approved trip, and what one
   knows of the advance is so. *)
AmountOf(advances) == IF advances = <<>> THEN 0 ELSE advances[1].amount
Backed(e, t) ==
  /\ e.at \notin {"idle", "verdict"} => t.status = "approved"
  /\ e.at = "claiming" /\ e.sum # 0 => t.advances # <<>> /\ t.advances[1].amount = e.sum
  /\ e.at \in Settling => /\ e.claim = 1
                          /\ e.difference = e.seen[1][1].spent - AmountOf(e.seen[2])

Settled(t) == t.claims # <<>> /\ t.claims[1].status = "reconciled"
TripSound(t) ==
  /\ t.advances # <<>> \/ t.claims # <<>> => t.status = "approved"
  /\ t.advances # <<>> /\ t.advances[1].late => Settled(t)
  /\ t.claims # <<>> /\ t.claims[1].advance # 0 =>
       t.advances # <<>> /\ t.advances[1].amount = t.claims[1].advance
  /\ Len(t.advances) <= 1 /\ Len(t.claims) <= 1

(* What the rows account for, and what requests have booked beyond that *)
LateAdvance(t) == IF t.advances # <<>> /\ t.advances[1].late THEN t.advances[1].amount ELSE 0
RowsHold(t) ==
  IF Settled(t) THEN t.claims[1].spent + LateAdvance(t) ELSE AmountOf(t.advances)
Carried(e) ==
  IF e.at \in Booked THEN e.sum ELSE IF e.at \in Settling THEN e.difference ELSE 0
AllCarried(es) == PartSums([c \in TravelCalls |-> Carried(es[c])], TravelCalls)[TravelCalls]

TravelShape ==
  /\ trip \in TripRows /\ booked \in -MaxBooked..MaxBooked /\ slipped \in BOOLEAN
  /\ DOMAIN errand = TravelCalls
  /\ \A c \in TravelCalls : ErrandRight(errand[c]) /\ ClaimKnown(errand[c], trip)

TravelInv ==
  /\ TravelShape
  /\ ~slipped => /\ TripSound(trip)
                 /\ \A c \in TravelCalls : Backed(errand[c], trip)
                 /\ booked = RowsHold(trip) + AllCarried(errand)

LEMMA SumIsMoney ==
  ASSUME NEW s \in Sums
  PROVE  s \in Int /\ s \in Nat /\ s # 0
BY TravelAssumption

LEMMA CarriedIsMoney ==
  ASSUME NEW e, ErrandRight(e)
  PROVE  Carried(e) \in Int
<1>1. CASE e.at \in Booked
  <2>1. e.sum \in Int
    <3>1. e.sum \in Sums
      BY <1>1 DEF ErrandRight
    <3>2. QED
      BY <3>1, SumIsMoney
  <2>2. QED
    BY <1>1, <2>1 DEF Carried
<1>2. CASE e.at \notin Booked /\ e.at \in Settling
  BY <1>2 DEF Carried, ErrandRight
<1>3. CASE e.at \notin Booked /\ e.at \notin Settling
  BY <1>3 DEF Carried
<1>4. QED
  BY <1>1, <1>2, <1>3

LEMMA RowsHoldMoney ==
  ASSUME NEW t \in TripRows
  PROVE  /\ RowsHold(t) \in Int
         /\ t.advances # <<>> => t.advances[1] \in AdvanceRow /\ t.advances[1].amount \in Int
         /\ t.claims # <<>> => t.claims[1] \in ClaimRow /\ t.claims[1].spent \in Int
<1>1. t.advances # <<>> => t.advances[1] \in AdvanceRow /\ t.advances[1].amount \in Int
  <2>1. t.advances \in Seq(AdvanceRow)
    BY DEF TripRows
  <2>2. t.advances # <<>> => t.advances[1] \in AdvanceRow
    BY <2>1
  <2>3. ASSUME NEW a \in AdvanceRow
        PROVE  a.amount \in Int
    <3>1. a.amount \in Sums
      BY DEF AdvanceRow
    <3>2. QED
      BY <3>1, SumIsMoney
  <2>4. QED
    BY <2>2, <2>3
<1>2. t.claims # <<>> => t.claims[1] \in ClaimRow /\ t.claims[1].spent \in Int
  <2>1. t.claims \in Seq(ClaimRow)
    BY DEF TripRows
  <2>2. t.claims # <<>> => t.claims[1] \in ClaimRow
    BY <2>1
  <2>3. ASSUME NEW a \in ClaimRow
        PROVE  a.spent \in Int
    <3>1. a.spent \in Sums
      BY DEF ClaimRow
    <3>2. QED
      BY <3>1, SumIsMoney
  <2>4. QED
    BY <2>2, <2>3
<1>3. LateAdvance(t) \in Int /\ AmountOf(t.advances) \in Int
  BY <1>1 DEF LateAdvance, AmountOf
<1>4. Settled(t) => t.claims[1].spent \in Int
  BY <1>2 DEF Settled
<1>5. RowsHold(t) \in Int
  <2>1. LateAdvance(t) \in Int /\ AmountOf(t.advances) \in Int
    BY <1>3
  <2> DEFINE x == LateAdvance(t)
             y == AmountOf(t.advances)
             z == t.claims[1].spent
  <2>2. RowsHold(t) = IF Settled(t) THEN z + x ELSE y
    BY DEF RowsHold
  <2>3. x \in Int /\ y \in Int /\ (Settled(t) => z \in Int)
    BY <1>4, <2>1
  <2> HIDE DEF x, y, z
  <2>4. QED
    BY <2>2, <2>3
<1>6. QED
  BY <1>1, <1>2, <1>5

(* When one request has more in hand, so have all of them. *)
LEMMA CarriedChanges ==
  ASSUME NEW es, \A k \in TravelCalls : ErrandRight(es[k]),
         NEW c \in TravelCalls, NEW fs, ErrandRight(fs[c]),
         \A k \in TravelCalls \ {c} : fs[k] = es[k]
  PROVE  /\ AllCarried(es) \in Int
         /\ AllCarried(fs) = AllCarried(es) + (Carried(fs[c]) - Carried(es[c]))
<1> DEFINE f == [k \in TravelCalls |-> Carried(es[k])]
           g == [k \in TravelCalls |-> Carried(fs[k])]
           h == Carried(fs[c]) - Carried(es[c])
<1>1. \A k \in TravelCalls : f[k] \in Int
  BY CarriedIsMoney
<1>2. Carried(fs[c]) \in Int /\ Carried(es[c]) \in Int
  BY CarriedIsMoney
<1>3. h \in Int /\ g[c] = f[c] + h
  BY <1>2
<1>4. \A k \in TravelCalls : k # c => g[k] = f[k]
  OBVIOUS
<1>5. IsFiniteSet(TravelCalls)
  BY TravelAssumption
<1> HIDE DEF f, g, h
<1>6. c \in TravelCalls => g[c] = f[c] + h
  BY <1>3
<1>8. /\ PartSums(f, TravelCalls)[TravelCalls] \in Int
      /\ PartSums(g, TravelCalls)[TravelCalls] = PartSums(f, TravelCalls)[TravelCalls] + h
  BY <1>1, <1>3, <1>4, <1>5, <1>6, SumsGrow
<1>9. QED
  BY <1>8 DEF AllCarried, f, g, h

LEMMA NothingCarried ==
  ASSUME NEW es, \A k \in TravelCalls : es[k] = NoErrand
  PROVE  AllCarried(es) = 0
<1> DEFINE f == [k \in TravelCalls |-> Carried(es[k])]
<1>1. \A k \in TravelCalls : f[k] = 0
  BY DEF Carried, NoErrand, Booked, Settling
<1> HIDE DEF f
<1>2. PartSums(f, TravelCalls)[TravelCalls] = 0
  BY <1>1, TravelAssumption, SumsOfNothing
<1>3. QED
  BY <1>2 DEF AllCarried, f

LEMMA NoErrandRight == ErrandRight(NoErrand) /\ NoErrand.at = "idle" /\ Carried(NoErrand) = 0
BY DEF ErrandRight, NoErrand, Booked, Settling, Carried

LEMMA TravelInvInit == TravelInit => TravelInv
<1> SUFFICES ASSUME TravelInit
             PROVE  TravelInv
  OBVIOUS
<1>1. /\ trip = [status |-> "requested", advances |-> <<>>, claims |-> <<>>]
      /\ booked = 0 /\ slipped = FALSE
      /\ DOMAIN errand = TravelCalls /\ \A c \in TravelCalls : errand[c] = NoErrand
  BY DEF TravelInit
<1>2. TravelShape
  <2>1. trip \in TripRows /\ booked \in -MaxBooked..MaxBooked
    BY <1>1, TravelAssumption DEF TripRows, TripStatuses
  <2>2. QED
    BY <1>1, <2>1, NoErrandRight DEF TravelShape, ClaimKnown, Settling
<1>3. TripSound(trip)
  BY <1>1 DEF TripSound, Settled
<1>4. \A c \in TravelCalls : Backed(errand[c], trip)
  BY <1>1, NoErrandRight DEF Backed, Settling
<1>5. RowsHold(trip) = 0
  BY <1>1 DEF RowsHold, Settled, LateAdvance, AmountOf
<1>6. AllCarried(errand) = 0
  BY <1>1, NothingCarried
<1>7. QED
  BY <1>1, <1>2, <1>3, <1>4, <1>5, <1>6 DEF TravelInv

-----------------------------------------------------------------------------
(* A request goes on, books perhaps, and leaves the rows alone. *)
LEMMA ErrandKeeps ==
  ASSUME TravelInv, NEW c \in TravelCalls, NEW e, ErrandRight(e), ClaimKnown(e, trip),
         Goes(c, e), trip' = trip, booked' \in -MaxBooked..MaxBooked,
         slipped' \in BOOLEAN,
         ~slipped' => /\ ~slipped /\ Backed(e, trip)
                      /\ booked' = booked + (Carried(e) - Carried(errand[c]))
  PROVE  TravelInv'
<1>1. /\ DOMAIN errand' = TravelCalls /\ errand'[c] = e
      /\ \A k \in TravelCalls \ {c} : errand'[k] = errand[k]
  BY DEF TravelInv, TravelShape, Goes
<1>2. \A k \in TravelCalls : ErrandRight(errand'[k]) /\ ClaimKnown(errand'[k], trip')
  BY <1>1 DEF TravelInv, TravelShape
<1>3. TravelShape'
  BY <1>1, <1>2 DEF TravelInv, TravelShape, ErrandRight, ClaimKnown, NoErrand, Verdicts,
                    Booked, Settling
<1>4. ASSUME ~slipped'
      PROVE  /\ TripSound(trip')
             /\ \A k \in TravelCalls : Backed(errand'[k], trip')
             /\ booked' = RowsHold(trip') + AllCarried(errand')
  <2>1. /\ TripSound(trip) /\ \A k \in TravelCalls : Backed(errand[k], trip)
        /\ booked = RowsHold(trip) + AllCarried(errand)
    BY <1>4 DEF TravelInv
  <2>2. \A k \in TravelCalls : Backed(errand'[k], trip')
    BY <1>1, <1>4, <2>1
  <2>3. /\ AllCarried(errand) \in Int
        /\ AllCarried(errand') = AllCarried(errand) + (Carried(e) - Carried(errand[c]))
    BY <1>1, CarriedChanges DEF TravelInv, TravelShape
  <2>4. /\ RowsHold(trip) \in Int /\ RowsHold(trip') = RowsHold(trip)
        /\ Carried(e) \in Int /\ Carried(errand[c]) \in Int
    BY RowsHoldMoney, CarriedIsMoney DEF TravelInv, TravelShape
  <2>5. QED
    BY <1>4, <2>1, <2>2, <2>3, <2>4
<1>5. QED
  BY <1>3, <1>4 DEF TravelInv, TripSound, Settled, Backed, AmountOf, RowsHold, LateAdvance

(* A request is done, and changes the rows by what it carried. *)
LEMMA WriteKeeps ==
  ASSUME TravelInv, NEW c \in TravelCalls, EndErrand(c), booked' = booked,
         trip' \in TripRows, slipped' \in BOOLEAN,
         trip'.status = "gone" \/ (trip.status # "gone" /\ DOMAIN trip.claims \subseteq DOMAIN trip'.claims),
         ~slipped' =>
           /\ ~slipped /\ TripSound(trip')
           /\ RowsHold(trip') = RowsHold(trip) + Carried(errand[c])
           /\ trip.status = "approved" => trip'.status = "approved"
           /\ trip.advances # <<>> =>
                /\ trip'.advances # <<>>
                /\ trip'.advances[1].amount = trip.advances[1].amount
  PROVE  TravelInv'
<1>1. /\ DOMAIN errand' = TravelCalls /\ errand'[c] = NoErrand
      /\ \A k \in TravelCalls \ {c} : errand'[k] = errand[k]
  BY DEF TravelInv, TravelShape, EndErrand
<1>2. \A k \in TravelCalls : ErrandRight(errand'[k]) /\ ClaimKnown(errand'[k], trip')
  <2>1. ErrandRight(errand'[c]) /\ ClaimKnown(errand'[c], trip')
    BY <1>1, NoErrandRight DEF ClaimKnown, Settling
  <2>2. ASSUME NEW k \in TravelCalls, k # c
        PROVE  ErrandRight(errand'[k]) /\ ClaimKnown(errand'[k], trip')
    BY <1>1, <2>2 DEF TravelInv, TravelShape, ClaimKnown
  <2>3. QED
    BY <2>1, <2>2
<1>3. TravelShape'
  BY <1>1, <1>2 DEF TravelInv, TravelShape, ErrandRight, ClaimKnown, NoErrand, Verdicts,
                    Booked, Settling
<1>4. ASSUME ~slipped'
      PROVE  /\ TripSound(trip')
             /\ \A k \in TravelCalls : Backed(errand'[k], trip')
             /\ booked' = RowsHold(trip') + AllCarried(errand')
  <2>1. /\ TripSound(trip) /\ \A k \in TravelCalls : Backed(errand[k], trip)
        /\ booked = RowsHold(trip) + AllCarried(errand)
    BY <1>4 DEF TravelInv
  <2>2. \A k \in TravelCalls : Backed(errand'[k], trip')
    <3>1. Backed(errand'[c], trip')
      BY <1>1, NoErrandRight DEF Backed, Settling
    <3>2. ASSUME NEW k \in TravelCalls, k # c
          PROVE  Backed(errand'[k], trip')
      BY <1>1, <1>4, <2>1, <3>2 DEF Backed
    <3>3. QED
      BY <3>1, <3>2
  <2>3. /\ AllCarried(errand) \in Int
        /\ AllCarried(errand') = AllCarried(errand) + (Carried(NoErrand) - Carried(errand[c]))
    BY <1>1, NoErrandRight, CarriedChanges DEF TravelInv, TravelShape
  <2>4. RowsHold(trip) \in Int /\ Carried(errand[c]) \in Int
    BY RowsHoldMoney, CarriedIsMoney DEF TravelInv, TravelShape
  <2>5. QED
    BY <1>4, <2>1, <2>2, <2>3, <2>4, NoErrandRight
<1>5. QED
  BY <1>3, <1>4 DEF TravelInv, TripSound, Settled, Backed, AmountOf, RowsHold, LateAdvance

(* A request that carries nothing, or leaves as much behind, may end. *)
LEMMA EndKeeps ==
  ASSUME TravelInv, NEW c \in TravelCalls, EndErrand(c), trip' = trip,
         booked' \in -MaxBooked..MaxBooked, slipped' \in BOOLEAN,
         ~slipped' => ~slipped /\ booked' = booked - Carried(errand[c])
  PROVE  TravelInv'
<1>1. ClaimKnown(NoErrand, trip) /\ Backed(NoErrand, trip) /\ ErrandRight(NoErrand)
  BY NoErrandRight DEF ClaimKnown, Backed, Settling
<1>2. Goes(c, NoErrand)
  BY DEF EndErrand, Goes
<1>3. Carried(errand[c]) \in Int /\ booked \in Int
  BY CarriedIsMoney, TravelAssumption DEF TravelInv, TravelShape
<1>4. ~slipped' => /\ ~slipped /\ Backed(NoErrand, trip)
                   /\ booked' = booked + (Carried(NoErrand) - Carried(errand[c]))
  BY <1>1, <1>3, NoErrandRight
<1>5. QED
  BY <1>1, <1>2, <1>4, ErrandKeeps

LEMMA KeepsReadForVerdict ==
  ASSUME TravelInv, NEW c \in TravelCalls, NEW verdict \in Verdicts, ReadForVerdict(c, verdict)
  PROVE  TravelInv'
<1> DEFINE e == [at |-> "verdict", verdict |-> verdict, seen |-> trip.status]
<1>1. /\ errand[c] = NoErrand /\ ~slipped /\ Goes(c, e)
      /\ trip' = trip /\ booked' = booked /\ slipped' = slipped
  BY DEF ReadForVerdict, Begins, Idle
<1>2. ErrandRight(e)
  BY DEF ReadForVerdict, ErrandRight, Booked, Settling
<1>3. ClaimKnown(e, trip) /\ Backed(e, trip) /\ Carried(e) = 0
  BY DEF ClaimKnown, Backed, Settling, Booked, Carried
<1>4. booked' \in -MaxBooked..MaxBooked /\ slipped' \in BOOLEAN /\ booked \in Int
  BY <1>1 DEF TravelInv, TravelShape
<1> HIDE DEF e
<1>5. QED
  BY <1>1, <1>2, <1>3, <1>4, NoErrandRight, ErrandKeeps

LEMMA KeepsBookAdvance ==
  ASSUME TravelInv, NEW c \in TravelCalls, NEW sum \in Sums, BookAdvance(c, sum)
  PROVE  TravelInv'
<1> DEFINE e == [at |-> "booked", sum |-> sum]
<1>1. /\ errand[c] = NoErrand /\ ~slipped /\ Goes(c, e)
      /\ trip' = trip /\ booked' = booked + sum /\ slipped' = slipped
      /\ booked' \in -MaxBooked..MaxBooked
  BY DEF BookAdvance, Begins, Idle, Book
<1>2. ErrandRight(e)
  BY DEF ErrandRight, Booked, Settling
<1>3. ClaimKnown(e, trip) /\ Backed(e, trip) /\ Carried(e) = sum
  BY DEF BookAdvance, ClaimKnown, Backed, Settling, Booked, Carried
<1>4. slipped' \in BOOLEAN /\ booked \in Int /\ sum \in Int
  BY <1>1, SumIsMoney DEF TravelInv, TravelShape
<1> HIDE DEF e
<1>5. booked' = booked + (Carried(e) - Carried(errand[c]))
  BY <1>1, <1>3, <1>4, NoErrandRight
<1>6. QED
  BY <1>1, <1>2, <1>3, <1>4, <1>5, ErrandKeeps

LEMMA KeepsReadForClaim ==
  ASSUME TravelInv, NEW c \in TravelCalls, NEW spent \in Sums, ReadForClaim(c, spent)
  PROVE  TravelInv'
<1>1. /\ errand[c] = NoErrand /\ ~slipped /\ trip.status = "approved" /\ trip.claims = <<>>
      /\ trip' = trip /\ booked' = booked /\ slipped' = slipped
  BY DEF ReadForClaim, Begins, Idle
<1>2. PICK sum \in AdvancesRead :
        Goes(c, [at |-> "claiming", spent |-> spent, sum |-> sum, seen |-> trip.claims])
  BY DEF ReadForClaim
<1> DEFINE e == [at |-> "claiming", spent |-> spent, sum |-> sum, seen |-> trip.claims]
<1>3. /\ sum \in Sums \cup {0}
      /\ sum # 0 => trip.advances # <<>> /\ trip.advances[1].amount = sum
  <2>1. trip.advances \in Seq(AdvanceRow) /\ Len(trip.advances) <= 1
    BY <1>1 DEF TravelInv, TravelShape, TripRows, TripSound
  <2>2. CASE trip.advances = <<>>
    BY <2>2 DEF AdvancesRead
  <2>3. CASE trip.advances # <<>>
    <3>1. PICK i \in DOMAIN trip.advances : sum = trip.advances[i].amount
      BY <2>3 DEF AdvancesRead
    <3>2. i = 1 /\ trip.advances[i] \in AdvanceRow
      BY <2>1
    <3>3. QED
      BY <2>3, <3>1, <3>2 DEF AdvanceRow
  <2>4. QED
    BY <2>2, <2>3
<1>4. ErrandRight(e)
  BY <1>1, <1>3 DEF ErrandRight, Booked, Settling
<1>5. ClaimKnown(e, trip) /\ Backed(e, trip) /\ Carried(e) = 0
  BY <1>1, <1>3 DEF ClaimKnown, Backed, Settling, Booked, Carried
<1>6. booked' \in -MaxBooked..MaxBooked /\ slipped' \in BOOLEAN /\ booked \in Int
  BY <1>1 DEF TravelInv, TravelShape
<1>7. Goes(c, e)
  BY <1>2
<1> HIDE DEF e
<1>8. QED
  BY <1>1, <1>4, <1>5, <1>6, <1>7, NoErrandRight, ErrandKeeps

LEMMA KeepsRecheckAdvance ==
  ASSUME TravelInv, NEW c \in TravelCalls, RecheckAdvance(c)
  PROVE  TravelInv'
<1> DEFINE s == errand[c].sum
           e == [at |-> IF trip.advances = <<>> THEN "issuing" ELSE "undoing",
                 sum |-> s, seen |-> trip.advances]
<1>1. /\ errand[c].at = "booked" /\ Goes(c, e)
      /\ trip' = trip /\ booked' = booked /\ slipped' = slipped
  BY DEF RecheckAdvance
<1>2. ErrandRight(errand[c]) /\ s \in Sums
  BY <1>1 DEF TravelInv, TravelShape, ErrandRight, Booked
<1>3. ErrandRight(e) /\ ClaimKnown(e, trip)
  BY <1>2 DEF ErrandRight, ClaimKnown, Booked, Settling
<1>4. Carried(e) = s /\ Carried(errand[c]) = s /\ s \in Int
  BY <1>1, <1>2, SumIsMoney DEF Carried, Booked
<1>5. booked' \in -MaxBooked..MaxBooked /\ slipped' \in BOOLEAN /\ booked \in Int
  BY <1>1 DEF TravelInv, TravelShape
<1>6. ~slipped' => ~slipped /\ Backed(e, trip)
  BY <1>1 DEF TravelInv, Backed, Settling
<1> HIDE DEF e, s
<1>7. QED
  BY <1>1, <1>3, <1>4, <1>5, <1>6, ErrandKeeps

LEMMA KeepsUndoAdvance ==
  ASSUME TravelInv, NEW c \in TravelCalls, UndoAdvance(c)
  PROVE  TravelInv'
<1> DEFINE s == errand[c].sum
<1>1. /\ errand[c].at = "undoing" /\ EndErrand(c) /\ trip' = trip /\ slipped' = slipped
      /\ booked' = booked + (-s) /\ booked' \in -MaxBooked..MaxBooked
  BY DEF UndoAdvance, Book
<1>2. s \in Sums
  BY <1>1 DEF TravelInv, TravelShape, ErrandRight, Booked
<1>3. Carried(errand[c]) = s /\ s \in Int
  BY <1>1, <1>2, SumIsMoney DEF Carried, Booked
<1>4. slipped' \in BOOLEAN /\ booked \in Int
  BY <1>1 DEF TravelInv, TravelShape
<1> HIDE DEF s
<1>5. booked' = booked - Carried(errand[c])
  BY <1>1, <1>3, <1>4
<1>6. QED
  BY <1>1, <1>4, <1>5, EndKeeps

LEMMA KeepsDropErrand ==
  ASSUME TravelInv, NEW c \in TravelCalls, DropErrand(c)
  PROVE  TravelInv'
<1>1. EndErrand(c) /\ trip' = trip /\ booked' = booked
  BY DEF DropErrand
<1>2. slipped' \in BOOLEAN /\ booked \in Int /\ booked' \in -MaxBooked..MaxBooked
  BY <1>1 DEF TravelInv, TravelShape, DropErrand
<1>3. ~slipped' => ~slipped /\ Carried(errand[c]) = 0
  BY DEF DropErrand, Carried, Booked, Settling
<1>4. QED
  BY <1>1, <1>2, <1>3, EndKeeps

LEMMA KeepsReadForEdit ==
  ASSUME TravelInv, NEW c \in TravelCalls, NEW i \in DOMAIN trip.claims,
         NEW spent \in Sums \cup {0}, NEW reopens \in BOOLEAN, ReadForEdit(c, i, spent, reopens)
  PROVE  TravelInv'
<1> DEFINE e == [at |-> "editing", claim |-> i, spent |-> spent, reopens |-> reopens,
                 seen |-> trip.claims]
<1>1. /\ errand[c] = NoErrand /\ ~slipped /\ Goes(c, e) /\ Open(i)
      /\ trip' = trip /\ booked' = booked /\ slipped' = slipped
  BY DEF ReadForEdit, Begins, Idle
<1>2. trip.claims \in Seq(ClaimRow) /\ TripSound(trip) /\ trip.claims # <<>>
  BY <1>1 DEF TravelInv, TravelShape, TripRows
<1>3. i \in Nat /\ trip.claims[i].status = "open"
  <2>1. i \in Nat /\ trip.claims[i] \in ClaimRow
    BY <1>2
  <2>2. QED
    BY <1>1, <2>1 DEF Open, ClaimRow
<1>4. ErrandRight(e)
  BY <1>3 DEF ErrandRight, Booked, Settling
<1>5. ClaimKnown(e, trip) /\ Backed(e, trip) /\ Carried(e) = 0
  BY <1>2 DEF ClaimKnown, Backed, TripSound, Settling, Booked, Carried
<1>6. booked' \in -MaxBooked..MaxBooked /\ slipped' \in BOOLEAN /\ booked \in Int
  BY <1>1 DEF TravelInv, TravelShape
<1> HIDE DEF e
<1>7. QED
  BY <1>1, <1>4, <1>5, <1>6, NoErrandRight, ErrandKeeps

(* The difference is booked against the one advance, or none. *)
LEMMA KeepsBookDifference ==
  ASSUME TravelInv, NEW c \in TravelCalls, NEW i \in DOMAIN trip.claims, BookDifference(c, i)
  PROVE  TravelInv'
<1>1. /\ errand[c] = NoErrand /\ ~slipped /\ Open(i)
      /\ trip' = trip /\ slipped' = slipped
  BY DEF BookDifference, Begins, Idle
<1>2. PICK sum \in IF trip.advances = <<>> THEN {trip.claims[i].advance} ELSE AdvancesRead :
        LET difference == Difference(trip.claims[i], sum) IN
          /\ Book(difference)
          /\ Goes(c, [at |-> "settling", claim |-> i, difference |-> difference,
                      seen |-> <<trip.claims, trip.advances>>])
  BY DEF BookDifference
<1> DEFINE d == Difference(trip.claims[i], sum)
           e == [at |-> "settling", claim |-> i, difference |-> d,
                 seen |-> <<trip.claims, trip.advances>>]
<1>3. /\ trip.claims \in Seq(ClaimRow) /\ trip.advances \in Seq(AdvanceRow)
      /\ TripSound(trip) /\ trip.claims # <<>>
      /\ Len(trip.claims) <= 1 /\ Len(trip.advances) <= 1
  BY <1>1 DEF TravelInv, TravelShape, TripRows, TripSound
<1>4. i = 1 /\ trip.claims[1] \in ClaimRow
  BY <1>3
<1>5. trip.claims[1].status = "open"
  BY <1>1, <1>4 DEF Open, ClaimRow
<1>6. sum = AmountOf(trip.advances) /\ (sum = 0 \/ sum \in Sums)
  <2>1. CASE trip.advances = <<>>
    BY <1>2, <1>3, <1>4, <2>1 DEF TripSound, AmountOf
  <2>2. CASE trip.advances # <<>>
    <3>1. PICK j \in DOMAIN trip.advances : sum = trip.advances[j].amount
      BY <1>2, <2>2 DEF AdvancesRead
    <3>2. j = 1 /\ trip.advances[j] \in AdvanceRow
      BY <1>3
    <3>3. QED
      BY <2>2, <3>1, <3>2 DEF AmountOf, AdvanceRow
  <2>3. QED
    BY <2>1, <2>2
<1>7. d \in Int /\ d = trip.claims[1].spent - AmountOf(trip.advances)
  <2>1. trip.claims[1].spent \in Sums
    BY <1>4 DEF ClaimRow
  <2>2. trip.claims[1].spent \in Int /\ sum \in Int
    BY <1>6, <2>1, SumIsMoney
  <2>3. QED
    BY <1>4, <1>6, <2>2 DEF Difference
<1>8. Goes(c, e) /\ Book(d)
  BY <1>2
<1>9. ErrandRight(e)
  <2> HIDE DEF d
  <2>1. QED
    BY <1>4, <1>5, <1>7 DEF ErrandRight, Booked, Settling
<1>10. ClaimKnown(e, trip) /\ Backed(e, trip) /\ Carried(e) = d
  <2>1. d = trip.claims[1].spent - AmountOf(trip.advances)
    BY <1>7
  <2> HIDE DEF d
  <2>2. QED
    BY <1>3, <1>4, <2>1 DEF ClaimKnown, Backed, TripSound, Settling, Booked, Carried
<1>11. /\ booked' \in -MaxBooked..MaxBooked /\ slipped' \in BOOLEAN /\ booked \in Int
       /\ booked' = booked + d
  BY <1>1, <1>8 DEF TravelInv, TravelShape, Book
<1> HIDE DEF d, e
<1>12. booked' = booked + (Carried(e) - Carried(errand[c]))
  BY <1>1, <1>7, <1>10, <1>11, NoErrandRight
<1>13. QED
  BY <1>1, <1>8, <1>9, <1>10, <1>11, <1>12, ErrandKeeps

LEMMA KeepsRecheckClaim ==
  ASSUME TravelInv, NEW c \in TravelCalls, RecheckClaim(c)
  PROVE  TravelInv'
<1> DEFINE x == errand[c]
           e == [x EXCEPT !.at = "reconciling"]
<1>1. x.at = "settling" /\ trip' = trip /\ booked' = booked
  BY DEF RecheckClaim
<1>2. /\ x = [at |-> "settling", claim |-> x.claim, difference |-> x.difference, seen |-> x.seen]
      /\ x.difference \in Int /\ x.claim \in Nat /\ x.seen[1][x.claim].status = "open"
      /\ ErrandRight(x) /\ ClaimKnown(x, trip) /\ (~slipped => Backed(x, trip))
  BY <1>1 DEF TravelInv, TravelShape, ErrandRight, Settling
<1>3. booked' \in -MaxBooked..MaxBooked /\ booked \in Int /\ slipped \in BOOLEAN
  BY <1>1 DEF TravelInv, TravelShape
<1>4. Carried(x) = x.difference
  BY <1>1 DEF Carried, Booked, Settling
<1>5. CASE Goes(c, e) /\ slipped' = slipped
  <2>1. e = [at |-> "reconciling", claim |-> x.claim, difference |-> x.difference, seen |-> x.seen]
    BY <1>2
  <2>2. ErrandRight(e)
    BY <1>2, <2>1 DEF ErrandRight, Booked, Settling
  <2>3. ClaimKnown(e, trip) /\ Carried(e) = x.difference /\ (~slipped => Backed(e, trip))
    BY <1>1, <1>2, <2>1 DEF ClaimKnown, Backed, Settling, Booked, Carried
  <2> HIDE DEF e
  <2>4. booked' = booked + (Carried(e) - Carried(errand[c]))
    BY <1>1, <1>2, <1>3, <1>4, <2>3
  <2>5. QED
    BY <1>1, <1>3, <1>5, <2>2, <2>3, <2>4, ErrandKeeps
<1>6. CASE EndErrand(c) /\ slipped' = (slipped \/ errand[c].difference # 0)
  <2>1. slipped' \in BOOLEAN /\ (~slipped' => ~slipped /\ Carried(errand[c]) = 0)
    BY <1>3, <1>4, <1>6
  <2>2. QED
    BY <1>1, <1>3, <1>6, <2>1, EndKeeps
<1>7. QED
  BY <1>5, <1>6 DEF RecheckClaim

(* A verdict is written by a request that saw the trip before it was approved. *)
LEMMA KeepsWriteVerdict ==
  ASSUME TravelInv, NEW c \in TravelCalls, WriteVerdict(c)
  PROVE  TravelInv'
<1> DEFINE x == errand[c]
<1>1. x.at = "verdict" /\ EndErrand(c) /\ booked' = booked
  BY DEF WriteVerdict
<1>2. /\ x.verdict \in Verdicts /\ x.seen \in {"requested", "denied"}
      /\ x.seen = "denied" => x.verdict = "gone"
  BY <1>1 DEF TravelInv, TravelShape, ErrandRight
<1>3. /\ trip \in TripRows /\ booked \in -MaxBooked..MaxBooked /\ booked \in Int
      /\ slipped \in BOOLEAN
  BY DEF TravelInv, TravelShape
<1>4. Carried(x) = 0
  BY <1>1 DEF Carried, Booked, Settling
<1> DEFINE none == [status |-> "gone", advances |-> <<>>, claims |-> <<>>]
           decided == [trip EXCEPT !.status = x.verdict]
<1>5. CASE trip.status = "gone"
  <2>1. trip' = trip /\ slipped' = slipped
    BY <1>5 DEF WriteVerdict
  <2>2. booked' = booked - Carried(errand[c])
    BY <1>1, <1>3, <1>4
  <2>3. QED
    BY <1>1, <1>3, <2>1, <2>2, EndKeeps
<1>6. CASE trip.status # "gone"
  <2>1. /\ trip' = IF x.verdict = "gone" THEN none ELSE decided
        /\ slipped' = (slipped \/ trip.status # x.seen)
    BY <1>6 DEF WriteVerdict, WrittenAfter
  <2>2. none \in TripRows
    BY DEF TripRows, TripStatuses
  <2>3. /\ decided \in TripRows /\ decided.status = x.verdict
        /\ decided.advances = trip.advances /\ decided.claims = trip.claims
    BY <1>2, <1>3 DEF TripRows, TripStatuses, Verdicts
  <2>4. trip' \in TripRows /\ slipped' \in BOOLEAN
    BY <1>3, <2>1, <2>2, <2>3
  <2>5. trip'.status = "gone" \/ (trip.status # "gone" /\ DOMAIN trip.claims \subseteq DOMAIN trip'.claims)
    BY <1>6, <2>1, <2>3
  <2>6. ASSUME ~slipped'
        PROVE  /\ ~slipped /\ trip.status # "approved"
               /\ trip.advances = <<>> /\ trip.claims = <<>>
               /\ trip'.advances = <<>> /\ trip'.claims = <<>>
    <3>1. ~slipped /\ trip.status = x.seen
      BY <1>3, <2>1, <2>6
    <3>2. trip.advances = <<>> /\ trip.claims = <<>>
      BY <1>2, <3>1 DEF TravelInv, TripSound
    <3>3. QED
      BY <1>2, <2>1, <2>3, <3>1, <3>2
  <2>7. ASSUME ~slipped'
        PROVE  TripSound(trip') /\ RowsHold(trip') = RowsHold(trip) + Carried(errand[c])
    <3>1. RowsHold(trip) = 0 /\ RowsHold(trip') = 0
      BY <2>6, <2>7 DEF RowsHold, Settled, LateAdvance, AmountOf
    <3>2. TripSound(trip')
      BY <2>6, <2>7 DEF TripSound
    <3>3. QED
      BY <1>4, <3>1, <3>2
  <2> HIDE DEF none, decided, x
  <2>8. QED
    BY <1>1, <2>4, <2>5, <2>6, <2>7, WriteKeeps
<1>7. QED
  BY <1>5, <1>6

LEMMA KeepsIssueAdvance ==
  ASSUME TravelInv, NEW c \in TravelCalls, IssueAdvance(c)
  PROVE  TravelInv'
<1> DEFINE x == errand[c]
           s == x.sum
<1>1. x.at = "issuing" /\ booked' = booked
  BY DEF IssueAdvance
<1>2. /\ x = [at |-> "issuing", sum |-> s, seen |-> <<>>] /\ s \in Sums
      /\ ~slipped => trip.status = "approved"
  BY <1>1 DEF TravelInv, TravelShape, ErrandRight, Booked, Backed
<1>3. /\ trip \in TripRows /\ booked \in -MaxBooked..MaxBooked /\ booked \in Int
      /\ slipped \in BOOLEAN
  BY DEF TravelInv, TravelShape
<1>4. Carried(x) = s /\ s \in Int /\ x.seen = <<>>
  BY <1>1, <1>2, SumIsMoney DEF Carried, Booked
<1>5. CASE trip.status = "gone"
  <2> DEFINE e == [x EXCEPT !.at = "undoing"]
  <2>1. trip' = trip /\ slipped' = slipped /\ Goes(c, e) /\ slipped
    BY <1>2, <1>3, <1>5 DEF IssueAdvance
  <2>2. e = [at |-> "undoing", sum |-> s, seen |-> <<>>]
    BY <1>2
  <2>3. ErrandRight(e) /\ ClaimKnown(e, trip)
    BY <1>2, <2>2 DEF ErrandRight, ClaimKnown, Booked, Settling
  <2> HIDE DEF e
  <2>4. QED
    BY <1>1, <1>3, <2>1, <2>3, ErrandKeeps
<1>6. CASE trip.status # "gone"
  <2> DEFINE isLate == \E i \in DOMAIN trip.claims : trip.claims[i].status = "reconciled"
             row == [amount |-> s, late |-> isLate]
  <2>1. /\ trip' = [trip EXCEPT !.advances = Append(@, row)]
        /\ slipped' = (slipped \/ trip.advances # x.seen) /\ EndErrand(c)
    BY <1>6 DEF IssueAdvance, WrittenAfter
  <2>2. /\ row \in AdvanceRow /\ row.amount = s /\ row.late = isLate
    BY <1>2 DEF AdvanceRow
  <2> HIDE DEF row
  <2>3. /\ trip.advances \in Seq(AdvanceRow) /\ trip.claims \in Seq(ClaimRow)
        /\ trip.status \in TripStatuses
        /\ trip'.status = trip.status /\ trip'.claims = trip.claims
        /\ trip'.advances = Append(trip.advances, row)
    BY <1>3, <2>1 DEF TripRows
  <2>4. trip' \in TripRows /\ slipped' \in BOOLEAN
    <3>1. Append(trip.advances, row) \in Seq(AdvanceRow)
      BY <2>2, <2>3
    <3>2. [trip EXCEPT !.advances = Append(@, row)] \in TripRows
      BY <1>3, <3>1 DEF TripRows
    <3>3. QED
      BY <1>3, <2>1, <3>2
  <2>5. ASSUME ~slipped'
        PROVE  /\ ~slipped /\ trip.advances = <<>> /\ TripSound(trip)
               /\ trip'.advances = <<row>>
               /\ isLate <=> Settled(trip)
    <3>1. ~slipped /\ trip.advances = <<>> /\ TripSound(trip)
      BY <1>3, <1>4, <2>1, <2>5 DEF TravelInv
    <3>2. isLate <=> Settled(trip)
      BY <2>3, <3>1 DEF TripSound, Settled
    <3>3. QED
      BY <2>3, <3>1, <3>2
  <2>6. ASSUME ~slipped'
        PROVE  TripSound(trip') /\ RowsHold(trip') = RowsHold(trip) + Carried(errand[c])
    <3>1. /\ trip'.advances # <<>> /\ trip'.advances[1] = row /\ Len(trip'.advances) = 1
          /\ Settled(trip') <=> Settled(trip)
      BY <2>3, <2>5, <2>6 DEF Settled
    <3>2. trip.claims # <<>> => trip.claims[1].advance = 0
      BY <2>5, <2>6 DEF TripSound
    <3>3. TripSound(trip')
      <4>1. trip'.status = "approved"
        BY <1>2, <2>3, <2>5, <2>6
      <4>2. row.late => Settled(trip')
        BY <2>2, <2>5, <2>6, <3>1
      <4>3. Len(trip'.claims) <= 1
        BY <2>3, <2>5, <2>6 DEF TripSound
      <4>4. QED
        BY <2>3, <3>1, <3>2, <4>1, <4>2, <4>3 DEF TripSound
    <3>4. CASE Settled(trip)
      <4>1. isLate
        BY <2>5, <2>6, <3>4
      <4> HIDE DEF isLate
      <4>2. LateAdvance(trip) = 0 /\ LateAdvance(trip') = s
        BY <2>2, <2>5, <2>6, <3>1, <4>1 DEF LateAdvance, AmountOf
      <4>3. trip.claims[1].spent \in Int
        BY <1>3, <3>4, RowsHoldMoney DEF Settled
      <4>4. QED
        <5> DEFINE cost == trip.claims[1].spent
        <5>1. RowsHold(trip) = cost + LateAdvance(trip)
          BY <3>4 DEF RowsHold
        <5>2. RowsHold(trip') = cost + LateAdvance(trip')
          BY <2>3, <3>1, <3>4 DEF RowsHold
        <5>3. cost \in Int
          BY <4>3
        <5> HIDE DEF x, s, cost
        <5>4. RowsHold(trip) = cost /\ RowsHold(trip') = cost + s
          BY <1>4, <4>2, <5>1, <5>2, <5>3
        <5>5. RowsHold(trip') = RowsHold(trip) + s
          BY <5>4
        <5>6. QED
          BY <1>4, <3>3, <5>5 DEF x
    <3>5. CASE ~Settled(trip)
      <4>1. AmountOf(trip.advances) = 0 /\ AmountOf(trip'.advances) = s
        BY <2>2, <2>5, <2>6, <3>1 DEF LateAdvance, AmountOf
      <4>2. QED
        <5>1. RowsHold(trip) = 0 /\ RowsHold(trip') = s
          BY <3>1, <3>5, <4>1 DEF RowsHold
        <5>2. QED
          BY <1>4, <3>3, <5>1
    <3>6. QED
      BY <3>4, <3>5
  <2> HIDE DEF isLate, x, s
  <2>7. QED
    BY <1>1, <1>6, <2>1, <2>3, <2>4, <2>5, <2>6, WriteKeeps
<1>7. QED
  BY <1>5, <1>6

LEMMA KeepsCreateClaim ==
  ASSUME TravelInv, NEW c \in TravelCalls, CreateClaim(c)
  PROVE  TravelInv'
<1> DEFINE x == errand[c]
           row == [status |-> "open", spent |-> x.spent, advance |-> x.sum, difference |-> 0]
<1>1. x.at = "claiming" /\ EndErrand(c) /\ booked' = booked
  BY DEF CreateClaim
<1>2. /\ x.seen = <<>> /\ x.spent \in Sums /\ x.sum \in Sums \cup {0}
      /\ ~slipped => Backed(x, trip)
  BY <1>1 DEF TravelInv, TravelShape, ErrandRight
<1>3. /\ trip \in TripRows /\ booked \in -MaxBooked..MaxBooked /\ booked \in Int
      /\ slipped \in BOOLEAN
  BY DEF TravelInv, TravelShape
<1>4. Carried(x) = 0
  BY <1>1 DEF Carried, Booked, Settling
<1>5. CASE trip.status = "gone"
  <2>1. trip' = trip /\ slipped' = slipped
    BY <1>5 DEF CreateClaim
  <2>2. booked' = booked - Carried(errand[c])
    BY <1>1, <1>3, <1>4
  <2>3. QED
    BY <1>1, <1>3, <2>1, <2>2, EndKeeps
<1>6. CASE trip.status # "gone"
  <2>1. /\ trip' = [trip EXCEPT !.claims = Append(@, row)]
        /\ slipped' = (slipped \/ trip.claims # x.seen)
    BY <1>6 DEF CreateClaim, WrittenAfter
  <2>2. /\ row \in ClaimRow /\ row.status = "open" /\ row.advance = x.sum
    BY <1>2 DEF ClaimRow
  <2> HIDE DEF row
  <2>3. /\ trip.advances \in Seq(AdvanceRow) /\ trip.claims \in Seq(ClaimRow)
        /\ trip.status \in TripStatuses
        /\ trip'.status = trip.status /\ trip'.advances = trip.advances
        /\ trip'.claims = Append(trip.claims, row)
    BY <1>3, <2>1 DEF TripRows
  <2>4. trip' \in TripRows /\ slipped' \in BOOLEAN
    <3>1. Append(trip.claims, row) \in Seq(ClaimRow)
      BY <2>2, <2>3
    <3>2. [trip EXCEPT !.claims = Append(@, row)] \in TripRows
      BY <1>3, <3>1 DEF TripRows
    <3>3. QED
      BY <1>3, <2>1, <3>2
  <2>5. DOMAIN trip.claims \subseteq DOMAIN trip'.claims
    BY <2>2, <2>3
  <2>6. ASSUME ~slipped'
        PROVE  /\ ~slipped /\ trip.claims = <<>> /\ TripSound(trip) /\ Backed(x, trip)
               /\ trip'.claims # <<>> /\ trip'.claims[1] = row /\ Len(trip'.claims) = 1
    <3>1. ~slipped /\ trip.claims = <<>> /\ TripSound(trip)
      BY <1>2, <1>3, <2>1, <2>6 DEF TravelInv
    <3>2. trip'.claims = <<row>>
      BY <2>3, <3>1
    <3>3. QED
      BY <1>2, <3>1, <3>2
  <2>7. ASSUME ~slipped'
        PROVE  TripSound(trip') /\ RowsHold(trip') = RowsHold(trip) + Carried(errand[c])
    <3>1. ~Settled(trip') /\ ~Settled(trip)
      BY <2>2, <2>6, <2>7 DEF Settled
    <3>2. x.sum # 0 => trip.advances # <<>> /\ trip.advances[1].amount = x.sum
      BY <1>1, <2>6, <2>7 DEF Backed
    <3>3. trip.status = "approved"
      BY <1>1, <2>6, <2>7 DEF Backed
    <3>4. TripSound(trip')
      BY <2>2, <2>3, <2>6, <2>7, <3>1, <3>2, <3>3 DEF TripSound
    <3>5. RowsHold(trip') = RowsHold(trip) /\ RowsHold(trip) \in Int
      BY <1>3, <2>3, <3>1, RowsHoldMoney DEF RowsHold, LateAdvance, AmountOf
    <3>6. QED
      BY <1>4, <3>4, <3>5
  <2> HIDE DEF x
  <2>8. QED
    BY <1>1, <1>6, <2>3, <2>4, <2>5, <2>6, <2>7, WriteKeeps
<1>7. QED
  BY <1>5, <1>6

(* What a write to a claim leaves of the rows *)
LEMMA ClaimWritten ==
  ASSUME NEW t \in TripRows, NEW i \in DOMAIN t.claims, NEW row \in ClaimRow, NEW u,
         u = [t EXCEPT !.claims = [@ EXCEPT ![i] = row]]
  PROVE  /\ u \in TripRows
         /\ u.status = t.status /\ u.advances = t.advances
         /\ u.claims \in Seq(ClaimRow) /\ DOMAIN u.claims = DOMAIN t.claims
         /\ Len(u.claims) = Len(t.claims) /\ u.claims[i] = row /\ i \in Nat
<1>1. t.claims \in Seq(ClaimRow) /\ i \in 1..Len(t.claims)
  BY DEF TripRows
<1> DEFINE s == [t.claims EXCEPT ![i] = row]
<1>2. /\ s \in Seq(ClaimRow) /\ DOMAIN s = DOMAIN t.claims
      /\ Len(s) = Len(t.claims) /\ s[i] = row
  BY <1>1
<1>3. u = [t EXCEPT !.claims = s]
  OBVIOUS
<1> HIDE DEF s
<1>4. u \in TripRows /\ u.status = t.status /\ u.advances = t.advances /\ u.claims = s
  BY <1>2, <1>3 DEF TripRows
<1>5. QED
  BY <1>1, <1>2, <1>4

LEMMA KeepsEditClaim ==
  ASSUME TravelInv, NEW c \in TravelCalls, EditClaim(c)
  PROVE  TravelInv'
<1> DEFINE x == errand[c]
           i == x.claim
           row == Edited(trip.claims[i], x.spent, x.reopens)
<1>1. x.at = "editing" /\ EndErrand(c) /\ booked' = booked
  BY DEF EditClaim
<1>2. /\ x.spent \in Sums \cup {0} /\ i \in Nat /\ x.seen[i].status = "open"
      /\ ClaimKnown(x, trip) /\ (~slipped => Backed(x, trip))
  BY <1>1 DEF TravelInv, TravelShape, ErrandRight
<1>3. /\ trip \in TripRows /\ booked \in -MaxBooked..MaxBooked /\ booked \in Int
      /\ slipped \in BOOLEAN
  BY DEF TravelInv, TravelShape
<1>4. Carried(x) = 0
  BY <1>1 DEF Carried, Booked, Settling
<1>5. CASE trip.status = "gone"
  <2>1. trip' = trip /\ slipped' = slipped
    BY <1>5 DEF EditClaim
  <2>2. booked' = booked - Carried(errand[c])
    BY <1>1, <1>3, <1>4
  <2>3. QED
    BY <1>1, <1>3, <2>1, <2>2, EndKeeps
<1>6. CASE trip.status # "gone"
  <2>1. i \in DOMAIN trip.claims /\ trip.claims \in Seq(ClaimRow) /\ trip.claims[i] \in ClaimRow
    <3>1. i \in DOMAIN trip.claims /\ trip.claims \in Seq(ClaimRow)
      BY <1>1, <1>2, <1>3, <1>6 DEF ClaimKnown, TripRows
    <3>2. QED
      BY <3>1
  <2>2. /\ row \in ClaimRow
        /\ trip.claims[i].status = "open" => row.status = "open"
        /\ row.advance = trip.claims[i].advance
    BY <1>2, <2>1 DEF ClaimRow, Edited
  <2>3. /\ trip' = [trip EXCEPT !.claims = [@ EXCEPT ![i] = row]]
        /\ slipped' = (slipped \/ trip.claims # x.seen)
    BY <1>6 DEF EditClaim, WrittenAfter
  <2> HIDE DEF row, i, x
  <2>4. /\ trip' \in TripRows
        /\ trip'.status = trip.status /\ trip'.advances = trip.advances
        /\ trip'.claims \in Seq(ClaimRow) /\ DOMAIN trip'.claims = DOMAIN trip.claims
        /\ Len(trip'.claims) = Len(trip.claims) /\ trip'.claims[i] = row
    BY <1>3, <2>1, <2>2, <2>3, ClaimWritten
  <2>5. slipped' \in BOOLEAN
    BY <1>3, <2>3
  <2>6. ASSUME ~slipped'
        PROVE  /\ ~slipped /\ TripSound(trip) /\ i = 1
               /\ trip.claims # <<>> /\ trip'.claims # <<>>
               /\ trip.claims[1].status = "open" /\ trip'.claims[1].status = "open"
               /\ trip'.claims[1].advance = trip.claims[1].advance
    <3>1. ~slipped /\ trip.claims = x.seen /\ TripSound(trip)
      BY <1>3, <2>3, <2>6 DEF TravelInv
    <3>2. i = 1 /\ trip.claims # <<>> /\ trip'.claims # <<>>
      BY <2>1, <2>4, <3>1 DEF TripSound
    <3>3. QED
      BY <1>2, <2>2, <2>4, <3>1, <3>2 DEF i
  <2>7. ASSUME ~slipped'
        PROVE  TripSound(trip') /\ RowsHold(trip') = RowsHold(trip) + Carried(errand[c])
    <3>1. ~Settled(trip') /\ ~Settled(trip)
      BY <2>6, <2>7 DEF Settled
    <3>2. TripSound(trip')
      BY <2>4, <2>6, <2>7, <3>1 DEF TripSound
    <3>3. RowsHold(trip') = RowsHold(trip) /\ RowsHold(trip) \in Int
      BY <1>3, <2>4, <3>1, RowsHoldMoney DEF RowsHold, LateAdvance, AmountOf
    <3>4. QED
      BY <1>4, <3>2, <3>3 DEF x
  <2>8. QED
    BY <1>1, <1>6, <2>4, <2>5, <2>6, <2>7, WriteKeeps
<1>7. QED
  BY <1>5, <1>6

(* The difference is what is missing from the advance to what was spent. *)
LEMMA KeepsReconcileClaim ==
  ASSUME TravelInv, NEW c \in TravelCalls, ReconcileClaim(c)
  PROVE  TravelInv'
<1> DEFINE x == errand[c]
           i == x.claim
           row == Reconciled(trip.claims[i], x.difference)
<1>1. x.at = "reconciling" /\ EndErrand(c) /\ booked' = booked
  BY DEF ReconcileClaim
<1>2. /\ x.difference \in Int /\ i \in Nat /\ x.seen[1][i].status = "open"
      /\ ClaimKnown(x, trip)
      /\ ~slipped => i = 1 /\ x.difference = x.seen[1][1].spent - AmountOf(x.seen[2])
  BY <1>1 DEF TravelInv, TravelShape, ErrandRight, Backed, Settling
<1>3. /\ trip \in TripRows /\ booked \in -MaxBooked..MaxBooked /\ booked \in Int
      /\ slipped \in BOOLEAN
  BY DEF TravelInv, TravelShape
<1>4. Carried(x) = x.difference
  BY <1>1 DEF Carried, Booked, Settling
<1>5. CASE trip.status = "gone"
  <2>1. trip' = trip /\ slipped' = (slipped \/ x.difference # 0)
    BY <1>5 DEF ReconcileClaim
  <2>2. slipped' \in BOOLEAN /\ (~slipped' => ~slipped /\ Carried(errand[c]) = 0)
    BY <1>3, <1>4, <2>1
  <2>3. ~slipped' => ~slipped /\ booked' = booked - Carried(errand[c])
    BY <1>1, <1>3, <2>2
  <2>4. QED
    BY <1>1, <1>3, <2>1, <2>2, <2>3, EndKeeps
<1>6. CASE trip.status # "gone"
  <2>1. i \in DOMAIN trip.claims /\ trip.claims \in Seq(ClaimRow) /\ trip.claims[i] \in ClaimRow
    <3>1. i \in DOMAIN trip.claims /\ trip.claims \in Seq(ClaimRow)
      BY <1>1, <1>2, <1>3, <1>6 DEF ClaimKnown, TripRows, Settling
    <3>2. QED
      BY <3>1
  <2>2. /\ row \in ClaimRow /\ row.status = "reconciled"
        /\ row.advance = trip.claims[i].advance /\ row.spent = trip.claims[i].spent
    BY <1>2, <2>1 DEF ClaimRow, Reconciled
  <2>3. /\ trip' = [trip EXCEPT !.claims = [@ EXCEPT ![i] = row]]
        /\ slipped' = (slipped \/ <<trip.claims, trip.advances>> # x.seen)
    BY <1>6 DEF ReconcileClaim, WrittenAfter
  <2> HIDE DEF row, i, x
  <2>4. /\ trip' \in TripRows
        /\ trip'.status = trip.status /\ trip'.advances = trip.advances
        /\ trip'.claims \in Seq(ClaimRow) /\ DOMAIN trip'.claims = DOMAIN trip.claims
        /\ Len(trip'.claims) = Len(trip.claims) /\ trip'.claims[i] = row
    BY <1>3, <2>1, <2>2, <2>3, ClaimWritten
  <2>5. slipped' \in BOOLEAN
    BY <1>3, <2>3
  <2>6. ASSUME ~slipped'
        PROVE  /\ ~slipped /\ TripSound(trip) /\ i = 1
               /\ trip.claims # <<>> /\ trip'.claims # <<>>
               /\ trip.claims[1].status = "open" /\ trip'.claims[1].status = "reconciled"
               /\ trip'.claims[1].advance = trip.claims[1].advance
               /\ trip'.claims[1].spent = trip.claims[1].spent
               /\ x.difference = trip.claims[1].spent - AmountOf(trip.advances)
    <3>1. ~slipped /\ <<trip.claims, trip.advances>> = x.seen /\ TripSound(trip)
      BY <1>3, <2>3, <2>6 DEF TravelInv
    <3>2. x.seen[1] = trip.claims /\ x.seen[2] = trip.advances
      BY <3>1
    <3>3. i = 1 /\ trip.claims # <<>> /\ trip'.claims # <<>>
      BY <1>2, <2>1, <2>4, <3>1
    <3>4. QED
      BY <1>2, <2>2, <2>4, <3>1, <3>2, <3>3
  <2>7. ASSUME ~slipped'
        PROVE  TripSound(trip') /\ RowsHold(trip') = RowsHold(trip) + Carried(errand[c])
    <3>1. Settled(trip') /\ ~Settled(trip)
      BY <2>6, <2>7 DEF Settled
    <3>2. TripSound(trip')
      BY <2>4, <2>6, <2>7, <3>1 DEF TripSound
    <3>3. trip.advances # <<>> => ~trip.advances[1].late
      BY <2>6, <2>7, <3>1 DEF TripSound
    <3> DEFINE a == AmountOf(trip.advances)
               b == trip.claims[1].spent
    <3>4. RowsHold(trip) = a
      BY <3>1 DEF RowsHold, LateAdvance, AmountOf
    <3>5. RowsHold(trip') = b + LateAdvance(trip')
      BY <2>6, <2>7, <3>1 DEF RowsHold
    <3>6. LateAdvance(trip') = 0
      BY <2>4, <3>3 DEF LateAdvance, AmountOf
    <3>7. a \in Int /\ b \in Int
      BY <1>3, <2>6, <2>7, <3>4, RowsHoldMoney
    <3>8. x.difference = b - a
      BY <2>6, <2>7
    <3> HIDE DEF a, b
    <3>9. RowsHold(trip') = RowsHold(trip) + x.difference
      BY <3>4, <3>5, <3>6, <3>7, <3>8
    <3>10. QED
      BY <1>4, <3>2, <3>9 DEF x
  <2>8. QED
    BY <1>1, <1>6, <2>4, <2>5, <2>6, <2>7, WriteKeeps
<1>7. QED
  BY <1>5, <1>6

LEMMA TravelInvStays == TravelInv /\ UNCHANGED travelVars => TravelInv'
BY DEF TravelInv, TravelShape, TripSound, Settled, Backed, AmountOf, RowsHold, LateAdvance,
       ErrandRight, ClaimKnown, AllCarried, Carried, NoErrand, travelVars

LEMMA TravelInvStep == TravelInv /\ [TravelNext]_travelVars => TravelInv'
<1> SUFFICES ASSUME TravelInv, TravelNext
             PROVE  TravelInv'
  BY TravelInvStays
<1>1. PICK c \in TravelCalls :
        \/ \E verdict \in Verdicts : ReadForVerdict(c, verdict)
        \/ WriteVerdict(c)
        \/ \E sum \in Sums : BookAdvance(c, sum) \/ ReadForClaim(c, sum)
        \/ RecheckAdvance(c) \/ IssueAdvance(c) \/ UndoAdvance(c)
        \/ CreateClaim(c)
        \/ \E i \in DOMAIN trip.claims :
             \/ \E spent \in Sums \cup {0}, reopens \in BOOLEAN : ReadForEdit(c, i, spent, reopens)
             \/ BookDifference(c, i)
        \/ EditClaim(c)
        \/ RecheckClaim(c) \/ ReconcileClaim(c)
        \/ DropErrand(c)
  BY DEF TravelNext
<1>2. CASE \E verdict \in Verdicts : ReadForVerdict(c, verdict)
  BY <1>2, KeepsReadForVerdict
<1>3. CASE \E sum \in Sums : BookAdvance(c, sum) \/ ReadForClaim(c, sum)
  BY <1>3, KeepsBookAdvance, KeepsReadForClaim
<1>4. CASE RecheckAdvance(c) \/ IssueAdvance(c) \/ UndoAdvance(c)
  BY <1>4, KeepsRecheckAdvance, KeepsIssueAdvance, KeepsUndoAdvance
<1>5. CASE \E i \in DOMAIN trip.claims :
             \/ \E spent \in Sums \cup {0}, reopens \in BOOLEAN : ReadForEdit(c, i, spent, reopens)
             \/ BookDifference(c, i)
  BY <1>5, KeepsReadForEdit, KeepsBookDifference
<1>6. CASE WriteVerdict(c) \/ CreateClaim(c) \/ EditClaim(c)
  BY <1>6, KeepsWriteVerdict, KeepsCreateClaim, KeepsEditClaim
<1>7. CASE RecheckClaim(c) \/ ReconcileClaim(c) \/ DropErrand(c)
  BY <1>7, KeepsRecheckClaim, KeepsReconcileClaim, KeepsDropErrand
<1>8. QED
  BY <1>1, <1>2, <1>3, <1>4, <1>5, <1>6, <1>7

LEMMA TravelInvHolds == TravelSpec => []TravelInv
<1>1. QED
  BY TravelInvInit, TravelInvStep, PTL DEF TravelSpec

LEMMA NothingInHand == TravelInv /\ (\A c \in TravelCalls : Idle(c)) => AllCarried(errand) = 0
BY NothingCarried DEF Idle

(* With no request under way, the ledger holds the advance until the claim is *)
(* reconciled and what was spent from then on, unless a request slipped:      *)
(* whatever the number of requests and the amounts (reconcile/route.ts:47).   *)
THEOREM TripsAreSettled == TravelSpec => []TripIsSettled
<1>1. ASSUME TravelInv, ~slipped, \A c \in TravelCalls : Idle(c)
      PROVE  booked = RowsHold(trip) /\ TripSound(trip)
  <2>1. RowsHold(trip) \in Int /\ AllCarried(errand) = 0
    BY <1>1, NothingInHand, RowsHoldMoney DEF TravelInv, TravelShape
  <2>2. QED
    BY <1>1, <2>1 DEF TravelInv
<1>2. TravelInv => TripIsSettled
  <2> SUFFICES ASSUME TravelInv, ~slipped, \A c \in TravelCalls : Idle(c)
               PROVE  TripIsSettled
    BY DEF TripIsSettled
  <2>1. booked = RowsHold(trip) /\ TripSound(trip)
    BY <1>1
  <2>2. CASE trip.advances = <<>>
    BY <2>1, <2>2 DEF TripIsSettled, TripSound, RowsHold, Settled, Open, LateAdvance, AmountOf
  <2>3. CASE trip.advances # <<>> /\ trip.advances[1].late
    BY <2>1, <2>3 DEF TripIsSettled, TripSound, RowsHold, Settled, Open, LateAdvance, AmountOf
  <2>4. CASE trip.advances # <<>> /\ ~trip.advances[1].late
    BY <2>1, <2>4 DEF TripIsSettled, TripSound, RowsHold, Settled, Open, LateAdvance, AmountOf
  <2>5. QED
    BY <2>2, <2>3, <2>4
<1>3. QED
  BY <1>2, TravelInvHolds, PTL

LEMMA TravelTypes == TravelInv => TravelTypeOK
BY DEF TravelInv, TravelShape, TravelTypeOK, TripRows, TripStatuses, TripSound

-----------------------------------------------------------------------------
(* Alerts. *)

(* A run still has to decide about what is due, and its firings are the mails. *)
RunRight(run) ==
  /\ run = [at |-> "running", now |-> run.now, due |-> run.due, fired |-> run.fired,
            todo |-> run.todo]
  /\ run.now \in 0..clock /\ run.due \subseteq run.todo /\ run.todo \subseteq Buckets
  /\ \A f \in run.fired : /\ f.bucket \in Buckets /\ f.bucket \notin run.todo
                          /\ f.time = mailedAt[f.bucket] /\ f.time \in 0..clock
  /\ \A b \in run.due : (mapped => b # Host) /\ CoolAt(firings[b], run.now)
  /\ ~mapped => run.todo \subseteq {Host} /\ \A f \in run.fired : f.bucket = Host

FiredBy(r, b) == cron[r] # NoCron /\ \E f \in cron[r].fired : f.bucket = b

(* But for what a run has not committed, the last firing is the last mail. *)
LastIsKnown(b) ==
  (\A r \in Crons : ~FiredBy(r, b)) =>
    \/ mailedAt[b] = -Cooldown /\ firings[b] = {}
    \/ firings[b] = {mailedAt[b]}

AlertSound ==
  /\ \A r \in Crons : cron[r] # NoCron => RunRight(cron[r])
  /\ \A r, s \in Crons : cron[r] # NoCron /\ cron[s] # NoCron => r = s
  /\ \A b \in Buckets : LastIsKnown(b)
  /\ ~mapped => \A b \in Chapters : firings[b] = {}
  /\ ~early /\ ~missed

AlertInv ==
  /\ AlertTypeOK /\ DOMAIN cron = Crons
  /\ ~spoiled => AlertSound

LEMMA HasMaximum ==
  ASSUME NEW A, IsFiniteSet(A), A \subseteq Nat, A # {}
  PROVE  \E m \in A : \A k \in A : k <= m
<1> DEFINE Above(m) == {j \in A : m < j}
           F == {Above(m) : m \in A}
<1>2. F \in SUBSET SUBSET A /\ F # {}
  OBVIOUS
<1>3. PICK s \in F : \A u \in F : u \subseteq s => u = s
  <2>1. F \in SUBSET SUBSET A
    BY <1>2
  <2>2. F # {}
    BY <1>2
  <2> HIDE DEF F
  <2>3. QED
    BY ONLY IsFiniteSet(A), <2>1, <2>2, SmallestSubset
<1>4. PICK m \in A : s = Above(m)
  BY <1>3
<1>5. ASSUME NEW k \in A, ~(k <= m)
      PROVE  FALSE
  <2>1. m < k /\ k \in Nat /\ m \in Nat
    BY <1>5
  <2>2. k \in Above(m) /\ k \notin Above(k)
    BY <2>1
  <2>3. ASSUME NEW j \in Above(k)
        PROVE  j \in Above(m)
    BY <2>1, <2>3
  <2>4. Above(k) \subseteq Above(m)
    BY <2>3
  <2>5. Above(k) \in F
    OBVIOUS
  <2> HIDE DEF Above, F
  <2>6. QED
    BY <1>3, <1>4, <2>2, <2>4, <2>5
<1>6. QED
  BY <1>5

LEMMA MatchingIsFinite ==
  ASSUME AlertTypeOK
  PROVE  /\ Matching \subseteq 1..Len(events) /\ IsFiniteSet(Matching) /\ Len(events) \in Nat
         /\ \A n \in Matching : events[n].union \in Buckets
<1>1. events \in Seq([issue : Issues, union : Buckets, at : 0..MaxClock])
  BY DEF AlertTypeOK
<1>2. Matching \subseteq 1..Len(events) /\ Len(events) \in Nat
  BY <1>1 DEF Matching
<1>3. IsFiniteSet(1..Len(events))
  BY <1>2, FS_Interval
<1>4. \A n \in 1..Len(events) : events[n] \in [issue : Issues, union : Buckets, at : 0..MaxClock]
  <2> DEFINE Rows == [issue : Issues, union : Buckets, at : 0..MaxClock]
  <2>1. events \in Seq(Rows)
    BY <1>1
  <2> HIDE DEF Rows
  <2>2. \A n \in 1..Len(events) : events[n] \in Rows
    BY <2>1
  <2>3. QED
    BY <2>2 DEF Rows
<1>5. \A n \in Matching : events[n].union \in Buckets
  BY <1>2, <1>4
<1>6. IsFiniteSet(Matching)
  BY <1>2, <1>3, FS_Subset
<1>7. QED
  BY <1>2, <1>5, <1>6

(* An issue of one union alone is counted for that union. *)
LEMMA OwnerIsTheirs ==
  ASSUME AlertTypeOK, NEW n \in Matching, NEW b,
         \A k \in Matching : events[k].issue = events[n].issue => events[k].union = b
  PROVE  OwnerOf(events[n].issue) = b
<1> DEFINE its == {k \in Matching : events[k].issue = events[n].issue}
           m == CHOOSE k \in its : \A j \in its : j <= k
<1>1. its # {} /\ its \subseteq Nat /\ IsFiniteSet(its)
  <2>1. its \in SUBSET Matching /\ IsFiniteSet(Matching) /\ its # {}
    BY MatchingIsFinite
  <2>2. its \subseteq Nat
    BY MatchingIsFinite
  <2> HIDE DEF its
  <2>3. QED
    BY <2>1, <2>2, FS_Subset
<1>2. \E k \in its : \A j \in its : j <= k
  <2> HIDE DEF its
  <2>1. QED
    BY <1>1, HasMaximum
<1>3. m \in its
  BY <1>2
<1>4. OwnerOf(events[n].issue) = events[m].union
  BY DEF OwnerOf
<1>5. events[m].union = b
  BY <1>3
<1>6. QED
  BY <1>4, <1>5

(* A run takes up whatever is due. *)
LEMMA DueIsTaken ==
  ASSUME AlertTypeOK
  PROVE  /\ Due \subseteq {b \in Addressed : CountFor(b) >= Threshold}
         /\ Addressed \subseteq Buckets
         /\ ~mapped => Addressed = {Host}
<1>1. ASSUME NEW b \in Due
      PROVE  CountFor(b) >= Threshold
  <2> DEFINE own == {n \in Matching : b = Host \/ \A k \in Matching :
                       events[k].issue = events[n].issue => events[k].union = b}
             counted == IF b = Host THEN Matching
                        ELSE {n \in Matching : OwnerOf(events[n].issue) = b}
  <2>1. Threshold <= Cardinality(own)
    BY DEF Due
  <2>2. own \subseteq counted
    <3>1. ASSUME b # Host, NEW n \in own
          PROVE  OwnerOf(events[n].issue) = b
      BY <3>1, OwnerIsTheirs
    <3>2. QED
      BY <3>1
  <2>3. counted \in SUBSET Matching
    OBVIOUS
  <2>4. CountFor(b) = Cardinality(counted)
    BY DEF CountFor
  <2> HIDE DEF own, counted
  <2>5. IsFiniteSet(counted)
    BY <2>3, MatchingIsFinite, FS_Subset
  <2>6. /\ Cardinality(own) <= Cardinality(counted) /\ Cardinality(counted) \in Nat
        /\ Cardinality(own) \in Nat
    BY <2>2, <2>5, FS_Subset, FS_CardinalityType
  <2>7. QED
    BY <2>1, <2>4, <2>6, AlertAssumption
<1>2. Due \subseteq Addressed
  BY DEF Due
<1>3. Addressed \subseteq Buckets
  BY MatchingIsFinite DEF Addressed, Buckets
<1>4. QED
  BY <1>1, <1>2, <1>3 DEF Addressed

LEMMA AlertInvInit == AlertInit => AlertInv
<1> SUFFICES ASSUME AlertInit
             PROVE  AlertInv
  OBVIOUS
<1>1. AlertTypeOK
  <2>1. mapped \in BOOLEAN /\ acked \subseteq Issues /\ {early, missed, spoiled} \subseteq BOOLEAN
    BY DEF AlertInit
  <2>2. clock \in 0..MaxClock /\ events \in Seq([issue : Issues, union : Buckets, at : 0..MaxClock])
    BY AlertAssumption DEF AlertInit
  <2>3. firings \in [Buckets -> {{}} \cup {{t} : t \in 0..MaxClock}]
    BY DEF AlertInit
  <2>4. mailedAt \in [Buckets -> -Cooldown..MaxClock]
    BY AlertAssumption DEF AlertInit
  <2>5. QED
    BY <2>1, <2>2, <2>3, <2>4 DEF AlertTypeOK
<1>2. AlertSound
  BY DEF AlertInit, AlertSound, LastIsKnown, Buckets
<1>3. QED
  BY <1>1, <1>2 DEF AlertInv, AlertInit

(* What happens around the cron leaves the runs alone. *)
LEMMA AroundKeeps ==
  ASSUME AlertInv, AlertTypeOK', clock' >= clock,
         UNCHANGED <<mapped, firings, cron, mailedAt, early, missed, spoiled>>
  PROVE  AlertInv'
<1>1. clock \in Nat /\ clock' \in Nat
  BY DEF AlertInv, AlertTypeOK
<1>2. ASSUME AlertSound
      PROVE  AlertSound'
  <2>1. ASSUME NEW r \in Crons, cron'[r] # NoCron
        PROVE  RunRight(cron[r])'
    BY <1>1, <1>2, <2>1 DEF AlertSound, RunRight, CoolAt, NoCron
  <2>2. QED
    BY <1>2, <2>1 DEF AlertSound, LastIsKnown, FiredBy, NoCron
<1>3. QED
  BY <1>2 DEF AlertInv, AlertSound

LEMMA AlertsAround ==
  ASSUME AlertInv,
         \/ \E issue \in Issues : ToggleAck(issue)
         \/ \E issue \in Issues, union \in Buckets : LogEvent(issue, union)
         \/ AlertTick
  PROVE  AlertInv'
<1> DEFINE Rows == [issue : Issues, union : Buckets, at : 0..MaxClock]
<1>1. /\ events \in Seq(Rows) /\ acked \subseteq Issues /\ clock \in 0..MaxClock /\ MaxClock \in Nat
  BY AlertAssumption DEF AlertInv, AlertTypeOK
<1>2. CASE \E issue \in Issues : ToggleAck(issue)
  <2>1. acked' \subseteq Issues /\ UNCHANGED <<events, clock>>
        /\ UNCHANGED <<mapped, firings, cron, mailedAt, early, missed, spoiled>>
    BY <1>1, <1>2 DEF ToggleAck
  <2>2. AlertTypeOK'
    BY <2>1 DEF AlertInv, AlertTypeOK
  <2>3. QED
    BY <1>1, <2>1, <2>2, AroundKeeps
<1>3. CASE \E issue \in Issues, union \in Buckets : LogEvent(issue, union)
  <2>1. PICK issue \in Issues, union \in Buckets : LogEvent(issue, union)
    BY <1>3
  <2>2. /\ events' = Append(events, [issue |-> issue, union |-> union, at |-> clock])
        /\ UNCHANGED <<acked, clock>>
        /\ UNCHANGED <<mapped, firings, cron, mailedAt, early, missed, spoiled>>
    BY <2>1 DEF LogEvent
  <2>3. [issue |-> issue, union |-> union, at |-> clock] \in Rows
    BY <1>1
  <2>4. events' \in Seq(Rows)
    <3> HIDE DEF Rows
    <3>1. QED
      BY <1>1, <2>2, <2>3
  <2>5. AlertTypeOK'
    BY <2>2, <2>4 DEF AlertInv, AlertTypeOK
  <2>6. QED
    BY <1>1, <2>2, <2>5, AroundKeeps
<1>4. CASE AlertTick
  <2>1. PICK old \in 0..Len(events) : events' = SubSeq(events, old + 1, Len(events))
    BY <1>4 DEF AlertTick
  <2>2. /\ clock < MaxClock /\ clock' = clock + 1 /\ UNCHANGED acked
        /\ UNCHANGED <<mapped, firings, cron, mailedAt, early, missed, spoiled>>
    BY <1>4 DEF AlertTick
  <2>3. events' \in Seq(Rows)
    <3> HIDE DEF Rows
    <3>1. QED
      BY <1>1, <2>1
  <2>4. clock' \in 0..MaxClock /\ clock' >= clock
    BY <1>1, <2>2
  <2>5. AlertTypeOK'
    BY <2>2, <2>3, <2>4 DEF AlertInv, AlertTypeOK
  <2>6. QED
    BY <2>2, <2>4, <2>5, AroundKeeps
<1>5. QED
  BY <1>2, <1>3, <1>4

LEMMA RunIsOther == NoCron.at = "idle"
BY DEF NoCron

LEMMA KeepsBeginRun ==
  ASSUME AlertInv, ~spoiled, NEW r \in Crons, BeginRun(r)
  PROVE  AlertInv'
<1> DEFINE todo == {b \in Addressed : CountFor(b) >= Threshold}
           run == [at |-> "running", now |-> clock, due |-> Due, fired |-> {}, todo |-> todo]
<1>1. /\ cron[r] = NoCron /\ cron' = [cron EXCEPT ![r] = run]
      /\ spoiled' = (spoiled \/ Running # {})
      /\ UNCHANGED <<mapped, clock, events, acked, firings, mailedAt, early, missed>>
  BY DEF BeginRun
<1>2. AlertTypeOK' /\ DOMAIN cron' = Crons
  BY <1>1 DEF AlertInv, AlertTypeOK
<1>3. ASSUME ~spoiled'
      PROVE  AlertSound'
  <2>1. \A s \in Crons : cron[s] = NoCron
    BY <1>1, <1>3 DEF Running
  <2>2. cron'[r] = run /\ \A s \in Crons : s # r => cron'[s] = NoCron
    BY <1>1, <2>1 DEF AlertInv
  <2>3. RunRight(cron[r])'
    <3>1. /\ Due \subseteq todo /\ todo \subseteq Buckets
          /\ ~mapped => todo \subseteq {Host}
      BY DueIsTaken DEF AlertInv
    <3>2. \A b \in Due : (mapped => b # Host) /\ CoolAt(firings[b], clock)
      BY DEF Due
    <3>3. clock \in 0..clock
      BY DEF AlertInv, AlertTypeOK
    <3> HIDE DEF todo
    <3>4. /\ run.now = clock /\ run.due = Due /\ run.todo = todo /\ run.fired = {}
          /\ run = [at |-> "running", now |-> run.now, due |-> run.due, fired |-> run.fired,
                    todo |-> run.todo]
      OBVIOUS
    <3> HIDE DEF run
    <3>5. QED
      BY <1>1, <2>2, <3>1, <3>2, <3>3, <3>4 DEF RunRight, CoolAt, Buckets
  <2>4. \A b \in Buckets : LastIsKnown(b)'
    BY <1>1, <2>1 DEF AlertInv, AlertSound, LastIsKnown, FiredBy
  <2>5. QED
    BY <1>1, <2>2, <2>3, <2>4 DEF AlertInv, AlertSound, NoCron
<1>4. QED
  BY <1>2, <1>3 DEF AlertInv, AlertSound

(* The one run, with one bucket less to take *)
LEMMA TheRun ==
  ASSUME AlertInv, ~spoiled, NEW r \in Crons, cron[r] # NoCron
  PROVE  /\ RunRight(cron[r]) /\ AlertSound
         /\ \A s \in Crons : s # r => cron[s] = NoCron
BY DEF AlertInv, AlertSound

LEMMA MayFireWhatIsDue ==
  ASSUME AlertInv, ~spoiled, NEW r \in Crons, NEW b \in Buckets, TakeBucket(r, b),
         b \in cron[r].due
  PROVE  MayFire(r, b)
<1>1. RunRight(cron[r]) /\ AlertSound /\ b \in cron[r].todo
  BY TheRun DEF TakeBucket
<1>2. (mapped => b # Host) /\ CoolAt(firings[b], cron[r].now)
  BY <1>1 DEF RunRight
<1>3. FiringsRead(b) = firings[b]
  <2>1. CASE b = Host /\ firings[b] = {}
    <3>1. \A k \in Buckets : firings[k] = {}
      BY <1>1, <1>2, <2>1 DEF AlertSound, Buckets
    <3>2. QED
      BY <2>1, <3>1 DEF FiringsRead
  <2>2. CASE ~(b = Host /\ firings[b] = {})
    BY <2>2 DEF FiringsRead
  <2>3. QED
    BY <2>1, <2>2
<1>4. OwnFirings(r, b) = {}
  BY <1>1, <1>2 DEF RunRight, OwnFirings
<1>5. QED
  BY <1>2, <1>3, <1>4 DEF MayFire, CoolAt

(* A run is known by its fields. *)
Run(now, due, fired, todo) ==
  [at |-> "running", now |-> now, due |-> due, fired |-> fired, todo |-> todo]

LEMMA RunWith ==
  ASSUME NEW now, NEW due, NEW fired, NEW todo, NEW x
  PROVE  /\ [Run(now, due, fired, todo) EXCEPT !.todo = x] = Run(now, due, fired, x)
         /\ [Run(now, due, fired, todo) EXCEPT !.due = x] = Run(now, x, fired, todo)
         /\ [Run(now, due, fired, todo) EXCEPT !.fired = x] = Run(now, due, x, todo)
         /\ Run(now, due, fired, todo).now = now /\ Run(now, due, fired, todo).due = due
         /\ Run(now, due, fired, todo).fired = fired /\ Run(now, due, fired, todo).todo = todo
BY DEF Run

(* What may be mailed is out of the cooldown of the last mail answered for. *)
LEMMA MayFireIsLate ==
  ASSUME AlertInv, ~spoiled, NEW r \in Crons, NEW b \in Buckets,
         TakeBucket(r, b), MayFire(r, b)
  PROVE  ~(clock - mailedAt[b] < Cooldown)
<1> DEFINE old == cron[r]
<1>1. /\ RunRight(cron[r]) /\ AlertSound
      /\ \A s \in Crons : s # r => cron[s] = NoCron
  BY TheRun DEF TakeBucket
<1>2. /\ mailedAt \in [Buckets -> -Cooldown..MaxClock] /\ clock \in 0..MaxClock
      /\ Cooldown \in Nat /\ MaxClock \in Nat
      /\ firings \in [Buckets -> {{}} \cup {{t} : t \in 0..MaxClock}]
  BY AlertAssumption DEF AlertInv, AlertTypeOK
<1>3. ~FiredBy(r, b) /\ \A s \in Crons : ~FiredBy(s, b)
  BY <1>1 DEF FiredBy, RunRight, TakeBucket
<1>4. clock - mailedAt[b] >= Cooldown
  <2>1. \/ mailedAt[b] = -Cooldown
        \/ firings[b] = {mailedAt[b]}
    BY <1>1, <1>3 DEF AlertSound, LastIsKnown
  <2>2. CASE mailedAt[b] = -Cooldown
    BY <1>2, <2>2
  <2>3. CASE firings[b] = {mailedAt[b]}
    <3>1. mailedAt[b] \in FiringsRead(b)
      BY <2>3 DEF FiringsRead
    <3>2. old.now - mailedAt[b] >= Cooldown
      BY <3>1 DEF MayFire, CoolAt
    <3>3. old.now \in 0..clock /\ mailedAt[b] \in Int
      BY <1>1, <1>2 DEF RunRight
    <3> HIDE DEF old
    <3>4. QED
      BY <1>2, <3>2, <3>3
  <2>4. QED
    BY <2>1, <2>2, <2>3
<1>5. mailedAt[b] \in Int
  BY <1>2
<1>6. QED
  BY <1>2, <1>4, <1>5

LEMMA KeepsSkipOrFail ==
  ASSUME AlertInv, ~spoiled, NEW r \in Crons, NEW b \in Buckets,
         SkipBucket(r, b) \/ \E left \in BOOLEAN : MailUnanswered(r, b, left)
  PROVE  AlertInv'
<1> DEFINE old == cron[r]
           todo == old.todo \ {b}
           due == old.due \ {b}
           run == Run(old.now, due, old.fired, todo)
<1>1. /\ TakeBucket(r, b)
      /\ UNCHANGED <<mapped, clock, events, acked, firings, mailedAt, early, missed, spoiled>>
  <2>1. CASE SkipBucket(r, b)
    BY <2>1 DEF SkipBucket
  <2>2. ASSUME NEW left \in BOOLEAN, MailUnanswered(r, b, left)
        PROVE  /\ TakeBucket(r, b)
               /\ UNCHANGED <<mapped, clock, events, acked, firings, mailedAt, early, missed, spoiled>>
    <3>1. /\ TakeBucket(r, b) /\ MayFire(r, b)
          /\ early' = (early \/ (left /\ clock - mailedAt[b] < Cooldown))
          /\ UNCHANGED <<mapped, clock, events, acked, firings, mailedAt, missed, spoiled>>
      BY <2>2 DEF MailUnanswered
    <3>2. ~(clock - mailedAt[b] < Cooldown)
      BY <3>1, MayFireIsLate
    <3>3. early \in BOOLEAN
      BY DEF AlertInv, AlertTypeOK
    <3>4. early' = early
      BY <3>1, <3>2, <3>3
    <3>5. QED
      BY <3>1, <3>4
  <2>3. QED
    BY <2>1, <2>2
<1>2. /\ RunRight(cron[r]) /\ AlertSound
      /\ \A s \in Crons : s # r => cron[s] = NoCron
  BY <1>1, TheRun DEF TakeBucket
<1>3. old = Run(old.now, old.due, old.fired, old.todo)
  BY <1>2 DEF RunRight, Run
<1>4. cron' = [cron EXCEPT ![r] = run]
  <2>1. CASE SkipBucket(r, b)
    <3>1. b \notin old.due
      BY <1>1, <2>1, MayFireWhatIsDue DEF SkipBucket
    <3>2. cron' = [cron EXCEPT ![r] = [old EXCEPT !.todo = old.todo \ {b}]]
      BY <2>1 DEF SkipBucket
    <3>3. [old EXCEPT !.todo = old.todo \ {b}] = run
      <4>1. due = old.due
        BY <3>1
      <4>2. [old EXCEPT !.todo = todo] = Run(old.now, old.due, old.fired, todo)
        <5> HIDE DEF old, todo
        <5>1. QED
          BY <1>3, RunWith
      <4>3. QED
        BY <4>1, <4>2
    <3>4. QED
      BY <3>2, <3>3
  <2>2. CASE \E left \in BOOLEAN : MailUnanswered(r, b, left)
    <3>1. cron' = [cron EXCEPT ![r].todo = @ \ {b}, ![r].due = @ \ {b}]
      BY <2>2 DEF MailUnanswered
    <3> DEFINE half == [cron EXCEPT ![r].todo = @ \ {b}]
    <3>2. cron' = [half EXCEPT ![r].due = @ \ {b}]
      BY <3>1
    <3>3. /\ DOMAIN half = Crons /\ half[r] = [old EXCEPT !.todo = todo]
          /\ \A s \in Crons : s # r => half[s] = cron[s]
      BY DEF AlertInv
    <3>4. half[r].due = old.due /\ [half[r] EXCEPT !.due = due] = run
      <4> DEFINE less == Run(old.now, old.due, old.fired, todo)
      <4> HIDE DEF old, half, todo, due
      <4>1. [old EXCEPT !.todo = todo] = less
        BY <1>3, RunWith
      <4>2. half[r] = less
        BY <3>3, <4>1
      <4>3. less.due = old.due /\ [less EXCEPT !.due = due] = run
        BY RunWith
      <4> HIDE DEF less
      <4>4. QED
        BY <4>2, <4>3
    <3>5. cron' = [half EXCEPT ![r] = [half[r] EXCEPT !.due = half[r].due \ {b}]]
      BY <3>2
    <3>6. cron' = [half EXCEPT ![r] = run]
      BY <3>4, <3>5
    <3>7. half = [cron EXCEPT ![r] = [old EXCEPT !.todo = todo]]
      OBVIOUS
    <3> HIDE DEF half, run
    <3>8. QED
      BY <3>6, <3>7
  <2>3. QED
    BY <2>1, <2>2
<1>5. cron'[r] = run /\ DOMAIN cron' = Crons /\ \A s \in Crons : s # r => cron'[s] = NoCron
  BY <1>2, <1>4 DEF AlertInv
<1>6. RunRight(cron[r])'
  <2>1. /\ run.now = old.now /\ run.due = due /\ run.todo = todo /\ run.fired = old.fired
        /\ run = [at |-> "running", now |-> run.now, due |-> run.due, fired |-> run.fired,
                  todo |-> run.todo]
    BY DEF Run
  <2> HIDE DEF run
  <2>2. QED
    BY <1>1, <1>2, <1>5, <2>1 DEF RunRight, CoolAt, Buckets
<1>7. run.fired = old.fired /\ run # NoCron /\ old # NoCron
  BY <1>1, RunIsOther DEF TakeBucket, Run
<1> HIDE DEF run
<1>8. \A k \in Buckets : LastIsKnown(k)'
  BY <1>1, <1>2, <1>5, <1>7 DEF AlertSound, LastIsKnown, FiredBy
<1>9. AlertSound'
  BY <1>1, <1>2, <1>5, <1>6, <1>8 DEF AlertSound, NoCron
<1>10. AlertTypeOK'
  BY <1>1 DEF AlertInv, AlertTypeOK
<1>11. QED
  BY <1>5, <1>9, <1>10 DEF AlertInv

(* A mail leaves when the last one of the bucket is old enough. *)
LEMMA KeepsFire ==
  ASSUME AlertInv, ~spoiled, NEW r \in Crons, NEW b \in Buckets, Fire(r, b)
  PROVE  AlertInv'
<1> DEFINE old == cron[r]
           todo == old.todo \ {b}
           due == old.due \ {b}
           mail == [bucket |-> b, time |-> clock]
           fired == old.fired \cup {mail}
           run == Run(old.now, due, fired, todo)
<1>1. /\ TakeBucket(r, b) /\ MayFire(r, b)
      /\ early' = (early \/ clock - mailedAt[b] < Cooldown)
      /\ mailedAt' = [mailedAt EXCEPT ![b] = clock]
      /\ UNCHANGED <<mapped, clock, events, acked, firings, missed, spoiled>>
  BY DEF Fire
<1>2. /\ RunRight(cron[r]) /\ AlertSound
      /\ \A s \in Crons : s # r => cron[s] = NoCron
  BY <1>1, TheRun DEF TakeBucket
<1>3. old = Run(old.now, old.due, old.fired, old.todo)
  BY <1>2 DEF RunRight, Run
<1>4. cron'[r] = run /\ DOMAIN cron' = Crons /\ \A s \in Crons : s # r => cron'[s] = cron[s]
  <2> DEFINE half == [cron EXCEPT ![r].todo = @ \ {b}]
             third == [half EXCEPT ![r].due = @ \ {b}]
             left == Run(old.now, old.due, old.fired, todo)
             done == Run(old.now, due, old.fired, todo)
  <2>1. cron' = [third EXCEPT ![r].fired = @ \cup {mail}]
    BY DEF Fire
  <2>2. /\ half[r] = [old EXCEPT !.todo = todo] /\ DOMAIN half = Crons
        /\ \A s \in Crons : s # r => half[s] = cron[s]
    BY DEF AlertInv
  <2>3. half[r] = left
    <3> HIDE DEF old, half, todo
    <3>1. QED
      BY <1>3, <2>2, RunWith
  <2>4. /\ third[r] = [half[r] EXCEPT !.due = half[r].due \ {b}] /\ DOMAIN third = Crons
        /\ \A s \in Crons : s # r => third[s] = half[s]
    <3> HIDE DEF half
    <3>1. QED
      BY <2>2
  <2>5. third[r] = done
    <3> HIDE DEF half, third, old, todo
    <3>1. left.due = old.due /\ [left EXCEPT !.due = due] = done
      <4> HIDE DEF due
      <4>1. QED
        BY RunWith
    <3> HIDE DEF left, done
    <3>2. QED
      BY <2>3, <2>4, <3>1
  <2>6. /\ cron'[r] = [third[r] EXCEPT !.fired = third[r].fired \cup {mail}] /\ DOMAIN cron' = Crons
        /\ \A s \in Crons : s # r => cron'[s] = third[s]
    <3> HIDE DEF third, mail
    <3>1. QED
      BY <2>1, <2>4
  <2>7. cron'[r] = run
    <3> HIDE DEF half, third, old, todo, due, mail
    <3>1. done.fired = old.fired /\ [done EXCEPT !.fired = fired] = run
      <4> HIDE DEF fired
      <4>1. QED
        BY RunWith
    <3> HIDE DEF done, run
    <3>2. QED
      BY <2>5, <2>6, <3>1
  <2> HIDE DEF half, third
  <2>8. QED
    BY <2>2, <2>4, <2>6, <2>7
<1>5. cron'[r] = run /\ DOMAIN cron' = Crons /\ \A s \in Crons : s # r => cron'[s] = NoCron
  BY <1>2, <1>4
<1>6. /\ mailedAt \in [Buckets -> -Cooldown..MaxClock] /\ clock \in 0..MaxClock
      /\ Cooldown \in Nat /\ MaxClock \in Nat
      /\ firings \in [Buckets -> {{}} \cup {{t} : t \in 0..MaxClock}]
  BY AlertAssumption DEF AlertInv, AlertTypeOK
<1>7. /\ mailedAt'[b] = clock
      /\ \A k \in Buckets : k # b => mailedAt'[k] = mailedAt[k]
      /\ mailedAt' \in [Buckets -> -Cooldown..MaxClock]
  BY <1>1, <1>6
<1>9. ~(clock - mailedAt[b] < Cooldown)
  BY <1>1, MayFireIsLate
<1>10. early' = early
  <2>1. early \in BOOLEAN
    BY DEF AlertInv, AlertTypeOK
  <2>2. QED
    BY <1>1, <1>9, <2>1
<1>11. run.fired = fired /\ run.todo = todo /\ run.due = due /\ run.now = old.now
  BY RunWith
<1>12. run = [at |-> "running", now |-> run.now, due |-> run.due, fired |-> run.fired,
              todo |-> run.todo]
  BY DEF Run
<1>13. run # NoCron /\ old # NoCron
  BY <1>1, RunIsOther DEF TakeBucket, Run
<1>14. b \in old.todo
  BY <1>1 DEF TakeBucket
<1> HIDE DEF run
<1>15. RunRight(cron[r])'
  <2>1. \A f \in run.fired : /\ f.bucket \in Buckets /\ f.bucket \notin run.todo
                             /\ f.time = mailedAt'[f.bucket] /\ f.time \in 0..clock
    <3>1. ASSUME NEW f \in old.fired
          PROVE  /\ f.bucket \in Buckets /\ f.bucket \notin todo
                 /\ f.time = mailedAt'[f.bucket] /\ f.time \in 0..clock
      BY <1>2, <1>7, <1>14 DEF RunRight
    <3>2. /\ mail.bucket \in Buckets /\ mail.bucket \notin todo
          /\ mail.time = mailedAt'[mail.bucket] /\ mail.time \in 0..clock
      BY <1>6, <1>7
    <3>3. QED
      BY <1>11, <3>1, <3>2
  <2>2. \A k \in run.due : (mapped => k # Host) /\ CoolAt(firings[k], run.now)
    BY <1>2, <1>11 DEF RunRight
  <2>3. ~mapped => run.todo \subseteq {Host} /\ \A f \in run.fired : f.bucket = Host
    BY <1>2, <1>11, <1>14 DEF RunRight
  <2>4. run.now \in 0..clock /\ run.due \subseteq run.todo /\ run.todo \subseteq Buckets
    BY <1>2, <1>11 DEF RunRight
  <2>5. QED
    BY <1>1, <1>5, <1>12, <2>1, <2>2, <2>3, <2>4 DEF RunRight, CoolAt, Buckets
<1>16. \A k \in Buckets : LastIsKnown(k)'
  <2>1. FiredBy(r, b)'
    <3>1. mail \in run.fired /\ mail.bucket = b
      BY <1>11
    <3>2. QED
      BY <1>5, <1>13, <3>1 DEF FiredBy, NoCron
  <2>2. ASSUME NEW k \in Buckets, k # b
        PROVE  LastIsKnown(k)'
    <3>1. FiredBy(r, k)' <=> FiredBy(r, k)
      BY <1>5, <1>11, <1>13, <2>2 DEF FiredBy, NoCron
    <3>2. \A s \in Crons : s # r => ~FiredBy(s, k)
      BY <1>2 DEF FiredBy
    <3>3. mailedAt'[k] = mailedAt[k] /\ firings' = firings
      BY <1>1, <1>7, <2>2
    <3>4. LastIsKnown(k)
      BY <1>2 DEF AlertSound
    <3>5. QED
      BY <3>1, <3>2, <3>3, <3>4 DEF LastIsKnown
  <2>3. LastIsKnown(b)'
    BY <2>1 DEF LastIsKnown
  <2>4. QED
    BY <2>2, <2>3
<1>17. AlertSound'
  BY <1>1, <1>2, <1>5, <1>10, <1>15, <1>16 DEF AlertSound, NoCron
<1>18. AlertTypeOK'
  BY <1>1, <1>7, <1>10 DEF AlertInv, AlertTypeOK
<1>19. QED
  BY <1>5, <1>17, <1>18 DEF AlertInv

LEMMA KeepsAbortRun ==
  ASSUME AlertInv, ~spoiled, NEW r \in Crons, AbortRun(r)
  PROVE  AlertInv'
<1>1. /\ cron[r] # NoCron /\ cron' = [cron EXCEPT ![r] = NoCron]
      /\ spoiled' = (spoiled \/ cron[r].fired # {})
      /\ UNCHANGED <<mapped, clock, events, acked, firings, mailedAt, early, missed>>
  BY DEF AbortRun
<1>2. AlertTypeOK' /\ DOMAIN cron' = Crons
  BY <1>1 DEF AlertInv, AlertTypeOK
<1>3. \A s \in Crons : s # r => cron[s] = NoCron
  BY <1>1, TheRun
<1>4. \A s \in Crons : cron'[s] = NoCron
  BY <1>1, <1>3 DEF AlertInv
<1>5. ASSUME ~spoiled'
      PROVE  AlertSound'
  <2>1. cron[r].fired = {}
    BY <1>1, <1>5
  <2>2. \A s \in Crons, k \in Buckets : ~FiredBy(s, k)
    BY <1>3, <2>1 DEF FiredBy
  <2>3. \A k \in Buckets : LastIsKnown(k)'
    BY <1>1, <2>2 DEF AlertInv, AlertSound, LastIsKnown
  <2>4. QED
    BY <1>1, <1>4, <2>3 DEF AlertInv, AlertSound, NoCron
<1>6. QED
  BY <1>2, <1>5 DEF AlertInv

LEMMA KeepsCommitRun ==
  ASSUME AlertInv, ~spoiled, NEW r \in Crons, CommitRun(r)
  PROVE  AlertInv'
<1> DEFINE Own(b) == {f.time : f \in {g \in cron[r].fired : g.bucket = b}}
<1>1. /\ cron[r] # NoCron /\ cron[r].todo = {} /\ cron' = [cron EXCEPT ![r] = NoCron]
      /\ missed' = (missed \/ cron[r].due # {})
      /\ firings' = [b \in Buckets |-> IF Own(b) = {} THEN firings[b] ELSE Own(b)]
      /\ UNCHANGED <<mapped, clock, events, acked, mailedAt, early, spoiled>>
  BY DEF CommitRun
<1>2. /\ RunRight(cron[r]) /\ AlertSound
      /\ \A s \in Crons : s # r => cron[s] = NoCron
  BY <1>1, TheRun
<1>3. DOMAIN cron' = Crons /\ \A s \in Crons : cron'[s] = NoCron
  BY <1>1, <1>2 DEF AlertInv
<1>4. cron[r].due = {} /\ missed' = missed
  <2>1. cron[r].due = {}
    BY <1>1, <1>2 DEF RunRight
  <2>2. missed \in BOOLEAN
    BY DEF AlertInv, AlertTypeOK
  <2>3. QED
    BY <1>1, <2>1, <2>2
<1>5. ASSUME NEW b \in Buckets
      PROVE  /\ FiredBy(r, b) => firings'[b] = {mailedAt[b]} /\ mailedAt[b] \in 0..MaxClock
             /\ ~FiredBy(r, b) => firings'[b] = firings[b]
  <2>1. CASE FiredBy(r, b)
    <3>1. PICK f \in cron[r].fired : f.bucket = b
      BY <2>1 DEF FiredBy
    <3>2. \A g \in cron[r].fired : g.bucket = b => g.time = mailedAt[b]
      BY <1>2 DEF RunRight
    <3>3. f.time \in 0..clock /\ f.time = mailedAt[b]
      BY <1>2, <3>1 DEF RunRight
    <3>4. Own(b) = {mailedAt[b]}
      BY <3>1, <3>2
    <3>5. 0..clock \subseteq 0..MaxClock
      BY AlertAssumption DEF AlertInv, AlertTypeOK
    <3>6. QED
      BY <1>1, <2>1, <3>3, <3>4, <3>5
  <2>2. CASE ~FiredBy(r, b)
    <3>1. Own(b) = {}
      BY <1>1, <2>2 DEF FiredBy
    <3>2. QED
      BY <1>1, <2>2, <3>1
  <2>3. QED
    BY <2>1, <2>2
<1>6. firings' \in [Buckets -> {{}} \cup {{t} : t \in 0..MaxClock}]
  <2>1. DOMAIN firings' = Buckets /\ firings' = [b \in Buckets |-> firings'[b]]
    BY <1>1
  <2>2. \A b \in Buckets : firings[b] \in {{}} \cup {{t} : t \in 0..MaxClock}
    BY DEF AlertInv, AlertTypeOK
  <2>3. \A b \in Buckets : firings'[b] \in {{}} \cup {{t} : t \in 0..MaxClock}
    BY <1>5, <2>2
  <2>4. QED
    BY <2>1, <2>3
<1>7. AlertTypeOK'
  BY <1>1, <1>4, <1>6 DEF AlertInv, AlertTypeOK
<1>8. ASSUME NEW b \in Buckets
      PROVE  LastIsKnown(b)'
  <2>1. LastIsKnown(b) /\ \A s \in Crons : s # r => ~FiredBy(s, b)
    BY <1>2 DEF AlertSound, FiredBy
  <2>2. mailedAt' = mailedAt
    BY <1>1
  <2>3. QED
    BY <1>5, <2>1, <2>2 DEF LastIsKnown
<1>9. ~mapped => \A b \in Chapters : firings'[b] = {}
  <2>1. ASSUME ~mapped, NEW b \in Chapters
        PROVE  firings'[b] = {}
    <3>1. b \in Buckets /\ ~FiredBy(r, b)
      BY <1>2, <2>1, AlertAssumption DEF RunRight, FiredBy, Buckets
    <3>2. QED
      BY <1>2, <1>5, <2>1, <3>1 DEF AlertSound
  <2>2. QED
    BY <2>1
<1>10. AlertSound'
  BY <1>1, <1>2, <1>3, <1>4, <1>8, <1>9 DEF AlertSound, NoCron
<1>11. QED
  BY <1>3, <1>7, <1>10 DEF AlertInv

LEMMA AlertInvStep == AlertInv /\ [AlertNext]_alertVars => AlertInv'
<1> SUFFICES ASSUME AlertInv, [AlertNext]_alertVars
             PROVE  AlertInv'
  OBVIOUS
<1>1. CASE UNCHANGED alertVars
  <2>1. AlertTypeOK' /\ clock' >= clock
    BY <1>1 DEF AlertInv, AlertTypeOK, alertVars
  <2>2. QED
    BY <1>1, <2>1, AroundKeeps DEF alertVars
<1>2. CASE AlertNext
  <2>1. ~spoiled
    BY <1>2 DEF AlertNext
  <2>2. CASE \/ \E issue \in Issues : ToggleAck(issue) \/ \E union \in Buckets : LogEvent(issue, union)
             \/ AlertTick
    BY <2>2, AlertsAround
  <2>3. ASSUME NEW r \in Crons,
               \/ BeginRun(r) \/ CommitRun(r) \/ AbortRun(r)
               \/ \E b \in Buckets : SkipBucket(r, b) \/ Fire(r, b)
               \/ \E b \in Buckets, left \in BOOLEAN : MailUnanswered(r, b, left)
        PROVE  AlertInv'
    BY <2>1, <2>3, KeepsBeginRun, KeepsCommitRun, KeepsAbortRun, KeepsSkipOrFail, KeepsFire
  <2>4. QED
    BY <1>2, <2>2, <2>3 DEF AlertNext
<1>3. QED
  BY <1>1, <1>2

LEMMA AlertInvHolds == AlertSpec => []AlertInv
<1>1. QED
  BY AlertInvInit, AlertInvStep, PTL DEF AlertSpec

(* Unless runs overlap or one that mailed is rolled back, no bucket is mailed    *)
(* within the cooldown of a mail that was answered for, lost answers included,   *)
(* and a run that ends has tried whatever was due: whatever the thresholds,      *)
(* windows, unions and issues (evaluate-alerts.ts:149, 209).                     *)
THEOREM AlertsWereDue == AlertSpec => []AlertsAreDue
<1>1. AlertInv => AlertsAreDue
  BY DEF AlertInv, AlertSound, AlertsAreDue
<1>2. QED
  BY <1>1, AlertInvHolds, PTL

-----------------------------------------------------------------------------
(* Types.  Those of the other components are part of their invariants. *)

LEMMA RolesTypes == RolesSpec => []RolesTypeOK
<1>1. RolesInit => RolesTypeOK
  BY DEF RolesInit, RolesTypeOK
<1>2. RolesTypeOK /\ [RolesNext]_roleVars => RolesTypeOK'
  BY DEF RolesTypeOK, RolesNext, CheckRemoval, RemoveAdmin, GiveAdmin, roleVars
<1>3. QED
  BY <1>1, <1>2, PTL DEF RolesSpec

LEMMA LinkTypes == LinkSpec => []LinkTypeOK
<1>1. LinkInit => LinkTypeOK
  BY LinkBoundAssumption DEF LinkInit, LinkTypeOK, NoLink, Purposes
<1>2. LinkInv /\ LinkTypeOK /\ [LinkNext]_linkVars /\ LinkInv' => LinkTypeOK'
  <2> SUFFICES ASSUME LinkInv, LinkTypeOK, [LinkNext]_linkVars, LinkInv'
               PROVE  LinkTypeOK'
    OBVIOUS
  <2>1. /\ link' \in [Links -> LinkRows] /\ clicks' \subseteq Links /\ used' \subseteq Links
        /\ grants' \in [LinkReplicas -> SUBSET Links] /\ effects' \in [Links -> Nat]
    BY DEF LinkInv, LinkShape
  <2>2. nonces' \subseteq Links
    BY DEF LinkTypeOK, LinkNext, AskLink, MailLink, ReadLink, RefuseLate, Consume,
           ChangePassword, LinkExpires, IssueGrant, Authorize, LoseGrant, linkVars
  <2>3. asking' \subseteq Purposes \X (0..MaxLinks) /\ older' \in [Links -> 0..MaxLinks]
    <3>1. CASE \E p \in Purposes : AskLink(p)
      <4>1. PICK p \in Purposes : AskLink(p)
        BY <3>1
      <4>2. Newest \in 0..MaxLinks
        BY <4>1, LinkBoundAssumption DEF AskLink, LinkInv, InOrder
      <4>3. QED
        BY <4>1, <4>2 DEF AskLink, LinkTypeOK
    <3>2. CASE \E a \in asking : MailLink(a)
      <4>1. PICK a \in asking : MailLink(a)
        BY <3>2
      <4>2. a[2] \in 0..MaxLinks /\ asking' \subseteq asking
        BY <4>1 DEF MailLink, LinkTypeOK
      <4>3. older' = [older EXCEPT ![Newest + 1] = a[2]]
        BY <4>1 DEF MailLink
      <4>4. QED
        BY <4>2, <4>3 DEF LinkTypeOK
    <3>3. CASE ~(\E p \in Purposes : AskLink(p)) /\ ~(\E a \in asking : MailLink(a))
      <4>1. asking' = asking /\ older' = older
        BY <3>3 DEF LinkNext, ReadLink, RefuseLate, Consume, ChangePassword, LinkExpires,
                    IssueGrant, Authorize, LoseGrant, linkVars
      <4>2. QED
        BY <4>1 DEF LinkTypeOK
    <3>4. QED
      BY <3>1, <3>2, <3>3
  <2>4. QED
    BY <2>1, <2>2, <2>3 DEF LinkTypeOK, LinkRows
<1>3. QED
  BY <1>1, <1>2, LinkInvHolds, PTL DEF LinkSpec

(* A total is written as it was asked for. *)
TotalsKnown ==
  /\ PurchaseTypeOK
  /\ \A c \in PurchaseCalls : matter[c].at = "updating" => matter[c].total \in Totals

LEMMA PurchaseTypes == PurchaseSpec => []PurchaseTypeOK
<1>1. PurchaseInit => TotalsKnown
  <2>1. ASSUME PurchaseInit
        PROVE  TotalsKnown
    <3>1. \A c \in PurchaseCalls : matter[c].at = "idle"
      BY <2>1 DEF PurchaseInit, NoMatter
    <3>2. paid \in 0..MaxPaid
      BY <2>1, PurchaseAssumption DEF PurchaseInit
    <3>3. QED
      BY <2>1, <3>1, <3>2 DEF PurchaseInit, TotalsKnown, PurchaseTypeOK
  <2>2. QED
    BY <2>1
<1>2. PurchaseInv /\ TotalsKnown /\ [PurchaseNext]_purchaseVars /\ PurchaseInv' => TotalsKnown'
  <2> SUFFICES ASSUME PurchaseInv, TotalsKnown, [PurchaseNext]_purchaseVars, PurchaseInv'
               PROVE  TotalsKnown'
    OBVIOUS
  <2> DEFINE Rows == [status : {"draft", "submitted", "approved", "denied", "gone"}, total : Totals]
  <2>1. /\ purchase \in Rows /\ paid \in 0..MaxPaid /\ strayed \in BOOLEAN /\ MaxPaid \in Nat
        /\ DOMAIN matter = PurchaseCalls
    BY PurchaseAssumption DEF TotalsKnown, PurchaseTypeOK, PurchaseInv, MatterShape
  <2>2. CASE UNCHANGED purchaseVars
    BY <2>2 DEF TotalsKnown, PurchaseTypeOK, purchaseVars
  <2>3. ASSUME NEW c \in PurchaseCalls, NEW total \in Totals, NEW submits \in BOOLEAN,
               ReadForUpdate(c, total, submits)
        PROVE  TotalsKnown'
    <3>1. /\ matter' = [matter EXCEPT ![c] =
                 [at |-> "updating", total |-> total, submits |-> submits, seen |-> purchase]]
          /\ UNCHANGED <<purchase, paid, strayed>>
      BY <2>3 DEF ReadForUpdate, Takes
    <3>2. \A k \in PurchaseCalls : matter'[k].at = "updating" => matter'[k].total \in Totals
      BY <2>1, <3>1 DEF TotalsKnown
    <3>3. QED
      BY <3>1, <3>2 DEF TotalsKnown, PurchaseTypeOK
  <2>4. ASSUME NEW c \in PurchaseCalls, matter'[c].at # "updating",
               \A k \in PurchaseCalls : k # c => matter'[k] = matter[k],
               purchase' \in Rows, paid' \in 0..MaxPaid, strayed' \in BOOLEAN
        PROVE  TotalsKnown'
    BY <2>4 DEF TotalsKnown, PurchaseTypeOK
  <2>5. ASSUME NEW c \in PurchaseCalls, NEW m, Takes(c, m), m.at # "updating",
               purchase' \in Rows, paid' \in 0..MaxPaid, strayed' \in BOOLEAN
        PROVE  TotalsKnown'
    BY <2>1, <2>4, <2>5 DEF Takes
  <2>6. ASSUME NEW c \in PurchaseCalls, EndMatter(c),
               purchase' \in Rows, paid' \in 0..MaxPaid, strayed' \in BOOLEAN
        PROVE  TotalsKnown'
    BY <2>1, <2>4, <2>6 DEF EndMatter, NoMatter
  <2>7. ASSUME NEW c \in PurchaseCalls, NEW row \in Rows, WriteAfter(c, row)
        PROVE  TotalsKnown'
    BY <2>1, <2>6, <2>7 DEF WriteAfter
  <2>8. ASSUME NEW c \in PurchaseCalls, NEW to, ReadForDecision(c, to)
        PROVE  TotalsKnown'
    <3>1. /\ Takes(c, [at |-> "deciding", to |-> to, seen |-> purchase])
          /\ UNCHANGED <<purchase, paid, strayed>>
      BY <2>8 DEF ReadForDecision
    <3>2. QED
      BY <2>1, <2>5, <3>1
  <2>9. ASSUME NEW c \in PurchaseCalls, UpdatePurchase(c)
        PROVE  TotalsKnown'
    <3>1. matter[c].total \in Totals
      BY <2>9 DEF UpdatePurchase, TotalsKnown
    <3> DEFINE row == [status |-> IF matter[c].submits THEN "submitted" ELSE purchase.status,
                       total |-> matter[c].total]
    <3>2. row \in Rows
      BY <2>1, <3>1
    <3>3. WriteAfter(c, row)
      BY <2>9 DEF UpdatePurchase
    <3> HIDE DEF row
    <3>4. QED
      BY <2>7, <3>2, <3>3
  <2>10. ASSUME NEW c \in PurchaseCalls, DecidePurchase(c)
         PROVE  TotalsKnown'
    <3>1. matter[c].to \in {"submitted", "denied", "gone"}
      BY <2>10 DEF DecidePurchase, PurchaseInv, MatterShape, ReadRight
    <3> DEFINE row == [purchase EXCEPT !.status = matter[c].to]
    <3>2. row \in Rows
      BY <2>1, <3>1
    <3>3. WriteAfter(c, row)
      BY <2>10 DEF DecidePurchase
    <3> HIDE DEF row
    <3>4. QED
      BY <2>7, <3>2, <3>3
  <2>11. ASSUME NEW c \in PurchaseCalls, BookPurchase(c)
         PROVE  TotalsKnown'
    <3>1. /\ paid' = paid + purchase.total /\ paid + purchase.total <= MaxPaid
          /\ Takes(c, [at |-> "booked", seen |-> purchase])
          /\ UNCHANGED <<purchase, strayed>>
      BY <2>11 DEF BookPurchase
    <3>2. purchase.total \in Nat
      BY DEF PurchaseInv, MatterShape, PurchaseRows
    <3>3. paid' \in 0..MaxPaid
      BY <2>1, <3>1, <3>2
    <3>4. QED
      BY <2>1, <2>5, <3>1, <3>3
  <2>12. ASSUME NEW c \in PurchaseCalls, RecheckPurchase(c)
         PROVE  TotalsKnown'
    <3>1. UNCHANGED <<purchase, paid>> /\ strayed' \in BOOLEAN
      BY <2>1, <2>12 DEF RecheckPurchase
    <3>2. CASE Takes(c, [matter[c] EXCEPT !.at = "approving"])
      <4>1. /\ matter'[c] = [matter[c] EXCEPT !.at = "approving"]
            /\ \A k \in PurchaseCalls : k # c => matter'[k] = matter[k]
        BY <2>1, <3>2 DEF Takes
      <4>2. matter'[c].at # "updating"
        BY <2>12, <4>1 DEF RecheckPurchase
      <4>3. QED
        BY <2>1, <2>4, <3>1, <4>1, <4>2
    <3>3. CASE EndMatter(c)
      BY <2>1, <2>6, <3>1, <3>3
    <3>4. QED
      BY <2>12, <3>2, <3>3 DEF RecheckPurchase
  <2>13. ASSUME NEW c \in PurchaseCalls, ApprovePurchase(c)
         PROVE  TotalsKnown'
    <3>1. purchase' \in Rows /\ paid' = paid /\ strayed' \in BOOLEAN /\ EndMatter(c)
      BY <2>1, <2>13 DEF ApprovePurchase
    <3>2. QED
      BY <2>1, <2>6, <3>1
  <2>14. ASSUME NEW c \in PurchaseCalls, DropMatter(c)
         PROVE  TotalsKnown'
    <3>1. UNCHANGED <<purchase, paid>> /\ strayed' \in BOOLEAN /\ EndMatter(c)
      BY <2>1, <2>14 DEF DropMatter
    <3>2. QED
      BY <2>1, <2>6, <3>1
  <2>15. QED
    BY <2>2, <2>3, <2>8, <2>9, <2>10, <2>11, <2>12, <2>13, <2>14 DEF PurchaseNext
<1>3. TotalsKnown => PurchaseTypeOK
  BY DEF TotalsKnown
<1>4. QED
  BY <1>1, <1>2, <1>3, PurchaseInvHolds, PTL DEF PurchaseSpec

-----------------------------------------------------------------------------
(* The components in one system: whatever the scene, each behaves as its own *)
(* specification says.                                                       *)

LEMMA PartsBehave ==
  AccountSpec => /\ LinkSpec /\ InviteSpec /\ RolesSpec /\ SeatSpec /\ BroadcastSpec
                 /\ OutreachSpec /\ TravelSpec /\ PurchaseSpec /\ AlertSpec
<1>1. AccountInit => /\ LinkInit /\ InviteInit /\ RolesInit /\ SeatInit /\ BroadcastInit
                     /\ OutreachInit /\ TravelInit /\ PurchaseInit /\ AlertInit
  BY DEF AccountInit
<1>2. [AccountNext]_AccountVars =>
        /\ [LinkNext]_linkVars /\ [InviteNext]_inviteVars /\ [RolesNext]_roleVars
        /\ [SeatNext]_seatVars /\ [BroadcastNext]_broadcastVars
        /\ [OutreachNext]_outreachVars /\ [TravelNext]_travelVars
        /\ [PurchaseNext]_purchaseVars /\ [AlertNext]_alertVars
  BY DEF AccountNext, AccountVars
<1>3. QED
  BY <1>1, <1>2, PTL DEF AccountSpec, LinkSpec, InviteSpec, RolesSpec, SeatSpec, BroadcastSpec,
     OutreachSpec, TravelSpec, PurchaseSpec, AlertSpec

(* Every component keeps its rows in shape, histories included: one active seat *)
(* at most is primary, only a released campaign has deliveries, and a trip has  *)
(* one advance and one claim unless a request slipped (outreach-lists.ts:215).  *)
THEOREM AccountTypes == AccountSpec => []AccountsTypeOK
<1>1. InviteInv => InviteTypeOK
  BY DEF InviteInv
<1>2. SeatInv => SeatTypeOK
  BY DEF SeatInv, SeatShape
<1>3. BroadcastInv => BroadcastTypeOK
  BY DEF BroadcastInv
<1>4. OutreachInv => OutreachTypeOK
  BY DEF OutreachInv
<1>5. AlertInv => AlertTypeOK
  BY DEF AlertInv
<1>6. QED
  BY <1>1, <1>2, <1>3, <1>4, <1>5, PartsBehave, LinkTypes, InviteInvHolds, RolesTypes,
     SeatInvHolds, BroadcastInvHolds, OutreachInvHolds, TravelInvHolds, TravelTypes,
     PurchaseTypes, AlertInvHolds, PTL DEF AccountsTypeOK

(* A link or an invitation that is used once is used once, and not after it was *)
(* superseded, ran out or was marked (invite-postgres.ts:239).                  *)
THEOREM TokensWorkOnce == AccountSpec => TokensAreOneTime
BY PartsBehave, LinksImplementOneTimeToken, InvitationsImplementOneTimeToken, PTL
   DEF TokensAreOneTime

(* What the local paid is what its ledger says, for a trip and for a purchase  *)
(* (reconcile/route.ts:47, approve/route.ts:42).                               *)
THEOREM MoneyWasAccountedFor == AccountSpec => []MoneyIsAccountedFor
BY PartsBehave, TripsAreSettled, ApprovalsBookOnce, PTL DEF MoneyIsAccountedFor

(* A broadcast is backed by the last committed word, a letter by a confirmation *)
(* that nothing had suppressed when it was composed, and leaves once, except    *)
(* where a dispatch overlapped or was lost (member-broadcast.ts:196,            *)
(* outreach-lists.ts:272).                                                      *)
THEOREM MailWasWarranted == AccountSpec => []MailIsWarranted
BY PartsBehave, LastWordIsConsent, LettersWereWarranted, PTL DEF MailIsWarranted

=============================================================================
