----------------------------- MODULE SiteRoles ------------------------------
(***************************************************************************)
(* The site administrators of a host.  Taking the role from one of them    *)
(* counts the others first and writes later, in two statements that are    *)
(* committed on their own.                                                 *)
(***************************************************************************)
EXTENDS FiniteSets, Naturals

CONSTANT Operators   \* accounts of the host that are, were or will be admins

VARIABLES
  admins,   \* the accounts whose roles contain platform_admin
  removing, \* removals that have passed the count and not yet written
  outrun    \* history: removals since whose reads the others became fewer, or the
            \* account itself became an admin

roleVars == <<admins, removing, outrun>>

\* A host is set up with all of them.
RolesInit ==
  /\ admins = Operators
  /\ removing = {}
  /\ outrun = {}

\* Mutant: the person to be removed is not counted.
CountOthersWrong(o) == Cardinality(admins) >= 1
OthersRemain(o) == Cardinality(admins) > 1

\* setUserRoles reads the target and, if it is an admin, counts.  The last one is
\* refused; roles without platform_admin for anybody else need no count.
CheckRemoval(o) ==
  /\ o \notin removing
  /\ o \in admins => OthersRemain(o)
  /\ removing' = removing \union {o}
  /\ outrun' = outrun \ {o}
  /\ UNCHANGED admins

\* The update that replaces the roles, whatever they are by now.
RemoveAdmin(o) ==
  /\ o \in removing
  /\ admins' = admins \ {o}
  /\ removing' = removing \ {o}
  /\ outrun' = IF o \in admins THEN outrun \union (removing \ {o}) ELSE outrun

\* Roles that keep or give platform_admin need no count.
GiveAdmin(o) ==
  /\ admins' = admins \union {o}
  /\ outrun' = outrun \union ({o} \cap (removing \ admins))
  /\ UNCHANGED removing

RolesNext == \E o \in Operators :
  CheckRemoval(o) \/ RemoveAdmin(o) \/ GiveAdmin(o)

RolesSpec == RolesInit /\ [][RolesNext]_roleVars

RolesTypeOK == admins \subseteq Operators /\ removing \subseteq Operators
                 /\ outrun \subseteq Operators

\* A host loses its last site administrator only to a removal that was outrun by
\* another change of roles between its reads and its update
\* (set-user-roles.ts:49 and 73); changes that do not overlap never do.
LastAdminOnlyToRace ==
  [][\A o \in removing : admins # {} /\ admins' = {} /\ o \notin removing'
       => o \in outrun]_roleVars

=============================================================================
