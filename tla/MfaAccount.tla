----------------------------- MODULE MfaAccount -----------------------------
(***************************************************************************)
(* Multi-factor authentication of one account on the hosted profile:       *)
(* PostgreSQL stores, AUTH_MFA_MODE=totp, several app replicas.            *)
(*                                                                         *)
(*   app/api/mfa/verify, enroll, enroll/confirm, recovery-codes            *)
(*   app/api/site-admin/users/[id]/reset-mfa, lib/auth/fresh-mfa-step-up   *)
(*   lib/auth/mfa-*, totp, session-update, refresh-jwt-tenancy, auth.ts    *)
(*                                                                         *)
(* The four routes under api/mfa work in one transaction under             *)
(* withMfaAccountLock (module MfaAccountLock): the rows they write stay    *)
(* locked to the end, the account row they read is locked from the start,  *)
(* and a throw rolls everything back; so each transaction is one action.   *)
(* Only verify uses anything older than its transaction, the session       *)
(* version that auth() found.  Step-up challenges, the site-admin reset    *)
(* and session requests do not take the account lock: they are one action  *)
(* per database call and interleave with the others.  A replica can die,   *)
(* and a database call fail, before any action.                            *)
(*                                                                         *)
(* An answer that refuses a code changes nothing here: the attempt it      *)
(* counts is in module MfaAttemptLimit, and the limiter may refuse any     *)
(* request.  One unit of `now` is one TOTP step.  Secrets, nonces and sets *)
(* of recovery codes are fresh random values: they are numbered as they    *)
(* are generated, and 0 is "none".                                         *)
(***************************************************************************)
EXTENDS Integers

CONSTANTS
  Browsers,         \* session cookies of the account
  NoBrowser,
  Slots,            \* requests in flight on the replicas at the same time
  AlwaysRequired,   \* the role needs MFA even before an authenticator is set
  CodeCount,        \* recovery codes in a set (CODE_COUNT)
  GrantTTL,         \* GRANT_TTL_MS
  PendingTTL,       \* PENDING_TTL_MS
  Skew,             \* steps by which a typed code may be early or late
  (* bounds of the model *)
  MaxNow, MaxSecrets, MaxCodeSets, MaxNonces, MaxVersion, MaxRequests

ASSUME BrowserAssumption == NoBrowser \notin Browsers
ASSUME FlagAssumption == AlwaysRequired \in BOOLEAN
ASSUME NumberAssumption ==
  /\ Skew \subseteq Int
  /\ GrantTTL \in Nat /\ PendingTTL \in Nat /\ CodeCount \in Nat
  /\ MaxNow \in Nat /\ MaxSecrets \in Nat /\ MaxCodeSets \in Nat
  /\ MaxNonces \in Nat /\ MaxVersion \in Nat /\ MaxRequests \in Nat

VARIABLES
  now,
  (* users row, mfa_totp_counters row *)
  secret, sessionVersion, grace, lastCounter,
  (* mfa_recovery_codes: number of the newest set, codes not yet used *)
  codeSet, unusedCodes,
  (* mfa_pending_enrollments row; history: was a factor spent on it *)
  pending, pendingPaid,
  (* mfa_session_grants row *)
  grant,
  (* browsers: claims of the JWT cookie, nonce waiting in the page *)
  session, held,
  (* requests in flight, and how many there have been *)
  request, started,
  (* numbers of secrets and nonces generated *)
  secrets, nonces,
  (* history: accepted codes, those accepted again, and those accepted again
     while they were the account's *)
  spent, replayed, reused,
  (* history: redeemed nonces, those redeemed again, and the versions a
     browser was verified at *)
  redeemed, redeemedAgain, verifiedAt

accountVars == <<secret, sessionVersion, grace, lastCounter>>
codeVars    == <<codeSet, unusedCodes>>
pendingVars == <<pending, pendingPaid, secrets>>
grantVars   == <<grant, nonces>>
clientVars  == <<session, held>>
requestVars == <<request, started>>
spentVars   == <<spent, replayed, reused>>
redeemVars  == <<redeemed, redeemedAgain, verifiedAt>>
vars == <<now, accountVars, codeVars, pendingVars, grantVars, clientVars,
          requestVars, spentVars, redeemVars>>

-----------------------------------------------------------------------------
(* Data *)

Code   == [kind : {"totp", "recovery", "none"}, id : Nat, n : Int]
Token  == [ver : Nat, required : BOOLEAN, verified : BOOLEAN]
Stages == {"idle", "verify", "stepUp", "matched", "clearPending", "clearUser",
           "invalidate", "armGrace", "selfVersion", "selfIssue", "session"}

Totp(s, c)     == [kind |-> "totp", id |-> s, n |-> c]
Recovery(g, i) == [kind |-> "recovery", id |-> g, n |-> i]
NoCode         == [kind |-> "none", id |-> 0, n |-> 0]

NoToken == [ver |-> 0, required |-> FALSE, verified |-> FALSE]
NoGrant == [nonce |-> 0, ver |-> 0, exp |-> 0, live |-> FALSE]
Cleared == [secret |-> 0, exp |-> 0]

(* What a person types that can be right: a code of any secret ever shown,
   for a time step near the present, or a recovery code ever printed. *)
TotpInputs == {Totp(s, now + d) : s \in 1..secrets, d \in Skew}
RecoveryInputs == {Recovery(g, i) : g \in 1..codeSet, i \in 1..CodeCount}

-----------------------------------------------------------------------------
(* Operations of lib/auth *)

(* accountRequiresMfa: host operators always, others once enrolled. *)
MfaRequired == AlwaysRequired \/ secret # 0

(* A refresh that trusts a verified cookie of an earlier session version. *)
RefreshKeepsVerified(t) ==
  [ver |-> sessionVersion, required |-> MfaRequired,
   verified |-> ~MfaRequired \/ (t.verified /\ t.required)]

(* refreshJwtTenancyIfStale: the claims as the account row has them now. *)
Refresh(t) ==
  [ver      |-> sessionVersion,
   required |-> MfaRequired,
   verified |-> \/ ~MfaRequired
                \/ t.verified /\ t.required /\ t.ver = sessionVersion]

(* The same with the account row unreadable: hosted mode fails closed. *)
Unrefreshed(t) == [t EXCEPT !.required = TRUE, !.verified = FALSE]

(* auth() *)
Claims(b) == {Refresh(session[b]), Unrefreshed(session[b])}

(* matchTotpCounter, with one step of clock skew either way *)
Matches(s, code) ==
  /\ s # 0
  /\ code.kind = "totp" /\ code.id = s
  /\ code.n \in (now - 1)..(now + 1)

(* consumeTotpCounterForUser *)
ConsumeCounter(code) ==
  /\ code.n > lastCounter
  /\ lastCounter' = code.n

(* consumeMfaRecoveryCode *)
ConsumeRecoveryCode(code) ==
  /\ code.kind = "recovery" /\ <<code.id, code.n>> \in unusedCodes
  /\ unusedCodes' = unusedCodes \ {<<code.id, code.n>>}

(* Either kind of factor, for verify and for replacing an authenticator *)
ConsumeFactor(code) ==
  \/ Matches(secret, code) /\ ConsumeCounter(code) /\ UNCHANGED unusedCodes
  \/ ConsumeRecoveryCode(code) /\ UNCHANGED lastCounter

(* History of an accepted code; an old authenticator's code is told apart. *)
Current(code) == code.kind = "recovery" \/ code.id = secret
Spend(code) ==
  /\ spent' = spent \cup {code}
  /\ replayed' = replayed \cup ({code} \cap spent)
  /\ reused' = IF Current(code) THEN reused \cup ({code} \cap spent) ELSE reused

(* A new secret whose first code is left unconsumed. *)
PersistSecretUnseeded(s, counter) ==
  /\ secret' = s /\ lastCounter' = 0
  /\ grace' = FALSE /\ sessionVersion' = sessionVersion + 1

(* persistTotpSecretForUser: the new secret, its counter, and no grace *)
PersistSecret(s, counter) ==
  /\ secret' = s
  /\ lastCounter' = counter
  /\ grace' = FALSE
  /\ sessionVersion' = sessionVersion + 1

(* rotateMfaRecoveryCodes: all codes used, a fresh set inserted *)
RotateCodes ==
  /\ codeSet < MaxCodeSets
  /\ codeSet' = codeSet + 1
  /\ unusedCodes' = {codeSet + 1} \X (1..CodeCount)

(* setPendingSecret *)
SetPending(paid) ==
  /\ secrets < MaxSecrets
  /\ secrets' = secrets + 1
  /\ pending' = [secret |-> secrets + 1, exp |-> now + PendingTTL]
  /\ pendingPaid' = paid

(* A clear that is forgotten: a confirmed QR stays pending. *)
KeepPending == UNCHANGED pending

(* clearPendingSecret *)
ClearPending == pending' = Cleared

(* assertNoPendingMfaGrant *)
GrantPending(ver) == grant.live /\ grant.ver = ver /\ grant.exp >= now

(* issueMfaGrant; the answer that carries the nonce may be lost *)
IssueGrant(b, ver) ==
  /\ nonces < MaxNonces
  /\ nonces' = nonces + 1
  /\ grant' = [nonce |-> nonces + 1, ver |-> ver, exp |-> now + GrantTTL, live |-> TRUE]
  /\ held' \in {held, [held EXCEPT ![b] = nonces + 1]}
  /\ UNCHANGED session

(* A lookup by account alone, whatever the nonce *)
GrantFoundAnyNonce(nonce) == grant.live

(* consumeMfaGrant: the row it uses up, and whether it lets the caller in *)
GrantFound(nonce) == grant.live /\ grant.nonce = nonce
GrantValid(nonce, ver) == GrantFound(nonce) /\ grant.ver = ver /\ now <= grant.exp
Consumed(nonce) == IF GrantFound(nonce) THEN [grant EXCEPT !.live = FALSE] ELSE grant

-----------------------------------------------------------------------------
(* Requests in flight *)

Idle == [stage |-> "idle", browser |-> NoBrowser, token |-> NoToken,
         code |-> NoCode, nonce |-> 0, reset |-> FALSE]

Count == started < MaxRequests /\ started' = started + 1

(* A request served in one step never occupies a slot. *)
AtOnce == Count /\ UNCHANGED request

Start(p, r) ==
  /\ request[p] = Idle
  /\ Count
  /\ request' = [request EXCEPT ![p] = r]

Continue(p, r) == request' = [request EXCEPT ![p] = r] /\ UNCHANGED started
Answer(p) == Continue(p, Idle)
GoTo(p, stage) == Continue(p, [request[p] EXCEPT !.stage = stage])

(* The account has no authenticator yet, or enrolled one long ago. *)
Init ==
  /\ now = 1
  /\ \/ secret = 0 /\ secrets = 0 /\ codeSet = 0 /\ unusedCodes = {}
     \/ secret = 1 /\ secrets = 1 /\ codeSet = 1 /\ unusedCodes = {1} \X (1..CodeCount)
  /\ sessionVersion = 0 /\ grace = FALSE /\ lastCounter = 0
  /\ pending = Cleared /\ pendingPaid = FALSE
  /\ grant = NoGrant
  /\ session = [b \in Browsers |-> [ver |-> 0, required |-> MfaRequired,
                                    verified |-> ~MfaRequired]]
  /\ held = [b \in Browsers |-> 0]
  /\ request = [p \in Slots |-> Idle]
  /\ nonces = 0 /\ started = 0
  /\ spent = {} /\ replayed = {} /\ reused = {}
  /\ redeemed = {} /\ redeemedAgain = {} /\ verifiedAt = {}

-----------------------------------------------------------------------------
(* The routes under the account lock *)

(* POST /api/mfa/verify: auth() finds the session version ... *)
StartVerify(p, b) ==
  /\ \E t \in Claims(b) :
       Start(p, [Idle EXCEPT !.stage = "verify", !.browser = b, !.token = t])
  /\ UNCHANGED <<now, accountVars, codeVars, pendingVars, grantVars, clientVars,
                 spentVars, redeemVars>>

(* ... and the transaction consumes the factor and issues a session grant. *)
Verify(p) ==
  LET q == request[p] IN
  /\ q.stage = "verify"
  /\ ~GrantPending(q.token.ver)
  /\ \E code \in TotpInputs \cup RecoveryInputs : ConsumeFactor(code) /\ Spend(code)
  /\ IssueGrant(q.browser, q.token.ver)
  /\ Answer(p)
  /\ UNCHANGED <<now, secret, sessionVersion, grace, codeSet, pendingVars, redeemVars>>

(* POST /api/mfa/enroll: show a QR, against a factor when replacing *)
EnrollFirst ==
  /\ AtOnce
  /\ secret = 0
  /\ SetPending(FALSE)
  /\ UNCHANGED <<now, accountVars, codeVars, grantVars, clientVars,
                 spentVars, redeemVars>>

EnrollReplacement ==
  /\ AtOnce
  /\ secret # 0
  /\ \E code \in TotpInputs \cup RecoveryInputs : ConsumeFactor(code) /\ Spend(code)
  /\ SetPending(TRUE)
  /\ UNCHANGED <<now, secret, sessionVersion, grace, codeSet, grantVars,
                 clientVars, redeemVars>>

(* POST /api/mfa/enroll/confirm *)
PendingLive == pending.secret # 0 /\ now <= pending.exp

(* getPendingSecret clears an expired row on the way to 409 no_pending. *)
ConfirmExpired ==
  /\ AtOnce
  /\ pending.secret # 0 /\ ~PendingLive
  /\ ClearPending
  /\ UNCHANGED <<now, accountVars, codeVars, pendingPaid, secrets, grantVars,
                 clientVars, spentVars, redeemVars>>

(* Enrollment bumps the version once; the grant is for the new version. *)
Confirm(b) ==
  /\ AtOnce
  /\ PendingLive
  /\ \E code \in TotpInputs :
       /\ Matches(pending.secret, code)
       /\ PersistSecret(pending.secret, code.n)
       /\ Spend(code)
  /\ RotateCodes
  /\ ClearPending
  /\ IssueGrant(b, sessionVersion')
  /\ UNCHANGED <<now, pendingPaid, secrets, redeemVars>>

(* POST /api/mfa/recovery-codes: a fresh set of recovery codes *)
RotateRecoveryCodes(b) ==
  /\ AtOnce
  /\ \E code \in TotpInputs :
       Matches(secret, code) /\ ConsumeCounter(code) /\ Spend(code)
  /\ RotateCodes
  /\ sessionVersion' = sessionVersion + 1
  /\ IssueGrant(b, sessionVersion')
  /\ UNCHANGED <<now, secret, grace, pendingVars, redeemVars>>

-----------------------------------------------------------------------------
(* Step-up challenges and the site-admin reset: no account lock *)

(* The gate of a privileged route, or of a reset of one's own authenticator,
   which is further refused while the account is in re-enroll grace *)
StartStepUp(p, b, reset) ==
  /\ LET t == Refresh(session[b]) IN t.required => t.verified \/ (grace /\ ~reset)
  /\ reset => secret # 0
  /\ Start(p, [Idle EXCEPT !.stage = "stepUp", !.browser = b, !.reset = reset])
  /\ UNCHANGED <<now, accountVars, codeVars, pendingVars, grantVars, clientVars,
                 spentVars, redeemVars>>

(* verifyFreshMfaStepUp: getTotpSecretForUser and the comparison ... *)
StepUpMatch(p) ==
  /\ request[p].stage = "stepUp"
  /\ \E code \in TotpInputs :
       /\ Matches(secret, code)
       /\ Continue(p, [request[p] EXCEPT !.stage = "matched", !.code = code])
  /\ UNCHANGED <<now, accountVars, codeVars, pendingVars, grantVars, clientVars,
                 spentVars, redeemVars>>

(* ... then consumeTotpCounterForUser, a transaction of its own. *)
StepUpConsume(p) ==
  LET q == request[p] IN
  /\ q.stage = "matched"
  /\ ConsumeCounter(q.code)
  /\ Spend(q.code)
  /\ IF q.reset THEN GoTo(p, "clearPending") ELSE Answer(p)
  /\ UNCHANGED <<now, secret, sessionVersion, grace, codeVars, pendingVars,
                 grantVars, clientVars, redeemVars>>

(* Another administrator resets this account (the step-up is on theirs). *)
StartReset(p) ==
  /\ secret # 0
  /\ Start(p, [Idle EXCEPT !.stage = "clearPending"])
  /\ UNCHANGED <<now, accountVars, codeVars, pendingVars, grantVars, clientVars,
                 spentVars, redeemVars>>

(* clearTotpEnrollmentForUser: four transactions one after the other *)
ResetClearPending(p) ==
  /\ request[p].stage = "clearPending"
  /\ ClearPending
  /\ GoTo(p, "clearUser")
  /\ UNCHANGED <<now, accountVars, codeVars, pendingPaid, secrets, grantVars,
                 clientVars, spentVars, redeemVars>>

ResetClearUser(p) ==
  /\ request[p].stage = "clearUser"
  /\ sessionVersion < MaxVersion
  /\ secret' = 0
  /\ sessionVersion' = sessionVersion + 1
  /\ lastCounter' = 0
  /\ GoTo(p, "invalidate")
  /\ UNCHANGED <<now, grace, codeVars, pendingVars, grantVars, clientVars,
                 spentVars, redeemVars>>

ResetInvalidateCodes(p) ==
  /\ request[p].stage = "invalidate"
  /\ unusedCodes' = {}
  /\ GoTo(p, "armGrace")
  /\ UNCHANGED <<now, accountVars, codeSet, pendingVars, grantVars, clientVars,
                 spentVars, redeemVars>>

ResetArmGrace(p) ==
  /\ request[p].stage = "armGrace"
  /\ grace' = TRUE
  /\ IF request[p].reset THEN GoTo(p, "selfVersion") ELSE Answer(p)
  /\ UNCHANGED <<now, secret, sessionVersion, lastCounter, codeVars, pendingVars,
                 grantVars, clientVars, spentVars, redeemVars>>

(* A self-reset keeps its browser verified: getSessionVersionForUser ... *)
ResetReadVersion(p) ==
  /\ request[p].stage = "selfVersion"
  /\ Continue(p, [request[p] EXCEPT !.stage = "selfIssue", !.token.ver = sessionVersion])
  /\ UNCHANGED <<now, accountVars, codeVars, pendingVars, grantVars, clientVars,
                 spentVars, redeemVars>>

(* ... and issueMfaGrant, which replaces whatever grant there is. *)
ResetIssueGrant(p) ==
  /\ request[p].stage = "selfIssue"
  /\ IssueGrant(request[p].browser, request[p].token.ver)
  /\ Answer(p)
  /\ UNCHANGED <<now, accountVars, codeVars, pendingVars, spentVars, redeemVars>>

-----------------------------------------------------------------------------
(* Sessions *)

(* A page, a session poll, or session.update({ mfaGrant }) with the nonce
   the page holds: the jwt callback refreshes the claims ... *)
StartSession(p, b) ==
  /\ \E t \in Claims(b), nonce \in {0, held[b]} :
       Start(p, [Idle EXCEPT !.stage = "session", !.browser = b, !.token = t,
                             !.nonce = nonce])
  /\ UNCHANGED <<now, accountVars, codeVars, pendingVars, grantVars, clientVars,
                 spentVars, redeemVars>>

(* ... redeems the grant, if there is one, and the answer sets the cookie. *)
RedeemGrant(p) ==
  LET q == request[p] IN
  /\ q.stage = "session"
  /\ GrantValid(q.nonce, q.token.ver)
  /\ grant' = Consumed(q.nonce)
  /\ session' = [session EXCEPT ![q.browser] = [q.token EXCEPT !.verified = TRUE]]
  /\ redeemed' = redeemed \cup {q.nonce}
  /\ redeemedAgain' = redeemedAgain \cup ({q.nonce} \cap redeemed)
  /\ verifiedAt' = verifiedAt \cup {<<q.browser, q.token.ver>>}
  /\ Answer(p)
  /\ UNCHANGED <<now, accountVars, codeVars, pendingVars, nonces, held, spentVars>>

SetCookie(p) ==
  LET q == request[p] IN
  /\ q.stage = "session"
  /\ ~GrantValid(q.nonce, q.token.ver)
  /\ grant' = Consumed(q.nonce)
  /\ session' = [session EXCEPT ![q.browser] = q.token]
  /\ Answer(p)
  /\ UNCHANGED <<now, accountVars, codeVars, pendingVars, nonces, held, spentVars,
                 redeemVars>>

(* authorize(): a password or a sign-in link starts a fresh cookie. *)
SignIn(b) ==
  /\ AtOnce
  /\ session' = [session EXCEPT ![b] = [ver |-> sessionVersion,
                   required |-> MfaRequired, verified |-> ~MfaRequired]]
  /\ held' = [held EXCEPT ![b] = 0]
  /\ UNCHANGED <<now, accountVars, codeVars, pendingVars, grantVars,
                 spentVars, redeemVars>>

-----------------------------------------------------------------------------
(* Environment *)

(* setUserRoles and the other changes of authority bump the version. *)
ChangeRoles ==
  /\ sessionVersion < MaxVersion
  /\ sessionVersion' = sessionVersion + 1
  /\ UNCHANGED <<now, secret, grace, lastCounter, codeVars, pendingVars, grantVars,
                 clientVars, requestVars, spentVars, redeemVars>>

(* A refused code, a dead replica or a failed call: no further write. *)
Abort(p) ==
  /\ request[p] # Idle
  /\ Answer(p)
  /\ UNCHANGED <<now, accountVars, codeVars, pendingVars, grantVars, clientVars,
                 spentVars, redeemVars>>

Tick ==
  /\ now < MaxNow
  /\ now' = now + 1
  /\ UNCHANGED <<accountVars, codeVars, pendingVars, grantVars, clientVars, requestVars,
                 spentVars, redeemVars>>

Locked ==
  \/ \E p \in Slots : Verify(p)
  \/ EnrollFirst \/ EnrollReplacement \/ ConfirmExpired
  \/ \E b \in Browsers : Confirm(b) \/ RotateRecoveryCodes(b)

Unlocked(p) ==
  \/ StepUpMatch(p) \/ StepUpConsume(p) \/ StartReset(p)
  \/ ResetClearPending(p) \/ ResetClearUser(p) \/ ResetInvalidateCodes(p)
  \/ ResetArmGrace(p) \/ ResetReadVersion(p) \/ ResetIssueGrant(p)
  \/ RedeemGrant(p) \/ SetCookie(p) \/ Abort(p)

Request(p, b) ==
  \/ StartVerify(p, b) \/ StartSession(p, b)
  \/ \E reset \in BOOLEAN : StartStepUp(p, b, reset)

Next ==
  \/ Locked
  \/ \E p \in Slots : Unlocked(p) \/ \E b \in Browsers : Request(p, b)
  \/ \E b \in Browsers : SignIn(b)
  \/ ChangeRoles
  \/ Tick

Spec == Init /\ [][Next]_vars

-----------------------------------------------------------------------------
(* Properties *)

RequestRecord ==
  [stage : Stages, browser : Browsers \cup {NoBrowser}, token : Token, code : Code,
   nonce : Nat, reset : BOOLEAN]

TypeOK ==
  /\ now \in Nat
  /\ secret \in 0..secrets /\ sessionVersion \in Nat /\ grace \in BOOLEAN
  /\ lastCounter \in Int
  /\ codeSet \in Nat /\ unusedCodes \subseteq (1..codeSet) \X (1..CodeCount)
  /\ pending \in [secret : 0..secrets, exp : Nat] /\ pendingPaid \in BOOLEAN
  /\ grant \in [nonce : 0..nonces, ver : Nat, exp : Nat, live : BOOLEAN]
  /\ session \in [Browsers -> Token] /\ held \in [Browsers -> 0..nonces]
  /\ request \in [Slots -> RequestRecord]
  /\ secrets \in Nat /\ nonces \in Nat /\ started \in Nat
  /\ spent \subseteq Code /\ replayed \subseteq Code /\ reused \subseteq Code
  /\ redeemed \subseteq Nat /\ redeemedAgain \subseteq Nat
  /\ verifiedAt \subseteq Browsers \X Nat

(***************************************************************************)
(* A recovery code is accepted once, and a TOTP code is accepted once as   *)
(* long as its secret is the account's: by whichever of the routes or the  *)
(* step-up challenge, on whichever replica, and although enrollment seeds  *)
(* and a reset zeroes the counter (mfa-totp-counters.ts:26-27).            *)
(***************************************************************************)
FactorUsedOnce == reused = {}

(***************************************************************************)
(* The same with no exception for an authenticator that was replaced or    *)
(* reset in the meantime: an "accepted" counter is consumed "once per      *)
(* account even when requests reach different app replicas concurrently".  *)
(***************************************************************************)
FactorNeverReplayed == replayed = {}

(***************************************************************************)
(* A request that a gate lets through as MFA-verified, after the refresh   *)
(* of its claims, comes from a browser that redeemed a grant issued for    *)
(* the present session version: a role change, a reset, a new              *)
(* authenticator or new recovery codes send every browser back to a        *)
(* challenge, whatever requests were in flight.                            *)
(***************************************************************************)
NoStaleVerification ==
  \A b \in Browsers :
    LET t == Refresh(session[b]) IN
    t.required /\ t.verified => <<b, sessionVersion>> \in verifiedAt

(***************************************************************************)
(* A QR that waits to replace a confirmed authenticator was paid for with  *)
(* a factor of the account: no interleaving of two setups and a reset      *)
(* turns an unpaid first-time QR into a replacement (enroll/route.ts).     *)
(***************************************************************************)
ReplacementNeedsProof == secret # 0 /\ pending.secret # 0 => pendingPaid

(***************************************************************************)
(* "A 24-hour durable re-enroll grace ... clears on successful enroll      *)
(* confirm" (docs/guides/HOSTED_SECURITY.md:84): an account that has an    *)
(* authenticator is not in grace.                                          *)
(***************************************************************************)
GraceOnlyWithoutAuthenticator == grace => secret = 0

(***************************************************************************)
(* No grant lets two requests in: not two tabs that submit the same nonce, *)
(* nor a retry of an update whose answer was lost.                         *)
(***************************************************************************)
GrantRedeemedOnce == redeemedAgain = {}

(* Each grant is a one-time token. *)
GrantStatus ==
  [n \in 1..MaxNonces |->
     IF n > nonces THEN "unissued"
     ELSE IF n \in redeemed THEN "spent"
     ELSE IF grant.nonce = n /\ grant.live THEN "live" ELSE "void"]

Grants == INSTANCE OneTimeToken WITH Tokens <- 1..MaxNonces, status <- GrantStatus

(***************************************************************************)
(* A grant that was superseded, refused or used never comes back: consume  *)
(* looks at the row's newest nonce only (mfa-grants.ts:10-14, 172).        *)
(***************************************************************************)
GrantsAreOneTime == Grants!Spec

=============================================================================
