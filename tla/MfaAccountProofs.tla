-------------------------- MODULE MfaAccountProofs --------------------------
(***************************************************************************)
(* Theorems about MfaAccount for any number of browsers, requests in       *)
(* flight, secrets, code sets and session versions: type correctness, no   *)
(* factor used twice, no stale verification, no unpaid replacement, and    *)
(* the refinement of OneTimeToken by the session grants.                   *)
(***************************************************************************)
EXTENDS MfaAccount, TLAPS

(* Every code a person can type is a code. *)
LEMMA InputsAreCodes ==
  TypeOK => TotpInputs \subseteq Code /\ RecoveryInputs \subseteq Code
<1> SUFFICES ASSUME TypeOK
             PROVE TotpInputs \subseteq Code /\ RecoveryInputs \subseteq Code
  OBVIOUS
<1>1. ASSUME NEW s \in 1..secrets, NEW d \in Skew PROVE Totp(s, now + d) \in Code
  <2>1. s \in Nat /\ now + d \in Int
    BY NumberAssumption DEF TypeOK
  <2> QED
    BY <2>1 DEF Totp, Code
<1>2. ASSUME NEW g \in 1..codeSet, NEW i \in 1..CodeCount PROVE Recovery(g, i) \in Code
  BY NumberAssumption DEF TypeOK, Recovery, Code
<1> QED
  BY <1>1, <1>2 DEF TotpInputs, RecoveryInputs

(* The claims a request can be served with *)
LEMMA ClaimsTyped ==
  ASSUME TypeOK, NEW b \in Browsers, NEW t \in Claims(b)
  PROVE  t \in Token
<1>1. session[b] \in Token
  BY DEF TypeOK
<1>2. Refresh(session[b]) \in Token
  BY <1>1, FlagAssumption DEF TypeOK, Refresh, Token, MfaRequired
<1>3. Unrefreshed(session[b]) \in Token
  BY <1>1 DEF Unrefreshed, Token
<1> QED
  BY <1>2, <1>3 DEF Claims

(* An idle slot and a slot that changes only its stage *)
LEMMA IdleTyped == Idle \in RequestRecord
BY DEF Idle, RequestRecord, Stages, NoToken, Token, NoCode, Code

(* Each accepted code is a code, and the history stays well-formed. *)
LEMMA SpendTyped ==
  ASSUME TypeOK, NEW code \in Code, Spend(code)
  PROVE  spent' \subseteq Code /\ replayed' \subseteq Code /\ reused' \subseteq Code
BY DEF TypeOK, Spend

(* Updating a function at one point *)
LEMMA ExceptTyped ==
  ASSUME NEW S, NEW T, NEW f \in [S -> T], NEW x, NEW v \in T
  PROVE  [f EXCEPT ![x] = v] \in [S -> T]
OBVIOUS

LEMMA IssueTyped ==
  ASSUME TypeOK, NEW b, NEW ver \in Nat, IssueGrant(b, ver)
  PROVE  /\ nonces' \in Nat /\ nonces' = nonces + 1
         /\ grant' \in [nonce : 0..nonces', ver : Nat, exp : Nat, live : BOOLEAN]
         /\ held' \in [Browsers -> 0..nonces']
         /\ session' \in [Browsers -> Token]
<1> USE DEF IssueGrant
<1>1. nonces' \in Nat /\ nonces' = nonces + 1
  BY DEF TypeOK
<1>2. now + GrantTTL \in Nat
  BY NumberAssumption DEF TypeOK
<1>3. grant' \in [nonce : 0..nonces', ver : Nat, exp : Nat, live : BOOLEAN]
  BY <1>1, <1>2
<1>4. held' \in [Browsers -> 0..nonces']
  <2>1. held \in [Browsers -> 0..nonces']
    BY <1>1 DEF TypeOK
  <2>2. nonces + 1 \in 0..nonces'
    BY <1>1
  <2>3. [held EXCEPT ![b] = nonces + 1] \in [Browsers -> 0..nonces']
    BY ONLY <2>1, <2>2, ExceptTyped
  <2> QED
    BY <2>1, <2>3
<1> QED
  BY <1>1, <1>3, <1>4 DEF TypeOK

LEMMA ConsumeTyped ==
  ASSUME TypeOK, NEW code \in Code, ConsumeFactor(code)
  PROVE  /\ lastCounter' \in Int
         /\ unusedCodes' \subseteq (1..codeSet) \X (1..CodeCount)
BY DEF TypeOK, Code, ConsumeFactor, ConsumeCounter, ConsumeRecoveryCode

LEMMA PendingTyped ==
  ASSUME TypeOK, NEW paid \in BOOLEAN, SetPending(paid)
  PROVE  /\ secrets' \in Nat /\ secrets' = secrets + 1
         /\ pending' \in [secret : 0..secrets', exp : Nat]
         /\ pendingPaid' \in BOOLEAN
<1>1. now + PendingTTL \in Nat
  BY NumberAssumption DEF TypeOK
<1> QED
  BY <1>1 DEF TypeOK, SetPending

LEMMA RotateTyped ==
  ASSUME TypeOK, RotateCodes
  PROVE  codeSet' \in Nat /\ unusedCodes' \subseteq (1..codeSet') \X (1..CodeCount)
BY DEF TypeOK, RotateCodes

LEMMA InitTypes == Init => TypeOK
<1> SUFFICES ASSUME Init PROVE TypeOK
  OBVIOUS
<1>1. request \in [Slots -> RequestRecord]
  BY IdleTyped DEF Init
<1>2. session \in [Browsers -> Token]
  BY FlagAssumption DEF Init, Token, MfaRequired
<1>3. unusedCodes \subseteq (1..codeSet) \X (1..CodeCount) /\ codeSet \in Nat
  BY DEF Init
<1>4. secret \in 0..secrets /\ secrets \in Nat
  BY DEF Init
<1>5. grant \in [nonce : 0..nonces, ver : Nat, exp : Nat, live : BOOLEAN]
  BY DEF Init, NoGrant
<1>6. /\ now \in Nat /\ sessionVersion \in Nat /\ lastCounter \in Int
      /\ nonces \in Nat /\ started \in Nat
  BY DEF Init
<1>10. grace \in BOOLEAN /\ pendingPaid \in BOOLEAN
  BY Zenon DEF Init
<1>7. pending \in [secret : 0..secrets, exp : Nat]
  BY <1>4 DEF Init, Cleared
<1>8. held \in [Browsers -> 0..nonces]
  BY DEF Init
<1>9. /\ spent \subseteq Code /\ replayed \subseteq Code /\ reused \subseteq Code
      /\ redeemed \subseteq Nat /\ redeemedAgain \subseteq Nat
      /\ verifiedAt \subseteq Browsers \X Nat
  BY DEF Init
<1> QED
  BY ONLY <1>1, <1>2, <1>3, <1>4, <1>5, <1>6, <1>7, <1>8, <1>9, <1>10
     DEF TypeOK

(* A request record with a new stage, and what it takes from the request *)
LEMMA StageTyped ==
  ASSUME NEW r \in RequestRecord, NEW s \in Stages
  PROVE  [r EXCEPT !.stage = s] \in RequestRecord
BY DEF RequestRecord

LEMMA StartTyped ==
  ASSUME NEW s \in Stages, NEW b \in Browsers, NEW t \in Token,
         NEW n \in Nat, NEW z \in BOOLEAN
  PROVE  /\ [Idle EXCEPT !.stage = s] \in RequestRecord
         /\ [Idle EXCEPT !.stage = s, !.browser = b, !.token = t] \in RequestRecord
         /\ [Idle EXCEPT !.stage = s, !.browser = b, !.reset = z] \in RequestRecord
         /\ [Idle EXCEPT !.stage = s, !.browser = b, !.token = t, !.nonce = n]
              \in RequestRecord
<1> QED
  BY IdleTyped DEF Idle, RequestRecord

LEMMA SlotsTyped ==
  ASSUME TypeOK, NEW p \in Slots, NEW r \in RequestRecord,
         Start(p, r) \/ Continue(p, r)
  PROVE  request' \in [Slots -> RequestRecord] /\ started' \in Nat
BY DEF TypeOK, Start, Continue, Count

LEMMA AnswerTyped ==
  ASSUME TypeOK, NEW p \in Slots, Answer(p)
  PROVE  request' \in [Slots -> RequestRecord] /\ started' \in Nat
BY IdleTyped, SlotsTyped DEF Answer

LEMMA GoToTyped ==
  ASSUME TypeOK, NEW p \in Slots, NEW s \in Stages, GoTo(p, s)
  PROVE  request' \in [Slots -> RequestRecord] /\ started' \in Nat
<1>1. [request[p] EXCEPT !.stage = s] \in RequestRecord
  BY StageTyped DEF TypeOK
<1> QED
  BY <1>1, SlotsTyped DEF GoTo

LEMMA TypeStep == TypeOK /\ [Next]_vars => TypeOK'
<1> SUFFICES ASSUME TypeOK, [Next]_vars PROVE TypeOK'
  OBVIOUS
<1> USE DEF accountVars, codeVars, pendingVars, grantVars, clientVars,
            requestVars, spentVars, redeemVars
<1>0. \A p \in Slots : /\ request[p] \in RequestRecord
                       /\ request[p].token \in Token
                       /\ request[p].token.ver \in Nat
                       /\ request[p].code \in Code /\ request[p].code.n \in Int
                       /\ request[p].nonce \in Nat
  BY DEF TypeOK, RequestRecord, Token, Code
<1>1. ASSUME NEW p \in Slots, Verify(p) PROVE TypeOK'
  <2>1. PICK code \in Code : ConsumeFactor(code) /\ Spend(code)
    BY <1>1, InputsAreCodes DEF Verify
  <2>2. IssueGrant(request[p].browser, request[p].token.ver) /\ Answer(p)
    BY <1>1 DEF Verify
  <2>3. /\ UNCHANGED <<now, secret, sessionVersion, grace, codeSet, pending,
                       pendingPaid, secrets, redeemed, redeemedAgain, verifiedAt>>
    BY <1>1 DEF Verify
  <2> QED
    BY <1>0, <2>1, <2>2, <2>3, ConsumeTyped, SpendTyped, IssueTyped, AnswerTyped
       DEF TypeOK
<1>2. ASSUME EnrollFirst \/ EnrollReplacement PROVE TypeOK'
  <2>0. ASSUME NEW paid \in BOOLEAN, SetPending(paid) PROVE secret \in 0..secrets'
    BY <2>0, PendingTyped DEF TypeOK
  <2>1. CASE EnrollFirst
    <3>1. SetPending(FALSE)
      BY <2>1 DEF EnrollFirst
    <3>3. started' \in Nat
      BY <2>1 DEF EnrollFirst, AtOnce, Count, TypeOK
    <3>2. UNCHANGED <<now, accountVars, codeVars, grantVars, clientVars, request,
                      spentVars, redeemVars>>
      BY <2>1 DEF EnrollFirst, AtOnce
    <3> QED
      BY <2>0, <3>1, <3>2, <3>3, PendingTyped DEF TypeOK
  <2>2. CASE EnrollReplacement
    <3>1. PICK code \in Code : ConsumeFactor(code) /\ Spend(code)
      BY <2>2, InputsAreCodes DEF EnrollReplacement
    <3>2. SetPending(TRUE)
      BY <2>2 DEF EnrollReplacement
    <3>4. started' \in Nat
      BY <2>2 DEF EnrollReplacement, AtOnce, Count, TypeOK
    <3>3. UNCHANGED <<now, secret, sessionVersion, grace, codeSet, grantVars,
                      clientVars, request, redeemVars>>
      BY <2>2 DEF EnrollReplacement, AtOnce
    <3> QED
      BY <2>0, <3>1, <3>2, <3>3, <3>4, ConsumeTyped, SpendTyped, PendingTyped DEF TypeOK
  <2> QED
    BY <1>2, <2>1, <2>2
<1>3. CASE ConfirmExpired
  BY <1>3 DEF ConfirmExpired, ClearPending, Cleared, TypeOK, AtOnce, Count
<1>4. ASSUME NEW b \in Browsers, Confirm(b) PROVE TypeOK'
  <2>1. PICK code \in Code : PersistSecret(pending.secret, code.n) /\ Spend(code)
    BY <1>4, InputsAreCodes DEF Confirm
  <2>2. /\ secret' \in 0..secrets /\ lastCounter' \in Int /\ grace' = FALSE
        /\ sessionVersion' \in Nat
    BY <2>1 DEF PersistSecret, TypeOK, Code
  <2>3. RotateCodes /\ pending' = Cleared /\ IssueGrant(b, sessionVersion')
    BY <1>4 DEF Confirm, ClearPending
  <2>4. UNCHANGED <<now, pendingPaid, secrets, request, redeemed, redeemedAgain, verifiedAt>>
        /\ started' \in Nat
    BY <1>4 DEF Confirm, AtOnce, Count, TypeOK
  <2>5. pending' \in [secret : 0..secrets', exp : Nat]
    BY <2>3, <2>4 DEF TypeOK, Cleared
  <2>6. grace' \in BOOLEAN /\ secret' \in 0..secrets'
    BY <2>2, <2>4
  <2> QED
    BY <2>1, <2>2, <2>3, <2>4, <2>5, <2>6, RotateTyped, SpendTyped, IssueTyped DEF TypeOK
<1>5. ASSUME NEW b \in Browsers, RotateRecoveryCodes(b) PROVE TypeOK'
  <2>1. PICK code \in Code : ConsumeCounter(code) /\ Spend(code)
    BY <1>5, InputsAreCodes DEF RotateRecoveryCodes
  <2>2. lastCounter' \in Int /\ sessionVersion' \in Nat
    BY <1>5, <2>1 DEF RotateRecoveryCodes, ConsumeCounter, TypeOK, Code
  <2>3. RotateCodes /\ IssueGrant(b, sessionVersion')
    BY <1>5 DEF RotateRecoveryCodes
  <2>4. UNCHANGED <<now, secret, grace, pending, pendingPaid, secrets, request,
                    redeemed, redeemedAgain, verifiedAt>> /\ started' \in Nat
    BY <1>5 DEF RotateRecoveryCodes, AtOnce, Count, TypeOK
  <2> QED
    BY <2>1, <2>2, <2>3, <2>4, RotateTyped, SpendTyped, IssueTyped DEF TypeOK
<1>6. ASSUME NEW p \in Slots, NEW b \in Browsers, Request(p, b) PROVE TypeOK'
  <2>1. ASSUME NEW t \in Claims(b) PROVE t \in Token
    BY ClaimsTyped
  <2>2. held[b] \in Nat
    BY DEF TypeOK
  <2>3. request' \in [Slots -> RequestRecord] /\ started' \in Nat
    <3>1. CASE StartVerify(p, b)
      BY <2>1, <3>1, StartTyped, SlotsTyped DEF StartVerify, Stages
    <3>2. CASE StartSession(p, b)
      BY <2>1, <2>2, <3>2, StartTyped, SlotsTyped DEF StartSession, Stages
    <3>3. ASSUME NEW z \in BOOLEAN, StartStepUp(p, b, z)
          PROVE request' \in [Slots -> RequestRecord] /\ started' \in Nat
      <4>1. "stepUp" \in Stages /\ NoToken \in Token /\ 0 \in Nat
        BY DEF Stages, NoToken, Token
      <4>2. [Idle EXCEPT !.stage = "stepUp", !.browser = b, !.reset = z] \in RequestRecord
        BY <4>1, StartTyped
      <4> QED
        BY <3>3, <4>2, SlotsTyped DEF StartStepUp
    <3> QED
      BY <1>6, <3>1, <3>2, <3>3 DEF Request
  <2>4. UNCHANGED <<now, accountVars, codeVars, pendingVars, grantVars, clientVars,
                    spentVars, redeemVars>>
    BY <1>6 DEF Request, StartVerify, StartSession, StartStepUp
  <2> QED
    BY <2>3, <2>4 DEF TypeOK
<1>7. ASSUME NEW p \in Slots, Unlocked(p) PROVE TypeOK'
  <2>1. CASE StepUpMatch(p)
    <3>1. PICK code \in Code :
            Continue(p, [request[p] EXCEPT !.stage = "matched", !.code = code])
      BY <2>1, InputsAreCodes DEF StepUpMatch
    <3>2. [request[p] EXCEPT !.stage = "matched", !.code = code] \in RequestRecord
      <4>1. "matched" \in Stages
        BY DEF Stages
      <4> QED
        BY <1>0, <4>1 DEF RequestRecord
    <3> QED
      BY <2>1, <3>1, <3>2, SlotsTyped DEF StepUpMatch, TypeOK
  <2>2. CASE StepUpConsume(p)
    <3>1. request' \in [Slots -> RequestRecord] /\ started' \in Nat
      BY <2>2, AnswerTyped, GoToTyped DEF StepUpConsume, Stages
    <3>2. lastCounter' \in Int /\ Spend(request[p].code)
      BY <1>0, <2>2 DEF StepUpConsume, ConsumeCounter
    <3> QED
      BY <1>0, <2>2, <3>1, <3>2, SpendTyped DEF StepUpConsume, TypeOK
  <2>3. CASE StartReset(p)
    <3>1. [Idle EXCEPT !.stage = "clearPending"] \in RequestRecord
      BY IdleTyped, StageTyped DEF Stages
    <3> QED
      BY <2>3, <3>1, SlotsTyped DEF StartReset, TypeOK
  <2>4. CASE ResetClearPending(p)
    BY <2>4, GoToTyped DEF ResetClearPending, ClearPending, Cleared, TypeOK, Stages
  <2>5. CASE ResetClearUser(p)
    BY <2>5, GoToTyped DEF ResetClearUser, TypeOK, Stages
  <2>6. CASE ResetInvalidateCodes(p)
    BY <2>6, GoToTyped DEF ResetInvalidateCodes, TypeOK, Stages
  <2>7. CASE ResetArmGrace(p)
    BY <2>7, GoToTyped, AnswerTyped DEF ResetArmGrace, TypeOK, Stages
  <2>8. CASE ResetReadVersion(p)
    <3>1. [request[p] EXCEPT !.stage = "selfIssue", !.token.ver = sessionVersion]
            \in RequestRecord
      <4>1. "selfIssue" \in Stages /\ sessionVersion \in Nat
        BY DEF Stages, TypeOK
      <4>2. [request[p].token EXCEPT !.ver = sessionVersion] \in Token
        BY <1>0, <4>1 DEF Token
      <4> QED
        BY <1>0, <4>1, <4>2 DEF RequestRecord
    <3> QED
      BY <2>8, <3>1, SlotsTyped DEF ResetReadVersion, TypeOK
  <2>9. CASE ResetIssueGrant(p)
    BY <1>0, <2>9, IssueTyped, AnswerTyped DEF ResetIssueGrant, TypeOK
  <2>10. CASE RedeemGrant(p)
    <3>1. request' \in [Slots -> RequestRecord] /\ started' \in Nat
      BY <2>10, AnswerTyped DEF RedeemGrant
    <3>2. grant' \in [nonce : 0..nonces, ver : Nat, exp : Nat, live : BOOLEAN]
      BY <2>10 DEF RedeemGrant, Consumed, TypeOK
    <3>3. [request[p].token EXCEPT !.verified = TRUE] \in Token
      BY <1>0 DEF Token
    <3>4. session' \in [Browsers -> Token]
      BY <2>10, <3>3, ExceptTyped DEF RedeemGrant, TypeOK
    <3> QED
      BY <1>0, <2>10, <3>1, <3>2, <3>4 DEF RedeemGrant, TypeOK
  <2>11. CASE SetCookie(p)
    <3>1. request' \in [Slots -> RequestRecord] /\ started' \in Nat
      BY <2>11, AnswerTyped DEF SetCookie
    <3>2. grant' \in [nonce : 0..nonces, ver : Nat, exp : Nat, live : BOOLEAN]
      BY <2>11 DEF SetCookie, Consumed, TypeOK
    <3>3. session' \in [Browsers -> Token]
      BY <1>0, <2>11, ExceptTyped DEF SetCookie, TypeOK
    <3> QED
      BY <2>11, <3>1, <3>2, <3>3 DEF SetCookie, TypeOK
  <2>12. CASE Abort(p)
    BY <2>12, AnswerTyped DEF Abort, TypeOK
  <2> QED
    BY <1>7, <2>1, <2>2, <2>3, <2>4, <2>5, <2>6, <2>7, <2>8, <2>9, <2>10, <2>11, <2>12
       DEF Unlocked
<1>8. ASSUME NEW b \in Browsers, SignIn(b) PROVE TypeOK'
  <2>1. [ver |-> sessionVersion, required |-> MfaRequired, verified |-> ~MfaRequired]
          \in Token
    BY FlagAssumption DEF Token, MfaRequired, TypeOK
  <2>2. session' \in [Browsers -> Token]
    BY <1>8, <2>1, ExceptTyped DEF SignIn, TypeOK
  <2> QED
    BY <1>8, <2>2 DEF SignIn, TypeOK, AtOnce, Count
<1>9. CASE ChangeRoles
  BY <1>9 DEF ChangeRoles, TypeOK
<1>10. CASE Tick
  BY <1>10 DEF Tick, TypeOK
<1>11. CASE UNCHANGED vars
  BY <1>11 DEF vars, TypeOK
<1> QED
  BY <1>1, <1>2, <1>3, <1>4, <1>5, <1>6, <1>7, <1>8, <1>9, <1>10, <1>11
     DEF Next, Locked

(***************************************************************************)
(* Cookies, grants, codes and requests in flight stay well-formed, nonces  *)
(* and secrets within the numbers handed out, and an account never has     *)
(* more unused recovery codes than one set holds.                          *)
(***************************************************************************)
THEOREM TypesCorrect == Spec => []TypeOK
<1> QED
  BY InitTypes, TypeStep, PTL DEF Spec

-----------------------------------------------------------------------------
(* No factor is used twice *)

IsTotp(code) == code.kind = "totp"
IsRecovery(code) == code.kind = "recovery"

(* An accepted code was shown before, and an accepted recovery code is used up. *)
SpentKnown ==
  \A c \in spent :
    \/ IsTotp(c) /\ c.id \in 1..secrets
    \/ IsRecovery(c) /\ c.id \in 1..codeSet /\ <<c.id, c.n>> \notin unusedCodes

(* The counter is past every accepted code of the present authenticator. *)
CounterCovers ==
  \A c \in spent : IsTotp(c) /\ c.id = secret => c.n <= lastCounter

(* A pending secret has not been in use: it is not the account's, no code of
   it was accepted, and no step-up challenge holds a code of it. *)
PendingFresh ==
  pending.secret # 0 =>
    /\ pending.secret # secret
    /\ \A c \in spent : IsTotp(c) => c.id # pending.secret
    /\ \A p \in Slots : request[p].stage = "matched" =>
                         request[p].code.id # pending.secret

(* A step-up challenge holds a code of a secret the account has had. *)
MatchedKnown ==
  \A p \in Slots : request[p].stage = "matched" =>
    IsTotp(request[p].code) /\ request[p].code.id \in 1..secrets

FactorInv ==
  SpentKnown /\ CounterCovers /\ PendingFresh /\ MatchedKnown /\ FactorUsedOnce

LEMMA InitFactor == Init => FactorInv
<1> SUFFICES ASSUME Init PROVE FactorInv
  OBVIOUS
<1>1. spent = {} /\ reused = {} /\ pending.secret = 0
  BY DEF Init, Cleared
<1>2. \A p \in Slots : request[p].stage = "idle"
  BY DEF Init, Idle
<1> QED
  BY <1>1, <1>2 DEF FactorInv, SpentKnown, CounterCovers, PendingFresh,
                    MatchedKnown, FactorUsedOnce

(* The codes accepted so far are of secrets that were shown. *)
LEMMA SpentIds ==
  ASSUME TypeOK, SpentKnown, NEW c \in spent, IsTotp(c)
  PROVE  c.id \in 1..secrets /\ c.id # 0 /\ c.id # secrets + 1
<1>1. c.id \in 1..secrets
  BY DEF SpentKnown, IsTotp, IsRecovery
<1>2. secrets \in Nat
  BY DEF TypeOK
<1> QED
  BY <1>1, <1>2

(* What Spend does to the histories when the code is new or out of use *)
LEMMA SpendOnce ==
  ASSUME FactorUsedOnce, NEW code, Spend(code), code \notin spent \/ ~Current(code)
  PROVE  FactorUsedOnce' /\ spent' = spent \cup {code}
BY DEF FactorUsedOnce, Spend

(* A factor that is consumed was not accepted before, and is covered now. *)
LEMMA ConsumeOnce ==
  ASSUME TypeOK, FactorInv, NEW code \in Code, ConsumeFactor(code),
         UNCHANGED <<secret, codeSet>>
  PROVE  /\ code \notin spent
         /\ \A c \in spent \cup {code} :
              /\ \/ IsTotp(c) /\ c.id \in 1..secrets
                 \/ IsRecovery(c) /\ c.id \in 1..codeSet /\ <<c.id, c.n>> \notin unusedCodes'
              /\ IsTotp(c) /\ c.id = secret => c.n <= lastCounter'
              /\ pending.secret # 0 /\ IsTotp(c) => c.id # pending.secret
<1> USE DEF IsTotp, IsRecovery
<1>1. CASE Matches(secret, code) /\ ConsumeCounter(code) /\ UNCHANGED unusedCodes
  <2>1. code.kind = "totp" /\ code.id = secret /\ secret # 0
    BY <1>1 DEF Matches
  <2>2. code.n > lastCounter /\ lastCounter' = code.n /\ code.n \in Int
    BY <1>1 DEF ConsumeCounter, Code
  <2>3. \A c \in spent : c.n \in Int
    BY DEF TypeOK, Code
  <2>4. lastCounter \in Int /\ secret \in 1..secrets
    BY <2>1 DEF TypeOK
  <2>5. unusedCodes' = unusedCodes
    BY <1>1
  <2> QED
    BY <2>1, <2>2, <2>3, <2>4, <2>5
       DEF FactorInv, SpentKnown, CounterCovers, PendingFresh
<1>2. CASE ConsumeRecoveryCode(code) /\ UNCHANGED lastCounter
  <2>1. code.kind = "recovery" /\ <<code.id, code.n>> \in unusedCodes
    BY <1>2 DEF ConsumeRecoveryCode
  <2>2. code.id \in 1..codeSet
    BY <2>1 DEF TypeOK
  <2>3. unusedCodes' = unusedCodes \ {<<code.id, code.n>>} /\ lastCounter' = lastCounter
    BY <1>2 DEF ConsumeRecoveryCode
  <2> QED
    BY <2>1, <2>2, <2>3
       DEF FactorInv, SpentKnown, CounterCovers, PendingFresh
<1> QED
  BY <1>1, <1>2 DEF ConsumeFactor

(* A fresh set has none of the recovery codes accepted so far. *)
LEMMA RotateFresh ==
  ASSUME TypeOK, RotateCodes, NEW id \in 1..codeSet, NEW n
  PROVE  id \in 1..codeSet' /\ <<id, n>> \notin unusedCodes'
<1>1. codeSet \in Nat /\ codeSet' = codeSet + 1
  BY DEF TypeOK, RotateCodes
<1>2. id # codeSet + 1 /\ id \in 1..codeSet'
  BY <1>1
<1>3. unusedCodes' = {codeSet + 1} \X (1..CodeCount)
  BY DEF RotateCodes
<1> QED
  BY <1>2, <1>3

(* Requests that begin or end hold no matched code. *)
LEMMA NotMatched ==
  ASSUME TypeOK, NEW p \in Slots, NEW r, r.stage # "matched",
         Start(p, r) \/ Continue(p, r)
  PROVE  \A s \in Slots : request'[s].stage = "matched" =>
           request'[s] = request[s]
BY DEF TypeOK, Start, Continue

LEMMA AnswerNotMatched ==
  ASSUME TypeOK, NEW p \in Slots, Answer(p)
  PROVE  \A s \in Slots : request'[s].stage = "matched" =>
           request'[s] = request[s]
<1>1. Idle.stage # "matched"
  BY DEF Idle
<1> QED
  BY <1>1, NotMatched DEF Answer

LEMMA GoToNotMatched ==
  ASSUME TypeOK, NEW p \in Slots, NEW s, s # "matched", GoTo(p, s)
  PROVE  \A x \in Slots : request'[x].stage = "matched" =>
           request'[x] = request[x]
<1>1. [request[p] EXCEPT !.stage = s].stage = s
  BY DEF TypeOK, RequestRecord
<1> QED
  BY <1>1, NotMatched DEF GoTo

LEMMA FactorStep == TypeOK /\ TypeOK' /\ FactorInv /\ [Next]_vars => FactorInv'
<1> SUFFICES ASSUME TypeOK, TypeOK', FactorInv, [Next]_vars PROVE FactorInv'
  OBVIOUS
<1> USE DEF accountVars, codeVars, pendingVars, grantVars, clientVars,
            requestVars, spentVars, redeemVars
<1>a. ASSUME UNCHANGED <<spent, reused, secret, lastCounter, codeSet, unusedCodes,
                         pending, secrets>>,
             \A s \in Slots : request'[s].stage = "matched" => request'[s] = request[s]
      PROVE  FactorInv'
  BY <1>a DEF FactorInv, SpentKnown, CounterCovers, PendingFresh, MatchedKnown,
              FactorUsedOnce, IsTotp, IsRecovery
<1>1. ASSUME NEW p \in Slots, Verify(p) PROVE FactorInv'
  <2>1. PICK code \in Code : ConsumeFactor(code) /\ Spend(code)
    BY <1>1, InputsAreCodes DEF Verify
  <2>2. UNCHANGED <<secret, codeSet, pending, secrets>> /\ Answer(p)
    BY <1>1 DEF Verify
  <2>3. FactorUsedOnce' /\ spent' = spent \cup {code}
    BY <2>1, <2>2, ConsumeOnce, SpendOnce DEF FactorInv
  <2> QED
    BY <2>1, <2>2, <2>3, ConsumeOnce, AnswerNotMatched
       DEF FactorInv, SpentKnown, CounterCovers, PendingFresh, MatchedKnown,
           IsTotp, IsRecovery
<1>2. CASE EnrollFirst
  <2>1. /\ UNCHANGED <<spent, reused, secret, lastCounter, codeSet, unusedCodes, request>>
        /\ pending'.secret = secrets + 1 /\ secrets' = secrets + 1
    BY <1>2 DEF EnrollFirst, SetPending, AtOnce
  <2>2. secret \in 0..secrets /\ secrets \in Nat
    BY DEF TypeOK
  <2>3. SpentKnown' /\ MatchedKnown'
    BY <2>1, <2>2 DEF FactorInv, SpentKnown, MatchedKnown, IsTotp, IsRecovery
  <2>4. CounterCovers' /\ FactorUsedOnce'
    BY <2>1 DEF FactorInv, CounterCovers, FactorUsedOnce, IsTotp
  <2>5. \A p \in Slots : request[p].stage = "matched" => request[p].code.id # secrets + 1
    BY <2>2 DEF FactorInv, MatchedKnown
  <2>6. \A c \in spent : IsTotp(c) => c.id # secrets + 1
    BY SpentIds DEF FactorInv
  <2>7. PendingFresh'
    BY <2>1, <2>2, <2>5, <2>6 DEF PendingFresh
  <2> QED
    BY <2>3, <2>4, <2>7 DEF FactorInv
<1>3. CASE EnrollReplacement
  <2>1. PICK code \in Code : ConsumeFactor(code) /\ Spend(code)
    BY <1>3, InputsAreCodes DEF EnrollReplacement
  <2>2. /\ UNCHANGED <<secret, codeSet, request>>
        /\ pending'.secret = secrets + 1 /\ secrets' = secrets + 1
    BY <1>3 DEF EnrollReplacement, SetPending, AtOnce
  <2>3. FactorUsedOnce' /\ spent' = spent \cup {code}
    BY <2>1, <2>2, ConsumeOnce, SpendOnce DEF FactorInv
  <2>4. secret \in 0..secrets /\ secrets \in Nat
    BY DEF TypeOK
  <2>a. UNCHANGED <<secret, codeSet>>
    BY <2>2
  <2>b. \A c \in spent' :
          \/ IsTotp(c) /\ c.id \in 1..secrets
          \/ IsRecovery(c) /\ c.id \in 1..codeSet /\ <<c.id, c.n>> \notin unusedCodes'
    BY <2>1, <2>3, <2>a, ConsumeOnce
  <2>5. SpentKnown'
    <3>1. \A id \in 1..secrets : id \in 1..secrets'
      BY <2>2, <2>4
    <3>2. codeSet' = codeSet
      BY <2>2
    <3>3. \A c \in spent' :
            \/ IsTotp(c) /\ c.id \in 1..secrets'
            \/ IsRecovery(c) /\ c.id \in 1..codeSet' /\ <<c.id, c.n>> \notin unusedCodes'
      BY <2>b, <3>1, <3>2
    <3> QED
      BY <3>3 DEF SpentKnown, IsTotp, IsRecovery
  <2>6. CounterCovers'
    BY <2>1, <2>2, <2>3, ConsumeOnce DEF CounterCovers, IsTotp
  <2>7. MatchedKnown'
    BY <2>2, <2>4 DEF FactorInv, MatchedKnown, IsTotp
  <2>8. \A c \in spent' : IsTotp(c) => c.id # secrets + 1
    <3>1. ASSUME NEW c \in spent', IsTotp(c) PROVE c.id \in 1..secrets
      BY <2>b, <3>1 DEF IsTotp, IsRecovery
    <3> QED
      BY <2>4, <3>1
  <2>c. \A p \in Slots : request[p].stage = "matched" => request[p].code.id # secrets + 1
    BY <2>4 DEF FactorInv, MatchedKnown
  <2>9. PendingFresh'
    BY <2>2, <2>4, <2>8, <2>c DEF PendingFresh
  <2> QED
    BY <2>3, <2>5, <2>6, <2>7, <2>9 DEF FactorInv
<1>4. CASE ConfirmExpired
  BY <1>4 DEF ConfirmExpired, ClearPending, Cleared, AtOnce, FactorInv, SpentKnown,
              CounterCovers, PendingFresh, MatchedKnown, FactorUsedOnce, IsTotp, IsRecovery
<1>5. ASSUME NEW b \in Browsers, Confirm(b) PROVE FactorInv'
  <2>1. PICK code \in Code : /\ Matches(pending.secret, code)
                             /\ PersistSecret(pending.secret, code.n)
                             /\ Spend(code)
    BY <1>5, InputsAreCodes DEF Confirm
  <2>2. /\ IsTotp(code) /\ code.id = pending.secret /\ pending.secret # 0
        /\ secret' = pending.secret /\ lastCounter' = code.n /\ code.n \in Int
    BY <2>1 DEF Matches, PersistSecret, IsTotp, Code
  <2>3. /\ codeSet' = codeSet + 1 /\ unusedCodes' = {codeSet + 1} \X (1..CodeCount)
        /\ pending'.secret = 0 /\ UNCHANGED <<secrets, request>>
    BY <1>5 DEF Confirm, RotateCodes, ClearPending, Cleared, AtOnce
  <2>4. code \notin spent
    BY <2>2 DEF FactorInv, PendingFresh
  <2>5. FactorUsedOnce' /\ spent' = spent \cup {code}
    BY <2>1, <2>4, SpendOnce DEF FactorInv
  <2>6. pending.secret \in 0..secrets /\ secrets \in Nat /\ codeSet \in Nat
    BY DEF TypeOK
  <2>7. SpentKnown'
    <3>1. RotateCodes /\ code.id \in 1..secrets'
      BY <1>5, <2>2, <2>3, <2>6 DEF Confirm
    <3>2. \A c \in spent' : IsRecovery(c) => c \in spent
      BY <2>2, <2>5 DEF IsTotp, IsRecovery
    <3>3. secrets' = secrets
      BY <2>3
    <3> QED
      <4>1. ASSUME NEW c \in spent', IsRecovery(c)
            PROVE  c.id \in 1..codeSet' /\ <<c.id, c.n>> \notin unusedCodes'
        <5>1. c \in spent /\ c.id \in 1..codeSet
          BY <3>2, <4>1 DEF FactorInv, SpentKnown, IsTotp, IsRecovery
        <5> QED
          BY <3>1, <5>1, RotateFresh
      <4>2. ASSUME NEW c \in spent', ~IsRecovery(c) PROVE IsTotp(c) /\ c.id \in 1..secrets'
        BY <3>1, <3>3, <4>2, <2>2, <2>5 DEF FactorInv, SpentKnown
      <4> QED
        BY <4>1, <4>2 DEF SpentKnown, IsTotp, IsRecovery
  <2>8. CounterCovers'
    BY <2>2, <2>5 DEF FactorInv, CounterCovers, PendingFresh, IsTotp
  <2> QED
    BY <2>3, <2>5, <2>7, <2>8 DEF FactorInv, PendingFresh, MatchedKnown, IsTotp
<1>6. ASSUME NEW b \in Browsers, RotateRecoveryCodes(b) PROVE FactorInv'
  <2>1. PICK code \in Code : /\ Matches(secret, code) /\ ConsumeCounter(code)
                             /\ Spend(code)
    BY <1>6, InputsAreCodes DEF RotateRecoveryCodes
  <2>2. /\ IsTotp(code) /\ code.id = secret /\ secret # 0
        /\ code.n > lastCounter /\ lastCounter' = code.n /\ code.n \in Int
    BY <2>1 DEF Matches, ConsumeCounter, IsTotp, Code
  <2>3. /\ codeSet' = codeSet + 1 /\ unusedCodes' = {codeSet + 1} \X (1..CodeCount)
        /\ UNCHANGED <<secret, pending, secrets, request>>
    BY <1>6 DEF RotateRecoveryCodes, RotateCodes, AtOnce
  <2>4. lastCounter \in Int /\ secret \in 0..secrets /\ codeSet \in Nat /\ secrets \in Nat
        /\ \A c \in spent : c.n \in Int
    BY DEF TypeOK, Code
  <2>5. code \notin spent
    BY <2>2, <2>4 DEF FactorInv, CounterCovers
  <2>6. FactorUsedOnce' /\ spent' = spent \cup {code}
    BY <2>1, <2>5, SpendOnce DEF FactorInv
  <2>7. SpentKnown'
    <3>1. RotateCodes /\ code.id \in 1..secrets'
      BY <1>6, <2>2, <2>3, <2>4 DEF RotateRecoveryCodes
    <3>2. \A c \in spent' : IsRecovery(c) => c \in spent
      BY <2>2, <2>6 DEF IsTotp, IsRecovery
    <3>3. secrets' = secrets
      BY <2>3
    <3> QED
      <4>1. ASSUME NEW c \in spent', IsRecovery(c)
            PROVE  c.id \in 1..codeSet' /\ <<c.id, c.n>> \notin unusedCodes'
        <5>1. c \in spent /\ c.id \in 1..codeSet
          BY <3>2, <4>1 DEF FactorInv, SpentKnown, IsTotp, IsRecovery
        <5> QED
          BY <3>1, <5>1, RotateFresh
      <4>2. ASSUME NEW c \in spent', ~IsRecovery(c) PROVE IsTotp(c) /\ c.id \in 1..secrets'
        BY <3>1, <3>3, <4>2, <2>2, <2>6 DEF FactorInv, SpentKnown
      <4> QED
        BY <4>1, <4>2 DEF SpentKnown, IsTotp, IsRecovery
  <2>8. CounterCovers'
    BY <2>2, <2>3, <2>4, <2>6 DEF FactorInv, CounterCovers, IsTotp
  <2> QED
    BY <2>2, <2>3, <2>6, <2>7, <2>8 DEF FactorInv, PendingFresh, MatchedKnown, IsTotp
<1>7. ASSUME NEW p \in Slots, NEW b \in Browsers, Request(p, b) PROVE FactorInv'
  <2>1. UNCHANGED <<accountVars, codeVars, pendingVars, spentVars>>
    BY <1>7 DEF Request, StartVerify, StartSession, StartStepUp
  <2>2. PICK r : Start(p, r) /\ r.stage # "matched"
    <3>2. CASE StartVerify(p, b)
      <4>1. PICK t \in Claims(b) :
              Start(p, [Idle EXCEPT !.stage = "verify", !.browser = b, !.token = t])
        BY <3>2 DEF StartVerify
      <4>2. [Idle EXCEPT !.stage = "verify", !.browser = b, !.token = t].stage # "matched"
        BY DEF Idle
      <4> QED
        BY <4>1, <4>2
    <3>3. CASE StartSession(p, b)
      <4>1. PICK t \in Claims(b), n \in {0, held[b]} :
              Start(p, [Idle EXCEPT !.stage = "session", !.browser = b, !.token = t,
                                    !.nonce = n])
        BY <3>3 DEF StartSession
      <4>2. [Idle EXCEPT !.stage = "session", !.browser = b, !.token = t,
                         !.nonce = n].stage # "matched"
        BY DEF Idle
      <4> QED
        BY <4>1, <4>2
    <3>4. ASSUME NEW z \in BOOLEAN, StartStepUp(p, b, z)
          PROVE  \E r : Start(p, r) /\ r.stage # "matched"
      <4>1. Start(p, [Idle EXCEPT !.stage = "stepUp", !.browser = b, !.reset = z])
        BY <3>4 DEF StartStepUp
      <4>2. [Idle EXCEPT !.stage = "stepUp", !.browser = b, !.reset = z].stage # "matched"
        BY DEF Idle
      <4> QED
        BY <4>1, <4>2
    <3> QED
      BY <1>7, <3>2, <3>3, <3>4 DEF Request
  <2> QED
    BY <1>a, <2>1, <2>2, NotMatched
<1>8. ASSUME NEW p \in Slots, StepUpMatch(p) PROVE FactorInv'
  <2>1. PICK code \in Code :
          /\ Matches(secret, code)
          /\ Continue(p, [request[p] EXCEPT !.stage = "matched", !.code = code])
    BY <1>8, InputsAreCodes DEF StepUpMatch
  <2>2. UNCHANGED <<accountVars, codeVars, pendingVars, spentVars>>
    BY <1>8 DEF StepUpMatch
  <2>3. /\ request'[p].code = code
        /\ \A s \in Slots : s # p => request'[s] = request[s]
    BY <2>1 DEF Continue, TypeOK, RequestRecord
  <2>4. IsTotp(code) /\ code.id = secret /\ code.id \in 1..secrets
    BY <2>1 DEF Matches, IsTotp, TypeOK
  <2> QED
    BY <2>2, <2>3, <2>4 DEF FactorInv, SpentKnown, CounterCovers, PendingFresh,
                            MatchedKnown, FactorUsedOnce, IsTotp, IsRecovery
<1>9. ASSUME NEW p \in Slots, StepUpConsume(p) PROVE FactorInv'
  <2> DEFINE code == request[p].code
  <2>1. /\ IsTotp(code) /\ code.id \in 1..secrets /\ code.n \in Int /\ code \in Code
        /\ code.n > lastCounter /\ lastCounter' = code.n
        /\ pending.secret # 0 => code.id # pending.secret
    BY <1>9 DEF StepUpConsume, ConsumeCounter, FactorInv, MatchedKnown, PendingFresh,
                TypeOK, RequestRecord, Code
  <2>2. UNCHANGED <<secret, codeSet, unusedCodes, pending, secrets>>
    BY <1>9 DEF StepUpConsume
  <2>3. lastCounter \in Int /\ \A c \in spent : c.n \in Int
    BY DEF TypeOK, Code
  <2>4. code \notin spent \/ ~Current(code)
    BY <2>1, <2>3 DEF FactorInv, CounterCovers, Current, IsTotp
  <2>5. FactorUsedOnce' /\ spent' = spent \cup {code}
    BY <1>9, <2>4, SpendOnce DEF FactorInv, StepUpConsume
  <2>6. \A s \in Slots : request'[s].stage = "matched" => request'[s] = request[s]
    BY <1>9, AnswerNotMatched, GoToNotMatched DEF StepUpConsume
  <2>7. SpentKnown' /\ CounterCovers'
    BY <2>1, <2>2, <2>3, <2>5 DEF FactorInv, SpentKnown, CounterCovers, IsTotp, IsRecovery
  <2>8. PendingFresh' /\ MatchedKnown'
    BY <2>1, <2>2, <2>5, <2>6 DEF FactorInv, PendingFresh, MatchedKnown, IsTotp
  <2> QED
    BY <2>5, <2>7, <2>8 DEF FactorInv
<1>10. ASSUME NEW p \in Slots, ResetClearPending(p) PROVE FactorInv'
  <2>1. \A s \in Slots : request'[s].stage = "matched" => request'[s] = request[s]
    BY <1>10, GoToNotMatched DEF ResetClearPending
  <2>2. pending'.secret = 0 /\ UNCHANGED <<accountVars, codeVars, secrets, spentVars>>
    BY <1>10 DEF ResetClearPending, ClearPending, Cleared
  <2> QED
    BY <2>1, <2>2 DEF FactorInv, SpentKnown, CounterCovers, PendingFresh,
                      MatchedKnown, FactorUsedOnce, IsTotp, IsRecovery
<1>11. ASSUME NEW p \in Slots, ResetClearUser(p) PROVE FactorInv'
  <2>1. \A s \in Slots : request'[s].stage = "matched" => request'[s] = request[s]
    BY <1>11, GoToNotMatched DEF ResetClearUser
  <2>2. secret' = 0 /\ UNCHANGED <<codeVars, pendingVars, spentVars>>
    BY <1>11 DEF ResetClearUser
  <2>3. \A c \in spent : IsTotp(c) => c.id # 0
    BY SpentIds DEF FactorInv
  <2> QED
    BY <2>1, <2>2, <2>3 DEF FactorInv, SpentKnown, CounterCovers, PendingFresh,
                            MatchedKnown, FactorUsedOnce, IsTotp, IsRecovery
<1>12. ASSUME NEW p \in Slots, ResetInvalidateCodes(p) PROVE FactorInv'
  <2>1. \A s \in Slots : request'[s].stage = "matched" => request'[s] = request[s]
    BY <1>12, GoToNotMatched DEF ResetInvalidateCodes
  <2>2. unusedCodes' = {} /\ UNCHANGED <<accountVars, codeSet, pendingVars, spentVars>>
    BY <1>12 DEF ResetInvalidateCodes
  <2> QED
    BY <2>1, <2>2 DEF FactorInv, SpentKnown, CounterCovers, PendingFresh,
                      MatchedKnown, FactorUsedOnce, IsTotp, IsRecovery
<1>13. ASSUME NEW p \in Slots,
              \/ StartReset(p) \/ ResetArmGrace(p) \/ ResetReadVersion(p)
              \/ ResetIssueGrant(p) \/ RedeemGrant(p) \/ SetCookie(p) \/ Abort(p)
       PROVE FactorInv'
  <2>1. UNCHANGED <<spent, reused, secret, lastCounter, codeSet, unusedCodes,
                    pending, secrets>>
    BY <1>13 DEF StartReset, ResetArmGrace, ResetReadVersion, ResetIssueGrant,
                 RedeemGrant, SetCookie, Abort
  <2>2. CASE StartReset(p)
    <3>1. [Idle EXCEPT !.stage = "clearPending"].stage # "matched"
      BY DEF Idle
    <3> QED
      BY <1>a, <2>1, <2>2, <3>1, NotMatched DEF StartReset
  <2>3. CASE ResetReadVersion(p)
    <3>1. [request[p] EXCEPT !.stage = "selfIssue", !.token.ver = sessionVersion].stage
            # "matched"
      BY DEF TypeOK, RequestRecord
    <3> QED
      BY <1>a, <2>1, <2>3, <3>1, NotMatched DEF ResetReadVersion
  <2>4. CASE ResetArmGrace(p)
    BY <1>a, <2>1, <2>4, AnswerNotMatched, GoToNotMatched DEF ResetArmGrace
  <2>5. CASE ResetIssueGrant(p) \/ RedeemGrant(p) \/ SetCookie(p) \/ Abort(p)
    BY <1>a, <2>1, <2>5, AnswerNotMatched DEF ResetIssueGrant, RedeemGrant, SetCookie, Abort
  <2> QED
    BY <1>13, <2>2, <2>3, <2>4, <2>5
<1>14. CASE \/ \E b \in Browsers : SignIn(b)
           \/ ChangeRoles \/ Tick \/ UNCHANGED vars
  BY <1>a, <1>14 DEF SignIn, ChangeRoles, Tick, vars, AtOnce
<1> QED
  BY <1>1, <1>2, <1>3, <1>4, <1>5, <1>6, <1>7, <1>8, <1>9, <1>10, <1>11, <1>12, <1>13,
     <1>14 DEF Next, Locked, Unlocked

(***************************************************************************)
(* FactorUsedOnce for any number of requests, browsers and secrets: the    *)
(* counter covers the codes of the authenticator in use although setup     *)
(* lowers and a reset zeroes it, because a secret's codes are first        *)
(* accepted when it is confirmed and a secret never returns.               *)
(***************************************************************************)
THEOREM FactorsUsedOnce == Spec => []FactorUsedOnce
<1>1. Init => TypeOK /\ FactorInv
  BY InitTypes, InitFactor
<1>2. TypeOK /\ FactorInv /\ [Next]_vars => (TypeOK /\ FactorInv)'
  BY TypeStep, FactorStep
<1>3. FactorInv => FactorUsedOnce
  BY DEF FactorInv
<1> QED
  BY <1>1, <1>2, <1>3, PTL DEF Spec

-----------------------------------------------------------------------------
(* Sessions and grants: no browser counts as verified on an old session version, *)
(* no replacement of an authenticator is unpaid, no grant is redeemed twice.       *)

(* Only the last answer a browser got and those on their way to it count. *)
TokenBacked(b, t) ==
  /\ t.ver <= sessionVersion
  /\ t.required /\ t.verified /\ t.ver = sessionVersion =>
       <<b, sessionVersion>> \in verifiedAt

SessionInv ==
  /\ \A b \in Browsers : TokenBacked(b, session[b])
  /\ \A p \in Slots : request[p].stage = "session" =>
       request[p].browser \in Browsers /\ TokenBacked(request[p].browser, request[p].token)

(* authorize() never starts a cookie that is verified and had to be. *)
LEMMA FreshCookie ==
  ASSUME NEW v, NEW r \in BOOLEAN
  PROVE  LET t == [ver |-> v, required |-> r, verified |-> ~r] IN
         t.ver = v /\ ~(t.required /\ t.verified)
<1>1. CASE r = TRUE
  BY <1>1
<1>2. CASE r = FALSE
  BY <1>2
<1> QED
  BY <1>1, <1>2

LEMMA InitSession == Init => SessionInv
<1> SUFFICES ASSUME Init PROVE SessionInv
  OBVIOUS
<1>1. \A p \in Slots : request[p].stage # "session"
  BY DEF Init, Idle
<1>2. ASSUME NEW b \in Browsers PROVE TokenBacked(b, session[b])
  <2>1. session[b] = [ver |-> 0, required |-> MfaRequired, verified |-> ~MfaRequired]
        /\ sessionVersion = 0
    BY DEF Init
  <2>2. MfaRequired \in BOOLEAN
    BY FlagAssumption DEF MfaRequired
  <2> QED
    BY <2>1, <2>2, FreshCookie DEF TokenBacked
<1> QED
  BY <1>1, <1>2 DEF SessionInv

(* The claims auth() returns are backed. *)
LEMMA ClaimsBacked ==
  ASSUME TypeOK, SessionInv, NEW b \in Browsers, NEW t \in Claims(b)
  PROVE  TokenBacked(b, t)
<1>1. session[b].ver \in Nat /\ sessionVersion \in Nat /\ TokenBacked(b, session[b])
  BY DEF TypeOK, Token, SessionInv
<1>2. CASE t = Refresh(session[b])
  <2>1. t.ver = sessionVersion /\ t.required = MfaRequired
    BY <1>2 DEF Refresh
  <2>2. t.verified <=> \/ ~MfaRequired
                       \/ /\ session[b].verified /\ session[b].required
                          /\ session[b].ver = sessionVersion
    BY <1>2 DEF Refresh
  <2> QED
    BY <1>1, <2>1, <2>2 DEF TokenBacked
<1>3. CASE t = Unrefreshed(session[b])
  <2>1. t.ver = session[b].ver /\ t.verified = FALSE
    BY <1>3 DEF Unrefreshed, TypeOK, Token
  <2> QED
    BY <1>1, <2>1 DEF TokenBacked
<1> QED
  BY <1>2, <1>3 DEF Claims

LEMMA SessionStep == TypeOK /\ SessionInv /\ [Next]_vars => SessionInv'
<1> SUFFICES ASSUME TypeOK, SessionInv, [Next]_vars PROVE SessionInv'
  OBVIOUS
<1> USE DEF accountVars, codeVars, pendingVars, grantVars, clientVars,
            requestVars, spentVars, redeemVars
<1>0. /\ sessionVersion \in Nat /\ \A b \in Browsers : session[b].ver \in Nat
      /\ \A p \in Slots : request[p].token.ver \in Nat
  BY DEF TypeOK, Token, RequestRecord
<1>a. ASSUME session' = session, verifiedAt' = verifiedAt,
             sessionVersion' \in {sessionVersion, sessionVersion + 1},
             \A s \in Slots : request'[s].stage = "session" => request'[s] = request[s]
      PROVE  SessionInv'
  <2>1. ASSUME NEW b, NEW t, t.ver \in Nat, TokenBacked(b, t) PROVE TokenBacked(b, t)'
    BY <1>0, <1>a, <2>1 DEF TokenBacked
  <2>2. ASSUME NEW b \in Browsers PROVE TokenBacked(b, session[b])'
    BY <1>0, <1>a, <2>1 DEF SessionInv
  <2>3. ASSUME NEW p \in Slots, request'[p].stage = "session"
        PROVE  /\ request'[p].browser \in Browsers
               /\ TokenBacked(request[p].browser, request[p].token)'
    BY <1>0, <1>a, <2>1, <2>3 DEF SessionInv
  <2> QED
    BY <2>2, <2>3 DEF SessionInv
<1>b. ASSUME NEW p \in Slots, NEW r, r.stage # "session", Start(p, r) \/ Continue(p, r)
      PROVE  \A s \in Slots : request'[s].stage = "session" => request'[s] = request[s]
  BY <1>b DEF Start, Continue, TypeOK
<1>c. ASSUME NEW p \in Slots, Answer(p)
      PROVE  \A s \in Slots : request'[s].stage = "session" => request'[s] = request[s]
  <2>1. Idle.stage # "session"
    BY DEF Idle
  <2> QED
    BY <1>b, <1>c, <2>1 DEF Answer
<1>d. ASSUME NEW p \in Slots, NEW s, s # "session", GoTo(p, s)
      PROVE  \A x \in Slots : request'[x].stage = "session" => request'[x] = request[x]
  <2>1. [request[p] EXCEPT !.stage = s].stage # "session"
    BY <1>d DEF TypeOK, RequestRecord
  <2> QED
    BY <1>b, <1>d, <2>1 DEF GoTo
<1>1. ASSUME NEW p \in Slots, Verify(p) PROVE SessionInv'
  BY <1>a, <1>1, <1>c DEF Verify, IssueGrant
<1>2. CASE EnrollFirst \/ EnrollReplacement \/ ConfirmExpired
  BY <1>a, <1>2 DEF EnrollFirst, EnrollReplacement, ConfirmExpired, AtOnce
<1>3. ASSUME NEW b \in Browsers, Confirm(b) \/ RotateRecoveryCodes(b) PROVE SessionInv'
  BY <1>a, <1>3 DEF Confirm, PersistSecret, RotateRecoveryCodes, IssueGrant, AtOnce
<1>4. ASSUME NEW p \in Slots, NEW b \in Browsers, StartVerify(p, b) PROVE SessionInv'
  <2>1. PICK t \in Claims(b) :
          Start(p, [Idle EXCEPT !.stage = "verify", !.browser = b, !.token = t])
    BY <1>4 DEF StartVerify
  <2>2. [Idle EXCEPT !.stage = "verify", !.browser = b, !.token = t].stage # "session"
    BY DEF Idle
  <2> QED
    BY <1>4, <1>a, <1>b, <2>1, <2>2 DEF StartVerify
<1>5. ASSUME NEW p \in Slots, NEW b \in Browsers, NEW z \in BOOLEAN, StartStepUp(p, b, z)
      PROVE  SessionInv'
  <2>1. [Idle EXCEPT !.stage = "stepUp", !.browser = b, !.reset = z].stage # "session"
    BY DEF Idle
  <2> QED
    BY <1>5, <1>a, <1>b, <2>1 DEF StartStepUp
<1>6. ASSUME NEW p \in Slots, NEW b \in Browsers, StartSession(p, b) PROVE SessionInv'
  <2>1. PICK t \in Claims(b), n \in {0, held[b]} :
          Start(p, [Idle EXCEPT !.stage = "session", !.browser = b, !.token = t,
                                !.nonce = n])
    BY <1>6 DEF StartSession
  <2>2. UNCHANGED <<session, sessionVersion, verifiedAt>>
    BY <1>6 DEF StartSession
  <2>3. TokenBacked(b, t)
    BY ClaimsBacked
  <2>4. request'[p].browser = b /\ request'[p].token = t
    BY <2>1 DEF Start, Idle, TypeOK
  <2>5. \A s \in Slots : s # p => request'[s] = request[s]
    BY <2>1 DEF Start, TypeOK
  <2>6. \A s \in Slots : s # p /\ request'[s].stage = "session" =>
          request'[s].browser \in Browsers /\ TokenBacked(request'[s].browser, request'[s].token)
    BY <2>5 DEF SessionInv
  <2>7. \A s \in Slots : request'[s].stage = "session" =>
          request'[s].browser \in Browsers /\ TokenBacked(request'[s].browser, request'[s].token)
    BY <2>3, <2>4, <2>6
  <2> QED
    BY <2>2, <2>7 DEF SessionInv, TokenBacked
<1>7. ASSUME NEW p \in Slots, StepUpMatch(p) PROVE SessionInv'
  <2>1. PICK code \in TotpInputs :
          Continue(p, [request[p] EXCEPT !.stage = "matched", !.code = code])
    BY <1>7 DEF StepUpMatch
  <2>2. [request[p] EXCEPT !.stage = "matched", !.code = code].stage # "session"
    BY DEF TypeOK, RequestRecord
  <2> QED
    BY <1>7, <1>a, <1>b, <2>1, <2>2 DEF StepUpMatch
<1>8. ASSUME NEW p \in Slots, StepUpConsume(p) PROVE SessionInv'
  BY <1>8, <1>a, <1>c, <1>d DEF StepUpConsume
<1>9. ASSUME NEW p \in Slots, StartReset(p) PROVE SessionInv'
  <2>1. [Idle EXCEPT !.stage = "clearPending"].stage # "session"
    BY DEF Idle
  <2> QED
    BY <1>9, <1>a, <1>b, <2>1 DEF StartReset
<1>10. ASSUME NEW p \in Slots,
              ResetClearPending(p) \/ ResetClearUser(p) \/ ResetInvalidateCodes(p)
       PROVE  SessionInv'
  BY <1>10, <1>a, <1>d DEF ResetClearPending, ResetClearUser, ResetInvalidateCodes
<1>11. ASSUME NEW p \in Slots, ResetArmGrace(p) \/ ResetIssueGrant(p) \/ Abort(p)
       PROVE  SessionInv'
  BY <1>11, <1>a, <1>c, <1>d DEF ResetArmGrace, ResetIssueGrant, IssueGrant, Abort
<1>12. ASSUME NEW p \in Slots, ResetReadVersion(p) PROVE SessionInv'
  <2>1. [request[p] EXCEPT !.stage = "selfIssue", !.token.ver = sessionVersion].stage
          # "session"
    BY DEF TypeOK, RequestRecord
  <2> QED
    BY <1>12, <1>a, <1>b, <2>1 DEF ResetReadVersion
<1>13. ASSUME NEW p \in Slots, RedeemGrant(p) PROVE SessionInv'
  <2> DEFINE q == request[p]
             t == [q.token EXCEPT !.verified = TRUE]
  <2>1. q.browser \in Browsers /\ TokenBacked(q.browser, q.token)
    BY <1>13 DEF RedeemGrant, SessionInv
  <2>2. /\ sessionVersion' = sessionVersion
        /\ session' = [session EXCEPT ![q.browser] = t]
        /\ verifiedAt' = verifiedAt \cup {<<q.browser, q.token.ver>>}
    BY <1>13 DEF RedeemGrant
  <2>3. t.ver = q.token.ver
    BY DEF TypeOK, RequestRecord, Token
  <2>4. verifiedAt \subseteq verifiedAt' /\ <<q.browser, q.token.ver>> \in verifiedAt'
    BY <2>2
  <2>5. ASSUME NEW b, NEW u, TokenBacked(b, u)
        PROVE  /\ u.ver <= sessionVersion'
               /\ u.required /\ u.verified /\ u.ver = sessionVersion' =>
                    <<b, sessionVersion'>> \in verifiedAt'
    BY <2>2, <2>4, <2>5 DEF TokenBacked
  <2>6. ASSUME NEW b \in Browsers PROVE TokenBacked(b, session[b])'
    <3>1. CASE b = q.browser
      <4>1. session'[b] = t
        BY <2>1, <2>2, <3>1 DEF TypeOK
      <4>2. t.ver <= sessionVersion' /\ (t.ver = sessionVersion' =>
              <<b, sessionVersion'>> \in verifiedAt')
        BY <2>1, <2>2, <2>3, <2>4, <3>1 DEF TokenBacked
      <4> QED
        BY <4>1, <4>2 DEF TokenBacked
    <3>2. CASE b # q.browser
      <4>1. session'[b] = session[b] /\ TokenBacked(b, session[b])
        BY <2>2, <3>2 DEF TypeOK, SessionInv
      <4> QED
        BY <2>5, <4>1 DEF TokenBacked
    <3> QED
      BY <3>1, <3>2
  <2>7. \A s \in Slots : request'[s].stage = "session" => request'[s] = request[s]
    BY <1>13, <1>c DEF RedeemGrant
  <2>8. ASSUME NEW s \in Slots, request'[s].stage = "session"
        PROVE  request'[s].browser \in Browsers
               /\ TokenBacked(request[s].browser, request[s].token)'
    <3>1. request'[s] = request[s] /\ request[s].browser \in Browsers
          /\ TokenBacked(request[s].browser, request[s].token)
      BY <2>7, <2>8 DEF SessionInv
    <3> QED
      BY <2>5, <3>1 DEF TokenBacked
  <2> QED
    BY <2>6, <2>8 DEF SessionInv
<1>14. ASSUME NEW p \in Slots, SetCookie(p) PROVE SessionInv'
  <2> DEFINE q == request[p]
  <2>1. q.browser \in Browsers /\ TokenBacked(q.browser, q.token)
    BY <1>14 DEF SetCookie, SessionInv
  <2>2. /\ UNCHANGED <<sessionVersion, verifiedAt>>
        /\ session' = [session EXCEPT ![q.browser] = q.token]
    BY <1>14 DEF SetCookie
  <2>3. \A b \in Browsers : TokenBacked(b, session'[b])
    BY <2>1, <2>2 DEF TypeOK, SessionInv
  <2>4. \A s \in Slots : request'[s].stage = "session" => request'[s] = request[s]
    BY <1>14, <1>c DEF SetCookie
  <2>5. \A s \in Slots : request'[s].stage = "session" =>
          request'[s].browser \in Browsers /\ TokenBacked(request'[s].browser, request'[s].token)
    BY <2>4 DEF SessionInv
  <2> QED
    BY <2>2, <2>3, <2>5 DEF SessionInv, TokenBacked
<1>15. ASSUME NEW b \in Browsers, SignIn(b) PROVE SessionInv'
  <2>1. UNCHANGED <<sessionVersion, verifiedAt, request>>
    BY <1>15 DEF SignIn, AtOnce
  <2>2. session' = [session EXCEPT ![b] = [ver |-> sessionVersion,
                      required |-> MfaRequired, verified |-> ~MfaRequired]]
    BY <1>15 DEF SignIn
  <2>3. TokenBacked(b, [ver |-> sessionVersion, required |-> MfaRequired,
                        verified |-> ~MfaRequired])
    <3>1. MfaRequired \in BOOLEAN
      BY FlagAssumption DEF MfaRequired
    <3> QED
      BY <1>0, <3>1, FreshCookie DEF TokenBacked
  <2>4. \A x \in Browsers : TokenBacked(x, session'[x])
    BY <2>2, <2>3 DEF TypeOK, SessionInv
  <2> QED
    BY <2>1, <2>4 DEF SessionInv, TokenBacked
<1>16. CASE ChangeRoles \/ Tick \/ UNCHANGED vars
  BY <1>16, <1>a DEF ChangeRoles, Tick, vars
<1> QED
  BY <1>1, <1>2, <1>3, <1>4, <1>5, <1>6, <1>7, <1>8, <1>9, <1>10, <1>11, <1>12, <1>13,
     <1>14, <1>15, <1>16 DEF Next, Locked, Unlocked, Request

(***************************************************************************)
(* NoStaleVerification for any number of browsers and requests in flight:  *)
(* an answer that sets an old cookie carries an old session version, and   *)
(* the next refresh drops it.                                              *)
(***************************************************************************)
THEOREM NeverStale == Spec => []NoStaleVerification
<1>1. TypeOK /\ SessionInv => NoStaleVerification
  <2> SUFFICES ASSUME TypeOK, SessionInv, NEW b \in Browsers,
                      Refresh(session[b]).required, Refresh(session[b]).verified
               PROVE  <<b, sessionVersion>> \in verifiedAt
    BY DEF NoStaleVerification
  <2>1. TokenBacked(b, Refresh(session[b]))
    BY ClaimsBacked DEF Claims
  <2>2. Refresh(session[b]).ver = sessionVersion
    BY DEF Refresh
  <2> QED
    BY <2>1, <2>2 DEF TokenBacked
<1>2. TypeOK /\ SessionInv /\ [Next]_vars => (TypeOK /\ SessionInv)'
  BY TypeStep, SessionStep
<1> QED
  BY <1>1, <1>2, InitTypes, InitSession, PTL DEF Spec

-----------------------------------------------------------------------------
(* No unpaid replacement *)

LEMMA ReplacementStep == ReplacementNeedsProof /\ [Next]_vars => ReplacementNeedsProof'
<1> SUFFICES ASSUME ReplacementNeedsProof, [Next]_vars PROVE ReplacementNeedsProof'
  OBVIOUS
<1> USE DEF ReplacementNeedsProof, accountVars, pendingVars
<1>1. CASE EnrollFirst \/ EnrollReplacement
  BY <1>1 DEF EnrollFirst, EnrollReplacement, SetPending
<1>2. ASSUME NEW b \in Browsers, Confirm(b) PROVE ReplacementNeedsProof'
  BY <1>2 DEF Confirm, ClearPending, Cleared
<1>3. ASSUME NEW b \in Browsers, RotateRecoveryCodes(b) PROVE ReplacementNeedsProof'
  BY <1>3 DEF RotateRecoveryCodes
<1>4. CASE ConfirmExpired
  BY <1>4 DEF ConfirmExpired, ClearPending, Cleared
<1>5. ASSUME NEW p \in Slots, ResetClearPending(p) \/ ResetClearUser(p)
      PROVE ReplacementNeedsProof'
  BY <1>5 DEF ResetClearPending, ResetClearUser, ClearPending, Cleared
<1>6. ASSUME NEW p \in Slots, NEW b \in Browsers, Request(p, b) PROVE ReplacementNeedsProof'
  BY <1>6 DEF Request, StartVerify, StartSession, StartStepUp
<1>7. ASSUME NEW p \in Slots,
             \/ StepUpMatch(p) \/ StepUpConsume(p) \/ StartReset(p)
             \/ ResetInvalidateCodes(p) \/ ResetArmGrace(p) \/ ResetReadVersion(p)
             \/ ResetIssueGrant(p) \/ RedeemGrant(p) \/ SetCookie(p) \/ Abort(p)
             \/ Verify(p)
      PROVE ReplacementNeedsProof'
  BY <1>7 DEF StepUpMatch, StepUpConsume, StartReset, ResetInvalidateCodes,
     ResetArmGrace, ResetReadVersion, ResetIssueGrant, RedeemGrant, SetCookie, Abort,
     Verify
<1>8. CASE (\E b \in Browsers : SignIn(b)) \/ ChangeRoles \/ Tick \/ UNCHANGED vars
  BY <1>8 DEF SignIn, ChangeRoles, Tick, vars
<1> QED
  BY <1>1, <1>2, <1>3, <1>4, <1>5, <1>6, <1>7, <1>8 DEF Next, Locked, Unlocked

(***************************************************************************)
(* ReplacementNeedsProof is inductive by itself: an unpaid QR is made only *)
(* while there is no authenticator, and the one way to get one takes the   *)
(* pending QR away.                                                        *)
(***************************************************************************)
THEOREM ReplacementsPaid == Spec => []ReplacementNeedsProof
<1>1. Init => ReplacementNeedsProof
  BY DEF Init, ReplacementNeedsProof, Cleared
<1> QED
  BY <1>1, ReplacementStep, PTL DEF Spec

-----------------------------------------------------------------------------
(* Grants are one-time tokens *)

GrantInv ==
  /\ nonces \in 0..MaxNonces
  /\ redeemed \subseteq 0..nonces
  /\ grant.live => grant.nonce \in 1..nonces /\ grant.nonce \notin redeemed
  /\ redeemedAgain = {}

LEMMA InitGrant == Init => GrantInv
<1> SUFFICES ASSUME Init PROVE GrantInv
  OBVIOUS
<1>1. nonces = 0 /\ redeemed = {} /\ redeemedAgain = {} /\ grant.live = FALSE
  BY DEF Init, NoGrant
<1> QED
  BY <1>1, NumberAssumption DEF GrantInv

(* What each step does to the grants: nothing, issue, redeem, or void *)
GrantIssued ==
  /\ nonces < MaxNonces /\ nonces' = nonces + 1
  /\ grant'.nonce = nonces + 1 /\ grant'.live = TRUE
  /\ UNCHANGED <<redeemed, redeemedAgain>>

GrantRedeemed ==
  /\ grant.live /\ grant'.live = FALSE /\ grant'.nonce = grant.nonce
  /\ UNCHANGED nonces
  /\ redeemed' = redeemed \cup {grant.nonce}
  /\ redeemedAgain' = redeemedAgain \cup ({grant.nonce} \cap redeemed)

GrantVoided ==
  /\ grant.live /\ grant'.live = FALSE /\ grant'.nonce = grant.nonce
  /\ UNCHANGED <<nonces, redeemed, redeemedAgain>>

GrantKept == UNCHANGED <<grant, nonces, redeemed, redeemedAgain>>

LEMMA GrantSteps ==
  TypeOK /\ [Next]_vars => GrantIssued \/ GrantRedeemed \/ GrantVoided \/ GrantKept
<1> SUFFICES ASSUME TypeOK, [Next]_vars
             PROVE  GrantIssued \/ GrantRedeemed \/ GrantVoided \/ GrantKept
  OBVIOUS
<1> USE DEF grantVars, redeemVars
<1>1. ASSUME NEW b, NEW ver, IssueGrant(b, ver), UNCHANGED <<redeemed, redeemedAgain>>
      PROVE GrantIssued
  BY <1>1 DEF IssueGrant, GrantIssued
<1>2. ASSUME NEW p \in Slots, Verify(p) \/ ResetIssueGrant(p) PROVE GrantIssued
  BY <1>1, <1>2 DEF Verify, ResetIssueGrant
<1>3. ASSUME NEW b \in Browsers, Confirm(b) \/ RotateRecoveryCodes(b) PROVE GrantIssued
  BY <1>1, <1>3 DEF Confirm, RotateRecoveryCodes
<1>4. ASSUME NEW p \in Slots, RedeemGrant(p) PROVE GrantRedeemed
  <2>1. GrantFound(request[p].nonce)
    BY <1>4 DEF RedeemGrant, GrantValid
  <2>2. grant' = [grant EXCEPT !.live = FALSE]
    BY <1>4, <2>1 DEF RedeemGrant, Consumed
  <2>3. grant.live /\ grant.nonce = request[p].nonce
    BY <2>1 DEF GrantFound
  <2> QED
    BY <1>4, <2>2, <2>3 DEF RedeemGrant, GrantRedeemed, TypeOK
<1>5. ASSUME NEW p \in Slots, SetCookie(p) PROVE GrantVoided \/ GrantKept
  <2>1. UNCHANGED <<nonces, redeemed, redeemedAgain>> /\ grant' = Consumed(request[p].nonce)
    BY <1>5 DEF SetCookie
  <2>2. CASE GrantFound(request[p].nonce)
    BY <2>1, <2>2 DEF Consumed, GrantFound, GrantVoided, TypeOK
  <2>3. CASE ~GrantFound(request[p].nonce)
    BY <2>1, <2>3 DEF Consumed, GrantKept
  <2> QED
    BY <2>2, <2>3
<1>6. ASSUME NEW p \in Slots, NEW b \in Browsers, Request(p, b) PROVE GrantKept
  BY <1>6 DEF Request, StartVerify, StartSession, StartStepUp, GrantKept
<1>7. ASSUME NEW p \in Slots,
             \/ StepUpMatch(p) \/ StepUpConsume(p) \/ StartReset(p)
             \/ ResetClearPending(p) \/ ResetClearUser(p) \/ ResetInvalidateCodes(p)
             \/ ResetArmGrace(p) \/ ResetReadVersion(p) \/ Abort(p)
      PROVE GrantKept
  BY <1>7 DEF StepUpMatch, StepUpConsume, StartReset, ResetClearPending, ResetClearUser,
     ResetInvalidateCodes, ResetArmGrace, ResetReadVersion, Abort, GrantKept
<1>8. CASE EnrollFirst \/ EnrollReplacement \/ ConfirmExpired
  BY <1>8 DEF EnrollFirst, EnrollReplacement, ConfirmExpired, GrantKept
<1>9. ASSUME NEW b \in Browsers, SignIn(b) PROVE GrantKept
  BY <1>9 DEF SignIn, GrantKept
<1>10. CASE ChangeRoles \/ Tick
  BY <1>10 DEF ChangeRoles, Tick, GrantKept
<1>11. CASE UNCHANGED vars
  BY <1>11 DEF vars, GrantKept
<1>12. CASE Locked
  BY <1>2, <1>3, <1>8, <1>12, Zenon DEF Locked
<1>13. ASSUME NEW p \in Slots, Unlocked(p)
       PROVE  GrantIssued \/ GrantRedeemed \/ GrantVoided \/ GrantKept
  BY <1>2, <1>4, <1>5, <1>7, <1>13, Zenon DEF Unlocked
<1>14. CASE \E p \in Slots : Unlocked(p) \/ \E b \in Browsers : Request(p, b)
  BY <1>6, <1>13, <1>14
<1>15. CASE \E b \in Browsers : SignIn(b)
  BY <1>9, <1>15
<1> QED
  BY <1>10, <1>11, <1>12, <1>14, <1>15 DEF Next

LEMMA GrantStep == TypeOK /\ GrantInv /\ [Next]_vars => GrantInv'
<1> SUFFICES ASSUME TypeOK, GrantInv, [Next]_vars PROVE GrantInv'
  OBVIOUS
<1>1. CASE GrantIssued
  <2>1. nonces \in Int /\ MaxNonces \in Int /\ 0 <= nonces /\ nonces < MaxNonces
    BY <1>1, NumberAssumption DEF GrantIssued, GrantInv
  <2>2. nonces' = nonces + 1 /\ grant'.nonce = nonces + 1
    BY <1>1 DEF GrantIssued
  <2>3. redeemed \subseteq 0..nonces /\ redeemed' = redeemed /\ redeemedAgain' = {}
    BY <1>1 DEF GrantIssued, GrantInv
  <2>4. nonces' \in 0..MaxNonces
    BY <2>1, <2>2
  <2>5. redeemed' \subseteq 0..nonces'
    BY <2>1, <2>2, <2>3
  <2>6. grant'.nonce \in 1..nonces' /\ grant'.nonce \notin redeemed'
    BY <2>1, <2>2, <2>3
  <2> QED
    BY <2>3, <2>4, <2>5, <2>6 DEF GrantInv
<1>2. CASE GrantRedeemed
  <2>1. nonces' = nonces /\ nonces \in 0..MaxNonces /\ grant'.live = FALSE
    BY <1>2 DEF GrantRedeemed, GrantInv
  <2>2. grant.nonce \in 1..nonces /\ grant.nonce \notin redeemed
    BY <1>2 DEF GrantRedeemed, GrantInv
  <2>3. redeemed' = redeemed \cup {grant.nonce} /\ redeemed \subseteq 0..nonces
    BY <1>2 DEF GrantRedeemed, GrantInv
  <2>4. redeemed' \subseteq 0..nonces
    <3>1. grant.nonce \in 0..nonces
      BY <2>1, <2>2, NumberAssumption
    <3> QED
      BY <2>3, <3>1
  <2>5. redeemedAgain' = {}
    BY <1>2, <2>2 DEF GrantRedeemed, GrantInv
  <2> QED
    BY <2>1, <2>4, <2>5 DEF GrantInv
<1>3. CASE GrantVoided
  BY <1>3 DEF GrantVoided, GrantInv
<1>4. CASE GrantKept
  BY <1>4 DEF GrantKept, GrantInv
<1> QED
  BY <1>1, <1>2, <1>3, <1>4, GrantSteps

(***************************************************************************)
(* GrantRedeemedOnce: consumeMfaGrant marks the row before it answers, and *)
(* a nonce is never issued again.                                          *)
(***************************************************************************)
THEOREM GrantsRedeemedOnce == Spec => []GrantRedeemedOnce
<1>1. TypeOK /\ GrantInv /\ [Next]_vars => (TypeOK /\ GrantInv)'
  BY TypeStep, GrantStep
<1>2. GrantInv => GrantRedeemedOnce
  BY DEF GrantInv, GrantRedeemedOnce
<1> QED
  BY <1>1, <1>2, InitTypes, InitGrant, PTL DEF Spec

(* The status of one grant *)
LEMMA StatusOf ==
  ASSUME NEW n \in 1..MaxNonces
  PROVE  GrantStatus[n] =
           IF n > nonces THEN "unissued"
           ELSE IF n \in redeemed THEN "spent"
           ELSE IF grant.nonce = n /\ grant.live THEN "live" ELSE "void"
BY DEF GrantStatus

LEMMA GrantStepRefines ==
  TypeOK /\ GrantInv /\ [Next]_vars => [Grants!Next]_GrantStatus
<1> SUFFICES ASSUME TypeOK, GrantInv, [Next]_vars PROVE [Grants!Next]_GrantStatus
  OBVIOUS
<1>0. MaxNonces \in Nat /\ nonces \in 0..MaxNonces
  BY NumberAssumption DEF GrantInv
<1>1. CASE GrantIssued
  <2> DEFINE t == nonces + 1
             V == Grants!LiveTokens
  <2>1. t \in 1..MaxNonces /\ t > nonces
    BY <1>0, <1>1 DEF GrantIssued
  <2>2. GrantStatus[t] = "unissued"
    BY <2>1, StatusOf
  <2>3. redeemed \subseteq 0..nonces /\ redeemed' = redeemed /\ nonces' = nonces + 1
        /\ grant'.nonce = nonces + 1 /\ grant'.live = TRUE
    BY <1>1 DEF GrantIssued, GrantInv
  <2>4. ASSUME NEW n \in 1..MaxNonces
        PROVE  GrantStatus'[n] = IF n = t THEN "live"
                                 ELSE IF n \in V THEN "void" ELSE GrantStatus[n]
    <3>1. GrantStatus'[n] = IF n > nonces + 1 THEN "unissued"
                            ELSE IF n \in redeemed THEN "spent"
                            ELSE IF n = nonces + 1 THEN "live" ELSE "void"
      BY <2>3 DEF GrantStatus
    <3>2. n \in V <=> GrantStatus[n] = "live"
      BY DEF Grants!LiveTokens
    <3>3. CASE n > nonces
      <4>1. GrantStatus[n] = "unissued"
        BY <3>3, StatusOf
      <4> QED
        BY <1>0, <2>3, <3>1, <3>2, <3>3, <4>1
    <3>4. CASE n <= nonces
      <4>1. ~(n > nonces) /\ ~(n > nonces + 1) /\ n # nonces + 1
        BY <1>0, <3>4
      <4>2. CASE n \in redeemed
        BY <3>1, <3>2, <4>1, <4>2, StatusOf
      <4>3. CASE n \notin redeemed
        BY <3>1, <3>2, <4>1, <4>3, StatusOf
      <4> QED
        BY <4>2, <4>3
    <3> QED
      BY <1>0, <3>3, <3>4
  <2>5. GrantStatus' = [n \in 1..MaxNonces |->
                          IF n = t THEN "live"
                          ELSE IF n \in V THEN "void" ELSE GrantStatus[n]]
    BY <2>4 DEF GrantStatus
  <2>6. Grants!Issue(t, V) /\ V \in SUBSET Grants!LiveTokens
    BY <2>2, <2>5 DEF Grants!Issue
  <2> QED
    BY <2>1, <2>6 DEF Grants!Next
<1>2. CASE GrantRedeemed
  <2> DEFINE t == grant.nonce
  <2>1. t \in 1..MaxNonces /\ t <= nonces /\ t \notin redeemed /\ grant.live
    BY <1>0, <1>2 DEF GrantRedeemed, GrantInv
  <2>2. GrantStatus[t] = "live"
    BY <1>0, <2>1, StatusOf
  <2>3. nonces' = nonces /\ redeemed' = redeemed \cup {t} /\ grant'.live = FALSE
    BY <1>2 DEF GrantRedeemed
  <2>4. ASSUME NEW n \in 1..MaxNonces
        PROVE  GrantStatus'[n] = IF n = t THEN "spent" ELSE GrantStatus[n]
    <3>1. GrantStatus'[n] = IF n > nonces THEN "unissued"
                            ELSE IF n \in redeemed \cup {t} THEN "spent" ELSE "void"
      BY <2>3 DEF GrantStatus
    <3>2. CASE n = t
      BY <1>0, <2>1, <3>1, <3>2
    <3>3. CASE n # t
      BY <3>1, <3>3, StatusOf
    <3> QED
      BY <3>2, <3>3
  <2>5. GrantStatus' = [GrantStatus EXCEPT ![t] = "spent"]
    BY <2>4 DEF GrantStatus
  <2>6. Grants!Redeem(t)
    BY <2>2, <2>5 DEF Grants!Redeem
  <2> QED
    BY <2>1, <2>6 DEF Grants!Next
<1>3. CASE GrantVoided
  <2> DEFINE V == Grants!LiveTokens
  <2>1. nonces' = nonces /\ redeemed' = redeemed /\ grant'.live = FALSE
    BY <1>3 DEF GrantVoided
  <2>2. ASSUME NEW n \in 1..MaxNonces
        PROVE  GrantStatus'[n] = IF n \in V THEN "void" ELSE GrantStatus[n]
    <3>1. GrantStatus'[n] = IF n > nonces THEN "unissued"
                            ELSE IF n \in redeemed THEN "spent" ELSE "void"
      BY <2>1 DEF GrantStatus
    <3>2. n \in V <=> GrantStatus[n] = "live"
      BY DEF Grants!LiveTokens
    <3> QED
      BY <3>1, <3>2, StatusOf
  <2>3. GrantStatus' = [n \in 1..MaxNonces |->
                          IF n \in V THEN "void" ELSE GrantStatus[n]]
    BY <2>2 DEF GrantStatus
  <2>4. Grants!Void(V) /\ V \in SUBSET Grants!LiveTokens
    BY <2>3 DEF Grants!Void
  <2> QED
    BY <2>4 DEF Grants!Next
<1>4. CASE GrantKept
  BY <1>4 DEF GrantKept, GrantStatus
<1> QED
  BY <1>1, <1>2, <1>3, <1>4, GrantSteps

(***************************************************************************)
(* GrantsAreOneTime: whatever the four routes, a self-reset and session    *)
(* updates do to the one grant row of an account, each grant is issued,    *)
(* redeemed at most once and only while live, and never comes back.        *)
(***************************************************************************)
THEOREM GrantsImplementOneTimeToken == Spec => GrantsAreOneTime
<1>1. Init => Grants!Init
  <2> SUFFICES ASSUME Init PROVE Grants!Init
    OBVIOUS
  <2>1. nonces = 0
    BY DEF Init
  <2> QED
    BY <2>1, NumberAssumption DEF Grants!Init, GrantStatus
<1>2. TypeOK /\ GrantInv /\ [Next]_vars => (TypeOK /\ GrantInv)'
  BY TypeStep, GrantStep
<1> QED
  BY <1>1, <1>2, GrantStepRefines, InitTypes, InitGrant, PTL
     DEF Spec, GrantsAreOneTime, Grants!Spec

=============================================================================
