# UnionOps: TLA+ models, checks and proofs

UnionOps is a Next.js application for unions: a public toolbox that runs in the
browser, a Hub for officers behind Auth.js and MFA, and a Portal for members.
The Hub's modules sit on an adapter interface with two back ends, a memory
adapter for one process and a Drizzle/PostgreSQL adapter for the hosted
profile, where several replicas serve the same rows.  What can go wrong there
is not in a single function: requests of one account interleave on several
replicas, a transaction is rolled back half way through a handler, a worker
dies between two transactions, a browser or a mail provider repeats a call.
This directory models those parts.

Source positions below are relative to the repository root (`src/lib/...` is
the application's library, `src/app/api/...` its route handlers).

## 1. Inventory

| component | state it keeps | operations | what is hard | what makes it correct |
|---|---|---|---|---|
| MFA account lock (`src/lib/auth/mfa-account-lock.ts`) | a map of promises per process, one row lock in PostgreSQL | run a function under the lock of an account | promise chains of several processes over one row, failure, crash | one holder, first come first served per process, no leak, nobody waits for ever |
| MFA of an account (`src/lib/auth/mfa-*.ts`, `totp.ts`, `session-update.ts`, `refresh-jwt-tenancy.ts`, `src/app/api/mfa/*`, `site-admin/users/[id]/reset-mfa`) | secret, counter, recovery codes, pending enrollment, grant, session version, reset grace; the JWT cookie of each browser | enroll, confirm, verify, rotate codes, step-up, reset, sign in, session update, refresh | locked and unlocked operations overlap; cookies are stale by nature | a factor counts once, no cookie outlives its version, a replacement was paid for, a grant is redeemed once |
| MFA attempt limiter (`mfa-attempt-limits.ts`) | count and start of a fixed window | reserve an attempt | reservations of replicas, rollback of the caller | wrong codes are capped, the limit lifts |
| Product news (`src/lib/email/product-news-*.ts`, migration 0077, its cron and webhook routes) | consent of each address with its evidence, campaigns, deliveries, send slot, provider events | subscribe, confirm, unsubscribe, suppress; create to resume a campaign; claim and send; record feedback | workers die with an unknown outcome, consent changes while a message is on its way, feedback is repeated or early | nobody gets a copy twice or without consent, campaigns end and do not end early |
| Sign-in and password-reset links (`sign-in-link-drizzle-adapter.ts`, `password-reset-drizzle-adapter.ts`, `sign-in-grants.ts`) | token rows, a grant in the memory of one replica | ask, mail, read, consume, authorize or change the password | two uses of one link, two requests for one; the effect comes after the row was written | a link has its effect once, a new one ends the older ones |
| Invitations (`invite-postgres.ts`, `invites.ts`) | invitation rows, the head of the Terms, the account | create, expire, accept; publish, schedule, withdraw Terms; set roles | acceptances of one address overlap each other and a publication; a scheduled version falls due by the clock; row policies hide the head | activates once, under the Terms in force, with all granted roles; a publication is not missed |
| Roles of site administrators (`site-admin/set-user-roles.ts`) | roles of the users | add, remove | count, then update, without a lock | somebody administers the host |
| Seats and offices of an account (`tenant/assign-local.ts`, `api/organization/*`, migration 0098) | membership rows, primary and accessible locals, offices, portal halls, session version | assign, join, end, activate, make primary, appoint, revoke, accept an invitation, change the policy | reads without a lock, trigger functions, one operation failing half way | the rows agree with each other; every change renews the cookies |
| Member broadcast (`email/member-broadcast*.ts`, migration 0085) | consent and suppression rows, action tokens, provider events | set or withdraw the consent, unsubscribe by link, record feedback, send | transactions that lock two rows in different orders | the last word counts |
| Outreach lists (`email/outreach-*.ts`, migrations 0088, 0089) | subscriptions, confirmation tokens, suppression, campaigns, deliveries | import, confirm, release, dispatch, record feedback | a campaign is composed by three statements; cron runs overlap and select without a lock; a run that dies loses its marks | a letter goes once, and not after a refusal that came before its composition or dispatch |
| Travel and expenses (`src/lib/travel`, `src/lib/expenses`, their routes) | authorization, advances, claims, submissions; ledger entries | approve, issue, claim, reconcile; draft, submit, approve | a route books in the ledger before the store decides | the ledger holds what was paid |
| Observability and alerts (`src/lib/observability`) | events, acknowledgements, firings | log, acknowledge, run the cron | mail before record, answers that are lost, windows and cooldowns, unions that share a fingerprint | every due alert is mailed, none within the cooldown of one that was answered for |
| Workforce time (`src/lib/time`) | entries, time-off requests, balances, shift series | clock in and out, enter ranges, review; ask, decide, credit; expand a series; split hours | check, then insert, and only for one local; balance beside status; expansions by window; slices and floating totals | no hour is paid twice within a local, the books balance, a day gets one shift, cuts move a slice at most |
| Customization (`customization/drafts.ts`, `publish.ts`) | draft, revisions and releases, head, policy, operations by key | save, review, publish, roll back, set the policy | stale screens, lost answers, repeated requests | nothing unreviewed is live, a key publishes once, nobody overwrites what they did not see |
| Boot and deploy notification (`ops/boot-notify.ts`, its cron) | one lifecycle row | decide and mail at boot; mail and record a deploy | several replicas, mail inside a transaction, a cron that mails before it records | one mail per event |
| Data workbench (`data-workbench/service.ts`, `api/data/imports`) | datasets with their mapping, runs with their rows and decisions, people and reporting lines | upload, map, decide, publish | reads without a lock beside a publication, files that refer to each other's people | published lines have both ends and close no circle |
| Grievances (`src/lib/grievance`, `api/grievances`, migration 0044) | the case with its worker and privacy, rows of participants | file, add, remove, assign, restrict | two decisions from different rows, the handlers read their own row under them; requests of several transactions that change what their next one may see | team, assignment and policies agree |
| Check-ins (`src/lib/checkins`, their cron) | a schedule, answers, claims of nudges | edit, answer, nudge | runs overlap, die and cross midnight or an edit | one nudge a period, for who has not answered |
| Elections, polls, governance proposals, meetings, ledger, bumping, documents, attachments, Portal | rows of one local | create, change, list | some read-modify-write of JSON columns | no lost update |
| Toolbox, export, brand, learning content, user interface | none shared | generate documents, show pages | layout | - |

Interaction: a route handler authenticates with the JWT cookie (refreshed from
the account's row by `refreshJwtTenancyIfStale`), reserves an attempt at the
limiter, takes the account lock, and changes the rows of the account; its
answer carries a grant that the browser redeems with a session update, which
writes the next cookie.  Site administrators act on other people's accounts
without that lock.  The other components meet in the database and the
scheduler only: routes change rows, cron calls the workers, the mail provider
calls the webhooks.

`PROJECT.json` lists every component with its status, and under `hazards` the
places where this code is hard to test.

## 2. Modules

| module | stands for |
|---|---|
| `AccountMutex` | abstract: one holder at a time |
| `MfaAccountLock` | the promise chain and the row lock; implements `AccountMutex` |
| `OneTimeToken` | abstract: a token is issued once, redeemed at most once, never revived |
| `MfaAccount` | all operations on one account's MFA, its browsers and requests in flight; its grant row implements `OneTimeToken` |
| `MfaAttemptLimit` | the limiter together with the ways its callers use it |
| `ConsentedMailing` | abstract: a message leaves at most once, to somebody on the list |
| `ProductNews` | consent, campaigns, queue, workers, feedback; implements `ConsentedMailing` |
| `EmailLinks`, `Invitations` | what is mailed to be used once; both implement `OneTimeToken` |
| `SiteRoles`, `LocalMembership` | the last administrator; seats, offices and halls of one account |
| `MemberBroadcast`, `OutreachLists` | consent and dispatch of the two other mailings |
| `Travel`, `Purchases` | the money of one trip and of one purchase |
| `Alerts` | the alert cron over the event log |
| `TimeEntries`, `TimeOff`, `ShiftSeries`, `OvertimeSplit` | clock and ranges with their review; requests and balances; expansion of a recurring shift; the overtime engine |
| `Publishing` | draft, review, publication and rollback of one resource |
| `BootNotify` | booting replicas and the deploy cron |
| `DataImports` | files of member employment, from upload to publication |
| `CaseAccess` | team, case worker and privacy of one grievance |
| `Checkins` | one check-in schedule and the cron that nudges |
| `MCMfaAccountLock`, `MCMfaAccount`, `MCMfaAttemptLimit`, `MCProductNews` | instances for TLC |
| `MCUnionAccounts`, `MCUnionWork` | instances of the nine and the nine components that share no state, one scene for each |
| `MfaAccountLockProofs`, `MfaAccountProofs`, `MfaAttemptLimitProofs`, `ProductNewsProofs` | theorems about the modules they are named for; sessions are part of `MfaAccount` |
| `SumProofs` | lemmas: smallest sets, and sums of a function over a finite set |
| `AccountsProofs` | theorems about each component of `MCUnionAccounts`, in the order its header lists, and about them together |
| `TimeProofs` | theorems about `TimeEntries`, `TimeOff`, `ShiftSeries`, `OvertimeSplit` |
| `WorkProofs` | theorems about `BootNotify`, `Publishing`, `Checkins`, `CaseAccess`, `DataImports`, and about all of `MCUnionWork` together |

`MfaAccount` uses the lock as `MfaAccountLock` guarantees it: what runs under
`withMfaAccountLock` is one action.  That is the composition: the refinement
of `AccountMutex` is what allows it, and because the transaction of the lock
is the transaction of the handler (`withRlsContext` inside it is a savepoint),
a throw undoes the handler.  The limiter's row is written in that transaction
too; it is a module of its own because the account's other state does not
depend on the count.

`MCUnionAccounts` and `MCUnionWork` gather components that neither call each
other nor share a row.  The scene, chosen in the initial state, says which of
them a behaviour is about; the others keep their initial state.  An invariant
of one component is then checked over exactly the states of that component's
own specification, at the price of no product of their states.

### How state and actions correspond to the code

What is one action follows the database: a transaction that locks the rows it
decides on is one action; a handler that reads in one transaction and writes in
another, or reads without a lock what it writes later, is as many actions, with
what it has read in a variable of the request.  A request may end between any
two of them: the process died, or an error was thrown.

**MfaAccountLock.** `tail[r]` is the entry of `processQueues` in replica `r`,
`previous[q]` the promise request `q` awaits, `rowLock` the holder of `SELECT
... FOR UPDATE`.  `Enqueue` is the synchronous prefix of `serializeInProcess`,
`TakeTurn` the end of its `await`, `LockRow` and `LockFails` the transaction's
start, `EndWork` the end of `work()` whether it returns or throws, `Release`
the `finally` block; `Crash` ends a process and its transactions.

**MfaAccount.** One variable per column the code reads, `session[b]` for the
claims of a browser's cookie, `held[b]` for the nonce in its page,
`request[p]` for what an unlocked request has read so far.  `Verify`,
`EnrollFirst`, `EnrollReplacement`, `ConfirmExpired`, `Confirm` and
`RotateRecoveryCodes` are the routes under the lock.  `StepUpMatch` and
`StepUpConsume` are the two halves of a step-up, `ResetClearPending`,
`ResetClearUser`, `ResetInvalidateCodes`, `ResetArmGrace`, `ResetReadVersion`
and `ResetIssueGrant` the transactions of a reset; `RedeemGrant` and
`SetCookie` the two halves of a session update.  `Refresh` is the function
that every request applies to its claims.

**MfaAttemptLimit.** `count` and `age` are the row; `RightCode`, `WrongCode`
and `RightCodeThrows` reserve and compare in one transaction, `StepUpReserve`,
`StepUpCompare` and `StepUpFails` in several.

**ProductNews.** `person` is the subscriber row with the last row of the
consent history, `confirmLinks` the unused confirmation tokens, `delivery`
the queue with the age of a claim reduced to "older than fifteen minutes".
`ClaimNext` is the worker's first transaction with its four ends (`SlotTaken`,
`NothingQueued`, `NoConsent`, `Claim`) and the sweep that starts all of them;
`Recheck`, `Call` and `Commit` are the second, which holds the rows of the
person and the delivery across the call; `Crash` rolls it back.  `Call`
leaves open whether the provider took the message, whether the worker was told
and whether the answer carried an id.  What the provider holds (`copies`) and
whose refusal it has reported (`objected`) are history variables.

**EmailLinks.** `link` holds the rows of both tables, `asking` the requests
between the statement that ends older tokens (`AskLink`) and the one that
inserts (`MailLink`), `clicks` the uses between `ReadLink` and `Consume`, whose
update is conditional.  The effect is later: `ChangePassword`, or `IssueGrant`
into the memory of a replica and `Authorize`, which finds it only there.

**Invitations.** `OpenInvite` is the look outside the transaction,
`BeginAccept` takes the three locks in their order and reads the clock,
`CommitAccept` writes; `MarkExpired` is the update without a condition.  `head`
is the head of the Terms: the version published, and the one scheduled with
whether its time has come.  `PublishTerms`, `ScheduleTerms` and `WithdrawTerms`
write it and wait for the activations that share it; `TermsFallDue` is the clock
and waits for nobody.  `policed` says whether the row policies bind the
connection: `FOR SHARE` is then subject to the policy on updates and finds no
head (`HeadSeen`, `HeadShared`), while the route's own read finds it.

**SiteRoles.** `removing` are the operators between the count and the update
of `setUserRoles`; `outrun` records whose count is no longer true.

**LocalMembership.** `seat`, `account`, `office`, `hall` are the rows, `fresh`
says that the session version did not move since the cookie was renewed, `op`
is what an operation has read.  Each operation has a `...Read` and a
`...Write`; ending a membership and appointing an officer hold a lock between
theirs, `UserLocked` and `SeatLocked` tell whom that keeps waiting.

**MemberBroadcast.** `statement[t]` is a transaction with the rows it holds.
A setting clears or writes the suppression and then the consent, a link and a
refusal in the order of their functions, and `Abort` is also what PostgreSQL
does to one of two that wait for each other.

**OutreachLists.** A campaign is composed in three statements, each of which
sees what others have committed by then: `ReadSuppressions`, `ReadSubscribers`,
`InsertCampaign`.  `BeginDispatch` selects the batch without a lock,
`SendLetter` mails, `MarkLetter` marks within the transaction,
`CommitDispatch` ends it, with the answers that were heard, and `LoseDispatch`
loses the marks but not the mails.

**Travel, Purchases.** `errand` and `matter` are requests under way; the steps
of an advance are `BookAdvance` (the route's read and ledger entry),
`RecheckAdvance` and `IssueAdvance` (the store's read and write) and
`UndoAdvance`, the route's compensation; an approval of a purchase has the same
steps and no compensation.

**Alerts.** A run is `BeginRun` (events and acknowledgements), then for each
bucket one of `SkipBucket`, `MailUnanswered` and `Fire`, then `CommitRun` or
`AbortRun`; its firings show to others when it commits.  A mail that is not
answered within twelve seconds counts as not sent, whether it left or not, and
no firing is recorded.

**TimeEntries.** `store` says which back end serves: in PostgreSQL a clock-in
or a range is a read and an insert, in the memory store one step; reviews are
two steps in both, as their route looks first.  A worker has seats in several
locals (`Halls`): a range is held against the entries of the local it is entered
for (`HasOverlappingEntry`), a clock-in against being clocked in anywhere in the
union (`ActiveEntries`).  **TimeOff.** An approval is
`RouteReads`, `StoreReads`, `StatusWritten`, `BalanceRead`, `BalanceWritten`,
as its five queries are.  **ShiftSeries.** An expansion is `ExpandBegin`, then
`ExpandLook`, `ExpandCreate` and `ExpandMark` for each date.
**OvertimeSplit.** One step for each entry, of any number of moments
(milliseconds in the code).  `SliceEnd` is where the slice of a moment ends: a
quarter of an hour after the entry's begin or the slice before, or at the end of
the entry; the slice is classed as a whole by that end (`DoubleTime`,
`OverTime`).  `Hairs` are the roundings of binary fractions: a sum that lands on
a threshold may come out above it, unless all that was summed is whole quarters.
`DaySplit` is the reference definition, from totals alone and to the moment.

**Publishing.** `screen[e]` is what an operator last saw, and it is what their
next request sends: expected versions, generation, key.  Handlers lock the
draft or policy row first and are one step; a lost answer is a step that leaves
the screen as it was.  **BootNotify.** `RunBoot` is the whole decision under
the advisory lock, with the end in which the mail left and the transaction did
not; the cron is `CronLoad`, `CronSend`, `CronSave`.

**DataImports.** A publication is `OpenPublication` (locks of dataset and run,
all reads) and `CommitPublication`; other requests are one step, at their
write, with whatever mapping, version or decisions they may have read.

**CaseAccess.** `Grants` is `authorizeGrievance`, `Policy` the function of the
row policies; `OwnRow` is what `explicitParticipant` finds, which reads under
the policy of the table and so finds the row of whoever asks only if they may
read the whole case; `Begin` is the first transaction of a request with its checks,
`Look` the search for a participant row, `Add`, `TakeOff`, `Change` and
`Enlist` the transactions that write, each of which the policies may reduce to
nothing.

**Checkins.** An edit is `EditRead` (the route's check), `EditReadAgain` and
`EditWrite` (the store's read and update); a run is `BeginNudges` (schedule and
period), then `Consider` and `ClaimAndMail` for each person.  A period is
named by its first day, as its key is: a weekly and a daily schedule share the
keys of the days on which both begin one.

## 3. What the runs check

Runs are named as in `PROJECT.json`.  Every property of a passing run comes
with at least one mutant in the module, a plausible slip in the code, under
which TLC finds it violated.

| run | instance | question |
|---|---|---|
| `lock_pg` (`MfaAccountLock_pg.cfg`) | 2 replicas, 3 + 1 requests, 5 tickets, PostgreSQL | `ServedInOrder`, `MapEntryIffInUse`, liveness `EveryRequestEnds`, refinement `ImplementsMutex` |
| `account_member` | 1 browser, 2 requests in flight of 3, 3 TOTP steps, codes up to a step late | `FactorUsedOnce`, `NoStaleVerification`, `ReplacementNeedsProof`, where the requirement comes and goes with the authenticator |
| `account_two_browsers` | 2 browsers, 2 requests in flight of 4, 2 steps | refinement `GrantsAreOneTime`, for a role that always needs MFA, with two cookies and one grant row |
| `limit` (`MfaAttemptLimit_pass.cfg`) | 3 step-ups beside the routes, limit 4, window 3 | `WrongCodesCapped`, liveness `LimitLifts` |
| `news_consent` | 1 address with 2 grants, test and campaign message, 2 workers | `ConsentEvidence`, `RepeatedEventIsInert`, liveness `ClaimsSettle` |
| `news_ending` | 2 addresses, 1 campaign, 2 workers | refinement `SendsAreConsented`, `CompletedIsDrained`, liveness `ReleasedEnds` |
| `accounts` (`UnionAccounts.cfg`) | `MCUnionAccounts`: links, invitations, roles, seats, broadcast, outreach, travel, purchases, alerts | the list below |
| `work` (`UnionWork.cfg`) | `MCUnionWork`: time entries, time off, shift series, overtime, publishing, boot, imports, cases, check-ins | the list below |

What `accounts` (about 770,000 states) asks:

- `TokensAreOneTime` (links, invitations): both implement `OneTimeToken`,
  whatever reads them late or twice.
- `NewestLinkWorksOnce` (links): the password changes or the sign-in happens
  once though the effect is not in the transaction that consumed the row; a new
  link ends all that were out when it was asked for.
- `TermsInForce`, `GrantedRolesKept` (invitations): what an activation records
  is in force when it commits, or was until a scheduled version fell due while
  its transaction was open: the lock holds publications off, not the clock.
  Where the row policies bind it records nothing.  Roles of two acceptances add
  up.
- `LastAdminOnlyToRace` (roles): the guard fails only when another change
  outran the count.
- `SoundUnlessOverlapped`, `AuthorityMovesVersion` (seats): after operations one
  after another, failing anywhere, the primary seat is the account's local, an
  office has its seat, the halls are those of the active seats, and whoever has
  a seat has access to its local; and every change of authority, overlapping or
  not, renews the cookies.  Of the findings of the integrity scan the first is
  `primary_drift`.  The others are not excluded, as operations one after another
  reach them: an assignment that replaces without becoming primary leaves an
  account whose local is no seat of its own, an accepted invitation does not ask
  the policy of one seat, and a join writes back access to a local whose seat
  was replaced.
- `MailIsWarranted` (broadcast, outreach): `ConsentIsTheLastWord`, whenever the
  rows let a campaign send, the decision that committed last was a consent; and
  `LettersAreWarranted`, a letter leaves once, but for what overlapping or dying
  runs do, and not when its composition began after the address was suppressed
  or its dispatch after the subscription was.  A refusal recorded between the
  statements of a campaign, or later through another list, does not stop the
  letter: no later statement reads the suppressions.
- `MoneyIsAccountedFor` (travel, purchases): the ledger's total is what advances,
  differences and approvals ask for.
- `AlertsAreDue` (alerts): no mail within the cooldown of one that the provider
  answered for, and no run passes over what is due.  A mail whose answer was
  lost starts no cooldown: the next run may mail again at once.

What `work` (about 880,000 states) asks:

- `NoHourTwice`, `DecisionsStand` (time entries), `BooksBalance` (time off),
  for requests that follow one another: the code takes no lock here.  An hour
  stands in two counted entries only where no handler looks: a range entered for
  one local beside an entry of another, or a range that was there when the
  worker clocked in.  Two clocked entries never overlap.
- `SeriesIsFilledOnce` (shift series): windows in any order, repeated or
  overlapping, add up to one expansion of the whole; with expansions that
  overlap or die, duplicates are bounded.
- `CutsMoveASliceAtMost` (overtime): no moment is lost or paid in two buckets;
  how a day's work is cut into entries moves at most a quarter of an hour of it,
  in the worker's favour, as the slice that passes a threshold is classed whole
  (7.9 hours and a quarter are split otherwise than 8.15 hours); where entries
  and thresholds are whole quarters the split follows from the totals.
- `LiveWasReviewed`, `KeyPublishesOnce`, `ActedOnWhatWasSeen` (publishing),
  with stale screens, lost answers and repeated requests.
- `NoRepeatedMail` (boot): a boot mails what was mailed only after a mail that
  went unrecorded.
- `PublishedLinesAreSound` (data workbench): lines have both ends and close no
  circle, and no row is published twice, but for publications or changes that
  overlapped.
- `CaseTeamIsSound` (grievances): the case worker has a row of the team, and
  whom `authorizeGrievance` lets write, the policies let write, but for one case:
  a case worker listed again with a summary, to whom that row is hidden.
- `NudgesAreDue` (check-ins): one nudge for a period, and none to whom had
  answered when the run began, with overlapping and dying runs, midnight and
  edits between their steps; the period is one the editor chose.

**Findings.** Four runs end in a violation of what the repository says:

- `account_replay` (`FactorNeverReplayed`): a step-up compares a code with the
  old secret; before it consumes the counter, a reset or a new enrollment
  lowers the counter, and a code already used is accepted again.
- `account_grace` (`GraceOnlyWithoutAuthenticator`): the last transaction of a
  slow reset arms the re-enroll grace of an account that has enrolled again.
- `limit_uncounted` (`ChallengesCapped`): a right code while a grant is pending
  throws inside the transaction that counted the attempt, so it is not counted.
- `news_refusal` (`RefusalsAreHonoured`): when a worker died or its call timed
  out after the provider took the message, no message id is stored; the
  provider's complaint about that message is turned away each time, and the
  person gets the next message.

Two more disagreements are part of passing properties, as the exceptions they
have to make:

- `TermsInForce`: the activation reads the head of the Terms `FOR SHARE`, which
  is subject to the policy on updates
  (`0065_public_document_management.sql:59`).  Under the runtime role it finds no
  head and locks none: an activation prepared before a publication commits after
  it without Terms, and one that brings the Terms in force is refused.  A note
  (`docs/audit/session-knowledge-2026-09-27-invite-terms-acceptance.md:29`) says
  row locking rejects the stale version.
- `CaseTeamIsSound`: a case worker who is listed again with a summary does not
  find that row, as the policy shows rows to readers of the whole case only, and
  `authorizeGrievance` goes on to the assignment and grants `case_write`.  A
  summary participant without an assignment is denied.  `docs/RBAC.md:49` says
  case workers and participants get only their assigned level.

**What the conditions of the properties mean.** Where the code takes no lock,
the property that holds has a history variable in its hypothesis.  The variable
marks the race, and the code is right outside it only:

- `outrun`: two operators can remove each other and leave no administrator,
  where `set-user-roles.ts:22` says it refuses to strip the last one.
- `overlapped`: an operation on the seats of an account writes what it decided
  on rows that another one has changed since.
- `collided`, `muddled`: two clock-ins, or an approval beside a cancellation,
  both succeed; a handler that dies between status and balance leaves the hours
  undrawn.  The run takes no step that makes requests of one worker collide; the
  theorems cover those states too.
- `overtaken` (of an activation): a scheduled version fell due after the
  transaction had read its clock.
- `ragged`: an entry was not of whole quarters, so that slices are cut shorter
  and sums are rounded.
- `disturbed`: an expansion that dies between creating and marking a shift
  makes it again.
- `unclear`: overlapping runs of the outreach cron send a letter twice, and one
  that dies after it mailed sends its batch again.
- `slipped`, `strayed`: a refused or interrupted approval or reconciliation
  leaves its ledger entry; an edit between read and write makes the stored
  difference stale.
- `spoiled`: overlapping alert runs mail twice, and a run that is rolled back
  forgets what it mailed.
- `unsettled`: the deploy cron mails before it looks at the row, so a boot and
  the cron may both mail one deploy (`docs/modules/OBSERVABILITY.md:36` says
  the shared state prevents it).
- `excused`: a PATCH of a grievance that dies between its transactions, or that
  the policies stop half way (a president who restricts a case and assigns
  somebody in one request answers 404 with the first half committed), leaves a
  case worker without a row, whom the handlers let in and the policies do not;
  so do changes and removals that overlap.
- `tangled`: two edits of a schedule together leave it weekly without a weekday
  (and Monday is used), or a weekday on one that is not weekly.
- `crossed`, `edited`: publications of two datasets can together close a
  circle of supervisors; a decision read before and saved after a publication
  opens rows to be published again.

**Bounds, and why they are enough.** What the mutants provoke needs at most two
actors on one account (address, trip, resource), seldom three, and one
repetition: a factor used twice, a grant redeemed twice, a claim swept once and
sent by another.

- MFA: two requests in flight (three at the limiter, where the window's change
  is a third party), two secrets, code sets, nonces and session versions, and
  time to let a grant and a pending enrollment expire (`GrantTTL`, `PendingTTL`
  = 1 step, `MaxNow` = 2 or 3).  `MaxRequests` bounds how many unlocked requests
  there are in a behaviour; locked ones are bounded by the numbers they consume.
  `MaxTickets` bounds how often a request joins the lock: five lets one of four
  come back.  `MaxTried` bounds a history counter of the limiter.
- `MaxGrants` bounds the subscription requests of an address; two give an old
  and a new link.
- `accounts`: two links, two invitations with two acceptances and two versions
  of the Terms (`Versions`); two administrators; two locals and one operation
  with several steps (`Desks`), beside the operations of one step that may
  overlap it; two mailings with three tabs; two lists, two letters, two cron
  runs, three copies (`MaxCopies`); three requests for a trip or a purchase,
  two sums; two unions, two issues, two runs of the alert cron, two events
  (`MaxEvents`) and a clock of 2 (`MaxClock`), with `Threshold` 2, `Window` 1
  and `Cooldown` 2.  `MaxBooked` and `MaxPaid` bound the ledger.  In `Travel`
  and `Purchases` no request begins after one has slipped, and in `Alerts`
  nothing happens after runs overlapped: the properties say nothing of what
  follows.
- `work`: two entries in two locals (`Halls`), two requests in
  flight and three moments (`MaxTime`), enough for ranges that overlap, that
  touch and that lie in two locals; two requests for time off on one account, two handlers, one credit
  (`MaxCredits`); rules daily, weekly, by fortnights and with a maximum, three
  windows that partly overlap, two expansions of which one may die
  (`MaxDeaths`); three days with entries of less than a quarter, of one and of two
  (`Lengths`, `Quarter` = 3 moments) and thresholds below what can be worked
  (`MaxWorked`) that a slice can straddle; two operators, two texts, one key, three saves (`MaxLock`) and
  three changes of the policy (`MaxPolicy`); three boots, one cron run, two
  images and three moments (`MaxUptime`); three files in two datasets whose
  reporting lines together would close a circle, two runs, two publications,
  two versions of the mapping (`MaxMapping`) and two decisions
  (`MaxDecisions`), enough to publish a file in two parts or one of each; three
  people (a president, a grievance officer, one without an office), two rows
  for each (`RowIds`) and two requests about a case (`MaxAsks`), none after one
  was excused: the property says nothing of what follows; a schedule on Sunday
  and Monday (`MaxToday`), one person, two edits (`MaxEdits`) of three kinds,
  two runs, and two of these four under way together (`MaxBusy`), none after
  edits overlapped.

The proofs remove these bounds for what they cover.  Symmetry is declared for
sets of model values only, never in a run with a liveness property.

Configurations with bounds on time, tickets or requests say `CHECK_DEADLOCK
FALSE`: at the bounds a behaviour may stop.  Product news has no such end and
is checked for deadlock.

**Fairness.** In `MfaAccountLock` a request that can take its turn, ends its
work and releases (weak fairness: the event loop runs resolved promises, a
handler ends), and the row lock is strongly fair, as PostgreSQL queues the
waiters of a row; crashes and new requests are not fair.  In
`MfaAttemptLimit` only time is fair.  In `ProductNews` cron keeps calling the
route, time passes, and a living worker goes on; crashes, administrators,
subscribers and the provider are not fair.  `ReleasedEnds` allows a campaign
to be paused, as nothing makes an administrator resume it.  The other modules
state no fairness: their properties are safety properties, and what would have
to happen eventually is up to a person or to the next request.

## 4. What is proved

TLAPS checks these for all values of the constants, under the named
assumptions of the modules only.  Together they state every safety property of
the passing runs: what remains to TLC alone is liveness and the findings.

The assumptions say what a set of numbers, of rules or of changes contains
(`RulesAssumption`: what the columns of a rule can hold; `TravelAssumption`:
sums are positive, as the routes require; `CaseAssumption`: an office is one the
code tells apart), that the bounds are numbers large enough for one step
(`MaxLock`, `MaxPolicy`: a draft is saved once, a policy exists), that the markers
of "nobody" and "nothing" are not themselves persons or texts, and that sets which
are counted or summed over are finite.

- **Lock.** `LockInvariant` is the inductive invariant: besides types, the
  entry of the map is a live request (`TailLive`) and the youngest one
  (`TailYoungest`), a request awaits the one that joined just before it
  (`PreviousIsNeighbour`), whoever awaits nothing is the oldest
  (`HeadIsOldest`), and the row lock belongs to a working request
  (`RowLockOwner`).  Exclusion alone is not inductive: two requests that await
  nothing would both enter.  From it follow `LockExcludes`,
  `LockServesInOrder`, `LockMapTidy` and, step by step, the refinement
  `LockImplementsMutex`.
- **Account.** `TypesCorrect` bounds every number by the generator it came
  from.  `FactorsUsedOnce` rests on `FactorInv`: what was spent of the present
  secret is at most the counter, what was spent of the present set is not
  among the unused codes, and nothing in flight has a code that matches
  a secret not yet generated.  `NeverStale` and `ReplacementsPaid` rest on
  `SessionInv`: a verified claim of the present version was redeemed at it, and
  an unpaid pending secret exists only without an authenticator.
  `GrantsRedeemedOnce` and the refinement `GrantsImplementOneTimeToken` rest
  on `GrantInv`: the live grant has the newest nonce, and it is not redeemed.
- **Limiter.** `WrongCodesAreCapped` strengthens the types with `Charged`: the
  wrong codes of the window and the step-ups that hold a reservation of it
  together never exceed the count, so the cap follows from the row's.
- **Product news.** The row locks and the exclusiveness of claims (`LocksInv`)
  give at most one sender per person and per delivery, and a delivery that was
  not handed over yet has no copy out (`CopiesInv`); the two need each other,
  and from them follows the refinement `DeliveryImplementsMailing`.
  `CompletionIsLast` adds `DrainInv`: a sender that found its campaign drained
  has it locked, and no message but its own is open.  Two such senders of one
  campaign would each have seen the message of the other (`OneDrains`), so
  the commit of one does not falsify what the other read.  `ConsentIsBacked`
  and `RepeatsAreInert` follow from the types, action by action.
- **Administrators.** `LastAdminFallsToRaces` rests on `OthersLeft`: while a
  removal was not outrun, somebody else is an administrator.
- **Invitations.** `InviteInv` says who may hold which lock (`OpenIsAlone`,
  `KnownIsAlone`), that what a transaction has read under it is still so
  (`OpenIsPending`, `KnownIsCurrent`, and of the Terms `SharedTerms`, but for a
  version that fell due since), and that an accepted
  invitation is past being pending.  `AcceptancesMergeRoles`,
  `ActivationsTakeTermsInForce` and the refinement
  `InvitationsImplementOneTimeToken` follow.
- **Links.** `LinkInv`: links are issued in order, each is in one place at a
  time (`OncePlaced`: to be used, in a replica's memory, or effective), and
  whoever asked for a link has ended the older ones (`AskedFor`).  From it
  `LinksWorkOnce` and the refinement `LinksImplementOneTimeToken`.
- **Purchases.** `ApprovalsBookOnce` rests on `PaidInv`: one approval at most
  is between ledger and row, and what it booked is the total it read; as long
  as nothing strayed, nobody else has booked.
- **Seats.** `SeatInv`: at most one active seat is primary whatever overlaps
  (the unique index, `Indexed`), and until two operations overlap the rows agree
  (`SeatsAgree`) or the one operation in flight has read what makes them agree
  when it writes (`StillRead`).  Agreement alone is not inductive: what a
  write does depends on what was read.  `SeatsStaySound` follows;
  `AuthorityMoves` is argued action by action.
- **Broadcast.** `LastWordIsConsent` needs only that a row is held by one
  transaction at a time (`RowsHeldOnce`): each decision that commits has written
  both rows.
- **Outreach lists.** `OutreachInv`: a run that overlapped nobody and lost
  nothing has its letters to itself (`OpenInOne`), a letter that is queued and
  not in its hands has no copy out (`CopiedOnce`), and what is delivered was
  composed before any refusal (`DeliveriesAreClean`), so nothing is late.
- **Trips.** `TravelInv`: the ledger is what the rows hold plus what the requests
  in flight have booked or will undo (`RowsHold`, `AllCarried`, a sum over any
  finite number of requests), and what each carries is backed by the row it
  read (`Backed`).  With no request in flight, the sum is zero.
- **Alerts.** `AlertInv`: while runs do not overlap, the last firing of a bucket
  that the run has read is the last mail that was answered for (`LastIsKnown`), so that the cooldown
  it compares with is the one that counts; a run has decided on every bucket it
  has left behind.
- **The accounts together.** `PartsBehave`: a behaviour of the whole is, for each
  component, a behaviour of its own specification.  `AccountTypes`,
  `TokensWorkOnce`, `MoneyWasAccountedFor` and `MailWasWarranted` put the parts
  together.
- **Publishing.** `PubInv` says of every screen that it is behind the rows or
  shows them (`Knows`), of every release that its layer was reviewed
  (`ReviewInv`) and of every operation which one release it made
  (`OperationInv`).  `Knows` is what makes an expected version mean "unchanged
  since you looked": versions only grow, and no screen is ahead of them.
- **Boot.** `RowKnows`: until something is unsettled, the row knows the last
  mails, but for that of the one cron run that has not recorded it yet.
- **Time entries.** `TimeInv`: rows of clocked time lie one after the other,
  ranges of one local apart (`Apart`), and what the one request in flight has read is still
  so (`StillSo`).  `HoursArePaidOnce` and `DecidedEntriesStay` follow, for both
  stores.
- **Time off.** `OffInv`: what the one handler in flight still has to write is
  exactly what makes the books balance (`Owes`).  Without it the invariant says
  nothing between the status and the balance.  `BalancesAgree` follows.

- **Recurring shifts.** `SeriesInv`: of a day, shifts marked and expansions that
  found it missing are together at most as many as there are expansions
  (`DaysBounded`); one at a time, they are at most one, and the shifts there are
  are those the windows so far cover (`OneAtATime`, `Covered`).
- **Overtime.** `OtInv`: the engine's running total of the week is the sum of the
  days before.  Time that is regular, and time that is not double, is all of the
  day's up to its threshold and falls short of the threshold by a slice at most
  from then on (`Capped`): an entry before the threshold adds all of itself, the
  slice that passes it adds nothing, and nothing is added later.  Where all is
  whole quarters no slice passes a threshold, and the split of a day grows with
  its hours (`SplitGrows`).
- **Check-ins.** `CheckinInv`: nobody on a run's list had answered when it began
  (`JobsWereFree`), and what an edit is about to write keeps cadence and weekday
  together (`EditIsSound`, `WriteIsSound`) until another edit came between.
- **Grievances.** `CaseInv`: only requests that add people share a case
  (`AddsShare`), whoever changes or removes somebody knows the case worker
  (`WorkerIsKnown`), and the case worker is on the team or about to be enlisted
  (`WorkerStands`); beside it, a row that says "member" is of the member
  concerned (`MemberRows`), which the handlers do not grant the case.  That what
  the handlers grant the policies admit, but for the exception, then follows
  from the two definitions (`GrantsAreBacked`).
- **Data workbench.** `ImportInv`: what an open publication is about to write
  names people who exist (`Grounds`) and closes no circle with the lines there
  are (`Opens`), and its rows still say "accept" (`Accepted`).  That adding
  such lines keeps the whole free of circles is `NewLinesCloseNoCircle`.
- **The work components together.** `WorkTypes`, from `WorkPartsBehave` and the
  invariants above.  Three components need a few more bounds (`TimeBounds`,
  `OffBounds`, `PubBounds`).  In `TimeBounds`, only clocked time can be active,
  so that a clock-out by a request that has looked too early still ends a range
  after its beginning.

**Induction over data.** The library's induction theorems cannot be used here, so
what needs induction over a set or a number is argued from a smallest
counterexample: a non-empty set of natural numbers has a least element
(`WFMin`), a set of finite sets a smallest one (`SmallestSubset`).  That is how
sums (`SumProofs`), minima of days (`MinIsLeft`), maxima of times (`HasMaximum`)
and circles of supervisors (`NewLinesCloseNoCircle`) are reasoned about.

Only model-checked: liveness (`EveryRequestEnds`, `LimitLifts`, `ClaimsSettle`,
`ReleasedEnds`), which is beyond the prover, as is `ENABLED`.  The violations of
section 3 are TLC's counterexamples.

## 5. What is left out

In the modelled components:

- The memory fallbacks of the MFA stores and of invitations, e-mail codes,
  demo bypasses, the file backend of boot notification: another profile than
  the hosted one.
- Throttles, the clean-up of old tokens and preference pages: they only make
  fewer things happen.  The order of the product-news queue among campaigns.
- The state `revoked` of an invitation, which nothing sets.  The other roles a
  connection may have: `policed` is one that the policies on updates bind, or
  one that they do not.
- In time entries: the row policies.  No handler of time entries tells the
  connection whose request it serves; what is said of PostgreSQL is about a
  connection that the policies do not bind.  In the overtime engine, the rounding of
  what is handed out to hundredths of an hour.
- In the seats: lifecycles of unions, collectives and locals, and the move of a
  local.  As the code reads, `executeLocalMove` (`local-move.ts:695`) calls the
  membership functions of migration 0098 on the owner connection without
  binding the RLS context they check, so a move of a local that has people is
  rolled back; there is no state to explore.
- In workforce time: formulas of accrual, pay periods, exports, geofences,
  photos, swaps.  An accrual run that is repeated credits twice; nothing in the
  tables says which period was credited, so no property can be stated.  A
  request made by a worker draws on the account's balance while accruals credit
  the roster's, two rows that nothing joins; the model keeps them apart.
- In publishing: compilation, scopes, ancestors, grants, assets.  In the data
  workbench: plain tables, dues and memberships, parsing and storage of files.
- In travel and expenses: attachments, rounding, manual changes of the ledger.
- In alerts: rules of one union, filters, retention, the cap of rows.
- In grievances: events, notes, outcomes, attachments, deadlines; delegations,
  executive members and break-glass grants, which add readers and writers and
  change neither team nor assignment.  As the policies read, the event that
  filing inserts needs access to the case before its participants exist, so
  filing by a steward is rolled back; the model lets those file whom the
  policies let.
- In check-ins: creation and the choice of recipients.  The routes of check-ins
  set no tenant, and the store's wrapper (`rls-store.ts:39`) knows no method of
  theirs, so that under `unionops_app` they find no schedule and `getAnswer` in
  the cron finds no answer; the model is of a role the policies do not bind.
- Cryptography: a code matches or does not, a nonce is fresh.  Texts of
  messages and all formatting.

Components without a module:

- Elections, polls, governance proposals: a nomination rewrites a JSON column
  that it has read, so two at once lose one; no votes are stored; responses are
  inserts under a unique index.  One read and one write without a guard is all
  there is to model.
- Meetings, ledger, bumping, Portal: single rows with
  single statements; what could go wrong is in the policies of PostgreSQL.
- Documents and attachments, e-mail transport: effects outside the database;
  the callers' view of them (a call may be done and not known to be) is in
  `ProductNews`, `OutreachLists`, `BootNotify` and `Alerts`.
- Database access and RLS context: transactions are the atomicity of every
  module, policies are modelled where a handler's decision depends on them
  (`CaseAccess`, `Invitations`).
- Toolbox, export, brand, learning content and the user interface hold most of
  the repository's lines: generation of documents and layout, without state
  that two actors share.

## 6. Plan

What is modelled covers the components whose handlers interact.  Next, in this
order:

1. `LocalMembership` with two operations of several steps in flight and without
   halls, to say which pairs of operations are safe.
2. `TimeOff` with the two identifiers of a worker in one run, and pay periods,
   once the code stores which period an accrual belongs to.
3. Nominations in elections, once they are guarded by a version.
