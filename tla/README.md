# Verification of the Nihongo practice service

TLA+ models of the parts of this repository that keep what must not be lost or done
twice:

* learners' data: practice sessions with server drafts, submissions and retries, the wrong
  notes that grow out of them, guests and the job that erases them (`src/apps/api/src/study`,
  `wrong-note`, `auth/guestPrincipalService.ts`, `src/packages/domain/src/review`, and the
  PostgreSQL schema they run on);
* the browser's side of a practice session (`src/apps/web/src/app/practice`,
  `src/packages/browser/src/app/practice`);
* accounts: sign-in, sessions, linked identities, and the erasure with its revocation at the
  identity providers (`src/apps/api/src/auth`);
* questions: the commands of administrators on a question and its versions
  (`src/apps/api/src/admin`).

TLC checks the models on small instances; TLAPS proves theorems for all of them.

    tlc -config MCStudy.cfg MCStudyPractice
    tlapm StudyPracticeProofs.tla

`PROJECT.json` lists components, runs, mutants, hazards and theorems, and says for each
definition which lines it models.

## The system

| Component | State | Operations | How it interacts |
| --- | --- | --- | --- |
| Practice sessions | `StudySession`, `StudyDraft`, `StudyResult`, `StudyAnswer`, `IdempotencyRecord` | create, read, save draft, submit, cancel, retry mistakes, targeted review | one database transaction per request; pins published question versions; a submission updates wrong notes and renews the guest |
| Guest principals | `GuestPrincipal` | issued with the first session, renewed by a submission, cleared by the browser | every row of a guest cascades from it |
| Guest clean-up job | none of its own | batches of four kinds of deletions under an advisory lock | races every guest request; reads the database clock, requests read the process clock |
| Wrong notes and review | `WrongNote`, `ReviewSchedule`, `ReviewEvent` | changed by submissions; the review pointer is moved by sessions that review | advisory lock per user and question |
| Review reconciliation job | none | replays the events of each note and reports mismatches | read only |
| Questions (admin) | `Question`, `QuestionVersion`, reviews, operation intents | draft, review, publish, retire, archive, import, export | preflight outside, commit inside a transaction with row versions and an authority that may run out |
| Reports | reports, their triage | report, claim, resolve, retention | row versions |
| Sign-in and owned sessions | `User` with an authority generation, `Account`, `Session`; transactions with the identity provider and fresh proofs | sign in, sign out, prove afresh, link, unlink | a change of authority ends the user's sessions; every protected request compares the generation |
| Administrators' fresh authority | sessions with the time of their proof | step up, sign in again | looked at when a command begins and when it commits |
| Account erasure | `SsoAccountErasureRequest` with a status per provider, a lease and a dispatch marker | request, claim, begin, revoke, record, complete | an external call whose outcome may stay unknown; overlapping runs of a scheduled command; the erased author's questions |
| Browser drafts | a working copy per tab, in memory and in the session storage; the stored attempt of a submission with its key | save after a pause, merge after a conflict, signal to other tabs, submit | calls read, save and submit; tabs talk over a `BroadcastChannel` |
| Rate limiters, readiness, shutdown | counters, open connections | consume; drain | - |
| Routes, contracts, catalogue, dashboard, bookmarks, content commands, user interfaces, infrastructure | - | - | around the above |

What is hard here is the same in most places: a request holds a clock reading, a
snapshot or a page that may be out of date when it commits; answers get lost and are asked
for again with an idempotency key, or must not be asked for again; a practice session ends
in five ways (submitted, cancelled, expired by whoever looks first, erased, cleared) that
race each other; several transactions with a call to somebody else in between make up a
sign-in, a link or a revocation; and writers at different isolation levels share the rows.
For each component, what makes it right:

* sessions: one outcome per key, one result per session, no acknowledged save lost,
  tables that agree with each other, retries that keep their source;
* guests: no session outlives the credential, renewals never go back, everything is
  erased in the end and nothing a client may still ask for is erased early;
* notes: event chain, note and schedule always agree, time is strictly increasing
  whatever the order of submissions, pointers never pass the published version;
* transactions: what happens is what happens when handlers run one at a time; no
  deadlock but the known one; every call is answered;
* browser: every base is one the server had, an unanswered request keeps its key over a
  reload, a save writes only what was typed, a merge drops only what somebody else has
  overwritten, what is graded is what was shown, every tab gets unlocked and saved;
* accounts: no session outlives a change of its user's authority; an erasure cleans up
  exactly the identities its user has;
* erasure: no provider is called twice, no user erased before the providers are, no outcome
  that came in time is lost, no request left where no run takes it up;
* questions: no decision on a row that has changed since, no command committed without the
  authority it needs, what is published is what was approved.

## Modules

### `StudyPractice` - one action per handler

State: the tables, as functions from ids to rows (`session`, `draft`, `result`,
`record`, `guest`), the clock `now`, and `committed`, a history of every outcome a keyed
request has committed. An answer sheet is an element of `Sheets`; `Mistaken` are those
with a wrong answer. A row that is not there is `None`, an id never used `"UNUSED"`.

| Action | Code |
| --- | --- |
| `CreateSession` (`CreateForUser`, `CreateForGuest`, `CreateForNewGuest`) | `studySessionRepository.ts` `create` |
| `GetSession`, `GetDraft` | `findOwnedById`, `studyDraftRepository.ts` `findOwned`; only their expiry changes anything |
| `SaveDraft` (`SaveExpires`, `SaveApplies`) | `studyDraftRepository.ts` `runSave` |
| `Submit` (`SubmitExpires`, `SubmitApplies`) | `studySubmissionAtomic.ts` `runAtomicSubmission` |
| `CancelSession` | `cancelOwned` |
| `RetryMistakes` | `studyResultRetryRepository.ts` `createRetryInTransaction` |
| `TargetedReview` | `wrongNoteTargetedReviewRepository.ts` |
| `ClearGuest` | `guestPrincipalService.ts` `clear`, with the schema's cascades |
| `CleanDraft`, `CleanSession`, `CleanPrincipal`, `CleanRecord` | `studyGuestCleanupBatch.ts` `deleteCandidate` |
| `Tick` | time |

A handler that rolls back changes nothing and is a disabled action; one that commits
the expiry and then answers with an error is the `...Expires` disjunct. A replay
(`record` still live) changes nothing either. A request carries `at`, the process clock
when it arrived, which the code keeps over its retries: `at` may be up to `MaxLag`
behind `now`. The clean-up job goes by the database clock, `now`.

### `PracticeTransactions` - the same handlers, statement by statement

Adds `txn`: for each call its handler, the step it is at, its attempt, its snapshot and
its locks. A step is one lock that may have to wait plus what the handler decides once
it has it: `GUEST`, `SESSION` and `SOURCE` lock or share a row, `LOOK` compares with
the snapshot, `RESERVE` inserts the idempotency record, `EXPIRE` and `WRITE` commit,
`CLEAR`, `CASCADE` and `CLEAN` delete. What is assumed of PostgreSQL:

* Serializable (create, save, submit, retry) reads a snapshot taken by the first
  statement; changing or locking a row that was changed since fails with 40001. The
  further failures of SSI are not assumed: with them there are more conflicts, never
  fewer. Prisma reports 40001 and 40P01, and `isSerializableConflict` starts the whole
  transaction again, up to `MaxAttempts` times.
* Read Committed (read, cancel, clear, clean-up) sees the rows as they are under its locks.
* Row locks `KEY SHARE`, `NO KEY UPDATE` and `UPDATE`. An insertion shares the rows its
  immediate foreign keys name. The foreign keys of `IdempotencyRecord` to
  `StudySession` are deferred to the end of the transaction
  (`prisma/migrations/20261105090000_baseline/migration.sql:3662`), the one to
  `GuestPrincipal` is not; a shared row that was changed but not deleted is no conflict.
* The clean-up job skips locked rows and checks its predicate again when it deletes.

`Atomic == Practice!Spec` says that this implements `StudyPractice`: `txn` is left out,
the tables are the same, and each step maps to one action of it or to a stutter. It is
what justifies modelling a handler as one action everywhere else.

A deletion locks what it cascades to after the row itself: clearing or erasing a guest
locks its sessions and records (`GuestCascade`), deleting a session its records
(`SessionCascade`). A submission and a retry delete an outdated record when they look it
up, before they reserve the key and lock a session; a save does so when it reserves, with
its session locked (`Outdated`, `DiscardLocks`).

The clean-up job leaves the draft of a session for `Grace` (7 days) after it ran out, and a
handler answers within `MaxLag`; `GraceAssumption == MaxLag <= Grace` is what the atomicity
of an expiry rests on: a session that a handler saw in progress is not cleaned away before
the handler has locked it.

A read (`ReadStart`, `ReadSession`: of a session, `findOwnedById`, or of its draft,
`findOwned`, which takes the same steps) checks the credential, locks the session and
commits its expiry when it is due, beside handlers whose snapshots still show it in progress.

Left out: targeted review and wrong-note locks and the locks a retry takes on questions
(tables of their own, always locked in the order of the question's id), and that a batch
keeps the locks of earlier candidates until it commits.

### `WrongNotes` - review state of one learner

`note`, `schedule` and `events` per question, the sessions with the question versions
they pin, and `current`, the published version number of each question. Notes are keyed
by user and question and written under an advisory lock of that pair, so one learner is
enough and a submission is one action. `ApplyWrongNoteReview`, `ValidState`,
`OccursAfter`, `Interval` are the algorithm of `apply-wrong-note-review.ts`; `EffectiveAt`
is the time `runAtomicSubmission` picks; `Replay` is the fold that
`reconcile-wrong-note-review.ts` runs over the events. What the reconciliation job would
report is stated as invariants: the job must never find anything.

### `StudyDraftSync` - the browser's side

`tab` holds for each tab what `usePracticeDraftController.ts` keeps: the working copy
(confirmed base, local changes, a frozen attempt, what was typed after it), its copy in
the session storage, the state of saving, the block while the draft is checked, the
remote revision to look at and its deferral, the last draft it validated, the stored
submission and the calls on their way. `history`, `saved` and `closed` are the server: every revision, the
idempotency records, whether the session is over. Its rules are those of `SaveDraft` and
`Submit` in `StudyPractice` (replay, refusal, revision check), without expiry.
`wire` holds writing requests the server has not handled, `signals` the revisions other
tabs have announced.

JavaScript runs one turn at a time, so an action is what happens between two awaits:

| Action | Code |
| --- | --- |
| `Open`, `Reload` | mounting, with the recovery of a stored attempt; the storage stays, memory and signals go |
| `Edit` | `updateVisibleSnapshot` |
| `SaveStarts`, `PutAcknowledged`, `PutRejected`, `SaveCompletes` | `performSave` and `completeSave`: freeze, store, send; check the acknowledgement; mark a rejected attempt; read back and lay later edits over it |
| `Signal`, `Drain`, `FetchDone` | the signals of `useStudyDraftRevisionSync`, `drainPendingRemoteRevision`, `reconcileFromServer` |
| `QueryDone` | the effect on the draft query, which is enabled while there is no unsaved work |
| `Online`, `RetryReads`, `CallFails`, `SessionOver` | `handleOnline`, `retrySave`, the failure paths, `settleTerminalSession` |
| `SubmitStarts`, `SubmitAgain`, `SubmitDone`, `SubmitRejected` | `handleSubmit`, the stored attempt, `handleSubmissionFailure` |
| `ServePut`, `ServeRead`, `DeviceSaves`, `DeviceCloses` | the server, and the same learner on another device |

A failure is a call that is given up while its request may still arrive, a storage that
refuses a record, or a connection that comes back (`MaxFailures` counts all three).

Two limits of the code are not in the model. `Refreshing` starts a read of the draft only
when no other such read is on its way, and a signal that arrives meanwhile shares it; in the
code a reconnection, a retry or a drain can start `fetchCanonicalDraft` beside one another
(`usePracticeDraftController.ts:869`, `:1668`, `:648`). Each answer passes the same checks
when it arrives, and reads of the saves and of the query do overlap here. And attempts are
not counted: `Drain` goes on until the revision is reached, where the code gives up after
three reads that others have overtaken (line 627), a flush after four turns (line 1517). Both
then end in the error of a failed call, with its retry; at most two revisions can be announced
within the bounds of the runs.

Left out: the clock of the questions (its seconds are a field like others, but it writes
them by itself before a save), the gap between saves and the pause after a 429, the refresh
on focus where `BroadcastChannel` is missing, working copies of the older format with a
conflict in them, changes of the signed-in user, a duplicated tab that shares a copied
session storage, a failed read of the session after a refusal.

### `ProviderCleanup` - revocations and erasure

`request` holds the rows of `SsoAccountErasureRequest`: the status of each provider, the
lease with its token, the marker `activeProvider`. `worker` are runs of the erasure command,
`calls` the statements they have sent and the database has not carried out yet, `remote` a
history of what the providers were asked. Process and database have different clocks of one
speed, so time is what is left of leases and deadlines.

| Action | Code |
| --- | --- |
| `Request` | the row and its providers, `accountErasureAuthority.ts`, and the trigger that lists them |
| `Start`, `Begin`, `Dispatch`, `Settle`, `Refuse`, `Defer`, with `Claimed`, `Begun`, `Recorded` | the batch and the adapter in `ssoProviderRevoke.ts` |
| `ServeClaim`, `ServeBegin`, `ServeRecord` | `claimProviderCleanups`, `beginProviderCleanup`, `recordProviderCleanup` in `ssoAccountAuthority.ts` |
| `ClaimFails`, `CallFails`, `Crash` | deadlines, errors and the end of the process; a statement given up is carried out later or never |
| `List`, `Complete`, `Finish` | `runSsoAccountErasureBatch`, `completeSsoAccountErasure` |
| `Tick` | time |

### `SsoAccounts` - identities, proofs and sessions, composed with `ProviderCleanup`

Extends `ProviderCleanup` with `user` (status and authority generation), `owner` (the user an
identity is linked to), `session` (what each browser holds), and `signIn` and `flow`: the
sign-ins, fresh proofs and links under way, whether held by a handler or stored in a row.

| Action | Code |
| --- | --- |
| `Lookup`, `Resolve` | `ssoIdentityRepository.ts`, `resolve_sso_identity`: an identity is found or a user made under the lock of the identity, then the user is locked |
| `Issue`, `Confirm`, `SignOut` | `ownedSessionAuthority.ts`; a session that has lost its authority before it is confirmed is taken back |
| `Prepare`, `CreateTransaction`, `Consume`, `StageProof`, `CompleteFresh`, `CompleteLink` | the steps of a fresh proof and of a link in `ssoAccountAuthority.ts`, with the provider in between |
| `Drop` | a proof or a transaction runs out, or its handler fails |
| `Unlink`, `RequestErasure` | `unlinkAccount`, `requestSsoAccountErasure`; triggers step the generation and delete the user's sessions and proofs |
| `Erase` | `eraseConfirmedUser`, together with the `Complete` of `ProviderCleanup` |

Every other step of the erasure is one of `ProviderCleanup` and leaves the accounts alone.
Each transaction locks the `User` row before it decides, so one transaction is one action.
That a user may not ask for the erasure while an author of open versions is in
`QuestionLifecycle`.

### `QuestionLifecycle` - commands of administrators on a question

`rows` are a question and its versions, `admin` the session of each administrator, `cmd` the
command of each.

| Action | Code |
| --- | --- |
| `View` | the page, with the row versions its form sends back |
| `Send`, `SendCreate` | `adminQuestionCommandRepository.ts`: the target read before the transaction, the expected row versions, the rules of the command |
| `BeginAndArm` | `adminOperationAuthority.ts` (users and session locked), `adminOperationArm.ts` (question and version rows locked and compared with the target) |
| `Finish` | the writes, the second look at the authority, the commit |
| `Fail` | any roll-back |
| `Age`, `SignIn` | a session that stops being fresh, runs out or is replaced |
| `RequestErasure`, `Erase` | the erasure of an administrator; `tombstoneErasedUser` retires open versions and steps row versions |

The writes rest on the target read before the transaction, as in the code, and the
constraints and triggers of the database are not guards: `AggregateConsistent` says that
the commands never need them.

### Proof modules

`StudyPracticeProofs` (tables, guests) and on it `StudyOutcomeProofs` (records, results and
saves): theorems about `StudyPractice`. `PracticeTransactionsProofs`: that the transactions
implement it, and who can deadlock with whom.
`WrongNotesProofs`, `QuestionLifecycleProofs`, `ProviderCleanupProofs`, and on the latter
`SsoAccountsProofs`. `StudyDraftSyncProofs`: what the tabs know of the drafts, and what their
requests can still do. See below.

The seven `MC` modules, one for each of the modules above, only add what TLC needs: symmetry
sets and, for `MCSsoAccounts`, the providers of the identities.

## Runs

| Run | Instance | Question |
| --- | --- | --- |
| `study` | a user and a guest, 2 sessions, 1 key, 2 sheets, clock to 3, lag 1, 2 saves | Do drafts, results, records and guests stay consistent in every order of requests, retries of requests and clean-up, and is the guest erased in the end? |
| `guest_start` | a guest, 2 sessions, 1 key, clock to 3, lag 1 | Can a guest with a valid credential always start a session? It cannot: see Findings. |
| `wrong_notes` | 2 questions, 3 sessions, 2 versions, clock to 1, lag 1 | Do notes, schedules and events agree under overlapping sessions and publications? |
| `transactions` | a guest, 2 sessions, 1 key, 4 calls, 2 attempts, clock to 3, lag 1; create, save, submit, read, cancel, retry, clean-up | Are handlers and deletions, statement by statement, atomic beside each other, and free of deadlock? |
| `transactions_keys` | a user and a guest, 1 session, 2 keys, 4 calls, 3 attempts, no time; create, save, submit, clear | The same for two keys and for clearing the guest; is every call answered? |
| `draft_tab` | 1 tab, 1 field, 2 values; 2 edits, 2 failures, 1 reload, 1 step of another device | Do saves, merges, reloads and a submission keep what was typed, in every order of calls and answers, and does the tab always end saved and unlocked? |
| `draft_tabs` | 2 tabs, 2 fields, 3 values; 2 edits, 1 failure or 1 reload | Is nothing saved, shown or graded that was not typed, when two tabs edit, signal to each other and merge? |
| `draft_restore`, `draft_deferral` | 1 tab, 1 field; up to 2 edits and 2 failures | Is stored work shown again after a reload, and does the notice of a deferral end? No: see Findings. |
| `provider_cleanup` | 1 request, 1 provider, 2 runs, 2 tokens, lease 3, call 1, 1 failure | Is the provider called once at most and the user erased after it, and does every request end erased or with a marker, whatever is late, lost or crashes? |
| `sso_accounts` | 1 user, 2 providers with an identity each, 2 browsers, 2 sessions, 3 flows, 1 run, 1 token, lease 5, call 2 | Do sessions end with the authority they were issued under, and does an erasure list the identities the user has? |
| `questions` | 2 administrators, 2 contents, 2 versions | Does every command act on the rows it was decided on, with the authority it needs? |

Bounds. Two sessions are a session and its retry, or two sessions that compete for a
key; a longer chain of retries is removed from its end, one pair at a time. Two sheets tell
an update that was kept from one that was lost. In `study`, records, sessions and
credentials live for one or two ticks, records of submissions shorter than sessions, sessions no longer
than the credential; the clock reaches the erasure of a guest who was last renewed at the
start, with its session, retry and records on it. Later renewals are explored too, but their
erasure lies beyond the clock. One key there, as what two keys do to one session is asked in
`transactions_keys`. Three overlapping sessions over two questions give each
note up to three answers, which is how many it takes to reach `SOLVED` and to fall back
from `REVIEWING`; the interval of a fourth streak is never reached, as `Interval` is a
table. Four calls are enough for a conflict with its cause still running and a third
party locking what the first needs; the real number of attempts is 5 (save, submit) and
3 (create, retry), and the bound of 2 or 3 reaches success after a conflict as well as
giving up. In `transactions` the clean-up leaves drafts for `Grace = MaxLag`, the shortest time
`GraceAssumption` allows, and gets as far as deleting a guest. The circle of a clear and a save
comes up in `transactions_keys`; those of a clean-up take more than four calls, and rest on
`OthersNeverDeadlock`. Symmetry is used only where no liveness property is checked. Deadlock
checking is off because the bounds stop the system: the clock stands still, all ids are used,
all calls are answered. Where waiting for each other matters it
is a property (`OnlyDeletionsDeadlock`).

In `StudyDraftSync` two edits are one that is saved and one made meanwhile, or one each of
two tabs. With the three values of `draft_tabs` two sides can change a field from the same
value to different ones, which is when a merge has to choose; the field beside it shows that
it leaves that alone. Two failures let a retry fail as well. `draft_tabs` stops where a failure
and a reload come together (`OneMishap`), which keeps it within minutes; one tab meets both in
`draft_tab`, and the theorems about the same properties hold for any number of each.

In `provider_cleanup` two runs of the command overlap on one request, where the second can claim what
the lease of the first has let go while statements of the first are still on their way; rows
of different requests share nothing but the runs. The lease is the shortest the assumption
`Lease > 2 * CallTime` allows, so that every deadline can be missed by a tick; what is proved
holds for longer ones. `sso_accounts` has a provider to unlink and one to keep, and two
sessions: one to prove and ask with, one of another browser that has to end with it, or to be
refused. One run without failures is enough there: the erasure itself is the question of
`provider_cleanup`, and `AccountsImplementCleanup` carries its answers over. In `questions`
two administrators are an author and a reviewer, or two with pages of different age; two
versions are the published one and its successor; four steps of the question row and five of a version
row are a creation, review, rejection, revision, approval, publication and retirement in
the order the rules allow.

Properties of `StudyPractice`: `RowsAgree`, `ReplayableWithinRetention`,
`OneOutcomePerKey`, `OneSubmissionPerSession`, `NoLostUpdate`, `LineageKept`,
`GuestOutlivesSessions`, `GuestRenewalMonotonic` (action property), `GuestDataErased`
(liveness). Of `PracticeTransactions`: `OnlyDeletionsDeadlock`, `Atomic` (refinement),
`EveryCallAnswered` (liveness). Of `WrongNotes`: `HistoryAgrees`, that is
`EventChainReconciles`, `NoteReconciles`, `SourceModeReconciles` (what the reconciliation
job looks for) and `StatusTellsHistory`; `SubmissionNeverRefused`, `PointerNeverAhead`,
`PointerMonotonic` (action property).
Of `StudyDraftSync`: `BasesReal`, `AttemptsRemembered`, and the action properties
`SavesOnlyWhatWasTyped`, `GradedAsShown`, `KeepsWhatIsShown`, and `Converges` (liveness).
Of `ProviderCleanup`: `RevokedAtMostOnce`, `ErasedAfterCleanup`, `LeaseCoversCall`,
`ErasedOrInDoubt` (liveness). Of `SsoAccounts`: `SessionsCurrent`, `CleanupListsAccounts`.
Of `QuestionLifecycle`: `AggregateConsistent`, `PublishedAsApproved`, `AuthorityAtCommit`
(action property). Each module has one type invariant besides.
Each has a comment at its definition, and each has a mutant: a definition with a
plausible bug beside the real one, under which TLC finds the property violated.

Fairness. `GuestDataErased` assumes that time passes (`WF(Tick)`) and that the clean-up
job keeps running (`WF(Cleanup)`): `src/infra/aws/operations.tf` schedules it every hour
once `guest_cleanup_schedule_enabled` is set, as one run stops at 1,000 rows; a batch
works through all candidates, so no candidate that stays one is passed over for ever.
Nothing is assumed of clients. `EveryCallAnswered` assumes that a call that is not
waiting goes on (`WF(Serve(c))`): the server and the database work. That waiting ends is
not assumed but shown: transactions that hold locks finish, and a deadlock is broken.
`Converges` assumes that what is sent is handled and answered (`ServePut`, `ServeRead`),
that the event loop takes the turns that are due, that the autosave timer fires, and that a
learner who is shown an error with a retry button presses it (`Retry`). Nobody has to edit,
submit, reload or go online. Calls that fail are bounded by `MaxFailures`. Two states in
which the code waits for the learner or a reload are let through by name (`Deferring`,
`Locked`); see Findings.
`ErasedOrInDoubt` assumes that the command is run again and again: the host runs it hourly
through `infra/aws/files/erase-deletion-pending.sh` once `erasure_schedule_enabled` is set
(`src/operations/runbooks/account-erasure.v2.md:4`). So runs go on with their steps
(`WF(RunStep(w))`, which starts them too), the database carries out what it got
(`WF(Serve)`), time passes between runs (`SF(Tick /\ Resting)`), and it does not happen for
ever that runs overlap or are delayed in their midst beyond a deadline. A marker left by a call
whose outcome is unknown stays, as the runbook says (lines 16-18): an operator has to look
into it, which is why `InDoubt` is one of the two ends.

## Findings

`guest_start`: creating a session writes `lastSeenAt` with the clock reading the handler
took on arrival and keeps over its retries (`studySessionRepository.ts:923`). When
another request of the same guest with a later reading has committed in between, the
write goes back and the trigger of the database refuses it
(`migration.sql:1595`, "GuestPrincipal renewal timestamps must be monotonic."), which no
handler expects: the guest gets an internal error and no session. A submission avoids
this by taking the later of the two times (`studySubmissionAtomic.ts:278`).

Two in the browser (`StudyDraftSync`), with the messages the learner sees in
`src/packages/browser/src/i18n/resources/ko.ts`:

* `draft_restore`: after a reload whose first read of the draft fails, the retry button
  starts a clean working copy from the server's draft and ignores the stored one
  (`usePracticeDraftController.ts:1625`), where the ordinary way in merges it (line 1363).
  The next edit overwrites the stored work, which the message at `ko.ts:735` says is kept and saved
  once connected. Until then the stored work can come back with the next reload, also after a
  submission of the draft without it was sent; `GradedAsShown` therefore
  leaves out drafts graded while the storage still has such work (`~Work(r.stored)`).
* `draft_deferral`: a draft read while an attempt was on its way defers a remote revision
  (line 567, also the signals at 824 and 843). If that save fails and the learner edits
  again, the autosave timer waits for the deferral to end
  (`useStudyDraftAutosaveTimer.ts:44`) and the deferral for the attempt to be over. The
  message at `ko.ts:728` says that the draft is being checked, and offers no retry.

A third one, without a run of its own, is left out of `Converges` by name (`Locked`): a
read asked for before a save and answered after the draft query has brought a newer base
raises a `DraftIntegrityError` although the server is right (lines 512 and 557). With an
attempt whose save has failed, every retry then throws (lines 1047 and 1526) although the
message at `ko.ts:738` offers one; a reload helps. It takes two failures and another device.

One thing the transactions of a practice show is known and accepted: clearing a guest takes guest, then
sessions and records; saving takes session, then guest. PostgreSQL breaks the deadlock, the save
starts again, but a clear that is chosen as the victim is not repeated
(`guestPrincipalService.ts:154`). The clean-up job meets the same circle when it erases a
guest, and another when it deletes a session, then its records, while a retry or a submission
deletes an outdated record and then shares or locks the session. `OnlyDeletionsDeadlock` says
that every circle has such a deletion in it; `OthersNeverDeadlock` proves it for any number of calls.

## Proofs

TLAPS proves every safety property that the passing runs check, invariants, action properties
and refinements, for every choice of owners, sessions, keys, sheets, calls, attempts, tabs,
fields, values, questions, requests, providers, runs, identities, browsers, administrators,
contents, retention times, leases, clock lags and bounds. What is assumed are the named
assumptions in the modules, which TLC evaluates in their runs. In `StudyPractice` they say
nothing of how the times relate: the promises do not depend on one retention, all set in
different files, being longer than another. In `PracticeTransactions` a handler may not take
longer than the 7 days for which the clean-up job leaves a draft (`GraceAssumption`). In
`ProviderCleanup` the lease has to be longer than two calls (`LeaseAssumption`), without which
the batch refuses to run (`ssoProviderRevoke.ts:169`). The others say that values are of their
kind and that `None` is none of them.

| Module | Theorem | Property |
| --- | --- | --- |
| `StudyPracticeProofs` | `TypeCorrect` | `TypeOK` |
| | `RowsAlwaysAgree` | `RowsAgree` |
| | `GuestsOutliveSessions` | `GuestOutlivesSessions` |
| | `RenewalsMonotonic` | `GuestRenewalMonotonic` |
| | `SessionsMoveOn` | `[][\A s \in Sessions : Onward(s)]_vars` |
| `StudyOutcomeProofs` | `OutcomesReplayable` | `ReplayableWithinRetention` |
| | `OutcomesUnique` | `OneOutcomePerKey` |
| | `GradedOnce` | `OneSubmissionPerSession` |
| | `RetriesKeepSource` | `LineageKept` |
| | `NoSaveLost` | `NoLostUpdate` |
| `PracticeTransactionsProofs` | `TypeCorrect` | `TypeOK` |
| | `Invariance` | `Inv`, the inductive invariant |
| | `HandlersAreAtomic` | `Atomic` |
| | `OthersNeverDeadlock` | `OnlyDeletionsDeadlock` |
| `StudyDraftSyncProofs` | `DraftInvariant` | `Sound`, the inductive invariant |
| | `DraftTypeCorrect` | `TypeOK` |
| | `BasesAlwaysReal` | `BasesReal` |
| | `AttemptsNeverForgotten` | `AttemptsRemembered` |
| | `SavesAreTyped` | `SavesOnlyWhatWasTyped` |
| | `GradesAreShown` | `GradedAsShown` |
| | `MergesKeepShown` | `KeepsWhatIsShown` |
| `WrongNotesProofs` | `WrongNotesTypeCorrect` | `TypeOK` |
| | `NoSubmissionRefused` | `SubmissionNeverRefused` |
| | `PointersBehind` | `PointerNeverAhead` |
| | `PointersMonotonic` | `PointerMonotonic` |
| | `HistoriesAlwaysAgree` | `HistoryAgrees` |
| `QuestionLifecycleProofs` | `LifecycleTypeCorrect` | `TypeOK` |
| | `AggregatesConsistent` | `AggregateConsistent` |
| | `ApprovedAsShown` | `PublishedAsApproved` |
| | `CommittedWithAuthority` | `AuthorityAtCommit` |
| `ProviderCleanupProofs` | `CleanupTypeCorrect` | `CleanupTypeOK` |
| | `RevokedOnce` | `RevokedAtMostOnce` |
| | `CleanupComesFirst` | `ErasedAfterCleanup` |
| | `LeaseOutlastsCall` | `LeaseCoversCall` |
| `SsoAccountsProofs` | `AccountsTypeCorrect` | `AccountsTypeOK` |
| | `SessionsAlwaysCurrent` | `SessionsCurrent` |
| | `ErasureFollowsAccounts` | `CleanupListsAccounts` |
| | `AccountsImplementCleanup` | `AccountsSpec => CleanupSpec` |

The inductive invariants, and why the properties alone are not inductive:

* `Consistent == TypeOK /\ RowsAgree`. A save computes the new revision and time from the
  draft it finds; that the result is a draft row needs `RowsAgree`: a session in progress
  has one. That a handler keeps the tables in agreement needs the types, above all that a
  row is never `None`. All other invariants contain this one.
* `GuestsConsistent` adds `RenewalBounded`, `expiresAt <= lastSeenAt + GuestRenewal`. A
  submission sets the credential's end to its own time plus the renewal; without the
  bound that could be earlier than before, and sessions would outlive the credential.
* `RecordsConsistent` adds `OutcomesOfKnown`: only guests that exist have outcomes, so
  that a new guest does not inherit a promise. The lemma `FreshMeansOver` is the heart of
  it: a handler that finds no live record knows that all earlier outcomes of the key have
  run out. `OneOutcomePerKey` follows with the lag of the handler's clock.
* `SessionsConsistent` adds `SubmittedMeansOver`: a session with a submission is
  submitted or deleted, and neither is ever left. This is what keeps a second key from
  grading it again.
* `DraftsConsistent` adds `Numbered`: the saves of a session are finitely many, have
  revisions up to their number, and a session never used has none; hence the revision of
  the next one is new. Cardinality comes from `FiniteSetTheorems`.
* `SessionsMoveOn` is proved for its own sake and because the next proof needs it: sessions
  and guests only move onward (`Onward`, `GuestOnward`), so that what a transaction has seen
  can be over by now but cannot have become something else (`Abandoned`).
* In `PracticeTransactionsProofs`, `Inv` says of each call what its transaction may count on
  (`Good`). The request has the parts its handler needs and its time is at most `MaxLag` old
  (`Typed`, `Timely`); the snapshot passed the checks the handler makes before it comes to
  this step (`Learned`); the locks are those the step implies (`Holding`); what is locked is still
  as the snapshot shows it (`Pinned`), and of what is not, a submitted session has kept its
  result or is deleted, and a guest whose proof was good has not lost time (`Current`); the
  draft the clean-up job has chosen stays abandoned (`Cleaning`); and the id of
  a new session is nobody else's (`New`). No two transactions hold locks that exclude each
  other (`Exclusive`). `StudyPractice`'s own invariants are part of it, as the rows are its
  rows (`RowsConsistent`). Every step other than a commit leaves the rows alone, and for
  each handler one lemma (`SaveCommits`, `SubmitCommits`, `CleanCommits` and so on) shows that its
  commit is the handler's action in `StudyPractice` at the time of the request: each row it
  decided on is locked, or compared with the snapshot by the write itself, or can only have
  moved on in a way that makes no difference. That a commit does not spoil what other
  calls know comes from the locks: what it changes it has locked, and what is locked is nobody
  else's (`Clashes`, `Commits`).
* `OthersNeverDeadlock` takes one kind of call after the other out of a circle of waits without
  deletions. Everybody in the circle holds something. To share a guest it waits for nobody, as
  nobody deletes one, and it does not wait for what it holds itself (`OnlyNewLocks`); so it
  waits for a record, then for another call of its own kind under the same key, or for a
  session (`WaitsFor`). A save waits for the save that is writing, which waits for nobody, so
  there is no save in the circle; then nobody in it holds a session, so no retry waits for
  its source; then no retry is in it, and so no submission (`SomeoneDeletes`). A deletion in the
  circle breaks this order: it holds a guest or a session and waits for what comes first elsewhere.
* In `StudyDraftSyncProofs`, `Sound` says what a tab may count on. That a base is real is not
  inductive: after an acknowledged save a tab builds on its own attempt as the next revision,
  which is real only because the attempt was accepted there. So `CopySound` has for a copy
  with an attempt that it waits, was accepted as the revision after its base, or was rejected
  while the draft had moved on; and `OwnSaves`, that the tab itself has saved nothing later,
  which is what lets a merge take all that came since for the work of others. `PutSound`,
  `GetSound`, `SubmitSound` and `RepliesSound` say that answers are true however late they are
  read; `PageSound` what a page without a copy, or one that has ended, cannot do;
  `FirstReadSound` that a page does not start from a draft older than what the tab has stored
  or submitted. A request on the wire that is not `Dead` (session closed, key used, draft moved
  on) is the attempt in the storage, and the one in memory if there is a copy (`WireSound`,
  `Remembered`): keys are drawn once (`KeysDrawn`), so that a late request is never taken for a
  later attempt. `SubmissionSound` and `ShowsSubmission` add that the draft to be graded is on
  the screen as long as it can be graded, and `TabTyped` that the changes in both copies were
  typed, over the value they replace.
* `MergesKeepShown` compares two moments. A merge takes a field from the server only
  where the server differs from the tab's base, and then somebody has changed it in between
  (`Changes`), who by `OwnSaves` was somebody else (`OthersChanged`). `MergeKeeps` says this of any
  merge; `SaveCompletesKeeps` of the longest step, in which an attempt becomes the base,
  a newer draft is laid under it and later edits over it.
* In `WrongNotesProofs`, `Kept` adds to the types and `PointerNeverAhead` that each note is
  in a state the algorithm accepts and was not written later than its own time
  (`NotesSound`), and that some time lies after every change of it (`Bounded`). The time of a
  submission is the latest of several; that there is a latest one needs a bound, and that the
  submission is accepted needs it to be later than what the note says.
  `Agreed` adds the history. A log can have any length and its replay is a recursive function, so
  first come lemmas about that: every log has a replay, as the shortest log without one would
  have a front that has one (`EveryLogReplays`); two replays of a log do not differ, as there
  is no first event after which they do (`OneReplay`); so one more event is one more step of
  the algorithm (`ReplayOfAppend`). Both arguments take the least element of a set of numbers
  (`HasLeast`), in place of an induction theorem. A submission is then one step per question
  (`AnswerAgrees`): its time is later than the last event because that is the time in the
  note. `SourceModeReconciles` needs `RetriesSound`: a retry comes from a submitted session and
  asks what was missed there, in the versions asked there.
* In `QuestionLifecycleProofs`, `Kept` says what a command knows. `Earlier(R, S)` compares
  rows as they were with rows as they are: row versions only grow, rows with equal row
  versions are the same, and no version that was closed opens again. A page and the target of
  a command are earlier rows (`CommandsKnown`); arming compares the row versions of what the
  command touches, so that these rows are those of the target; and they stay so, because only
  one command is armed at a time (`OneArmed`) and an erasure waits for the locks it holds.
  `Shaped` is what the rows promise, with one thing more: the row version of a
  version that still has its author is within the bound, which leaves an erasure its last step.
* In `ProviderCleanupProofs`, `Kept` says who may do what. A claim has one holder, a run or a
  statement on its way, and nobody has the token of another's (`ClaimsOwned`); what a run
  waits for is its own (`CallsOwned`); a marked provider has one claim, whose holder alone can
  take the marker away (`Markers`). So from the marker on nobody else begins, and what was sent
  is sent once (`SentOnce`); what is recorded as completed was settled (`SettledFirst`). And
  the lease in the row is never shorter than the deadline of the run that holds it (`InLease`).
  Without the tokens, the late statement of a run that was given up could take away the marker of
  another one.
* In `SsoAccountsProofs`, `AccountsKept` adds to those `ChangesPaid`: each change of
  authority ends a session that was issued before it, so there are no more of them than
  sessions, which bounds the generations; and `FreshNamed`: a proof names an identity that its
  user has, so that a request lists a provider. That is what `Request` needs, and why each
  step of the composition is one of `ProviderCleanup` or leaves its variables alone.

Each proof has one lemma per handler, and lemmas about what handlers share (`Started`,
`Expired`, `Commit`) or about a kind of step that does no harm (`OneSessionOutlived`,
`RecordsDropped`, `NoSubmission`, `LineageStep`, `Untouched`).

Checked by TLC only: the liveness properties `GuestDataErased`, `EveryCallAnswered`,
`Converges` and `ErasedOrInDoubt`, as they need fairness, so `ENABLED`. The
properties of the three runs that find a violation do not hold, so that there is nothing to prove.

## Not modelled

Of a practice: question selection, grading, canonical forms and hashes (a request hash only
decides between a replay and a refusal, neither of which changes a row); version 1 sessions,
which have no draft and which the service no longer creates; batches of the clean-up job as
such; the attempts a browser stores for retries and targeted reviews.

Of accounts: the protocol with the identity provider before an identity is verified, the
refresh of a remembered session, the session of a restricted account, roles, and which
providers a deployment offers (an unlink is refused when no other provider of the user is
offered; `Unlink` allows it, so what is proved holds for every such configuration). Of the
erasure: the receipt that lets a user ask for its status, the purge of old requests, the check
of the environment, and accounts without a subject, which the batch skips
(`ssoProviderRevoke.ts:194`) and no identity here is. A provider is a party that answers,
refuses or stays silent.

Of questions: duplicates among several questions, tags, options, the text of reviews and the
audit, the refusal to edit a version that a session has pinned (sessions pin published
versions, which no command edits), the fixed content seeds, and that a batch of publications
is one transaction. Imports and batches of reviews run the same begin, arm and finish over
several questions; reports run it over one row.

Not at all, with the reasons in `PROJECT.json`: user reports and rate limiters (single
statements), graceful shutdown (a race of timers in one process that leaves no state), the
catalogue, the dashboard, bookmarks, HTTP, validation and error mapping, the contracts, the
content pipeline, rendering, infrastructure, logging and metrics.

## Plan

Done: the seven modules and the eight proof modules above. What is left, in this order:

1. `GuestCleanupBatch`: candidates, order of kinds, batch limit, advisory lock and the
   runner's loop, implementing the `Cleanup` of `StudyPractice`.
2. `StudyDraftSync` against `StudyPractice`: that its server implements the save and
   submit of one session there, with expiry and clean-up beside it; a duplicated tab with a
   copied session storage; the attempts of retries and targeted reviews.
3. `QuestionLifecycle` over several questions, with duplicates, batches and imports, composed
   with `WrongNotes` through its `Publish`.
4. Reports, shutdown; question selection and grading as functions checked against a
   reference definition on bounded inputs.
