# Verification of timeline-backend

TLA+ modules, TLC configurations and TLAPS proofs about the backend of a photo
timeline service: an Express server over MongoDB, with object storage that can be
migrated from one provider to another while the service runs.

Line numbers refer to files under `src/` of the repository root; "routes/x.js" is short
for `src/src/routes/x.js`.

## 1. The system

Two processes share one MongoDB:

* the **web process** (`server.js`) serves the routes and runs the storage worker
  (`lib/storage/worker.js`), a loop that every five seconds advances at most one storage
  job by one tick;
* the **standalone worker** (`scripts/worker.js`) makes video thumbnails, empties the
  trash and reconciles the summaries of days.

There are no transactions. One call to the database is atomic for one document; a
handler makes several calls, and between any two of them other requests run, the worker
runs, or the process restarts. Mongoose's `save()` writes the fields that the handler
has set, to the values the handler has computed, with no check that the document is
still what was read. What is hard in this code follows from that: read-modify-write
races, multi-document updates cut in half, checks that are stale when they are used.

| Component | State | Operations | Interacts with | Must hold |
|---|---|---|---|---|
| storage migration (`lib/storage/migrationWorker.js`, `worker.js`) | job (status, cursor, attempts), rows per file, objects in two buckets, `isActive` of two providers | plan, transfer, verify, cutover, clean up, cancel | uploads and deletions by every route that stores files; the administrator's cancel | a file somebody needs is never lost; the active provider agrees with the job; every job ends |
| storage providers, resolution (`routes/storage.js`, `lib/storage/index.js`) | provider documents, two caches per process | add, edit, delete, activate, cancel, resolve | the jobs; every route that stores files | one active provider; one job at a time; the web process's cache follows the documents |
| orphan scan (`orphanScanWorker.js`, `/orphan-files`) | scan job, list of orphans | list, reconcile, delete orphans | storage, all documents with keys | reports nothing that a document of the kinds it reads refers to |
| payments (`routes/payments.js`) | orders, balances | checkout, complete, verify, webhook, refund | gateway, coupons, balances | one top-up each time an order becomes paid, one deduction per refund |
| coupons (`routes/coupons.js`) | coupon, redemption count | resolve, count, edit, delete | payments | limit holds; over-limit redemptions are flagged unless a call fails |
| credit spending (`lib/themeUnlock.js`, `lib/viewerListUnlock.js`, `routes/timelines.js`) | balances, unlock records, timelines | unlock, create a timeline, buy storage, adjust | payments, administration | whoever is charged gets the item or the credits back |
| sessions (`lib/auth/session.js`, `jwt.js`) | hashes of the current and the previous refresh token | create, rotate, revoke one or all | login, password changes, bans | a token is exchanged once; a revoked session stays revoked; no session outlives the change that ends it |
| accounts (`routes/auth.js`, `lib/auth/lockout.js`) | users, one-time codes, failed attempts | log in, reset, change password, delete | sessions, e-mail | the account locks at each threshold, a code is spent |
| membership (`routes/timelines.js`, `routes/invitations.js`) | memberships, invitations, the timeline | invite, accept, change role, remove, leave, transfer, trash, restore, purge | accounts, administration, standalone worker | one owner, always; an invitation admits once; a purge leaves nothing |
| media (`routes/timelines.js` uploads, `routes/media.js`) | media documents, quota | upload, edit, trash, restore, delete, retry | storage, summaries, standalone worker | quota holds; a restored file is not swept |
| standalone worker (`scripts/worker.js`), summaries (`lib/media/daySummary.js`), purge (`lib/timelinePurge.js`) | processing status, summaries | thumbnails, sweep, reconcile, purge | media, storage | summaries converge; nothing live is purged |
| themes, pricing, currencies, gateways, e-mail providers | lists with one default, prices, theme images | create, edit, set default, delete | checkout, timelines | at most one default and something to fall back to; what depends on a list follows it |
| content, advertisements, settings, rate limits, analytics, sitemap, validation, rendering of e-mail | single documents | edits and reads | | not modelled, see section 5 |

`PROJECT.json` lists every component with its status, and every hazard with the line where
it bites and the properties that would catch it. This code has no guard against many of its
races, so a property often has an exception, which a history variable records as it happens in the
model (`lateCancel`, `interruptions`, `restored`, `raced`, `racedOn`, `torn`, `blind`, `broken`, `late`,
`dated` and `stale`, `overlapped`, `overwritten`, `uncounted`, `uncredited`). The race is then in the
model, with its consequences, and the property claims what holds up to it or beside it; where the
exception is the hazard itself, the hazard's note says so, and says what the property still catches.

## 2. Modules

| Module | Models | Kind |
|---|---|---|
| `StorageMigration` | one migration job, the poll loop, clients that upload and delete, the cancel handler, interruptions | component |
| `StorageHandover` | what a migration promises | abstract specification |
| `MCStorageMigration` | instances, and statements of the comments that the code refutes | model |
| `StorageMigrationProofs` | theorems | proofs |
| `Orders`, `MCOrders` | orders, their coupon and one user's balance | component, model |
| `CreditSpend`, `MCCreditSpend`, `CreditSpendProofs` | requests that spend credits | component, model, proofs |
| `CreditLedger` | what spending promises | abstract specification |
| `MediaLifecycle`, `MCMediaLifecycle`, `MediaLifecycleProofs` | uploads, edits, trash, video processing, sweep, day summaries | component, model, proofs |
| `Membership`, `MCMembership`, `MembershipProofs` | the members, invitations, owner and end of one timeline | component, model, proofs |
| `Sessions`, `MCSessions`, `SessionsProofs` | the sessions of one account | component, model, proofs |
| `LoginGuard`, `MCLoginGuard`, `LoginGuardProofs` | lockout and one-time codes of one account | component, model, proofs |
| `Catalog`, `MCCatalog` | lists with a default, and what depends on them | component, model |
| `ShopProofs` | theorems about `Orders` and about `Catalog`: how things are paid for, and what is sold | proofs |
| `StorageAdmin`, `MCStorageAdmin`, `StorageAdminProofs` | which provider is active, caches, jobs, orphan scan | component, model, proofs |

No module EXTENDS two components, but for `ShopProofs`, whose theorems are about one or the other; where
components meet, each module has the other's side as actions of its own. `Orders` and `CreditSpend` share the balances (`SpendCredits`, `TopUp`).
`StorageMigration` has uploads and deletions as clients; `StorageAdmin` has a job that ends
with or without a cutover, the two writes of which are the ones of `StorageMigration`;
`MediaLifecycle` takes one provider for granted. `Membership` and `Sessions` both have the
deletion of the account, `Catalog` and `CreditSpend` both the timeline's theme, one its use and
one its unlock.

### 2.1 StorageMigration

*State.* `status`, `cursor`, `cancelled` and the rows (`rows`, attempts) are the
`StorageJob` and `StorageJobFile` documents; `source`, `target` the objects of the two
buckets by key, with a version; `active` the two `isActive` flags; `live` the documents
that need a file (media, avatars, covers) and the provider each was stored at. The
worker's position inside a tick, what it holds in memory (page, batch, `existingKeys`,
`foundNew`) and the cancel handler's copy of the job are variables of their own: they are
what an interruption forgets and what other steps make stale.

*Actions.* `Tick` and `Dispatch` are `worker.js` and `runMigrationTick`;
`EnumerateSource`, `SaveCursor`, `LeavePlanning` are planning; `FindPending`,
`CopyObject`, `RecordCopied`, `TransferFailed`, `LeaveRunning` are transferring, one
action per database or bucket call; `StartVerifying`, `Relist`, `LeaveVerifying`,
`StopVerifying` are verifying; `DeactivateSource`, `ActivateTarget`, `LeaveCutover`
are the cutover with the two writes apart; `RunCleanup`, `RunCancelling` delete
objects. `MarkFailed` is the catch of an error, `AbortTick` a tick cut off,
`Restart` the process. `ResolveUpload`/`StoreUpload`, `RemoveFile`, `ReadForCancel`/`SaveCancel`
are the routes.

*Abstractions.* Progress counters and the usage shown to administrators are left out. A
stored upload is one step with its document, which makes a file live earlier than in
the code and the properties stronger. `RemoveFile` resolves the provider, removes the object and deletes
the document in one step, and `GetStorage` looks the active provider up and fills the cache in one; the
race of such a lookup with an invalidation is in `StorageAdmin`, call by call.
The continuations of a `Promise.all` whose batch has already failed are not modelled. The
write of the job's counter that fails after the row is done has the same effect as
`TransferFailed` from the state where the object is copied. A stream cut short leaves a torn
object (`LeaveTorn`).

### 2.2 StorageHandover

A file is at the source, at the target or at both, and is needed or not. The old provider
gives up a needed file only when the new one serves and has it; a cancel takes copies
back only while the old one serves and has them. `ImplementsHandover` says that as long as no
cancel is late (saved after the worker has gone on to the cutover), every step of the migration
is a step of this specification or changes nothing it sees; the run `MigrationEnds` checks it and
`ImplementsHandoverAlways` proves it. `HandoverKeepsFiles` proves of the specification itself that a file
that is needed is held by somebody (`NothingLost`).

### 2.3 Orders

*State.* The order's `status`, where the checkout handler is, whether the gateway has taken the
money, the coupon (`coupon`, `cap`, `redemptionCount`), one user's `credits`, and the
handlers that have flipped an order to paid or refunded and have calls left (`counting`,
`granting`, `deducting`). History counters record transitions, and what was lost: a paid order saved
as failed by its own checkout (`overwritten`), a payment whose redemption (`uncounted`) or whose top-up
(`uncredited`) an error or a restart has ended.

*Actions.* `ResolveCoupon`, `CreateOrder`, `OfferPayment`, `FailCheckout` are the checkout;
`CompleteMock`, `Verify`, `Webhook` the three ways to pay, each one `findOneAndUpdate`;
`CountRedemption` (with the flag for the administrator, whose write may fail unnoticed) and `GrantCredits`
their continuation; `RefundOrder` and `DeductCredits` the refund; `Throw` a call of a handler that throws, which
ends that handler with an answer of 500; `Crash` a restart, which ends them all. `UpdateCoupon` may
change the code too, after which orders placed with the old one count nothing.

`/verify` (`routes/payments.js:383-396`) checks that the ids it is sent carry the gateway's signature and
does not compare them with the order's `gatewayOrderId`. `Verify` therefore asks only for
some payment the gateway has signed (`SomeSignature`): one for any order of these, or one from before
(`PaidBefore`). "Payment" in the names of the properties is the transition of an order to paid, not
the money taken: that there is one top-up for one payment at the gateway is not claimed, and is not so.

*Abstractions.* One user; a coupon's expiry is part of "inactive"; amounts and discounts
are left out, and so are a second coupon that is later given the code of the first, and the deletion of the
user between payment and top-up. The gateway sends a webhook only for money it has taken. A mock order may be
completed as soon as it is listed. A write that was applied although its call threw is the handler's step followed
by the loss of the next.

### 2.4 CreditSpend and CreditLedger

*State.* `credits`, who has bought which item (`boughtBy`, the records behind unique
indexes, the timelines, the purchases), each request's position `pc` and the balance its
document holds in memory (`memory`).

*Actions.* `FindExisting`, `ReadUser`, `SaveCharge`, `Create`, `SaveRefund` are
`ensureThemeUnlocked` and `unlockViewerList` (the same code twice); `CountOwned`,
`ReadUser`, `SaveCharge`, `Create` are `POST /` of timelines; `DebitStorage`, `Create` the purchase of
storage; `ReadForAdjusting`, `SaveAdjusted` the administrator; `TopUp` the `$inc` of a paid
order; `Fail` an error or a restart between two calls.

*Abstractions.* Everything has one price greater than zero (free themes return at
once). `Create` is one step: the timeline, its membership and its activity log, and for a purchase of storage
the increment of the quota and the record of the purchase, which are two writes after the debit.

In `CreditLedger` paying and getting are one step. `ImplementsLedger` counts credits charged
for what is not yet created as still there, and says that overlapping requests are as good
as transactions but for two kinds of step: one that saves, or creates for nothing, on the
strength of what has changed since it was read (`Outdated`), and a failure between the charge
and the item (`FailsCharged`). What the first kind can do is in `UnlocksAreCharged` of `MCCreditSpend`, which
fails with two requests of one member.

### 2.5 MediaLifecycle

*State.* `doc` are the media documents of one timeline with the fields the control depends on
(`processingStatus`, `deletedAt`, `dayKey`, `processingAttempts`, whether `lastAttemptAt` is
stale, and which storage keys are set); `objects` what storage holds under those keys, the
thumbnail and the preview as one; `summary` the files each day's `DaySummary` counts. `at` and
`memory` are the position of every process and the document it has read, which is what makes
its later saves stale; `expired` the list the sweep works through.

*Actions.* `CheckQuota`, `StoreOriginal`, `CreateDocument` are the upload; `ReadForEdit`/`SaveEdit`
the PATCH, `ReadForDelete` with `SaveTrashed` or `RemoveFiles` and `DeleteDocument` the DELETE,
`ReadForRestore`/`SaveRestored` the restore, `ReadForRetry`/`SaveRetry` the administrator's new start
for a video that was given up. `ClaimNextVideo`, `ReadOriginal`, `WriteThumbnail`,
`SaveReady`, `SaveFailure` are `processVideo`; a task stands for one chain of
`videoProcessingTick`, and there are several, for the poll starts one every fifteen seconds whether or
not the last has ended. `FindExpired`, `SweepFiles`, `SweepDocument` are the sweep, `ReadDays` the
reconciliation; both, and the requests and the tasks, go through `Aggregate` and `SaveSummary`,
which are `syncDaySummary`. `VideoThrows` leads to the catch clause of `processVideo` from any of
its calls; there `save()` throws again when the document is gone, nothing catches that, and the
process ends (`CrashOnDeleted`) and is started again. `Interrupt` and `RestartWorker` cut
requests and the worker short; `Expire` and `GrowOld` are the passing of time.

*Abstractions.* Every file has size one. The order in which videos are claimed, the duplicate
check by checksum, favourites and the cover and caption of a day are left out. A removal from storage may
fail for any of the keys and is then only logged, as in the code. The two objects of a
thumbnail are written in one step. Whether the day's summary is right is told by the set of
files it counts. The purge of whole timelines is in `Membership`.

### 2.6 Membership

*State.* `role` are the `Membership` documents of one timeline; `timeline` its status and `ownerId`,
which names the owner a second time; `invitation` the status and role of each; `account` the users
who have one. `pc`, `task` and `loaded` are where each handler stands, what it has decided to write and
which membership documents it holds in memory, with the role it has read there.

*Actions.* Every handler is a `Start...` that reads, and one action for each call after it: change of
role and removal (`FindTarget`, `SaveRole` or `DeleteMember`), the owner's transfer in three writes
(`Promote`, `Demote`, `SetOwner`) and the administrator's in three others (`UpsertOwner`,
`DemotePrevious`, `SetOwner`), invitation (`RevokeEarlier`, `CreateInvitation`), acceptance in two
writes (`Upsert`, `SaveInvitation`), `Expire`, trash and suspension (`SaveTrashed`), restore by two routes
(`SaveRestored`), the purge by request and by the nightly worker, one collection after the other
(`PurgeMembers`, `PurgeInvitations`, `PurgeTimeline`), and the deletion of an account. `Fail` is an error or a
restart between two writes; `broken` records that one has cut a transfer or an acceptance in half (a purge cut
short counts as a blind write).
`blind` records that a write has hit a document that was no longer what its handler had seen: the code
has no check there, and the properties name it as their exception.

*Abstractions.* One timeline, and for each invitation the one user whose address it is sent to.
Names, links, mails and the activity log are left out.

### 2.7 Sessions

*State.* For each session its status, the numbers of the current and of the previous token in its chain,
and how many were issued; for the account whether it exists, is banned, and an `epoch` that counts
the changes that are to end its sessions. `proved` and `exchanged` record the epoch a session was opened
in and the tokens exchanged.

*Actions.* A login reads the account (`StartLogin`, `StartGoogleLogin`), saves it (`RecordLogin`), and creates the
session one call later (`CreateSession`). A refresh is `FindCurrent`, with any token ever issued, then
`SaveRotation`, or `FindPrevious`, which goes on to revoke every session when the token was the previous one.
Passwords changed or reset, bans and demotions save the account (`SaveAccount`) and end the sessions one call
later (`RevokeAll`); so do logouts everywhere, forced logouts and the deletion of the account, without a save
before. `RevokeOthers` spares the session whose current token the request brought; `Logout` and `EndSession`
end one, `Expire` deletes its document.

*Abstractions.* Hashes are the tokens' numbers. Access tokens are left out: each request reads the account they
name. Demotion stands for `DELETE /:id` of `routes/adminAccounts.js`, whose grants are left out.

### 2.8 LoginGuard

*State.* `attempts` and `lock` of the account; the one-time `code`s and their `tries`; the copy each request has
read before it compares. `guesses`, `free`, `guessed` and `resets` count what somebody who tries passwords gets.

*Actions.* `StartLogin` reads the account and `Verify` compares; then `RecordFailedLogin` or `SaveClear` saves,
the latter for the administrator's `StartUnlock` too. `LockLapses` is time. `StartForgot`, `DeleteCodes`,
`CreateCode` send a new code; `FindCode`, `VerifyCode` and then `SaveTry`, or `SavePassword` and `DeleteCode`, are
the reset.

`recordFailedLogin` locks when the count equals a threshold (`lockout.js:22`), and so do the model and
`LocksAtThresholds`: the account is locked at 5, 10 and 20 wrong passwords, however often a lock has
lapsed. Once the lock of the last threshold has lapsed no wrong password locks it again, until a right
password or an administrator sets the counter to 0; the property does not limit attempts then.

*Abstractions.* Time is whether a lock is over. `raced` and `racedOn` record that two
requests have overlapped on the account or on one code.

### 2.9 Catalog

*State.* `entry` are the documents of four lists (currencies, themes, payment gateways, e-mail
providers): there, enabled or published, default. `plan` has the currencies each plan has a price in,
`theme` and `override` the themes a timeline and its ranges of days show, `image` the two images of a
theme, `open` a timeline's visibility and guest view.

*Actions.* Each handler is a `Start...` that reads and checks, and one action for each call after it. Moving a
default writes the new one first (the upserts of `StartPutGateway` and `StartPutMailer`,
`SaveCurrency`, `SaveDefault`) and then `ClearOthers`. `StartCreateCurrency` is followed by `SeedPrices`, which
gives every plan a price; `CreatePlan` and `UpdatePlan` check that a plan has a price for every currency there is;
`UnsetPrices` precedes the deletion of a currency. `CountUses` precedes the deletion of a theme, `FindOverlap` the
creation of a range. `SaveImage` and `SaveSettings` save what was loaded with the change; a new image of the type of
the old one has the same key, and then nothing is written.

*Abstractions.* Prices are left out, only which there are. The four lists move their default
in the same way; the theme's rules (published, in use) and the currencies' (one enabled) are kept apart.

### 2.10 StorageAdmin

*State.* `provider` are the documents with their edition of path and credentials; `objects` what each holds;
`used` the keys some document shows; `rows` the images of the media library that have a `CmsMedia` document; `job`
the migrations that have not ended; `cache`, for each process, the active provider it remembers and the drivers it
has built; `scan` the orphan scan. `dated` records which lookups have read a document that was changed since,
`stale` the processes whose cache such a lookup has filled since it was last emptied.

*Actions.* A route that stores a file looks the provider up (`FillActive`, `FindDriver`, `FillDriver`), writes the
object (`Write`) and saves the document (`SaveDocument`), each in a call of its own; an image of the library is
shown once an editor puts it into a page (`Mention`). `SaveConfig` and `DeleteProvider`
are followed by `Invalidate`. `StartActivate`, `FindJob`, `FindCurrent`,
`ListCurrent` and then either `CreateJob` or `Deactivate` and `Activate` are the activation; `FlipSource`,
`FlipTarget`, `EndCutover`, `EndJob` the cutover, `AbandonJob` any other end of a job. `RunListing` and
`RunReconcile` are the scan. `DeleteOrphans` is the route as it is (`routes/storage.js:362-388`): it takes any keys on any
provider that exists, from the last list, an older one or none, and deletes their library rows whether or not the
objects could be removed.

*Abstractions.* A migration's copying is one step of a job (its details are `StorageMigration`). Keys are of two kinds:
those whose use the scan looks for (`Counted`, among them the `Library`) and the others. The four queries of
`runReconcile` are one step. Jobs, scans and the deletion of orphans resolve a provider by its id and may fill the driver
cache by that; here only the routes that store files fill it, with the same two steps.

## 3. Runs

Passing runs, and what each shows:

| Run | Properties | Shows |
|---|---|---|
| `MigrationSafety` | `TypeOK`, `ActiveFollowsStatus`, `DoneIsCopied`, `NoFileLost`, `NothingSlips`, `SourceEmptiedOnlyIfCopied` | A key rewritten in place (the avatar), which the target already holds, a file that may be uploaded at any time, a cancel, an interruption, failing transfers and removals: nothing needed is destroyed, nothing slips past the verify passes, and flags, rows and objects agree with the status |
| `MigrationEnds` | `JobEnds`, `ImplementsHandover` | Every job reaches a terminal status although clients keep uploading; and the refinement of `StorageHandover` |
| `Orders` | `TypeOK`, `CreditedOncePerPayment`, `DeductedOncePerPayment`, `CouponCapHolds`, `RedemptionsAccounted`, `PaymentsAreCredited` | Two orders, one by each gateway, that race for the last redemption of a coupon, refunds, an error or a restart, and a payment from before: one top-up and at most one deduction each time an order becomes paid, the limit holds, and redemptions and top-ups are lost only where the error or the restart has ended their handler |
| `SpendRaces` | `TypeOK`, `CreditsWereGranted`, `ImplementsLedger` | Five overlapping requests of two members, top-ups and a failure: no credits out of nothing, and the refinement of `CreditLedger` |
| `MediaSafety` | `TypeOK`, `LiveHasFiles`, `PurgesOnlyTrash` | A video and an image, two requests, two tasks of which one takes too long, the sweep: what is outside the trash keeps its document and its objects, until it has been restored once |
| `MediaSettles` | `QuotaHolds`, `VideosSettle`, `SummariesConverge` | Two requests, one task, the reconciliation and one failure: uploads that do not overlap stay within the quota; every video becomes ready, is given up, or is trashed; every summary is right in the end and stays so |
| `Membership` | `TypeOK`, `NeverOwnerless`, `OneOwner`, `AdmitsOnce`, `PurgeLeavesNothing` | Two handlers at a time among changes of role, removals, both transfers, invitations, trash, restore, purge and the deletion of an account, one of them cut short: a live timeline has an owner after every single write, names the same one twice, an invitation admits once, and a purge leaves nothing, until a write is blind |
| `Sessions` | `SessionsAreCurrent`, `BannedIsOut`, `TokensAreUsedOnce`, `RevocationSticks` | Two sessions and two requests at a time among logins, refreshes with any token, revocations and a ban or a new password, and one failure: no session outlives the change that is to end it unless its login was on its way, a revoked session stays revoked, and a token is exchanged once unless refreshes overlap |
| `LoginGuard` | `LocksAtThresholds`, `CodesAreSpent` | Two logins, or two resets with two codes, and one failure: the account locks at every threshold however often the lock has lapsed, a locked account compares no passwords, and a code takes its attempts and one reset, unless requests overlap |
| `Catalog` | `OneDefault`, `AlwaysAFallback`, `SettingsAgree` | Two administrators in one area, with one failure: no list keeps two defaults however the moves overlap, and without an overlap there is always a theme and a currency to fall back to, and prices, ranges, images and guest view follow what they depend on |
| `StorageAdmin` | `OneActive`, `CacheFollows`, `ScanSparesUsed` | Two requests among stores, edits, deletions, activations, cutovers and scans, a restart or an error, and deletions of any keys: unless changes of the active provider overlap, one is active and one job is between providers that exist, and the web process's cache follows the documents, save between a change and the invalidation after it and where a lookup that read before a change has filled it; and a scan reports nothing of a kind it looks for that was in use since it began, but for library images without a row |

One run ends in a violation, a statement of the repository that the code refutes:

| Run | The code |
|---|---|
| `OrphanInUse` | The orphan scan reports the dark image of a theme, which `Theme.imageKeyDark` shows; so it does with avatars and with the files of the homepage and the branding. `orphanScanWorker.js:102-103` says that `imageKey` covers the images of themes |

### Seen in the models, without a run of their own

The same models reach the following states; the properties above name them as their exceptions,
and the model modules state what comments say about some of them (`MCStorageMigration`, `MCOrders`,
`MCCreditSpend`, `MCMediaLifecycle`).

* A cancel saved after the cutover empties the active provider, though `migrationWorker.js:269` says
  the source "is never touched" (`CancelLeavesSourceActive`). A cancel may be overwritten by the worker's
  next status and is then never honoured; a cancel removes an object the target had before the migration; a
  database error between the two writes of the cutover leaves no active provider
  (`lib/storage/index.js:66` calls that impossible); a file given up after its last attempt does not stop the
  cutover.
* A restart inside a verify pass leaves rows pending that the next pass takes for known files, and
  the job cuts over without copying them (`RestartResumes`).
* A refunded order is paid and credited again by a repeated webhook (`OneTopUpPerOrder`). `/verify` marks an order as
  paid by a signed payment that was made for another (`SomeSignature`). A checkout that fails after the order was
  paid saves it as failed, so that it may be paid again (`overwritten`). An error or a restart between an order's
  becoming paid and the increment loses the top-up for good, and the client is answered 500 or nothing
  (`uncredited`); in the same way a redemption is neither counted nor flagged (`uncounted`). A refund that
  deducts before the grant takes less than was granted.
* Two clicks at once unlock a theme for nothing (`UnlocksAreCharged`). Two timelines created at once are both
  free; the refund of a
  lost race for an unlock undoes what was written to the balance since the charge (`Outdated` in
  `ImplementsLedger`).
* The sweep purges what was restored after it was read (`RestoredHasFiles`). Uploads that overlap exceed the
  quota together, and a restore is not checked against it (the exceptions of `QuotaHolds`). An edit that moves
  a video to another day while it is processed leaves the new day's summary without it until the
  reconciliation, though `models/DaySummary.js:5-6` says "kept in sync". A video deleted while it is
  processed ends the worker process (`CrashOnDeleted`).
* `lib/timelinePurge.js:22-24` says there is no restore of timelines; `routes/timelines.js` has one.
* A change of role or a removal that loaded the membership before a transfer takes the ownership away
  from the new owner; an invitation accepted by whom a transfer has just made the owner does the same. An
  account with a timeline in the trash may be deleted, and an administrator may then restore the timeline.
  A transfer cut in half leaves two owners, never none.
* A refresh token two rotations old is refused but not taken for stolen: the session remembers one
  previous token. A refresh does not ask whether the account is banned; that the sessions are revoked is what
  signs it out. A login that read the account before a change of password creates its session after
  the revocation (`late`). `RevokeOthers` with a token that has just been rotated ends the device's own session.
* Failed logins that overlap are counted once; resets with one code that overlap may both succeed. After the
  lock of the last threshold has lapsed wrong passwords are counted and never lock again: only the exact numbers 5, 10
  and 20 do (`lockout.js:22`).
* The deletion of orphans takes whatever keys it is sent, on whichever provider, though they may be in use or
  come from the list of an earlier scan. Where an object could not be removed its library row is gone all the
  same, and later scans take an image that a page shows for an orphan (`Library \ rows` in `ScanSparesUsed`). A lookup
  that has read before an invalidation and caches after it leaves an old path, old credentials or a provider
  that is no longer active in the cache until the next one (`stale`).
* `PATCH {isDefault: false}` leaves no default currency; the default theme may become a draft again; gateways and
  e-mail providers may be default and disabled. Two moves of a default that overlap may leave none. The price of a
  plan that is created between a currency's creation and its seeding is overwritten by 0.

### Bounds

Every bound is a constant of its module or of the configuration.

* Migration: two keys in pages of one, `MaxVersion` uploads of one key, `MaxInterruptions` restarts or
  aborted ticks, `MaxCancels`. The worker handles keys independently except for the page
  limits: with two objects there is a full page that is followed by another and one that ends exactly at the
  last key, and clients add and remove keys on both sides of the cursor. A second interruption finds nothing in
  memory that the first has not already lost.
* Orders: two orders suffice for a race for the last redemption, which a limit (`Caps`) of one makes the only one;
  `MaxRefunds` one lets a refunded order be paid again; `MaxErrors` one is an error or a restart at any call of any
  handler, and handlers do not wait for each other, so that a second one loses nothing else. A plan grants one
  credit and storage costs one. `PaidBefore` holds, which lets `/verify` complete any order at any time.
* Spending: two unlocks of one theme by two members, and by one of them a timeline, storage
  and an adjustment, so that three requests fight over one balance; `MaxTopUps` one
  each, `MaxFailures` one.
* Media: `MediaSafety` has two files because the sweep and the requests treat files apart
  except for `expired`, which two files fill; two tasks and `MaxStalls` one let a video be
  processed twice at once; two requests let a delete, a restore, a retry and an edit overlap. There is
  one day and no crash in it, for neither concerns objects. `MediaSettles` has two days, so that
  a video can move, `MaxFailures` one, and `MaxAttempts` two, so that a video is tried
  again and then given up.
* Membership: two users, so that every change concerns an owner and somebody else; two requests, which
  overlap in every pair; two invitations of one guest, the second of which revokes the first.
  `Sighted` does not explore what follows a blind write: every property but `TypeOK` holds there by its
  premise, and `TypeOK` is proved.
* Sessions: three tokens make a chain with an older, a previous and a current one; one change of the
  account, since what it has to end is judged against the number of changes at the login.
* LoginGuard: thresholds 2 and 3 for 5, 10 and 20, with five guesses, so that the account is locked, the lock
  lapses and the next threshold locks it again; two attempts for each code. `Apart` runs the lock or the
  codes, which share no variable but the requests.
* Catalog: two entries in each list but one, which is what moving a default needs; two ranges over two days.
  `Apart` lets one area be touched in a run, for areas share nothing but the requests; `Claimed` stops
  the ranges of days after a race, of which nothing is claimed then.
* StorageAdmin: two providers for a job, one key the scan looks for (an image of the library, which has the most
  states) and one it does not. `ScanOrSwitch` has either two overlapping requests and no scan, or a scan and one request
  with an active provider that stays, and does not go on after a race.

Requests, sessions, invitations, codes, ranges and days are interchangeable in their modules, so the
configurations take their permutations for symmetries; no run with a liveness property has any.

### Fairness

* `MigrationEnds`: weak fairness of the worker as a whole. `worker.js:30-35` calls the
  tick every five seconds for as long as the process runs; restarts are bounded. Clients and
  administrators have no fairness.
* `Orders`: weak fairness of the steps that remain of a handler: the event loop resumes a handler whose call has
  returned, or ends it if the call has thrown. After an error or a restart nothing resumes, hence the exception of
  `PaymentsAreCredited`.
* `MediaSettles`: weak fairness of what a request has left, of each task (the poll of
  `scripts/worker.js:199`), of the summaries' calls, of the daily jobs (`:201-207`) and of
  time. A worker process that ends is started again by whatever runs it (`npm run worker` under
    a supervisor; its header counts on being "picked up again on the next poll"). Requests need never begin, and
  nothing has to fail or throw. `VideosSettle` does not
  depend on success: a video that always throws is given up after `MaxAttempts`.

The modules of sections 2.6 to 2.10 have safety properties only and assume no fairness: nothing in that code
retries or resumes what was begun, so nothing has to happen there.

Deadlock is checked except where the system may stop: a job that has ended, requests
that have all been answered, documents that are gone.

## 4. Proofs

TLAPS proves the following for every value of the constants that satisfies the modules'
assumptions. Each theorem's argument is: the type invariant and a strengthening hold
initially and are kept by every action, one step of the proof per action.

| Theorem | Property | Argument |
|---|---|---|
| `TypeCorrect` | `StorageMigration!TypeOK` | with `BatchInv` (what the tick holds in memory are known rows) and `CounterInv` (attempts and passes stay below their limits, because the rows beyond them are never pending) |
| `DoneIsCopiedAlways` | `DoneIsCopied` | `CopiedInv`: between the copy and the write of the row the object is at the target |
| `SourceEmptiedOnlyIfCopiedAlways` | `SourceEmptiedOnlyIfCopied` | `WrittenInv`: only rows that are done are removed at the source |
| `NoFileLostAlways`, `ActiveFollowsStatusAlways` | same names | `InTimeInv`: as long as no cancel is late, `StageInv` ties the active flags to the status, `ServingInv` says which provider serves a live file, `HoldingInv` that one holds it |
| `NothingSlipsAlways` | `NothingSlips` | `DispatchInv`, `VerifyInv`, `PendingInv`: a verify pass that counts is a whole one, so every key behind its listing has a row, and from the cutover on no row is pending |
| `ImplementsHandoverAlways` | `ImplementsHandover` | the invariants above give each action the step of `StorageHandover` it takes, or none |
| `HandoverKeepsFiles` | `StorageHandover!NothingLost` | who serves holds what is needed |
| `OrdersTypeCorrect` | `Orders!TypeOK` | every debit is guarded or clamped |
| `CreditedOnce`, `DeductedOnce` | `CreditedOncePerPayment`, `DeductedOncePerPayment` | `LifeInv`: payments, refunds, overwritten orders and the status of one order count each other |
| `CouponCapAlways`, `RedemptionsAccountedAlways` | `CouponCapHolds`, `RedemptionsAccounted` | the update of the coupon is conditional; each handler counts, flags, or is counted as lost |
| `SpendTypeCorrect`, `CreditsWereGrantedAlways` | `CreditSpend!TypeOK`, `CreditsWereGranted` | `RequestInv`: what a request remembers was granted, the price it has paid included |
| `ImplementsLedgerAlways` | `ImplementsLedger` | `ChargedInv`, `OwnedInv`: only finitely many requests have charged and not created, so that what is pending is a number; a charge changes it by what the balance loses, and `Create` gives item and price up together |
| `MediaTypeCorrect` | `MediaLifecycle!TypeOK` | inductive as it stands |
| `LiveHasFilesAlways`, `PurgesOnlyTrashAlways` | `LiveHasFiles`, `PurgesOnlyTrash` | `PurgeInv`: whoever is about to purge has seen the file in the trash, and what was there is trashed, gone or restored ever since; `TaskInv`: a thumbnail a task knows of is in storage unless the file may be purged; `FreshInv`, `CreateInv`, `OriginalInv` say that uploads have files of their own |
| `QuotaHoldsAlways` | `QuotaHolds` | `QuotaInv`: uploads that do not overlap are one at a time, the one under way has found room for its file, and no other step adds to the files outside the trash |
| `TypeCorrect` | `Membership!TypeOK` | with `KnowsInv` (what each request knows about its target, role and invitation when it writes): nobody hands out the owner's role |
| `Owned`, `LeavesNothing` | `NeverOwnerless`, `PurgeLeavesNothing` | `OwnersInv`: until a purge the owners have accounts, and a purge under way leaves nothing behind it |
| `OwnedByOne` | `OneOwner` | `ActorInv`, `TransferInv`: unless a write was blind or a transfer was cut in half, transfers run one at a time from the owner that `ownerId` names, and only the two of them own meanwhile |
| `AdmittedOnce` | `AdmitsOnce` | `ReservedInv`: an invitation that is being sent is nobody else's yet; `AdmitInv`: one that has admitted somebody is closed, or about to be by who wrote the membership |
| `TypeCorrect` | `Sessions!TypeOK` | with `RequestsInv` and `TokensInv` |
| `Current`, `SignedOut` | `SessionsAreCurrent`, `BannedIsOut` | `CurrentInv` with `RequestsInv`: a login has seen the account before the change that bans it |
| `UsedOnce`, `Sticks` | `TokensAreUsedOnce`, `RevocationSticks` | `TokensInv`: unless refreshes overlap, the one that is about to save holds the newest token; a save writes no status |
| `TypeCorrect` | `LoginGuard!TypeOK` | with `CountInv` and `CodesInv` |
| `Limited`, `Spent` | `LocksAtThresholds`, `CodesAreSpent` | `AttemptsInv` and `LockInv` (no threshold lies between the guesses before the last lock and those counted); `CodesInv`, which says by stage what a code has been used for |
| `OneActiveAlways` | `OneActive` | `SwitchInv`: until two changes overlap one request at a time changes which provider is active, and `Consistent` says at each of its stages what it may rely on: no job while it activates, its old provider active until the first write, the job it cuts over |
| `CacheFollowsAlways` | `CacheFollows` | `CacheInv` (on top of `SwitchInv`): what a lookup of the web process is about to cache is what the documents say, unless it is `dated`; a dated one makes the process `stale` as it fills |
| `ScanSparesUsedAlways` | `ScanSparesUsed` | inductive as it stands: what a scan lists when it completes is not among the uses it has seen, and what comes into use later is `late`; a deletion only takes objects and rows away |
| `CatalogInductive` | | `IInv`, the conjunction of the invariants of `Catalog` below with its types (`ListTypes`) |
| `OneDefaultAlways` | `OneDefault` | `DefaultInv`: whoever makes a second default of a list has still to clear the others, or has failed to |
| `AlwaysAFallbackAlways` | `AlwaysAFallback` | `AloneInv`: where nothing has overlapped one request is at work; `CurrencyInv`, `ThemeInv`: what that request has read is so when it writes, another enabled currency and the default theme included |
| `SettingsAgreeAlways` | `SettingsAgree` | `PricesInv` says by stage which price a plan is missing or has too many; `UsesAgree`, `ImageInv`, `OpenInv` with what the one request knows |

The argument for `Membership` is about what a handler knows when it writes, and what it does not know is
`blind`. `OwnersInv` is the part that is not obvious: until a purge has emptied the timeline its owner's membership
is there, with an account, and from then on there are no members, so that nothing but a blind write can add one.
In `Sessions` an unrevoked session is as old as its login, and a login under way remembers an `epoch`
that is either the account's or makes the session `late`. In `LoginGuard` the number a request holds is the
document's as long as no other request holds one; `LockInv` then says that no threshold lies between the
guesses before the last lock and the ones counted.

In `StorageAdmin` the flags change hands in two writes without a transaction, and nothing but the checks before
them keeps two requests apart; `raced` records that they did overlap, and `SwitchInv` shows that short of this
the checks suffice: an activation finds no job and the provider it is to replace, a deletion neither the
active provider nor one of a job, a cutover a job that is there until it has ended. `CacheFollows` needs no such
care about jobs, since each of the writes is followed by its invalidation, and is claimed while a job runs.
`NothingSlips` rests on a verify pass's memory: a pass that is cut short is not counted, and `interruptions`
is the exception it names. `QuotaInv` and `OwnedInv` count things, hence their finiteness, which the theorem
modules take from `IsFiniteSet(Initial)`, an assumption of `MediaLifecycle`, and from the steps, which add one
at a time; the sets of users, files and requests may be infinite.

In `Catalog` the default of a list is moved by two writes, and moves may overlap. `DefaultInv` needs no `raced`: a
second default is made only by a request that then stands before `ClearOthers`, which leaves none but its own, and a
deleted or a cleared default takes nothing away that the invariant counts. The other properties do need it. For each
area `AloneInv` says that there is one request until the area is marked, so that what the request has read is there
when it writes; `CurrencyKnows` and `ThemeKnows` say so field by field and stage by stage. Handlers that are a single
call (`DeletePlan`, `CreateTheme`, `PatchTheme`, `DeleteOverride`) run at any time; the steps for
them show that they take away nothing a request relies on.

The assumptions are those of the assumption each module makes of its constants (`ConstantsAssumption`,
`CatalogAssumption`): bounds are natural numbers, the sets that must be are parts of others, and model values that
stand for nothing ("none", "nobody") are none of the others. In `Catalog` the lists have no entry in common, for each
is a collection of its own, and every list has at first one entry, which is its default.

Every invariant and every action property of a run is proved. Only model-checked: liveness (`JobEnds`,
`PaymentsAreCredited`, `VideosSettle`, `SummariesConverge`), which rests on fairness and ENABLED, out of this
prover's reach. The instances of the runs, with their bounds, say nothing of larger ones about those four.

## 5. Not modelled

* Failures after a charge (`Fail` in `CreditSpend`) lose the credits; no line of the code
  promises otherwise, so there is no property about it, only the step.
* The cache of the standalone worker process (`lib/storage/index.js:5`), which nothing empties: `StorageAdmin` has
  the processes as a parameter, and no property that could hold of any but the web process.
* Rate limits (`lib/auth/rateLimit.js`): a window in one process's memory, read and written in one synchronous
  call, so that nothing interleaves with it.
* Rendering and delivery of e-mail, content, advertisements, settings, analytics, sitemap,
  the validation of inputs: single documents, reads, or pure functions of one request.
* In the modules that are there: favourites, covers and captions, the duplicate check by checksum, the
  verification of addresses, the edit of the profile, and the keys of an administrator's permissions.
* What `PROJECT.json` lists as partly or not modelled, with the reason for each.

## 6. Plan

Done: the modules of section 2, and the proofs of section 4. Left, in this order:

1. A storage quota that an administrator sets from what was read, against a purchase that increments it
   (`routes/admin.js:708`), as two more requests of `CreditSpend`.
2. Grants of an administrator's permissions against the demotion of the same administrator
   (`routes/adminAccounts.js`): the edit does not ask whether its target is one still.
3. Favourites and covers of a day in `MediaLifecycle`, and the duplicate check, which is taken before the upload is
   stored.
