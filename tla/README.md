# picture-stage: verification project

picture-stage is a FastAPI application with which photographers upload
galleries, share them by link, and let guests select pictures until a review is
completed. It runs on PostgreSQL and a storage backend (a local directory or
S3). This directory holds TLA+ models of the parts of it that are hard to test,
the TLC runs that check them on small instances, and TLAPS proofs. All paths
below are relative to `src/`.

    tlc -workers 2 -config MCStorageLifecycle_batch.cfg MCStorageLifecycle
    tlapm StorageLifecycle_proofs.tla

`PROJECT.json` lists every run, every mutant, the source lines of every
definition, the findings, the hazards and the theorems.

## 1. The system

Every HTTP request and background task is a coroutine of one process (several
processes may share the database). It works in its own SQLAlchemy session:
one READ COMMITTED transaction after another. All mutual exclusion is
PostgreSQL's: advisory transaction locks ("fences"), row locks, unique
constraints, foreign keys, triggers. The storage backend takes part in no
transaction.

| component | state | operations | talks to |
|---|---|---|---|
| Storage fences (`lock_gallery`, `lock_images` in `app/galleries/lifecycle.py`) | advisory locks: shared and exclusive per gallery, exclusive per image | acquire; released by COMMIT/ROLLBACK | every handler that touches files |
| Upload batch (`app/images/upload_batch.py`) | plan, `attempted_keys`, `upload_cleanup_intents` | enter, upload, copy, commit, recover | fences, ledger, backend; used by both uploads and by duplication |
| Storage ledger (`app/storage/quota.py`) | `storage_allocations`: owner, key, bytes | reserve, release | batch, workers, deletions |
| Storage backends (`app/storage/local.py`, `s3.py`, `uploads.py`) | stored bytes | put, copy, delete; a cancelled write is waited for | batch, worker, cleanup |
| Storage cleanup (`app/images/storage_cleanup.py`) | - | delete a set of keys, then release it | deletions, compensation |
| Image handlers (`app/images/router.py`, `app/frontend/galleries.py`) | `images`, `image_previews` | upload, delete, bulk delete | batch, cleanup, worker queue |
| Preview worker (`app/images/preview_worker.py`) | `images.processing_status` | generate, mark failed | fences, ledger, backend, processing slots |
| Gallery deletion and duplication (`app/galleries/deletion.py`, `app/galleries/router.py`) | `galleries` | purge, duplicate | everything above |
| Gallery credentials and status (`app/galleries/management.py`, `authorization.py`, `sharing.py`, `router.py`) | `share_token`, `password_hash`, `authorization_epoch`, `status` | share, revoke, password, transition | guest review |
| Guest review (`app/guest/*`, `app/frontend/guest.py`, `app/selections/service.py`) | `share_sessions`, `selection_events` | enter, read, select, complete, sweep | the gallery row |
| Gallery slot quota (`app/galleries/quota.py`) | users' limit, number of galleries | reserve a slot | gallery creation and duplication |
| User administration (`app/admin/service.py`) | `users`, `pending_signups` | approve, reject, status, limit, delete, reset | signup, quota, deletion |
| Setup and recovery (`app/frontend/setup.py`, `app/cli/recover_admin.py`, migration 0010) | `setup_state` | bootstrap the administrator | users |
| Signup (`app/auth/router.py`, `app/frontend/auth.py`) | `pending_signups` | sign up, verify | users, captcha |
| Captcha (`app/security/captcha.py`) | `captcha_redemptions`, one global try-lock | hand out, verify, redeem, prune | signup |
| Sessions (`app/auth/tokens.py`, `revocation.py`, `dependencies.py`) | token cut-off, revocation ledger | login, logout, password reset | every request |
| Token lookup (`app/auth/lookup_progress.py`, `token_lookup.py`) | cursor of a bounded scan | resolve a legacy link | signup, reset, guest |
| Admission (`app/images/process_pool.py`, `app/galleries/password_hashing.py`) | slots, waiters | admit, time out, release | uploads, workers, logins |
| Selection projection (listener at the end of `app/db/models.py`, migration 0018) | versioned current state per image | projection after insert | guest review |
| Backup and restore (`app/cli/backup.py`, `backup_auth.py`) | output path with its signature; target database and image tree | back up, publish, verify, restore | database, local files |
| Archive extraction (`app/cli/restore_archive.py`) | budgets, claimed targets, files on disk | extract member by member | restore |
| Retention of visits (`cleanup_expired_share_sessions` in `app/guest/service.py`) | `share_session_cleanup_states` | sweep one window per admission | guest review |
| Guest pages (`load_guest_image_page`) | signed cursor at the guest | first page, next page | images, guest review |
| Notifications (`app/notifications/*`) | `notification_configs`, `notification_deliveries` | save, deliver, record | completion of a review |
| Request middleware (`app/security/middleware.py`) | counters of one request; `csrf_token` cookie | limit a body, mint and compare tokens | every request |

The rest (image processing, storage implementations, web front end, i18n,
exports, dashboards, wiring) is listed in `PROJECT.json` with its reason.

### What is hard here

* The database and the backend fail separately, and a COMMIT may be applied
  although the caller never hears of it. Nothing rolls a stored file back:
  compensation is code, it runs in a *second* session, and it can fail too.
* Locks end with the transaction that took them, so every handler with more
  than one transaction has a gap in which a deletion, a recovery or another
  worker may act: between the intent and the upload, between the upload and its
  recovery, between a worker's failure and the note that it failed.
* A write may raise after its bytes landed, and a cancelled request's write
  keeps running until the cancellation has waited for it.
* Grants of guests depend on credentials that the owner rotates meanwhile;
  limits are counted and then used; sweeps run inside other requests.
* Checks made on rows nobody locked (status transitions, the last
  administrator, the email of a signup) may be stale when the write commits.

### What makes each component correct

* Storage: every stored object has a ledger entry; a committed row has its
  file; what an upload leaves behind is listed in an intent; compensation
  removes nothing that was committed; a purged gallery stays empty; no handler
  waits for ever.
* Review: a grant holds until the handler that got it commits; limits hold
  under concurrency; the history of selections survives sweeps and credential
  changes; a review is completed once; requests never wait in a circle.
* Accounts: two bootstrapped administrators never meet, however long setup and
  recovery take between their check and their COMMIT; approval never replaces credentials; slots keep to the limit; an
  administrator remains (the code does not ensure this one).
* Owner's storage: totals are the sums of the allocations, growth keeps to the
  quota, and a deleted owner leaves neither rows nor files.
* Sessions: a token that was logged out, or is older than a cut-off, lets no
  request in that starts afterwards.
* Signup captcha: a challenge is good for one signup.
* Selections: what is shown is the latest of the log, whatever order the writers
  commit in.
* Lookups, sweeps, admission: a link that stays is found, a full gallery reopens,
  a slot always comes back and is never given to two.
* Backup and restore: what is published can be restored, and a restore says
  truly what it has done to the target.
* Edges of a request: one response however the body grows, a form of the current
  session is accepted, a webhook is posted once, an image that stays is on exactly
  one page, an archive leaves a bounded tree on the disk.

## 2. Plan

Order, most important behaviour first. All modules exist; the right
column says which theorems are proved and which are left.

| module | what | composes with | theorems |
|---|---|---|---|
| `StorageLifecycle` | everything that writes or removes files | - | *proved*: everything its runs check but `EveryTaskEnds` |
| `GuestReview` | one shared gallery, guests and owner | abstracts the storage away | *proved*: everything its runs check but `RequestsDrain` |
| `Accounts` | setup, recovery, signup, administration, slots | - | *proved*: everything its runs check |
| `OwnerStorage` | bytes, objects, unknown sizes, deletion of the account | the ledger of `StorageLifecycle` in detail | *proved*: `UsageIsSum`, `GrowthWithinQuota`, `DeletedLeavesNothing` |
| `AccessTokens`, `LogoutLedger`, `TokenCutOff` | clock arithmetic; logout with its ledger; reset, lock and login | the last two EXTEND the first | *proved*: `LoggedOutRefused`, `CutOffRefusesOlder` |
| `SignupCaptcha` | challenges and their redemption | in front of the signup of `Accounts` | *proved*: `RedeemedOnce`, capacity |
| `ReviewEvents`, `ReviewLog`, `SelectionProjection` | one vocabulary; the promise to readers; the listener | `SelectionProjection` implements `ReviewLog` (`INSTANCE ... WITH`) | *proved*: the refinement |
| `TokenLookup` | bounded windows of a scan with a signed cursor | - | *proved*: `NoFalseMissing`. `StableLinkFound` is liveness |
| `VisitRetention` | bounded sweep with a durable cursor | details the sweep of `GuestReview` | *proved*: `HistoryKept`. `FullGalleryReopens` is liveness |
| `WorkAdmission` | slots, waiters, cancellation, death of a worker | - | *proved*: counters, `WorkWithinLimit` |
| `BackupRestore`, `ArchiveExtraction` | the commands; the extraction inside a restore | - | *proved*: all of `BackupRestore`, `DiskIsBoundedTree` |
| `GuestPages`, `Notifications`, `RequestBody`, `CsrfToken` | one interaction each | - | *proved*: `SteadyShownOnce`, `DeliveredAtMostOnce`, `OneResponse`, `SessionPageAccepted` |
| `StorageOwnership` | abstract: somebody answers for every stored file, nobody writes where somebody deletes | `StorageLifecycle` implements it (`INSTANCE ... WITH`) | *proved*: the refinement, and what the abstraction promises by itself |
| `AtomicReview` | abstract: a review whose requests come one at a time | `GuestReview` implements it (`INSTANCE ... WITH`) | *proved*: the refinement |

Runs are kept few: one per question. Where two questions have the same
interesting instance they share it; where one needs more tasks and another more
galleries they do not, because the product of both is out of reach.

## 3. The modules and the code

Common to all modules: one action per step between two points at which other
coroutines or sessions can be observed; an unordered set of requests that come
and go for ever; `GiveUp`, `Abort` or `Vanish` for the refusals, exceptions,
cancellations and process deaths possible there. Actions and definitions carry
the names of the code where it has one.

### StorageLifecycle

State: committed rows (`gallery`, `row`, `previews`, `intents`), the ledger
(`allocated`), the backend (`objects`), the in-memory queue of preview workers
(`queued`), the fences (`shared`, `exclusive`, `imageLock`), and per task its
program counter, handler, gallery and the sets the code keeps in memory
(`plan` = `UploadPlan`, `attempted` = `attempted_keys`, `writing`, `added` = the
rows of the open transaction, `todo` = the keys about to be deleted).
`origin` is history: which handler generated an image UUID.

| code | actions |
|---|---|
| `UploadBatch.__aenter__` with the intent commit | `BeginUpload`, `ReenterBatch` |
| `duplicate_gallery` | `BeginCopy`, then the actions of a batch |
| `UploadBatch.upload`, `copy`, the worker's writes | `Reserve`, `ReserveFails`, `PutDone`, `PutFails`, `Abort` |
| COMMIT of a batch or worker | `CommitAcked`, `CommitAckLost` |
| `UploadBatch._recover` | `EnterRecovery`, `Erase`, `Refund`, `Finish` |
| `preview_worker` | `WorkerEnter`, `WorkerNotAdmitted`, `EnterMarkFailed`, then as above |
| image deletion, bulk deletion, `purge_gallery` | `DeleteImage`, `BulkDelete`, `PurgeGallery`, `Erase`, `Refund`, `Finish` |
| process death, broken session, raising `__aenter__` | `Vanish`, `QueueLost` |

A fence is granted when nobody holds it in a conflicting mode; COMMIT and
ROLLBACK release everything, also in the middle of a handler. A failing write
may or may not have stored its bytes (`landed`); a deletion of a set may fail
for any subset. Abstractions: a storage key is the image and the part it
stores; the ledger counts objects, not bytes; a gallery holds one owner's
images; pixels, names, EXIF and sort orders are left out. A purge deletes the
union of its keys in one call as the code does, but `Erase` lets any subset of
it fail, so the partial results are all there. A handler takes all its fences in one
step. The code takes the gallery first and then the images in the order of their UUIDs, so
in between it holds only fences that come earlier in that one order; what a step can see
of it is that a later request for the gallery is granted later.

### StorageOwnership

What the fences, intents and ledger are for, said without them: one exclusive owner of
the files. Its state is what a reader of database and backend sees (`stored`, `counted`,
`listed`, `committed`, `referenced`), which galleries are `purged`, and two sets of images: those
a duplication has planned, and those that a handler is deleting (`condemned`). Its nine
actions say how far a step may go: files are announced by an upload before they are
written (`Announce`), only for images nobody has heard of; `Charge` and `Land` touch only keys
somebody answers for, that no row points to and nobody deletes; `Publish` makes rows of stored files,
and ends an intent only when all it alone answered for is gone; `Discard` takes a file that a row
points to only with its image; `Refund` gives back no stored key; `Remove` takes rows only
after their files and entries.

`StorageLifecycle` maps to it with `Listed` (the union of the intents), `Duplicated`, `WithRow`, `Purged`
and `Condemned` (the images whose original is in the `DoomedKeys` of a task that deletes). There is no
task in the mapping but in `Condemned`; everything in flight is a stutter or one of the nine.

### GuestReview

State: the gallery row (status, token, password, epoch), visits with the epoch
that stamped them, completion, expiry, the visit each selection event belongs
to, and per request the locks held, its program counter, what it asked with and
the row it saw under the locks. `LockOrder` is the one table of which handler
takes which locks in which order: lifecycle fence (shared, or exclusive for the
deletion), session admission or selection budget, row lock of the gallery
(`FOR SHARE` for reads, `FOR UPDATE` otherwise). `status` takes only the lock
of its UPDATE, and validates what it read before.

`Acquire` takes the next lock; `EnterChecked`, `GrantChecked`, `OwnerChecked` read
the row again; `Enter`, `Read`, `Select`, `Complete`, `ChangeCredentials`,
`ChangeStatus`, `Delete` write and commit. A share token is the epoch that created
it, so a rotated token differs from all earlier ones. The sweep of expired visits
is bounded and rotates in the code: in the model it removes any subset of what it
may remove, which contains every order. Concurrent selections are of different
images, so the image fence is left out of `LockOrder`.

`AtomicReview` is the same review as if requests came one at a time. It has no locks, tokens,
passwords or epochs: it knows which visits are `authorized`, a request is one action whose guard
and effect are of one instant, and a change of the credentials (`Withdraw`) empties `authorized`.
`GuestReview` maps to it with the status of the row, `linked` when the row has a token, `authorized`
the visits stamped with the row's epoch, and `expired` the lapsed visits; locks, what was seen and
where a request stands are not mapped, so all steps but the writing ones stutter. The only action
of `AtomicReview` that is not guarded by what it relies on is `ChangeStatus`, because the code
decides that change on a row it has not locked (finding `review_link`).
A visit may lapse between the check and the write of the request that uses it, as in the code,
so `Select` and `Complete` ask for an authorized visit and not for one within its time.

### Accounts

State: accounts by email with status, limit, number of galleries and the signup
their password came from; signups; `setup_state`; the row locks of all three.
A request is a record naming its handler and where it stands. Statements that
read without a lock are separate steps from the writes that rely on them:
`SetupArrives` / `SetupChecked`, `SignupArrives` / `SignupLooked` /
`SignupInserted`, `TargetChecked` / `StatusWritten`, `AccountDeleted`.
`SetupLocks` reads `setup_state` FOR UPDATE and keeps it (`TakeClaim`) until the
transaction ends. `AdminInserted` is the INSERT, whose trigger takes the same lock and
requires an empty table once more; `AdminCommitted` is the COMMIT that makes the row
visible. In between an approval of another email may commit: approvals take no lock of
`setup_state`, so the code promises an empty table at the INSERT and not at the COMMIT, and
`BootstrapsApart` says what does hold there. An approval of the *same* email waits for the
uncommitted row (`Inserting`, the unique index under ON CONFLICT) and then inserts nothing.
The trigger's exception is a `GiveUp`.

`SignupArrives` looks for the email among accounts, `SignupLooked` among
signups: an approval between the two leaves a signup for an existing account.
The code tolerates that (`app/auth/router.py:48`): approving such a signup inserts
nothing, removes it and answers 409. `AccountsFromVerified` states that outcome.

### OwnerStorage

State: `user` with the lock of its pending deletion, `galleryRow`, `allocation`
(per key a size, `Unknown` for objects older than the ledger, `None`), `usage` (bytes,
objects, unknown sizes) behind `usageLock`, and the tasks: writers, cleaners, the
administrator. `ReserveLocks` / `ReserveCommits` / `ReserveRefused` are
`reserve`: a growth reserves the larger of both sizes, an overwrite in
place costs no object, and an unknown size refuses growth. `RefundLocks` /
`RefundCommits` are `release`. `AdminLists`, `AdminFences`, `AdminFenced`,
`AdminErases`, `AdminDeletes`, `AdminCommits`, `AdminRollsBack` are `delete_user`: it fences the
galleries it listed, purges them and deletes the row with the galleries and totals that
refer to it; an allocation left over, as of a gallery committed in between, refuses that by
its foreign key. The row lock of that
deletion and the key-share lock of a reservation make a deadlock, which
PostgreSQL breaks by failing one of the two: both outcomes are actions.

### AccessTokens, LogoutLedger, TokenCutOff

`AccessTokens` is the arithmetic: `iat` and `exp` are whole seconds, cut-offs and
ledger expiries exact; the library takes a token throughout its `exp` second.
`LogoutLedger` splits a request into decoding (`TokenPresented`), reading the
ledger (`LedgerAsked`) and its handler (`RequestServed`), and a logout into
`LogoutArrives`, `LogoutCommits` (insert and `cleanup_revoked_tokens` with the time
read *before*) and `LogoutAnswered`. `late` is history: the request arrived when the
logout of its token had been answered. `TokenCutOff` has login, account check,
password reset, lock and unlock, each reading before it commits.

### SignupCaptcha

`ProofVerified` (no lock), `GateTried` (`pg_try_advisory_xact_lock`, reads the clock),
`Redeem` (prunes a batch, then inserts or refuses; a refusal rolls the pruning
back, so its rows stay), `RedeemsLate` (refused by that second look at the clock), `RedeemFails`, `SignupTakesEffect`, `SignupDies`. Two signups with the
same proof are two members of `Signups`.

### TokenLookup

`TabAsks` reads the cookie; `ListIndexed`, `CheckIndexed`, `CheckLocator` are the indexed
candidates; `ScanAdmitted`, `ScanRefused`, `ListLegacy`, `CheckLegacy`, `ScanAbandoned` the
bounded scan. A listing is one query and the check after it another transaction:
rows come and go in between (`Churn`, `LinkDies`, `LinkRevived`). All tabs of a browser write
one cookie. `steady` is history: the link was good ever since the traversal began.

### VisitRetention

`AdmissionReads` (the window behind the cursor, or the first one), `AdmissionLocks`
(`FOR UPDATE SKIP LOCKED`), `AdmissionCommits` (delete what has no history, move the cursor,
admit or refuse; a refusal commits too), `AdmissionFails`. This is the sweep that
`GuestReview` abstracts to "any subset of the reclaimable visits".

### ReviewEvents, ReviewLog, SelectionProjection

`AuthorBegins` fixes `created_at`, `EventInserted` draws the id, `EventProjected` waits for the
row lock of `current_selections` and updates the dimension if the event is newer,
`AuthorCommits`, `AuthorRollsBack`. Locks of the gallery are not assumed, because the listener
promises to be right for every producer. `ImplementsReviewLog` maps `log <- events`,
`view <- current`: every commit appends one event and shows the latest.

### WorkAdmission

Uploads hold a slot for the request and run jobs inside it, previews hold one for the
whole task, hashers have their own limit. `JobCancelled` is the cancelled task that keeps
its slot while its job goes on; `JobEnds`, then `JobStopped` or `JobAnswered` and `SlotReturned`, end it (`image_processing_slot`, `run_in_pool`,
`hash_gallery_password`). `active`, `queue` and `hashing` are the counters of the code, not
cardinalities: that they agree is proved.

### BackupRestore, ArchiveExtraction

Live installation (object and row of each image change in separate steps), backup
commands (dump, list, pack, link the signature, link the archive) and restore
commands (signature, archive, extraction, emptiness, staging, database, files one
at a time). Each may fail where `Failing` says and be killed anywhere; two backups
may write to one path. A load that fails may have committed all the same, its answer lost
(`LoadFails`): the message of that exit speaks of the images only, and so does `ReportsTrue`. `ArchiveExtraction` is `extract_archive` header by header: budgets of
bytes, headers, objects, file and extension sizes; each target and its ancestors
are claimed as file or directory before anything is written.

### GuestPages, Notifications, RequestBody, CsrfToken

`GuestPages`: keyset pages over (sort key, id) while images come, go, change key or stop
matching the filter; a cursor is signed for its direction. `Notifications`: saving the
configuration (read, then insert or update) and delivery: addresses in turn, one POST,
one committed row per configuration. `RequestBody`: one request between the server and an
application that may answer, fail or turn a disconnect into an answer at any point, under
the limit of its route. `CsrfToken`: pages of one browser set one cookie in the
order in which their answers arrive, while forms log in and out.

## 4. Runs

| run | instance | what it shows |
|---|---|---|
| `storage_batch` | 1 gallery, 2 images, 3 tasks, limit 3 of 4 keys | `LeftoverHasIntent`, `CompensationSparesCommitted`, `ReadyIsFinal`, `TypeOK` |
| `storage_copy` | 2 galleries with 1 image each, 2 tasks | `ObjectsAccounted`, `PurgedGalleryEmpty`, `CommittedRowsAreBacked` with duplication across galleries; `ImplementsStorageOwnership` |
| `storage_live` | 1 gallery, 1 image, 2 tasks, fairness | `EveryTaskEnds` |
| `review_credentials` | 2 requests, 2 visits, 1 event, 1 password, 2 credential changes | `GrantStillGood`, `CredentialsStampEpoch`, `ImplementsAtomicReview` |
| `review_history` | 2 requests, 3 visits under a limit of 2, 2 events under a limit of 1 | `VisitsWithinLimit`, `BudgetKept`, `NoCircleOfWaiters`, `HistoryKept` |
| `review_drain` | 2 requests, 2 visits, fairness | `RequestsDrain` |
| `accounts` | 2 requests, 2 emails, 1 signup, limits 1 and 2 | `BootstrapsApart`, `AccountsFromVerified`, `SlotsWithinLimit` |
| `services` | twelve modules, one per behaviour (below) | `UsageIsSum`, `GrowthWithinQuota`, `DeletedLeavesNothing`, `LoggedOutRefused`, `CutOffRefusesOlder`, `RedeemedOnce`, `ImplementsReviewLog`, `PublishedIsRestorable`, `ReportsTrue`, `DiskIsBoundedTree`, `SteadyShownOnce`, `DeliveredAtMostOnce`, `OneResponse`, `SessionPageAccepted`, `NoFalseMissing` |
| `progress` | lookup, admission and retention, with fairness | `StableLinkFound`, `SlotsComeBack`, `FullGalleryReopens`, `WorkWithinLimit`, `HistoryKept` |
| `storage_pending`, `review_link`, `accounts_admins` | smallest that show it | findings, section 6 |

Why the bounds are enough. Every hazard listed is a race of two actors, or of
one actor with its own failed predecessor, over one gallery; the third task of
`storage_batch` lets a worker and a deletion meet a recovery. Two images are
needed for a bulk deletion that stops half way and for an upload of several
files of which one fails; two galleries for duplication. A limit one below the
number of keys makes the ledger refuse in the middle of a batch. In the review,
two credential changes are needed for a rotation after a share, three visits
under a limit of two for a sweep that makes room, two events under a limit of
one for two selections that count at once. The two bounds on ids that are
drawn, `RoomForVisit` and `RoomForEpoch`, limit arrivals and never a request that
is under way, so they cannot stop a handler half way. In `Accounts`, two requests suffice since every handler decides on one
row and writes one row. An approval under way while the table is empty needs more: two
administrators who deleted each other meanwhile (finding `accounts_admins`), that is one request
and one signup beyond the instance. `MCAccounts!LateInit` starts there, so that the run
also lets that approval commit between the INSERT and the COMMIT of a recovery.

`services` and `progress` put several modules into one run each because they share no
variable: `focus` chooses in the initial state which one runs, the others stay in one
of their initial states, so the state space is the sum and not the product. Bounds
of `services`: of two backups and two restores three are started (`MaxJobs`), one image;
two ticks in a second, a clock of five, two tokens; two signups that may share a
challenge, a ledger of one row; quotas of 1 byte and 1 object against objects of up to
2, so both limits bite, also in overwrites; two galleries, two writers, one cleaner and
the deletion of the account; three events of two writers with equal and
decreasing times; three images with two sort keys on pages of one; a body of five units
against limits of 1 to 3; an archive of which every budget can be hit. Bounds of `progress`:
one tab, three keys, windows of two, so the scan needs several windows and its cursor
wraps; one worker with an upload and two previews, three hashers for two slots; three visits
in windows of one under a limit of two, so the window can fill with protected visits.
`services` looks at the lookup once more, for safety, with two tabs that share the cookie.

`CHECK_DEADLOCK FALSE` everywhere: a deleted gallery ends the review; with all
UUIDs or ids drawn nothing new need begin. No run relies on TLC's deadlock check
for waiting requests, because `GiveUp` and `Vanish` are always possible for them;
`EveryTaskEnds`, `RequestsDrain` and `SlotsComeBack` ask the question instead, and require nobody
to give up.

### Fairness

* `StorageLifecycle!FairSpec`: weak fairness of the steps a handler can take by
  itself, strong fairness of the three steps that *wait* for a fence in the
  middle of a handler. PostgreSQL queues the waiters of an advisory lock in
  order of arrival, and a waiting exclusive request blocks later shared ones, so
  a waiter is not overtaken for ever; strong fairness is weaker than that. Nothing is assumed of
  arrivals, failures or process deaths.
* `GuestReview!FairSpec`: weak fairness only. A row lock in reader mode may be
  granted past a waiting writer, so a stream of readers can starve a writer,
  and `RequestsDrain` is therefore conditional: *if* requests stop arriving, all
  under way end. A circle of waiters would violate it; that there is none is a safety property of its
  own, `NoCircleOfWaiters`, and proved.
* `LookupFairness`: a tab that was told to retry asks again, and the event loop carries
  each request on. Expired cookies and abandoned requests are bounded by `MaxMishaps`:
  a browser that drops every cookie never gets anywhere, and the code does not claim otherwise.
* `WorkFairness`: the event loop runs each task and the pool ends each job (also by dying).
  Returning the slot is strongly fair because a task holds it between its jobs and has only so
  many files: it does not schedule jobs for ever. That a job ends is an assumption: the
  pool's timeout enforces it (`run_in_pool`), and with the timeout set to 0 nothing in the code does.
  No fairness of arrivals or cancellations.
* `RetentionFairness`: guests keep knocking; strong fairness of the later steps of an
  admission says that not *every* admission fails or is cancelled; a writer's
  transaction ends. Time need not pass.

## 5. Proofs

`StorageLifecycle_proofs` proves, for any number of galleries, images, variants
and tasks and any ledger limit, from `ConstantsAssumption` alone (each image has
one gallery, `None` is no gallery, `"original"` is no variant, there is one):

* `TypeCorrect`: `Spec => []TypeOK`
* `StorageInvariant`: `Spec => []StorageInv`
* `FencesAreExclusive`: an exclusive fence excludes every other holder
* `LedgerCoversObjects`: `Spec => []ObjectsAccounted`

`ObjectsAccounted` is not inductive: a `Refund` could remove the entry of a key
that another task is about to write. `StorageInv` says why that cannot be:

1. `WritesReserved`: a key being written is in the ledger; `RefundsErased`: a key
   about to be refunded is not in the backend. Both fail unless no writer meets an
   eraser of the same key:
2. `FencesExclude` and `FencesHeld`: writers share the gallery, erasers exclude it,
   except the worker and the single deletion, which share it and hold the image
   fence; the lemma `NoOverlap` turns this into `writing[p] \cap todo[q] = {}`.
3. That leaves a batch against a worker or single deletion of the *same* image,
   both sharing. `BatchPrivate` excludes it: the images of an uncommitted batch
   have no row and are in nobody else's plan, because (`FreshUnknown`) its UUIDs
   were fresh. `TaskScope` keeps each task inside its gallery and image, so that a
   fence of the gallery means something about its keys.

The proof has a lemma for each way a step ends or begins a task (`EndInv`,
`RollBackInv`, `StartScope`, `StartFresh`, `StartKnown`, `ExcluderStarts`,
`WorkerStarts`) and one step per action in `TypeStep` and `InvStep`.

`StoragePromises_proofs` goes on from `StorageInv` to what the fences are held for, from the
same assumption: `LeftoversListed`, `PurgedStaysEmpty`, and the action properties `RowsAreBacked`,
`CompensationIsSafe`, `ReadyStaysReady`. None of them is inductive, and the strengthening,
`PromisesInvariant`, is split by concern; TLC checked the three parts on the instances of
`storage_batch` and `storage_copy` before they were proved.

1. `RowsInv`: while a writer is at work its gallery exists; a preview is written after its
   original; a worker's image has a row while it writes and is not ready while its failure is
   being marked. The last is why `_mark_failed` reads the row again: between the failed transaction
   and it the worker holds no fence, and another one may have finished the image.
2. `FilesInv`: what a writer counts as stored is stored, and a deletion that is about to remove a
   row has refunded every key of it (`Outstanding`), so a purged gallery has neither files,
   entries nor intents. A batch whose fence was dropped (`gap`) finds this out when it takes it again.
3. `IntentsInv`: an upload that may still write has its intent committed with all its keys; what it
   stored is among its attempts until its recovery has dealt with it (`Unrecovered`); and a
   recovery has in hand only keys of images without a row. This is where a lost acknowledgement
   of COMMIT would do its damage, and why recovery selects the rows first.

A lemma per action says which of the shared sets it touches and how (first part of the
module); each of the three invariants is then preserved action by action.

The same module proves the refinement of `StorageOwnership`, `LifecycleRefinesOwnership`, from these
invariants and one more, `ClaimsInv` (`ClaimsInvariant`): intents list only keys of uploads and of one
gallery, the ledger counts no key of a fresh UUID and keeps to the quota (`Affordable`, finite because
it grows by one key at a time), a worker's image is not ready, a bulk deletion erases files of its own
images. The argument is a lemma per kind of step. `PlannedWritable` is the heart: a key that a
writer may still write is owned (by its intent, its duplication or its row), unreferenced, and, by
`DoomedApart`, in no deletion's hands, so a reservation is a `Charge` and landing bytes a `Land`. A
commit is a `Publish` because everything the rows point to was stored, and because
`LeftoverHasIntent` holds *after* the step: what an ended intent alone answered for is gone or has
its row. A deletion that begins is a `Condemn`; its steps are `Discard`, `Refund` and `Remove`,
the last because what it is about to remove was erased and refunded (`FilesInv`). A recovery
discards and refunds like a deletion but condemns nothing: its files are no row's. `OwnershipAnswers`
then proves, of whatever implements the ownership, that every file is counted, within the quota and
answered for, that purged galleries are empty and that no row outlives its image. `NobodyWaitsHolding`
proves `WaitersHoldNothing`, from `FencesHeld` and the way each step releases what it took.

`Accounts_proofs` proves, for any requests, emails, limits and bounds, from
`AccountsAssumption` (`None` is neither a request nor an email, limits are natural
numbers): `TypeCorrect`, `AccountsInvariant`, `SlotsKept` (`SlotsWithinLimit`),
`ApprovalsFromVerified` (`AccountsFromVerified`) and `BootstrapsNeverMeet` (`BootstrapsApart`). The limit alone is not
inductive: what one request counted could be changed by another before the first
inserts. `AccountsInv` adds what forbids it: `CountersHoldAccount`, a request
between its count and its end holds the row of the account, and `CountNotStale`,
what it counted still permits the insertion, since every change of the limit and
every deletion of the account waits for that row (deletions of single galleries do not,
and can only help). `RequestsTyped` types the requests' records.
`BootstrapsApart` is about the COMMIT, whose guard looks at no account; what it needs was checked two
steps earlier. `ClaimHeld` carries it over: whoever checked holds `setup_state` until the end, so
nobody else bootstraps or consumes the claim meanwhile, and every account that appears is an approved
one, with the password of a signup. It is proved inductive together with `AccountsInv`
(`ClaimStep`, over the lemmas `ClaimBegin`, `ClaimMove` and `ClaimEnd`).

`GuestReview_proofs` proves all safety of the review for any finite set of requests and any
visits, events, passwords and limits, from `ReviewAssumption`: `ReviewInvariant`, then
`TypeOK`, `GrantStillGood`, `VisitsWithinLimit`, `BudgetKept`, and the action properties `HistoryKept`,
`CredentialsStampEpoch`, `OneCompletion`, the absence of deadlock `NoCircleOfWaiters` and the refinement
`ImplementsAtomicReview`. None of them is inductive. `ReviewInv` adds:

1. `LocksTaken`, `NoConflict`: the last entry of every line of `LockOrder` is the gallery row
   (lemma `OrderIs`), so whoever checks or acts holds it (`Inside`), and conflicting locks have
   one holder. Lemma `Alone`: two requests inside at once are both readers.
2. `GrantsHold`: a request that was granted still sees the row it read (`seen[r] = row`), and
   what was checked holds. A writer is alone inside, so when it commits no other grant is
   left to break (`WriterEnds`); every other step leaves the review alone (`QuietStep`).
3. `HistoryWhole`: authors of events are visits, so what the sweep may take is in no event
   (`SweepFits`).
4. `EpochsLeft`: the bound on epochs is reserved at arrival for each request under way, which
   makes the typing of `epoch + 1` inductive.

`NoCircleEver` needs to know exactly what a waiting request holds: `OrderHeld`, a waiting request holds
the first `n` locks of the line of `LockOrder` it follows. In a circle everybody waits, so whoever
keeps a lock from another waits for a later one of its own line (lemma `Ahead`): a member waits, the
member it waits for does not wait for the fence, and the one that one waits for must be waiting for the
row. But nobody who waits holds the row, the last lock of every line. The statement is about every
set of requests, not only about all of them: a circle of two is excluded while others run.

`ReviewIsAtomic` is the refinement of `AtomicReview`. `GrantsHold` carries it: what a request decided
on is still so when it writes, so its guard holds in the instant of the write. `AtomicInv` adds
three facts. `PastStamps`: no visit is stamped with an epoch yet to come, so a new epoch withdraws
*every* authorization and never revives an old one. `AskedStatus`: a status asked for is the target of some transition.
`OwnerSees`: an owner that acts saw a gallery that exists. One lemma per writing handler
(`SweepIsAtomic`, `GuestIsAtomic`, `CredentialsAreAtomic`, `OwnerIsAtomic`) maps its step.

`Requests_proofs` holds the services that a single request passes through. Each section is
about one module and has an inductive invariant of its own.

* `LogoutLedger`: `LoggedOutRefused`, for any number of requests and tokens, any resolution of the
  clock and any lifetime. The argument is arithmetic: a row is cleaned when `ExpiresAt` is reached,
  and then `OverWhenForgotten`: the token's last second is over; `StaysExpired`: it does not come
  back. `LogoutsHold` says that a committed or answered logout is refused, by its row or because it
  no longer decodes.
* `TokenCutOff`: `CutOffRefusesOlder`. A request that was let in holds a token not older than the
  cut-off it read (`CutOffInv`); cutting `iat` to a second can only make the token look older
  (`IatNotLater`).
* `SignupCaptcha`: `RedeemedOnce`, `LedgerBounded` and `FullOnlyWhenNothingExpired`. `RowsKept` is
  the invariant: the row of a used challenge is missing only when the challenge has expired *by the
  time that whoever is behind the gate read*; that is why the second clock check behind the gate
  is needed.
* `WorkAdmission`: the counters equal the tasks they count (`CountersMatchTasks`) and
  `WorkWithinLimit`, for any tasks. `JobsInSlots` is what is added: a job's task is inside its slot,
  also after its caller was cancelled.
* `CsrfToken`: `SessionPageAccepted`. A page of a session carries the session's own token, and while
  it is fresh the cookie has it too from the moment the page's answer can no longer change the
  cookie (`CsrfInv`).
* `RequestBody`: `OneResponse`, for a body of any number of chunks and any limit. `OneAuthor` says how much of whose
  answer is on the wire; `AppKnows` ties the application's progress to it.
* `Notifications`: `DeliveredAtMostOnce`. `SenderKnows`: a configuration still to be asked has been
  asked by nobody, and a recorded success was given by the receiver.

`Services_proofs` holds the services whose argument is about finite sets, and the lemmas about
them. The library's induction over finite sets takes a predicate as parameter, so induction is done
by contradiction: `SmallestFailing` takes, among the subsets that fail, one of which no
proper subset fails, from the well-foundedness of the strict subset order. On it rest the largest
and smallest member of a finite set of integers, and the laws of `SumFunctionOnSet`: it is a
recursive function chosen with CHOOSE, so first that one exists for every finite set
(`SumExists`) and that two agree where both are defined (`SumsAgree`), then that taking a member out
subtracts its value (`SumTakesOut`), whichever member the definition would pick.

* `VisitRetention`: `HistoryKept`, for any window. The visits an admission has locked are held by
  no writer, so those it deletes may be deleted still.
* `TokenLookup`: `NoFalseMissing`, for any window and any number of tabs that share the cookie.
  `CookieSound` and `TabSound`: as long as the row has been there all the time, the cursor of the
  phase that covers it has not passed it; `Ahead` adds what one window has listed.
  `ScansAlwaysCounted` adds the slots of the legacy scan: the counter is the number of tabs that
  scan (`ScansCounted`), so however a scan ends or is abandoned its slot comes back, once.
* `GuestPages`: `SteadyShownOnce`, for any page size and any change of the other images.
  The order of the listing is total and transitive although sort keys are shared (`OrderIsTotal`,
  `OrderIsTransitive`), the cursor is the last row of a page (`LastOnPage`, `PageEnds`), and an
  image that stays was shown exactly when the cursor has passed it (`ReadingSound`). `PagesTypeOK`
  follows because a page's cursor names one of its rows.
* `OwnerStorage`: `DeletedLeavesNothing`, for any writers and cleaners: a purger touches only keys of galleries it holds, and no writer is
  in those (`Apart`). `UsageIsSum` needs in addition that two writers are never on one key (`KeysApart`) and
  that under the lock the previous size is still the size that was read (`PreviousKnown`); each
  change of an entry is then a change of the sum by the same amount (`ReservationAdds`,
  `RefundSubtracts`). `GrowthWithinQuota` follows for every step, whatever sizes are unknown, and
  `OwnerTypeOK` because the totals are sums: no refund takes one below zero.
* `ArchiveExtraction`: `DiskIsBoundedTree`, for any archive, paths and budgets. The claims are what
  is on the disk (`ExtractionInv`), a member whose claims are consistent fits into the tree
  (`MemberFits`), and every byte on the disk was paid for before it was written.
  `ExtractionAlwaysTyped` proves each single limit with `ExtractionTypeOK`: headers, extension bytes
  and their chain, expanded bytes, and that no file on the disk is longer than `FileLimit`
  (`LimitsInv`).

`SelectionProjection_proofs` proves that each dimension is `Latest` in the log, that it equals what
migration 0018 would backfill, and `ImplementsReviewLog`. `IdsFresh` says that ids drawn and not yet
committed are in nobody's log. A writer that commits while another waits is covered because
`EventProjected` compares under the row lock.

`BackupRestore_proofs` proves `PublishedIsRestorable`, `ReportsTrue`,
`UnsignedIsTrustedLegacy` and `PairKept` for any number of images and commands, killed anywhere.
`PairHeld`: the signature at the path belongs to whoever links the archive. `RowsCovered`: a dumped row
not packed was erased by the live installation. `SourceKnown`: what a restore opened is
authentic or trusted. `TargetHeld`: the database tells which restore wrote the files, and a restore
whose load failed wrote none, even when the database holds it.

The assumptions are the named ASSUMEs of the modules and nothing else; TLC evaluates each.

Every safety property that a passing run checks is stated by a theorem. Proved, and in no run: the type
invariants but that of `storage_batch` (as theorems of their own, `TypesAlwaysOK`, `TypeCorrect` of `Accounts`,
`AccountAlwaysTyped`, `PagesAlwaysTyped`, or as conjuncts of the service's invariant, like `CaptchaTypeOK` in
`CaptchaInv`), `WaitersHoldNothing`, and `OneCompletion`, which the refinement of `AtomicReview` implies.

Only model-checked, because the proof system cannot do it: liveness under fairness
(`EveryTaskEnds`, `RequestsDrain`, `StableLinkFound`, `SlotsComeBack`, `FullGalleryReopens`), which
needs ENABLED. The three runs that expect a violation are counterexamples, with nothing to prove.


## 6. Findings

* `review_link`: a status change validates a gallery it has not locked. A
  revocation committed between the read and the UPDATE leaves a gallery that is
  `shared` and has no link, which `change_gallery_status` exists to refuse.
* `accounts_admins`: two administrators who demote or delete each other at the
  same time each count two administrators; none remains, although the comments in
  `app/admin/service.py` say the last one is never demoted or deleted.
* `storage_pending`: the JSON upload commits images *with* their previews at
  `pending`, which `ImageProcessingStatus` documents as "previews not yet generated".

A model limitation worth knowing: deletions erase files before their rows, so a
process that dies in between leaves rows without files (reached by `Vanish`). The
code's remedy is to repeat the deletion; `CommittedRowsAreBacked` is therefore
stated of the step that commits a row and not as an invariant.

Two more states the models reach and no document of the repository excludes, so they are
listed as hazards without a property: two first saves of a notification configuration
insert two rows, after which `scalar_one_or_none` raises for every save
(`ConfigLookedUp`); a preview task that was queued in memory is lost with the process
(`QueueLost`).

## 7. Not modelled, and why

* Image processing (`app/images/processing.py`, `upload_limits.py`, `capture_date.py`): sequential
  computation over pixels and EXIF inside a worker process. Its admission is in `WorkAdmission`.
* Storage backends: I/O; their failures are actions of `StorageLifecycle`.
* Notifications: the e-mail channel has the same control flow as a webhook with one
  address; which addresses count as public is computation.
* Middleware: security headers depend on nothing but the response.
* Guest credentials: sealing and signatures are computation; the cookie is the visit it names.
* Web pages, i18n, exports, dashboards, wiring: they render rows and keep no state that two
  requests share.
* A restore that is killed leaves its `.restore-*` directory behind; nobody reads it, so the
  model forgets it.
* Composition: modules that meet only at a row (the signup behind its captcha, the sweep inside
  the review, the extraction inside a restore) are checked apart, each against the most general behaviour of
  the other. One product of `StorageLifecycle` and `GuestReview` is out of TLC's reach.

`PROJECT.json` gives the status of each part.
