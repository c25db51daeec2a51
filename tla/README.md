# A TLA+ verification of the EncryptDrive backend

The backend (`src/`) stores files that were encrypted in the browser. It keeps
metadata in Postgres, objects in MinIO and short-lived state in Redis, and it
changes the three one call at a time, without a transaction across them. This
directory holds TLA+ modules for the parts in which that matters, TLC runs that
check them on small instances, and TLAPS proofs of all their safety properties
for instances of any size.
`PROJECT.json` lists components, runs, hazards and theorems, and for each
definition the lines it models.

To check a run: `tlc -config X.cfg MCModule`. To check the proofs: `tlapm` with
`SumLemmas` and each of the modules `*Proofs.tla`.

## 1. Inventory

| Component | State it keeps | Operations | Code |
|---|---|---|---|
| File storage | `stored_blobs` (status in `uploaded_at`, `deleted_at`), multipart uploads and objects in MinIO | initiate, complete and abort an upload; trash, restore, hard delete, move, rename; empty trash; hourly purges | `usecase/storage/service.go`, `repo/persistent/postgres/blobs.go`, `repo/storage/minio/store.go` |
| Folder tree | `folders` (`parent_id`, `name`, `deleted_at`) | create, move, rename, trash, restore, hard delete, empty trash, purge | `usecase/storage/service.go`, `postgres/folders.go` |
| Device sessions | `device_sessions`, `refresh_sessions`, blocklist in Redis, signed access tokens at the clients | register, login, refresh, logout, revoke one / all others, orphan job, middleware | `usecase/auth/service.go`, `postgres/device_sessions.go`, `postgres/refresh_sessions.go`, `redis/session_blocklist.go` |
| Credentials | `users`, `password_reset_tokens`, SRP handshakes in Redis | login init / finalize, request and confirm a reset | `usecase/auth/service.go`, `redis/srp_sessions.go`, `postgres/users.go` |
| Sharing | `file_shares`, presigned URLs at the clients | create, open, revoke, expire | `usecase/sharing/service.go`, `postgres/sharing.go` |
| Audit trail | a channel of 512 events, `audit_log` | `LogAsync`, the worker with retries and drain, shutdown | `usecase/audit/service.go`, `postgres/audit.go`, `app/app.go` |
| Rate limiter | counters with a time to live in Redis | allow, refuse or fail | `redis/rate_limiter.go`, `restapi/middleware.go` |
| Favourites | `favorites` | add, remove, list | `usecase/favorites` |
| HTTP handlers | cookies at the clients | decode, call the use case, report to the audit trail, answer; set and clear cookies | `controller/restapi/v1` |
| Mailer, configuration, cryptography | none of their own | | `pkg`, `config` |

How they interact:

* Every HTTP request is a goroutine. It calls use cases that call Postgres,
  MinIO and Redis one after the other. Two requests of one user may overlap, and
  a request may be cancelled, or its process die, between two calls.
* `app.Run` starts three hourly goroutines: orphaned blobs, expired trash,
  orphaned sessions. They work on the same rows as the requests.
* Folders and files share the trash: trashing, restoring and deleting a folder
  does the same to the files in it. Deleting a file deletes its shares
  (`ON DELETE CASCADE`).
* A password reset ends the device sessions of the account.
* Handlers report to the audit queue, which one worker goroutine empties, after
  the use case has returned and before they answer.
* A browser holds the refresh token in a cookie that a handler replaces with its
  reply; the reply may be lost, and another tab may use the cookie meanwhile.
* The rate limiter stands before the `/auth` endpoints and the look-up of public keys.

What is hard to test is listed under `hazards` in `PROJECT.json`: which store is
changed first when the second call may fail; checks that are stale when the
write comes; two requests with one token, one reset link or one handshake; a
clean-up job running into a request; a bounded queue; the end of the process.

What makes each component correct: a listed file has its object, and nothing
stays behind in MinIO that no record points to; the folders of a user form a
forest whose trash can be emptied; one active session for each device, single use of refresh tokens
and handshakes, revocation that is final; the wrapped key a client receives
opens with the password it proved; access to a shared file that ends with the
share; an audit trail in order in which nothing is lost silently and which tells
where a file stands; a limiter that stays below twice its limit in any span of its window
and locks nobody out for good.

## 2. Modules and code

All modules use one pattern. Tables, Redis keys and MinIO are variables (a
column is a function of the id, a nullable timestamp the set of ids for which
it is set). A handler is a process with a record in `req` that holds its program
counter and its locals; one call to a store is one action, so that all other
handlers run between two calls. A statement is atomic; of a transaction with several
statements, which at READ COMMITTED see what is committed meanwhile, those that read what others
may change are steps of their own. `Start` begins a
handler, `Continue` is the next step of one that is under way, `Fail` ends one
where it stands: its process died, its context was cancelled, or the next call
returned an error the handler returns. Operators commented "Faulty variant" are not part of
the model: they are the mistakes against which the properties are tested (section 6).
`map` in `PROJECT.json` gives the lines behind each definition.

**BlobLifecycle.** `rows`, `uploadedAt`, `deletedAt`, ... are `stored_blobs`;
`mpu` and `objects` are MinIO. A blob stands for its id, object key and upload
id, which are made together. `InitiateCheckQuota`, `InitiateRequireFolder`,
`InitiateNewUpload`, `InitiateRegister`, `InitiatePresign`, `InitiateAbort` are
the calls of `InitiateMultipartUpload`; `Complete*`, `Abort*`, `HardDelete*`,
`EmptyTrash*` those of the handlers of these names. `PurgeOrphanedBlobs` and
`OrphanAbort` are `CleanOrphanedBlobs`, `PurgeExpiredBlobs`,
`PurgeExpiredFolders`, `PurgeExpiredCommit` and `RemoveKey` are `CleanExpiredTrash`. Age is a flag
(`oldRow`, `oldTrash`) that time sets. Folders are flat here: one folder stands
for the subtree the recursive queries collect. The transactions of `folders.go` go
statement by statement: `TrashFolderRead`, `TrashFolderWrite` and `TrashFolderCommit` look the
folder up, write and commit, and `RestoreFolder*`, `HardDeleteFolder*`, `EmptyTrashFolders` with
`EmptyTrashCommit` and `PurgeExpiredFolders` with `PurgeExpiredCommit` likewise. `tx` holds the blob rows
that an open transaction has written: others see them as they were, and a statement that
would write one waits (`Unlocked`, `FoldersUnlocked`). Two things are taken together because nothing
can fall between them that others would see: the look-up of `GetFolder` with the query of the subtree
(both only refuse), and the `UPDATE` of the folder's row, which nobody sees before
the commit, with the statement on its blobs. Deleting a folder sets `folder_id` of the blobs that remain in it
to NULL (`DeleteFolders`). A client may upload another size than it declared (`CompleteStat`);
`declared` keeps the size of the `INSERT`. `Failing` is the set of processes whose calls may fail.

**FileStatus** and **BlobRefinement.** `FileStatus` is the abstract specification:
what an owner is told about a file, with no handlers, rows or objects. A file is
new, a draft, listed, one of the last two in the trash, or gone; one step moves a set of
files, since a folder takes its files along. A folder goes into the bin and back; its deletion may be
asked for only while it is there, and dooms it until that deletion ends, even when it is restored
meanwhile. A listed file is given up only with a folder that is in the bin or doomed. `BlobRefinement` instantiates it
with the status read off the columns of `stored_blobs` and the doomed folders off the deletions
under way (`BeingDeleted`), and `KeepsPromise` says
that `BlobLifecycle` implements it: every step of a handler or job is a step of
the promise or invisible to the owner.

**FolderTree.** `parent`, `name`, `trashed`, `old`. The reads of a handler and its
writes are separate actions, as the transactions run at READ COMMITTED without
row locks. `Subtree` and `LiveSubtree` are what the recursive queries collect,
defined as smallest closed sets; on a cycle the `UNION ALL` query does not end
(`Terminates`). `Deletable` is the foreign key `ON DELETE RESTRICT`, `Twins` and
`Taken` the unique index on the names of live siblings: a write that would break it is refused
as a whole. `DepthLimit` is the 100 of `IsDescendantOf`. `Client` gives the user
who sends each request, so that it says how many requests of one user overlap.

**Sessions.** A token id is the pair issued together: refresh token and access
token. `now` is a clock; `tExp`, `aExp` and `bExp` are the expiry times of the
refresh row, of the access token and of the blocklist entry. `Accepted` is the
middleware's decision. `RevokeOtherDeviceSessions` and `RevokeOtherSessions` are the two
statements of the transaction that revokes all other sessions: the first reads which sessions there
are, the second revokes the refresh tokens of all that there are by then. `covered` is history: the pairs a session had when it
was last blocked.

**BrowserSessions.** Extends `Sessions` with the browsers: `jar` is the refresh
cookie of each, `waits` the browser that waits for the reply of a request. The
last step of a handler sets or clears the cookie as `auth.go` and `cookie.go` do
(`CookieAfter`); `Lose` is a handler that dies or a reply that does not arrive.
`honest` is history: no reply was lost, no browser used its cookie while it
waited for an answer, and no login opened its session between the two statements of a
revocation of all other sessions (`LoginAmidRevocation`).

**Credentials.** `verifier` and `kek` name the password the SRP verifier and
the wrapped master key were made from. A proof verifies exactly when the
password is the verifier's. `entry` is the handshake as `LoginInit` stored it.
`before` is history: the reset links that were there when a new one was asked for.

**Sharing.** Shares and the status of the shared file, one action for each
statement. A URL stays in `urls` while it works, since a presigned URL cannot be
taken back.

**AuditTrail.** The channel, the worker's two loops, `insertWithRetry`, and the
deferred calls of `Run` in their order: the pool is closed, then the context is
cancelled, then the process exits and waits for no goroutine.

**StorageApi.** The handlers of `storage.go`, `trash.go`, `folders.go` and
`sharing.go` that change something, composed with `AuditTrail`: a handler calls
its use case, reports with `LogAsync` and answers, and each of the three is a
step. A use case is one step here that moves a file, a folder with the files in it or a share from state
to state (the two that commit twice are two steps); the modules above open it up. `home` is the
folder of each file. A claim is an event to be reported: `on` is its resource, the one that the
handler passes to `auditEvent` (the file, for the events of creating and opening a share), `now` what the event
tells of that thing and of those that went with it. `story` is history: the claims in the order of the
changes; `claimOf` says which entry of it an event reports. The locals `made` and `moved` of a
request keep its claims and the things that it showed, hid or moved to another page.

**RateLimiter.** The script with its counter and time to live, and the three
answers of the middleware. The clock is the time left of each key, so a tick
needs no bound. Redis may fail before the script ran or after it.

The `MC*` modules add symmetry sets and constant functions.

## 3. Runs

| Run | Bounds | What it shows |
|---|---|---|
| `blob_races` | 1 blob, 1 folder, 2 requests + 2 jobs, all of them failing | `ServedBlobHasObject`: a listed file that never came back from the trash has its object. `RecordOutlivesObject`: a hard delete gives up the record only after the object. `KeepsPromise`: the refinement of `FileStatus`, with the folder transactions statement by statement. |
| `blob_quota` | 3 blobs, 2 requests + 2 jobs, quota 3, maximum 2, sizes 2 and 3, one blob ages or is trashed | `QuotaOvershootBounded`: racing uploads exceed the quota by at most one largest upload for each request beyond the first, counted as declared. `PurgedObjectIsOwed`: rows are deleted before objects, and the handler that deleted the row still has the key. |
| `blob_cleanup` | 1 blob, 1 folder, 1 request and the trash job, both failing, the orphan job, fairness | `AbandonedUploadPurged`, `TrashExpires`: whatever fails on the way, the row of an upload nobody finishes is purged and what stays in the trash has its row deleted. `UploadReleased`: a multipart upload does not stay open, unless its row went through the trash. |
| `session_races` | 1 user, 2 browsers, 2 requests, 2 sessions, 3 pairs, handlers cut off with the token consumed and no new one stored | `OneSessionPerDevice`, `RotationNeverForks`, `DeadSessionStaysDead`. `HonestBrowserIsSafe`: the reuse detection ends no session of a browser that waited for its replies and got them, unless its login fell into a revocation of all other sessions. |
| `session_time` | access lifetime 2, refresh lifetime 1, clock up to 2, 2 requests, handlers cut off half-way, fairness | `BlockOutlivesTokens`, `ReuseEndsSession`. `SpentSessionEnds`: a session without a usable token does not stay active. |
| `folder_serial` | 3 folders, 2 names, 2 users with one request each, the job, fairness | `OwnTree`, `ForestOnePerUser`, `LiveUnderLive`, `PurgeNeverBlocked`, `TrashedFolderLeaves`. `TrashIsListed`: what is in the trash can be reached from its page. `RestoreIsWhole`: a restore brings a folder back with all that is in it, or not at all. |
| `credential_races` | 2 handshakes, 2 reset links, 2 sessions, 3 requests, faults | `HandshakeOpensOnce`, `ResetAppliedOnce`, `ReplyUnlocks`. `NewLinkEndsOlder`: a link that was sent ends those that were there when it was asked for. |
| `sharing_races` | 1 file, 3 accounts (one without a key), 2 shares, 2 requests, fairness | `SharesMatchBlobs`, `OneActiveShare`, `ObstacleIsListed`, `AccessEnds`. |
| `storage_api` | 1 file at the root or in 1 folder, 1 share, one request of the owner and one of the recipient, 2 events, queue of 1, faults, fairness | `TrailInOrder`, `NothingLostSilently`, `EventSettled`. `AcknowledgedIsReported`: when a request is confirmed, everything it showed, hid or moved to another page has an event. `TrailTellsState`: the last row that tells of a thing, its own or of the folder it went with, tells where it stands. |
| `rate_limit` | 2 keys, limit 2, window 3, one error of Redis, fairness | `BelowTwiceLimit`, `LockoutEnds`. `RefusedWhenBusy`: every refusal, the first of a window or a later one, follows as many counted requests as the limit within one window. |
| `blob_hard_delete` | 1 blob, 1 request | violated: `HardDeleteDeletesRecord` |
| `folder_cycle` | 3 folders, 2 requests of one user | violated: `Forest` |

Each takes between a second and about three minutes.

`blob_races` and `session_races` also check `TypeOK`. The other modules state their
types in the same way (`TypeOK`, `ApiTypeOK`, `BrowserTypeOK`): they hold in the runs
of their modules when added to the `INVARIANTS`, are left out there because the
other properties already fail on an ill-typed row, and are proved for all modules
(`BrowserTypeOK` by `BrowserTypes`).

Why the bounds are enough to be interesting. The races are between pairs: two
handlers on one blob, one token, one link, one folder; a third actor comes from
the jobs, which run beside the requests, and from the single-statement
operations, which need no request of their own and may happen between any two
steps. Ids are never reused, so a
second blob, session or share shows what is left behind by the first. Three
folders are needed for a chain (a folder, a child, a new parent), three token
pairs for a rotation next to a fork, two names for a name that is taken and one that is
free. With two events and a queue of one, the second event finds the queue full
unless the worker was there first; emptying the trash of a file and a folder
reports both. The trail of `storage_api` is read from any of the states in `MCStart`
on, so that two events are enough for each kind of change. A limit of
two in a window of three ticks lets a client fill the end of one window and the start of the next. Sizes and quota are chosen so that one upload
fits, two do not, and one size is above the maximum; three uploads come to 6, above the bound of 5, so that
the check of the quota is needed to stay below it. `OneAgeing` cuts what comes
in `blob_quota` after a second blob ages or is trashed, or one does both. `NotBoth` cuts what comes in `session_races`
after a browser was not honest, time passed and the third pair was issued; an honest browser is followed to the end. Folders do not
change the quota, so that run has none; `PurgeCompletes` covers the folder deletions. Bounds that
the code does not have: `Blobs`, `FolderIds`, `SessionIds`, `Tokens`,
`Handshakes`, `ShareIds`, `MaxEvents`, `MaxErrors` and `MaxTime` limit how often something is
created or how far the clock goes; a handler that runs out of ids waits. In
`session_time` the clock ends at 2, so the run sees an entry and its tokens
expire together but not a second round; the theorem `BlockIsFinal` covers any clock.

`ForestOnePerUser`, `LiveUnderLive`, `PurgeNeverBlocked` and
`TrashedFolderLeaves` are checked with `OneEach` for `Client`: each user has at most one
folder request in flight, while different users and the hourly job interleave
freely. That is what a single browser tab does; the code does not enforce it,
and section 4 shows what overlapping requests of one user do.

Fairness. Each liveness property uses weak fairness of what the
program is bound to do: a goroutine that can run is scheduled, and
every handler ends (`Continue`); `runCleanupJob` loops until shutdown, so a job
that stays enabled runs; time passes (`Age*`, `ExpireUrl`). In `BlobLifecycle` the steps that may wait
for a row lock have strong fairness: Postgres queues the transactions that wait for a row, so one
that can go on again and again does go on, and the job comes back each hour. In `FolderTree` and
`Sharing`, where handlers may fail, fairness is of "the next step or the
failure": the handler ends, not that it succeeds. Nothing assumes that a client
does anything, that a request succeeds, or that a process stops. In
`AuditTrail` a process that has begun to stop exits (`Shutdown` has a timeout)
and is started again (`restart: unless-stopped`). In `StorageApi` a handler that
has begun ends, by answering or by failing. In `RateLimiter` time passes and a
client keeps trying, and the errors of Redis end; without the first two nothing is asked of the limiter. In `blob_cleanup`
the orphan job does not fail: a failed abort after it deleted the row leaves the upload open. (A
request that dies between opening an upload and registering it does so too; `UploadReleased` is
about uploads that have a row.) In `Sessions`
`FailAt` says where a handler may be cut off: in `session_races` with its token consumed and no new one stored; in
`session_time` with its token consumed and no new one stored, and with its session revoked
and not blocked, but not before it revokes, which would leave a reused token's
session active.

## 4. Where the code differs from what it says

Two disagreements are runs of their own (`findings`):

* **`blob_hard_delete`** - `HardDeleteBlob` looks at the trashed row, removes
  the object, then deletes the row if it is still in the trash. A `RestoreBlob`
  in between leaves a listed file without object. `service.go:181`: "MinIO
  object is gone — now delete the DB record."
* **`folder_cycle`** - `MoveFolder` checks `IsDescendantOf` and writes in
  separate statements. Two opposite moves both pass and form a cycle.
  `folders.go:148`: "Used to prevent cycles when moving a folder into one of its
  own descendants."

The modules state further ones, under "What the code does not keep". To see the
counterexample, take the configuration named, replace its properties by the one
in the first column and change the constants named:

| Property | Configuration | What happens; what the code says |
|---|---|---|
| `AbandonedUploadLeavesNothing` | `BlobHardDelete.cfg`, `Failing = {r1}` | An upload completed at MinIO and not confirmed is purged row first, and only its multipart upload is aborted: the object stays. `storage/service.go:500`: "Clean up MinIO before removing the DB record. On failure we keep the record so CleanOrphanedBlobs can retry on the next scheduled run." |
| `UsedWithinQuota` | `BlobQuota.cfg` | The sum is read before other uploads register. `src/README.md:47`: "Storage limit per user in bytes". |
| `ConfirmedSizeIsDeclared` (PROPERTY) | `BlobHardDelete.cfg`, `Sizes = {1, 2}` | The size from `StatObject` is stored, not compared. `minio/store.go:87`: "Used in ConfirmUpload to verify the real file size against the declared value." |
| `ExpiredTokenIsNotReuse` (PROPERTY) | `SessionTime.cfg` | `FindRevokedSession` does not look at `expires_at`. `auth/service.go:271`: "token never existed or expired — not a reuse, just invalid". |
| `ReuseInvalidatesAccess` (PROPERTY) | `SessionTime.cfg` | When the session is already revoked nothing is put on the blocklist. `auth/service.go:258`: "The device session and any access tokens it issued are invalidated immediately." |
| `BlockedSessionStaysOut` | `SessionTime.cfg` | A refresh in flight issues an access token after the session was blocked; it outlives the entry. `session_blocklist.go:13`: "TTL equal to the access token lifetime. Once the token would expire naturally the Redis entry is also gone". |
| `OneActiveResetToken` | `CredentialRaces.cfg`, `Faults = FALSE` | Two requests both invalidate before either inserts. `auth/service.go:373`: "Invalidate any previous active tokens before issuing a new one." |
| `ResetEndsOldSessions` | the same, with `CHECK_DEADLOCK FALSE` (the ids run out) | A handshake begun before a reset is finalized after it. `auth/service.go:443`: "Revoke all active sessions — attacker with a stolen session loses access immediately." |
| `Forest` | `FolderCycle.cfg`, `Reqs = {r1}`, `DepthLimit = 1` | A descendant below the depth limit is accepted as the new parent, with no concurrency. |
| `TrashedFolderLeaves` (PROPERTY) | `FolderSerial.cfg`, `Users = {u1}`, `Client <- OneForAll`, `FolderIds = {f1, f2}` | A folder created in a folder that is trashed meanwhile stays live below it, and the foreign key makes the purge of all users fail each time. `.env.example:28` says when the trash is deleted for ever. |
| `SubtreeRestorable` | `FolderSerial.cfg` | A folder is trashed, another of its name created beside it and trashed with their parent: the parent can never be restored, because both would be live. `folders.go:210`: "restores a trashed folder and its entire subtree". |
| `ShutdownDrains` | `StorageApi.cfg`, `Faults = FALSE` | The deferred calls of `Run` close the pool before they cancel the worker, and nothing waits for it. `audit/service.go:39`: "The worker stops when ctx is cancelled and drains any queued events before returning." |

Some behaviour that is no contradiction of a comment, but that a reader of the properties should
know, because they are stated around it:

* `HardDeleteFolder` checks once that the folder is in the trash (`folders.go:296`) and
  deletes its blobs by `folder_id` alone (`folders.go:324`). When a `RestoreFolder` commits in
  between, the listed files of a live folder are deleted with it. `KeepsPromise` allows this and no more: the
  folder is doomed, because its deletion was asked for while it was in the trash (`BeingDeleted`).
* A folder that is put into the trash between the two deletions of `EmptyTrashedFolders` is
  deleted without its files. They lose their `folder_id` and stay in the trash by
  themselves.
* A deletion for good removes objects and aborts no multipart upload: one that was put into the
  trash as a draft stays open in MinIO. `UploadReleased` exempts it (`GivenUp`).
* A key is lost when its `RemoveObject` fails or its handler dies after the rows were deleted. `TrashExpires` is about the
  row, `PurgedObjectIsOwed` about the interleavings without failures.
* A login that opens its session between the two statements of `RevokeOtherSessions`
  (`device_sessions.go:130` and `157`) and stores its refresh token before the second keeps its session and loses the token; its next
  refresh is taken for a reuse and ends the session. `HonestBrowserIsSafe` without the
  conjunct `~LoginAmidRevocation(p)` of `Go` shows the trace.
* The start and the abort of an upload have no event. Aborting a draft that was shared removes its
  shares without one. A file that `EmptyTrash` deletes with its folder in the second
  transaction has the event of the folder only.
* When `EmptyTrash` fails after its first transaction, the files that this one deleted get no
  event: the handler answers with an error. A hard delete that finds the file restored
  meanwhile reports it as deleted all the same; that takes two requests of the owner in flight, which
  `TrailTellsState` excludes.

## 5. Proofs

The theorems hold for all values of the constants that satisfy the named
assumptions of the component's module: ids distinct from `None`, the job
processes distinct from the requests, natural numbers for sizes, quota, lifetimes
(positive), the depth limit and the queue, Boolean modes, any set of points of
failure for `Sessions`, any set of failing processes for `BlobLifecycle`. No set need be finite, except the files, folders and owner's requests
of `StorageApi` (emptying the trash reports one event for each thing in it) and, in
`QuotaHolds`, the requests (their number is in the bound).
`TypeOK` (`ApiTypeOK`), the safety properties and the action properties are the
definitions that the runs check. Each module proves its type invariant (`TypeCorrect`,
`ApiTypeCorrect`); the other theorems, with the invariants that make them inductive:

**BlobLifecycleProofs**

* `TypeCorrect`: `TypeOK` is made inductive by `LocalsOK` (a handler that works on a blob
  has one).
* `ServedBlobsAreStored`, `HardDeleteOrder`, `PurgeCompletes`: none of the three
  properties is inductive. `IdsInv` says that ids are handed out once, that a
  blob whose upload is not registered yet is known to its own handler only, and
  that keys collected for removal have no row any more and never get one again
  (the statement that deletes the rows returns the keys), so `RemoveKey` never
  takes a listed file's object; the rows an open transaction has written are known ids. `SafeInv` adds
  * `SpentOK`: a confirmed upload, or one MinIO has completed, is not open, so it
    cannot be completed or aborted again;
  * `HardOK`: a blob in a hard delete is in the trash or its row is gone, or it
    was restored;
  * `ConfirmOK`: what a handler found with `StatObject` is still there while the
    row is pending;
  * `OrphanOK`: the orphan job holds only blobs that were never confirmed.

  From these, each action that removes an object or deletes a row is shown
  harmless. `PurgeCompletes` has `Failing = {}` as a hypothesis: with failures the
  code does lose keys.

* `PromiseKept`: `Spec => KeepsPromise`, the refinement of `FileStatus`. Each
  action is shown to be a step of the promise (lemmas `*Maps`) or to change nothing the owner sees. Besides
  `IdsInv` this takes `FilesInv` (the folder of a row exists, and a file is not in
  the trash before it is registered) and `LockInv`: the rows that an open transaction has
  written stay as they were when it wrote them until it commits, and no two transactions have written
  one row. So a commit, which comes steps after the statement, moves exactly the files
  it selected, from the states in which it found them. That a deletion takes listed files only
  with a folder in the bin or doomed is `DoomedFacts` and `DropStep`; that only a folder in the bin is
  doomed is `DoomStep`.
* `QuotaHolds`: `QuotaOvershootBounded`, when the requests are a finite set that is not empty. With
  `MaxUploadBytes = 0` the code has no limit for one upload, and what a client uploads is not compared with
  what it declared (section 4); so the property asks for a maximum, and a row counts for
  its size or the declared one, whichever is smaller (`AsDeclared`). `SizesInv` says
  that an upload not registered yet belongs to a request and has at most `MaxUploadBytes`,
  that a row has the declared size until it is confirmed, and that
  the rows are finitely many. The check of the quota admits an upload next to the rows and at most
  one upload for each other request (`AdmitSums`; the sum it reads is no smaller than the declared one,
  `SumBelow`); registering moves a size from the
  request to the row (`RegisterSums`); confirming does not raise what the row counts for (`ConfirmSums`); every other step
  leaves both sums or makes them smaller (`QuietSums`).

**FolderTreeProofs**

* `TreesStayApart` holds however the requests of a user overlap: `TreeInv` (ids are
  not reused, owners do not change) and `RequestInv` (what a handler has read names
  folders of its user, as far as they still exist).
* `LiveFoldersAreListed`, `PurgeStaysEnabled` and `RestoresAreWhole` are about users
  who wait for each answer (`OnePerUser`). `LiveInv` says that no live folder is under
  a trashed one and no fresh one under an expired one; `SoloInv`, that what a
  request has read still holds when it writes. Other users and the hourly job keep
  it (`SameTree`: they change nothing in the user's tree but expired trash), and that is
  the argument: the stale reads of section 4 need two requests of one user.
* `MovesKeepForest` and `TrashStaysListed` have the hypothesis `[]Shallow`, that the
  depth-limited `IsDescendantOf` sees whole subtrees. It is needed: with
  `DepthLimit = 1` TLC finds a cycle (section 4), and in the code the limit is
  100. `MoveInv` says that a folder about to be moved has the new parent not below
  it; `ForestGraft`, that such a move makes no cycle.
* `FewFoldersKeepForest` gives a condition on what users have: while no user has
  more live folders than `DepthLimit`, `Shallow` holds. A folder that can be reached
  is reached in fewer steps than there are folders, by induction over the levels.

**SessionsProofs**

* `TypeCorrect`: with `LocalsOK` and `RowsOK` (only existing sessions are
  revoked, only issued tokens are stored).
* `OneSession`: the upsert of `CreateDeviceSession` keeps `OneSessionPerDevice`,
  and no other step activates a session.
* `RotationIsLinear`: `RotationInv` says that a token with a successor is
  revoked, that a token being exchanged is revoked and has none yet, and
  that no two requests exchange the same token. The single `UPDATE` of
  `ConsumeRefreshSession` keeps it.
* `BlockIsFinal`: `BlockInv` bounds every access token by `now + AccessTTL`, and
  the tokens covered by an entry by the entry's expiry.
* `DeadStaysDead`: the action property, from `TypeInv`.
* `BrowserTypes`, `BrowsersImplementSessions`: the cookies have their types, nobody waits
  for a request that is over, and `BrowserSpec => Spec`; so the results above hold
  behind the browsers.
* `HonestBrowser`: `HonestBrowserIsSafe`. `DeviceInv` says that a cookie holds a token of
  a session of its own device, and that a handler which logs in, issues, hands out or
  examines a token does so for a session of the browser that waits for it. `HonestInv`,
  while `honest`: a browser waits for one request at most; a token that a request hands out or
  examines, or that is in the cookie of a browser that waits for nothing, is `Harmless`
  (if it was revoked, so was its session); and where a reuse was found the session
  is revoked. `SweptInv`, while `honest`: a revocation of all other sessions between its statements knows every
  session whose tokens it will end. The argument is in `Moves`: a step that revokes a token and not its session
  (a refresh, the first step of a logout, the take-over by a login) does so for the browser that waits for
  it, and that browser waits for nothing else, so no other request carries the
  token and no cookie at rest holds it.

**CredentialsProofs**

* `OneSessionPerHandshake`, `OneChangePerLink`: `HandshakeInv` and `ResetInv` say that
  whoever holds a handshake or link after `GETDEL` or the conditional `UPDATE`
  is alone with it, and that it has done nothing yet.
* `RepliesUnlock`: `KeyInv` says that verifier and wrapped key are made from one
  password in the row and in every copy of it: in Redis and in the locals.
* `NewLinkEndsOlderLinks`: `LinkInv` says that the links a request found are used
  once it has invalidated, and stay so until it inserts.

**SharingProofs**

* `SharesBelongToOwners`, `NoDoubleShare`, `ObstaclesAreListed`: with `LocalsInv`, what a
  handler has read agrees with columns that never change, although the rows may be gone.
* `EndIsFinal`: the safety half of `AccessEnds`. Once a share is over, with no URL
  and no request left that read it before, its recipient gets no URL any more.

**StorageApiProofs** (with the proofs about `AuditTrail`)

* `TrailReadsInOrder`: `OrderInv` says that table, worker and queue, one after the
  other, are in the order of the events, and that the copies of the event in hand
  are as many as its failed attempts at most.
* `LossIsReported`: `LossInv` adds that what a process which is over had not recorded
  is counted as gone with it.
* `TrailIsKept`: the handlers and jobs of `StorageApi` take only steps of `AuditTrail`
  or none, so both hold for what they report.
* `AnswersAreReported`: `ReportInv` says that what a request claimed is reported or still
  on its list, that the list is empty when it answers, and that for each thing it showed,
  hid or moved to another page it has made a claim on that thing, its folder or its file. The lemmas `*Works` show it
  of each use case, with what it takes along (`Covers`).
* `TrailTellsWhereThingsStand`, for an owner who waits for each answer. `StoryInv` says that the
  last claim that tells of a thing tells where it stands or the thing is gone, and that a file about to be
  deleted for good stays in the trash until then; `GuestInv`, that claims of recipients
  tell of no state; `QueueInv`, that the claims that do are
  reported in the order in which they were made. Each use case tells rightly of all it
  moves (`ToldRight`). With the order of the rows, the
  last row is the last claim. Without the hypothesis it is false: two overlapping
  requests may report in the wrong order.

**RateLimiterProofs**

* `RateBounded`: `BelowTwiceLimit`. `WindowInv` relates, for each key, the histories of the
  last `Window` ticks to the counter: without a counter fewer than `Limit` requests passed in
  the last window (`ClosedInv`); with one, fewer than `Limit` passed before it was opened and,
  since then, at most the counter and at most `Limit`, one of them, the opener, at the very start
  (`OpenInv`); and the counter, up to `Limit`, is at most what was counted since (`CountInv`).
  When a window ends its opener leaves the span, which is why the bound is strict.
* `RefusalsAreEarned`: `RefusedWhenBusy`, from `WindowInv`: a refusal means a counter at `Limit` or
  above before it, and that many were counted since the window was opened.

**SumLemmas**

What the sums of `BlobLifecycle` and `RateLimiter` (`FoldFunctionOnSet` of the community
modules) satisfy for every finite set: they are the values of a function that exists (`SumExists`, `SumIsFold`) and natural
numbers (`SumNat`), one element can be taken out or added (`SumRemove`, `SumAdd`), a function changed at
one place changes the sum by the difference (`SumChange`), and sums are additive, monotone and
bounded (`SumUnion`, `SumMonotone`, `SumBelow`, `SumBound`).

Two restrictions shape the proofs. The prover has no induction principle that takes
a predicate; where things are counted, induction goes through the least element of a
set of numbers (`LeastNumber`, `CountUp`): over the levels of a tree in
`FewFoldersKeepForest`, over the size of the set in `SumLemmas`, where the function
that the fold chooses is first shown to exist, one size at a time (`SumExists`). And recursive
queries are defined as smallest
closed sets, so that what they collect follows from any closed set (`SubtreeFacts`).

Only model-checked: liveness, since fairness and `ENABLED` are outside the
prover: `AbandonedUploadPurged`, `TrashExpires`, `UploadReleased`, `ReuseEndsSession`,
`SpentSessionEnds`, `TrashedFolderLeaves`, `AccessEnds`, `EventSettled`, `LockoutEnds`.

## 6. Faulty variants

Each property of a passing run has a variant of one definition that makes TLC
find it violated (`mutants`): a dropped `WHERE` condition, a wrong column, a call
forgotten, a TTL one too short, an error ignored, an upsert turned into an insert.

## 7. Not modelled

* Favourites: single statements whose rows go with the file or folder.
* Listings and search: reads. Their conditions are the state predicates of the models.
* SRP arithmetic, JWT signatures and file encryption: taken as unforgeable; the
  keys the server stores it does not read.
* Decoding, validation and status codes of the HTTP layer: a request that is
  refused changes nothing. Mail, configuration, logging: I/O and start-up.
* In `BlobLifecycle`, the nesting of folders (it is in `FolderTree`); in
  `FolderTree`, the files (they are in `BlobLifecycle`); in `StorageApi`, the nesting
  and what happens inside a use case.

## 8. Plan

Done, in this order: `BlobLifecycle` and its proofs, `Sessions` and its proofs,
`FolderTree`, `Credentials`, `Sharing`, `AuditTrail`; then `FileStatus` with the
refinement, `RateLimiter`, `StorageApi` over `AuditTrail`, the names of folders,
`BrowserSessions` over `Sessions`; then the proofs of the refinement, and about
`Credentials`, `Sharing`, `AuditTrail`, `FolderTree` and `StorageApi`; then the lemmas about
sums, the proofs about the quota, the rate limiter and the browsers.

Left: `Credentials` composed with `Sessions`, so that a reset meets refreshes in flight.
