# SkillHive in TLA+

SkillHive keeps "skills" (small packages of files) on a server and mirrors them
on desktops, where they are deployed into the directories that coding agents
read. This project models the parts of SkillHive whose correctness depends on
what happens *between* steps: the desktop's durable store and outbox, the sync
cycle against the server, the server's revisions, receipts and change feed, its
package storage and garbage collection, signing in and out, the desktop's local
content and its budget, leases and agent profiles, and the transactional
deployment of a skill into an agent's directory. TLC checks the models on small
instances; TLAPS proves their safety properties for every instance, some of them
under conditions that section 4 shows to be needed (section 5). `PROJECT.json`
maps each definition to the lines it models.

Paths below are relative to `src/`; `rs/` is `frontend/src-tauri/src/`, `py/`
is `backend/app/`.

## 1. The system

| Component | State | Operations | Hard because |
|---|---|---|---|
| LocalStore (`rs/local_store*`) | SQLite: `local_skills`, `local_mutations` (outbox), cursor | commit edit, queue delete, claim, release, recover, apply outcome, apply page, resolve conflict, hydrate, evict | two threads and several callers; rows carry a label that must agree with their outbox |
| SyncEngine, worker (`rs/sync*.rs`) | a claimed batch, a request, a page, all in memory | push then pull, page by page | lost answers, crashes, a worker that takes no lock against `sync_now` |
| Sync mutations (`py/services/sync_mutations.py`) | receipts by mutation id | create, update, delete | duplicated and late requests, optimistic concurrency |
| Skill mutations (`py/services/skill_mutations.py`, `skills.py`) | skills, revisions, versions, change log | create, update, delete, restore, purge, tags | every change must bump and emit in one transaction |
| Change feed (`py/services/sync_changes.py`, `sync_cursor.py`) | reads the log | list changes | projects today's state onto yesterday's events |
| Deployment, uninstall (`rs/deployment.rs`, `uninstall.rs`, `rs/lib.rs`) | staging, backup, quarantine directories; journals; catalog table | deploy, uninstall, startup recovery | crash between any two file system steps; two authorities (disk, SQLite) |
| Entitlements (`rs/local_store/entitlements.rs`, `py/services/entitlements.py`) | leases | issue, expire, revoke | one label, two causes; expiry against a deployment under way |
| Agent profiles (`rs/agent.rs`, `rs/local_store/deployments.rs`) | roots, enabled flags | save, discover | a root that moves under recorded deployments |
| Server scope and login (`rs/local_store/sync_state.rs`, `rs/sync_client.rs`, `rs/lib.rs`) | server address, account, device, keyring, a replaceable client | log in, log out, switch, restore, refresh | switches under a running cycle; two threads rotating one token |
| Cache, hydration, workspaces (`rs/cache_manager.rs`, `rs/hydrate.rs`, `rs/workspace.rs`, `rs/skill_snapshot.rs`) | blobs, managed directories, a budget | create, import, capture, commit, release, hydrate, evict, sweep | decisions on lists read before the worker went on; an editor that writes at any time |
| Retention (`py/services/sync_trim.py`, `trash_gc.py`) | change log, receipts, trash | trim, purge | cursors and retries older than the retention |
| Blobs (`py/services/blob_*.py`) | registry, files | negotiate, upload, mark, sweep | a blob negotiated as present and then swept |
| Groups, grants (`py/services/groups.py`, `group_skills.py`) | group tree, roles, grants | invite, move, transfer, grant | concurrent moves; feed visibility |
| Authentication, devices (`py/services/auth.py`, `login_guard.py`) | sessions, refresh tokens | log in, refresh, revoke | refresh races |

Interactions: commands of the desktop's user interface run behind the
`DesktopMutationCoordinator`, one at a time, `sync_now` among them. The
background worker runs the same cycle on its own store handle and takes no
coordinator lock; the two meet only in SQLite transactions. Desktop and server
meet in `POST /sync/mutations` and `GET /sync/changes`. The browser changes the
same skills over REST. A pulled tombstone deletes a skill row and, by foreign
keys, its mutations and its deployment rows, also while a deployment runs.

What makes each part correct, in short: the outbox is dispatched in order and
exactly once and is never lost; a label goes with the work it stands for; the
mirror follows the cursor and converges; no unseen head is overwritten; a
deployment is all or nothing and recovers from a crash at any point; a token goes
only to the server that issued it, and one account's work and cursor are not taken
for another's; content that anything points at is never discarded; what a lease no
longer covers is not deployed. The project's own statement of these is
`docs/architecture/desktop-enterprise-roadmap.md:11-20` and
`docs/architecture/m2-cloud-sync-plan.md`. `PROJECT.json` "hazards" lists where
each can go wrong.

## 2. Modules

`SyncTypes` holds the names both sides share.

**`LocalStore`** is the desktop's store. `row[k]` is a row of `local_skills`
(server id, revision, current and remote package hash, `sync_state`), `outbox[k]`
the mutations of skill `k` in `local_sequence` order, `cursor` the pull cursor.
Each method is one `BEGIN IMMEDIATE` transaction, so each is one action:
`CommitSkillEdit`, `QueueSkillDelete`, `ClaimDispatchable`, `ReleaseInFlight`,
`RecoverInFlight`, `ApplyAcked`, `ApplyConflict`, `ApplyPermissionDenied`,
`ApplyValidationError`, `ApplyTransportError`, `ApplyUpsert`, `ApplyTombstone`,
`ApplyEmptyPage`, `ResolveKeepLocal`, `ResolveKeepRemote`, `MarkSkillHydrated`,
`ClaimSkillForEviction`; `BackoffElapses` is the clock. Revision 0 is NULL;
`retry_later` is `retryable_error` that is not due. `StoreSpec` leaves the
callers open: any arguments of the right shape, in any order. It is the
abstract specification of the store's promises.

**`SyncServer`** is the server for one account's private skills: `skill`,
`receipt`, `log`. `SubmitMutation` is a whole request (schema validation,
receipt lookup, the three handlers, receipt insert) in its transaction;
`ListChanges` is a page of the feed; the `Rest...` actions are the browser.

**`DesktopSync`** composes them. `thread[t]` is where the worker and `sync_now`
("ui") are in `run_cycle`: claim, per mutation upload, submit, answer, outcome;
release of the tail after a failure; then pages until the feed says there are no
more. A request whose sender gave up goes to `late` and may be handled later;
`Restart` loses all memory and runs `recover_in_flight_mutations`. `UserCommand`
waits while "ui" cycles. `applied` and `seen` are history variables.

**`Deployment`** is one directory of one agent's skill root with the staging,
backup and quarantine directories of each transaction, the journals and the
catalog. An engine call is a list of steps, each an atomic file system or
database operation (`DeploySteps`, `RecoverySteps` and so on list them; the step
actions are `Persist`, `Forget`, `Stage`, `SetAside`, `Swap`, `Verify`,
`Recheck`, `Drop`, `Restore`, `RecordDeployment`, `Acknowledge`, `Uncatalog`,
`ReportCommit`). A crash may fall between any two, and within a removal or a
materialization (`Torn`, which leaves `Mixed`). Startup runs the passes recover,
replay, find, settle, each over the journals in an arbitrary order. Ids of
finished transactions are used again, so the number of deployments is
unbounded.

**`PackageStore`** is the server's content-addressed storage. `bytes` is what the
storage holds, `registry` the age of each object's row, `versions`, `trash` and
`history` are the rows that refer to packages (`history`: change rows and
receipts within retention), `writer` is where each push or REST write is, `gc`
where the maintenance pass is. A push is `Negotiate`, then `StoreBlob` and
`RegisterBlob` per missing object, then `VerifyClosure` or `RefuseClosure`, then
`CommitVersion`; a REST write is `Synthesize`, `AddBlob` for the file and then for
the manifest, `CommitVersion`. A device uploads in the order of the hashes, as
`snapshot_closure` sorts them. `AddBlob` stores the bytes and looks for the row in
one step: between the two only a sweep that holds the object could take the row
away, and the request is then `exposed` (with two steps the safety results are the
same, 2,390,959 states). A pass is
`MarkVersions`, `MarkHistory` (with the closures and the candidate query),
`DeleteBytes` per object, `CommitSweep`; `PassFails` keeps the rows and loses the
bytes. `exposed` and `raced` are history variables: a sweep holds or has taken
an object of the request's package; such a package was committed. The query for
current packages is not a step of its own, since versions and change rows cover
it. A file whose contents are themselves a manifest is left out.

**`Session`** is signing in and out. `scope` is the row of `local_sync_state`,
`keyring` the refresh tokens (one namespace per server), `live` the tokens the
servers still accept, `client` and `handle` the `SyncClient` objects with their
kill switch, `thr` where the worker and the main thread are. A request is
`CheckSwitch`, `ReadSecret`, `Refresh`, `StoreRotated`, `Serve`; a cycle adds
`BindDevice`, `RecordDevice`, `Claim`, `Dispatch`, `ReadDevice`, `Acknowledge`,
`ApplyPage`; login is `Suspend`, `Authenticate`, `Enroll`, `RecordLogin`,
`ReplaceHandle`; logout is `CutOff`, `Revoke`, `ClearCredentials`. Users, device
ids, cursors, rows and mutations are named by the account they belong to.
History variables: `released` (a logout, or an address entered over a scope that
was still pending, detached the rows from their account), `torn` (a command
changed the session during a cycle), `late`, `out`, `raced`.

**`SkillCache`** is the desktop's content: blobs, workspaces, and the commands
create, import a zip, commit, release, hydrate, deploy, uninstall, resolve and
set the cache budget, against the worker's pushes and pulls, an editor, failed
downloads and crashes. A snapshot is named by its tree; its closure is the
manifest and the file blobs. Enforcement is `ListCacheSkills`,
`CountReferences`, `ScanInventory`, then `EvictCandidate`, `RemoveBlobFile` and
`SweepOrphan` as long as the budget is exceeded. `hollow` and `bare` are history
variables: rows that became local without their files, and mutations queued
from such rows (section 4).

**`ContentPool`** is the abstract specification of the blob store: content can
be added at any time, what is pinned is never discarded, and nothing comes to
pin content that is not there. `SkillCache` implements it with
`held <- blobs` and `pinned <-` the closures of local rows, deployments and
queued payloads (`PoolSpec`).

**`Catalog`** is access and deployment in SQLite: row states, leases, profiles,
catalog rows. The worker's transactions (`PullUpsert`, `PullTombstone`,
`Outcome`, `EndCycle` with the expiry of due leases) fall between the steps of a
deployment to several agents (`BeginDeploy`, then per target `CheckTarget` and
`RecordDeployment`). `SaveAgentProfile` and `DiscoverAgents` change roots;
`Restart` may come back with another home directory. `swept` and `crossed` are
history variables: skills that expiry revoked; ... while the deployment of a
target was between its checks and its record.

The `MC...` modules add the symmetry and slug assignments that the
configurations use.

Abstractions worth knowing: a page holds one change (the server chooses page
sizes; a smaller page has more commit points); package contents are hashes;
names, tags and manifests are left out; slugs are given per skill by `SlugOf`;
an update's base is the revision its row had when the edit was made. Two
commands are modelled although today's user interface does not call them:
`commit_local_skill_workspace` on existing skills and `queue_skill_delete`
(only its tests do). In `SkillCache` every blob counts one unit of the budget;
a capture of a directory that the editor changes meanwhile takes either version
as a whole (a mixture of both is possible in the code, `rs/skill_snapshot.rs:231`);
deletion of a skill is left to `LocalStore`; the evictability of a row looks at
the directory where the code looks at the recorded `workspace_path`. In
`Catalog` a chain is its first unacked mutation, and timestamps are natural
numbers (the code compares RFC 3339 strings of one form, which order alike).

## 3. Runs

Passing:

| Run | Distinct states | Shows |
|---|---|---|
| `mirror` | 112,832 | Pulling while the browser writes: `MirrorCoversCursor`, `TombstonesClear`, `Converged` |
| `exchange` | 851,237 | Edits, deletes and both resolutions against a browser that uses the same slug, with up to two timeouts, refused sessions or crashes (server ids are interchangeable; failed uploads and pulls are in `mirror`): the store's `StoreTypeOK`, `ChainOrder`, `NoStaleWedge`, `OneRowPerRemote`, `UnackedWorkSurvives`, and `ExactlyOnce`, `AckedIsReceipted`, `NeverOverwritesUnseen` |
| `threads` | 86,575 | Worker and `sync_now` at once: `ClaimExclusive`, `StoreSpec` as a refinement, and the liveness properties `EventuallySettles`, `FeedDrains` |
| `deploy` | 1,166,546 | Deployments, uninstalls and recovery with up to three faults of any kind: `SetAsideIsJournaled`, `RemovalNeedsCatalog`; after crashes alone `RecoveredClean`; after crashes and tombstones `CatalogHonest` |
| `packages` | 1,162,670 | Pushes, REST writes, deletions and purges against the sweep, one pass of which may fail: `CompleteUnlessRaced`, `UploadsSuffice`, `FreshIsKept`, and the liveness property `GarbageCollected` |
| `session` | 3,893,067 | Three commands out of login, logout, switch, restore, sync and edit, two accounts on one server and a second address to switch to, one lost request, lost answer or crash: `TokensStayHome`, `StoredIsLive`, `LateIsBounded`, `LogoutHoldsUnlessRaced`, `WorkIsOwn`, and the action property `CursorIsOwn` |
| `cache` | 1,032,925 | Three commands on two skills whose packages share a file, a worker, one write of an editor, one failed download or crash: `PoolSpec` as a refinement, `RemoteOnlyIsOnServer`, `SyncedIsExact` |
| `catalog` | 550,176 | A skill, a built-in and a custom profile, two homes, a lease that ends: `RowsUnderRoot`, `RevokedStaysUndeployed`, and the liveness property `ExpiredIsRevoked` |

Bounds. Chains of two mutations are what order, supersession and "an earlier one
is unacked" need; one skill of each origin (own, server's) covers the two ways a
row is keyed, and skills interact only through slugs and server ids, which
`exchange` (two server skills, one slug) exercises.
Four browser writes allow create, update, delete and restore in one behaviour.
Two transaction ids let a leftover journal meet a newer deployment; three give
the same results (7,168,069 states, three minutes). Two packages of `packages`
share a file, one pushed and one synthesized: sharing is what lets one writer's
garbage be another's content, and nothing bounds the number of pushes, passes or
purges. Letting both writers use both packages gives the same safety results
(9,202,001 states). Three commands of `session` are log in, log out or switch,
and log in again as somebody else; two accounts on one server are what a new login
there can confuse, and a second address is where a switch can go. Three commands of `cache` are two commits (the second reuses
blobs of the first) and the enforcement that evicts, or a commit, a hydration
and a resolution; the budget of two blobs is below two packages, so that
enforcement has to choose; a third revision from elsewhere gives the same
results (4,057,962 states). Nothing bounds the cycles, deployments and restarts
of `catalog`; its skills do not interact, and its clock stops at 2, after a
lease has been current, due and renewed. `MaxRev` and `MaxSeq` bound only the
open environment of `StoreSpec`; where it is a property they are above anything
the composition reaches.

Each run enables the faults and commands its question is about. What a run leaves
out is either covered by another or known to break the property, and then said
here: section 4 lists every such case. Some hazards name a property whose run
leaves out the very case in which the hazard bites (it would break the property);
their `note` in `PROJECT.json` says so. The history variable `hit` of `Deployment`
plays the same part inside the `deploy` run.

Violation runs, each with a "findings" entry that quotes what the repository
says:

| Run | What the code does |
|---|---|
| `offline_chain` | An edit queued before its create is acked has no base revision; the server's 422 makes it a permanent error. |
| `stale_journal` | A failed deployment's journal makes a later startup undo a newer, recorded deployment. |
| `logout_undone` | A refresh under way while the user logs out stores the rotated token after the logout has cleared the keyring, and the cycle completes the scope again. |
| `hydration_drops_edits` | A pull takes a row whose directory has uncommitted edits to `remote_only`; hydration replaces the directory. |

Fairness (`FairSpec` of `DesktopSync`, used by `threads`): weak
fairness of each thread's push and pull steps (every HTTP call has a timeout and
nothing blocks in between), of the worker's `StartCycle` (it wakes
periodically), and of the clock that ends a backoff. Nothing is assumed of the
user, the browser, late deliveries or failures; failures are finite
(`MaxFailures`), which is the roadmap's "when valid authentication,
authorization, and network connectivity are available".

`FairSpec` of `PackageStore`: weak fairness of the maintenance worker (it loops
for ever and survives a failed pass; one worker is modelled, of one server
process: `py/main.py:30` starts one in each) and of every row's aging; failed passes are
finite, nothing is assumed of the writers. Rows may age at any moment, which is
more than real time allows (a request does not last a day).

`Spec` of `Catalog`: weak fairness of `BeginCycle` (the worker's heartbeat) and
strong fairness of `EndCycle`: cycles may fail, but not all of them from some
point on. The latter is an assumption on the network, without which the code
does not promise expiry before the next start of the process.

Deadlock is checked except in `session`, `cache` and the two violation runs of
their modules: there commands are bounded, and a desktop at rest without a
complete scope, or with nothing to pull, may stop.

## 4. Where the passing runs stop

These behaviours of the code break a property; the passing runs leave out the
command or the fault they need. Each shows up when the named constant is
changed.

| Property | Broken by | Change |
|---|---|---|
| `EventuallySettles` | create answered, answer lost, skill pulled under the server's id in the same cycle: every replayed ack violates UNIQUE(`remote_id`) (`rs/local_store/outcomes.rs:222`) | `threads`: `LocalIds = {k1}` |
| `EventuallySettles` | 401/403 in mid-dispatch leaves the mutation `in_flight` until the process restarts (`rs/sync.rs:394`) | `threads`: add `"session"` to `Faults` |
| `EventuallySettles` | a create with the slug of a trashed skill is a 500, retried forever (`py/services/sync_mutations.py:218` ignores the trash, the unique constraint does not) | `threads`: `LocalIds = {k1}`, `SlugOf <- SameSlug`, `Faults = {}`, `Threads = {"worker"}`, `RestOps = {"create", "delete"}` |
| `TombstonesClear` | a page fetched by one thread is applied after the other passed a deletion: the skill is back (`rs/local_store/pull_apply.rs:82`) | `mirror`: `Threads = {"worker", "ui"}` |
| `TombstonesClear`, `Converged` | the ack of a delete gives the row the tombstone's revision, so the pulled tombstone is stale and the row stays (`rs/local_store/pull_apply.rs:246`) | `mirror`: add `"delete"` to `UserOps` |
| `TombstonesClear` | a purge hides the deletion from desktops that have not pulled it (`py/services/sync_changes.py:228`) | `mirror`: add `"purge"` to `RestOps` |
| `TombstonesClear`, `Converged` | keep-remote on a row with a conflict whose deletion the cursor has passed retires the conflict and leaves the row as it is, and no later page will remove it (`rs/local_store/conflicts.rs:305`) | `mirror`: add `"keep_remote"` to `UserOps`, `MaxMutations = 3` |
| `MirrorCoversCursor` | a replayed ack, or the late one of a second thread or of a process that crashed, states a revision that the cursor has passed and takes the row back to it (`rs/local_store/outcomes.rs:217`) | `mirror`: `Threads = {"worker", "ui"}`, or add `"timeout"` to `Faults`, or add `"crash"` with `MaxFailures = 2` |
| `Converged` | a replayed ack takes the row back behind a change that the cursor has passed (`rs/local_store/outcomes.rs:217`) | `mirror`: add `"timeout"` to `Faults` |
| `DeployTransactional` | a crash of the recovery between discarding a staging directory and removing its journal leaves a journal that later matches, and removes, a newer deployment (`rs/deployment.rs:436`) | `stale_journal`: `Faults = {"crash", "recovery_crash"}`, `MaxFaults = 3` |
| `CatalogHonest` | two skills with one slug share a directory: the second deployment replaces the first, whose row still says installed (`rs/lib.rs:584`) | `deploy`: `Skills = {k1, k2}` |
| `GarbageCollected` | the batch limit is applied before the marks, so marked rows with low hashes fill every batch (`py/services/blob_gc.py:102`; the module says "repeated runs converge") | `packages`: `BatchSize = 1` |

Other properties carry an exception that a history variable marks. What lies
behind each:

- `CompleteUnlessRaced` (`raced`): a push verifies and commits a package of old,
  so far unreferenced objects after a pass has marked; the pass deletes them
  (`py/services/blob_gc.py:108`; `docs/development/GC_DESIGN.md:104` calls the
  sweep never destructive as long as its roots are a consistent snapshot and the
  grace is honoured, which they are here).
- `LogoutHoldsUnlessRaced` (`raced`): the case of `logout_undone`.
- `CursorIsOwn` (`torn`): a login stores B's token and the worker's late store of
  A's rotated token overwrites it, or a page fetched before a switch is applied
  after it.
- `WorkIsOwn` (`released`): after a logout, or when an address is entered over a
  pending scope, the next account to sign in takes over the rows and the queued
  work of the last one, and the server accepts them, because the device id is read
  from the new account's scope. `rs/local_store/sync_state.rs:86-90` says
  otherwise: "if a different server or account is requested while any local state
  exists, the login is rejected instead of allowing old outbox rows/cursors to
  cross the trust boundary". `prepare_login_scope` refuses only another address, and
  `record_authenticated_device` compares the user only as long as the scope has
  one, which a logout takes away. What was queued under no account at all goes to
  the first that signs in, as intended. Tokens of other servers stay in the
  keyring.
  The server's device check (`py/services/sync_mutations.py:49`) stops only a push
  that has read its device before the account changed: 404 `DEVICE_NOT_FOUND`,
  which `classify_status` makes a `Request` error (`rs/sync_client.rs:577`) and
  `dispatch_mutation` records as a `permanent_error` (`rs/sync.rs:402`; the comment
  at line 389 says that device failures must not touch mutation state). Only a
  refused session (401, 403) leaves the mutation `in_flight`, until the next start.
- `PoolSpec`, `SyncedIsExact` (`hollow`, `bare`): an upsert with the hash that a
  `remote_only` row already has takes it to `synced` without files
  (`rs/local_store/pull_apply.rs:168`), and so does the ack of a mutation that
  survived a keep-remote; a keep-local then queues a payload without content.
  `hydrate_skill` returns early for such a row, so a deployment of it fails until
  the next change.
- `RevokedStaysUndeployed` (`crossed`): a deployment that passed its checks
  before the lease was swept is recorded as installed on a revoked skill.

Besides:

- `resolve_keep_remote` retires only the mutations in state `conflict`
  (`rs/local_store/conflicts.rs:305`), while its comment says that it drops the
  pending chain: edits queued behind a conflict are sent afterwards.
- A pull protects local rows by their label alone (`rs/local_store/pull_apply.rs:157`):
  a `sync_error` or `access_revoked` row has its snapshot replaced although its
  mutation is not acked (the comment at line 58 promises otherwise).
- `service_for_server` lower-cases the whole address (`rs/credentials.rs:30`), so
  two servers whose addresses differ only in the case of the path share a
  namespace of the keyring, and `TokensStayHome` fails for them. `Session` takes
  addresses to be different in lower case.
- A row whose chain is headed by a `permanent_error` keeps its `sync_error` (or the
  `dirty` of a later edit) and is not pushed any more: nothing dispatches or
  resolves that head. `NoStaleWedge` is about labels that outlive their work, not
  about this.
- A fresh lease clears `access_revoked` also when a `permission_denied` mutation
  set it, although the comment at `rs/local_store/entitlements.rs:57` says that
  it never does; a commit on a revoked row makes it dirty and deployable.
- A lease that is over when it arrives, and a `permission_denied`, revoke the row
  but leave its deployments installed; only `expire_due_entitlements` touches
  them, and only at startup and after a pull that came through.
- A tombstone removes the catalog rows of a skill while its directories stay.
- `import_snapshot` materializes in place, not atomically as its comment says
  (`rs/workspace.rs:99`): a crash leaves a partial directory, which the next
  hydration replaces.
- A poke of the worker is noticed only after its periodic sleep
  (`rs/sync_worker.rs:111`).

## 5. Proofs

`LocalStoreProofs` proves, for any sets of ids and hashes and any bounds
(`TypesAssumption`, `StoreAssumption`):

- `StoreInvariant`: `StoreSpec => []StoreInv`, where `StoreInv` is the
  conjunction of `StoreTypeOK`, `ChainOrder`, `NoStaleWedge`, `OneRowPerRemote`
  and `RowsWellFormed`;
- from it `TypeCorrect`, `ChainsStayOrdered`, `NoRowIsWedged`,
  `MirrorIsInjective`, and the action property `WorkSurvives`.

`RowsWellFormed` is the strengthening: a row that is gone has left neither a
server id nor mutations behind, and a row that is there has a current snapshot.
Without its first half a create or a pull could meet a leftover chain or server
id (`ChainOrder`, `OneRowPerRemote`); without its second half a queued delete or
a keep-local would have no payload. `ChainOrder` is inductive because a claim
takes only the heads of chains (`HeadsChain`) and no action takes a mutation
from `acked` back. The work is in two lemmas: `OneRowStep` (an action that
rewrites one row and its chain keeps the invariant if the new row and the new
chain satisfy their parts of it) and the one for `Moved` (an action that only
moves mutations between states); each action has a lemma that discharges the
hypotheses of one of them.

`PackageStoreProofs` proves, for any packages that share any files, any skills,
devices, browsers and batch size (`PackageAssumption`):

- `PackageInvariant`: `Spec => []PackageInv`;
- from it `RetainedPackagesComplete` (`CompleteUnlessRaced`), `UploadsAreEnough`
  (`UploadsSuffice`) and the action property `FreshObjectsAreKept`
  (`FreshIsKept`).

`PackageInv` adds three things to the type and to `CompleteUnlessRaced`.
`PassKnows`: what a sweep holds has old rows and belongs to no retained,
unraced package, and while a pass is between its two queries every such package
is among the versions it read or in the change log. This is where the order of
the queries matters: a version committed in between has a change row. The closure
step then works because a complete package's manifest can be read.
`WriterShape` and `WritersBacked`: each object of an unexposed request's package is
present, or still to be stored, or stored with a row that the commit will insert;
nothing is still to be stored when it commits, so the package is complete then. There
is one lemma per action.

`CatalogProofs` proves, for any skills, profiles, roots, homes and leases
(`CatalogAssumption`: built-in profiles have distinct roots in every home):

- `CatalogInvariant`: `Spec => []CatalogInv`;
- from it `CatalogTypes` (`CatalogTypeOK`), `DeploymentsUnderRoot`
  (`RowsUnderRoot`) and `RevokedUndeployed` (`RevokedStaysUndeployed`).

`CatalogInv` adds four things to the types. `CmdShape`: a target past its checks
has a root. `RootsDistinct`: an enabled profile has a root and no two profiles
share one, which discovery keeps although it changes several roots in one step
(each is checked against the profiles before, and built-in roots differ).
`RowsHaveRoot`: every catalog row has its profile's root; with `RootsDistinct`
this gives the single owner that `RowsUnderRoot` asks for. `SweptIsRevoked`: what
expiry revoked still has the label, and is not between the checks and the record
of a target unless the two crossed; without it a record could follow the sweep.

`DesktopSyncProofs` proves, for any ids, hashes, threads, kinds of failures and
bounds, with the store's lemmas of `LocalStoreProofs`:

- `SyncInvariant`: `SyncSpec => []SyncInv`;
- from it `ClaimsExclusive` (`ClaimExclusive`), `AppliedOnce` (`ExactlyOnce`),
  `AcksReceipted` (`AckedIsReceipted`), the action properties
  `NoUnseenOverwrite` (`NeverOverwritesUnseen`) and `SyncKeepsWork`
  (`UnackedWorkSurvives`), and `StoreStaysSound`: with the real callers, too, the
  store keeps its types, `ChainOrder`, `NoStaleWedge` and `OneRowPerRemote`;
- `ImplementsStore`: `SyncSpec => StoreSpec`, the refinement of `LocalStore`.

`SyncInv` adds to `StoreInv` what the two sides know of each other.
`UniqueIds`, `RequestInv`: an id names one mutation, and a request that the
server may still be given (sent, or late) was made from the mutation that has
its id, which has not gone back to `pending` since. So a second request can only
be a copy of the first. `ReceiptInv`, `AppliedInv`: a mutation was applied once
if its receipt is an ack and not at all otherwise. `EntryInv` relates each
mutation to its receipt: pending ones have none, recorded acks repeat it, refused
ones have a receipt that is no ack (or a shape the server rejects unread), and a
create is the first of its chain and the only source of the row's server id.
`RowInv` and the second conjunct of `EntryOK`: a revision that a row or a
mutation names is one the desktop was told of; with the server's comparison of
base and head this is `NeverOverwritesUnseen`. `ThreadInv`: what a thread holds
is claimed, by it alone, and an answer in its hands is the receipt.

`ImplementsStore` needs `BoundsSuffice`: the open environment of `StoreSpec` may
report revisions up to `MaxRev` and cursors up to `MaxSeq`, and the theorem is
about bounds that are not below `MaxMutations + MaxRest` (as in every run of
`DesktopSync`). They suffice because of `BoundInv`: an event in the log belongs
to a browser request or to a mutation that was applied, each at most once
(`LogInv`, from `AppliedInv`); no revision on the server, in a receipt or on a
page exceeds the number of events (`RevInv`, `CursorInv`). Then `CycleRefines`
and `StepRefines` show of each action which call of the store it is:
`EntryInv` gives that an ack comes under the row's own server id, `ThreadOK` that
an outcome is for a claimed mutation.

Four more results of this module are about the mirror:

- `FeedTellsHeads`: `SyncSpec => []FeedInv`, for every instance;
- `MirrorCovers`: `Undisturbed => (SyncSpec => []MirrorCoversCursor)`;
- `TombstonesGone` and `MirrorConverges`:
  `NothingGivenUp => (SyncSpec => []TombstonesClear)`, and the same of
  `Converged`.

The conditions are on the constants and hold in `mirror`. Section 4 has a
counterexample for each part of them; only of purges and `Converged` TLC finds
none. `Undisturbed` says that cycles do not overlap and that no answer is lost:
one thread, no timeout, no crash; sessions may expire, pulls may fail, and the
browser and the user do as they like. `NothingGivenUp` adds that the user
neither deletes nor takes the remote side of a conflict, and that the browser
purges nothing.

`FeedInv`: along the log the revisions of a skill rise, and its last event states
the revision in the table and whether it is in the trash. So the last event that
the cursor has passed bounds from below what the row must show. Most of the work
is to rule out that a row falls back. `FreshInv` does it for acks: what is still
to be sent has no receipt, so every answer is of the first application and states
a revision above everything in the log. `WorkInv` does it for what a thread has in
hand: a page starts at the cursor, and neither an answer nor a page takes the
mirror back. `KnownInv`: a row never names a revision that the server has not
reached, so one that is ahead of a page was put there by an ack or a conflict
head. `CoverInv` is then inductive.

`ExactInv` carries the other two. It says what a row shows, where `CoverInv` says
only how far it is. `RowExact`: a row without work of its own shows the package of
its revision, and is not behind a deletion that the cursor has passed.
`LocalExact`: what the last mutation that was not rejected carries is what the
row shows, so that the ack of the last one leaves the row exact. `InHand`: the
requests, answers and pages under way carry the packages of the revisions that
they name. `EditsOnly` is what `NothingGivenUp` buys: the ack of a delete would
give the row the revision of its own tombstone, and a purged skill shows none.

`SessionProofs` proves, for any servers, accounts, commands, faults and bounds
(`SessionAssumption`):

- `SessionInvariant`: `Spec => []SessionInv`;
- from it `SessionTypes` (`SessionTypeOK`), `TokensHome` (`TokensStayHome`),
  `StoredLive` (`StoredIsLive`), `LateBounded` (`LateIsBounded`), `LogoutHeld`
  (`LogoutHoldsUnlessRaced`) and `WorkOwn` (`WorkIsOwn`);
- `CursorOwn`: `Spec => CursorIsOwn`, the action property.

`SessionInv` follows a token through the hands it passes. `HomeInv`: what is in
the keyring or in a thread's hands was issued by the server it is kept for or
sent to. `LiveInv`: without faults a rotated token is live and in one thread's
hands alone, and a stored one is live unless its successor is on the way or it is
about to be deleted. `LateInv`: how many requests a disabled client can still
make from each step of a cycle. `OutInv`: a server that was logged out of has
left nothing, and a logout that met no cycle keeps the worker idle because the
scope is incomplete. `WorkInv`: the rows' account is the scope's, and a push that
has read its device carries that account's mutations only.

`CursorOwn` needs a second inductive invariant, `CursorInv`, on top of it. That a
page is the scope's user's is not inductive: the access token it was fetched with
came from the keyring, which the other thread may have rewritten, and the account
was compared with the scope only once, in `bind_device`. While nothing has torn
the session, `HandsInv` says that all requests under way for one server have the
same account in hand and that the keyring has it too, or has that of a login
that goes on (which `LoginInv` shows to be the scope's own, or the scope would be
incomplete and no cycle could run); `Checked` that a cycle's scope does not
change under it; and `BoundInv` that after the comparison the one account is the
scope's user. It is not enough to say that the keyring has the scope's user: a
login that crashed before it was recorded leaves another account's token under a
complete scope, and such a cycle must end at the comparison.

`SkillCacheProofs` proves, for any skills, trees, closures, commands, budgets and
bounds:

- `CacheInvariant`: `Spec => []CacheInv`;
- from it `CacheTypes` (`CacheTypeOK`), `RemoteHeadsOnServer`
  (`RemoteOnlyIsOnServer`), `SyncedExact` (`SyncedIsExact`), and
  `ImplementsContentPool`: `Spec => PoolSpec`, the refinement of `ContentPool`.

`CacheInv` says why a sweep is safe although it works on lists it read before:
`Listed`, `Counted` and `Resolved` say that every root of the present state is in
what the sweep has read, because the worker only takes roots away (`NoNewRoots`)
and everything else waits for the coordinator. `Served` and `Fetched` are the
refinement's own invariant: what is pinned, or is about to be pinned by a command
past its capture or its download, is in the store. `HeadsPublished`,
`LocalIsExact`, `CaptureIsExact` and `HydrationIsExact` are the strengthenings of
the two state properties.

`DeploymentProofs` proves, for any skills, hashes, transactions and failures:

- `EngineInvariant`: `Spec => []EngineInv`; from it `DeployTypes`
  (`DeployTypeOK`), `SetAsideJournaled` (`SetAsideIsJournaled`) and the action
  property `RemovalHasCatalog` (`RemovalNeedsCatalog`);
- `CrashInvariant`: `Spec => [](EngineInv /\ CrashInv(k))`, `RecoveryCleans`
  (`RecoveredClean`) and `CatalogStaysHonest` (`CatalogHonest`), for a directory
  that one skill is deployed to: `Skills = {k}`.

`EngineInv` holds whatever fails: the steps left to do are one of finitely many
plans, each with the kind of journal it works on, and a plan that forgets a
journal has put back or dropped what was aside. `CrashInv` says of each step of
each plan what the disk, the journal and the catalog look like there, and of each
journal at rest which pass of the recovery will find it (`DeployOpen`,
`UninstallOpen`, `Waiting`); at most one journal is open, which makes the arbitrary
order of the passes harmless. The one-skill hypothesis is that of the runs: two
skills with one slug share a directory, and then both properties fail (section
4).

`ContentPoolProofs` proves `PoolServes`: a blob store that keeps the promise of
`ContentPool` holds everything that is pinned.

`PackageTypes` and `TypeCorrect` state the type invariants.

Only model-checked: liveness (`EventuallySettles`, `FeedDrains` and the others:
fairness and ENABLED are out of the prover's reach). `MirrorCoversCursor`,
`TombstonesClear` and `Converged` are proved under the conditions above and are
false without them; `RecoveredClean` and `CatalogHonest` likewise for one skill.

## 6. Not modelled

Group and global skills and grants (a feed of their visibility is a model of its
own); change feed retention and cursor expiry; commits out of order on
PostgreSQL; the races of `py/services/auth.py` beyond what the desktop sees of
them; the formats, hashing and verification of packages (pure functions of
contents, here hashes); the inspection of paths and symbolic links; templates,
administration, audit, settings, preferences and telemetry (single-request CRUD);
routers and the web interface. In `Deployment`: changes of agent profiles
(they are in `Catalog`), a torn first journal record (the journal is unreadable,
reported and left, and no file has been touched by then), reordering of writes on
power loss. In `SkillCache`: deletion of skills, the `pinned` column (no command
sets it), the export of a package (reads only) and `import_agent_skill` (unused).
In `Catalog`: `entitlement_allows_offline_use` (only its tests call it).

## 7. Plan

1. Change feed retention: trim, cursor expiry, sequence reuse after a full
   trim, receipts trimmed under a queued mutation; then commits out of order.
2. `BLOB_MISSING` in `DesktopSync` (the answer becomes a permanent error).
3. Groups and grants with feed visibility; the server's token sessions.
