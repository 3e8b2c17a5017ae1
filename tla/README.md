# mcodex in TLA+: the account pool, the turns of a session, the memory pipeline

mcodex is a fork of the Codex CLI agent.  What it adds is a pool of accounts
that several local processes share: every process leases one account at a time
from a SQLite database, sends the requests of its agents on that lease, and
moves to another account when the quota runs out or the credentials fail.
This directory models that part: the shared store, the choice of an account,
the admission of requests to a lease, the credentials that go with it, the lifetime
of the lease in a tree of agent sessions, and the commands that add and remove
accounts.  Beside it are two parts the
fork inherits and that are concurrent in their own right: how a session starts,
steers and ends its turns, and how processes share the memory jobs of the state
database.  The specifications are translated from `codex-rs`; all paths below are relative to
that directory, and `PROJECT.json` maps every definition to its lines.

## 1. The system and its parts

| part | state | operations |
| --- | --- | --- |
| shared lease store (`state/src/runtime/account_pool*.rs`) | tables of registered accounts, pool membership, runtime health, leases, quota rows | acquire (preferred, excluding, probe), renew, release; register, enable, assign, remove, import; health events; quota observations and probes |
| account pool manager (`core/src/state/service.rs`) | active lease, its identity and generation, pending rotation, health sequence, switch damping | `preview_next_bridged_turn`, `prepare_turn`, `renew_active_lease`, `report_*`, `release_for_shutdown`, the selection and probe loops |
| lease authority (`core/src/runtime_lease/authority.rs`, `admission.rs`) | the manager behind a mutex, the admission tracker, a `Notify` | `acquire_request_lease`, the admission guard's drop, heartbeat, reports, `release_for_shutdown` |
| collaboration trees (`core/src/runtime_lease/collaboration_tree.rs`) | members of each tree with their cancellation tokens, the binding stack of a model client | register, unregister, cancel a tree, bind |
| lease host (`core/src/runtime_lease/host.rs`) | the published authority, attached sessions, pending startups | install, reserve, promote, roll back, attach, detach |
| selection (`account-pool/src/quota_selection.rs`, `quota.rs`) | none (pure) | `evaluate_selection`, `finalize_probe_recovery` |
| proactive switch (`account-pool/src/proactive_switch.rs`) | the damping state | observe pressure, revalidate, reset |
| auth session (`login/src/auth/lease_scoped_session.rs`) | a lease-epoch marker file per account | write, clear, `ensure_current` |
| turns (`core/src/tasks/mod.rs`, `state/turn.rs`, `session/`) | the active turn with its tasks, the turn state (pending input, approvals, mailbox phase), queued items, the mailbox | start, steer, interrupt, replace, abort, finish and cancel a turn; look for pending work; ask for and answer an approval |
| memory pipeline (`state/src/runtime/memories.rs`, `core/src/memories/`) | job rows with owner, lease, retries and watermarks; stage-1 outputs and the baseline marks | claim, heartbeat, succeed, fail; enqueue; pollute, prune, clear |
| account registration (`cli/src/accounts/registration.rs`, `account-pool/src/backend/local/control.rs`) | the pending-registration journal, the credentials directory with its staging and backup directories, the registry row | add, remove and assign an account; roll back, compensate, reconcile |
| startup selection (`account-pool/src/startup_*.rs`) | default pool, preferred account, suppression | resolve, set and clear the default |

How they interact.  A model request calls the authority, which locks the
manager, asks it for a preview and then for a turn, and enters the request into
the admission set; the request keeps a guard and a snapshot (generation,
account, pool).  The manager talks to the store in transactions of its own, so
any other process can act between two of them.  Reports and heartbeats of
requests in flight go back through the manager's mutex and are matched by
generation.  Sessions of one agent tree share the host's authority; the last
one to leave releases the lease.  Within a session the submission loop, the
tasks of turns, the schedulers that their ends spawn and the guardian's abort
task meet at the lock of the active turn.  The memory pipelines of all processes
meet only in the state database.  Account commands are processes of their own: they
write the registry that the store's transactions read, and the credentials
directory that auth sessions open.

What is hard here: processes that share the tables without talking to each
other, clock readings that are old when a transaction gets the database lock,
two locks and several awaits between choosing a lease and using it, futures
that are dropped at an await, late reports, failed releases, and operators who
change the registry at any time.  `PROJECT.json` lists these hazards with the
line where each one bites and the properties that would show it.

What makes each part correct:

* store: an account and a process have at most one lease; a lease taken over
  has expired; an epoch fences every earlier holder since the account was
  registered; observations do not go back in time;
* authority: one generation at a time, reports act on the lease they are about,
  a waiting request is woken, a closed lease admits nobody;
* manager: credentials of a lease are out of reach once it was given up, and
  within reach of the process that holds it;
* host: no session loses its authority while it runs, and the authority is
  released when all have gone;
* selection: an attempt ends, leaves no lease behind and does not return to the
  account that failed as long as it looks where the failure is on record; proactive switches are damped; an account that can be
  had is eventually used;
* turns: a running task can always be interrupted, a turn ends with an event, a
  session never stays busy with a turn nobody runs, and input that was accepted
  is recorded or dropped by somebody, never twice and never stranded;
* memory pipeline: an output that changed leaves work to do, the baseline is
  what one run read, dead workers do not stop the pipeline;
* registration: an account that was reported as added stays usable whatever a later
  command runs into, and what a failed or interrupted command leaves neither blocks
  the next one nor goes unrecorded.

## 2. Modules

| module | what it is |
| --- | --- |
| `AccountQuota` | the quota rows of an account and the statements that change them |
| `LeaseStore` | the store: one action per transaction, extends `AccountQuota` |
| `LeaseService` | abstract specification of the store's leases: a fenced lock service |
| `LeaseStoreProofs` | theorems about `LeaseStore`, among them that it implements `LeaseService` |
| `LeaseAuthority` | requests of one process against its manager and the admission tracker |
| `LeaseAuthorityProofs` | theorems about `LeaseAuthority` |
| `PoolManager` | the managers of several processes on top of `LeaseService`, with auth sessions and marker files |
| `PoolManagerProofs` | theorems about `PoolManager` |
| `LeaseHost` | sessions, startup reservations and the release of the authority |
| `LeaseHostProofs` | theorems about `LeaseHost` |
| `Rotation` | how one manager chooses the account of the next turn: selection, probes, failover, damping |
| `RotationProofs` | theorems about `Rotation` |
| `TurnTasks` | the turns of one session, with every lock of the active turn a step |
| `TurnTasksProofs` | theorems about `TurnTasks` |
| `MemoryJobs` | the memory jobs of several processes |
| `MemoryJobsProofs` | theorems about `MemoryJobs` |
| `Registration` | the commands that add, remove and move the account of one identity |
| `RegistrationProofs` | theorems about `Registration` |
| `MC*` | model values and symmetry for TLC |

### AccountQuota and LeaseStore

Every public method of the store is one SQLite write transaction
(`begin_account_pool_write_transaction`), so it is one action.  What is not
atomic is the clock: callers read `Utc::now()` before they wait for the
database lock, so an action works with some `now` out of `Stamps`, at most
`MaxLag` behind `clock`.  `leases` holds the rows with `released_at IS NULL`;
released rows only matter through `MAX(lease_epoch)`, kept in `lastEpoch`, and
through the copies of keys that processes keep, kept in `issued`.  Renewals,
releases and health reports take their arguments from `issued`, so they may be
arbitrarily late.  `Eligible` and `QuotaExhausted` are the WHERE clauses of the
two INSERT statements, `IndexAllows` the partial unique indexes, and the
expiry sweep is part of the transaction it belongs to, rolled back with it when
the request is refused (`Refuse`).  A quota row keeps the columns that the
statements compare: exhaustion, observation time, predicted block and next
probe.  The account id, pool id and family are model values; timestamps are
seconds of one clock.

### LeaseAuthority

`pc[r]` follows a request through `acquire_from_manager`: the `Notified` future
is created (`Begin`), the mutex is awaited (`Lock`), the preview is awaited
(`Preview`) and judged (`CheckPreview`), a request that must wait drops the
guard and awaits its future (`Park`), `prepare_turn` is awaited (`Prepare`), the
guard is dropped, and `try_admit` looks (`TryAdmit`) and enters
(`InsertAdmission`) under two acquisitions of the admissions lock.  `Abandon` is
cancellation at any of these awaits.  `woken[r]` is the request's `Notified`
future; `Finish` is the drop of the guard, whose last one reopens the tracker
and notifies.

The manager is its active lease, the identity it last observed, its generation
and its pending rotation.  `row` is the lease its holder id has in the store:
`LoseRow` (expiry, operators, other processes) may clear it at any time, and
whether a selection finds a candidate is a free choice, because both depend on
the rest of the pool.  Storage failures and dropped futures inside
`prepare_turn` are `RotationFails` and the failing branches of
`PrepareStartup`: they can come before the release, between release and
acquisition, or after it.

### PoolManager

Composes several managers with the abstract lease service: the store is
`INSTANCE LeaseService`, which `StoreImplementsService` proves `LeaseStore` to
implement, so what is shown here needs nothing of the store but that.  `HandOut`
may end any other tenancy, which stands for sweeps, expiry and operators.  A
tenancy is the lease record: its token stands for the lease id, its epoch is
`MAX(lease_epoch) + 1` of the account, and `Forget` is the deletion of the
account's row, which takes the epochs with it.

`dir[a]` is the credentials directory of an account: whether credentials are in
it and what its `lease_epoch` file holds.  `Current` is the comparison of
`load_bound_auth`, which knows nothing but the epoch.  `pc[p]` is what a process
does while it holds its manager's mutex: acquire a row (`Acquire`), write the
marker (`WriteMarker`), or find the account gone (`AccountMissing`), adopt the
lease (`Adopt`); or find its row missing (`RenewMissing`) or release it
(`ReleaseActive`), and then remove the marker and drop the lease (`GiveUp`); or
the four steps of a quota probe with a verification lease.  Each step ends at an
await, where `Abandon` may end the operation.  `sessions[p]` are the auth
sessions of turns in flight, which outlive the lease.  Whether a turn renews or
rotates is a free choice, since it depends on reports and selection; `StartTurn`
includes the soft rotation that keeps the current lease without renewing it.

Operators work on an account under all this, one command at a time: they delete
it (`DeleteAuth`, `DeleteRow`), or register it, which moves the old directory
away, installs new credentials and writes the row (`Backup`, `Install`,
`Register`) or fails and puts the old directory back with the marker it had
(`Restore`).  Between those steps processes go on acquiring and marking.
`since[a]` remembers the last token at the latest deletion or restoration: the
fencing properties are for leases after it (`Fenced`), and the known deviations
say what happens to those before.

### LeaseHost

`ses[s]` is where a session is in its life and `res[s]` who answers for its
startup reservation.  The lifecycle lock matters only while a release is
awaited, so `lock` names the release in progress and every other operation
waits for it.  `DropStartup` is the drop of a startup future: a child that had
not attached is gone, one that had attached but whose loop was not yet spawned
is `lost`, one with a loop sees its channel close.  In all three cases the
reservation is rolled back by a task that tries until it succeeds.  A closing
session detaches with `Attempts` attempts, twice after `Op::Shutdown` (in the
handler and after the loop), once after a closed channel.

### Rotation

One manager and the candidates it sees.  `pc` follows `prepare_turn` through the
loop of `acquire_selected_lease` and `acquire_selected_rotation_lease`, one step
per transaction: plan, release the current lease, acquire, or reserve a probe,
take the verification lease, refresh, release it and plan again.  `req` is the
`SelectionRequest` with the loop's local flags.  `Candidates`, `Ordinary`,
`Probeable`, `Best` and `Choices` are `evaluate_selection`; a quota row is its
level against the switch threshold and whether `next_probe_after` lies ahead, so
the finer criteria of `compare_ordinary` leave the choice open within a level.

Quota rows belong to limit families.  `Family[a]` is the account's
`backend_family`.  A startup selects on `codex`, a rotation on the family of the
account it leaves (`SelectionFamily`), and a family without a row falls back to
the `codex` row (`LimitOf`).  Rate limits and usage limits of requests are written
to the account's own family (`ReportRateLimits`, `ReportUsageLimit`), the usage
limit of a remote compaction to the row the provider's answer names, `codex` if it
names none (`ReportCompactionLimit`).  So `failed`, the bookkeeping for the
account of the last recorded failure, also says whether a startup sees it.

`prepare_turn` reads the clock once, so time passes only between attempts.
`ahead` counts the health events of other holders that the manager's sequence
counter does not know: as long as there are any, the store drops its reports.
Other processes take, lose, observe and report accounts between any two steps
(`Other`), the provider resets accounts (`Refill`), and `Fault` is a storage error
at any of them, the adoption included, where the just replaced account may have
been updated already.

### TurnTasks

`active` is `Session.active_turn`: the turn state and the tasks in it.  Turn states
are named by the start that made them, because a start, an abort and an ending
task can each hold the `Arc` of one that is no longer active.  `act` has the
submission loop, the guardian's abort task and one scheduler per ended turn;
`task` the tasks.  `start_task` is four steps (`TakePending`, `AttachTurn`,
`PushInput`, `SpawnTask`), an abort is `TakeActiveTurn` or `AbortTurnIfActive`, then
`CancelTask` and `AbortTask` for each task and `ClearAborted`; the end of a task is
`ExitRun`, then `OnTaskFinished` and `CompleteTurn` or `OnTaskCancelled` and
`CancelTurn`.  A sampling request with its tools is `DrainPending`, `RecordPending`,
`BlockPending`, `RequestApproval` and `ExitRun`: what the model answers is left
open.  `BeginRun` records the task's prompt or drops it, as `run_turn` does when it
returns early: without an eligible account, after a failed compaction, at a
cancellation, on a hook's word.  A hook may also block a pending prompt, whose
successors go back to the turn that is active then (`BlockPending`), or the input
a finished turn still had (`CompleteTurn`).  Items are tracked by identity through
`fresh`, `idle`, `mail`, turn states, tasks, `history` and `dropped`.

A task that removes itself from its turn drops the handle that aborts it on drop
(`SelfAborts`), so every await after that may be its last: `Stop` ends an aborted
task at any step of its end, with the turn state it took along, and without the
scheduler.  `cut` records the turns that ended between removal and event.  `stray`
records the items a start pushed to a turn state that was not active any more.
Both are bookkeeping for the properties.

### MemoryJobs

One row per stage-1 job and one for the global job, with the WHERE clauses of
`try_claim_stage1_job`, `try_claim_global_phase2_job` and the statements that end a
claim.  A worker is the startup pipeline of one process; its name stands for the
ownership token, since it claims a job anew only after dropping the earlier
claim.  A lease and a backoff are flags that go down when their time is over; a
lease can run out under a live worker, which is then a `Heartbeat` that came too
late.  Watermarks are the threads' `updated_at`; `Enqueue` moves the global one by
at least one.  The selection of a consolidation takes every unpolluted output:
`max_raw_memories` and `max_unused_days` do not bound the instances.  `fresh` and
`lastRead` are bookkeeping for the properties.

### Registration

One provider identity, and commands in one or more terminals.  `cmd[c]` is the
command a terminal runs: its `pc` is the next operation on the journal, the registry
or the directory, and its other fields are the locals of
`add_chatgpt_account_with_dependencies` and `StagedPooledRegistrationAuth`.  The order
is the code's: reconcile and clear the old journal row, look for the account, create
the journal row, back up and install the credentials, write the registry row and read
it back, remove the backup, complete the journal row, store the default pool.
`Error` lets the operation a command is at fail and `AfterError` says where the code
goes: the rollback `Undo` and `PutBack`, the compensation `DeleteRead` to `DeleteRow`,
or `Clear`.  `Crash` ends the process and leaves tables and directories as they are.
`creds` is the login whose credentials are in `final_home`, so a restored copy can be
told from a new one.  The journal is a state per pool, because `accounts add` stores
neither handle nor account id before it completes the row; the other arms of
`reconcile_pending_add_registration` need rows that nothing writes.

Left out: the import of the legacy login, which has a journal key of its own, the
pool of a configuration file, staging directories (written and removed, never read),
the raw handles of older versions, and other identities, whose rows a command reads
and does not write.  In `BeginAdd` the last choice of a pool is therefore that of this
account.

## 3. What TLC checks

| run | result | what it shows |
| --- | --- | --- |
| `store_registry` | pass | one account, two pools, two holders: every lease, registry and health operation, removal and re-registration included, in any order and with a clock reading that lags.  `LeasedAccountIsUsable`, `NoTakeover`, `RevivalIsBounded`, `ImplementsService` |
| `store_quota` | pass | two accounts, two holders, quota rows and probe leases, with a lag.  `ObservationsAdvance`, `ImplementsService` |
| `authority_requests` | pass | three requests, two trees, two leases.  `AdmissionsOK`, `GenerationNamesLease`, `ReportsHitTheirLease`, `EveryRequestEnds` |
| `host_startup` | pass | a root and two children, up to four failed releases.  `LifecycleOK`, `AuthorityWhileInUse`, `CleanStopReleases`, `ReservationsEnd` |
| `manager_fencing` | pass | two processes, an account, two leases, two failures at any await or operators' commands at any step.  `GivenUpIsFenced`, `OneProcessAuthenticates`, `FenceTakesHold` |
| `rotation_select` | pass | a codex account and a ChatGPT account, a step of another process or of the provider, one storage error.  `FailedAccountAvoided`, `NothingLeftBehind`, `SwitchesAreDamped`, `AttemptsEnd`, `SelectableIsServed` |
| `rotation_recovery` | violation of `RecoveryIsFound` | a ChatGPT account whose limit a remote compaction reported, and which the provider serves again, is probed for ever, and every probe confirms the stored row |
| `turn_tasks` | pass | three turns from a prompt, a queued item and a shell command or review, with one abort.  `ActiveTurnOK`, `RunningInterruptible`, `PlaceholderOwned`, `InputAccounted` |
| `turn_pending` | pass | three turns from a prompt and a triggering mail, with one abort.  `InputOnce`, `TurnsEnd`, `TriggerMailTaken` |
| `memory_claims` | pass | two processes, a thread that grows and one that does not, one crash, stall or clear.  `NoLostWork`, `BaselineIsOneRun`, `RunningCap` |
| `memory_progress` | pass | two processes, a thread that grows, two attempts for each job and two faults.  `DirtyIsConsolidated` |
| `registration_recovery` | pass | one terminal, two pools, four logins, two failing operations and two crashes at any step.  `PromiseKept`, `SuccessIsComplete`, `NothingBlocks`, `FaultIsOnRecord` |

The violation is a place where a document says one thing and the code does another;
`findings` in `PROJECT.json` quotes it.

**Bounds.**  Three seconds with a lease of two and a lag of one give a lease
time to be renewed, to expire, to be judged by a process whose clock reading is
old, and to be replaced; three leases give an account a holder, a successor and
a stale key of each.  The quota run has one second and one lease less to afford
two accounts.
Two requests are enough to race on the tracker, and the third is needed to wait
for both; two leases give a generation and its successor.  Two children and a
root are what a reservation, an attachment and the last detach need to overlap.
Two leases of one account are a holder and its successor, or a turn and a probe;
two failures or commands let an account be deleted and registered again under
turns in flight, or a registration fail after a marker was lost.
Four failed releases exceed the three attempts of one detach.  Two accounts give
a rotation somewhere to go and an account to come back to, one in each family; one
step of others lets an account be taken, lost, reset or reported on at any point of
an attempt.  Three turns are the one that ends, the one its scheduler starts and the
one that replaces either; only the first asks for approval and defers mail.  Two
watermarks let a thread be extracted again while its first output is being
consolidated; two attempts let a job fail, back off and be tried again.  Four logins and two pools let an account be added, added again, moved
or removed and added elsewhere; two faults of each kind let a rollback or a
compensation fail after the failure that started it, and a retry be interrupted again.

`MaxClock`, `MaxLeases`, `MaxSeq`, `MaxFailures`, `MaxFaults`, `MaxOther`,
`MaxAborts`, `MaxSource`, `MaxLogins`, `MaxErrors`, `MaxCrashes`, `N` and `Busy` are
bounds of the instances.  They appear in guards, in the types and index sets of bounded variables and, for `MaxSource`,
as the wall clock that is later than every thread.  `MaxLag` is the longest wait
for the database lock and is what `RevivalIsBounded` is stated with; it is a
parameter of the system.  Symmetry is used over accounts, holders and workers,
only in runs without liveness.

**Deadlock** is checked in the store's, the rotation's and the registration's runs.  The requests of
the authority, the sessions of the host, the turns and the jobs really end, and
the managers run out of tokens at their bound, so their runs do not check it.

**Fairness.**  `LeaseAuthority!FairSpec` has weak fairness on the steps of each
request: the runtime polls every task that is ready, and a provider request
ends because streams have idle timeouts.  A request that waits for the mutex
can be overtaken, but only finitely often, since each request takes it finitely
often; no stronger assumption is needed.  `LeaseHost!FairSpec` has strong
fairness on startup and shutdown steps, because tokio's mutex serves waiters in
order, and the release fails at most `MaxFailures` times: the database answers
again eventually.  `PoolManager!FairSpec` has weak fairness on the steps of an
operation in progress and strong fairness on the renewal of a process with a turn
in flight: heartbeats repeat, and tokio's mutex serves them in order.
`Rotation!FairSpec` has weak fairness on the steps of an attempt, on turns that ask
for an account, and on time.  In `TurnTasks` the actors and the tasks take their
steps and the user answers an approval (weak fairness), and a sampling request
that comes up again and again ends one of those times (strong fairness): the
model stops calling tools, and `run_turn` is not refused for ever while input is
pending.  The latter is an assumption about the pool: without an eligible account
`RegularTask::run` calls `run_turn` again and again until the pending input is
taken (`tasks/regular.rs`).  A task's `Stop` is part of its steps and nothing says
that it happens.  `MemoryJobs!FairSpec` has weak fairness on claims (processes
keep starting), on the work under a claim, and on time.  Nothing is assumed of
`LoseRow`, reports, cancellation, other processes or operators.

## 4. What is proved

`LeaseStoreProofs`, for any sets of accounts, pools, holders and limit families
and any lease length, lag and bounds:

* `StoreInvariant`: the inductive invariant `StoreInv`, the conjunction of
  `TypeOK`, `Exclusive` (no two rows share an account or a holder),
  `LeasedAccountIsUsable` and the strengthenings `RuntimeKnown`, `KeysOrdered` and
  `IdsDrawn`.  `IdsDrawn` makes a new lease differ from every row; the other two say
  where the pools in runtime rows and keys can come from, which is what bounds the
  damage of a late health report.  Every lease transaction trims the table, grants
  one row or renews (`LeaseNextCases`), and each of the three is treated once.
* `StoreUsable`: `LeasedAccountIsUsable`, a part of it.
* `StoreNoTakeover` and `StoreRevival`: the action properties of leases, from
  `LeasesAfterStep`, which says what a transaction does to one row.
* `StoreObservations`: that of quota rows, from `SetRowAdvances`: what is written to a
  row is not older than the row it replaces.
* `StoreImplementsService`: seen through account, holder, lease id and epoch, every
  transaction is a step of `LeaseService` or invisible.  The refinement maps a
  row to its tenancy; a renewal maps to a stutter, a removal to `Forget`.  That a
  released lease does not come back and that leases are exclusive are consequences:
  `LeaseService` draws a new token for each and has one per account and holder.

`LeaseAuthorityProofs`, for any number of requests, trees and leases:

* `AuthorityInvariant`: `AuthInv`, which adds to `GenerationNamesLease` that the
  observed identity is the held lease and that generations and lease ids in use
  do not exceed the last ones handed out.  Without these, a lease that is lost
  and granted anew could meet an old generation number.
* `AuthorityGenerations`, `AuthorityReports`, `AuthorityAdmissions`.

`LeaseHostProofs`, for any number of sessions, cancellations and failures:

* `HostInvariant`: `HostInv` says which books each session keeps, that a release
  in progress is that of the only user left, that a host with a user has an
  authority, and that nobody but the root is started before the root attached.
  The last part is needed because the root publishes the authority before it
  attaches.
* `HostLifecycle`, `HostAuthority`.
* `HostCleanStop`: `CleanStopReleases`, with the further invariant `Answered`:
  while fewer releases have failed than one detach attempts, a published
  authority has a user who will still detach.

`PoolManagerProofs`, for any number of processes, accounts, leases, failures and
operators' commands:

* `ManagerInvariant`: `ManagerInv` says whose each lease is (`Own`), that among the
  leases handed out since an account was last deleted or restored an epoch names one
  (`TokensOK`), which lease each step works on (`Position`), and that a lease a turn
  still knows but its manager has dropped is neither in the store, nor about to be
  adopted again, nor, as far as epochs fence, named by the marker (`Dropped`).  The
  first two conditions of `Dropped` are the strengthening: without them the marker
  could be written again for it.  `TokensForgotten` is where deletion matters: it
  takes every lease known until then out of what epochs can tell apart.
* `ManagerFencing`, `ManagerExclusion`.
* `ManagerUsesService`: seen from the store, every step of the managers, probes and
  operators is a step of `LeaseService` or invisible.  With `StoreImplementsService`
  the two halves meet: fencing rests on nothing but what the store's transactions are
  proved to do.

`RotationProofs`, for any number of accounts, any limit families, steps of other
processes and storage errors:

* `RotationInvariant`: `RotInv` has one part for each question.  `Recorded`: a failure
  that is not excused is on record in the store, in the `codex` row when it is marked as
  one a startup sees.  `MineOK`: the manager has at most
  one lease and knows it, or knows none.  `Between`: a recorded failure of the
  active account is pending, so the next turn rotates.  `Attempt` and `Target`: what
  an attempt has given up at each step and where its target comes from; they are the
  strengthening, since the store hands back whatever lease the holder still has, and
  only the order of release and acquisition makes that the right one.  `Leases`: what
  is left without storage errors.
* `RotationAvoidsFailed`, `RotationLeavesNothing`, `RotationDamped`.

`MemoryJobsProofs`, for any finite set of threads and any number of workers, retries
and faults:

* `JobsInvariant`: `JobsInv` adds to `NoLostWork` and `BaselineIsOneRun` that the
  watermark of the global job is ahead of every output and of what was consolidated
  (`WatermarkAhead`), and that the run which owns the job is behind it, strictly when
  it missed a change (`RunBehind`).  That every enqueue moves the watermark
  (`EnqueueMoves`) is what keeps the latter; it fails for an enqueue that keeps the
  maximum.
* `JobsNoLostWork`, `JobsBaseline`, and `JobsRunningCap` with the cardinality lemmas of
  the library.

`RegistrationProofs`, for any number of pools, logins, failing operations and crashes,
and one terminal (`OneTerminal`):

* `RegistrationInvariant`: `RegInv` says what a command has established at each step:
  in the journal (`JournalAt`), in the directory and the registry (`AccountAt`), and
  of an account that was promised before (`PromiseAt`): it is taken for one that is
  reused, and its credentials are in place or in a backup.  The last two parts are the
  strengthening; a second terminal breaks both, see the known deviations.
* `RegistrationPromise`, `RegistrationComplete`, `RegistrationNothingBlocks`.
* `RegistrationOneFault`: `FaultIsOnRecord`, with the further invariant `FaultInv`, which
  counts the faults: without one no rollback is under way, and credentials without an
  account belong to a command that is about to write the account; after one, a command
  that cleared the journal row of an orphan is about to write a new one.

`TurnTasksProofs`, for any number of turns and aborts and any sets of prompts, mail,
queued items and other requests:

* `TurnInvariant`: `TurnInv` is `Structure` and `InputSafe`.  `Structure` adds to the
  three invariants what each actor and task holds between two locks (`ActorRec`,
  `TaskRec`), that a turn being started belongs to one start (`StartsOK`), that a task
  in the hands of an abort is not listed any more (`AbortsOK`), and that a turn's
  scheduler waits for its task (`SchedulersOK`).  Without these a task could be spawned
  twice, or taken by two aborts and lost by one.  `TaskRec` also says that a task which
  has cleared its turn keeps the turn state until it records or clears it, or stops and
  drops it, which is what `InputSafe` (`InputAccounted`) needs of `Owned`.  Every action
  moves at most one actor and one task, so `MoveStructure` and `MoveInput` are proved
  once and each action is shown to be such a move.
* `TurnsActiveOK`, `TurnsInterruptible`, `TurnsPlaceholder`.
* `TurnsInput`: `InputAccounted`, with tasks that stop in their own end, refused turns and
  blocking hooks.
* `TurnsInputOnce`: `InputOnce` is inductive on top of `TurnInv`, with or without
  overlaps.  `OnceMove` says that what arrives in one place has left another.

The assumptions are those named in the modules: bounds are naturals, the
distinguished values are distinct from the sets they are added to, requests of
different kinds are distinct, the root is a session, there are finitely many threads.  TLC evaluates them in every run.

Only model-checked: the liveness properties, which need fairness, and the violation.  Every
invariant and action property of a passing run is stated by a theorem.

## 5. Known deviations

The violation run:

* *A recovered account is not found by probing* (`rotation_recovery`).
  `refresh_quota_probe` decides by the stored row.  Once a row says exhausted,
  probes confirm it; only an observation by a process that still holds the account
  changes it.

Others that building the models brought up.  Each is a behaviour of its model that
the properties of the passing runs allow for:

* *The epochs of an account start over* (`account_pool.rs:1736`, `2222`).  Deleting an
  account deletes its leases, and with them the highest epoch; after it is registered
  again the first lease has epoch 1.  A turn in flight from before whose session is
  bound to epoch 1 then gets the new credentials (`lease_scoped_session.rs:66`), beside
  the new holder.  Likewise a registration that fails puts the old directory back with
  the marker it had, for a lease that may have been given up meanwhile
  (`control.rs:255`).  The properties of `manager_fencing` are for leases handed out
  since, and `OneProcessAuthenticates` says that one of the two is always an old one.
* *A startup does not see a ChatGPT account's usage limit* (`service.rs:1227`, `1915`).
  The report goes to the account's own family and a startup selects on `codex`: after a
  failover that found nobody else, the next turn can get the failed account again.
  `FailedAccountAvoided` allows exactly this.
* *Two starts of a turn overlap* (`tasks/mod.rs:300`).  A scheduler places its turn
  while the submission loop is between its abort and the second lock of
  `start_task`, which asserts that the turn has no task.  Both tasks then run in one
  turn.  `RunningInterruptible`, `ActiveTurnOK` and `InputOnce` hold regardless.  A turn
  can also be taken from a start between its two locks; what the start then pushes to
  it is left in a turn state nobody reads (`stray`), which `InputAccounted` excepts.
* *A task stops in its own end* (`state/turn.rs:88`, `tasks/mod.rs:517`).  It removes
  itself from its turn, which drops the handle that aborts it, and goes on to hooks,
  rollout and events.  If one of these awaits is pending, the turn has no terminal
  event and no scheduler looks for mail that came meanwhile.  `TurnsEnd` and
  `TriggerMailTaken` except the turns this happens to (`cut`).
* *A failed add leaves an account without credentials*, though the registration design
  calls an add "one atomic operator intent".  When the row was written and reading it
  back fails, the credentials are rolled back and the row is not (`control.rs:106`).
  Adding the account again repairs it.
* *Two crashes leave credentials that nothing names*, which `FaultIsOnRecord` allows for by
  counting faults.  The journal row does not say whether credentials were installed,
  and reconciling it only clears it (`registration.rs:450`).  A crash before the new row
  is written loses track of the directory; the next add of the identity takes it over.
* *Of two adds of one account, run at the same time, one undoes the other*.  The
  journal key is shared, and the second add clears the open row of the first as if it
  was left by a crash.  The one that finds the row gone or completed compensates by
  deleting the account (`registration.rs:333`), after the other reported success.
* A health report from a holder that lost the account moves the account to the pool
  the report names, under a lease granted since from another pool
  (`account_pool.rs:1064`, `RecordHealth` in `LeaseStore`).
* A renewal that waited for the database lock extends a lease that has expired,
  by at most the wait (`account_pool.rs:473`, `RevivalIsBounded`).
* A request can be admitted to a generation that a report closed after
  `prepare_turn` returned it (`authority.rs:475`), two generations can be in flight
  (`authority.rs:613`), and `prepare_turn` can replace a lease under requests in
  flight when it does not follow its preview (`authority.rs:458`).
* A startup that is dropped after its session attached and before its loop was
  spawned is never detached (`session/session.rs:1045`); `CleanStopReleases` excepts it.
* A process that gives up its lease can remove the marker of the next holder
  (`service.rs:1880`), which then fails its turn until it writes a marker again.
* A rotation that a storage error interrupts is forgotten, and the next turn
  renews the account that failed (`service.rs:640`, `Fault`).
* A thread that is polluted while a consolidation that has read it is running
  enqueues nothing, and is marked as part of the baseline afterwards
  (`memories.rs:490`).

## 6. What is not modelled, and what is left

Left out for good: the event log and the observability views (append-only, they
decide nothing), the terminal and app-server front ends, sandboxing, provider
protocols, and the `HostOwned` mode of the authority, which only tests build.
The library's own manager (`account-pool/src/manager.rs`) repeats the logic of
the manager in `core` and is not run by the program.  These parts, most of all the
front ends, the protocol types and the tools, are the bulk of the repository's
lines.

Left to do, in this order:

1. `CollaborationTree`: the binding stack of a model client and long-lived members.
2. Startup selection with its default pool and suppression; the import of the legacy
   login and its journal row, which no command reconciles.
3. The backfill lease and agent job assignment, which are claims like those of
   `MemoryJobs`.
4. Rollback and compaction in `TurnTasks`.

Theorems to come: what two terminals that work on one identity in different pools keep
of the promises of `Registration`.
