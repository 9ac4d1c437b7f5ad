# TLA+ verification of rooz-data-cloud

Models of the control plane of rooz-data-cloud (`apps/api`), of the sandbox
worker and the browser gateway it runs (`workers/sandbox-runtime`), checked with
TLC on small instances and, for every safety property that holds, proved with
TLAPS for every size of the system.

## The system

Tenants talk to a FastAPI control API, which keeps everything in PostgreSQL and
in an object store. One HTTP request is one transaction at READ COMMITTED
(`core/database.py`, `get_db`: commit at the end, roll back on any exception).
Sandbox workers poll the same API under `/internal/v1`, execute Builds and Runs
in containers and give a Run its services: key-value store, dataset, request
queue, and the web through a gateway. Background processes (execution recovery,
schedule dispatch, egress-health maintenance, webhook delivery, credential
canaries) run their own transactions against the same tables.

Three facts about the code shape every model:

* The ORM writes only the columns that differ from the values this session
  read, as absolute values. A row that was read without a lock and then read
  again `FOR UPDATE` is *not* refreshed unless the query says
  `populate_existing`, so a stale read survives the lock. Wherever the code does
  this, the early read is an action of its own (`Load`, `Begin`, `Read`,
  `Handle`).
* `resolve_worker_context` writes `last_seen_at` before anything else is read,
  so a worker request holds its worker row and one worker has at most one
  request in flight.
* Reapers and dispatchers select `FOR UPDATE SKIP LOCKED`: they pass over what
  an open request holds.

A transaction that locks what it reads, before it reads it, is one action.

## Modules

| part of the system | module | run | proofs |
| --- | --- | --- | --- |
| builds, runs, leases, workers, cancellation, recovery sweeper | `ExecutionPlane` (`MCExecutionPlane`) | `leases`, `worker_loss`, `recovery`, `cancellation` | `ExecutionPlaneProofs`, `ExecutionLeaseProofs` |
| sandbox worker process and its watchdog | `SandboxWorker` (`MCWorker`) | `worker` | `WorkerProofs` |
| activation of a Run: receipts, claim, worker check | `Activation` (`MCWorker`) | `worker` | `WorkerProofs` |
| browser, gateway and egress broker | `BrowserGateway` (`MCServices`) | `services` | `ServicesProofs` |
| key-value stores | `KeyValueStore` (`MCServices`) | `services` | `ServicesProofs` |
| datasets | `Datasets` (`MCServices`) | `services` | `CountingProofs` |
| request queues | `RequestQueue` (`MCServices`) | `services`, `queue_reclaim` | `CountingProofs` |
| schedules and their dispatchers | `Schedules` | `schedules` | `AutomationProofs` |
| webhook destinations and deliveries | `Webhooks` | `webhooks` | `AutomationProofs` |
| credential canaries | `EgressCanaries` (`MCEgress`) | `egress` | `EgressProofs` |
| egress health, rollups and retention | `EgressHealth` (`MCEgress`) | `egress` | `EgressProofs` |
| the state row that sweeps report in | `SweepHealth` (`MCEgress`) | `egress` | `EgressProofs` |
| agents, source uploads, versions, builds | `AgentSources` (`MCPlatform`) | `platform`, `rejected_upload` | `PlatformProofs` |
| accounts, sessions, tenancy, API keys | `Identity` (`MCPlatform`) | `platform` | `PlatformProofs` |
| egress policies and credential envelopes | `EgressPolicies` (`MCPlatform`) | `platform` | `PlatformProofs` |
| what a table of leased work promises | `LeasedWork` | (by refinement) | (by refinement) |

An MC module that carries several components gives each behaviour one of them
(`part`, chosen in `Init`): these components share no row and no transaction, so
nothing is lost by exploring them side by side. `PROJECT.json` maps every
definition to the lines it models.

### ExecutionPlane

`target[t]` is one Build or Run row with its outbox rows and, per row, the
latest lease (`work[k]`, kinds BUILD, START, CANCEL). `worker[w]` is the
`worker_identities` row, `boots[w]` the startup identifier of the worker
process, `tx[w]` the open lease request of a worker and `reap[p]` the open
transaction of a reaper: a heartbeat or claim of a worker, or the sweeper. A request on a lease is `Access` (worker row and lease
locked), `Handle` (the unlocked read of the target) and a committing action
(`RenewLease`, `UpdateStatus`, `CompleteLease`, `CompleteCancelled`,
`IssueEnvelope`) or `Rollback`. Reaping takes two steps wherever the code reaps:
the first (`BeginRequest`, `SweepBegin`) locks a batch of expired leases and reads
their targets without a lock, the second (`Heartbeat`, `Claim`, `ClaimNothing`,
`SweepCommit`) writes from that read, takes overdue cancellations and commits;
`RollbackReaping` is a 409, a failed sweep or a crash. Batches are limited
(`RequestBatchSize`, `SweepBatchSize`, and `max(1, batch_size // 16)` workers per
sweep); the rows that `SKIP LOCKED` and `LIMIT` leave out are any, because
handlers modelled as one step also hold locks for a moment. The operators on one record (`Fence`, `Converge`, `ReapLease`,
`ResetExpired`, `Completed`, `FenceLost`) are the functions of
`execution_plane.py` of that name. The clock is `now`; a handler reads it again,
at any time between `Access` and its commit.

Left out: row-level security, the claim payload (in `Activation`), artifact and
download grants, run events, audit rows. The time a heartbeat or claim works with
is the one at its first step; waiting for the worker row before that is not told
apart from a request that arrives later.

### SandboxWorker and Activation

`SandboxWorker` follows the main thread of each worker process through the
stages of `_run` and `_build` (`proc`), its watchdog thread (`dog`) and its
containers, which outlive the process. Every API call may fail before or after it
took effect, and a claim that the API granted may fail the validation in the
worker: the Run then fails and the queue request stays claimed until it expires. A
fetch may also raise what `_run` does not catch. The control plane is reduced to who holds the lease (`holder`),
because `ExecutionPlane` has it in full. The output of an Agent is a sequence of
entries, one per mutation or item, or `Opaque` when it is no such document; the
worker refuses one with more than `MaxMutations` mutations (`MAX_WORKER_MUTATIONS`)
or without items to append (`ValidOutput`), and skips the loop over mutations when
there are none. `Activation` has three copies of the
operator's settings (API at creation, API at the claim, worker), each changed by
a redeploy, and the receipts that tie them together. A heartbeat attests the
worker for gated work only while the API has the sandbox mode on and names this
worker as its canary.

### Services of a Run

`KeyValueStore`: a tenant creates an empty store, or a worker's first mutation
creates it (`CreateEmptyStore`, `CreateStore`); a mutation is `Load`, lock, upload of the object, commit or
failure with clean-up, and computes the counters from the row loaded before the
lock. `Datasets`: an append loads the dataset and locks it later; an export is
two queries. `RequestQueue`: `Begin` is the unlocked load; enqueue and claim
compute the counters from that copy at their commit and fail on the constraint
that no counter is negative; completions read under the lock; `claims` are the
claims that processes still hold, each with its token. `BrowserGateway`:
the worker (`job`), the gateway thread (`gate`) and the page (`page`) with the
connections between them, a DNS that may change at any step, and the budget of
the egress broker.

### Schedules, Webhooks and the egress components

`Schedules`: a sweep holds the advisory lock and its rows until it commits, so it
is one step, taken with the time the replica read earlier (`StartSweep`); pause
and resume are three steps and write from the object read first. `Webhooks`:
`Claim` and `Complete` are the database functions of migration 0033; `Load`
precedes `Rotate`, `Verify` and `Disable`. `EgressCanaries`: a rotation schedules
an attempt per secret version; runners claim, load, probe and complete, and may
stop anywhere. `EgressHealth`: observations arrive with a delay, are rolled up by
hour and purged; a rolled hour is the *set* of observations it counted, so that
missing and counting twice differ. `SweepHealth`: success and failure reports of
the replicas that share one state row. Every process has the same clock; a commit
whose answer is lost is not modelled. Heartbeats are stamped with times read
before the lock, so a row may go back in time and a failure may follow a success
of another replica that began later; nothing is claimed about that.

### Platform

`AgentSources`: the bytes of an archive are in a bucket that a client may
overwrite while its presigned form lives; completion loads, inspects and writes
the row. `Identity`: a request authenticates and writes in two steps, with
nothing locked between. `EgressPolicies`: updates write from a policy loaded
before its lock; an envelope request keeps its locks until it answers.

### LeasedWork

The abstract specification of three tables that pollers share: waiting work is
handed out under a fresh token at most `MaxTries` times per round, is taken back
only after its lease lapsed, and is ended only by the use of the current token. A
lapsed lease that nobody has taken back still counts for canaries (`Lenient`).
`QueueIsLeasedWork`, `DeliveriesAreLeasedWork` and `CanariesAreLeasedWork` say
that `RequestQueue`, `Webhooks` and `EgressCanaries` implement it; each is checked
by TLC and proved. Leases of `ExecutionPlane` do not have this shape: a cancelled
Run is fenced by others while its lease is valid.

## What the runs check

Nine runs pass.

| run | instance | shows |
| --- | --- | --- |
| `leases` | one Run with an egress policy, or two Builds; two workers | work, status, leases and grants stay consistent through claims, renewals, reports, retries, cancellation and sweeps; ended targets stay ended; no worker exceeds its limit |
| `worker_loss` | one worker that falls silent and restarts, batches of one | no valid lease between loss and recovery |
| `recovery` | one Run, one worker, fair sweeper with batches of one | every lease ends and no Run stays ABORTING, with no help from workers |
| `egress` | three secret versions, two targets; two observations; two sweepers | canaries are leased work, succeed only for the current secret and judge every rotation; summaries count once; a failed sweep is silenced by others only |
| `webhooks` | one delivery, two replay keys, one operator | deliveries are leased work, replays apply once, success means the current secret, nothing due is left behind |
| `schedules` | two schedules, two replicas, one user | Runs, counters and history agree; due instants are handled |
| `platform` | one agent, two uploads, three archives; two sessions; one policy, one bound Run | builds are made of inspected bytes; logout is final and keys are issued once; envelopes are eligible |
| `services` | two concurrent writers per store, one reader; two queue requests; one page | mutations and appends apply once, reads and exports are whole, counters agree, the queue is leased work, traffic stays inside policy and budget |
| `worker` | two workers, one of them faulty, two Runs; all gate combinations that differ | what is issued is accepted, capabilities are granted by every party, handled requests are persisted, a lost lease ends the process |

Three runs end in a counterexample to a sentence of the documents:

| run | sentence | what the code does |
| --- | --- | --- |
| `cancellation` | expiry of the cancellation deadline "terminally marks the Run `ABORTED`" (docs/execution-recovery/README.md:26) | a retryable completion that read the Run before the cancellation puts it back to QUEUED, where no deadline is looked at |
| `queue_reclaim` | "Expired claims are reclaimed or failed after retry exhaustion." (docs/phase1p/README.md:23) | lost updates of `pending_count` make every claim fail on the counter constraint, and its reclaim with it |
| `rejected_upload` | "Rejected objects are marked `REJECTED` ..." (docs/phase1g/README.md:32) | the error that reports the rejection rolls it back; only the deletion of the object remains |

Modelling met more places where a document says more than the code does. No run
states them:

* A renewal in flight while its lease expires brings a project over
  `max_active_leases` (`renew_lease`; docs/execution-recovery/THREAT_MODEL.md:50).
* A `create_run` repeated under its idempotency key after a redeployment or a
  change of the bound policy is answered 409, because the request fingerprint
  covers receipts of the settings (`runs.py:1252`;
  docs/architecture/API_CONTRACTS.md:443).
* A pause that read a schedule earlier writes PAUSED over COMPLETED
  (`schedules.py:280`; docs/scheduler/README.md:14).
* A rotation that loaded a pending webhook destination leaves one ACTIVE that was
  verified meanwhile (`webhook_destinations.py:335`;
  docs/events-webhooks/README.md:61).
* Two updates of an egress policy with the same `expected_version` may both
  succeed, since the version compared was loaded before the lock
  (docs/architecture/API_CONTRACTS.md:1139, docs/proxy-egress/README.md:13).
* The items of a queue request are stored a second time when its completion is
  interrupted and another Run takes it over: the idempotency key only guards the
  dataset of one Run (`worker.py:1845`; docs/scraping-runtime/THREAT_MODEL.md:33).
* After a failed renewal has cleaned the runtime up, the main thread may still
  start a container before the process ends (`worker_recovery.py:193`;
  workers/sandbox-runtime/README.md:43).
* An observation committed after its hour was rolled up is not in the summary of
  that hour; `SummariesCountOnce` therefore excepts late ones
  (docs/proxy-egress/EGRESS_HEALTH_RETENTION.md:6).

The causes are mostly one: an ORM object loaded before the row lock is not
refreshed by it.

### Bounds

Times are small integers: a lease or claim lasts one unit, an execution two, so
two or three ticks reach expiry, renewal up to the cap, deadline and retry.
`MaxAttempts = 2` is the least budget with both a retry and an exhaustion.
`leases` has two workers, for races between workers, and one slot per worker and
project; its behaviours have Runs only or Builds only (`EitherSpec`), which never
touch the same record, and at most two transactions of several steps open at a time
(`MaxOpen`): three at once are left to the proofs. `MaxBoots = 2` lets a process restart after its loss and
once more with a stale report. Batches of two in `leases` admit one reaper with
both leases of a Run or several reapers with one each; batches of one in
`worker_loss` and `recovery` make a sweep leave leases of a lost worker behind.
The retention hours of `egress` keep the order
that `Settings.validate` demands (window 2 < raw 3 < rollup 4), in ten ticks.
Schedules use intervals 1 and 2 from one start, so that grids differ, and
`BatchSize = 1` makes sweeps leave work behind. `webhooks` has one event, its
threshold of 2 is reached through replays; the order of a batch of several
deliveries is not exercised (the proof is for any number). `platform` bounds the
operations in flight to one mix at a time (`Mixes`), since three at once only
repeat the interleavings of two. The limits of `services` are such that a second
write meets the quota. Symmetry is used in `leases`, `platform` and `services`,
never with liveness.

### Fairness

* `ExecutionPlane`: the clock advances; although any single sweep may crash, or
  pass over rows that are locked for a moment, one that fills its batch is started
  and committed if it can be again and again (`run_sweep_loop` retries for ever;
  strong fairness of `FullSweepBegin` and `FullSweepCommit`, since requests lock
  and release the rows in between); an open request ends, by commit or rollback.
  Nothing is assumed of what workers or users ask for.
* `RequestQueue`: the clock advances and the worker keeps polling; a claim that
  can commit again and again eventually does.
* `Schedules`: open calls end, some replica keeps sweeping and infinitely many
  sweeps do not fail (`run_dispatch_loop` logs an exception and goes on).
* `Webhooks`: polls happen (`run_loop`); a runner may lose every claim it took.
* `EgressCanaries`: the clock advances and some runner claims what it can.

## What is proved

Every theorem is for arbitrary sets of targets, workers, keys, requests, events
and so on, and for arbitrary limits within the named assumptions of the modules
(`SettingsAssumption`, `QueueAssumption`, `OutputAssumption`, ...), which say what
`Settings.validate`, the schema or the protocol demands. `LimitKept` counts leases
and assumes finitely many Runs and Builds (`FiniteAssumption`). `IdleTicks <= AbsoluteTicks` in
`Identity` is one of the things `Settings.validate` checks.

| module | inductive invariant | what follows |
| --- | --- | --- |
| `ExecutionPlaneProofs` | `IInv` (`Invariance`) | `TypeCorrect`, `NoDoubleDispatch`, `BoundedAttempts`, `GrantsRevoked` |
| `ExecutionLeaseProofs` | `LeaseInv` (`LeaseInvariance`), `LimitInv` | `WorkAgrees`, `LossIsComplete`, `FinalStatusKept`, `LimitKept` |
| `WorkerProofs` | `ActivationInv` (`ActivationInvariance`) | `RulesAgree`, `EveryPartyGrants` |
| | `WorkerInv` (`WorkerInvariance`) | `HandledPersists`, `SuccessIsHandled`, `LostLeaseEnds` |
| `CountingProofs` | `QueueInv` (`QueueInvariance`), `CountInv` | `QueueImplementsLeasedWork`, `CountersAgree` |
| | `DatasetInv` (`DatasetInvariance`) | `StoredOnce`, `WholeExports` |
| `ServicesProofs` | `KVInv` (`KVInvariance`) | `AppliedOnce`, `ObjectsKept`, `WholeReads` |
| | `GatewayInv` (`GatewayInvariance`) | `BudgetKept`, `OnlyGlobal`, `ReportsCover` |
| `AutomationProofs` | `WebhookInv` (`WebhookInvariance`) | `DeliveriesImplementLeasedWork`, `ReplaysOnce`, `CurrentSecrets` |
| | `ScheduleInv` (`ScheduleInvariance`) | `RunsAgree` |
| `EgressProofs` | `CanaryInv`, `HealthInv`, `SweepInv` | `CanariesImplementLeasedWork`, `CurrentSuccess`, `CountedOnce`, `FailuresAreReported` |
| `PlatformProofs` | `SourceInv`, `IdentityInv`, `PolicyInv` | `InspectedBuilds`, `FixedSources`, `FinalLogout`, `OneKey`, `EligibleEnvelopes` |

Why each invariant is needed:

* `IInv` adds to the properties that an absent target has no work, that PENDING
  work has an attempt left (`WorkOK`, `RecordOK`), and that an open request still
  holds the ACTIVE lease it locked, outside every reaper's batch (`RequestOK`). The
  last is what a completion needs after arbitrary steps of others, and it holds
  because every reaper and fence leaves the leases it finds locked alone. The proof first shows for each
  record operator (`Closed`, `Fence`, `Converge`, `ReapLease`, ...) that it keeps
  `RecordOK` and the skipped leases (`Follows`), then has one lemma per action.
* `LeaseInv` has three parts. `AgreeInv` adds to `UncancelledWorkAgrees` what was
  read before a lock: of a target that is still uncancelled, an open request and an
  open reaper saw a started status (`ReadOK`, `BatchOK`), and no two reapers share a
  lease. `LossInv`: a lost worker has no valid lease *and* no open request that
  could renew an expired one (`Claims`), and neither has a request one that the
  open sweep declares lost; `LostWorkerIsFenced` alone is not inductive, because
  that renewal would break it. `RowInv`: a worker has one request at a time, and no
  reaper is ahead of the clock. The proof follows two relations between a record
  before and after a write. `Ends`: no lease comes to life or is prolonged, and
  those in a given set are closed. `Advances`: an uncancelled target agrees with its
  work, and one that ended keeps its status. Every record operator has a lemma
  about each, every action one that combines them; only a claim, and a renewal by
  the worker that asked for it, are outside `Ends`. `TerminalIsFinal` is a
  consequence of `Advances`.
* `LimitInv`: the valid leases of a worker, together with the one its open request
  may renew although it has expired (`Claims`), are within its limit. The valid
  ones alone are not inductive: that renewal would raise their number. It holds
  because a worker has one request in flight, and a claim is one of them.
* `ActivationInv`: the lease of a started Run carries what `_canary_activation`
  tested under the settings of its claim (`IssuedBy`), whatever was redeployed
  since. The lemmas then compare the two copies of each rule
  (`CapabilitiesAllowed` and its parts with `AcceptsStores`, `AcceptsQueue`, ...).
* `WorkerInv`: at each stage of `_run`, what the stages before it had to do is
  done: the mutations before the index of the loop are stored, then all of them and
  the items, then the request is HANDLED under the token of the process. Other
  processes keep this, because stores only grow under an idempotency key and a
  HANDLED request does not change. `LostLeaseEnds` needs that a process between
  two leases has no watchdog.
* `QueueInv`: a transaction read the clock in the past, so what it finds expired
  is expired at its commit; and a claimable request has an attempt left, although
  nothing in `claim_next_request` compares the two. `CountInv`: what the worker's
  open transaction loaded of the counters it alone writes is still current.
* `WebhookInv`: a replay that took effect is behind the replay count of its
  delivery, so the request it came from can never match again.
* `CanaryInv`: no attempt for a version the secret has not reached; one that waits
  has a try left. `HealthInv`: a rolled hour is over and contains everything
  committed before its end, and what was purged is older than every window.
  `SweepInv`: times in the row and in open attempts have passed, and a heartbeat
  that a process wrote itself is not later than the start of its open attempt.
* `SourceInv`: a row keeps the digest its upload intent fixed, and every open
  completion knows the same. `IdentityInv`: requests in flight know the absolute
  expiry of the session they loaded; every key and answer has its idempotency
  record. `PolicyInv`: what an open envelope request checked stays true under its
  locks, although updates write from a stale policy.
* `KVInv`: at most one mutation holds the store, what it decided under the lock
  holds until it commits, and nothing else refers to the object it uploaded.
* `DatasetInv`: sequence numbers are contiguous and used once; a loaded row is one
  the dataset once had, so a stale one collides with the primary key rather than
  overwriting. `ScheduleInv`: counters are cardinalities of the history, and a
  sweep works with a time that has passed.
* `GatewayInv`: the account of the broker covers what has crossed plus what is
  charged and unanswered plus what is written and unread.

Only model-checked is what needs fairness, which is out of reach of the prover:
`LeasesEnd`, `AbortingEnds`, `RotationsAreJudged`, `DueIsClaimed` and
`DueIsHandled`. The three violated sentences have a counterexample and no proof.

Proof modules carry two components where their constants and variables do not
meet; nothing in the proof of one refers to the other. `ExecutionLeaseProofs` is
by far the longest, about a quarter of an hour of `tlapm`; the others take minutes.

## Abstractions worth knowing

* A SHA-256 digest is the value it is the digest of; encryption and signing are
  left out. API-key expiry and `last_used_at` are not in `Identity`.
* `issue_secret_envelope` reads secrets without a lock, unlike
  `issue_egress_credential_envelope`; only the latter's answer is claimed to be
  current (`EnvelopesAreEligible`).
* An expired rollup's hour may be rolled again from the raw rows that remain; no
  window reaches it, so `SummariesCountOnce` is not affected.
* After the total byte budget is exceeded the gateway still forwards requests
  while the bytes delivered stay within the budget; denied requests use up
  connections (`max_requests + 4`, `SpareConnections` here).
* Two Runs of an organization whose outputs are byte-identical conflict on the
  artifact digest; artifacts are not modelled.

Not modelled: the Redis rate limiter, row-level security, the console,
observability, listing of events and logs, schema migrations without a function
or trigger that takes part in an operation, operator scripts, artifact grants and
run events, webhook signing and transport.
