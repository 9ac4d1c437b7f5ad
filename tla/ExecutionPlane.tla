--------------------------- MODULE ExecutionPlane ---------------------------
(***************************************************************************)
(* The execution plane of the control API: durable Build and Run work,     *)
(* the leases workers hold on it, cancellation, and the recovery sweeper   *)
(* (apps/api/app/services/execution_plane.py, execution_recovery_sweeper.py*)
(* runs.py, execution_recovery.py, api/internal_dependencies.py).          *)
(*                                                                         *)
(* A target is one Build or one Run.  Its record holds the status column,  *)
(* the cancellation columns and, per kind of work, the outbox row and the  *)
(* latest execution lease on that row.  Older leases of a row are closed   *)
(* and nothing reads them again, so they are not kept.                     *)
(*                                                                         *)
(* The database runs at READ COMMITTED and one HTTP request is one         *)
(* transaction.  A request on a lease is three steps here: Access locks    *)
(* the worker row and the lease, Handle reads the target without a lock,   *)
(* and a commit writes.  A heartbeat, a claim and a sweep reap expired     *)
(* leases: they are two steps, because the reaper locks a limited batch of *)
(* leases and reads their targets without a lock before it writes.  Every  *)
(* other handler locks what it reads (or is made serial by the locks it    *)
(* takes) and is one step.                                                 *)
(***************************************************************************)
EXTENDS Integers, FiniteSets

CONSTANTS
  Runs, Builds,          \* the targets of one project
  BoundRuns,             \* runs created with an egress policy receipt
  Workers,
  FaultyWorkers,         \* workers that may fall silent, restart or drain
  NoWorker, NoTarget,
  Sweeper,               \* the execution-recovery process
  LeaseSeconds,          \* worker_lease_seconds, also the renewal extension
  LeaseMaxSeconds,       \* worker_lease_max_seconds
  ExecutionTimeout,      \* timeout_seconds of a Build or Run payload
  CancelConvergence,     \* worker_cancel_convergence_seconds
  RetryBase, RetryMax,   \* worker_retry_base_seconds, worker_retry_max_seconds
  MaxAttempts,           \* worker_max_attempts
  LostAfter,             \* worker_lost_after_seconds
  ProjectLimit,          \* projects.max_active_leases
  WorkerLimit,           \* worker_identities.max_concurrency
  SweepBatchSize,        \* execution_recovery_sweep_batch_size
  RequestBatchSize,      \* batch_size of a heartbeat's or a claim's reaping
  MaxTime,               \* bound: the clock stops here
  MaxBoots               \* bound: starts of one worker process

ASSUME TargetAssumption ==
  /\ Runs \cap Builds = {}
  /\ NoTarget \notin Runs \cup Builds
  /\ BoundRuns \subseteq Runs
  /\ NoWorker \notin Workers
  /\ Sweeper \notin Workers
  /\ FaultyWorkers \subseteq Workers

\* A database has finitely many rows.
ASSUME FiniteAssumption == IsFiniteSet(Runs) /\ IsFiniteSet(Builds)

\* The ranges Settings.validate admits (core/config.py), without the units.
ASSUME SettingsAssumption ==
  /\ {LeaseSeconds, LeaseMaxSeconds, ExecutionTimeout, CancelConvergence,
      RetryBase, RetryMax, MaxAttempts, LostAfter, ProjectLimit,
      WorkerLimit, SweepBatchSize, RequestBatchSize} \subseteq Nat \ {0}
  /\ LeaseSeconds <= LeaseMaxSeconds
  /\ RetryBase <= RetryMax
  /\ {MaxTime, MaxBoots} \subseteq Nat

VARIABLES
  now,      \* the database clock
  target,   \* builds, runs, their outbox rows, leases and secret grants
  worker,   \* worker_identities rows
  boots,    \* startup identifier of each worker process
  tx,       \* the open lease request of each worker
  reap      \* the open reaping of each worker's request and of the sweeper

vars == <<now, target, worker, boots, tx, reap>>

Targets == Runs \cup Builds
Kinds == {"BUILD", "START", "CANCEL"}
RunKinds == {"START", "CANCEL"}
SlotKinds == {"BUILD", "START"}      \* PROJECT_EXECUTION_SLOT_KINDS
RunTerminal == {"SUCCEEDED", "FAILED", "TIMED_OUT", "ABORTED"}
BuildTerminal == {"SUCCEEDED", "FAILED", "TIMED_OUT", "CANCELLED"}
Terminal == RunTerminal \cup BuildTerminal
Statuses == {"ABSENT", "DRAFT", "QUEUED", "STARTING", "RUNNING", "ABORTING"}
              \cup Terminal
SourceStatuses ==
  {"ABSENT", "PENDING", "CLAIMED", "DELIVERED", "FAILED", "CANCELLED"}
LeaseStatuses ==
  {"NONE", "ACTIVE", "COMPLETED", "FAILED", "EXPIRED", "CANCELLED"}
Outcomes == {"SUCCEEDED", "FAILED", "TIMED_OUT", "ABORTED", "CANCELLED"}
Ops == {"RENEW", "STATUS", "COMPLETE", "ENVELOPE"}

(***************************************************************************)
(* One outbox row with its latest lease.  "issued" says that some secret   *)
(* injection grant of the lease has status ISSUED.  Columns nothing reads  *)
(* any more (the times of a closed lease, availableAt of a row that is not *)
(* PENDING) are reset to 0.                                                *)
(***************************************************************************)
Work ==
  [source : SourceStatuses, attempts : Nat, availableAt : Int,
   lease : LeaseStatuses, worker : Workers \cup {NoWorker},
   claimedAt : Nat, expiresAt : Nat, deadlineAt : Nat, issued : BOOLEAN]

Target ==
  [status : Statuses, cancelRequested : BOOLEAN, cancelDeadline : Nat,
   bound : BOOLEAN, work : [Kinds -> Work]]

NoWork ==
  [source |-> "ABSENT", attempts |-> 0, availableAt |-> 0, lease |-> "NONE",
   worker |-> NoWorker, claimedAt |-> 0, expiresAt |-> 0, deadlineAt |-> 0,
   issued |-> FALSE]

Worker ==
  [status : {"UNREGISTERED", "ACTIVE", "DRAINING"}, lastSeen : Nat,
   pending : BOOLEAN, reported : Nat]

\* phase ACCESS: the lease is locked; phase READ: the target was read as seen.
Tx ==
  [phase : {"IDLE", "ACCESS", "READ"}, op : Ops,
   t : Targets \cup {NoTarget}, k : Kinds, at : Nat, seen : Statuses]

NoTx ==
  [phase |-> "IDLE", op |-> "RENEW", t |-> NoTarget, k |-> "START",
   at |-> 0, seen |-> "ABSENT"]

\* A worker reaps in its heartbeats and claims, one request at a time.
Reapers == Workers \cup {Sweeper}

\* The transaction of a reaper: the clock it read, the startup identifier of
\* the process that sent the request, the workers it found lost, the leases
\* it locked and what it read of their targets.
Reaping ==
  [open : BOOLEAN, at : Nat, boot : Nat, lost : SUBSET Workers,
   batch : SUBSET (Targets \X Kinds), seen : [Targets -> Statuses],
   cancelling : SUBSET Targets]

NoReaping ==
  [open |-> FALSE, at |-> 0, boot |-> 0, lost |-> {}, batch |-> {},
   seen |-> [t \in Targets |-> "ABSENT"], cancelling |-> {}]

TypeOK ==
  /\ now \in Nat
  /\ target \in [Targets -> Target]
  /\ worker \in [Workers -> Worker]
  /\ boots \in [Workers -> Nat]
  /\ tx \in [Workers -> Tx]
  /\ reap \in [Reapers -> Reaping]

-----------------------------------------------------------------------------
(* execution_recovery.py: the server-owned retry and deadline policy.      *)

Least(a, b) == IF a <= b THEN a ELSE b

ClampLeaseExpiry(proposed, claimedAt, deadlineAt) ==
  Least(proposed, Least(claimedAt + LeaseMaxSeconds, deadlineAt))

\* base << (attempt - 1), capped
RetryDelay(attempt) == Least(RetryMax, RetryBase * 2^(attempt - 1))

\* Mutant: the budget is off by one.
RetryAllowedOnceMore(requested, outcome, attempt) ==
  /\ requested
  /\ outcome \in {"FAILED", "TIMED_OUT"}
  /\ 1 <= attempt /\ attempt <= MaxAttempts

RetryAllowed(requested, outcome, attempt) ==
  /\ requested
  /\ outcome \in {"FAILED", "TIMED_OUT"}
  /\ 1 <= attempt /\ attempt < MaxAttempts

-----------------------------------------------------------------------------
(* Reading leases.                                                         *)

Live(w, at) == w.lease = "ACTIVE" /\ w.expiresAt > at /\ w.deadlineAt > at

Expired(w, at) ==
  w.lease = "ACTIVE" /\ (w.expiresAt <= at \/ w.deadlineAt <= at)

Items == Targets \X Kinds

\* Rows locked FOR UPDATE by an open transaction: every other selection of
\* leases says SKIP LOCKED.
LockedByRequest(t, k) ==
  \E w \in Workers : tx[w].phase # "IDLE" /\ tx[w].t = t /\ tx[w].k = k

\* A reaper locks its batch, and the leases of lost workers that it ended.
LockedByReaper(p, t, k) ==
  \/ <<t, k>> \in reap[p].batch
  \/ /\ target[t].work[k].worker \in reap[p].lost
     /\ Live(target[t].work[k], reap[p].at)

LockedByReapers(P, t, k) == \E p \in P : LockedByReaper(p, t, k)

Locked(t, k) == LockedByRequest(t, k) \/ LockedByReapers(Reapers, t, k)

LiveOfWorker(T, w, at) ==
  {i \in Items : LET x == T[i[1]].work[i[2]] IN x.worker = w /\ Live(x, at)}

LiveSlots(T, at) ==
  {i \in Items : i[2] \in SlotKinds /\ Live(T[i[1]].work[i[2]], at)}

-----------------------------------------------------------------------------
(* Writing one target.  Each operator below maps the record of a target to *)
(* the record a transaction leaves; skip is the set of kinds whose lease   *)
(* row another open transaction has locked.                                *)

\* An ORM update writes a column only when the new value differs from the
\* value this transaction read: a status read as seen and set to new.
Written(current, seen, new) == IF new = seen THEN current ELSE new

\* A write to the outbox row alone
WithSource(w, status, availableAt) ==
  [w EXCEPT !.source = status, !.availableAt = availableAt]

\* Mutant: the grants of the lease are not revoked.
ClosedWithGrants(w, leaseStatus, sourceStatus, availableAt) ==
  [source |-> sourceStatus, attempts |-> w.attempts,
   availableAt |-> availableAt, lease |-> leaseStatus, worker |-> NoWorker,
   claimedAt |-> 0, expiresAt |-> 0, deadlineAt |-> 0, issued |-> w.issued]

Closed(w, leaseStatus, sourceStatus, availableAt) ==
  [source |-> sourceStatus, attempts |-> w.attempts,
   availableAt |-> availableAt, lease |-> leaseStatus, worker |-> NoWorker,
   claimedAt |-> 0, expiresAt |-> 0, deadlineAt |-> 0, issued |-> FALSE]

\* _fence_cancelled_run_leases on one kind: the command is cancelled even
\* when the lease is skipped because its row is locked.
FenceWork(w, skipped) ==
  LET command == IF w.source \in {"PENDING", "CLAIMED"} THEN "CANCELLED"
                 ELSE w.source
  IN  IF w.lease = "ACTIVE" /\ ~skipped
      THEN Closed(w, "CANCELLED", command, 0)
      ELSE WithSource(w, command, 0)

Fence(rec, skip, preserved) ==
  [rec EXCEPT !.work = [k \in Kinds |->
     IF k \in RunKinds \ preserved THEN FenceWork(rec.work[k], k \in skip)
     ELSE rec.work[k]]]

\* _converge_cancelled_run fences first and looks at the status afterwards;
\* it reports success exactly when CancellationOpen held.
CancellationOpen(rec) ==
  rec.cancelRequested /\ rec.status \in {"ABORTING", "ABORTED"}

\* Mutant: the run is fenced and its status forgotten.
ConvergeLeasesOnly(rec, skip) == Fence(rec, skip, {})

Converge(rec, skip) ==
  LET fenced == Fence(rec, skip, {})
  IN  IF CancellationOpen(rec) THEN [fenced EXCEPT !.status = "ABORTED"]
      ELSE fenced

\* reap_overdue_cancellations on one run
CancellationOverdue(rec, at) ==
  rec.status = "ABORTING" /\ rec.cancelRequested /\ rec.cancelDeadline <= at

ReapOverdue(rec, skip, at) ==
  IF CancellationOverdue(rec, at) THEN Converge(rec, skip) ELSE rec

\* Mutant: the source is requeued and the lease left open.
ResetExpiredSourceOnly(rec, k, late, at, seen) ==
  LET w == rec.work[k]
      retry == RetryAllowed(~late, "FAILED", w.attempts)
  IN  [rec EXCEPT
         !.status = Written(rec.status, seen, IF retry THEN "QUEUED" ELSE "FAILED"),
         !.work[k].source = IF retry THEN "PENDING" ELSE "FAILED",
         !.work[k].availableAt = IF retry THEN at + RetryDelay(w.attempts) ELSE 0]

\* _reset_expired_source past its cancellation branch, and the lease and
\* grant writes reap_expired_leases makes for the same lease.
ResetExpired(rec, k, late, at, seen) ==
  LET w == rec.work[k]
      retry == RetryAllowed(~late, "FAILED", w.attempts)
      status == IF retry
                THEN IF k = "CANCEL" THEN seen ELSE "QUEUED"
                ELSE IF late /\ k # "CANCEL" THEN "TIMED_OUT" ELSE "FAILED"
  IN  [rec EXCEPT
         !.status = Written(rec.status, seen, status),
         !.work[k] = Closed(w, IF late THEN "FAILED" ELSE "EXPIRED",
                            IF retry THEN "PENDING" ELSE "FAILED",
                            IF retry THEN at + RetryDelay(w.attempts) ELSE 0)]

\* One lease of a reaper's batch.  cancelling and seen are what the unlocked
\* read of the run returned; a cancelled run is read again under its lock.
ReapLease(rec, k, skip, late, at, cancelling, seen) ==
  IF ~cancelling THEN ResetExpired(rec, k, late, at, seen)
  ELSE IF CancellationOpen(rec) THEN Converge(rec, skip)
  ELSE ResetExpired(Fence(rec, skip, {}), k, late, at, rec.status)

\* The leases of one target in a batch, in order of expires_at; tie is the
\* kind that goes first when both leases of a run expire together.
ReapTarget(rec, batch, skip, at, cancelling, seen, tie) ==
  LET late(k) == rec.work[k].deadlineAt <= at
      one(r, k, s) == ReapLease(r, k, skip, late(k), at, cancelling, s)
      startAt == rec.work["START"].expiresAt
      cancelAt == rec.work["CANCEL"].expiresAt
      startFirst == startAt < cancelAt \/ (startAt = cancelAt /\ tie = "START")
      both(j, k) == LET r == one(rec, j, seen) IN one(r, k, r.status)
  IN  IF RunKinds \subseteq batch
      THEN IF startFirst THEN both("START", "CANCEL")
                         ELSE both("CANCEL", "START")
      ELSE IF "BUILD" \in batch THEN one(rec, "BUILD", seen)
      ELSE IF "START" \in batch THEN one(rec, "START", seen)
      ELSE IF "CANCEL" \in batch THEN one(rec, "CANCEL", seen)
      ELSE rec

-----------------------------------------------------------------------------
Init ==
  /\ now = 0
  /\ target = [t \in Targets |->
       [status |-> "ABSENT", cancelRequested |-> FALSE, cancelDeadline |-> 0,
        bound |-> TRUE, work |-> [k \in Kinds |-> NoWork]]]
  /\ worker = [w \in Workers |->
       [status |-> "UNREGISTERED", lastSeen |-> 0, pending |-> FALSE,
        reported |-> 0]]
  /\ boots = [w \in Workers |-> 0]
  /\ tx = [w \in Workers |-> NoTx]
  /\ reap = [p \in Reapers |-> NoReaping]

Tick ==
  /\ now < MaxTime
  /\ now' = now + 1
  /\ UNCHANGED <<target, worker, boots, tx, reap>>

(* The tenant API.                                                         *)

Queued(rec, k) ==
  [rec EXCEPT !.status = "QUEUED", !.work[k] = WithSource(@, "PENDING", now)]

\* create_run: a receipt-only run is a DRAFT without a START command.
CreateRun(t) ==
  /\ target[t].status = "ABSENT"
  /\ \/ target' = [target EXCEPT ![t] = Queued(@, "START")]
     \/ target' = [target EXCEPT ![t].status = "DRAFT"]
  /\ UNCHANGED <<now, worker, boots, tx, reap>>

\* create_build
CreateBuild(t) ==
  /\ target[t].status = "ABSENT"
  /\ target' = [target EXCEPT ![t] = Queued(@, "BUILD")]
  /\ UNCHANGED <<now, worker, boots, tx, reap>>

\* _ensure_cancel_command: at most one CANCEL row per run
EnsureCancelCommand(rec) ==
  IF rec.work["CANCEL"].source # "ABSENT" THEN rec
  ELSE [rec EXCEPT !.work["CANCEL"] = WithSource(@, "PENDING", now)]

CancelRequest(rec, status) ==
  [rec EXCEPT !.status = status, !.cancelRequested = TRUE,
              !.cancelDeadline = now + CancelConvergence]

\* cancel_run holds the run row for its whole transaction.  A database
\* trigger rejects a second write of the cancellation columns.
CancelRun(t) ==
  /\ \/ /\ target[t].status \in {"DRAFT", "QUEUED"}
        /\ ~target[t].cancelRequested
        /\ LET rec == CancelRequest(target[t], "ABORTED")
           IN  target' = [target EXCEPT ![t] =
                 IF rec.work["START"].source = "PENDING"
                 THEN [rec EXCEPT !.work["START"] = WithSource(@, "CANCELLED", 0)]
                 ELSE rec]
     \/ /\ target[t].status \in {"STARTING", "RUNNING"}
        /\ ~target[t].cancelRequested
        /\ target' = [target EXCEPT ![t] =
                        EnsureCancelCommand(CancelRequest(@, "ABORTING"))]
     \/ /\ target[t].status = "ABORTING"
        /\ target' = [target EXCEPT ![t] = EnsureCancelCommand(@)]
  /\ UNCHANGED <<now, worker, boots, tx, reap>>

\* replace_project_secret revokes the issued grants that name the secret.
RotateSecret ==
  /\ \E T \in SUBSET Runs :
       target' = [t \in Targets |->
         IF t \in T THEN [target[t] EXCEPT !.work["START"].issued = FALSE]
         ELSE target[t]]
  /\ UNCHANGED <<now, worker, boots, tx, reap>>

\* The egress policy a run is bound to is replaced, disabled or restored.
ChangePolicy(t) ==
  /\ target' = [target EXCEPT ![t].bound = ~@]
  /\ UNCHANGED <<now, worker, boots, tx, reap>>

-----------------------------------------------------------------------------
(* reap_expired_leases, which heartbeats, claims and sweeps call.          *)

\* detect_lost_workers ends the live leases of a lost worker now.
FenceLost(rec, lost, at) ==
  [rec EXCEPT !.work = [k \in Kinds |->
     IF rec.work[k].worker \in lost /\ Live(rec.work[k], at)
     THEN [rec.work[k] EXCEPT !.expiresAt = at] ELSE rec.work[k]]]

\* Mutant: cancelled runs are left to the cancellation deadline.
ReapableUncancelled(lost) ==
  {i \in Items : /\ Expired(FenceLost(target[i[1]], lost, now).work[i[2]], now)
                 /\ ~Locked(i[1], i[2])
                 /\ ~target[i[1]].cancelRequested}

\* The expired leases a reaper can lock now
Reapable(lost) ==
  {i \in Items : /\ Expired(FenceLost(target[i[1]], lost, now).work[i[2]], now)
                 /\ ~Locked(i[1], i[2])}

\* What a selection with LIMIT may return of S.  SKIP LOCKED also passes over
\* rows that a handler of a single step has locked at the moment, so which
\* rows are left out is not determined although they are ordered.
Limited(S, limit) == {B \in SUBSET S : Cardinality(B) <= limit}

\* The first step: the batch is locked and the targets of its leases are read.
BeginReaping(p, boot, lost, batch) ==
  LET mine == {i[1] : i \in batch}
  IN  reap' = [reap EXCEPT ![p] =
        [open |-> TRUE, at |-> now, boot |-> boot, lost |-> lost, batch |-> batch,
         seen |-> [t \in Targets |-> IF t \in mine THEN target[t].status
                                     ELSE "ABSENT"],
         cancelling |-> {t \in mine : target[t].cancelRequested}]]

EndReaping(p) == reap' = [reap EXCEPT ![p] = NoReaping]

\* The runs reap_overdue_cancellations may take at the end of the second step
Overdue(p) == {t \in Runs : CancellationOverdue(target[t], reap[p].at)}

\* What the transaction of reaper p leaves of target t; late are the overdue
\* runs it took.
Reaped(p, t, late, tie) ==
  LET r == reap[p]
      batch == {k \in Kinds : <<t, k>> \in r.batch}
      skip == {k \in Kinds \ batch : \/ LockedByRequest(t, k)
                                     \/ LockedByReapers(Reapers \ {p}, t, k)}
      rec == ReapTarget(FenceLost(target[t], r.lost, r.at), batch, skip, r.at,
                        t \in r.cancelling, r.seen[t], tie)
  IN  IF t \in late THEN ReapOverdue(rec, skip, r.at) ELSE rec

Reap(p, late, tie) == [t \in Targets |-> Reaped(p, t, late, tie)]

\* The database returns equal expires_at values in either order.
Ties(p) ==
  IF \E t \in Runs :
       LET w == FenceLost(target[t], reap[p].lost, reap[p].at).work
       IN  /\ {t} \X RunKinds \subseteq reap[p].batch
           /\ w["START"].expiresAt = w["CANCEL"].expiresAt
  THEN RunKinds ELSE {"START"}

\* A 409, a failed sweep or a crash rolls the reaping back.
RollbackReaping(p) ==
  /\ reap[p].open
  /\ EndReaping(p)
  /\ UNCHANGED <<now, target, worker, boots, tx>>

-----------------------------------------------------------------------------
(* Worker registration, heartbeats and claims.  A request first writes     *)
(* last_seen_at, so it holds the worker row: one request of a worker, or   *)
(* the sweep that declares it lost, at a time.                             *)

\* Mutant: an open request of the worker does not hold its row.
RowFreeOfReapers(w) == ~reap[w].open /\ w \notin reap[Sweeper].lost

RowFree(w) ==
  tx[w].phase = "IDLE" /\ ~reap[w].open /\ w \notin reap[Sweeper].lost

\* last_seen_at of a worker outside FaultyWorkers is always recent and is
\* not tracked.
Seen(w, at) == IF w \in FaultyWorkers THEN at ELSE 0

RegisterWorker(w) ==
  /\ worker[w].status = "UNREGISTERED"
  /\ worker' = [worker EXCEPT ![w].status = "ACTIVE", ![w].lastSeen = Seen(w, now)]
  /\ UNCHANGED <<now, target, boots, tx, reap>>

\* The worker process (re)starts and draws a fresh startup identifier.
StartProcess(w) ==
  /\ w \in FaultyWorkers /\ boots[w] < MaxBoots
  /\ boots' = [boots EXCEPT ![w] = @ + 1]
  /\ UNCHANGED <<now, target, worker, tx, reap>>

\* A heartbeat or a claim locks the worker row and begins to reap.
BeginRequest(w, batch) ==
  /\ worker[w].status # "UNREGISTERED" /\ RowFree(w)
  /\ BeginReaping(w, boots[w], {}, batch)
  /\ UNCHANGED <<now, target, worker, boots, tx>>

\* heartbeat_worker; report says whether a cleanup report is attached.
Heartbeat(w, status, report, late, tie) ==
  LET me == worker[w]
      boot == reap[w].boot
  IN  /\ reap[w].open
      /\ report => boot > 0
      /\ status = "DRAINING" => w \in FaultyWorkers
      /\ me.pending => report /\ boot # me.reported
      /\ worker' = [worker EXCEPT ![w] =
           [status |-> status, lastSeen |-> Seen(w, reap[w].at),
            pending |-> me.pending /\ ~report,
            reported |-> IF report THEN boot ELSE me.reported]]
      /\ target' = Reap(w, late, tie)
      /\ EndReaping(w)
      /\ UNCHANGED <<now, boots, tx>>

\* Mutant: what failed for good is selected again while attempts are left.
ClaimableFailed(T, t, k, at) ==
  /\ \/ T[t].work[k].source = "PENDING"
     \/ /\ T[t].status = "FAILED" /\ T[t].work[k].source = "FAILED"
        /\ T[t].work[k].attempts < MaxAttempts
  /\ T[t].work[k].availableAt <= at

\* _select_source: a row of one kind may be claimed.  It takes the oldest that
\* no other claim has locked, so any of them.
Claimable(T, t, k, at) ==
  /\ T[t].work[k].source = "PENDING"
  /\ T[t].work[k].availableAt <= at
  /\ k \in SlotKinds => Cardinality(LiveSlots(T, at)) < ProjectLimit

ClaimDeadline(rec, k, at) ==
  IF k = "CANCEL" THEN Least(at + LeaseMaxSeconds, rec.cancelDeadline)
  ELSE at + ExecutionTimeout

\* The lease, source and target writes of a successful claim
Leased(rec, k, w, at) ==
  LET deadline == ClaimDeadline(rec, k, at)
      x == rec.work[k]
  IN  [rec EXCEPT
        !.status = IF k = "CANCEL" THEN rec.status ELSE "STARTING",
        !.work[k] =
          [source |-> "CLAIMED", attempts |-> x.attempts + 1, availableAt |-> 0,
           lease |-> "ACTIVE", worker |-> w, claimedAt |-> at,
           expiresAt |-> ClampLeaseExpiry(at + LeaseSeconds, at, deadline),
           deadlineAt |-> deadline, issued |-> x.issued]]

\* Mutant: the run is failed and its command stays in the queue.
PolicyRevokedRunOnly(rec) == [rec EXCEPT !.status = "FAILED"]

\* _bound_run_egress_policy_is_current fails the run at admission.
PolicyRevoked(rec) ==
  LET x == rec.work["START"]
  IN  [rec EXCEPT !.status = "FAILED",
                  !.work["START"] = [x EXCEPT !.source = "FAILED",
                                       !.attempts = x.attempts + 1,
                                       !.availableAt = 0]]

\* claim_work up to the selection of a source: T is the state it reaped.  The
\* clock it read when it began serves all of it.
MayClaim(w, T) ==
  /\ worker[w].status = "ACTIVE" /\ ~worker[w].pending
  /\ Cardinality(LiveOfWorker(T, w, reap[w].at)) < WorkerLimit

\* claim_work that commits.  A state conflict (409) rolls everything back, the
\* reaping included.
Claim(w, k, t, late, tie) ==
  LET T == Reap(w, late, tie)
      rec == T[t]
      at == reap[w].at
  IN  /\ reap[w].open
      /\ Claimable(T, t, k, at)
      /\ MayClaim(w, T)
      /\ \/ /\ k = "START" /\ ~rec.bound
            /\ target' = [T EXCEPT ![t] = PolicyRevoked(rec)]
         \/ /\ k = "START" => rec.bound /\ rec.status = "QUEUED"
            /\ k = "CANCEL" => rec.status = "ABORTING"
            /\ ClaimDeadline(rec, k, at) > at
            /\ target' = [T EXCEPT ![t] = Leased(rec, k, w, at)]
      /\ worker' = [worker EXCEPT ![w].lastSeen = Seen(w, at)]
      /\ EndReaping(w)
      /\ UNCHANGED <<now, boots, tx>>

\* claim_work that finds nothing, or only rows that other claims have locked,
\* commits what it reaped.
ClaimNothing(w, late, tie) ==
  LET T == Reap(w, late, tie)
  IN  /\ reap[w].open
      /\ MayClaim(w, T)
      /\ target' = T
      /\ worker' = [worker EXCEPT ![w].lastSeen = Seen(w, reap[w].at)]
      /\ EndReaping(w)
      /\ UNCHANGED <<now, boots, tx>>

-----------------------------------------------------------------------------
(* Requests on a lease.                                                    *)

Phase(w, phase, op) == tx[w].phase = phase /\ tx[w].op = op

\* The leases of t that transactions other than the request of w lock
LockedByOthers(w, t) ==
  {k \in Kinds : Locked(t, k) /\ ~(tx[w].t = t /\ tx[w].k = k)}

\* resolve_worker_context and require_lease_access: the cancellation column
\* is read here and not kept.  The handler reads the clock again, at a time
\* between this step and its commit.
Access(w, op, t, k) ==
  LET lease == target[t].work[k]
  IN  /\ lease.worker = w /\ Live(lease, now)
      /\ worker[w].status # "UNREGISTERED" /\ RowFree(w)
      /\ ~LockedByReapers(Reapers, t, k)
      /\ k = "START" => ~target[t].cancelRequested
      /\ op = "ENVELOPE" => k = "START"
      /\ tx' = [tx EXCEPT ![w] = [phase |-> "ACCESS", op |-> op, t |-> t,
                                  k |-> k, at |-> now, seen |-> "ABSENT"]]
      /\ UNCHANGED <<now, target, worker, boots, reap>>

\* update_lease_status and complete_lease read the target, without a lock.
Handle(w) ==
  LET q == tx[w]
  IN  /\ q.phase = "ACCESS" /\ q.op \in {"STATUS", "COMPLETE"}
      /\ q.k = "START" => ~target[q.t].cancelRequested
      /\ tx' = [tx EXCEPT ![w].phase = "READ",
                          ![w].seen = target[q.t].status]
      /\ UNCHANGED <<now, target, worker, boots, reap>>

\* The end of every request that commits
Commit(w, rec) ==
  /\ target' = [target EXCEPT ![tx[w].t] = rec]
  /\ worker' = [worker EXCEPT ![w].lastSeen = Seen(w, tx[w].at)]
  /\ tx' = [tx EXCEPT ![w] = NoTx]
  /\ UNCHANGED <<now, boots, reap>>

\* An error response, a lost connection or a crash of the API process
Rollback(w) ==
  /\ tx[w].phase # "IDLE"
  /\ tx' = [tx EXCEPT ![w] = NoTx]
  /\ UNCHANGED <<now, target, worker, boots, reap>>

Renewed(lease, at) ==
  LET from == IF lease.expiresAt >= at THEN lease.expiresAt ELSE at
  IN  ClampLeaseExpiry(from + LeaseSeconds, lease.claimedAt, lease.deadlineAt)

RenewLease(w, at) ==
  LET q == tx[w]
      rec == target[q.t]
      until == Renewed(rec.work[q.k], at)
  IN  /\ Phase(w, "ACCESS", "RENEW")
      /\ until > at
      /\ Commit(w, [rec EXCEPT !.work[q.k].expiresAt = until])

\* issue_secret_envelope with a new request fingerprint
IssueEnvelope(w) ==
  LET q == tx[w]
  IN  /\ Phase(w, "ACCESS", "ENVELOPE")
      /\ Commit(w, [target[q.t] EXCEPT !.work[q.k].issued = TRUE])

\* update_lease_status
UpdateStatus(w, status) ==
  LET q == tx[w]
  IN  /\ Phase(w, "READ", "STATUS")
      /\ status \in IF q.k = "CANCEL" THEN {"ABORTING"}
                    ELSE {"STARTING", "RUNNING"}
      /\ Commit(w, [target[q.t] EXCEPT
                      !.status = Written(@, q.seen, status)])

\* The status complete_lease gives the target when it does not retry
FinalStatus(k, outcome) ==
  IF k = "CANCEL"
  THEN IF outcome \in {"ABORTED", "SUCCEEDED"} THEN "ABORTED" ELSE "FAILED"
  ELSE IF outcome \in {"ABORTED", "CANCELLED"}
  THEN IF k = "BUILD" THEN "CANCELLED" ELSE "ABORTED"
  ELSE outcome

\* complete_lease after its cancellation check
Completed(rec, k, outcome, retryable, seen, at, skip) ==
  LET w == rec.work[k]
      status == FinalStatus(k, outcome)
      good == status \in {"SUCCEEDED", "ABORTED"}
      base == IF k = "CANCEL" /\ good THEN Fence(rec, skip, {"CANCEL"})
              ELSE rec
  IN  IF RetryAllowed(retryable, outcome, w.attempts)
      THEN [rec EXCEPT
              !.status = IF k = "CANCEL" THEN rec.status
                         ELSE Written(rec.status, seen, "QUEUED"),
              !.work[k] = Closed(w, "FAILED", "PENDING",
                                 at + RetryDelay(w.attempts))]
      ELSE [base EXCEPT
              !.status = Written(rec.status, seen, status),
              !.work[k] = Closed(w, IF good THEN "COMPLETED" ELSE "FAILED",
                                 IF good THEN "DELIVERED" ELSE "FAILED", 0)]

CompleteLease(w, outcome, retryable, at) ==
  LET q == tx[w]
  IN  /\ Phase(w, "READ", "COMPLETE")
      /\ Commit(w, Completed(target[q.t], q.k, outcome, retryable, q.seen,
                             at, LockedByOthers(w, q.t)))

\* complete_lease that reads a cancellation committed since Access: it goes
\* on from a locked, fresh run when the cancellation is no longer open.
CompleteCancelled(w, outcome, retryable, at) ==
  LET q == tx[w]
      rec == target[q.t]
      skip == LockedByOthers(w, q.t)
  IN  /\ Phase(w, "ACCESS", "COMPLETE")
      /\ q.k = "START" /\ rec.cancelRequested
      /\ Commit(w, IF CancellationOpen(rec) THEN Converge(rec, skip)
                   ELSE Completed(Fence(rec, skip, {}), q.k, outcome,
                                  retryable, rec.status, at, skip))

-----------------------------------------------------------------------------
(* The execution-recovery process.  An advisory lock admits one sweep.     *)

\* Mutant: workers in the middle of a request are not skipped.
LostWorkersUnlocked ==
  {w \in FaultyWorkers :
                   /\ worker[w].status = "ACTIVE" /\ ~worker[w].pending
                   /\ worker[w].lastSeen + LostAfter <= now
                   /\ LiveOfWorker(target, w, now) # {}}

LostWorkers ==
  {w \in FaultyWorkers :
                   /\ worker[w].status = "ACTIVE" /\ ~worker[w].pending
                   /\ worker[w].lastSeen + LostAfter <= now
                   /\ tx[w].phase = "IDLE" /\ ~reap[w].open
                   /\ LiveOfWorker(target, w, now) # {}}

\* worker_batch_size of detect_lost_workers
WorkerBatchSize == IF SweepBatchSize < 16 THEN 1 ELSE SweepBatchSize \div 16

\* A sweep with nothing to do changes nothing here and is left out.
SweepBegin(lost, batch) ==
  /\ ~reap[Sweeper].open
  /\ \/ lost # {} \/ batch # {}
     \/ \E t \in Runs : CancellationOverdue(target[t], now)
  /\ BeginReaping(Sweeper, 0, lost, batch)
  /\ UNCHANGED <<now, target, worker, boots, tx>>

\* run_execution_recovery_sweep commits.
SweepCommit(late, tie) ==
  /\ reap[Sweeper].open
  /\ target' = Reap(Sweeper, late, tie)
  /\ worker' = [w \in Workers |->
       IF w \in reap[Sweeper].lost THEN [worker[w] EXCEPT !.pending = TRUE]
       ELSE worker[w]]
  /\ EndReaping(Sweeper)
  /\ UNCHANGED <<now, boots, tx>>

-----------------------------------------------------------------------------
Tenant ==
  \/ \E t \in Runs : CreateRun(t) \/ CancelRun(t)
  \/ \E t \in Builds : CreateBuild(t)
  \/ \E t \in BoundRuns : ChangePolicy(t)
  \/ RotateSecret

WorkerRequest(w) ==
  \/ RegisterWorker(w)
  \/ StartProcess(w)
  \/ \E batch \in Limited(Reapable({}), RequestBatchSize) : BeginRequest(w, batch)
  \/ \E op \in Ops, t \in Targets, k \in Kinds : Access(w, op, t, k)

FinishReaping(w) ==
  \/ RollbackReaping(w)
  \/ \E late \in Limited(Overdue(w), RequestBatchSize), tie \in Ties(w) :
       \/ \E status \in {"ACTIVE", "DRAINING"}, report \in BOOLEAN :
            Heartbeat(w, status, report, late, tie)
       \/ ClaimNothing(w, late, tie)
       \/ \E k \in Kinds, t \in Targets : Claim(w, k, t, late, tie)

FinishRequest(w) ==
  \/ FinishReaping(w)
  \/ Handle(w)
  \/ Rollback(w)
  \/ IssueEnvelope(w)
  \/ \E status \in {"STARTING", "RUNNING", "ABORTING"} : UpdateStatus(w, status)
  \/ \E at \in tx[w].at..now :
       \/ RenewLease(w, at)
       \/ \E outcome \in Outcomes, retryable \in BOOLEAN :
            \/ CompleteLease(w, outcome, retryable, at)
            \/ CompleteCancelled(w, outcome, retryable, at)

Recovery ==
  \/ \E lost \in Limited(LostWorkers, WorkerBatchSize) :
       \E batch \in Limited(Reapable(lost), SweepBatchSize) : SweepBegin(lost, batch)
  \/ \E late \in Limited(Overdue(Sweeper), SweepBatchSize), tie \in Ties(Sweeper) :
       SweepCommit(late, tie)
  \/ RollbackReaping(Sweeper)

Next ==
  \/ Tick
  \/ Tenant
  \/ \E w \in Workers : WorkerRequest(w) \/ FinishRequest(w)
  \/ Recovery

Spec == Init /\ [][Next]_vars

(***************************************************************************)
(* The API finishes or rolls back every request it began, the clock moves, *)
(* and the recovery loop keeps sweeping; a sweep may crash or pass over    *)
(* rows that are locked for a moment, but not each one forever.  Nothing   *)
(* is assumed of workers or tenants.                                       *)
(***************************************************************************)
Full(B, S, limit) == Cardinality(B) = Least(limit, Cardinality(S))

FullSweepBegin ==
  \E lost \in Limited(LostWorkers, WorkerBatchSize) :
    \E batch \in Limited(Reapable(lost), SweepBatchSize) :
      Full(batch, Reapable(lost), SweepBatchSize) /\ SweepBegin(lost, batch)

FullSweepCommit ==
  \E late \in Limited(Overdue(Sweeper), SweepBatchSize), tie \in Ties(Sweeper) :
    Full(late, Overdue(Sweeper), SweepBatchSize) /\ SweepCommit(late, tie)

Fairness ==
  /\ WF_vars(Tick)
  /\ SF_vars(FullSweepBegin)
  /\ SF_vars(FullSweepCommit)
  /\ \A w \in Workers : WF_vars(FinishRequest(w))

FairSpec == Spec /\ Fairness

-----------------------------------------------------------------------------
(* Safety.                                                                 *)

\* A row that claim_work may hand out has no lease that is still ACTIVE: no
\* order of completions, reaps, fences and claims dispatches work twice.
PendingWorkIsUnleased ==
  \A t \in Targets, k \in Kinds :
    target[t].work[k].source = "PENDING" => target[t].work[k].lease # "ACTIVE"

\* Requeueing by the reaper and by complete_lease, admission failures and
\* claims together never hand a row out more than MaxAttempts times.
AttemptsWithinBudget ==
  \A t \in Targets, k \in Kinds :
    LET w == target[t].work[k]
    IN  /\ w.attempts <= MaxAttempts
        /\ w.source = "PENDING" => w.attempts < MaxAttempts

\* No secret grant stays ISSUED once its lease is closed, whoever closed the
\* lease (completion, reaper, fence) and whatever request was open meanwhile.
GrantsEndWithLease ==
  \A t \in Targets, k \in Kinds :
    target[t].work[k].issued => target[t].work[k].lease = "ACTIVE"

\* The kind of work that executes a target
MainKind(t) == IF t \in Builds THEN "BUILD" ELSE "START"

\* What the status of a target says about its outbox row and lease
Agrees(status, w) ==
  \/ status \in {"ABSENT", "DRAFT"} /\ w = NoWork
  \/ status = "QUEUED" /\ w.source = "PENDING" /\ w.lease # "ACTIVE"
  \/ status \in {"STARTING", "RUNNING"} /\ w.source = "CLAIMED" /\ w.lease = "ACTIVE"
  \/ status \in Terminal /\ w.source \in {"DELIVERED", "FAILED"} /\ w.lease # "ACTIVE"

\* Status, outbox row and lease of a target agree as long as no cancellation
\* was requested: queued work is dispatchable, started work is leased, and
\* finished work is neither.
UncancelledWorkAgrees ==
  \A t \in Targets : ~target[t].cancelRequested =>
    /\ Agrees(target[t].status, target[t].work[MainKind(t)])
    /\ \A k \in Kinds \ {MainKind(t)} : target[t].work[k] = NoWork

\* A worker declared lost holds no valid lease until it has recovered, and a
\* delayed renewal, report or claim cannot win one back.  Its expired leases
\* may stay ACTIVE for a while: a sweep reaps a limited batch.
LostWorkerIsFenced ==
  \A w \in Workers : worker[w].pending => LiveOfWorker(target, w, now) = {}

\* A worker never holds more valid leases than its max_concurrency, although
\* claims count only the leases that are unexpired at that moment and an
\* expired lease can be renewed by a request that was already open.
WorkerWithinLimit ==
  \A w \in Workers : Cardinality(LiveOfWorker(target, w, now)) <= WorkerLimit

-----------------------------------------------------------------------------
(* Action properties.                                                      *)

\* A target that ended without a cancellation keeps its final status: no late
\* report, stale read of a reaper or retry takes it back.
TerminalIsFinal ==
  [][\A t \in Targets :
       target[t].status \in Terminal /\ ~target[t].cancelRequested
         => target'[t].status = target[t].status]_vars

-----------------------------------------------------------------------------
(* Liveness, for deadlines inside the modelled time.                       *)

\* Every lease is closed in the end, with no help from any worker: at the
\* latest the sweeper closes it after its deadline.
LeasesEnd ==
  \A t \in Targets, k \in Kinds :
    (target[t].work[k].lease = "ACTIVE" /\ target[t].work[k].deadlineAt <= MaxTime)
      ~> target[t].work[k].lease # "ACTIVE"

\* A run does not stay ABORTING past its cancellation deadline.
AbortingEnds ==
  \A t \in Runs :
    (target[t].status = "ABORTING" /\ target[t].cancelDeadline <= MaxTime)
      ~> target[t].status # "ABORTING"

-----------------------------------------------------------------------------
(* What the documents say about cancellation.                              *)

\* docs/execution-recovery/README.md: expiry of the cancellation deadline
\* "fences every active Run lease, revokes issued secret grants, cancels
\* pending/claimed commands, terminally marks the Run `ABORTED`", whatever
\* workers do.  A run that still has a lease when the modelled time ends is
\* left out.
CancellationConverges ==
  \A t \in Runs :
    (target[t].cancelRequested /\ target[t].cancelDeadline <= MaxTime)
      ~> \/ /\ target[t].status \in Terminal
            /\ \A k \in RunKinds : target[t].work[k].source \notin {"PENDING", "CLAIMED"}
         \/ \E k \in RunKinds : target[t].work[k].lease = "ACTIVE"
=============================================================================
