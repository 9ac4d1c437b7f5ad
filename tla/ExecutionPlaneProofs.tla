------------------------ MODULE ExecutionPlaneProofs ------------------------
(***************************************************************************)
(* Proofs about ExecutionPlane for any number of runs, builds, workers and *)
(* any setting Settings.validate admits.                                   *)
(*                                                                         *)
(* The record operators (Closed, Fence, Converge, ReapLease, ...) are      *)
(* treated first: each keeps RecordOK, never takes a target back to        *)
(* ABSENT, and leaves the leases in skip as they are.  The last fact is    *)
(* what makes the invariant inductive: a request that is open keeps its    *)
(* lease whatever the reapers do meanwhile.                                *)
(***************************************************************************)
EXTENDS ExecutionPlane, TLAPS

WorkOK(w) ==
  /\ w \in Work
  /\ w.lease = "ACTIVE" => w.source \notin {"PENDING", "ABSENT"}
  /\ w.issued => w.lease = "ACTIVE"
  /\ w.attempts <= MaxAttempts
  /\ w.source = "PENDING" => w.attempts < MaxAttempts
  /\ w.source = "ABSENT" => w.attempts = 0

RecordOK(rec) ==
  /\ rec \in Target
  /\ \A k \in Kinds : WorkOK(rec.work[k])
  /\ rec.status = "ABSENT" => \A k \in Kinds : rec.work[k].source = "ABSENT"

\* new is what a transaction that does not touch the leases in keep leaves
\* of old.
Follows(old, new, keep) ==
  /\ RecordOK(new)
  /\ old.status # "ABSENT" => new.status # "ABSENT"
  /\ \A k \in keep : /\ new.work[k].lease = old.work[k].lease
                     /\ new.work[k].worker = old.work[k].worker

-----------------------------------------------------------------------------
\* The backoff of execution_recovery.retry_delay_seconds is an integer.
LEMMA RetryDelayInt ==
  ASSUME NEW n \in Nat PROVE RetryDelay(n) \in Int
<1>1. 2^(n - 1) \in Int
  OBVIOUS
<1>2. RetryBase \in Int /\ RetryMax \in Int
  BY SettingsAssumption
<1>. QED  BY <1>1, <1>2 DEF RetryDelay, Least

\* Closing a lease keeps a work record well formed.
LEMMA ClosedOK ==
  ASSUME NEW w, WorkOK(w),
         NEW l \in LeaseStatuses \ {"ACTIVE"},
         NEW s \in SourceStatuses \ {"ABSENT"}, NEW at \in Int,
         s = "PENDING" => w.attempts < MaxAttempts
  PROVE  WorkOK(Closed(w, l, s, at))
BY DEF WorkOK, Closed, Work, LeaseStatuses, SourceStatuses

\* A write to the outbox row changes nothing else of a work record.
LEMMA WithSourceOK ==
  ASSUME NEW w \in Work, NEW s \in SourceStatuses, NEW at \in Int
  PROVE  LET v == WithSource(w, s, at)
         IN  /\ v \in Work /\ v.source = s /\ v.lease = w.lease
             /\ v.worker = w.worker /\ v.attempts = w.attempts
             /\ v.issued = w.issued
<1>1. WithSource(w, s, at) \in Work
  BY Zenon DEF WithSource, Work
<1>. QED  BY <1>1 DEF WithSource, Work

\* _fence_cancelled_run_leases keeps one row, its lease and its grants consistent.
LEMMA FenceWorkOK ==
  ASSUME NEW w, WorkOK(w), NEW skipped \in BOOLEAN
  PROVE  /\ WorkOK(FenceWork(w, skipped))
         /\ skipped => /\ FenceWork(w, skipped).lease = w.lease
                       /\ FenceWork(w, skipped).worker = w.worker
         /\ FenceWork(w, skipped).attempts = w.attempts
         /\ w.source = "ABSENT" => FenceWork(w, skipped).source = "ABSENT"
<1>. DEFINE command == IF w.source \in {"PENDING", "CLAIMED"} THEN "CANCELLED"
                       ELSE w.source
<1>1. command \in SourceStatuses /\ command # "PENDING"
      /\ (command = "ABSENT" <=> w.source = "ABSENT")
  BY DEF WorkOK, Work, SourceStatuses
<1>2. CASE w.lease = "ACTIVE" /\ ~skipped
  <2>1. FenceWork(w, skipped) = Closed(w, "CANCELLED", command, 0)
    BY <1>2 DEF FenceWork
  <2>2. WorkOK(Closed(w, "CANCELLED", command, 0))
    <3>1. command \in SourceStatuses \ {"ABSENT"}
      BY <1>1, <1>2 DEF WorkOK
    <3>. QED BY <3>1, <1>1, ClosedOK DEF LeaseStatuses
  <2>3. Closed(w, "CANCELLED", command, 0).attempts = w.attempts
        /\ Closed(w, "CANCELLED", command, 0).source = command
    BY DEF Closed, WorkOK, Work
  <2>. QED  BY <2>1, <2>2, <2>3, <1>1, <1>2
<1>3. CASE ~(w.lease = "ACTIVE" /\ ~skipped)
  <2>. DEFINE f == FenceWork(w, skipped)
  <2>1. f = WithSource(w, command, 0)
    BY <1>3 DEF FenceWork
  <2>. HIDE DEF command
  <2>4. /\ f \in Work /\ f.source = command /\ f.lease = w.lease
        /\ f.worker = w.worker /\ f.attempts = w.attempts /\ f.issued = w.issued
    <3>1. 0 \in Int /\ w \in Work
      BY DEF WorkOK
    <3>. QED  BY <3>1, <2>1, <1>1, WithSourceOK
  <2>. HIDE DEF f
  <2>5. WorkOK(f)
    BY <2>4, <1>1 DEF WorkOK
  <2>. QED  BY <2>4, <2>5, <1>1 DEF f
<1>. QED  BY <1>2, <1>3

\* Fencing a run keeps its record and every lease it had to skip.
LEMMA FenceOK ==
  ASSUME NEW rec, RecordOK(rec), NEW skip, NEW preserved
  PROVE  /\ Follows(rec, Fence(rec, skip, preserved), skip \cap Kinds)
         /\ Fence(rec, skip, preserved).status = rec.status
         /\ \A k \in Kinds : Fence(rec, skip, preserved).work[k].attempts
                               = rec.work[k].attempts
<1>. DEFINE F == Fence(rec, skip, preserved)
<1>1. /\ F.status = rec.status
      /\ F.work = [k \in Kinds |->
           IF k \in RunKinds \ preserved THEN FenceWork(rec.work[k], k \in skip)
           ELSE rec.work[k]]
      /\ F = [rec EXCEPT !.work = F.work]
  BY DEF Fence, RecordOK, Target
<1>2. ASSUME NEW k \in Kinds
      PROVE  /\ WorkOK(F.work[k])
             /\ k \in skip => /\ F.work[k].lease = rec.work[k].lease
                              /\ F.work[k].worker = rec.work[k].worker
             /\ F.work[k].attempts = rec.work[k].attempts
             /\ rec.work[k].source = "ABSENT" => F.work[k].source = "ABSENT"
  <2>1. WorkOK(rec.work[k])
    BY DEF RecordOK
  <2>2. CASE k \in RunKinds \ preserved
    <3>1. F.work[k] = FenceWork(rec.work[k], k \in skip)
      BY <1>1, <2>2
    <3>2. PICK old : old = rec.work[k]
      OBVIOUS
    <3>3. WorkOK(old)
      BY <2>1, <3>2
    <3>4. CASE k \in skip
      <4>1. F.work[k] = FenceWork(old, TRUE)
        BY <3>1, <3>2, <3>4, Zenon
      <4>2. PICK new : new = FenceWork(old, TRUE)
        BY Zenon
      <4>3. /\ WorkOK(new)
            /\ new.lease = old.lease /\ new.worker = old.worker
            /\ new.attempts = old.attempts
            /\ old.source = "ABSENT" => new.source = "ABSENT"
        BY <3>3, <4>2, FenceWorkOK, Zenon
      <4>. QED  BY <3>2, <4>1, <4>2, <4>3, Zenon
    <3>5. CASE k \notin skip
      <4>1. F.work[k] = FenceWork(old, FALSE)
        <5>1. (k \in skip) = FALSE
          BY <3>5
        <5>. QED  BY <3>1, <3>2, <5>1, Zenon
      <4>2. PICK new : new = FenceWork(old, FALSE)
        BY Zenon
      <4>3. /\ WorkOK(new)
            /\ new.attempts = old.attempts
            /\ old.source = "ABSENT" => new.source = "ABSENT"
        BY <3>3, <4>2, FenceWorkOK, Zenon
      <4>. QED  BY <3>2, <3>5, <4>1, <4>2, <4>3, Zenon
    <3>. QED  BY <3>4, <3>5
  <2>3. CASE k \notin RunKinds \ preserved
    BY <1>1, <2>1, <2>3
  <2>. QED  BY <2>2, <2>3
<1>3. F.work \in [Kinds -> Work]
  BY <1>1, <1>2 DEF WorkOK
<1>4. F \in Target
  BY <1>1, <1>3 DEF RecordOK, Target
<1>. QED  BY <1>1, <1>2, <1>4 DEF Follows, RecordOK

\* The three shapes of a write to one target.
LEMMA StatusWriteOK ==
  ASSUME NEW rec, RecordOK(rec), NEW s \in Statuses,
         s = "ABSENT" => rec.status = "ABSENT"
  PROVE  /\ Follows(rec, [rec EXCEPT !.status = s], Kinds)
         /\ [rec EXCEPT !.status = s].work = rec.work
         /\ [rec EXCEPT !.status = s].status = s
<1>. DEFINE new == [rec EXCEPT !.status = s]
<1>1. new \in Target
  BY Zenon DEF RecordOK, Target
<1>2. new.status = s /\ new.work = rec.work
  BY DEF RecordOK, Target
<1>. HIDE DEF new
<1>3. Follows(rec, new, Kinds)
  BY <1>1, <1>2 DEF RecordOK, Follows
<1>. QED  BY <1>2, <1>3 DEF new

\* A write to one row of a target.
LEMMA WorkWriteOK ==
  ASSUME NEW rec, RecordOK(rec), NEW k \in Kinds, NEW v, WorkOK(v),
         rec.status = "ABSENT" => v.source = "ABSENT",
         NEW keep \in SUBSET Kinds,
         k \in keep => /\ v.lease = rec.work[k].lease
                       /\ v.worker = rec.work[k].worker
  PROVE  /\ Follows(rec, [rec EXCEPT !.work[k] = v], keep)
         /\ [rec EXCEPT !.work[k] = v].work = [rec.work EXCEPT ![k] = v]
         /\ [rec EXCEPT !.work[k] = v].status = rec.status
<1>. DEFINE new == [rec EXCEPT !.work[k] = v]
<1>1. [rec.work EXCEPT ![k] = v] \in [Kinds -> Work]
  BY DEF RecordOK, Target, WorkOK
<1>2. new = [rec EXCEPT !.work = [rec.work EXCEPT ![k] = v]]
  BY DEF RecordOK, Target
<1>3. new \in Target
  BY <1>1, <1>2, Zenon DEF RecordOK, Target
<1>4. new.status = rec.status /\ new.work = [rec.work EXCEPT ![k] = v]
  BY <1>2 DEF RecordOK, Target
<1>. HIDE DEF new
<1>5. new.work[k] = v /\ \A j \in Kinds \ {k} : new.work[j] = rec.work[j]
  BY <1>4 DEF RecordOK, Target
<1>6. Follows(rec, new, keep)
  BY <1>3, <1>4, <1>5 DEF RecordOK, Follows
<1>. QED  BY <1>4, <1>6 DEF new

\* A write to the status and to one row of a target.
LEMMA BothWriteOK ==
  ASSUME NEW rec, RecordOK(rec), NEW s \in Statuses \ {"ABSENT"},
         NEW k \in Kinds, NEW v, WorkOK(v), NEW keep \in SUBSET Kinds,
         k \in keep => /\ v.lease = rec.work[k].lease
                       /\ v.worker = rec.work[k].worker
  PROVE  Follows(rec, [rec EXCEPT !.status = s, !.work[k] = v], keep)
<1>. DEFINE mid == [rec EXCEPT !.status = s]
            new == [mid EXCEPT !.work[k] = v]
<1>1. [rec EXCEPT !.status = s, !.work[k] = v] = new
  BY DEF RecordOK, Target
<1>2. Follows(rec, mid, Kinds) /\ mid.status = s /\ mid.work = rec.work
  BY StatusWriteOK
<1>3. Follows(mid, new, keep)
  <2>1. RecordOK(mid) /\ mid.status # "ABSENT" /\ mid.work = rec.work
    BY <1>2 DEF Follows
  <2>. HIDE DEF mid
  <2>. QED  BY <2>1, WorkWriteOK
<1>. HIDE DEF mid, new
<1>. QED  BY <1>1, <1>2, <1>3 DEF Follows

\* _converge_cancelled_run keeps the record and the leases it skipped.
LEMMA ConvergeOK ==
  ASSUME NEW rec, RecordOK(rec), NEW skip
  PROVE  Follows(rec, Converge(rec, skip), skip \cap Kinds)
<1>. DEFINE fenced == Fence(rec, skip, {})
<1>1. Follows(rec, fenced, skip \cap Kinds) /\ fenced.status = rec.status
  BY FenceOK
<1>2. CASE CancellationOpen(rec)
  <2>1. Converge(rec, skip) = [fenced EXCEPT !.status = "ABORTED"]
    BY <1>2 DEF Converge
  <2>. HIDE DEF fenced
  <2>2. RecordOK(fenced) /\ "ABORTED" \in Statuses
    BY <1>1 DEF Follows, Statuses, Terminal, RunTerminal
  <2>3. Follows(fenced, [fenced EXCEPT !.status = "ABORTED"], Kinds)
    BY <2>2, StatusWriteOK
  <2>. QED  BY <1>1, <2>1, <2>3 DEF Follows
<1>3. CASE ~CancellationOpen(rec)
  BY <1>1, <1>3 DEF Converge
<1>. QED  BY <1>2, <1>3

\* reap_overdue_cancellations keeps the record and the leases it skipped.
LEMMA ReapOverdueOK ==
  ASSUME NEW rec, RecordOK(rec), NEW skip, NEW at
  PROVE  Follows(rec, ReapOverdue(rec, skip, at), skip \cap Kinds)
<1>1. Follows(rec, rec, skip \cap Kinds)
  BY DEF Follows
<1>. QED  BY <1>1, ConvergeOK DEF ReapOverdue

\* _reset_expired_source closes the lease it resets and touches no other.
LEMMA ResetExpiredOK ==
  ASSUME NEW rec, RecordOK(rec), rec.status # "ABSENT", NEW k \in Kinds,
         NEW late \in BOOLEAN, NEW at \in Nat, NEW seen
  PROVE  Follows(rec, ResetExpired(rec, k, late, at, seen), Kinds \ {k})
<1>. DEFINE w == rec.work[k]
            retry == RetryAllowed(~late, "FAILED", w.attempts)
            status == IF retry
                      THEN IF k = "CANCEL" THEN seen ELSE "QUEUED"
                      ELSE IF late /\ k # "CANCEL" THEN "TIMED_OUT" ELSE "FAILED"
            s == Written(rec.status, seen, status)
            l == IF late THEN "FAILED" ELSE "EXPIRED"
            src == IF retry THEN "PENDING" ELSE "FAILED"
            when == IF retry THEN at + RetryDelay(w.attempts) ELSE 0
            v == Closed(w, l, src, when)
<1>1. ResetExpired(rec, k, late, at, seen)
        = [rec EXCEPT !.status = s, !.work[k] = v]
  BY DEF ResetExpired
<1>2. s \in Statuses \ {"ABSENT"}
  BY DEF Written, Statuses, Terminal, RunTerminal, RecordOK, Target
<1>3. WorkOK(w)
  BY DEF RecordOK
<1>4. retry => w.attempts < MaxAttempts
  BY DEF RetryAllowed
<1>5. when \in Int
  <2>1. RetryDelay(w.attempts) \in Int
    BY <1>3, RetryDelayInt DEF WorkOK, Work
  <2>. HIDE DEF w, retry
  <2>. QED  BY <2>1
<1>6. WorkOK(v)
  <2>1. l \in LeaseStatuses \ {"ACTIVE"} /\ src \in SourceStatuses \ {"ABSENT"}
        /\ (src = "PENDING" => retry)
    BY DEF LeaseStatuses, SourceStatuses
  <2>. HIDE DEF w, l, src, when, retry
  <2>. QED  BY <1>3, <1>4, <1>5, <2>1, ClosedOK
<1>. HIDE DEF s, v
<1>7. Follows(rec, [rec EXCEPT !.status = s, !.work[k] = v], Kinds \ {k})
  BY <1>2, <1>6, BothWriteOK, Zenon
<1>. QED  BY <1>1, <1>7, Zenon

\* One lease of a reaper batch, cancelled run or not.
LEMMA ReapLeaseOK ==
  ASSUME NEW rec, RecordOK(rec), rec.status # "ABSENT", NEW k \in Kinds,
         NEW skip, k \notin skip, NEW late \in BOOLEAN, NEW at \in Nat,
         NEW cancelling, NEW seen
  PROVE  Follows(rec, ReapLease(rec, k, skip, late, at, cancelling, seen),
                 skip \cap Kinds)
<1>1. CASE ~cancelling
  <2>1. Follows(rec, ResetExpired(rec, k, late, at, seen), Kinds \ {k})
    BY ResetExpiredOK
  <2>. QED  BY <1>1, <2>1 DEF ReapLease, Follows
<1>2. CASE cancelling /\ CancellationOpen(rec)
  BY <1>2, ConvergeOK DEF ReapLease
<1>3. CASE cancelling /\ ~CancellationOpen(rec)
  <2>. DEFINE fenced == Fence(rec, skip, {})
              new == ResetExpired(fenced, k, late, at, rec.status)
  <2>1. Follows(rec, fenced, skip \cap Kinds) /\ fenced.status = rec.status
    BY FenceOK
  <2>2. ReapLease(rec, k, skip, late, at, cancelling, seen) = new
    BY <1>3 DEF ReapLease
  <2>. HIDE DEF fenced
  <2>3. Follows(fenced, new, Kinds \ {k})
    BY <2>1, ResetExpiredOK DEF Follows
  <2>. HIDE DEF new
  <2>. QED  BY <2>1, <2>2, <2>3 DEF Follows
<1>. QED  BY <1>1, <1>2, <1>3

\* Keeping the locked leases is transitive over the writes of one transaction.
LEMMA FollowsTrans ==
  ASSUME NEW a, NEW b, NEW c, NEW J, NEW K, NEW L,
         Follows(a, b, J), Follows(b, c, K), L \subseteq J, L \subseteq K
  PROVE  Follows(a, c, L)
BY DEF Follows

\* A target that is not written keeps its leases.
LEMMA FollowsSelf ==
  ASSUME NEW rec, RecordOK(rec), NEW keep PROVE Follows(rec, rec, keep)
BY DEF Follows

\* All leases of one target in a reaper batch, in either order.
LEMMA ReapTargetOK ==
  ASSUME NEW rec, RecordOK(rec), NEW skip, NEW batch \in SUBSET (Kinds \ skip),
         batch # {} => rec.status # "ABSENT",
         NEW at \in Nat, NEW cancelling, NEW seen, NEW tie
  PROVE  Follows(rec, ReapTarget(rec, batch, skip, at, cancelling, seen, tie),
                 skip \cap Kinds)
<1>. DEFINE late(k) == rec.work[k].deadlineAt <= at
            one(r, k, x) == ReapLease(r, k, skip, late(k), at, cancelling, x)
            both(j, k) == LET r == one(rec, j, seen) IN one(r, k, r.status)
            R == ReapTarget(rec, batch, skip, at, cancelling, seen, tie)
<1>1. ASSUME NEW r, RecordOK(r), r.status # "ABSENT", NEW k \in batch, NEW x
      PROVE  Follows(r, one(r, k, x), skip \cap Kinds)
  <2>1. late(k) \in BOOLEAN /\ k \in Kinds /\ k \notin skip
    OBVIOUS
  <2>. HIDE DEF late
  <2>. QED  BY <1>1, <2>1, ReapLeaseOK
<1>2. ASSUME NEW j \in batch, NEW k \in batch
      PROVE  Follows(rec, both(j, k), skip \cap Kinds)
  <2>. DEFINE r == one(rec, j, seen)
  <2>1. Follows(rec, r, skip \cap Kinds)
    BY <1>1
  <2>2. RecordOK(r) /\ r.status # "ABSENT"
    BY <2>1 DEF Follows
  <2>3. Follows(r, one(r, k, r.status), skip \cap Kinds)
    <3>. HIDE DEF r, one
    <3>. QED  BY <1>1, <2>2
  <2>. HIDE DEF r, one
  <2>4. Follows(rec, one(r, k, r.status), skip \cap Kinds)
    BY <2>1, <2>3, FollowsTrans
  <2>. QED  BY <2>4 DEF r
<1>3. \/ /\ R \in {both("START", "CANCEL"), both("CANCEL", "START")}
         /\ RunKinds \subseteq batch
      \/ \E k \in batch : R = one(rec, k, seen)
      \/ R = rec
  BY Zenon DEF ReapTarget
<1>4. CASE R \in {both("START", "CANCEL"), both("CANCEL", "START")}
           /\ RunKinds \subseteq batch
  <2>1. "START" \in batch /\ "CANCEL" \in batch
    BY <1>4 DEF RunKinds
  <2>2. Follows(rec, both("START", "CANCEL"), skip \cap Kinds)
        /\ Follows(rec, both("CANCEL", "START"), skip \cap Kinds)
    BY <1>2, <2>1
  <2>. HIDE DEF both, R
  <2>3. Follows(rec, R, skip \cap Kinds)
    BY <1>4, <2>2
  <2>. QED  BY <2>3 DEF R
<1>5. CASE \E k \in batch : R = one(rec, k, seen)
  <2>1. PICK k \in batch : R = one(rec, k, seen)
    BY <1>5
  <2>2. Follows(rec, one(rec, k, seen), skip \cap Kinds)
    BY <1>1
  <2>. HIDE DEF one, R
  <2>3. Follows(rec, R, skip \cap Kinds)
    BY <2>1, <2>2
  <2>. QED  BY <2>3 DEF R
<1>6. CASE R = rec
  BY <1>6, FollowsSelf
<1>. QED  BY <1>3, <1>4, <1>5, <1>6

\* reap_expired_leases on one target: the leases, then the overdue cancellation
\* if the reaper took the run.
LEMMA ReapAllOK ==
  ASSUME NEW rec, RecordOK(rec), NEW skip, NEW batch \in SUBSET (Kinds \ skip),
         batch # {} => rec.status # "ABSENT",
         NEW at \in Nat, NEW cancelling, NEW seen, NEW tie,
         NEW new, LET r == ReapTarget(rec, batch, skip, at, cancelling, seen, tie)
                  IN  new = r \/ new = ReapOverdue(r, skip, at)
  PROVE  Follows(rec, new, skip \cap Kinds)
<1>. DEFINE r == ReapTarget(rec, batch, skip, at, cancelling, seen, tie)
<1>1. Follows(rec, r, skip \cap Kinds)
  BY ReapTargetOK
<1>0. new = r \/ new = ReapOverdue(r, skip, at)
  BY Zenon
<1>. HIDE DEF r
<1>2. Follows(r, ReapOverdue(r, skip, at), skip \cap Kinds)
  BY <1>1, ReapOverdueOK DEF Follows
<1>3. Follows(rec, ReapOverdue(r, skip, at), skip \cap Kinds)
  BY <1>1, <1>2, FollowsTrans
<1>. QED  BY <1>0, <1>1, <1>3, Zenon

-----------------------------------------------------------------------------
(* What the tenant API, claims and lease requests write.                   *)

\* A new outbox row keeps an unused work record well formed.
LEMMA PendingOK ==
  ASSUME NEW w, WorkOK(w), w.lease # "ACTIVE", w.attempts < MaxAttempts,
         NEW at \in Int
  PROVE  LET v == WithSource(w, "PENDING", at)
         IN  WorkOK(v) /\ v.lease = w.lease /\ v.worker = w.worker
<1>. DEFINE v == WithSource(w, "PENDING", at)
<1>1. /\ v \in Work /\ v.source = "PENDING" /\ v.lease = w.lease
      /\ v.worker = w.worker /\ v.attempts = w.attempts /\ v.issued = w.issued
  BY WithSourceOK DEF WorkOK, SourceStatuses
<1>. HIDE DEF v
<1>2. WorkOK(v)
  BY <1>1 DEF WorkOK
<1>. QED  BY <1>1, <1>2 DEF v

\* create_run and create_build leave a well-formed record.
LEMMA QueuedOK ==
  ASSUME NEW rec, RecordOK(rec), rec.status = "ABSENT", NEW k \in Kinds,
         now \in Nat
  PROVE  Follows(rec, Queued(rec, k), Kinds)
<1>. DEFINE w == rec.work[k]
            v == WithSource(w, "PENDING", now)
<1>1. WorkOK(w) /\ w.lease # "ACTIVE" /\ w.attempts = 0
  BY DEF RecordOK, WorkOK
<1>2. 0 < MaxAttempts
  BY SettingsAssumption
<1>3. WorkOK(v) /\ v.lease = w.lease /\ v.worker = w.worker
  <2>. HIDE DEF w
  <2>. QED  BY <1>1, <1>2, PendingOK
<1>4. Queued(rec, k) = [rec EXCEPT !.status = "QUEUED", !.work[k] = v]
  BY DEF Queued
<1>. HIDE DEF v
<1>5. Follows(rec, [rec EXCEPT !.status = "QUEUED", !.work[k] = v], Kinds)
  BY <1>3, BothWriteOK, Zenon DEF Statuses
<1>. QED  BY <1>4, <1>5, Zenon

\* The cancellation columns cancel_run writes keep the record well formed.
LEMMA CancelRequestOK ==
  ASSUME NEW rec, RecordOK(rec), now \in Nat, NEW s \in {"ABORTED", "ABORTING"}
  PROVE  /\ Follows(rec, CancelRequest(rec, s), Kinds)
         /\ CancelRequest(rec, s).work = rec.work
         /\ CancelRequest(rec, s).status = s
<1>. DEFINE new == CancelRequest(rec, s)
<1>1. now + CancelConvergence \in Nat /\ s \in Statuses /\ s # "ABSENT"
  BY SettingsAssumption DEF Statuses, Terminal, RunTerminal
<1>2. new \in Target
  BY <1>1, Zenon DEF CancelRequest, RecordOK, Target
<1>3. new.work = rec.work /\ new.status = s
  BY DEF CancelRequest, RecordOK, Target
<1>. HIDE DEF new
<1>4. Follows(rec, new, Kinds)
  BY <1>1, <1>2, <1>3 DEF RecordOK, Follows
<1>. QED  BY <1>3, <1>4 DEF new

\* _ensure_cancel_command keeps the record and its leases.
LEMMA EnsureCancelCommandOK ==
  ASSUME NEW rec, RecordOK(rec), rec.status # "ABSENT", now \in Nat
  PROVE  Follows(rec, EnsureCancelCommand(rec), Kinds)
<1>. DEFINE w == rec.work["CANCEL"]
            v == WithSource(w, "PENDING", now)
<1>1. CASE w.source # "ABSENT"
  BY <1>1, FollowsSelf DEF EnsureCancelCommand
<1>2. CASE w.source = "ABSENT"
  <2>1. WorkOK(w) /\ w.lease # "ACTIVE" /\ w.attempts = 0
    BY <1>2 DEF RecordOK, WorkOK, Kinds
  <2>2. 0 < MaxAttempts
    BY SettingsAssumption
  <2>3. WorkOK(v) /\ v.lease = w.lease /\ v.worker = w.worker
    <3>. HIDE DEF w
    <3>. QED  BY <2>1, <2>2, PendingOK
  <2>4. EnsureCancelCommand(rec) = [rec EXCEPT !.work["CANCEL"] = v]
    BY <1>2 DEF EnsureCancelCommand
  <2>. HIDE DEF v
  <2>5. Follows(rec, [rec EXCEPT !.work["CANCEL"] = v], Kinds)
    BY <2>3, WorkWriteOK DEF Kinds
  <2>. QED  BY <2>4, <2>5, Zenon
<1>. QED  BY <1>1, <1>2

\* The lease claim_work writes on a pending row is well formed and in budget.
LEMMA LeasedOK ==
  ASSUME NEW rec, RecordOK(rec), NEW k \in Kinds, NEW w \in Workers,
         rec.work[k].source = "PENDING", NEW at \in Nat,
         ClaimDeadline(rec, k, at) > at
  PROVE  Follows(rec, Leased(rec, k, w, at), Kinds \ {k})
<1>. DEFINE x == rec.work[k]
            deadline == ClaimDeadline(rec, k, at)
            until == ClampLeaseExpiry(at + LeaseSeconds, at, deadline)
            s == IF k = "CANCEL" THEN rec.status ELSE "STARTING"
            v == [source |-> "CLAIMED", attempts |-> x.attempts + 1,
                  availableAt |-> 0, lease |-> "ACTIVE", worker |-> w,
                  claimedAt |-> at, expiresAt |-> until,
                  deadlineAt |-> deadline, issued |-> x.issued]
<1>1. Leased(rec, k, w, at) = [rec EXCEPT !.status = s, !.work[k] = v]
  BY DEF Leased
<1>2. WorkOK(x) /\ rec.status # "ABSENT"
  BY DEF RecordOK
<1>3. deadline \in Nat
  BY SettingsAssumption DEF ClaimDeadline, Least, RecordOK, Target
<1>4. until \in Nat
  <2>. HIDE DEF deadline
  <2>. QED  BY <1>3, SettingsAssumption DEF ClampLeaseExpiry, Least
<1>5. s \in Statuses \ {"ABSENT"}
  BY <1>2 DEF RecordOK, Target, Statuses
<1>6. WorkOK(v)
  <2>. HIDE DEF deadline, until, x
  <2>1. x.attempts + 1 \in Nat /\ x.attempts + 1 <= MaxAttempts
    <3>1. x.attempts \in Nat /\ x.attempts < MaxAttempts /\ MaxAttempts \in Nat
      BY <1>2, SettingsAssumption DEF WorkOK, Work, x
    <3>. QED  BY <3>1
  <2>2. "CLAIMED" \in SourceStatuses /\ "ACTIVE" \in LeaseStatuses /\ 0 \in Int
    BY DEF SourceStatuses, LeaseStatuses
  <2>3. v \in Work
    BY <1>2, <1>3, <1>4, <2>1, <2>2, Zenon DEF WorkOK, Work
  <2>4. /\ v.source = "CLAIMED" /\ v.lease = "ACTIVE"
        /\ v.attempts = x.attempts + 1
    BY <1>2 DEF WorkOK, Work
  <2>. HIDE DEF v
  <2>. QED  BY <2>1, <2>3, <2>4 DEF WorkOK
<1>. HIDE DEF s, v
<1>7. Follows(rec, [rec EXCEPT !.status = s, !.work[k] = v], Kinds \ {k})
  BY <1>5, <1>6, BothWriteOK, Zenon
<1>. QED  BY <1>1, <1>7, Zenon

\* An admission failure consumes an attempt and leaves no lease.
LEMMA PolicyRevokedOK ==
  ASSUME NEW rec, RecordOK(rec), rec.work["START"].source = "PENDING"
  PROVE  Follows(rec, PolicyRevoked(rec), Kinds)
<1>. DEFINE x == rec.work["START"]
            v == [x EXCEPT !.source = "FAILED", !.attempts = x.attempts + 1,
                           !.availableAt = 0]
<1>1. PolicyRevoked(rec) = [rec EXCEPT !.status = "FAILED", !.work["START"] = v]
  BY DEF PolicyRevoked
<1>2. WorkOK(x)
  BY DEF RecordOK, Kinds
<1>. HIDE DEF x
<1>3. x.attempts + 1 \in Nat /\ x.attempts + 1 <= MaxAttempts
  <2>1. x.attempts \in Nat /\ x.attempts < MaxAttempts /\ MaxAttempts \in Nat
    BY <1>2, SettingsAssumption DEF WorkOK, Work, x
  <2>. QED  BY <2>1
<1>4. v \in Work
  <2>1. "FAILED" \in SourceStatuses /\ 0 \in Int
    BY DEF SourceStatuses
  <2>. QED  BY <1>2, <1>3, <2>1, Zenon DEF WorkOK, Work
<1>5. /\ v.source = "FAILED" /\ v.attempts = x.attempts + 1
      /\ v.lease = x.lease /\ v.worker = x.worker /\ v.issued = x.issued
  BY <1>2 DEF WorkOK, Work
<1>. HIDE DEF v
<1>6. WorkOK(v)
  BY <1>2, <1>3, <1>4, <1>5 DEF WorkOK
<1>7. Follows(rec, [rec EXCEPT !.status = "FAILED", !.work["START"] = v], Kinds)
  BY <1>5, <1>6, BothWriteOK, Zenon DEF Statuses, Terminal, RunTerminal, Kinds, x
<1>. QED  BY <1>1, <1>7, Zenon

\* A renewal or loss detection that moves expires_at keeps the record.
LEMMA ExpiryWriteOK ==
  ASSUME NEW rec, RecordOK(rec), NEW k \in Kinds, NEW until \in Nat
  PROVE  Follows(rec, [rec EXCEPT !.work[k].expiresAt = until], Kinds)
<1>. DEFINE x == rec.work[k]
            v == [x EXCEPT !.expiresAt = until]
<1>1. [rec EXCEPT !.work[k].expiresAt = until] = [rec EXCEPT !.work[k] = v]
  BY DEF RecordOK, Target
<1>2. WorkOK(x)
  BY DEF RecordOK
<1>3. v \in Work
  BY <1>2, Zenon DEF WorkOK, Work
<1>4. /\ v.source = x.source /\ v.attempts = x.attempts /\ v.lease = x.lease
      /\ v.worker = x.worker /\ v.issued = x.issued
  BY <1>2 DEF WorkOK, Work
<1>. HIDE DEF v
<1>5. WorkOK(v)
  BY <1>2, <1>3, <1>4 DEF WorkOK
<1>6. Follows(rec, [rec EXCEPT !.work[k] = v], Kinds)
  BY <1>4, <1>5, WorkWriteOK, ZenonT(30) DEF RecordOK
<1>. QED  BY <1>1, <1>6, Zenon

\* A grant on an ACTIVE lease keeps the record.
LEMMA IssuedWriteOK ==
  ASSUME NEW rec, RecordOK(rec), NEW k \in Kinds, NEW b \in BOOLEAN,
         b => rec.work[k].lease = "ACTIVE"
  PROVE  Follows(rec, [rec EXCEPT !.work[k].issued = b], Kinds)
<1>. DEFINE x == rec.work[k]
            v == [x EXCEPT !.issued = b]
<1>1. [rec EXCEPT !.work[k].issued = b] = [rec EXCEPT !.work[k] = v]
  BY DEF RecordOK, Target
<1>2. WorkOK(x)
  BY DEF RecordOK
<1>3. v \in Work
  BY <1>2, Zenon DEF WorkOK, Work
<1>4. /\ v.source = x.source /\ v.attempts = x.attempts /\ v.lease = x.lease
      /\ v.worker = x.worker /\ v.issued = b
  BY <1>2 DEF WorkOK, Work
<1>. HIDE DEF v
<1>5. WorkOK(v)
  BY <1>2, <1>3, <1>4 DEF WorkOK
<1>6. Follows(rec, [rec EXCEPT !.work[k] = v], Kinds)
  BY <1>4, <1>5, WorkWriteOK, Zenon DEF RecordOK
<1>. QED  BY <1>1, <1>6, Zenon

\* A change of the egress policy keeps the record.
LEMMA BoundWriteOK ==
  ASSUME NEW rec, RecordOK(rec)
  PROVE  Follows(rec, [rec EXCEPT !.bound = ~rec.bound], Kinds)
<1>. DEFINE new == [rec EXCEPT !.bound = ~rec.bound]
<1>1. new \in Target
  <2>1. (~rec.bound) \in BOOLEAN
    OBVIOUS
  <2>. QED  BY <2>1, Zenon DEF RecordOK, Target
<1>2. new.status = rec.status /\ new.work = rec.work
  BY DEF RecordOK, Target
<1>. HIDE DEF new
<1>3. Follows(rec, new, Kinds)
  BY <1>1, <1>2 DEF RecordOK, Follows
<1>. QED  BY <1>3 DEF new

\* complete_lease gives a target one of its statuses.
LEMMA FinalStatusOK ==
  ASSUME NEW k, NEW outcome \in Outcomes
  PROVE  FinalStatus(k, outcome) \in Statuses \ {"ABSENT"}
BY DEF FinalStatus, Outcomes, Statuses, Terminal, RunTerminal, BuildTerminal

\* complete_lease closes the lease of the request and keeps the other one.
LEMMA CompletedOK ==
  ASSUME NEW rec, RecordOK(rec), rec.status # "ABSENT", NEW k \in Kinds,
         NEW outcome \in Outcomes, NEW retryable \in BOOLEAN, NEW seen,
         NEW at \in Nat, NEW skip, k \notin skip
  PROVE  Follows(rec, Completed(rec, k, outcome, retryable, seen, at, skip),
                 skip \cap Kinds)
<1>. DEFINE w == rec.work[k]
            status == FinalStatus(k, outcome)
            good == status \in {"SUCCEEDED", "ABORTED"}
            base == IF k = "CANCEL" /\ good THEN Fence(rec, skip, {"CANCEL"})
                    ELSE rec
            C == Completed(rec, k, outcome, retryable, seen, at, skip)
<1>1. WorkOK(w)
  BY DEF RecordOK
<1>2. CASE RetryAllowed(retryable, outcome, w.attempts)
  <2>. DEFINE s == IF k = "CANCEL" THEN rec.status
                   ELSE Written(rec.status, seen, "QUEUED")
              v == Closed(w, "FAILED", "PENDING", at + RetryDelay(w.attempts))
  <2>1. C = [rec EXCEPT !.status = s, !.work[k] = v]
    BY <1>2, Zenon DEF Completed
  <2>2. s \in Statuses \ {"ABSENT"}
    BY DEF Written, Statuses, RecordOK, Target
  <2>3. WorkOK(v)
    <3>1. w.attempts < MaxAttempts
      BY <1>2 DEF RetryAllowed
    <3>2. at + RetryDelay(w.attempts) \in Int
      <4>1. RetryDelay(w.attempts) \in Int
        BY <1>1, RetryDelayInt DEF WorkOK, Work
      <4>. QED  BY <4>1
    <3>3. "FAILED" \in LeaseStatuses \ {"ACTIVE"}
          /\ "PENDING" \in SourceStatuses \ {"ABSENT"}
      BY DEF LeaseStatuses, SourceStatuses
    <3>. HIDE DEF w
    <3>. QED  BY <1>1, <3>1, <3>2, <3>3, ClosedOK
  <2>. HIDE DEF s, v, C
  <2>4. Follows(rec, [rec EXCEPT !.status = s, !.work[k] = v], skip \cap Kinds)
    BY <2>2, <2>3, BothWriteOK, Zenon
  <2>5. Follows(rec, C, skip \cap Kinds)
    BY <2>1, <2>4, Zenon
  <2>. QED  BY <2>5 DEF C
<1>3. CASE ~RetryAllowed(retryable, outcome, w.attempts)
  <2>. DEFINE s == Written(rec.status, seen, status)
              l == IF good THEN "COMPLETED" ELSE "FAILED"
              src == IF good THEN "DELIVERED" ELSE "FAILED"
              v == Closed(w, l, src, 0)
  <2>1. C = [base EXCEPT !.status = s, !.work[k] = v]
    BY <1>3, Zenon DEF Completed
  <2>2. s \in Statuses \ {"ABSENT"}
    BY FinalStatusOK DEF Written, RecordOK, Target
  <2>3. WorkOK(v)
    <3>1. l \in LeaseStatuses \ {"ACTIVE"} /\ src # "PENDING"
          /\ src \in SourceStatuses \ {"ABSENT"}
      BY DEF LeaseStatuses, SourceStatuses
    <3>. HIDE DEF w, l, src
    <3>. QED  BY <1>1, <3>1, ClosedOK
  <2>4. Follows(rec, base, skip \cap Kinds)
    <3>1. Follows(rec, Fence(rec, skip, {"CANCEL"}), skip \cap Kinds)
      BY FenceOK
    <3>2. Follows(rec, rec, skip \cap Kinds)
      BY FollowsSelf
    <3>. QED  BY <3>1, <3>2, Zenon
  <2>. HIDE DEF s, v, C, base
  <2>5. Follows(base, [base EXCEPT !.status = s, !.work[k] = v], skip \cap Kinds)
    <3>1. RecordOK(base) /\ k \notin skip \cap Kinds
          /\ (skip \cap Kinds) \in SUBSET Kinds
      BY <2>4 DEF Follows
    <3>. QED  BY <2>2, <2>3, <3>1, BothWriteOK, Zenon
  <2>6. Follows(base, C, skip \cap Kinds)
    BY <2>1, <2>5, Zenon
  <2>7. Follows(rec, C, skip \cap Kinds)
    BY <2>4, <2>6, FollowsTrans
  <2>. QED  BY <2>7 DEF C
<1>. QED  BY <1>2, <1>3

\* detect_lost_workers keeps the record and every lease it does not end.
LEMMA FenceLostOK ==
  ASSUME NEW rec, RecordOK(rec), NEW lost, NEW at \in Nat
  PROVE  /\ Follows(rec, FenceLost(rec, lost, at), Kinds)
         /\ FenceLost(rec, lost, at).status = rec.status
<1>. DEFINE F == FenceLost(rec, lost, at)
            v(k) == IF rec.work[k].worker \in lost /\ Live(rec.work[k], at)
                    THEN [rec.work[k] EXCEPT !.expiresAt = at] ELSE rec.work[k]
<1>1. /\ F.status = rec.status
      /\ F.work = [k \in Kinds |-> v(k)]
      /\ F = [rec EXCEPT !.work = F.work]
  BY DEF FenceLost, RecordOK, Target
<1>2. ASSUME NEW k \in Kinds
      PROVE  /\ WorkOK(v(k))
             /\ v(k).lease = rec.work[k].lease /\ v(k).worker = rec.work[k].worker
             /\ v(k).source = rec.work[k].source
  <2>. DEFINE x == rec.work[k]
              y == [x EXCEPT !.expiresAt = at]
  <2>1. WorkOK(x)
    BY DEF RecordOK
  <2>2. y \in Work
    BY <2>1, Zenon DEF WorkOK, Work
  <2>3. /\ y.source = x.source /\ y.attempts = x.attempts /\ y.lease = x.lease
        /\ y.worker = x.worker /\ y.issued = x.issued
    BY <2>1 DEF WorkOK, Work
  <2>4. v(k) = x \/ v(k) = y
    BY Zenon
  <2>. HIDE DEF x, y, v
  <2>5. WorkOK(y)
    BY <2>1, <2>2, <2>3 DEF WorkOK
  <2>6. /\ WorkOK(v(k)) /\ v(k).lease = x.lease /\ v(k).worker = x.worker
        /\ v(k).source = x.source
    BY <2>1, <2>3, <2>4, <2>5
  <2>. QED  BY <2>6 DEF x
<1>. HIDE DEF F, v
<1>3. F.work \in [Kinds -> Work] /\ \A k \in Kinds : F.work[k] = v(k)
  BY <1>1, <1>2 DEF WorkOK
<1>4. F \in Target
  BY <1>1, <1>3 DEF RecordOK, Target
<1>5. Follows(rec, F, Kinds)
  BY <1>1, <1>2, <1>3, <1>4 DEF Follows, RecordOK
<1>. QED  BY <1>1, <1>5 DEF F

-----------------------------------------------------------------------------
(***************************************************************************)
(* The inductive invariant.  RequestOK: a request that is open still has   *)
(* its ACTIVE lease, and no reaper has that lease in its batch.            *)
(***************************************************************************)
Batched == {i \in Items : \E p \in Reapers : i \in reap[p].batch}

RequestOK(w) ==
  LET q == tx[w]
  IN  q.phase # "IDLE" =>
        /\ q.t \in Targets
        /\ target[q.t].work[q.k].lease = "ACTIVE"
        /\ target[q.t].work[q.k].worker = w
        /\ <<q.t, q.k>> \notin Batched

IInv ==
  /\ TypeOK
  /\ \A t \in Targets : RecordOK(target[t])
  /\ \A w \in Workers : RequestOK(w)
  /\ \A i \in Batched : target[i[1]].status # "ABSENT"

LockedKinds(t) == {k \in Kinds : LockedByRequest(t, k)}

\* A step keeps IInv when every target follows from its old record and keeps
\* the leases of the requests that stay open.
LEMMA StepOK ==
  ASSUME IInv, TypeOK', NEW keep,
         \A t \in Targets : Follows(target[t], target'[t], keep[t]),
         \A u \in Workers : tx'[u].phase # "IDLE" =>
           /\ tx[u].phase # "IDLE" /\ tx'[u].t = tx[u].t /\ tx'[u].k = tx[u].k
           /\ tx[u].k \in keep[tx[u].t],
         Batched' \subseteq Batched
  PROVE  IInv'
<1>1. \A t \in Targets : RecordOK(target'[t])
  BY DEF Follows
<1>2. ASSUME NEW u \in Workers PROVE RequestOK(u)'
  <2>1. SUFFICES ASSUME tx'[u].phase # "IDLE"
                 PROVE  /\ tx'[u].t \in Targets
                        /\ target'[tx'[u].t].work[tx'[u].k].lease = "ACTIVE"
                        /\ target'[tx'[u].t].work[tx'[u].k].worker = u
                        /\ <<tx'[u].t, tx'[u].k>> \notin Batched'
    BY Zenon DEF RequestOK
  <2>2. /\ tx[u].phase # "IDLE" /\ tx'[u].t = tx[u].t /\ tx'[u].k = tx[u].k
        /\ tx[u].k \in keep[tx[u].t]
    BY <2>1
  <2>3. /\ tx[u].t \in Targets
        /\ target[tx[u].t].work[tx[u].k].lease = "ACTIVE"
        /\ target[tx[u].t].work[tx[u].k].worker = u
        /\ <<tx[u].t, tx[u].k>> \notin Batched
    BY <2>2, ZenonT(30) DEF IInv, RequestOK
  <2>4. Follows(target[tx[u].t], target'[tx[u].t], keep[tx[u].t])
    BY <2>3
  <2>. QED  BY <2>2, <2>3, <2>4, ZenonT(30) DEF Follows
<1>3. \A i \in Batched' : target'[i[1]].status # "ABSENT"
  <2>1. SUFFICES ASSUME NEW i \in Batched PROVE target'[i[1]].status # "ABSENT"
    OBVIOUS
  <2>2. i[1] \in Targets /\ target[i[1]].status # "ABSENT"
    BY <2>1 DEF IInv, Batched, Items
  <2>. QED  BY <2>2 DEF Follows
<1>. QED  BY <1>1, <1>2, <1>3 DEF IInv

\* A step that leaves the reapers alone locks no more leases.
LEMMA SameReapers ==
  ASSUME IInv, UNCHANGED reap
  PROVE  reap' \in [Reapers -> Reaping] /\ Batched' \subseteq Batched
BY DEF IInv, TypeOK, Batched

\* The common case: requests are as before and reapers lock no more leases.
LEMMA TargetStepOK ==
  ASSUME IInv, UNCHANGED tx, reap' \in [Reapers -> Reaping],
         Batched' \subseteq Batched,
         now' \in Nat, worker' \in [Workers -> Worker],
         boots' \in [Workers -> Nat],
         target' = [t \in Targets |-> target'[t]],
         \A t \in Targets : Follows(target[t], target'[t], LockedKinds(t))
  PROVE  IInv'
<1>. DEFINE keep == [t \in Targets |-> LockedKinds(t)]
<1>1. TypeOK'
  <2>1. \A t \in Targets : target'[t] \in Target
    BY DEF Follows, RecordOK
  <2>2. target' \in [Targets -> Target]
    BY <2>1
  <2>. QED  BY <2>2 DEF IInv, TypeOK
<1>2. \A t \in Targets : Follows(target[t], target'[t], keep[t])
  OBVIOUS
<1>3. \A u \in Workers : tx'[u].phase # "IDLE" =>
           /\ tx[u].phase # "IDLE" /\ tx'[u].t = tx[u].t /\ tx'[u].k = tx[u].k
           /\ tx[u].k \in keep[tx[u].t]
  <2>1. SUFFICES ASSUME NEW u \in Workers, tx[u].phase # "IDLE"
                 PROVE  tx[u].k \in keep[tx[u].t]
    OBVIOUS
  <2>2. tx[u].t \in Targets /\ tx[u].k \in Kinds
    BY <2>1, Zenon DEF IInv, RequestOK, TypeOK, Tx
  <2>3. LockedByRequest(tx[u].t, tx[u].k)
    BY <2>1 DEF LockedByRequest
  <2>. QED  BY <2>2, <2>3 DEF LockedKinds
<1>. HIDE DEF keep
<1>. QED  BY <1>1, <1>2, <1>3, StepOK

\* A step that writes no target, request or reaping.
LEMMA SameTargetsOK ==
  ASSUME IInv, UNCHANGED <<target, tx, reap>>, now' \in Nat,
         worker' \in [Workers -> Worker], boots' \in [Workers -> Nat]
  PROVE  IInv'
<1>1. target' = [t \in Targets |-> target'[t]]
  BY DEF IInv, TypeOK
<1>2. \A t \in Targets : Follows(target[t], target'[t], LockedKinds(t))
  BY FollowsSelf DEF IInv
<1>. QED  BY <1>1, <1>2, SameReapers, TargetStepOK

\* One target is rewritten and none of its leases changes hands.
LEMMA OneTargetOK ==
  ASSUME IInv, NEW t \in Targets, NEW rec, Follows(target[t], rec, Kinds),
         target' = [target EXCEPT ![t] = rec],
         UNCHANGED <<now, worker, boots, tx, reap>>
  PROVE  IInv'
<1>1. target' = [u \in Targets |-> target'[u]]
  BY ZenonT(30) DEF IInv, TypeOK
<1>2. ASSUME NEW u \in Targets
      PROVE  Follows(target[u], target'[u], LockedKinds(u))
  <2>1. CASE u = t
    BY <2>1 DEF IInv, TypeOK, Follows, LockedKinds
  <2>2. CASE u # t
    <3>1. target'[u] = target[u] /\ RecordOK(target[u])
      BY <2>2 DEF IInv, TypeOK
    <3>. QED  BY <3>1, FollowsSelf
  <2>. QED  BY <2>1, <2>2
<1>. QED  BY <1>1, <1>2, SameReapers, TargetStepOK, Zenon DEF IInv, TypeOK

\* create_run and create_build keep IInv.
LEMMA CreateOK ==
  ASSUME IInv, NEW t \in Targets,
         (t \in Runs /\ CreateRun(t)) \/ (t \in Builds /\ CreateBuild(t))
  PROVE  IInv'
<1>1. RecordOK(target[t]) /\ now \in Nat /\ target[t].status = "ABSENT"
  BY DEF IInv, TypeOK, CreateRun, CreateBuild
<1>2. UNCHANGED <<now, worker, boots, tx, reap>>
  BY DEF CreateRun, CreateBuild
<1>3. \/ \E k \in Kinds : target' = [target EXCEPT ![t] = Queued(target[t], k)]
      \/ target' = [target EXCEPT ![t] = [target[t] EXCEPT !.status = "DRAFT"]]
  <2>1. CASE CreateRun(t)
    <3>1. \/ target' = [target EXCEPT ![t] = Queued(target[t], "START")]
          \/ target' = [target EXCEPT ![t] = [target[t] EXCEPT !.status = "DRAFT"]]
      BY <2>1 DEF CreateRun
    <3>. QED  BY <3>1 DEF Kinds
  <2>2. CASE CreateBuild(t)
    <3>1. target' = [target EXCEPT ![t] = Queued(target[t], "BUILD")]
      BY <2>2 DEF CreateBuild
    <3>. QED  BY <3>1 DEF Kinds
  <2>. QED  BY <2>1, <2>2
<1>4. CASE \E k \in Kinds : target' = [target EXCEPT ![t] = Queued(target[t], k)]
  <2>1. PICK k \in Kinds : target' = [target EXCEPT ![t] = Queued(target[t], k)]
    BY <1>4, Zenon
  <2>2. Follows(target[t], Queued(target[t], k), Kinds)
    BY <1>1, QueuedOK
  <2>. QED  BY <1>2, <2>1, <2>2, OneTargetOK, Zenon
<1>5. CASE target' = [target EXCEPT ![t] = [target[t] EXCEPT !.status = "DRAFT"]]
  <2>1. Follows(target[t], [target[t] EXCEPT !.status = "DRAFT"], Kinds)
    BY <1>1, StatusWriteOK DEF Statuses
  <2>. QED  BY <1>2, <1>5, <2>1, OneTargetOK, Zenon
<1>. QED  BY <1>3, <1>4, <1>5

\* cancel_run keeps IInv.
LEMMA CancelRunOK ==
  ASSUME IInv, NEW t \in Targets, CancelRun(t)
  PROVE  IInv'
<1>. DEFINE old == target[t]
<1>1. RecordOK(old) /\ now \in Nat
  BY DEF IInv, TypeOK
<1>2. UNCHANGED <<now, worker, boots, tx, reap>>
  BY DEF CancelRun
<1>3. CASE /\ target[t].status \in {"DRAFT", "QUEUED"}
           /\ ~target[t].cancelRequested
           /\ LET rec == CancelRequest(target[t], "ABORTED")
              IN  target' = [target EXCEPT ![t] =
                    IF rec.work["START"].source = "PENDING"
                    THEN [rec EXCEPT !.work["START"] = WithSource(@, "CANCELLED", 0)]
                    ELSE rec]
  <2>. DEFINE rec == CancelRequest(old, "ABORTED")
              x == rec.work["START"]
              v == WithSource(x, "CANCELLED", 0)
              new == IF x.source = "PENDING"
                     THEN [rec EXCEPT !.work["START"] = v] ELSE rec
  <2>1. Follows(old, rec, Kinds) /\ rec.status = "ABORTED"
    BY <1>1, CancelRequestOK
  <2>2. target' = [target EXCEPT ![t] = new]
    BY <1>3
  <2>. HIDE DEF rec, old
  <2>3. RecordOK(rec) /\ WorkOK(x)
    BY <2>1 DEF Follows, RecordOK, Kinds
  <2>4. CASE x.source = "PENDING"
    <3>1. /\ v \in Work /\ v.source = "CANCELLED" /\ v.lease = x.lease
          /\ v.worker = x.worker /\ v.attempts = x.attempts /\ v.issued = x.issued
      <4>. HIDE DEF x
      <4>. QED  BY <2>3, WithSourceOK DEF WorkOK, SourceStatuses
    <3>. HIDE DEF v
    <3>2. WorkOK(v)
      BY <3>1, <2>3 DEF WorkOK
    <3>3. Follows(rec, [rec EXCEPT !.work["START"] = v], Kinds)
      BY <2>1, <2>3, <3>1, <3>2, WorkWriteOK DEF Kinds
    <3>4. Follows(old, [rec EXCEPT !.work["START"] = v], Kinds)
      BY <2>1, <3>3, FollowsTrans, Zenon
    <3>5. Follows(old, new, Kinds)
      BY <2>4, <3>4, Zenon
    <3>. QED  BY <1>2, <2>2, <3>5, OneTargetOK, Zenon DEF old
  <2>5. CASE x.source # "PENDING"
    <3>1. Follows(old, new, Kinds)
      BY <2>1, <2>5, Zenon
    <3>. QED  BY <1>2, <2>2, <3>1, OneTargetOK, Zenon DEF old
  <2>. QED  BY <2>4, <2>5
<1>4. CASE /\ target[t].status \in {"STARTING", "RUNNING"}
           /\ ~target[t].cancelRequested
           /\ target' = [target EXCEPT ![t] =
                EnsureCancelCommand(CancelRequest(target[t], "ABORTING"))]
  <2>. DEFINE rec == CancelRequest(old, "ABORTING")
  <2>1. Follows(old, rec, Kinds) /\ rec.status = "ABORTING"
    BY <1>1, CancelRequestOK
  <2>2. target' = [target EXCEPT ![t] = EnsureCancelCommand(rec)]
    BY <1>4
  <2>. HIDE DEF rec, old
  <2>3. Follows(rec, EnsureCancelCommand(rec), Kinds)
    BY <1>1, <2>1, EnsureCancelCommandOK DEF Follows
  <2>4. Follows(old, EnsureCancelCommand(rec), Kinds)
    BY <2>1, <2>3, FollowsTrans, Zenon
  <2>. QED  BY <1>2, <2>2, <2>4, OneTargetOK, Zenon DEF old
<1>5. CASE /\ target[t].status = "ABORTING"
           /\ target' = [target EXCEPT ![t] = EnsureCancelCommand(target[t])]
  <2>1. Follows(old, EnsureCancelCommand(old), Kinds)
    BY <1>1, <1>5, EnsureCancelCommandOK
  <2>. QED  BY <1>2, <1>5, <2>1, OneTargetOK, Zenon
<1>. QED  BY <1>3, <1>4, <1>5 DEF CancelRun

\* replace_project_secret, which revokes issued grants, keeps IInv.
LEMMA RotateSecretOK ==
  ASSUME IInv, RotateSecret PROVE IInv'
<1>1. PICK T \in SUBSET Runs : target' = [t \in Targets |->
         IF t \in T THEN [target[t] EXCEPT !.work["START"].issued = FALSE]
         ELSE target[t]]
  BY Zenon DEF RotateSecret
<1>2. ASSUME NEW t \in Targets
      PROVE  Follows(target[t], target'[t], LockedKinds(t))
  <2>1. RecordOK(target[t])
    BY DEF IInv
  <2>2. Follows(target[t], [target[t] EXCEPT !.work["START"].issued = FALSE], Kinds)
    BY <2>1, IssuedWriteOK, Zenon DEF Kinds
  <2>3. Follows(target[t], target[t], Kinds)
    BY <2>1, FollowsSelf
  <2>4. Follows(target[t], target'[t], Kinds)
    BY <1>1, <2>2, <2>3, Zenon
  <2>. QED  BY <2>4, Zenon DEF Follows, LockedKinds
<1>3. target' = [t \in Targets |-> target'[t]]
  BY <1>1
<1>4. UNCHANGED <<now, worker, boots, tx, reap>>
  BY DEF RotateSecret
<1>. QED  BY <1>2, <1>3, <1>4, SameReapers, TargetStepOK DEF IInv, TypeOK

\* A change of the egress policy keeps IInv.
LEMMA ChangePolicyOK ==
  ASSUME IInv, NEW t \in Targets, ChangePolicy(t) PROVE IInv'
<1>. DEFINE rec == [target[t] EXCEPT !.bound = ~target[t].bound]
<1>1. Follows(target[t], rec, Kinds)
  BY BoundWriteOK DEF IInv
<1>2. target' = [target EXCEPT ![t] = rec]
  BY DEF ChangePolicy, IInv, TypeOK
<1>. QED  BY <1>1, <1>2, OneTargetOK, Zenon DEF ChangePolicy

\* A leased row exists.
LEMMA LeasedIsPresent ==
  ASSUME NEW rec, RecordOK(rec), NEW k \in Kinds, rec.work[k].lease = "ACTIVE"
  PROVE  rec.status # "ABSENT"
BY DEF RecordOK, WorkOK

-----------------------------------------------------------------------------
(* Reapers.                                                                *)

\* A reaper that begins locks only ACTIVE leases, so leases of existing
\* targets, and none that an open request holds.
LEMMA BeginReapingOK ==
  ASSUME IInv, NEW p \in Reapers, NEW boot \in Nat, NEW lost \in SUBSET Workers,
         NEW batch \in SUBSET Reapable(lost), BeginReaping(p, boot, lost, batch),
         UNCHANGED <<now, target, worker, boots, tx>>
  PROVE  IInv'
<1>. DEFINE mine == {i[1] : i \in batch}
            seen == [t \in Targets |-> IF t \in mine THEN target[t].status
                                      ELSE "ABSENT"]
            cancelling == {t \in mine : target[t].cancelRequested}
            new == [open |-> TRUE, at |-> now, boot |-> boot, lost |-> lost,
                    batch |-> batch, seen |-> seen, cancelling |-> cancelling]
<1>1. reap' = [reap EXCEPT ![p] = new]
  BY Zenon DEF BeginReaping
<1>2. /\ batch \subseteq Items
      /\ \A i \in batch : ~LockedByRequest(i[1], i[2])
  BY DEF Reapable, Locked
<1>3. ASSUME NEW i \in batch PROVE target[i[1]].status # "ABSENT"
  <2>. DEFINE rec == target[i[1]]
              f == FenceLost(rec, lost, now)
  <2>1. RecordOK(rec) /\ now \in Nat /\ i[2] \in Kinds
    BY <1>2, <1>3, Zenon DEF IInv, TypeOK, Items
  <2>2. f.work[i[2]].lease = "ACTIVE"
    BY <1>3 DEF Reapable, Expired
  <2>. HIDE DEF rec
  <2>3. Follows(rec, f, Kinds)
    BY <2>1, FenceLostOK
  <2>. HIDE DEF f
  <2>4. rec.work[i[2]].lease = "ACTIVE"
    BY <2>1, <2>2, <2>3 DEF Follows
  <2>5. rec.status # "ABSENT"
    BY <2>1, <2>4, LeasedIsPresent
  <2>. QED  BY <2>5, Zenon DEF rec
<1>4. new \in Reaping
  <2>1. seen \in [Targets -> Statuses]
    BY DEF IInv, TypeOK, Target, Statuses
  <2>2. cancelling \subseteq Targets
    BY <1>2 DEF Items
  <2>. HIDE DEF seen, cancelling
  <2>. QED  BY <1>2, <2>1, <2>2, Zenon DEF Reaping, IInv, TypeOK, Items
<1>5. new.batch = batch
  OBVIOUS
<1>. HIDE DEF new
<1>6. reap' \in [Reapers -> Reaping]
  BY <1>1, <1>4, Zenon DEF IInv, TypeOK
<1>7. Batched' \subseteq Batched \cup batch
  <2>1. \A q \in Reapers : reap'[q] = IF q = p THEN new ELSE reap[q]
    BY <1>1, Zenon DEF IInv, TypeOK
  <2>. QED  BY <1>5, <2>1 DEF Batched
<1>8. ASSUME NEW u \in Workers PROVE RequestOK(u)'
  <2>1. RequestOK(u)
    BY DEF IInv
  <2>2. tx[u].phase # "IDLE" => LockedByRequest(tx[u].t, tx[u].k)
    BY DEF LockedByRequest
  <2>3. tx[u].phase # "IDLE" => <<tx[u].t, tx[u].k>> \notin batch
    BY <1>2, <2>2
  <2>. QED  BY <1>7, <2>1, <2>3, ZenonT(30) DEF RequestOK
<1>9. \A i \in Batched' : target'[i[1]].status # "ABSENT"
  BY <1>3, <1>7 DEF IInv
<1>. QED  BY <1>6, <1>8, <1>9, ZenonT(30) DEF IInv, TypeOK

\* A closed reaping is well typed and locks nothing.
LEMMA NoReapingType == NoReaping \in Reaping /\ NoReaping.batch = {}
BY Zenon DEF NoReaping, Reaping, Statuses

\* The end of a reaping releases its locks.
LEMMA EndReapingOK ==
  ASSUME IInv, NEW p \in Reapers, EndReaping(p)
  PROVE  reap' \in [Reapers -> Reaping] /\ Batched' \subseteq Batched
<1>1. reap' = [reap EXCEPT ![p] = NoReaping]
  BY DEF EndReaping
<1>2. reap' \in [Reapers -> Reaping]
  BY <1>1, NoReapingType, Zenon DEF IInv, TypeOK
<1>3. \A q \in Reapers : reap'[q] = IF q = p THEN NoReaping ELSE reap[q]
  BY <1>1, Zenon DEF IInv, TypeOK
<1>4. Batched' \subseteq Batched
  BY <1>3, NoReapingType DEF Batched
<1>. QED  BY <1>2, <1>4

\* Rolling a reaping back changes no row.
LEMMA RollbackReapingOK ==
  ASSUME IInv, NEW p \in Reapers, RollbackReaping(p) PROVE IInv'
<1>1. EndReaping(p) /\ UNCHANGED <<now, target, worker, boots, tx>>
  BY DEF RollbackReaping
<1>2. target' = [t \in Targets |-> target'[t]]
  BY <1>1 DEF IInv, TypeOK
<1>3. \A t \in Targets : Follows(target[t], target'[t], LockedKinds(t))
  BY <1>1, FollowsSelf DEF IInv
<1>. QED  BY <1>1, <1>2, <1>3, EndReapingOK, TargetStepOK, Zenon DEF IInv, TypeOK

\* What a reaper makes of one target keeps the leases of open requests.
LEMMA ReapedOK ==
  ASSUME IInv, NEW p \in Reapers, NEW t \in Targets, NEW late, NEW tie
  PROVE  Follows(target[t], Reaped(p, t, late, tie), LockedKinds(t))
<1>. DEFINE q == reap[p]
            old == target[t]
            batch == {k \in Kinds : <<t, k>> \in q.batch}
            skip == {k \in Kinds \ batch : \/ LockedByRequest(t, k)
                                           \/ LockedByReapers(Reapers \ {p}, t, k)}
            rec == FenceLost(old, q.lost, q.at)
            r == ReapTarget(rec, batch, skip, q.at, t \in q.cancelling,
                            q.seen[t], tie)
            new == Reaped(p, t, late, tie)
<1>1. new = r \/ new = ReapOverdue(r, skip, q.at)
  BY Zenon DEF Reaped
<1>2. RecordOK(old) /\ q.at \in Nat
  BY DEF IInv, TypeOK, Reaping
<1>3. batch \in SUBSET (Kinds \ skip)
  OBVIOUS
<1>4. \A k \in batch : <<t, k>> \in Batched
  BY DEF Batched, Items
<1>5. LockedKinds(t) \subseteq skip \cap Kinds
  <2>1. ASSUME NEW k \in LockedKinds(t) PROVE <<t, k>> \notin Batched
    BY <2>1 DEF LockedKinds, LockedByRequest, IInv, RequestOK
  <2>. QED  BY <1>4, <2>1 DEF LockedKinds
<1>6. batch # {} => old.status # "ABSENT"
  <2>1. ASSUME NEW k \in batch PROVE old.status # "ABSENT"
    BY <1>4, <2>1, Zenon DEF IInv
  <2>. QED  BY <2>1
<1>. HIDE DEF q, old, skip, batch, new
<1>7. Follows(old, rec, Kinds) /\ rec.status = old.status
  BY <1>2, FenceLostOK
<1>. HIDE DEF rec
<1>8. Follows(rec, new, skip \cap Kinds)
  <2>1. RecordOK(rec) /\ (batch # {} => rec.status # "ABSENT")
    BY <1>6, <1>7 DEF Follows
  <2>. QED  BY <1>1, <1>2, <1>3, <2>1, ReapAllOK
<1>9. Follows(old, new, LockedKinds(t))
  BY <1>5, <1>7, <1>8 DEF Follows
<1>. QED  BY <1>9, Zenon DEF old, new

\* The same of all targets.
LEMMA ReapOK ==
  ASSUME IInv, NEW p \in Reapers, NEW late, NEW tie
  PROVE  /\ Reap(p, late, tie) = [t \in Targets |-> Reap(p, late, tie)[t]]
         /\ \A t \in Targets : Follows(target[t], Reap(p, late, tie)[t], LockedKinds(t))
<1>1. \A t \in Targets : Reap(p, late, tie)[t] = Reaped(p, t, late, tie)
  BY DEF Reap
<1>2. Reap(p, late, tie) = [t \in Targets |-> Reap(p, late, tie)[t]]
  BY DEF Reap
<1>. QED  BY <1>1, <1>2, ReapedOK

-----------------------------------------------------------------------------
(* Heartbeats and claims.                                                  *)

\* Workers reap.
LEMMA WorkerReaps == ASSUME NEW w \in Workers PROVE w \in Reapers
BY DEF Reapers

\* last_seen_at is a natural number.
LEMMA SeenNat ==
  ASSUME NEW w, NEW at \in Nat PROVE Seen(w, at) \in Nat
BY DEF Seen

\* Writing last_seen_at keeps the worker rows well typed.
LEMMA LastSeenOK ==
  ASSUME IInv, NEW w \in Workers, NEW at \in Nat
  PROVE  [worker EXCEPT ![w].lastSeen = Seen(w, at)] \in [Workers -> Worker]
<1>. DEFINE n == Seen(w, at)
<1>1. n \in Nat
  BY SeenNat
<1>. HIDE DEF n
<1>2. [worker[w] EXCEPT !.lastSeen = n] \in Worker
  BY <1>1, Zenon DEF IInv, TypeOK, Worker
<1>3. [worker EXCEPT ![w].lastSeen = n] = [worker EXCEPT ![w] = [worker[w] EXCEPT !.lastSeen = n]]
  BY DEF IInv, TypeOK
<1>4. [worker EXCEPT ![w].lastSeen = n] \in [Workers -> Worker]
  BY <1>2, <1>3 DEF IInv, TypeOK
<1>. QED  BY <1>4 DEF n

\* register_worker keeps IInv.
LEMMA RegisterWorkerOK ==
  ASSUME IInv, NEW w \in Workers, RegisterWorker(w) PROVE IInv'
<1>. DEFINE n == Seen(w, now)
            rec == [worker[w] EXCEPT !.status = "ACTIVE", !.lastSeen = n]
<1>1. n \in Nat
  BY SeenNat DEF IInv, TypeOK
<1>2. worker' = [worker EXCEPT ![w] = rec]
  BY Zenon DEF RegisterWorker, IInv, TypeOK
<1>. HIDE DEF n
<1>3. rec \in Worker
  BY <1>1, Zenon DEF IInv, TypeOK, Worker
<1>. HIDE DEF rec
<1>4. worker' \in [Workers -> Worker]
  BY <1>2, <1>3, Zenon DEF IInv, TypeOK
<1>. QED  BY <1>4, SameTargetsOK DEF RegisterWorker, IInv, TypeOK

\* A restart of a worker process keeps IInv.
LEMMA StartProcessOK ==
  ASSUME IInv, NEW w \in Workers, StartProcess(w) PROVE IInv'
<1>1. boots' \in [Workers -> Nat]
  BY DEF StartProcess, IInv, TypeOK
<1>. QED  BY <1>1, SameTargetsOK DEF StartProcess, IInv, TypeOK

\* A request that begins to reap keeps IInv.
LEMMA BeginRequestOK ==
  ASSUME IInv, NEW w \in Workers, NEW batch \in SUBSET Reapable({}),
         BeginRequest(w, batch)
  PROVE  IInv'
<1>1. boots[w] \in Nat /\ w \in Reapers
  BY WorkerReaps DEF IInv, TypeOK
<1>2. /\ BeginReaping(w, boots[w], {}, batch)
      /\ UNCHANGED <<now, target, worker, boots, tx>>
  BY DEF BeginRequest
<1>. QED  BY <1>1, <1>2, BeginReapingOK

\* heartbeat_worker, with the reaping at its end, keeps IInv.
LEMMA HeartbeatOK ==
  ASSUME IInv, NEW w \in Workers, NEW status \in {"ACTIVE", "DRAINING"},
         NEW report \in BOOLEAN, NEW late, NEW tie,
         Heartbeat(w, status, report, late, tie)
  PROVE  IInv'
<1>0. reap[w] \in Reaping /\ w \in Reapers
  BY WorkerReaps DEF IInv, TypeOK
<1>1. worker' \in [Workers -> Worker]
  <2>. DEFINE me == worker[w]
              boot == reap[w].boot
              rec == [status |-> status, lastSeen |-> Seen(w, reap[w].at),
                      pending |-> me.pending /\ ~report,
                      reported |-> IF report THEN boot ELSE me.reported]
  <2>1. worker' = [worker EXCEPT ![w] = rec]
    BY Zenon DEF Heartbeat
  <2>2. Seen(w, reap[w].at) \in Nat /\ boot \in Nat /\ me.reported \in Nat
    BY <1>0, SeenNat DEF IInv, TypeOK, Worker, Reaping
  <2>3. rec \in Worker
    BY <2>2, Zenon DEF Worker
  <2>. HIDE DEF rec
  <2>. QED  BY <2>1, <2>3, Zenon DEF IInv, TypeOK
<1>2. target' = Reap(w, late, tie) /\ EndReaping(w) /\ UNCHANGED <<now, boots, tx>>
  BY Zenon DEF Heartbeat
<1>3. now \in Nat /\ boots \in [Workers -> Nat]
  BY DEF IInv, TypeOK
<1>. QED  BY <1>0, <1>1, <1>2, <1>3, ReapOK, EndReapingOK, TargetStepOK

\* claim_work that leases nothing keeps IInv.
LEMMA ClaimNothingOK ==
  ASSUME IInv, NEW w \in Workers, NEW late, NEW tie, ClaimNothing(w, late, tie)
  PROVE  IInv'
<1>1. now \in Nat /\ boots \in [Workers -> Nat] /\ w \in Reapers
  BY WorkerReaps DEF IInv, TypeOK
<1>2. worker' \in [Workers -> Worker]
  <2>1. reap[w].at \in Nat
    BY <1>1 DEF IInv, TypeOK, Reaping
  <2>. QED  BY <2>1, LastSeenOK DEF ClaimNothing
<1>3. target' = Reap(w, late, tie) /\ EndReaping(w) /\ UNCHANGED <<now, boots, tx>>
  BY DEF ClaimNothing
<1>. QED  BY <1>1, <1>2, <1>3, ReapOK, EndReapingOK, TargetStepOK

\* claim_work that leases a row or fails it at admission keeps IInv.
LEMMA ClaimOK ==
  ASSUME IInv, NEW w \in Workers, NEW k \in Kinds, NEW t \in Targets,
         NEW late, NEW tie, Claim(w, k, t, late, tie)
  PROVE  IInv'
<1>. DEFINE T == Reap(w, late, tie)
            rec == T[t]
            at == reap[w].at
<1>1. now \in Nat /\ boots \in [Workers -> Nat] /\ w \in Reapers /\ at \in Nat
  BY WorkerReaps DEF IInv, TypeOK, Reaping
<1>2. /\ worker' \in [Workers -> Worker] /\ UNCHANGED <<now, boots, tx>>
      /\ reap' \in [Reapers -> Reaping] /\ Batched' \subseteq Batched
  BY <1>1, LastSeenOK, EndReapingOK DEF Claim
<1>3. T = [u \in Targets |-> T[u]]
      /\ \A u \in Targets : Follows(target[u], T[u], LockedKinds(u))
  BY <1>1, ReapOK
<1>4. rec.work[k].source = "PENDING"
  BY DEF Claim, Claimable
<1>5. \/ k = "START" /\ target' = [T EXCEPT ![t] = PolicyRevoked(rec)]
      \/ ClaimDeadline(rec, k, at) > at /\ target' = [T EXCEPT ![t] = Leased(rec, k, w, at)]
  BY DEF Claim
<1>. HIDE DEF T, at
<1>6. RecordOK(rec) /\ Follows(target[t], rec, LockedKinds(t))
  BY <1>3, Zenon DEF Follows
<1>7. k \notin LockedKinds(t)
  <2>1. SUFFICES ASSUME k \in LockedKinds(t) PROVE FALSE
    OBVIOUS
  <2>2. target[t].work[k].lease = "ACTIVE"
    BY <2>1, ZenonT(30) DEF LockedKinds, LockedByRequest, IInv, RequestOK
  <2>3. rec.work[k].lease = "ACTIVE"
    BY <1>6, <2>1, <2>2 DEF Follows
  <2>. QED  BY <1>4, <1>6, <2>3 DEF RecordOK, WorkOK
<1>8. \E new : /\ target' = [T EXCEPT ![t] = new]
               /\ Follows(rec, new, Kinds \ {k})
  <2>1. CASE k = "START" /\ target' = [T EXCEPT ![t] = PolicyRevoked(rec)]
    <3>1. Follows(rec, PolicyRevoked(rec), Kinds)
      BY <1>4, <1>6, <2>1, PolicyRevokedOK
    <3>. QED  BY <2>1, <3>1, ZenonT(30) DEF Follows
  <2>2. CASE /\ ClaimDeadline(rec, k, at) > at
             /\ target' = [T EXCEPT ![t] = Leased(rec, k, w, at)]
    <3>1. Follows(rec, Leased(rec, k, w, at), Kinds \ {k})
      <4>. HIDE DEF rec
      <4>. QED  BY <1>1, <1>4, <1>6, <2>2, LeasedOK
    <3>. QED  BY <2>2, <3>1, Zenon
  <2>. QED  BY <1>5, <2>1, <2>2
<1>9. PICK new : /\ target' = [T EXCEPT ![t] = new]
                 /\ Follows(rec, new, Kinds \ {k})
  BY <1>8, Zenon
<1>10. ASSUME NEW u \in Targets
       PROVE  Follows(target[u], target'[u], LockedKinds(u))
  <2>1. CASE u = t
    <3>1. LockedKinds(t) \subseteq Kinds \ {k}
      BY <1>7 DEF LockedKinds
    <3>2. Follows(target[t], new, LockedKinds(t))
      <4>. HIDE DEF rec
      <4>. QED  BY <1>6, <1>9, <3>1, FollowsTrans
    <3>3. target'[t] = new
      BY <1>3, <1>9
    <3>. QED  BY <2>1, <3>2, <3>3
  <2>2. CASE u # t
    <3>1. target'[u] = T[u]
      BY <1>3, <1>9, <2>2
    <3>. QED  BY <1>3, <3>1
  <2>. QED  BY <2>1, <2>2
<1>11. target' = [u \in Targets |-> target'[u]]
  BY <1>3, <1>9
<1>. QED  BY <1>1, <1>2, <1>10, <1>11, TargetStepOK, Zenon

-----------------------------------------------------------------------------
(* Lease requests.                                                         *)

\* An idle request is well typed.
LEMMA NoTxType == NoTx \in Tx
BY Zenon DEF NoTx, Tx, Ops, Kinds, Statuses

\* A request that stays on its lease, or ends, while no target is written.
LEMMA RequestKept ==
  ASSUME NEW u, RequestOK(u), UNCHANGED target, Batched' \subseteq Batched,
         tx'[u].phase # "IDLE" =>
           tx[u].phase # "IDLE" /\ tx'[u].t = tx[u].t /\ tx'[u].k = tx[u].k
  PROVE  RequestOK(u)'
<1>1. SUFFICES ASSUME tx'[u].phase # "IDLE"
               PROVE  /\ tx'[u].t \in Targets
                      /\ target'[tx'[u].t].work[tx'[u].k].lease = "ACTIVE"
                      /\ target'[tx'[u].t].work[tx'[u].k].worker = u
                      /\ <<tx'[u].t, tx'[u].k>> \notin Batched'
  BY Zenon DEF RequestOK
<1>2. tx[u].phase # "IDLE" /\ tx'[u].t = tx[u].t /\ tx'[u].k = tx[u].k
  BY <1>1
<1>3. /\ tx[u].t \in Targets
      /\ target[tx[u].t].work[tx[u].k].lease = "ACTIVE"
      /\ target[tx[u].t].work[tx[u].k].worker = u
      /\ <<tx[u].t, tx[u].k>> \notin Batched
  BY <1>2, Zenon DEF RequestOK
<1>. QED  BY <1>2, <1>3

\* require_lease_access locks an ACTIVE lease: RequestOK holds of the new request.
LEMMA AccessOK ==
  ASSUME IInv, NEW w \in Workers, NEW op \in Ops, NEW t \in Targets,
         NEW k \in Kinds, Access(w, op, t, k)
  PROVE  IInv'
<1>. DEFINE q == [phase |-> "ACCESS", op |-> op, t |-> t, k |-> k,
                  at |-> now, seen |-> "ABSENT"]
<1>1. /\ tx' = [tx EXCEPT ![w] = q]
      /\ target[t].work[k].worker = w /\ target[t].work[k].lease = "ACTIVE"
      /\ <<t, k>> \notin Batched
      /\ UNCHANGED <<now, target, worker, boots, reap>>
  BY Zenon DEF Access, Live, LockedByReapers, LockedByReaper, Batched
<1>0. Batched' = Batched
  BY <1>1 DEF Batched
<1>2. q \in Tx
  <2>1. now \in Nat
    BY DEF IInv, TypeOK
  <2>. QED  BY <2>1 DEF Tx, Statuses
<1>3. TypeOK'
  <2>. HIDE DEF q
  <2>. QED  BY <1>1, <1>2 DEF IInv, TypeOK
<1>4. ASSUME NEW u \in Workers PROVE RequestOK(u)'
  <2>1. CASE u = w
    <3>1. tx'[u] = q
      BY <1>1, <2>1 DEF IInv, TypeOK
    <3>2. tx'[u].t = t /\ tx'[u].k = k
      BY <3>1
    <3>3. target'[t].work[k].worker = u /\ target'[t].work[k].lease = "ACTIVE"
      BY <1>1, <2>1
    <3>4. <<t, k>> \notin Batched'
      BY <1>1 DEF Batched
    <3>. QED  BY <3>2, <3>3, <3>4, Zenon DEF RequestOK
  <2>2. CASE u # w
    <3>1. tx'[u] = tx[u] /\ RequestOK(u)
      BY <1>1, <2>2, ZenonT(30) DEF IInv, TypeOK
    <3>. QED  BY <1>0, <1>1, <3>1, RequestKept
  <2>. QED  BY <2>1, <2>2, Zenon
<1>. QED  BY <1>0, <1>1, <1>3, <1>4, Zenon DEF IInv

\* A request moves on or ends and nothing else changes.
LEMMA TxStepOK ==
  ASSUME IInv, NEW w \in Workers, NEW q \in Tx,
         q.phase # "IDLE" => /\ tx[w].phase # "IDLE"
                            /\ q.t = tx[w].t /\ q.k = tx[w].k,
         tx' = [tx EXCEPT ![w] = q],
         UNCHANGED <<now, target, worker, boots, reap>>
  PROVE  IInv'
<1>1. TypeOK'
  BY DEF IInv, TypeOK
<1>0. Batched' = Batched
  BY DEF Batched
<1>2. ASSUME NEW u \in Workers PROVE RequestOK(u)'
  <2>1. RequestOK(u)
    BY Zenon DEF IInv
  <2>2. CASE u = w
    <3>1. tx'[u] = q
      BY <2>2 DEF IInv, TypeOK
    <3>. QED  BY <1>0, <2>1, <2>2, <3>1, RequestKept
  <2>3. CASE u # w
    <3>1. tx'[u] = tx[u]
      BY <2>3 DEF IInv, TypeOK
    <3>. QED  BY <1>0, <2>1, <3>1, RequestKept
  <2>. QED  BY <2>2, <2>3
<1>. QED  BY <1>0, <1>1, <1>2, ZenonT(30) DEF IInv

\* The unlocked read of a target keeps IInv.
LEMMA HandleOK ==
  ASSUME IInv, NEW w \in Workers, Handle(w) PROVE IInv'
<1>. DEFINE s == target[tx[w].t].status
            q == [tx[w] EXCEPT !.phase = "READ", !.seen = s]
<1>1. tx[w] \in Tx /\ RequestOK(w) /\ tx[w].phase # "IDLE"
  BY DEF IInv, TypeOK, Handle
<1>2. s \in Statuses
  BY <1>1, Zenon DEF RequestOK, IInv, TypeOK, Target
<1>3. tx' = [tx EXCEPT ![w] = q] /\ UNCHANGED <<now, target, worker, boots, reap>>
  BY Zenon DEF Handle, IInv, TypeOK
<1>. HIDE DEF s
<1>4. q \in Tx
  BY <1>1, <1>2, Zenon DEF Tx
<1>5. q.t = tx[w].t /\ q.k = tx[w].k
  BY <1>1 DEF Tx
<1>. HIDE DEF q
<1>. QED  BY <1>1, <1>3, <1>4, <1>5, TxStepOK, Zenon

\* A rolled-back request keeps IInv.
LEMMA RollbackOK ==
  ASSUME IInv, NEW w \in Workers, Rollback(w) PROVE IInv'
BY NoTxType, TxStepOK, Zenon DEF Rollback, NoTx

\* A request that commits a well-formed record of its own target keeps IInv.
LEMMA CommitOK ==
  ASSUME IInv, NEW w \in Workers, tx[w].phase # "IDLE", NEW rec,
         Follows(target[tx[w].t], rec, LockedByOthers(w, tx[w].t)), Commit(w, rec)
  PROVE  IInv'
<1>. DEFINE t == tx[w].t
            keep == [u \in Targets |-> IF u = t THEN LockedByOthers(w, t) ELSE Kinds]
<1>1. /\ target' = [target EXCEPT ![t] = rec]
      /\ tx' = [tx EXCEPT ![w] = NoTx]
      /\ UNCHANGED <<now, boots, reap>>
      /\ worker' = [worker EXCEPT ![w].lastSeen = Seen(w, tx[w].at)]
  BY DEF Commit
<1>2. t \in Targets /\ tx[w].at \in Nat
  BY Zenon DEF IInv, RequestOK, TypeOK, Tx
<1>3. \A u \in Targets : target'[u] = IF u = t THEN rec ELSE target[u]
  BY <1>1, Zenon DEF IInv, TypeOK
<1>4. \A u \in Targets : Follows(target[u], target'[u], keep[u])
  <2>1. ASSUME NEW u \in Targets PROVE Follows(target[u], target'[u], keep[u])
    <3>1. CASE u = t
      BY <1>3, <3>1
    <3>2. CASE u # t
      <4>1. target'[u] = target[u] /\ RecordOK(target[u])
        BY <1>3, <3>2 DEF IInv
      <4>. QED  BY <4>1, FollowsSelf
    <3>. QED  BY <3>1, <3>2
  <2>. QED  BY <2>1
<1>5. TypeOK'
  <2>1. worker' \in [Workers -> Worker]
    BY <1>1, <1>2, LastSeenOK
  <2>2. tx' \in [Workers -> Tx]
    BY <1>1, NoTxType DEF IInv, TypeOK
  <2>3. target' \in [Targets -> Target]
    <3>1. rec \in Target
      BY Zenon DEF Follows, RecordOK
    <3>. QED  BY <1>1, <3>1, Zenon DEF IInv, TypeOK
  <2>. QED  BY <1>1, <2>1, <2>2, <2>3 DEF IInv, TypeOK
<1>6. ASSUME NEW u \in Workers, tx'[u].phase # "IDLE"
      PROVE  /\ tx[u].phase # "IDLE" /\ tx'[u].t = tx[u].t /\ tx'[u].k = tx[u].k
             /\ tx[u].k \in keep[tx[u].t]
  <2>1. u # w
    BY <1>1, <1>6 DEF IInv, TypeOK, NoTx
  <2>2. tx'[u] = tx[u]
    BY <1>1, <2>1, Zenon DEF IInv, TypeOK
  <2>3. RequestOK(u) /\ RequestOK(w) /\ tx[u].phase # "IDLE" /\ tx[u].k \in Kinds
    BY <1>6, <2>2, Zenon DEF IInv, TypeOK, Tx
  <2>4. tx[u].t = t => tx[u].k \in LockedByOthers(w, t)
    <3>1. SUFFICES ASSUME tx[u].t = t PROVE tx[u].k \in LockedByOthers(w, t)
      BY Zenon
    <3>2. Locked(t, tx[u].k)
      BY <2>3, <3>1 DEF Locked, LockedByRequest
    <3>3. tx[w].k # tx[u].k
      BY <2>1, <2>3, <3>1, ZenonT(30) DEF RequestOK
    <3>. QED  BY <2>3, <3>2, <3>3 DEF LockedByOthers
  <2>5. tx[u].t \in Targets
    BY <2>3, Zenon DEF RequestOK
  <2>. QED  BY <2>2, <2>3, <2>4, <2>5
<1>7. Batched' \subseteq Batched
  BY <1>1, SameReapers
<1>. HIDE DEF keep, t
<1>. QED  BY <1>4, <1>5, <1>6, <1>7, StepOK

\* renew_lease keeps IInv.
LEMMA RenewLeaseOK ==
  ASSUME IInv, NEW w \in Workers, NEW at \in Nat, RenewLease(w, at)
  PROVE  IInv'
<1>. DEFINE q == tx[w]
            rec == target[q.t]
            until == Renewed(rec.work[q.k], at)
<1>1. q.phase # "IDLE" /\ Commit(w, [rec EXCEPT !.work[q.k].expiresAt = until])
  BY ZenonT(30) DEF RenewLease, Phase
<1>2. q.t \in Targets /\ q.k \in Kinds /\ RecordOK(rec)
  BY <1>1, ZenonT(30) DEF IInv, RequestOK, TypeOK, Tx
<1>3. until \in Nat
  <2>. DEFINE x == rec.work[q.k]
  <2>1. x.expiresAt \in Nat /\ x.claimedAt \in Nat /\ x.deadlineAt \in Nat
    BY <1>2, ZenonT(30) DEF RecordOK, WorkOK, Work
  <2>2. until = Renewed(x, at)
    BY Zenon
  <2>. HIDE DEF x, until
  <2>. QED  BY <2>1, <2>2, SettingsAssumption DEF Renewed, ClampLeaseExpiry, Least
<1>. HIDE DEF until
<1>4. Follows(rec, [rec EXCEPT !.work[q.k].expiresAt = until], Kinds)
  <2>. HIDE DEF rec, q
  <2>. QED  BY <1>2, <1>3, ExpiryWriteOK
<1>5. Follows(rec, [rec EXCEPT !.work[q.k].expiresAt = until],
              LockedByOthers(w, q.t))
  BY <1>4, ZenonT(30) DEF Follows, LockedByOthers
<1>. QED  BY <1>1, <1>5, CommitOK, ZenonT(30)

\* issue_secret_envelope keeps IInv: the lease it locked is still ACTIVE.
LEMMA IssueEnvelopeOK ==
  ASSUME IInv, NEW w \in Workers, IssueEnvelope(w) PROVE IInv'
<1>. DEFINE q == tx[w]
            rec == target[q.t]
<1>1. q.phase # "IDLE" /\ Commit(w, [rec EXCEPT !.work[q.k].issued = TRUE])
  BY ZenonT(30) DEF IssueEnvelope, Phase
<1>2. /\ q.t \in Targets /\ q.k \in Kinds /\ RecordOK(rec)
      /\ rec.work[q.k].lease = "ACTIVE"
  BY <1>1, Zenon DEF IInv, RequestOK, TypeOK, Tx
<1>3. Follows(rec, [rec EXCEPT !.work[q.k].issued = TRUE], Kinds)
  <2>. HIDE DEF rec, q
  <2>. QED  BY <1>2, IssuedWriteOK, Zenon
<1>4. Follows(rec, [rec EXCEPT !.work[q.k].issued = TRUE], LockedByOthers(w, q.t))
  BY <1>3, Zenon DEF Follows, LockedByOthers
<1>. QED  BY <1>1, <1>4, CommitOK, Zenon

\* update_lease_status keeps IInv.
LEMMA UpdateStatusOK ==
  ASSUME IInv, NEW w \in Workers, NEW status, UpdateStatus(w, status) PROVE IInv'
<1>. DEFINE q == tx[w]
            rec == target[q.t]
            s == Written(rec.status, q.seen, status)
<1>1. /\ q.phase # "IDLE" /\ Commit(w, [rec EXCEPT !.status = s])
      /\ status \in {"STARTING", "RUNNING", "ABORTING"}
  BY DEF UpdateStatus, Phase
<1>2. q.t \in Targets /\ RecordOK(rec)
  BY <1>1, ZenonT(30) DEF IInv, RequestOK
<1>3. s \in Statuses /\ (s = "ABSENT" => rec.status = "ABSENT")
  BY <1>1, <1>2 DEF Written, Statuses, RecordOK, Target
<1>. HIDE DEF s
<1>4. Follows(rec, [rec EXCEPT !.status = s], Kinds)
  <2>. HIDE DEF rec
  <2>. QED  BY <1>2, <1>3, StatusWriteOK
<1>5. Follows(rec, [rec EXCEPT !.status = s], LockedByOthers(w, q.t))
  BY <1>4, Zenon DEF Follows, LockedByOthers
<1>. QED  BY <1>1, <1>5, CommitOK

\* complete_lease keeps IInv.
LEMMA CompleteLeaseOK ==
  ASSUME IInv, NEW w \in Workers, NEW outcome \in Outcomes,
         NEW retryable \in BOOLEAN, NEW at \in Nat,
         CompleteLease(w, outcome, retryable, at)
  PROVE  IInv'
<1>. DEFINE q == tx[w]
            rec == target[q.t]
            skip == LockedByOthers(w, q.t)
            new == Completed(rec, q.k, outcome, retryable, q.seen, at, skip)
<1>1. q.phase # "IDLE" /\ Commit(w, new)
  BY Zenon DEF CompleteLease, Phase
<1>2. /\ q.t \in Targets /\ q.k \in Kinds /\ RecordOK(rec)
      /\ rec.work[q.k].lease = "ACTIVE"
  BY <1>1, ZenonT(30) DEF IInv, RequestOK, TypeOK, Tx
<1>3. rec.status # "ABSENT"
  <2>. HIDE DEF rec, q
  <2>. QED  BY <1>2, LeasedIsPresent, Zenon
<1>4. q.k \notin skip /\ skip \cap Kinds = skip
  BY DEF LockedByOthers
<1>5. Follows(rec, new, skip)
  <2>. HIDE DEF rec, q, skip
  <2>1. Follows(rec, new, skip \cap Kinds)
    BY <1>2, <1>3, <1>4, CompletedOK
  <2>. HIDE DEF new
  <2>. QED  BY <1>4, <2>1, Zenon
<1>. HIDE DEF new
<1>. QED  BY <1>1, <1>5, CommitOK, Zenon

\* complete_lease on a run cancelled meanwhile keeps IInv.
LEMMA CompleteCancelledOK ==
  ASSUME IInv, NEW w \in Workers, NEW outcome \in Outcomes,
         NEW retryable \in BOOLEAN, NEW at \in Nat,
         CompleteCancelled(w, outcome, retryable, at)
  PROVE  IInv'
<1>. DEFINE q == tx[w]
            rec == target[q.t]
            skip == LockedByOthers(w, q.t)
            fenced == Fence(rec, skip, {})
            done == Completed(fenced, q.k, outcome, retryable, rec.status, at, skip)
            new == IF CancellationOpen(rec) THEN Converge(rec, skip) ELSE done
<1>1. q.phase # "IDLE" /\ Commit(w, new)
  BY ZenonT(30) DEF CompleteCancelled, Phase
<1>2. /\ q.t \in Targets /\ q.k \in Kinds /\ RecordOK(rec)
      /\ rec.work[q.k].lease = "ACTIVE"
  BY <1>1, Zenon DEF IInv, RequestOK, TypeOK, Tx
<1>3. rec.status # "ABSENT"
  <2>. HIDE DEF rec, q
  <2>. QED  BY <1>2, LeasedIsPresent
<1>4. q.k \notin skip /\ skip \cap Kinds = skip
  BY DEF LockedByOthers
<1>5. Follows(rec, new, skip)
  <2>. HIDE DEF rec, q, skip
  <2>1. Follows(rec, Converge(rec, skip), skip \cap Kinds)
    BY <1>2, ConvergeOK, ZenonT(30)
  <2>2. Follows(rec, fenced, skip \cap Kinds) /\ fenced.status = rec.status
    BY <1>2, FenceOK, Zenon
  <2>. HIDE DEF fenced
  <2>3. Follows(fenced, done, skip \cap Kinds)
    <3>1. RecordOK(fenced) /\ fenced.status # "ABSENT"
      BY <1>3, <2>2 DEF Follows
    <3>. QED  BY <1>2, <1>4, <3>1, CompletedOK
  <2>. HIDE DEF done
  <2>4. Follows(rec, done, skip \cap Kinds)
    BY <2>2, <2>3, FollowsTrans
  <2>. QED  BY <1>4, <2>1, <2>4, Zenon
<1>. HIDE DEF new
<1>. QED  BY <1>1, <1>5, CommitOK

-----------------------------------------------------------------------------
(* The recovery sweep.                                                     *)

\* A sweep that begins keeps IInv.
LEMMA SweepBeginOK ==
  ASSUME IInv, NEW lost \in SUBSET LostWorkers, NEW batch \in SUBSET Reapable(lost),
         SweepBegin(lost, batch)
  PROVE  IInv'
<1>1. lost \in SUBSET Workers /\ Sweeper \in Reapers /\ 0 \in Nat
  BY TargetAssumption DEF LostWorkers, Reapers
<1>2. /\ BeginReaping(Sweeper, 0, lost, batch)
      /\ UNCHANGED <<now, target, worker, boots, tx>>
  BY DEF SweepBegin
<1>. QED  BY <1>1, <1>2, BeginReapingOK

\* run_execution_recovery_sweep that commits keeps IInv.
LEMMA SweepCommitOK ==
  ASSUME IInv, NEW late, NEW tie, SweepCommit(late, tie) PROVE IInv'
<1>1. /\ target' = Reap(Sweeper, late, tie) /\ EndReaping(Sweeper)
      /\ UNCHANGED <<now, boots, tx>> /\ Sweeper \in Reapers
  BY DEF SweepCommit, Reapers
<1>2. worker' \in [Workers -> Worker]
  <2>1. ASSUME NEW w \in Workers PROVE [worker[w] EXCEPT !.pending = TRUE] \in Worker
    BY ZenonT(30) DEF IInv, TypeOK, Worker
  <2>2. worker' = [w \in Workers |->
           IF w \in reap[Sweeper].lost THEN [worker[w] EXCEPT !.pending = TRUE]
           ELSE worker[w]]
    BY DEF SweepCommit
  <2>. QED  BY <2>1, <2>2, Zenon DEF IInv, TypeOK
<1>3. now \in Nat /\ boots \in [Workers -> Nat]
  BY DEF IInv, TypeOK
<1>. QED  BY <1>1, <1>2, <1>3, ReapOK, EndReapingOK, TargetStepOK

-----------------------------------------------------------------------------
(* The theorems.                                                           *)

\* The empty database satisfies IInv.
LEMMA InitOK == Init => IInv
<1>. SUFFICES ASSUME Init PROVE IInv
  BY Zenon
<1>1. NoWork \in Work /\ WorkOK(NoWork) /\ NoWork.source = "ABSENT"
  BY SettingsAssumption
     DEF NoWork, Work, WorkOK, SourceStatuses, LeaseStatuses
<1>. DEFINE rec == [status |-> "ABSENT", cancelRequested |-> FALSE,
                    cancelDeadline |-> 0, bound |-> TRUE,
                    work |-> [k \in Kinds |-> NoWork]]
<1>2. RecordOK(rec)
  BY <1>1 DEF RecordOK, Target, Statuses
<1>3. target = [t \in Targets |-> rec]
  BY Zenon DEF Init
<1>. HIDE DEF rec
<1>4. target \in [Targets -> Target] /\ \A t \in Targets : RecordOK(target[t])
  BY <1>2, <1>3 DEF RecordOK
<1>5. worker \in [Workers -> Worker]
  BY DEF Init, Worker
<1>6. TypeOK
  BY <1>4, <1>5, NoTxType, NoReapingType, Zenon DEF Init, TypeOK
<1>7. \A w \in Workers : RequestOK(w)
  BY Zenon DEF Init, NoTx, RequestOK
<1>8. Batched = {}
  BY NoReapingType DEF Init, Batched
<1>. QED  BY <1>4, <1>6, <1>7, <1>8 DEF IInv

\* Every step of the system, and every stutter, keeps IInv.
LEMMA NextOK == IInv /\ [Next]_vars => IInv'
<1>. SUFFICES ASSUME IInv, [Next]_vars PROVE IInv'
  OBVIOUS
<1>1. CASE UNCHANGED vars
  <2>1. UNCHANGED <<now, target, worker, boots, tx, reap>>
    BY <1>1, Zenon DEF vars
  <2>. QED  BY <2>1, SameTargetsOK, Zenon DEF IInv, TypeOK
<1>2. CASE Tick
  <2>1. UNCHANGED <<target, worker, boots, tx, reap>> /\ now' = now + 1
    BY <1>2 DEF Tick
  <2>2. now' \in Nat
    BY <2>1 DEF IInv, TypeOK
  <2>. QED  BY <2>1, <2>2, SameTargetsOK, Zenon DEF IInv, TypeOK
<1>3. CASE Tenant
  <2>1. ASSUME NEW t \in Runs, CreateRun(t) PROVE IInv'
    BY <2>1, CreateOK DEF Targets
  <2>2. ASSUME NEW t \in Runs, CancelRun(t) PROVE IInv'
    BY <2>2, CancelRunOK DEF Targets
  <2>3. ASSUME NEW t \in Builds, CreateBuild(t) PROVE IInv'
    BY <2>3, CreateOK DEF Targets
  <2>4. ASSUME NEW t \in BoundRuns, ChangePolicy(t) PROVE IInv'
    BY <2>4, ChangePolicyOK, TargetAssumption DEF Targets
  <2>. QED  BY <1>3, <2>1, <2>2, <2>3, <2>4, RotateSecretOK DEF Tenant
<1>4. ASSUME NEW w \in Workers, WorkerRequest(w) PROVE IInv'
  BY <1>4, RegisterWorkerOK, StartProcessOK, BeginRequestOK, AccessOK
     DEF WorkerRequest, Limited
<1>5. ASSUME NEW w \in Workers, FinishRequest(w) PROVE IInv'
  <2>1. ASSUME NEW at \in tx[w].at..now PROVE at \in Nat
    BY DEF IInv, TypeOK, Tx
  <2>2. CASE FinishReaping(w)
    BY <2>2, WorkerReaps, RollbackReapingOK, HeartbeatOK, ClaimNothingOK, ClaimOK,
       Zenon DEF FinishReaping
  <2>. QED  BY <1>5, <2>1, <2>2, HandleOK, RollbackOK, IssueEnvelopeOK, UpdateStatusOK,
               RenewLeaseOK, CompleteLeaseOK, CompleteCancelledOK, Zenon DEF FinishRequest
<1>6. CASE Recovery
  <2>1. ASSUME NEW lost \in Limited(LostWorkers, WorkerBatchSize),
               NEW batch \in Limited(Reapable(lost), SweepBatchSize),
               SweepBegin(lost, batch)
        PROVE  IInv'
    BY <2>1, SweepBeginOK DEF Limited
  <2>2. RollbackReaping(Sweeper) => IInv'
    BY RollbackReapingOK DEF Reapers
  <2>. QED  BY <1>6, <2>1, <2>2, SweepCommitOK, Zenon DEF Recovery
<1>. QED  BY <1>1, <1>2, <1>3, <1>4, <1>5, <1>6 DEF Next

\* IInv holds in every state of every behaviour.
THEOREM Invariance == Spec => []IInv
BY InitOK, NextOK, PTL DEF Spec

\* Every column keeps its type, whatever interleaving of requests, claims,
\* cancellations and sweeps writes it.
THEOREM TypeCorrect == Spec => []TypeOK
<1>1. IInv => TypeOK
  BY DEF IInv
<1>. QED  BY <1>1, Invariance, PTL

\* claim_work never selects a row that an earlier lease still holds.
THEOREM NoDoubleDispatch == Spec => []PendingWorkIsUnleased
<1>1. IInv => PendingWorkIsUnleased
  BY Zenon DEF IInv, RecordOK, WorkOK, PendingWorkIsUnleased
<1>. QED  BY <1>1, Invariance, PTL

\* Claims, admission failures, retries of complete_lease and requeues of the
\* reaper together stay inside worker_max_attempts.
THEOREM BoundedAttempts == Spec => []AttemptsWithinBudget
<1>1. IInv => AttemptsWithinBudget
  BY Zenon DEF IInv, RecordOK, WorkOK, AttemptsWithinBudget
<1>. QED  BY <1>1, Invariance, PTL

\* Whoever closes a lease, no secret grant of it stays ISSUED, and no request
\* that was open at that moment issues one afterwards.
THEOREM GrantsRevoked == Spec => []GrantsEndWithLease
<1>1. IInv => GrantsEndWithLease
  BY DEF IInv, RecordOK, WorkOK, GrantsEndWithLease
<1>. QED  BY <1>1, Invariance, PTL
=============================================================================
