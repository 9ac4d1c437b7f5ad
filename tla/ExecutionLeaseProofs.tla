------------------------ MODULE ExecutionLeaseProofs ------------------------
(***************************************************************************)
(* What the leases of ExecutionPlane say about targets and workers, for    *)
(* any number of runs, builds and workers.                                 *)
(*                                                                         *)
(* Two relations between the record of a target before and after a write   *)
(* carry the argument.  Ends: no lease comes to life, and those in gone    *)
(* are closed.  Advances: a target that is not cancelled agrees with its   *)
(* work afterwards, and one that has ended keeps its status.  Only a claim *)
(* and a renewal of the worker that made the request are outside Ends.     *)
(***************************************************************************)
EXTENDS ExecutionPlaneProofs

-----------------------------------------------------------------------------
(* The invariant.                                                          *)

Started == {"STARTING", "RUNNING"}

\* The property UncancelledWorkAgrees of one record
Settled(t, rec) ==
  ~rec.cancelRequested =>
    /\ Agrees(rec.status, rec.work[MainKind(t)])
    /\ \A k \in Kinds \ {MainKind(t)} : rec.work[k] = NoWork

\* Builds have no cancellation and Runs no BUILD row.
OwnKinds(t, rec) ==
  /\ t \in Builds => ~rec.cancelRequested
  /\ t \in Runs => rec.work["BUILD"].source = "ABSENT"

\* What a request read without a lock is still what the status of an
\* uncancelled target may be.
ReadOK(w) ==
  tx[w].phase = "READ" /\ ~target[tx[w].t].cancelRequested => tx[w].seen \in Started

\* So it is with what a reaper read; its batch is locked.
BatchOK(p, i) ==
  /\ i[1] \in Runs => i[2] # "BUILD"
  /\ ~target[i[1]].cancelRequested =>
       /\ target[i[1]].work[i[2]].lease = "ACTIVE"
       /\ i[1] \notin reap[p].cancelling /\ reap[p].seen[i[1]] \in Started

AgreeInv ==
  /\ \A t \in Targets : Settled(t, target[t]) /\ OwnKinds(t, target[t])
  /\ \A w \in Workers : ReadOK(w)
  /\ \A p \in Reapers : \A i \in reap[p].batch : BatchOK(p, i)
  /\ \A p, q \in Reapers : p # q => reap[p].batch \cap reap[q].batch = {}

\* The leases of a worker that are valid or that its open request may renew
Claims(w) ==
  LiveOfWorker(target, w, now)
    \cup IF tx[w].phase = "IDLE" THEN {} ELSE {<<tx[w].t, tx[w].k>>}

\* A worker that was declared lost has no claim, and one that the open sweep
\* declares lost has no request.
LossInv ==
  /\ \A w \in Workers : worker[w].pending => Claims(w) = {}
  /\ \A w \in reap[Sweeper].lost : tx[w].phase = "IDLE"

\* A worker has one request at a time, and no reaper is ahead of the clock.
RowInv ==
  /\ \A w \in Workers : reap[w].open => tx[w].phase = "IDLE"
  /\ \A p \in Reapers : reap[p].at <= now

LeaseInv == AgreeInv /\ LossInv /\ RowInv

LEMMA LeaseFacts ==
  ASSUME IInv, LeaseInv PROVE AgreeInv /\ LossInv /\ RowInv /\ now \in Nat
BY DEF LeaseInv, IInv, TypeOK

-----------------------------------------------------------------------------
(* Leases only end.                                                        *)

\* y is x or less: no lease comes to life, changes hands or is prolonged.
Loosens(x, y) ==
  y.lease = "ACTIVE" =>
    /\ x.lease = "ACTIVE" /\ y.worker = x.worker
    /\ \A n \in Nat : Live(y, n) => Live(x, n)

\* A write that closes the leases in gone and opens none
Ends(old, new, gone) ==
  \A k \in Kinds : /\ Loosens(old.work[k], new.work[k])
                   /\ k \in gone => new.work[k].lease # "ACTIVE"

\* No cancellation is requested and no BUILD row inserted.
Stays(old, new) ==
  /\ new.cancelRequested = old.cancelRequested
  /\ old.work["BUILD"].source = "ABSENT" => new.work["BUILD"].source = "ABSENT"

Reaps(old, new, gone) == Ends(old, new, gone) /\ Stays(old, new)

\* A row whose lease columns are kept
LEMMA SameLease ==
  ASSUME NEW x, NEW y, y.lease = x.lease, y.worker = x.worker,
         y.expiresAt = x.expiresAt, y.deadlineAt = x.deadlineAt
  PROVE  Loosens(x, y)
BY DEF Loosens, Live

\* A row whose lease is closed
LEMMA ClosedLease ==
  ASSUME NEW x, NEW y, y.lease # "ACTIVE" PROVE Loosens(x, y)
BY DEF Loosens

LEMMA LoosensTrans ==
  ASSUME NEW x, NEW y, NEW z, Loosens(x, y), Loosens(y, z) PROVE Loosens(x, z)
BY DEF Loosens

LEMMA LoosensLive ==
  ASSUME NEW x, NEW y, Loosens(x, y), NEW at \in Nat, Live(y, at)
  PROVE  Live(x, at) /\ x.worker = y.worker
BY DEF Loosens, Live

\* The valid leases of a worker, item by item
LEMMA InLive ==
  ASSUME NEW T, NEW w, NEW at, NEW t \in Targets, NEW k \in Kinds
  PROVE  <<t, k>> \in LiveOfWorker(T, w, at)
           <=> T[t].work[k].worker = w /\ Live(T[t].work[k], at)
BY DEF LiveOfWorker, Items

LEMMA LiveItem ==
  ASSUME NEW T, NEW w, NEW at, NEW i \in LiveOfWorker(T, w, at)
  PROVE  \E t \in Targets, k \in Kinds : i = <<t, k>>
BY DEF LiveOfWorker, Items

\* Outside E, whoever has a valid lease in U had it in T.
LEMMA LiveKept ==
  ASSUME NEW T, NEW U, NEW w, NEW at \in Nat, NEW E,
         \A t \in Targets, k \in Kinds :
           U[t].work[k].worker = w /\ <<t, k>> \notin E
             => Loosens(T[t].work[k], U[t].work[k])
  PROVE  LiveOfWorker(U, w, at) \subseteq LiveOfWorker(T, w, at) \cup E
<1>1. ASSUME NEW i \in LiveOfWorker(U, w, at), i \notin E
      PROVE  i \in LiveOfWorker(T, w, at)
  <2>1. PICK t \in Targets, k \in Kinds : i = <<t, k>>
    BY <1>1, LiveItem
  <2>2. U[t].work[k].worker = w /\ Live(U[t].work[k], at)
    BY <2>1, InLive, Zenon
  <2>3. Loosens(T[t].work[k], U[t].work[k])
    BY <1>1, <2>1, <2>2, Zenon
  <2>4. T[t].work[k].worker = w /\ Live(T[t].work[k], at)
    BY <2>2, <2>3, LoosensLive, Zenon
  <2>. QED  BY <2>1, <2>4, InLive, Zenon
<1>. QED  BY <1>1, Zenon

\* The writes of one transaction together
LEMMA ReapsTrans ==
  ASSUME NEW a, NEW b, NEW c, NEW G, NEW H, NEW L,
         Reaps(a, b, G), Reaps(b, c, H), L \subseteq G \cup H
  PROVE  Reaps(a, c, L)
<1>1. ASSUME NEW k \in Kinds
      PROVE  Loosens(a.work[k], c.work[k]) /\ (k \in L => c.work[k].lease # "ACTIVE")
  <2>1. Loosens(a.work[k], b.work[k]) /\ Loosens(b.work[k], c.work[k])
    BY DEF Reaps, Ends
  <2>2. Loosens(a.work[k], c.work[k])
    BY <2>1, LoosensTrans
  <2>3. ASSUME k \in L PROVE c.work[k].lease # "ACTIVE"
    <3>1. CASE k \in H
      BY <3>1 DEF Reaps, Ends
    <3>2. CASE k \in G
      <4>1. b.work[k].lease # "ACTIVE"
        BY <3>2 DEF Reaps, Ends
      <4>. QED  BY <2>1, <4>1 DEF Loosens
    <3>. QED  BY <2>3, <3>1, <3>2
  <2>. QED  BY <2>2, <2>3
<1>2. Stays(a, c)
  BY DEF Reaps, Stays
<1>. QED  BY <1>1, <1>2 DEF Reaps, Ends

LEMMA ReapsSelf == ASSUME NEW rec PROVE Reaps(rec, rec, {})
BY DEF Reaps, Ends, Stays, Loosens

\* The fields of a target after a write to its status
LEMMA StatusWrite ==
  ASSUME NEW rec \in Target, NEW s, NEW new, new = [rec EXCEPT !.status = s]
  PROVE  /\ new.status = s /\ new.cancelRequested = rec.cancelRequested
         /\ new.work = rec.work
BY DEF Target

LEMMA StatusWriteReaps ==
  ASSUME NEW rec \in Target, NEW s PROVE Reaps(rec, [rec EXCEPT !.status = s], {})
<1>1. PICK new : new = [rec EXCEPT !.status = s]
  BY Zenon
<1>2. new.cancelRequested = rec.cancelRequested /\ new.work = rec.work
  BY <1>1, StatusWrite
<1>3. Reaps(rec, new, {})
  BY <1>2 DEF Reaps, Ends, Stays, Loosens
<1>. QED  BY <1>1, <1>3

\* What a write to the status and to one row leaves of a target
Writes(rec, new, s, k, v) ==
  /\ new.status = s /\ new.cancelRequested = rec.cancelRequested
  /\ new.work[k] = v /\ \A j \in Kinds \ {k} : new.work[j] = rec.work[j]

LEMMA BothWrite ==
  ASSUME NEW rec \in Target, NEW s, NEW k \in Kinds, NEW v
  PROVE  Writes(rec, [rec EXCEPT !.status = s, !.work[k] = v], s, k, v)
<1>. DEFINE new == [rec EXCEPT !.status = s, !.work[k] = v]
<1>1. new = [[rec EXCEPT !.status = s] EXCEPT !.work = [rec.work EXCEPT ![k] = v]]
  BY DEF Target
<1>2. new.status = s /\ new.cancelRequested = rec.cancelRequested
      /\ new.work = [rec.work EXCEPT ![k] = v]
  BY <1>1 DEF Target
<1>3. rec.work \in [Kinds -> Work]
  BY DEF Target
<1>. HIDE DEF new
<1>4. Writes(rec, new, s, k, v)
  BY <1>2, <1>3 DEF Writes
<1>. QED  BY <1>4, Zenon DEF new

LEMMA BothWriteReaps ==
  ASSUME NEW rec \in Target, NEW s, NEW k \in Kinds, NEW v, v.lease # "ACTIVE",
         k = "BUILD" => rec.work["BUILD"].source # "ABSENT"
  PROVE  Reaps(rec, [rec EXCEPT !.status = s, !.work[k] = v], {k})
<1>1. PICK new : new = [rec EXCEPT !.status = s, !.work[k] = v]
  BY Zenon
<1>2. Writes(rec, new, s, k, v)
  BY <1>1, BothWrite, Zenon
<1>3. ASSUME NEW j \in Kinds
      PROVE  Loosens(rec.work[j], new.work[j]) /\ (j \in {k} => new.work[j].lease # "ACTIVE")
  BY <1>2, SameLease, ClosedLease DEF Writes
<1>4. Stays(rec, new)
  BY <1>2 DEF Stays, Kinds, Writes
<1>5. Reaps(rec, new, {k})
  BY <1>3, <1>4 DEF Reaps, Ends
<1>. QED  BY <1>1, <1>5, Zenon

-----------------------------------------------------------------------------
(* The fences and reapers of execution_plane.py.                           *)

\* A write to the outbox row alone keeps the lease columns.
LEMMA WithSourceKeeps ==
  ASSUME NEW w \in Work, NEW s, NEW at, NEW v, v = WithSource(w, s, at)
  PROVE  /\ v.source = s /\ v.lease = w.lease /\ v.worker = w.worker
         /\ v.expiresAt = w.expiresAt /\ v.deadlineAt = w.deadlineAt
BY DEF WithSource, Work

LEMMA ClosedFields ==
  ASSUME NEW w, NEW l, NEW s, NEW at
  PROVE  Closed(w, l, s, at).lease = l /\ Closed(w, l, s, at).source = s
BY DEF Closed

LEMMA FenceWorkEnds ==
  ASSUME NEW w, WorkOK(w), NEW skipped \in BOOLEAN, NEW f, f = FenceWork(w, skipped)
  PROVE  /\ Loosens(w, f) /\ (~skipped => f.lease # "ACTIVE")
<1>. DEFINE command == IF w.source \in {"PENDING", "CLAIMED"} THEN "CANCELLED"
                       ELSE w.source
<1>1. CASE w.lease = "ACTIVE" /\ ~skipped
  <2>1. f.lease = "CANCELLED"
    BY <1>1, ClosedFields DEF FenceWork
  <2>. QED  BY <2>1, ClosedLease
<1>2. CASE ~(w.lease = "ACTIVE" /\ ~skipped)
  <2>1. f = WithSource(w, command, 0)
    BY <1>2 DEF FenceWork
  <2>. HIDE DEF command
  <2>2. /\ f.lease = w.lease /\ f.worker = w.worker
        /\ f.expiresAt = w.expiresAt /\ f.deadlineAt = w.deadlineAt
    BY <2>1, WithSourceKeeps DEF WorkOK
  <2>. QED  BY <1>2, <2>2, SameLease
<1>. QED  BY <1>1, <1>2

\* _fence_cancelled_run_leases closes the leases it does not skip.
LEMMA FenceReaps ==
  ASSUME NEW rec, RecordOK(rec), NEW skip, NEW preserved
  PROVE  Reaps(rec, Fence(rec, skip, preserved), RunKinds \ (skip \cup preserved))
<1>. DEFINE F == Fence(rec, skip, preserved)
<1>1. /\ F.cancelRequested = rec.cancelRequested
      /\ F.work = [k \in Kinds |->
           IF k \in RunKinds \ preserved THEN FenceWork(rec.work[k], k \in skip)
           ELSE rec.work[k]]
  BY DEF Fence, RecordOK, Target
<1>. HIDE DEF F
<1>2. ASSUME NEW k \in Kinds, k \notin RunKinds \ preserved
      PROVE  F.work[k] = rec.work[k]
  BY <1>1, <1>2
<1>3. ASSUME NEW k \in RunKinds \ preserved
      PROVE  Loosens(rec.work[k], F.work[k]) /\ (k \notin skip => F.work[k].lease # "ACTIVE")
  <2>1. k \in Kinds
    BY DEF RunKinds, Kinds
  <2>2. F.work[k] = FenceWork(rec.work[k], k \in skip)
    BY <1>1, <2>1
  <2>3. PICK old, f : old = rec.work[k] /\ f = F.work[k]
    BY Zenon
  <2>4. WorkOK(old)
    BY <2>1, <2>3 DEF RecordOK
  <2>5. CASE k \in skip
    <3>1. f = FenceWork(old, TRUE)
      BY <2>2, <2>3, <2>5, Zenon
    <3>2. Loosens(old, f)
      BY <2>4, <3>1, FenceWorkEnds, Zenon
    <3>. QED  BY <2>3, <2>5, <3>2, Zenon
  <2>6. CASE k \notin skip
    <3>1. f = FenceWork(old, FALSE)
      <4>1. (k \in skip) = FALSE
        BY <2>6
      <4>. QED  BY <2>2, <2>3, <4>1, Zenon
    <3>2. Loosens(old, f) /\ f.lease # "ACTIVE"
      BY <2>4, <3>1, FenceWorkEnds, Zenon
    <3>. QED  BY <2>3, <3>2, Zenon
  <2>. QED  BY <2>5, <2>6
<1>4. Ends(rec, F, RunKinds \ (skip \cup preserved))
  <2>1. ASSUME NEW k \in Kinds
        PROVE  /\ Loosens(rec.work[k], F.work[k])
               /\ k \in RunKinds \ (skip \cup preserved) => F.work[k].lease # "ACTIVE"
    <3>1. CASE k \in RunKinds \ preserved
      BY <1>3, <3>1
    <3>2. CASE k \notin RunKinds \ preserved
      BY <1>2, <3>2, SameLease
    <3>. QED  BY <3>1, <3>2
  <2>. QED  BY <2>1 DEF Ends
<1>5. Stays(rec, F)
  <2>1. F.work["BUILD"] = rec.work["BUILD"]
    BY <1>2 DEF Kinds, RunKinds
  <2>. QED  BY <1>1, <2>1 DEF Stays
<1>. QED  BY <1>4, <1>5 DEF Reaps, F

\* _converge_cancelled_run does the same.
LEMMA ConvergeReaps ==
  ASSUME NEW rec, RecordOK(rec), NEW skip
  PROVE  Reaps(rec, Converge(rec, skip), RunKinds \ skip)
<1>1. PICK fenced : fenced = Fence(rec, skip, {})
  BY Zenon
<1>2. Reaps(rec, fenced, RunKinds \ skip)
  <2>1. skip \cup {} = skip
    OBVIOUS
  <2>. QED  BY <1>1, <2>1, FenceReaps, Zenon
<1>3. CASE CancellationOpen(rec)
  <2>1. Converge(rec, skip) = [fenced EXCEPT !.status = "ABORTED"]
    BY <1>1, <1>3, Zenon DEF Converge
  <2>2. fenced \in Target
    BY <1>1, FenceOK, Zenon DEF Follows, RecordOK
  <2>3. Reaps(fenced, [fenced EXCEPT !.status = "ABORTED"], {})
    BY <2>2, StatusWriteReaps
  <2>4. PICK new : new = [fenced EXCEPT !.status = "ABORTED"]
    BY Zenon
  <2>5. Reaps(fenced, new, {})
    BY <2>3, <2>4, Zenon
  <2>6. Reaps(rec, new, RunKinds \ skip)
    BY <1>2, <2>5, ReapsTrans
  <2>. QED  BY <2>1, <2>4, <2>6, Zenon
<1>4. CASE ~CancellationOpen(rec)
  BY <1>1, <1>2, <1>4, Zenon DEF Converge
<1>. QED  BY <1>3, <1>4

\* A write may be taken for one that closes less.
LEMMA ReapsLess ==
  ASSUME NEW a, NEW b, NEW G, NEW H, Reaps(a, b, G), H \subseteq G
  PROVE  Reaps(a, b, H)
BY DEF Reaps, Ends

\* reap_overdue_cancellations opens no lease.
LEMMA ReapOverdueReaps ==
  ASSUME NEW rec, RecordOK(rec), NEW skip, NEW at
  PROVE  Reaps(rec, ReapOverdue(rec, skip, at), {})
<1>1. Reaps(rec, Converge(rec, skip), {})
  <2>1. Reaps(rec, Converge(rec, skip), RunKinds \ skip)
    BY ConvergeReaps
  <2>. QED  BY <2>1, ReapsLess
<1>2. Reaps(rec, rec, {})
  BY ReapsSelf
<1>. QED  BY <1>1, <1>2, Zenon DEF ReapOverdue

\* _reset_expired_source with the writes of its caller closes the lease.
LEMMA ResetExpiredReaps ==
  ASSUME NEW rec \in Target, NEW k \in Kinds, NEW late, NEW at, NEW seen,
         k = "BUILD" => rec.work["BUILD"].source # "ABSENT"
  PROVE  Reaps(rec, ResetExpired(rec, k, late, at, seen), {k})
<1>. DEFINE retry == RetryAllowed(~late, "FAILED", rec.work[k].attempts)
            status == IF retry
                      THEN IF k = "CANCEL" THEN seen ELSE "QUEUED"
                      ELSE IF late /\ k # "CANCEL" THEN "TIMED_OUT" ELSE "FAILED"
            s == Written(rec.status, seen, status)
            v == Closed(rec.work[k], IF late THEN "FAILED" ELSE "EXPIRED",
                        IF retry THEN "PENDING" ELSE "FAILED",
                        IF retry THEN at + RetryDelay(rec.work[k].attempts) ELSE 0)
<1>1. ResetExpired(rec, k, late, at, seen) = [rec EXCEPT !.status = s, !.work[k] = v]
  BY Zenon DEF ResetExpired
<1>2. v.lease # "ACTIVE"
  BY ClosedFields
<1>. HIDE DEF s, v
<1>3. Reaps(rec, [rec EXCEPT !.status = s, !.work[k] = v], {k})
  BY <1>2, BothWriteReaps, Zenon
<1>. QED  BY <1>1, <1>3, Zenon

\* One lease of a reaper batch is closed.
LEMMA ReapLeaseReaps ==
  ASSUME NEW rec, RecordOK(rec), NEW k \in Kinds, NEW skip, k \notin skip,
         NEW late, NEW at, NEW cancelling, NEW seen,
         cancelling => k \in RunKinds,
         k = "BUILD" => rec.work["BUILD"].source # "ABSENT"
  PROVE  Reaps(rec, ReapLease(rec, k, skip, late, at, cancelling, seen), {k})
<1>1. CASE ~cancelling
  <2>1. rec \in Target
    BY DEF RecordOK
  <2>2. Reaps(rec, ResetExpired(rec, k, late, at, seen), {k})
    BY <2>1, ResetExpiredReaps
  <2>. QED  BY <1>1, <2>2, Zenon DEF ReapLease
<1>2. CASE cancelling /\ CancellationOpen(rec)
  <2>1. Reaps(rec, Converge(rec, skip), RunKinds \ skip)
    BY ConvergeReaps
  <2>2. Reaps(rec, Converge(rec, skip), {k})
    BY <1>2, <2>1, ReapsLess
  <2>. QED  BY <1>2, <2>2, Zenon DEF ReapLease
<1>3. CASE cancelling /\ ~CancellationOpen(rec)
  <2>1. PICK fenced : fenced = Fence(rec, skip, {})
    BY Zenon
  <2>2. Reaps(rec, fenced, RunKinds \ (skip \cup {})) /\ fenced \in Target
    BY <2>1, FenceReaps, FenceOK, Zenon DEF Follows, RecordOK
  <2>3. PICK new : new = ResetExpired(fenced, k, late, at, rec.status)
    BY Zenon
  <2>4. Reaps(fenced, new, {k})
    <3>1. k # "BUILD"
      BY <1>3 DEF RunKinds
    <3>. QED  BY <2>2, <2>3, <3>1, ResetExpiredReaps, Zenon
  <2>5. Reaps(rec, new, {k})
    BY <2>2, <2>4, ReapsTrans
  <2>. QED  BY <1>3, <2>1, <2>3, <2>5, Zenon DEF ReapLease
<1>. QED  BY <1>1, <1>2, <1>3

\* All leases of one target in a reaper batch are closed.
LEMMA ReapTargetReaps ==
  ASSUME NEW rec, RecordOK(rec), NEW skip, NEW batch \in SUBSET (Kinds \ skip),
         batch # {} => rec.status # "ABSENT",
         NEW at \in Nat, NEW cancelling, NEW seen, NEW tie,
         "BUILD" \in batch => /\ batch = {"BUILD"} /\ ~cancelling
                              /\ rec.work["BUILD"].source # "ABSENT"
  PROVE  Reaps(rec, ReapTarget(rec, batch, skip, at, cancelling, seen, tie), batch)
<1>. DEFINE late(k) == rec.work[k].deadlineAt <= at
            one(r, k, x) == ReapLease(r, k, skip, late(k), at, cancelling, x)
            both(j, k) == LET r == one(rec, j, seen) IN one(r, k, r.status)
            R == ReapTarget(rec, batch, skip, at, cancelling, seen, tie)
<1>1. ASSUME NEW k \in batch, NEW r, RecordOK(r),
             k = "BUILD" => r.work["BUILD"].source # "ABSENT", NEW x
      PROVE  Reaps(r, one(r, k, x), {k})
  <2>1. k \in Kinds /\ k \notin skip /\ (cancelling => k \in RunKinds)
    BY DEF Kinds, RunKinds
  <2>. HIDE DEF late
  <2>. QED  BY <1>1, <2>1, ReapLeaseReaps, Zenon
<1>2. ASSUME NEW j \in batch, NEW r, r = one(rec, j, seen) PROVE RecordOK(r)
  <2>1. late(j) \in BOOLEAN /\ j \in Kinds /\ j \notin skip /\ rec.status # "ABSENT"
    OBVIOUS
  <2>. HIDE DEF late
  <2>. QED  BY <1>2, <2>1, ReapLeaseOK, Zenon DEF Follows
<1>3. ASSUME NEW j \in batch, NEW k \in batch, k # "BUILD", j # "BUILD"
      PROVE  Reaps(rec, both(j, k), {j, k})
  <2>1. PICK r : r = one(rec, j, seen)
    BY Zenon
  <2>2. PICK n : n = one(r, k, r.status)
    BY Zenon
  <2>3. both(j, k) = n
    BY <2>1, <2>2, Zenon
  <2>. HIDE DEF one, both
  <2>4. Reaps(rec, r, {j})
    BY <1>1, <1>3, <2>1, Zenon
  <2>5. Reaps(r, n, {k})
    BY <1>1, <1>2, <1>3, <2>1, <2>2, Zenon
  <2>6. Reaps(rec, n, {j, k})
    BY <2>4, <2>5, ReapsTrans, SMTT(30)
  <2>. QED  BY <2>3, <2>6, Zenon
<1>4. \/ /\ R \in {both("START", "CANCEL"), both("CANCEL", "START")}
         /\ RunKinds \subseteq batch
      \/ \E k \in batch : R = one(rec, k, seen) /\ batch = {k}
      \/ R = rec /\ batch = {}
  <2>1. CASE RunKinds \subseteq batch
    BY <2>1, Zenon DEF ReapTarget
  <2>2. CASE ~(RunKinds \subseteq batch) /\ "BUILD" \in batch
    BY <2>2, Zenon DEF ReapTarget
  <2>3. CASE ~(RunKinds \subseteq batch) /\ "BUILD" \notin batch
    <3>1. batch = {} \/ batch = {"START"} \/ batch = {"CANCEL"}
      <4>. HIDE DEF R, one, both
      <4>1. \A k \in batch : k \in {"START", "CANCEL"}
        BY <2>3 DEF Kinds
      <4>2. ~("START" \in batch /\ "CANCEL" \in batch)
        BY <2>3 DEF RunKinds
      <4>3. CASE "START" \in batch
        <5>1. batch = {"START"}
          BY <4>1, <4>2, <4>3
        <5>. QED  BY <5>1
      <4>4. CASE "START" \notin batch /\ "CANCEL" \in batch
        <5>1. batch = {"CANCEL"}
          BY <4>1, <4>4
        <5>. QED  BY <5>1
      <4>5. CASE "START" \notin batch /\ "CANCEL" \notin batch
        <5>1. batch = {}
          BY <4>1, <4>5
        <5>. QED  BY <5>1
      <4>. QED  BY <4>3, <4>4, <4>5
    <3>2. CASE batch = {"START"}
      <4>1. "START" \in batch
        BY <3>2
      <4>2. R = one(rec, "START", seen)
        BY <2>3, <4>1, Zenon DEF ReapTarget
      <4>. HIDE DEF R, one
      <4>. QED  BY <3>2, <4>1, <4>2, Zenon
    <3>3. CASE batch = {"CANCEL"}
      <4>1. "START" \notin batch /\ "CANCEL" \in batch
        BY <3>3
      <4>2. R = one(rec, "CANCEL", seen)
        BY <2>3, <4>1, Zenon DEF ReapTarget
      <4>. HIDE DEF R, one
      <4>. QED  BY <3>3, <4>1, <4>2, Zenon
    <3>4. CASE batch = {}
      BY <2>3, <3>4, Zenon DEF ReapTarget
    <3>. QED  BY <3>1, <3>2, <3>3, <3>4
  <2>. QED  BY <2>1, <2>2, <2>3
<1>5. CASE R \in {both("START", "CANCEL"), both("CANCEL", "START")}
           /\ RunKinds \subseteq batch
  <2>1. "START" \in batch /\ "CANCEL" \in batch /\ batch = {"START", "CANCEL"}
    <3>. HIDE DEF R, one, both
    <3>1. "START" \in batch /\ "CANCEL" \in batch /\ "BUILD" \notin batch
      BY <1>5 DEF RunKinds
    <3>2. \A k \in batch : k \in {"START", "CANCEL"}
      BY <3>1 DEF Kinds
    <3>3. batch = {"START", "CANCEL"}
      BY <3>1, <3>2
    <3>. QED  BY <3>1, <3>3
  <2>2. Reaps(rec, both("START", "CANCEL"), {"START", "CANCEL"})
        /\ Reaps(rec, both("CANCEL", "START"), {"CANCEL", "START"})
    <3>. HIDE DEF both
    <3>1. "START" # "BUILD" /\ "CANCEL" # "BUILD"
      OBVIOUS
    <3>. QED  BY <1>3, <2>1, <3>1, Zenon
  <2>3. {"CANCEL", "START"} = {"START", "CANCEL"}
    OBVIOUS
  <2>. HIDE DEF both, R
  <2>4. Reaps(rec, R, batch)
    BY <1>5, <2>1, <2>2, <2>3, Zenon
  <2>. QED  BY <2>4, Zenon DEF R
<1>6. CASE \E k \in batch : R = one(rec, k, seen) /\ batch = {k}
  <2>1. PICK k \in batch : R = one(rec, k, seen) /\ batch = {k}
    BY <1>6, Zenon
  <2>. HIDE DEF one, R
  <2>2. Reaps(rec, R, batch)
    BY <1>1, <2>1, Zenon
  <2>. QED  BY <2>2, Zenon DEF R
<1>7. CASE R = rec /\ batch = {}
  BY <1>7, ReapsSelf, Zenon
<1>. QED  BY <1>4, <1>5, <1>6, <1>7, Zenon

\* reap_expired_leases on one target
LEMMA ReapAllReaps ==
  ASSUME NEW rec, RecordOK(rec), NEW skip, NEW batch \in SUBSET (Kinds \ skip),
         batch # {} => rec.status # "ABSENT",
         NEW at \in Nat, NEW cancelling, NEW seen, NEW tie,
         "BUILD" \in batch => /\ batch = {"BUILD"} /\ ~cancelling
                              /\ rec.work["BUILD"].source # "ABSENT",
         NEW r, r = ReapTarget(rec, batch, skip, at, cancelling, seen, tie),
         NEW new, new = r \/ new = ReapOverdue(r, skip, at)
  PROVE  Reaps(rec, new, batch)
<1>2. Reaps(rec, r, batch)
  BY ReapTargetReaps, Zenon
<1>3. RecordOK(r)
  BY ReapTargetOK, Zenon DEF Follows
<1>4. Reaps(r, ReapOverdue(r, skip, at), {})
  BY <1>3, ReapOverdueReaps
<1>5. Reaps(rec, ReapOverdue(r, skip, at), batch)
  BY <1>2, <1>4, ReapsTrans
<1>. QED  BY <1>2, <1>5, Zenon

\* Rows that differ at most in when their leases expire
SameRows(old, new) ==
  \A k \in Kinds : /\ new.work[k].source = old.work[k].source
                   /\ new.work[k].lease = old.work[k].lease
                   /\ old.work[k].lease # "ACTIVE" => new.work[k] = old.work[k]

\* detect_lost_workers shortens leases and nothing else.
LEMMA FenceLostReaps ==
  ASSUME NEW rec, RecordOK(rec), NEW lost, NEW at \in Nat,
         NEW F, F = FenceLost(rec, lost, at)
  PROVE  Reaps(rec, F, {}) /\ SameRows(rec, F)
<1>1. /\ F.cancelRequested = rec.cancelRequested
      /\ F.work = [k \in Kinds |->
           IF rec.work[k].worker \in lost /\ Live(rec.work[k], at)
           THEN [rec.work[k] EXCEPT !.expiresAt = at] ELSE rec.work[k]]
  BY DEF FenceLost, RecordOK, Target
<1>2. ASSUME NEW k \in Kinds
      PROVE  /\ Loosens(rec.work[k], F.work[k])
             /\ F.work[k].source = rec.work[k].source
             /\ F.work[k].lease = rec.work[k].lease
             /\ rec.work[k].lease # "ACTIVE" => F.work[k] = rec.work[k]
  <2>1. PICK x, y : x = rec.work[k] /\ y = F.work[k]
    BY Zenon
  <2>2. x \in Work
    BY <2>1 DEF RecordOK, WorkOK
  <2>3. CASE x.worker \in lost /\ Live(x, at)
    <3>1. y = [x EXCEPT !.expiresAt = at]
      BY <1>1, <2>1, <2>3
    <3>2. /\ y.source = x.source /\ y.lease = x.lease /\ y.worker = x.worker
          /\ y.expiresAt = at /\ y.deadlineAt = x.deadlineAt
      BY <2>2, <3>1 DEF Work
    <3>3. x.lease = "ACTIVE" /\ x.expiresAt \in Nat /\ x.expiresAt > at
      BY <2>2, <2>3 DEF Live, Work
    <3>4. ASSUME NEW n \in Nat, Live(y, n) PROVE Live(x, n)
      <4>1. at > n /\ x.deadlineAt > n
        BY <3>2, <3>4 DEF Live
      <4>. QED  BY <3>3, <4>1 DEF Live
    <3>5. Loosens(x, y)
      BY <3>2, <3>3, <3>4 DEF Loosens
    <3>. QED  BY <2>1, <3>2, <3>3, <3>5, Zenon
  <2>4. CASE ~(x.worker \in lost /\ Live(x, at))
    <3>1. y = x
      BY <1>1, <2>1, <2>4
    <3>2. Loosens(x, y)
      BY <3>1, SameLease
    <3>. QED  BY <2>1, <3>1, <3>2, Zenon
  <2>. QED  BY <2>3, <2>4
<1>3. Stays(rec, F)
  BY <1>1, <1>2 DEF Stays, Kinds
<1>4. SameRows(rec, F)
  BY <1>2, Zenon DEF SameRows
<1>. QED  BY <1>2, <1>3, <1>4 DEF Reaps, Ends

\* complete_lease closes its lease.
LEMMA CompletedReaps ==
  ASSUME NEW rec, RecordOK(rec), NEW k \in Kinds, NEW outcome, NEW retryable,
         NEW seen, NEW at, NEW skip,
         k = "BUILD" => rec.work["BUILD"].source # "ABSENT"
  PROVE  Reaps(rec, Completed(rec, k, outcome, retryable, seen, at, skip), {k})
<1>. DEFINE C == Completed(rec, k, outcome, retryable, seen, at, skip)
            status == FinalStatus(k, outcome)
            good == status \in {"SUCCEEDED", "ABORTED"}
            base == IF k = "CANCEL" /\ good THEN Fence(rec, skip, {"CANCEL"}) ELSE rec
            retry == RetryAllowed(retryable, outcome, rec.work[k].attempts)
            s1 == IF k = "CANCEL" THEN rec.status ELSE Written(rec.status, seen, "QUEUED")
            v1 == Closed(rec.work[k], "FAILED", "PENDING", at + RetryDelay(rec.work[k].attempts))
            s2 == Written(rec.status, seen, status)
            v2 == Closed(rec.work[k], IF good THEN "COMPLETED" ELSE "FAILED",
                         IF good THEN "DELIVERED" ELSE "FAILED", 0)
<1>1. /\ retry => C = [rec EXCEPT !.status = s1, !.work[k] = v1]
      /\ ~retry => C = [base EXCEPT !.status = s2, !.work[k] = v2]
  BY Zenon DEF Completed
<1>2. v1.lease # "ACTIVE" /\ v2.lease # "ACTIVE"
  BY ClosedFields
<1>3. Reaps(rec, base, {}) /\ base \in Target
      /\ (k = "BUILD" => base.work["BUILD"].source # "ABSENT")
  <2>1. CASE k = "CANCEL" /\ good
    <3>1. PICK f : f = Fence(rec, skip, {"CANCEL"})
      BY Zenon
    <3>2. base = f
      BY <2>1, <3>1, Zenon
    <3>3. Reaps(rec, f, RunKinds \ (skip \cup {"CANCEL"})) /\ f \in Target
      BY <3>1, FenceReaps, FenceOK, Zenon DEF Follows, RecordOK
    <3>4. Reaps(rec, f, {}) /\ k # "BUILD"
      BY <2>1, <3>3, ReapsLess
    <3>. QED  BY <3>2, <3>3, <3>4, Zenon
  <2>2. CASE ~(k = "CANCEL" /\ good)
    <3>1. base = rec
      BY <2>2, Zenon
    <3>2. Reaps(rec, rec, {}) /\ rec \in Target
      BY ReapsSelf DEF RecordOK
    <3>. QED  BY <3>1, <3>2, Zenon
  <2>. QED  BY <2>1, <2>2
<1>. HIDE DEF C, base, retry, s1, v1, s2, v2
<1>4. CASE retry
  <2>1. rec \in Target
    BY DEF RecordOK
  <2>2. Reaps(rec, [rec EXCEPT !.status = s1, !.work[k] = v1], {k})
    BY <1>2, <2>1, BothWriteReaps, Zenon
  <2>3. Reaps(rec, C, {k})
    BY <1>1, <1>4, <2>2, Zenon
  <2>. QED  BY <2>3, Zenon DEF C
<1>5. CASE ~retry
  <2>1. Reaps(base, [base EXCEPT !.status = s2, !.work[k] = v2], {k})
    BY <1>2, <1>3, BothWriteReaps, Zenon
  <2>2. Reaps(base, C, {k})
    BY <1>1, <1>5, <2>1, Zenon
  <2>3. Reaps(rec, C, {k})
    BY <1>3, <2>2, ReapsTrans
  <2>. QED  BY <2>3, Zenon DEF C
<1>. QED  BY <1>4, <1>5

-----------------------------------------------------------------------------
(* Targets that are not cancelled agree with their work.                   *)

\* A write after which an uncancelled target agrees with its work, that leaves
\* the final status of one and, while it is not cancelled, the leases in keep.
Advances(t, old, new, keep) ==
  /\ ~new.cancelRequested => ~old.cancelRequested
  /\ Settled(t, new) /\ OwnKinds(t, new)
  /\ ~old.cancelRequested /\ old.status \in Terminal => new.status = old.status
  /\ ~new.cancelRequested => \A k \in keep : new.work[k].lease = old.work[k].lease

LEMMA SameAdvances ==
  ASSUME NEW t, NEW rec, Settled(t, rec), OwnKinds(t, rec), NEW keep
  PROVE  Advances(t, rec, rec, keep)
BY DEF Advances

LEMMA CancelledAdvances ==
  ASSUME NEW t, NEW old, NEW new, old.cancelRequested, OwnKinds(t, old),
         Stays(old, new), NEW keep
  PROVE  Advances(t, old, new, keep)
<1>1. new.cancelRequested
  BY Zenon DEF Stays
<1>2. Settled(t, new)
  BY <1>1, Zenon DEF Settled
<1>3. OwnKinds(t, new)
  BY Zenon DEF OwnKinds, Stays
<1>. QED  BY <1>1, <1>2, <1>3, Zenon DEF Advances

\* The work that executes t is of one kind only.
LEMMA MainKindOK ==
  ASSUME NEW t \in Targets
  PROVE  /\ MainKind(t) \in Kinds /\ MainKind(t) # "CANCEL"
         /\ t \in Runs => MainKind(t) = "START"
         /\ t \in Builds => MainKind(t) = "BUILD"
BY TargetAssumption DEF MainKind, Kinds, Targets

\* A write to the status and to the work that executes an uncancelled target
LEMMA MainAdvances ==
  ASSUME NEW t \in Targets, NEW old, ~old.cancelRequested,
         Settled(t, old), OwnKinds(t, old),
         NEW new, NEW s, NEW v, Writes(old, new, s, MainKind(t), v), Agrees(s, v),
         old.status \in Terminal => s = old.status,
         NEW keep \in SUBSET Kinds,
         MainKind(t) \in keep => v.lease = old.work[MainKind(t)].lease
  PROVE  Advances(t, old, new, keep)
<1>1. /\ new.status = s /\ ~new.cancelRequested /\ new.work[MainKind(t)] = v
      /\ \A j \in Kinds \ {MainKind(t)} : new.work[j] = old.work[j]
  BY Zenon DEF Writes
<1>2. Settled(t, new)
  <2>1. \A k \in Kinds \ {MainKind(t)} : old.work[k] = NoWork
    BY Zenon DEF Settled
  <2>. QED  BY <1>1, <2>1, Zenon DEF Settled
<1>3. OwnKinds(t, new)
  <2>1. t \in Runs => MainKind(t) # "BUILD" /\ "BUILD" \in Kinds
    BY MainKindOK DEF Kinds
  <2>2. t \in Runs => new.work["BUILD"] = old.work["BUILD"]
    BY <1>1, <2>1
  <2>. QED  BY <1>1, <2>2, Zenon DEF OwnKinds
<1>4. \A k \in keep : new.work[k].lease = old.work[k].lease
  BY <1>1
<1>. QED  BY <1>1, <1>2, <1>3, <1>4, Zenon DEF Advances

\* The reaper requeues or fails an uncancelled target that it read started.
LEMMA ResetAdvances ==
  ASSUME NEW t \in Targets, NEW rec \in Target, ~rec.cancelRequested,
         Settled(t, rec), OwnKinds(t, rec), NEW k, k = MainKind(t),
         rec.work[k].lease = "ACTIVE", NEW late, NEW at, NEW seen \in Started,
         NEW keep \in SUBSET (Kinds \ {k})
  PROVE  Advances(t, rec, ResetExpired(rec, k, late, at, seen), keep)
<1>. DEFINE retry == RetryAllowed(~late, "FAILED", rec.work[k].attempts)
            status == IF retry
                      THEN IF k = "CANCEL" THEN seen ELSE "QUEUED"
                      ELSE IF late /\ k # "CANCEL" THEN "TIMED_OUT" ELSE "FAILED"
            s == Written(rec.status, seen, status)
            v == Closed(rec.work[k], IF late THEN "FAILED" ELSE "EXPIRED",
                        IF retry THEN "PENDING" ELSE "FAILED",
                        IF retry THEN at + RetryDelay(rec.work[k].attempts) ELSE 0)
<1>1. ResetExpired(rec, k, late, at, seen) = [rec EXCEPT !.status = s, !.work[k] = v]
  BY Zenon DEF ResetExpired
<1>2. k \in Kinds /\ k # "CANCEL"
  BY MainKindOK
<1>3. /\ retry => s = "QUEUED" /\ v.source = "PENDING"
      /\ ~retry => s \in {"TIMED_OUT", "FAILED"} /\ v.source = "FAILED"
  <2>1. retry => v.source = "PENDING"
    BY ClosedFields
  <2>2. ~retry => v.source = "FAILED"
    BY ClosedFields
  <2>. HIDE DEF v, retry
  <2>3. retry => s = "QUEUED"
    BY <1>2 DEF Written, Started
  <2>4. ~retry => s \in {"TIMED_OUT", "FAILED"}
    BY <1>2 DEF Written, Started
  <2>. QED  BY <2>1, <2>2, <2>3, <2>4, Zenon
<1>4. v.lease # "ACTIVE"
  BY ClosedFields
<1>. HIDE DEF s, v, retry
<1>5. Agrees(s, v)
  BY <1>3, <1>4 DEF Agrees, Terminal, RunTerminal, BuildTerminal
<1>6. rec.status \notin Terminal
  BY DEF Settled, Agrees, Terminal, RunTerminal, BuildTerminal, NoWork
<1>7. PICK new : new = [rec EXCEPT !.status = s, !.work[k] = v]
  BY Zenon
<1>8. Writes(rec, new, s, MainKind(t), v)
  BY <1>2, <1>7, BothWrite, Zenon
<1>9. keep \in SUBSET Kinds /\ MainKind(t) \notin keep
  OBVIOUS
<1>10. Advances(t, rec, new, keep)
  BY <1>5, <1>6, <1>8, <1>9, MainAdvances, Zenon
<1>. QED  BY <1>1, <1>7, <1>10, Zenon

\* What reap_expired_leases may take a batch of a target's rows for
MayReap(t, rec, batch, cancelling, seen) ==
  /\ batch # {} => rec.status # "ABSENT"
  /\ "BUILD" \in batch => t \notin Runs
  /\ ~rec.cancelRequested => \A k \in batch : /\ rec.work[k].lease = "ACTIVE"
                                              /\ ~cancelling /\ seen \in Started

\* What it makes of the target
ReapedAs(rec, new, batch, skip, at, cancelling, seen, tie) ==
  \E r : /\ r = ReapTarget(rec, batch, skip, at, cancelling, seen, tie)
         /\ new = r \/ new = ReapOverdue(r, skip, at)

\* reap_expired_leases on one target, given what it read of an uncancelled one
LEMMA ReapAllAdvances ==
  ASSUME NEW t \in Targets, NEW rec, RecordOK(rec), Settled(t, rec), OwnKinds(t, rec),
         NEW skip, NEW batch \in SUBSET (Kinds \ skip), NEW keep \in SUBSET (Kinds \ batch),
         NEW at \in Nat, NEW cancelling, NEW seen, NEW tie,
         MayReap(t, rec, batch, cancelling, seen),
         NEW new, ReapedAs(rec, new, batch, skip, at, cancelling, seen, tie)
  PROVE  Reaps(rec, new, batch) /\ Advances(t, rec, new, keep)
<1>. SUFFICES ASSUME batch # {} => rec.status # "ABSENT",
                     "BUILD" \in batch => t \notin Runs,
                     ~rec.cancelRequested => \A k \in batch : /\ rec.work[k].lease = "ACTIVE"
                                                              /\ ~cancelling /\ seen \in Started,
                     NEW r, r = ReapTarget(rec, batch, skip, at, cancelling, seen, tie),
                     new = r \/ new = ReapOverdue(r, skip, at)
              PROVE  Reaps(rec, new, batch) /\ Advances(t, rec, new, keep)
  BY Zenon DEF MayReap, ReapedAs
<1>3. ASSUME NEW k \in batch, ~rec.cancelRequested PROVE k = MainKind(t)
  <2>1. k \in Kinds /\ rec.work[k].lease = "ACTIVE"
    BY <1>3
  <2>2. NoWork.lease # "ACTIVE"
    BY DEF NoWork
  <2>. QED  BY <1>3, <2>1, <2>2, Zenon DEF Settled
<1>4. "BUILD" \in batch => /\ batch = {"BUILD"} /\ ~cancelling
                           /\ rec.work["BUILD"].source # "ABSENT"
  <2>1. SUFFICES ASSUME "BUILD" \in batch
                 PROVE  /\ batch = {"BUILD"} /\ ~cancelling
                        /\ rec.work["BUILD"].source # "ABSENT"
    OBVIOUS
  <2>2. t \in Builds
    BY <2>1 DEF Targets
  <2>3. ~rec.cancelRequested
    BY <2>2, Zenon DEF OwnKinds
  <2>4. ~cancelling /\ rec.work["BUILD"].lease = "ACTIVE"
    BY <2>1, <2>3, Zenon
  <2>5. "BUILD" \in Kinds
    BY DEF Kinds
  <2>6. rec.work["BUILD"].source # "ABSENT"
    BY <2>4, <2>5 DEF RecordOK, WorkOK
  <2>7. \A k \in batch : k = "BUILD"
    BY <1>3, <2>2, <2>3, MainKindOK, Zenon
  <2>. QED  BY <2>1, <2>4, <2>6, <2>7
<1>5. Reaps(rec, new, batch)
  BY <1>4, ReapAllReaps, Zenon
<1>6. CASE rec.cancelRequested
  <2>1. Stays(rec, new)
    BY <1>5, Zenon DEF Reaps
  <2>2. Advances(t, rec, new, keep)
    BY <1>6, <2>1, CancelledAdvances, Zenon
  <2>. QED  BY <1>5, <2>2, Zenon
<1>7. CASE ~rec.cancelRequested
  <2>1. ~r.cancelRequested
    <3>1. Reaps(rec, r, batch)
      BY <1>4, ReapTargetReaps, Zenon
    <3>. QED  BY <1>7, <3>1, Zenon DEF Reaps, Stays
  <2>2. new = r
    BY <2>1, Zenon DEF ReapOverdue, CancellationOverdue
  <2>3. CASE batch = {}
    <3>1. "START" \notin batch /\ "BUILD" \notin batch /\ "CANCEL" \notin batch
      BY <2>3
    <3>2. ~(RunKinds \subseteq batch)
      BY <2>3 DEF RunKinds
    <3>3. r = rec
      BY <3>1, <3>2, Zenon DEF ReapTarget
    <3>4. Advances(t, rec, new, keep)
      BY <2>2, <3>3, SameAdvances, Zenon
    <3>. QED  BY <1>5, <3>4, Zenon
  <2>4. CASE batch # {}
    <3>1. PICK k \in batch : TRUE
      BY <2>4
    <3>2. k = MainKind(t)
      BY <1>3, <1>7
    <3>3. \A j \in batch : j = k
      BY <1>3, <1>7, <3>2
    <3>4. ~cancelling /\ seen \in Started /\ rec.work[k].lease = "ACTIVE"
      BY <1>7, <3>1, Zenon
    <3>5. r = ResetExpired(rec, k, rec.work[k].deadlineAt <= at, at, seen)
      <4>1. k = "BUILD" \/ k = "START"
        BY <3>2 DEF MainKind
      <4>2. ~(RunKinds \subseteq batch)
        BY <3>3, <3>1 DEF RunKinds
      <4>3. CASE k = "BUILD"
        <5>1. r = ReapLease(rec, "BUILD", skip, rec.work["BUILD"].deadlineAt <= at,
                            at, cancelling, seen)
          BY <3>1, <4>2, <4>3, Zenon DEF ReapTarget
        <5>. QED  BY <3>4, <4>3, <5>1, Zenon DEF ReapLease
      <4>4. CASE k = "START"
        <5>1. "BUILD" \notin batch
          BY <3>3, <4>4
        <5>2. r = ReapLease(rec, "START", skip, rec.work["START"].deadlineAt <= at,
                            at, cancelling, seen)
          BY <3>1, <4>2, <4>4, <5>1, Zenon DEF ReapTarget
        <5>. QED  BY <3>4, <4>4, <5>2, Zenon DEF ReapLease
      <4>. QED  BY <4>1, <4>3, <4>4
    <3>6. keep \in SUBSET (Kinds \ {k}) /\ rec \in Target
      BY <3>1 DEF RecordOK
    <3>7. PICK late : r = ResetExpired(rec, k, late, at, seen)
      BY <3>5, Zenon
    <3>8. Advances(t, rec, ResetExpired(rec, k, late, at, seen), keep)
      BY <1>7, <3>2, <3>4, <3>6, ResetAdvances, Zenon
    <3>9. Advances(t, rec, r, keep)
      BY <3>7, <3>8, Zenon
    <3>. QED  BY <1>5, <2>2, <3>9, Zenon
  <2>. QED  BY <2>3, <2>4
<1>. QED  BY <1>6, <1>7

-----------------------------------------------------------------------------
(* Writes to one row.                                                      *)

\* The row of an uncancelled target that is leased, or that is pending
LEMMA LeasedKind ==
  ASSUME NEW t, NEW rec, Settled(t, rec), ~rec.cancelRequested,
         NEW k \in Kinds, rec.work[k].lease = "ACTIVE"
  PROVE  k = MainKind(t) /\ rec.status \in Started /\ rec.work[k].source = "CLAIMED"
<1>1. k = MainKind(t)
  <2>1. NoWork.lease # "ACTIVE"
    BY DEF NoWork
  <2>. QED  BY <2>1, Zenon DEF Settled
<1>. QED  BY <1>1 DEF Settled, Agrees, NoWork, Started

LEMMA PendingKind ==
  ASSUME NEW t, NEW rec, Settled(t, rec), ~rec.cancelRequested,
         NEW k \in Kinds, rec.work[k].source = "PENDING"
  PROVE  k = MainKind(t) /\ rec.status = "QUEUED" /\ rec.work[k].lease # "ACTIVE"
<1>1. k = MainKind(t)
  <2>1. NoWork.source # "PENDING"
    BY DEF NoWork
  <2>. QED  BY <2>1, Zenon DEF Settled
<1>. QED  BY <1>1 DEF Settled, Agrees, NoWork

\* A write to one row is one to the status and that row.
LEMMA RowWrite ==
  ASSUME NEW rec \in Target, NEW k \in Kinds, NEW v
  PROVE  Writes(rec, [rec EXCEPT !.work[k] = v], rec.status, k, v)
<1>. DEFINE new == [rec EXCEPT !.work[k] = v]
<1>1. new = [rec EXCEPT !.work = [rec.work EXCEPT ![k] = v]]
  BY DEF Target
<1>2. /\ new.status = rec.status /\ new.cancelRequested = rec.cancelRequested
      /\ new.work = [rec.work EXCEPT ![k] = v]
  BY <1>1 DEF Target
<1>3. rec.work \in [Kinds -> Work]
  BY DEF Target
<1>. HIDE DEF new
<1>4. Writes(rec, new, rec.status, k, v)
  BY <1>2, <1>3 DEF Writes
<1>. QED  BY <1>4, Zenon DEF new

\* So is a write to the status alone.
LEMMA StatusWrites ==
  ASSUME NEW rec \in Target, NEW s, NEW k
  PROVE  Writes(rec, [rec EXCEPT !.status = s], s, k, rec.work[k])
<1>1. PICK new : new = [rec EXCEPT !.status = s]
  BY Zenon
<1>2. /\ new.status = s /\ new.cancelRequested = rec.cancelRequested
      /\ new.work = rec.work
  BY <1>1, StatusWrite
<1>3. Writes(rec, new, s, k, rec.work[k])
  BY <1>2, Zenon DEF Writes
<1>. QED  BY <1>1, <1>3, Zenon

\* A write to a row that opens no lease in it opens none.
LEMMA RowEnds ==
  ASSUME NEW rec, NEW new, NEW s, NEW k \in Kinds, NEW v, Writes(rec, new, s, k, v),
         Loosens(rec.work[k], v)
  PROVE  Ends(rec, new, {})
<1>1. ASSUME NEW j \in Kinds PROVE Loosens(rec.work[j], new.work[j])
  BY SameLease DEF Writes
<1>. QED  BY <1>1 DEF Ends

\* A write to the row that executes the target when that is not cancelled
LEMMA RowAdvances ==
  ASSUME NEW t \in Targets, NEW rec, Settled(t, rec), OwnKinds(t, rec),
         NEW new, NEW s, NEW k \in Kinds, NEW v, Writes(rec, new, s, k, v),
         rec.cancelRequested /\ k = "BUILD" => v.source = rec.work[k].source,
         ~rec.cancelRequested =>
           /\ k = MainKind(t) /\ Agrees(s, v)
           /\ rec.status \in Terminal => s = rec.status,
         NEW keep \in SUBSET Kinds,
         ~rec.cancelRequested /\ k \in keep => v.lease = rec.work[k].lease
  PROVE  Advances(t, rec, new, keep)
<1>1. CASE rec.cancelRequested
  <2>1. Stays(rec, new)
    <3>1. "BUILD" \in Kinds
      BY DEF Kinds
    <3>2. new.work["BUILD"].source = rec.work["BUILD"].source
      BY <1>1, <3>1 DEF Writes
    <3>. QED  BY <3>2, Zenon DEF Stays, Writes
  <2>. QED  BY <1>1, <2>1, CancelledAdvances, Zenon
<1>2. CASE ~rec.cancelRequested
  <2>1. /\ k = MainKind(t) /\ Agrees(s, v)
        /\ rec.status \in Terminal => s = rec.status
    BY <1>2, Zenon
  <2>2. Writes(rec, new, s, MainKind(t), v)
    BY <2>1, Zenon
  <2>3. MainKind(t) \in keep => v.lease = rec.work[MainKind(t)].lease
    BY <1>2, <2>1, Zenon
  <2>. QED  BY <1>2, <2>1, <2>2, <2>3, MainAdvances, Zenon
<1>. QED  BY <1>1, <1>2

\* A row whose status and lease columns are kept, grants apart
LEMMA SameRowAdvances ==
  ASSUME NEW t \in Targets, NEW rec, Settled(t, rec), OwnKinds(t, rec),
         NEW new, NEW k \in Kinds, NEW v, Writes(rec, new, rec.status, k, v),
         v.source = rec.work[k].source, v.lease = rec.work[k].lease,
         ~rec.cancelRequested => k = MainKind(t),
         rec.work[k] = NoWork => v = NoWork,
         NEW keep \in SUBSET Kinds
  PROVE  Advances(t, rec, new, keep)
<1>1. ~rec.cancelRequested => Agrees(rec.status, v)
  <2>1. SUFFICES ASSUME ~rec.cancelRequested PROVE Agrees(rec.status, v)
    BY Zenon
  <2>2. Agrees(rec.status, rec.work[k])
    BY <2>1, Zenon DEF Settled
  <2>. QED  BY <2>2, Zenon DEF Agrees
<1>. QED  BY <1>1, RowAdvances, Zenon

\* What two writes of one transaction do to a target together
LEMMA AdvancesTrans ==
  ASSUME NEW t, NEW a, NEW b, NEW c, NEW keep,
         Advances(t, a, b, keep), b.cancelRequested = a.cancelRequested,
         Advances(t, b, c, keep)
  PROVE  Advances(t, a, c, keep)
<1>1. Settled(t, c) /\ OwnKinds(t, c)
  BY Zenon DEF Advances
<1>2. ~c.cancelRequested => ~a.cancelRequested
  BY Zenon DEF Advances
<1>3. ~a.cancelRequested /\ a.status \in Terminal => c.status = a.status
  BY Zenon DEF Advances
<1>4. ~c.cancelRequested => \A k \in keep : c.work[k].lease = a.work[k].lease
  BY Zenon DEF Advances
<1>. QED  BY <1>1, <1>2, <1>3, <1>4, Zenon DEF Advances

-----------------------------------------------------------------------------
(* The tenant API.                                                         *)

\* A write that opens no lease and after which the target agrees with its work
Moves(t, old, new, keep) == Ends(old, new, {}) /\ Advances(t, old, new, keep)

\* create_run and create_build
LEMMA QueuedMoves ==
  ASSUME NEW t \in Targets, NEW rec, RecordOK(rec), Settled(t, rec), OwnKinds(t, rec),
         rec.status = "ABSENT", NEW k, k = MainKind(t), NEW keep \in SUBSET Kinds
  PROVE  Moves(t, rec, Queued(rec, k), keep)
<1>1. PICK x, v : x = rec.work[k] /\ v = WithSource(x, "PENDING", now)
  BY Zenon
<1>2. k \in Kinds /\ k # "CANCEL" /\ (k = "BUILD" => t \in Builds)
  BY MainKindOK DEF MainKind
<1>3. rec \in Target /\ x \in Work
  BY <1>1, <1>2 DEF RecordOK, WorkOK
<1>4. PICK new : new = Queued(rec, k)
  BY Zenon
<1>5. new = [rec EXCEPT !.status = "QUEUED", !.work[k] = v]
  BY <1>1, <1>4 DEF Queued
<1>6. Writes(rec, new, "QUEUED", k, v)
  BY <1>2, <1>3, <1>5, BothWrite, Zenon
<1>7. /\ v.source = "PENDING" /\ v.lease = x.lease /\ v.worker = x.worker
      /\ v.expiresAt = x.expiresAt /\ v.deadlineAt = x.deadlineAt
  BY <1>1, <1>3, WithSourceKeeps
<1>8. Ends(rec, new, {})
  <2>1. Loosens(rec.work[k], v)
    BY <1>1, <1>7, SameLease
  <2>. QED  BY <1>2, <1>6, <2>1, RowEnds, Zenon
<1>9. x.lease # "ACTIVE"
  BY <1>1, <1>2 DEF RecordOK, WorkOK
<1>10. Agrees("QUEUED", v)
  BY <1>7, <1>9 DEF Agrees
<1>11. rec.status \notin Terminal
  BY DEF Terminal, RunTerminal, BuildTerminal
<1>12. ~(rec.cancelRequested /\ k = "BUILD")
  BY <1>2, Zenon DEF OwnKinds
<1>13. v.lease = rec.work[k].lease
  BY <1>1, <1>7, Zenon
<1>14. Advances(t, rec, new, keep)
  BY <1>2, <1>6, <1>10, <1>11, <1>12, <1>13, RowAdvances, Zenon
<1>. QED  BY <1>4, <1>8, <1>14, Zenon DEF Moves

\* create_run that leaves a DRAFT
LEMMA DraftMoves ==
  ASSUME NEW t \in Targets, NEW rec, RecordOK(rec), Settled(t, rec), OwnKinds(t, rec),
         rec.status = "ABSENT", NEW keep \in SUBSET Kinds
  PROVE  Moves(t, rec, [rec EXCEPT !.status = "DRAFT"], keep)
<1>1. PICK k, x : k = MainKind(t) /\ x = rec.work[k]
  BY Zenon
<1>2. k \in Kinds /\ rec \in Target
  BY <1>1, MainKindOK DEF RecordOK
<1>3. PICK new : new = [rec EXCEPT !.status = "DRAFT"]
  BY Zenon
<1>4. Writes(rec, new, "DRAFT", k, x)
  BY <1>1, <1>2, <1>3, StatusWrites, Zenon
<1>5. Ends(rec, new, {})
  <2>1. Loosens(rec.work[k], x)
    BY <1>1, SameLease
  <2>. QED  BY <1>2, <1>4, <2>1, RowEnds, Zenon
<1>6. ~rec.cancelRequested => Agrees("DRAFT", x)
  <2>1. SUFFICES ASSUME ~rec.cancelRequested PROVE Agrees("DRAFT", x)
    BY Zenon
  <2>2. Agrees("ABSENT", x)
    BY <1>1, <2>1, Zenon DEF Settled
  <2>. QED  BY <2>2 DEF Agrees, Terminal, RunTerminal, BuildTerminal
<1>7. rec.status \notin Terminal
  BY DEF Terminal, RunTerminal, BuildTerminal
<1>8. x.source = rec.work[k].source /\ x.lease = rec.work[k].lease
  BY <1>1, Zenon
<1>9. Advances(t, rec, new, keep)
  BY <1>1, <1>2, <1>4, <1>6, <1>7, <1>8, RowAdvances, Zenon
<1>. QED  BY <1>3, <1>5, <1>9, Zenon DEF Moves

\* A record whose rows keep their source or their lease columns.  Only the
\* CANCEL row is new when a cancellation is requested.
CancelledFrom(old, new) ==
  /\ new.cancelRequested
  /\ \A k \in Kinds : Loosens(old.work[k], new.work[k])
  /\ new.work["BUILD"].source = old.work["BUILD"].source

LEMMA CancelledFromMoves ==
  ASSUME NEW t \in Runs, NEW old, NEW new, CancelledFrom(old, new), OwnKinds(t, old),
         old.cancelRequested \/ old.status \notin Terminal, NEW keep
  PROVE  Moves(t, old, new, keep)
<1>1. Ends(old, new, {})
  BY DEF CancelledFrom, Ends
<1>2. OwnKinds(t, new)
  <2>1. t \notin Builds
    BY TargetAssumption
  <2>. QED  BY <2>1, Zenon DEF CancelledFrom, OwnKinds
<1>3. Advances(t, old, new, keep)
  BY <1>2, Zenon DEF CancelledFrom, Advances, Settled
<1>. QED  BY <1>1, <1>3 DEF Moves

LEMMA CancelRequestFrom ==
  ASSUME NEW rec \in Target, NEW s, NEW new, new = CancelRequest(rec, s)
  PROVE  new.cancelRequested /\ new.work = rec.work
<1>1. new.cancelRequested = TRUE
  BY Zenon DEF CancelRequest, Target
<1>2. new.work = rec.work
  BY DEF CancelRequest, Target
<1>. QED  BY <1>1, <1>2

\* A write of cancel_run to an outbox row
LEMMA CommandFrom ==
  ASSUME NEW old, NEW mid, RecordOK(mid), mid.cancelRequested, mid.work = old.work,
         NEW k \in RunKinds, NEW s, NEW at
  PROVE  CancelledFrom(old, [mid EXCEPT !.work[k] = WithSource(mid.work[k], s, at)])
<1>1. PICK x, v, new : /\ x = mid.work[k] /\ v = WithSource(x, s, at)
                       /\ new = [mid EXCEPT !.work[k] = v]
  BY Zenon
<1>2. k \in Kinds /\ k # "BUILD" /\ "BUILD" \in Kinds
  BY DEF RunKinds, Kinds
<1>3. mid \in Target /\ x \in Work
  BY <1>1, <1>2 DEF RecordOK, WorkOK
<1>4. Writes(mid, new, mid.status, k, v)
  BY <1>1, <1>2, <1>3, RowWrite, Zenon
<1>5. /\ v.lease = x.lease /\ v.worker = x.worker
      /\ v.expiresAt = x.expiresAt /\ v.deadlineAt = x.deadlineAt
  BY <1>1, <1>3, WithSourceKeeps
<1>6. Loosens(mid.work[k], v)
  BY <1>1, <1>5, SameLease
<1>7. Ends(mid, new, {})
  BY <1>2, <1>4, <1>6, RowEnds, Zenon
<1>8. new.cancelRequested /\ new.work["BUILD"] = mid.work["BUILD"]
  BY <1>2, <1>4 DEF Writes
<1>9. CancelledFrom(old, new)
  BY <1>7, <1>8, Zenon DEF CancelledFrom, Ends
<1>. QED  BY <1>1, <1>9, Zenon

\* The record itself, cancelled
LEMMA SameFrom ==
  ASSUME NEW old, NEW new, new.cancelRequested, new.work = old.work
  PROVE  CancelledFrom(old, new)
BY SameLease DEF CancelledFrom

-----------------------------------------------------------------------------
(* The actions on targets.                                                 *)

\* The leases of t that the reapers in P have in their batches
BatchKinds(P, t) == {k \in Kinds : \E p \in P : <<t, k>> \in reap[p].batch}

AllMove(P) == \A t \in Targets : Moves(t, target[t], target'[t], BatchKinds(P, t))

LEMMA BatchKindsType == ASSUME NEW P, NEW t PROVE BatchKinds(P, t) \in SUBSET Kinds
BY DEF BatchKinds

LEMMA OwnTarget ==
  ASSUME IInv, AgreeInv, NEW t \in Targets
  PROVE  /\ RecordOK(target[t]) /\ target[t] \in Target
         /\ Settled(t, target[t]) /\ OwnKinds(t, target[t])
BY DEF IInv, AgreeInv, RecordOK

LEMMA SameMoves ==
  ASSUME NEW t, NEW rec, Settled(t, rec), OwnKinds(t, rec), NEW keep
  PROVE  Moves(t, rec, rec, keep)
BY SameAdvances, SameLease, Zenon DEF Moves, Ends

\* A step that writes no target
LEMMA SameAllMove ==
  ASSUME IInv, AgreeInv, UNCHANGED target, NEW P
  PROVE  AllMove(P)
BY OwnTarget, SameMoves, Zenon DEF AllMove

\* A step that writes one target
LEMMA OneMoves ==
  ASSUME IInv, AgreeInv, NEW t \in Targets, NEW rec,
         Moves(t, target[t], rec, BatchKinds(Reapers, t)),
         target' = [target EXCEPT ![t] = rec]
  PROVE  AllMove(Reapers)
<1>1. ASSUME NEW u \in Targets
      PROVE  Moves(u, target[u], target'[u], BatchKinds(Reapers, u))
  <2>1. CASE u = t
    <3>1. target'[u] = rec
      BY <2>1, Zenon DEF IInv, TypeOK
    <3>. QED  BY <2>1, <3>1, Zenon
  <2>2. CASE u # t
    <3>1. target'[u] = target[u]
      BY <2>2, Zenon DEF IInv, TypeOK
    <3>. QED  BY <3>1, OwnTarget, SameMoves, Zenon
  <2>. QED  BY <2>1, <2>2
<1>. QED  BY <1>1, Zenon DEF AllMove

LEMMA CreateMoves ==
  ASSUME IInv, AgreeInv, NEW t \in Targets,
         (t \in Runs /\ CreateRun(t)) \/ (t \in Builds /\ CreateBuild(t))
  PROVE  AllMove(Reapers)
<1>1. /\ RecordOK(target[t]) /\ Settled(t, target[t]) /\ OwnKinds(t, target[t])
      /\ BatchKinds(Reapers, t) \in SUBSET Kinds
  BY OwnTarget, BatchKindsType, Zenon
<1>2. target[t].status = "ABSENT"
  BY Zenon DEF CreateRun, CreateBuild
<1>3. \/ target' = [target EXCEPT ![t] = Queued(target[t], MainKind(t))]
      \/ target' = [target EXCEPT ![t] = [target[t] EXCEPT !.status = "DRAFT"]]
  <2>1. CASE t \in Runs /\ CreateRun(t)
    <3>1. MainKind(t) = "START"
      BY <2>1, MainKindOK
    <3>2. \/ target' = [target EXCEPT ![t] = Queued(target[t], "START")]
          \/ target' = [target EXCEPT ![t] = [target[t] EXCEPT !.status = "DRAFT"]]
      BY <2>1 DEF CreateRun
    <3>. QED  BY <3>1, <3>2, Zenon
  <2>2. CASE t \in Builds /\ CreateBuild(t)
    <3>1. MainKind(t) = "BUILD"
      BY <2>2, MainKindOK
    <3>2. target' = [target EXCEPT ![t] = Queued(target[t], "BUILD")]
      BY <2>2 DEF CreateBuild
    <3>. QED  BY <3>1, <3>2, Zenon
  <2>. QED  BY <2>1, <2>2
<1>4. Moves(t, target[t], Queued(target[t], MainKind(t)), BatchKinds(Reapers, t))
  BY <1>1, <1>2, QueuedMoves, Zenon
<1>5. Moves(t, target[t], [target[t] EXCEPT !.status = "DRAFT"], BatchKinds(Reapers, t))
  BY <1>1, <1>2, DraftMoves, Zenon
<1>. QED  BY <1>3, <1>4, <1>5, OneMoves, Zenon

LEMMA CancelRunMoves ==
  ASSUME IInv, AgreeInv, NEW t \in Runs, CancelRun(t)
  PROVE  AllMove(Reapers)
<1>1. t \in Targets
  BY DEF Targets
<1>2. PICK old : old = target[t]
  BY Zenon
<1>3. RecordOK(old) /\ old \in Target /\ OwnKinds(t, old) /\ Settled(t, old) /\ now \in Nat
  BY <1>1, <1>2, OwnTarget, Zenon DEF IInv, TypeOK
<1>4. old.status \in {"DRAFT", "QUEUED", "STARTING", "RUNNING", "ABORTING"}
      => old.status \notin Terminal
  BY DEF Terminal, RunTerminal, BuildTerminal
<1>5. ASSUME NEW new, CancelledFrom(old, new), target' = [target EXCEPT ![t] = new],
             old.status \in {"DRAFT", "QUEUED", "STARTING", "RUNNING", "ABORTING"}
      PROVE  AllMove(Reapers)
  <2>1. Moves(t, old, new, BatchKinds(Reapers, t))
    BY <1>3, <1>4, <1>5, CancelledFromMoves, Zenon
  <2>. QED  BY <1>1, <1>2, <1>5, <2>1, OneMoves, Zenon
<1>6. CASE /\ target[t].status \in {"DRAFT", "QUEUED"}
           /\ LET rec == CancelRequest(target[t], "ABORTED")
              IN  target' = [target EXCEPT ![t] =
                    IF rec.work["START"].source = "PENDING"
                    THEN [rec EXCEPT !.work["START"] = WithSource(@, "CANCELLED", 0)]
                    ELSE rec]
  <2>1. PICK rec : rec = CancelRequest(old, "ABORTED")
    BY Zenon
  <2>2. RecordOK(rec) /\ rec.cancelRequested /\ rec.work = old.work
    BY <1>3, <2>1, CancelRequestOK, CancelRequestFrom, Zenon DEF Follows
  <2>3. target' = [target EXCEPT ![t] =
          IF rec.work["START"].source = "PENDING"
          THEN [rec EXCEPT !.work["START"] = WithSource(rec.work["START"], "CANCELLED", 0)]
          ELSE rec]
    BY <1>2, <1>6, <2>1
  <2>4. CancelledFrom(old, [rec EXCEPT !.work["START"] =
                              WithSource(rec.work["START"], "CANCELLED", 0)])
    BY <2>2, CommandFrom DEF RunKinds
  <2>5. CancelledFrom(old, rec)
    BY <2>2, SameFrom
  <2>6. old.status \in {"DRAFT", "QUEUED", "STARTING", "RUNNING", "ABORTING"}
    BY <1>2, <1>6
  <2>. QED  BY <1>5, <2>3, <2>4, <2>5, <2>6, Zenon
<1>7. ASSUME NEW rec, RecordOK(rec), rec.cancelRequested, rec.work = old.work
      PROVE  CancelledFrom(old, EnsureCancelCommand(rec))
  <2>1. CancelledFrom(old, [rec EXCEPT !.work["CANCEL"] =
                              WithSource(rec.work["CANCEL"], "PENDING", now)])
    BY <1>7, CommandFrom DEF RunKinds
  <2>2. CancelledFrom(old, rec)
    BY <1>7, SameFrom
  <2>3. EnsureCancelCommand(rec) =
          IF rec.work["CANCEL"].source # "ABSENT" THEN rec
          ELSE [rec EXCEPT !.work["CANCEL"] =
                              WithSource(rec.work["CANCEL"], "PENDING", now)]
    BY DEF EnsureCancelCommand
  <2>. QED  BY <2>1, <2>2, <2>3, Zenon
<1>8. CASE /\ target[t].status \in {"STARTING", "RUNNING"}
           /\ target' = [target EXCEPT ![t] =
                EnsureCancelCommand(CancelRequest(target[t], "ABORTING"))]
  <2>1. PICK rec : rec = CancelRequest(old, "ABORTING")
    BY Zenon
  <2>2. RecordOK(rec) /\ rec.cancelRequested /\ rec.work = old.work
    BY <1>3, <2>1, CancelRequestOK, CancelRequestFrom, Zenon DEF Follows
  <2>3. old.status \in {"DRAFT", "QUEUED", "STARTING", "RUNNING", "ABORTING"}
    BY <1>2, <1>8
  <2>. QED  BY <1>2, <1>5, <1>7, <1>8, <2>1, <2>2, <2>3, Zenon
<1>9. CASE /\ target[t].status = "ABORTING"
           /\ target' = [target EXCEPT ![t] = EnsureCancelCommand(target[t])]
  <2>1. old.cancelRequested
    BY <1>2, <1>3, <1>9 DEF Settled, Agrees, Terminal, RunTerminal, BuildTerminal
  <2>2. old.status \in {"DRAFT", "QUEUED", "STARTING", "RUNNING", "ABORTING"}
    BY <1>2, <1>9
  <2>. QED  BY <1>2, <1>3, <1>5, <1>7, <1>9, <2>1, <2>2, Zenon
<1>. QED  BY <1>6, <1>8, <1>9 DEF CancelRun

\* A row written with the value it has
LEMMA IssuedSame ==
  ASSUME NEW b, NEW x,
         x = [source |-> "ABSENT", attempts |-> 0, availableAt |-> 0, lease |-> "NONE",
              worker |-> NoWorker, claimedAt |-> 0, expiresAt |-> 0, deadlineAt |-> 0,
              issued |-> b]
  PROVE  [x EXCEPT !.issued = b] = x
OBVIOUS

\* Revoking or issuing the grants of a lease
LEMMA IssuedMoves ==
  ASSUME NEW t \in Targets, NEW rec, RecordOK(rec), Settled(t, rec), OwnKinds(t, rec),
         NEW k \in Kinds, ~rec.cancelRequested => k = MainKind(t),
         NEW b \in BOOLEAN, b => rec.work[k].lease = "ACTIVE",
         NEW keep \in SUBSET Kinds
  PROVE  Moves(t, rec, [rec EXCEPT !.work[k].issued = b], keep)
<1>1. PICK x, v, new : /\ x = rec.work[k] /\ v = [x EXCEPT !.issued = b]
                       /\ new = [rec EXCEPT !.work[k] = v]
  BY Zenon
<1>2. [rec EXCEPT !.work[k].issued = b] = new
  BY <1>1 DEF RecordOK, Target
<1>3. rec \in Target /\ x \in Work
  BY <1>1 DEF RecordOK, WorkOK
<1>4. Writes(rec, new, rec.status, k, v)
  BY <1>1, <1>3, RowWrite, Zenon
<1>5. /\ v.source = x.source /\ v.lease = x.lease /\ v.worker = x.worker
      /\ v.expiresAt = x.expiresAt /\ v.deadlineAt = x.deadlineAt
  BY <1>1, <1>3 DEF Work
<1>6. x = NoWork => v = NoWork
  <2>1. SUFFICES ASSUME x = NoWork PROVE v = NoWork
    BY Zenon
  <2>2. b = FALSE
    <3>1. NoWork.lease # "ACTIVE"
      BY DEF NoWork
    <3>2. ~b
      BY <1>1, <2>1, <3>1, Zenon
    <3>. QED  BY <3>2
  <2>3. [NoWork EXCEPT !.issued = FALSE] = NoWork
    BY IssuedSame, Zenon DEF NoWork
  <2>. QED  BY <1>1, <2>1, <2>2, <2>3, Zenon
<1>7. Loosens(x, v)
  BY <1>5, SameLease, Zenon
<1>8. Ends(rec, new, {})
  BY <1>1, <1>4, <1>7, RowEnds, Zenon
<1>9. /\ v.source = rec.work[k].source /\ v.lease = rec.work[k].lease
      /\ (rec.work[k] = NoWork => v = NoWork)
  BY <1>1, <1>5, <1>6, Zenon
<1>10. Advances(t, rec, new, keep)
  BY <1>4, <1>9, SameRowAdvances, Zenon
<1>. QED  BY <1>2, <1>8, <1>10, Zenon DEF Moves

LEMMA RotateSecretMoves ==
  ASSUME IInv, AgreeInv, RotateSecret PROVE AllMove(Reapers)
<1>1. PICK T \in SUBSET Runs : target' = [t \in Targets |->
         IF t \in T THEN [target[t] EXCEPT !.work["START"].issued = FALSE]
         ELSE target[t]]
  BY Zenon DEF RotateSecret
<1>2. ASSUME NEW t \in Targets
      PROVE  Moves(t, target[t], target'[t], BatchKinds(Reapers, t))
  <2>1. /\ RecordOK(target[t]) /\ Settled(t, target[t]) /\ OwnKinds(t, target[t])
        /\ BatchKinds(Reapers, t) \in SUBSET Kinds
    BY OwnTarget, BatchKindsType, Zenon
  <2>2. CASE t \in T
    <3>1. "START" \in Kinds /\ MainKind(t) = "START"
      BY <2>2, MainKindOK DEF Kinds
    <3>2. Moves(t, target[t], [target[t] EXCEPT !.work["START"].issued = FALSE],
                BatchKinds(Reapers, t))
      BY <2>1, <3>1, IssuedMoves, Zenon
    <3>. QED  BY <1>1, <2>2, <3>2, Zenon
  <2>3. CASE t \notin T
    <3>1. target'[t] = target[t]
      BY <1>1, <2>3, Zenon
    <3>. QED  BY <2>1, <3>1, SameMoves, Zenon
  <2>. QED  BY <2>2, <2>3
<1>. QED  BY <1>2, Zenon DEF AllMove

LEMMA ChangePolicyMoves ==
  ASSUME IInv, AgreeInv, NEW t \in Targets, ChangePolicy(t) PROVE AllMove(Reapers)
<1>1. PICK old, new : old = target[t] /\ new = [old EXCEPT !.bound = ~old.bound]
  BY Zenon
<1>2. target' = [target EXCEPT ![t] = new]
  BY <1>1 DEF ChangePolicy, IInv, TypeOK
<1>3. old \in Target /\ Settled(t, old) /\ OwnKinds(t, old)
  BY <1>1, OwnTarget, Zenon
<1>4. /\ new.status = old.status /\ new.cancelRequested = old.cancelRequested
      /\ new.work = old.work
  BY <1>1, <1>3 DEF Target
<1>5. Settled(t, new) /\ OwnKinds(t, new)
  BY <1>3, <1>4, Zenon DEF Settled, OwnKinds
<1>6. Moves(t, old, new, BatchKinds(Reapers, t))
  BY <1>4, <1>5, SameLease, Zenon DEF Moves, Ends, Advances
<1>. QED  BY <1>1, <1>2, <1>6, OneMoves, Zenon

-----------------------------------------------------------------------------
(* Reaping, heartbeats and claims.                                         *)

\* The same target with its leases shortened
Fenced(t, old, new) ==
  /\ RecordOK(new) /\ Settled(t, new) /\ OwnKinds(t, new)
  /\ new.status = old.status /\ new.cancelRequested = old.cancelRequested
  /\ Reaps(old, new, {}) /\ SameRows(old, new)

\* What detect_lost_workers leaves of a target that agrees with its work
LEMMA FenceLostSettled ==
  ASSUME NEW t \in Targets, NEW rec, RecordOK(rec), Settled(t, rec), OwnKinds(t, rec),
         NEW lost, NEW at \in Nat, NEW F, F = FenceLost(rec, lost, at)
  PROVE  Fenced(t, rec, F)
<1>1. RecordOK(F) /\ F.status = rec.status
  BY FenceLostOK, Zenon DEF Follows
<1>2. Reaps(rec, F, {}) /\ SameRows(rec, F)
  BY FenceLostReaps, Zenon
<1>3. F.cancelRequested = rec.cancelRequested
  BY <1>2, Zenon DEF Reaps, Stays
<1>4. NoWork.lease # "ACTIVE"
  BY DEF NoWork
<1>5. Settled(t, F)
  <2>1. SUFFICES ASSUME ~rec.cancelRequested
                 PROVE  /\ Agrees(F.status, F.work[MainKind(t)])
                        /\ \A k \in Kinds \ {MainKind(t)} : F.work[k] = NoWork
    BY <1>3, Zenon DEF Settled
  <2>2. /\ Agrees(rec.status, rec.work[MainKind(t)])
        /\ \A k \in Kinds \ {MainKind(t)} : rec.work[k] = NoWork
    BY <2>1, Zenon DEF Settled
  <2>3. \A k \in Kinds \ {MainKind(t)} : F.work[k] = NoWork
    BY <1>2, <1>4, <2>2 DEF SameRows
  <2>4. PICK x, y : x = rec.work[MainKind(t)] /\ y = F.work[MainKind(t)]
    BY Zenon
  <2>5. y.source = x.source /\ y.lease = x.lease /\ (x.lease # "ACTIVE" => y = x)
    BY <1>2, <2>4, MainKindOK, Zenon DEF SameRows
  <2>6. Agrees(rec.status, x)
    BY <2>2, <2>4, Zenon
  <2>7. Agrees(rec.status, y)
    BY <1>4, <2>5, <2>6, Zenon DEF Agrees
  <2>. QED  BY <1>1, <2>3, <2>4, <2>7, Zenon
<1>6. OwnKinds(t, F)
  <2>1. "BUILD" \in Kinds
    BY DEF Kinds
  <2>2. F.work["BUILD"].source = rec.work["BUILD"].source
    BY <1>2, <2>1, Zenon DEF SameRows
  <2>. QED  BY <1>3, <2>2, Zenon DEF OwnKinds
<1>. QED  BY <1>1, <1>2, <1>3, <1>5, <1>6, Zenon DEF Fenced

\* detect_lost_workers leaves a lost worker no valid lease.
LEMMA FencedNotLive ==
  ASSUME NEW rec, RecordOK(rec), NEW lost, NEW at \in Nat, NEW k \in Kinds,
         NEW y, y = FenceLost(rec, lost, at).work[k], y.worker \in lost
  PROVE  ~Live(y, at)
<1>1. PICK x : x = rec.work[k]
  BY Zenon
<1>2. x \in Work
  BY <1>1 DEF RecordOK, WorkOK
<1>3. y = IF x.worker \in lost /\ Live(x, at) THEN [x EXCEPT !.expiresAt = at] ELSE x
  BY <1>1 DEF FenceLost, RecordOK, Target
<1>4. CASE x.worker \in lost /\ Live(x, at)
  <2>1. y.expiresAt = at
    BY <1>2, <1>3, <1>4 DEF Work
  <2>. QED  BY <2>1 DEF Live
<1>5. CASE ~(x.worker \in lost /\ Live(x, at))
  BY <1>3, <1>5, Zenon
<1>. QED  BY <1>4, <1>5

SameRequest(old, new) == new.cancelRequested = old.cancelRequested

\* What a reaper makes of one target: it leaves the batches of the others
\* alone, and the workers it found lost without a valid lease.
LEMMA ReapMoves ==
  ASSUME IInv, AgreeInv, NEW p \in Reapers, NEW t \in Targets, NEW late, NEW tie,
         NEW new, new = Reap(p, late, tie)[t]
  PROVE  /\ RecordOK(new) /\ SameRequest(target[t], new)
         /\ Moves(t, target[t], new, BatchKinds(Reapers \ {p}, t))
         /\ \A k \in Kinds :
              new.work[k].worker \in reap[p].lost => ~Live(new.work[k], reap[p].at)
<1>1. PICK q, old, rec : /\ q = reap[p] /\ old = target[t]
                         /\ rec = FenceLost(old, q.lost, q.at)
  BY Zenon
<1>. DEFINE batch == {k \in Kinds : <<t, k>> \in q.batch}
            skip == {k \in Kinds \ batch : \/ LockedByRequest(t, k)
                                           \/ LockedByReapers(Reapers \ {p}, t, k)}
            cancelling == t \in q.cancelling
            r == ReapTarget(rec, batch, skip, q.at, cancelling, q.seen[t], tie)
            keep == BatchKinds(Reapers \ {p}, t)
<1>2. new = r \/ new = ReapOverdue(r, skip, q.at)
  <2>1. new = Reaped(p, t, late, tie)
    BY DEF Reap
  <2>. QED  BY <1>1, <2>1, Zenon DEF Reaped
<1>3. RecordOK(old) /\ Settled(t, old) /\ OwnKinds(t, old) /\ q.at \in Nat
  <2>1. q \in Reaping
    BY <1>1 DEF IInv, TypeOK
  <2>2. q.at \in Nat
    BY <2>1 DEF Reaping
  <2>. QED  BY <1>1, <2>2, OwnTarget, Zenon
<1>4. /\ RecordOK(rec) /\ Settled(t, rec) /\ OwnKinds(t, rec)
      /\ rec.status = old.status /\ rec.cancelRequested = old.cancelRequested
      /\ Reaps(old, rec, {})
      /\ \A k \in Kinds : rec.work[k].lease = old.work[k].lease
  <2>1. Fenced(t, old, rec)
    BY <1>1, <1>3, FenceLostSettled, Zenon
  <2>. QED  BY <2>1, Zenon DEF Fenced, SameRows
<1>5. batch \in SUBSET (Kinds \ skip)
  OBVIOUS
<1>6. ASSUME NEW k \in batch
      PROVE  /\ k \in Kinds /\ old.status # "ABSENT" /\ (k = "BUILD" => t \notin Runs)
             /\ ~old.cancelRequested => /\ old.work[k].lease = "ACTIVE"
                                        /\ ~cancelling /\ q.seen[t] \in Started
  <2>1. k \in Kinds /\ <<t, k>> \in q.batch
    BY <1>6
  <2>2. BatchOK(p, <<t, k>>)
    BY <1>1, <2>1, Zenon DEF AgreeInv
  <2>3. <<t, k>> \in Batched
    BY <1>1, <2>1 DEF Batched, Items
  <2>4. old.status # "ABSENT"
    BY <1>1, <2>3 DEF IInv
  <2>. QED  BY <1>1, <2>1, <2>2, <2>4 DEF BatchOK
<1>7. keep \in SUBSET (Kinds \ batch)
  BY <1>1 DEF BatchKinds, AgreeInv
<1>. HIDE DEF skip, batch, cancelling, keep
<1>8. batch # {} => rec.status # "ABSENT"
  BY <1>4, <1>6
<1>9. ~rec.cancelRequested => \A k \in batch :
        rec.work[k].lease = "ACTIVE" /\ ~cancelling /\ q.seen[t] \in Started
  BY <1>4, <1>6, Zenon
<1>10. "BUILD" \in batch => t \notin Runs
  BY <1>6, Zenon
<1>11. Reaps(rec, new, batch) /\ Advances(t, rec, new, keep)
  <2>1. MayReap(t, rec, batch, cancelling, q.seen[t])
    BY <1>8, <1>9, <1>10, Zenon DEF MayReap
  <2>2. ReapedAs(rec, new, batch, skip, q.at, cancelling, q.seen[t], tie)
    BY <1>2, Zenon DEF ReapedAs
  <2>. HIDE DEF r
  <2>. QED  BY <1>3, <1>4, <1>5, <1>7, <2>1, <2>2, ReapAllAdvances, Zenon
<1>. HIDE DEF r
<1>12. Reaps(old, new, {})
  BY <1>4, <1>11, ReapsTrans
<1>13. Advances(t, old, new, keep)
  <2>1. \A k \in keep : k \in Kinds
    BY <1>7
  <2>. QED  BY <1>4, <1>11, <2>1, Zenon DEF Advances
<1>14. RecordOK(new)
  BY ReapOK, Zenon DEF Follows
<1>15. ASSUME NEW k \in Kinds, new.work[k].worker \in q.lost, Live(new.work[k], q.at)
       PROVE  FALSE
  <2>1. PICK y, z : y = rec.work[k] /\ z = new.work[k]
    BY Zenon
  <2>2. Loosens(y, z)
    BY <1>11, <2>1, Zenon DEF Reaps, Ends
  <2>3. Live(y, q.at) /\ y.worker = z.worker
    BY <1>3, <1>15, <2>1, <2>2, LoosensLive, Zenon
  <2>4. y.worker \in q.lost /\ y = FenceLost(old, q.lost, q.at).work[k]
    BY <1>1, <1>15, <2>1, <2>3, Zenon
  <2>. QED  BY <1>3, <2>3, <2>4, FencedNotLive, Zenon
<1>. QED
  BY <1>1, <1>12, <1>13, <1>14, <1>15, Zenon DEF keep, Moves, Reaps, Stays, SameRequest

LEMMA ReapAllMove ==
  ASSUME IInv, AgreeInv, NEW p \in Reapers, NEW late, NEW tie,
         target' = Reap(p, late, tie)
  PROVE  AllMove(Reapers \ {p})
BY ReapMoves, Zenon DEF AllMove

\* A pending row is not the BUILD row of a cancelled target.
LEMMA PendingBuild ==
  ASSUME NEW t \in Targets, NEW rec, OwnKinds(t, rec),
         NEW k, rec.work[k].source = "PENDING"
  PROVE  ~(rec.cancelRequested /\ k = "BUILD")
<1>1. t \in Runs \/ t \in Builds
  BY DEF Targets
<1>2. rec.work["BUILD"].source = "ABSENT" => k # "BUILD"
  OBVIOUS
<1>. QED  BY <1>1, <1>2, Zenon DEF OwnKinds

\* Row k is given to w and the others are kept.
GivesRow(rec, new, k, w) ==
  new.work[k].worker = w /\ \A j \in Kinds \ {k} : new.work[j] = rec.work[j]

\* claim_work starts the target and leases the row.
LEMMA LeasedAdvances ==
  ASSUME NEW t \in Targets, NEW rec, RecordOK(rec), Settled(t, rec), OwnKinds(t, rec),
         NEW k \in Kinds, rec.work[k].source = "PENDING", NEW w,
         NEW keep \in SUBSET Kinds, ~rec.cancelRequested => k \notin keep,
         NEW at, NEW new, new = Leased(rec, k, w, at)
  PROVE  Advances(t, rec, new, keep) /\ GivesRow(rec, new, k, w)
<1>. DEFINE x == rec.work[k]
            deadline == ClaimDeadline(rec, k, at)
            s == IF k = "CANCEL" THEN rec.status ELSE "STARTING"
            v == [source |-> "CLAIMED", attempts |-> x.attempts + 1,
                  availableAt |-> 0, lease |-> "ACTIVE", worker |-> w,
                  claimedAt |-> at,
                  expiresAt |-> ClampLeaseExpiry(at + LeaseSeconds, at, deadline),
                  deadlineAt |-> deadline, issued |-> x.issued]
<1>1. new = [rec EXCEPT !.status = s, !.work[k] = v]
  BY Zenon DEF Leased
<1>2. v.source = "CLAIMED" /\ v.lease = "ACTIVE" /\ v.worker = w
  BY Zenon
<1>. HIDE DEF v
<1>3. ~rec.cancelRequested => /\ k = MainKind(t) /\ s = "STARTING"
                              /\ rec.status \notin Terminal
  <2>1. SUFFICES ASSUME ~rec.cancelRequested
                 PROVE  k = MainKind(t) /\ s = "STARTING" /\ rec.status \notin Terminal
    BY Zenon
  <2>2. k = MainKind(t) /\ rec.status = "QUEUED"
    BY <2>1, PendingKind, Zenon
  <2>3. k # "CANCEL"
    BY <2>2, MainKindOK
  <2>. QED  BY <2>2, <2>3 DEF Terminal, RunTerminal, BuildTerminal
<1>. HIDE DEF s
<1>4. Writes(rec, new, s, k, v)
  <2>1. rec \in Target
    BY DEF RecordOK
  <2>2. Writes(rec, [rec EXCEPT !.status = s, !.work[k] = v], s, k, v)
    BY <2>1, BothWrite, Zenon
  <2>. QED  BY <1>1, <2>2, Zenon
<1>5. s = "STARTING" => Agrees(s, v)
  BY <1>2 DEF Agrees
<1>6. ~(rec.cancelRequested /\ k = "BUILD")
  BY PendingBuild, Zenon
<1>7. Advances(t, rec, new, keep)
  BY <1>3, <1>4, <1>5, <1>6, RowAdvances, Zenon
<1>. QED  BY <1>2, <1>4, <1>7, Zenon DEF Writes, GivesRow

\* claim_work that fails the run at admission
LEMMA PolicyRevokedMoves ==
  ASSUME NEW t \in Targets, NEW rec, RecordOK(rec), Settled(t, rec), OwnKinds(t, rec),
         rec.work["START"].source = "PENDING", NEW keep \in SUBSET Kinds
  PROVE  Moves(t, rec, PolicyRevoked(rec), keep)
<1>1. PICK x, v, new :
        /\ x = rec.work["START"]
        /\ v = [x EXCEPT !.source = "FAILED", !.attempts = x.attempts + 1,
                         !.availableAt = 0]
        /\ new = [rec EXCEPT !.status = "FAILED", !.work["START"] = v]
  BY Zenon
<1>2. PolicyRevoked(rec) = new
  BY <1>1, Zenon DEF PolicyRevoked
<1>3. "START" \in Kinds
  BY DEF Kinds
<1>4. x \in Work /\ rec \in Target
  BY <1>1, <1>3, Zenon DEF RecordOK, WorkOK
<1>5. /\ v.source = "FAILED" /\ v.lease = x.lease /\ v.worker = x.worker
      /\ v.expiresAt = x.expiresAt /\ v.deadlineAt = x.deadlineAt
  BY <1>1, <1>4 DEF Work
<1>6. Writes(rec, new, "FAILED", "START", v)
  <2>1. Writes(rec, [rec EXCEPT !.status = "FAILED", !.work["START"] = v],
               "FAILED", "START", v)
    BY <1>3, <1>4, BothWrite, Zenon
  <2>. QED  BY <1>1, <2>1, Zenon
<1>7. Loosens(x, v)
  BY <1>5, SameLease, Zenon
<1>8. Ends(rec, new, {})
  BY <1>1, <1>3, <1>6, <1>7, RowEnds, Zenon
<1>9. ~rec.cancelRequested => /\ "START" = MainKind(t) /\ Agrees("FAILED", v)
                              /\ rec.status \notin Terminal
  <2>1. SUFFICES ASSUME ~rec.cancelRequested
                 PROVE  /\ "START" = MainKind(t) /\ Agrees("FAILED", v)
                        /\ rec.status \notin Terminal
    BY Zenon
  <2>2. "START" = MainKind(t) /\ rec.status = "QUEUED" /\ x.lease # "ACTIVE"
    BY <1>1, <1>3, <2>1, PendingKind, Zenon
  <2>. QED  BY <1>5, <2>2 DEF Agrees, Terminal, RunTerminal, BuildTerminal
<1>10. v.lease = rec.work["START"].lease /\ "START" # "BUILD"
  BY <1>1, <1>5
<1>11. Advances(t, rec, new, keep)
  BY <1>3, <1>6, <1>9, <1>10, RowAdvances, Zenon
<1>. QED  BY <1>2, <1>8, <1>11, Zenon DEF Moves

AllAdvance(P) ==
  \A t \in Targets : Advances(t, target[t], target'[t], BatchKinds(P, t))

\* Of the leases in T, none comes to life but one that worker w gets.
Gives(T, w, t, k) ==
  \A u \in Targets, j \in Kinds :
    \/ Loosens(T[u].work[j], target'[u].work[j])
    \/ u = t /\ j = k /\ target'[u].work[j].worker = w

LEMMA ClaimGives ==
  ASSUME IInv, AgreeInv, NEW w \in Workers, NEW k \in Kinds, NEW t \in Targets,
         NEW late, NEW tie, Claim(w, k, t, late, tie)
  PROVE  AllAdvance(Reapers \ {w}) /\ Gives(Reap(w, late, tie), w, t, k)
<1>1. PICK T, rec, at : T = Reap(w, late, tie) /\ rec = T[t] /\ at = reap[w].at
  BY Zenon
<1>2. w \in Reapers
  BY WorkerReaps
<1>. DEFINE Keep(u) == BatchKinds(Reapers \ {w}, u)
<1>3. \A u \in Targets : /\ RecordOK(T[u])
                         /\ T[u].cancelRequested = target[u].cancelRequested
                         /\ Moves(u, target[u], T[u], Keep(u))
  <2>1. SUFFICES ASSUME NEW u \in Targets
                 PROVE  /\ RecordOK(T[u])
                        /\ T[u].cancelRequested = target[u].cancelRequested
                        /\ Moves(u, target[u], T[u], BatchKinds(Reapers \ {w}, u))
    BY Zenon
  <2>2. PICK x : x = T[u]
    BY Zenon
  <2>3. x = Reap(w, late, tie)[u]
    BY <1>1, <2>2, Zenon
  <2>4. RecordOK(x)
    BY <1>2, <2>3, ReapMoves, Zenon
  <2>5. SameRequest(target[u], x)
    BY <1>2, <2>3, ReapMoves, Zenon
  <2>6. Moves(u, target[u], x, BatchKinds(Reapers \ {w}, u))
    BY <1>2, <2>3, ReapMoves, Zenon
  <2>. QED  BY <2>2, <2>4, <2>5, <2>6, Zenon DEF SameRequest
<1>4. T = [u \in Targets |-> T[u]]
  BY <1>1, <1>2, ReapOK, Zenon
<1>5. rec.work[k].source = "PENDING"
  BY <1>1 DEF Claim, Claimable
<1>6. \/ k = "START" /\ target' = [T EXCEPT ![t] = PolicyRevoked(rec)]
      \/ target' = [T EXCEPT ![t] = Leased(rec, k, w, at)]
  BY <1>1, Zenon DEF Claim
<1>7. RecordOK(rec) /\ Settled(t, rec) /\ OwnKinds(t, rec)
      /\ rec.cancelRequested = target[t].cancelRequested
      /\ Advances(t, target[t], rec, Keep(t))
  BY <1>1, <1>3, Zenon DEF Moves, Advances
<1>8. ~rec.cancelRequested => k \notin Keep(t)
  <2>1. SUFFICES ASSUME ~rec.cancelRequested, k \in Keep(t) PROVE FALSE
    BY Zenon
  <2>2. PICK q \in Reapers : <<t, k>> \in reap[q].batch
    BY <2>1 DEF BatchKinds
  <2>3. BatchOK(q, <<t, k>>)
    BY <2>2, Zenon DEF AgreeInv
  <2>4. ~target[t].cancelRequested
    BY <1>7, <2>1, Zenon
  <2>5. target[t].work[k].lease = "ACTIVE"
    BY <2>3, <2>4 DEF BatchOK
  <2>6. rec.work[k].lease = "ACTIVE"
    BY <1>7, <2>1, <2>5, Zenon DEF Advances
  <2>. QED  BY <1>5, <1>7, <2>6 DEF RecordOK, WorkOK
<1>9. \E new : /\ target' = [T EXCEPT ![t] = new]
               /\ Advances(t, rec, new, Keep(t))
               /\ \A j \in Kinds : \/ Loosens(rec.work[j], new.work[j])
                                   \/ j = k /\ new.work[j].worker = w
  <2>1. CASE k = "START" /\ target' = [T EXCEPT ![t] = PolicyRevoked(rec)]
    <3>1. Moves(t, rec, PolicyRevoked(rec), Keep(t))
      BY <1>5, <1>7, <2>1, PolicyRevokedMoves, BatchKindsType, Zenon
    <3>2. PICK new : new = PolicyRevoked(rec)
      BY Zenon
    <3>3. Advances(t, rec, new, Keep(t)) /\ Ends(rec, new, {})
      BY <3>1, <3>2, Zenon DEF Moves
    <3>4. \A j \in Kinds : Loosens(rec.work[j], new.work[j])
      BY <3>3, Zenon DEF Ends
    <3>. QED  BY <2>1, <3>2, <3>3, <3>4, Zenon
  <2>2. CASE target' = [T EXCEPT ![t] = Leased(rec, k, w, at)]
    <3>1. PICK new : new = Leased(rec, k, w, at)
      BY Zenon
    <3>2. Keep(t) \in SUBSET Kinds
      BY BatchKindsType
    <3>3. Advances(t, rec, new, Keep(t)) /\ GivesRow(rec, new, k, w)
      BY <1>5, <1>7, <1>8, <3>1, <3>2, LeasedAdvances, Zenon
    <3>4. \A j \in Kinds : \/ Loosens(rec.work[j], new.work[j])
                           \/ j = k /\ new.work[j].worker = w
      BY <3>3, SameLease DEF GivesRow
    <3>. QED  BY <2>2, <3>1, <3>3, <3>4, Zenon
  <2>. QED  BY <1>6, <2>1, <2>2
<1>10. PICK new : /\ target' = [T EXCEPT ![t] = new]
                  /\ Advances(t, rec, new, Keep(t))
                  /\ \A j \in Kinds : \/ Loosens(rec.work[j], new.work[j])
                                      \/ j = k /\ new.work[j].worker = w
  BY <1>9, Zenon
<1>11. target'[t] = new /\ \A u \in Targets \ {t} : target'[u] = T[u]
  BY <1>4, <1>10
<1>12. Advances(t, target[t], new, Keep(t))
  BY <1>7, <1>10, AdvancesTrans, Zenon
<1>13. AllAdvance(Reapers \ {w})
  <2>1. ASSUME NEW u \in Targets, u # t
        PROVE  Advances(u, target[u], target'[u], Keep(u))
    <3>1. target'[u] = T[u]
      BY <1>11, <2>1
    <3>. QED  BY <1>3, <3>1, Zenon DEF Moves
  <2>. QED  BY <1>11, <1>12, <2>1, Zenon DEF AllAdvance
<1>14. Gives(T, w, t, k)
  <2>1. ASSUME NEW u \in Targets, u # t, NEW j \in Kinds
        PROVE  Loosens(T[u].work[j], target'[u].work[j])
    <3>1. target'[u] = T[u]
      BY <1>11, <2>1
    <3>. QED  BY <3>1, SameLease, Zenon
  <2>2. ASSUME NEW j \in Kinds
        PROVE  \/ Loosens(T[t].work[j], target'[t].work[j])
               \/ j = k /\ target'[t].work[j].worker = w
    BY <1>1, <1>10, <1>11, Zenon
  <2>. QED  BY <2>1, <2>2, Zenon DEF Gives
<1>. QED  BY <1>1, <1>13, <1>14, Zenon

-----------------------------------------------------------------------------
(* Lease requests.                                                         *)

\* What an open request may rely on
Served(w, t, k, rec) ==
  /\ t \in Targets /\ k \in Kinds
  /\ RecordOK(rec) /\ Settled(t, rec) /\ OwnKinds(t, rec)
  /\ rec.work[k].lease = "ACTIVE" /\ rec.work[k].worker = w
  /\ k \notin BatchKinds(Reapers, t) /\ BatchKinds(Reapers, t) \in SUBSET Kinds
  /\ ~rec.cancelRequested => /\ k = MainKind(t) /\ rec.status \in Started
                             /\ rec.work[k].source = "CLAIMED"

LEMMA RequestFacts ==
  ASSUME IInv, AgreeInv, NEW w \in Workers, tx[w].phase # "IDLE",
         NEW t, t = tx[w].t, NEW k, k = tx[w].k, NEW rec, rec = target[t]
  PROVE  Served(w, t, k, rec)
<1>1. /\ t \in Targets /\ rec.work[k].lease = "ACTIVE" /\ rec.work[k].worker = w
      /\ <<t, k>> \notin Batched
  BY ZenonT(30) DEF IInv, RequestOK
<1>2. k \in Kinds
  BY Zenon DEF IInv, TypeOK, Tx
<1>3. RecordOK(rec) /\ Settled(t, rec) /\ OwnKinds(t, rec)
  BY <1>1, OwnTarget, Zenon
<1>4. k \notin BatchKinds(Reapers, t) /\ BatchKinds(Reapers, t) \in SUBSET Kinds
  BY <1>1, <1>2 DEF BatchKinds, Batched, Items
<1>5. ~rec.cancelRequested => k = MainKind(t) /\ rec.status \in Started
                              /\ rec.work[k].source = "CLAIMED"
  BY <1>1, <1>2, <1>3, LeasedKind, Zenon
<1>. QED  BY <1>1, <1>2, <1>3, <1>4, <1>5, Zenon DEF Served

LEMMA StartedIsNotTerminal == ASSUME NEW s \in Started PROVE s \notin Terminal
BY DEF Started, Terminal, RunTerminal, BuildTerminal

LEMMA IssueEnvelopeMoves ==
  ASSUME IInv, AgreeInv, NEW w \in Workers, IssueEnvelope(w) PROVE AllMove(Reapers)
<1>1. PICK t, k, rec : t = tx[w].t /\ k = tx[w].k /\ rec = target[t]
  BY Zenon
<1>2. /\ tx[w].phase # "IDLE"
      /\ target' = [target EXCEPT ![t] = [rec EXCEPT !.work[k].issued = TRUE]]
  BY <1>1, ZenonT(30) DEF IssueEnvelope, Phase, Commit
<1>3. /\ t \in Targets /\ k \in Kinds
      /\ RecordOK(rec) /\ Settled(t, rec) /\ OwnKinds(t, rec)
      /\ rec.work[k].lease = "ACTIVE" /\ BatchKinds(Reapers, t) \in SUBSET Kinds
      /\ (~rec.cancelRequested => k = MainKind(t))
  <2>1. Served(w, t, k, rec)
    BY <1>1, <1>2, RequestFacts, Zenon
  <2>. QED  BY <1>1, <2>1, Zenon DEF Served
<1>4. Moves(t, rec, [rec EXCEPT !.work[k].issued = TRUE], BatchKinds(Reapers, t))
  BY <1>3, IssuedMoves, Zenon
<1>. QED  BY <1>1, <1>2, <1>3, <1>4, OneMoves, Zenon

LEMMA UpdateStatusMoves ==
  ASSUME IInv, AgreeInv, NEW w \in Workers, NEW status, UpdateStatus(w, status)
  PROVE  AllMove(Reapers)
<1>1. PICK t, k, rec, s, x : /\ t = tx[w].t /\ k = tx[w].k /\ rec = target[t]
                             /\ s = Written(rec.status, tx[w].seen, status)
                             /\ x = rec.work[k]
  BY Zenon
<1>2. /\ tx[w].phase # "IDLE"
      /\ target' = [target EXCEPT ![t] = [rec EXCEPT !.status = s]]
      /\ status \in IF k = "CANCEL" THEN {"ABORTING"} ELSE {"STARTING", "RUNNING"}
  BY <1>1 DEF UpdateStatus, Phase, Commit
<1>3. /\ t \in Targets /\ k \in Kinds
      /\ RecordOK(rec) /\ Settled(t, rec) /\ OwnKinds(t, rec)
      /\ x.lease = "ACTIVE" /\ BatchKinds(Reapers, t) \in SUBSET Kinds
      /\ (~rec.cancelRequested => k = MainKind(t) /\ rec.status \in Started
                                  /\ x.source = "CLAIMED")
  <2>1. Served(w, t, k, rec)
    BY <1>1, <1>2, RequestFacts, Zenon
  <2>. QED  BY <1>1, <2>1, Zenon DEF Served
<1>4. PICK new : new = [rec EXCEPT !.status = s]
  BY Zenon
<1>5. Writes(rec, new, s, k, x)
  <2>1. rec \in Target
    BY <1>3 DEF RecordOK
  <2>2. Writes(rec, [rec EXCEPT !.status = s], s, k, rec.work[k])
    BY <2>1, StatusWrites, Zenon
  <2>. QED  BY <1>1, <1>4, <2>2, Zenon
<1>6. Ends(rec, new, {})
  <2>1. Loosens(x, x)
    BY SameLease, Zenon
  <2>. QED  BY <1>1, <1>3, <1>5, <2>1, RowEnds, Zenon
<1>7. ~rec.cancelRequested => Agrees(s, x) /\ rec.status \notin Terminal
  <2>1. SUFFICES ASSUME ~rec.cancelRequested
                 PROVE  Agrees(s, x) /\ rec.status \notin Terminal
    BY Zenon
  <2>2. k = MainKind(t) /\ rec.status \in Started /\ x.source = "CLAIMED"
    BY <1>3, <2>1, Zenon
  <2>3. k # "CANCEL"
    BY <1>3, <2>2, MainKindOK
  <2>4. s \in Started
    BY <1>1, <1>2, <2>2, <2>3 DEF Written, Started
  <2>5. Agrees(s, x)
    BY <1>3, <2>2, <2>4 DEF Agrees, Started
  <2>. QED  BY <2>2, <2>5, StartedIsNotTerminal
<1>8. Advances(t, rec, new, BatchKinds(Reapers, t))
  BY <1>1, <1>3, <1>5, <1>7, RowAdvances, Zenon
<1>9. Moves(t, rec, new, BatchKinds(Reapers, t))
  BY <1>6, <1>8, Zenon DEF Moves
<1>. QED  BY <1>1, <1>2, <1>3, <1>4, <1>9, OneMoves, Zenon

\* renew_lease moves the expiry of a lease its worker has.
LEMMA RenewLeaseGives ==
  ASSUME IInv, AgreeInv, NEW w \in Workers, NEW at, RenewLease(w, at)
  PROVE  AllAdvance(Reapers) /\ Gives(target, w, tx[w].t, tx[w].k)
<1>1. PICK t, k, rec : t = tx[w].t /\ k = tx[w].k /\ rec = target[t]
  BY Zenon
<1>2. PICK x, until, v, new :
        /\ x = rec.work[k] /\ until = Renewed(x, at)
        /\ v = [x EXCEPT !.expiresAt = until]
        /\ new = [rec EXCEPT !.work[k] = v]
  BY Zenon
<1>3. /\ tx[w].phase # "IDLE"
      /\ target' = [target EXCEPT ![t] = [rec EXCEPT !.work[k].expiresAt = until]]
  BY <1>1, <1>2, ZenonT(30) DEF RenewLease, Phase, Commit
<1>4. /\ t \in Targets /\ k \in Kinds
      /\ RecordOK(rec) /\ Settled(t, rec) /\ OwnKinds(t, rec)
      /\ x.lease = "ACTIVE" /\ x.worker = w /\ BatchKinds(Reapers, t) \in SUBSET Kinds
      /\ (~rec.cancelRequested => k = MainKind(t))
  <2>1. Served(w, t, k, rec)
    BY <1>1, <1>3, RequestFacts, Zenon
  <2>. QED  BY <1>2, <2>1, Zenon DEF Served
<1>5. rec \in Target /\ x \in Work
  BY <1>2, <1>4 DEF RecordOK, WorkOK
<1>6. [rec EXCEPT !.work[k].expiresAt = until] = new
  BY <1>2, <1>4, <1>5 DEF Target
<1>7. Writes(rec, new, rec.status, k, v)
  BY <1>2, <1>4, <1>5, RowWrite, Zenon
<1>8. v.source = x.source /\ v.lease = x.lease /\ v.worker = x.worker
  BY <1>2, <1>5 DEF Work
<1>9. x # NoWork
  BY <1>4 DEF NoWork
<1>10. Advances(t, rec, new, BatchKinds(Reapers, t))
  BY <1>2, <1>4, <1>7, <1>8, <1>9, SameRowAdvances, Zenon
<1>11. target'[t] = new /\ \A u \in Targets \ {t} : target'[u] = target[u]
  BY <1>3, <1>4, <1>6 DEF IInv, TypeOK
<1>12. AllAdvance(Reapers)
  <2>1. ASSUME NEW u \in Targets, u # t
        PROVE  Advances(u, target[u], target'[u], BatchKinds(Reapers, u))
    <3>1. target'[u] = target[u]
      BY <1>11, <2>1
    <3>. QED  BY <3>1, OwnTarget, SameAdvances, Zenon
  <2>. QED  BY <1>1, <1>10, <1>11, <2>1, Zenon DEF AllAdvance
<1>13. Gives(target, w, t, k)
  <2>1. ASSUME NEW u \in Targets, u # t, NEW j \in Kinds
        PROVE  Loosens(target[u].work[j], target'[u].work[j])
    <3>1. target'[u] = target[u]
      BY <1>11, <2>1
    <3>. QED  BY <3>1, SameLease, Zenon
  <2>2. ASSUME NEW j \in Kinds
        PROVE  \/ Loosens(target[t].work[j], target'[t].work[j])
               \/ j = k /\ target'[t].work[j].worker = w
    <3>1. CASE j = k
      <4>1. target'[t].work[j].worker = w
        BY <1>4, <1>7, <1>8, <1>11, <3>1, Zenon DEF Writes
      <4>. QED  BY <3>1, <4>1
    <3>2. CASE j # k
      <4>1. new.work[j] = rec.work[j]
        BY <1>7, <3>2, Zenon DEF Writes
      <4>. QED  BY <1>1, <1>11, <4>1, SameLease, Zenon
    <3>. QED  BY <3>1, <3>2
  <2>. QED  BY <2>1, <2>2, Zenon DEF Gives
<1>. QED  BY <1>1, <1>12, <1>13, Zenon

\* complete_lease ends the work of an uncancelled target or requeues it.
LEMMA CompletedMoves ==
  ASSUME NEW t \in Targets, NEW rec, RecordOK(rec), Settled(t, rec), OwnKinds(t, rec),
         NEW k \in Kinds, rec.work[k].lease = "ACTIVE",
         NEW outcome \in Outcomes, NEW retryable, NEW seen, NEW at, NEW skip,
         ~rec.cancelRequested => seen \in Started,
         NEW keep \in SUBSET (Kinds \ {k})
  PROVE  Moves(t, rec, Completed(rec, k, outcome, retryable, seen, at, skip), keep)
<1>1. PICK new : new = Completed(rec, k, outcome, retryable, seen, at, skip)
  BY Zenon
<1>2. k = "BUILD" => rec.work["BUILD"].source # "ABSENT"
  BY DEF RecordOK, WorkOK
<1>3. Reaps(rec, new, {})
  <2>1. Reaps(rec, new, {k})
    BY <1>1, <1>2, CompletedReaps, Zenon
  <2>. QED  BY <2>1, ReapsLess
<1>4. Ends(rec, new, {}) /\ Stays(rec, new)
  BY <1>3, Zenon DEF Reaps
<1>5. CASE rec.cancelRequested
  <2>1. Advances(t, rec, new, keep)
    BY <1>4, <1>5, CancelledAdvances, Zenon
  <2>. QED  BY <1>1, <1>4, <2>1, Zenon DEF Moves
<1>6. CASE ~rec.cancelRequested
  <2>1. seen \in Started /\ k = MainKind(t) /\ rec.status \in Started
    BY <1>6, LeasedKind, Zenon
  <2>2. k # "CANCEL"
    BY <2>1, MainKindOK
  <2>. DEFINE status == FinalStatus(k, outcome)
              good == status \in {"SUCCEEDED", "ABORTED"}
              retry == RetryAllowed(retryable, outcome, rec.work[k].attempts)
              s1 == Written(rec.status, seen, "QUEUED")
              v1 == Closed(rec.work[k], "FAILED", "PENDING",
                           at + RetryDelay(rec.work[k].attempts))
              s2 == Written(rec.status, seen, status)
              v2 == Closed(rec.work[k], IF good THEN "COMPLETED" ELSE "FAILED",
                           IF good THEN "DELIVERED" ELSE "FAILED", 0)
  <2>3. /\ retry => new = [rec EXCEPT !.status = s1, !.work[k] = v1]
        /\ ~retry => new = [rec EXCEPT !.status = s2, !.work[k] = v2]
    BY <1>1, <2>2, Zenon DEF Completed
  <2>4. Agrees(s1, v1)
    <3>1. v1.lease = "FAILED" /\ v1.source = "PENDING"
      BY ClosedFields
    <3>. HIDE DEF v1
    <3>2. s1 = "QUEUED"
      BY <2>1 DEF Written, Started
    <3>. QED  BY <3>1, <3>2 DEF Agrees
  <2>5. Agrees(s2, v2)
    <3>1. v2.lease \in {"COMPLETED", "FAILED"} /\ v2.source \in {"DELIVERED", "FAILED"}
      BY ClosedFields
    <3>. HIDE DEF v2
    <3>2. status \in Terminal
      BY DEF FinalStatus, Outcomes, Terminal, RunTerminal, BuildTerminal
    <3>. HIDE DEF status
    <3>3. s2 \in Terminal
      BY <2>1, <3>2, StartedIsNotTerminal DEF Written
    <3>. QED  BY <3>1, <3>3 DEF Agrees
  <2>. HIDE DEF s1, v1, s2, v2, retry
  <2>6. rec.status \notin Terminal /\ rec \in Target
    BY <2>1, StartedIsNotTerminal DEF RecordOK
  <2>7. keep \in SUBSET Kinds /\ k \notin keep
    OBVIOUS
  <2>8. ASSUME NEW s, NEW v, Agrees(s, v), new = [rec EXCEPT !.status = s, !.work[k] = v]
        PROVE  Advances(t, rec, new, keep)
    <3>1. Writes(rec, [rec EXCEPT !.status = s, !.work[k] = v], s, k, v)
      BY <2>6, BothWrite, Zenon
    <3>2. Writes(rec, new, s, k, v)
      BY <2>8, <3>1, Zenon
    <3>. QED  BY <1>6, <2>1, <2>6, <2>7, <2>8, <3>2, RowAdvances, Zenon
  <2>9. Advances(t, rec, new, keep)
    BY <2>3, <2>4, <2>5, <2>8, Zenon
  <2>. QED  BY <1>1, <1>4, <2>9, Zenon DEF Moves
<1>. QED  BY <1>5, <1>6

LEMMA CompleteLeaseMoves ==
  ASSUME IInv, AgreeInv, NEW w \in Workers, NEW outcome \in Outcomes, NEW retryable,
         NEW at, CompleteLease(w, outcome, retryable, at)
  PROVE  AllMove(Reapers)
<1>1. PICK t, k, rec, seen, skip :
        /\ t = tx[w].t /\ k = tx[w].k /\ rec = target[t]
        /\ seen = tx[w].seen /\ skip = LockedByOthers(w, t)
  BY Zenon
<1>2. /\ tx[w].phase = "READ"
      /\ target' = [target EXCEPT ![t] =
           Completed(rec, k, outcome, retryable, seen, at, skip)]
  BY <1>1, ZenonT(30) DEF CompleteLease, Phase, Commit
<1>3. Served(w, t, k, rec)
  BY <1>1, <1>2, RequestFacts, Zenon
<1>4. ~rec.cancelRequested => seen \in Started
  BY <1>1, <1>2, Zenon DEF AgreeInv, ReadOK
<1>5. /\ t \in Targets /\ k \in Kinds /\ rec.work[k].lease = "ACTIVE"
      /\ RecordOK(rec) /\ Settled(t, rec) /\ OwnKinds(t, rec)
      /\ BatchKinds(Reapers, t) \in SUBSET (Kinds \ {k})
  BY <1>3, Zenon DEF Served
<1>6. Moves(t, rec, Completed(rec, k, outcome, retryable, seen, at, skip), BatchKinds(Reapers, t))
  BY <1>4, <1>5, CompletedMoves, Zenon
<1>. QED  BY <1>1, <1>2, <1>5, <1>6, OneMoves, Zenon

\* complete_lease on a cancelled run
LEMMA CompleteCancelledMoves ==
  ASSUME IInv, AgreeInv, NEW w \in Workers, NEW outcome \in Outcomes,
         NEW retryable, NEW at, CompleteCancelled(w, outcome, retryable, at)
  PROVE  AllMove(Reapers)
<1>1. PICK t, k, rec, skip, fenced :
        /\ t = tx[w].t /\ k = tx[w].k /\ rec = target[t]
        /\ skip = LockedByOthers(w, t) /\ fenced = Fence(rec, skip, {})
  BY Zenon
<1>2. PICK new : new = IF CancellationOpen(rec) THEN Converge(rec, skip)
                       ELSE Completed(fenced, k, outcome, retryable, rec.status, at, skip)
  BY Zenon
<1>3. /\ tx[w].phase # "IDLE" /\ k = "START" /\ rec.cancelRequested
      /\ target' = [target EXCEPT ![t] = new]
  BY <1>1, <1>2, ZenonT(30) DEF CompleteCancelled, Phase, Commit
<1>4. t \in Targets /\ k \in Kinds /\ RecordOK(rec) /\ OwnKinds(t, rec)
  <2>1. Served(w, t, k, rec)
    BY <1>1, <1>3, RequestFacts, Zenon
  <2>. QED  BY <2>1, Zenon DEF Served
<1>5. Reaps(rec, new, {})
  <2>1. CASE CancellationOpen(rec)
    <3>1. Reaps(rec, new, RunKinds \ skip)
      BY <1>2, <1>4, <2>1, ConvergeReaps, Zenon
    <3>. QED  BY <3>1, ReapsLess
  <2>2. CASE ~CancellationOpen(rec)
    <3>1. Reaps(rec, fenced, RunKinds \ (skip \cup {}))
      BY <1>1, <1>4, FenceReaps, Zenon
    <3>2. RecordOK(fenced)
      BY <1>1, <1>4, FenceOK, Zenon DEF Follows
    <3>3. new = Completed(fenced, k, outcome, retryable, rec.status, at, skip)
      BY <1>2, <2>2, Zenon
    <3>4. k # "BUILD"
      BY <1>3
    <3>5. Reaps(fenced, new, {k})
      BY <1>4, <3>2, <3>3, <3>4, CompletedReaps, Zenon
    <3>. QED  BY <3>1, <3>5, ReapsTrans
  <2>. QED  BY <2>1, <2>2
<1>6. Moves(t, rec, new, BatchKinds(Reapers, t))
  <2>1. Stays(rec, new) /\ Ends(rec, new, {})
    BY <1>5, Zenon DEF Reaps
  <2>2. Advances(t, rec, new, BatchKinds(Reapers, t))
    BY <1>3, <1>4, <2>1, CancelledAdvances, Zenon
  <2>. QED  BY <2>1, <2>2, Zenon DEF Moves
<1>. QED  BY <1>1, <1>3, <1>4, <1>6, OneMoves, Zenon

-----------------------------------------------------------------------------
(* From what a step does to targets to the invariant.                      *)

Finals == \A t \in Targets : Advances(t, target[t], target'[t], {})

LEMMA AdvanceFinals == ASSUME NEW P, AllAdvance(P) PROVE Finals
BY DEF AllAdvance, Finals, Advances

LEMMA MoveAdvance ==
  ASSUME NEW P, AllMove(P)
  PROVE  /\ AllAdvance(P)
         /\ \A t \in Targets, k \in Kinds : Loosens(target[t].work[k], target'[t].work[k])
BY Zenon DEF AllMove, AllAdvance, Moves, Ends

\* The reapers outside P end and the others stay as they are or end.
ReapersEnd(P) ==
  \A p \in Reapers : reap'[p] = NoReaping \/ (p \in P /\ reap'[p] = reap[p])

LEMMA NoReapingEmpty ==
  NoReaping.lost = {} /\ NoReaping.at = 0 /\ NoReaping.open = FALSE /\ NoReaping.batch = {}
BY DEF NoReaping

LEMMA EndReapingEnds ==
  ASSUME IInv, NEW p \in Reapers, EndReaping(p) PROVE ReapersEnd(Reapers \ {p})
<1>1. \A q \in Reapers : reap'[q] = IF q = p THEN NoReaping ELSE reap[q]
  BY Zenon DEF EndReaping, IInv, TypeOK
<1>. QED  BY <1>1, Zenon DEF ReapersEnd

LEMMA SameReapersEnd == ASSUME reap' = reap PROVE ReapersEnd(Reapers)
BY Zenon DEF ReapersEnd

\* Requests and reapings stay open or are closed.
LEMMA AgreeStep ==
  ASSUME IInv, AgreeInv, NEW P, AllAdvance(P), ReapersEnd(P),
         \A u \in Workers : tx'[u] = tx[u] \/ ReadOK(u)'
  PROVE  AgreeInv'
<1>0. Finals
  BY AdvanceFinals
<1>1. \A t \in Targets : Settled(t, target'[t]) /\ OwnKinds(t, target'[t])
  BY <1>0, Zenon DEF Finals, Advances
<1>2. ASSUME NEW w \in Workers, tx'[w] = tx[w] PROVE ReadOK(w)'
  <2>1. SUFFICES ASSUME tx'[w].phase = "READ", ~target'[tx'[w].t].cancelRequested
                 PROVE  tx'[w].seen \in Started
    BY Zenon DEF ReadOK
  <2>3. tx[w].phase = "READ" /\ tx[w].t \in Targets
    <3>1. tx[w].phase = "READ"
      BY <1>2, <2>1
    <3>. QED  BY <3>1, Zenon DEF IInv, RequestOK
  <2>4. ~target[tx[w].t].cancelRequested
    BY <1>0, <1>2, <2>1, <2>3, Zenon DEF Finals, Advances
  <2>. QED  BY <1>2, <2>3, <2>4, Zenon DEF AgreeInv, ReadOK
<1>3. ASSUME NEW p \in Reapers, NEW i \in reap'[p].batch
      PROVE  p \in P /\ reap'[p] = reap[p] /\ i \in reap[p].batch
  <2>1. reap'[p] # NoReaping
    BY <1>3, NoReapingEmpty
  <2>2. p \in P /\ reap'[p] = reap[p]
    BY <2>1, Zenon DEF ReapersEnd
  <2>. QED  BY <1>3, <2>2, Zenon
<1>4. ASSUME NEW p \in Reapers, NEW i \in reap'[p].batch PROVE BatchOK(p, i)'
  <2>1. p \in P /\ reap'[p] = reap[p] /\ i \in reap[p].batch
    BY <1>3, <1>4
  <2>2. i[1] \in Targets /\ i[2] \in Kinds /\ i = <<i[1], i[2]>>
    <3>1. reap[p] \in Reaping
      BY DEF IInv, TypeOK
    <3>. QED  BY <2>1, <3>1 DEF Reaping
  <2>3. BatchOK(p, i)
    BY <2>1, Zenon DEF AgreeInv
  <2>4. i[2] \in BatchKinds(P, i[1])
    BY <2>1, <2>2 DEF BatchKinds
  <2>5. Advances(i[1], target[i[1]], target'[i[1]], BatchKinds(P, i[1]))
    BY <2>2, Zenon DEF AllAdvance
  <2>. QED  BY <2>1, <2>3, <2>4, <2>5, Zenon DEF BatchOK, Advances
<1>5. ASSUME NEW p \in Reapers, NEW q \in Reapers, p # q
      PROVE  reap'[p].batch \cap reap'[q].batch = {}
  <2>1. SUFFICES ASSUME NEW i, i \in reap'[p].batch, i \in reap'[q].batch PROVE FALSE
    BY Zenon
  <2>2. i \in reap[p].batch /\ i \in reap[q].batch
    BY <1>3, <2>1, Zenon
  <2>. QED  BY <1>5, <2>2 DEF AgreeInv
<1>. QED  BY <1>1, <1>2, <1>4, <1>5, Zenon DEF AgreeInv

\* A worker's row is locked by its reaping or by the sweep.
RowHeld(u) == reap[u].open \/ u \in reap[Sweeper].lost

\* A step in which requests and reapings close, no request opens on a locked
\* worker row and no worker is lost that has a claim
LEMMA StepKeeps ==
  ASSUME IInv, LeaseInv, NEW P, AllAdvance(P), ReapersEnd(P), now' \in Nat, now <= now',
         \A u \in Workers : worker'[u].pending => Claims(u)' = {},
         \A u \in Workers : tx'[u] = tx[u] \/ ReadOK(u)',
         \A u \in Workers : RowHeld(u) /\ tx[u].phase = "IDLE" => tx'[u].phase = "IDLE"
  PROVE  Finals /\ LeaseInv'
<1>1. AgreeInv /\ LossInv /\ RowInv /\ now \in Nat
  BY LeaseFacts, Zenon
<1>2. AgreeInv' /\ Finals
  BY <1>1, AgreeStep, AdvanceFinals, Zenon
<1>3. ASSUME NEW p \in Reapers PROVE reap'[p] = NoReaping \/ reap'[p] = reap[p]
  BY Zenon DEF ReapersEnd
<1>4. Sweeper \in Reapers /\ Workers \subseteq Reapers
  BY DEF Reapers
<1>5. ASSUME NEW u \in reap'[Sweeper].lost PROVE tx'[u].phase = "IDLE"
  <2>1. reap'[Sweeper] # NoReaping
    BY <1>5, NoReapingEmpty
  <2>2. u \in reap[Sweeper].lost
    BY <1>3, <1>4, <1>5, <2>1, Zenon
  <2>3. reap[Sweeper] \in Reaping
    BY <1>4 DEF IInv, TypeOK
  <2>4. u \in Workers
    BY <2>2, <2>3 DEF Reaping
  <2>. QED  BY <1>1, <2>2, <2>4, Zenon DEF LossInv, RowHeld
<1>6. LossInv'
  BY <1>5, Zenon DEF LossInv
<1>7. ASSUME NEW u \in Workers, reap'[u].open PROVE tx'[u].phase = "IDLE"
  <2>1. reap'[u] # NoReaping
    BY <1>7, NoReapingEmpty
  <2>2. reap[u].open
    BY <1>3, <1>4, <1>7, <2>1, Zenon
  <2>. QED  BY <1>1, <2>2, Zenon DEF RowInv, RowHeld
<1>8. ASSUME NEW p \in Reapers PROVE reap'[p].at <= now'
  <2>1. reap[p].at \in Nat /\ reap[p].at <= now
    <3>1. reap[p] \in Reaping
      BY DEF IInv, TypeOK
    <3>. QED  BY <1>1, <3>1 DEF Reaping, RowInv
  <2>2. reap'[p].at = 0 \/ reap'[p].at = reap[p].at
    BY <1>3, NoReapingEmpty
  <2>. QED  BY <1>1, <2>1, <2>2
<1>9. RowInv'
  BY <1>7, <1>8, Zenon DEF RowInv
<1>. QED  BY <1>2, <1>6, <1>9, Zenon DEF LeaseInv

\* A worker that was lost without a claim has none when it gets none.
LEMMA StillLost ==
  ASSUME LossInv, NEW u \in Workers, worker[u].pending, Claims(u)' \subseteq Claims(u)
  PROVE  Claims(u)' = {}
<1>1. Claims(u) = {}
  BY Zenon DEF LossInv
<1>. QED  BY <1>1, Zenon

\* A worker comes to hold leases that are among its claims, or one more when it
\* is below its limit.
Counted ==
  \A w \in Workers :
    \/ Claims(w)' \subseteq Claims(w)
    \/ \E S \in SUBSET Items, i \in Items :
         Claims(w)' \subseteq S \cup {i} /\ Cardinality(S) < WorkerLimit

\* What every step does
Keeps == Finals /\ LeaseInv' /\ Counted

\* What is valid later was valid before.
LEMMA LiveBefore ==
  ASSUME NEW x, x \in Work, NEW m \in Nat, NEW n \in Nat, m <= n, Live(x, n)
  PROVE  Live(x, m)
BY DEF Live, Work

LEMMA LiveEarlier ==
  ASSUME NEW T, \A t \in Targets, k \in Kinds : T[t].work[k] \in Work,
         NEW w, NEW m \in Nat, NEW n \in Nat, m <= n
  PROVE  LiveOfWorker(T, w, n) \subseteq LiveOfWorker(T, w, m)
<1>1. ASSUME NEW i \in LiveOfWorker(T, w, n) PROVE i \in LiveOfWorker(T, w, m)
  <2>1. PICK t \in Targets, k \in Kinds : i = <<t, k>>
    BY <1>1, LiveItem
  <2>2. T[t].work[k].worker = w /\ Live(T[t].work[k], n)
    BY <1>1, <2>1, InLive, Zenon
  <2>3. Live(T[t].work[k], m)
    BY <2>2, LiveBefore
  <2>. QED  BY <2>1, <2>2, <2>3, InLive, Zenon
<1>. QED  BY <1>1, Zenon

LEMMA ClaimsStep ==
  ASSUME IInv, now' \in Nat, now <= now',
         \A t \in Targets, k \in Kinds :
           \/ Loosens(target[t].work[k], target'[t].work[k])
           \/ <<t, k>> \in Claims(target'[t].work[k].worker),
         NEW w \in Workers,
         tx'[w].phase # "IDLE" => <<tx'[w].t, tx'[w].k>> \in Claims(w)
  PROVE  Claims(w)' \subseteq Claims(w)
<1>1. ASSUME NEW i \in LiveOfWorker(target', w, now') PROVE i \in Claims(w)
  <2>1. PICK t \in Targets, k \in Kinds : i = <<t, k>>
    BY <1>1, LiveItem
  <2>2. PICK x, y : x = target[t].work[k] /\ y = target'[t].work[k]
    BY Zenon
  <2>3. y.worker = w /\ Live(y, now')
    <3>1. PICK T, at : T = target' /\ at = now'
      BY Zenon
    <3>2. <<t, k>> \in LiveOfWorker(T, w, at)
      BY <1>1, <2>1, <3>1, Zenon
    <3>3. T[t].work[k].worker = w /\ Live(T[t].work[k], at)
      BY <3>2, InLive, Zenon
    <3>. QED  BY <2>2, <3>1, <3>3, Zenon
  <2>4. CASE Loosens(x, y)
    <3>1. x.worker = w /\ Live(x, now')
      BY <2>3, <2>4, LoosensLive, Zenon
    <3>2. x \in Work
      BY <2>2, Zenon DEF IInv, RecordOK, WorkOK
    <3>3. now \in Nat
      BY SMTT(30) DEF IInv, TypeOK
    <3>4. Live(x, now)
      BY <3>1, <3>2, <3>3, LiveBefore
    <3>5. i \in LiveOfWorker(target, w, now)
      BY <2>1, <2>2, <3>1, <3>4, InLive, Zenon
    <3>. QED  BY <3>5, Zenon DEF Claims
  <2>5. CASE ~Loosens(x, y)
    BY <2>1, <2>2, <2>3, <2>5, Zenon
  <2>. QED  BY <2>4, <2>5
<1>2. Claims(w)' = LiveOfWorker(target', w, now')
                     \cup IF tx'[w].phase = "IDLE" THEN {} ELSE {<<tx'[w].t, tx'[w].k>>}
  BY Zenon DEF Claims
<1>. QED  BY <1>1, <1>2

-----------------------------------------------------------------------------
(* The steps.                                                              *)

LEMMA NoTxIdle == NoTx.phase = "IDLE"
BY DEF NoTx

\* At the start nobody has a lease.
LEMMA InitClaims ==
  ASSUME Init, NEW w \in Workers PROVE Claims(w) = {}
<1>1. tx[w] = NoTx
  BY SMTT(30) DEF Init
<1>2. \A t \in Targets, k \in Kinds : target[t].work[k] = NoWork
  BY SMTT(30) DEF Init
<1>3. NoWork.lease # "ACTIVE"
  BY DEF NoWork
<1>4. LiveOfWorker(target, w, now) = {}
  BY <1>2, <1>3 DEF LiveOfWorker, Items, Live
<1>. QED  BY <1>1, <1>4, NoTxIdle DEF Claims

\* A request that stays open keeps its claim.
LEMMA OpenClaim ==
  ASSUME NEW w \in Workers, tx'[w] = tx[w] \/ tx'[w] = NoTx, tx'[w].phase # "IDLE"
  PROVE  <<tx'[w].t, tx'[w].k>> \in Claims(w)
<1>1. tx'[w] = tx[w]
  BY NoTxIdle, Zenon
<1>. QED  BY <1>1 DEF Claims

\* A step in which nobody gets a claim
LEMMA ClaimlessStep ==
  ASSUME IInv, LeaseInv, NEW P, AllAdvance(P), ReapersEnd(P), now' \in Nat, now <= now',
         \A u \in Workers : worker'[u].pending => worker[u].pending,
         \A u \in Workers : tx'[u] = tx[u] \/ ReadOK(u)',
         \A u \in Workers : RowHeld(u) /\ tx[u].phase = "IDLE" => tx'[u].phase = "IDLE",
         \A u \in Workers : Claims(u)' \subseteq Claims(u)
  PROVE  Keeps
<1>1. LossInv
  BY DEF LeaseInv
<1>2. \A u \in Workers : worker'[u].pending => Claims(u)' = {}
  BY <1>1, StillLost, Zenon
<1>3. Finals /\ LeaseInv'
  BY <1>2, StepKeeps, Zenon
<1>. QED  BY <1>3, Zenon DEF Keeps, Counted

\* A step in which leases end, requests and reapings close and time may pass
LEMMA PlainStep ==
  ASSUME IInv, LeaseInv, NEW P, AllMove(P), ReapersEnd(P), now' \in Nat, now <= now',
         \A u \in Workers : worker'[u].pending => worker[u].pending,
         \A u \in Workers : tx'[u] = tx[u] \/ tx'[u] = NoTx
  PROVE  Keeps
<1>1. /\ AllAdvance(P)
      /\ \A t \in Targets, k \in Kinds : Loosens(target[t].work[k], target'[t].work[k])
  BY MoveAdvance, Zenon
<1>2. \A u \in Workers : Claims(u)' \subseteq Claims(u)
  BY <1>1, ClaimsStep, OpenClaim, Zenon
<1>3. ASSUME NEW u \in Workers PROVE tx'[u] = tx[u] \/ ReadOK(u)'
  BY NoTxIdle DEF ReadOK
<1>4. \A u \in Workers : RowHeld(u) /\ tx[u].phase = "IDLE" => tx'[u].phase = "IDLE"
  BY NoTxIdle
<1>. QED  BY <1>1, <1>2, <1>3, <1>4, ClaimlessStep, Zenon

\* The same for a step that keeps the clock, the workers and the reapers
LEMMA TargetStep ==
  ASSUME IInv, LeaseInv, AllMove(Reapers), UNCHANGED <<now, worker, tx, reap>>
  PROVE  Keeps
<1>1. now' \in Nat /\ now <= now'
  BY DEF IInv, TypeOK
<1>. QED  BY <1>1, SameReapersEnd, PlainStep, Zenon

\* Writing last_seen_at leaves the recovery state of the workers alone.
LEMMA SeenPending ==
  ASSUME IInv, NEW w \in Workers, NEW n,
         worker' = [worker EXCEPT ![w].lastSeen = n], NEW u \in Workers
  PROVE  worker'[u].pending = worker[u].pending
<1>1. PICK old, new : old = worker[w] /\ new = [old EXCEPT !.lastSeen = n]
  BY Zenon
<1>2. worker' = [worker EXCEPT ![w] = new] /\ worker \in [Workers -> Worker]
  BY <1>1 DEF IInv, TypeOK
<1>3. new.pending = old.pending
  <2>1. old \in Worker
    BY <1>1, <1>2
  <2>. QED  BY <1>1, <2>1, Zenon DEF Worker
<1>4. CASE u = w
  <2>1. worker'[u] = new
    BY <1>2, <1>4, Zenon
  <2>. QED  BY <1>1, <1>3, <1>4, <2>1, Zenon
<1>5. CASE u # w
  <2>1. worker'[u] = worker[u]
    BY <1>2, <1>5, Zenon
  <2>. QED  BY <2>1, Zenon
<1>. QED  BY <1>4, <1>5

\* A request that commits
LEMMA CommitStep ==
  ASSUME IInv, LeaseInv, NEW w \in Workers, NEW rec, Commit(w, rec), AllMove(Reapers)
  PROVE  Keeps
<1>1. /\ worker' = [worker EXCEPT ![w].lastSeen = Seen(w, tx[w].at)]
      /\ tx' = [tx EXCEPT ![w] = NoTx] /\ now' = now /\ reap' = reap
  BY DEF Commit
<1>2. now' \in Nat /\ now <= now'
  BY <1>1 DEF IInv, TypeOK
<1>3. \A u \in Workers : worker'[u].pending => worker[u].pending
  BY <1>1, SeenPending, Zenon
<1>4. \A u \in Workers : tx'[u] = tx[u] \/ tx'[u] = NoTx
  BY <1>1, Zenon DEF IInv, TypeOK
<1>. QED  BY <1>1, <1>2, <1>3, <1>4, SameReapersEnd, PlainStep, Zenon

\* The clock, registrations and restarts
LEMMA WorkerStep ==
  ASSUME IInv, LeaseInv,
         Tick \/ \E w \in Workers : RegisterWorker(w) \/ StartProcess(w)
  PROVE  Keeps
<1>1. AllMove(Reapers)
  <2>1. UNCHANGED target
    BY Zenon DEF Tick, RegisterWorker, StartProcess
  <2>. QED  BY <2>1, SameAllMove, Zenon DEF LeaseInv
<1>2. now' \in Nat /\ now <= now'
  <2>1. now' = now \/ now' = now + 1
    BY Zenon DEF Tick, RegisterWorker, StartProcess
  <2>2. now \in Nat
    BY DEF IInv, TypeOK
  <2>. QED  BY <2>1, <2>2
<1>3. UNCHANGED <<tx, reap>>
  BY Zenon DEF Tick, RegisterWorker, StartProcess
<1>4. ASSUME NEW u \in Workers PROVE worker'[u].pending => worker[u].pending
  <2>1. CASE worker' = worker
    BY <2>1, Zenon
  <2>2. CASE \E w \in Workers : RegisterWorker(w)
    <3>1. PICK w \in Workers : RegisterWorker(w)
      BY <2>2, Zenon
    <3>2. PICK old, new : /\ old = worker[w]
                          /\ new = [old EXCEPT !.status = "ACTIVE", !.lastSeen = Seen(w, now)]
      BY Zenon
    <3>3. worker' = [worker EXCEPT ![w] = new] /\ worker \in [Workers -> Worker]
      BY <3>1, <3>2, Zenon DEF RegisterWorker, IInv, TypeOK
    <3>4. new.pending = old.pending
      <4>1. old \in Worker
        BY <3>2, <3>3, Zenon
      <4>. QED  BY <3>2, <4>1, Zenon DEF Worker
    <3>5. worker'[u] = IF u = w THEN new ELSE worker[u]
      BY <3>3, Zenon
    <3>. QED  BY <3>2, <3>4, <3>5, Zenon
  <2>. QED  BY <2>1, <2>2, Zenon DEF Tick, StartProcess
<1>. QED  BY <1>1, <1>2, <1>3, <1>4, SameReapersEnd, PlainStep, Zenon

\* The end of a reaping that only ends leases, with the write of a worker row
LEMMA ReapStep ==
  ASSUME IInv, LeaseInv, NEW w \in Workers, NEW late, NEW tie,
         target' = Reap(w, late, tie), EndReaping(w), UNCHANGED <<now, tx>>,
         \A u \in Workers : worker'[u].pending => worker[u].pending
  PROVE  Keeps
<1>1. w \in Reapers
  BY WorkerReaps
<1>2. AllMove(Reapers \ {w})
  BY <1>1, ReapAllMove, Zenon DEF LeaseInv
<1>3. ReapersEnd(Reapers \ {w})
  BY <1>1, EndReapingEnds, Zenon
<1>4. now' \in Nat /\ now <= now'
  BY DEF IInv, TypeOK
<1>5. \A u \in Workers : tx'[u] = tx[u] \/ tx'[u] = NoTx
  BY Zenon
<1>. QED  BY <1>2, <1>3, <1>4, <1>5, PlainStep, Zenon

\* heartbeat_worker ends a recovery and begins none.
LEMMA HeartbeatStep ==
  ASSUME IInv, LeaseInv, NEW w \in Workers, NEW status, NEW report, NEW late, NEW tie,
         Heartbeat(w, status, report, late, tie)
  PROVE  Keeps
<1>1. PICK me, boot, new : /\ me = worker[w] /\ boot = reap[w].boot
                     /\ new = [status |-> status, lastSeen |-> Seen(w, reap[w].at),
                               pending |-> me.pending /\ ~report,
                               reported |-> IF report THEN boot ELSE me.reported]
  BY Zenon
<1>2. /\ worker' = [worker EXCEPT ![w] = new] /\ target' = Reap(w, late, tie)
      /\ EndReaping(w) /\ UNCHANGED <<now, tx>>
  BY <1>1, Zenon DEF Heartbeat
<1>3. \A u \in Workers : worker'[u].pending => worker[u].pending
  <2>1. new.pending => me.pending
    BY <1>1, Zenon
  <2>2. \A u \in Workers : worker'[u] = IF u = w THEN new ELSE worker[u]
    BY <1>2, Zenon DEF IInv, TypeOK
  <2>. QED  BY <1>1, <2>1, <2>2, Zenon
<1>. QED  BY <1>2, <1>3, ReapStep, Zenon

LEMMA ClaimNothingStep ==
  ASSUME IInv, LeaseInv, NEW w \in Workers, NEW late, NEW tie, ClaimNothing(w, late, tie)
  PROVE  Keeps
<1>1. /\ worker' = [worker EXCEPT ![w].lastSeen = Seen(w, reap[w].at)]
      /\ target' = Reap(w, late, tie) /\ EndReaping(w) /\ UNCHANGED <<now, tx>>
  BY DEF ClaimNothing
<1>2. \A u \in Workers : worker'[u].pending => worker[u].pending
  BY <1>1, SeenPending, Zenon
<1>. QED  BY <1>1, <1>2, ReapStep, Zenon

\* claim_work gives a lease to a worker that is not lost and below its limit.
\* It counts the leases that were valid when it began.
LEMMA ClaimStep ==
  ASSUME IInv, LeaseInv, NEW w \in Workers, NEW k \in Kinds, NEW t \in Targets,
         NEW late, NEW tie, Claim(w, k, t, late, tie)
  PROVE  Keeps
<1>1. AgreeInv /\ RowInv /\ LossInv /\ now \in Nat /\ w \in Reapers
  BY LeaseFacts, WorkerReaps, Zenon
<1>2. PICK T, at : T = Reap(w, late, tie) /\ at = reap[w].at
  BY Zenon
<1>3. /\ MayClaim(w, T) /\ UNCHANGED <<now, tx>> /\ reap[w].open /\ EndReaping(w)
      /\ worker' = [worker EXCEPT ![w].lastSeen = Seen(w, at)]
  BY <1>2, Zenon DEF Claim
<1>4. AllAdvance(Reapers \ {w}) /\ Gives(T, w, t, k)
  BY <1>1, <1>2, ClaimGives, Zenon
<1>5. \A u \in Targets : /\ RecordOK(T[u])
                         /\ \A j \in Kinds : Loosens(target[u].work[j], T[u].work[j])
  BY <1>1, <1>2, ReapMoves, Zenon DEF Moves, Ends
<1>6. Gives(target, w, t, k)
  <2>1. ASSUME NEW u \in Targets, NEW j \in Kinds
        PROVE  \/ Loosens(target[u].work[j], target'[u].work[j])
               \/ u = t /\ j = k /\ target'[u].work[j].worker = w
    <3>1. Loosens(target[u].work[j], T[u].work[j])
      BY <1>5
    <3>2. \/ Loosens(T[u].work[j], target'[u].work[j])
          \/ u = t /\ j = k /\ target'[u].work[j].worker = w
      BY <1>4, Zenon DEF Gives
    <3>. QED  BY <3>1, <3>2, LoosensTrans, Zenon
  <2>. QED  BY <2>1, Zenon DEF Gives
<1>7. ReapersEnd(Reapers \ {w})
  BY <1>1, <1>3, EndReapingEnds, Zenon
<1>8. ~worker[w].pending /\ tx[w].phase = "IDLE"
  BY <1>1, <1>3, Zenon DEF MayClaim, RowInv
<1>9. \A u \in Workers : worker'[u].pending = worker[u].pending
  BY <1>3, SeenPending, Zenon
<1>10. ASSUME NEW u \in Workers \ {w} PROVE Claims(u)' \subseteq Claims(u)
  <2>1. \A v \in Targets, j \in Kinds :
          target'[v].work[j].worker = u => Loosens(target[v].work[j], target'[v].work[j])
    BY <1>6, Zenon DEF Gives
  <2>2. LiveOfWorker(target', u, now) \subseteq LiveOfWorker(target, u, now) \cup {}
    BY <1>1, <2>1, LiveKept, Zenon
  <2>3. Claims(u)' = LiveOfWorker(target', u, now)
                       \cup IF tx[u].phase = "IDLE" THEN {} ELSE {<<tx[u].t, tx[u].k>>}
    BY <1>3, Zenon DEF Claims
  <2>. QED  BY <2>2, <2>3, Zenon DEF Claims
<1>11. Finals /\ LeaseInv'
  <2>1. \A u \in Workers : worker'[u].pending => Claims(u)' = {}
    <3>1. ASSUME NEW u \in Workers, worker'[u].pending PROVE Claims(u)' = {}
      <4>1. worker[u].pending /\ u \in Workers \ {w}
        BY <1>8, <1>9, <3>1
      <4>. QED  BY <1>1, <1>10, <4>1, StillLost, Zenon
    <3>. QED  BY <3>1, Zenon
  <2>2. now' \in Nat /\ now <= now'
    BY <1>1, <1>3
  <2>3. \A u \in Workers : tx'[u] = tx[u]
    BY <1>3
  <2>. QED  BY <1>4, <1>7, <2>1, <2>2, <2>3, StepKeeps, Zenon
<1>12. PICK S, S2 : S = LiveOfWorker(T, w, at) /\ S2 = Claims(w)'
  BY Zenon
<1>13. S2 \subseteq S \cup {<<t, k>>}
  <2>1. \A v \in Targets, j \in Kinds :
          <<v, j>> \notin {<<t, k>>} => Loosens(T[v].work[j], target'[v].work[j])
    BY <1>4, Zenon DEF Gives
  <2>2. LiveOfWorker(target', w, now) \subseteq LiveOfWorker(T, w, now) \cup {<<t, k>>}
    BY <1>1, <2>1, LiveKept, Zenon
  <2>3. Claims(w)' = LiveOfWorker(target', w, now) \cup {}
    BY <1>3, <1>8 DEF Claims
  <2>4. at \in Nat /\ at <= now
    <3>1. reap[w] \in Reaping
      BY <1>1 DEF IInv, TypeOK
    <3>. QED  BY <1>1, <1>2, <3>1 DEF Reaping, RowInv
  <2>5. \A v \in Targets, j \in Kinds : T[v].work[j] \in Work
    BY <1>5, Zenon DEF RecordOK, WorkOK
  <2>6. LiveOfWorker(T, w, now) \subseteq LiveOfWorker(T, w, at)
    BY <1>1, <2>4, <2>5, LiveEarlier, Zenon
  <2>. QED  BY <1>12, <2>2, <2>3, <2>6, Zenon
<1>14. S \in SUBSET Items /\ <<t, k>> \in Items
  BY <1>12 DEF LiveOfWorker, Items
<1>15. Cardinality(S) < WorkerLimit
  BY <1>2, <1>3, <1>12, Zenon DEF MayClaim
<1>16. Counted
  BY <1>10, <1>12, <1>13, <1>14, <1>15, Zenon DEF Counted
<1>. QED  BY <1>11, <1>16, Zenon DEF Keeps

\* require_lease_access opens a request on a lease that is valid.
LEMMA AccessStep ==
  ASSUME IInv, LeaseInv, NEW w \in Workers, NEW op, NEW t \in Targets, NEW k \in Kinds,
         Access(w, op, t, k)
  PROVE  Keeps
<1>1. AgreeInv /\ LossInv /\ now \in Nat
  BY LeaseFacts, Zenon
<1>2. PICK q : q = [phase |-> "ACCESS", op |-> op, t |-> t, k |-> k, at |-> now,
                    seen |-> "ABSENT"]
  BY Zenon
<1>3. /\ tx' = [tx EXCEPT ![w] = q] /\ UNCHANGED <<now, target, worker, reap>>
      /\ ~reap[w].open /\ w \notin reap[Sweeper].lost
      /\ target[t].work[k].worker = w /\ Live(target[t].work[k], now)
  BY <1>2, Zenon DEF Access, RowFree
<1>4. q.phase = "ACCESS" /\ q.t = t /\ q.k = k
  BY <1>2
<1>5. \A u \in Workers : tx'[u] = IF u = w THEN q ELSE tx[u]
  BY <1>3, Zenon DEF IInv, TypeOK
<1>6. AllMove(Reapers)
  BY <1>1, <1>3, SameAllMove, Zenon
<1>7. \A u \in Workers : tx'[u] = tx[u] \/ ReadOK(u)'
  <2>1. \A u \in Workers : tx'[u].phase = "READ" => tx'[u] = tx[u]
    BY <1>4, <1>5
  <2>. QED  BY <2>1, Zenon DEF ReadOK
<1>8. \A u \in Workers : RowHeld(u) /\ tx[u].phase = "IDLE" => tx'[u].phase = "IDLE"
  <2>1. ~RowHeld(w)
    BY <1>3, Zenon DEF RowHeld
  <2>. QED  BY <1>5, <2>1, Zenon
<1>9. \A u \in Workers : Claims(u)' \subseteq Claims(u)
  <2>1. \A u \in Targets, j \in Kinds : Loosens(target[u].work[j], target'[u].work[j])
    BY <1>6, MoveAdvance, Zenon
  <2>2. ASSUME NEW u \in Workers, tx'[u].phase # "IDLE"
        PROVE  <<tx'[u].t, tx'[u].k>> \in Claims(u)
    <3>1. CASE u = w
      <4>1. <<t, k>> \in LiveOfWorker(target, w, now)
        BY <1>3 DEF LiveOfWorker, Items
      <4>2. tx'[u].t = t /\ tx'[u].k = k
        BY <1>4, <1>5, <3>1, Zenon
      <4>. QED  BY <3>1, <4>1, <4>2 DEF Claims
    <3>2. CASE u # w
      <4>1. tx'[u] = tx[u]
        BY <1>5, <3>2, Zenon
      <4>. QED  BY <2>2, <4>1, OpenClaim, Zenon
    <3>. QED  BY <3>1, <3>2
  <2>3. now' \in Nat /\ now <= now'
    BY <1>1, <1>3
  <2>. QED  BY <2>1, <2>2, <2>3, ClaimsStep, Zenon
<1>10. AllAdvance(Reapers) /\ ReapersEnd(Reapers) /\ now' \in Nat /\ now <= now'
  BY <1>1, <1>3, <1>6, MoveAdvance, SameReapersEnd
<1>11. \A u \in Workers : worker'[u].pending => worker[u].pending
  BY <1>3, Zenon
<1>. QED  BY <1>7, <1>8, <1>9, <1>10, <1>11, ClaimlessStep, Zenon

LEMMA RollbackStep ==
  ASSUME IInv, LeaseInv, NEW w \in Workers, Rollback(w)
  PROVE  Keeps
<1>1. tx' = [tx EXCEPT ![w] = NoTx] /\ UNCHANGED <<now, target, worker, reap>>
  BY DEF Rollback
<1>2. AllMove(Reapers)
  BY <1>1, SameAllMove, Zenon DEF LeaseInv
<1>3. \A u \in Workers : tx'[u] = tx[u] \/ tx'[u] = NoTx
  BY <1>1, Zenon DEF IInv, TypeOK
<1>4. now' \in Nat /\ now <= now'
  BY <1>1 DEF IInv, TypeOK
<1>. QED  BY <1>1, <1>2, <1>3, <1>4, SameReapersEnd, PlainStep, Zenon

\* update_lease_status and complete_lease read a target whose lease is locked.
LEMMA HandleStep ==
  ASSUME IInv, LeaseInv, NEW w \in Workers, Handle(w)
  PROVE  Keeps
<1>1. AgreeInv /\ LossInv /\ now \in Nat
  BY LeaseFacts, Zenon
<1>2. PICK old, t, k, rec : old = tx[w] /\ t = old.t /\ k = old.k /\ rec = target[t]
  BY Zenon
<1>3. PICK q : q = [old EXCEPT !.phase = "READ", !.seen = rec.status]
  BY Zenon
<1>4. /\ tx' = [tx EXCEPT ![w] = q] /\ UNCHANGED <<now, target, worker, reap>>
      /\ old.phase = "ACCESS"
  BY <1>2, <1>3, Zenon DEF Handle, IInv, TypeOK
<1>5. q.phase = "READ" /\ q.t = t /\ q.k = k /\ q.seen = rec.status
  <2>1. old \in Tx
    BY <1>2 DEF IInv, TypeOK
  <2>. QED  BY <1>2, <1>3, <2>1 DEF Tx
<1>6. \A u \in Workers : tx'[u] = IF u = w THEN q ELSE tx[u]
  BY <1>4, Zenon DEF IInv, TypeOK
<1>7. AllMove(Reapers)
  BY <1>1, <1>4, SameAllMove, Zenon
<1>8. \A u \in Workers : tx'[u] = tx[u] \/ ReadOK(u)'
  <2>1. ~rec.cancelRequested => rec.status \in Started
    <3>1. Served(w, t, k, rec)
      <4>1. tx[w].phase # "IDLE"
        BY <1>2, <1>4
      <4>. QED  BY <1>1, <1>2, <4>1, RequestFacts, Zenon
    <3>. QED  BY <3>1, Zenon DEF Served
  <2>2. ReadOK(w)'
    BY <1>2, <1>4, <1>5, <1>6, <2>1, Zenon DEF ReadOK
  <2>. QED  BY <1>6, <2>2, Zenon
<1>9. \A u \in Workers : RowHeld(u) /\ tx[u].phase = "IDLE" => tx'[u].phase = "IDLE"
  <2>1. tx[w].phase # "IDLE"
    BY <1>2, <1>4
  <2>. QED  BY <1>6, <2>1, Zenon
<1>10. \A u \in Workers : Claims(u)' \subseteq Claims(u)
  <2>1. \A u \in Targets, j \in Kinds : Loosens(target[u].work[j], target'[u].work[j])
    BY <1>7, MoveAdvance, Zenon
  <2>2. ASSUME NEW u \in Workers, tx'[u].phase # "IDLE"
        PROVE  <<tx'[u].t, tx'[u].k>> \in Claims(u)
    <3>1. CASE u = w
      <4>1. tx'[u].t = tx[w].t /\ tx'[u].k = tx[w].k /\ tx[w].phase # "IDLE"
        BY <1>2, <1>4, <1>5, <1>6, <3>1
      <4>. QED  BY <3>1, <4>1 DEF Claims
    <3>2. CASE u # w
      <4>1. tx'[u] = tx[u]
        BY <1>6, <3>2, Zenon
      <4>. QED  BY <2>2, <4>1, OpenClaim, Zenon
    <3>. QED  BY <3>1, <3>2
  <2>3. now' \in Nat /\ now <= now'
    BY <1>1, <1>4
  <2>. QED  BY <2>1, <2>2, <2>3, ClaimsStep, Zenon
<1>11. AllAdvance(Reapers) /\ ReapersEnd(Reapers) /\ now' \in Nat /\ now <= now'
  BY <1>1, <1>4, <1>7, MoveAdvance, SameReapersEnd
<1>12. \A u \in Workers : worker'[u].pending => worker[u].pending
  BY <1>4, Zenon
<1>. QED  BY <1>8, <1>9, <1>10, <1>11, <1>12, ClaimlessStep, Zenon

\* renew_lease makes a lease valid that is counted already.
LEMMA RenewLeaseStep ==
  ASSUME IInv, LeaseInv, NEW w \in Workers, NEW at, RenewLease(w, at)
  PROVE  Keeps
<1>1. AgreeInv /\ LossInv /\ now \in Nat
  BY LeaseFacts, Zenon
<1>2. PICK t, k : t = tx[w].t /\ k = tx[w].k
  BY Zenon
<1>3. /\ worker' = [worker EXCEPT ![w].lastSeen = Seen(w, tx[w].at)]
      /\ tx' = [tx EXCEPT ![w] = NoTx] /\ UNCHANGED <<now, reap>>
      /\ tx[w].phase # "IDLE"
  BY ZenonT(30) DEF RenewLease, Commit, Phase
<1>4. AllAdvance(Reapers) /\ Gives(target, w, t, k)
  BY <1>1, <1>2, RenewLeaseGives, Zenon
<1>5. \A u \in Workers : tx'[u] = tx[u] \/ tx'[u] = NoTx
  BY <1>3, Zenon DEF IInv, TypeOK
<1>6. \A u \in Workers : tx'[u] = tx[u] \/ ReadOK(u)'
  BY <1>5, NoTxIdle DEF ReadOK
<1>7. \A u \in Workers : RowHeld(u) /\ tx[u].phase = "IDLE" => tx'[u].phase = "IDLE"
  BY <1>5, NoTxIdle
<1>8. \A u \in Workers : worker'[u].pending => worker[u].pending
  BY <1>3, SeenPending, Zenon
<1>9. \A u \in Workers : Claims(u)' \subseteq Claims(u)
  <2>1. <<t, k>> \in Claims(w)
    BY <1>2, <1>3 DEF Claims
  <2>2. \A v \in Targets, j \in Kinds :
          \/ Loosens(target[v].work[j], target'[v].work[j])
          \/ <<v, j>> \in Claims(target'[v].work[j].worker)
    BY <1>4, <2>1, Zenon DEF Gives
  <2>3. now' \in Nat /\ now <= now'
    BY <1>1, <1>3
  <2>. QED  BY <1>5, <2>2, <2>3, ClaimsStep, OpenClaim, Zenon
<1>10. ReapersEnd(Reapers) /\ now' \in Nat /\ now <= now'
  BY <1>1, <1>3, SameReapersEnd
<1>. QED  BY <1>4, <1>6, <1>7, <1>8, <1>9, <1>10, ClaimlessStep, Zenon

\* A reaper that begins: its batch is locked by nobody else and what it reads
\* is current.
LEMMA BeginReapingStep ==
  ASSUME IInv, LeaseInv, NEW p \in Reapers, NEW boot, NEW lost,
         NEW batch \in SUBSET Reapable(lost), BeginReaping(p, boot, lost, batch),
         UNCHANGED <<now, target, worker, tx>>,
         p \in Workers => tx[p].phase = "IDLE",
         p = Sweeper => \A w \in lost : tx[w].phase = "IDLE"
  PROVE  Keeps
<1>. DEFINE mine == {i[1] : i \in batch}
<1>1. PICK seen, cancelling, new :
        /\ seen = [t \in Targets |-> IF t \in mine THEN target[t].status ELSE "ABSENT"]
        /\ cancelling = {t \in mine : target[t].cancelRequested}
        /\ new = [open |-> TRUE, at |-> now, boot |-> boot, lost |-> lost,
                  batch |-> batch, seen |-> seen, cancelling |-> cancelling]
  BY Zenon
<1>2. \A q \in Reapers : reap'[q] = IF q = p THEN new ELSE reap[q]
  <2>1. reap' = [reap EXCEPT ![p] = new]
    BY <1>1, Zenon DEF BeginReaping
  <2>. QED  BY <2>1, Zenon DEF IInv, TypeOK
<1>3. /\ new.at = now /\ new.lost = lost /\ new.batch = batch
      /\ new.seen = seen /\ new.cancelling = cancelling
  BY <1>1, Zenon
<1>4. AgreeInv /\ LossInv /\ RowInv /\ now \in Nat
  BY LeaseFacts, Zenon
<1>5. AllAdvance(Reapers) /\ Finals
  BY <1>4, SameAllMove, MoveAdvance, AdvanceFinals, Zenon
<1>6. ASSUME NEW i \in batch
      PROVE  /\ i[1] \in Targets /\ i[2] \in Kinds /\ i[1] \in mine
             /\ target[i[1]].work[i[2]].lease = "ACTIVE"
             /\ \A q \in Reapers : i \notin reap[q].batch
  <2>1. /\ i[1] \in Targets /\ i[2] \in Kinds /\ i[1] \in mine /\ i = <<i[1], i[2]>>
        /\ Expired(FenceLost(target[i[1]], lost, now).work[i[2]], now)
        /\ ~Locked(i[1], i[2])
    BY <1>6 DEF Reapable, Items
  <2>2. PICK rec, F : rec = target[i[1]] /\ F = FenceLost(rec, lost, now)
    BY Zenon
  <2>3. F.work[i[2]].lease = "ACTIVE"
    BY <2>1, <2>2, Zenon DEF Expired
  <2>4. RecordOK(rec)
    BY <1>4, <2>1, <2>2, OwnTarget, Zenon
  <2>5. SameRows(rec, F)
    BY <1>4, <2>2, <2>4, FenceLostReaps, Zenon
  <2>6. rec.work[i[2]].lease = "ACTIVE"
    BY <2>1, <2>3, <2>5, Zenon DEF SameRows
  <2>7. \A q \in Reapers : <<i[1], i[2]>> \notin reap[q].batch
    BY <2>1, Zenon DEF Locked, LockedByReapers, LockedByReaper
  <2>. QED  BY <2>1, <2>2, <2>6, <2>7, Zenon
<1>7. ASSUME NEW i \in batch PROVE BatchOK(p, i)'
  <2>1. PICK t, k, rec : t = i[1] /\ k = i[2] /\ rec = target[t]
    BY Zenon
  <2>2. /\ t \in Targets /\ k \in Kinds /\ t \in mine /\ rec.work[k].lease = "ACTIVE"
    BY <1>6, <2>1, Zenon
  <2>3. RecordOK(rec) /\ Settled(t, rec) /\ OwnKinds(t, rec)
    BY <1>4, <2>1, <2>2, OwnTarget, Zenon
  <2>4. t \in Runs => k # "BUILD"
    <3>1. rec.work[k].source # "ABSENT"
      BY <2>2, <2>3, Zenon DEF RecordOK, WorkOK
    <3>. QED  BY <2>3, <3>1, Zenon DEF OwnKinds
  <2>5. ~rec.cancelRequested => rec.status \in Started
    BY <2>2, <2>3, LeasedKind, Zenon
  <2>6. seen[t] = rec.status
    BY <1>1, <2>1, <2>2, Zenon
  <2>7. t \in cancelling => rec.cancelRequested
    BY <1>1, <2>1, Zenon
  <2>8. target' = target /\ reap'[p] = new
    BY <1>2, Zenon
  <2>. QED  BY <1>3, <2>1, <2>2, <2>4, <2>5, <2>6, <2>7, <2>8, Zenon DEF BatchOK
<1>. HIDE DEF mine
<1>8. AgreeInv'
  <2>1. ASSUME NEW q \in Reapers, NEW i \in reap'[q].batch PROVE BatchOK(q, i)'
    <3>1. CASE q = p
      <4>1. i \in batch
        BY <1>2, <1>3, <2>1, <3>1, Zenon
      <4>. QED  BY <1>7, <3>1, <4>1, Zenon
    <3>2. CASE q # p
      <4>1. reap'[q] = reap[q]
        BY <1>2, <3>2, Zenon
      <4>2. BatchOK(q, i)
        BY <1>4, <2>1, <4>1, Zenon DEF AgreeInv
      <4>. QED  BY <4>1, <4>2, Zenon DEF BatchOK
    <3>. QED  BY <3>1, <3>2
  <2>2. ASSUME NEW q \in Reapers, NEW r \in Reapers, q # r
        PROVE  reap'[q].batch \cap reap'[r].batch = {}
    <3>1. \A s \in Reapers : reap'[s].batch = IF s = p THEN batch ELSE reap[s].batch
      BY <1>2, <1>3, Zenon
    <3>2. \A s \in Reapers : batch \cap reap[s].batch = {}
      BY <1>6, Zenon
    <3>3. reap[q].batch \cap reap[r].batch = {}
      BY <1>4, <2>2, Zenon DEF AgreeInv
    <3>. QED  BY <2>2, <3>1, <3>2, <3>3
  <2>3. \A w \in Workers : ReadOK(w)'
    BY <1>4, Zenon DEF AgreeInv, ReadOK
  <2>4. \A t \in Targets : Settled(t, target'[t]) /\ OwnKinds(t, target'[t])
    BY <1>4, Zenon DEF AgreeInv
  <2>. QED  BY <2>1, <2>2, <2>3, <2>4, Zenon DEF AgreeInv
<1>9. \A w \in Workers : Claims(w)' = Claims(w)
  BY Zenon DEF Claims, LiveOfWorker
<1>10. LossInv'
  <2>1. Sweeper \in Reapers
    BY DEF Reapers
  <2>2. ASSUME NEW u \in reap'[Sweeper].lost PROVE tx'[u].phase = "IDLE"
    <3>1. CASE p = Sweeper
      BY <1>2, <1>3, <2>1, <2>2, <3>1, Zenon
    <3>2. CASE p # Sweeper
      <4>1. u \in reap[Sweeper].lost
        BY <1>2, <2>1, <2>2, <3>2, Zenon
      <4>. QED  BY <1>4, <4>1, Zenon DEF LossInv
    <3>. QED  BY <3>1, <3>2
  <2>3. \A w \in Workers : worker'[w].pending => Claims(w)' = {}
    BY <1>4, <1>9, Zenon DEF LossInv
  <2>. QED  BY <2>2, <2>3, Zenon DEF LossInv
<1>11. RowInv'
  <2>1. ASSUME NEW w \in Workers, reap'[w].open PROVE tx'[w].phase = "IDLE"
    <3>1. CASE w = p
      BY <3>1, Zenon
    <3>2. CASE w # p
      <4>1. reap[w].open
        BY <1>2, <2>1, <3>2, WorkerReaps, Zenon
      <4>. QED  BY <1>4, <4>1, Zenon DEF RowInv
    <3>. QED  BY <3>1, <3>2
  <2>2. ASSUME NEW q \in Reapers PROVE reap'[q].at <= now'
    <3>1. reap'[q].at = now \/ reap'[q].at = reap[q].at
      BY <1>2, <1>3, Zenon
    <3>. QED  BY <1>4, <3>1 DEF RowInv
  <2>. QED  BY <2>1, <2>2, Zenon DEF RowInv
<1>. QED  BY <1>5, <1>8, <1>9, <1>10, <1>11, Zenon DEF LeaseInv, Keeps, Counted

LEMMA BeginRequestStep ==
  ASSUME IInv, LeaseInv, NEW w \in Workers, NEW batch \in SUBSET Reapable({}),
         BeginRequest(w, batch)
  PROVE  Keeps
<1>1. /\ BeginReaping(w, boots[w], {}, batch) /\ tx[w].phase = "IDLE"
      /\ UNCHANGED <<now, target, worker, tx>>
  BY DEF BeginRequest, RowFree
<1>2. w \in Reapers
  BY WorkerReaps
<1>3. w = Sweeper => \A u \in {} : tx[u].phase = "IDLE"
  OBVIOUS
<1>. QED  BY <1>1, <1>2, <1>3, BeginReapingStep, Zenon

LEMMA SweepBeginStep ==
  ASSUME IInv, LeaseInv, NEW lost \in SUBSET LostWorkers,
         NEW batch \in SUBSET Reapable(lost), SweepBegin(lost, batch)
  PROVE  Keeps
<1>1. /\ BeginReaping(Sweeper, 0, lost, batch)
      /\ UNCHANGED <<now, target, worker, tx>>
  BY DEF SweepBegin
<1>2. Sweeper \in Reapers /\ Sweeper \notin Workers
  BY TargetAssumption DEF Reapers
<1>3. \A w \in lost : tx[w].phase = "IDLE"
  BY DEF LostWorkers
<1>. QED  BY <1>1, <1>2, <1>3, BeginReapingStep, Zenon

LEMMA RollbackReapingStep ==
  ASSUME IInv, LeaseInv, NEW p \in Reapers, RollbackReaping(p)
  PROVE  Keeps
<1>1. EndReaping(p) /\ UNCHANGED <<now, target, worker, tx>>
  BY DEF RollbackReaping
<1>2. AllMove(Reapers \ {p}) /\ ReapersEnd(Reapers \ {p})
  BY <1>1, SameAllMove, EndReapingEnds, Zenon DEF LeaseInv
<1>3. now' \in Nat /\ now <= now'
  BY <1>1 DEF IInv, TypeOK
<1>4. \A u \in Workers : worker'[u].pending => worker[u].pending
  BY <1>1, Zenon
<1>5. \A u \in Workers : tx'[u] = tx[u] \/ tx'[u] = NoTx
  BY <1>1, Zenon
<1>. QED  BY <1>2, <1>3, <1>4, <1>5, PlainStep, Zenon

\* A sweep that commits leaves the workers it declares lost without a claim.
LEMMA SweepCommitStep ==
  ASSUME IInv, LeaseInv, NEW late, NEW tie, SweepCommit(late, tie)
  PROVE  Keeps
<1>1. PICK p : p = Sweeper
  BY Zenon
<1>2. p \in Reapers
  BY <1>1 DEF Reapers
<1>3. /\ target' = Reap(p, late, tie) /\ EndReaping(p) /\ UNCHANGED <<now, tx>>
      /\ worker' = [w \in Workers |->
           IF w \in reap[p].lost THEN [worker[w] EXCEPT !.pending = TRUE]
           ELSE worker[w]]
  BY <1>1, Zenon DEF SweepCommit
<1>4. AgreeInv /\ LossInv /\ RowInv /\ now \in Nat
  BY LeaseFacts, Zenon
<1>5. AllMove(Reapers \ {p}) /\ ReapersEnd(Reapers \ {p})
  BY <1>2, <1>3, <1>4, ReapAllMove, EndReapingEnds, Zenon
<1>6. /\ AllAdvance(Reapers \ {p})
      /\ \A t \in Targets, k \in Kinds : Loosens(target[t].work[k], target'[t].work[k])
  BY <1>5, MoveAdvance, Zenon
<1>7. now' \in Nat /\ now <= now'
  BY <1>3, <1>4
<1>8. \A u \in Workers : tx'[u] = tx[u]
  BY <1>3
<1>9. \A u \in Workers : Claims(u)' \subseteq Claims(u)
  BY <1>6, <1>7, <1>8, ClaimsStep, OpenClaim, Zenon
<1>10. ASSUME NEW u \in Workers, u \in reap[p].lost PROVE Claims(u)' = {}
  <2>1. reap[p].at \in Nat /\ reap[p].at <= now
    <3>1. reap[p] \in Reaping
      BY <1>2 DEF IInv, TypeOK
    <3>. QED  BY <1>2, <1>4, <3>1 DEF Reaping, RowInv
  <2>2. ASSUME NEW i \in LiveOfWorker(target', u, now) PROVE FALSE
    <3>1. PICK t \in Targets, k \in Kinds : i = <<t, k>>
      BY <2>2, LiveItem
    <3>2. PICK y : y = target'[t].work[k]
      BY Zenon
    <3>3. y.worker = u /\ Live(y, now)
      <4>1. PICK T : T = target'
        BY Zenon
      <4>2. <<t, k>> \in LiveOfWorker(T, u, now)
        BY <2>2, <3>1, <4>1, Zenon
      <4>3. T[t].work[k].worker = u /\ Live(T[t].work[k], now)
        BY <4>2, InLive, Zenon
      <4>. QED  BY <3>2, <4>1, <4>3, Zenon
    <3>4. RecordOK(target'[t]) /\ (y.worker \in reap[p].lost => ~Live(y, reap[p].at))
      BY <1>2, <1>3, <1>4, <3>2, ReapMoves, Zenon
    <3>5. y \in Work
      BY <3>2, <3>4, Zenon DEF RecordOK, WorkOK
    <3>6. Live(y, reap[p].at)
      BY <1>4, <2>1, <3>3, <3>5, LiveBefore
    <3>. QED  BY <1>10, <3>3, <3>4, <3>6, Zenon
  <2>3. tx[u].phase = "IDLE"
    BY <1>1, <1>4, <1>10, Zenon DEF LossInv
  <2>4. Claims(u)' = LiveOfWorker(target', u, now) \cup {}
    BY <1>3, <2>3 DEF Claims
  <2>. QED  BY <2>2, <2>4, Zenon
<1>11. ASSUME NEW u \in Workers, worker'[u].pending PROVE Claims(u)' = {}
  <2>1. CASE u \in reap[p].lost
    BY <1>10, <2>1, Zenon
  <2>2. CASE u \notin reap[p].lost
    <3>1. worker[u].pending
      BY <1>3, <1>11, <2>2, Zenon
    <3>. QED  BY <1>4, <1>9, <3>1, StillLost, Zenon
  <2>. QED  BY <2>1, <2>2
<1>12. Finals /\ LeaseInv'
  BY <1>5, <1>6, <1>7, <1>8, <1>11, StepKeeps, Zenon
<1>. QED  BY <1>9, <1>12, Zenon DEF Keeps, Counted

-----------------------------------------------------------------------------
(* The theorems.                                                           *)

\* Nothing is leased in the empty database.
LEMMA LeaseInit == Init => LeaseInv
<1>. SUFFICES ASSUME Init PROVE LeaseInv
  BY Zenon
<1>1. /\ \A w \in Workers : tx[w] = NoTx /\ ~worker[w].pending
      /\ \A p \in Reapers : reap[p] = NoReaping
  BY DEF Init
<1>2. \A t \in Targets : /\ target[t].status = "ABSENT" /\ ~target[t].cancelRequested
                         /\ \A k \in Kinds : target[t].work[k] = NoWork
  BY DEF Init
<1>3. NoWork.lease # "ACTIVE" /\ NoWork.source = "ABSENT"
  BY DEF NoWork
<1>4. AgreeInv
  <2>1. ASSUME NEW t \in Targets PROVE Settled(t, target[t]) /\ OwnKinds(t, target[t])
    <3>1. MainKind(t) \in Kinds /\ "BUILD" \in Kinds
      BY DEF MainKind, Kinds, RunKinds
    <3>. QED  BY <1>2, <1>3, <3>1, Zenon DEF Settled, Agrees, OwnKinds
  <2>2. \A w \in Workers : ReadOK(w)
    BY <1>1, NoTxIdle DEF ReadOK
  <2>3. \A p \in Reapers : reap[p].batch = {}
    BY <1>1, NoReapingEmpty
  <2>. QED  BY <2>1, <2>2, <2>3, Zenon DEF AgreeInv
<1>5. Sweeper \in Reapers /\ Workers \subseteq Reapers
  BY DEF Reapers
<1>6. LossInv
  BY <1>1, <1>5, NoReapingEmpty, Zenon DEF LossInv
<1>7. RowInv
  <2>1. \A p \in Reapers : reap[p].open = FALSE /\ reap[p].at = 0
    BY <1>1, NoReapingEmpty
  <2>2. now \in Nat
    BY DEF Init
  <2>. QED  BY <1>5, <2>1, <2>2 DEF RowInv
<1>. QED  BY <1>4, <1>6, <1>7, Zenon DEF LeaseInv

\* Every action keeps LeaseInv, and no action takes a final status back.
LEMMA LeaseNext == ASSUME IInv, LeaseInv, [Next]_vars PROVE Keeps
<1>0. AgreeInv
  BY DEF LeaseInv
<1>1. CASE UNCHANGED vars
  <2>1. UNCHANGED <<now, target, worker, tx, reap>>
    BY <1>1, Zenon DEF vars
  <2>. QED  BY <1>0, <2>1, SameAllMove, TargetStep, Zenon
<1>2. CASE Tick
  BY <1>2, WorkerStep, Zenon
<1>3. CASE Tenant
  <2>1. AllMove(Reapers)
    <3>1. ASSUME NEW t \in Runs, CreateRun(t) PROVE AllMove(Reapers)
      BY <1>0, <3>1, CreateMoves, Zenon DEF Targets
    <3>2. ASSUME NEW t \in Builds, CreateBuild(t) PROVE AllMove(Reapers)
      BY <1>0, <3>2, CreateMoves, Zenon DEF Targets
    <3>3. ASSUME NEW t \in BoundRuns, ChangePolicy(t) PROVE AllMove(Reapers)
      <4>1. t \in Targets
        BY TargetAssumption DEF Targets
      <4>. QED  BY <1>0, <3>3, <4>1, ChangePolicyMoves, Zenon
    <3>. QED  BY <1>0, <1>3, <3>1, <3>2, <3>3, CancelRunMoves, RotateSecretMoves,
                 Zenon DEF Tenant
  <2>2. UNCHANGED <<now, worker, tx, reap>>
    BY <1>3, Zenon DEF Tenant, CreateRun, CreateBuild, CancelRun, ChangePolicy, RotateSecret
  <2>. QED  BY <2>1, <2>2, TargetStep, Zenon
<1>4. ASSUME NEW w \in Workers, WorkerRequest(w) PROVE Keeps
  <2>1. ASSUME NEW batch \in Limited(Reapable({}), RequestBatchSize),
               BeginRequest(w, batch)
        PROVE  Keeps
    <3>1. batch \in SUBSET Reapable({})
      BY DEF Limited
    <3>. QED  BY <2>1, <3>1, BeginRequestStep, Zenon
  <2>. QED  BY <1>4, <2>1, WorkerStep, AccessStep, Zenon DEF WorkerRequest
<1>5. ASSUME NEW w \in Workers, FinishRequest(w) PROVE Keeps
  <2>1. ASSUME IssueEnvelope(w) PROVE Keeps
    <3>1. AllMove(Reapers)
      BY <1>0, <2>1, IssueEnvelopeMoves, Zenon
    <3>. QED  BY <2>1, <3>1, CommitStep, Zenon DEF IssueEnvelope
  <2>2. ASSUME NEW status, UpdateStatus(w, status) PROVE Keeps
    <3>1. AllMove(Reapers)
      BY <1>0, <2>2, UpdateStatusMoves, Zenon
    <3>. QED  BY <2>2, <3>1, CommitStep, Zenon DEF UpdateStatus
  <2>3. ASSUME NEW outcome \in Outcomes, NEW retryable, NEW at,
               CompleteLease(w, outcome, retryable, at)
        PROVE  Keeps
    <3>1. AllMove(Reapers)
      BY <1>0, <2>3, CompleteLeaseMoves, Zenon
    <3>. QED  BY <2>3, <3>1, CommitStep, Zenon DEF CompleteLease
  <2>4. ASSUME NEW outcome \in Outcomes, NEW retryable, NEW at,
               CompleteCancelled(w, outcome, retryable, at)
        PROVE  Keeps
    <3>1. AllMove(Reapers)
      BY <1>0, <2>4, CompleteCancelledMoves, Zenon
    <3>. QED  BY <2>4, <3>1, CommitStep, Zenon DEF CompleteCancelled
  <2>5. ASSUME FinishReaping(w) PROVE Keeps
    BY <2>5, WorkerReaps, RollbackReapingStep, HeartbeatStep, ClaimNothingStep, ClaimStep,
       Zenon DEF FinishReaping
  <2>. QED  BY <1>5, <2>1, <2>2, <2>3, <2>4, <2>5, HandleStep, RollbackStep,
               RenewLeaseStep, Zenon DEF FinishRequest
<1>6. CASE Recovery
  <2>1. ASSUME NEW lost \in Limited(LostWorkers, WorkerBatchSize),
               NEW batch \in Limited(Reapable(lost), SweepBatchSize),
               SweepBegin(lost, batch)
        PROVE  Keeps
    <3>1. lost \in SUBSET LostWorkers /\ batch \in SUBSET Reapable(lost)
      BY DEF Limited
    <3>. QED  BY <2>1, <3>1, SweepBeginStep, Zenon
  <2>2. Sweeper \in Reapers
    BY DEF Reapers
  <2>. QED  BY <1>6, <2>1, <2>2, SweepCommitStep, RollbackReapingStep, Zenon DEF Recovery
<1>. QED  BY <1>1, <1>2, <1>3, <1>4, <1>5, <1>6, Zenon DEF Next

\* The agreement of status, outbox row and lease and the loss of workers keep
\* what LeaseInv says of them, whatever requests, claims, cancellations, reapers
\* and sweeps do between their commits.
THEOREM LeaseInvariance == Spec => []LeaseInv
<1>1. IInv /\ LeaseInv /\ [Next]_vars => LeaseInv'
  BY LeaseNext, Zenon DEF Keeps
<1>. QED  BY <1>1, LeaseInit, Invariance, PTL DEF Spec

\* claim_work, update_lease_status, complete_lease and the reaper keep the status
\* of a Run or Build, its outbox row and its lease in step until a cancellation
\* is requested.
THEOREM WorkAgrees == Spec => []UncancelledWorkAgrees
<1>1. LeaseInv => UncancelledWorkAgrees
  BY Zenon DEF LeaseInv, AgreeInv, Settled, UncancelledWorkAgrees
<1>. QED  BY <1>1, LeaseInvariance, PTL

\* A worker that detect_lost_workers declared lost has no lease that is still
\* valid until a heartbeat reports its restart, however small the batches of
\* the sweep and of other reapers are and whatever leases they pass over.
THEOREM LossIsComplete == Spec => []LostWorkerIsFenced
<1>1. LeaseInv => LostWorkerIsFenced
  BY Zenon DEF LeaseInv, LossInv, Claims, LostWorkerIsFenced
<1>. QED  BY <1>1, LeaseInvariance, PTL

\* No late report, retry, reap or stale sweep changes the final status of a Run
\* or Build that ended without a cancellation.
THEOREM FinalStatusKept == Spec => TerminalIsFinal
<1>. DEFINE Kept == \A t \in Targets :
                      target[t].status \in Terminal /\ ~target[t].cancelRequested
                        => target'[t].status = target[t].status
<1>1. IInv /\ LeaseInv /\ [Next]_vars => [Kept]_vars
  <2>1. Finals => Kept
    BY Zenon DEF Finals, Advances
  <2>. QED  BY <2>1, LeaseNext, Zenon DEF Keeps
<1>. QED  BY <1>1, LeaseInvariance, Invariance, PTL DEF Spec, TerminalIsFinal

-----------------------------------------------------------------------------
(* The limit of a worker.                                                  *)

FS == INSTANCE FiniteSetTheorems

LEMMA SameFinite == ASSUME NEW S PROVE FS!IsFiniteSet(S) <=> IsFiniteSet(S)
BY Zenon DEF FS!IsFiniteSet, IsFiniteSet

LEMMA SameCardinality == ASSUME NEW S PROVE FS!Cardinality(S) = Cardinality(S)
BY Zenon DEF FS!Cardinality, Cardinality

\* A worker has at most max_concurrency claims.
LimitInv ==
  \A w \in Workers : IsFiniteSet(Claims(w)) /\ Cardinality(Claims(w)) <= WorkerLimit

LEMMA CountType == ASSUME NEW S, IsFiniteSet(S) PROVE Cardinality(S) \in Nat
BY FS!FS_CardinalityType, SameFinite, SameCardinality, Zenon

LEMMA WithinLimit ==
  ASSUME NEW A, NEW B, A \subseteq B, IsFiniteSet(B), Cardinality(B) <= WorkerLimit
  PROVE  IsFiniteSet(A) /\ Cardinality(A) <= WorkerLimit
<1>1. IsFiniteSet(A) /\ Cardinality(A) <= Cardinality(B)
  <2>1. A \in SUBSET B /\ FS!IsFiniteSet(B)
    BY SameFinite, Zenon
  <2>2. FS!IsFiniteSet(A) /\ FS!Cardinality(A) <= FS!Cardinality(B)
    BY <2>1, FS!FS_Subset, Zenon
  <2>. QED  BY <2>2, SameFinite, SameCardinality, Zenon
<1>2. Cardinality(A) \in Nat /\ Cardinality(B) \in Nat /\ WorkerLimit \in Nat
  BY <1>1, CountType, SettingsAssumption, Zenon
<1>. QED  BY <1>1, <1>2

LEMMA OneMore ==
  ASSUME NEW S, IsFiniteSet(S), Cardinality(S) < WorkerLimit, NEW i
  PROVE  IsFiniteSet(S \cup {i}) /\ Cardinality(S \cup {i}) <= WorkerLimit
<1>1. PICK T : T = S \cup {i}
  BY Zenon
<1>2. /\ IsFiniteSet(T)
      /\ Cardinality(T) = IF i \in S THEN Cardinality(S) ELSE Cardinality(S) + 1
  <2>1. FS!IsFiniteSet(S)
    BY SameFinite, Zenon
  <2>2. /\ FS!IsFiniteSet(T)
        /\ FS!Cardinality(T) = IF i \in S THEN FS!Cardinality(S) ELSE FS!Cardinality(S) + 1
    BY <1>1, <2>1, FS!FS_AddElement, Zenon
  <2>. QED  BY <2>2, SameFinite, SameCardinality, Zenon
<1>3. Cardinality(S) \in Nat /\ WorkerLimit \in Nat
  BY CountType, SettingsAssumption, Zenon
<1>4. Cardinality(T) <= WorkerLimit
  BY <1>2, <1>3
<1>. QED  BY <1>1, <1>2, <1>4, Zenon

LEMMA LimitInit == Init => LimitInv
<1>. SUFFICES ASSUME Init PROVE LimitInv
  BY Zenon
<1>1. ASSUME NEW w \in Workers PROVE Claims(w) = {}
  BY InitClaims, Zenon
<1>2. IsFiniteSet({}) /\ Cardinality({}) = 0
  BY FS!FS_EmptySet, SameFinite, SameCardinality, Zenon
<1>3. 0 <= WorkerLimit
  BY SettingsAssumption
<1>. QED  BY <1>1, <1>2, <1>3, Zenon DEF LimitInv

LEMMA ItemsFinite == IsFiniteSet(Items)
<1>1. FS!IsFiniteSet(Targets)
  <2>1. FS!IsFiniteSet(Runs) /\ FS!IsFiniteSet(Builds)
    BY FiniteAssumption, SameFinite, Zenon
  <2>. QED  BY <2>1, FS!FS_Union, Zenon DEF Targets
<1>2. FS!IsFiniteSet(Kinds)
  <2>1. FS!IsFiniteSet({"BUILD"}) /\ FS!IsFiniteSet(RunKinds)
    <3>1. FS!IsFiniteSet({"BUILD"}) /\ FS!IsFiniteSet({"START"})
          /\ FS!IsFiniteSet({"CANCEL"})
      BY FS!FS_Singleton, Zenon
    <3>2. RunKinds = {"START"} \cup {"CANCEL"}
      BY DEF RunKinds
    <3>. QED  BY <3>1, <3>2, FS!FS_Union, Zenon
  <2>2. Kinds = {"BUILD"} \cup RunKinds
    BY DEF Kinds, RunKinds
  <2>. QED  BY <2>1, <2>2, FS!FS_Union, Zenon
<1>3. FS!IsFiniteSet(Targets \X Kinds)
  BY <1>1, <1>2, FS!FS_Product, Zenon
<1>. QED  BY <1>3, SameFinite, Zenon DEF Items

LEMMA LimitNext == ASSUME LimitInv, Counted PROVE LimitInv'
<1>1. ASSUME NEW w \in Workers
      PROVE  IsFiniteSet(Claims(w)') /\ Cardinality(Claims(w)') <= WorkerLimit
  <2>1. PICK A, B : A = Claims(w)' /\ B = Claims(w)
    BY Zenon
  <2>5. \/ A \subseteq B
        \/ \E S \in SUBSET Items, i \in Items :
             A \subseteq S \cup {i} /\ Cardinality(S) < WorkerLimit
    BY <2>1, Zenon DEF Counted
  <2>2. IsFiniteSet(B) /\ Cardinality(B) <= WorkerLimit
    BY <2>1, Zenon DEF LimitInv
  <2>3. CASE A \subseteq B
    BY <2>1, <2>2, <2>3, WithinLimit, Zenon
  <2>4. CASE \E S \in SUBSET Items, i \in Items :
               A \subseteq S \cup {i} /\ Cardinality(S) < WorkerLimit
    <3>1. PICK S \in SUBSET Items, i \in Items :
            A \subseteq S \cup {i} /\ Cardinality(S) < WorkerLimit
      BY <2>4, Zenon
    <3>2. FS!IsFiniteSet(S)
      <4>1. FS!IsFiniteSet(Items)
        BY ItemsFinite, SameFinite, Zenon
      <4>. QED  BY <3>1, <4>1, FS!FS_Subset, Zenon
    <3>3. IsFiniteSet(S)
      BY <3>2, SameFinite, Zenon
    <3>4. IsFiniteSet(S \cup {i}) /\ Cardinality(S \cup {i}) <= WorkerLimit
      BY <3>1, <3>3, OneMore, Zenon
    <3>. QED  BY <2>1, <3>1, <3>4, WithinLimit, Zenon
  <2>. QED  BY <2>1, <2>3, <2>4, <2>5, Zenon
<1>. QED  BY <1>1, Zenon DEF LimitInv

\* claim_work keeps a worker within its max_concurrency, and no renewal of an
\* expired lease takes it beyond.
THEOREM LimitKept == Spec => []WorkerWithinLimit
<1>1. LimitInv => WorkerWithinLimit
  <2>1. SUFFICES ASSUME LimitInv, NEW w \in Workers
                 PROVE  Cardinality(LiveOfWorker(target, w, now)) <= WorkerLimit
    BY Zenon DEF WorkerWithinLimit
  <2>2. PICK S, C : S = LiveOfWorker(target, w, now) /\ C = Claims(w)
    BY Zenon
  <2>3. S \subseteq C /\ IsFiniteSet(C) /\ Cardinality(C) <= WorkerLimit
    BY <2>1, <2>2, Zenon DEF Claims, LimitInv
  <2>. QED  BY <2>2, <2>3, WithinLimit, Zenon
<1>2. IInv /\ LeaseInv /\ LimitInv /\ [Next]_vars => LimitInv'
  BY LeaseNext, LimitNext, Zenon DEF Keeps
<1>. QED  BY <1>1, <1>2, LimitInit, LeaseInvariance, Invariance, PTL DEF Spec
=============================================================================
