---------------------------- MODULE RequestQueue ----------------------------
(***************************************************************************)
(* One request queue of a project: tenants enqueue requests, the worker of *)
(* the sandbox canary claims and completes them                            *)
(* (apps/api/app/services/request_queues.py, worker_request_queue.py).     *)
(*                                                                         *)
(* Every operation holds the lock of the queue row when it decides and     *)
(* writes, so it commits in one step.  Enqueues and claims, however, load  *)
(* the queue object before they lock its row, and the lock does not refresh*)
(* the loaded counters: Begin is that read, and the commit computes the    *)
(* counters from it.  A completion reads the queue under the lock only.    *)
(*                                                                         *)
(* Only the worker named in the settings may use queues, and a worker has  *)
(* one request in flight at a time, so claims and completions are serial.  *)
(***************************************************************************)
EXTENDS Integers, FiniteSets

CONSTANTS
  Requests,      \* the identities (url and unique key) that may be enqueued
  Keys,          \* idempotency keys
  Enqueuers,       \* concurrent enqueue calls
  TheWorker,     \* the claims of the canary worker
  NoRequest,
  ClaimSeconds,  \* worker_lease_seconds
  MaxAttempts,   \* request_queue_requests.max_attempts
  MaxTime        \* bound: the clock stops here

ASSUME QueueAssumption ==
  /\ NoRequest \notin Requests
  /\ TheWorker \notin Enqueuers
  /\ IsFiniteSet(Requests)
  /\ ClaimSeconds \in Nat \ {0} /\ MaxAttempts \in Nat \ {0} /\ MaxTime \in Nat

VARIABLES
  now,      \* the database clock
  row,      \* request_queue_requests
  receipt,  \* request_queue_enqueue_receipts: the request each key created
  count,    \* the counter columns of request_queues
  tx,       \* open enqueues and the open claim
  claims    \* the claim tokens that the worker may come back with, by request

queueVars == <<now, row, receipt, count, tx, claims>>

Actors == Enqueuers \cup {TheWorker}
Ended == {"HANDLED", "FAILED"}
Statuses == {"ABSENT", "PENDING", "CLAIMED"} \cup Ended

\* The claim token is fresh for each claim; the attempt number stands for it.
Row ==
  [status : Statuses, attempts : Nat, createdAt : Nat, expiresAt : Nat]

Counters == [pending : Nat, claimed : Nat, handled : Nat, failed : Nat]

Tx == [open : BOOLEAN, at : Nat, seen : Counters]

Zero == [pending |-> 0, claimed |-> 0, handled |-> 0, failed |-> 0]

NoTx == [open |-> FALSE, at |-> 0, seen |-> Zero]

\* The columns keep their types; for the counters this is the database
\* constraint that none is negative.
QueueTypeOK ==
  /\ now \in Nat
  /\ row \in [Requests -> Row]
  /\ receipt \in [Keys -> Requests \cup {NoRequest}]
  /\ count \in Counters
  /\ tx \in [Actors -> Tx]
  /\ claims \subseteq Requests \X Nat

WithStatus(R, s) == {r \in Requests : R[r].status = s}

-----------------------------------------------------------------------------
QueueInit ==
  /\ now = 0
  /\ row = [r \in Requests |-> [status |-> "ABSENT", attempts |-> 0,
                                createdAt |-> 0, expiresAt |-> 0]]
  /\ receipt = [k \in Keys |-> NoRequest]
  /\ count = Zero
  /\ tx = [a \in Actors |-> NoTx]
  /\ claims = {}

QueueTick ==
  /\ now < MaxTime
  /\ now' = now + 1
  /\ UNCHANGED <<row, receipt, count, tx, claims>>

\* The queue is loaded without a lock: by require_request_queue_permission
\* for an enqueue, at the head of claim_worker_queue_request for a claim.
Begin(a) ==
  /\ ~tx[a].open
  /\ tx' = [tx EXCEPT ![a] = [open |-> TRUE, at |-> now, seen |-> count]]
  /\ UNCHANGED <<now, row, receipt, count, claims>>

\* A replayed enqueue, a refusal, a failed constraint or a lost connection
Finish(a) ==
  /\ tx[a].open
  /\ tx' = [tx EXCEPT ![a] = NoTx]
  /\ UNCHANGED <<now, row, receipt, count, claims>>

\* Neither the key nor the identity was used before; otherwise the call is a
\* replay or refused, and changes nothing.
NewRequest(k, r) == receipt[k] = NoRequest /\ row[r].status = "ABSENT"

\* enqueue_request
Enqueue(c, k, r) ==
  /\ tx[c].open /\ NewRequest(k, r)
  /\ row' = [row EXCEPT ![r] = [status |-> "PENDING", attempts |-> 0,
                                createdAt |-> tx[c].at, expiresAt |-> 0]]
  /\ receipt' = [receipt EXCEPT ![k] = r]
  /\ count' = [count EXCEPT !.pending = tx[c].seen.pending + 1]
  /\ tx' = [tx EXCEPT ![c] = NoTx]
  /\ UNCHANGED <<now, claims>>

-----------------------------------------------------------------------------
(* Claims.  now() is the start of the transaction in every query.          *)

\* reclaim_expired_requests selects these.
ExpiredClaims(at) ==
  {r \in Requests : row[r].status = "CLAIMED" /\ row[r].expiresAt < at}

Exhausted(r) == row[r].attempts >= MaxAttempts

\* reclaim_expired_requests
Reclaimed(at) ==
  [r \in Requests |->
     IF r \in ExpiredClaims(at)
     THEN [row[r] EXCEPT !.status = IF Exhausted(r) THEN "FAILED" ELSE "PENDING",
                         !.expiresAt = 0]
     ELSE row[r]]

\* Mutant: a failed claim is not counted.
ReclaimedCountForgotten(seen, at) ==
  LET gone == ExpiredClaims(at)
      failed == {r \in gone : Exhausted(r)}
  IN  [seen EXCEPT !.claimed = @ - Cardinality(gone),
                   !.pending = @ + Cardinality(gone \ failed)]

\* The counters after reclaim_expired_requests, from the loaded ones
ReclaimedCount(seen, at) ==
  LET gone == ExpiredClaims(at)
      failed == {r \in gone : Exhausted(r)}
  IN  [seen EXCEPT !.claimed = @ - Cardinality(gone),
                   !.failed = @ + Cardinality(failed),
                   !.pending = @ + Cardinality(gone \ failed)]

\* claim_next_request selects the oldest of these.
Available(R, at) ==
  {r \in Requests : R[r].status = "PENDING" /\ R[r].createdAt <= at}

Oldest(R, at) ==
  {r \in Available(R, at) :
     \A s \in Available(R, at) : R[r].createdAt <= R[s].createdAt}

ClaimExpiry(at) == at + ClaimSeconds

\* A column is written only when it was changed from the loaded value.
Write(seen, new, c) ==
  [f \in DOMAIN seen |-> IF new[f] = seen[f] THEN c[f] ELSE new[f]]

\* claim_worker_queue_request that returns a request.  The counters of the
\* reclaim are flushed before the claim changes them again.  The constraint on
\* the counters rolls everything back when a counter would be negative.
ClaimRequest(r) ==
  LET q == tx[TheWorker]
      R == Reclaimed(q.at)
      mid == ReclaimedCount(q.seen, q.at)
      end == [mid EXCEPT !.pending = @ - 1, !.claimed = @ + 1]
      c == Write(mid, end, Write(q.seen, mid, count))
  IN  /\ q.open /\ r \in Oldest(R, q.at)
      /\ mid \in Counters /\ c \in Counters
      /\ row' = [R EXCEPT ![r].status = "CLAIMED", ![r].attempts = @ + 1,
                          ![r].expiresAt = ClaimExpiry(q.at)]
      /\ claims' = claims \cup {<<r, R[r].attempts + 1>>}
      /\ count' = c
      /\ tx' = [tx EXCEPT ![TheWorker] = NoTx]
      /\ UNCHANGED <<now, receipt>>

\* claim_worker_queue_request that finds nothing commits what it reclaimed.
ClaimNothing ==
  LET q == tx[TheWorker]
      R == Reclaimed(q.at)
      mid == ReclaimedCount(q.seen, q.at)
      c == Write(q.seen, mid, count)
  IN  /\ q.open /\ Available(R, q.at) = {}
      /\ c \in Counters
      /\ row' = R
      /\ count' = c
      /\ tx' = [tx EXCEPT ![TheWorker] = NoTx]
      /\ UNCHANGED <<now, receipt, claims>>

\* Mutant: the token is not compared.
AnyClaim(r, token) ==
  /\ row[r].status = "CLAIMED"
  /\ row[r].expiresAt > now

CurrentClaim(r, token) ==
  /\ row[r].status = "CLAIMED" /\ row[r].attempts = token
  /\ row[r].expiresAt > now

\* complete_worker_queue_request.  The worker may come back with any token it was given
\* and not yet used, however late.
CompleteRequest(r, token, status) ==
  /\ ~tx[TheWorker].open
  /\ CurrentClaim(r, token)
  /\ row' = [row EXCEPT ![r].status = status, ![r].expiresAt = 0]
  /\ count' = IF status = "HANDLED"
              THEN [count EXCEPT !.claimed = @ - 1, !.handled = @ + 1]
              ELSE [count EXCEPT !.claimed = @ - 1, !.failed = @ + 1]
  /\ count' \in Counters
  /\ claims' = claims \ {<<r, token>>}
  /\ UNCHANGED <<now, receipt, tx>>

-----------------------------------------------------------------------------
Claim == ClaimNothing \/ \E r \in Requests : ClaimRequest(r)

QueueNext ==
  \/ QueueTick
  \/ \E a \in Actors : Begin(a) \/ Finish(a)
  \/ \E c \in Enqueuers, k \in Keys, r \in Requests : Enqueue(c, k, r)
  \/ Claim
  \/ \E c \in claims, status \in Ended : CompleteRequest(c[1], c[2], status)

QueueSpec == QueueInit /\ [][QueueNext]_queueVars

(***************************************************************************)
(* The worker keeps polling, and its poll commits whenever it can: more    *)
(* than the code promises, so that a claim that is never taken back is not *)
(* explained by an idle worker.                                            *)
(***************************************************************************)
QueueFairness ==
  WF_queueVars(QueueTick) /\ WF_queueVars(Begin(TheWorker)) /\ SF_queueVars(Claim)

FairQueueSpec == QueueSpec /\ QueueFairness

-----------------------------------------------------------------------------
(* Safety.                                                                 *)

\* The counters that only worker requests write agree with the rows, although
\* claims compute them from a queue they loaded without a lock.
WorkerCountersAgree ==
  /\ count.claimed = Cardinality(WithStatus(row, "CLAIMED"))
  /\ count.handled = Cardinality(WithStatus(row, "HANDLED"))
  /\ count.failed = Cardinality(WithStatus(row, "FAILED"))

-----------------------------------------------------------------------------
(* What LeasedWork says.                                                   *)

PhaseOf(x, time) ==
  CASE x.status = "ABSENT" -> "none"
    [] x.status = "PENDING" -> "waiting"
    [] x.status = "CLAIMED" -> IF x.expiresAt > time THEN "held" ELSE "lapsed"
    [] x.status = "HANDLED" -> "done"
    [] x.status = "FAILED" -> "dead"

WorkItem(x, time) == [phase |-> PhaseOf(x, time), round |-> 0, tries |-> x.attempts]

Tokens(C) == {<<c[1], <<0, c[2]>>>> : c \in C}

QueueWork ==
  INSTANCE LeasedWork WITH
    Items <- Requests, MaxTries <- MaxAttempts, Redelivers <- FALSE, Lenient <- FALSE,
    item <- [r \in Requests |-> WorkItem(row[r], now)],
    holding <- Tokens(claims)

\* The queue is leased work: claims and reclaims that read the clock and the queue
\* before they lock it never take a request from a worker whose token is still
\* accepted, never hand it out more than max_attempts times, and never touch one
\* that was handled or failed; and complete_worker_queue_request ends a request only
\* by its latest token and only before that claim has expired.
QueueIsLeasedWork == QueueWork!Spec

-----------------------------------------------------------------------------
(* What docs/phase1p says.                                                 *)

\* docs/phase1p/README.md: "Expired claims are reclaimed or failed after retry
\* exhaustion."
ExpiredClaimsEnd ==
  \A r \in Requests :
    (row[r].status = "CLAIMED" /\ row[r].expiresAt < MaxTime)
      ~> row[r].status # "CLAIMED"
=============================================================================
