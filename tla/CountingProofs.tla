--------------------------- MODULE CountingProofs ---------------------------
(***************************************************************************)
(* Proofs about what is counted: the requests of a queue and the items of  *)
(* a dataset. Both rest on the cardinality of finite sets.                 *)
(***************************************************************************)
EXTENDS RequestQueue, Datasets, FiniteSetTheorems, TLAPS

-----------------------------------------------------------------------------
(***************************************************************************)
(* The request queue implements LeasedWork, for any number of requests,    *)
(* keys and concurrent enqueues, any claim period and any max_attempts.    *)
(*                                                                         *)
(* The inductive invariant adds what the mapping needs to the types: a     *)
(* transaction read the clock in the past, so what it finds expired is     *)
(* expired at its commit; a request that can be claimed has an attempt     *)
(* left, although nothing in claim_next_request compares the two; and the  *)
(* worker still has the token of a request that is claimed.                *)
(*                                                                         *)
(* The counters of the queue that only the worker writes agree with its    *)
(* rows: what the worker's open transaction loaded is still current.       *)
(***************************************************************************)

RowOK(x) ==
  /\ x \in Row
  /\ x.attempts <= MaxAttempts
  /\ x.status = "ABSENT" => x.attempts = 0
  /\ x.status = "PENDING" => x.attempts < MaxAttempts

ClaimsOK ==
  /\ claims \subseteq Requests \X Nat
  /\ \A r \in Requests : row[r].status = "CLAIMED" => <<r, row[r].attempts>> \in claims

QueueInv ==
  /\ now \in Nat
  /\ row \in [Requests -> Row]
  /\ count \in Counters
  /\ tx \in [Actors -> Tx]
  /\ \A r \in Requests : RowOK(row[r])
  /\ \A a \in Actors : tx[a].at <= now
  /\ ClaimsOK

-----------------------------------------------------------------------------
\* What reclaim_expired_requests does to a row
LEMMA ReclaimedRow ==
  ASSUME QueueInv, NEW at \in Nat, NEW r \in Requests
  PROVE  \/ Reclaimed(at)[r] = row[r]
         \/ /\ row[r].status = "CLAIMED" /\ row[r].expiresAt < at
            /\ Reclaimed(at)[r] =
                 [status |-> IF row[r].attempts < MaxAttempts THEN "PENDING" ELSE "FAILED",
                  attempts |-> row[r].attempts, createdAt |-> row[r].createdAt, expiresAt |-> 0]
<1>. row[r] \in Row /\ MaxAttempts \in Nat
  BY QueueAssumption DEF QueueInv
<1>1. CASE r \in ExpiredClaims(at)
  <2>1. CASE Exhausted(r)
    <3>1. Reclaimed(at)[r] = [row[r] EXCEPT !.status = "FAILED", !.expiresAt = 0]
      BY <1>1, <2>1 DEF Reclaimed
    <3>2. ~(row[r].attempts < MaxAttempts)
      BY <2>1 DEF Exhausted, Row
    <3>. QED  BY <1>1, <3>1, <3>2, Zenon DEF ExpiredClaims, Row
  <2>2. CASE ~Exhausted(r)
    <3>1. Reclaimed(at)[r] = [row[r] EXCEPT !.status = "PENDING", !.expiresAt = 0]
      BY <1>1, <2>2 DEF Reclaimed
    <3>2. row[r].attempts < MaxAttempts
      BY <2>2 DEF Exhausted, Row
    <3>. QED  BY <1>1, <3>1, <3>2, Zenon DEF ExpiredClaims, Row
  <2>. QED  BY <2>1, <2>2
<1>2. CASE r \notin ExpiredClaims(at)
  BY <1>2 DEF Reclaimed
<1>. QED  BY <1>1, <1>2

\* It keeps every row well formed.
LEMMA ReclaimedOK ==
  ASSUME QueueInv, NEW at \in Nat
  PROVE  /\ Reclaimed(at) \in [Requests -> Row]
         /\ \A r \in Requests : RowOK(Reclaimed(at)[r])
<1>1. ASSUME NEW r \in Requests  PROVE RowOK(Reclaimed(at)[r])
  <2>1. RowOK(row[r])
    BY DEF QueueInv
  <2>2. CASE Reclaimed(at)[r] = row[r]
    BY <2>1, <2>2
  <2>3. CASE Reclaimed(at)[r] =
               [status |-> IF row[r].attempts < MaxAttempts THEN "PENDING" ELSE "FAILED",
                attempts |-> row[r].attempts, createdAt |-> row[r].createdAt, expiresAt |-> 0]
    BY <2>1, <2>3 DEF RowOK, Row, Statuses, Ended
  <2>. QED  BY <2>2, <2>3, ReclaimedRow
<1>2. Reclaimed(at) = [r \in Requests |-> Reclaimed(at)[r]]
  BY DEF Reclaimed
<1>. QED  BY <1>1, <1>2 DEF RowOK

\* It counts no attempt.
LEMMA ReclaimedAttempts ==
  ASSUME QueueInv, NEW at \in Nat, NEW r \in Requests
  PROVE  Reclaimed(at)[r].attempts = row[r].attempts
<1>. DEFINE new == [status |-> IF row[r].attempts < MaxAttempts THEN "PENDING" ELSE "FAILED",
                    attempts |-> row[r].attempts, createdAt |-> row[r].createdAt, expiresAt |-> 0]
<1>1. new.attempts = row[r].attempts
  OBVIOUS
<1>2. Reclaimed(at)[r] = row[r] \/ Reclaimed(at)[r] = new
  BY ReclaimedRow
<1>. QED  BY <1>1, <1>2

\* The loaded clock of a transaction is a number that is not in the future.
LEMMA LoadedClock ==
  ASSUME QueueInv  PROVE tx[TheWorker].at \in Nat /\ tx[TheWorker].at <= now
BY DEF QueueInv, Tx, Actors

\* The invariant holds of an empty queue.
LEMMA InvInit == QueueInit => QueueInv
BY QueueAssumption DEF QueueInit, QueueInv, RowOK, Row, Counters, Zero, Tx, NoTx, Statuses, Ended, ClaimsOK

\* What is claimed after a reclaim was claimed before.
LEMMA ReclaimedClaims ==
  ASSUME QueueInv, NEW at \in Nat, NEW r \in Requests, Reclaimed(at)[r].status = "CLAIMED"
  PROVE  Reclaimed(at)[r] = row[r]
<1>. DEFINE new == [status |-> IF row[r].attempts < MaxAttempts THEN "PENDING" ELSE "FAILED",
                    attempts |-> row[r].attempts, createdAt |-> row[r].createdAt, expiresAt |-> 0]
<1>1. new.status # "CLAIMED"
  OBVIOUS
<1>2. Reclaimed(at)[r] = row[r] \/ Reclaimed(at)[r] = new
  BY ReclaimedRow
<1>. QED  BY <1>1, <1>2

\* Every operation leaves the worker the token of what is claimed.
LEMMA ClaimsStep ==
  ASSUME QueueInv, [QueueNext]_queueVars  PROVE ClaimsOK'
<1>0. ClaimsOK /\ row \in [Requests -> Row]
  BY DEF QueueInv
<1>1. CASE UNCHANGED <<row, claims>>
  BY <1>0, <1>1 DEF ClaimsOK
<1>2. ASSUME NEW c \in Enqueuers, NEW k \in Keys, NEW r \in Requests, Enqueue(c, k, r)
      PROVE  ClaimsOK'
  <2>1. /\ claims' = claims /\ row'[r].status = "PENDING"
        /\ \A s \in Requests \ {r} : row'[s] = row[s]
    BY <1>0, <1>2 DEF Enqueue
  <2>. QED  BY <1>0, <2>1 DEF ClaimsOK
<1>3. ASSUME NEW r \in Requests, ClaimRequest(r)  PROVE ClaimsOK'
  <2>. DEFINE R == Reclaimed(tx[TheWorker].at)
  <2>1. R \in [Requests -> Row]
    BY LoadedClock, ReclaimedOK
  <2>2. /\ row' = [R EXCEPT ![r].status = "CLAIMED", ![r].attempts = @ + 1,
                            ![r].expiresAt = ClaimExpiry(tx[TheWorker].at)]
        /\ claims' = claims \cup {<<r, R[r].attempts + 1>>}
    BY <1>3, Zenon DEF ClaimRequest
  <2>3. \A s \in Requests : R[s].status = "CLAIMED" => R[s] = row[s]
    BY LoadedClock, ReclaimedClaims
  <2>. HIDE DEF R
  <2>4. row'[r].attempts = R[r].attempts + 1 /\ R[r].attempts \in Nat
    BY <2>1, <2>2 DEF Row
  <2>5. \A s \in Requests \ {r} : row'[s] = R[s]
    BY <2>1, <2>2
  <2>6. claims' \subseteq Requests \X Nat
    <3>1. R[r].attempts + 1 \in Nat
      BY <2>4
    <3>. QED  BY <1>0, <2>2, <3>1 DEF ClaimsOK
  <2>7. ASSUME NEW s \in Requests, row'[s].status = "CLAIMED"
        PROVE  <<s, row'[s].attempts>> \in claims'
    <3>1. CASE s = r
      BY <2>2, <2>4, <3>1
    <3>2. CASE s # r
      <4>1. row'[s] = row[s] /\ row[s].status = "CLAIMED"
        BY <2>3, <2>5, <2>7, <3>2
      <4>2. <<s, row[s].attempts>> \in claims
        BY <1>0, <4>1 DEF ClaimsOK
      <4>. QED  BY <2>2, <4>1, <4>2
    <3>. QED  BY <3>1, <3>2
  <2>. QED  BY <2>6, <2>7 DEF ClaimsOK
<1>4. CASE ClaimNothing
  <2>1. row' = Reclaimed(tx[TheWorker].at) /\ claims' = claims
    BY <1>4 DEF ClaimNothing
  <2>2. \A s \in Requests : row'[s].status = "CLAIMED" => row'[s] = row[s]
    BY <2>1, LoadedClock, ReclaimedClaims
  <2>. QED  BY <1>0, <2>1, <2>2 DEF ClaimsOK
<1>5. ASSUME NEW c \in claims, NEW status \in Ended, CompleteRequest(c[1], c[2], status)
      PROVE  ClaimsOK'
  <2>1. PICK r, token : r = c[1] /\ token = c[2]
    OBVIOUS
  <2>2. r \in Requests
    BY <1>0, <2>1 DEF ClaimsOK
  <2>3. /\ row' = [row EXCEPT ![r].status = status, ![r].expiresAt = 0]
        /\ claims' = claims \ {<<r, token>>}
    BY <1>5, <2>1 DEF CompleteRequest
  <2>4. row'[r].status # "CLAIMED" /\ \A s \in Requests \ {r} : row'[s] = row[s]
    BY <1>0, <2>2, <2>3 DEF Row, Ended
  <2>5. ASSUME NEW s \in Requests \ {r}, <<s, row[s].attempts>> \in claims
        PROVE  <<s, row[s].attempts>> \in claims'
    BY <2>3, <2>5
  <2>. QED  BY <1>0, <2>3, <2>4, <2>5 DEF ClaimsOK
<1>. QED  BY <1>1, <1>2, <1>3, <1>4, <1>5
          DEF QueueNext, Claim, queueVars, QueueTick, Begin, Finish

\* Every operation on the queue keeps the invariant.
LEMMA InvStep ==
  ASSUME QueueInv, [QueueNext]_queueVars  PROVE QueueInv'
<1>c. ClaimsOK'
  BY ClaimsStep
<1>. USE QueueAssumption, <1>c
<1>t. NoTx \in Tx /\ NoTx.at = 0
  BY DEF NoTx, Tx, Zero, Counters
<1>1. CASE QueueTick
  BY <1>1 DEF QueueTick, QueueInv, Tx
<1>2. ASSUME NEW a \in Actors, Begin(a)  PROVE QueueInv'
  <2>1. [open |-> TRUE, at |-> now, seen |-> count] \in Tx
    BY DEF QueueInv, Tx
  <2>. QED  BY <1>2, <2>1 DEF Begin, QueueInv, Tx
<1>3. ASSUME NEW a \in Actors, Finish(a)  PROVE QueueInv'
  BY <1>3, <1>t DEF Finish, QueueInv, Tx
<1>4. ASSUME NEW c \in Enqueuers, NEW k \in Keys, NEW r \in Requests, Enqueue(c, k, r)
      PROVE  QueueInv'
  <2>1. c \in Actors /\ tx[c].at \in Nat /\ tx[c].seen.pending \in Nat
    BY DEF Actors, QueueInv, Tx, Counters
  <2>2. RowOK([status |-> "PENDING", attempts |-> 0, createdAt |-> tx[c].at, expiresAt |-> 0])
    BY <2>1 DEF RowOK, Row, Statuses
  <2>3. count' \in Counters
    BY <1>4, <2>1 DEF Enqueue, QueueInv, Counters
  <2>. QED  BY <1>4, <1>t, <2>1, <2>2, <2>3 DEF Enqueue, QueueInv, RowOK
<1>5. ASSUME NEW r \in Requests, ClaimRequest(r)  PROVE QueueInv'
  <2>. DEFINE R == Reclaimed(tx[TheWorker].at)
  <2>1. /\ R \in [Requests -> Row] /\ \A s \in Requests : RowOK(R[s])
        /\ ClaimExpiry(tx[TheWorker].at) \in Nat
    BY LoadedClock, ReclaimedOK DEF ClaimExpiry
  <2>2. /\ R[r].status = "PENDING"
        /\ row' = [R EXCEPT ![r].status = "CLAIMED", ![r].attempts = @ + 1,
                            ![r].expiresAt = ClaimExpiry(tx[TheWorker].at)]
        /\ count' \in Counters
        /\ tx' = [tx EXCEPT ![TheWorker] = NoTx] /\ now' = now
    BY <1>5, Zenon DEF ClaimRequest, Oldest, Available
  <2>. HIDE DEF R
  <2>3. RowOK(row'[r])
    BY <2>1, <2>2 DEF RowOK, Row, Statuses
  <2>4. \A s \in Requests : s # r => row'[s] = R[s]
    BY <2>1, <2>2
  <2>5. row' \in [Requests -> Row] /\ \A s \in Requests : RowOK(row'[s])
    BY <2>1, <2>2, <2>3, <2>4 DEF RowOK
  <2>. QED  BY <2>2, <2>5, <1>t DEF QueueInv, Actors
<1>6. CASE ClaimNothing
  <2>1. /\ row' = Reclaimed(tx[TheWorker].at) /\ count' \in Counters
        /\ tx' = [tx EXCEPT ![TheWorker] = NoTx] /\ now' = now
    BY <1>6 DEF ClaimNothing
  <2>. QED  BY <2>1, <1>t, LoadedClock, ReclaimedOK DEF QueueInv, Actors
<1>7. ASSUME NEW c \in claims, NEW status \in Ended, CompleteRequest(c[1], c[2], status)
      PROVE  QueueInv'
  <2>0. PICK r : r = c[1] /\ r \in Requests
    BY DEF QueueInv, ClaimsOK
  <2>1. /\ row' = [row EXCEPT ![r].status = status, ![r].expiresAt = 0]
        /\ count' \in Counters /\ tx' = tx /\ now' = now
    BY <1>7, <2>0 DEF CompleteRequest
  <2>2. RowOK([row[r] EXCEPT !.status = status, !.expiresAt = 0])
    BY <2>0, Zenon DEF QueueInv, RowOK, Row, Statuses, Ended
  <2>. QED  BY <2>0, <2>1, <2>2 DEF QueueInv, RowOK
<1>8. CASE UNCHANGED queueVars
  BY <1>8 DEF queueVars, QueueInv
<1>. QED  BY <1>1, <1>2, <1>3, <1>4, <1>5, <1>6, <1>7, <1>8 DEF QueueNext, Claim

-----------------------------------------------------------------------------
(* The mapping.                                                            *)

\* The tokens that the worker has
LEMMA TokenOf ==
  ASSUME NEW C \in SUBSET (Requests \X Nat), NEW r, NEW n
  PROVE  <<r, <<0, n>>>> \in Tokens(C) <=> <<r, n>> \in C
<1>1. ASSUME NEW c \in C, <<r, <<0, n>>>> = <<c[1], <<0, c[2]>>>>  PROVE <<r, n>> \in C
  <2>1. c = <<c[1], c[2]>> /\ r = c[1] /\ n = c[2]
    BY <1>1
  <2>. QED  BY <2>1
<1>2. ASSUME <<r, n>> \in C  PROVE <<r, <<0, n>>>> \in Tokens(C)
  <2>1. <<r, n>>[1] = r /\ <<r, n>>[2] = n
    OBVIOUS
  <2>. QED  BY <1>2, <2>1, Zenon DEF Tokens
<1>. QED  BY <1>1, <1>2 DEF Tokens

WorkPhase == {"none", "waiting", "held", "lapsed", "done", "dead"}

RequestItem(phase, tries) == [phase |-> phase, round |-> 0, tries |-> tries]

\* The work item of a row
LEMMA ItemOf ==
  ASSUME NEW x, NEW time  PROVE WorkItem(x, time) = RequestItem(PhaseOf(x, time), x.attempts)
BY DEF WorkItem, RequestItem

\* The phase of a row, by its status
LEMMA Phases ==
  ASSUME NEW x, NEW time
  PROVE  /\ x.status = "ABSENT" => PhaseOf(x, time) = "none"
         /\ x.status = "PENDING" => PhaseOf(x, time) = "waiting"
         /\ x.status = "CLAIMED" => PhaseOf(x, time) = IF x.expiresAt > time THEN "held" ELSE "lapsed"
         /\ x.status = "HANDLED" => PhaseOf(x, time) = "done"
         /\ x.status = "FAILED" => PhaseOf(x, time) = "dead"
BY DEF PhaseOf

\* A lapsed item without an attempt left dies; another waits again.
LEMMA ReturnedItem ==
  ASSUME NEW tries \in Nat, NEW phase \in WorkPhase,
         phase = IF tries < MaxAttempts THEN "waiting" ELSE "dead"
  PROVE  QueueWork!Returned(RequestItem("lapsed", tries), RequestItem(phase, tries))
BY DEF QueueWork!Returned, RequestItem

\* A waiting or lapsed item with an attempt left can be handed out.
LEMMA LeasedItem ==
  ASSUME NEW phase \in {"waiting", "lapsed"}, NEW tries \in Nat, tries < MaxAttempts,
         NEW new \in {"held", "lapsed"}
  PROVE  QueueWork!Leased(RequestItem(phase, tries), RequestItem(new, tries + 1))
<1>1. RequestItem(phase, tries).phase = phase /\ RequestItem(phase, tries).tries = tries
  BY DEF RequestItem
<1>2. ASSUME NEW x \in [phase : WorkPhase, round : Nat, tries : Nat], x.round = 0, x.tries = tries,
             NEW y, y = [x EXCEPT !.phase = new, !.tries = @ + 1]
      PROVE  y = RequestItem(new, tries + 1)
  BY <1>2, Zenon DEF RequestItem, WorkPhase
<1>3. RequestItem(phase, tries) \in [phase : WorkPhase, round : Nat, tries : Nat] /\ RequestItem(phase, tries).round = 0
  BY DEF RequestItem, WorkPhase
<1>. QED  BY <1>1, <1>2, <1>3, Zenon DEF QueueWork!Leased

\* A reclaim is a poll: it takes lapsed leases back and leases nothing.
LEMMA ReclaimReturns ==
  ASSUME QueueInv, NEW at \in Nat, at <= now, NEW r \in Requests
  PROVE  LET x == WorkItem(row[r], now)
             y == WorkItem(Reclaimed(at)[r], now)
         IN  y = x \/ QueueWork!Returned(x, y)
<1>. row[r] \in Row /\ now \in Nat
  BY DEF QueueInv
<1>1. CASE Reclaimed(at)[r] = row[r]
  BY <1>1
<1>2. CASE /\ row[r].status = "CLAIMED" /\ row[r].expiresAt < at
           /\ Reclaimed(at)[r] =
                [status |-> IF row[r].attempts < MaxAttempts THEN "PENDING" ELSE "FAILED",
                 attempts |-> row[r].attempts, createdAt |-> row[r].createdAt, expiresAt |-> 0]
  <2>. DEFINE phase == IF row[r].attempts < MaxAttempts THEN "waiting" ELSE "dead"
  <2>1. ~(row[r].expiresAt > now) /\ row[r].attempts \in Nat
    BY <1>2 DEF Row
  <2>2. WorkItem(row[r], now) = RequestItem("lapsed", row[r].attempts)
    BY <1>2, <2>1, Phases, ItemOf
  <2>3. /\ PhaseOf(Reclaimed(at)[r], now) = phase
        /\ Reclaimed(at)[r].attempts = row[r].attempts
    <3>. DEFINE x == Reclaimed(at)[r]
    <3>1. x.attempts = row[r].attempts /\ x.status = IF row[r].attempts < MaxAttempts THEN "PENDING" ELSE "FAILED"
      BY <1>2
    <3>. HIDE DEF x
    <3>. QED  BY <3>1, Phases DEF x
  <2>4. WorkItem(Reclaimed(at)[r], now) = RequestItem(phase, row[r].attempts)
    BY <2>3, ItemOf
  <2>. HIDE DEF phase
  <2>5. phase \in WorkPhase /\ phase = IF row[r].attempts < MaxAttempts THEN "waiting" ELSE "dead"
    BY DEF phase, WorkPhase
  <2>. QED  BY <2>1, <2>2, <2>4, <2>5, ReturnedItem
<1>. QED  BY <1>1, <1>2, ReclaimedRow

\* Time passes: leases lapse.
LEMMA TickLapses ==
  ASSUME QueueInv, QueueTick  PROVE QueueWork!Lapse
<1>1. ASSUME NEW r \in Requests
      PROVE  LET x == WorkItem(row[r], now)
                 y == WorkItem(row'[r], now')
             IN  y = x \/ (x.phase = "held" /\ y = [x EXCEPT !.phase = "lapsed"])
  <2>. row' = row /\ now' = now + 1 /\ now \in Nat /\ row[r] \in Row
    BY DEF QueueTick, QueueInv
  <2>1. CASE row[r].status = "CLAIMED" /\ row[r].expiresAt = now + 1
    <3>1. PhaseOf(row[r], now) = "held" /\ PhaseOf(row[r], now + 1) = "lapsed"
      BY <2>1, Phases DEF Row
    <3>2. RequestItem("held", row[r].attempts).phase = "held"
      BY DEF RequestItem
    <3>3. [RequestItem("held", row[r].attempts) EXCEPT !.phase = "lapsed"] = RequestItem("lapsed", row[r].attempts)
      BY DEF RequestItem
    <3>. QED  BY <3>1, <3>2, <3>3, ItemOf
  <2>2. CASE row[r].status # "CLAIMED"
    BY <2>2, Phases, ItemOf DEF Row, Statuses, Ended
  <2>3. CASE row[r].status = "CLAIMED" /\ row[r].expiresAt # now + 1
    <3>1. row[r].expiresAt > now <=> row[r].expiresAt > now + 1
      BY <2>3 DEF Row
    <3>2. PhaseOf(row[r], now) = PhaseOf(row[r], now + 1)
      BY <2>3, <3>1, Phases
    <3>. QED  BY <3>2, ItemOf
  <2>. QED  BY <2>1, <2>2, <2>3
<1>2. Tokens(claims') = Tokens(claims)
  BY DEF QueueTick
<1>. QED  BY <1>1, <1>2 DEF QueueWork!Lapse

\* enqueue_request offers an item.
LEMMA EnqueueOffers ==
  ASSUME QueueInv, NEW c, NEW k, NEW r \in Requests, Enqueue(c, k, r)
  PROVE  QueueWork!Offer(r)
<1>. DEFINE new == [status |-> "PENDING", attempts |-> 0, createdAt |-> tx[c].at, expiresAt |-> 0]
<1>1. /\ row[r].status = "ABSENT" /\ row[r].attempts = 0
      /\ row' = [row EXCEPT ![r] = new] /\ now' = now /\ row \in [Requests -> Row]
  BY DEF Enqueue, NewRequest, QueueInv, RowOK
<1>2. WorkItem(row[r], now) = RequestItem("none", 0) /\ WorkItem(new, now) = RequestItem("waiting", 0)
  <2>1. new.status = "PENDING" /\ new.attempts = 0
    OBVIOUS
  <2>. HIDE DEF new
  <2>. QED  BY <1>1, <2>1, Phases, ItemOf
<1>3. RequestItem("none", 0).phase = "none" /\ [RequestItem("none", 0) EXCEPT !.phase = "waiting"] = RequestItem("waiting", 0)
  BY DEF RequestItem
<1>. HIDE DEF new
<1>6. Tokens(claims') = Tokens(claims)
  BY DEF Enqueue
<1>7. [s \in Requests |-> WorkItem(row'[s], now')] =
        [[s \in Requests |-> WorkItem(row[s], now)] EXCEPT ![r] = RequestItem("waiting", 0)]
  BY <1>1, <1>2, Zenon
<1>. QED  BY <1>2, <1>3, <1>6, <1>7, Zenon DEF QueueWork!Offer, QueueWork!Change

\* complete_worker_queue_request settles the item under its current token.
LEMMA CompleteSettles ==
  ASSUME QueueInv, NEW r \in Requests, NEW token, NEW status \in Ended,
         CompleteRequest(r, token, status)
  PROVE  QueueWork!Settle(r)
<1>. DEFINE n == row[r].attempts
            phase == IF status = "HANDLED" THEN "done" ELSE "dead"
<1>1. /\ row[r].status = "CLAIMED" /\ row[r].attempts = token /\ row[r].expiresAt > now
      /\ row' = [row EXCEPT ![r].status = status, ![r].expiresAt = 0] /\ now' = now
      /\ row \in [Requests -> Row] /\ n \in Nat
      /\ claims \in SUBSET (Requests \X Nat) /\ claims' = claims \ {<<r, n>>} /\ <<r, n>> \in claims
  BY DEF CompleteRequest, CurrentClaim, QueueInv, ClaimsOK, Row
<1>2. row'[r].status = status /\ \A s \in Requests : row'[s].attempts = row[s].attempts /\ (s # r => row'[s] = row[s])
  BY <1>1 DEF Row
<1>3. WorkItem(row[r], now) = RequestItem("held", n) /\ WorkItem(row'[r], now) = RequestItem(phase, n)
  BY <1>1, <1>2, Phases, ItemOf, ZenonT(30) DEF Ended
<1>4. /\ Tokens(claims) \ {<<r, <<0, n>>>>} \subseteq Tokens(claims')
      /\ Tokens(claims') \subseteq Tokens(claims)
  BY <1>1 DEF Tokens
<1>5. <<r, <<0, n>>>> \in Tokens(claims)
  BY <1>1, TokenOf
<1>. HIDE DEF n, phase
<1>6. RequestItem("held", n).phase = "held" /\ RequestItem("held", n).round = 0 /\ RequestItem("held", n).tries = n
  BY DEF RequestItem
<1>7. phase \in {"done", "dead"} /\ [RequestItem("held", n) EXCEPT !.phase = phase] = RequestItem(phase, n)
  BY DEF RequestItem, phase
<1>8. [s \in Requests |-> WorkItem(row'[s], now')] =
        [[s \in Requests |-> WorkItem(row[s], now)] EXCEPT ![r] = RequestItem(phase, n)]
  BY <1>1, <1>2, <1>3, Zenon
<1>9. QueueWork!Token(WorkItem(row[r], now)) = <<0, n>>
  BY <1>3, <1>6 DEF QueueWork!Token
<1>. QED  BY <1>3, <1>4, <1>5, <1>6, <1>7, <1>8, <1>9, Zenon DEF QueueWork!Settle, QueueWork!Change

\* Leasing counts a try.
LEMMA LeasedCounts ==
  ASSUME NEW p \in WorkPhase, NEW n \in Nat, NEW y, QueueWork!Leased(RequestItem(p, n), y)
  PROVE  y.tries = n + 1
<1>1. PICK q \in {"held", "lapsed"} : y = [RequestItem(p, n) EXCEPT !.phase = q, !.tries = @ + 1]
  BY Zenon DEF QueueWork!Leased
<1>2. RequestItem(p, n) \in [phase : WorkPhase, round : Nat, tries : Nat] /\ RequestItem(p, n).tries = n
  BY DEF RequestItem, WorkPhase
<1>3. ASSUME NEW x \in [phase : WorkPhase, round : Nat, tries : Nat],
             y = [x EXCEPT !.phase = q, !.tries = @ + 1]
      PROVE  y.tries = x.tries + 1
  BY <1>3 DEF WorkPhase
<1>. QED  BY <1>1, <1>2, <1>3, Zenon

\* Every row has a phase.
LEMMA RowPhase ==
  ASSUME NEW x \in Row, NEW time  PROVE PhaseOf(x, time) \in WorkPhase
BY Phases DEF Row, Statuses, Ended, WorkPhase

\* Nothing is handed out by a step that counts no attempt.
LEMMA NotLeased ==
  ASSUME NEW x \in Row, NEW y \in Row, NEW time, x.attempts = y.attempts
  PROVE  ~QueueWork!Leased(WorkItem(x, time), WorkItem(y, time))
<1>1. x.attempts \in Nat
  BY DEF Row
<1>2. RequestItem(PhaseOf(y, time), y.attempts).tries = y.attempts
  BY DEF RequestItem
<1>3. WorkItem(x, time) = RequestItem(PhaseOf(x, time), x.attempts) /\ WorkItem(y, time) = RequestItem(PhaseOf(y, time), y.attempts)
  BY ItemOf
<1>. SUFFICES ASSUME QueueWork!Leased(WorkItem(x, time), WorkItem(y, time)) PROVE FALSE
  OBVIOUS
<1>4. WorkItem(y, time).tries = x.attempts + 1
  BY <1>1, <1>3, RowPhase, LeasedCounts
<1>. QED  BY <1>1, <1>2, <1>3, <1>4

\* A poll that finds nothing only takes leases back.
LEMMA ClaimNothingPolls ==
  ASSUME QueueInv, ClaimNothing  PROVE QueueWork!Poll
<1>. DEFINE at == tx[TheWorker].at
<1>1. row' = Reclaimed(at) /\ now' = now /\ at \in Nat /\ at <= now
  BY LoadedClock DEF ClaimNothing
<1>. HIDE DEF at
<1>2. \A r \in Requests : row[r] \in Row /\ row'[r] \in Row /\ row'[r].attempts = row[r].attempts
  <2>. TAKE r \in Requests
  <2>1. row[r] \in Row /\ row'[r] \in Row
    BY <1>1, ReclaimedOK DEF QueueInv, RowOK
  <2>2. row'[r].attempts = row[r].attempts
    BY <1>1, ReclaimedAttempts
  <2>. QED  BY <2>1, <2>2
<1>3. Tokens(claims') = Tokens(claims)
  BY DEF ClaimNothing
<1>4. \A r \in Requests : ~QueueWork!Leased(WorkItem(row[r], now), WorkItem(row'[r], now'))
  BY <1>1, <1>2, NotLeased
<1>5. \A r \in Requests : LET x == WorkItem(row[r], now)
                              y == WorkItem(row'[r], now')
                          IN  y = x \/ QueueWork!Returned(x, y)
  BY <1>1, ReclaimReturns
<1>. QED  BY <1>3, <1>4, <1>5, Zenon DEF QueueWork!Poll

\* A poll that finds a request also leases it.
LEMMA ClaimRequestPolls ==
  ASSUME QueueInv, NEW r \in Requests, ClaimRequest(r)  PROVE QueueWork!Poll
<1>. DEFINE at == tx[TheWorker].at
            R == Reclaimed(at)
            n == row[r].attempts
<1>1. /\ at \in Nat /\ at <= now /\ now \in Nat /\ now' = now
      /\ R[r].status = "PENDING"
      /\ row' = [R EXCEPT ![r].status = "CLAIMED", ![r].attempts = @ + 1, ![r].expiresAt = ClaimExpiry(at)]
      /\ ClaimExpiry(at) \in Nat
  BY LoadedClock, QueueAssumption DEF ClaimRequest, Oldest, Available, QueueInv, ClaimExpiry
<1>2. /\ R \in [Requests -> Row] /\ row \in [Requests -> Row]
      /\ RowOK(row[r]) /\ n \in Nat
  BY <1>1, ReclaimedOK, ZenonT(30) DEF QueueInv, RowOK, Row
<1>3. \A s \in Requests : R[s].attempts = row[s].attempts
  BY <1>1, ReclaimedAttempts
<1>4. WorkItem(row[r], now) \in {RequestItem("waiting", n), RequestItem("lapsed", n)} /\ n < MaxAttempts
  <2>1. CASE R[r] = row[r]
    BY <1>1, <1>2, <2>1, Phases, ItemOf DEF RowOK
  <2>2. CASE /\ row[r].status = "CLAIMED" /\ row[r].expiresAt < at
             /\ R[r] = [status |-> IF row[r].attempts < MaxAttempts THEN "PENDING" ELSE "FAILED",
                        attempts |-> row[r].attempts, createdAt |-> row[r].createdAt, expiresAt |-> 0]
    <3>1. n < MaxAttempts /\ ~(row[r].expiresAt > now)
      BY <1>1, <1>2, <2>2 DEF Row
    <3>. QED  BY <2>2, <3>1, Phases, ItemOf
  <2>. QED  BY <1>1, <2>1, <2>2, ReclaimedRow
<1>. HIDE DEF at, R
<1>5. /\ row'[r].status = "CLAIMED" /\ row'[r].attempts = n + 1
      /\ \A s \in Requests \ {r} : row'[s] = R[s]
  BY <1>1, <1>2, <1>3 DEF Row
<1>6. PICK new \in {"held", "lapsed"} : WorkItem(row'[r], now') = RequestItem(new, n + 1)
  BY <1>5, Phases, ItemOf
<1>7. QueueWork!Leased(WorkItem(row[r], now), WorkItem(row'[r], now'))
  BY <1>2, <1>4, <1>6, LeasedItem
<1>8. ASSUME NEW s \in Requests, s # r
      PROVE  LET x == WorkItem(row[s], now)
                 y == WorkItem(row'[s], now')
             IN  (y = x \/ QueueWork!Returned(x, y)) /\ ~QueueWork!Leased(x, y)
  <2>1. row'[s] = R[s] /\ R[s].attempts = row[s].attempts /\ R[s] \in Row /\ row[s] \in Row
    BY <1>2, <1>3, <1>5, <1>8
  <2>. QED  BY <1>1, <2>1, ReclaimReturns, NotLeased DEF R
<1>9. RequestItem(new, n + 1).round = 0 /\ RequestItem(new, n + 1).tries = n + 1
  BY DEF RequestItem
<1>10. QueueWork!Token(WorkItem(row'[r], now')) = <<0, n + 1>>
  BY <1>6, <1>9 DEF QueueWork!Token
<1>11. Tokens(claims') = Tokens(claims) \cup {<<r, <<0, n + 1>>>>}
  <2>1. claims' = claims \cup {<<r, n + 1>>}
    BY <1>3 DEF ClaimRequest, R, at
  <2>2. <<r, n + 1>>[1] = r /\ <<r, n + 1>>[2] = n + 1
    OBVIOUS
  <2>. QED  BY <2>1, <2>2, Zenon DEF Tokens
<1>. HIDE DEF n
<1>12. {<<i, QueueWork!Token(WorkItem(row'[i], now'))>> :
          i \in {j \in Requests : QueueWork!Leased(WorkItem(row[j], now), WorkItem(row'[j], now'))}} =
         {<<r, <<0, n + 1>>>>}
  BY <1>7, <1>8, <1>10
<1>. QED  BY <1>7, <1>8, <1>11, <1>12, Zenon DEF QueueWork!Poll

\* An empty queue is work that was not offered yet.
LEMMA InitMaps == QueueInit => QueueWork!Init
<1>. SUFFICES ASSUME QueueInit  PROVE QueueWork!Init
  OBVIOUS
<1>1. \A r \in Requests : row[r].status = "ABSENT" /\ row[r].attempts = 0
  BY DEF QueueInit
<1>2. \A r \in Requests : WorkItem(row[r], now) = [phase |-> "none", round |-> 0, tries |-> 0]
  BY <1>1, Phases DEF WorkItem
<1>3. Tokens(claims) = {}
  BY DEF QueueInit, Tokens
<1>. QED  BY <1>2, <1>3 DEF QueueWork!Init

\* Every step of the queue is a step of LeasedWork, or changes nothing in it.
LEMMA StepMaps ==
  ASSUME QueueInv, [QueueNext]_queueVars  PROVE [QueueWork!Next]_(QueueWork!workVars)
<1>1. CASE UNCHANGED <<row, now, claims>>
  BY <1>1 DEF QueueWork!workVars
<1>2. CASE QueueTick
  BY <1>2, TickLapses DEF QueueWork!Next
<1>3. ASSUME NEW a \in Actors, Begin(a) \/ Finish(a)  PROVE UNCHANGED <<row, now, claims>>
  BY <1>3 DEF Begin, Finish
<1>4. ASSUME NEW c \in Enqueuers, NEW k \in Keys, NEW r \in Requests, Enqueue(c, k, r)
      PROVE  QueueWork!Next
  BY <1>4, EnqueueOffers DEF QueueWork!Next
<1>5. ASSUME NEW r \in Requests, ClaimRequest(r)  PROVE QueueWork!Next
  BY <1>5, ClaimRequestPolls DEF QueueWork!Next
<1>6. CASE ClaimNothing
  BY <1>6, ClaimNothingPolls DEF QueueWork!Next
<1>7. ASSUME NEW c \in claims, NEW status \in Ended, CompleteRequest(c[1], c[2], status)
      PROVE  QueueWork!Next
  <2>1. c[1] \in Requests
    BY DEF QueueInv, ClaimsOK
  <2>. QED  BY <1>7, <2>1, CompleteSettles DEF QueueWork!Next
<1>. QED  BY <1>1, <1>2, <1>3, <1>4, <1>5, <1>6, <1>7 DEF QueueNext, Claim, queueVars

-----------------------------------------------------------------------------
\* In every reachable state the rows are well formed and no open transaction has
\* read the clock in the future.
THEOREM QueueInvariance == QueueSpec => []QueueInv
BY InvInit, InvStep, PTL DEF QueueSpec

\* The request queue implements LeasedWork: reclaim_expired_requests takes back only
\* claims that no completion would accept any more, claim_next_request hands a
\* request out at most max_attempts times, and complete_worker_queue_request ends it
\* under its current token only.
THEOREM QueueImplementsLeasedWork == QueueSpec => QueueIsLeasedWork
<1>1. QueueInit => QueueWork!Init
  BY InitMaps
<1>2. QueueInv /\ [QueueNext]_queueVars => [QueueWork!Next]_(QueueWork!workVars)
  BY StepMaps
<1>. QED  BY <1>1, <1>2, QueueInvariance, PTL DEF QueueSpec, QueueIsLeasedWork, QueueWork!Spec

-----------------------------------------------------------------------------
(* The counters.                                                           *)

\* Nothing but a worker request writes these, and worker requests are serial.
CountInv ==
  /\ QueueInv
  /\ WorkerCountersAgree
  /\ tx[TheWorker].open =>
       LET seen == tx[TheWorker].seen
       IN  seen.claimed = count.claimed /\ seen.handled = count.handled /\ seen.failed = count.failed

Counts(p, c, h, f) == [pending |-> p, claimed |-> c, handled |-> h, failed |-> f]

\* The counters as a record of four numbers
LEMMA CountFields ==
  ASSUME NEW p, NEW c, NEW h, NEW f
  PROVE  /\ Counts(p, c, h, f).pending = p /\ Counts(p, c, h, f).claimed = c
         /\ Counts(p, c, h, f).handled = h /\ Counts(p, c, h, f).failed = f
BY DEF Counts

\* What is written over counters that differ from the loaded ones in pending only
LEMMA Written ==
  ASSUME NEW p, NEW c, NEW h, NEW f, NEW p2, NEW c2, NEW h2, NEW f2, NEW p3, NEW c3, NEW h3, NEW f3
  PROVE  LET w == Write(Counts(p, c, h, f), Counts(p2, c2, h2, f2), Counts(p3, c3, h3, f3))
         IN  w = Counts(IF p2 = p THEN p3 ELSE p2, IF c2 = c THEN c3 ELSE c2,
                        IF h2 = h THEN h3 ELSE h2, IF f2 = f THEN f3 ELSE f2)
<1>. DEFINE w == Write(Counts(p, c, h, f), Counts(p2, c2, h2, f2), Counts(p3, c3, h3, f3))
<1>1. DOMAIN Counts(p, c, h, f) = {"pending", "claimed", "handled", "failed"}
  BY DEF Counts
<1>2. w = [k \in {"pending", "claimed", "handled", "failed"} |->
             IF Counts(p2, c2, h2, f2)[k] = Counts(p, c, h, f)[k] THEN Counts(p3, c3, h3, f3)[k]
             ELSE Counts(p2, c2, h2, f2)[k]]
  BY <1>1 DEF Write
<1>. QED  BY <1>2 DEF Counts

\* The expired claims that reclaim_expired_requests fails
Spent(at) == {r \in ExpiredClaims(at) : Exhausted(r)}

\* The counters after a reclaim
LEMMA ReclaimedCounts ==
  ASSUME NEW p, NEW c, NEW h, NEW f, NEW at
  PROVE  ReclaimedCount(Counts(p, c, h, f), at) =
           Counts(p + Cardinality(ExpiredClaims(at) \ Spent(at)), c - Cardinality(ExpiredClaims(at)), h,
                  f + Cardinality(Spent(at)))
<1>. DEFINE gone == ExpiredClaims(at)
            failed == Spent(at)
<1>. DEFINE x == Counts(p, c, h, f)
            i == x.claimed - Cardinality(gone)
            j == x.failed + Cardinality(failed)
            k == x.pending + Cardinality(gone \ failed)
<1>1. ReclaimedCount(x, at) = [x EXCEPT !.claimed = i, !.failed = j, !.pending = k]
  BY DEF ReclaimedCount, Spent
<1>2. i = c - Cardinality(gone) /\ j = f + Cardinality(failed) /\ k = p + Cardinality(gone \ failed)
  BY CountFields
<1>3. x = [pending |-> p, claimed |-> c, handled |-> h, failed |-> f]
  BY DEF Counts
<1>. HIDE DEF gone, failed, x, i, j, k
<1>4. [x EXCEPT !.claimed = i, !.failed = j, !.pending = k] = Counts(k, i, h, j)
  <2>1. ASSUME NEW y, y = [x EXCEPT !.claimed = i, !.failed = j, !.pending = k]
        PROVE  y = [pending |-> k, claimed |-> i, handled |-> h, failed |-> j]
    BY <1>3, <2>1, Zenon
  <2>. QED  BY <2>1 DEF Counts
<1>5. ReclaimedCount(x, at) = Counts(p + Cardinality(gone \ failed), c - Cardinality(gone), h, f + Cardinality(failed))
  BY <1>1, <1>2, <1>4
<1>. QED  BY <1>5 DEF gone, failed, x

\* The requests with a status are finitely many.
LEMMA FiniteStatus ==
  ASSUME NEW R, NEW s
  PROVE  IsFiniteSet(WithStatus(R, s)) /\ Cardinality(WithStatus(R, s)) \in Nat
<1>1. WithStatus(R, s) \in SUBSET Requests
  BY DEF WithStatus
<1>2. IsFiniteSet(WithStatus(R, s))
  BY <1>1, FS_Subset, QueueAssumption
<1>. QED  BY <1>2, FS_CardinalityType

Moves(R, S, r, s) ==
  /\ R[r].status # s /\ S[r].status = s
  /\ \A q \in Requests : q # r => S[q].status = R[q].status

\* One request enters a status and leaves the one it had.
LEMMA OneMoves ==
  ASSUME NEW R, NEW S, NEW r \in Requests, NEW s, Moves(R, S, r, s)
  PROVE  /\ Cardinality(WithStatus(S, s)) = Cardinality(WithStatus(R, s)) + 1
         /\ \A t : t # s /\ R[r].status = t =>
              Cardinality(WithStatus(S, t)) = Cardinality(WithStatus(R, t)) - 1
         /\ \A t : t # s /\ R[r].status # t => WithStatus(S, t) = WithStatus(R, t)
<1>. USE DEF Moves
<1>1. WithStatus(S, s) = WithStatus(R, s) \cup {r} /\ r \notin WithStatus(R, s)
  BY DEF WithStatus
<1>2. Cardinality(WithStatus(R, s) \cup {r}) = Cardinality(WithStatus(R, s)) + 1
  <2>. DEFINE W == WithStatus(R, s)
  <2>1. IsFiniteSet(W) /\ r \notin W
    BY <1>1, FiniteStatus
  <2>. HIDE DEF W
  <2>2. Cardinality(W \cup {r}) = IF r \in W THEN Cardinality(W) ELSE Cardinality(W) + 1
    BY <2>1, FS_AddElement, Zenon
  <2>. QED  BY <2>1, <2>2 DEF W
<1>3. ASSUME NEW t, t # s, R[r].status = t
      PROVE  Cardinality(WithStatus(S, t)) = Cardinality(WithStatus(R, t)) - 1
  <2>1. WithStatus(S, t) = WithStatus(R, t) \ {r} /\ r \in WithStatus(R, t)
    BY <1>3 DEF WithStatus
  <2>. DEFINE W == WithStatus(R, t)
  <2>2. IsFiniteSet(W) /\ r \in W
    BY <2>1, FiniteStatus
  <2>. HIDE DEF W
  <2>3. Cardinality(W \ {r}) = IF r \in W THEN Cardinality(W) - 1 ELSE Cardinality(W)
    BY <2>2, FS_RemoveElement, Zenon
  <2>. QED  BY <2>1, <2>2, <2>3 DEF W
<1>4. ASSUME NEW t, t # s, R[r].status # t
      PROVE  WithStatus(S, t) = WithStatus(R, t)
  BY <1>4 DEF WithStatus
<1>. QED  BY <1>1, <1>2, <1>3, <1>4

\* What a reclaim does to the requests of each status
LEMMA ReclaimedSets ==
  ASSUME QueueInv, NEW at \in Nat
  PROVE  LET gone == ExpiredClaims(at)
             failed == Spent(at)
             R == Reclaimed(at)
         IN  /\ Cardinality(gone) \in Nat /\ Cardinality(failed) \in Nat
             /\ Cardinality(gone \ failed) \in Nat
             /\ Cardinality(WithStatus(R, "CLAIMED")) =
                  Cardinality(WithStatus(row, "CLAIMED")) - Cardinality(gone)
             /\ Cardinality(WithStatus(R, "FAILED")) =
                  Cardinality(WithStatus(row, "FAILED")) + Cardinality(failed)
             /\ WithStatus(R, "HANDLED") = WithStatus(row, "HANDLED")
<1>. DEFINE gone == ExpiredClaims(at)
            failed == {r \in gone : Exhausted(r)}
            R == Reclaimed(at)
            C == WithStatus(row, "CLAIMED")
            F == WithStatus(row, "FAILED")
<1>1. \A r \in Requests : r \in gone => R[r].status = IF Exhausted(r) THEN "FAILED" ELSE "PENDING"
  <2>. SUFFICES ASSUME NEW r \in Requests, r \in gone
                PROVE  R[r].status = IF Exhausted(r) THEN "FAILED" ELSE "PENDING"
    OBVIOUS
  <2>1. R[r] = [row[r] EXCEPT !.status = IF Exhausted(r) THEN "FAILED" ELSE "PENDING", !.expiresAt = 0]
    BY DEF Reclaimed
  <2>2. row[r] \in Row
    BY DEF QueueInv
  <2>. QED  BY <2>1, <2>2 DEF Row
<1>2. \A r \in Requests : r \notin gone => R[r].status = row[r].status
  BY DEF Reclaimed
<1>3. \A r \in gone : r \in Requests /\ row[r].status = "CLAIMED"
  BY DEF ExpiredClaims
<1>4. IsFiniteSet(C) /\ IsFiniteSet(F)
  BY FiniteStatus
<1>5. gone \in SUBSET C /\ failed \in SUBSET C /\ gone \ failed \in SUBSET C
  BY <1>3 DEF WithStatus
<1>6. IsFiniteSet(gone) /\ IsFiniteSet(failed) /\ IsFiniteSet(gone \ failed)
  BY <1>4, <1>5, FS_Subset
<1>7. Cardinality(gone) \in Nat /\ Cardinality(failed) \in Nat /\ Cardinality(gone \ failed) \in Nat
      /\ Cardinality(C) \in Nat /\ Cardinality(F) \in Nat
  BY <1>4, <1>6, FS_CardinalityType
<1>8. WithStatus(R, "CLAIMED") = C \ gone
  BY <1>1, <1>2, <1>3 DEF WithStatus
<1>9. WithStatus(R, "FAILED") = F \cup failed
  BY <1>1, <1>2, <1>3 DEF WithStatus
<1>10. WithStatus(R, "HANDLED") = WithStatus(row, "HANDLED")
  BY <1>1, <1>2, <1>3 DEF WithStatus
<1>11. C \cap gone = gone /\ F \cap failed = {}
  BY <1>3 DEF WithStatus
<1>. HIDE DEF gone, failed, R, C, F
<1>12. Cardinality(C \ gone) = Cardinality(C) - Cardinality(gone)
  <2>1. Cardinality(C \ gone) = Cardinality(C) - Cardinality(C \cap gone)
    BY <1>4, FS_Difference, Zenon
  <2>. QED  BY <1>11, <2>1
<1>13. Cardinality(F \cup failed) = Cardinality(F) + Cardinality(failed) - Cardinality(F \cap failed)
  BY <1>4, <1>6, FS_Union
<1>14. Cardinality(F \cup failed) = Cardinality(F) + Cardinality(failed)
  <2>1. Cardinality(F \cap failed) = 0
    BY <1>11, FS_EmptySet
  <2>. QED  BY <1>7, <1>13, <2>1
<1>15. /\ Cardinality(WithStatus(R, "CLAIMED")) = Cardinality(C) - Cardinality(gone)
       /\ Cardinality(WithStatus(R, "FAILED")) = Cardinality(F) + Cardinality(failed)
  BY <1>8, <1>9, <1>12, <1>14, Zenon
<1>. QED  BY <1>7, <1>10, <1>15, Zenon DEF gone, failed, R, C, F, Spent

\* The counters of the database have four fields that are numbers.
LEMMA CountersAre ==
  ASSUME NEW x \in Counters
  PROVE  \E p, c, h, f \in Nat : x = Counts(p, c, h, f)
<1>1. x = Counts(x.pending, x.claimed, x.handled, x.failed)
  BY DEF Counters, Counts
<1>2. x.pending \in Nat /\ x.claimed \in Nat /\ x.handled \in Nat /\ x.failed \in Nat
  BY DEF Counters
<1>. QED  BY <1>1, <1>2

\* What a claim writes agrees with the rows it writes.
LEMMA ClaimCounts ==
  ASSUME CountInv, tx[TheWorker].open
  PROVE  LET q == tx[TheWorker]
             R == Reclaimed(q.at)
             mid == ReclaimedCount(q.seen, q.at)
             end == [mid EXCEPT !.pending = @ - 1, !.claimed = @ + 1]
             w == Write(q.seen, mid, count)
             v == Write(mid, end, w)
         IN  /\ w.claimed = Cardinality(WithStatus(R, "CLAIMED"))
             /\ w.handled = Cardinality(WithStatus(R, "HANDLED"))
             /\ w.failed = Cardinality(WithStatus(R, "FAILED"))
             /\ v.claimed = Cardinality(WithStatus(R, "CLAIMED")) + 1
             /\ v.handled = Cardinality(WithStatus(R, "HANDLED"))
             /\ v.failed = Cardinality(WithStatus(R, "FAILED"))
<1>. DEFINE q == tx[TheWorker]
            at == q.at
            R == Reclaimed(at)
            mid == ReclaimedCount(q.seen, at)
            end == [mid EXCEPT !.pending = @ - 1, !.claimed = @ + 1]
            w == Write(q.seen, mid, count)
            v == Write(mid, end, w)
            gone == ExpiredClaims(at)
            failed == Spent(at)
            C == Cardinality(WithStatus(R, "CLAIMED"))
            H == Cardinality(WithStatus(R, "HANDLED"))
            F == Cardinality(WithStatus(R, "FAILED"))
<1>1. q \in Tx /\ at \in Nat /\ q.seen \in Counters /\ count \in Counters
  BY DEF CountInv, QueueInv, Actors, Tx
<1>2. PICK p, c, h, f \in Nat : q.seen = Counts(p, c, h, f)
  BY <1>1, CountersAre
<1>3. PICK p3, c3, h3, f3 \in Nat : count = Counts(p3, c3, h3, f3)
  BY <1>1, CountersAre
<1>4. c3 = c /\ h3 = h /\ f3 = f
  <2>1. q.seen.claimed = count.claimed /\ q.seen.handled = count.handled /\ q.seen.failed = count.failed
    BY DEF CountInv
  <2>. QED  BY <1>2, <1>3, <2>1, CountFields
<1>5. c = Cardinality(WithStatus(row, "CLAIMED")) /\ h = Cardinality(WithStatus(row, "HANDLED"))
      /\ f = Cardinality(WithStatus(row, "FAILED"))
  BY <1>3, <1>4, CountFields DEF CountInv, WorkerCountersAgree
<1>6. /\ Cardinality(gone) \in Nat /\ Cardinality(failed) \in Nat
      /\ Cardinality(gone \ failed) \in Nat
      /\ C = c - Cardinality(gone) /\ F = f + Cardinality(failed) /\ H = h
  <2>1. QueueInv
    BY DEF CountInv
  <2>2. /\ Cardinality(gone) \in Nat /\ Cardinality(failed) \in Nat
        /\ Cardinality(gone \ failed) \in Nat
        /\ C = Cardinality(WithStatus(row, "CLAIMED")) - Cardinality(gone)
        /\ F = Cardinality(WithStatus(row, "FAILED")) + Cardinality(failed)
        /\ WithStatus(R, "HANDLED") = WithStatus(row, "HANDLED")
    BY <1>1, <2>1, ReclaimedSets, Zenon
  <2>. QED  BY <1>5, <2>2, Zenon
<1>7. mid = Counts(p + Cardinality(gone \ failed), c - Cardinality(gone), h, f + Cardinality(failed))
  <2>1. ReclaimedCount(Counts(p, c, h, f), at) =
          Counts(p + Cardinality(gone \ failed), c - Cardinality(gone), h, f + Cardinality(failed))
    BY ReclaimedCounts
  <2>. QED  BY <1>2, <2>1, Zenon
<1>. DEFINE p2 == p + Cardinality(gone \ failed)
            p4 == IF p2 = p THEN p3 ELSE p2
<1>8. mid = Counts(p2, C, h, F)
  BY <1>6, <1>7
<1>9. p2 \in Nat /\ C \in Int /\ F \in Nat
  BY <1>6
<1>. HIDE DEF q, at, R, mid, end, w, v, gone, failed, C, H, F, p2, p4
<1>10. end = Counts(p2 - 1, C + 1, h, F)
  <2>1. ASSUME NEW x, x = [pending |-> p2, claimed |-> C, handled |-> h, failed |-> F],
               NEW y, y = [x EXCEPT !.pending = x.pending - 1, !.claimed = x.claimed + 1]
        PROVE  y = [pending |-> p2 - 1, claimed |-> C + 1, handled |-> h, failed |-> F]
    <3>1. x.pending = p2 /\ x.claimed = C
      BY <2>1
    <3>. QED  BY <2>1, <3>1, Zenon
  <2>2. end = [mid EXCEPT !.pending = mid.pending - 1, !.claimed = mid.claimed + 1]
    BY DEF end
  <2>3. mid = [pending |-> p2, claimed |-> C, handled |-> h, failed |-> F]
    BY <1>8 DEF Counts
  <2>4. end = [pending |-> p2 - 1, claimed |-> C + 1, handled |-> h, failed |-> F]
    BY <2>1, <2>2, <2>3, Zenon
  <2>. QED  BY <2>4 DEF Counts
<1>11. w = Counts(p4, C, h, F)
  <2>1. w = Counts(IF p2 = p THEN p3 ELSE p2, IF C = c THEN c ELSE C, IF h = h THEN h ELSE h,
                   IF F = f THEN f ELSE F)
    BY <1>2, <1>3, <1>4, <1>8, Written DEF w
  <2>. QED  BY <2>1 DEF p4
<1>12. v = Counts(IF p2 - 1 = p2 THEN p4 ELSE p2 - 1, C + 1, h, F)
  <2>1. v = Counts(IF p2 - 1 = p2 THEN p4 ELSE p2 - 1, IF C + 1 = C THEN C ELSE C + 1,
                   IF h = h THEN h ELSE h, IF F = F THEN F ELSE F)
    BY <1>8, <1>10, <1>11, Written DEF v
  <2>2. C + 1 # C
    BY <1>9
  <2>. QED  BY <2>1, <2>2
<1>13. /\ w.claimed = C /\ w.handled = H /\ w.failed = F
       /\ v.claimed = C + 1 /\ v.handled = H /\ v.failed = F
  BY <1>6, <1>11, <1>12, CountFields
<1>. QED  BY <1>13, Zenon DEF q, at, R, mid, end, w, v, C, H, F

\* The worker's transaction after it ended: nothing is loaded.
LEMMA WorkerEnds ==
  ASSUME QueueInv, tx' = [tx EXCEPT ![TheWorker] = NoTx]
  PROVE  ~tx'[TheWorker].open
<1>1. tx'[TheWorker] = NoTx
  BY DEF QueueInv, Actors
<1>. QED  BY <1>1 DEF NoTx

\* Every step keeps the counters of the worker in agreement with the rows.
LEMMA CountStep ==
  ASSUME CountInv, QueueInv', [QueueNext]_queueVars
  PROVE  CountInv'
<1>. USE DEF CountInv
<1>. DEFINE Same == /\ WithStatus(row, "CLAIMED")' = WithStatus(row, "CLAIMED")
                    /\ WithStatus(row, "HANDLED")' = WithStatus(row, "HANDLED")
                    /\ WithStatus(row, "FAILED")' = WithStatus(row, "FAILED")
            Kept == /\ count'.claimed = count.claimed /\ count'.handled = count.handled
                    /\ count'.failed = count.failed
            Loaded == tx[TheWorker].open =>
                        /\ tx[TheWorker].seen.claimed = count.claimed
                        /\ tx[TheWorker].seen.handled = count.handled
                        /\ tx[TheWorker].seen.failed = count.failed
<1>0. Same /\ Kept => WorkerCountersAgree'
  BY DEF WorkerCountersAgree
<1>1. CASE QueueTick \/ UNCHANGED queueVars
  <2>1. row' = row /\ count' = count /\ tx' = tx
    BY <1>1 DEF QueueTick, queueVars
  <2>. QED  BY <2>1 DEF WorkerCountersAgree, WithStatus
<1>2. ASSUME NEW a \in Actors, Begin(a) \/ Finish(a)
      PROVE  CountInv'
  <2>1. row' = row /\ count' = count
    BY <1>2 DEF Begin, Finish
  <2>2. WorkerCountersAgree'
    BY <2>1 DEF WorkerCountersAgree, WithStatus
  <2>3. Loaded'
    <3>1. TheWorker \in Actors /\ tx \in [Actors -> Tx]
      BY DEF QueueInv, Actors
    <3>2. CASE a # TheWorker
      <4>1. tx'[TheWorker] = tx[TheWorker]
        BY <1>2, <3>1, <3>2 DEF Begin, Finish
      <4>. QED  BY <2>1, <4>1
    <3>3. CASE a = TheWorker /\ Begin(a)
      <4>1. tx'[TheWorker] = [open |-> TRUE, at |-> now, seen |-> count]
        BY <3>1, <3>3 DEF Begin
      <4>. QED  BY <2>1, <4>1
    <3>4. CASE a = TheWorker /\ Finish(a)
      BY <3>4, WorkerEnds DEF Finish
    <3>. QED  BY <1>2, <3>2, <3>3, <3>4
  <2>. QED  BY <2>2, <2>3
<1>3. ASSUME NEW c \in Enqueuers, NEW k \in Keys, NEW r \in Requests, Enqueue(c, k, r)
      PROVE  CountInv'
  <2>1. row' = [row EXCEPT ![r] = [status |-> "PENDING", attempts |-> 0,
                                   createdAt |-> tx[c].at, expiresAt |-> 0]]
        /\ row[r].status = "ABSENT" /\ row \in [Requests -> Row]
    BY <1>3 DEF Enqueue, NewRequest, QueueInv
  <2>2. row'[r].status = "PENDING" /\ \A q \in Requests : q # r => row'[q].status = row[q].status
    BY <2>1
  <2>3. Same
    BY <2>1, <2>2 DEF WithStatus
  <2>4. Kept
    <3>1. count \in Counters /\ count' = [count EXCEPT !.pending = tx[c].seen.pending + 1]
      BY <1>3 DEF Enqueue, QueueInv
    <3>. QED  BY <3>1 DEF Counters
  <2>5. tx'[TheWorker] = tx[TheWorker]
    <3>1. c # TheWorker /\ TheWorker \in Actors /\ tx \in [Actors -> Tx]
      BY QueueAssumption DEF QueueInv, Actors
    <3>. QED  BY <1>3, <3>1 DEF Enqueue
  <2>. QED  BY <1>0, <2>3, <2>4, <2>5
<1>4. CASE ClaimNothing
  <2>. DEFINE q == tx[TheWorker]
              w == Write(q.seen, ReclaimedCount(q.seen, q.at), count)
  <2>1. q.open /\ row' = Reclaimed(q.at) /\ count' = w /\ tx' = [tx EXCEPT ![TheWorker] = NoTx]
    BY <1>4 DEF ClaimNothing
  <2>2. /\ w.claimed = Cardinality(WithStatus(Reclaimed(q.at), "CLAIMED"))
        /\ w.handled = Cardinality(WithStatus(Reclaimed(q.at), "HANDLED"))
        /\ w.failed = Cardinality(WithStatus(Reclaimed(q.at), "FAILED"))
    BY <2>1, ClaimCounts, Zenon
  <2>3. WorkerCountersAgree'
    BY <2>1, <2>2 DEF WorkerCountersAgree, WithStatus
  <2>4. ~tx'[TheWorker].open
    BY <2>1, WorkerEnds
  <2>. QED  BY <2>3, <2>4, Zenon
<1>5. ASSUME NEW r \in Requests, ClaimRequest(r)
      PROVE  CountInv'
  <2>. DEFINE q == tx[TheWorker]
              R == Reclaimed(q.at)
              mid == ReclaimedCount(q.seen, q.at)
              v == Write(mid, [mid EXCEPT !.pending = @ - 1, !.claimed = @ + 1],
                         Write(q.seen, mid, count))
  <2>1. /\ q.open /\ count' = v /\ tx' = [tx EXCEPT ![TheWorker] = NoTx]
        /\ r \in Oldest(R, q.at)
        /\ row' = [R EXCEPT ![r].status = "CLAIMED", ![r].attempts = @ + 1,
                            ![r].expiresAt = ClaimExpiry(q.at)]
    BY <1>5, Zenon DEF ClaimRequest
  <2>2. R \in [Requests -> Row] /\ R[r].status = "PENDING"
    <3>1. q.at \in Nat
      BY DEF QueueInv, Actors, Tx
    <3>. QED  BY <2>1, <3>1, ReclaimedOK, Zenon DEF Oldest, Available
  <2>3. row'[r].status = "CLAIMED" /\ \A s \in Requests : s # r => row'[s].status = R[s].status
    <3>. HIDE DEF R
    <3>. QED  BY <2>1, <2>2 DEF Row
  <2>4. /\ Cardinality(WithStatus(row', "CLAIMED")) = Cardinality(WithStatus(R, "CLAIMED")) + 1
        /\ WithStatus(row', "HANDLED") = WithStatus(R, "HANDLED")
        /\ WithStatus(row', "FAILED") = WithStatus(R, "FAILED")
    <3>. HIDE DEF R
    <3>1. Moves(R, row', r, "CLAIMED")
      BY <2>2, <2>3 DEF Moves
    <3>2. R[r].status # "HANDLED" /\ R[r].status # "FAILED"
      BY <2>2
    <3>. QED  BY <3>1, <3>2, OneMoves
  <2>5. /\ v.claimed = Cardinality(WithStatus(R, "CLAIMED")) + 1
        /\ v.handled = Cardinality(WithStatus(R, "HANDLED"))
        /\ v.failed = Cardinality(WithStatus(R, "FAILED"))
    BY <2>1, ClaimCounts, Zenon
  <2>6. WorkerCountersAgree'
    <3>. HIDE DEF R, v
    <3>1. /\ WithStatus(row, "CLAIMED")' = WithStatus(row', "CLAIMED")
          /\ WithStatus(row, "HANDLED")' = WithStatus(row', "HANDLED")
          /\ WithStatus(row, "FAILED")' = WithStatus(row', "FAILED")
      BY DEF WithStatus
    <3>. QED  BY <2>1, <2>4, <2>5, <3>1 DEF WorkerCountersAgree
  <2>7. ~tx'[TheWorker].open
    BY <2>1, WorkerEnds
  <2>. QED  BY <2>6, <2>7, Zenon
<1>6. ASSUME NEW r \in Requests, NEW token, NEW status \in Ended, CompleteRequest(r, token, status)
      PROVE  CountInv'
  <2>1. /\ row' = [row EXCEPT ![r].status = status, ![r].expiresAt = 0]
        /\ row[r].status = "CLAIMED" /\ row \in [Requests -> Row]
        /\ ~tx[TheWorker].open /\ tx' = tx
        /\ count' = IF status = "HANDLED"
                    THEN [count EXCEPT !.claimed = @ - 1, !.handled = @ + 1]
                    ELSE [count EXCEPT !.claimed = @ - 1, !.failed = @ + 1]
    BY <1>6 DEF CompleteRequest, CurrentClaim, QueueInv
  <2>2. row'[r].status = status /\ \A q \in Requests : q # r => row'[q].status = row[q].status
    BY <2>1 DEF Row
  <2>3. /\ Cardinality(WithStatus(row', status)) = Cardinality(WithStatus(row, status)) + 1
        /\ Cardinality(WithStatus(row', "CLAIMED")) = Cardinality(WithStatus(row, "CLAIMED")) - 1
        /\ \A t : t # status /\ t # "CLAIMED" => WithStatus(row', t) = WithStatus(row, t)
    <3>1. Moves(row, row', r, status) /\ status # "CLAIMED"
      BY <2>1, <2>2 DEF Moves, Ended
    <3>2. row[r].status = "CLAIMED"
      BY <2>1
    <3>3. Cardinality(WithStatus(row', status)) = Cardinality(WithStatus(row, status)) + 1
      BY <3>1, OneMoves
    <3>4. Cardinality(WithStatus(row', "CLAIMED")) = Cardinality(WithStatus(row, "CLAIMED")) - 1
      BY <3>1, <3>2, OneMoves
    <3>5. ASSUME NEW t, t # status, t # "CLAIMED"
          PROVE  WithStatus(row', t) = WithStatus(row, t)
      BY <3>1, <3>2, <3>5, OneMoves
    <3>. QED  BY <3>3, <3>4, <3>5
  <2>4. PICK p, c, h, f \in Nat : count = Counts(p, c, h, f)
    <3>1. count \in Counters
      BY DEF QueueInv
    <3>. QED  BY <3>1, CountersAre
  <2>5. c = Cardinality(WithStatus(row, "CLAIMED")) /\ h = Cardinality(WithStatus(row, "HANDLED"))
        /\ f = Cardinality(WithStatus(row, "FAILED"))
    BY <2>4, CountFields DEF WorkerCountersAgree
  <2>6. /\ WithStatus(row, "CLAIMED")' = WithStatus(row', "CLAIMED")
        /\ WithStatus(row, "HANDLED")' = WithStatus(row', "HANDLED")
        /\ WithStatus(row, "FAILED")' = WithStatus(row', "FAILED")
    BY DEF WithStatus
  <2>7. CASE status = "HANDLED"
    <3>1. count'.claimed = c - 1 /\ count'.handled = h + 1 /\ count'.failed = f
      BY <2>1, <2>4, <2>7 DEF Counts
    <3>2. /\ Cardinality(WithStatus(row', "HANDLED")) = h + 1
          /\ Cardinality(WithStatus(row', "CLAIMED")) = c - 1
          /\ Cardinality(WithStatus(row', "FAILED")) = f
      BY <2>3, <2>5, <2>7
    <3>. QED  BY <2>1, <2>6, <3>1, <3>2 DEF WorkerCountersAgree
  <2>8. CASE status = "FAILED"
    <3>1. count'.claimed = c - 1 /\ count'.handled = h /\ count'.failed = f + 1
      BY <2>1, <2>4, <2>8 DEF Counts
    <3>2. /\ Cardinality(WithStatus(row', "HANDLED")) = h
          /\ Cardinality(WithStatus(row', "CLAIMED")) = c - 1
          /\ Cardinality(WithStatus(row', "FAILED")) = f + 1
      BY <2>3, <2>5, <2>8
    <3>. QED  BY <2>1, <2>6, <3>1, <3>2 DEF WorkerCountersAgree
  <2>. QED  BY <2>7, <2>8 DEF Ended
<1>7. \A c \in claims : c[1] \in Requests
  BY DEF QueueInv, ClaimsOK
<1>. QED  BY <1>1, <1>2, <1>3, <1>4, <1>5, <1>6, <1>7 DEF QueueNext, Claim

\* Claims compute the counters from a queue that they loaded before they locked
\* it, and complete_worker_queue_request from the locked one: the claimed, handled
\* and failed counters of request_queues are always those of the rows.
THEOREM CountersAgree == QueueSpec => []WorkerCountersAgree
<1>1. QueueInit => CountInv
  <2>. SUFFICES ASSUME QueueInit  PROVE CountInv
    OBVIOUS
  <2>1. QueueInv
    BY InvInit
  <2>2. WithStatus(row, "CLAIMED") = {} /\ WithStatus(row, "HANDLED") = {} /\ WithStatus(row, "FAILED") = {}
    BY DEF QueueInit, WithStatus
  <2>3. WorkerCountersAgree
    BY <2>2, FS_EmptySet DEF QueueInit, Zero, WorkerCountersAgree
  <2>4. ~tx[TheWorker].open
    BY DEF QueueInit, NoTx, Actors
  <2>. QED  BY <2>1, <2>3, <2>4 DEF CountInv
<1>2. CountInv /\ [QueueNext]_queueVars => CountInv'
  <2>1. CountInv => QueueInv
    BY DEF CountInv
  <2>. QED  BY <2>1, InvStep, CountStep
<1>3. CountInv => WorkerCountersAgree
  BY DEF CountInv
<1>. QED  BY <1>1, <1>2, <1>3, PTL DEF QueueSpec

-----------------------------------------------------------------------------
(***************************************************************************)
(* A dataset stores a batch once and exports are whole, for any number of  *)
(* appends, exports, keys and batches and any quota.                       *)
(*                                                                         *)
(* An append that was overtaken computes its sequence numbers from the row *)
(* as it was, so the first of them is taken and the unique index refuses   *)
(* it.  The invariant states what that argument uses: the numbers in use   *)
(* are 1 .. next - 1, each used once, and no open request has loaded a row *)
(* from the future.                                                        *)
(***************************************************************************)

Sequences(S) == {i.sequence : i \in S}

\* A row that was read at some time up to now
DatasetRowOK(r) ==
  /\ r.next \in Nat \ {0} /\ r.next <= dataset.next
  /\ r.count = r.next - 1

ExportOK(x) ==
  /\ x = [pc |-> x.pc, row |-> x.row, rows |-> x.rows]
  /\ DatasetRowOK(x.row)
  /\ x.pc \in {"loaded", "done", "changed"}
  /\ x.pc = "done" => Sequences(x.rows) = 1..(x.row.next - 1)

DatasetInv ==
  /\ dataset = [exists |-> dataset.exists, count |-> dataset.count,
                bytes |-> dataset.bytes, next |-> dataset.next]
  /\ dataset.next \in Nat \ {0} /\ dataset.count = dataset.next - 1
  /\ items \subseteq Item
  /\ Sequences(items) = 1..(dataset.next - 1)
  /\ \A i, j \in items : i.sequence = j.sequence => i = j
  /\ appendReceipt = [i \in AppendKeys |-> appendReceipt[i]]
  /\ appending = [t \in Appenders |-> appending[t]]
  /\ exporting = [e \in Exporters |-> exporting[e]]
  /\ BatchStoredOnce
  /\ \A t \in Appenders :
       appending[t] # Free => appending[t].q \in Batches /\ DatasetRowOK(appending[t].row)
  /\ \A e \in Exporters : exporting[e] # Free => ExportOK(exporting[e])

-----------------------------------------------------------------------------
\* What an append writes when the unique index admits it
LEMMA StoreOK ==
  ASSUME DatasetInv, NEW q \in Batches, NEW r, r.next \in Nat \ {0}, r.next <= dataset.next,
         r.count = r.next - 1, Store(q, r)
  PROVE  /\ r.next = dataset.next /\ dataset'.next = dataset.next + q.count
         /\ q.count \in Nat \ {0}
         /\ dataset' = [exists |-> dataset'.exists, count |-> dataset'.count,
                        bytes |-> dataset'.bytes, next |-> dataset'.next]
         /\ dataset'.count = dataset'.next - 1
         /\ items' \subseteq Item
         /\ Sequences(items') = 1..(dataset'.next - 1)
         /\ \A i, j \in items' : i.sequence = j.sequence => i = j
         /\ appendReceipt' = [i \in AppendKeys |-> appendReceipt'[i]]
         /\ BatchStoredOnce'
<1>. DEFINE new == NewItems(q, r.next)
<1>1. q.count \in Nat \ {0} /\ q.idem \in AppendKeys
  BY DatasetAssumption DEF Batch
<1>2. /\ dataset' = [exists |-> TRUE, count |-> r.count + q.count, bytes |-> r.bytes + q.bytes, next |-> r.next + q.count]
      /\ items' = items \cup new
      /\ SequencesFree(new) /\ appendReceipt[q.idem] = NoAppend
      /\ appendReceipt' = [appendReceipt EXCEPT ![q.idem] = [first |-> r.next, request |-> q]]
  BY SMTT(30) DEF Store
<1>3. new \subseteq Item /\ \A j \in new : j.idem = q.idem /\ j.sequence \in r.next..(r.next + q.count - 1)
  BY <1>1 DEF NewItems, Item
<1>4. \A n \in r.next..(r.next + q.count - 1) : \E j \in new : j.sequence = n
  <2>1. \A n \in r.next..(r.next + q.count - 1) :
          [sequence |-> n, idem |-> q.idem] \in new /\ [sequence |-> n, idem |-> q.idem].sequence = n
    BY DEF NewItems
  <2>. QED  BY <2>1, Zenon
<1>5. r.next = dataset.next
  <2>1. SUFFICES ASSUME r.next < dataset.next  PROVE FALSE
    BY DEF DatasetInv
  <2>2. r.next \in Sequences(items)
    BY <2>1 DEF DatasetInv
  <2>3. PICK i \in items : i.sequence = r.next
    BY <2>2 DEF Sequences
  <2>4. PICK j \in new : j.sequence = r.next
    BY <1>1, <1>4
  <2>. QED  BY <1>2, <2>3, <2>4 DEF SequencesFree
<1>6. dataset'.next = dataset.next + q.count /\ dataset'.count = dataset'.next - 1
  BY <1>1, <1>2, <1>5 DEF DatasetInv
<1>7. Sequences(items') = 1..(dataset'.next - 1)
  <2>1. \A n \in Sequences(items') : n \in 1..(dataset'.next - 1)
    BY <1>1, <1>2, <1>3, <1>5, <1>6 DEF Sequences, DatasetInv
  <2>2. ASSUME NEW n \in 1..(dataset'.next - 1)  PROVE n \in Sequences(items')
    <3>1. CASE n \in 1..(dataset.next - 1)
      BY <1>2, <3>1 DEF Sequences, DatasetInv
    <3>2. CASE n \in r.next..(r.next + q.count - 1)
      BY <1>2, <1>4, <3>2 DEF Sequences
    <3>. QED  BY <1>1, <1>5, <1>6, <2>2, <3>1, <3>2 DEF DatasetInv
  <2>. QED  BY <2>1, <2>2, ZenonT(30)
<1>8. \A i, j \in items' : i.sequence = j.sequence => i = j
  <2>1. \A i, j \in new : i.sequence = j.sequence => i = j
    BY DEF NewItems
  <2>. QED  BY <1>2, <2>1 DEF DatasetInv, SequencesFree
<1>9. appendReceipt' = [i \in AppendKeys |-> appendReceipt'[i]]
  BY <1>2, SMTT(30) DEF DatasetInv
<1>10. BatchStoredOnce'
  <2>1. SUFFICES ASSUME NEW i \in AppendKeys
        PROVE  {j.sequence : j \in {x \in items' : x.idem = i}} =
                 IF appendReceipt'[i] = NoAppend THEN {}
                 ELSE appendReceipt'[i].first .. (appendReceipt'[i].first + appendReceipt'[i].request.count - 1)
    BY DEF BatchStoredOnce
  <2>2. CASE i # q.idem
    <3>1. {x \in items' : x.idem = i} = {x \in items : x.idem = i}
      BY <1>2, <1>3, <2>2
    <3>2. appendReceipt'[i] = appendReceipt[i]
      BY <1>2, <2>2 DEF DatasetInv
    <3>. QED  BY <3>1, <3>2, Zenon DEF DatasetInv, BatchStoredOnce
  <2>3. CASE i = q.idem
    <3>1. {j.sequence : j \in {x \in items : x.idem = i}} = {}
      BY <1>1, <1>2, <2>3, Zenon DEF DatasetInv, BatchStoredOnce
    <3>2. {x \in items' : x.idem = i} = new
      BY <1>2, <1>3, <2>3, <3>1, ZenonT(30)
    <3>3. {j.sequence : j \in new} = r.next..(r.next + q.count - 1)
      BY <1>3, <1>4
    <3>4. appendReceipt'[i] = [first |-> r.next, request |-> q]
      BY <1>1, <1>2, <2>3 DEF DatasetInv
    <3>5. appendReceipt'[i].first = r.next /\ appendReceipt'[i].request = q /\ appendReceipt'[i] # NoAppend
      BY <3>4 DEF NoAppend
    <3>. QED  BY <3>2, <3>3, <3>5
  <2>. QED  BY <2>2, <2>3
<1>11. dataset' = [exists |-> dataset'.exists, count |-> dataset'.count, bytes |-> dataset'.bytes, next |-> dataset'.next]
  BY <1>2
<1>12. items' \subseteq Item
  BY <1>2, <1>3 DEF DatasetInv
<1>. QED  BY <1>1, <1>5, <1>6, <1>7, <1>8, <1>9, <1>10, <1>11, <1>12

\* Requests keep what they know when the dataset grows.
LEMMA RowKept ==
  ASSUME DatasetInv, dataset'.next \in Nat, dataset.next <= dataset'.next
  PROVE  (\A r : DatasetRowOK(r) => DatasetRowOK(r)') /\ (\A x : ExportOK(x) => ExportOK(x)')
<1>1. \A r : DatasetRowOK(r) => DatasetRowOK(r)'
  BY DEF DatasetRowOK, DatasetInv
<1>. QED  BY <1>1 DEF ExportOK

\* Steps that only open, advance or close one request
LEMMA AppendersOnly ==
  ASSUME DatasetInv, UNCHANGED <<dataset, items, appendReceipt, exporting>>, NEW t \in Appenders,
         appending' = [s \in Appenders |-> appending'[s]], \A s \in Appenders \ {t} : appending'[s] = appending[s],
         appending'[t] # Free => appending'[t].q \in Batches /\ DatasetRowOK(appending'[t].row)
  PROVE  DatasetInv'
BY Zenon DEF DatasetInv, BatchStoredOnce, DatasetRowOK, ExportOK, Sequences

\* A step of one export keeps the invariant when it leaves that export well formed.
LEMMA ExportersOnly ==
  ASSUME DatasetInv, UNCHANGED <<dataset, items, appendReceipt, appending>>, NEW e \in Exporters,
         exporting' = [f \in Exporters |-> exporting'[f]], \A f \in Exporters \ {e} : exporting'[f] = exporting[f],
         exporting'[e] # Free => ExportOK(exporting'[e])
  PROVE  DatasetInv'
BY ZenonT(30) DEF DatasetInv, BatchStoredOnce, DatasetRowOK, ExportOK, Sequences

\* The numbers of items and of sequence numbers agree, so an export that counts as many
\* items as the dataset it loaded has read exactly those.
LEMMA ItemsCounted == DatasetInv => Cardinality(items) = dataset.next - 1
<1> SUFFICES ASSUME DatasetInv  PROVE Cardinality(items) = dataset.next - 1
  OBVIOUS
<1>. DEFINE n == dataset.next - 1
            f == [i \in items |-> i.sequence]
<1>1. n \in Nat /\ Sequences(items) = 1..n
  BY DEF DatasetInv
<1>2. f \in [items -> 1..n] /\ \A i, j \in items : f[i] = f[j] => i = j
  BY <1>1 DEF DatasetInv, Sequences
<1>3. \A k \in 1..n : \E i \in items : f[i] = k
  BY <1>1 DEF Sequences
<1>4. IsFiniteSet(1..n) /\ Cardinality(1..n) = n
  BY <1>1, FS_Interval
<1>. HIDE DEF n, f
<1>5. f \in Injection(items, 1..n) /\ f \in Surjection(items, 1..n)
  BY <1>2, <1>3 DEF Injection, Surjection, IsInjective
<1>6. Cardinality(items) = Cardinality(1..n)
  BY <1>4, <1>5, FS_Injection
<1>. QED  BY <1>4, <1>6 DEF n

\* Every step of an append or an export keeps the invariant.
LEMMA DatasetStepOK == DatasetInv /\ [DatasetNext]_dsVars => DatasetInv'
<1> SUFFICES ASSUME DatasetInv, [DatasetNext]_dsVars  PROVE DatasetInv'
  OBVIOUS
<1>1. ASSUME CreateDataset  PROVE DatasetInv'
  <2>1. /\ dataset' = [exists |-> dataset'.exists, count |-> dataset'.count,
                       bytes |-> dataset'.bytes, next |-> dataset'.next]
        /\ dataset'.count = dataset.count /\ dataset'.next = dataset.next
    <3>1. ASSUME NEW x, NEW b, NEW m, NEW k, NEW n, x = [exists |-> b, count |-> m, bytes |-> k, next |-> n],
                 NEW y, y = [x EXCEPT !.exists = TRUE]
          PROVE  y = [exists |-> TRUE, count |-> m, bytes |-> k, next |-> n]
      BY <3>1, Zenon
    <3>2. dataset' = [exists |-> TRUE, count |-> dataset.count, bytes |-> dataset.bytes, next |-> dataset.next]
      BY <1>1, <3>1, Zenon DEF CreateDataset, DatasetInv
    <3>. QED  BY <3>2
  <2>. QED  BY <1>1, <2>1, Zenon DEF CreateDataset, DatasetInv, BatchStoredOnce, DatasetRowOK, ExportOK, Sequences
<1>2. ASSUME NEW q \in Batches, NEW r, r.next \in Nat \ {0}, r.next <= dataset.next, r.count = r.next - 1,
             Store(q, r), UNCHANGED exporting, appending' = [s \in Appenders |-> appending'[s]],
             \A s \in Appenders : appending'[s] \in {Free, appending[s]}
      PROVE  DatasetInv'
  <2>1. dataset'.next \in Nat \ {0} /\ dataset.next <= dataset'.next
    BY <1>2, StoreOK DEF DatasetInv
  <2>2. (\A x : DatasetRowOK(x) => DatasetRowOK(x)') /\ (\A x : ExportOK(x) => ExportOK(x)')
    BY <2>1, RowKept
  <2>3. \A t \in Appenders : appending'[t] # Free => appending'[t].q \in Batches /\ DatasetRowOK(appending[t].row)'
    BY <1>2, <2>2, SMTT(30) DEF DatasetInv, DatasetRowOK
  <2>4. \A e \in Exporters : exporting'[e] # Free => ExportOK(exporting[e])'
    BY <1>2, <2>2 DEF DatasetInv, ExportOK, DatasetRowOK
  <2>. QED  BY <1>2, <2>1, <2>3, <2>4, StoreOK DEF DatasetInv
<1>3. ASSUME NEW t \in Appenders, NEW q \in Batches, LoadDataset(t, q)  PROVE DatasetInv'
  <2>1. /\ appending' = [s \in Appenders |-> appending'[s]]
        /\ \A s \in Appenders \ {t} : appending'[s] = appending[s]
        /\ appending'[t].q = q /\ appending'[t].row = dataset
    BY <1>3 DEF LoadDataset, DatasetInv
  <2>2. DatasetRowOK(dataset)
    BY DEF DatasetRowOK, DatasetInv
  <2>. QED  BY <1>3, <2>1, <2>2, AppendersOnly, ZenonT(30) DEF LoadDataset
<1>4. ASSUME NEW t \in Appenders, AppendItems(t)  PROVE DatasetInv'
  <2>1. /\ appending' = [s \in Appenders |-> appending'[s]]
        /\ \A s \in Appenders : appending'[s] \in {Free, appending[s]}
    BY <1>4 DEF AppendItems, DatasetInv
  <2>2. appending[t].q \in Batches /\ DatasetRowOK(appending[t].row)
    BY <1>4 DEF AppendItems, DatasetInv
  <2>. QED  BY <1>2, <1>4, <2>1, <2>2 DEF AppendItems, DatasetRowOK
<1>5. ASSUME NEW t \in Appenders, EndAppend(t)  PROVE DatasetInv'
  <2>1. /\ appending' = [s \in Appenders |-> appending'[s]]
        /\ \A s \in Appenders \ {t} : appending'[s] = appending[s]
        /\ appending'[t] = Free
    BY <1>5 DEF EndAppend, DatasetInv
  <2>. QED  BY <1>5, <2>1, AppendersOnly, Zenon DEF EndAppend
<1>6. ASSUME NEW e \in Exporters, LoadForExport(e)  PROVE DatasetInv'
  <2>1. /\ exporting' = [f \in Exporters |-> exporting'[f]]
        /\ \A f \in Exporters \ {e} : exporting'[f] = exporting[f]
        /\ exporting'[e] = [pc |-> "loaded", row |-> dataset, rows |-> {}]
    BY <1>6, Zenon DEF LoadForExport, DatasetInv
  <2>2. DatasetRowOK(dataset)
    BY DEF DatasetRowOK, DatasetInv
  <2>3. ExportOK(exporting'[e])
    BY <2>1, <2>2 DEF ExportOK
  <2>. QED  BY <1>6, <2>1, <2>3, ExportersOnly, Zenon DEF LoadForExport
<1>7. ASSUME NEW e \in Exporters, Export(e)  PROVE DatasetInv'
  <2>. DEFINE x == exporting[e]
              outcome == ExportOutcome(x.row.count)
  <2>1. ExportOK(x) /\ x \in {[pc |-> x.pc, row |-> x.row, rows |-> x.rows]}
    BY <1>7 DEF Export, DatasetInv, ExportOK
  <2>2. ASSUME NEW z, NEW s, NEW r, NEW m, NEW c, NEW k, NEW y, z = [pc |-> s, row |-> r, rows |-> m],
               y = [z EXCEPT !.pc = c, !.rows = k]
        PROVE  y = [pc |-> c, row |-> r, rows |-> k]
    BY <2>2, Zenon
  <2>3. /\ exporting' = [f \in Exporters |-> exporting'[f]]
        /\ \A f \in Exporters \ {e} : exporting'[f] = exporting[f]
        /\ exporting'[e] = [x EXCEPT !.pc = outcome, !.rows = items]
    BY <1>7 DEF Export, DatasetInv
  <2>. HIDE DEF x, outcome
  <2>4. exporting'[e] = [pc |-> outcome, row |-> x.row, rows |-> items]
    BY <2>1, <2>2, <2>3, Zenon
  <2>5. x.row.count = x.row.next - 1 /\ x.row.next \in Nat \ {0}
    BY <2>1 DEF ExportOK, DatasetRowOK
  <2>6. \/ outcome = "changed"
        \/ outcome = "done" /\ Sequences(items) = 1..(x.row.next - 1)
    <3>1. CASE Cardinality(items) # x.row.count
      BY <3>1 DEF outcome, ExportOutcome
    <3>2. CASE Cardinality(items) = x.row.count
      <4>1. {i.sequence : i \in items} = 1..x.row.count
        BY <2>5, <3>2, ItemsCounted DEF DatasetInv, Sequences
      <4>. QED  BY <2>5, <3>2, <4>1 DEF outcome, ExportOutcome, Sequences
    <3>. QED  BY <3>1, <3>2
  <2>7. ExportOK(exporting'[e])
    BY <2>1, <2>4, <2>6 DEF ExportOK
  <2>. QED  BY <1>7, <2>3, <2>7, ExportersOnly, Zenon DEF Export
<1>8. ASSUME NEW e \in Exporters, EndExport(e)  PROVE DatasetInv'
  <2>1. /\ exporting' = [f \in Exporters |-> exporting'[f]]
        /\ \A f \in Exporters \ {e} : exporting'[f] = exporting[f]
        /\ exporting'[e] = Free
    BY <1>8 DEF EndExport, DatasetInv
  <2>. QED  BY <1>8, <2>1, ExportersOnly, Zenon DEF EndExport
<1>a. ASSUME NEW q \in Batches, CreateAndAppend(q)  PROVE DatasetInv'
  <2>1. NoDataset.next = 1 /\ NoDataset.count = 0 /\ 1 <= dataset.next
    BY DEF NoDataset, DatasetInv
  <2>2. /\ appending' = [s \in Appenders |-> appending'[s]]
        /\ \A s \in Appenders : appending'[s] \in {Free, appending[s]}
    BY <1>a DEF CreateAndAppend, DatasetInv
  <2>. QED  BY <1>2, <1>a, <2>1, <2>2 DEF CreateAndAppend
<1>9. CASE UNCHANGED dsVars
  BY <1>9, Zenon DEF dsVars, DatasetInv, BatchStoredOnce, DatasetRowOK, ExportOK, Sequences
<1>. QED  BY <1>1, <1>3, <1>4, <1>5, <1>6, <1>7, <1>8, <1>9, <1>a DEF DatasetNext

-----------------------------------------------------------------------------
\* In every reachable state the sequence numbers are 1 .. next - 1, each used once, and
\* every open append and export has loaded a row that the dataset once had.
THEOREM DatasetInvariance == DatasetSpec => []DatasetInv
<1>1. DatasetInit => DatasetInv
  <2> SUFFICES ASSUME DatasetInit  PROVE DatasetInv
    OBVIOUS
  <2>1. /\ dataset = [exists |-> dataset.exists, count |-> dataset.count,
                      bytes |-> dataset.bytes, next |-> dataset.next]
        /\ dataset.next = 1 /\ dataset.count = 0
    BY DEF DatasetInit, NoDataset
  <2>2. Sequences(items) = 1..(dataset.next - 1)
    BY <2>1 DEF DatasetInit, Sequences
  <2>3. BatchStoredOnce
    BY DEF DatasetInit, BatchStoredOnce
  <2>. QED  BY <2>1, <2>2, <2>3 DEF DatasetInit, DatasetInv
<1>. QED  BY <1>1, DatasetStepOK, PTL DEF DatasetSpec

\* A batch is stored once and whole however often and however concurrently it is sent
\* (append_dataset_items and its receipts).
THEOREM StoredOnce == DatasetSpec => []BatchStoredOnce
<1>1. DatasetInv => BatchStoredOnce
  BY DEF DatasetInv
<1>. QED  BY <1>1, DatasetInvariance, PTL

\* An export that succeeds is the dataset that was requested, and none finds a gap, with
\* appends committing between its two queries (export_dataset_jsonl).
THEOREM WholeExports == DatasetSpec => []ExportsAreWhole
<1>1. DatasetInv => ExportsAreWhole
  BY DEF DatasetInv, ExportsAreWhole, ExportOK, Sequences
<1>. QED  BY <1>1, DatasetInvariance, PTL
=============================================================================
