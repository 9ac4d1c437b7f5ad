-------------------------- MODULE AutomationProofs --------------------------
(***************************************************************************)
(* Proofs about what the platform does by itself: the deliveries of a      *)
(* webhook and the Runs of a schedule.                                     *)
(***************************************************************************)
EXTENDS Webhooks, Schedules, TLAPS

-----------------------------------------------------------------------------
(***************************************************************************)
(* Webhooks, for any number of events, operators, runners and replay       *)
(* requests.                                                               *)
(*                                                                         *)
(* A delivery that waits has an attempt left, so that a claim never        *)
(* exceeds the budget; and a replay that took effect has moved its         *)
(* delivery past the replay it named, so that the same key finds it gone.  *)
(***************************************************************************)

DeliveryStatuses == Waiting \cup {"ABSENT", "CLAIMED", "SUCCEEDED", "DEAD_LETTERED"}

DeliveryRow(status, attempts, available, expires, version, replays, key) ==
  [status |-> status, attempts |-> attempts, availableAt |-> available, expiresAt |-> expires,
   secretVersion |-> version, replays |-> replays, lastKey |-> key]

IsRow(d) ==
  d = DeliveryRow(d.status, d.attempts, d.availableAt, d.expiresAt, d.secretVersion, d.replays, d.lastKey)

\* A delivery that waits has an attempt left.
DeliveryOK(d) ==
  /\ IsRow(d)
  /\ d.status \in DeliveryStatuses /\ d.attempts \in Nat /\ d.expiresAt \in Nat /\ d.replays \in Nat
  /\ d.status = "ABSENT" => d.attempts = 0
  /\ d.status \in Waiting => d.attempts < MaxAttempts

TaskOK(t) ==
  /\ t = [event |-> t.event, replays |-> t.replays, attempt |-> t.attempt, outcome |-> t.outcome]
  /\ t.event \in Events

IsDestination(d) ==
  d = [status |-> d.status, verified |-> d.verified, failures |-> d.failures,
       reason |-> d.reason, secretVersion |-> d.secretVersion]

\* Rows and tasks are well formed, and an event that was not emitted has no delivery.
DeliveryInv ==
  /\ dbNow \in Nat
  /\ delivery = [e \in Events |-> delivery[e]]
  /\ \A e \in Events : DeliveryOK(delivery[e]) /\ (e \notin emitted => delivery[e].status = "ABSENT")
  /\ \A t \in tasks : TaskOK(t)

\* A replay that took effect has moved its delivery past the replay it named.
ReplayInv ==
  /\ request = [k \in Keys |-> request[k]] /\ applied = [k \in Keys |-> applied[k]]
  /\ \A k \in Keys :
       /\ request[k] # NoRequest => request[k].event \in Events /\ request[k].replays \in Nat
       /\ \/ applied[k] = 0
          \/ /\ applied[k] = 1 /\ request[k] # NoRequest
             /\ delivery[request[k].event].replays > request[k].replays

WebhookInv == DeliveryInv /\ ReplayInv /\ IsDestination(dest)

-----------------------------------------------------------------------------
(* Rows.                                                                   *)

LEMMA RowFields ==
  ASSUME NEW s, NEW a, NEW v, NEW x, NEW c, NEW r, NEW k
  PROVE  LET d == DeliveryRow(s, a, v, x, c, r, k)
         IN  /\ IsRow(d) /\ d.status = s /\ d.attempts = a /\ d.availableAt = v
             /\ d.expiresAt = x /\ d.secretVersion = c /\ d.replays = r /\ d.lastKey = k
BY DEF DeliveryRow, IsRow

LEMMA EnqueuedRow ==
  ASSUME NEW d, IsRow(d), NEW v, NEW c, NEW y,
         y = [d EXCEPT !.status = "PENDING", !.availableAt = v, !.secretVersion = c]
  PROVE  y = DeliveryRow("PENDING", d.attempts, v, d.expiresAt, c, d.replays, d.lastKey)
BY Zenon DEF DeliveryRow, IsRow

LEMMA ReplayedRow ==
  ASSUME NEW d, IsRow(d), NEW v, NEW k, NEW y,
         y = [d EXCEPT !.status = "PENDING", !.attempts = 0, !.availableAt = v,
                       !.replays = @ + 1, !.lastKey = k]
  PROVE  y = DeliveryRow("PENDING", 0, v, d.expiresAt, d.secretVersion, d.replays + 1, k)
BY Zenon DEF DeliveryRow, IsRow

LEMMA ReclaimedRow ==
  ASSUME NEW d, IsRow(d), NEW s, NEW v, NEW y,
         y = [d EXCEPT !.status = s, !.availableAt = v, !.expiresAt = 0]
  PROVE  y = DeliveryRow(s, d.attempts, v, 0, d.secretVersion, d.replays, d.lastKey)
BY Zenon DEF DeliveryRow, IsRow

LEMMA ClaimedRow ==
  ASSUME NEW d, IsRow(d), NEW x, NEW y,
         y = [d EXCEPT !.status = "CLAIMED", !.attempts = @ + 1, !.expiresAt = x]
  PROVE  y = DeliveryRow("CLAIMED", d.attempts + 1, d.availableAt, x, d.secretVersion, d.replays, d.lastKey)
BY Zenon DEF DeliveryRow, IsRow

LEMMA CompletedRow ==
  ASSUME NEW d, IsRow(d), NEW outcome
  PROVE  LET retry == outcome \in Retryable /\ d.attempts < MaxAttempts
         IN  Completed(d, outcome) =
               DeliveryRow(IF outcome = "DELIVERED" THEN "SUCCEEDED"
                   ELSE IF retry THEN "RETRY_WAIT" ELSE "DEAD_LETTERED",
                   d.attempts,
                   IF outcome # "DELIVERED" /\ retry THEN dbNow + RetryDelay(d.attempts) ELSE d.availableAt,
                   0, d.secretVersion, d.replays, d.lastKey)
BY Zenon DEF DeliveryRow, IsRow, Completed

-----------------------------------------------------------------------------
(* What the steps do to the deliveries.                                    *)

LEMMA EnqueueRows ==
  ASSUME DeliveryInv, NEW e \in Events, delivery[e].status = "ABSENT",
         delivery' = Enqueued(delivery, e)
  PROVE  /\ delivery' = [x \in Events |-> delivery'[x]]
         /\ \A x \in Events : x # e => delivery'[x] = delivery[x]
         /\ IsRow(delivery'[e]) /\ delivery'[e].status = "PENDING" /\ delivery'[e].attempts = 0
         /\ delivery'[e].expiresAt = delivery[e].expiresAt /\ delivery'[e].replays = delivery[e].replays
<1>1. IsRow(delivery[e]) /\ delivery[e].attempts = 0
  BY DEF DeliveryInv, DeliveryOK
<1>2. PICK y : y = [delivery[e] EXCEPT !.status = "PENDING", !.availableAt = dbNow,
                                       !.secretVersion = dest.secretVersion]
  OBVIOUS
<1>3. y = DeliveryRow("PENDING", 0, dbNow, delivery[e].expiresAt, dest.secretVersion,
              delivery[e].replays, delivery[e].lastKey)
  BY <1>1, <1>2, EnqueuedRow, Zenon
<1>4. delivery' = [delivery EXCEPT ![e] = y]
  BY <1>2 DEF Enqueued
<1>5. /\ delivery' = [x \in Events |-> delivery'[x]] /\ delivery'[e] = y
      /\ \A x \in Events : x # e => delivery'[x] = delivery[x]
  BY <1>4 DEF DeliveryInv
<1>. QED  BY <1>3, <1>5, RowFields

LEMMA ReplayRows ==
  ASSUME DeliveryInv, NEW k \in Keys, Replay(k), request[k].event \in Events
  PROVE  LET e == request[k].event IN
         /\ delivery' = [x \in Events |-> delivery'[x]]
         /\ \A x \in Events : x # e => delivery'[x] = delivery[x]
         /\ IsRow(delivery'[e]) /\ delivery'[e].status = "PENDING" /\ delivery'[e].attempts = 0
         /\ delivery'[e].expiresAt = delivery[e].expiresAt
         /\ delivery'[e].replays = delivery[e].replays + 1
<1> DEFINE e == request[k].event
<1>1. IsRow(delivery[e])
  BY DEF DeliveryInv, DeliveryOK
<1>2. PICK y : y = [delivery[e] EXCEPT !.status = "PENDING", !.attempts = 0, !.availableAt = dbNow,
                                       !.replays = @ + 1, !.lastKey = k]
  OBVIOUS
<1>3. y = DeliveryRow("PENDING", 0, dbNow, delivery[e].expiresAt, delivery[e].secretVersion,
              delivery[e].replays + 1, k)
  BY <1>1, <1>2, ReplayedRow, Zenon
<1>4. delivery' = [delivery EXCEPT ![e] = y]
  BY <1>2 DEF Replay
<1>5. /\ delivery' = [x \in Events |-> delivery'[x]] /\ delivery'[e] = y
      /\ \A x \in Events : x # e => delivery'[x] = delivery[x]
  BY <1>4 DEF DeliveryInv
<1>6. /\ IsRow(y) /\ y.status = "PENDING" /\ y.attempts = 0
      /\ y.expiresAt = delivery[e].expiresAt /\ y.replays = delivery[e].replays + 1
  BY <1>3, RowFields
<1>. QED  BY <1>5, <1>6, Zenon

\* A poll takes an expired claim back, or claims a delivery that waits or was taken back.
Returns(e) ==
  /\ delivery[e].status = "CLAIMED" /\ delivery[e].expiresAt <= dbNow
  /\ delivery'[e].status = IF delivery[e].attempts < MaxAttempts THEN "RETRY_WAIT" ELSE "DEAD_LETTERED"
  /\ delivery'[e].attempts = delivery[e].attempts /\ delivery'[e].expiresAt = 0

Claims(e) ==
  /\ \/ delivery[e].status \in Waiting
     \/ delivery[e].status = "CLAIMED" /\ delivery[e].expiresAt <= dbNow
  /\ delivery[e].attempts < MaxAttempts
  /\ delivery'[e].status = "CLAIMED" /\ delivery'[e].attempts = delivery[e].attempts + 1
  /\ delivery'[e].expiresAt = dbNow + ClaimSeconds

LEMMA ClaimRows ==
  ASSUME DeliveryInv, NEW R, NEW B, Claim(R, B)
  PROVE  /\ delivery' = [e \in Events |-> delivery'[e]]
         /\ \A e \in Events :
              /\ e \in B => Claims(e)
              /\ e \notin B => delivery'[e] = delivery[e] \/ Returns(e)
              /\ IsRow(delivery'[e]) /\ delivery'[e].replays = delivery[e].replays
         /\ B \subseteq Events
         /\ tasks' = tasks \cup {[event |-> e, replays |-> delivery[e].replays,
                                 attempt |-> delivery[e].attempts + 1, outcome |-> "NONE"] : e \in B}
<1> DEFINE D == Reclaimed(R)
<1>1. /\ \A e \in R : e \in Events /\ delivery[e].status = "CLAIMED" /\ delivery[e].expiresAt <= dbNow
      /\ \A e \in B : e \in Events /\ D[e].status \in Waiting
  BY ZenonT(30) DEF Claim, First, ExpiredClaims
<1>2. delivery' = [e \in Events |->
           IF e \notin B THEN D[e]
           ELSE [D[e] EXCEPT !.status = "CLAIMED", !.attempts = @ + 1,
                             !.expiresAt = dbNow + ClaimSeconds]]
  BY ZenonT(30) DEF Claim
<1>3. ASSUME NEW e \in Events
      PROVE  /\ e \notin R => D[e] = delivery[e]
             /\ e \in R => D[e] = DeliveryRow(IF Exhausted(e) THEN "DEAD_LETTERED" ELSE "RETRY_WAIT",
                                     delivery[e].attempts, dbNow, 0, delivery[e].secretVersion,
                                     delivery[e].replays, delivery[e].lastKey)
  <2>1. e \notin R => D[e] = delivery[e]
    BY DEF Reclaimed
  <2>2. ASSUME e \in R
        PROVE  D[e] = [delivery[e] EXCEPT !.status = IF Exhausted(e) THEN "DEAD_LETTERED" ELSE "RETRY_WAIT",
                              !.availableAt = dbNow, !.expiresAt = 0]
    BY <2>2 DEF Reclaimed
  <2>3. IsRow(delivery[e])
    BY DEF DeliveryInv, DeliveryOK
  <2>. QED  BY <2>1, <2>2, <2>3, ReclaimedRow, Zenon
<1> HIDE DEF D
<1>4. ASSUME NEW e \in Events
      PROVE  /\ IsRow(D[e]) /\ D[e].attempts = delivery[e].attempts /\ D[e].replays = delivery[e].replays
             /\ D[e] = delivery[e] \/ (e \in R /\ D[e].expiresAt = 0)
  BY <1>3, RowFields DEF DeliveryInv, DeliveryOK
<1>5. ASSUME NEW e \in Events, e \in R
      PROVE  D[e].status = IF delivery[e].attempts < MaxAttempts THEN "RETRY_WAIT" ELSE "DEAD_LETTERED"
  <2>1. delivery[e].attempts \in Nat /\ MaxAttempts \in Nat
    BY WebhookAssumption DEF DeliveryInv, DeliveryOK
  <2>2. Exhausted(e) <=> ~(delivery[e].attempts < MaxAttempts)
    BY <2>1 DEF Exhausted
  <2>3. D[e].status = IF Exhausted(e) THEN "DEAD_LETTERED" ELSE "RETRY_WAIT"
    BY <1>3, <1>5, RowFields
  <2>. QED  BY <2>2, <2>3
<1>6. ASSUME NEW e \in Events, e \in B
      PROVE  Claims(e) /\ IsRow(delivery'[e]) /\ delivery'[e].replays = delivery[e].replays
  <2>1. PICK y : y = [D[e] EXCEPT !.status = "CLAIMED", !.attempts = @ + 1,
                                  !.expiresAt = dbNow + ClaimSeconds]
    OBVIOUS
  <2>2. y = DeliveryRow("CLAIMED", D[e].attempts + 1, D[e].availableAt, dbNow + ClaimSeconds,
                D[e].secretVersion, D[e].replays, D[e].lastKey)
    BY <1>4, <2>1, ClaimedRow, ZenonT(30)
  <2>3. delivery'[e] = y
    BY <1>2, <1>6, <2>1, Zenon
  <2>4. /\ \/ delivery[e].status \in Waiting
           \/ delivery[e].status = "CLAIMED" /\ delivery[e].expiresAt <= dbNow
        /\ delivery[e].attempts < MaxAttempts
    <3>1. CASE e \in R
      BY <1>1, <1>5, <1>6, <3>1 DEF Waiting
    <3>2. CASE e \notin R
      BY <1>1, <1>3, <1>6, <3>2 DEF DeliveryInv, DeliveryOK
    <3>. QED  BY <3>1, <3>2
  <2>. QED  BY <1>4, <2>2, <2>3, <2>4, RowFields DEF Claims
<1>7. ASSUME NEW e \in Events, e \notin B
      PROVE  /\ delivery'[e] = delivery[e] \/ Returns(e)
             /\ IsRow(delivery'[e]) /\ delivery'[e].replays = delivery[e].replays
  <2>1. delivery'[e] = D[e]
    BY <1>2, <1>7, Zenon
  <2>. QED  BY <1>1, <1>4, <1>5, <2>1 DEF Returns
<1>8. tasks' = tasks \cup {[event |-> e, replays |-> delivery[e].replays,
                           attempt |-> delivery[e].attempts + 1, outcome |-> "NONE"] : e \in B}
  <2>1. tasks' = tasks \cup {[event |-> e, replays |-> D[e].replays,
                             attempt |-> D[e].attempts + 1, outcome |-> "NONE"] : e \in B}
    BY Zenon DEF Claim, D
  <2>2. \A e \in B : D[e].replays = delivery[e].replays /\ D[e].attempts = delivery[e].attempts
    BY <1>1, <1>4
  <2>. QED  BY <2>1, <2>2
<1>. QED  BY <1>1, <1>2, <1>6, <1>7, <1>8, ZenonT(30)

LEMMA CompleteRows ==
  ASSUME DeliveryInv, NEW t \in tasks, Complete(t)
  PROVE  LET e == t.event
             d == delivery[e]
         IN  /\ e \in Events /\ Current(t)
             /\ delivery' = [x \in Events |-> delivery'[x]]
             /\ \A x \in Events : x # e => delivery'[x] = delivery[x]
             /\ IsRow(delivery'[e]) /\ delivery'[e].attempts = d.attempts
             /\ delivery'[e].replays = d.replays /\ delivery'[e].expiresAt = 0
             /\ \/ delivery'[e].status = "SUCCEEDED" /\ SnapshotValid(e)
                                                     /\ t.outcome = "DELIVERED"
                \/ delivery'[e].status = "RETRY_WAIT" /\ d.attempts < MaxAttempts
                \/ delivery'[e].status = "DEAD_LETTERED"
<1> DEFINE e == t.event
           outcome == IF SnapshotValid(e) THEN t.outcome ELSE "CONFIGURATION_ERROR"
<1>1. e \in Events /\ Current(t) /\ IsRow(delivery[e])
  BY DEF DeliveryInv, DeliveryOK, TaskOK, Complete
<1>2. PICK y : y = Completed(delivery[e], outcome)
  OBVIOUS
<1>3. delivery' = [delivery EXCEPT ![e] = y]
  BY <1>2 DEF Complete
<1>4. /\ delivery' = [x \in Events |-> delivery'[x]] /\ delivery'[e] = y
      /\ \A x \in Events : x # e => delivery'[x] = delivery[x]
  BY <1>1, <1>3 DEF DeliveryInv
<1> HIDE DEF outcome
<1>5. /\ IsRow(y) /\ y.attempts = delivery[e].attempts /\ y.replays = delivery[e].replays
      /\ y.expiresAt = 0
      /\ y.status = IF outcome = "DELIVERED" THEN "SUCCEEDED"
                    ELSE IF outcome \in Retryable /\ delivery[e].attempts < MaxAttempts
                         THEN "RETRY_WAIT" ELSE "DEAD_LETTERED"
  BY <1>1, <1>2, CompletedRow, RowFields
<1>6. outcome = "DELIVERED" => SnapshotValid(e) /\ t.outcome = "DELIVERED"
  BY DEF outcome
<1>. QED  BY <1>1, <1>4, <1>5, <1>6

-----------------------------------------------------------------------------
(* The invariant.                                                          *)

LEMMA WebhookInitOK == WebhookInit => WebhookInv
<1> SUFFICES ASSUME WebhookInit PROVE WebhookInv
  OBVIOUS
<1>1. \A e \in Events : delivery[e] = DeliveryRow("ABSENT", 0, 0, 0, 0, 0, NoKey)
  BY DEF WebhookInit, DeliveryRow
<1>2. DeliveryInv
  BY <1>1, RowFields DEF WebhookInit, DeliveryInv, DeliveryOK, DeliveryStatuses, Waiting
<1>3. ReplayInv
  BY DEF WebhookInit, ReplayInv
<1>4. IsDestination(dest)
  BY DEF WebhookInit, IsDestination
<1>. QED  BY <1>2, <1>3, <1>4 DEF WebhookInv

\* Steps that leave the deliveries and the tasks alone
Elsewhere == delivery' = delivery /\ tasks' = tasks /\ dbNow' = dbNow /\ emitted' = emitted

LEMMA ElsewhereOK ==
  ASSUME WebhookInv, [WebhookNext]_webhookVars
  PROVE  \/ Elsewhere
         \/ WebhookTick
         \/ \E e \in Events : EmitEvent(e) \/ \E u \in Operators : Verify(u, e)
         \/ \E k \in Keys : Replay(k) /\ request[k].event \in Events
         \/ \E R, B \in SUBSET Events : Claim(R, B)
         \/ \E t \in tasks : Complete(t) \/ Drop(t) \/ \E o \in DeliveryOutcomes : Execute(t, o)
<1>1. ASSUME NEW k \in Keys, Replay(k) PROVE request[k].event \in Events
  BY <1>1 DEF WebhookInv, ReplayInv, Replay, Replayable
<1>. QED  BY <1>1, ZenonT(30) DEF WebhookNext, webhookVars, Poll, Elsewhere, ReplaceSecret, Load, Finish, Rotate,
               Disable, RequestReplay

LEMMA DeliveryStepOK ==
  ASSUME WebhookInv, [WebhookNext]_webhookVars
  PROVE  DeliveryInv' /\ \A e \in Events : delivery'[e].replays >= delivery[e].replays
<1>0. DeliveryInv /\ \A e \in Events : DeliveryOK(delivery[e]) /\ delivery[e].replays \in Nat
  BY DEF WebhookInv, DeliveryInv, DeliveryOK
<1>m. MaxAttempts \in Nat \ {0} /\ ClaimSeconds \in Nat
  BY WebhookAssumption
<1>1. CASE Elsewhere
  BY <1>0, <1>1 DEF Elsewhere, DeliveryInv
<1>2. CASE WebhookTick
  BY <1>0, <1>2 DEF WebhookTick, DeliveryInv
<1>e. ASSUME NEW e \in Events, delivery[e].status = "ABSENT", delivery' = Enqueued(delivery, e),
             emitted' \in SUBSET (emitted \cup {e}), emitted \subseteq emitted', e \in emitted',
             tasks' = tasks, dbNow' = dbNow
      PROVE  DeliveryInv' /\ \A x \in Events : delivery'[x].replays >= delivery[x].replays
  <2>1. /\ delivery' = [x \in Events |-> delivery'[x]]
        /\ \A x \in Events : x # e => delivery'[x] = delivery[x]
        /\ IsRow(delivery'[e]) /\ delivery'[e].status = "PENDING" /\ delivery'[e].attempts = 0
        /\ delivery'[e].expiresAt = delivery[e].expiresAt /\ delivery'[e].replays = delivery[e].replays
    BY <1>0, <1>e, EnqueueRows
  <2>2. DeliveryOK(delivery'[e])
    BY <1>0, <1>m, <2>1 DEF DeliveryOK, DeliveryStatuses, Waiting
  <2>. QED  BY <1>0, <1>e, <2>1, <2>2 DEF DeliveryInv
<1>3. ASSUME NEW e \in Events, EmitEvent(e)
      PROVE  DeliveryInv' /\ \A x \in Events : delivery'[x].replays >= delivery[x].replays
  <2>1. CASE delivery' = Enqueued(delivery, e)
    BY <1>0, <1>3, <1>e, <2>1 DEF EmitEvent, DeliveryInv
  <2>2. CASE delivery' = delivery
    BY <1>0, <1>3, <2>2 DEF EmitEvent, DeliveryInv
  <2>. QED  BY <1>3, <2>1, <2>2 DEF EmitEvent
<1>4. ASSUME NEW e \in Events, NEW u \in Operators, Verify(u, e)
      PROVE  DeliveryInv' /\ \A x \in Events : delivery'[x].replays >= delivery[x].replays
  BY <1>4, <1>e DEF Verify
<1>5. ASSUME NEW k \in Keys, Replay(k), request[k].event \in Events
      PROVE  DeliveryInv' /\ \A x \in Events : delivery'[x].replays >= delivery[x].replays
  <2> DEFINE e == request[k].event
  <2>1. /\ delivery' = [x \in Events |-> delivery'[x]]
        /\ \A x \in Events : x # e => delivery'[x] = delivery[x]
        /\ IsRow(delivery'[e]) /\ delivery'[e].status = "PENDING" /\ delivery'[e].attempts = 0
        /\ delivery'[e].expiresAt = delivery[e].expiresAt
        /\ delivery'[e].replays = delivery[e].replays + 1
    BY <1>0, <1>5, ReplayRows
  <2>2. e \in Events /\ delivery[e].status = "DEAD_LETTERED" /\ UNCHANGED <<dbNow, tasks, emitted>>
    BY <1>5 DEF Replay, Replayable
  <2>3. e \in emitted
    BY <1>0, <2>2 DEF DeliveryInv
  <2> HIDE DEF e
  <2>4. DeliveryOK(delivery'[e])
    BY <1>0, <1>m, <2>1, <2>2 DEF DeliveryOK, DeliveryStatuses, Waiting
  <2>. QED  BY <1>0, <2>1, <2>2, <2>3, <2>4 DEF DeliveryInv
<1>6. ASSUME NEW R \in SUBSET Events, NEW B \in SUBSET Events, Claim(R, B)
      PROVE  DeliveryInv' /\ \A x \in Events : delivery'[x].replays >= delivery[x].replays
  <2>1. /\ delivery' = [e \in Events |-> delivery'[e]]
        /\ \A e \in Events :
              /\ e \in B => Claims(e)
              /\ e \notin B => delivery'[e] = delivery[e] \/ Returns(e)
              /\ IsRow(delivery'[e]) /\ delivery'[e].replays = delivery[e].replays
    BY <1>0, <1>6, ClaimRows
  <2>2. UNCHANGED <<dbNow, emitted>> /\ dbNow \in Nat
    BY <1>0, <1>6, Zenon DEF Claim, DeliveryInv
  <2>3. ASSUME NEW e \in Events
        PROVE  DeliveryOK(delivery'[e]) /\ (e \notin emitted => delivery'[e].status = "ABSENT")
    <3>1. CASE delivery'[e] = delivery[e] /\ e \notin B
      BY <1>0, <3>1 DEF DeliveryInv
    <3>2. CASE Returns(e)
      BY <1>0, <1>m, <2>1, <3>2 DEF DeliveryInv, DeliveryOK, Returns, DeliveryStatuses, Waiting
    <3>3. CASE Claims(e)
      BY <1>0, <1>m, <2>1, <2>2, <3>3 DEF DeliveryInv, DeliveryOK, Claims, DeliveryStatuses, Waiting
    <3>. QED  BY <2>1, <3>1, <3>2, <3>3
  <2>4. \A t \in tasks' : TaskOK(t)
    <3> SUFFICES ASSUME NEW t \in tasks' PROVE TaskOK(t)
      OBVIOUS
    <3>1. CASE t \in tasks
      BY <1>0, <3>1 DEF DeliveryInv
    <3>2. CASE t \notin tasks
      <4>1. PICK e \in B : t = [event |-> e, replays |-> Reclaimed(R)[e].replays,
                                attempt |-> Reclaimed(R)[e].attempts + 1, outcome |-> "NONE"]
        BY <1>6, <3>2, Zenon DEF Claim
      <4>2. e \in Events
        BY <1>6
      <4>. QED  BY <4>1, <4>2 DEF TaskOK
    <3>. QED  BY <3>1, <3>2
  <2>. QED  BY <1>0, <2>1, <2>2, <2>3, <2>4 DEF DeliveryInv
<1>7. ASSUME NEW t \in tasks, Complete(t)
      PROVE  DeliveryInv' /\ \A x \in Events : delivery'[x].replays >= delivery[x].replays
  <2> DEFINE e == t.event
  <2>1. /\ e \in Events /\ Current(t)
        /\ delivery' = [x \in Events |-> delivery'[x]]
        /\ \A x \in Events : x # e => delivery'[x] = delivery[x]
        /\ IsRow(delivery'[e]) /\ delivery'[e].attempts = delivery[e].attempts
        /\ delivery'[e].replays = delivery[e].replays /\ delivery'[e].expiresAt = 0
        /\ \/ delivery'[e].status = "SUCCEEDED"
           \/ delivery'[e].status = "RETRY_WAIT" /\ delivery[e].attempts < MaxAttempts
           \/ delivery'[e].status = "DEAD_LETTERED"
    BY <1>0, <1>7, CompleteRows
  <2>2. UNCHANGED <<dbNow, emitted>> /\ tasks' \subseteq tasks /\ delivery[e].status = "CLAIMED"
    BY <1>7 DEF Complete, Current
  <2> HIDE DEF e
  <2>3. DeliveryOK(delivery'[e])
    BY <1>0, <2>1 DEF DeliveryOK, DeliveryStatuses, Waiting
  <2>4. e \in emitted
    BY <1>0, <2>1, <2>2 DEF DeliveryInv
  <2>. QED  BY <1>0, <2>1, <2>2, <2>3, <2>4 DEF DeliveryInv
<1>8. ASSUME NEW t \in tasks, Drop(t)
      PROVE  DeliveryInv' /\ \A x \in Events : delivery'[x].replays >= delivery[x].replays
  BY <1>0, <1>8 DEF Drop, DeliveryInv
<1>9. ASSUME NEW t \in tasks, NEW o \in DeliveryOutcomes, Execute(t, o)
      PROVE  DeliveryInv' /\ \A x \in Events : delivery'[x].replays >= delivery[x].replays
  <2>1. TaskOK(t)
    BY <1>0 DEF DeliveryInv
  <2>2. TaskOK([t EXCEPT !.outcome = o])
    BY <2>1 DEF TaskOK
  <2>3. UNCHANGED <<delivery, dbNow, emitted>> /\ \A x \in tasks' : TaskOK(x)
    BY <1>0, <1>9, <2>2 DEF Execute, DeliveryInv
  <2>. QED  BY <1>0, <2>3 DEF DeliveryInv
<1>. QED  BY <1>1, <1>2, <1>3, <1>4, <1>5, <1>6, <1>7, <1>8, <1>9, ElsewhereOK

LEMMA ReplayStepOK ==
  ASSUME WebhookInv, [WebhookNext]_webhookVars PROVE ReplayInv'
<1>0. ReplayInv /\ \A e \in Events : delivery[e].replays \in Nat /\ delivery'[e].replays \in Nat
  BY DeliveryStepOK DEF WebhookInv, DeliveryInv, DeliveryOK
<1>1. \A e \in Events : delivery'[e].replays >= delivery[e].replays
  BY DeliveryStepOK
<1>2. CASE UNCHANGED <<request, applied>>
  BY <1>0, <1>1, <1>2 DEF ReplayInv
<1>3. ASSUME NEW k \in Keys, NEW e \in Events, RequestReplay(k, e) PROVE ReplayInv'
  <2>1. PICK q : q = [event |-> e, replays |-> delivery[e].replays]
    BY Zenon
  <2>2. q.event = e /\ q.replays \in Nat
    BY <1>0, <2>1
  <2>3. /\ request' = [request EXCEPT ![k] = q] /\ UNCHANGED <<applied, delivery>>
        /\ request[k] = NoRequest
    BY <1>3, <2>1 DEF RequestReplay
  <2>4. /\ request' = [x \in Keys |-> request'[x]] /\ request'[k] = q
        /\ \A x \in Keys : x # k => request'[x] = request[x]
    BY <1>0, <2>3 DEF ReplayInv
  <2>5. applied[k] = 0
    BY <1>0, <2>3 DEF ReplayInv
  <2>. QED  BY <1>0, <2>2, <2>3, <2>4, <2>5 DEF ReplayInv
<1>4. ASSUME NEW k \in Keys, Replay(k) PROVE ReplayInv'
  <2> DEFINE e == request[k].event
  <2>1. /\ request[k] # NoRequest /\ e \in Events /\ delivery[e].replays = request[k].replays
        /\ request' = request /\ applied' = [applied EXCEPT ![k] = @ + 1]
    BY <1>0, <1>4 DEF Replay, Replayable, ReplayInv
  <2>2. delivery'[e].replays = delivery[e].replays + 1
    BY <1>4, <2>1, ReplayRows DEF WebhookInv
  <2> HIDE DEF e
  <2>3. applied[k] = 0
    BY <1>0, <2>1 DEF ReplayInv, e
  <2>4. applied'[k] = 1 /\ \A x \in Keys : x # k => applied'[x] = applied[x]
    BY <1>0, <2>1, <2>3 DEF ReplayInv
  <2>5. delivery'[e].replays > request[k].replays
    BY <1>0, <2>1, <2>2
  <2>6. applied' = [x \in Keys |-> applied'[x]]
    BY <1>0, <2>1 DEF ReplayInv
  <2>7. ASSUME NEW x \in Keys
        PROVE  \/ applied'[x] = 0
               \/ /\ applied'[x] = 1 /\ request[x] # NoRequest
                  /\ delivery'[request[x].event].replays > request[x].replays
    <3>1. CASE x = k
      BY <2>1, <2>4, <2>5, <3>1 DEF e
    <3>2. CASE x # k
      BY <1>0, <1>1, <2>4, <3>2 DEF ReplayInv
    <3>. QED  BY <3>1, <3>2
  <2>. QED  BY <1>0, <2>1, <2>6, <2>7 DEF ReplayInv
<1>5. \/ UNCHANGED <<request, applied>> \/ \E k \in Keys : Replay(k) \/ \E e \in Events : RequestReplay(k, e)
  BY Zenon DEF WebhookNext, webhookVars, WebhookTick, ReplaceSecret, EmitEvent, Load, Finish, Rotate, Disable,
         Verify, Poll, Claim, Complete, Drop, Execute
<1>. QED  BY <1>2, <1>3, <1>4, <1>5

LEMMA StoredOK ==
  ASSUME NEW d, IsDestination(d), NEW v
  PROVE  IsDestination(Stored(d, v)) /\ Stored(d, v).secretVersion = v
BY DEF IsDestination, Stored

LEMMA AfterFailuresOK ==
  ASSUME NEW d, IsDestination(d), NEW n
  PROVE  IsDestination(AfterFailures(d, n))
<1>1. PICK x : x = Stored(d, secret)
  OBVIOUS
<1>2. PICK c : c = [x EXCEPT !.failures = Min(Threshold, @ + n)]
  BY Zenon
<1>3. PICK y : y = [c EXCEPT !.status = "DISABLED", !.reason = "AUTO_FAILURE_THRESHOLD"]
  OBVIOUS
<1>4. IsDestination(x)
  BY <1>1, StoredOK
<1>5. IsDestination(c)
  BY <1>2, <1>4 DEF IsDestination
<1>6. IsDestination(y)
  BY <1>3, <1>5, Zenon DEF IsDestination
<1>7. AfterFailures(d, n) \in {d, c, y}
  BY <1>1, <1>2, <1>3 DEF AfterFailures
<1>. QED  BY <1>5, <1>6, <1>7

LEMMA DestinationStepOK ==
  ASSUME WebhookInv, [WebhookNext]_webhookVars PROVE IsDestination(dest')
<1>0. IsDestination(dest)
  BY DEF WebhookInv
<1>1. ASSUME NEW u \in Operators, Rotate(u) \/ Disable(u) PROVE IsDestination(dest')
  <2>1. dest' \in Destination
    BY <1>1 DEF Rotate, Disable, DestinationOK
  <2>. QED  BY <2>1 DEF Destination, IsDestination
<1>2. ASSUME NEW k \in Keys, Replay(k) PROVE IsDestination(dest')
  <2>1. PICK d : d = [dest EXCEPT !.status = IF dest.verified THEN "ACTIVE" ELSE "PENDING_VERIFICATION",
                                  !.failures = 0, !.reason = "NONE"]
    OBVIOUS
  <2>2. IsDestination(d)
    BY <1>0, <2>1, Zenon DEF IsDestination
  <2>3. dest' = dest \/ dest' = Stored(d, secret)
    BY <1>2, <2>1 DEF Replay
  <2>. QED  BY <1>0, <2>2, <2>3, StoredOK
<1>3. ASSUME NEW R, NEW B, Claim(R, B) PROVE IsDestination(dest')
  BY <1>0, <1>3, AfterFailuresOK, Zenon DEF Claim
<1>4. ASSUME NEW t \in tasks, Complete(t) PROVE IsDestination(dest')
  <2>1. PICK d : d = [dest EXCEPT !.status = "ACTIVE", !.verified = TRUE, !.failures = 0, !.reason = "NONE"]
    OBVIOUS
  <2>2. IsDestination(d)
    BY <1>0, <2>1, Zenon DEF IsDestination
  <2>3. dest' = Stored(d, secret) \/ \E n \in {0, 1} : dest' = AfterFailures(dest, n)
    BY <1>4, <2>1 DEF Complete
  <2>. QED  BY <1>0, <2>2, <2>3, StoredOK, AfterFailuresOK
<1>5. \/ dest' = dest \/ \E u \in Operators : Rotate(u) \/ Disable(u)
      \/ \E k \in Keys : Replay(k)
      \/ \E R, B \in SUBSET Events : Claim(R, B)
      \/ \E t \in tasks : Complete(t)
  BY DEF WebhookNext, webhookVars, WebhookTick, ReplaceSecret, EmitEvent, Load, Finish, RequestReplay,
         Verify, Poll, Drop, Execute
<1>. QED  BY <1>0, <1>1, <1>2, <1>3, <1>4, <1>5

-----------------------------------------------------------------------------
\* In every reachable state rows and tasks are well formed, a delivery that waits has an
\* attempt left, and a replay that took effect is behind its delivery.
THEOREM WebhookInvariance == WebhookSpec => []WebhookInv
<1>1. WebhookInv /\ [WebhookNext]_webhookVars => WebhookInv'
  BY DeliveryStepOK, ReplayStepOK, DestinationStepOK DEF WebhookInv
<1>. QED  BY <1>1, WebhookInitOK, PTL DEF WebhookSpec

\* A replay request takes effect at most once, although replay_webhook_delivery remembers
\* only the last key of a delivery.
THEOREM ReplaysOnce == WebhookSpec => []ReplayedOnce
<1>1. WebhookInv => ReplayedOnce
  BY DEF WebhookInv, ReplayInv, ReplayedOnce
<1>. QED  BY <1>1, WebhookInvariance, PTL

\* A delivery succeeds only with the secret that is current at the completion, to an
\* enabled destination (complete_webhook_delivery_canary of migration 0033).
THEOREM CurrentSecrets == WebhookSpec => SuccessUsesCurrentSecret
<1> DEFINE Succeeds(e) == delivery'[e].status = "SUCCEEDED" /\ delivery[e].status # "SUCCEEDED"
           Right(e) == /\ dest.status # "DISABLED" /\ delivery[e].secretVersion = secret
                       /\ dest'.secretVersion = dest.secretVersion
<1>1. ASSUME WebhookInv, [WebhookNext]_webhookVars, NEW e \in Events, Succeeds(e) PROVE Right(e)
  <2>0. DeliveryInv
    BY <1>1 DEF WebhookInv
  <2>1. ~Elsewhere /\ ~WebhookTick /\ \A t \in tasks : ~Drop(t) /\ \A o : ~Execute(t, o)
    BY <1>1 DEF Elsewhere, WebhookTick, Drop, Execute
  <2>2. ASSUME NEW x \in Events, delivery[x].status = "ABSENT", delivery' = Enqueued(delivery, x) PROVE FALSE
    <3>1. delivery'[x].status = "PENDING" /\ \A y \in Events : y # x => delivery'[y] = delivery[y]
      BY <2>0, <2>2, EnqueueRows
    <3>. QED  BY <1>1, <3>1
  <2>3. ASSUME NEW x \in Events, EmitEvent(x) \/ \E u \in Operators : Verify(u, x) PROVE FALSE
    <3>1. delivery' = delivery \/ (delivery[x].status = "ABSENT" /\ delivery' = Enqueued(delivery, x))
      BY <2>0, <2>3 DEF EmitEvent, Verify, DeliveryInv
    <3>. QED  BY <1>1, <2>2, <3>1
  <2>4. ASSUME NEW k \in Keys, Replay(k), request[k].event \in Events PROVE FALSE
    <3>1. /\ delivery'[request[k].event].status = "PENDING"
          /\ \A y \in Events : y # request[k].event => delivery'[y] = delivery[y]
      BY <2>0, <2>4, ReplayRows
    <3>. QED  BY <1>1, <3>1
  <2>5. ASSUME NEW R \in SUBSET Events, NEW B \in SUBSET Events, Claim(R, B) PROVE FALSE
    <3>1. Claims(e) \/ delivery'[e] = delivery[e] \/ Returns(e)
      BY <2>0, <2>5, ClaimRows
    <3>. QED  BY <1>1, <3>1 DEF Claims, Returns
  <2>6. PICK t \in tasks : Complete(t)
    BY <1>1, <2>1, <2>3, <2>4, <2>5, ElsewhereOK
  <2>7. e = t.event /\ SnapshotValid(e) /\ t.outcome = "DELIVERED"
    BY <1>1, <2>0, <2>6, CompleteRows
  <2>8. dest'.secretVersion = secret
    <3>1. PICK d : d = [dest EXCEPT !.status = "ACTIVE", !.verified = TRUE, !.failures = 0, !.reason = "NONE"]
      OBVIOUS
    <3>2. IsDestination(d)
      BY <1>1, <3>1, Zenon DEF WebhookInv, IsDestination
    <3>3. dest' = Stored(d, secret)
      BY <2>6, <2>7, <3>1 DEF Complete
    <3>. QED  BY <3>2, <3>3, StoredOK
  <2>. QED  BY <2>7, <2>8, Zenon DEF SnapshotValid, Enabled
<1>2. WebhookInv /\ [WebhookNext]_webhookVars =>
        [\A e \in Events :
           delivery'[e].status = "SUCCEEDED" /\ delivery[e].status # "SUCCEEDED" =>
             /\ dest.status # "DISABLED"
             /\ delivery[e].secretVersion = secret
             /\ dest'.secretVersion = dest.secretVersion]_webhookVars
  BY <1>1
<1>. QED  BY <1>2, WebhookInvariance, PTL DEF WebhookSpec, SuccessUsesCurrentSecret

-----------------------------------------------------------------------------
(* Deliveries implement LeasedWork.                                        *)

Item(phase, round, tries) == [phase |-> phase, round |-> round, tries |-> tries]

Phase == {"none", "waiting", "held", "lapsed", "done", "dead"}

LEMMA Phases ==
  ASSUME NEW d, NEW time
  PROVE  /\ d.status = "ABSENT" => DeliveryPhase(d, time) = "none"
         /\ d.status \in Waiting => DeliveryPhase(d, time) = "waiting"
         /\ d.status = "CLAIMED" /\ d.expiresAt > time => DeliveryPhase(d, time) = "held"
         /\ d.status = "CLAIMED" /\ ~(d.expiresAt > time) => DeliveryPhase(d, time) = "lapsed"
         /\ d.status = "SUCCEEDED" => DeliveryPhase(d, time) = "done"
         /\ d.status = "DEAD_LETTERED" => DeliveryPhase(d, time) = "dead"
BY DEF DeliveryPhase, Waiting

LEMMA ItemOf ==
  ASSUME NEW d, NEW time
  PROVE  DeliveryItem(d, time) = Item(DeliveryPhase(d, time), d.replays, d.attempts)
BY DEF DeliveryItem, Item

LEMMA ItemFields ==
  ASSUME NEW p, NEW r, NEW n
  PROVE  Item(p, r, n).phase = p /\ Item(p, r, n).round = r /\ Item(p, r, n).tries = n
BY DEF Item

LEMMA ItemMoves ==
  ASSUME NEW p, NEW r, NEW n, NEW q  PROVE [Item(p, r, n) EXCEPT !.phase = q] = Item(q, r, n)
BY DEF Item

LEMMA LeasedItem ==
  ASSUME NEW p \in {"waiting", "lapsed"}, NEW r \in Nat, NEW n \in Nat, n < MaxAttempts
  PROVE  DeliveryWork!Leased(Item(p, r, n), Item("held", r, n + 1))
<1>1. ASSUME NEW x \in [phase : Phase, round : Nat, tries : Nat], x.round = r, x.tries = n,
             NEW y, y = [x EXCEPT !.phase = "held", !.tries = @ + 1]
      PROVE  y = Item("held", r, n + 1)
  BY <1>1, Zenon DEF Item, Phase
<1>2. Item(p, r, n) \in [phase : Phase, round : Nat, tries : Nat]
  BY DEF Item, Phase
<1>3. Item(p, r, n).phase = p /\ Item(p, r, n).round = r /\ Item(p, r, n).tries = n
  BY ItemFields
<1>. QED  BY <1>1, <1>2, <1>3, Zenon DEF DeliveryWork!Leased

LEMMA LeasedCounts ==
  ASSUME NEW p, NEW r, NEW n, NEW y, DeliveryWork!Leased(Item(p, r, n), y)
  PROVE  y.tries = n + 1
<1>1. PICK q \in {"held", "lapsed"} : y = [Item(p, r, n) EXCEPT !.phase = q, !.tries = @ + 1]
  BY Zenon DEF DeliveryWork!Leased
<1>2. ASSUME NEW x, x = Item(p, r, n), y = [x EXCEPT !.phase = q, !.tries = @ + 1]
      PROVE  y.tries = n + 1
  BY <1>2 DEF Item
<1>. QED  BY <1>1, <1>2, Zenon

LEMMA TickLapses ==
  ASSUME WebhookInv, WebhookTick PROVE DeliveryWork!Lapse
<1>1. ASSUME NEW e \in Events
      PROVE  LET x == DeliveryItem(delivery[e], dbNow)
                 y == DeliveryItem(delivery'[e], dbNow')
             IN  y = x \/ (x.phase = "held" /\ y = [x EXCEPT !.phase = "lapsed"])
  <2> DEFINE d == delivery[e]
  <2>0. delivery' = delivery /\ dbNow' = dbNow + 1 /\ dbNow \in Nat /\ d.expiresAt \in Nat /\ d.status \in DeliveryStatuses
    BY DEF WebhookTick, WebhookInv, DeliveryInv, DeliveryOK
  <2>1. CASE d.status = "CLAIMED" /\ d.expiresAt > dbNow /\ ~(d.expiresAt > dbNow + 1)
    BY <2>0, <2>1, Phases, ItemOf, ItemFields, ItemMoves
  <2>2. CASE d.status = "CLAIMED" /\ (d.expiresAt > dbNow <=> d.expiresAt > dbNow + 1)
    BY <2>0, <2>2, Phases, ItemOf
  <2>3. CASE d.status # "CLAIMED"
    BY <2>0, <2>3, Phases, ItemOf DEF DeliveryStatuses
  <2>. QED  BY <2>0, <2>1, <2>2, <2>3
<1>2. HeldBy(tasks') = HeldBy(tasks)
  BY DEF WebhookTick
<1>. QED  BY <1>1, <1>2 DEF DeliveryWork!Lapse

LEMMA EnqueueOffers ==
  ASSUME WebhookInv, NEW e \in Events, delivery[e].status = "ABSENT",
         delivery' = Enqueued(delivery, e), UNCHANGED <<dbNow, tasks>>
  PROVE  DeliveryWork!Offer(e)
<1>1. /\ \A x \in Events : x # e => delivery'[x] = delivery[x]
      /\ delivery'[e].status = "PENDING" /\ delivery'[e].attempts = 0 /\ delivery[e].attempts = 0
      /\ delivery'[e].replays = delivery[e].replays
  BY EnqueueRows, Zenon DEF WebhookInv, DeliveryInv, DeliveryOK
<1> DEFINE r == delivery[e].replays
<1>2. /\ DeliveryItem(delivery[e], dbNow) = Item("none", r, 0)
      /\ DeliveryItem(delivery'[e], dbNow') = Item("waiting", r, 0)
  BY <1>1, Phases, ItemOf DEF Waiting
<1>3. [x \in Events |-> DeliveryItem(delivery'[x], dbNow')] =
        [[x \in Events |-> DeliveryItem(delivery[x], dbNow)] EXCEPT ![e] = Item("waiting", r, 0)]
  BY <1>1, <1>2, Zenon
<1> HIDE DEF r
<1>4. Item("none", r, 0).phase = "none" /\ [Item("none", r, 0) EXCEPT !.phase = "waiting"] = Item("waiting", r, 0)
  BY DEF Item
<1>. QED  BY <1>2, <1>3, <1>4, Zenon DEF DeliveryWork!Offer, DeliveryWork!Change

LEMMA ReplayOffers ==
  ASSUME WebhookInv, NEW k \in Keys, Replay(k), request[k].event \in Events
  PROVE  DeliveryWork!Offer(request[k].event)
<1> DEFINE e == request[k].event
           r == delivery[e].replays
           n == delivery[e].attempts
<1>1. /\ \A x \in Events : x # e => delivery'[x] = delivery[x]
      /\ delivery'[e].status = "PENDING" /\ delivery'[e].attempts = 0
      /\ delivery'[e].replays = r + 1 /\ delivery[e].status = "DEAD_LETTERED" /\ UNCHANGED <<dbNow, tasks>>
  BY ReplayRows, Zenon DEF WebhookInv, Replay, Replayable
<1>2. /\ DeliveryItem(delivery[e], dbNow) = Item("dead", r, n)
      /\ DeliveryItem(delivery'[e], dbNow') = Item("waiting", r + 1, 0)
  BY <1>1, Phases, ItemOf DEF Waiting
<1>3. [x \in Events |-> DeliveryItem(delivery'[x], dbNow')] =
        [[x \in Events |-> DeliveryItem(delivery[x], dbNow)] EXCEPT ![e] = Item("waiting", r + 1, 0)]
  BY <1>1, <1>2, Zenon
<1>4. r \in Nat /\ n \in Nat
  BY DEF WebhookInv, DeliveryInv, DeliveryOK
<1> HIDE DEF r, n
<1>5. ASSUME NEW x \in [phase : Phase, round : Nat, tries : Nat], x.round = r, NEW y,
             y = [x EXCEPT !.phase = "waiting", !.round = @ + 1, !.tries = 0]
      PROVE  y = Item("waiting", r + 1, 0)
  BY <1>5, Zenon DEF Item, Phase
<1>6. Item("dead", r, n) \in [phase : Phase, round : Nat, tries : Nat]
  BY <1>4 DEF Item, Phase
<1>7. Item("dead", r, n).phase = "dead" /\ Item("dead", r, n).round = r
  BY ItemFields
<1>. QED  BY <1>1, <1>2, <1>3, <1>5, <1>6, <1>7, ZenonT(30) DEF DeliveryWork!Offer, DeliveryWork!Change

LEMMA ReturnedItem ==
  ASSUME NEW r \in Nat, NEW n \in Nat, NEW p \in Phase, p = IF n < MaxAttempts THEN "waiting" ELSE "dead"
  PROVE  DeliveryWork!Returned(Item("lapsed", r, n), Item(p, r, n))
BY DEF DeliveryWork!Returned, Item

\* What HeldBy holds
LEMMA HeldTokens ==
  ASSUME NEW T, NEW h
  PROVE  h \in HeldBy(T) <=> \E t \in T : h = <<t.event, <<t.replays, t.attempt>>>>
BY DEF HeldBy

\* A task that is given up takes its token along, unless a twin holds it too.
LEMMA HeldWithout ==
  ASSUME NEW T, NEW t \in T
  PROVE  /\ HeldBy(T \ {t}) \subseteq HeldBy(T)
         /\ HeldBy(T) \ {<<t.event, <<t.replays, t.attempt>>>>} \subseteq HeldBy(T \ {t})
BY DEF HeldBy

\* A poll of the runner is a poll: every lease it takes is a claim of B, and the
\* tokens are those of the new tasks.
LEMMA ClaimPolls ==
  ASSUME WebhookInv, NEW R, NEW B, Claim(R, B)  PROVE DeliveryWork!Poll
<1> DEFINE x(e) == DeliveryItem(delivery[e], dbNow)
           y(e) == DeliveryItem(delivery'[e], dbNow')
<1>0. /\ DeliveryInv /\ dbNow' = dbNow /\ dbNow \in Nat
      /\ ClaimSeconds \in Nat /\ ClaimSeconds > 0 /\ MaxAttempts \in Nat
  <2>1. DeliveryInv /\ dbNow \in Nat
    BY DEF WebhookInv, DeliveryInv
  <2>2. dbNow' = dbNow
    BY Zenon DEF Claim
  <2>3. ClaimSeconds \in Nat /\ ClaimSeconds > 0 /\ MaxAttempts \in Nat
    BY WebhookAssumption
  <2>. QED  BY <2>1, <2>2, <2>3
<1>1. \A e \in Events : /\ delivery[e].attempts \in Nat /\ delivery[e].replays \in Nat
                        /\ delivery[e].expiresAt \in Nat
  BY <1>0 DEF DeliveryInv, DeliveryOK
<1>2. ASSUME NEW e \in Events, e \in B
      PROVE  /\ y(e) = Item("held", delivery[e].replays, delivery[e].attempts + 1)
             /\ DeliveryWork!Leased(x(e), y(e))
  <2>1. Claims(e) /\ delivery'[e].replays = delivery[e].replays
    BY <1>0, <1>2, ClaimRows
  <2>2. delivery'[e].expiresAt > dbNow'
    BY <1>0, <2>1 DEF Claims
  <2>3. y(e) = Item("held", delivery[e].replays, delivery[e].attempts + 1)
    BY <2>1, <2>2, Phases, ItemOf DEF Claims
  <2>4. PICK p \in {"waiting", "lapsed"} : x(e) = Item(p, delivery[e].replays, delivery[e].attempts)
    <3>1. CASE delivery[e].status \in Waiting
      BY <3>1, Phases, ItemOf
    <3>2. CASE delivery[e].status = "CLAIMED" /\ ~(delivery[e].expiresAt > dbNow)
      BY <3>2, Phases, ItemOf
    <3>. QED  BY <1>0, <1>1, <2>1, <3>1, <3>2 DEF Claims
  <2>. QED  BY <1>1, <2>1, <2>3, <2>4, LeasedItem DEF Claims
<1>3. ASSUME NEW e \in Events, e \notin B
      PROVE  (y(e) = x(e) \/ DeliveryWork!Returned(x(e), y(e))) /\ ~DeliveryWork!Leased(x(e), y(e))
  <2>1. /\ delivery'[e] = delivery[e] \/ Returns(e)
        /\ delivery'[e].replays = delivery[e].replays /\ delivery'[e].attempts = delivery[e].attempts
    BY <1>0, <1>3, ClaimRows DEF Returns
  <2>2. ~DeliveryWork!Leased(x(e), y(e))
    <3>1. y(e).tries = delivery[e].attempts
      BY <2>1, ItemOf, ItemFields
    <3>2. x(e) = Item(DeliveryPhase(delivery[e], dbNow), delivery[e].replays, delivery[e].attempts)
      BY ItemOf
    <3> HIDE DEF x, y
    <3>3. DeliveryWork!Leased(x(e), y(e)) => y(e).tries = delivery[e].attempts + 1
      BY <3>2, LeasedCounts
    <3>. QED  BY <1>1, <3>1, <3>3
  <2>3. CASE delivery'[e] = delivery[e]
    BY <1>0, <2>2, <2>3
  <2>4. CASE Returns(e)
    <3> DEFINE p == IF delivery[e].attempts < MaxAttempts THEN "waiting" ELSE "dead"
    <3>1. x(e) = Item("lapsed", delivery[e].replays, delivery[e].attempts)
      BY <1>0, <1>1, <2>4, Phases, ItemOf DEF Returns
    <3>2. y(e) = Item(p, delivery[e].replays, delivery[e].attempts)
      BY <2>1, <2>4, Phases, ItemOf DEF Returns, Waiting
    <3>3. p \in Phase
      BY DEF Phase
    <3>. QED  BY <1>1, <2>2, <3>1, <3>2, <3>3, ReturnedItem
  <2>. QED  BY <2>1, <2>3, <2>4
<1>4. \A e \in Events : e \in B => DeliveryWork!Token(y(e)) = <<delivery[e].replays, delivery[e].attempts + 1>>
  BY <1>2, ItemFields DEF DeliveryWork!Token
<1>5. HeldBy(tasks') = HeldBy(tasks) \cup {<<e, <<delivery[e].replays, delivery[e].attempts + 1>>>> : e \in B}
  <2> DEFINE N == {[event |-> e, replays |-> delivery[e].replays,
                    attempt |-> delivery[e].attempts + 1, outcome |-> "NONE"] : e \in B}
  <2>1. tasks' = tasks \cup N
    BY <1>0, ClaimRows
  <2>2. HeldBy(N) = {<<e, <<delivery[e].replays, delivery[e].attempts + 1>>>> : e \in B}
    <3> DEFINE new(e) == [event |-> e, replays |-> delivery[e].replays,
                          attempt |-> delivery[e].attempts + 1, outcome |-> "NONE"]
    <3>1. \A e : /\ new(e).event = e /\ new(e).replays = delivery[e].replays
                 /\ new(e).attempt = delivery[e].attempts + 1
      OBVIOUS
    <3>2. N = {new(e) : e \in B}
      OBVIOUS
    <3> HIDE DEF new, N
    <3>3. ASSUME NEW h
          PROVE  h \in HeldBy(N) <=> \E e \in B : h = <<e, <<delivery[e].replays, delivery[e].attempts + 1>>>>
      <4>1. h \in HeldBy(N) <=> \E e \in B : h = <<new(e).event, <<new(e).replays, new(e).attempt>>>>
        BY <3>2, HeldTokens
      <4>. QED  BY <3>1, <4>1
    <3>. QED  BY <3>3
  <2> HIDE DEF N
  <2>3. HeldBy(tasks \cup N) = HeldBy(tasks) \cup HeldBy(N)
    <3>1. ASSUME NEW h PROVE h \in HeldBy(tasks \cup N) <=> h \in HeldBy(tasks) \/ h \in HeldBy(N)
      BY HeldTokens
    <3>. QED  BY <3>1
  <2>. QED  BY <2>1, <2>2, <2>3, Zenon
<1>6. B \subseteq Events
  BY <1>0, ClaimRows
<1> HIDE DEF x, y
<1>7. {j \in Events : DeliveryWork!Leased(x(j), y(j))} = B
  BY <1>2, <1>3, <1>6
<1>8. HeldBy(tasks') = HeldBy(tasks) \cup
        {<<i, DeliveryWork!Token(y(i))>> : i \in {j \in Events : DeliveryWork!Leased(x(j), y(j))}}
  BY <1>4, <1>5, <1>6, <1>7
<1>9. \A e \in Events : y(e) = x(e) \/ DeliveryWork!Returned(x(e), y(e)) \/ DeliveryWork!Leased(x(e), y(e))
  BY <1>2, <1>3
<1>. QED  BY <1>8, <1>9, Zenon DEF DeliveryWork!Poll, x, y

\* A completion settles the delivery under the token of its task.
LEMMA CompleteSettles ==
  ASSUME WebhookInv, NEW t \in tasks, Complete(t)
  PROVE  DeliveryWork!Settle(t.event)
<1> DEFINE e == t.event
           r == delivery[e].replays
           n == delivery[e].attempts
<1>1. DeliveryInv /\ dbNow' = dbNow /\ tasks' = tasks \ {t}
  BY DEF WebhookInv, Complete
<1>2. /\ e \in Events /\ Current(t)
      /\ \A x \in Events : x # e => delivery'[x] = delivery[x]
      /\ delivery'[e].attempts = n /\ delivery'[e].replays = r
      /\ \/ delivery'[e].status = "SUCCEEDED"
         \/ delivery'[e].status = "RETRY_WAIT" /\ n < MaxAttempts
         \/ delivery'[e].status = "DEAD_LETTERED"
  BY <1>1, CompleteRows
<1>3. DeliveryItem(delivery[e], dbNow) = Item("held", r, n) /\ t.replays = r /\ t.attempt = n
  BY <1>2, Phases, ItemOf DEF Current
<1>4. PICK p : /\ DeliveryItem(delivery'[e], dbNow') = Item(p, r, n)
               /\ p \in {"done", "dead"} \cup (IF n < MaxAttempts THEN {"waiting"} ELSE {})
  BY <1>2, Phases, ItemOf DEF Waiting
<1>5. [x \in Events |-> DeliveryItem(delivery'[x], dbNow')] =
        [[x \in Events |-> DeliveryItem(delivery[x], dbNow)] EXCEPT ![e] = Item(p, r, n)]
  BY <1>1, <1>2, <1>4, Zenon
<1>6. /\ HeldBy(tasks') \subseteq HeldBy(tasks) /\ <<e, <<r, n>>>> \in HeldBy(tasks)
      /\ HeldBy(tasks) \ {<<e, <<r, n>>>>} \subseteq HeldBy(tasks')
  BY <1>1, <1>3, HeldWithout, HeldTokens
<1> HIDE DEF r, n
<1>7. /\ Item("held", r, n).phase = "held" /\ Item("held", r, n).tries = n
      /\ [Item("held", r, n) EXCEPT !.phase = p] = Item(p, r, n)
      /\ DeliveryWork!Token(Item("held", r, n)) = <<r, n>>
  BY ItemFields, ItemMoves DEF DeliveryWork!Token
<1>8. p \in {"done", "dead"} \cup (IF TRUE /\ Item("held", r, n).tries < MaxAttempts THEN {"waiting"} ELSE {})
  BY <1>4, <1>7
<1>9. [x \in Events |-> DeliveryItem(delivery[x], dbNow)][e] = Item("held", r, n)
  BY <1>2, <1>3
<1> HIDE DEF e
<1>10. DeliveryWork!Change(e, [Item("held", r, n) EXCEPT !.phase = p])
  BY <1>5, <1>7, Zenon DEF DeliveryWork!Change
<1>11. DeliveryWork!Settle(e)
  BY <1>6, <1>7, <1>8, <1>9, <1>10, Zenon DEF DeliveryWork!Settle
<1>. QED  BY <1>11 DEF e

\* A runner that stops, or has an answer, holds no other token than before.
LEMMA TaskForgets ==
  ASSUME WebhookInv, NEW t \in tasks, NEW o, Drop(t) \/ Execute(t, o)
  PROVE  DeliveryWork!Forget
<1>1. UNCHANGED <<delivery, dbNow>>
  BY DEF Drop, Execute
<1>2. HeldBy(tasks') \subseteq HeldBy(tasks)
  <2>1. CASE Drop(t)
    BY <2>1, HeldWithout DEF Drop
  <2>2. CASE Execute(t, o)
    <3>1. PICK new : new = [t EXCEPT !.outcome = o]
      BY Zenon
    <3>2. new.event = t.event /\ new.replays = t.replays /\ new.attempt = t.attempt
      BY <3>1 DEF WebhookInv, DeliveryInv, TaskOK
    <3>3. tasks' = (tasks \ {t}) \cup {new}
      BY <2>2, <3>1 DEF Execute
    <3>. QED  BY <3>2, <3>3, HeldTokens
  <2>. QED  BY <2>1, <2>2
<1>. QED  BY <1>1, <1>2 DEF DeliveryWork!Forget

LEMMA InitMaps == WebhookInit => DeliveryWork!Init
<1> SUFFICES ASSUME WebhookInit PROVE DeliveryWork!Init
  OBVIOUS
<1>1. \A e \in Events : delivery[e].status = "ABSENT" /\ delivery[e].attempts = 0 /\ delivery[e].replays = 0
  BY DEF WebhookInit
<1>2. \A e \in Events : DeliveryItem(delivery[e], dbNow) = [phase |-> "none", round |-> 0, tries |-> 0]
  BY <1>1, Phases DEF DeliveryItem
<1>3. HeldBy(tasks) = {}
  BY DEF WebhookInit, HeldBy
<1>. QED  BY <1>2, <1>3 DEF DeliveryWork!Init

LEMMA StepMaps ==
  ASSUME WebhookInv, [WebhookNext]_webhookVars
  PROVE  [DeliveryWork!Next]_(DeliveryWork!workVars)
<1>1. CASE UNCHANGED <<delivery, tasks, dbNow>>
  BY <1>1 DEF DeliveryWork!workVars
<1>2. CASE WebhookTick
  BY <1>2, TickLapses DEF DeliveryWork!Next
<1>3. ASSUME NEW e \in Events, EmitEvent(e) \/ \E u \in Operators : Verify(u, e)
      PROVE  [DeliveryWork!Next]_(DeliveryWork!workVars)
  <2>1. \/ delivery' = delivery
        \/ delivery[e].status = "ABSENT" /\ delivery' = Enqueued(delivery, e)
    BY <1>3 DEF EmitEvent, Verify, WebhookInv, DeliveryInv
  <2>2. UNCHANGED <<dbNow, tasks>>
    BY <1>3 DEF EmitEvent, Verify
  <2>3. CASE delivery' = delivery
    BY <1>1, <2>2, <2>3
  <2>4. CASE delivery[e].status = "ABSENT" /\ delivery' = Enqueued(delivery, e)
    BY <2>2, <2>4, EnqueueOffers DEF DeliveryWork!Next
  <2>. QED  BY <2>1, <2>3, <2>4
<1>4. ASSUME NEW k \in Keys, Replay(k), request[k].event \in Events PROVE DeliveryWork!Next
  BY <1>4, ReplayOffers DEF DeliveryWork!Next
<1>5. ASSUME NEW R \in SUBSET Events, NEW B \in SUBSET Events, Claim(R, B) PROVE DeliveryWork!Next
  BY <1>5, ClaimPolls DEF DeliveryWork!Next
<1>6. ASSUME NEW t \in tasks, Complete(t) PROVE DeliveryWork!Next
  <2>1. t.event \in Events
    BY DEF WebhookInv, DeliveryInv, TaskOK
  <2>. QED  BY <1>6, <2>1, CompleteSettles DEF DeliveryWork!Next
<1>7. ASSUME NEW t \in tasks, NEW o, Drop(t) \/ Execute(t, o) PROVE DeliveryWork!Next
  BY <1>7, TaskForgets DEF DeliveryWork!Next
<1>8. CASE Elsewhere
  BY <1>1, <1>8 DEF Elsewhere
<1>. QED  BY <1>2, <1>3, <1>4, <1>5, <1>6, <1>7, <1>8, ElsewhereOK

\* The deliveries of a destination implement LeasedWork: whatever runners crash, hang
\* or answer late, a claim ends under its own token or after it expired, and there
\* are at most max_attempts of them per replay.
THEOREM DeliveriesImplementLeasedWork == WebhookSpec => DeliveriesAreLeasedWork
<1>1. WebhookInit => DeliveryWork!Init
  BY InitMaps
<1>2. WebhookInv /\ [WebhookNext]_webhookVars => [DeliveryWork!Next]_(DeliveryWork!workVars)
  BY StepMaps
<1>. QED  BY <1>1, <1>2, WebhookInvariance, PTL DEF WebhookSpec, DeliveriesAreLeasedWork, DeliveryWork!Spec

-----------------------------------------------------------------------------
(***************************************************************************)
(* The cardinality of finite sets. The library is instantiated here, where *)
(* it is first needed; it states its facts of its own copy of the          *)
(* operators.                                                              *)
(***************************************************************************)

FS == INSTANCE FiniteSetTheorems

LEMMA SameFinite == ASSUME NEW S PROVE FS!IsFiniteSet(S) <=> IsFiniteSet(S)
BY Zenon DEF FS!IsFiniteSet, IsFiniteSet

LEMMA SameCardinality == ASSUME NEW S PROVE FS!Cardinality(S) = Cardinality(S)
BY Zenon DEF FS!Cardinality, Cardinality

LEMMA EmptyCount == Cardinality({}) = 0
BY FS!FS_EmptySet, SameCardinality, Zenon

LEMMA PartFinite ==
  ASSUME NEW n \in Int, NEW S \in SUBSET (0..n) PROVE IsFiniteSet(S)
<1>1. FS!IsFiniteSet(0..n)
  BY FS!FS_Interval
<1>. QED  BY <1>1, FS!FS_Subset, SameFinite, Zenon

LEMMA OneElementMore ==
  ASSUME NEW S, IsFiniteSet(S), NEW i, i \notin S
  PROVE  Cardinality(S \cup {i}) = Cardinality(S) + 1
<1>1. FS!IsFiniteSet(S)
  BY SameFinite, Zenon
<1>2. FS!Cardinality(S \cup {i}) = FS!Cardinality(S) + 1
  BY <1>1, FS!FS_AddElement, Zenon
<1>. QED  BY <1>2, SameCardinality, Zenon

-----------------------------------------------------------------------------
(***************************************************************************)
(* Schedules, for any number of schedules, calls and replicas.             *)
(*                                                                         *)
(* The counters of a schedule are the cardinalities of its history by      *)
(* outcome, and a sweep works with a time that has passed.                 *)
(***************************************************************************)

Instants == 0..MaxTime

RowOK(r) ==
  /\ r = [status |-> r.status, interval |-> r.interval, startsAt |-> r.startsAt,
          policy |-> r.policy, next |-> r.next, count |-> r.count]
  /\ r.interval \in Nat /\ r.next \in Nat \cup {Null}
  /\ r.count = [o \in Outcomes |-> r.count[o]]

\* The instants of a history with an outcome
WithOutcome(history, o) == {i \in Instants : history[i].outcome = o}

\* What RunsMatchHistory says of one schedule
Matches(n, history, count) ==
  /\ \A i \in Instants : n[i] = IF history[i].outcome = "FIRED" THEN 1 ELSE 0
  /\ \A o \in Outcomes : count[o] = Cardinality(WithOutcome(history, o))

ClockInv ==
  /\ now \in Instants
  /\ clock = [d \in Dispatchers |-> clock[d]]
  /\ \A d \in Dispatchers : clock[d] = Null \/ clock[d] \in 0..now

\* A schedule that was not created yet has no history.
ScheduleOK(s) ==
  /\ RowOK(row[s])
  /\ trigger[s] = [i \in Instants |-> trigger[s][i]]
  /\ runs[s] = [i \in Instants |-> runs[s][i]]
  /\ row[s].status = "ABSENT" => \A i \in Instants : trigger[s][i].outcome = "NONE"
  /\ Matches(runs[s], trigger[s], row[s].count)

ScheduleInv ==
  /\ ClockInv
  /\ row = [s \in Names |-> row[s]]
  /\ \A s \in Names : ScheduleOK(s)

-----------------------------------------------------------------------------
LEMMA NoHistory ==
  ASSUME NEW history, \A i \in Instants : history[i].outcome = "NONE",
         NEW n, \A i \in Instants : n[i] = 0, NEW count, \A o \in Outcomes : count[o] = 0
  PROVE  Matches(n, history, count)
<1>1. \A o \in Outcomes : WithOutcome(history, o) = {}
  BY DEF WithOutcome, Outcomes
<1>. QED  BY <1>1, EmptyCount DEF Matches

\* A sweep that finds an instant without a trigger stores one outcome, one Run if it
\* is FIRED, and counts it once.
LEMMA OneMore ==
  ASSUME NEW n, n = [i \in Instants |-> n[i]],
         NEW history, history = [i \in Instants |-> history[i]],
         NEW count, count = [o \in Outcomes |-> count[o]],
         Matches(n, history, count),
         NEW i \in Instants, history[i].outcome = "NONE", NEW o \in Outcomes, NEW t, t.outcome = o
  PROVE  Matches([n EXCEPT ![i] = CreateRun(@, o)], [history EXCEPT ![i] = t],
                 [count EXCEPT ![o] = @ + 1])
<1>1. PICK h : h = [history EXCEPT ![i] = t]
  BY Zenon
<1>2. h[i].outcome = o /\ \A j \in Instants : j # i => h[j] = history[j]
  BY <1>1
<1>3. PICK m : m = [n EXCEPT ![i] = CreateRun(@, o)]
  BY Zenon
<1>4. n[i] = 0 /\ \A j \in Instants : j # i => m[j] = n[j]
  BY <1>3 DEF Matches
<1>5. m[i] = IF o = "FIRED" THEN 1 ELSE 0
  BY <1>3, <1>4 DEF CreateRun
<1>6. \A j \in Instants : m[j] = IF h[j].outcome = "FIRED" THEN 1 ELSE 0
  BY <1>2, <1>4, <1>5 DEF Matches
<1>7. PICK c : c = [count EXCEPT ![o] = @ + 1]
  BY Zenon
<1>8. c[o] = count[o] + 1 /\ \A p \in Outcomes : p # o => c[p] = count[p]
  BY <1>7
<1>9. ASSUME NEW p \in Outcomes PROVE c[p] = Cardinality(WithOutcome(h, p))
  <2>1. CASE p # o
    <3>1. WithOutcome(h, p) = WithOutcome(history, p)
      BY <1>2, <2>1 DEF WithOutcome, Outcomes
    <3>. QED  BY <1>8, <2>1, <3>1 DEF Matches
  <2>2. CASE p = o
    <3>1. WithOutcome(h, o) = WithOutcome(history, o) \cup {i}
      BY <1>2 DEF WithOutcome
    <3>2. i \notin WithOutcome(history, o)
      BY DEF WithOutcome, Outcomes
    <3>3. IsFiniteSet(WithOutcome(history, o))
      <4>1. MaxTime \in Int
        BY ScheduleAssumption
      <4>2. WithOutcome(history, o) \in SUBSET (0..MaxTime)
        BY DEF WithOutcome, Instants
      <4>. QED  BY <4>1, <4>2, PartFinite, Zenon
    <3>4. Cardinality(WithOutcome(history, o) \cup {i}) = Cardinality(WithOutcome(history, o)) + 1
      BY <3>2, <3>3, OneElementMore, Zenon
    <3>. QED  BY <1>8, <2>2, <3>1, <3>4 DEF Matches
  <2>. QED  BY <2>1, <2>2
<1>. QED  BY <1>1, <1>3, <1>6, <1>7, <1>9 DEF Matches

LEMMA AdvanceOK ==
  ASSUME NEW r, RowOK(r), r.status # "ABSENT", NEW at \in Nat, r.next \in Nat, r.next <= at
  PROVE  LET y == Advance(r, at) IN RowOK(y) /\ y.count = r.count /\ y.status # "ABSENT"
<1>1. CASE r.interval = 0
  <2>1. PICK y : y = [r EXCEPT !.status = "COMPLETED", !.next = Null]
    OBVIOUS
  <2>2. Advance(r, at) = y
    BY <1>1, <2>1 DEF Advance
  <2>3. y = [status |-> "COMPLETED", interval |-> r.interval, startsAt |-> r.startsAt,
             policy |-> r.policy, next |-> Null, count |-> r.count]
    BY <2>1, Zenon DEF RowOK
  <2>. QED  BY <2>2, <2>3 DEF RowOK
<1>2. CASE r.interval # 0
  <2>1. PICK t : t = r.next + ((at - r.next) \div r.interval + 1) * r.interval
    OBVIOUS
  <2>2. t \in Nat
    <3>1. at - r.next \in Nat /\ r.interval \in Nat \ {0}
      BY <1>2 DEF RowOK
    <3>2. ASSUME NEW a \in Nat, NEW b \in Nat \ {0} PROVE a \div b \in Nat
      OBVIOUS
    <3>3. PICK q \in Nat : q = (at - r.next) \div r.interval
      BY <3>1, <3>2
    <3>4. ASSUME NEW a \in Nat, NEW b \in Nat PROVE (a + 1) * b \in Nat
      OBVIOUS
    <3>5. (q + 1) * r.interval \in Nat
      BY <3>1, <3>4
    <3>. QED  BY <2>1, <3>3, <3>5
  <2>3. PICK y : y = [r EXCEPT !.next = t]
    BY Zenon
  <2>4. Advance(r, at) = y
    BY <1>2, <2>1, <2>3 DEF Advance
  <2>5. y = [status |-> r.status, interval |-> r.interval, startsAt |-> r.startsAt,
             policy |-> r.policy, next |-> t, count |-> r.count]
    BY <2>3 DEF RowOK
  <2>. QED  BY <2>2, <2>4, <2>5 DEF RowOK
<1>. QED  BY <1>1, <1>2

LEMMA CountedOK ==
  ASSUME NEW y, RowOK(y), NEW o \in Outcomes, NEW z, z = [y EXCEPT !.count[o] = @ + 1]
  PROVE  RowOK(z) /\ z.status = y.status /\ z.count = [y.count EXCEPT ![o] = @ + 1]
<1>1. PICK c : c = [y.count EXCEPT ![o] = @ + 1]
  BY Zenon
<1>2. z = [y EXCEPT !.count = c]
  BY <1>1
<1>3. z = [status |-> y.status, interval |-> y.interval, startsAt |-> y.startsAt,
           policy |-> y.policy, next |-> y.next, count |-> c]
  BY <1>2 DEF RowOK
<1>4. c = [p \in Outcomes |-> c[p]]
  BY <1>1 DEF RowOK
<1>. QED  BY <1>1, <1>3, <1>4 DEF RowOK

-----------------------------------------------------------------------------
LEMMA ScheduleInitOK == ScheduleInit => ScheduleInv
<1> SUFFICES ASSUME ScheduleInit PROVE ScheduleInv
  OBVIOUS
<1>1. ClockInv
  BY ScheduleAssumption DEF ScheduleInit, ClockInv, Instants
<1>2. ASSUME NEW s \in Names PROVE ScheduleOK(s)
  <2>1. RowOK(row[s])
    BY DEF ScheduleInit, RowOK
  <2>2. \A i \in Instants : trigger[s][i].outcome = "NONE" /\ runs[s][i] = 0
    BY DEF ScheduleInit, NoTrigger, Instants
  <2>3. \A o \in Outcomes : row[s].count[o] = 0
    BY DEF ScheduleInit
  <2>4. Matches(runs[s], trigger[s], row[s].count)
    BY <2>2, <2>3, NoHistory
  <2>5. trigger[s] = [i \in Instants |-> trigger[s][i]] /\ runs[s] = [i \in Instants |-> runs[s][i]]
    BY DEF ScheduleInit, Instants
  <2>. QED  BY <2>1, <2>2, <2>4, <2>5, Zenon DEF ScheduleOK
<1>. QED  BY <1>1, <1>2 DEF ScheduleInit, ScheduleInv

\* What a sweep does with one schedule
LEMMA SweepOK ==
  ASSUME ScheduleInv, NEW d \in Dispatchers, NEW B, NEW outcome, Sweep(d, B, outcome),
         \A s \in B : outcome[s] \in Outcomes, NEW s \in Names
  PROVE  ScheduleOK(s)'
<1> DEFINE at == clock[d]
           i == row[s].next
<1>0. ScheduleOK(s)
  BY DEF ScheduleInv
<1>1. CASE s \notin B
  <2>1. row'[s] = row[s] /\ trigger'[s] = trigger[s] /\ runs'[s] = runs[s]
    BY <1>1, SMTT(30) DEF Sweep
  <2>. QED  BY <1>0, <2>1, Zenon DEF ScheduleOK
<1>2. CASE s \in B
  <2>1. Due(s, at) /\ at \in 0..now /\ now \in Instants
    BY <1>2 DEF Sweep, DueBatch, ScheduleInv, ClockInv
  <2>2. /\ i \in Instants /\ i \in Nat /\ at \in Nat /\ i <= at /\ row[s].status = "ACTIVE"
    <3>1. i \in Nat \cup {Null}
      BY <1>0, Zenon DEF ScheduleOK, RowOK
    <3>2. row[s].status = "ACTIVE" /\ i # Null /\ i <= at
      BY <2>1 DEF Due
    <3>3. now \in 0..MaxTime /\ MaxTime \in Int
      BY <2>1, ScheduleAssumption DEF Instants
    <3>. QED  BY <2>1, <3>1, <3>2, <3>3 DEF Instants
  <2>3. PICK y : y = Advance(row[s], at)
    BY Zenon
  <2>4. RowOK(y) /\ y.count = row[s].count /\ y.status # "ABSENT"
    BY <1>0, <2>2, <2>3, AdvanceOK DEF ScheduleOK
  <2>5. CASE trigger[s][i].outcome # "NONE"
    <3>1. row'[s] = y /\ trigger'[s] = trigger[s] /\ runs'[s] = runs[s]
      BY <1>2, <2>3, <2>5 DEF Sweep
    <3>. QED  BY <1>0, <2>4, <3>1, Zenon DEF ScheduleOK
  <2>6. CASE trigger[s][i].outcome = "NONE"
    <3>1. PICK o \in Outcomes : o = outcome[s]
      BY <1>2
    <3>2. PICK t : t = [outcome |-> o, observedAt |-> at]
      BY Zenon
    <3>3. /\ row'[s] = [y EXCEPT !.count[o] = @ + 1]
          /\ trigger'[s] = [trigger[s] EXCEPT ![i] = t]
          /\ runs'[s] = [runs[s] EXCEPT ![i] = CreateRun(@, o)]
      BY <1>2, <2>3, <2>6, <3>1, <3>2 DEF Sweep
    <3>4. /\ RowOK(row'[s]) /\ row'[s].status # "ABSENT"
          /\ row'[s].count = [row[s].count EXCEPT ![o] = @ + 1]
      <4>1. PICK z : z = [y EXCEPT !.count[o] = @ + 1]
        BY Zenon
      <4>2. RowOK(z) /\ z.status = y.status /\ z.count = [y.count EXCEPT ![o] = @ + 1]
        BY <2>4, <4>1, CountedOK, ZenonT(30)
      <4>3. row'[s] = z
        BY <3>3, <4>1
      <4>. QED  BY <2>4, <4>2, <4>3
    <3>5. /\ trigger'[s] = [j \in Instants |-> trigger'[s][j]]
          /\ runs'[s] = [j \in Instants |-> runs'[s][j]]
      BY <1>0, <3>3, Zenon DEF ScheduleOK
    <3>6. t.outcome = o
      BY <3>2
    <3>7. Matches(runs'[s], trigger'[s], row'[s].count)
      <4>1. PICK n, h, c : n = runs[s] /\ h = trigger[s] /\ c = row[s].count
        OBVIOUS
      <4>2. /\ n = [j \in Instants |-> n[j]] /\ h = [j \in Instants |-> h[j]]
            /\ c = [p \in Outcomes |-> c[p]] /\ Matches(n, h, c)
        BY <1>0, <4>1, Zenon DEF ScheduleOK, RowOK
      <4>3. i \in Instants /\ h[i].outcome = "NONE"
        BY <2>2, <2>6, <4>1
      <4>4. PICK k : k = i
        OBVIOUS
      <4>5. Matches([n EXCEPT ![k] = CreateRun(@, o)], [h EXCEPT ![k] = t], [c EXCEPT ![o] = @ + 1])
        BY <3>6, <4>2, <4>3, <4>4, OneMore, Zenon
      <4>. QED  BY <3>3, <3>4, <4>1, <4>4, <4>5
    <3>. QED  BY <3>4, <3>5, <3>7 DEF ScheduleOK
  <2>. QED  BY <2>5, <2>6
<1>. QED  BY <1>1, <1>2

LEMMA ScheduleStepOK ==
  ASSUME ScheduleInv, [ScheduleNext]_scheduleVars PROVE ScheduleInv'
<1> USE DEF ScheduleInv
<1>1. CASE UNCHANGED <<now, row, trigger, runs, clock>>
  BY <1>1 DEF ClockInv, ScheduleOK
<1>2. CASE ScheduleTick
  <2>1. now' = now + 1 /\ now < MaxTime /\ UNCHANGED <<row, trigger, runs, clock>>
    BY <1>2 DEF ScheduleTick
  <2>2. ClockInv'
    BY <2>1, ScheduleAssumption DEF ClockInv, Instants
  <2>. QED  BY <2>1, <2>2 DEF ScheduleOK
<1>3. ASSUME NEW s \in Names, NEW interval \in Intervals \cup {0}, NEW startsAt \in Starts, NEW policy,
             CreateSchedule(s, interval, startsAt, policy)
      PROVE  ScheduleInv'
  <2>1. PICK new : new = [status |-> "ACTIVE", interval |-> interval, startsAt |-> startsAt,
                          policy |-> policy, next |-> startsAt, count |-> [o \in Outcomes |-> 0]]
    BY Zenon
  <2>2. /\ row[s].status = "ABSENT" /\ row' = [row EXCEPT ![s] = new]
        /\ UNCHANGED <<now, trigger, runs, clock>>
    BY <1>3, <2>1 DEF CreateSchedule
  <2>3. RowOK(new) /\ new.status = "ACTIVE" /\ \A o \in Outcomes : new.count[o] = 0
    BY <2>1, ScheduleAssumption DEF RowOK
  <2>4. /\ row' = [x \in Names |-> row'[x]] /\ row'[s] = new
        /\ \A x \in Names : x # s => row'[x] = row[x]
    BY <2>2
  <2>5. /\ \A i \in Instants : trigger[s][i].outcome = "NONE"
        /\ \A i \in Instants : runs[s][i] = 0
    BY <2>2, Zenon DEF ScheduleOK, Matches
  <2>6. Matches(runs[s], trigger[s], new.count)
    BY <2>3, <2>5, NoHistory
  <2>7. ScheduleOK(s)'
    BY <2>2, <2>3, <2>4, <2>6, Zenon DEF ScheduleOK
  <2>8. \A x \in Names : x # s => ScheduleOK(x)'
    BY <2>2, <2>4 DEF ScheduleOK
  <2>. QED  BY <2>2, <2>4, <2>7, <2>8 DEF ClockInv
<1>4. ASSUME NEW u \in Users, NEW target \in {"ACTIVE", "PAUSED"}, SetSchedulePaused(u, target)
      PROVE  ScheduleInv'
  <2>1. PICK s, seen : /\ row' = [row EXCEPT ![s] = NewStatus(@, seen, target)]
                       /\ UNCHANGED <<now, trigger, runs, clock>>
    BY <1>4, Zenon DEF SetSchedulePaused
  <2>2. ASSUME NEW r, RowOK(r)
        PROVE  LET y == NewStatus(r, seen, target)
               IN  RowOK(y) /\ y.count = r.count /\ (y.status = "ABSENT" => r.status = "ABSENT")
    <3>1. PICK y : y = [r EXCEPT !.status = target]
      BY Zenon
    <3>2. y = [status |-> target, interval |-> r.interval, startsAt |-> r.startsAt,
               policy |-> r.policy, next |-> r.next, count |-> r.count]
      BY <2>2, <3>1 DEF RowOK
    <3>3. RowOK(y) /\ y.count = r.count /\ y.status # "ABSENT"
      BY <2>2, <3>2 DEF RowOK
    <3>4. NewStatus(r, seen, target) \in {r, y}
      BY <3>1 DEF NewStatus
    <3>. QED  BY <2>2, <3>3, <3>4
  <2>3. /\ row' = [x \in Names |-> row'[x]]
        /\ \A x \in Names : row'[x] = row[x] \/ row'[x] = NewStatus(row[x], seen, target)
    BY <2>1
  <2>4. ASSUME NEW x \in Names PROVE ScheduleOK(x)'
    <3>1. ScheduleOK(x)
      OBVIOUS
    <3>2. RowOK(row'[x]) /\ row'[x].count = row[x].count /\ (row'[x].status = "ABSENT" => row[x].status = "ABSENT")
      BY <2>2, <2>3, <3>1 DEF ScheduleOK
    <3>. QED  BY <2>1, <3>1, <3>2 DEF ScheduleOK
  <2>. QED  BY <2>1, <2>3, <2>4 DEF ClockInv
<1>5. ASSUME NEW d \in Dispatchers, StartSweep(d) \/ AbandonSweep(d) PROVE ScheduleInv'
  <2>1. /\ UNCHANGED <<now, row, trigger, runs>>
        /\ clock' = [clock EXCEPT ![d] = now] \/ clock' = [clock EXCEPT ![d] = Null]
    BY <1>5 DEF StartSweep, AbandonSweep
  <2>2. ClockInv'
    BY <2>1 DEF ClockInv, Instants
  <2>. QED  BY <2>1, <2>2 DEF ScheduleOK
<1>6. ASSUME NEW d \in Dispatchers, Dispatch(d) PROVE ScheduleInv'
  <2>1. PICK B \in SUBSET Names, outcome \in UNION {[S -> Outcomes] : S \in SUBSET Names} :
          Sweep(d, B, outcome) /\ outcome \in [B -> Outcomes]
    BY <1>6 DEF Dispatch
  <2>2. \A s \in B : outcome[s] \in Outcomes
    BY <2>1
  <2>3. \A s \in Names : ScheduleOK(s)'
    BY <2>1, <2>2, SweepOK
  <2>4. ClockInv' /\ row' = [s \in Names |-> row'[s]]
    BY <2>1 DEF Sweep, ClockInv
  <2>. QED  BY <2>3, <2>4
<1>. QED  BY <1>1, <1>2, <1>3, <1>4, <1>5, <1>6, Zenon
          DEF ScheduleNext, scheduleVars, Read, Lock, Disconnect

-----------------------------------------------------------------------------
\* A sweep works with a time that has passed, rows keep their shape, and Runs,
\* counters and history of every schedule agree.
THEOREM ScheduleInvariance == ScheduleSpec => []ScheduleInv
<1>1. ScheduleInv /\ [ScheduleNext]_scheduleVars => ScheduleInv'
  BY ScheduleStepOK
<1>. QED  BY <1>1, ScheduleInitOK, PTL DEF ScheduleSpec

\* Any number of replicas, pauses and resumes: an instant has one Run exactly if its
\* trigger says FIRED, and dispatch_due_schedules counts each trigger once.
THEOREM RunsAgree == ScheduleSpec => []RunsMatchHistory
<1>1. ScheduleInv => RunsMatchHistory
  BY Zenon DEF ScheduleInv, ScheduleOK, Matches, WithOutcome, RunsMatchHistory, Instants
<1>. QED  BY <1>1, ScheduleInvariance, PTL
=============================================================================
