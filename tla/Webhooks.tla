------------------------------- MODULE Webhooks -------------------------------
(***************************************************************************)
(* One webhook destination of a project and the deliveries of its events   *)
(* (apps/api/app/services/webhook_destinations.py, webhook_deliveries.py,  *)
(* events.py; the delivery runner webhook_delivery_runner.py with the      *)
(* database functions of migration 0033).                                  *)
(*                                                                         *)
(* Claims, completions and replays lock the rows they decide on and are    *)
(* one step each.  A rotation, verification or disablement loads the       *)
(* destination first (Load) and locks it later, and the lock does not      *)
(* refresh it; its version check therefore compares the version the caller *)
(* expects with the loaded one and adds nothing to the model.              *)
(***************************************************************************)
EXTENDS Integers, FiniteSets

CONSTANTS
  Events,        \* events of a type the destination subscribes to
  Operators,         \* concurrent rotations, verifications and disablements
  Keys,          \* idempotency keys of replay requests
  NoKey,
  DeliveryBatch,     \* webhook_delivery_max_concurrency
  ClaimSeconds,  \* webhook_delivery_claim_seconds
  RetryUnit,     \* the 5 seconds of the backoff
  RetryCap,      \* the 3600 seconds of the backoff
  MaxAttempts,   \* max_attempts
  Threshold,     \* failure_threshold
  MaxSecret,     \* bound: versions of the signing secret
  MaxDbTime        \* bound: the clock stops here

ASSUME WebhookAssumption ==
  /\ NoKey \notin Keys /\ IsFiniteSet(Events)
  /\ DeliveryBatch \in Nat \ {0} /\ ClaimSeconds \in Nat \ {0}
  /\ RetryUnit \in Nat /\ RetryCap \in Nat
  /\ MaxAttempts \in Nat \ {0} /\ Threshold \in Nat \ {0}
  /\ MaxSecret \in Nat /\ MaxDbTime \in Nat

VARIABLES
  dbNow,       \* the clock of the database
  secret,    \* the version of the signing secret in security.project_secrets
  dest,      \* the row of control.webhook_destinations
  loaded,    \* the destination as each open request of a user loaded it
  emitted,   \* control.events
  delivery,  \* control.webhook_delivery_attempts, by event
  tasks,     \* the claims held by runner processes
  request,   \* the replay request sent under each key
  applied    \* how often each replay request took effect

webhookVars ==
  <<dbNow, secret, dest, loaded, emitted, delivery, tasks, request, applied>>

Enabled == {"PENDING_VERIFICATION", "ACTIVE"}
Waiting == {"PENDING", "RETRY_WAIT"}
Retryable == {"HTTP_RETRY"}
DeliveryOutcomes == {"DELIVERED", "HTTP_PERMANENT", "CONFIGURATION_ERROR"} \cup Retryable

Destination ==
  [status : Enabled \cup {"DISABLED"}, verified : BOOLEAN, failures : 0..Threshold,
   reason : {"NONE", "AUTO_FAILURE_THRESHOLD", "OPERATOR_DISABLED"},
   secretVersion : 1..MaxSecret]

NoRequest == [status |-> "NONE"]

\* replays also stands for the version that a replay request must name: a
\* dead-lettered row changes by a replay only.  <<replays, attempts>> stands for
\* the claim token.
Delivery ==
  [status : Waiting \cup {"ABSENT", "CLAIMED", "SUCCEEDED", "DEAD_LETTERED"},
   attempts : Nat, availableAt : Nat, expiresAt : Nat,
   secretVersion : 0..MaxSecret, replays : Nat,
   lastKey : Keys \cup {NoKey}]

Task ==
  [event : Events, replays : Nat, attempt : Nat, outcome : DeliveryOutcomes \cup {"NONE"}]

\* The constraints ck_webhook_destinations_activation and _disabled_reason
DestinationOK(d) ==
  /\ d \in Destination
  /\ d.status = "ACTIVE" => d.verified
  /\ (d.status = "DISABLED") <=> (d.reason # "NONE")

\* Columns keep their types and the destination its constraints.
WebhookTypeOK ==
  /\ dbNow \in 0..MaxDbTime /\ secret \in 1..MaxSecret
  /\ DestinationOK(dest)
  /\ loaded \in [Operators -> Destination \cup {NoRequest}]
  /\ emitted \subseteq Events
  /\ delivery \in [Events -> Delivery]
  /\ tasks \subseteq Task
  /\ request \in [Keys -> [event : Events, replays : Nat] \cup {NoRequest}]
  /\ applied \in [Keys -> Nat]

-----------------------------------------------------------------------------
\* create_webhook_destination has stored the destination and its secret.
WebhookInit ==
  /\ dbNow = 0 /\ secret = 1
  /\ dest = [status |-> "PENDING_VERIFICATION", verified |-> FALSE, failures |-> 0,
             reason |-> "NONE", secretVersion |-> 1]
  /\ loaded = [u \in Operators |-> NoRequest]
  /\ emitted = {}
  /\ delivery = [e \in Events |->
                   [status |-> "ABSENT", attempts |-> 0, availableAt |-> 0,
                    expiresAt |-> 0, secretVersion |-> 0, replays |-> 0,
                    lastKey |-> NoKey]]
  /\ tasks = {}
  /\ request = [k \in Keys |-> NoRequest]
  /\ applied = [k \in Keys |-> 0]

WebhookTick ==
  /\ dbNow < MaxDbTime
  /\ dbNow' = dbNow + 1
  /\ UNCHANGED <<secret, dest, loaded, emitted, delivery, tasks, request, applied>>

\* Every update of the destination row runs enforce_webhook_destination_tenancy,
\* which sets the secret version from the secret.
Stored(d, s) == [d EXCEPT !.secretVersion = s]

\* replace_project_secret changes the signing secret like any other secret.
ReplaceSecret ==
  /\ secret < MaxSecret
  /\ secret' = secret + 1
  /\ UNCHANGED <<dbNow, dest, loaded, emitted, delivery, tasks, request, applied>>

\* enqueue_webhook_delivery; the trigger takes the snapshot of the destination.
Enqueued(D, e) ==
  [D EXCEPT ![e] = [D[e] EXCEPT !.status = "PENDING", !.availableAt = dbNow,
                                !.secretVersion = dest.secretVersion]]

\* emit_event, with the delivery for an active destination
EmitEvent(e) ==
  /\ e \notin emitted
  /\ emitted' = emitted \cup {e}
  /\ delivery' = IF dest.status = "ACTIVE" THEN Enqueued(delivery, e) ELSE delivery
  /\ UNCHANGED <<dbNow, secret, dest, loaded, tasks, request, applied>>

-----------------------------------------------------------------------------
(* Requests of users on the destination.                                   *)

\* get_webhook_destination
Load(u) ==
  /\ loaded[u] = NoRequest
  /\ loaded' = [loaded EXCEPT ![u] = dest]
  /\ UNCHANGED <<dbNow, secret, dest, emitted, delivery, tasks, request, applied>>

\* A refusal, a failed constraint or a lost connection
Finish(u) ==
  /\ loaded[u] # NoRequest
  /\ loaded' = [loaded EXCEPT ![u] = NoRequest]
  /\ UNCHANGED <<dbNow, secret, dest, emitted, delivery, tasks, request, applied>>

\* A column is written only when it was changed from the loaded value.
Write(old, new) ==
  [f \in DOMAIN old |-> IF new[f] = old[f] THEN dest[f] ELSE new[f]]

\* rotate_webhook_signing_secret
Rotate(u) ==
  LET new == [loaded[u] EXCEPT !.status = "PENDING_VERIFICATION", !.verified = FALSE,
                               !.failures = 0, !.reason = "NONE"]
      d == Stored(Write(loaded[u], new), secret + 1)
  IN  /\ loaded[u] # NoRequest /\ secret < MaxSecret
      /\ DestinationOK(d)
      /\ secret' = secret + 1
      /\ dest' = d
      /\ loaded' = [loaded EXCEPT ![u] = NoRequest]
      /\ UNCHANGED <<dbNow, emitted, delivery, tasks, request, applied>>

\* verify_webhook_destination
Verify(u, e) ==
  /\ loaded[u] # NoRequest /\ loaded[u].status = "PENDING_VERIFICATION"
  /\ e \in emitted /\ delivery[e].status = "ABSENT" /\ dest.status \in Enabled
  /\ delivery' = Enqueued(delivery, e)
  /\ loaded' = [loaded EXCEPT ![u] = NoRequest]
  /\ UNCHANGED <<dbNow, secret, dest, emitted, tasks, request, applied>>

\* disable_webhook_destination
Disable(u) ==
  LET new == [loaded[u] EXCEPT !.status = "DISABLED", !.reason = "OPERATOR_DISABLED"]
      d == Stored(Write(loaded[u], new), secret)
  IN  /\ loaded[u] # NoRequest
      /\ DestinationOK(d)
      /\ dest' = d
      /\ loaded' = [loaded EXCEPT ![u] = NoRequest]
      /\ UNCHANGED <<dbNow, secret, emitted, delivery, tasks, request, applied>>

-----------------------------------------------------------------------------
(* Replays.                                                                *)

\* A client reads a failed delivery and decides to replay it.
RequestReplay(k, e) ==
  /\ request[k] = NoRequest /\ delivery[e].status = "DEAD_LETTERED"
  /\ request' = [request EXCEPT ![k] = [event |-> e, replays |-> delivery[e].replays]]
  /\ UNCHANGED <<dbNow, secret, dest, loaded, emitted, delivery, tasks, applied>>

\* Mutant: the version is not compared.
ReplayableAnyVersion(k) ==
  /\ request[k] # NoRequest
  /\ LET d == delivery[request[k].event]
     IN  /\ d.lastKey # k
         /\ d.status = "DEAD_LETTERED"
         /\ dest.reason # "OPERATOR_DISABLED"
         /\ d.secretVersion = dest.secretVersion

\* The conditions of replay_webhook_delivery; a repetition of the last replay
\* returns the delivery unchanged.
Replayable(k) ==
  /\ request[k] # NoRequest
  /\ LET d == delivery[request[k].event]
     IN  /\ d.lastKey # k
         /\ d.replays = request[k].replays
         /\ d.status = "DEAD_LETTERED"
         /\ dest.reason # "OPERATOR_DISABLED"
         /\ d.secretVersion = dest.secretVersion

\* replay_webhook_delivery; the request may arrive any number of times.
Replay(k) ==
  LET e == request[k].event
  IN  /\ Replayable(k)
      /\ delivery' = [delivery EXCEPT
           ![e] = [delivery[e] EXCEPT !.status = "PENDING", !.attempts = 0, !.availableAt = dbNow,
                                      !.replays = @ + 1, !.lastKey = k]]
      /\ dest' = IF dest.status # "DISABLED" THEN dest
                 ELSE Stored([dest EXCEPT
                        !.status = IF dest.verified THEN "ACTIVE" ELSE "PENDING_VERIFICATION",
                        !.failures = 0, !.reason = "NONE"], secret)
      /\ applied' = [applied EXCEPT ![k] = @ + 1]
      /\ UNCHANGED <<dbNow, secret, loaded, emitted, tasks, request>>

-----------------------------------------------------------------------------
(* The delivery runner.                                                    *)

Min(a, b) == IF a <= b THEN a ELSE b

\* The destination after n more dead letters
AfterFailures(d, n) ==
  IF n = 0 \/ d.status \notin Enabled THEN d
  ELSE LET counted == [Stored(d, secret) EXCEPT !.failures = Min(Threshold, @ + n)]
       IN  IF d.failures + n < Threshold THEN counted
           ELSE [counted EXCEPT !.status = "DISABLED", !.reason = "AUTO_FAILURE_THRESHOLD"]

\* B is the first DeliveryBatch elements of S by the time f.
First(B, S, f) ==
  /\ B \subseteq S
  /\ Cardinality(B) = Min(DeliveryBatch, Cardinality(S))
  /\ \A x \in B, y \in S \ B : f[x] <= f[y]

\* Mutant: claims are taken back for enabled destinations only.
ExpiredClaimsEnabled ==
  {e \in Events : /\ delivery[e].status = "CLAIMED" /\ delivery[e].expiresAt <= dbNow
                  /\ dest.status \in Enabled}

ExpiredClaims ==
  {e \in Events : delivery[e].status = "CLAIMED" /\ delivery[e].expiresAt <= dbNow}

\* Mutant: one attempt more
ExhaustedLater(e) == delivery[e].attempts > MaxAttempts

Exhausted(e) == delivery[e].attempts >= MaxAttempts

\* The deliveries after the expired claims R were taken back
Reclaimed(R) ==
  [e \in Events |->
     IF e \notin R THEN delivery[e]
     ELSE [delivery[e] EXCEPT !.status = IF Exhausted(e) THEN "DEAD_LETTERED" ELSE "RETRY_WAIT",
                              !.availableAt = dbNow, !.expiresAt = 0]]

\* claim_webhook_delivery_canary: the claims R have expired, the deliveries B
\* are claimed.
Claim(R, B) ==
  LET D == Reclaimed(R)
      d == AfterFailures(dest, Cardinality({e \in R : Exhausted(e)}))
      due == {e \in Events : D[e].status \in Waiting /\ D[e].availableAt <= dbNow}
      expiry == [e \in Events |-> delivery[e].expiresAt]
      available == [e \in Events |-> D[e].availableAt]
  IN  /\ First(R, ExpiredClaims, expiry)
      /\ First(B, IF d.status \in Enabled THEN due ELSE {}, available)
      /\ R \cup B # {}
      /\ dest' = d
      /\ delivery' = [e \in Events |->
           IF e \notin B THEN D[e]
           ELSE [D[e] EXCEPT !.status = "CLAIMED", !.attempts = @ + 1,
                             !.expiresAt = dbNow + ClaimSeconds]]
      /\ tasks' = tasks \cup {[event |-> e, replays |-> D[e].replays,
                               attempt |-> D[e].attempts + 1, outcome |-> "NONE"] : e \in B}
      /\ UNCHANGED <<dbNow, secret, loaded, emitted, request, applied>>

\* The row still carries the claim of the task.
Current(t) ==
  LET d == delivery[t.event]
  IN  /\ d.status = "CLAIMED" /\ d.expiresAt > dbNow
      /\ d.replays = t.replays /\ d.attempts = t.attempt

\* Mutant: the destination is not compared.
SnapshotValidOnce(e) == delivery[e].secretVersion = secret

\* The destination is enabled and its secret the one of the snapshot.
SnapshotValid(e) ==
  /\ dest.status \in Enabled
  /\ delivery[e].secretVersion = secret
  /\ delivery[e].secretVersion = dest.secretVersion

\* execute_claim: load_webhook_delivery_claim, then the request to the endpoint
Execute(t, outcome) ==
  /\ t.outcome = "NONE"
  /\ outcome # "CONFIGURATION_ERROR" => Current(t) /\ SnapshotValid(t.event)
  /\ tasks' = (tasks \ {t}) \cup {[t EXCEPT !.outcome = outcome]}
  /\ UNCHANGED <<dbNow, secret, dest, loaded, emitted, delivery, request, applied>>

RetryDelay(n) == Min(RetryCap, 2 ^ Min(n, 10) * RetryUnit)

\* The row after a completion with the given final outcome
Completed(d, outcome) ==
  LET done == [d EXCEPT !.expiresAt = 0]
  IN  IF outcome = "DELIVERED" THEN [done EXCEPT !.status = "SUCCEEDED"]
      ELSE IF outcome \in Retryable /\ d.attempts < MaxAttempts
           THEN [done EXCEPT !.status = "RETRY_WAIT",
                             !.availableAt = dbNow + RetryDelay(d.attempts)]
           ELSE [done EXCEPT !.status = "DEAD_LETTERED"]

\* complete_webhook_delivery_canary under a live claim
Complete(t) ==
  LET outcome == IF SnapshotValid(t.event) THEN t.outcome ELSE "CONFIGURATION_ERROR"
      after == Completed(delivery[t.event], outcome)
  IN  /\ t.outcome # "NONE" /\ Current(t)
      /\ delivery' = [delivery EXCEPT ![t.event] = after]
      /\ dest' = IF outcome = "DELIVERED"
                 THEN Stored([dest EXCEPT !.status = "ACTIVE", !.verified = TRUE,
                                          !.failures = 0, !.reason = "NONE"], secret)
                 ELSE AfterFailures(dest, IF after.status = "DEAD_LETTERED" THEN 1 ELSE 0)
      /\ tasks' = tasks \ {t}
      /\ UNCHANGED <<dbNow, secret, loaded, emitted, request, applied>>

\* The runner stops, or the completion is fenced or fails.
Drop(t) ==
  /\ tasks' = tasks \ {t}
  /\ UNCHANGED <<dbNow, secret, dest, loaded, emitted, delivery, request, applied>>

-----------------------------------------------------------------------------
Poll == \E R, B \in SUBSET Events : Claim(R, B)

WebhookNext ==
  \/ WebhookTick
  \/ ReplaceSecret
  \/ \E e \in Events : EmitEvent(e)
  \/ \E u \in Operators :
       \/ Load(u) \/ Finish(u) \/ Rotate(u) \/ Disable(u)
       \/ \E e \in Events : Verify(u, e)
  \/ \E k \in Keys : Replay(k) \/ \E e \in Events : RequestReplay(k, e)
  \/ Poll
  \/ \E t \in tasks :
       Complete(t) \/ Drop(t) \/ \E outcome \in DeliveryOutcomes : Execute(t, outcome)

WebhookSpec == WebhookInit /\ [][WebhookNext]_webhookVars

\* run_loop polls again whatever happened; nothing is assumed of claims it holds.
WebhookFairness == WF_webhookVars(WebhookTick) /\ WF_webhookVars(Poll)

FairWebhookSpec == WebhookSpec /\ WebhookFairness

-----------------------------------------------------------------------------
(* Properties.                                                             *)

\* A replay request takes effect at most once, even when it is repeated after
\* another replay of the same delivery (only the last key is remembered).
ReplayedOnce == \A k \in Keys : applied[k] <= 1

\* A request that was answered while its destination was disabled or its secret
\* replaced never counts as delivered, and so never verifies the destination.
SuccessUsesCurrentSecret ==
  [][\A e \in Events :
       delivery'[e].status = "SUCCEEDED" /\ delivery[e].status # "SUCCEEDED" =>
         /\ dest.status # "DISABLED"
         /\ delivery[e].secretVersion = secret
         /\ dest'.secretVersion = dest.secretVersion]_webhookVars

DeliveryPhase(d, time) ==
  CASE d.status = "ABSENT" -> "none"
    [] d.status \in Waiting -> "waiting"
    [] d.status = "CLAIMED" -> IF d.expiresAt > time THEN "held" ELSE "lapsed"
    [] d.status = "SUCCEEDED" -> "done"
    [] d.status = "DEAD_LETTERED" -> "dead"

DeliveryItem(d, time) ==
  [phase |-> DeliveryPhase(d, time), round |-> d.replays, tries |-> d.attempts]

\* The tokens that the tasks hold
HeldBy(T) == {<<t.event, <<t.replays, t.attempt>>>> : t \in T}

DeliveryWork ==
  INSTANCE LeasedWork WITH
    Items <- Events, MaxTries <- MaxAttempts, Redelivers <- TRUE, Lenient <- FALSE,
    item <- [e \in Events |-> DeliveryItem(delivery[e], dbNow)],
    holding <- HeldBy(tasks)

\* Deliveries are leased work: a claim of a lost runner is taken back only after it
\* expired, a completion counts only for the claim and the replay it was made under,
\* a delivery is attempted at most max_attempts times per replay, a success is final
\* and a dead letter is left by a replay only.
DeliveriesAreLeasedWork == DeliveryWork!Spec

\* Expired claims are taken back and due deliveries claimed: no delivery of an
\* enabled destination, and no expired claim of any destination, waits forever.
DueIsClaimed ==
  \A e \in Events :
    LET due == \/ delivery[e].status = "CLAIMED" /\ delivery[e].expiresAt <= dbNow
               \/ /\ delivery[e].status \in Waiting /\ delivery[e].availableAt <= dbNow
                  /\ dest.status \in Enabled
    IN  due ~> ~due

===============================================================================
