---------------------------- MODULE EgressCanaries ----------------------------
(***************************************************************************)
(* A project secret that an egress policy names as its credential, and the *)
(* canary attempts that each rotation of the secret schedules for the      *)
(* policy (apps/api/app/services/egress_credential_canaries.py and         *)
(* builds_secrets.py, egress_credential_canary_runner.py and _transport.py,*)
(* migrations 0026 to 0028).                                               *)
(*                                                                         *)
(* A rotation advances the version of the secret and inserts at most one   *)
(* attempt per active policy, so an attempt of this policy is named by the *)
(* version of the secret that it tests.  Claims last ClaimTicks; an        *)
(* attempt stores the ticks its claim has left.                            *)
(***************************************************************************)
EXTENDS Integers, Sequences, FiniteSets

CONSTANTS
  MaxSecretVersion,  \* bound on the rotations
  Targets,         \* digests of the canary target that a process may be configured with
  ClaimTicks,      \* egress_credential_canary_claim_seconds
  MaxCanaryAttempts,
  CanaryBatch,     \* attempts claimed at a time
  MaxRetries,      \* further addresses that one probe tries
  Replies          \* what one connection can come to

\* _single_request: the class of the status, or the exception that it raises
Reply == {"2xx", "401", "other", "dns", "tls", "timeout", "target"}

ASSUME CanaryAssumption ==
  /\ {ClaimTicks, MaxCanaryAttempts, CanaryBatch, MaxSecretVersion} \subseteq Nat \ {0}
  /\ Replies \subseteq Reply
  /\ MaxRetries \in {0, 1}

VARIABLES
  secretVersion,   \* the version of the ProjectSecret
  canary,          \* egress_credential_canary_attempts, by secret version
  probes           \* claims in the memory of runner processes

canaryVars == <<secretVersion, canary, probes>>

SecretVersions == 1 .. MaxSecretVersion
NotScheduled == [status |-> "none"]

\* classifications of CANARY_OUTCOMES, and those only the database gives
CanaryOutcomes == {"SUCCESS", "AUTH_REJECTED", "TARGET_ERROR", "TIMEOUT", "TLS_FAILURE", "DNS_FAILURE"}
Conclusions == CanaryOutcomes \cup {"CONFIGURATION_ERROR", "SECRET_VERSION_SUPERSEDED", "MAX_ATTEMPTS_EXCEEDED"}
Ended == {"SUCCEEDED", "FAILED", "SUPERSEDED"}

Canary ==
  [status : {"PENDING", "CLAIMED"} \cup Ended, count : 0 .. MaxCanaryAttempts, left : 0 .. ClaimTicks,
   target : Targets, outcome : Conclusions \cup {"none"}, retryable : BOOLEAN]

\* A probe remembers its claim token: the count makes it unique, because every claim
\* raises it and only an expired claim is given back.  runner is the target that its
\* process is configured with.
Probe ==
  [version : SecretVersions, count : 1 .. MaxCanaryAttempts, runner : Targets,
   pc : {"claimed", "loaded", "probed"}, outcome : CanaryOutcomes \cup {"none"}]

\* The lifecycle CHECK of migration 0027
CanaryTypeOK ==
  /\ secretVersion \in SecretVersions
  /\ \A v \in SecretVersions :
       \/ canary[v] = NotScheduled
       \/ canary[v] \in Canary /\ (canary[v].outcome # "none" <=> canary[v].status \in Ended)
  /\ probes \subseteq Probe

CanaryInit ==
  /\ secretVersion = 1
  /\ canary = [v \in SecretVersions |-> NotScheduled]
  /\ probes = {}

-----------------------------------------------------------------------------
(* Rotation.                                                               *)

\* enqueue_egress_credential_canaries_for_secret, in the transaction of the rotation:
\* an attempt if the policy is active and its active revision names the secret.
EnqueuedCanaries(bound, target) ==
  IF bound
    THEN [status |-> "PENDING", count |-> 0, left |-> 0, target |-> target,
          outcome |-> "none", retryable |-> FALSE]
    ELSE NotScheduled

\* replace_project_secret refreshes the row under its lock, so a repeated or stale
\* request fails on the expected version.  target is the one that the API process is
\* configured with; the processes of a deployment can differ while it rolls out.
RotateSecret(bound, target) ==
  /\ secretVersion < MaxSecretVersion
  /\ secretVersion' = secretVersion + 1
  /\ canary' = [canary EXCEPT ![secretVersion + 1] = EnqueuedCanaries(bound, target)]
  /\ UNCHANGED probes

-----------------------------------------------------------------------------
(* claim_egress_credential_canaries                                        *)

WithStatus(status) == {v \in SecretVersions : canary[v].status = status}

\* LIMIT p_batch_size: the expired claims in the order of their expiry, which the
\* ticks left no longer tell apart, and the pending ones in the order of their
\* versions, which is the order in which they were scheduled.
Limited(S) == {T \in SUBSET S : Cardinality(T) = CanaryBatch \/ (T = S /\ Cardinality(S) < CanaryBatch)}
OldestOf(S) == {v \in S : Cardinality({u \in S : u < v}) < CanaryBatch}

ReclaimedIfAttemptsLeft(c) ==
  IF c.count >= MaxCanaryAttempts THEN c ELSE [c EXCEPT !.status = "PENDING"]

ReclaimedCanaries(c) ==
  IF c.count >= MaxCanaryAttempts
    THEN [c EXCEPT !.status = "FAILED", !.outcome = "MAX_ATTEMPTS_EXCEEDED"]
    ELSE [c EXCEPT !.status = "PENDING"]

Claimed(c) == [c EXCEPT !.status = "CLAIMED", !.count = @ + 1, !.left = ClaimTicks]

ProbeOf(v, c, runner) ==
  [version |-> v, count |-> c.count, runner |-> runner, pc |-> "claimed", outcome |-> "none"]

\* run_one_batch.  Both statements are one transaction; no row is locked for longer
\* than a step, so SKIP LOCKED passes over nothing.
ClaimBatch(runner) ==
  \E expired \in Limited({v \in WithStatus("CLAIMED") : canary[v].left = 0}) :
    LET after == [v \in SecretVersions |->
                    IF v \in expired THEN ReclaimedCanaries(canary[v]) ELSE canary[v]]
        taken == OldestOf({v \in SecretVersions : after[v].status = "PENDING"})
    IN  /\ expired \cup taken # {}
        /\ canary' = [v \in SecretVersions |-> IF v \in taken THEN Claimed(after[v]) ELSE after[v]]
        /\ probes' = probes \cup {ProbeOf(v, canary'[v], runner) : v \in taken}
        /\ UNCHANGED secretVersion

-----------------------------------------------------------------------------
(* execute_claim.  A runner that stops, or that defers a claim because it  *)
(* cannot decrypt the credential or its transaction fails, leaves the      *)
(* probe where it is: no step of a probe is fair.                          *)

Advance(p, pc, outcome) ==
  probes' = (probes \ {p}) \cup {[p EXCEPT !.pc = pc, !.outcome = outcome]}

\* A claim is live for the token and the time that the row holds.
Live(p) ==
  /\ canary[p.version].status = "CLAIMED"
  /\ canary[p.version].count = p.count
  /\ canary[p.version].left > 0

\* load_egress_credential_canary_secret joins the secret on the attempt's version;
\* a target that is not the configured one is not even loaded.  Without material
\* the attempt is completed as TARGET_ERROR.
LoadCredential(p) ==
  /\ p.pc = "claimed"
  /\ IF canary[p.version].target = p.runner /\ Live(p) /\ secretVersion = p.version
       THEN Advance(p, "loaded", "none")
       ELSE Advance(p, "probed", "TARGET_ERROR")
  /\ UNCHANGED <<secretVersion, canary>>

\* _outcome_for_status and the handlers of the exceptions
OutcomeOf(reply) ==
  CASE reply = "2xx" -> "SUCCESS"
    [] reply = "401" -> "AUTH_REJECTED"
    [] reply = "dns" -> "DNS_FAILURE"
    [] reply = "tls" -> "TLS_FAILURE"
    [] reply = "timeout" -> "TIMEOUT"
    [] OTHER -> "TARGET_ERROR"

\* run_credential_canary_transport: the first address that answers, or whose name or
\* certificate is refused, decides; connection failures go on to the next.
TransportOutcome(replies) ==
  LET decides(i) == replies[i] \notin {"timeout", "target"} \/ i = Len(replies)
  IN  OutcomeOf(replies[CHOOSE i \in DOMAIN replies : decides(i) /\ \A j \in 1 .. i - 1 : ~decides(j)])

\* One address at least; a name that resolves to none is a DNS failure.
RunTransport(p) ==
  /\ p.pc = "loaded"
  /\ \E n \in 1 .. MaxRetries + 1 : \E replies \in [1 .. n -> Replies] :
       Advance(p, "probed", TransportOutcome(replies))
  /\ UNCHANGED <<secretVersion, canary>>

\* Mutant: the result of a superseded credential counts.
ConclusionOfAnyVersion(p) ==
  IF canary[p.version].target # p.runner THEN "CONFIGURATION_ERROR" ELSE p.outcome

\* complete_egress_credential_canary locks the secret and then the attempt.
Conclusion(p) ==
  CASE canary[p.version].target # p.runner -> "CONFIGURATION_ERROR"
    [] canary[p.version].target = p.runner /\ secretVersion # p.version ->
         "SECRET_VERSION_SUPERSEDED"
    [] OTHER -> p.outcome

Final(outcome) ==
  CASE outcome = "SUCCESS" -> "SUCCEEDED"
    [] outcome = "SECRET_VERSION_SUPERSEDED" -> "SUPERSEDED"
    [] OTHER -> "FAILED"

\* Mutant: the token is not compared.
AcceptsAnyToken(p) == canary[p.version].status = "CLAIMED"

\* The time that the expiry is compared with was read before the transaction began, so
\* a claim that has expired since may still be accepted if nobody reclaimed it.
Accepts(p) == canary[p.version].status = "CLAIMED" /\ canary[p.version].count = p.count

\* A stale claim has no effect, whether or not its runner finds out.
CompleteProbe(p) ==
  /\ p.pc = "probed" /\ Accepts(p)
  /\ probes' = probes \ {p}
  /\ LET outcome == Conclusion(p)
     IN  canary' = [canary EXCEPT ![p.version] =
           [@ EXCEPT !.status = Final(outcome), !.outcome = outcome,
                     !.retryable = outcome \in {"TARGET_ERROR", "TIMEOUT", "DNS_FAILURE"}]]
  /\ UNCHANGED secretVersion

CanaryTick ==
  /\ \E v \in WithStatus("CLAIMED") : canary[v].left > 0
  /\ canary' = [v \in SecretVersions |->
       IF canary[v].status = "CLAIMED" /\ canary[v].left > 0
         THEN [canary[v] EXCEPT !.left = @ - 1] ELSE canary[v]]
  /\ UNCHANGED <<secretVersion, probes>>

SomeClaim == \E runner \in Targets : ClaimBatch(runner)

CanaryNext ==
  \/ \E bound \in BOOLEAN, target \in Targets : RotateSecret(bound, target)
  \/ SomeClaim
  \/ \E p \in probes : LoadCredential(p) \/ RunTransport(p) \/ CompleteProbe(p)
  \/ CanaryTick

\* The runner polls for ever (run_loop) and time passes.
CanaryFairness == WF_canaryVars(SomeClaim) /\ WF_canaryVars(CanaryTick)

CanarySpec == CanaryInit /\ [][CanaryNext]_canaryVars
FairCanarySpec == CanarySpec /\ CanaryFairness

-----------------------------------------------------------------------------
(* Properties                                                              *)

\* An attempt succeeds only while the credential it tested is the current one, and
\* only by a probe of its own target that loaded the credential under the claim
\* that the row still holds: a rotation or a reclaim between the load and
\* complete_egress_credential_canary takes the success away.
SuccessIsCurrent ==
  [][\A v \in SecretVersions :
       canary'[v].status = "SUCCEEDED" /\ canary[v].status # "SUCCEEDED" =>
         /\ secretVersion = v
         /\ \E p \in probes : /\ p.version = v /\ p.count = canary[v].count
                              /\ p.outcome = "SUCCESS" /\ p.runner = canary[v].target]_canaryVars

CanaryPhase(c) ==
  CASE c.status = "none" -> "none"
    [] c.status = "PENDING" -> "waiting"
    [] c.status = "CLAIMED" -> IF c.left > 0 THEN "held" ELSE "lapsed"
    [] c.status = "SUCCEEDED" -> "done"
    [] c.status \in {"FAILED", "SUPERSEDED"} -> "dead"

CanaryItem(c) ==
  [phase |-> CanaryPhase(c), round |-> 0, tries |-> IF c = NotScheduled THEN 0 ELSE c.count]

\* The tokens that the probes remember
Remembered(P) == {<<p.version, <<0, p.count>>>> : p \in P}

CanaryWork ==
  INSTANCE LeasedWork WITH
    Items <- SecretVersions, MaxTries <- MaxCanaryAttempts, Redelivers <- FALSE, Lenient <- TRUE,
    item <- [v \in SecretVersions |-> CanaryItem(canary[v])],
    holding <- Remembered(probes)

\* Canary attempts are leased work: an ended attempt never changes again, and an
\* attempt is ended by the holder of its claim or by the reclaim of an expired one,
\* never by a runner whose claim was given to another (the transition trigger of
\* migration 0027 and the claim digest).
CanariesAreLeasedWork == CanaryWork!Spec

\* Once the secret is no longer rotated every attempt comes to an end and stays
\* there, although runners crash and defer at any point: expired claims are
\* reclaimed until the attempts are used up.
RotationsAreJudged ==
  <>[](\A v \in SecretVersions : canary[v].status \notin {"PENDING", "CLAIMED"})
=============================================================================
