--------------------------- MODULE EgressPolicies ---------------------------
(***************************************************************************)
(* One egress policy of a project, the secret that its revisions may name  *)
(* as credential, the Runs bound to it and the credential envelopes that   *)
(* their workers ask for (apps/api/app/services/egress_policies.py,        *)
(* builds_secrets.py, runs.py, execution_plane.py; migration 0022).        *)
(*                                                                         *)
(* Every update locks the policy row, but require_egress_policy_permission *)
(* has loaded the policy into the same session before (Load), and the lock *)
(* does not refresh it: the version check and the columns to write come    *)
(* from the loaded policy.  expected_version adds nothing to the model,    *)
(* since a call whose expected_version is not the loaded one ends without  *)
(* a change.  An envelope request loads policy and secret under their locks*)
(* and keeps both locks until it commits (LockCredential, HandOut).        *)
(***************************************************************************)
EXTENDS Integers, Sequences

CONSTANTS
  Admins,            \* concurrent updates of the policy
  BoundRuns,         \* Runs that name the policy
  WorkerKeys,        \* ephemeral public keys of workers
  MaxRevisions,      \* bound: revisions of the policy
  MaxPolicyVersion,  \* bound: versions of the policy
  MaxCredential      \* bound: versions of the secret

VARIABLES
  policy,      \* the row of control.egress_policies
  revisions,   \* egress_policy_revisions by number: whether it names the credential
  credential,  \* the version of the ProjectSecret, 0 when there is none
  loadedBy,    \* the policy as each open update loaded it
  binding,     \* the Runs: their state and the revision of their receipt
  envelope,    \* open envelope requests: the key and the version under lock
  grant        \* secret_injection_grants, by Run and request fingerprint

policyVars == <<policy, revisions, credential, loadedBy, binding, envelope, grant>>

NoPolicy == [status |-> "ABSENT", active |-> 0, version |-> 0]
NoEnvelope == [key |-> "none", version |-> 0]

PolicyRow ==
  [status : {"ABSENT", "DRAFT", "ACTIVE", "DISABLED"}, active : 0..MaxRevisions,
   version : 0..MaxPolicyVersion]

\* The fingerprint of an envelope request of one lease
Fingerprints == WorkerKeys \X (1..MaxCredential)

\* The columns keep their types, and an active policy has an active revision that
\* exists (ck_egress_policies_active_revision, fk_egress_policies_active_revision).
PolicyTypeOK ==
  /\ policy \in PolicyRow
  /\ revisions \in Seq(BOOLEAN)
  /\ credential \in 0..MaxCredential
  /\ loadedBy \in [Admins -> PolicyRow]
  /\ binding \in [BoundRuns -> [at : {"none", "queued", "leased", "ended"},
                                revision : 0..MaxRevisions]]
  /\ envelope \in [BoundRuns -> [key : WorkerKeys, version : 1..MaxCredential]
                                  \cup {NoEnvelope}]
  /\ grant \in [BoundRuns -> [Fingerprints -> {"NONE", "ISSUED", "EXPIRED", "REVOKED"}]]
  /\ policy.active \in 0..Len(revisions)
  /\ policy.status = "ACTIVE" => policy.active # 0

PolicyInit ==
  /\ policy = NoPolicy /\ revisions = <<>> /\ credential = 0
  /\ loadedBy = [c \in Admins |-> NoPolicy]
  /\ binding = [r \in BoundRuns |-> [at |-> "none", revision |-> 0]]
  /\ envelope = [r \in BoundRuns |-> NoEnvelope]
  /\ grant = [r \in BoundRuns |-> [f \in Fingerprints |-> "NONE"]]

-----------------------------------------------------------------------------
(* Row locks: those of open envelope requests, every other step commits.   *)

PolicyLocked == \E r \in BoundRuns : envelope[r] # NoEnvelope

\* Mutant: the secret is read without a lock.
SecretUnlocked == FALSE

SecretLocked == \E r \in BoundRuns : envelope[r] # NoEnvelope

-----------------------------------------------------------------------------
(* The secret.                                                             *)

CreateSecret ==
  /\ credential = 0
  /\ credential' = 1
  /\ UNCHANGED <<policy, revisions, loadedBy, binding, envelope, grant>>

\* replace_project_secret reads the row anew under its lock and revokes the grants
\* that name the secret; a replayed or conflicting request changes nothing.  The
\* canaries it enqueues are in EgressCanaries.
ReplaceSecret ==
  /\ credential \in 1..MaxCredential - 1 /\ ~SecretLocked
  /\ credential' = credential + 1
  /\ grant' = [r \in BoundRuns |->
                 [f \in Fingerprints |->
                    IF grant[r][f] \in {"ISSUED", "EXPIRED"} THEN "REVOKED" ELSE grant[r][f]]]
  /\ UNCHANGED <<policy, revisions, loadedBy, binding, envelope>>

\* delete_project_secret; a revision that names the secret restricts it.
DeleteSecret ==
  /\ credential # 0 /\ ~SecretLocked
  /\ \A n \in 1..Len(revisions) : ~revisions[n]
  /\ credential' = 0
  /\ UNCHANGED <<policy, revisions, loadedBy, binding, envelope, grant>>

-----------------------------------------------------------------------------
(* The policy.                                                             *)

\* _validate_credential, and the foreign key of the revision
Usable(named) == named => credential # 0

\* create_egress_policy under the lock of its name; a replay, or a name in use,
\* changes nothing.
CreatePolicy(named) ==
  /\ policy = NoPolicy /\ Usable(named)
  /\ policy' = [status |-> "DRAFT", active |-> 0, version |-> 1]
  /\ revisions' = <<named>>
  /\ UNCHANGED <<credential, loadedBy, binding, envelope, grant>>

\* require_egress_policy_permission
Load(c) ==
  /\ loadedBy[c] = NoPolicy /\ policy # NoPolicy
  /\ loadedBy' = [loadedBy EXCEPT ![c] = policy]
  /\ UNCHANGED <<policy, revisions, credential, binding, envelope, grant>>

\* VERSION_CONFLICT, another refusal, or a lost connection
Leave(c) ==
  /\ loadedBy[c] # NoPolicy
  /\ loadedBy' = [loadedBy EXCEPT ![c] = NoPolicy]
  /\ UNCHANGED <<policy, revisions, credential, binding, envelope, grant>>

\* The flush writes a column only when it differs from the loaded one.
Flushed(seen, new) ==
  [x \in DOMAIN policy |-> IF new[x] = seen[x] THEN policy[x] ELSE new[x]]

\* What every update has in common: the lock, the version and the flush
Update(c, new) ==
  /\ loadedBy[c] # NoPolicy /\ ~PolicyLocked
  /\ new.version <= MaxPolicyVersion
  /\ policy' = Flushed(loadedBy[c], new)
  /\ loadedBy' = [loadedBy EXCEPT ![c] = NoPolicy]
  /\ UNCHANGED <<credential, binding, envelope, grant>>

\* create_egress_policy_revision: the number is one more than the highest, which
\* is read under the lock.
CreateRevision(c, named) ==
  /\ Len(revisions) < MaxRevisions /\ Usable(named)
  /\ Update(c, [loadedBy[c] EXCEPT !.version = @ + 1])
  /\ revisions' = Append(revisions, named)

\* activate_egress_policy
Activate(c, n) ==
  /\ Update(c, [status |-> "ACTIVE", active |-> n, version |-> loadedBy[c].version + 1])
  /\ UNCHANGED revisions

\* disable_egress_policy
Disable(c) ==
  /\ Update(c, [loadedBy[c] EXCEPT !.status = "DISABLED", !.version = @ + 1])
  /\ UNCHANGED revisions

-----------------------------------------------------------------------------
(* Runs and envelopes.                                                     *)

\* _resolve_run_egress_policy: the receipt names the active revision.
BindRun(r) ==
  /\ binding[r].at = "none" /\ policy.status = "ACTIVE" /\ ~PolicyLocked
  /\ binding' = [binding EXCEPT ![r] = [at |-> "queued", revision |-> policy.active]]
  /\ UNCHANGED <<policy, revisions, credential, loadedBy, envelope, grant>>

IsCurrent(r) == policy.status = "ACTIVE" /\ policy.active = binding[r].revision

\* claim_work with _bound_run_egress_policy_is_current: a Run whose revision is no
\* longer active fails without a lease.
Admit(r) ==
  /\ binding[r].at = "queued" /\ ~PolicyLocked
  /\ binding' = [binding EXCEPT ![r].at = IF IsCurrent(r) THEN "leased" ELSE "ended"]
  /\ UNCHANGED <<policy, revisions, credential, loadedBy, envelope, grant>>

\* The lease ends and its issued grants are revoked.  An open envelope request
\* holds the lock of the lease.
EndLease(r) ==
  /\ binding[r].at = "leased" /\ envelope[r] = NoEnvelope
  /\ binding' = [binding EXCEPT ![r].at = "ended"]
  /\ grant' = [grant EXCEPT ![r] =
                 [f \in Fingerprints |-> IF grant[r][f] = "NONE" THEN "NONE" ELSE "REVOKED"]]
  /\ UNCHANGED <<policy, revisions, credential, loadedBy, envelope>>

\* issue_egress_credential_envelope up to the fingerprint: the policy and then the
\* secret are locked and read.
LockCredential(r, k) ==
  /\ binding[r].at = "leased" /\ envelope[r] = NoEnvelope
  /\ ~PolicyLocked /\ ~SecretLocked
  /\ IsCurrent(r) /\ revisions[binding[r].revision]
  /\ envelope' = [envelope EXCEPT ![r] = [key |-> k, version |-> credential]]
  /\ UNCHANGED <<policy, revisions, credential, loadedBy, binding, grant>>

\* The rest of it, when an envelope is returned: a live grant with the fingerprint
\* is replayed, and a new one is stored when there is none.
HandOut(r) ==
  LET f == <<envelope[r].key, envelope[r].version>>
  IN  /\ envelope[r] # NoEnvelope /\ grant[r][f] \in {"NONE", "ISSUED"}
      /\ grant' = [grant EXCEPT ![r][f] = "ISSUED"]
      /\ envelope' = [envelope EXCEPT ![r] = NoEnvelope]
      /\ UNCHANGED <<policy, revisions, credential, loadedBy, binding>>

\* EGRESS_CREDENTIAL_GRANT_EXPIRED, a credential that is no header value, or a
\* lost connection
RefuseEnvelope(r) ==
  /\ envelope[r] # NoEnvelope
  /\ envelope' = [envelope EXCEPT ![r] = NoEnvelope]
  /\ UNCHANGED <<policy, revisions, credential, loadedBy, binding, grant>>

\* expires_at passes; the column keeps its status.
ExpireGrant(r, f) ==
  /\ grant[r][f] = "ISSUED"
  /\ grant' = [grant EXCEPT ![r][f] = "EXPIRED"]
  /\ UNCHANGED <<policy, revisions, credential, loadedBy, binding, envelope>>

-----------------------------------------------------------------------------
PolicyNext ==
  \/ CreateSecret \/ ReplaceSecret \/ DeleteSecret
  \/ \E named \in BOOLEAN : CreatePolicy(named)
  \/ \E c \in Admins :
       \/ Load(c) \/ Leave(c) \/ Disable(c)
       \/ \E named \in BOOLEAN : CreateRevision(c, named)
       \/ \E n \in 1..Len(revisions) : Activate(c, n)
  \/ \E r \in BoundRuns :
       \/ BindRun(r) \/ Admit(r) \/ EndLease(r) \/ HandOut(r) \/ RefuseEnvelope(r)
       \/ \E k \in WorkerKeys : LockCredential(r, k)
       \/ \E f \in Fingerprints : ExpireGrant(r, f)

PolicySpec == PolicyInit /\ [][PolicyNext]_policyVars

-----------------------------------------------------------------------------
(* Properties.                                                             *)

\* An envelope, new or replayed, is handed out only to a leased Run whose revision
\* is active at that moment, and holds the secret's current version: neither a
\* replacement of the secret nor a disablement or another activation can come
\* between the checks of issue_egress_credential_envelope and its answer.
EnvelopesAreEligible ==
  [][\A r \in BoundRuns :
       HandOut(r) => /\ binding[r].at = "leased" /\ IsCurrent(r)
                     /\ credential = envelope[r].version]_policyVars
=============================================================================
