---------------------------- MODULE Activation ----------------------------
(***************************************************************************)
(* How the capabilities of one Run are granted.  Three parties each hold a *)
(* copy of the operator's canary settings, and the copies change only by a *)
(* redeploy: create_run writes receipts of what it saw into the Run, the   *)
(* claim compares them with the settings of its own moment and issues an   *)
(* activation, the sandbox worker compares both with its own environment,  *)
(* and each storage call of the running Agent is checked once more.        *)
(*                                                                         *)
(* A configuration is a record.  "gates" is the set of switches that are   *)
(* on: "mode" (sandbox execution on, activation mode canary), "name" and   *)
(* "version" (the configured worker name is this worker's, the configured  *)
(* Agent version this Run's), "fits" (the manifest is within the canary    *)
(* resource ceilings), and one per capability or composition.  "ceiling"   *)
(* is the operator's egress policy, ordered by inclusion; 0 is an empty    *)
(* host list.  The worker's environment has none of the first four.        *)
(* Digests are modelled by the value they are the digest of.               *)
(***************************************************************************)
EXTENDS Naturals, FiniteSets

CONSTANTS
    ApiConfigs,     \* the settings a deployment of the API may have
    WorkerConfigs,  \* the environments a deployment of the worker may have
    Manifests,      \* sets of capabilities an Agent version may declare
    Width,          \* what each egress-policy revision allows, as a ceiling
    Credentialed,   \* the revisions that name a proxy credential
    MaxChanges      \* bound on redeployments and policy changes

Capabilities == {"web", "browser", "dataset", "kv", "queue"}
Compositions == {"nav", "queue_http", "queue_browser", "queue_dataset", "queue_kv"}
Gates == {"mode", "name", "version", "fits"} \cup Capabilities \cup Compositions
Surfaces == {"none", "web_fetch", "browser", "navigation", "queue"}
Revisions == DOMAIN Width

\* "gate => the gates it needs" as the settings validator of the API states it.
Needs ==
    [g \in Gates |->
        CASE g \in {"web", "dataset", "kv", "queue"} -> {"mode"}
          [] g = "browser"       -> {"mode", "web"}
          [] g = "nav"           -> {"browser"}
          [] g = "queue_http"    -> {"queue", "web"}
          [] g = "queue_browser" -> {"queue", "browser", "nav", "web"}
          [] g = "queue_dataset" -> {"queue", "dataset"}
          [] g = "queue_kv"      -> {"queue", "kv"}
          [] OTHER -> {}]

ValidSettings(c) ==
    /\ \A g \in c.gates : Needs[g] \subseteq c.gates
    /\ "web" \in c.gates => c.ceiling > 0

\* The worker's from_env checks the compositions only.
ValidWorkerConfig(w) ==
    /\ \A g \in w.gates \cap (Compositions \ {"nav"}) : Needs[g] \subseteq w.gates
    /\ "web" \in w.gates => w.ceiling > 0

ASSUME ConfigAssumption ==
    /\ \A c \in ApiConfigs : c.gates \subseteq Gates /\ c.ceiling \in Nat /\ ValidSettings(c)
    /\ \A w \in WorkerConfigs :
        /\ w.gates \subseteq Capabilities \cup Compositions
        /\ w.ceiling \in Nat /\ ValidWorkerConfig(w)
ASSUME ManifestAssumption == \A m \in Manifests : m \subseteq Capabilities
ASSUME PolicyAssumption ==
    /\ Width \in [Revisions -> Nat \ {0}] /\ Revisions \subseteq Nat \ {0}
    /\ Credentialed \subseteq Revisions /\ MaxChanges \in Nat

VARIABLES
    api,        \* the settings of the deployed API
    worker,     \* the environment of the deployed worker
    attested,   \* worker.sandbox_execution_enabled, written by its heartbeat
    policy,     \* the Project's egress policy: status and active revision
    run,        \* the Run, with the receipts of its creation
    lease,      \* the claim payload the lease carries
    used,       \* the storage capabilities the Run has used
    changes     \* redeployments and policy changes so far

activationVars == <<api, worker, attested, policy, run, lease, used, changes>>

-----------------------------------------------------------------------------
(* What is digested *)

None == <<>>

\* The egress policy a Run gets: the operator's, or the bound revision.
EgressOf(c, bound) == IF bound = 0 THEN <<"operator", c.ceiling>> ELSE <<"revision", bound>>

\* _browser_policy_payload: the hosts and limits, and whether browsers are enabled.
BrowserPolicyOf(c) == <<c.ceiling, "browser" \in c.gates>>

NoRun == [status |-> "NONE", caps |-> {}, surface |-> "none", asked |-> FALSE, bound |-> 0,
          egress |-> None, browser |-> None, dispatch |-> TRUE]
NoLease == [enabled |-> FALSE, features |-> {}, egress |-> None, browser |-> None,
            bound |-> 0, by |-> [gates |-> {}, ceiling |-> 0]]

-----------------------------------------------------------------------------
(* create_run *)

HttpQueue(caps) == {"queue", "web"} \subseteq caps /\ "browser" \notin caps
BrowserQueue(caps) == {"queue", "web", "browser"} \subseteq caps

\* The switches the *_canary_enabled functions of create_run test for one intent.
LiveGates(caps, surface) ==
    {"mode", "version", "fits"}
    \cup IF surface = "navigation" THEN {"web", "browser", "nav"}
         ELSE UNION {IF HttpQueue(caps) THEN {"queue", "queue_http", "web"} ELSE {},
                     IF BrowserQueue(caps)
                        THEN {"queue", "queue_browser", "web", "browser", "nav"} ELSE {},
                     IF "dataset" \in caps THEN {"queue", "dataset", "queue_dataset"} ELSE {},
                     IF "kv" \in caps THEN {"queue", "kv", "queue_kv"} ELSE {}}

\* A navigation and a queue binding that reaches the web or a store are only
\* dispatched when their switches are on; otherwise the Run stays a DRAFT.
HasDispatchReceipt(caps, surface) ==
    \/ surface = "navigation"
    \/ surface = "queue" /\ caps \cap {"web", "dataset", "kv"} # {}

\* _resolve_run_egress_policy, given that the policy is active.
BindingAdmissible(c, caps, surface, bound) ==
    "web" \in caps /\ surface # "none" /\ Width[bound] <= c.ceiling

QueueAdmissible(caps) ==
    /\ "queue" \in caps
    /\ "browser" \in caps => "web" \in caps
    /\ ~ {"dataset", "kv"} \subseteq caps

\* _browser_navigation_receipt: a plan names only hosts of the operator's list.
NavigationAdmissible(c) == c.ceiling > 0

Admissible(c, caps, surface, bound) ==
    /\ bound # 0 => BindingAdmissible(c, caps, surface, bound)
    /\ surface = "web_fetch" => "web" \in caps
    /\ surface = "queue" => QueueAdmissible(caps)
    /\ surface \in {"browser", "navigation"} => {"web", "browser"} \subseteq caps
    /\ surface = "navigation" => NavigationAdmissible(c)

\* The Run create_run would write now; its receipts are all of the fingerprint
\* that is not in the request.
RunOf(c, caps, surface, bound) ==
    LET dispatch == HasDispatchReceipt(caps, surface) => LiveGates(caps, surface) \subseteq c.gates
    IN  [status |-> IF dispatch THEN "QUEUED" ELSE "DRAFT",
         caps |-> caps, surface |-> surface, asked |-> bound # 0, bound |-> bound,
         egress |-> IF surface = "navigation" \/ (surface = "queue" /\ "web" \in caps)
                    THEN EgressOf(c, bound) ELSE None,
         browser |-> IF surface \in {"browser", "navigation"}
                        \/ (surface = "queue" /\ "browser" \in caps)
                     THEN BrowserPolicyOf(c) ELSE None,
         dispatch |-> dispatch]

CreateRun ==
    /\ run.status = "NONE"
    /\ \E caps \in Manifests, surface \in Surfaces, asked \in BOOLEAN :
        /\ asked => policy.active
        /\ LET bound == IF asked THEN policy.revision ELSE 0
           IN  /\ Admissible(api, caps, surface, bound)
               /\ run' = RunOf(api, caps, surface, bound)
    /\ UNCHANGED <<api, worker, attested, policy, lease, used, changes>>

-----------------------------------------------------------------------------
(* The claim *)

\* _bound_egress_policy: a bound revision must be within the operator's policy.
WithinCeiling(bound, c) == Width[bound] <= c.ceiling

\* _bound_run_egress_policy_is_current
BindingIsCurrent ==
    run.bound # 0 => /\ WithinCeiling(run.bound, api)
                     /\ policy.active /\ policy.revision = run.bound

\* request_queue_capability compares the receipts of the Run with the digests
\* it is given, one acquisition mode or composition at a time.
BrowserReceiptHolds(gates, r, egress, browser) ==
    /\ {"queue_browser", "browser", "nav", "web"} \subseteq gates
    /\ r.browser = browser /\ r.egress = egress /\ r.dispatch

HttpReceiptHolds(gates, r, egress) ==
    {"queue_http", "web"} \subseteq gates /\ r.egress = egress /\ r.dispatch

DatasetReceiptHolds(gates, r) == {"queue_dataset", "dataset"} \subseteq gates /\ r.dispatch

KvReceiptHolds(gates, r) == {"queue_kv", "kv"} \subseteq gates /\ r.dispatch

QueueCapability(gates, r, egress, browser) ==
    /\ {"queue", "name", "version"} \subseteq gates
    /\ r.surface = "queue" /\ "queue" \in r.caps
    /\ "browser" \in r.caps => "web" \in r.caps
    /\ ~ {"dataset", "kv"} \subseteq r.caps
    /\ r.bound # 0 => "web" \in r.caps
    /\ BrowserQueue(r.caps) => BrowserReceiptHolds(gates, r, egress, browser)
    /\ HttpQueue(r.caps) => HttpReceiptHolds(gates, r, egress)
    /\ "dataset" \in r.caps => DatasetReceiptHolds(gates, r)
    /\ "kv" \in r.caps => KvReceiptHolds(gates, r)

\* key_value_store_capability
KvCapability(gates, r) ==
    /\ {"kv", "name", "version"} \subseteq gates
    /\ "kv" \in r.caps /\ "dataset" \notin r.caps
    /\ "queue" \in r.caps => {"queue", "queue_kv"} \subseteq gates
    /\ "browser" \in r.caps => "queue" \in r.caps

\* _dataset_append_capability
DatasetCapability(gates, r) ==
    /\ {"dataset", "name", "version"} \subseteq gates
    /\ "dataset" \in r.caps /\ "kv" \notin r.caps
    /\ "queue" \in r.caps => "queue_dataset" \in gates
    /\ "browser" \in r.caps => "queue" \in r.caps

\* _browser_navigation_canary_receipt_allowed
NavigationAllowed(c, r) ==
    /\ "nav" \in c.gates
    /\ r.browser = BrowserPolicyOf(c)
    /\ r.egress = EgressOf(c, r.bound)
    /\ r.dispatch

\* The flags of an activation, a function of the manifest on both sides.
FeaturesOf(caps) ==
    (caps \cap {"dataset", "kv", "queue"})
    \cup (IF HttpQueue(caps) THEN {"queue_http"} ELSE {})
    \cup (IF BrowserQueue(caps) THEN {"queue_browser"} ELSE {})
    \cup (IF {"queue", "dataset"} \subseteq caps THEN {"queue_dataset"} ELSE {})
    \cup (IF {"queue", "kv"} \subseteq caps THEN {"queue_kv"} ELSE {})

\* What _sandbox_claim_policy and _canary_activation both test of a manifest.
CapabilitiesAllowed(c, r) ==
    /\ "web" \in r.caps => "web" \in c.gates
    /\ r.bound # 0 => "web" \in r.caps /\ WithinCeiling(r.bound, c)
    /\ ~ {"dataset", "kv"} \subseteq r.caps
    /\ {"browser", "kv"} \subseteq r.caps => "queue" \in r.caps
    /\ "queue" \in r.caps => QueueCapability(c.gates, r, EgressOf(c, r.bound), BrowserPolicyOf(c))
    /\ "dataset" \in r.caps => DatasetCapability(c.gates, r)
    /\ "kv" \in r.caps => KvCapability(c.gates, r)
    /\ "browser" \in r.caps => "web" \in r.caps /\ "browser" \in c.gates

\* _sandbox_claim_policy: a browser Run needs its receipts, not yet their match.
ClaimPolicy(c, r) ==
    /\ "mode" \in c.gates /\ attested
    /\ CapabilitiesAllowed(c, r)
    /\ "browser" \in r.caps /\ "queue" \notin r.caps =>
        \/ r.surface = "navigation" /\ NavigationAllowed(c, r)
        \/ r.surface = "browser"

\* Mutant: the stored browser policy is not compared with the current one.
ActivatesStaleBrowserPolicy(c, r) ==
    /\ ClaimPolicy(c, r)
    /\ {"mode", "name", "version", "fits"} \subseteq c.gates

\* _canary_activation returns an activation.
Activates(c, r) ==
    /\ ClaimPolicy(c, r)
    /\ {"mode", "name", "version", "fits"} \subseteq c.gates
    /\ CapabilitiesAllowed(c, r)
    /\ "browser" \in r.caps /\ "queue" \notin r.caps =>
        \/ r.surface = "navigation" /\ NavigationAllowed(c, r)
        \/ r.surface = "browser" /\ r.browser = BrowserPolicyOf(c)

\* The claim issues a lease either way; "by" remembers the settings it used.
LeaseOf(c, r) ==
    IF Activates(c, r)
    THEN [enabled |-> TRUE, features |-> FeaturesOf(r.caps),
          egress |-> IF "web" \in r.caps THEN EgressOf(c, r.bound) ELSE None,
          browser |-> IF "browser" \in r.caps THEN BrowserPolicyOf(c) ELSE None,
          bound |-> r.bound, by |-> c]
    ELSE [NoLease EXCEPT !.by = c]

ClaimRun ==
    /\ run.status = "QUEUED" /\ BindingIsCurrent
    /\ run' = [run EXCEPT !.status = "STARTING"]
    /\ lease' = LeaseOf(api, run)
    /\ UNCHANGED <<api, worker, attested, policy, used, changes>>

\* The binding is no longer current: the Run fails before it is leased.
RevokeBinding ==
    /\ run.status = "QUEUED" /\ ~ BindingIsCurrent
    /\ run' = [run EXCEPT !.status = "FAILED"]
    /\ UNCHANGED <<api, worker, attested, policy, lease, used, changes>>

-----------------------------------------------------------------------------
(* The sandbox worker *)

\* Mutant: the revision is not compared with the worker's own ceiling.
EgressUnderAnyCeiling(w, r) ==
    IF "web" \notin w.gates THEN None ELSE EgressOf(w, r.bound)

\* _effective_worker_egress_policy: None when the worker has no egress policy
\* or the bound revision exceeds it.
WorkerEgress(w, r) ==
    IF "web" \notin w.gates \/ (r.bound # 0 /\ Width[r.bound] > w.ceiling)
    THEN None ELSE EgressOf(w, r.bound)

\* _worker_browser_policy
WorkerBrowserPolicy(w) == IF "browser" \in w.gates THEN <<w.ceiling, TRUE>> ELSE None

\* _require_live_browser_navigation_receipt
AcceptsNavigation(w, r) ==
    /\ "nav" \in w.gates
    /\ r.browser = WorkerBrowserPolicy(w) /\ r.egress = WorkerEgress(w, r) /\ r.dispatch

\* The parts of _require_canary_activation: the manifest's combinations, the
\* Dataset and Key-Value Store capabilities, the queue's receipts, the profile.
AcceptsStores(w, r, l) ==
    /\ ~ {"dataset", "kv"} \subseteq r.caps
    /\ r.caps \cap {"dataset", "kv"} # {} /\ "browser" \in r.caps => "queue" \in r.caps
    /\ l.features = FeaturesOf(r.caps)
    /\ l.features \cap {"dataset", "kv", "queue_dataset", "queue_kv"} \subseteq w.gates

AcceptsQueue(w, r) ==
    "queue" \in r.caps =>
        /\ r.surface = "queue" /\ "queue" \in w.gates
        /\ HttpQueue(r.caps) => "queue_http" \in w.gates /\ r.egress = WorkerEgress(w, r)
        /\ BrowserQueue(r.caps) =>
            /\ "queue_browser" \in w.gates
            /\ r.browser = WorkerBrowserPolicy(w) /\ r.egress = WorkerEgress(w, r)
        /\ HasDispatchReceipt(r.caps, r.surface) => r.dispatch

AcceptsProfile(w, r, l) ==
    /\ l.bound = r.bound /\ (r.bound # 0 => WorkerEgress(w, r) # None)
    /\ IF "web" \in r.caps THEN l.egress = WorkerEgress(w, r) /\ l.egress # None
                            ELSE l.egress = None
    /\ "browser" \in r.caps =>
        /\ "web" \in r.caps
        /\ l.browser = WorkerBrowserPolicy(w) /\ l.browser # None
        /\ r.surface = "navigation" => AcceptsNavigation(w, r)
        /\ r.surface \notin {"navigation", "queue"} => r.browser = WorkerBrowserPolicy(w)

\* An authenticated proxy is given to the HTTP broker only.
AcceptsCredential(r) == r.bound \in Credentialed => "web" \in r.caps /\ "browser" \notin r.caps

Accepts(w, r, l) ==
    /\ l.enabled
    /\ AcceptsStores(w, r, l) /\ AcceptsQueue(w, r) /\ AcceptsProfile(w, r, l)
    /\ AcceptsCredential(r)

StartRun ==
    /\ run.status = "STARTING" /\ Accepts(worker, run, lease)
    /\ run' = [run EXCEPT !.status = "RUNNING"]
    /\ UNCHANGED <<api, worker, attested, policy, lease, used, changes>>

\* The worker refuses and completes the lease as FAILED, not retryable.
RefuseRun ==
    /\ run.status = "STARTING" /\ ~ Accepts(worker, run, lease)
    /\ run' = [run EXCEPT !.status = IF lease.enabled THEN "REFUSED" ELSE "FAILED"]
    /\ UNCHANGED <<api, worker, attested, policy, lease, used, changes>>

\* Each storage call repeats the check against the settings of its own moment.
QueueCallAllowed(c, r, l) ==
    "mode" \in c.gates /\ QueueCapability(c.gates, r, l.egress, l.browser)
KvCallAllowed(c, r) == KvCapability(c.gates, r)
DatasetCallAllowed(c, r) == DatasetCapability(c.gates, r)

CallAllowed(c, r, l, cap) ==
    CASE cap = "queue" -> QueueCallAllowed(c, r, l)
      [] cap = "dataset" -> DatasetCallAllowed(c, r)
      [] cap = "kv" -> KvCallAllowed(c, r)

CallStorage ==
    /\ run.status = "RUNNING"
    /\ \E cap \in (lease.features \cap {"queue", "dataset", "kv"}) \ used :
        IF CallAllowed(api, run, lease, cap)
        THEN used' = used \cup {cap} /\ UNCHANGED run
        ELSE run' = [run EXCEPT !.status = "FAILED"] /\ UNCHANGED used
    /\ UNCHANGED <<api, worker, attested, policy, lease, changes>>

FinishRun ==
    /\ run.status = "RUNNING"
    /\ used = lease.features \cap {"queue", "dataset", "kv"}
    /\ run' = [run EXCEPT !.status = "SUCCEEDED"]
    /\ UNCHANGED <<api, worker, attested, policy, lease, used, changes>>

-----------------------------------------------------------------------------
(* What changes around a Run, until it has ended *)

Open == run.status \notin {"DRAFT", "SUCCEEDED", "FAILED", "REFUSED"}

\* _apply_sandbox_attestation, for a worker with one slot whose evidence is allowed
Heartbeat ==
    /\ Open
    /\ attested' = ({"mode", "name"} \subseteq api.gates)
    /\ UNCHANGED <<api, worker, policy, run, lease, used, changes>>

RedeployApi ==
    /\ Open /\ changes < MaxChanges /\ changes' = changes + 1
    /\ api' \in ApiConfigs \ {api}
    /\ UNCHANGED <<worker, attested, policy, run, lease, used>>

\* A restarted worker has no lease: the token was in the memory of the old one.
RedeployWorker ==
    /\ Open /\ changes < MaxChanges /\ changes' = changes + 1
    /\ run.status \notin {"STARTING", "RUNNING"}
    /\ worker' \in WorkerConfigs \ {worker}
    /\ UNCHANGED <<api, attested, policy, run, lease, used>>

\* activate and disable of the Project's egress policy.
ChangePolicy ==
    /\ Open /\ changes < MaxChanges /\ changes' = changes + 1
    /\ \/ \E v \in Revisions :
            /\ policy # [active |-> TRUE, revision |-> v]
            /\ policy' = [active |-> TRUE, revision |-> v]
       \/ policy.active /\ policy' = [policy EXCEPT !.active = FALSE]
    /\ UNCHANGED <<api, worker, attested, run, lease, used>>

ActivationInit ==
    /\ api \in ApiConfigs /\ worker \in WorkerConfigs
    /\ attested \in BOOLEAN
    /\ policy \in [active : BOOLEAN, revision : Revisions]
    /\ run = NoRun /\ lease = NoLease /\ used = {} /\ changes = 0

ActivationNext ==
    \/ CreateRun \/ ClaimRun \/ RevokeBinding \/ StartRun \/ RefuseRun
    \/ CallStorage \/ FinishRun \/ Heartbeat \/ RedeployApi \/ RedeployWorker \/ ChangePolicy

ActivationSpec == ActivationInit /\ [][ActivationNext]_activationVars

-----------------------------------------------------------------------------
(* Properties *)

\* The switches an operator means to open for a Run, read off its manifest.
Requires(caps, surface) ==
    caps \cup {g \in Compositions :
        \/ g = "queue_http" /\ {"queue", "web"} \subseteq caps /\ "browser" \notin caps
        \/ g \in {"queue_browser", "nav"} /\ {"queue", "web", "browser"} \subseteq caps
        \/ g = "nav" /\ surface = "navigation"
        \/ g = "queue_dataset" /\ {"queue", "dataset"} \subseteq caps
        \/ g = "queue_kv" /\ {"queue", "kv"} \subseteq caps}

\* An Agent starts only when every capability it declares was switched on by the
\* API that claimed it and by the worker that runs it, under one egress policy
\* that both sides' ceilings contain; and each storage call succeeds only while
\* the API that serves it still has that capability on.  Settings and policies
\* may change at any step between creation, claim, start and use.
GrantedByEveryParty ==
    [][/\ (run.status # "RUNNING" /\ run'.status = "RUNNING") =>
           /\ Requires(run.caps, run.surface) \subseteq lease.by.gates \cap worker.gates
           /\ "web" \in run.caps => WorkerEgress(worker, run) = EgressOf(lease.by, run.bound)
           /\ run.bound # 0 =>
               Width[run.bound] <= lease.by.ceiling /\ Width[run.bound] <= worker.ceiling
       /\ \A cap \in used' \ used : cap \in api.gates]_activationVars

\* The two implementations of the activation rules agree: when the worker's
\* environment is the API's settings, the worker accepts every activation the
\* claim issues (a refusal is final and fails the Run).  The exception is an
\* authenticated proxy for a browser, which only the worker rejects.
IssuedIsAccepted ==
    run.status = "REFUSED" =>
        \/ worker.gates # lease.by.gates \ {"mode", "name", "version", "fits"}
        \/ worker.ceiling # lease.by.ceiling
        \/ run.bound \in Credentialed /\ "browser" \in run.caps

=============================================================================
