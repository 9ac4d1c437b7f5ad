---------------------------- MODULE WorkerProofs ----------------------------
(***************************************************************************)
(* Proofs about the worker: what it is activated for, and what it does     *)
(* with a lease.                                                           *)
(***************************************************************************)
EXTENDS Activation, SandboxWorker, TLAPS

-----------------------------------------------------------------------------
(***************************************************************************)
(* Activation, for all settings of the API and of the worker, every egress *)
(* policy and every set of capabilities.                                   *)
(*                                                                         *)
(* The worker checks a lease against its own environment, with conditions  *)
(* written a second time. The invariant keeps what the API had tested when *)
(* the lease was claimed (IssuedBy): settings and policy may change        *)
(* afterwards, the lease still carries those it was issued under.          *)
(***************************************************************************)

(* The invariant.                                                          *)

\* A record with the columns of a Run
IsRun(r) ==
  r = [status |-> r.status, caps |-> r.caps, surface |-> r.surface, asked |-> r.asked,
       bound |-> r.bound, egress |-> r.egress, browser |-> r.browser, dispatch |-> r.dispatch]

\* What _canary_activation has tested of the Run, but for the attestation,
\* which the worker row may lose later
Granted(c, r) ==
  /\ {"mode", "name", "version", "fits"} \subseteq c.gates
  /\ CapabilitiesAllowed(c, r)
  /\ "browser" \in r.caps /\ "queue" \notin r.caps =>
       \/ r.surface = "navigation" /\ NavigationAllowed(c, r)
       \/ r.surface = "browser" /\ r.browser = BrowserPolicyOf(c)

\* The lease carries the activation of the settings it was claimed under.
IssuedBy(c, r, l) ==
  /\ c \in ApiConfigs /\ Granted(c, r)
  /\ l.features = FeaturesOf(r.caps) /\ l.bound = r.bound
  /\ l.egress = IF "web" \in r.caps THEN EgressOf(c, r.bound) ELSE None
  /\ l.browser = IF "browser" \in r.caps THEN BrowserPolicyOf(c) ELSE None

ActivationInv ==
  /\ api \in ApiConfigs /\ worker \in WorkerConfigs
  /\ policy = [active |-> policy.active, revision |-> policy.revision]
  /\ policy.revision \in Revisions
  /\ IsRun(run) /\ run.caps \subseteq Capabilities /\ run.bound \in Revisions \cup {0}
  /\ run.surface = "navigation" => "browser" \in run.caps
  /\ run.status \in {"STARTING", "RUNNING"} /\ lease.enabled => IssuedBy(lease.by, run, lease)
  /\ IssuedIsAccepted

-----------------------------------------------------------------------------
(* The worker accepts what the claim issued.                               *)

\* The worker's environment is the API's settings.
SameSettings(w, c) ==
  w.gates = c.gates \ {"mode", "name", "version", "fits"} /\ w.ceiling = c.ceiling

LEMMA SameGates ==
  ASSUME NEW w, NEW c, SameSettings(w, c), NEW g \in Capabilities \cup Compositions
  PROVE  g \in w.gates <=> g \in c.gates
BY DEF SameSettings, Capabilities, Compositions

\* A policy is never mistaken for its absence.
LEMMA EgressIsSome == ASSUME NEW c, NEW b PROVE EgressOf(c, b) # None
BY DEF EgressOf, None

LEMMA SameEgress ==
  ASSUME NEW w \in WorkerConfigs, NEW c, SameSettings(w, c), NEW r,
         r.bound \in Revisions \cup {0}, CapabilitiesAllowed(c, r), "web" \in r.caps
  PROVE  WorkerEgress(w, r) = EgressOf(c, r.bound)
<1>1. "web" \in w.gates
  BY SameGates, Zenon DEF CapabilitiesAllowed, Capabilities
<1>2. r.bound # 0 => ~(Width[r.bound] > w.ceiling)
  <2>1. ASSUME r.bound # 0 PROVE ~(Width[r.bound] > w.ceiling)
    <3>1. Width[r.bound] <= c.ceiling
      BY <2>1, Zenon DEF CapabilitiesAllowed, WithinCeiling
    <3>2. w.ceiling \in Nat /\ Width[r.bound] \in Nat
      BY <2>1, ConfigAssumption, PolicyAssumption
    <3>. QED  BY <3>1, <3>2 DEF SameSettings
  <2>. QED  BY <2>1
<1>3. EgressOf(w, r.bound) = EgressOf(c, r.bound)
  BY Zenon DEF EgressOf, SameSettings
<1>. QED  BY <1>1, <1>2, <1>3, Zenon DEF WorkerEgress

LEMMA SameBrowserPolicy ==
  ASSUME NEW w, NEW c, SameSettings(w, c), "browser" \in c.gates
  PROVE  /\ WorkerBrowserPolicy(w) = BrowserPolicyOf(c)
         /\ WorkerBrowserPolicy(w) # None
<1>1. "browser" \in w.gates /\ w.ceiling = c.ceiling
  BY SameGates, Zenon DEF SameSettings, Capabilities
<1>2. WorkerBrowserPolicy(w) = <<c.ceiling, TRUE>>
  BY <1>1, Zenon DEF WorkerBrowserPolicy
<1>3. BrowserPolicyOf(c) = <<c.ceiling, TRUE>>
  BY Zenon DEF BrowserPolicyOf
<1>4. <<c.ceiling, TRUE>> # <<>>
  OBVIOUS
<1>. QED  BY <1>2, <1>3, <1>4, Zenon DEF None

LEMMA StoresAccepted ==
  ASSUME NEW w, NEW c, NEW r, NEW l, SameSettings(w, c), IssuedBy(c, r, l)
  PROVE  AcceptsStores(w, r, l)
<1>1. CapabilitiesAllowed(c, r) /\ l.features = FeaturesOf(r.caps)
  BY Zenon DEF IssuedBy, Granted
<1>2. r.caps \cap {"dataset", "kv"} # {} /\ "browser" \in r.caps => "queue" \in r.caps
  BY <1>1 DEF CapabilitiesAllowed, DatasetCapability, KvCapability
<1>3. ASSUME NEW g \in l.features \cap {"dataset", "kv", "queue_dataset", "queue_kv"}
      PROVE  g \in w.gates
  <2>1. g \in c.gates
    BY <1>1, <1>3 DEF CapabilitiesAllowed, DatasetCapability, KvCapability, FeaturesOf
  <2>2. g \in Capabilities \cup Compositions
    BY <1>3 DEF Capabilities, Compositions
  <2>. QED  BY <2>1, <2>2, SameGates, Zenon
<1>. QED  BY <1>1, <1>2, <1>3, Zenon DEF AcceptsStores, CapabilitiesAllowed

LEMMA QueueAccepted ==
  ASSUME NEW w \in WorkerConfigs, NEW c, NEW r, NEW l, SameSettings(w, c), IssuedBy(c, r, l),
         r.bound \in Revisions \cup {0}
  PROVE  AcceptsQueue(w, r)
<1>1. CapabilitiesAllowed(c, r)
  BY Zenon DEF IssuedBy, Granted
<1>. SUFFICES ASSUME "queue" \in r.caps PROVE AcceptsQueue(w, r)
  BY Zenon DEF AcceptsQueue
<1>2. QueueCapability(c.gates, r, EgressOf(c, r.bound), BrowserPolicyOf(c))
  BY <1>1, Zenon DEF CapabilitiesAllowed
<1>3. r.surface = "queue" /\ "queue" \in w.gates
  BY <1>2, SameGates, Zenon DEF QueueCapability, Capabilities
<1>4. ASSUME HttpQueue(r.caps)
      PROVE  "queue_http" \in w.gates /\ r.egress = WorkerEgress(w, r) /\ r.dispatch
  <2>1. HttpReceiptHolds(c.gates, r, EgressOf(c, r.bound)) /\ "web" \in r.caps
    BY <1>2, <1>4, Zenon DEF QueueCapability, HttpQueue
  <2>2. "queue_http" \in w.gates
    BY <2>1, SameGates, Zenon DEF HttpReceiptHolds, Compositions
  <2>. QED  BY <1>1, <2>1, <2>2, SameEgress, Zenon DEF HttpReceiptHolds
<1>5. ASSUME BrowserQueue(r.caps)
      PROVE  /\ "queue_browser" \in w.gates /\ r.browser = WorkerBrowserPolicy(w)
             /\ r.egress = WorkerEgress(w, r) /\ r.dispatch
  <2>1. /\ BrowserReceiptHolds(c.gates, r, EgressOf(c, r.bound), BrowserPolicyOf(c))
        /\ "web" \in r.caps
    BY <1>2, <1>5, Zenon DEF QueueCapability, BrowserQueue
  <2>2. "queue_browser" \in w.gates /\ "browser" \in c.gates
    BY <2>1, SameGates, Zenon DEF BrowserReceiptHolds, Compositions
  <2>. QED  BY <1>1, <2>1, <2>2, SameEgress, SameBrowserPolicy, Zenon DEF BrowserReceiptHolds
<1>6. ASSUME r.caps \cap {"web", "dataset", "kv"} # {} PROVE r.dispatch
  <2>1. CASE "web" \in r.caps
    BY <1>4, <1>5, <2>1, Zenon DEF HttpQueue, BrowserQueue
  <2>2. CASE "dataset" \in r.caps
    BY <1>2, <2>2, Zenon DEF QueueCapability, DatasetReceiptHolds
  <2>3. CASE "kv" \in r.caps
    BY <1>2, <2>3, Zenon DEF QueueCapability, KvReceiptHolds
  <2>. QED  BY <1>6, <2>1, <2>2, <2>3, Zenon
<1>7. HasDispatchReceipt(r.caps, r.surface) => r.dispatch
  <2>1. "queue" # "navigation"
    OBVIOUS
  <2>. QED  BY <1>3, <1>6, <2>1, Zenon DEF HasDispatchReceipt
<1>. QED  BY <1>3, <1>4, <1>5, <1>7, Zenon DEF AcceptsQueue

LEMMA ProfileAccepted ==
  ASSUME NEW w \in WorkerConfigs, NEW c, NEW r, NEW l, SameSettings(w, c), IssuedBy(c, r, l),
         r.bound \in Revisions \cup {0}
  PROVE  AcceptsProfile(w, r, l)
<1>1. /\ Granted(c, r) /\ CapabilitiesAllowed(c, r) /\ l.bound = r.bound
      /\ l.egress = IF "web" \in r.caps THEN EgressOf(c, r.bound) ELSE None
      /\ l.browser = IF "browser" \in r.caps THEN BrowserPolicyOf(c) ELSE None
  BY Zenon DEF IssuedBy, Granted
<1>2. ASSUME "web" \in r.caps
      PROVE  /\ WorkerEgress(w, r) # None
             /\ l.egress = WorkerEgress(w, r) /\ l.egress # None
  BY <1>1, <1>2, SameEgress, EgressIsSome, Zenon
<1>3. r.bound # 0 => WorkerEgress(w, r) # None
  BY <1>1, <1>2, Zenon DEF CapabilitiesAllowed
<1>4. ASSUME "browser" \in r.caps
      PROVE  /\ "web" \in r.caps
             /\ l.browser = WorkerBrowserPolicy(w) /\ l.browser # None
             /\ r.surface = "navigation" => AcceptsNavigation(w, r)
             /\ r.surface \notin {"navigation", "queue"} => r.browser = WorkerBrowserPolicy(w)
  <2>1. "web" \in r.caps /\ "browser" \in c.gates
    BY <1>1, <1>4, Zenon DEF CapabilitiesAllowed
  <2>2. l.browser = WorkerBrowserPolicy(w) /\ l.browser # None
    BY <1>1, <1>4, <2>1, SameBrowserPolicy, Zenon
  <2>3. "queue" \in r.caps => r.surface = "queue"
    BY <1>1, Zenon DEF CapabilitiesAllowed, QueueCapability
  <2>4. ASSUME r.surface # "queue"
        PROVE  \/ r.surface = "navigation" /\ NavigationAllowed(c, r)
               \/ r.surface = "browser" /\ r.browser = BrowserPolicyOf(c)
    BY <1>1, <1>4, <2>3, <2>4, Zenon DEF Granted
  <2>5. ASSUME r.surface = "navigation" PROVE AcceptsNavigation(w, r)
    <3>1. NavigationAllowed(c, r)
      BY <2>4, <2>5
    <3>2. "nav" \in w.gates
      BY <3>1, SameGates, Zenon DEF NavigationAllowed, Compositions
    <3>. QED  BY <1>1, <2>1, <3>1, <3>2, SameEgress, SameBrowserPolicy, Zenon
              DEF NavigationAllowed, AcceptsNavigation
  <2>6. ASSUME r.surface \notin {"navigation", "queue"}
        PROVE  r.browser = WorkerBrowserPolicy(w)
    BY <2>1, <2>4, <2>6, SameBrowserPolicy, Zenon
  <2>. QED  BY <2>1, <2>2, <2>5, <2>6, Zenon
<1>. QED  BY <1>1, <1>2, <1>3, <1>4, Zenon DEF AcceptsProfile

\* The worker's rules accept every activation the claim's rules issue.
LEMMA IssuedAccepted ==
  ASSUME NEW w \in WorkerConfigs, NEW c, NEW r, NEW l, SameSettings(w, c), IssuedBy(c, r, l),
         l.enabled, r.bound \in Revisions \cup {0},
         ~(r.bound \in Credentialed /\ "browser" \in r.caps)
  PROVE  Accepts(w, r, l)
<1>1. AcceptsStores(w, r, l) /\ AcceptsQueue(w, r) /\ AcceptsProfile(w, r, l)
  BY StoresAccepted, QueueAccepted, ProfileAccepted, Zenon
<1>2. AcceptsCredential(r)
  <2>1. ASSUME r.bound \in Credentialed PROVE "web" \in r.caps /\ "browser" \notin r.caps
    <3>1. r.bound # 0
      BY <2>1, PolicyAssumption
    <3>. QED  BY <2>1, <3>1, Zenon DEF IssuedBy, Granted, CapabilitiesAllowed
  <2>. QED  BY <2>1, Zenon DEF AcceptsCredential
<1>. QED  BY <1>1, <1>2, Zenon DEF Accepts

-----------------------------------------------------------------------------
(* What an accepted activation was granted by.                             *)

LEMMA GrantedCapabilities ==
  ASSUME NEW c, NEW r, CapabilitiesAllowed(c, r), NEW g \in r.caps, g \in Capabilities
  PROVE  g \in c.gates
BY Zenon DEF CapabilitiesAllowed, QueueCapability, DatasetCapability, KvCapability, Capabilities

LEMMA AcceptedCapabilities ==
  ASSUME NEW w, NEW r, NEW l, Accepts(w, r, l), NEW g \in r.caps, g \in Capabilities
  PROVE  g \in w.gates
<1>1. CASE g = "web"
  <2>1. WorkerEgress(w, r) # None
    BY <1>1, Zenon DEF Accepts, AcceptsProfile
  <2>. QED  BY <1>1, <2>1, Zenon DEF WorkerEgress
<1>2. CASE g = "browser"
  <2>1. WorkerBrowserPolicy(w) # None
    BY <1>2, Zenon DEF Accepts, AcceptsProfile
  <2>. QED  BY <1>2, <2>1, Zenon DEF WorkerBrowserPolicy
<1>3. CASE g = "queue"
  BY <1>3, Zenon DEF Accepts, AcceptsQueue
<1>4. CASE g \in {"dataset", "kv"}
  <2>1. g \in l.features
    BY <1>4 DEF Accepts, AcceptsStores, FeaturesOf
  <2>. QED  BY <1>4, <2>1 DEF Accepts, AcceptsStores
<1>. QED  BY <1>1, <1>2, <1>3, <1>4 DEF Capabilities

LEMMA GrantedCompositions ==
  ASSUME NEW c, NEW r, Granted(c, r), NEW g \in Requires(r.caps, r.surface) \ r.caps,
         r.surface = "navigation" => "browser" \in r.caps
  PROVE  g \in c.gates
<1>1. CapabilitiesAllowed(c, r)
  BY Zenon DEF Granted
<1>2. ASSUME "queue" \in r.caps
      PROVE  /\ QueueCapability(c.gates, r, EgressOf(c, r.bound), BrowserPolicyOf(c))
             /\ r.surface = "queue"
  BY <1>1, <1>2, Zenon DEF CapabilitiesAllowed, QueueCapability
<1>3. CASE g = "queue_http" /\ HttpQueue(r.caps)
  <2>1. HttpReceiptHolds(c.gates, r, EgressOf(c, r.bound))
    BY <1>2, <1>3 DEF HttpQueue, QueueCapability
  <2>. QED  BY <1>3, <2>1 DEF HttpReceiptHolds
<1>4. CASE g \in {"queue_browser", "nav"} /\ BrowserQueue(r.caps)
  <2>1. BrowserReceiptHolds(c.gates, r, EgressOf(c, r.bound), BrowserPolicyOf(c))
    BY <1>2, <1>4 DEF BrowserQueue, QueueCapability
  <2>. QED  BY <1>4, <2>1 DEF BrowserReceiptHolds
<1>5. CASE g = "nav" /\ r.surface = "navigation"
  <2>1. "browser" \in r.caps /\ "queue" \notin r.caps
    BY <1>2, <1>5
  <2>2. NavigationAllowed(c, r)
    BY <1>5, <2>1 DEF Granted
  <2>. QED  BY <1>5, <2>2, Zenon DEF NavigationAllowed
<1>6. CASE g = "queue_dataset" /\ {"queue", "dataset"} \subseteq r.caps
  BY <1>1, <1>6, Zenon DEF CapabilitiesAllowed, DatasetCapability
<1>7. CASE g = "queue_kv" /\ {"queue", "kv"} \subseteq r.caps
  BY <1>1, <1>7, Zenon DEF CapabilitiesAllowed, KvCapability
<1>. QED  BY <1>3, <1>4, <1>5, <1>6, <1>7, Zenon DEF Requires, HttpQueue, BrowserQueue

LEMMA AcceptedCompositions ==
  ASSUME NEW w \in WorkerConfigs, NEW r, NEW l, Accepts(w, r, l),
         NEW g \in Requires(r.caps, r.surface) \ r.caps,
         r.surface = "navigation" => "browser" \in r.caps
  PROVE  g \in w.gates
<1>1. AcceptsStores(w, r, l) /\ AcceptsQueue(w, r) /\ AcceptsProfile(w, r, l)
  BY Zenon DEF Accepts
<1>2. CASE g = "queue_http" /\ HttpQueue(r.caps)
  BY <1>1, <1>2, Zenon DEF HttpQueue, AcceptsQueue
<1>3. CASE g \in {"queue_browser", "nav"} /\ BrowserQueue(r.caps)
  <2>1. "queue_browser" \in w.gates
    BY <1>1, <1>3, Zenon DEF BrowserQueue, AcceptsQueue
  <2>2. ValidWorkerConfig(w)
    BY ConfigAssumption, Zenon
  <2>3. "queue_browser" \in Compositions \ {"nav"} /\ "queue_browser" \in Gates
    BY DEF Compositions, Gates
  <2>4. Needs["queue_browser"] \subseteq w.gates
    BY <2>1, <2>2, <2>3, Zenon DEF ValidWorkerConfig
  <2>5. "nav" \in Needs["queue_browser"]
    BY <2>3 DEF Needs
  <2>. QED  BY <1>3, <2>1, <2>4, <2>5, Zenon
<1>4. CASE g = "nav" /\ r.surface = "navigation"
  BY <1>1, <1>4, Zenon DEF AcceptsProfile, AcceptsNavigation
<1>5. CASE g = "queue_dataset" /\ {"queue", "dataset"} \subseteq r.caps
  <2>1. g \in l.features
    BY <1>1, <1>5, Zenon DEF AcceptsStores, FeaturesOf
  <2>. QED  BY <1>1, <1>5, <2>1, Zenon DEF AcceptsStores
<1>6. CASE g = "queue_kv" /\ {"queue", "kv"} \subseteq r.caps
  <2>1. g \in l.features
    BY <1>1, <1>6, Zenon DEF AcceptsStores, FeaturesOf
  <2>. QED  BY <1>1, <1>6, <2>1, Zenon DEF AcceptsStores
<1>. QED  BY <1>2, <1>3, <1>4, <1>5, <1>6, Zenon DEF Requires, HttpQueue, BrowserQueue

-----------------------------------------------------------------------------
(* The steps.                                                              *)

SameRun(r, n) ==
  /\ n.caps = r.caps /\ n.surface = r.surface /\ n.bound = r.bound
  /\ n.egress = r.egress /\ n.browser = r.browser /\ n.dispatch = r.dispatch

LEMMA StatusOnly ==
  ASSUME NEW r, IsRun(r), NEW s, NEW n, n = [r EXCEPT !.status = s]
  PROVE  IsRun(n) /\ n.status = s /\ SameRun(r, n)
BY DEF IsRun, SameRun

LEMMA SameIssue ==
  ASSUME NEW c, NEW r, NEW n, NEW l, SameRun(r, n), IssuedBy(c, r, l)
  PROVE  IssuedBy(c, n, l)
<1>1. Granted(c, n)
  <2>1. CapabilitiesAllowed(c, n)
    BY Zenon DEF IssuedBy, Granted, SameRun, CapabilitiesAllowed, QueueCapability,
                 BrowserReceiptHolds, HttpReceiptHolds, DatasetReceiptHolds, KvReceiptHolds,
                 KvCapability, DatasetCapability
  <2>. QED  BY <2>1, Zenon DEF IssuedBy, Granted, SameRun, NavigationAllowed
<1>. QED  BY <1>1, Zenon DEF IssuedBy, SameRun

LEMMA ActivationInitial == ActivationInit => ActivationInv
<1>. SUFFICES ASSUME ActivationInit PROVE ActivationInv
  OBVIOUS
<1>1. IsRun(NoRun) /\ NoRun.caps = {} /\ NoRun.bound = 0 /\ NoRun.surface = "none"
      /\ NoRun.status = "NONE"
  BY DEF IsRun, NoRun
<1>2. policy = [active |-> policy.active, revision |-> policy.revision]
      /\ policy.revision \in Revisions
  BY DEF ActivationInit
<1>3. /\ run = NoRun /\ api \in ApiConfigs /\ worker \in WorkerConfigs
      /\ "none" # "navigation" /\ "NONE" \notin {"STARTING", "RUNNING"} /\ "NONE" # "REFUSED"
  BY DEF ActivationInit
<1>. QED  BY <1>1, <1>2, <1>3, Zenon DEF ActivationInv, IssuedIsAccepted

LEMMA CreateKeeps == ASSUME ActivationInv, CreateRun PROVE ActivationInv'
<1>1. PICK caps \in Manifests, surface \in Surfaces, asked \in BOOLEAN :
        LET bound == IF asked THEN policy.revision ELSE 0
        IN  Admissible(api, caps, surface, bound) /\ run' = RunOf(api, caps, surface, bound)
  BY Zenon DEF CreateRun
<1>2. PICK bound \in Revisions \cup {0} :
        Admissible(api, caps, surface, bound) /\ run' = RunOf(api, caps, surface, bound)
  BY <1>1, Zenon DEF ActivationInv
<1>3. /\ IsRun(run') /\ run'.caps = caps /\ run'.bound = bound /\ run'.surface = surface
      /\ run'.status \in {"QUEUED", "DRAFT"}
  BY <1>2 DEF RunOf, IsRun
<1>4. /\ run'.caps \subseteq Capabilities
      /\ run'.surface = "navigation" => "browser" \in run'.caps
  BY <1>2, <1>3, ManifestAssumption, Zenon DEF Admissible
<1>5. run'.status \notin {"STARTING", "RUNNING"} /\ run'.status # "REFUSED"
  BY <1>3
<1>6. UNCHANGED <<api, worker, policy, lease>>
  BY Zenon DEF CreateRun
<1>. QED  BY <1>3, <1>4, <1>5, <1>6, Zenon DEF ActivationInv, IssuedIsAccepted

LEMMA PolicySwitch ==
  ASSUME NEW p, p = [active |-> p.active, revision |-> p.revision], NEW b
  PROVE  [p EXCEPT !.active = b] = [active |-> b, revision |-> p.revision]
OBVIOUS

\* What the claim issues is the activation of its own settings.
LEMMA ClaimIssues ==
  ASSUME NEW c \in ApiConfigs, NEW r, NEW l, l = LeaseOf(c, r), l.enabled
  PROVE  l.by = c /\ IssuedBy(c, r, l)
<1>1. CASE Activates(c, r)
  <2>1. PICK e, f, p, q : /\ e = TRUE /\ f = FeaturesOf(r.caps)
                          /\ p = IF "web" \in r.caps THEN EgressOf(c, r.bound) ELSE None
                          /\ q = IF "browser" \in r.caps THEN BrowserPolicyOf(c) ELSE None
    BY Zenon
  <2>2. l = [enabled |-> e, features |-> f, egress |-> p, browser |-> q,
             bound |-> r.bound, by |-> c]
    BY <1>1, <2>1, Zenon DEF LeaseOf
  <2>3. l.features = f /\ l.egress = p /\ l.browser = q /\ l.bound = r.bound /\ l.by = c
    BY <2>2
  <2>4. Granted(c, r)
    BY <1>1, Zenon DEF Activates, Granted
  <2>. QED  BY <2>1, <2>3, <2>4, Zenon DEF IssuedBy
<1>2. CASE ~Activates(c, r)
  <2>1. l = [NoLease EXCEPT !.by = c]
    BY <1>2, Zenon DEF LeaseOf
  <2>2. l.enabled = FALSE
    BY <2>1 DEF NoLease
  <2>. QED  BY <2>2
<1>. QED  BY <1>1, <1>2

LEMMA ClaimKeeps == ASSUME ActivationInv, ClaimRun PROVE ActivationInv'
<1>1. /\ run' = [run EXCEPT !.status = "STARTING"] /\ lease' = LeaseOf(api, run)
      /\ UNCHANGED <<api, worker, policy>>
  BY Zenon DEF ClaimRun
<1>2. IsRun(run') /\ run'.status = "STARTING" /\ SameRun(run, run')
  BY <1>1, StatusOnly, Zenon DEF ActivationInv
<1>3. ASSUME lease'.enabled PROVE IssuedBy(lease'.by, run', lease')
  <2>1. lease'.by = api /\ IssuedBy(api, run, lease')
    BY <1>1, <1>3, ClaimIssues, Zenon DEF ActivationInv
  <2>. QED  BY <1>2, <2>1, SameIssue, Zenon
<1>4. run'.status # "REFUSED"
  BY <1>2
<1>. QED  BY <1>1, <1>2, <1>3, <1>4, Zenon DEF ActivationInv, IssuedIsAccepted, SameRun

\* A step that only changes the status of the Run
LEMMA StatusKeeps ==
  ASSUME ActivationInv, NEW s, run' = [run EXCEPT !.status = s],
         s \in {"STARTING", "RUNNING"} => run.status \in {"STARTING", "RUNNING"},
         UNCHANGED <<api, worker, policy, lease>>,
         s = "REFUSED" => ~Accepts(worker, run, lease) /\ lease.enabled /\ run.status = "STARTING"
  PROVE  ActivationInv'
<1>1. IsRun(run') /\ run'.status = s /\ SameRun(run, run')
  BY StatusOnly, Zenon DEF ActivationInv
<1>2. ASSUME run'.status \in {"STARTING", "RUNNING"}, lease.enabled
      PROVE  IssuedBy(lease.by, run', lease)
  BY <1>1, <1>2, SameIssue, Zenon DEF ActivationInv
<1>3. ASSUME run'.status = "REFUSED", SameSettings(worker, lease.by)
      PROVE  run.bound \in Credentialed /\ "browser" \in run.caps
  <2>1. IssuedBy(lease.by, run, lease)
    BY <1>1, <1>3, Zenon DEF ActivationInv
  <2>. QED  BY <1>1, <1>3, <2>1, IssuedAccepted, Zenon DEF ActivationInv
<1>4. IssuedIsAccepted'
  BY <1>1, <1>3, Zenon DEF IssuedIsAccepted, SameSettings, SameRun
<1>. QED  BY <1>1, <1>2, <1>4, Zenon DEF ActivationInv, SameRun

LEMMA ActivationNextKeeps ==
  ASSUME ActivationInv, [ActivationNext]_activationVars PROVE ActivationInv'
<1>1. CASE CreateRun
  BY <1>1, CreateKeeps, Zenon
<1>2. CASE ClaimRun
  BY <1>2, ClaimKeeps, Zenon
<1>3. CASE RevokeBinding
  <2>1. "FAILED" \notin {"STARTING", "RUNNING"} /\ "FAILED" # "REFUSED"
    OBVIOUS
  <2>. QED  BY <1>3, <2>1, StatusKeeps, Zenon DEF RevokeBinding
<1>4. CASE StartRun
  <2>1. "RUNNING" # "REFUSED"
    OBVIOUS
  <2>. QED  BY <1>4, <2>1, StatusKeeps, Zenon DEF StartRun
<1>5. CASE RefuseRun
  <2>1. PICK s : s = IF lease.enabled THEN "REFUSED" ELSE "FAILED"
    BY Zenon
  <2>2. s \notin {"STARTING", "RUNNING"} /\ (s = "REFUSED" => lease.enabled)
    BY <2>1
  <2>. QED  BY <1>5, <2>1, <2>2, StatusKeeps, Zenon DEF RefuseRun
<1>6. CASE CallStorage
  <2>1. UNCHANGED <<api, worker, policy, lease>>
    BY <1>6, Zenon DEF CallStorage
  <2>2. CASE UNCHANGED run
    BY <2>1, <2>2, Zenon DEF ActivationInv, IssuedIsAccepted
  <2>3. CASE run' = [run EXCEPT !.status = "FAILED"]
    <3>1. "FAILED" \notin {"STARTING", "RUNNING"} /\ "FAILED" # "REFUSED"
      OBVIOUS
    <3>. QED  BY <2>1, <2>3, <3>1, StatusKeeps, Zenon
  <2>. QED  BY <1>6, <2>2, <2>3, Zenon DEF CallStorage
<1>7. CASE FinishRun
  <2>1. "SUCCEEDED" \notin {"STARTING", "RUNNING"} /\ "SUCCEEDED" # "REFUSED"
    OBVIOUS
  <2>. QED  BY <1>7, <2>1, StatusKeeps, Zenon DEF FinishRun
<1>8. CASE Heartbeat
  BY <1>8, Zenon DEF Heartbeat, ActivationInv, IssuedIsAccepted
<1>9. CASE RedeployApi
  BY <1>9, Zenon DEF RedeployApi, ActivationInv, IssuedIsAccepted
<1>10. CASE RedeployWorker
  <2>1. run.status # "REFUSED"
    BY <1>10, Zenon DEF RedeployWorker, Open
  <2>. QED  BY <1>10, <2>1, Zenon DEF RedeployWorker, ActivationInv, IssuedIsAccepted
<1>11. CASE ChangePolicy
  <2>1. UNCHANGED <<api, worker, run, lease>>
    BY <1>11, Zenon DEF ChangePolicy
  <2>2. PICK on \in BOOLEAN, v \in Revisions : policy' = [active |-> on, revision |-> v]
    <3>1. CASE \E v \in Revisions : policy' = [active |-> TRUE, revision |-> v]
      BY <3>1, Zenon
    <3>2. CASE policy' = [policy EXCEPT !.active = FALSE]
      BY <3>2, PolicySwitch, Zenon DEF ActivationInv
    <3>. QED  BY <1>11, <3>1, <3>2, Zenon DEF ChangePolicy
  <2>3. policy' = [active |-> policy'.active, revision |-> policy'.revision]
        /\ policy'.revision \in Revisions
    BY <2>2, Zenon
  <2>. QED  BY <2>1, <2>3, Zenon DEF ActivationInv, IssuedIsAccepted
<1>12. CASE UNCHANGED activationVars
  BY <1>12, Zenon DEF activationVars, ActivationInv, IssuedIsAccepted
<1>. QED  BY <1>1, <1>2, <1>3, <1>4, <1>5, <1>6, <1>7, <1>8, <1>9, <1>10, <1>11, <1>12, Zenon
          DEF ActivationNext

-----------------------------------------------------------------------------
(* The results.                                                            *)

\* While a Run is STARTING or RUNNING its lease carries what _canary_activation
\* tested under the settings of the claim, whatever is redeployed or revised since.
THEOREM ActivationInvariance == ActivationSpec => []ActivationInv
BY ActivationInitial, ActivationNextKeeps, PTL DEF ActivationSpec

\* The claim's rules (_sandbox_claim_policy, _canary_activation) and the worker's
\* (_require_canary_activation) agree for every manifest, configuration and policy.
THEOREM RulesAgree == ActivationSpec => []IssuedIsAccepted
<1>1. ActivationInv => IssuedIsAccepted
  BY Zenon DEF ActivationInv
<1>. QED  BY <1>1, ActivationInvariance, PTL

\* A Run that starts has been granted everything it declares by both sides.
LEMMA StartIsGranted ==
  ASSUME ActivationInv, StartRun
  PROVE  /\ Requires(run.caps, run.surface) \subseteq lease.by.gates \cap worker.gates
         /\ "web" \in run.caps => WorkerEgress(worker, run) = EgressOf(lease.by, run.bound)
         /\ run.bound # 0 =>
              Width[run.bound] <= lease.by.ceiling /\ Width[run.bound] <= worker.ceiling
<1>1. Accepts(worker, run, lease) /\ worker \in WorkerConfigs
  BY Zenon DEF StartRun, ActivationInv
<1>2. IssuedBy(lease.by, run, lease) /\ Granted(lease.by, run)
  BY <1>1, Zenon DEF StartRun, ActivationInv, Accepts, IssuedBy
<1>3. ASSUME NEW g \in Requires(run.caps, run.surface)
      PROVE  g \in lease.by.gates /\ g \in worker.gates
  <2>1. CASE g \in run.caps
    <3>1. g \in Capabilities
      BY <2>1, Zenon DEF ActivationInv
    <3>. QED  BY <1>1, <1>2, <2>1, <3>1, GrantedCapabilities, AcceptedCapabilities, Zenon
              DEF Granted
  <2>2. CASE g \notin run.caps
    BY <1>1, <1>2, <1>3, <2>2, GrantedCompositions, AcceptedCompositions, Zenon
       DEF ActivationInv
  <2>. QED  BY <2>1, <2>2
<1>4. ASSUME "web" \in run.caps
      PROVE  WorkerEgress(worker, run) = EgressOf(lease.by, run.bound)
  BY <1>1, <1>2, <1>4, Zenon DEF Accepts, AcceptsProfile, IssuedBy
<1>5. ASSUME run.bound # 0
      PROVE  Width[run.bound] <= lease.by.ceiling /\ Width[run.bound] <= worker.ceiling
  <2>1. Width[run.bound] <= lease.by.ceiling
    BY <1>2, <1>5, Zenon DEF Granted, CapabilitiesAllowed, WithinCeiling
  <2>2. WorkerEgress(worker, run) # None
    BY <1>1, <1>5, Zenon DEF Accepts, AcceptsProfile
  <2>3. ~(Width[run.bound] > worker.ceiling)
    BY <1>5, <2>2, Zenon DEF WorkerEgress
  <2>4. worker.ceiling \in Nat /\ Width[run.bound] \in Nat
    BY <1>1, <1>5, ConfigAssumption, PolicyAssumption DEF ActivationInv
  <2>. QED  BY <2>1, <2>3, <2>4
<1>. QED  BY <1>3, <1>4, <1>5, Zenon

LEMMA CallIsGranted ==
  ASSUME CallStorage, NEW cap \in used' \ used PROVE cap \in api.gates
<1>1. cap \in {"queue", "dataset", "kv"} /\ CallAllowed(api, run, lease, cap)
  BY Zenon DEF CallStorage
<1>2. CASE cap = "queue"
  BY <1>1, <1>2 DEF CallAllowed, QueueCallAllowed, QueueCapability
<1>3. CASE cap = "dataset"
  BY <1>1, <1>3 DEF CallAllowed, DatasetCallAllowed, DatasetCapability
<1>4. CASE cap = "kv"
  BY <1>1, <1>4 DEF CallAllowed, KvCallAllowed, KvCapability
<1>. QED  BY <1>1, <1>2, <1>3, <1>4

\* Only StartRun begins an execution and only CallStorage uses a capability.
LEMMA OnlyStartStarts ==
  ASSUME ActivationInv, [ActivationNext]_activationVars
  PROVE  /\ run.status # "RUNNING" /\ run'.status = "RUNNING" => StartRun
         /\ used' # used => CallStorage
<1>1. ASSUME NEW s, run' = [run EXCEPT !.status = s] PROVE run'.status = s
  BY <1>1, StatusOnly, Zenon DEF ActivationInv
<1>2. CASE CreateRun
  <2>1. run'.status \in {"QUEUED", "DRAFT"}
    BY <1>2 DEF CreateRun, RunOf
  <2>. QED  BY <1>2, <2>1 DEF CreateRun
<1>3. CASE ClaimRun
  BY <1>1, <1>3 DEF ClaimRun
<1>4. CASE RevokeBinding
  BY <1>1, <1>4 DEF RevokeBinding
<1>5. CASE StartRun
  BY <1>5, Zenon DEF StartRun
<1>6. CASE RefuseRun
  BY <1>1, <1>6 DEF RefuseRun
<1>7. CASE CallStorage
  <2>1. run.status = "RUNNING"
    BY <1>7, Zenon DEF CallStorage
  <2>. QED  BY <1>7, <2>1, Zenon
<1>8. CASE FinishRun
  BY <1>1, <1>8 DEF FinishRun
<1>9. CASE Heartbeat \/ RedeployApi \/ RedeployWorker \/ ChangePolicy \/ UNCHANGED activationVars
  BY <1>9, Zenon DEF Heartbeat, RedeployApi, RedeployWorker, ChangePolicy, activationVars
<1>. QED  BY <1>2, <1>3, <1>4, <1>5, <1>6, <1>7, <1>8, <1>9, Zenon DEF ActivationNext

\* Every party has switched on what a Run uses, whatever is redeployed meanwhile.
THEOREM EveryPartyGrants == ActivationSpec => GrantedByEveryParty
<1>1. ActivationInv /\ [ActivationNext]_activationVars =>
        [/\ (run.status # "RUNNING" /\ run'.status = "RUNNING") =>
              /\ Requires(run.caps, run.surface) \subseteq lease.by.gates \cap worker.gates
              /\ "web" \in run.caps => WorkerEgress(worker, run) = EgressOf(lease.by, run.bound)
              /\ run.bound # 0 =>
                  Width[run.bound] <= lease.by.ceiling /\ Width[run.bound] <= worker.ceiling
         /\ \A cap \in used' \ used : cap \in api.gates]_activationVars
  BY OnlyStartStarts, StartIsGranted, CallIsGranted, Zenon
<1>. QED  BY <1>1, ActivationInvariance, PTL DEF ActivationSpec, GrantedByEveryParty

-----------------------------------------------------------------------------
(***************************************************************************)
(* SandboxWorker, for any number of workers and Runs, all outputs within   *)
(* the limit of the output document and every loss of a call or an answer. *)
(*                                                                         *)
(* The invariant states what has been written at each stage of _run.       *)
(* Another process may replay the same mutations and items under the same  *)
(* keys, and the stores only grow; so what a process stored is still there *)
(* when it completes its request, and a request it completed is still      *)
(* HANDLED when it reports SUCCEEDED.                                      *)
(***************************************************************************)

(* The invariant.                                                          *)

\* The stages up to the one that leaves an output
Before == {"prepare", "claimRequest", "acquire", "http", "kvRead", "fetch", "secrets",
           "status", "agent", "build"}
Early == Before \cup {"down", "idle", "acquiring", "running"}
CancelPlaces == {"cancelBox", "cancelled", "returned", "exit", "dying"}
Jobless == {"down", "idle", "dying"}

\* A record with the local variables of _run, for a lease on a Run
IsProc(me) ==
  /\ me = [at |-> me.at, job |-> me.job, token |-> me.token, out |-> me.out, idx |-> me.idx]
  /\ me.out \in Outputs \cup {Opaque, Nothing} /\ me.idx \in Nat \ {0}

\* What a process record says of itself
LocalOK(me) ==
  /\ IsProc(me)
  /\ me.job.kind = "CANCEL" => me.at \in CancelPlaces
  /\ me.at \in {"prepare", "claimRequest", "empty"} => me.token = 0
  /\ me.token # 0 \/ me.at \notin Jobless => me.job.run \in Runs
  /\ me.at \in Early => me.idx = 1
  /\ me.at = "mutate" => /\ me.out \notin {Nothing, <<>>}
                         /\ me.out \in Outputs => me.idx <= Len(me.out)
  /\ me.at = "append" => me.out # Nothing

\* The mutations and the items of an output are in the stores S.
Mutated(me, S) ==
  "kv" \in plan[me.job.run] /\ me.out # Nothing =>
    \/ me.out = <<>>
    \/ /\ me.out \in Outputs /\ Len(me.out) <= MaxMutations
       /\ \A i \in 1..Len(me.out) : S[me.job.run].kv[i] = me.out[i]

Appended(me, S) ==
  "dataset" \in plan[me.job.run] /\ me.out # Nothing => S[me.job.run].items = me.out

StoreOK(me, S) ==
  /\ me.at = "mutate" /\ me.out \in Outputs =>
       \A i \in 1..(me.idx - 1) : i <= MaxMutations /\ S[me.job.run].kv[i] = me.out[i]
  /\ me.at \in {"append", "settle"} => Mutated(me, S)
  /\ me.at = "settle" => Appended(me, S)

\* Beyond the completion of the request, a claimed request is HANDLED.
Settled(me, R) ==
  me.token # 0 /\ me.out # Nothing => R.status = "HANDLED" /\ R.token = me.token

SettledOK(me, R) == me.at \in {"upload", "finish"} => Settled(me, R)

IsRequest(R) == R = [status |-> R.status, token |-> R.token, live |-> R.live]

Stores == [Runs -> [kv : [1..MaxMutations -> Entries \cup {Nothing}],
                    items : Outputs \cup {Nothing}]]

WorkerInv ==
  /\ stored \in Stores /\ IsRequest(request)
  /\ proc = [w \in Workers |-> proc[w]] /\ dog = [w \in Workers |-> dog[w]]
  /\ runStatus = [r \in Runs |-> runStatus[r]]
  /\ \A w \in Workers :
       /\ LocalOK(proc[w]) /\ StoreOK(proc[w], stored) /\ SettledOK(proc[w], request)
       /\ proc[w].at \in {"down", "idle"} => dog[w] = "off"

-----------------------------------------------------------------------------
(* The stages.                                                             *)

StageSet == Before \cup {"mutate", "append", "settle", "upload", "finish"}

LEMMA StageIs ==
  /\ Len(Stages) = 15
  /\ Stages[1] = "prepare" /\ Stages[2] = "claimRequest" /\ Stages[3] = "acquire"
  /\ Stages[4] = "http" /\ Stages[5] = "kvRead" /\ Stages[6] = "fetch"
  /\ Stages[7] = "secrets" /\ Stages[8] = "status" /\ Stages[9] = "agent"
  /\ Stages[10] = "build" /\ Stages[11] = "mutate" /\ Stages[12] = "append"
  /\ Stages[13] = "settle" /\ Stages[14] = "upload" /\ Stages[15] = "finish"
BY DEF Stages

LEMMA PositionIs ==
  ASSUME NEW s \in StageSet
  PROVE  Position(s) \in 1..15 /\ Stages[Position(s)] = s
<1>1. \E i \in 1..15 : Stages[i] = s
  BY StageIs DEF StageSet, Before
<1>2. Position(s) = CHOOSE i \in 1..15 : Stages[i] = s
  BY StageIs, Zenon DEF Position
<1>. QED  BY <1>1, <1>2

\* A set of stages has a first one.
LEMMA LeastIs ==
  ASSUME NEW P \in SUBSET (1..15), 15 \in P
  PROVE  Min(P) \in P /\ \A j \in P : Min(P) <= j
<1>1. \E m \in P : \A j \in P : m <= j
  OBVIOUS
<1>. QED  BY <1>1, Zenon DEF Min

\* The stage Proceed goes to: the next one that applies
Ahead(from, s, me) ==
  /\ s \in StageSet \ {"prepare"} /\ Applies(s, me)
  /\ s = "claimRequest" => from = "prepare"
  /\ s \in Before => from \in Before
  /\ s = "mutate" => from \in Before
  /\ s = "append" => from \in Before \cup {"mutate"}
  /\ s = "settle" => from \in Before \cup {"mutate", "append"}
  /\ s \in {"append", "settle", "upload", "finish"} /\ from \in Before => ~Applies("mutate", me)
  /\ s \in {"settle", "upload", "finish"} /\ from \in Before \cup {"mutate"} =>
       ~Applies("append", me)
  /\ s \in {"upload", "finish"} /\ from \in Before \cup {"mutate", "append"} =>
       ~Applies("settle", me)

GoesTo(w, me, s) == proc' = [proc EXCEPT ![w] = [me EXCEPT !.at = s]]

LEMMA ProceedAhead ==
  ASSUME NEW w, NEW from \in StageSet \ {"finish"}, NEW me, Proceed(w, from, me)
  PROVE  \E s : Ahead(from, s, me) /\ GoesTo(w, me, s)
<1>1. PICK k : k = Position(from)
  BY Zenon
<1>2. k \in 1..15 /\ Stages[k] = from
  BY <1>1, PositionIs, Zenon
<1>3. PICK P : P = {i \in 1..15 : i > k /\ Applies(Stages[i], me)}
  BY Zenon
<1>4. proc' = [proc EXCEPT ![w] = [me EXCEPT !.at = Stages[Min(P)]]]
  BY <1>1, <1>3, StageIs, Zenon DEF Proceed
<1>5. Applies("finish", me)
  BY DEF Applies
<1>6. k < 15
  BY <1>2, StageIs
<1>7. P \in SUBSET (1..15) /\ 15 \in P
  BY <1>2, <1>3, <1>5, <1>6, StageIs
<1>8. PICK m : m = Min(P)
  BY Zenon
<1>9. m \in P /\ \A j \in P : m <= j
  BY <1>7, <1>8, LeastIs, Zenon
<1>10. m \in 1..15 /\ m > k /\ Applies(Stages[m], me)
  BY <1>3, <1>9
<1>11. \A j \in 1..15 : k < j /\ j < m => ~Applies(Stages[j], me)
  BY <1>2, <1>3, <1>9, <1>10
<1>12. Ahead(from, Stages[m], me)
  <2>1. Stages[m] \in StageSet \ {"prepare"}
    BY <1>2, <1>10, StageIs DEF StageSet, Before
  <2>2. /\ k <= 10 <=> from \in Before
        /\ k = 1 <=> from = "prepare"
        /\ k = 11 <=> from = "mutate"
        /\ k = 12 <=> from = "append"
    BY <1>2, StageIs DEF Before
  <2>3. PICK s : s = Stages[m]
    BY Zenon
  <2>4. /\ s = "claimRequest" => m = 2
        /\ s \in Before => m <= 10
        /\ s = "mutate" => m = 11
        /\ s = "append" => m = 12
        /\ s = "settle" => m = 13
        /\ s \in {"upload", "finish"} => m >= 14
    BY <1>10, <2>3, StageIs DEF Before
  <2>5. /\ s = "claimRequest" => from = "prepare"
        /\ s \in Before => from \in Before
        /\ s = "mutate" => from \in Before
        /\ s = "append" => from \in Before \cup {"mutate"}
        /\ s = "settle" => from \in Before \cup {"mutate", "append"}
    BY <1>2, <1>10, <2>2, <2>4
  <2>6. ASSUME s \in {"append", "settle", "upload", "finish"}, from \in Before
        PROVE  ~Applies("mutate", me)
    <3>1. k < 11 /\ 11 < m
      BY <1>2, <1>10, <2>2, <2>4, <2>6
    <3>. QED  BY <1>11, <3>1, StageIs
  <2>7. ASSUME s \in {"settle", "upload", "finish"}, from \in Before \cup {"mutate"}
        PROVE  ~Applies("append", me)
    <3>1. k < 12 /\ 12 < m
      BY <1>2, <1>10, <2>2, <2>4, <2>7
    <3>. QED  BY <1>11, <3>1, StageIs
  <2>8. ASSUME s \in {"upload", "finish"}, from \in Before \cup {"mutate", "append"}
        PROVE  ~Applies("settle", me)
    <3>1. k < 13 /\ 13 < m
      BY <1>2, <1>10, <2>2, <2>4, <2>8
    <3>. QED  BY <1>11, <3>1, StageIs
  <2>9. s \in StageSet \ {"prepare"} /\ Applies(s, me)
    BY <1>10, <2>1, <2>3, Zenon
  <2>10. Ahead(from, s, me)
    BY <2>5, <2>6, <2>7, <2>8, <2>9, Zenon DEF Ahead
  <2>. QED  BY <2>3, <2>10, Zenon
<1>. QED  BY <1>4, <1>8, <1>12, Zenon DEF GoesTo

LEMMA AppliesIs ==
  ASSUME NEW me
  PROVE  /\ Applies("mutate", me) <=> /\ "kv" \in plan[me.job.run]
                                      /\ me.out # Nothing /\ me.out # <<>>
         /\ Applies("append", me) <=> "dataset" \in plan[me.job.run] /\ me.out # Nothing
         /\ Applies("settle", me) <=> me.token # 0
BY DEF Applies

-----------------------------------------------------------------------------
(* Moving the main thread.                                                 *)

\* What has been done when the main thread leaves a stage
Ready(from, me, S, R) ==
  /\ IsProc(me) /\ me.job.kind # "CANCEL" /\ me.job.run \in Runs
  /\ from = "prepare" => me.token = 0
  /\ from \in Before => me.idx = 1
  /\ from \in {"mutate", "append"} => Mutated(me, S)
  /\ from = "append" => Appended(me, S)
  /\ from \in {"settle", "upload"} => Settled(me, R)

\* A place other than those a process claims from, with the work done before it
Sound(n, S, R) ==
  LocalOK(n) /\ StoreOK(n, S) /\ SettledOK(n, R) /\ n.at \notin {"down", "idle"}

Moved(me, n, s) ==
  /\ IsProc(n) /\ n.at = s /\ n.job = me.job /\ n.token = me.token
  /\ n.out = me.out /\ n.idx = me.idx

LEMMA MovedTo ==
  ASSUME NEW me, IsProc(me), NEW s, NEW n, n = [me EXCEPT !.at = s]
  PROVE  Moved(me, n, s)
BY DEF IsProc, Moved

LEMMA NotEmpty ==
  ASSUME NEW o \in Outputs, o # <<>> PROVE 1 <= Len(o)
BY OutputAssumption

\* A step of the main thread of w to a sound place
Steps(w, S, R) == \E n : Sound(n, S, R) /\ proc' = [proc EXCEPT ![w] = n]

LEMMA ProceedSteps ==
  ASSUME NEW w, NEW from \in StageSet \ {"finish"}, NEW me, NEW S, NEW R,
         Ready(from, me, S, R), Proceed(w, from, me)
  PROVE  Steps(w, S, R)
<1>1. PICK s : Ahead(from, s, me) /\ GoesTo(w, me, s)
  BY ProceedAhead, Zenon
<1>2. PICK n : n = [me EXCEPT !.at = s]
  BY Zenon
<1>3. /\ IsProc(n) /\ n.at = s /\ n.job = me.job /\ n.token = me.token
      /\ n.out = me.out /\ n.idx = me.idx
  <2>1. Moved(me, n, s)
    BY <1>2, MovedTo, Zenon DEF Ready
  <2>. QED  BY <2>1, Zenon DEF Moved
<1>4. LocalOK(n)
  <2>1. s = "mutate" => /\ n.out \notin {Nothing, <<>>}
                        /\ n.out \in Outputs => n.idx <= Len(n.out)
    <3>1. ASSUME s = "mutate" PROVE me.out \notin {Nothing, <<>>} /\ me.idx = 1
      BY <1>1, <3>1, AppliesIs, Zenon DEF Ahead, Ready
    <3>. QED  BY <1>3, <3>1, NotEmpty, Zenon
  <2>2. s = "append" => n.out # Nothing
    BY <1>1, <1>3, AppliesIs, Zenon DEF Ahead
  <2>3. s \in Early => n.idx = 1
    <3>1. s \in Early => s \in Before
      BY <1>1 DEF Ahead, Early, StageSet, Before
    <3>. QED  BY <1>1, <1>3, <3>1, Zenon DEF Ahead, Ready
  <2>4. s \in {"prepare", "claimRequest", "empty"} => n.token = 0
    <3>1. s \in {"prepare", "claimRequest", "empty"} => s = "claimRequest"
      BY <1>1 DEF Ahead, StageSet, Before
    <3>. QED  BY <1>1, <1>3, <3>1, Zenon DEF Ahead, Ready
  <2>. QED  BY <1>3, <2>1, <2>2, <2>3, <2>4, Zenon DEF LocalOK, Ready
<1>5. StoreOK(n, S)
  <2>1. ASSUME s = "mutate"
        PROVE  \A i \in 1..(n.idx - 1) : i <= MaxMutations /\ S[n.job.run].kv[i] = n.out[i]
    <3>1. n.idx = 1
      BY <1>1, <1>3, <2>1, Zenon DEF Ahead, Ready
    <3>. QED  BY <3>1
  <2>2. ASSUME s \in {"append", "settle"} PROVE Mutated(n, S)
    <3>1. CASE from \in Before
      BY <1>1, <1>3, <2>2, <3>1, AppliesIs, Zenon DEF Ahead, Mutated
    <3>2. CASE from \in {"mutate", "append"}
      BY <1>3, <3>2, Zenon DEF Ready, Mutated
    <3>. QED  BY <1>1, <2>2, <3>1, <3>2, Zenon DEF Ahead
  <2>3. ASSUME s = "settle" PROVE Appended(n, S)
    <3>1. CASE from \in Before \cup {"mutate"}
      BY <1>1, <1>3, <2>3, <3>1, AppliesIs, Zenon DEF Ahead, Appended
    <3>2. CASE from = "append"
      BY <1>3, <3>2, Zenon DEF Ready, Appended
    <3>. QED  BY <1>1, <2>3, <3>1, <3>2, Zenon DEF Ahead
  <2>. QED  BY <1>3, <2>1, <2>2, <2>3, Zenon DEF StoreOK
<1>6. SettledOK(n, R)
  <2>1. ASSUME s \in {"upload", "finish"} PROVE Settled(n, R)
    <3>1. CASE from \in Before \cup {"mutate", "append"}
      BY <1>1, <1>3, <2>1, <3>1, AppliesIs, Zenon DEF Ahead, Settled
    <3>2. CASE from \in {"settle", "upload"}
      BY <1>3, <3>2, Zenon DEF Ready, Settled
    <3>. QED  BY <3>1, <3>2, Zenon DEF StageSet
  <2>. QED  BY <1>3, <2>1, Zenon DEF SettledOK
<1>7. s \notin {"down", "idle"}
  BY <1>1 DEF Ahead, StageSet, Before
<1>8. proc' = [proc EXCEPT ![w] = n]
  BY <1>1, <1>2, Zenon DEF GoesTo
<1>. QED  BY <1>3, <1>4, <1>5, <1>6, <1>7, <1>8, Zenon DEF Sound, Steps

\* The places outside the stages
Aside == {"unclaim", "fail", "except", "dying", "empty", "running", "acquiring",
          "cancelled", "returned", "exit"}

LEMMA GotoSound ==
  ASSUME NEW me, LocalOK(me), NEW p \in Aside, NEW S, NEW R,
         me.at \in Jobless => p = "dying",
         me.at \in CancelPlaces => p \in CancelPlaces,
         p = "empty" => me.token = 0,
         p \in {"running", "acquiring"} => me.at \in Early,
         NEW n, n = [me EXCEPT !.at = p]
  PROVE  Sound(n, S, R)
<1>1. /\ IsProc(n) /\ n.at = p /\ n.job = me.job /\ n.token = me.token
      /\ n.out = me.out /\ n.idx = me.idx
  <2>1. Moved(me, n, p)
    BY MovedTo, Zenon DEF LocalOK
  <2>. QED  BY <2>1, Zenon DEF Moved
<1>2. /\ p \notin {"mutate", "append", "settle", "upload", "finish", "down", "idle"}
      /\ p \in {"prepare", "claimRequest", "empty"} => p = "empty"
      /\ p \in Early => p \in {"running", "acquiring"}
      /\ p = "dying" => p \in Jobless
  BY DEF Aside, Early, Before, Jobless
<1>3. LocalOK(n)
  BY <1>1, <1>2, Zenon DEF LocalOK
<1>4. StoreOK(n, S) /\ SettledOK(n, R)
  BY <1>1, <1>2, Zenon DEF StoreOK, SettledOK
<1>. QED  BY <1>1, <1>2, <1>3, <1>4, Zenon DEF Sound

LEMMA GotoIs ==
  ASSUME NEW w \in Workers, proc = [u \in Workers |-> proc[u]], NEW p, Goto(w, p)
  PROVE  proc' = [proc EXCEPT ![w] = [proc[w] EXCEPT !.at = p]]
BY DEF Goto

\* Where an error of a call takes the main thread
LEMMA ErrorPlace ==
  ASSUME NEW me, NEW answer
  PROVE  /\ OnError(me, answer) \in {"unclaim", "fail", "except", "dying"}
         /\ me.at \in OutsideTry => OnError(me, answer) = "dying"
<1>1. GiveUp(me) \in {"unclaim", "fail"}
  BY DEF GiveUp
<1>2. OnHttp(me) \in {"unclaim", "fail", "except", "dying"}
  BY <1>1 DEF OnHttp
<1>3. OnNet(me) \in {"unclaim", "fail", "except", "dying"}
  BY <1>1 DEF OnNet
<1>4. me.at \in OutsideTry => OnHttp(me) = "dying" /\ OnNet(me) = "dying"
  BY DEF OnHttp, OnNet, OutsideTry
<1>. QED  BY <1>2, <1>3, <1>4, Zenon DEF OnError

-----------------------------------------------------------------------------
(* What the other processes keep.                                          *)

\* What is stored under a key of the request stays.
Grows(S, S2) ==
  /\ S \in Stores /\ S2 \in Stores
  /\ \A r \in Runs :
       /\ \A i \in 1..MaxMutations : S[r].kv[i] # Nothing => S2[r].kv[i] = S[r].kv[i]
       /\ S[r].items # Nothing => S2[r].items = S[r].items

\* A handled request stays as it is.
Stays(R, R2) == IsRequest(R2) /\ (R.status = "HANDLED" => R2 = R)

LEMMA EntryIs ==
  ASSUME NEW o \in Outputs, NEW i \in 1..Len(o) PROVE o[i] \in Entries /\ o[i] # Nothing
BY OutputAssumption

LEMMA LengthIs == ASSUME NEW o \in Outputs PROVE Len(o) \in Nat
BY OutputAssumption

LEMMA StoreKept ==
  ASSUME NEW me, LocalOK(me), NEW S, StoreOK(me, S), NEW S2, Grows(S, S2)
  PROVE  StoreOK(me, S2)
<1>1. me.at \in {"mutate", "append", "settle"} => me.job.run \in Runs
  BY DEF LocalOK, Jobless
<1>2. ASSUME me.job.run \in Runs, me.out \in Outputs, NEW i \in 1..Len(me.out),
             i <= MaxMutations, S[me.job.run].kv[i] = me.out[i]
      PROVE  S2[me.job.run].kv[i] = me.out[i]
  <2>1. me.out[i] # Nothing
    BY <1>2, EntryIs, Zenon
  <2>2. i \in 1..MaxMutations
    BY <1>2, OutputAssumption, LengthIs
  <2>. QED  BY <1>2, <2>1, <2>2, Zenon DEF Grows
<1>3. ASSUME me.at = "mutate", me.out \in Outputs, NEW i \in 1..(me.idx - 1)
      PROVE  i <= MaxMutations /\ S2[me.job.run].kv[i] = me.out[i]
  <2>1. i <= MaxMutations /\ S[me.job.run].kv[i] = me.out[i]
    BY <1>3, Zenon DEF StoreOK
  <2>2. me.idx <= Len(me.out) /\ me.idx \in Nat
    BY <1>3 DEF LocalOK, IsProc
  <2>3. i \in 1..Len(me.out)
    BY <1>3, <2>2, LengthIs
  <2>. QED  BY <1>1, <1>2, <1>3, <2>1, <2>3, Zenon
<1>4. ASSUME me.at \in {"append", "settle"} PROVE Mutated(me, S2)
  <2>1. me.job.run \in Runs /\ Mutated(me, S)
    BY <1>1, <1>4, Zenon DEF StoreOK
  <2>2. ASSUME me.out \in Outputs, Len(me.out) <= MaxMutations, NEW i \in 1..Len(me.out)
        PROVE  i <= MaxMutations
    BY <2>2, LengthIs, OutputAssumption
  <2>. QED  BY <1>2, <2>1, <2>2, Zenon DEF Mutated
<1>5. ASSUME me.at = "settle" PROVE Appended(me, S2)
  BY <1>1, <1>5, Zenon DEF StoreOK, Appended, Grows
<1>. QED  BY <1>3, <1>4, <1>5, Zenon DEF StoreOK

LEMMA SettledKept ==
  ASSUME NEW me, NEW R, SettledOK(me, R), NEW R2, Stays(R, R2)
  PROVE  SettledOK(me, R2)
BY Zenon DEF SettledOK, Settled, Stays

LEMMA SameGrows == ASSUME NEW S \in Stores PROVE Grows(S, S)
BY Zenon DEF Grows

-----------------------------------------------------------------------------
(* What every step does.                                                   *)

WatchOK ==
  \A w \in Workers : dog[w] = "failed" => dog'[w] = "failed" \/ proc'[w].at = "down"

SucceedOK ==
  \A w \in Workers :
    LET me == proc[w]
    IN  me.token # 0 /\ runStatus[me.job.run] # "SUCCEEDED" /\ runStatus'[me.job.run] = "SUCCEEDED"
          /\ holder[me.job.run] = <<w, me.job.n>>
        => request.status = "HANDLED" /\ request.token = me.token

HandledOK ==
  request'.status = "HANDLED" /\ request.status # "HANDLED"
    => \E w \in Workers : /\ proc[w].token = request.token
                          /\ proc[w].out # Nothing
                          /\ Persisted(proc[w])

StepOK == WorkerInv' /\ WatchOK /\ SucceedOK /\ HandledOK

\* The state after a step of the main thread of w to n
LEMMA MainStep ==
  ASSUME WorkerInv, NEW w \in Workers, NEW n, Sound(n, stored', request'),
         proc' = [proc EXCEPT ![w] = n], UNCHANGED <<plan, dog>>,
         Grows(stored, stored'), Stays(request, request'),
         runStatus' = [r \in Runs |-> runStatus'[r]]
  PROVE  WorkerInv' /\ WatchOK
<1>1. proc' = [u \in Workers |-> IF u = w THEN n ELSE proc[u]]
  BY DEF WorkerInv
<1>2. proc'[w] = n /\ (\A u \in Workers \ {w} : proc'[u] = proc[u])
      /\ proc' = [u \in Workers |-> proc'[u]]
  BY <1>1, Zenon
<1>3. ASSUME NEW u \in Workers
      PROVE  /\ LocalOK(proc'[u]) /\ StoreOK(proc'[u], stored') /\ SettledOK(proc'[u], request')
             /\ proc'[u].at \in {"down", "idle"} => dog'[u] = "off"
  <2>1. CASE u = w
    BY <1>2, <2>1, Zenon DEF Sound
  <2>2. CASE u # w
    <3>1. LocalOK(proc[u]) /\ StoreOK(proc[u], stored) /\ SettledOK(proc[u], request)
          /\ (proc[u].at \in {"down", "idle"} => dog[u] = "off")
      BY Zenon DEF WorkerInv
    <3>. QED  BY <1>2, <2>2, <3>1, StoreKept, SettledKept, Zenon
  <2>. QED  BY <2>1, <2>2
<1>4. \A u \in Workers : StoreOK(proc[u], stored)' <=> StoreOK(proc'[u], stored')
  BY Zenon DEF StoreOK, Mutated, Appended
<1>5. stored' \in Stores /\ IsRequest(request')
  BY Zenon DEF Grows, Stays
<1>6. dog' = [u \in Workers |-> dog'[u]]
  BY Zenon DEF WorkerInv
<1>7. WorkerInv'
  BY <1>2, <1>3, <1>4, <1>5, <1>6, Zenon DEF WorkerInv
<1>. QED  BY <1>7, Zenon DEF WatchOK

\* No Run succeeds and no request is handled in a step that leaves both alone.
LEMMA QuietStep ==
  ASSUME WorkerInv, \A r \in Runs : runStatus'[r] = "SUCCEEDED" => runStatus[r] = "SUCCEEDED",
         request'.status = "HANDLED" => request.status = "HANDLED"
  PROVE  SucceedOK /\ HandledOK
<1>1. \A w \in Workers : proc[w].token # 0 => proc[w].job.run \in Runs
  BY Zenon DEF WorkerInv, LocalOK
<1>2. SucceedOK
  BY <1>1, Zenon DEF SucceedOK
<1>. QED  BY <1>2, Zenon DEF HandledOK

\* A step that the server does not see
LEMMA LocalStep ==
  ASSUME WorkerInv, NEW w \in Workers, Steps(w, stored, request),
         UNCHANGED <<plan, server, dog>>
  PROVE  StepOK
<1>1. /\ UNCHANGED <<plan, dog>> /\ stored' = stored /\ request' = request
      /\ runStatus' = runStatus
  BY Zenon DEF server
<1>2. PICK n : Sound(n, stored', request') /\ proc' = [proc EXCEPT ![w] = n]
  BY <1>1, Zenon DEF Steps
<1>3. Grows(stored, stored') /\ Stays(request, request')
      /\ runStatus' = [r \in Runs |-> runStatus'[r]]
  BY <1>1, SameGrows, Zenon DEF WorkerInv, Stays
<1>4. WorkerInv' /\ WatchOK
  BY <1>1, <1>2, <1>3, MainStep, Zenon
<1>5. SucceedOK /\ HandledOK
  BY <1>1, QuietStep, Zenon
<1>. QED  BY <1>4, <1>5, Zenon DEF StepOK

\* Where no cancellation is and a lease is held
Working == Before \cup {"acquiring", "running", "mutate", "append", "settle", "upload",
                        "finish", "unclaim", "fail", "except", "empty", "deny"}

LEMMA WorkingIs ==
  /\ \A p \in Working : p \notin Jobless /\ p \notin CancelPlaces /\ p \notin {"down", "idle"}
  /\ Before \subseteq Working /\ StageSet \subseteq Working /\ Before \subseteq Early
BY DEF Working, Before, Jobless, CancelPlaces, StageSet, Early

LEMMA GotoSteps ==
  ASSUME WorkerInv, NEW w \in Workers, NEW S, NEW R, NEW p \in Aside, Goto(w, p),
         proc[w].at \in Jobless => p = "dying",
         proc[w].at \in CancelPlaces => p \in CancelPlaces,
         p = "empty" => proc[w].token = 0,
         p \in {"running", "acquiring"} => proc[w].at \in Early
  PROVE  Steps(w, S, R)
<1>1. PICK me, n : me = proc[w] /\ n = [me EXCEPT !.at = p]
  BY Zenon
<1>2. proc' = [proc EXCEPT ![w] = n]
  BY <1>1, GotoIs, Zenon DEF WorkerInv
<1>3. LocalOK(me)
  BY <1>1, Zenon DEF WorkerInv
<1>4. Sound(n, S, R)
  BY <1>1, <1>3, GotoSound, Zenon
<1>. QED  BY <1>2, <1>4, Zenon DEF Steps

LEMMA ErrorSteps ==
  ASSUME WorkerInv, NEW w \in Workers, NEW S, NEW R, NEW answer,
         proc[w].at \in Working \cup {"cancelled"}, Goto(w, OnError(proc[w], answer))
  PROVE  Steps(w, S, R)
<1>1. PICK p : p = OnError(proc[w], answer)
  BY Zenon
<1>2. /\ p \in {"unclaim", "fail", "except", "dying"}
      /\ proc[w].at = "cancelled" => p = "dying"
  <2>1. "cancelled" \in OutsideTry
    BY DEF OutsideTry
  <2>. QED  BY <1>1, <2>1, ErrorPlace, Zenon
<1>3. /\ p \in Aside /\ p \notin {"empty", "running", "acquiring"}
      /\ "dying" \in CancelPlaces /\ "cancelled" \notin Jobless
  BY <1>2 DEF Aside, CancelPlaces, Jobless
<1>. QED  BY <1>1, <1>2, <1>3, WorkingIs, GotoSteps, Zenon

\* A stage before the output can always be left.
LEMMA ReadyEarly ==
  ASSUME WorkerInv, NEW w \in Workers, NEW from \in Before, NEW S, NEW R,
         proc[w].at \in Before \cup {"acquiring", "running"},
         from = "prepare" => proc[w].at = "prepare"
  PROVE  Ready(from, proc[w], S, R)
<1>1. LocalOK(proc[w])
  BY Zenon DEF WorkerInv
<1>2. proc[w].at \in Working /\ proc[w].at \in Early
  BY DEF Working, Early
<1>3. from \notin {"mutate", "append", "settle", "upload"} /\ from # "append"
  BY DEF Before
<1>. QED  BY <1>1, <1>2, <1>3, WorkingIs, Zenon DEF LocalOK, Ready

-----------------------------------------------------------------------------
(* The stages before the output.                                           *)

LEMMA EarlyStage ==
  ASSUME WorkerInv, NEW w \in Workers, NEW S, NEW R, NEW from \in Before,
         proc[w].at \in Before \cup {"acquiring", "running"},
         from = "prepare" => proc[w].at = "prepare",
         Proceed(w, from, proc[w])
  PROVE  Steps(w, S, R)
<1>1. from \in StageSet \ {"finish"}
  BY DEF StageSet, Before
<1>. QED  BY <1>1, ReadyEarly, ProceedSteps, Zenon

LEMMA ConsultStep ==
  ASSUME WorkerInv, NEW w \in Workers,
         NEW stage \in {"prepare", "kvRead", "secrets", "upload"}, Consult(w, stage)
  PROVE  StepOK
<1>1. PICK answer \in Answers :
        IF answer = "ok" THEN Proceed(w, stage, proc[w])
        ELSE Goto(w, OnError(proc[w], answer))
  BY Zenon DEF Consult
<1>2. proc[w].at = stage /\ UNCHANGED <<plan, server, dog>>
  BY Zenon DEF Consult, At
<1>3. stage \in Working /\ stage \in StageSet \ {"finish"}
  BY DEF Working, StageSet, Before
<1>4. CASE Proceed(w, stage, proc[w])
  <2>1. CASE stage = "upload"
    <3>1. LocalOK(proc[w]) /\ SettledOK(proc[w], request)
      BY Zenon DEF WorkerInv
    <3>2. stage \notin Before /\ stage \notin {"mutate", "append"} /\ stage # "prepare"
      BY <2>1 DEF Before
    <3>3. Ready(stage, proc[w], stored, request)
      BY <1>2, <1>3, <2>1, <3>1, <3>2, WorkingIs, Zenon DEF LocalOK, SettledOK, Ready
    <3>. QED  BY <1>2, <1>3, <1>4, <3>3, ProceedSteps, LocalStep, Zenon
  <2>2. CASE stage # "upload"
    <3>1. stage \in Before
      BY <2>2 DEF Before
    <3>. QED  BY <1>2, <1>4, <3>1, EarlyStage, LocalStep, Zenon
  <2>. QED  BY <2>1, <2>2
<1>5. CASE Goto(w, OnError(proc[w], answer))
  BY <1>2, <1>3, <1>5, ErrorSteps, LocalStep, Zenon
<1>. QED  BY <1>1, <1>4, <1>5

LEMMA FetchStep ==
  ASSUME WorkerInv, NEW w \in Workers, FetchRequest(w) \/ FetchWeb(w)
  PROVE  StepOK
<1>1. /\ proc[w].at \in {"http", "fetch"} /\ UNCHANGED <<plan, server, dog>>
      /\ \/ Proceed(w, proc[w].at, proc[w])
         \/ \E p \in {"unclaim", "fail", "except"} : Goto(w, p)
  <2>1. GiveUp(proc[w]) \in {"unclaim", "fail"}
    BY DEF GiveUp
  <2>2. CASE FetchRequest(w)
    BY <2>1, <2>2, Zenon DEF FetchRequest, At
  <2>3. CASE FetchWeb(w)
    BY <2>3, Zenon DEF FetchWeb, At
  <2>. QED  BY <2>2, <2>3
<1>2. proc[w].at \in Before /\ proc[w].at \in Working /\ proc[w].at # "prepare"
  BY <1>1 DEF Before, Working
<1>3. ASSUME NEW p \in {"unclaim", "fail", "except"}
      PROVE  p \in Aside /\ p \notin {"empty", "running", "acquiring"}
  BY <1>3 DEF Aside
<1>4. CASE Proceed(w, proc[w].at, proc[w])
  BY <1>1, <1>2, <1>4, EarlyStage, LocalStep, Zenon
<1>5. CASE \E p \in {"unclaim", "fail", "except"} : Goto(w, p)
  BY <1>1, <1>2, <1>3, <1>5, WorkingIs, GotoSteps, LocalStep, Zenon
<1>. QED  BY <1>1, <1>4, <1>5

LEMMA ReportStep == ASSUME WorkerInv, NEW w \in Workers, ReportRunning(w) PROVE StepOK
<1>1. PICK answer \in Answers :
        /\ runStatus' = IF Applied(answer) THEN [runStatus EXCEPT ![proc[w].job.run] = "RUNNING"]
                        ELSE runStatus
        /\ IF answer = "ok" THEN Proceed(w, proc[w].at, proc[w])
           ELSE Goto(w, OnError(proc[w], answer))
  BY Zenon DEF ReportRunning
<1>2. proc[w].at = "status" /\ UNCHANGED <<plan, request, stored, dog>>
  BY Zenon DEF ReportRunning, At
<1>3. "status" \in Before /\ "status" \in Working /\ "status" # "prepare"
  BY DEF Before, Working
<1>4. Steps(w, stored', request')
  BY <1>1, <1>2, <1>3, EarlyStage, ErrorSteps, Zenon
<1>5. /\ runStatus' = [r \in Runs |-> runStatus'[r]]
      /\ \A r \in Runs : runStatus'[r] = "SUCCEEDED" => runStatus[r] = "SUCCEEDED"
  <2>1. runStatus = [r \in Runs |-> runStatus[r]]
    BY Zenon DEF WorkerInv
  <2>. QED  BY <1>1, <2>1
<1>6. Grows(stored, stored') /\ Stays(request, request')
  BY <1>2, SameGrows, Zenon DEF WorkerInv, Stays
<1>7. WorkerInv' /\ WatchOK
  BY <1>2, <1>4, <1>5, <1>6, MainStep, Zenon DEF Steps
<1>8. SucceedOK /\ HandledOK
  BY <1>2, <1>5, QuietStep, Zenon
<1>. QED  BY <1>7, <1>8, Zenon DEF StepOK

\* The other columns of a request and of a process record
SameJob(me, n) == IsProc(n) /\ n.job = me.job /\ n.idx = me.idx

LEMMA WithToken ==
  ASSUME NEW me, IsProc(me), NEW t, NEW n, n = [me EXCEPT !.token = t]
  PROVE  SameJob(me, n)
BY DEF IsProc, SameJob

LEMMA WithOut ==
  ASSUME NEW me, IsProc(me), NEW o \in Outputs \cup {Opaque, Nothing},
         NEW n, n = [me EXCEPT !.out = o]
  PROVE  SameJob(me, n)
BY DEF IsProc, SameJob

Becomes(R2, s) == IsRequest(R2) /\ R2.status = s

LEMMA WithStatus ==
  ASSUME NEW R, IsRequest(R), NEW s, NEW R2, R2 = [R EXCEPT !.status = s]
  PROVE  Becomes(R2, s) /\ R2.token = R.token
BY DEF IsRequest, Becomes

LEMMA NewClaim ==
  ASSUME NEW s, NEW t, NEW l, NEW R2, R2 = [status |-> s, token |-> t, live |-> l]
  PROVE  Becomes(R2, s)
BY DEF IsRequest, Becomes

\* A step that changes neither the status of a Run nor a store
LEMMA RequestStep ==
  ASSUME WorkerInv, NEW w \in Workers, Steps(w, stored, request'),
         UNCHANGED <<plan, runStatus, stored, dog>>, Stays(request, request')
  PROVE  WorkerInv' /\ WatchOK /\ SucceedOK
<1>1. Grows(stored, stored') /\ runStatus' = [r \in Runs |-> runStatus'[r]]
  BY SameGrows, Zenon DEF WorkerInv
<1>2. PICK n : Sound(n, stored', request') /\ proc' = [proc EXCEPT ![w] = n]
  BY Zenon DEF Steps
<1>3. WorkerInv' /\ WatchOK
  BY <1>1, <1>2, MainStep, Zenon
<1>4. \A u \in Workers : proc[u].token # 0 => proc[u].job.run \in Runs
  BY Zenon DEF WorkerInv, LocalOK
<1>5. SucceedOK
  BY <1>4, Zenon DEF SucceedOK
<1>. QED  BY <1>3, <1>5

LEMMA ClaimRequestStep == ASSUME WorkerInv, NEW w \in Workers, ClaimRequest(w) PROVE StepOK
<1>1. PICK next, answer :
        /\ \/ request' = request
           \/ /\ request' = [status |-> "CLAIMED", token |-> next, live |-> TRUE]
              /\ request.status \in {"PENDING", "CLAIMED"}
           \/ request' = [request EXCEPT !.status = "FAILED"] /\ request.status = "CLAIMED"
        /\ \/ Goto(w, OnError(proc[w], answer))
           \/ Proceed(w, proc[w].at, [proc[w] EXCEPT !.token = next])
           \/ \E p \in {"empty", "fail"} : Goto(w, p)
  BY Zenon DEF ClaimRequest
<1>2. proc[w].at = "claimRequest" /\ UNCHANGED <<plan, runStatus, stored, dog>>
  BY Zenon DEF ClaimRequest, At
<1>3. /\ "claimRequest" \in Before /\ "claimRequest" \in Working /\ "claimRequest" # "prepare"
      /\ "claimRequest" \in StageSet \ {"finish"} /\ {"empty", "fail"} \subseteq Aside
      /\ "claimRequest" \notin {"mutate", "append", "settle", "upload"}
  BY DEF Before, Working, StageSet, Aside
<1>4. LocalOK(proc[w]) /\ IsRequest(request)
  BY Zenon DEF WorkerInv
<1>5. Steps(w, stored, request')
  <2>1. CASE Goto(w, OnError(proc[w], answer))
    BY <1>2, <1>3, <2>1, ErrorSteps, Zenon
  <2>2. CASE Proceed(w, proc[w].at, [proc[w] EXCEPT !.token = next])
    <3>1. PICK me, n : me = proc[w] /\ n = [me EXCEPT !.token = next]
      BY Zenon
    <3>2. SameJob(me, n)
      BY <1>4, <3>1, WithToken, Zenon DEF LocalOK
    <3>3. Ready("claimRequest", me, stored, request')
      BY <1>2, <1>3, <3>1, ReadyEarly, Zenon
    <3>4. Ready("claimRequest", n, stored, request')
      BY <1>3, <3>2, <3>3, Zenon DEF Ready, SameJob
    <3>. QED  BY <1>2, <1>3, <2>2, <3>1, <3>4, ProceedSteps, Zenon
  <2>3. ASSUME NEW p \in {"empty", "fail"}, Goto(w, p)
        PROVE  Steps(w, stored, request')
    <3>1. proc[w].token = 0 /\ p \notin {"running", "acquiring"}
      BY <1>2, <1>4 DEF LocalOK
    <3>2. p \in Aside
      BY <1>3, Zenon
    <3>. QED  BY <1>2, <1>3, <2>3, <3>1, <3>2, WorkingIs, GotoSteps, Zenon
  <2>. QED  BY <1>1, <2>1, <2>2, <2>3
<1>6. Stays(request, request') /\ (request'.status = "HANDLED" => request.status = "HANDLED")
  <2>1. CASE request' = request
    BY <1>4, <2>1, Zenon DEF Stays
  <2>2. CASE /\ request' = [status |-> "CLAIMED", token |-> next, live |-> TRUE]
             /\ request.status \in {"PENDING", "CLAIMED"}
    <3>1. Becomes(request', "CLAIMED")
      BY <2>2, NewClaim, Zenon
    <3>. QED  BY <2>2, <3>1 DEF Stays, Becomes
  <2>3. CASE request' = [request EXCEPT !.status = "FAILED"] /\ request.status = "CLAIMED"
    <3>1. Becomes(request', "FAILED")
      BY <1>4, <2>3, WithStatus, Zenon
    <3>. QED  BY <2>3, <3>1 DEF Stays, Becomes
  <2>. QED  BY <1>1, <2>1, <2>2, <2>3
<1>7. WorkerInv' /\ WatchOK /\ SucceedOK
  BY <1>2, <1>5, <1>6, RequestStep, Zenon
<1>8. HandledOK
  BY <1>6, Zenon DEF HandledOK
<1>. QED  BY <1>7, <1>8, Zenon DEF StepOK

-----------------------------------------------------------------------------
(* The containers.                                                         *)

LEMMA BoxFailedSteps ==
  ASSUME WorkerInv, NEW w \in Workers, NEW timeout \in BOOLEAN,
         proc[w].at \in {"acquire", "acquiring", "agent", "running"},
         BoxFailed(w, proc[w], timeout)
  PROVE  Steps(w, stored, request)
<1>1. \/ \E p \in {"unclaim", "fail", "except"} : Goto(w, p)
      \/ Proceed(w, "agent", proc[w])
  BY Zenon DEF BoxFailed
<1>2. proc[w].at \in Before \cup {"acquiring", "running"} /\ proc[w].at \in Working
      /\ "agent" \in Before /\ "agent" # "prepare"
  BY DEF Before, Working
<1>3. ASSUME NEW p \in {"unclaim", "fail", "except"}
      PROVE  p \in Aside /\ p \notin {"empty", "running", "acquiring"}
  BY <1>3 DEF Aside
<1>4. CASE \E p \in {"unclaim", "fail", "except"} : Goto(w, p)
  BY <1>2, <1>3, <1>4, WorkingIs, GotoSteps, Zenon
<1>5. CASE Proceed(w, "agent", proc[w])
  BY <1>2, <1>5, EarlyStage, Zenon
<1>. QED  BY <1>1, <1>4, <1>5

LEMMA StartBoxStep == ASSUME WorkerInv, NEW w \in Workers, StartBox(w) PROVE StepOK
<1>1. /\ proc[w].at \in {"acquire", "agent"} /\ UNCHANGED <<plan, server, dog>>
      /\ \/ BoxFailed(w, proc[w], FALSE)
         \/ Goto(w, "running") \/ Goto(w, "acquiring")
  <2>1. PICK p : p = IF At(w, "agent") THEN "running" ELSE "acquiring"
    BY Zenon
  <2>2. \/ BoxFailed(w, proc[w], FALSE)
        \/ Goto(w, p)
    BY <2>1, Zenon DEF StartBox
  <2>3. p = "running" \/ p = "acquiring"
    BY <2>1
  <2>. QED  BY <2>2, <2>3, Zenon DEF StartBox
<1>2. /\ proc[w].at \in {"acquire", "acquiring", "agent", "running"}
      /\ proc[w].at \in Early /\ proc[w].at \in Working
      /\ "running" \in Aside /\ "acquiring" \in Aside
      /\ "running" # "empty" /\ "acquiring" # "empty"
  BY <1>1 DEF Early, Before, Working, Aside
<1>3. CASE BoxFailed(w, proc[w], FALSE)
  BY <1>1, <1>2, <1>3, BoxFailedSteps, LocalStep, Zenon
<1>4. CASE Goto(w, "running")
  BY <1>1, <1>2, <1>4, WorkingIs, GotoSteps, LocalStep, Zenon
<1>5. CASE Goto(w, "acquiring")
  BY <1>1, <1>2, <1>5, WorkingIs, GotoSteps, LocalStep, Zenon
<1>. QED  BY <1>1, <1>3, <1>4, <1>5, Zenon

\* An output is left and the main thread goes on.
LEMMA OutputSteps ==
  ASSUME WorkerInv, NEW w \in Workers, NEW from \in {"acquire", "agent", "build"},
         proc[w].at \in Before \cup {"acquiring", "running"},
         NEW out \in Outputs \cup {Opaque, Nothing},
         Proceed(w, from, [proc[w] EXCEPT !.out = out])
  PROVE  Steps(w, stored, request)
<1>1. PICK me, n : me = proc[w] /\ n = [me EXCEPT !.out = out]
  BY Zenon
<1>2. SameJob(me, n)
  BY <1>1, WithOut, Zenon DEF WorkerInv, LocalOK
<1>3. /\ from \in Before /\ from # "prepare" /\ from \in StageSet \ {"finish"}
      /\ from \notin {"mutate", "append", "settle", "upload"}
  BY DEF Before, StageSet
<1>4. Ready(from, me, stored, request)
  BY <1>1, <1>3, ReadyEarly, Zenon
<1>5. Ready(from, n, stored, request)
  BY <1>2, <1>3, <1>4, Zenon DEF Ready, SameJob
<1>. QED  BY <1>1, <1>3, <1>5, ProceedSteps, Zenon

LEMMA BoxExitsStep ==
  ASSUME WorkerInv, NEW w \in Workers, PageAcquired(w) \/ BrowserExits(w) \/ AgentExits(w)
  PROVE  StepOK
<1>1. PICK out \in Outputs \cup {Opaque, Nothing} : BoxExits(w, out)
  BY Zenon DEF PageAcquired, BrowserExits, AgentExits
<1>2. proc[w].at \in Before \cup {"acquiring", "running"}
  BY Zenon DEF PageAcquired, BrowserExits, AgentExits, At
<1>3. PICK from : from = IF proc[w].at = "running" THEN "agent" ELSE "acquire"
  BY Zenon
<1>4. /\ Proceed(w, from, [proc[w] EXCEPT !.out = out]) /\ UNCHANGED <<plan, server, dog>>
  BY <1>1, <1>3, Zenon DEF BoxExits
<1>5. from \in {"acquire", "agent", "build"}
  BY <1>3
<1>. QED  BY <1>2, <1>4, <1>5, OutputSteps, LocalStep, Zenon

LEMMA BoxFailsStep == ASSUME WorkerInv, NEW w \in Workers, BoxFails(w) PROVE StepOK
<1>1. PICK timeout \in BOOLEAN : BoxFailed(w, proc[w], timeout)
  BY Zenon DEF BoxFails
<1>2. /\ proc[w].at \in {"acquire", "acquiring", "agent", "running"}
      /\ UNCHANGED <<plan, server, dog>>
  BY Zenon DEF BoxFails
<1>. QED  BY <1>1, <1>2, BoxFailedSteps, LocalStep, Zenon

LEMMA BuildImageStep == ASSUME WorkerInv, NEW w \in Workers, BuildImage(w) PROVE StepOK
<1>1. /\ proc[w].at = "build" /\ UNCHANGED <<plan, server, dog>>
      /\ \/ Proceed(w, "build", [proc[w] EXCEPT !.out = Opaque])
         \/ Goto(w, "except")
  BY Zenon DEF BuildImage, At
<1>2. /\ "build" \in Before /\ "build" \in Working /\ "except" \in Aside
      /\ "except" \notin {"empty", "running", "acquiring"}
  BY DEF Before, Working, Aside
<1>3. CASE Proceed(w, "build", [proc[w] EXCEPT !.out = Opaque])
  BY <1>1, <1>2, <1>3, OutputSteps, LocalStep, Zenon
<1>4. CASE Goto(w, "except")
  BY <1>1, <1>2, <1>4, WorkingIs, GotoSteps, LocalStep, Zenon
<1>. QED  BY <1>1, <1>3, <1>4

-----------------------------------------------------------------------------
(* The persistence of the output.                                          *)

LEMMA AppliedIs ==
  ASSUME NEW w, NEW accepted \in BOOLEAN, NEW answer, Call(w, accepted, answer), Applied(answer)
  PROVE  accepted
BY DEF Call, Applied

LEMMA OkIs == ASSUME NEW answer, answer = "ok" PROVE Applied(answer)
BY DEF Applied

PutsRecord(S, S2, r, i, v) == S2 = [S EXCEPT ![r].kv[i] = v]
GrowsBy(S, S2, value, v) == Grows(S, S2) /\ value = v

LEMMA GrowsKv ==
  ASSUME NEW S \in Stores, NEW r \in Runs, NEW i \in 1..MaxMutations, NEW v \in Entries,
         S[r].kv[i] \in {Nothing, v}, NEW S2, PutsRecord(S, S2, r, i, v)
  PROVE  GrowsBy(S, S2, S2[r].kv[i], v)
<1>. USE DEF PutsRecord
<1>1. S2 \in Stores
  BY Zenon DEF Stores
<1>2. ASSUME NEW q \in Runs, NEW j \in 1..MaxMutations, S[q].kv[j] # Nothing
      PROVE  S2[q].kv[j] = S[q].kv[j]
  BY <1>2 DEF Stores
<1>3. ASSUME NEW q \in Runs PROVE S2[q].items = S[q].items
  BY <1>3 DEF Stores
<1>4. S2[r].kv[i] = v
  BY Zenon DEF Stores
<1>. QED  BY <1>1, <1>2, <1>3, <1>4, Zenon DEF Grows, GrowsBy

PutsItems(S, S2, r, o) == S2 = [S EXCEPT ![r].items = o]

LEMMA GrowsItems ==
  ASSUME NEW S \in Stores, NEW r \in Runs, NEW o \in Outputs,
         S[r].items \in {Nothing, o}, NEW S2, PutsItems(S, S2, r, o)
  PROVE  GrowsBy(S, S2, S2[r].items, o)
<1>. USE DEF PutsItems
<1>1. S2 \in Stores
  BY DEF Stores
<1>2. ASSUME NEW q \in Runs PROVE S2[q].kv = S[q].kv
  BY <1>2 DEF Stores
<1>3. ASSUME NEW q \in Runs, S[q].items # Nothing PROVE S2[q].items = S[q].items
  BY <1>3 DEF Stores
<1>4. S2[r].items = o
  BY DEF Stores
<1>. QED  BY <1>1, <1>2, <1>3, <1>4, Zenon DEF Grows, GrowsBy

\* A step that changes neither the status of a Run nor the request
LEMMA StoreStep ==
  ASSUME WorkerInv, NEW w \in Workers, Steps(w, stored', request),
         UNCHANGED <<plan, runStatus, request, dog>>, Grows(stored, stored')
  PROVE  StepOK
<1>1. Stays(request, request') /\ runStatus' = [r \in Runs |-> runStatus'[r]]
  BY Zenon DEF WorkerInv, Stays
<1>2. PICK n : Sound(n, stored', request') /\ proc' = [proc EXCEPT ![w] = n]
  BY Zenon DEF Steps
<1>3. WorkerInv' /\ WatchOK
  BY <1>1, <1>2, MainStep, Zenon
<1>4. SucceedOK /\ HandledOK
  BY QuietStep, Zenon
<1>. QED  BY <1>3, <1>4, Zenon DEF StepOK

LEMMA NextIndex ==
  ASSUME NEW me, IsProc(me), NEW n, n = [me EXCEPT !.idx = me.idx + 1]
  PROVE  /\ IsProc(n) /\ n.at = me.at /\ n.job = me.job /\ n.token = me.token
         /\ n.out = me.out /\ n.idx = me.idx + 1
BY DEF IsProc

\* The loop over the mutations goes on or ends.
LEMMA MutateSteps ==
  ASSUME WorkerInv, NEW w \in Workers, NEW me, me = proc[w], me.at = "mutate",
         me.out \in Outputs, Len(me.out) <= MaxMutations, NEW S, NEW R,
         \A i \in 1..me.idx : S[me.job.run].kv[i] = me.out[i],
         IF me.idx < Len(me.out) THEN proc' = [proc EXCEPT ![w].idx = @ + 1]
         ELSE Proceed(w, "mutate", me)
  PROVE  Steps(w, S, R)
<1>1. LocalOK(me)
  BY Zenon DEF WorkerInv
<1>2. /\ me.idx \in Nat \ {0} /\ me.idx <= Len(me.out) /\ Len(me.out) \in Nat
      /\ MaxMutations \in Nat
  BY <1>1, LengthIs, OutputAssumption, Zenon DEF LocalOK, IsProc
<1>3. /\ "mutate" \in Working /\ "mutate" \in StageSet \ {"finish"} /\ "mutate" \notin Before
      /\ "mutate" \notin Early /\ "mutate" \notin {"prepare", "claimRequest", "empty"}
      /\ "mutate" \notin {"append", "settle"} /\ "mutate" \notin {"upload", "finish"}
      /\ "mutate" \notin {"settle", "upload"} /\ "mutate" \notin {"down", "idle"}
  BY DEF Working, StageSet, Before, Early
<1>4. CASE me.idx < Len(me.out)
  <2>1. PICK n : n = [me EXCEPT !.idx = me.idx + 1]
    BY Zenon
  <2>2. /\ IsProc(n) /\ n.at = "mutate" /\ n.job = me.job /\ n.token = me.token
        /\ n.out = me.out /\ n.idx = me.idx + 1
    BY <1>1, <2>1, NextIndex DEF LocalOK
  <2>3. proc' = [proc EXCEPT ![w] = n]
    BY <1>4, <2>1 DEF WorkerInv
  <2>4. n.idx <= Len(n.out) /\ n.idx - 1 = me.idx
    BY <1>2, <1>4, <2>2
  <2>5. LocalOK(n)
    BY <1>1, <1>3, <2>2, <2>4, Zenon DEF LocalOK
  <2>6. \A i \in 1..me.idx : i <= MaxMutations
    BY <1>2
  <2>7. StoreOK(n, S) /\ SettledOK(n, R)
    BY <1>3, <2>2, <2>4, <2>6, Zenon DEF StoreOK, SettledOK
  <2>. QED  BY <1>3, <2>2, <2>3, <2>5, <2>7, Zenon DEF Sound, Steps
<1>5. CASE ~(me.idx < Len(me.out))
  <2>1. me.idx = Len(me.out)
    BY <1>2, <1>5
  <2>2. Mutated(me, S)
    BY <2>1, Zenon DEF Mutated
  <2>3. Ready("mutate", me, S, R)
    BY <1>1, <1>3, <2>2, WorkingIs, Zenon DEF LocalOK, Ready
  <2>. QED  BY <1>3, <1>5, <2>3, ProceedSteps, Zenon
<1>. QED  BY <1>4, <1>5

LEMMA MutateRecordStep == ASSUME WorkerInv, NEW w \in Workers, MutateRecord(w) PROVE StepOK
<1>1. PICK me, r, i, v : me = proc[w] /\ r = me.job.run /\ i = me.idx /\ v = me.out[i]
  BY Zenon
<1>2. PICK answer \in Answers :
        /\ Call(w, Holds(w) /\ stored[r].kv[i] \in {Nothing, v}, answer)
        /\ stored' = IF Applied(answer) THEN [stored EXCEPT ![r].kv[i] = v] ELSE stored
        /\ IF answer # "ok" THEN Goto(w, OnError(proc[w], answer))
           ELSE IF me.idx < Len(me.out) THEN proc' = [proc EXCEPT ![w].idx = @ + 1]
           ELSE Proceed(w, me.at, me)
  BY <1>1, Zenon DEF MutateRecord
<1>3. /\ me.at = "mutate" /\ me.out # Opaque /\ Len(me.out) <= MaxMutations
      /\ UNCHANGED <<plan, runStatus, request, dog>>
  BY <1>1, Zenon DEF MutateRecord, At, ValidOutput
<1>4. LocalOK(me) /\ StoreOK(me, stored) /\ stored \in Stores
  BY <1>1, Zenon DEF WorkerInv
<1>5. me.out \in Outputs /\ "mutate" \in Working
  BY <1>3, <1>4 DEF LocalOK, IsProc, Working
<1>6. /\ r \in Runs /\ i \in 1..Len(me.out) /\ i \in 1..MaxMutations
      /\ Len(me.out) \in Nat /\ MaxMutations \in Nat
  <2>1. i \in Nat \ {0} /\ i <= Len(me.out) /\ Len(me.out) \in Nat /\ MaxMutations \in Nat
    BY <1>1, <1>3, <1>4, <1>5, LengthIs, OutputAssumption, Zenon DEF LocalOK, IsProc
  <2>2. r \in Runs
    BY <1>1, <1>3, <1>4, <1>5, WorkingIs, Zenon DEF LocalOK
  <2>. QED  BY <1>3, <2>1, <2>2
<1>7. v \in Entries /\ v # Nothing
  BY <1>1, <1>5, <1>6, EntryIs, Zenon
<1>8. ASSUME Applied(answer) PROVE Grows(stored, stored') /\ stored'[r].kv[i] = v
  <2>1. stored[r].kv[i] \in {Nothing, v}
    <3>1. PICK accepted \in BOOLEAN :
            accepted = (Holds(w) /\ stored[r].kv[i] \in {Nothing, v})
      BY Zenon
    <3>. QED  BY <1>2, <1>8, <3>1, AppliedIs, Zenon
  <2>2. PICK S, S2 : S = stored /\ S2 = stored'
    BY Zenon
  <2>3. PutsRecord(S, S2, r, i, v)
    BY <1>2, <1>8, <2>2, Zenon DEF PutsRecord
  <2>4. GrowsBy(S, S2, S2[r].kv[i], v)
    BY <1>4, <1>6, <1>7, <2>1, <2>2, <2>3, GrowsKv, Zenon
  <2>. QED  BY <2>2, <2>4, Zenon DEF GrowsBy
<1>9. Grows(stored, stored')
  BY <1>2, <1>4, <1>8, SameGrows, Zenon
<1>10. CASE answer # "ok"
  BY <1>1, <1>2, <1>3, <1>5, <1>9, <1>10, ErrorSteps, StoreStep, Zenon
<1>11. CASE answer = "ok"
  <2>1. stored'[r].kv[i] = v
    BY <1>8, <1>11, OkIs, Zenon
  <2>2. ASSUME NEW j \in 1..me.idx PROVE stored'[r].kv[j] = me.out[j]
    <3>1. CASE j = i
      BY <1>1, <2>1, <3>1, Zenon
    <3>2. CASE j # i
      <4>1. j \in 1..(me.idx - 1) /\ j \in 1..Len(me.out) /\ j \in 1..MaxMutations
        BY <1>1, <1>6, <2>2, <3>2
      <4>2. stored[r].kv[j] = me.out[j]
        BY <1>1, <1>3, <1>4, <1>5, <4>1, Zenon DEF StoreOK
      <4>3. me.out[j] # Nothing
        BY <1>5, <4>1, EntryIs, Zenon
      <4>. QED  BY <1>6, <1>9, <4>1, <4>2, <4>3, Zenon DEF Grows
    <3>. QED  BY <3>1, <3>2
  <2>3. IF me.idx < Len(me.out) THEN proc' = [proc EXCEPT ![w].idx = @ + 1]
        ELSE Proceed(w, "mutate", me)
    BY <1>2, <1>3, <1>11, Zenon
  <2>4. Steps(w, stored', request)
    BY <1>1, <1>3, <1>5, <2>2, <2>3, MutateSteps, Zenon
  <2>. QED  BY <1>3, <1>9, <2>4, StoreStep, Zenon
<1>. QED  BY <1>10, <1>11

LEMMA AppendItemsStep == ASSUME WorkerInv, NEW w \in Workers, AppendItems(w) PROVE StepOK
<1>1. PICK me, r : me = proc[w] /\ r = me.job.run
  BY Zenon
<1>2. PICK answer \in Answers :
        /\ Call(w, Holds(w) /\ stored[r].items \in {Nothing, me.out}, answer)
        /\ stored' = IF Applied(answer) THEN [stored EXCEPT ![r].items = me.out] ELSE stored
        /\ IF answer = "ok" THEN Proceed(w, me.at, me) ELSE Goto(w, OnError(proc[w], answer))
  BY <1>1, Zenon DEF AppendItems
<1>3. /\ me.at = "append" /\ me.out # Opaque
      /\ UNCHANGED <<plan, runStatus, request, dog>>
  BY <1>1, Zenon DEF AppendItems, At, ValidOutput
<1>4. LocalOK(me) /\ StoreOK(me, stored) /\ stored \in Stores
  BY <1>1, Zenon DEF WorkerInv
<1>5. /\ me.out \in Outputs /\ "append" \in Working /\ "append" \in StageSet \ {"finish"}
      /\ "append" \notin Before /\ "append" # "prepare" /\ "append" \notin {"settle", "upload"}
  BY <1>3, <1>4 DEF LocalOK, IsProc, Working, StageSet, Before
<1>6. r \in Runs
  BY <1>1, <1>3, <1>4, <1>5, WorkingIs, Zenon DEF LocalOK
<1>7. ASSUME Applied(answer) PROVE Grows(stored, stored') /\ stored'[r].items = me.out
  <2>1. stored[r].items \in {Nothing, me.out}
    <3>1. PICK accepted \in BOOLEAN :
            accepted = (Holds(w) /\ stored[r].items \in {Nothing, me.out})
      BY Zenon
    <3>. QED  BY <1>2, <1>7, <3>1, AppliedIs, Zenon
  <2>2. PICK S, S2, o : S = stored /\ S2 = stored' /\ o = me.out
    BY Zenon
  <2>3. PutsItems(S, S2, r, o)
    BY <1>2, <1>7, <2>2, Zenon DEF PutsItems
  <2>4. GrowsBy(S, S2, S2[r].items, o)
    BY <1>4, <1>5, <1>6, <2>1, <2>2, <2>3, GrowsItems, Zenon
  <2>. QED  BY <2>2, <2>4, Zenon DEF GrowsBy
<1>8. Grows(stored, stored')
  BY <1>2, <1>4, <1>7, SameGrows, Zenon
<1>9. CASE answer # "ok"
  BY <1>1, <1>2, <1>3, <1>5, <1>8, <1>9, ErrorSteps, StoreStep, Zenon
<1>10. CASE answer = "ok"
  <2>1. Appended(me, stored')
    BY <1>1, <1>7, <1>10, OkIs, Zenon DEF Appended
  <2>2. StoreOK(me, stored')
    BY <1>4, <1>8, StoreKept, Zenon
  <2>3. Ready("append", me, stored', request)
    BY <1>3, <1>4, <1>5, <2>1, <2>2, WorkingIs, Zenon DEF LocalOK, StoreOK, Ready
  <2>4. Steps(w, stored', request)
    BY <1>2, <1>3, <1>5, <1>10, <2>3, ProceedSteps, Zenon
  <2>. QED  BY <1>3, <1>8, <2>4, StoreStep, Zenon
<1>. QED  BY <1>9, <1>10

LEMMA RefuseOutputStep == ASSUME WorkerInv, NEW w \in Workers, RefuseOutput(w) PROVE StepOK
<1>1. /\ proc[w].at \in {"mutate", "append"} /\ Goto(w, GiveUp(proc[w]))
      /\ UNCHANGED <<plan, server, dog>>
  BY Zenon DEF RefuseOutput
<1>2. PICK p : p = GiveUp(proc[w])
  BY Zenon
<1>3. p \in Aside /\ p \notin {"empty", "running", "acquiring"} /\ proc[w].at \in Working
  BY <1>1, <1>2 DEF GiveUp, Aside, Working
<1>. QED  BY <1>1, <1>2, <1>3, WorkingIs, GotoSteps, LocalStep, Zenon

-----------------------------------------------------------------------------
(* The completion of the request and of the lease.                         *)

LEMMA PersistedIs ==
  ASSUME NEW me, me.out # Nothing, Mutated(me, stored), Appended(me, stored)
  PROVE  Persisted(me)
<1>1. ASSUME "kv" \in plan[me.job.run], NEW i \in 1..Len(me.out)
      PROVE  stored[me.job.run].kv[i] = me.out[i]
  <2>1. me.out # <<>>
    BY <1>1
  <2>. QED  BY <1>1, <2>1, Zenon DEF Mutated
<1>2. "dataset" \in plan[me.job.run] => stored[me.job.run].items = me.out
  BY Zenon DEF Appended
<1>. QED  BY <1>1, <1>2, Zenon DEF Persisted

LEMMA CompleteRequestStep == ASSUME WorkerInv, NEW w \in Workers, CompleteRequest(w) PROVE StepOK
<1>1. PICK me : me = proc[w]
  BY Zenon
<1>2. PICK answer \in Answers :
        /\ Call(w, MaySettle(w), answer)
        /\ request' = IF Applied(answer) THEN [request EXCEPT !.status = Verdict(me)]
                      ELSE request
        /\ IF answer # "ok" THEN Goto(w, OnError(proc[w], answer))
           ELSE IF At(w, "settle") THEN Proceed(w, me.at, me)
           ELSE Goto(w, "fail")
  BY <1>1, Zenon DEF CompleteRequest
<1>3. /\ me.at \in {"unclaim", "settle"}
      /\ UNCHANGED <<plan, runStatus, stored, dog>>
  BY <1>1, Zenon DEF CompleteRequest
<1>4. LocalOK(me) /\ StoreOK(me, stored) /\ IsRequest(request)
  BY <1>1, Zenon DEF WorkerInv
<1>5. /\ me.at \in Working /\ "settle" \in StageSet \ {"finish"} /\ "fail" \in Aside
      /\ "settle" \notin Before /\ "settle" # "prepare" /\ "settle" \notin {"mutate", "append"}
      /\ "fail" \notin {"empty", "running", "acquiring"} /\ "settle" # "append"
  BY <1>3 DEF Working, StageSet, Before, Aside
<1>6. ASSUME Applied(answer)
      PROVE  /\ request.status = "CLAIMED" /\ request.token = me.token
             /\ Becomes(request', Verdict(me)) /\ request'.token = request.token
  <2>1. PICK accepted \in BOOLEAN : accepted = MaySettle(w)
    BY Zenon DEF MaySettle
  <2>2. MaySettle(w)
    BY <1>2, <1>6, <2>1, AppliedIs, Zenon
  <2>3. PICK R, R2, s : R = request /\ R2 = request' /\ s = Verdict(me)
    BY Zenon
  <2>4. R2 = [R EXCEPT !.status = s]
    BY <1>2, <1>6, <2>3, Zenon
  <2>5. Becomes(R2, s) /\ R2.token = R.token
    BY <1>4, <2>3, <2>4, WithStatus, Zenon
  <2>. QED  BY <1>1, <2>2, <2>3, <2>5, Zenon DEF MaySettle
<1>7. ~Applied(answer) => request' = request
  BY <1>2, Zenon
<1>8. Stays(request, request')
  <2>1. CASE Applied(answer)
    BY <1>6, <2>1 DEF Stays, Becomes
  <2>. QED  BY <1>4, <1>7, <2>1, Zenon DEF Stays
<1>9. Steps(w, stored, request')
  <2>1. CASE answer # "ok"
    BY <1>1, <1>2, <1>5, <2>1, ErrorSteps, Zenon
  <2>2. CASE answer = "ok" /\ me.at = "settle"
    <3>1. Settled(me, request')
      <4>1. Applied(answer)
        BY <2>2, OkIs, Zenon
      <4>2. me.out # Nothing => Verdict(me) = "HANDLED"
        BY <2>2, Zenon DEF Verdict
      <4>. QED  BY <1>6, <4>1, <4>2, Zenon DEF Settled, Becomes
    <3>2. Ready("settle", me, stored, request')
      BY <1>4, <1>5, <2>2, <3>1, WorkingIs, Zenon DEF LocalOK, Ready
    <3>3. Proceed(w, "settle", me)
      BY <1>1, <1>2, <2>2, Zenon DEF At
    <3>. QED  BY <1>5, <3>2, <3>3, ProceedSteps, Zenon
  <2>3. CASE answer = "ok" /\ me.at # "settle"
    <3>1. Goto(w, "fail")
      BY <1>1, <1>2, <2>3, Zenon DEF At
    <3>. QED  BY <1>1, <1>5, <3>1, WorkingIs, GotoSteps, Zenon
  <2>. QED  BY <2>1, <2>2, <2>3, Zenon
<1>10. WorkerInv' /\ WatchOK /\ SucceedOK
  BY <1>3, <1>8, <1>9, RequestStep, Zenon
<1>11. HandledOK
  <2>1. SUFFICES ASSUME request'.status = "HANDLED", request.status # "HANDLED"
                 PROVE  \E u \in Workers : /\ proc[u].token = request.token
                                           /\ proc[u].out # Nothing
                                           /\ Persisted(proc[u])
    BY Zenon DEF HandledOK
  <2>2. Applied(answer)
    BY <1>7, <2>1, Zenon
  <2>3. Verdict(me) = "HANDLED"
    BY <1>6, <2>1, <2>2, Zenon DEF Becomes
  <2>4. me.at = "settle" /\ me.out # Nothing
    BY <2>3 DEF Verdict
  <2>5. Persisted(me)
    BY <1>4, <2>4, PersistedIs, Zenon DEF StoreOK
  <2>. QED  BY <1>1, <1>6, <2>2, <2>4, <2>5, Zenon
<1>. QED  BY <1>10, <1>11, Zenon DEF StepOK

LEMMA CancelBoxStep == ASSUME WorkerInv, NEW w \in Workers, CancelBox(w) PROVE StepOK
<1>1. proc[w].at = "cancelBox" /\ Goto(w, "cancelled") /\ UNCHANGED <<plan, server, dog>>
  BY Zenon DEF CancelBox, At
<1>2. /\ "cancelled" \in Aside /\ "cancelBox" \notin Jobless /\ "cancelled" \in CancelPlaces
      /\ "cancelled" \notin {"empty", "running", "acquiring"}
  BY DEF Aside, Jobless, CancelPlaces
<1>. QED  BY <1>1, <1>2, GotoSteps, LocalStep, Zenon

LEMMA MarkCompletedStep == ASSUME WorkerInv, NEW w \in Workers, MarkCompleted(w) PROVE StepOK
<1>1. proc[w].at = "returned" /\ Goto(w, "exit") /\ UNCHANGED <<plan, server, dog>>
  BY Zenon DEF MarkCompleted, At
<1>2. /\ "exit" \in Aside /\ "returned" \notin Jobless /\ "exit" \in CancelPlaces
      /\ "exit" \notin {"empty", "running", "acquiring"}
  BY DEF Aside, Jobless, CancelPlaces
<1>. QED  BY <1>1, <1>2, GotoSteps, LocalStep, Zenon

LEMMA HoldsIs ==
  ASSUME NEW w, Holds(w), proc[w].job.kind # "CANCEL"
  PROVE  holder[proc[w].job.run] = <<w, proc[w].job.n>>
BY Zenon DEF Holds

LEMMA OutcomeIs ==
  ASSUME NEW me, Outcome(me) = "SUCCEEDED"
  PROVE  me.at = "empty" \/ (me.at = "finish" /\ me.out # Nothing)
BY DEF Outcome


LEMMA SucceedsOnce ==
  ASSUME WorkerInv, NEW w \in Workers, NEW me, me = proc[w], Holds(w),
         me.at \in {"finish", "empty", "fail", "except", "deny", "cancelled"},
         me.job.run \in Runs, runStatus' = [runStatus EXCEPT ![me.job.run] = Outcome(me)]
  PROVE  SucceedOK
<1>1. SUFFICES ASSUME NEW u \in Workers, NEW ue, ue = proc[u], ue.token # 0,
                      runStatus[ue.job.run] # "SUCCEEDED",
                      runStatus'[ue.job.run] = "SUCCEEDED",
                      holder[ue.job.run] = <<u, ue.job.n>>
               PROVE  request.status = "HANDLED" /\ request.token = ue.token
  BY Zenon DEF SucceedOK
<1>2. ue.job.run \in Runs
  BY <1>1, Zenon DEF WorkerInv, LocalOK
<1>3. ue.job.run = me.job.run /\ Outcome(me) = "SUCCEEDED"
  <2>1. runStatus = [q \in Runs |-> runStatus[q]]
    BY Zenon DEF WorkerInv
  <2>2. \A q \in Runs : IF q = me.job.run THEN runStatus'[q] = Outcome(me)
                        ELSE runStatus'[q] = runStatus[q]
    BY <2>1
  <2>. QED  BY <1>1, <1>2, <2>2
<1>4. me.at = "empty" \/ (me.at = "finish" /\ me.out # Nothing)
  BY <1>3, OutcomeIs, Zenon
<1>5. LocalOK(me) /\ SettledOK(me, request)
  BY Zenon DEF WorkerInv
<1>6. me.at \notin CancelPlaces
  BY <1>4 DEF CancelPlaces
<1>7. me.job.kind # "CANCEL"
  BY <1>5, <1>6, Zenon DEF LocalOK
<1>8. holder[me.job.run] = <<w, me.job.n>>
  BY <1>7, HoldsIs, Zenon
<1>9. u = w
  BY <1>1, <1>3, <1>8
<1>10. me.token # 0 /\ ue = me
  BY <1>1, <1>9, Zenon
<1>11. me.at = "finish" /\ me.out # Nothing
  BY <1>4, <1>5, <1>10, Zenon DEF LocalOK
<1>. QED  BY <1>5, <1>10, <1>11, Zenon DEF SettledOK, Settled

LEMMA CompleteLeaseStep == ASSUME WorkerInv, NEW w \in Workers, CompleteLease(w) PROVE StepOK
<1>1. PICK me : me = proc[w]
  BY Zenon
<1>2. PICK answer \in Answers :
        /\ Call(w, Holds(w), answer)
        /\ IF ~Applied(answer) THEN runStatus' = runStatus
           ELSE runStatus' = [runStatus EXCEPT ![me.job.run] = Outcome(me)]
        /\ Goto(w, IF answer = "ok" THEN "returned" ELSE OnError(proc[w], answer))
  BY <1>1, Zenon DEF CompleteLease
<1>3. /\ me.at \in {"finish", "empty", "fail", "except", "deny", "cancelled"}
      /\ UNCHANGED <<plan, request, stored, dog>>
  BY <1>1, Zenon DEF CompleteLease
<1>4. LocalOK(me) /\ IsRequest(request) /\ runStatus = [q \in Runs |-> runStatus[q]]
  BY <1>1, Zenon DEF WorkerInv
<1>5. /\ me.at \in Working \cup {"cancelled"} /\ me.at \notin Jobless
      /\ "returned" \in Aside /\ "returned" \in CancelPlaces
      /\ "returned" \notin {"empty", "running", "acquiring"}
  BY <1>3 DEF Working, Before, Jobless, Aside, CancelPlaces
<1>6. me.job.run \in Runs
  BY <1>4, <1>5, Zenon DEF LocalOK
<1>7. Steps(w, stored, request)
  <2>1. CASE answer = "ok"
    <3>1. PICK p : p = IF answer = "ok" THEN "returned" ELSE OnError(proc[w], answer)
      BY Zenon
    <3>2. p = "returned" /\ Goto(w, p)
      BY <1>2, <2>1, <3>1, Zenon
    <3>. QED  BY <1>1, <1>5, <3>2, GotoSteps, Zenon
  <2>2. CASE answer # "ok"
    <3>1. PICK p : p = IF answer = "ok" THEN "returned" ELSE OnError(proc[w], answer)
      BY Zenon
    <3>2. p = OnError(proc[w], answer) /\ Goto(w, p)
      BY <1>2, <2>2, <3>1, Zenon
    <3>. QED  BY <1>1, <1>5, <3>2, ErrorSteps, Zenon
  <2>. QED  BY <2>1, <2>2, Zenon
<1>8. runStatus' = [q \in Runs |-> runStatus'[q]]
  BY <1>2, <1>4, <1>6
<1>9. Grows(stored, stored') /\ Stays(request, request')
  BY <1>3, <1>4, SameGrows, Zenon DEF WorkerInv, Stays
<1>10. PICK n : Sound(n, stored', request') /\ proc' = [proc EXCEPT ![w] = n]
  BY <1>3, <1>7, Zenon DEF Steps
<1>11. WorkerInv' /\ WatchOK
  BY <1>3, <1>8, <1>9, <1>10, MainStep, Zenon
<1>12. SucceedOK
  <2>1. CASE Applied(answer)
    <3>1. Holds(w)
      <4>1. PICK accepted \in BOOLEAN : accepted = Holds(w)
        BY Zenon DEF Holds
      <4>. QED  BY <1>2, <2>1, <4>1, AppliedIs, Zenon
    <3>2. runStatus' = [runStatus EXCEPT ![me.job.run] = Outcome(me)]
      BY <1>2, <2>1, Zenon
    <3>. QED  BY <1>1, <1>3, <1>6, <3>1, <3>2, SucceedsOnce, Zenon
  <2>2. CASE ~Applied(answer)
    BY <1>2, <1>3, <2>2, QuietStep, Zenon
  <2>. QED  BY <2>1, <2>2
<1>13. HandledOK
  BY <1>3, Zenon DEF HandledOK
<1>. QED  BY <1>11, <1>12, <1>13, Zenon DEF StepOK

-----------------------------------------------------------------------------
(* The process, its watchdog and the control plane.                        *)

\* A state of the process of a worker and of its watchdog that the invariant allows
Hosts(n, d) ==
  /\ LocalOK(n) /\ StoreOK(n, stored) /\ SettledOK(n, request)
  /\ n.at \in {"down", "idle"} => d = "off"

\* No Run succeeds.
NoSuccess ==
  /\ runStatus' = [r \in Runs |-> runStatus'[r]]
  /\ \A r \in Runs : runStatus'[r] = "SUCCEEDED" => runStatus[r] = "SUCCEEDED"

LEMMA SameStatus == ASSUME WorkerInv, runStatus' = runStatus PROVE NoSuccess
BY Zenon DEF WorkerInv, NoSuccess

LEMMA HostStep ==
  ASSUME WorkerInv, NEW w \in Workers, NEW n, NEW d, Hosts(n, d),
         dog[w] = "failed" => d = "failed" \/ n.at = "down",
         proc' = [proc EXCEPT ![w] = n], dog' = [dog EXCEPT ![w] = d],
         UNCHANGED <<plan, request, stored>>, NoSuccess
  PROVE  StepOK
<1>1. proc = [u \in Workers |-> proc[u]] /\ dog = [u \in Workers |-> dog[u]]
  BY Zenon DEF WorkerInv
<1>2. proc'[w] = n /\ (\A u \in Workers \ {w} : proc'[u] = proc[u])
      /\ proc' = [u \in Workers |-> proc'[u]]
  BY <1>1
<1>3. dog'[w] = d /\ (\A u \in Workers \ {w} : dog'[u] = dog[u])
      /\ dog' = [u \in Workers |-> dog'[u]]
  BY <1>1
<1>4. ASSUME NEW u \in Workers PROVE Hosts(proc'[u], dog'[u])
  <2>1. CASE u = w
    BY <1>2, <1>3, <2>1, Zenon
  <2>2. CASE u # w
    BY <1>2, <1>3, <2>2, Zenon DEF WorkerInv, Hosts
  <2>. QED  BY <2>1, <2>2
<1>5. \A u \in Workers : StoreOK(proc[u], stored)' <=> StoreOK(proc'[u], stored')
  BY Zenon DEF StoreOK, Mutated, Appended
<1>6. \A u \in Workers : StoreOK(proc'[u], stored') <=> StoreOK(proc'[u], stored)
  BY Zenon DEF StoreOK, Mutated, Appended
<1>7. WorkerInv'
  BY <1>2, <1>3, <1>4, <1>5, <1>6, Zenon DEF WorkerInv, Hosts, NoSuccess
<1>8. WatchOK
  BY <1>2, <1>3, Zenon DEF WatchOK
<1>9. SucceedOK /\ HandledOK
  BY QuietStep, Zenon DEF NoSuccess
<1>. QED  BY <1>7, <1>8, <1>9, Zenon DEF StepOK

LEMMA SameDog ==
  ASSUME WorkerInv, NEW w \in Workers, dog' = dog
  PROVE  dog' = [dog EXCEPT ![w] = dog[w]]
BY DEF WorkerInv

LEMMA FreshHosts ==
  ASSUME NEW p \in {"down", "idle"}, NEW n, n = Fresh(p)
  PROVE  Hosts(n, "off") /\ n.at = p
<1>1. /\ IsProc(n) /\ n.at = p /\ n.job.kind = "START" /\ n.token = 0 /\ n.out = Nothing
      /\ n.idx = 1
  BY DEF Fresh, NoJob, IsProc
<1>2. /\ p \in Jobless
      /\ p \notin {"prepare", "claimRequest", "empty", "mutate", "append", "settle", "upload",
                   "finish"}
  BY DEF Jobless
<1>3. LocalOK(n)
  BY <1>1, <1>2 DEF LocalOK
<1>4. StoreOK(n, stored) /\ SettledOK(n, request)
  BY <1>1, <1>2, Zenon DEF StoreOK, SettledOK
<1>. QED  BY <1>1, <1>3, <1>4, Zenon DEF Hosts

LEMMA StopStep ==
  ASSUME WorkerInv, NEW w \in Workers, StopProcess(w) \/ Crash(w) PROVE StepOK
<1>1. /\ proc' = [proc EXCEPT ![w] = Fresh("down")] /\ dog' = [dog EXCEPT ![w] = "off"]
      /\ UNCHANGED <<plan, server>>
  BY Zenon DEF StopProcess, Crash
<1>2. UNCHANGED <<plan, request, stored>> /\ runStatus' = runStatus
  BY <1>1, Zenon DEF server
<1>3. PICK n : n = Fresh("down")
  BY Zenon
<1>4. Hosts(n, "off") /\ n.at = "down"
  BY <1>3, FreshHosts
<1>. QED  BY <1>1, <1>2, <1>3, <1>4, SameStatus, HostStep, Zenon

LEMMA DyingStep ==
  ASSUME WorkerInv, NEW w \in Workers, Goto(w, "dying"), UNCHANGED <<plan, server, dog>>
  PROVE  StepOK
<1>1. /\ "dying" \in Aside /\ "dying" \in CancelPlaces
      /\ "dying" \notin {"empty", "running", "acquiring"}
  BY DEF Aside, CancelPlaces
<1>. QED  BY <1>1, GotoSteps, LocalStep, Zenon

LEMMA TerminateStep == ASSUME WorkerInv, NEW w \in Workers, Terminate(w) PROVE StepOK
BY DyingStep, Zenon DEF Terminate

LEMMA LeaveWatchdogStep == ASSUME WorkerInv, NEW w \in Workers, LeaveWatchdog(w) PROVE StepOK
<1>1. UNCHANGED <<plan, server>>
  BY Zenon DEF LeaveWatchdog
<1>2. UNCHANGED <<plan, request, stored>> /\ runStatus' = runStatus
  BY <1>1, Zenon DEF server
<1>3. CASE /\ dog[w] = "wait" /\ proc' = [proc EXCEPT ![w] = Fresh("idle")]
           /\ dog' = [dog EXCEPT ![w] = "off"]
  <2>1. PICK n : n = Fresh("idle")
    BY Zenon
  <2>2. Hosts(n, "off") /\ dog[w] # "failed"
    BY <1>3, <2>1, FreshHosts
  <2>. QED  BY <1>2, <1>3, <2>1, <2>2, SameStatus, HostStep, Zenon
<1>4. CASE Goto(w, "dying") /\ UNCHANGED dog
  BY <1>1, <1>4, DyingStep, Zenon
<1>. QED  BY <1>3, <1>4, Zenon DEF LeaveWatchdog

LEMMA BootStep == ASSUME WorkerInv, NEW w \in Workers, Boot(w) PROVE StepOK
<1>1. /\ proc[w].at = "down" /\ Goto(w, "idle") /\ UNCHANGED <<plan, request, stored>>
      /\ dog' = dog /\ runStatus' = runStatus
  BY Zenon DEF Boot, At, server
<1>2. PICK me, n : me = proc[w] /\ n = [me EXCEPT !.at = "idle"]
  BY Zenon
<1>3. proc' = [proc EXCEPT ![w] = n]
  BY <1>1, <1>2, GotoIs, Zenon DEF WorkerInv
<1>4. LocalOK(me) /\ dog[w] = "off"
  BY <1>1, <1>2, Zenon DEF WorkerInv
<1>5. Moved(me, n, "idle")
  BY <1>2, <1>4, MovedTo, Zenon DEF LocalOK
<1>6. /\ "idle" \notin {"prepare", "claimRequest", "empty", "mutate", "append", "settle",
                        "upload", "finish"}
      /\ "idle" \in Jobless /\ "down" \notin CancelPlaces /\ "down" \in Early
  BY DEF Jobless, CancelPlaces, Early
<1>7. LocalOK(n)
  BY <1>1, <1>2, <1>4, <1>5, <1>6, Zenon DEF LocalOK, Moved
<1>8. Hosts(n, dog[w])
  BY <1>4, <1>5, <1>6, <1>7, Zenon DEF Hosts, StoreOK, SettledOK, Moved
<1>. QED  BY <1>1, <1>3, <1>8, SameDog, SameStatus, HostStep, Zenon

LEMMA RenewStep == ASSUME WorkerInv, NEW w \in Workers, Renew(w) PROVE StepOK
<1>1. /\ dog[w] = "wait" /\ dog' = [dog EXCEPT ![w] = "failed"]
      /\ UNCHANGED <<plan, request, stored>> /\ proc' = proc /\ runStatus' = runStatus
  BY Zenon DEF Renew, server
<1>2. PICK n : n = proc[w]
  BY Zenon
<1>3. proc' = [proc EXCEPT ![w] = n]
  BY <1>1, <1>2, Zenon DEF WorkerInv
<1>4. "wait" # "off"
  OBVIOUS
<1>5. Hosts(n, "failed")
  BY <1>1, <1>2, <1>4, Zenon DEF WorkerInv, Hosts
<1>. QED  BY <1>1, <1>3, <1>5, SameStatus, HostStep, Zenon

\* What a claim offers names a Run of the system.
LEMMA OfferIs == ASSUME NEW w, NEW j \in Offer(w) PROVE j.run \in Runs
<1>1. \/ j \in {[kind |-> "CANCEL", run |-> r, n |-> 0] : r \in {q \in Runs : cancel[q] = "queued"}}
      \/ j \in {[kind |-> "START", run |-> r, n |-> tries[r] + 1] :
                  r \in {q \in Runs : runStatus[q] = "QUEUED"}}
  BY DEF Offer
<1>. QED  BY <1>1

LEMMA BeginHosts ==
  ASSUME NEW j, j.run \in Runs, NEW n, n = Begin(j) PROVE Hosts(n, "wait")
<1>1. PICK p : p = IF j.kind = "CANCEL" THEN "cancelBox"
                   ELSE IF "denied" \in plan[j.run] THEN "deny" ELSE "prepare"
  BY Zenon
<1>2. /\ p \in {"cancelBox", "deny", "prepare"} /\ (j.kind = "CANCEL" => p = "cancelBox")
  BY <1>1
<1>3. n = [at |-> p, job |-> j, token |-> 0, out |-> Nothing, idx |-> 1]
  BY <1>1 DEF Begin, Fresh
<1>4. /\ IsProc(n) /\ n.at = p /\ n.job = j /\ n.token = 0 /\ n.out = Nothing
      /\ n.idx = 1
  BY <1>3 DEF IsProc
<1>5. /\ "cancelBox" \in CancelPlaces
      /\ p \notin {"mutate", "append", "settle", "upload", "finish", "down", "idle"}
  BY <1>2 DEF CancelPlaces
<1>6. LocalOK(n)
  BY <1>2, <1>4, <1>5, Zenon DEF LocalOK
<1>7. StoreOK(n, stored) /\ SettledOK(n, request)
  BY <1>4, <1>5, Zenon DEF StoreOK, SettledOK
<1>. QED  BY <1>4, <1>5, <1>6, <1>7, Zenon DEF Hosts

LEMMA DyingHosts ==
  ASSUME WorkerInv, NEW w \in Workers, proc[w].at = "idle", NEW n,
         n = [proc[w] EXCEPT !.at = "dying"]
  PROVE  Hosts(n, dog[w])
<1>1. PICK me, R : me = proc[w] /\ R = request
  BY Zenon
<1>2. /\ "dying" \in Aside /\ "dying" \in CancelPlaces
      /\ "dying" \notin {"empty", "running", "acquiring", "down", "idle"}
  BY DEF Aside, CancelPlaces
<1>3. LocalOK(me)
  BY <1>1, Zenon DEF WorkerInv
<1>4. Sound(n, stored, request)
  BY <1>1, <1>2, <1>3, GotoSound, Zenon
<1>. QED  BY <1>4, Zenon DEF Sound, Hosts

LEMMA StatusSet ==
  ASSUME WorkerInv, NEW r \in Runs, NEW s, s # "SUCCEEDED",
         runStatus' = [runStatus EXCEPT ![r] = s]
  PROVE  NoSuccess
BY DEF WorkerInv, NoSuccess

LEMMA ClaimLeaseStep == ASSUME WorkerInv, NEW w \in Workers, ClaimLease(w) PROVE StepOK
<1>1. PICK j \in Offer(w), answer \in Answers :
        /\ \/ runStatus' = runStatus
           \/ runStatus' = [runStatus EXCEPT ![j.run] = "STARTING"]
        /\ IF answer = "ok"
           THEN proc' = [proc EXCEPT ![w] = Begin(j)] /\ dog' = [dog EXCEPT ![w] = "wait"]
           ELSE Goto(w, "dying") /\ UNCHANGED dog
  BY Zenon DEF ClaimLease
<1>2. proc[w].at = "idle" /\ UNCHANGED <<plan, request, stored>>
  BY Zenon DEF ClaimLease, At
<1>3. j.run \in Runs
  BY OfferIs, Zenon
<1>4. NoSuccess
  <2>1. "STARTING" # "SUCCEEDED"
    OBVIOUS
  <2>. QED  BY <1>1, <1>3, <2>1, SameStatus, StatusSet, Zenon
<1>5. dog[w] # "failed"
  BY <1>2 DEF WorkerInv
<1>6. CASE answer = "ok"
  <2>1. PICK n : n = Begin(j)
    BY Zenon
  <2>2. Hosts(n, "wait")
    BY <1>3, <2>1, BeginHosts, Zenon
  <2>. QED  BY <1>1, <1>2, <1>4, <1>5, <1>6, <2>1, <2>2, HostStep, Zenon
<1>7. CASE answer # "ok"
  <2>1. PICK n : n = [proc[w] EXCEPT !.at = "dying"]
    BY Zenon
  <2>2. Hosts(n, dog[w])
    BY <1>2, <2>1, DyingHosts, Zenon
  <2>3. proc' = [proc EXCEPT ![w] = n]
    BY <1>1, <1>7, <2>1, GotoIs, Zenon DEF WorkerInv
  <2>4. dog' = [dog EXCEPT ![w] = dog[w]]
    BY <1>1, <1>7, SameDog, Zenon
  <2>. QED  BY <1>2, <1>4, <1>5, <2>2, <2>3, <2>4, HostStep, Zenon
<1>. QED  BY <1>6, <1>7

LEMMA PlaneStep ==
  ASSUME WorkerInv, UNCHANGED <<plan, stored, proc, dog>>, Stays(request, request'),
         request'.status = "HANDLED" => request.status = "HANDLED", NoSuccess
  PROVE  StepOK
<1>1. ASSUME NEW u \in Workers PROVE SettledOK(proc[u], request')
  BY SettledKept, Zenon DEF WorkerInv
<1>2. \A u \in Workers : StoreOK(proc[u], stored)' <=> StoreOK(proc[u], stored)
  BY Zenon DEF StoreOK, Mutated, Appended
<1>3. WorkerInv'
  BY <1>1, <1>2, Zenon DEF WorkerInv, NoSuccess, Stays
<1>4. WatchOK
  BY Zenon DEF WatchOK
<1>5. SucceedOK /\ HandledOK
  BY QuietStep, Zenon DEF NoSuccess
<1>. QED  BY <1>3, <1>4, <1>5, Zenon DEF StepOK

LEMMA RunStep ==
  ASSUME WorkerInv, NEW r \in Runs, ExpireLease(r) \/ CancelRun(r) \/ Converge(r)
  PROVE  StepOK
<1>1. /\ UNCHANGED <<plan, stored, proc, dog>> /\ request' = request
      /\ \E s \in {"QUEUED", "FAILED", "ABORTED", "ABORTING"} :
           runStatus' = [runStatus EXCEPT ![r] = s]
  <2>1. CASE ExpireLease(r)
    <3>1. PICK s : s = IF tries[r] < MaxTries THEN "QUEUED" ELSE "FAILED"
      BY Zenon
    <3>2. s = "QUEUED" \/ s = "FAILED"
      BY <3>1
    <3>. QED  BY <2>1, <3>1, <3>2, Zenon DEF ExpireLease
  <2>2. CASE CancelRun(r) \/ Converge(r)
    BY <2>2, Zenon DEF CancelRun, Converge
  <2>. QED  BY <2>1, <2>2
<1>2. NoSuccess
  <2>1. "SUCCEEDED" \notin {"QUEUED", "FAILED", "ABORTED", "ABORTING"}
    OBVIOUS
  <2>. QED  BY <1>1, <2>1, StatusSet, Zenon
<1>3. Stays(request, request')
  BY <1>1, Zenon DEF WorkerInv, Stays
<1>. QED  BY <1>1, <1>2, <1>3, PlaneStep, Zenon

LEMMA ExpireClaimStep == ASSUME WorkerInv, ExpireClaim PROVE StepOK
<1>1. /\ UNCHANGED <<plan, stored, proc, dog>> /\ runStatus' = runStatus
      /\ request.status = "CLAIMED" /\ request' = [request EXCEPT !.live = FALSE]
  BY Zenon DEF ExpireClaim
<1>2. IsRequest(request) /\ request.status # "HANDLED"
  BY <1>1 DEF WorkerInv
<1>3. IsRequest(request') /\ request'.status = request.status
  BY <1>1, <1>2, Zenon DEF IsRequest
<1>. QED  BY <1>1, <1>2, <1>3, SameStatus, PlaneStep, Zenon DEF Stays

-----------------------------------------------------------------------------
(* The theorems.                                                           *)

LEMMA WorkerStarts == WorkerInit => WorkerInv
<1>. SUFFICES ASSUME WorkerInit PROVE WorkerInv
  OBVIOUS
<1>1. stored \in Stores
  BY OutputAssumption DEF WorkerInit, Stores
<1>2. IsRequest(request)
  BY DEF WorkerInit, IsRequest
<1>3. /\ proc = [w \in Workers |-> proc[w]] /\ dog = [w \in Workers |-> dog[w]]
      /\ runStatus = [r \in Runs |-> runStatus[r]]
      /\ \A w \in Workers : proc[w] = Fresh("down") /\ dog[w] = "off"
  BY DEF WorkerInit
<1>4. ASSUME NEW w \in Workers PROVE Hosts(proc[w], dog[w])
  <2>1. PICK n : n = proc[w]
    BY Zenon
  <2>2. Hosts(n, "off")
    BY <1>3, <2>1, FreshHosts
  <2>. QED  BY <1>3, <2>1, <2>2, Zenon
<1>. QED  BY <1>1, <1>2, <1>3, <1>4, Zenon DEF WorkerInv, Hosts

LEMMA MainThreadStep == ASSUME WorkerInv, NEW w \in Workers, MainThread(w) PROVE StepOK
<1>1. CASE PrepareRun(w) \/ PrepareBuild(w)
  BY <1>1, ConsultStep, Zenon DEF PrepareRun, PrepareBuild
<1>2. CASE ReadRecords(w) \/ ReceiveSecrets(w) \/ UploadArtifacts(w)
  BY <1>2, ConsultStep, Zenon DEF ReadRecords, ReceiveSecrets, UploadArtifacts
<1>3. CASE ClaimRequest(w)
  BY <1>3, ClaimRequestStep, Zenon
<1>4. CASE FetchRequest(w) \/ FetchWeb(w)
  BY <1>4, FetchStep, Zenon
<1>5. CASE ReportRunning(w)
  BY <1>5, ReportStep, Zenon
<1>6. CASE StartBox(w)
  BY <1>6, StartBoxStep, Zenon
<1>7. CASE PageAcquired(w) \/ BrowserExits(w) \/ AgentExits(w)
  BY <1>7, BoxExitsStep, Zenon
<1>8. CASE BoxFails(w)
  BY <1>8, BoxFailsStep, Zenon
<1>9. CASE BuildImage(w)
  BY <1>9, BuildImageStep, Zenon
<1>10. CASE MutateRecord(w)
  BY <1>10, MutateRecordStep, Zenon
<1>11. CASE AppendItems(w)
  BY <1>11, AppendItemsStep, Zenon
<1>12. CASE RefuseOutput(w)
  BY <1>12, RefuseOutputStep, Zenon
<1>13. CASE CompleteRequest(w)
  BY <1>13, CompleteRequestStep, Zenon
<1>14. CASE CancelBox(w)
  BY <1>14, CancelBoxStep, Zenon
<1>15. CASE CompleteLease(w)
  BY <1>15, CompleteLeaseStep, Zenon
<1>16. CASE MarkCompleted(w)
  BY <1>16, MarkCompletedStep, Zenon
<1>17. CASE LeaveWatchdog(w)
  BY <1>17, LeaveWatchdogStep, Zenon
<1>18. CASE StopProcess(w)
  BY <1>18, StopStep, Zenon
<1>. QED  BY <1>1, <1>2, <1>3, <1>4, <1>5, <1>6, <1>7, <1>8, <1>9, <1>10, <1>11, <1>12, <1>13,
             <1>14, <1>15, <1>16, <1>17, <1>18, Zenon DEF MainThread

LEMMA WorkerStep == ASSUME WorkerInv, WorkerNext PROVE StepOK
<1>1. ASSUME NEW w \in Workers, MainThread(w) PROVE StepOK
  BY <1>1, MainThreadStep, Zenon
<1>2. ASSUME NEW w \in Workers, Renew(w) PROVE StepOK
  BY <1>2, RenewStep, Zenon
<1>3. ASSUME NEW w \in Workers, Boot(w) PROVE StepOK
  BY <1>3, BootStep, Zenon
<1>4. ASSUME NEW w \in Workers, ClaimLease(w) PROVE StepOK
  BY <1>4, ClaimLeaseStep, Zenon
<1>5. ASSUME NEW w \in Workers, Terminate(w) PROVE StepOK
  BY <1>5, TerminateStep, Zenon
<1>6. ASSUME NEW w \in Workers, Crash(w) PROVE StepOK
  BY <1>6, StopStep, Zenon
<1>7. ASSUME NEW r \in Runs, ExpireLease(r) \/ CancelRun(r) \/ Converge(r) PROVE StepOK
  BY <1>7, RunStep, Zenon
<1>8. CASE ExpireClaim
  BY <1>8, ExpireClaimStep, Zenon
<1>. QED  BY <1>1, <1>2, <1>3, <1>4, <1>5, <1>6, <1>7, <1>8, Zenon DEF WorkerNext

LEMMA WorkerStutters == ASSUME WorkerInv, UNCHANGED workerVars PROVE StepOK
<1>1. /\ UNCHANGED <<plan, stored, proc, dog>> /\ request' = request /\ runStatus' = runStatus
  BY Zenon DEF workerVars
<1>2. Stays(request, request')
  BY <1>1, Zenon DEF WorkerInv, Stays
<1>. QED  BY <1>1, <1>2, SameStatus, PlaneStep, Zenon

\* At every place of _run the main thread has done what that place takes for
\* granted: the mutations before the index of the loop are in the store of the
\* Run, behind the loop all of them are and behind the append the items, and
\* behind queue_complete the request is HANDLED under the claim of the process.
THEOREM WorkerInvariance == WorkerSpec => []WorkerInv
<1>1. WorkerInit => WorkerInv
  BY WorkerStarts
<1>2. WorkerInv /\ [WorkerNext]_workerVars => WorkerInv'
  BY WorkerStep, WorkerStutters, Zenon DEF StepOK
<1>. QED  BY <1>1, <1>2, PTL DEF WorkerSpec

\* HandledIsPersisted for any number of workers, Runs, outputs, faults and
\* attempts: complete_worker_queue_request marks a request HANDLED only behind
\* every kv_mutate and the dataset_append of the claiming attempt.
THEOREM HandledPersists == WorkerSpec => HandledIsPersisted
<1>1. WorkerInv /\ [WorkerNext]_workerVars => [HandledOK]_workerVars
  BY WorkerStep, Zenon DEF StepOK
<1>2. [HandledOK]_workerVars
        => [request'.status = "HANDLED" /\ request.status # "HANDLED"
              => \E w \in Workers : /\ proc[w].token = request.token
                                    /\ proc[w].out # Nothing
                                    /\ Persisted(proc[w])]_workerVars
  BY Zenon DEF HandledOK
<1>. QED  BY <1>1, <1>2, WorkerInvariance, PTL DEF WorkerSpec, HandledIsPersisted

\* SucceededMeansHandled likewise: a Run that claimed a request and reports
\* success through "complete" has had its queue_complete accepted.
THEOREM SuccessIsHandled == WorkerSpec => SucceededMeansHandled
<1>1. WorkerInv /\ [WorkerNext]_workerVars => [SucceedOK]_workerVars
  BY WorkerStep, Zenon DEF StepOK
<1>2. [SucceedOK]_workerVars
        => [\A w \in Workers :
              LET me == proc[w]
              IN  me.token # 0 /\ runStatus[me.job.run] # "SUCCEEDED"
                    /\ runStatus'[me.job.run] = "SUCCEEDED"
                    /\ holder[me.job.run] = <<w, me.job.n>>
                  => request.status = "HANDLED" /\ request.token = me.token]_workerVars
  BY Zenon DEF SucceedOK
<1>. QED  BY <1>1, <1>2, WorkerInvariance, PTL DEF WorkerSpec, SucceededMeansHandled

\* LostLeaseEndsProcess likewise: a watchdog that failed stays failed until the
\* process of its worker is down, so that main claims no further lease.
THEOREM LostLeaseEnds == WorkerSpec => LostLeaseEndsProcess
<1>1. WorkerInv /\ [WorkerNext]_workerVars => [WatchOK]_workerVars
  BY WorkerStep, Zenon DEF StepOK
<1>2. [WatchOK]_workerVars
        => [\A w \in Workers :
              dog[w] = "failed" => dog'[w] = "failed" \/ proc'[w].at = "down"]_workerVars
  BY Zenon DEF WatchOK
<1>. QED  BY <1>1, <1>2, WorkerInvariance, PTL DEF WorkerSpec, LostLeaseEndsProcess
=============================================================================
