--------------------------- MODULE PlatformProofs ---------------------------
(***************************************************************************)
(* Proofs about the platform services: sources and builds, sessions and API *)
(* keys, egress policies with their credentials.                           *)
(***************************************************************************)
EXTENDS AgentSources, Identity, EgressPolicies, TLAPS

-----------------------------------------------------------------------------
(***************************************************************************)
(* What is built was inspected, for any number of agents, objects,         *)
(* archives, concurrent requests and builds.                               *)
(*                                                                         *)
(* The argument never mentions the bucket: a completion compares the bytes *)
(* with the digest that create_source_upload fixed for the object, the     *)
(* build worker compares them with the digest of the row, and the two are  *)
(* the same digest.  The invariant says so of every row, of what every     *)
(* open completion has loaded, and of every version and build.             *)
(***************************************************************************)

Manifests == {Manifest(c) : c \in Archives}

Sources ==
    [status : {"none", "PENDING_UPLOAD", "AVAILABLE"}, agent : Agents \cup {None},
     expected : Archives \cup {None}, digest : Archives \cup {None},
     manifest : Manifests \cup {None}]

CompletionCalls == [op : {"complete", "verify"}, object : Objects, seen : Sources]

SourceOK(x) ==
    /\ x \in Sources
    /\ x.status = "none" => x = NoSource
    /\ x.status = "AVAILABLE" =>
          /\ x.digest = x.expected
          /\ x.digest.safe
          /\ x.manifest = Manifest(x.digest)

CallOK(c) ==
    \/ c.op \in {"idle", "update", "version"}
    \/ /\ c \in CompletionCalls
       /\ source[c.object].status # "none"
       /\ c.seen.expected = source[c.object].expected

ReleaseOK(v) ==
    /\ v.source \in Objects
    /\ source[v.source].status = "AVAILABLE"
    /\ source[v.source].manifest = v.manifest

BuildOK(b) ==
    /\ b = [version |-> b.version, digest |-> b.digest, status |-> b.status, made |-> b.made]
    /\ ReleaseOK(b.version)
    /\ b.digest = source[b.version.source].digest
    /\ b.status = "SUCCEEDED" => b.made = b.digest

SourceInv ==
    /\ source \in [Objects -> Sources]
    /\ bucket \in [Objects -> Archives \cup {None}]
    /\ request = [r \in Callers |-> request[r]]
    /\ build = [k \in BuildKeys |-> build[k]]
    /\ \A o \in Objects : SourceOK(source[o])
    /\ \A r \in Callers : CallOK(request[r])
    /\ \A v \in release : ReleaseOK(v)
    /\ \A k \in BuildKeys : build[k] # None => BuildOK(build[k])

-----------------------------------------------------------------------------
\* The invariant holds before the first upload.
LEMMA SourceInitOK == SourceInit => SourceInv
<1>1. NoSource \in Sources /\ NoSource.status = "none"
  BY DEF NoSource, Sources
<1>2. IdleCall.op = "idle"
  BY DEF IdleCall
<1>. QED  BY <1>1, <1>2 DEF SourceInit, SourceInv, SourceOK, CallOK

\* Whatever keeps the expected digests and the available rows keeps what other
\* requests, versions and builds know of them.
LEMMA SourcesKept ==
  ASSUME SourceInv, source' \in [Objects -> Sources],
         \A o \in Objects : SourceOK(source'[o]),
         \A o \in Objects : /\ source[o].status # "none" => /\ source'[o].status # "none"
                                                            /\ source'[o].expected = source[o].expected
                            /\ source[o].status = "AVAILABLE" => source'[o] = source[o]
  PROVE  /\ \A c : CallOK(c) => CallOK(c)'
         /\ \A v : ReleaseOK(v) => ReleaseOK(v)'
         /\ \A b : BuildOK(b) => BuildOK(b)'
<1>1. ASSUME NEW c, CallOK(c)  PROVE CallOK(c)'
  BY <1>1 DEF CallOK, CompletionCalls
<1>2. ASSUME NEW v, ReleaseOK(v)  PROVE ReleaseOK(v)'
  BY <1>2 DEF ReleaseOK
<1>3. ASSUME NEW b, BuildOK(b)  PROVE BuildOK(b)'
  BY <1>3 DEF BuildOK, ReleaseOK
<1>. QED  BY <1>1, <1>2, <1>3

\* A step that keeps the sources and changes one call to another that is well formed
LEMMA CallsOnly ==
  ASSUME SourceInv, UNCHANGED <<source, release, build>>,
         bucket' \in [Objects -> Archives \cup {None}],
         NEW r \in Callers, \A s \in Callers \ {r} : request'[s] = request[s],
         request' = [s \in Callers |-> request'[s]], CallOK(request[r])'
  PROVE  SourceInv'
<1>1. source' \in [Objects -> Sources] /\ \A o \in Objects : SourceOK(source'[o])
  BY DEF SourceInv
<1>2. (\A d : CallOK(d) => CallOK(d)') /\ (\A v : ReleaseOK(v) => ReleaseOK(v)') /\ (\A b : BuildOK(b) => BuildOK(b)')
  BY <1>1, SourcesKept
<1>3. ASSUME NEW s \in Callers, s # r  PROVE CallOK(request[s])'
  <2>1. request'[s] = request[s] /\ CallOK(request[s])
    BY <1>3 DEF SourceInv
  <2>. QED  BY <2>1, <1>2 DEF CallOK
<1>4. \A o \in Objects : SourceOK(source[o])'
  BY <1>1 DEF SourceOK
<1>5. (\A v \in release : ReleaseOK(v))' /\ (\A k \in BuildKeys : build[k] # None => BuildOK(build[k]))'
  BY <1>2 DEF SourceInv, ReleaseOK, BuildOK
<1>. QED  BY <1>1, <1>3, <1>4, <1>5 DEF SourceInv

\* The same for a call that ends
LEMMA CallEnds ==
  ASSUME SourceInv, UNCHANGED <<source, release, build>>,
         bucket' \in [Objects -> Archives \cup {None}], NEW r \in Callers, EndCall(r)
  PROVE  SourceInv'
<1>1. request'[r] = IdleCall /\ request' = [s \in Callers |-> request'[s]] /\ \A s \in Callers \ {r} : request'[s] = request[s]
  BY DEF EndCall, SourceInv
<1>2. CallOK(request[r])'
  BY <1>1 DEF CallOK, IdleCall
<1>. QED  BY <1>1, <1>2, CallsOnly

\* What finalization writes: a well-formed row with the digest it expected
LEMMA AcceptedSource ==
  ASSUME SourceInv, NEW r \in Callers, AcceptSource(r)
  PROVE  LET o == request[r].object
             new == [source[o] EXCEPT !.status = "AVAILABLE", !.digest = bucket[o],
                                      !.manifest = Manifest(bucket[o])]
         IN  /\ o \in Objects /\ source[o].status # "none"
             /\ source' = [source EXCEPT ![o] = new]
             /\ SourceOK(new) /\ new.expected = source[o].expected /\ new.status = "AVAILABLE"
             /\ source[o].status = "AVAILABLE" => new = source[o]
<1>. DEFINE o == request[r].object
            new == [source[o] EXCEPT !.status = "AVAILABLE", !.digest = bucket[o],
                                     !.manifest = Manifest(bucket[o])]
<1>1. request[r] \in CompletionCalls /\ source[o].status # "none" /\ request[r].seen.expected = source[o].expected
  BY DEF AcceptSource, SourceInv, CallOK
<1>2. /\ bucket[o] # None /\ bucket[o] = request[r].seen.expected /\ bucket[o].safe
      /\ source' = [source EXCEPT ![o].status = "AVAILABLE", ![o].digest = bucket[o],
                                  ![o].manifest = Manifest(bucket[o])]
  BY DEF AcceptSource, Verified, Inspected
<1>3. o \in Objects /\ source[o] \in Sources /\ bucket[o] \in Archives
  BY <1>1, <1>2 DEF CompletionCalls, SourceInv
<1>4. source' = [source EXCEPT ![o] = new]
  BY <1>2, Zenon
<1>5. Manifest(bucket[o]) \in Manifests
  BY <1>3 DEF Manifests
<1>6. ASSUME NEW x, x = new
      PROVE  /\ x \in Sources /\ x.status = "AVAILABLE" /\ x.expected = source[o].expected
             /\ x.digest = bucket[o] /\ x.manifest = Manifest(bucket[o]) /\ x.agent = source[o].agent
  BY <1>3, <1>5, <1>6, Zenon DEF Sources
<1>7. SourceOK(new) /\ new.expected = source[o].expected /\ new.status = "AVAILABLE"
  BY <1>1, <1>2, <1>6, Zenon DEF SourceOK
<1>8. ASSUME source[o].status = "AVAILABLE"  PROVE new = source[o]
  <2>1. /\ source[o].digest = source[o].expected /\ source[o].manifest = Manifest(source[o].digest)
    BY <1>3, <1>8 DEF SourceInv, SourceOK
  <2>2. ASSUME NEW x \in Sources, NEW y \in Sources, x.status = y.status, x.agent = y.agent,
               x.expected = y.expected, x.digest = y.digest, x.manifest = y.manifest
        PROVE  x = y
    BY <2>2 DEF Sources
  <2>. HIDE DEF new
  <2>3. /\ new \in Sources /\ new.status = source[o].status /\ new.expected = source[o].expected
        /\ new.digest = source[o].digest /\ new.manifest = source[o].manifest /\ new.agent = source[o].agent
    BY <1>1, <1>2, <1>6, <1>8, <2>1, Zenon
  <2>. QED  BY <1>3, <2>2, <2>3
<1>. QED  BY <1>1, <1>3, <1>4, <1>7, <1>8

\* Every step keeps the invariant.
LEMMA SourceStepOK ==
  ASSUME SourceInv, [SourceNext]_sourceVars  PROVE SourceInv'
<1>a. ASSUME UNCHANGED <<source, bucket, request, release, build>>  PROVE SourceInv'
  BY <1>a DEF SourceInv, SourceOK, CallOK, ReleaseOK, BuildOK
<1>1. ASSUME NEW a \in Agents, NEW slug \in Slugs, CreateAgent(a, slug)  PROVE SourceInv'
  BY <1>1, <1>a DEF CreateAgent
<1>2. ASSUME NEW r \in Callers, NEW a \in Agents, NEW op \in {"update", "version"}, LoadAgent(r, a, op)
      PROVE  SourceInv'
  <2>1. /\ request'[r].op = op /\ request' = [s \in Callers |-> request'[s]]
        /\ \A s \in Callers \ {r} : request'[s] = request[s]
    BY <1>2 DEF LoadAgent, SourceInv
  <2>2. CallOK(request[r])'
    BY <2>1 DEF CallOK
  <2>. QED  BY <1>2, <2>1, <2>2, CallsOnly DEF LoadAgent, SourceInv
<1>3. ASSUME NEW r \in Callers, NEW n, NEW slug \in Slugs, UpdateAgent(r, n, slug)  PROVE SourceInv'
  BY <1>3, CallEnds, Zenon DEF UpdateAgent, SourceInv
<1>4. ASSUME NEW o \in Objects, NEW a \in Agents, NEW c \in Archives, CreateUpload(o, a, c)  PROVE SourceInv'
  <2>. DEFINE new == [status |-> "PENDING_UPLOAD", agent |-> a, expected |-> c, digest |-> None, manifest |-> None]
  <2>1. new \in Sources /\ new.status = "PENDING_UPLOAD" /\ SourceOK(new)
    BY DEF Sources, SourceOK
  <2>2. source[o].status = "none" /\ source' = [source EXCEPT ![o] = new] /\ UNCHANGED <<bucket, request, release, build>>
    BY <1>4 DEF CreateUpload, NoSource
  <2>. HIDE DEF new
  <2>3. source' \in [Objects -> Sources] /\ \A x \in Objects : SourceOK(source'[x])
    BY <2>1, <2>2 DEF SourceInv
  <2>4. \A x \in Objects : source[x].status # "none" => source'[x] = source[x]
    BY <2>2 DEF SourceInv
  <2>5. (\A d : CallOK(d) => CallOK(d)') /\ (\A v : ReleaseOK(v) => ReleaseOK(v)') /\ (\A b : BuildOK(b) => BuildOK(b)')
    BY <2>3, <2>4, SourcesKept
  <2>. QED  BY <2>2, <2>3, <2>5 DEF SourceInv, SourceOK, CallOK, ReleaseOK, BuildOK
<1>5. ASSUME NEW o \in Objects, NEW c \in Archives, PostForm(o, c)  PROVE SourceInv'
  <2>1. bucket' \in [Objects -> Archives \cup {None}] /\ UNCHANGED <<source, request, release, build>>
    BY <1>5 DEF PostForm, SourceInv
  <2>. QED  BY <2>1 DEF SourceInv, SourceOK, CallOK, ReleaseOK, BuildOK
<1>6. ASSUME NEW o \in Objects, FormExpires(o)  PROVE SourceInv'
  BY <1>6, <1>a DEF FormExpires
<1>7. ASSUME NEW r \in Callers, NEW o \in Objects, LoadSource(r, o)  PROVE SourceInv'
  <2>1. source[o].status # "none"
    BY <1>7 DEF LoadSource, SourceInv, SourceOK
  <2>2. /\ request'[r] = [op |-> "complete", object |-> o, seen |-> source[o]]
        /\ request' = [s \in Callers |-> request'[s]] /\ \A s \in Callers \ {r} : request'[s] = request[s]
    BY <1>7 DEF LoadSource, SourceInv
  <2>3. CallOK(request[r])'
    BY <1>7, <2>1, <2>2 DEF CallOK, CompletionCalls, LoadSource, SourceInv
  <2>. QED  BY <1>7, <2>2, <2>3, CallsOnly DEF LoadSource, SourceInv
<1>8. ASSUME NEW r \in Callers, HeadSource(r)  PROVE SourceInv'
  <2>1. CASE EndCall(r)
    BY <1>8, <2>1, CallEnds DEF HeadSource, SourceInv
  <2>2. CASE request' = [request EXCEPT ![r].op = "verify"]
    <3>1. /\ request[r] \in CompletionCalls /\ source[request[r].object].status # "none"
          /\ request[r].seen.expected = source[request[r].object].expected
      BY <1>8 DEF HeadSource, SourceInv, CallOK
    <3>2. /\ request'[r] = [request[r] EXCEPT !.op = "verify"]
          /\ request' = [s \in Callers |-> request'[s]] /\ \A s \in Callers \ {r} : request'[s] = request[s]
      BY <2>2 DEF SourceInv
    <3>3. request'[r] \in CompletionCalls /\ request'[r].object = request[r].object /\ request'[r].seen = request[r].seen
      BY <3>1, <3>2 DEF CompletionCalls
    <3>4. CallOK(request[r])'
      BY <1>8, <3>1, <3>3, Zenon DEF CallOK, HeadSource
    <3>. QED  BY <1>8, <3>2, <3>4, CallsOnly DEF HeadSource, SourceInv
  <2>. QED  BY <1>8, <2>1, <2>2 DEF HeadSource
<1>9. ASSUME NEW r \in Callers, AcceptSource(r)  PROVE SourceInv'
  <2>. DEFINE o == request[r].object
              new == [source[o] EXCEPT !.status = "AVAILABLE", !.digest = bucket[o],
                                       !.manifest = Manifest(bucket[o])]
  <2>1. /\ o \in Objects /\ source[o].status # "none"
        /\ source' = [source EXCEPT ![o] = new]
        /\ SourceOK(new) /\ new.expected = source[o].expected /\ new.status = "AVAILABLE"
        /\ source[o].status = "AVAILABLE" => new = source[o]
    BY <1>9, AcceptedSource, Zenon
  <2>2. request' = [request EXCEPT ![r] = IdleCall] /\ UNCHANGED <<bucket, release, build>>
    BY <1>9 DEF AcceptSource, EndCall
  <2>. HIDE DEF new, o
  <2>3. source' \in [Objects -> Sources] /\ \A x \in Objects : SourceOK(source'[x])
    BY <2>1 DEF SourceInv, SourceOK
  <2>4. \A x \in Objects : /\ source[x].status # "none" => /\ source'[x].status # "none"
                                                           /\ source'[x].expected = source[x].expected
                           /\ source[x].status = "AVAILABLE" => source'[x] = source[x]
    BY <2>1 DEF SourceInv
  <2>5. (\A d : CallOK(d) => CallOK(d)') /\ (\A v : ReleaseOK(v) => ReleaseOK(v)') /\ (\A b : BuildOK(b) => BuildOK(b)')
    BY <2>3, <2>4, SourcesKept
  <2>6. ASSUME NEW s \in Callers  PROVE CallOK(request[s])'
    <3>1. request'[s] = IF s = r THEN IdleCall ELSE request[s]
      BY <2>2 DEF SourceInv
    <3>2. CASE s = r
      BY <3>1, <3>2 DEF CallOK, IdleCall
    <3>3. CASE s # r
      BY <3>1, <3>3, <2>5 DEF CallOK, SourceInv
    <3>. QED  BY <3>2, <3>3
  <2>7. request' = [s \in Callers |-> request'[s]]
    BY <2>2 DEF SourceInv
  <2>. QED  BY <2>2, <2>3, <2>5, <2>6, <2>7 DEF SourceInv, SourceOK, ReleaseOK, BuildOK
<1>10. ASSUME NEW r \in Callers, RejectSource(r)  PROVE SourceInv'
  <2>1. bucket' \in [Objects -> Archives \cup {None}]
    BY <1>10 DEF RejectSource, SourceInv
  <2>. QED  BY <1>10, <2>1, CallEnds DEF RejectSource
<1>11. ASSUME NEW r \in Callers, SourceGone(r)  PROVE SourceInv'
  BY <1>11, CallEnds DEF SourceGone, SourceInv
<1>12. ASSUME NEW r \in Callers, NEW o \in Objects, NEW c \in Archives, CreateVersion(r, o, Manifest(c))
       PROVE  SourceInv'
  <2>1. EndCall(r) /\ UNCHANGED <<source, bucket, build>>
    BY <1>12 DEF CreateVersion
  <2>2. ASSUME NEW v \in release'  PROVE ReleaseOK(v)'
    <3>1. CASE v \in release
      BY <2>1, <3>1 DEF SourceInv, ReleaseOK
    <3>2. CASE v \notin release
      <4>1. v.source = o /\ v.manifest = Manifest(c) /\ Linkable(o, request[r].agent, Manifest(c))
        BY <1>12, <2>2, <3>2 DEF CreateVersion
      <4>. QED  BY <2>1, <4>1 DEF Linkable, ReleaseOK
    <3>. QED  BY <3>1, <3>2
  <2>3. request' = [s \in Callers |-> request'[s]] /\ \A s \in Callers : request'[s] \in {request[s], IdleCall}
    BY <2>1 DEF EndCall, SourceInv
  <2>4. \A s \in Callers : CallOK(request[s])'
    BY <2>1, <2>3 DEF CallOK, IdleCall, SourceInv
  <2>. QED  BY <2>1, <2>2, <2>3, <2>4 DEF SourceInv, SourceOK, BuildOK, ReleaseOK
<1>13. ASSUME NEW k \in BuildKeys, NEW v \in release, CreateBuild(k, v)  PROVE SourceInv'
  <2>. DEFINE new == [version |-> v, digest |-> source[v.source].digest, status |-> "QUEUED", made |-> None]
  <2>1. UNCHANGED <<source, bucket, request, release>> /\ build' = [build EXCEPT ![k] = new]
    BY <1>13 DEF CreateBuild
  <2>2. BuildOK(new)
    BY DEF BuildOK, SourceInv
  <2>. HIDE DEF new
  <2>3. build' = [j \in BuildKeys |-> build'[j]] /\ \A j \in BuildKeys : build'[j] = IF j = k THEN new ELSE build[j]
    BY <2>1 DEF SourceInv
  <2>4. \A j \in BuildKeys : build'[j] # None => BuildOK(build'[j])
    BY <2>2, <2>3 DEF SourceInv
  <2>. QED  BY <2>1, <2>3, <2>4, ZenonT(30) DEF SourceInv, SourceOK, CallOK, ReleaseOK, BuildOK
<1>14. ASSUME NEW k \in BuildKeys, RunBuild(k)  PROVE SourceInv'
  <2>1. UNCHANGED <<source, bucket, request, release>> /\ build[k] # None /\ BuildOK(build[k])
    BY <1>14 DEF RunBuild, SourceInv
  <2>2. /\ build' = [j \in BuildKeys |-> build'[j]] /\ \A j \in BuildKeys \ {k} : build'[j] = build[j]
        /\ build'[k] = IF bucket[build[k].version.source] = build[k].digest
                       THEN [build[k] EXCEPT !.status = "SUCCEEDED", !.made = bucket[build[k].version.source]]
                       ELSE [build[k] EXCEPT !.status = "FAILED"]
    BY <1>14, Zenon DEF RunBuild, SourceMatches, SourceInv
  <2>3. BuildOK(build'[k])
    <3>1. ASSUME NEW x, NEW v, NEW d, NEW t, NEW m, NEW y, x = [version |-> v, digest |-> d, status |-> t, made |-> m],
                 y = [x EXCEPT !.status = "FAILED"]
          PROVE  y = [version |-> v, digest |-> d, status |-> "FAILED", made |-> m]
      BY <3>1
    <3>2. ASSUME NEW x, NEW v, NEW d, NEW t, NEW m, NEW e, NEW y,
                 x = [version |-> v, digest |-> d, status |-> t, made |-> m],
                 y = [x EXCEPT !.status = "SUCCEEDED", !.made = e]
          PROVE  y = [version |-> v, digest |-> d, status |-> "SUCCEEDED", made |-> e]
      BY <3>2, ZenonT(30)
    <3>3. CASE bucket[build[k].version.source] = build[k].digest
      <4>1. build'[k] = [version |-> build[k].version, digest |-> build[k].digest,
                         status |-> "SUCCEEDED", made |-> build[k].digest]
        BY <2>1, <2>2, <3>2, <3>3, Zenon DEF BuildOK
      <4>. QED  BY <2>1, <4>1 DEF BuildOK
    <3>4. CASE bucket[build[k].version.source] # build[k].digest
      <4>1. build'[k] = [version |-> build[k].version, digest |-> build[k].digest,
                         status |-> "FAILED", made |-> build[k].made]
        BY <2>1, <2>2, <3>1, <3>4 DEF BuildOK
      <4>. QED  BY <2>1, <4>1 DEF BuildOK
    <3>. QED  BY <3>3, <3>4
  <2>4. \A j \in BuildKeys : build'[j] # None => BuildOK(build'[j])
    BY <2>2, <2>3 DEF SourceInv
  <2>. QED  BY <2>1, <2>2, <2>4, Zenon DEF SourceInv, SourceOK, CallOK, ReleaseOK, BuildOK
<1>. QED  BY <1>1, <1>2, <1>3, <1>4, <1>5, <1>6, <1>7, <1>8, <1>9, <1>10, <1>11, <1>12, <1>13, <1>14, <1>a, Zenon
          DEF SourceNext, sourceVars

-----------------------------------------------------------------------------
\* In every reachable state the rows, the open completions, the versions and the
\* builds agree on the digest fixed by create_source_upload.
THEOREM SourceInvariance == SourceSpec => []SourceInv
BY SourceInitOK, SourceStepOK, PTL DEF SourceSpec

\* A Build that succeeded was made of the inspected archive of its version, whatever
\* forms are posted while completions, versions and builds interleave
\* (complete_source_upload, create_agent_version, the build worker).
THEOREM InspectedBuilds == SourceSpec => []BuiltFromInspectedSource
<1>1. SourceInv => BuiltFromInspectedSource
  BY DEF SourceInv, BuildOK, ReleaseOK, SourceOK, BuiltFromInspectedSource
<1>. QED  BY <1>1, SourceInvariance, PTL

\* An AVAILABLE row never changes, although a completion that loaded it while it was
\* PENDING_UPLOAD writes it a second time (complete_source_upload).
THEOREM FixedSources == SourceSpec => AvailableSourceIsFixed
<1>. DEFINE Fixed == \A o \in Objects : source[o].status = "AVAILABLE" => source'[o] = source[o]
<1>1. SourceInv /\ [SourceNext]_sourceVars => [Fixed]_sourceVars
  <2>1. ASSUME SourceInv, NEW o \in Objects, NEW a \in Agents, NEW c \in Archives, CreateUpload(o, a, c)  PROVE Fixed
    BY <2>1 DEF CreateUpload, SourceInv, NoSource
  <2>2. ASSUME SourceInv, NEW r \in Callers, AcceptSource(r)  PROVE Fixed
    BY <2>2, AcceptedSource, ZenonT(30) DEF SourceInv
  <2>3. ASSUME SourceNext,
               \A o \in Objects, a \in Agents, c \in Archives : ~CreateUpload(o, a, c),
               \A r \in Callers : ~AcceptSource(r)
        PROVE  UNCHANGED source
    BY <2>3, ZenonT(30) DEF SourceNext, CreateAgent, LoadAgent, UpdateAgent, PostForm, FormExpires, LoadSource, HeadSource,
                RejectSource, SourceGone, CreateVersion, CreateBuild, RunBuild
  <2>. QED  BY <2>1, <2>2, <2>3
<1>. QED  BY <1>1, SourceInvariance, PTL DEF SourceSpec, AvailableSourceIsFixed

-----------------------------------------------------------------------------
(***************************************************************************)
(* Sessions and API keys, for any number of accounts, organizations,       *)
(* clients and idempotency keys.                                           *)
(*                                                                         *)
(* Sessions: a request that was authenticated before a logout commits      *)
(* after it, but writes only the columns it changed, and what it changed   *)
(* it bounded by the absolute expiry of the row it read.  The invariant    *)
(* says that this is the absolute expiry the row still has.                *)
(*                                                                         *)
(* Keys: every API key and every answer goes back to an idempotency        *)
(* record, and records have unique scopes.                                 *)
(***************************************************************************)

SessionOK(x) ==
    /\ x = [user |-> x.user, seen |-> x.seen, idle |-> x.idle,
            absolute |-> x.absolute, revoked |-> x.revoked]
    /\ x.user \in Emails /\ x.seen \in Int /\ x.idle \in Int /\ x.absolute \in Int
    /\ x.revoked \in BOOLEAN
    /\ x.idle <= x.absolute

KeyOK(k) ==
    k = [org |-> k.org, user |-> k.user, idem |-> k.idem, env |-> k.env,
         scopes |-> k.scopes, revoked |-> k.revoked]

\* What a request knows of the session it was authenticated with
ClientOK(c) ==
    \/ c.op = "none"
    \/ c.op = "login" /\ c.user \in Emails
    \/ /\ c = [op |-> c.op, user |-> c.user, session |-> c.session, row |-> c.row,
               at |-> c.at, org |-> c.org, member |-> c.member, read |-> c.read]
       /\ c.op \in {"read", "logout", "organization", "project", "key", "revoke", "role", "insert"}
       /\ c.op = "insert" => KeyOK(c.read)
       /\ c.session # Null =>
             /\ c.session \in Sessions /\ session[c.session] # Null
             /\ c.at \in Nat /\ SessionOK(c.row)
             /\ c.row.absolute = session[c.session].absolute

SessionInv ==
    /\ clock \in Nat
    /\ session = [s \in Sessions |-> session[s]]
    /\ call = [c \in Clients |-> call[c]]
    /\ \A s \in Sessions : session[s] # Null => SessionOK(session[s])
    /\ \A c \in Clients : ClientOK(call[c])

\* Every key and every answer has its idempotency record.
KeyInv ==
    /\ \A j, k \in issued : Scope(j) = Scope(k) => j = k
    /\ \A k \in apiKey : KeyOK(k) /\ \E j \in issued : Scope(j) = Scope(k)
    /\ \A a \in answered : \E j \in issued : a = <<Scope(j), KeyId(j)>>
    /\ \A j, k \in apiKey : Scope(j) = Scope(k) => j = k

IdentityInv == SessionInv /\ KeyInv

\* What a step may do to the sessions
SessionsKept ==
    /\ session' = [s \in Sessions |-> session'[s]]
    /\ \A s \in Sessions : session[s] # Null =>
          /\ session'[s] # Null
          /\ session'[s].absolute = session[s].absolute
          /\ session[s].revoked => session'[s].revoked
    /\ \A s \in Sessions : session'[s] # Null => SessionOK(session'[s])

-----------------------------------------------------------------------------
\* A session row is not the absent row.
LEMMA RowIsPresent == \A x : SessionOK(x) => x # Null
<1>1. \A x : SessionOK(x) => x \in [user : Emails, seen : Int, idle : Int, absolute : Int, revoked : BOOLEAN]
  BY Zenon DEF SessionOK
<1>. QED  BY <1>1, SessionAssumption

\* Writing columns of a row
LEMMA RowWritten ==
  ASSUME NEW x, NEW u, NEW m, NEW d, NEW a, NEW r, NEW n, NEW i,
         x = [user |-> u, seen |-> m, idle |-> d, absolute |-> a, revoked |-> r]
  PROVE  /\ [x EXCEPT !.seen = n, !.idle = i]
              = [user |-> u, seen |-> n, idle |-> i, absolute |-> a, revoked |-> r]
         /\ [x EXCEPT !.seen = n, !.idle = i, !.revoked = TRUE]
              = [user |-> u, seen |-> n, idle |-> i, absolute |-> a, revoked |-> TRUE]
<1>1. ASSUME NEW y, y = [x EXCEPT !.seen = n, !.idle = i]
      PROVE  y = [user |-> u, seen |-> n, idle |-> i, absolute |-> a, revoked |-> r]
  BY <1>1, Zenon
<1>2. ASSUME NEW y, y = [x EXCEPT !.seen = n, !.idle = i, !.revoked = TRUE]
      PROVE  y = [user |-> u, seen |-> n, idle |-> i, absolute |-> a, revoked |-> TRUE]
  BY <1>2, Zenon
<1>. QED  BY <1>1, <1>2, Zenon

\* What a request may have recorded of its session's activity
LEMMA RefreshedOK ==
  ASSUME NEW x, SessionOK(x), NEW t \in Nat
  PROVE  Refreshed(x, t).seen \in Int /\ Refreshed(x, t).idle \in Int /\ Refreshed(x, t).idle <= x.absolute
<1>. DEFINE i == IF t + IdleTicks < x.absolute THEN t + IdleTicks ELSE x.absolute
            y == [x EXCEPT !.seen = t, !.idle = i]
<1>1. x.absolute \in Int /\ i \in Int /\ i <= x.absolute
  BY SessionAssumption DEF SessionOK
<1>2. ASSUME NEW u, NEW m, NEW d, NEW a, NEW r, NEW j, x = [user |-> u, seen |-> m, idle |-> d, absolute |-> a, revoked |-> r],
             NEW z, z = [x EXCEPT !.seen = t, !.idle = j]
      PROVE  z.seen = t /\ z.idle = j
  BY <1>2
<1>. HIDE DEF i
<1>3. y.seen = t /\ y.idle = i
  BY <1>2, Zenon DEF SessionOK
<1>4. Refreshed(x, t) \in {x, y}
  BY Zenon DEF Refreshed, i
<1>. HIDE DEF y
<1>. QED  BY <1>1, <1>3, <1>4 DEF SessionOK

\* A request with a session that writes the columns it changed, before or after a
\* logout; b says what happens to revoked_at.
LEMMA ColumnsWritten ==
  ASSUME SessionInv, NEW c \in Clients, call[c].op \notin {"none", "login"}, call[c].session # Null,
         NEW y, NEW s, s = call[c].session,
         LET new == Refreshed(call[c].row, call[c].at)
             n == IF new.seen # call[c].row.seen THEN new.seen ELSE session[s].seen
             i == IF new.idle # call[c].row.idle THEN new.idle ELSE session[s].idle
         IN  \/ y = [session[s] EXCEPT !.seen = n, !.idle = i]
             \/ y = [session[s] EXCEPT !.seen = n, !.idle = i, !.revoked = TRUE],
         session' = [session EXCEPT ![s] = y]
  PROVE  SessionsKept
<1>. DEFINE new == Refreshed(call[c].row, call[c].at)
            n == IF new.seen # call[c].row.seen THEN new.seen ELSE session[s].seen
            i == IF new.idle # call[c].row.idle THEN new.idle ELSE session[s].idle
<1>1. /\ s \in Sessions /\ session[s] # Null /\ call[c].at \in Nat /\ SessionOK(call[c].row)
      /\ call[c].row.absolute = session[s].absolute /\ SessionOK(session[s])
  BY DEF SessionInv, ClientOK
<1>2. new.seen \in Int /\ new.idle \in Int /\ new.idle <= session[s].absolute
  BY <1>1, RefreshedOK, Zenon
<1>3. n \in Int /\ i \in Int /\ i <= session[s].absolute
  BY <1>1, <1>2 DEF SessionOK
<1>. HIDE DEF n, i
<1>4. SessionOK(y) /\ y.absolute = session[s].absolute /\ (session[s].revoked => y.revoked)
  <2>1. CASE y = [session[s] EXCEPT !.seen = n, !.idle = i]
    <3>1. y = [user |-> session[s].user, seen |-> n, idle |-> i,
               absolute |-> session[s].absolute, revoked |-> session[s].revoked]
      BY <1>1, <2>1, RowWritten, ZenonT(30) DEF SessionOK
    <3>. QED  BY <1>1, <1>3, <3>1 DEF SessionOK
  <2>2. CASE y = [session[s] EXCEPT !.seen = n, !.idle = i, !.revoked = TRUE]
    <3>1. y = [user |-> session[s].user, seen |-> n, idle |-> i,
               absolute |-> session[s].absolute, revoked |-> TRUE]
      BY <1>1, <2>2, RowWritten, Zenon DEF SessionOK
    <3>. QED  BY <1>1, <1>3, <3>1 DEF SessionOK
  <2>. QED  BY <2>1, <2>2, Zenon DEF n, i
<1>5. y # Null
  BY <1>4, RowIsPresent
<1>. QED  BY <1>1, <1>4, <1>5, Zenon DEF SessionsKept, SessionInv

\* TouchSession keeps revoked_at and the absolute expiry.
LEMMA TouchOK ==
  ASSUME SessionInv, NEW c \in Clients, call[c].op \notin {"none", "login"}, TouchSession(c)
  PROVE  SessionsKept
<1>1. CASE call[c].session = Null
  <2>1. session' = session
    BY <1>1 DEF TouchSession
  <2>. QED  BY <2>1 DEF SessionsKept, SessionInv
<1>2. CASE call[c].session # Null
  <2>. DEFINE s == call[c].session
              new == Refreshed(call[c].row, call[c].at)
              y == [session[s] EXCEPT
                      !.seen = IF new.seen # call[c].row.seen THEN new.seen ELSE session[s].seen,
                      !.idle = IF new.idle # call[c].row.idle THEN new.idle ELSE session[s].idle]
  <2>1. session' = [session EXCEPT ![s] = y]
    BY <1>2, Zenon DEF TouchSession
  <2>. QED  BY <1>2, <2>1, ColumnsWritten, ZenonT(30)
<1>. QED  BY <1>1, <1>2

\* A new session takes an absent row.
LEMMA NewSessionOK ==
  ASSUME SessionInv, NEW s \in Sessions, session[s] = Null, NEW e \in Emails,
         session' = [session EXCEPT ![s] = NewSession(e, clock)]
  PROVE  SessionsKept
<1>1. SessionOK(NewSession(e, clock))
  BY SessionAssumption DEF SessionInv, NewSession, SessionOK
<1>. HIDE DEF NewSession
<1>. QED  BY <1>1 DEF SessionsKept, SessionInv

\* Requests keep what they know when sessions are kept.
LEMMA CallsKept ==
  ASSUME SessionInv, SessionsKept
  PROVE  \A c : ClientOK(c) => ClientOK(c)'
BY DEF ClientOK, SessionsKept

\* Steps that keep the sessions and change at most one call
LEMMA SessionStep ==
  ASSUME SessionInv, SessionsKept, clock' \in Nat, NEW c \in Clients,
         call' = [d \in Clients |-> call'[d]], \A d \in Clients \ {c} : call'[d] = call[d],
         call'[c] = call[c] \/ ClientOK(call[c])'
  PROVE  SessionInv'
<1>1. \A d : ClientOK(d) => ClientOK(d)'
  BY CallsKept, Zenon
<1>2. \A d \in Clients : ClientOK(call[d])'
  BY <1>1 DEF SessionInv, ClientOK
<1>. QED  BY <1>2 DEF SessionInv, SessionsKept

\* A call that ends keeps the invariant.
LEMMA DoneStep ==
  ASSUME SessionInv, SessionsKept, clock' \in Nat, NEW c \in Clients, Done(c)
  PROVE  SessionInv'
<1>1. /\ call' = [d \in Clients |-> call'[d]] /\ \A d \in Clients \ {c} : call'[d] = call[d]
      /\ call'[c] = Waiting
  BY DEF Done, SessionInv
<1>2. ClientOK(call[c])'
  BY <1>1 DEF ClientOK, Waiting
<1>. QED  BY <1>1, <1>2, SessionStep

\* A step that writes no session keeps them.
LEMMA SameSessions == SessionInv /\ session' = session => SessionsKept
BY DEF SessionInv, SessionsKept

\* Every step keeps the sessions and what requests know of them.
LEMMA SessionNextOK == SessionInv /\ IdentityNext => SessionInv' /\ SessionsKept
<1> SUFFICES ASSUME SessionInv, IdentityNext  PROVE SessionInv' /\ SessionsKept
  OBVIOUS
<1>1. ASSUME TimePasses  PROVE SessionInv' /\ SessionsKept
  BY <1>1, SameSessions DEF TimePasses, SessionInv, ClientOK
<1>2. ASSUME NEW e \in Emails, NEW g \in OrgSlugs, NEW s \in Sessions, Register(e, g, s)
      PROVE  SessionInv' /\ SessionsKept
  <2>1. SessionsKept
    BY <1>2, NewSessionOK, Zenon DEF Register
  <2>2. \A c : ClientOK(c) => ClientOK(c)'
    BY <2>1, CallsKept
  <2>. QED  BY <1>2, <2>1, <2>2 DEF Register, SessionInv, SessionsKept, ClientOK
<1>3. ASSUME NEW c \in Clients, NEW e \in Emails, NEW ok \in BOOLEAN, ReadAccount(c, e, ok)
      PROVE  SessionInv' /\ SessionsKept
  <2>1. SessionsKept /\ clock' \in Nat
    BY <1>3, SameSessions DEF ReadAccount, SessionInv
  <2>2. /\ call' = [d \in Clients |-> call'[d]] /\ \A d \in Clients \ {c} : call'[d] = call[d]
        /\ call'[c].op = "login" /\ call'[c].user = e
    BY <1>3 DEF ReadAccount, SessionInv
  <2>3. ClientOK(call[c])'
    BY <2>2 DEF ClientOK
  <2>. QED  BY <2>1, <2>2, <2>3, SessionStep
<1>4. ASSUME NEW c \in Clients, FailLogin(c)  PROVE SessionInv' /\ SessionsKept
  BY <1>4, SameSessions, DoneStep DEF FailLogin, SessionInv
<1>5. ASSUME NEW c \in Clients, NEW s \in Sessions, SucceedLogin(c, s)  PROVE SessionInv' /\ SessionsKept
  <2>1. call[c].user \in Emails /\ session[s] = Null /\ clock' = clock /\ Done(c)
    BY <1>5 DEF SucceedLogin, SessionInv, ClientOK
  <2>2. session' = [session EXCEPT ![s] = NewSession(call[c].user, clock)]
    BY <1>5 DEF SucceedLogin
  <2>. QED  BY <2>1, <2>2, NewSessionOK, DoneStep DEF SessionInv
<1>6. ASSUME NEW c \in Clients, NEW s \in Sessions, NEW g \in OrgSlugs,
             NEW op \in {"read", "logout", "organization", "project", "key", "revoke", "role"},
             BySession(c, s, op, g)
      PROVE  SessionInv' /\ SessionsKept
  <2>1. SessionsKept /\ clock' \in Nat /\ session' = session
    BY <1>6, SameSessions DEF BySession, SessionInv
  <2>2. /\ call' = [d \in Clients |-> call'[d]] /\ \A d \in Clients \ {c} : call'[d] = call[d]
        /\ call'[c] = [op |-> op, user |-> session[s].user, session |-> s, row |-> session[s], at |-> clock,
                       org |-> g, member |-> org[g], read |-> Null]
    BY <1>6 DEF BySession, SessionInv
  <2>3. session[s] # Null /\ SessionOK(session[s])
    BY <1>6, Zenon DEF BySession, Accepted, SessionInv
  <2>4. ClientOK(call[c])'
    BY <2>1, <2>2, <2>3 DEF ClientOK, SessionInv, SessionOK
  <2>. QED  BY <2>1, <2>2, <2>4, SessionStep
<1>7. ASSUME NEW c \in Clients, NEW k \in apiKey, NEW op \in {"read", "project"}, ByApiKey(c, k, op)
      PROVE  SessionInv' /\ SessionsKept
  <2>1. SessionsKept /\ clock' \in Nat
    BY <1>7, SameSessions DEF ByApiKey, SessionInv
  <2>2. /\ call' = [d \in Clients |-> call'[d]] /\ \A d \in Clients \ {c} : call'[d] = call[d]
        /\ call'[c] = [op |-> op, user |-> k.user, session |-> Null, row |-> Null, at |-> clock,
                       org |-> k.org, member |-> org[k.org], read |-> Null]
    BY <1>7 DEF ByApiKey, SessionInv
  <2>3. ClientOK(call[c])'
    BY <2>2 DEF ClientOK
  <2>. QED  BY <2>1, <2>2, <2>3, SessionStep
<1>8. ASSUME NEW c \in Clients, Done(c), clock' = clock, call[c].op \notin {"none", "login"},
             TouchSession(c) \/ session' = session
      PROVE  SessionInv' /\ SessionsKept
  BY <1>8, TouchOK, SameSessions, DoneStep, Zenon DEF SessionInv
<1>9. ASSUME NEW c \in Clients, Read(c)  PROVE SessionInv' /\ SessionsKept
  BY <1>8, <1>9 DEF Read
<1>10. ASSUME NEW c \in Clients, Logout(c)  PROVE SessionInv' /\ SessionsKept
  <2>. DEFINE s == call[c].session
              new == Refreshed(call[c].row, call[c].at)
              y == [session[s] EXCEPT
                      !.seen = IF new.seen # call[c].row.seen THEN new.seen ELSE session[s].seen,
                      !.idle = IF new.idle # call[c].row.idle THEN new.idle ELSE session[s].idle,
                      !.revoked = TRUE]
  <2>1. session' = [session EXCEPT ![s] = y] /\ s # Null /\ call[c].op = "logout" /\ Done(c) /\ clock' = clock
    BY <1>10, ZenonT(30) DEF Logout
  <2>2. SessionsKept
    BY <2>1, ColumnsWritten, Zenon
  <2>. QED  BY <2>1, <2>2, DoneStep, ZenonT(30) DEF SessionInv
<1>11. ASSUME NEW c \in Clients, CreateOrganization(c)  PROVE SessionInv' /\ SessionsKept
  BY <1>8, <1>11 DEF CreateOrganization
<1>12. ASSUME NEW c \in Clients, NEW q \in ProjectSlugs, CreateProject(c, q)  PROVE SessionInv' /\ SessionsKept
  BY <1>8, <1>12 DEF CreateProject
<1>13. ASSUME NEW c \in Clients, NEW role, NEW n, UpdateRole(c, role, n)  PROVE SessionInv' /\ SessionsKept
  BY <1>8, <1>13 DEF UpdateRole
<1>14. ASSUME NEW c \in Clients, NEW i \in IdemKeys, NEW env \in Environments, FindKeyRecord(c, i, env)
       PROVE  SessionInv' /\ SessionsKept
  <2>. DEFINE wanted == NewKey(c, i, env)
  <2>1. clock' = clock /\ call[c].op = "key"
    BY <1>14 DEF FindKeyRecord
  <2>2. CASE Done(c) /\ (TouchSession(c) \/ session' = session)
    BY <1>8, <2>1, <2>2
  <2>3. CASE /\ call' = [call EXCEPT ![c].op = "insert", ![c].read = wanted]
             /\ session' = session
    <3>1. KeyOK(wanted)
      BY DEF NewKey, KeyOK
    <3>. HIDE DEF wanted
    <3>2. ASSUME NEW x, NEW o, NEW u, NEW s, NEW w, NEW t, NEW g, NEW m, NEW r, NEW y,
                 x = [op |-> o, user |-> u, session |-> s, row |-> w, at |-> t, org |-> g, member |-> m, read |-> r],
                 y = [x EXCEPT !.op = "insert", !.read = wanted]
          PROVE  y = [op |-> "insert", user |-> u, session |-> s, row |-> w, at |-> t, org |-> g,
                      member |-> m, read |-> wanted]
      BY <3>2, Zenon
    <3>3. /\ call' = [d \in Clients |-> call'[d]] /\ \A d \in Clients \ {c} : call'[d] = call[d]
          /\ call'[c] = [call[c] EXCEPT !.op = "insert", !.read = wanted]
      BY <2>3 DEF SessionInv
    <3>4. /\ call[c] = [op |-> call[c].op, user |-> call[c].user, session |-> call[c].session, row |-> call[c].row,
                        at |-> call[c].at, org |-> call[c].org, member |-> call[c].member, read |-> call[c].read]
          /\ call[c].session # Null =>
               /\ call[c].session \in Sessions /\ session[call[c].session] # Null
               /\ call[c].at \in Nat /\ SessionOK(call[c].row)
               /\ call[c].row.absolute = session[call[c].session].absolute
      BY <2>1 DEF SessionInv, ClientOK
    <3>5. call'[c] = [op |-> "insert", user |-> call[c].user, session |-> call[c].session, row |-> call[c].row,
                      at |-> call[c].at, org |-> call[c].org, member |-> call[c].member, read |-> wanted]
      BY <3>2, <3>3, <3>4, Zenon
    <3>6. ClientOK(call[c])'
      <4>1. /\ call'[c].op = "insert" /\ call'[c].user = call[c].user /\ call'[c].session = call[c].session
            /\ call'[c].row = call[c].row /\ call'[c].at = call[c].at /\ call'[c].org = call[c].org
            /\ call'[c].member = call[c].member /\ call'[c].read = wanted
        BY <3>5
      <4>2. KeyOK(call[c].read)' /\ SessionOK(call[c].row)' = SessionOK(call[c].row)
        BY <3>1, <4>1, Zenon DEF KeyOK, SessionOK
      <4>. QED  BY <2>3, <3>4, <3>5, <4>1, <4>2, ZenonT(30) DEF ClientOK
    <3>. QED  BY <2>1, <2>3, <3>3, <3>6, SameSessions, SessionStep DEF SessionInv
  <2>. QED  BY <1>14, <2>2, <2>3 DEF FindKeyRecord
<1>15. ASSUME NEW c \in Clients, InsertKey(c)  PROVE SessionInv' /\ SessionsKept
  BY <1>8, <1>15 DEF InsertKey
<1>16. ASSUME NEW c \in Clients, NEW k \in apiKey, RevokeKey(c, k)  PROVE SessionInv' /\ SessionsKept
  BY <1>8, <1>16 DEF RevokeKey
<1>. QED  BY <1>1, <1>2, <1>3, <1>4, <1>5, <1>6, <1>7, <1>9, <1>10, <1>11, <1>12, <1>13, <1>14, <1>15, <1>16
          DEF IdentityNext

-----------------------------------------------------------------------------
\* Every step that issues, answers or revokes a key keeps the records unique.
LEMMA KeyNextOK == SessionInv /\ KeyInv /\ IdentityNext => KeyInv'
<1> SUFFICES ASSUME SessionInv, KeyInv, IdentityNext  PROVE KeyInv'
  OBVIOUS
<1>1. ASSUME NEW c \in Clients, NEW i \in IdemKeys, NEW env \in Environments, FindKeyRecord(c, i, env)
      PROVE  KeyInv'
  <2>1. UNCHANGED <<apiKey, issued>>
    BY <1>1 DEF FindKeyRecord
  <2>2. \A a \in answered' : a \in answered \/ \E j \in issued : a = <<Scope(j), KeyId(j)>>
    BY <1>1 DEF FindKeyRecord
  <2>. QED  BY <2>1, <2>2 DEF KeyInv
<1>2. ASSUME NEW c \in Clients, InsertKey(c)  PROVE KeyInv'
  <2>. DEFINE k == call[c].read
  <2>1. KeyOK(k)
    BY <1>2 DEF InsertKey, SessionInv, ClientOK
  <2>2. CASE Unissued(k)
    <3>1. /\ apiKey' = apiKey \cup {k} /\ issued' = issued \cup {k}
          /\ answered' = answered \cup {<<Scope(k), KeyId(k)>>}
          /\ \A j \in issued : Scope(j) # Scope(k)
      BY <1>2, <2>2 DEF InsertKey, Unissued
    <3>. HIDE DEF k
    <3>. QED  BY <2>1, <3>1 DEF KeyInv
  <2>3. CASE ~Unissued(k)
    BY <1>2, <2>3 DEF InsertKey, KeyInv
  <2>. QED  BY <2>2, <2>3
<1>3. ASSUME NEW c \in Clients, NEW k \in apiKey, RevokeKey(c, k)  PROVE KeyInv'
  <2>. DEFINE new == [k EXCEPT !.revoked = TRUE]
  <2>1. UNCHANGED <<issued, answered>> /\ apiKey' = (apiKey \ {k}) \cup {new}
    BY <1>3 DEF RevokeKey
  <2>2. KeyOK(new) /\ Scope(new) = Scope(k)
    <3>1. ASSUME NEW x, NEW o, NEW u, NEW i, NEW e, NEW s, NEW r,
                 x = [org |-> o, user |-> u, idem |-> i, env |-> e, scopes |-> s, revoked |-> r]
          PROVE  [x EXCEPT !.revoked = TRUE]
                   = [org |-> o, user |-> u, idem |-> i, env |-> e, scopes |-> s, revoked |-> TRUE]
      <4>1. ASSUME NEW y, y = [x EXCEPT !.revoked = TRUE]
            PROVE  y = [org |-> o, user |-> u, idem |-> i, env |-> e, scopes |-> s, revoked |-> TRUE]
        BY <3>1, <4>1, Zenon
      <4>. QED  BY <4>1, Zenon
    <3>2. new = [org |-> k.org, user |-> k.user, idem |-> k.idem, env |-> k.env, scopes |-> k.scopes, revoked |-> TRUE]
      <4>1. k = [org |-> k.org, user |-> k.user, idem |-> k.idem, env |-> k.env, scopes |-> k.scopes, revoked |-> k.revoked]
        BY DEF KeyInv, KeyOK
      <4>. QED  BY <3>1, <4>1
    <3>. HIDE DEF new
    <3>. QED  BY <3>2 DEF KeyOK, Scope
  <2>. HIDE DEF new
  <2>. QED  BY <2>1, <2>2 DEF KeyInv
<1>4. ASSUME UNCHANGED <<apiKey, issued, answered>>  PROVE KeyInv'
  BY <1>4 DEF KeyInv
<1>. QED  BY <1>1, <1>2, <1>3, <1>4, ZenonT(30)
          DEF IdentityNext, TimePasses, Register, ReadAccount, FailLogin, SucceedLogin, BySession, ByApiKey, Read,
              Logout, CreateOrganization, CreateProject, UpdateRole

-----------------------------------------------------------------------------
\* Sessions keep their absolute expiry and requests know it; keys and answers have their
\* idempotency record.
THEOREM IdentityInvariance == IdentitySpec => []IdentityInv
<1>1. IdentityInit => IdentityInv
  BY DEF IdentityInit, IdentityInv, SessionInv, KeyInv, ClientOK, Waiting
<1>2. IdentityInv /\ [IdentityNext]_identityVars => IdentityInv'
  <2>1. IdentityInv /\ UNCHANGED identityVars => IdentityInv'
    BY DEF identityVars, IdentityInv, SessionInv, KeyInv, ClientOK
  <2>. QED  BY <2>1, SessionNextOK, KeyNextOK, Zenon DEF IdentityInv
<1>. QED  BY <1>1, <1>2, PTL DEF IdentitySpec

\* A revoked session stays revoked and none outlives its absolute expiry, whatever
\* requests were in flight at the logout (revoke_session, resolve_auth_context).
THEOREM FinalLogout == IdentitySpec => LogoutIsFinal
<1>. DEFINE Final == \A s \in Sessions : session[s] # Null =>
                       /\ session[s].revoked => session'[s].revoked
                       /\ session'[s].absolute = session[s].absolute
                       /\ session'[s].idle <= session[s].absolute
<1>1. IdentityInv /\ [IdentityNext]_identityVars => [Final]_identityVars
  <2>1. IdentityInv /\ IdentityNext => SessionsKept
    BY SessionNextOK DEF IdentityInv
  <2>2. SessionsKept => Final
    BY DEF SessionsKept, SessionOK
  <2>. QED  BY <2>1, <2>2
<1>. QED  BY <1>1, IdentityInvariance, PTL DEF IdentitySpec, LogoutIsFinal

\* An idempotency key issues one API key and all its answers name it (create_api_key).
THEOREM OneKey == IdentitySpec => []KeyIssuedOnce
<1>1. IdentityInv => KeyIssuedOnce
  <2> SUFFICES ASSUME IdentityInv  PROVE KeyIssuedOnce
    OBVIOUS
  <2>1. ASSUME NEW a \in answered, NEW b \in answered, a[1] = b[1]  PROVE a = b
    <3>1. PICK i \in issued : a = <<Scope(i), KeyId(i)>>
      BY DEF IdentityInv, KeyInv
    <3>2. PICK j \in issued : b = <<Scope(j), KeyId(j)>>
      BY DEF IdentityInv, KeyInv
    <3>3. Scope(i) = Scope(j)
      BY <2>1, <3>1, <3>2
    <3>. QED  BY <3>1, <3>2, <3>3 DEF IdentityInv, KeyInv
  <2>. QED  BY <2>1 DEF IdentityInv, KeyInv, KeyIssuedOnce
<1>. QED  BY <1>1, IdentityInvariance, PTL

-----------------------------------------------------------------------------
(***************************************************************************)
(* Egress policies, for any number of updates and Runs.  The invariant says *)
(* that nothing an open envelope request has checked can change under the  *)
(* locks it holds, although updates write from a policy they loaded earlier. *)
(***************************************************************************)

IsPolicy(p) == p = [status |-> p.status, active |-> p.active, version |-> p.version]

\* The active revision exists, and once there is one there always is.
PolicyOK ==
  /\ IsPolicy(policy)
  /\ policy.active \in 0..Len(revisions)
  /\ policy.status = "ACTIVE" => policy.active # 0
  /\ \A c \in Admins : IsPolicy(loadedBy[c]) /\ (loadedBy[c].active # 0 => policy.active # 0)

\* A revision that names the secret keeps it from being deleted.
CredentialKept ==
  /\ revisions \in Seq(BOOLEAN)
  /\ \A n \in 1..Len(revisions) : revisions[n] => credential # 0

BindingShape ==
  /\ loadedBy = [c \in Admins |-> loadedBy[c]]
  /\ binding = [r \in BoundRuns |-> binding[r]]
  /\ \A r \in BoundRuns : binding[r] = [at |-> binding[r].at, revision |-> binding[r].revision]
  /\ envelope = [r \in BoundRuns |-> envelope[r]]

\* Under the locks of an open envelope request nothing it has checked changes.
EnvelopeOK(r) ==
  envelope[r] # NoEnvelope =>
    /\ binding[r].at = "leased" /\ IsCurrent(r)
    /\ credential = envelope[r].version /\ credential # 0

PolicyInv ==
  /\ PolicyOK /\ CredentialKept /\ BindingShape
  /\ \A r \in BoundRuns : EnvelopeOK(r)

-----------------------------------------------------------------------------
LEMMA PolicyInitOK == PolicyInit => PolicyInv
<1> SUFFICES ASSUME PolicyInit PROVE PolicyInv
  OBVIOUS
<1>1. PolicyOK
  BY DEF PolicyInit, PolicyOK, IsPolicy, NoPolicy
<1>2. CredentialKept
  BY DEF PolicyInit, CredentialKept
<1>3. BindingShape
  BY DEF PolicyInit, BindingShape
<1>4. \A r \in BoundRuns : EnvelopeOK(r)
  BY DEF PolicyInit, EnvelopeOK
<1>. QED  BY <1>1, <1>2, <1>3, <1>4 DEF PolicyInv

\* What a flush leaves in each column
LEMMA FlushedColumns ==
  ASSUME IsPolicy(policy), NEW seen, NEW new
  PROVE  LET p == Flushed(seen, new)
         IN  /\ IsPolicy(p)
             /\ p.status = (IF new.status = seen.status THEN policy.status ELSE new.status)
             /\ p.active = (IF new.active = seen.active THEN policy.active ELSE new.active)
<1>1. DOMAIN policy = {"status", "active", "version"}
  BY DEF IsPolicy
<1>2. PICK p : p = Flushed(seen, new)
  OBVIOUS
<1>3. p = [x \in {"status", "active", "version"} |-> IF new[x] = seen[x] THEN policy[x] ELSE new[x]]
  BY <1>1, <1>2 DEF Flushed
<1>4. p = [status |-> p["status"], active |-> p["active"], version |-> p["version"]]
  BY <1>3
<1>. QED  BY <1>2, <1>3, <1>4 DEF IsPolicy

\* An update keeps an active revision.
LEMMA UpdateKeeps ==
  ASSUME PolicyInv, NEW c \in Admins, NEW new, Update(c, new),
         \/ /\ new.active = loadedBy[c].active
            /\ new.status = loadedBy[c].status \/ new.status = "DISABLED"
         \/ new.status = "ACTIVE" /\ new.active \in 1..Len(revisions),
         revisions' = revisions \/ \E named \in BOOLEAN : revisions' = Append(revisions, named)
  PROVE  PolicyOK'
<1>1. /\ IsPolicy(policy) /\ policy.active \in 0..Len(revisions) /\ revisions \in Seq(BOOLEAN)
      /\ policy.status = "ACTIVE" => policy.active # 0
      /\ \A d \in Admins : IsPolicy(loadedBy[d]) /\ (loadedBy[d].active # 0 => policy.active # 0)
  BY DEF PolicyInv, PolicyOK, CredentialKept
<1>2. PICK p : p = Flushed(loadedBy[c], new)
  BY Zenon
<1>3. /\ IsPolicy(p)
      /\ p.status = (IF new.status = loadedBy[c].status THEN policy.status ELSE new.status)
      /\ p.active = (IF new.active = loadedBy[c].active THEN policy.active ELSE new.active)
  BY <1>1, <1>2, FlushedColumns
<1>4. policy' = p /\ loadedBy' = [loadedBy EXCEPT ![c] = NoPolicy]
  BY <1>2, Zenon DEF Update
<1>5. Len(revisions) \in Nat /\ Len(revisions') \in Nat /\ Len(revisions) <= Len(revisions')
  BY <1>1
<1>6. p.active \in 0..Len(revisions) /\ (policy.active # 0 => p.active # 0)
  BY <1>1, <1>3, <1>5
<1>7. p.status = "ACTIVE" => p.active # 0
  BY <1>1, <1>3, <1>5
<1>8. \A d \in Admins : loadedBy'[d] = loadedBy[d] \/ loadedBy'[d] = NoPolicy
  BY <1>4 DEF PolicyInv, BindingShape
<1>9. IsPolicy(NoPolicy) /\ NoPolicy.active = 0
  BY DEF IsPolicy, NoPolicy
<1>10. \A d \in Admins : IsPolicy(loadedBy'[d]) /\ (loadedBy'[d].active # 0 => p.active # 0)
  BY <1>1, <1>6, <1>8, <1>9
<1>11. p.active \in 0..Len(revisions')
  BY <1>5, <1>6
<1>. QED  BY <1>3, <1>4, <1>7, <1>10, <1>11 DEF PolicyOK

\* No update of the policy is possible while an envelope is open.
LEMMA UpdateAlone ==
  ASSUME PolicyInv, NEW c \in Admins, NEW new, Update(c, new),
         revisions' = revisions \/ \E named \in BOOLEAN : Usable(named) /\ revisions' = Append(revisions, named)
  PROVE  CredentialKept' /\ BindingShape' /\ \A r \in BoundRuns : EnvelopeOK(r)'
<1>1. /\ loadedBy' = [loadedBy EXCEPT ![c] = NoPolicy] /\ UNCHANGED <<credential, binding, envelope>>
      /\ \A r \in BoundRuns : envelope[r] = NoEnvelope
  BY DEF Update, PolicyLocked
<1>2. BindingShape'
  BY <1>1, Zenon DEF PolicyInv, BindingShape
<1>3. CredentialKept'
  <2>1. CASE revisions' = revisions
    BY <1>1, <2>1 DEF PolicyInv, CredentialKept
  <2>2. ASSUME NEW named \in BOOLEAN, Usable(named), revisions' = Append(revisions, named)
        PROVE  CredentialKept'
    BY <1>1, <2>2 DEF PolicyInv, CredentialKept, Usable
  <2>. QED  BY <2>1, <2>2
<1>. QED  BY <1>1, <1>2, <1>3 DEF EnvelopeOK

LEMMA PolicyStepOK ==
  ASSUME PolicyInv, [PolicyNext]_policyVars PROVE PolicyInv'
<1> USE DEF PolicyInv
<1>1. CASE UNCHANGED policyVars
  BY <1>1 DEF policyVars, PolicyOK, CredentialKept, BindingShape, EnvelopeOK, IsCurrent
<1>2. CASE CreateSecret
  BY <1>2 DEF CreateSecret, PolicyOK, CredentialKept, BindingShape, EnvelopeOK
<1>3. CASE ReplaceSecret
  <2>1. UNCHANGED <<policy, revisions, loadedBy, binding, envelope>> /\ credential' # 0
    BY <1>3 DEF ReplaceSecret
  <2>2. \A r \in BoundRuns : envelope[r] = NoEnvelope
    BY <1>3 DEF ReplaceSecret, SecretLocked
  <2>. QED  BY <2>1, <2>2, Zenon DEF PolicyOK, CredentialKept, BindingShape, EnvelopeOK
<1>4. CASE DeleteSecret
  <2>1. /\ UNCHANGED <<policy, revisions, loadedBy, binding, envelope>>
        /\ \A n \in 1..Len(revisions) : ~revisions[n]
        /\ \A r \in BoundRuns : envelope[r] = NoEnvelope
    BY <1>4 DEF DeleteSecret, SecretLocked
  <2>. QED  BY <2>1 DEF PolicyOK, CredentialKept, BindingShape, EnvelopeOK
<1>5. ASSUME NEW named \in BOOLEAN, CreatePolicy(named) PROVE PolicyInv'
  <2>1. /\ policy = NoPolicy /\ policy' = [status |-> "DRAFT", active |-> 0, version |-> 1]
        /\ revisions' = <<named>> /\ (named => credential # 0)
        /\ UNCHANGED <<credential, loadedBy, binding, envelope>>
    BY <1>5 DEF CreatePolicy, Usable
  <2>2. PolicyOK'
    <3>1. policy.active = 0 /\ policy'.active = 0 /\ policy'.status = "DRAFT" /\ IsPolicy(policy')
      BY <2>1 DEF NoPolicy, IsPolicy
    <3>2. \A c \in Admins : IsPolicy(loadedBy[c]) /\ loadedBy[c].active = 0
      BY <3>1 DEF PolicyOK
    <3>3. Len(revisions') \in Nat
      BY <2>1
    <3>. QED  BY <2>1, <3>1, <3>2, <3>3 DEF PolicyOK
  <2>3. CredentialKept'
    BY <2>1 DEF CredentialKept
  <2>4. \A r \in BoundRuns : envelope[r] = NoEnvelope
    BY <2>1 DEF EnvelopeOK, IsCurrent, NoPolicy
  <2>. QED  BY <2>1, <2>2, <2>3, <2>4 DEF BindingShape, EnvelopeOK
<1>6. ASSUME NEW c \in Admins, Load(c) \/ Leave(c) PROVE PolicyInv'
  <2>1. /\ UNCHANGED <<policy, revisions, credential, binding, envelope>>
        /\ loadedBy' = [loadedBy EXCEPT ![c] = loadedBy'[c]]
        /\ loadedBy'[c] = policy \/ loadedBy'[c] = NoPolicy
    BY <1>6 DEF Load, Leave, BindingShape
  <2>2. \A d \in Admins : loadedBy'[d] = loadedBy[d] \/ loadedBy'[d] = policy \/ loadedBy'[d] = NoPolicy
    BY <2>1 DEF BindingShape
  <2>3. IsPolicy(NoPolicy) /\ NoPolicy.active = 0
    BY DEF IsPolicy, NoPolicy
  <2>4. PolicyOK'
    BY <2>1, <2>2, <2>3 DEF PolicyOK
  <2>5. BindingShape'
    BY <2>1 DEF BindingShape
  <2>. QED  BY <2>1, <2>4, <2>5 DEF CredentialKept, EnvelopeOK, IsCurrent
<1>7. ASSUME NEW c \in Admins, NEW named \in BOOLEAN, CreateRevision(c, named) PROVE PolicyInv'
  <2>1. PICK new : new = [loadedBy[c] EXCEPT !.version = @ + 1]
    BY Zenon
  <2>2. new.status = loadedBy[c].status /\ new.active = loadedBy[c].active
    BY <2>1 DEF PolicyOK, IsPolicy
  <2>3. Update(c, new) /\ Usable(named) /\ revisions' = Append(revisions, named)
    BY <1>7, <2>1 DEF CreateRevision
  <2>4. PolicyOK'
    BY <2>2, <2>3, UpdateKeeps
  <2>5. CredentialKept' /\ BindingShape' /\ \A r \in BoundRuns : EnvelopeOK(r)'
    BY <2>3, UpdateAlone
  <2>. QED  BY <2>4, <2>5
<1>8. ASSUME NEW c \in Admins, NEW n \in 1..Len(revisions), Activate(c, n) PROVE PolicyInv'
  <2>1. PICK new : new = [status |-> "ACTIVE", active |-> n, version |-> loadedBy[c].version + 1]
    BY ZenonT(30)
  <2>2. Update(c, new) /\ revisions' = revisions
    BY <1>8, <2>1, Zenon DEF Activate
  <2>3. new.status = "ACTIVE" /\ new.active \in 1..Len(revisions)
    BY <2>1, Zenon
  <2>4. PolicyOK'
    BY <2>2, <2>3, UpdateKeeps
  <2>5. CredentialKept' /\ BindingShape' /\ \A r \in BoundRuns : EnvelopeOK(r)'
    BY <2>2, UpdateAlone
  <2>. QED  BY <2>4, <2>5
<1>9. ASSUME NEW c \in Admins, Disable(c) PROVE PolicyInv'
  <2>1. PICK new : new = [loadedBy[c] EXCEPT !.status = "DISABLED", !.version = @ + 1]
    OBVIOUS
  <2>2. new.status = "DISABLED" /\ new.active = loadedBy[c].active
    BY <2>1 DEF PolicyOK, IsPolicy
  <2>3. Update(c, new) /\ revisions' = revisions
    BY <1>9, <2>1 DEF Disable
  <2>4. PolicyOK'
    BY <2>2, <2>3, UpdateKeeps
  <2>5. CredentialKept' /\ BindingShape' /\ \A r \in BoundRuns : EnvelopeOK(r)'
    BY <2>3, UpdateAlone
  <2>. QED  BY <2>4, <2>5
<1>10. ASSUME NEW r \in BoundRuns, BindRun(r) \/ Admit(r) \/ EndLease(r) PROVE PolicyInv'
  <2>1. /\ UNCHANGED <<policy, revisions, credential, loadedBy, envelope>> /\ envelope[r] = NoEnvelope
    BY <1>10 DEF BindRun, Admit, EndLease, PolicyLocked
  <2>0. ASSUME NEW at, binding' = [binding EXCEPT ![r].at = at]
        PROVE  binding' = [binding EXCEPT ![r] = [at |-> at, revision |-> binding[r].revision]]
    <3>1. PICK b : b = binding[r]
      OBVIOUS
    <3>2. b = [at |-> b.at, revision |-> b.revision]
      BY <3>1 DEF BindingShape
    <3>3. [b EXCEPT !.at = at] = [at |-> at, revision |-> b.revision]
      BY <3>2
    <3>4. binding' = [binding EXCEPT ![r] = [b EXCEPT !.at = at]]
      BY <2>0, <3>1, Zenon
    <3>. QED  BY <3>1, <3>3, <3>4, ZenonT(30)
  <2>2. PICK at, revision : binding' = [binding EXCEPT ![r] = [at |-> at, revision |-> revision]]
    <3>1. CASE BindRun(r)
      BY <3>1, Zenon DEF BindRun
    <3>2. CASE Admit(r)
      <4>1. PICK at : binding' = [binding EXCEPT ![r].at = at]
        BY <3>2, Zenon DEF Admit
      <4>. QED  BY <4>1, <2>0, Zenon
    <3>3. CASE EndLease(r)
      <4>1. binding' = [binding EXCEPT ![r].at = "ended"]
        BY <3>3 DEF EndLease
      <4>. QED  BY <4>1, <2>0, Zenon
    <3>. QED  BY <1>10, <3>1, <3>2, <3>3
  <2>3. BindingShape' /\ \A s \in BoundRuns : s # r => binding'[s] = binding[s]
    BY <2>1, <2>2, Zenon DEF BindingShape
  <2>4. \A s \in BoundRuns : EnvelopeOK(s)'
    BY <2>1, <2>3 DEF EnvelopeOK, IsCurrent
  <2>. QED  BY <2>1, <2>3, <2>4 DEF PolicyOK, CredentialKept
<1>11. ASSUME NEW r \in BoundRuns, NEW k, LockCredential(r, k) PROVE PolicyInv'
  <2>1. /\ UNCHANGED <<policy, revisions, credential, loadedBy, binding>>
        /\ binding[r].at = "leased" /\ IsCurrent(r) /\ revisions[binding[r].revision]
        /\ envelope' = [envelope EXCEPT ![r] = [key |-> k, version |-> credential]]
    BY <1>11, ZenonT(30) DEF LockCredential
  <2>2. binding[r].revision \in 1..Len(revisions)
    <3>1. policy.active = binding[r].revision /\ policy.active # 0
      BY <2>1, Zenon DEF IsCurrent, PolicyOK
    <3>2. policy.active \in 0..Len(revisions) /\ Len(revisions) \in Nat
      BY DEF PolicyOK, CredentialKept
    <3>. QED  BY <3>1, <3>2
  <2>3. credential # 0
    BY <2>1, <2>2 DEF CredentialKept
  <2>4. /\ BindingShape' /\ envelope'[r].version = credential
        /\ \A s \in BoundRuns : s # r => envelope'[s] = envelope[s]
    BY <2>1, Zenon DEF BindingShape
  <2>5. \A s \in BoundRuns : EnvelopeOK(s)'
    BY <2>1, <2>3, <2>4 DEF EnvelopeOK, IsCurrent
  <2>. QED  BY <2>1, <2>4, <2>5 DEF PolicyOK, CredentialKept
<1>12. ASSUME NEW r \in BoundRuns, HandOut(r) \/ RefuseEnvelope(r) PROVE PolicyInv'
  <2>1. /\ UNCHANGED <<policy, revisions, credential, loadedBy, binding>>
        /\ envelope' = [envelope EXCEPT ![r] = NoEnvelope]
    BY <1>12 DEF HandOut, RefuseEnvelope
  <2>2. BindingShape' /\ \A s \in BoundRuns : envelope'[s] = envelope[s] \/ envelope'[s] = NoEnvelope
    BY <2>1, Zenon DEF BindingShape
  <2>3. \A s \in BoundRuns : EnvelopeOK(s)'
    BY <2>1, <2>2, Zenon DEF EnvelopeOK, IsCurrent
  <2>. QED  BY <2>1, <2>2, <2>3, Zenon DEF PolicyOK, CredentialKept
<1>13. ASSUME NEW r \in BoundRuns, NEW f, ExpireGrant(r, f) PROVE PolicyInv'
  BY <1>13 DEF ExpireGrant, PolicyOK, CredentialKept, BindingShape, EnvelopeOK, IsCurrent
<1>. QED  BY <1>1, <1>2, <1>3, <1>4, <1>5, <1>6, <1>7, <1>8, <1>9, <1>10, <1>11, <1>12, <1>13, Zenon DEF PolicyNext

-----------------------------------------------------------------------------
\* The active revision of a policy exists, a secret that a revision names is not
\* deleted, and what an open envelope request has checked stays true until it answers.
THEOREM PolicyInvariance == PolicySpec => []PolicyInv
<1>1. PolicyInv /\ [PolicyNext]_policyVars => PolicyInv'
  BY PolicyStepOK
<1>. QED  BY <1>1, PolicyInitOK, PTL DEF PolicySpec

\* The locks of issue_egress_credential_envelope are enough: whatever updates,
\* activations and replacements run beside it, the Run is leased under the active
\* revision and the secret is the current one when the envelope is handed out.
THEOREM EligibleEnvelopes == PolicySpec => EnvelopesAreEligible
<1>1. ASSUME PolicyInv, NEW r \in BoundRuns, HandOut(r)
      PROVE  binding[r].at = "leased" /\ IsCurrent(r) /\ credential = envelope[r].version
  BY <1>1 DEF PolicyInv, EnvelopeOK, HandOut
<1>2. PolicyInv /\ [PolicyNext]_policyVars =>
        [\A r \in BoundRuns :
           HandOut(r) => /\ binding[r].at = "leased" /\ IsCurrent(r)
                         /\ credential = envelope[r].version]_policyVars
  BY <1>1
<1>. QED  BY <1>2, PolicyInvariance, PTL DEF PolicySpec, EnvelopesAreEligible
=============================================================================
