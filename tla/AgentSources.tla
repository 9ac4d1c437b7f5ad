----------------------------- MODULE AgentSources -----------------------------
(***************************************************************************)
(* Agents, their source archives, their immutable versions and the Builds  *)
(* made of them: services/agents.py, services/storage_delivery.py,         *)
(* create_build of services/builds_secrets.py, the object storage behind   *)
(* them and the source check of the build worker.                          *)
(*                                                                         *)
(* The hard part is that the bytes of an archive are not in the database.  *)
(* A client writes them into the bucket through a presigned form which     *)
(* stays usable until it expires, also after the upload was completed, and *)
(* each request sees the row it authorized against as it was before it     *)
(* waited for the row lock (SQLAlchemy's identity map is not refreshed by  *)
(* SELECT ... FOR UPDATE).                                                 *)
(*                                                                         *)
(* An archive is a record of what the properties tell apart: the slug and  *)
(* the semantic version its agent.json names and whether it passes the     *)
(* archive policy.  SHA-256 is taken to be injective, so an archive is its *)
(* own digest; every archive has the length the form demands.              *)
(***************************************************************************)
EXTENDS Integers, FiniteSets

CONSTANTS
    Agents,         \* Agent ids
    Slugs,          \* Agent slugs
    Objects,        \* storage object ids
    Archives,       \* records [slug, semver, safe]
    BuildKeys,      \* idempotency keys of build requests
    Callers,       \* requests that can be in flight together
    MaxRevision,    \* bound on Agent.version
    None            \* SQL NULL, and an absent row or object

VARIABLES
    agent,          \* control.agents: [slug, version], or None
    source,         \* control.storage_objects
    form,           \* the presigned upload form: "none", "live" or "expired"
    bucket,         \* the bytes under the object's key, or None
    release,        \* control.agent_versions
    build,          \* control.builds with its outbox row, by idempotency key
    request         \* the requests in flight

sourceVars == <<agent, source, form, bucket, release, build, request>>

(***************************************************************************)
(* Archives                                                                *)
(***************************************************************************)
Manifest(archive) == [slug |-> archive.slug, semver |-> archive.semver]

(* The archive policy: paths, sizes, special files and a valid agent.json  *)
(* are `safe'; the manifest must also name the Agent.                      *)
Inspected(archive, slug) == archive.safe /\ archive.slug = slug

(***************************************************************************)
(* Rows                                                                    *)
(***************************************************************************)
NoSource == [status |-> "none", agent |-> None, expected |-> None,
             digest |-> None, manifest |-> None]

IdleCall == [op |-> "idle"]

SourceInit ==
    /\ agent = [a \in Agents |-> None]
    /\ source = [o \in Objects |-> NoSource]
    /\ form = [o \in Objects |-> "none"]
    /\ bucket = [o \in Objects |-> None]
    /\ release = {}
    /\ build = [k \in BuildKeys |-> None]
    /\ request = [r \in Callers |-> IdleCall]

(* An open completion holds the row lock of its storage object from the    *)
(* SELECT ... FOR UPDATE until it commits or rolls back.                   *)
Locked(o) ==
    \E r \in Callers : request[r].op = "verify" /\ request[r].object = o

TakenSlug(slug, a) ==
    \E b \in Agents \ {a} : agent[b] # None /\ agent[b].slug = slug

Released(a) == {v \in release : v.agent = a}

(* Every request ends with its transaction; rolled back, it leaves no row. *)
EndCall(r) == request' = [request EXCEPT ![r] = IdleCall]

(***************************************************************************)
(* Agents                                                                  *)
(***************************************************************************)
CreateAgent(a, slug) ==
    /\ agent[a] = None
    /\ ~TakenSlug(slug, a)
    /\ agent' = [agent EXCEPT ![a] = [slug |-> slug, version |-> 1]]
    /\ UNCHANGED <<source, form, bucket, release, build, request>>

(* The permission check loads the Agent the handler goes on with.          *)
LoadAgent(r, a, op) ==
    /\ request[r] = IdleCall
    /\ agent[a] # None
    /\ request' = [request EXCEPT
          ![r] = [op |-> op, agent |-> a, seen |-> agent[a]]]
    /\ UNCHANGED <<agent, source, form, bucket, release, build>>

(* PATCH of an Agent with If-Match.  The lock does not refresh the row, so *)
(* the comparison and the new version number come from the one loaded.     *)
(* A slug equal to the loaded one is not written, and an update that       *)
(* supplies no field changes nothing.                                      *)
UpdateAgent(r, expected, slug) ==
    /\ request[r].op = "update"
    /\ LET a == request[r].agent
           seen == request[r].seen
           changes == slug # seen.slug
       IN /\ \/ /\ expected = seen.version
                /\ seen.version < MaxRevision
                /\ changes => ~TakenSlug(slug, a)
                /\ agent' = [agent EXCEPT
                      ![a].slug = IF changes THEN slug ELSE @,
                      ![a].version = seen.version + 1]
             \/ /\ \/ ~changes
                   \/ expected # seen.version
                   \/ TakenSlug(slug, a)
                /\ UNCHANGED agent
          /\ EndCall(r)
    /\ UNCHANGED <<source, form, bucket, release, build>>

(***************************************************************************)
(* Source uploads                                                          *)
(***************************************************************************)
(* The upload intent fixes the expected digest and issues the form.        *)
CreateUpload(o, a, archive) ==
    /\ source[o] = NoSource
    /\ agent[a] # None
    /\ source' = [source EXCEPT ![o] =
          [status |-> "PENDING_UPLOAD", agent |-> a, expected |-> archive,
           digest |-> None, manifest |-> None]]
    /\ form' = [form EXCEPT ![o] = "live"]
    /\ UNCHANGED <<agent, bucket, release, build, request>>

(* The client posts the form.  The store enforces the length, the media    *)
(* type and the metadata fields; it does not compare the bytes with the    *)
(* digest the metadata declares.                                           *)
PostForm(o, archive) ==
    /\ form[o] = "live"
    /\ bucket' = [bucket EXCEPT ![o] = archive]
    /\ UNCHANGED <<agent, source, form, release, build, request>>

FormExpires(o) ==
    /\ form[o] = "live"
    /\ form' = [form EXCEPT ![o] = "expired"]
    /\ UNCHANGED <<agent, source, bucket, release, build, request>>

(* The permission check of the completion loads the storage object.        *)
LoadSource(r, o) ==
    /\ request[r] = IdleCall
    /\ source[o] # NoSource
    /\ request' = [request EXCEPT
          ![r] = [op |-> "complete", object |-> o, seen |-> source[o]]]
    /\ UNCHANGED <<agent, source, form, bucket, release, build>>

(* Lock the row, look at the status loaded before, and HEAD the object: an *)
(* object that is already AVAILABLE is returned, one that is not uploaded  *)
(* is a conflict, and one with its metadata goes on to be read.            *)
HeadSource(r) ==
    /\ request[r].op = "complete"
    /\ ~Locked(request[r].object)
    /\ LET o == request[r].object
       IN \/ /\ request[r].seen.status = "AVAILABLE" \/ bucket[o] = None
             /\ EndCall(r)
          \/ /\ request[r].seen.status = "PENDING_UPLOAD" /\ bucket[o] # None
             /\ request' = [request EXCEPT ![r].op = "verify"]
    /\ UNCHANGED <<agent, source, form, bucket, release, build>>

\* Mutant: the digest of the bytes is not compared with the declared one.
VerifiedAnyDigest(o, seen) == Inspected(bucket[o], agent[seen.agent].slug)

(* The bytes are read again by GET.  They must have the expected digest    *)
(* and pass the inspection against the Agent's current slug.               *)
Verified(o, seen) ==
    /\ bucket[o] = seen.expected
    /\ Inspected(bucket[o], agent[seen.agent].slug)

AcceptSource(r) ==
    /\ request[r].op = "verify"
    /\ LET o == request[r].object
           seen == request[r].seen
       IN /\ bucket[o] # None
          /\ Verified(o, seen)
          /\ source' = [source EXCEPT
                ![o].status = "AVAILABLE",
                ![o].digest = bucket[o],
                ![o].manifest = Manifest(bucket[o])]
    /\ EndCall(r)
    /\ UNCHANGED <<agent, form, bucket, release, build>>

(* A failed verification sets REJECTED and a rejection code, deletes the   *)
(* object (an error of the store is suppressed) and raises ApiError.  The  *)
(* session dependency rolls the transaction back, so neither the mark nor  *)
(* the audit event is stored.                                              *)
RejectSource(r) ==
    /\ request[r].op = "verify"
    /\ LET o == request[r].object
       IN /\ bucket[o] # None
          /\ ~Verified(o, request[r].seen)
          /\ \/ bucket' = [bucket EXCEPT ![o] = None]
             \/ UNCHANGED bucket
    /\ EndCall(r)
    /\ UNCHANGED <<agent, source, form, release, build>>

(* Another completion deleted the object between HEAD and GET.             *)
SourceGone(r) ==
    /\ request[r].op = "verify"
    /\ bucket[request[r].object] = None
    /\ EndCall(r)
    /\ UNCHANGED <<agent, source, form, bucket, release, build>>

(***************************************************************************)
(* Agent versions and Builds                                               *)
(***************************************************************************)
(* A version links an available archive of the Agent nobody linked before, *)
(* under the next number.  The Agent row lock serializes the numbering;    *)
(* the slug compared with the manifest is the one loaded before the lock.  *)
Linkable(o, a, manifest) ==
    /\ source[o].status = "AVAILABLE"
    /\ source[o].agent = a
    /\ \A v \in release : v.source # o
    /\ source[o].manifest = manifest

CreateVersion(r, o, manifest) ==
    /\ request[r].op = "version"
    /\ ~Locked(o)
    /\ LET a == request[r].agent
           admitted == /\ manifest.slug = request[r].seen.slug
                       /\ \A v \in Released(a) : v.semver # manifest.semver
                       /\ Linkable(o, a, manifest)
       IN \/ /\ admitted
             /\ release' = release \cup
                   {[agent |-> a, number |-> Cardinality(Released(a)) + 1,
                     semver |-> manifest.semver, manifest |-> manifest,
                     source |-> o]}
          \/ ~admitted /\ UNCHANGED release
    /\ EndCall(r)
    /\ UNCHANGED <<agent, source, form, bucket, build>>

(* A Build request under its advisory lock.  A key that was used before    *)
(* answers with the stored snapshot, or with a conflict; a new one stores  *)
(* the Build and an outbox row with the digest of the source.              *)
CreateBuild(k, v) ==
    /\ build[k] = None
    /\ source[v.source].status = "AVAILABLE"
    /\ build' = [build EXCEPT ![k] =
          [version |-> v, digest |-> source[v.source].digest,
           status |-> "QUEUED", made |-> None]]
    /\ UNCHANGED <<agent, source, form, bucket, release, request>>

\* Mutant: the worker builds whatever bytes it downloaded.
SourceTrusted(o, digest) == bucket[o] # None

(* The build worker asks for a download grant, fetches the bytes and       *)
(* compares their digest with the one the lease carries; only then does it *)
(* extract and build them.                                                 *)
SourceMatches(o, digest) == bucket[o] = digest

RunBuild(k) ==
    /\ build[k] # None
    /\ build[k].status = "QUEUED"
    /\ LET o == build[k].version.source
       IN build' = IF SourceMatches(o, build[k].digest)
                   THEN [build EXCEPT ![k].status = "SUCCEEDED",
                                      ![k].made = bucket[o]]
                   ELSE [build EXCEPT ![k].status = "FAILED"]
    /\ UNCHANGED <<agent, source, form, bucket, release, request>>

SourceNext ==
    \/ \E a \in Agents, slug \in Slugs : CreateAgent(a, slug)
    \/ \E r \in Callers, a \in Agents, op \in {"update", "version"} :
          LoadAgent(r, a, op)
    \/ \E r \in Callers, n \in 1..MaxRevision, slug \in Slugs :
          UpdateAgent(r, n, slug)
    \/ \E o \in Objects, a \in Agents, c \in Archives : CreateUpload(o, a, c)
    \/ \E o \in Objects, c \in Archives : PostForm(o, c)
    \/ \E o \in Objects : FormExpires(o)
    \/ \E r \in Callers, o \in Objects : LoadSource(r, o)
    \/ \E r \in Callers : HeadSource(r)
    \/ \E r \in Callers : AcceptSource(r)
    \/ \E r \in Callers : RejectSource(r)
    \/ \E r \in Callers : SourceGone(r)
    \/ \E r \in Callers, o \in Objects, c \in Archives :
          CreateVersion(r, o, Manifest(c))
    \/ \E k \in BuildKeys, v \in release : CreateBuild(k, v)
    \/ \E k \in BuildKeys : RunBuild(k)

SourceSpec == SourceInit /\ [][SourceNext]_sourceVars

(***************************************************************************)
(* Properties                                                              *)
(***************************************************************************)
(* A Build that succeeded was made of an archive that passed the archive   *)
(* policy and whose agent.json is the manifest of its version, although    *)
(* the bucket may be overwritten through a form that is still live         *)
(* (complete_source_upload, create_agent_version, and the digest check of  *)
(* the build worker).                                                      *)
BuiltFromInspectedSource ==
    \A k \in BuildKeys :
        build[k] # None /\ build[k].status = "SUCCEEDED" =>
            /\ build[k].made.safe
            /\ Manifest(build[k].made) = build[k].version.manifest

(* Once an archive is AVAILABLE its recorded digest and manifest never     *)
(* change, although a second completion that loaded the row while it was   *)
(* PENDING_UPLOAD verifies and writes it again (complete_source_upload).   *)
AvailableSourceIsFixed ==
    [][\A o \in Objects :
          source[o].status = "AVAILABLE" => source'[o] = source[o]]_sourceVars

(* "Rejected objects are marked `REJECTED`, assigned a stable rejection    *)
(* code, audited, and deleted" (docs/phase1g/README.md): when a completion *)
(* finds bytes that fail verification, the row says so afterwards          *)
(* (complete_source_upload).                                               *)
RejectionIsRecorded ==
    [][\A r \in Callers :
          /\ request[r].op = "verify"
          /\ bucket[request[r].object] # None
          /\ request'[r] = IdleCall
          /\ ~Verified(request[r].object, request[r].seen)
          => source'[request[r].object].status = "REJECTED"]_sourceVars
===============================================================================
