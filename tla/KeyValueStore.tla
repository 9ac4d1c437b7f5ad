---------------------------- MODULE KeyValueStore ----------------------------
(***************************************************************************)
(* One key-value store, its records, their version history, the mutation   *)
(* receipts and the objects that hold the values                           *)
(* (apps/api/app/services/key_value_stores.py, worker_key_value_store.py,  *)
(* migrations 0012 and 0013).                                              *)
(*                                                                         *)
(* A mutation is one database transaction with a call to the object store  *)
(* in the middle.  It loads the store row, locks it later, and the lock    *)
(* does not refresh what was loaded: the counters it computes with are the *)
(* loaded ones.  Receipts and records are first read under the lock.       *)
(***************************************************************************)
EXTENDS Integers, Sequences, FiniteSets

CONSTANTS
  Mutators,         \* concurrent mutation requests
  KVReaders,        \* concurrent reads of a record
  RecordKeys,       \* logical keys
  IdempotencyKeys,
  Mutations,        \* the mutations that clients send, each any number of times
  ObjectIds,        \* object keys: uuid4 makes them fresh
  NoObject,
  AnyVersion,       \* expected_version is null
  MaxKVRecords,     \* MAX_KV_RECORDS
  MaxKVStoreBytes   \* MAX_KV_STORE_BYTES

\* What validate_kv_mutation lets through.  The digest of a mutation covers every
\* field, so equal digests are equal mutations; size stands for the value.
Mutation ==
  [idem : IdempotencyKeys, op : {"set", "delete"}, key : RecordKeys,
   expected : Nat \cup {AnyVersion}, size : Nat]

ASSUME KVAssumption ==
  /\ Mutations \subseteq Mutation
  /\ \A q \in Mutations : q.op = "delete" => q.size = 0
  /\ AnyVersion \notin Nat /\ NoObject \notin ObjectIds
  /\ MaxKVRecords \in Nat /\ MaxKVStoreBytes \in Nat

VARIABLES
  kvStore,    \* the row of control.key_value_stores
  kvRecord,   \* control.key_value_records, by key; version 0: no row
  kvHistory,  \* control.key_value_record_versions, by key
  kvReceipt,  \* control.key_value_mutation_receipts, by idempotency key
  kvObject,   \* the size of each stored object, or Nothing
  kvTx,       \* the open mutation transactions
  kvRead      \* the open reads

kvVars == <<kvStore, kvRecord, kvHistory, kvReceipt, kvObject, kvTx, kvRead>>

NoStore == [exists |-> FALSE, count |-> 0, bytes |-> 0]
NoRecord == [version |-> 0, deleted |-> FALSE, size |-> 0]
Nothing == -1
Unused == [version |-> 0]
Idle == [pc |-> "idle"]

Counted == [exists : BOOLEAN, count : Nat, bytes : Nat]
RecordRow == [version : Nat, deleted : BOOLEAN, size : Nat]
Version == [idem : IdempotencyKeys, tombstone : BOOLEAN,
            object : ObjectIds \cup {NoObject}, size : Nat]
Receipt == [version : Nat \ {0}, request : Mutations] \cup {Unused}
Transaction ==
  {Idle}
    \cup [pc : {"loaded", "creating"}, q : Mutations, store : Counted]
    \cup [pc : {"decided", "uploaded"}, q : Mutations, store : Counted,
          count : Int, bytes : Int, object : ObjectIds \cup {NoObject}]
Reading ==
  {Idle} \cup [pc : {"found", "done", "failed"}, key : RecordKeys, version : Nat \ {0}]

\* Columns keep their types and the store its CHECK constraints.
KVTypeOK ==
  /\ kvStore \in Counted
  /\ kvRecord \in [RecordKeys -> RecordRow]
  /\ kvHistory \in [RecordKeys -> Seq(Version)]
  /\ kvReceipt \in [IdempotencyKeys -> Receipt]
  /\ kvObject \in [ObjectIds -> Nat \cup {Nothing}]
  /\ kvTx \in [Mutators -> Transaction]
  /\ kvRead \in [KVReaders -> Reading]

KVInit ==
  /\ kvStore = NoStore
  /\ kvRecord = [k \in RecordKeys |-> NoRecord]
  /\ kvHistory = [k \in RecordKeys |-> << >>]
  /\ kvReceipt = [i \in IdempotencyKeys |-> Unused]
  /\ kvObject = [o \in ObjectIds |-> Nothing]
  /\ kvTx = [t \in Mutators |-> Idle]
  /\ kvRead = [r \in KVReaders |-> Idle]

-----------------------------------------------------------------------------
(* A mutation.                                                             *)

Rows == <<kvStore, kvRecord, kvHistory, kvReceipt>>

\* The row lock of the store is held from the decision to the end of the
\* transaction, and by the transaction that inserts the store.
HoldsStore(t) == kvTx[t].pc \in {"creating", "decided", "uploaded"}

\* require_key_value_store_permission, or _run_default_store for a worker
LoadStore(t, q) ==
  /\ kvTx[t] = Idle /\ kvStore.exists
  /\ kvTx' = [kvTx EXCEPT ![t] = [pc |-> "loaded", q |-> q, store |-> kvStore]]
  /\ UNCHANGED <<Rows, kvObject, kvRead>>

\* create_project_key_value_store, create_run_key_value_store: a tenant creates the
\* store empty; the insertion waits for one that is under way, and fails if it commits.
CreateEmptyStore ==
  /\ ~kvStore.exists
  /\ \A u \in Mutators : ~HoldsStore(u)
  /\ kvStore' = [NoStore EXCEPT !.exists = TRUE]
  /\ UNCHANGED <<kvRecord, kvHistory, kvReceipt, kvObject, kvTx, kvRead>>

\* mutate_worker_key_value_record creates the store for a first set.  The unique
\* index on run and name lets one insertion proceed at a time; one that waits for
\* another that commits fails and leaves nothing.
CreateStore(t, q) ==
  /\ kvTx[t] = Idle /\ ~kvStore.exists /\ q.op = "set"
  /\ \A u \in Mutators : ~HoldsStore(u)
  /\ kvTx' = [kvTx EXCEPT ![t] =
                [pc |-> "creating", q |-> q, store |-> [NoStore EXCEPT !.exists = TRUE]]]
  /\ UNCHANGED <<Rows, kvObject, kvRead>>

\* _enforce_expected_version
ExpectedVersionHolds(q) ==
  q.expected \in {AnyVersion, kvRecord[q.key].version}

IsLive(k) == kvRecord[k].version > 0 /\ ~kvRecord[k].deleted

ProjectedCount(q, store) ==
  CASE q.op = "delete" -> store.count - 1
    [] q.op = "set" /\ IsLive(q.key) -> store.count
    [] OTHER -> store.count + 1

ProjectedBytes(q, store) == store.bytes - kvRecord[q.key].size + q.size

\* What lets a mutation without a receipt go on: the version precondition, a live
\* record for a delete, and the quotas for a set.
Allowed(q, store) ==
  /\ ExpectedVersionHolds(q)
  /\ q.op = "delete" => IsLive(q.key)
  /\ q.op = "set" =>
       /\ ProjectedCount(q, store) <= MaxKVRecords
       /\ ProjectedBytes(q, store) <= MaxKVStoreBytes

FreshObject == CHOOSE o \in ObjectIds : kvObject[o] = Nothing

End(t) == kvTx' = [kvTx EXCEPT ![t] = Idle]

\* The receipt answers a repeated mutation, equal or not; any other mutation that
\* is not allowed is refused.  Both leave the rows alone.
Answer(t) ==
  /\ kvTx[t].pc \in {"loaded", "creating"}
  /\ \A u \in Mutators \ {t} : ~HoldsStore(u)
  /\ \/ kvReceipt[kvTx[t].q.idem] # Unused
     \/ ~Allowed(kvTx[t].q, kvTx[t].store)
  /\ End(t)
  /\ UNCHANGED <<Rows, kvObject, kvRead>>

\* Mutant: the receipt is not looked up.
DecideWithoutReceipt(t) ==
  LET tx == kvTx[t] IN
  /\ tx.pc \in {"loaded", "creating"}
  /\ \A u \in Mutators \ {t} : ~HoldsStore(u)
  /\ Allowed(tx.q, tx.store)
  /\ kvTx' = [kvTx EXCEPT ![t] =
                [pc |-> "decided", q |-> tx.q, store |-> tx.store,
                 count |-> ProjectedCount(tx.q, tx.store),
                 bytes |-> ProjectedBytes(tx.q, tx.store),
                 object |-> NoObject]]
  /\ UNCHANGED <<Rows, kvObject, kvRead>>

Decide(t) ==
  LET tx == kvTx[t] IN
  /\ tx.pc \in {"loaded", "creating"}
  /\ \A u \in Mutators \ {t} : ~HoldsStore(u)
  /\ kvReceipt[tx.q.idem] = Unused
  /\ Allowed(tx.q, tx.store)
  /\ kvTx' = [kvTx EXCEPT ![t] =
                [pc |-> "decided", q |-> tx.q, store |-> tx.store,
                 count |-> ProjectedCount(tx.q, tx.store),
                 bytes |-> ProjectedBytes(tx.q, tx.store),
                 object |-> NoObject]]
  /\ UNCHANGED <<Rows, kvObject, kvRead>>

\* write_object, for a set
WriteObject(t) ==
  /\ kvTx[t].pc = "decided" /\ kvTx[t].q.op = "set"
  /\ \E o \in ObjectIds : kvObject[o] = Nothing
  /\ kvObject' = [kvObject EXCEPT ![FreshObject] = kvTx[t].q.size]
  /\ kvTx' = [kvTx EXCEPT ![t].pc = "uploaded", ![t].object = FreshObject]
  /\ UNCHANGED <<Rows, kvRead>>

\* A StorageBackendError: the object may have arrived all the same.
WriteObjectFails(t) ==
  /\ kvTx[t].pc = "decided" /\ kvTx[t].q.op = "set"
  /\ \/ kvObject' = kvObject
     \/ /\ \E o \in ObjectIds : kvObject[o] = Nothing
        /\ kvObject' = [kvObject EXCEPT ![FreshObject] = kvTx[t].q.size]
  /\ End(t)
  /\ UNCHANGED <<Rows, kvRead>>

ReadyToFlush(t) ==
  \/ kvTx[t].pc = "uploaded"
  \/ kvTx[t].pc = "decided" /\ kvTx[t].q.op = "delete"

\* The CHECK constraints on the counters of the store
CountersInRange(count, bytes) ==
  count \in 0..MaxKVRecords /\ bytes \in 0..MaxKVStoreBytes

\* An unchanged column is not written: it keeps what others stored since.
Written(loaded, new, current) == IF new = loaded THEN current ELSE new

Flushable(tx) ==
  CountersInRange(Written(tx.store.count, tx.count, kvStore.count),
                  Written(tx.store.bytes, tx.bytes, kvStore.bytes))

\* The new record row, version row, receipt and counters, committed
CommitMutation(t) ==
  LET tx == kvTx[t]
      q == tx.q
      version == kvRecord[q.key].version + 1
  IN
  /\ ReadyToFlush(t)
  /\ Flushable(tx)
  /\ kvRecord' = [kvRecord EXCEPT ![q.key] =
                    [version |-> version, deleted |-> q.op = "delete", size |-> q.size]]
  /\ kvHistory' = [kvHistory EXCEPT ![q.key] =
                     Append(@, [idem |-> q.idem, tombstone |-> q.op = "delete",
                                object |-> tx.object, size |-> q.size])]
  /\ kvReceipt' = [kvReceipt EXCEPT ![q.idem] = [version |-> version, request |-> q]]
  /\ kvStore' = [exists |-> TRUE,
                 count |-> Written(tx.store.count, tx.count, kvStore.count),
                 bytes |-> Written(tx.store.bytes, tx.bytes, kvStore.bytes)]
  /\ End(t)
  /\ UNCHANGED <<kvObject, kvRead>>

\* Mutant: the clean-up deletes the object of the record instead of the upload.
FlushFailsDroppingCurrent(t) ==
  LET history == kvHistory[kvTx[t].q.key] IN
  /\ ReadyToFlush(t)
  /\ kvObject' = [o \in ObjectIds |->
                    IF history # << >> /\ o = history[Len(history)].object
                      THEN Nothing ELSE kvObject[o]]
  /\ End(t)
  /\ UNCHANGED <<Rows, kvRead>>

\* An exception before the handler returns rolls back and deletes the uploaded
\* object; a failure of that deletion is suppressed.
FlushFails(t) ==
  /\ ReadyToFlush(t)
  /\ \/ kvObject' = [o \in ObjectIds |-> IF o = kvTx[t].object THEN Nothing ELSE kvObject[o]]
     \/ kvObject' = kvObject
  /\ End(t)
  /\ UNCHANGED <<Rows, kvRead>>

\* get_db fails to commit after the handler returned, or the process dies: the
\* rows are rolled back and nobody deletes the object.
CommitLost(t) ==
  /\ kvTx[t].pc # "idle"
  /\ End(t)
  /\ UNCHANGED <<Rows, kvObject, kvRead>>

-----------------------------------------------------------------------------
(* A read: the record row first, then its version row and the object.      *)

\* Mutant: deleted records are found too.
FindDeletedRecord(r, k) ==
  /\ kvRead[r] = Idle /\ kvRecord[k].version > 0
  /\ kvRead' = [kvRead EXCEPT ![r] =
                  [pc |-> "found", key |-> k, version |-> kvRecord[k].version]]
  /\ UNCHANGED <<Rows, kvObject, kvTx>>

\* get_key_value_record
FindRecord(r, k) ==
  /\ kvRead[r] = Idle /\ IsLive(k)
  /\ kvRead' = [kvRead EXCEPT ![r] =
                  [pc |-> "found", key |-> k, version |-> kvRecord[k].version]]
  /\ UNCHANGED <<Rows, kvObject, kvTx>>

\* The version row of the record is there, is not a tombstone, and its object has
\* the recorded size.
Readable(k, version) ==
  /\ version \in DOMAIN kvHistory[k]
  /\ ~kvHistory[k][version].tombstone
  /\ kvHistory[k][version].object \in ObjectIds
  /\ kvObject[kvHistory[k][version].object] = kvHistory[k][version].size

\* key_value_record_summary, _read_records
ReadValue(r) ==
  /\ kvRead[r].pc = "found"
  /\ kvRead' = [kvRead EXCEPT ![r].pc =
                  IF Readable(kvRead[r].key, kvRead[r].version) THEN "done" ELSE "failed"]
  /\ UNCHANGED <<Rows, kvObject, kvTx>>

EndRead(r) ==
  /\ kvRead[r].pc = "done"
  /\ kvRead' = [kvRead EXCEPT ![r] = Idle]
  /\ UNCHANGED <<Rows, kvObject, kvTx>>

KVNext ==
  \/ CreateEmptyStore
  \/ \E t \in Mutators :
       \/ \E q \in Mutations : LoadStore(t, q) \/ CreateStore(t, q)
       \/ Answer(t) \/ Decide(t)
       \/ WriteObject(t) \/ WriteObjectFails(t)
       \/ CommitMutation(t) \/ FlushFails(t) \/ CommitLost(t)
  \/ \E r \in KVReaders :
       \/ \E k \in RecordKeys : FindRecord(r, k)
       \/ ReadValue(r) \/ EndRead(r)

KVSpec == KVInit /\ [][KVNext]_kvVars

-----------------------------------------------------------------------------
(* What the store promises.                                                *)

\* A mutation takes effect once, however often it is sent, by however many requests
\* at a time: every version was written under its own idempotency key, and the
\* receipt of that key names the version and the mutation that wrote it.
MutationAppliedOnce ==
  /\ \A k \in RecordKeys : \A n \in DOMAIN kvHistory[k] :
       LET r == kvReceipt[kvHistory[k][n].idem] IN
       /\ r # Unused
       /\ r.version = n /\ r.request.key = k
       /\ r.request.op = "delete" <=> kvHistory[k][n].tombstone
  /\ \A i \in IdempotencyKeys :
       kvReceipt[i] # Unused =>
         LET r == kvReceipt[i] IN
         /\ r.version \in DOMAIN kvHistory[r.request.key]
         /\ kvHistory[r.request.key][r.version].idem = i

\* The object of a committed version is never lost: neither a failed mutation's
\* clean-up nor a later version removes it.
VersionsKeepTheirObject ==
  \A k \in RecordKeys : \A n \in DOMAIN kvHistory[k] :
    LET v == kvHistory[k][n] IN
    IF v.tombstone THEN v.object = NoObject
                   ELSE v.object \in ObjectIds /\ kvObject[v.object] = v.size

\* A read that found the record finishes, whatever is written between its queries:
\* it never meets KV_STORAGE_LINEAGE_INVALID or KV_STORAGE_INTEGRITY_FAILED.
ReadsAreWhole == \A r \in KVReaders : kvRead[r].pc # "failed"

=============================================================================
