--------------------------- MODULE ServicesProofs ---------------------------
(***************************************************************************)
(* Proofs about two services that the code of a Run calls: the key-value   *)
(* store and the browser gateway.                                          *)
(***************************************************************************)
EXTENDS KeyValueStore, BrowserGateway, TLAPS

-----------------------------------------------------------------------------
(***************************************************************************)
(* The key-value store, for any number of mutations, readers, keys and     *)
(* objects. What a mutation decided under the lock of the store still      *)
(* holds when it commits, and the object it uploaded is referenced by      *)
(* nothing else until then.                                                *)
(***************************************************************************)

\* No committed version names the object.
Unreferenced(o) ==
  \A k \in RecordKeys : \A n \in DOMAIN kvHistory[k] : kvHistory[k][n].object # o

\* An open mutation: what it decided under the lock of the store still holds, and the
\* object it uploaded is its own.
MutationOK(tx) ==
  /\ tx.pc \in {"idle", "loaded", "creating", "decided", "uploaded"}
  /\ tx.pc # "idle" => tx.q \in Mutations
  /\ tx.pc \in {"decided", "uploaded"} => kvReceipt[tx.q.idem] = Unused
  /\ tx.pc = "decided" =>
       /\ tx.object = NoObject
       /\ tx = [pc |-> tx.pc, q |-> tx.q, store |-> tx.store, count |-> tx.count,
                bytes |-> tx.bytes, object |-> tx.object]
  /\ tx.pc = "uploaded" =>
       /\ tx.q.op = "set" /\ tx.object \in ObjectIds
       /\ kvObject[tx.object] = tx.q.size /\ Unreferenced(tx.object)

\* A read that found its record names a version that is there and no tombstone.
ReadOK(rd) ==
  /\ rd.pc \in {"idle", "found", "done"}
  /\ rd.pc # "idle" =>
       /\ rd = [pc |-> rd.pc, key |-> rd.key, version |-> rd.version]
       /\ rd.key \in RecordKeys /\ rd.version \in DOMAIN kvHistory[rd.key]
       /\ ~kvHistory[rd.key][rd.version].tombstone

\* The record row is the newest version.
RecordOK(k) ==
  /\ kvRecord[k].version = Len(kvHistory[k])
  /\ IsLive(k) => ~kvHistory[k][kvRecord[k].version].tombstone

ShapeOK ==
  /\ DOMAIN kvRecord = RecordKeys /\ kvRecord = [k \in RecordKeys |-> kvRecord[k]]
  /\ kvHistory \in [RecordKeys -> Seq(Version)]
  /\ kvReceipt \in [IdempotencyKeys -> Receipt]
  /\ kvObject \in [ObjectIds -> Int]
  /\ kvTx = [t \in Mutators |-> kvTx[t]] /\ kvRead = [r \in KVReaders |-> kvRead[r]]

KVInv ==
  /\ ShapeOK /\ MutationAppliedOnce /\ VersionsKeepTheirObject
  /\ \A k \in RecordKeys : RecordOK(k)
  /\ \A t \in Mutators : MutationOK(kvTx[t])
  /\ \A t, u \in Mutators : HoldsStore(t) /\ HoldsStore(u) => t = u
  /\ \A r \in KVReaders : ReadOK(kvRead[r])

-----------------------------------------------------------------------------
LEMMA KVInitOK == KVInit => KVInv
<1> SUFFICES ASSUME KVInit PROVE KVInv
  OBVIOUS
<1>1. ShapeOK
  <2>1. \A k \in RecordKeys : kvHistory[k] = << >>
    BY DEF KVInit
  <2>2. Unused \in Receipt /\ Nothing \in Int
    BY DEF Receipt, Nothing
  <2>. QED  BY <2>1, <2>2 DEF KVInit, ShapeOK
<1>2. \A k \in RecordKeys : DOMAIN kvHistory[k] = {} /\ Len(kvHistory[k]) = 0
  BY DEF KVInit
<1>3. MutationAppliedOnce /\ VersionsKeepTheirObject
  BY <1>2 DEF KVInit, MutationAppliedOnce, VersionsKeepTheirObject
<1>4. ASSUME NEW k \in RecordKeys PROVE RecordOK(k)
  BY <1>2 DEF KVInit, RecordOK, IsLive, NoRecord
<1>5. \A t \in Mutators : MutationOK(kvTx[t]) /\ ~HoldsStore(t)
  BY DEF KVInit, MutationOK, HoldsStore, Idle
<1>6. \A r \in KVReaders : ReadOK(kvRead[r])
  BY DEF KVInit, ReadOK, Idle
<1>. QED  BY <1>1, <1>3, <1>4, <1>5, <1>6 DEF KVInv

-----------------------------------------------------------------------------
(* Versions and receipts.                                                  *)

\* Receipt r is the one of version v, the n-th of record k.
Names(r, n, k, v) ==
  /\ r # Unused
  /\ r.version = n /\ r.request.key = k
  /\ r.request.op = "delete" <=> v.tombstone

\* The version that receipt r names was written under idempotency key i.
WrittenUnder(r, history, i) == r.version \in DOMAIN history /\ history[r.version].idem = i

Applied ==
  /\ \A k \in RecordKeys : \A n \in DOMAIN kvHistory[k] :
       Names(kvReceipt[kvHistory[k][n].idem], n, k, kvHistory[k][n])
  /\ \A i \in IdempotencyKeys :
       kvReceipt[i] # Unused =>
         WrittenUnder(kvReceipt[i], kvHistory[kvReceipt[i].request.key], i)

LEMMA AppliedIs == (MutationAppliedOnce <=> Applied) /\ (MutationAppliedOnce' <=> Applied')
<1>1. MutationAppliedOnce <=> Applied
  BY Zenon DEF MutationAppliedOnce, Applied, Names, WrittenUnder
<1>2. MutationAppliedOnce' <=> Applied'
  BY Zenon DEF MutationAppliedOnce, Applied, Names, WrittenUnder
<1>. QED  BY <1>1, <1>2

LEMMA AppliedKept ==
  ASSUME MutationAppliedOnce, UNCHANGED <<kvHistory, kvReceipt>>
  PROVE  MutationAppliedOnce'
BY AppliedIs DEF Applied

-----------------------------------------------------------------------------
(* Steps of a mutation before it commits.                                  *)

\* A step that changes one open mutation and, at most, an object that no committed
\* version names.
LEMMA OneMutation ==
  ASSUME KVInv, NEW t \in Mutators, NEW new, UNCHANGED <<Rows, kvRead>>,
         kvTx' = [kvTx EXCEPT ![t] = new],
         kvObject' \in [ObjectIds -> Int],
         \A o \in ObjectIds : kvObject'[o] # kvObject[o] =>
             Unreferenced(o) /\ \A u \in Mutators \ {t} : ~HoldsStore(u),
         MutationOK(new)',
         new.pc \in {"creating", "decided", "uploaded"} => \A u \in Mutators \ {t} : ~HoldsStore(u)
  PROVE  KVInv'
<1>u. UNCHANGED <<kvStore, kvRecord, kvHistory, kvReceipt, kvRead>>
  BY DEF Rows
<1>1. ShapeOK'
  BY <1>u, Zenon DEF KVInv, ShapeOK
<1>2. MutationAppliedOnce'
  BY <1>u, AppliedKept DEF KVInv
<1>3. VersionsKeepTheirObject'
  BY <1>u DEF KVInv, VersionsKeepTheirObject, Unreferenced
<1>4. \A k \in RecordKeys : RecordOK(k)'
  BY <1>u DEF KVInv, RecordOK, IsLive
<1>5. \A u \in Mutators : kvTx'[u] = IF u = t THEN new ELSE kvTx[u]
  BY DEF KVInv, ShapeOK
<1>6. ASSUME NEW u \in Mutators PROVE MutationOK(kvTx[u])'
  <2>1. CASE u = t
    BY <1>5, <2>1
  <2>2. CASE u # t
    <3>1. MutationOK(kvTx[u]) /\ kvTx'[u] = kvTx[u]
      BY <1>5, <2>2 DEF KVInv
    <3>2. kvTx[u].pc = "uploaded" => kvObject'[kvTx[u].object] = kvObject[kvTx[u].object]
      BY <2>2, <3>1 DEF MutationOK, HoldsStore
    <3>. QED  BY <1>u, <3>1, <3>2 DEF MutationOK, Unreferenced
  <2>. QED  BY <2>1, <2>2
<1>7. \A u, v \in Mutators : HoldsStore(u)' /\ HoldsStore(v)' => u = v
  BY <1>5 DEF KVInv, HoldsStore
<1>8. \A r \in KVReaders : ReadOK(kvRead[r])'
  BY <1>u DEF KVInv, ReadOK
<1>. QED  BY <1>1, <1>2, <1>3, <1>4, <1>6, <1>7, <1>8 DEF KVInv

LEMMA IdleOK == MutationOK(Idle)' /\ Idle.pc = "idle"
BY DEF MutationOK, Idle

\* Steps that only move a mutation
LEMMA MovesOK ==
  ASSUME KVInv, NEW t \in Mutators, NEW q \in Mutations,
         LoadStore(t, q) \/ CreateStore(t, q) \/ Answer(t) \/ Decide(t) \/ CommitLost(t)
  PROVE  KVInv'
<1>0. kvObject \in [ObjectIds -> Int] /\ MutationOK(kvTx[t])
  BY DEF KVInv, ShapeOK
<1>1. CASE LoadStore(t, q)
  <2>1. PICK new : new = [pc |-> "loaded", q |-> q, store |-> kvStore]
    BY Zenon
  <2>2. MutationOK(new)' /\ new.pc = "loaded"
    BY <2>1 DEF MutationOK
  <2>. QED  BY <1>0, <1>1, <2>1, <2>2, OneMutation, Zenon DEF LoadStore
<1>2. CASE CreateStore(t, q)
  <2>1. PICK new : new = [pc |-> "creating", q |-> q, store |-> [NoStore EXCEPT !.exists = TRUE]]
    BY Zenon
  <2>2. MutationOK(new)'
    BY <2>1 DEF MutationOK
  <2>. QED  BY <1>0, <1>2, <2>1, <2>2, OneMutation, Zenon DEF CreateStore
<1>3. CASE Answer(t)
  BY <1>0, <1>3, IdleOK, OneMutation, Zenon DEF Answer, End
<1>4. CASE Decide(t)
  <2> DEFINE tx == kvTx[t]
  <2>1. kvReceipt'[tx.q.idem] = Unused /\ tx.q \in Mutations
    BY <1>0, <1>4 DEF Decide, Rows, MutationOK
  <2>2. PICK new : new = [pc |-> "decided", q |-> tx.q, store |-> tx.store,
                          count |-> ProjectedCount(tx.q, tx.store),
                          bytes |-> ProjectedBytes(tx.q, tx.store), object |-> NoObject]
    BY Zenon
  <2>3. new = [pc |-> new.pc, q |-> new.q, store |-> new.store, count |-> new.count,
               bytes |-> new.bytes, object |-> new.object]
    BY <2>2
  <2>4. new.pc = "decided" /\ new.q = tx.q /\ new.object = NoObject
    BY <2>2
  <2>5. MutationOK(new)'
    BY <2>1, <2>3, <2>4 DEF MutationOK
  <2>6. /\ kvTx' = [kvTx EXCEPT ![t] = new] /\ kvObject' = kvObject
        /\ UNCHANGED <<Rows, kvRead>> /\ \A u \in Mutators \ {t} : ~HoldsStore(u)
    BY <1>4, <2>2 DEF Decide
  <2>. QED  BY <1>0, <2>5, <2>6, OneMutation, Zenon
<1>5. CASE CommitLost(t)
  BY <1>0, <1>5, IdleOK, OneMutation, Zenon DEF CommitLost, End
<1>. QED  BY <1>1, <1>2, <1>3, <1>4, <1>5

LEMMA OneHolder ==
  ASSUME KVInv, NEW t \in Mutators, kvTx[t].pc \in {"decided", "uploaded"}
  PROVE  \A u \in Mutators \ {t} : ~HoldsStore(u)
BY DEF KVInv, HoldsStore

\* An object that is not stored has no committed version.
LEMMA FreshOK ==
  ASSUME KVInv, \E o \in ObjectIds : kvObject[o] = Nothing
  PROVE  FreshObject \in ObjectIds /\ kvObject[FreshObject] = Nothing /\ Unreferenced(FreshObject)
<1>1. FreshObject \in ObjectIds /\ kvObject[FreshObject] = Nothing
  BY DEF FreshObject
<1>2. ASSUME NEW k \in RecordKeys, NEW n \in DOMAIN kvHistory[k]
      PROVE  kvHistory[k][n].object # FreshObject
  <2>1. kvHistory[k][n] \in Version
    BY DEF KVInv, ShapeOK
  <2>2. kvHistory[k][n].size \in Nat
    BY <2>1 DEF Version
  <2>3. kvHistory[k][n].tombstone => kvHistory[k][n].object = NoObject
    BY DEF KVInv, VersionsKeepTheirObject
  <2>4. ~kvHistory[k][n].tombstone => kvObject[kvHistory[k][n].object] = kvHistory[k][n].size
    BY DEF KVInv, VersionsKeepTheirObject
  <2>5. NoObject # FreshObject
    BY <1>1, KVAssumption
  <2>. QED  BY <1>1, <2>2, <2>3, <2>4, <2>5 DEF Nothing
<1>. QED  BY <1>1, <1>2 DEF Unreferenced

LEMMA WriteObjectOK ==
  ASSUME KVInv, NEW t \in Mutators, WriteObject(t) PROVE KVInv'
<1> DEFINE tx == kvTx[t]
<1>1. MutationOK(tx) /\ tx.pc = "decided" /\ tx.q.op = "set" /\ tx.q \in Mutations
  BY DEF KVInv, WriteObject, MutationOK
<1>2. tx.q.size \in Nat
  BY <1>1, KVAssumption DEF Mutation
<1>3. FreshObject \in ObjectIds /\ Unreferenced(FreshObject)
  BY FreshOK DEF WriteObject
<1>4. PICK o \in ObjectIds : o = FreshObject
  BY <1>3
<1>5. PICK new : new = [pc |-> "uploaded", q |-> tx.q, store |-> tx.store, count |-> tx.count,
                        bytes |-> tx.bytes, object |-> o]
  BY Zenon
<1>6. tx = [pc |-> tx.pc, q |-> tx.q, store |-> tx.store, count |-> tx.count,
            bytes |-> tx.bytes, object |-> tx.object]
  BY <1>1 DEF MutationOK
<1>7. kvTx' = [kvTx EXCEPT ![t] = new]
  <2>1. kvTx' = [kvTx EXCEPT ![t].pc = "uploaded", ![t].object = o]
    BY <1>4 DEF WriteObject
  <2>2. ASSUME NEW x, NEW y, x = [pc |-> x.pc, q |-> x.q, store |-> x.store, count |-> x.count,
                                  bytes |-> x.bytes, object |-> x.object],
               y = [[x EXCEPT !.pc = "uploaded"] EXCEPT !.object = o]
        PROVE  y = [pc |-> "uploaded", q |-> x.q, store |-> x.store, count |-> x.count,
                    bytes |-> x.bytes, object |-> o]
    BY <2>2, Zenon
  <2>3. [[tx EXCEPT !.pc = "uploaded"] EXCEPT !.object = o] = new
    BY <1>5, <1>6, <2>2, Zenon
  <2>4. kvTx' = [kvTx EXCEPT ![t] = [[tx EXCEPT !.pc = "uploaded"] EXCEPT !.object = o]]
    BY <2>1, Zenon DEF KVInv, ShapeOK
  <2>. QED  BY <2>3, <2>4, Zenon
<1>8. kvObject' = [kvObject EXCEPT ![o] = tx.q.size] /\ UNCHANGED <<Rows, kvRead>>
  BY <1>4 DEF WriteObject
<1>9. kvObject' \in [ObjectIds -> Int] /\ kvObject'[o] = tx.q.size
      /\ \A x \in ObjectIds : kvObject'[x] # kvObject[x] => x = o
  BY <1>2, <1>8 DEF KVInv, ShapeOK
<1>10. MutationOK(new)'
  <2>1. new.pc = "uploaded" /\ new.q = tx.q /\ new.object = o
    BY <1>5
  <2>2. Unreferenced(o)'
    BY <1>3, <1>4, <1>8 DEF Unreferenced, Rows
  <2>3. kvReceipt'[tx.q.idem] = Unused
    BY <1>1, <1>8 DEF MutationOK, Rows
  <2>. QED  BY <1>1, <1>9, <2>1, <2>2, <2>3 DEF MutationOK
<1>11. \A u \in Mutators \ {t} : ~HoldsStore(u)
  BY <1>1, OneHolder
<1>. QED  BY <1>3, <1>4, <1>7, <1>8, <1>9, <1>10, <1>11, OneMutation, Zenon

LEMMA WriteObjectFailsOK ==
  ASSUME KVInv, NEW t \in Mutators, WriteObjectFails(t) PROVE KVInv'
<1>0. kvTx[t].pc = "decided" /\ kvTx' = [kvTx EXCEPT ![t] = Idle] /\ UNCHANGED <<Rows, kvRead>>
  BY DEF WriteObjectFails, End
<1>1. \A u \in Mutators \ {t} : ~HoldsStore(u)
  BY <1>0, OneHolder
<1>2. kvObject \in [ObjectIds -> Int] /\ kvTx[t].q.size \in Nat
  BY <1>0, KVAssumption DEF KVInv, ShapeOK, MutationOK, Mutation
<1>3. CASE kvObject' = kvObject
  BY <1>0, <1>1, <1>2, <1>3, IdleOK, OneMutation, Zenon
<1>4. CASE /\ \E o \in ObjectIds : kvObject[o] = Nothing
           /\ kvObject' = [kvObject EXCEPT ![FreshObject] = kvTx[t].q.size]
  <2>1. FreshObject \in ObjectIds /\ Unreferenced(FreshObject)
    BY <1>4, FreshOK
  <2>2. /\ kvObject' \in [ObjectIds -> Int]
        /\ \A o \in ObjectIds : kvObject'[o] # kvObject[o] => o = FreshObject
    BY <1>2, <1>4, <2>1
  <2>. QED  BY <1>0, <1>1, <2>1, <2>2, IdleOK, OneMutation, Zenon
<1>. QED  BY <1>3, <1>4 DEF WriteObjectFails

LEMMA FlushFailsOK ==
  ASSUME KVInv, NEW t \in Mutators, FlushFails(t) PROVE KVInv'
<1>0. /\ kvTx[t].pc \in {"decided", "uploaded"} /\ kvTx' = [kvTx EXCEPT ![t] = Idle]
      /\ UNCHANGED <<Rows, kvRead>> /\ MutationOK(kvTx[t])
  BY DEF FlushFails, End, ReadyToFlush, KVInv
<1>1. \A u \in Mutators \ {t} : ~HoldsStore(u)
  BY <1>0, OneHolder
<1>2. kvObject \in [ObjectIds -> Int]
  BY DEF KVInv, ShapeOK
<1>3. CASE kvObject' = kvObject
  BY <1>0, <1>1, <1>2, <1>3, IdleOK, OneMutation, Zenon
<1>4. CASE kvObject' = [o \in ObjectIds |-> IF o = kvTx[t].object THEN Nothing ELSE kvObject[o]]
  <2>1. /\ kvObject' \in [ObjectIds -> Int]
        /\ \A o \in ObjectIds : kvObject'[o] # kvObject[o] => o = kvTx[t].object
    BY <1>2, <1>4 DEF Nothing
  <2>2. kvTx[t].object \in ObjectIds => Unreferenced(kvTx[t].object)
    BY <1>0, KVAssumption DEF MutationOK
  <2>. QED  BY <1>0, <1>1, <2>1, <2>2, IdleOK, OneMutation, Zenon
<1>. QED  BY <1>3, <1>4 DEF FlushFails

-----------------------------------------------------------------------------
(* The commit.                                                             *)

LEMMA Appended ==
  ASSUME NEW S, NEW h \in Seq(S), NEW e \in S
  PROVE  /\ Append(h, e) \in Seq(S) /\ Len(Append(h, e)) = Len(h) + 1 /\ Len(h) \in Nat
         /\ DOMAIN h = 1..Len(h) /\ DOMAIN Append(h, e) = 1..(Len(h) + 1)
         /\ \A n \in 1..Len(h) : Append(h, e)[n] = h[n]
         /\ Append(h, e)[Len(h) + 1] = e
OBVIOUS

\* One version is appended to the history of one record.
LEMMA OneAppended ==
  ASSUME NEW K, NEW V, NEW H \in [K -> Seq(V)], NEW key \in K, NEW v \in V, NEW G,
         G = [H EXCEPT ![key] = Append(H[key], v)]
  PROVE  /\ G \in [K -> Seq(V)]
         /\ \A k \in K : k # key => G[k] = H[k]
         /\ \A k \in K : \A n \in DOMAIN H[k] : n \in DOMAIN G[k] /\ G[k][n] = H[k][n]
         /\ \A k \in K : \A n \in DOMAIN G[k] :
              n \in DOMAIN H[k] \/ (k = key /\ n = Len(H[key]) + 1)
         /\ Len(H[key]) + 1 \in DOMAIN G[key] /\ G[key][Len(H[key]) + 1] = v
         /\ Len(G[key]) = Len(H[key]) + 1
<1>1. PICK h \in Seq(V) : h = H[key]
  OBVIOUS
<1>2. PICK g : g = Append(h, v)
  BY Zenon
<1>3. /\ g \in Seq(V) /\ Len(g) = Len(h) + 1 /\ Len(h) \in Nat
      /\ DOMAIN h = 1..Len(h) /\ DOMAIN g = 1..(Len(h) + 1)
      /\ \A n \in 1..Len(h) : g[n] = h[n]
      /\ g[Len(h) + 1] = v
  BY <1>2, Appended
<1>4. G[key] = g /\ G \in [K -> Seq(V)] /\ \A k \in K : k # key => G[k] = H[k]
  BY <1>1, <1>2, <1>3
<1>5. \A n \in DOMAIN h : n \in DOMAIN g /\ g[n] = h[n]
  BY <1>3
<1>6. \A n \in DOMAIN g : n \in DOMAIN h \/ n = Len(h) + 1
  BY <1>3
<1>7. Len(h) + 1 \in DOMAIN g /\ g[Len(h) + 1] = v /\ Len(g) = Len(h) + 1
  BY <1>3
<1>. QED  BY <1>1, <1>4, <1>5, <1>6, <1>7, Zenon

\* mutate_key_value_record that commits keeps KVInv.
LEMMA CommitMutationOK ==
  ASSUME KVInv, NEW t \in Mutators, CommitMutation(t) PROVE KVInv'
<1>a. PICK tx : tx = kvTx[t]
  OBVIOUS
<1>b. PICK q : q = tx.q
  OBVIOUS
<1>c. PICK version : version = Len(kvHistory[q.key]) + 1
  OBVIOUS
<1>1. /\ tx.pc \in {"decided", "uploaded"} /\ MutationOK(tx) /\ q \in Mutations
      /\ kvReceipt[q.idem] = Unused
  BY <1>a, <1>b, Zenon DEF CommitMutation, ReadyToFlush, KVInv, MutationOK
<1>2. /\ q.key \in RecordKeys /\ q.idem \in IdempotencyKeys /\ q.size \in Nat
      /\ q.op \in {"set", "delete"}
  BY <1>1, KVAssumption DEF Mutation
<1>3. kvRecord[q.key].version + 1 = version /\ version \in Nat \ {0}
  <2>1. kvHistory[q.key] \in Seq(Version)
    BY <1>2 DEF KVInv, ShapeOK
  <2>2. Len(kvHistory[q.key]) \in Nat
    BY <2>1
  <2>3. kvRecord[q.key].version = Len(kvHistory[q.key])
    BY <1>2 DEF KVInv, RecordOK
  <2>. QED  BY <1>c, <2>2, <2>3
<1>4. PICK v : v = [idem |-> q.idem, tombstone |-> q.op = "delete", object |-> tx.object,
                    size |-> q.size]
  BY Zenon
<1>5. /\ q.op = "delete" => tx.object = NoObject
      /\ q.op = "set" => tx.object \in ObjectIds /\ kvObject[tx.object] = q.size
  BY <1>a, <1>b, <1>1, Zenon DEF CommitMutation, ReadyToFlush, MutationOK
<1>6. /\ v \in Version /\ v.idem = q.idem /\ v.object = tx.object /\ v.size = q.size
      /\ v.tombstone <=> q.op = "delete"
  BY <1>2, <1>4, <1>5, Zenon DEF Version
<1>8. kvHistory \in [RecordKeys -> Seq(Version)]
  BY Zenon DEF KVInv, ShapeOK
<1>7. kvHistory' = [kvHistory EXCEPT ![q.key] = Append(kvHistory[q.key], v)]
  BY <1>a, <1>b, <1>2, <1>4, <1>8 DEF CommitMutation
<1>10. /\ kvHistory' \in [RecordKeys -> Seq(Version)]
       /\ \A k \in RecordKeys : k # q.key => kvHistory'[k] = kvHistory[k]
       /\ \A k \in RecordKeys : \A n \in DOMAIN kvHistory[k] :
             n \in DOMAIN kvHistory'[k] /\ kvHistory'[k][n] = kvHistory[k][n]
       /\ version \in DOMAIN kvHistory'[q.key] /\ kvHistory'[q.key][version] = v
       /\ Len(kvHistory'[q.key]) = version
       /\ \A k \in RecordKeys : \A n \in DOMAIN kvHistory'[k] :
             n \in DOMAIN kvHistory[k] \/ (k = q.key /\ n = version)
  <2>1. v \in Version
    BY <1>6
  <2>. QED  BY <1>c, <1>2, <1>7, <1>8, <2>1, OneAppended
<1>11. PICK rc : rc = [version |-> version, request |-> q]
  BY Zenon
<1>12. rc \in Receipt /\ rc # Unused /\ rc.version = version /\ rc.request = q
  BY <1>1, <1>3, <1>11 DEF Receipt, Unused
<1>13. /\ kvReceipt' \in [IdempotencyKeys -> Receipt] /\ kvReceipt'[q.idem] = rc
       /\ \A i \in IdempotencyKeys : i # q.idem => kvReceipt'[i] = kvReceipt[i]
  <2>1. kvReceipt' = [kvReceipt EXCEPT ![q.idem] = rc]
    BY <1>a, <1>b, <1>3, <1>11, Zenon DEF CommitMutation
  <2>. QED  BY <1>2, <1>12, <2>1 DEF KVInv, ShapeOK
<1>14. /\ kvRecord' = [kvRecord EXCEPT ![q.key] =
                         [version |-> version, deleted |-> q.op = "delete", size |-> q.size]]
       /\ UNCHANGED <<kvObject, kvRead>> /\ kvTx' = [kvTx EXCEPT ![t] = Idle]
  BY <1>a, <1>b, <1>3, Zenon DEF CommitMutation, End
<1>15. ShapeOK'
  BY <1>10, <1>13, <1>14, ZenonT(30) DEF KVInv, ShapeOK
<1>d. Applied
  BY AppliedIs DEF KVInv
<1>16. MutationAppliedOnce'
  <2>1. ASSUME NEW k \in RecordKeys, NEW n \in DOMAIN kvHistory'[k]
        PROVE  Names(kvReceipt'[kvHistory'[k][n].idem], n, k, kvHistory'[k][n])
    <3>1. CASE k = q.key /\ n = version
      <4>1. kvHistory'[k][n] = v /\ kvReceipt'[v.idem] = rc
        BY <1>6, <1>10, <1>13, <3>1
      <4>2. Names(rc, version, q.key, v)
        BY <1>6, <1>12, Zenon DEF Names
      <4>. QED  BY <3>1, <4>1, <4>2
    <3>2. CASE n \in DOMAIN kvHistory[k]
      <4>1. kvHistory'[k][n] = kvHistory[k][n]
        BY <1>10, <3>2
      <4>2. kvHistory[k][n].idem \in IdempotencyKeys
        <5>1. kvHistory[k][n] \in Version
          BY <1>8, <3>2
        <5>. QED  BY <5>1 DEF Version
      <4>3. Names(kvReceipt[kvHistory[k][n].idem], n, k, kvHistory[k][n])
        BY <1>d, <3>2 DEF Applied
      <4>4. kvReceipt[kvHistory[k][n].idem] # Unused
        BY <4>3 DEF Names
      <4>5. kvReceipt'[kvHistory[k][n].idem] = kvReceipt[kvHistory[k][n].idem]
        BY <1>1, <1>13, <4>2, <4>4
      <4>. QED  BY <4>1, <4>3, <4>5
    <3>. QED  BY <1>10, <2>1, <3>1, <3>2, Zenon
  <2>2. ASSUME NEW i \in IdempotencyKeys, kvReceipt'[i] # Unused
        PROVE  WrittenUnder(kvReceipt'[i], kvHistory'[kvReceipt'[i].request.key], i)
    <3>1. CASE i = q.idem
      <4>1. kvReceipt'[i] = rc /\ rc.request.key = q.key /\ rc.version = version
        BY <1>12, <1>13, <3>1
      <4>2. version \in DOMAIN kvHistory'[q.key] /\ kvHistory'[q.key][version].idem = i
        BY <1>6, <1>10, <3>1
      <4>. QED  BY <4>1, <4>2 DEF WrittenUnder
    <3>2. CASE i # q.idem
      <4>1. kvReceipt'[i] = kvReceipt[i] /\ kvReceipt[i] # Unused
        BY <1>13, <2>2, <3>2
      <4>2. WrittenUnder(kvReceipt[i], kvHistory[kvReceipt[i].request.key], i)
        BY <1>d, <4>1 DEF Applied
      <4>3. kvReceipt[i].request.key \in RecordKeys
        <5>1. kvReceipt[i] \in [version : Nat \ {0}, request : Mutations]
          BY <4>1 DEF KVInv, ShapeOK, Receipt
        <5>2. kvReceipt[i].request \in Mutations
          BY <5>1
        <5>. QED  BY <5>2, KVAssumption DEF Mutation
      <4>. QED  BY <1>10, <4>1, <4>2, <4>3 DEF WrittenUnder
    <3>. QED  BY <3>1, <3>2
  <2>3. Applied'
    BY <2>1, <2>2, Zenon DEF Applied
  <2>. QED  BY <2>3, AppliedIs
<1>17. VersionsKeepTheirObject'
  <2> SUFFICES ASSUME NEW k \in RecordKeys, NEW n \in DOMAIN kvHistory'[k]
               PROVE  LET w == kvHistory'[k][n] IN
                      IF w.tombstone THEN w.object = NoObject
                      ELSE w.object \in ObjectIds /\ kvObject'[w.object] = w.size
    BY DEF VersionsKeepTheirObject
  <2>1. CASE k = q.key /\ n = version
    BY <1>2, <1>5, <1>6, <1>10, <1>14, <2>1, ZenonT(30)
  <2>2. CASE n \in DOMAIN kvHistory[k]
    BY <1>10, <1>14, <2>2 DEF KVInv, VersionsKeepTheirObject
  <2>. QED  BY <1>10, <2>1, <2>2
<1>18. ASSUME NEW k \in RecordKeys PROVE RecordOK(k)'
  <2>1. CASE k = q.key
    <3>1. kvRecord'[k].version = version /\ (kvRecord'[k].deleted <=> q.op = "delete")
      BY <1>14, <2>1, Zenon DEF KVInv, ShapeOK
    <3>. QED  BY <1>6, <1>10, <2>1, <3>1 DEF RecordOK, IsLive
  <2>2. CASE k # q.key
    <3>1. kvRecord'[k] = kvRecord[k] /\ kvHistory'[k] = kvHistory[k]
      BY <1>10, <1>14, <2>2 DEF KVInv, ShapeOK
    <3>. QED  BY <3>1 DEF KVInv, RecordOK, IsLive
  <2>. QED  BY <2>1, <2>2
<1>19. \A u \in Mutators : kvTx'[u] = IF u = t THEN Idle ELSE kvTx[u]
  BY <1>14 DEF KVInv, ShapeOK
<1>20. \A u \in Mutators : ~HoldsStore(u)'
  BY <1>a, <1>1, <1>19, OneHolder DEF HoldsStore, Idle
<1>21. ASSUME NEW u \in Mutators PROVE MutationOK(kvTx[u])'
  <2>1. kvTx'[u].pc \notin {"decided", "uploaded"}
    BY <1>20 DEF HoldsStore
  <2>2. MutationOK(kvTx[u])
    BY Zenon DEF KVInv
  <2>3. /\ kvTx'[u].pc \in {"idle", "loaded", "creating", "decided", "uploaded"}
        /\ kvTx'[u].pc # "idle" => kvTx'[u].q \in Mutations
    BY <1>19, <2>2 DEF MutationOK, Idle
  <2>. QED  BY <2>1, <2>3, Zenon DEF MutationOK
<1>22. ASSUME NEW r \in KVReaders PROVE ReadOK(kvRead[r])'
  BY <1>10, <1>14, ZenonT(30) DEF KVInv, ReadOK
<1>. QED  BY <1>15, <1>16, <1>17, <1>18, <1>20, <1>21, <1>22 DEF KVInv

-----------------------------------------------------------------------------
(* Reads, and all steps.                                                   *)

\* A read changes nothing but itself.
LEMMA OneRead ==
  ASSUME KVInv, NEW r \in KVReaders, NEW new, UNCHANGED <<Rows, kvObject, kvTx>>,
         kvRead' = [kvRead EXCEPT ![r] = new], ReadOK(new)'
  PROVE  KVInv'
<1>u. UNCHANGED <<kvStore, kvRecord, kvHistory, kvReceipt, kvObject, kvTx>>
  BY DEF Rows
<1>1. ShapeOK'
  BY <1>u, Zenon DEF KVInv, ShapeOK
<1>2. MutationAppliedOnce' /\ VersionsKeepTheirObject'
  <2>1. MutationAppliedOnce /\ VersionsKeepTheirObject
    BY DEF KVInv
  <2>2. MutationAppliedOnce'
    BY <2>1, <1>u, AppliedKept
  <2>3. VersionsKeepTheirObject'
    BY <2>1, <1>u DEF VersionsKeepTheirObject
  <2>. QED  BY <2>2, <2>3
<1>3. \A k \in RecordKeys : RecordOK(k)'
  BY <1>u, Zenon DEF KVInv, RecordOK, IsLive
<1>4. \A t \in Mutators : MutationOK(kvTx[t])'
  BY <1>u, SMTT(30) DEF KVInv, MutationOK, Unreferenced
<1>5. \A t, u \in Mutators : HoldsStore(t)' /\ HoldsStore(u)' => t = u
  BY <1>u DEF KVInv, HoldsStore
<1>6. ASSUME NEW s \in KVReaders PROVE ReadOK(kvRead[s])'
  <2>1. kvRead'[s] = IF s = r THEN new ELSE kvRead[s]
    BY DEF KVInv, ShapeOK
  <2>2. ReadOK(kvRead[s])
    BY DEF KVInv
  <2>. QED  BY <1>u, <2>1, <2>2 DEF ReadOK
<1>. QED  BY <1>1, <1>2, <1>3, <1>4, <1>5, <1>6 DEF KVInv

LEMMA ReadsOK ==
  ASSUME KVInv, NEW r \in KVReaders, NEW k \in RecordKeys,
         FindRecord(r, k) \/ ReadValue(r) \/ EndRead(r)
  PROVE  KVInv'
<1>0. ReadOK(kvRead[r])
  BY DEF KVInv
<1>1. CASE FindRecord(r, k)
  <2>1. PICK new : new = [pc |-> "found", key |-> k, version |-> kvRecord[k].version]
    BY ZenonT(30)
  <2>2. /\ kvRead' = [kvRead EXCEPT ![r] = new] /\ UNCHANGED <<Rows, kvObject, kvTx>>
        /\ IsLive(k)
    BY <1>1, <2>1 DEF FindRecord
  <2>3. /\ kvRecord[k].version \in DOMAIN kvHistory[k]
        /\ ~kvHistory[k][kvRecord[k].version].tombstone
    <3>1. kvHistory[k] \in Seq(Version)
      BY DEF KVInv, ShapeOK
    <3>2. kvRecord[k].version = Len(kvHistory[k]) /\ kvRecord[k].version > 0
      BY <2>2 DEF KVInv, RecordOK, IsLive
    <3>3. Len(kvHistory[k]) \in DOMAIN kvHistory[k]
      BY <3>1, <3>2
    <3>. QED  BY <2>2, <3>2, <3>3, Zenon DEF KVInv, RecordOK
  <2>4. ReadOK(new)'
    BY <2>1, <2>2, <2>3 DEF ReadOK, Rows
  <2>. QED  BY <2>2, <2>4, OneRead, Zenon
<1>2. CASE ReadValue(r)
  <2> DEFINE rd == kvRead[r]
  <2>1. /\ rd.pc = "found" /\ rd = [pc |-> rd.pc, key |-> rd.key, version |-> rd.version]
        /\ rd.key \in RecordKeys /\ rd.version \in DOMAIN kvHistory[rd.key]
        /\ ~kvHistory[rd.key][rd.version].tombstone
    BY <1>0, <1>2 DEF ReadValue, ReadOK
  <2>2. Readable(rd.key, rd.version)
    BY <2>1, Zenon DEF Readable, KVInv, VersionsKeepTheirObject
  <2>3. PICK new : new = [pc |-> "done", key |-> rd.key, version |-> rd.version]
    BY Zenon
  <2>4. kvRead' = [kvRead EXCEPT ![r] = new]
    <3>1. kvRead' = [kvRead EXCEPT ![r] = [rd EXCEPT !.pc = "done"]]
      BY <1>2, <2>2 DEF ReadValue
    <3>2. [rd EXCEPT !.pc = "done"] = new
      BY <2>1, <2>3
    <3>. QED  BY <3>1, <3>2, Zenon
  <2>5. UNCHANGED <<Rows, kvObject, kvTx>>
    BY <1>2 DEF ReadValue
  <2>6. ReadOK(new)'
    BY <2>1, <2>3, <2>5, Zenon DEF ReadOK, Rows
  <2>. QED  BY <2>4, <2>5, <2>6, OneRead, Zenon
<1>3. CASE EndRead(r)
  <2>1. ReadOK(Idle)'
    BY DEF ReadOK, Idle
  <2>. QED  BY <1>3, <2>1, OneRead, ZenonT(30) DEF EndRead
<1>. QED  BY <1>1, <1>2, <1>3

LEMMA KVStepOK == KVInv /\ [KVNext]_kvVars => KVInv'
<1> SUFFICES ASSUME KVInv, [KVNext]_kvVars PROVE KVInv'
  OBVIOUS
<1>1. ASSUME NEW t \in Mutators, NEW q \in Mutations, LoadStore(t, q) \/ CreateStore(t, q)
      PROVE  KVInv'
  BY <1>1, MovesOK
<1>2. ASSUME NEW t \in Mutators, Answer(t) \/ Decide(t) \/ CommitLost(t) PROVE KVInv'
  <2>1. kvTx[t].q \in Mutations
    BY <1>2, Zenon DEF Answer, Decide, CommitLost, KVInv, MutationOK
  <2>. QED  BY <1>2, <2>1, MovesOK
<1>3. ASSUME NEW t \in Mutators,
             WriteObject(t) \/ WriteObjectFails(t) \/ CommitMutation(t) \/ FlushFails(t)
      PROVE  KVInv'
  BY <1>3, WriteObjectOK, WriteObjectFailsOK, CommitMutationOK, FlushFailsOK
<1>4. ASSUME NEW r \in KVReaders, NEW k \in RecordKeys, FindRecord(r, k) PROVE KVInv'
  BY <1>4, ReadsOK
<1>5. ASSUME NEW r \in KVReaders, ReadValue(r) \/ EndRead(r) PROVE KVInv'
  <2>1. kvRead[r].key \in RecordKeys
    BY <1>5, ZenonT(30) DEF ReadValue, EndRead, KVInv, ReadOK
  <2>. QED  BY <1>5, <2>1, ReadsOK
<1>6. ASSUME UNCHANGED <<kvRecord, kvHistory, kvReceipt, kvObject, kvTx, kvRead>> PROVE KVInv'
  <2>0. MutationAppliedOnce'
    BY <1>6, AppliedKept DEF KVInv
  <2>1. VersionsKeepTheirObject' /\ ShapeOK'
    BY <1>6, Zenon DEF KVInv, VersionsKeepTheirObject, ShapeOK
  <2>2. \A k \in RecordKeys : RecordOK(k)'
    BY <1>6 DEF KVInv, RecordOK, IsLive
  <2>3. \A t \in Mutators : MutationOK(kvTx[t])'
    BY <1>6, Zenon DEF KVInv, MutationOK, Unreferenced
  <2>4. \A r \in KVReaders : ReadOK(kvRead[r])'
    BY <1>6 DEF KVInv, ReadOK
  <2>. QED  BY <1>6, <2>0, <2>1, <2>2, <2>3, <2>4, Zenon DEF KVInv, HoldsStore
<1>7. CASE CreateEmptyStore \/ UNCHANGED kvVars
  BY <1>6, <1>7 DEF CreateEmptyStore, kvVars
<1>. QED  BY <1>1, <1>2, <1>3, <1>4, <1>5, <1>7 DEF KVNext

-----------------------------------------------------------------------------
\* In every reachable state rows, history, receipts and objects agree, one mutation at
\* most holds the store, and what it decided under the lock still holds.
THEOREM KVInvariance == KVSpec => []KVInv
BY KVInitOK, KVStepOK, PTL DEF KVSpec

\* A mutation takes effect once however often and however concurrently it is sent, and
\* its receipt names what it did (mutate_key_value_record, mutate_worker_key_value_record).
THEOREM AppliedOnce == KVSpec => []MutationAppliedOnce
<1>1. KVInv => MutationAppliedOnce
  BY DEF KVInv
<1>. QED  BY <1>1, KVInvariance, PTL

\* No clean-up of a failed mutation and no later version takes away the object of a
\* committed version (mutate_key_value_record deletes only what it uploaded itself).
THEOREM ObjectsKept == KVSpec => []VersionsKeepTheirObject
<1>1. KVInv => VersionsKeepTheirObject
  BY DEF KVInv
<1>. QED  BY <1>1, KVInvariance, PTL

\* A read that found the record finishes, with mutations committing between its queries
\* (get_key_value_record).
THEOREM WholeReads == KVSpec => []ReadsAreWhole
<1>1. KVInv => ReadsAreWhole
  BY ZenonT(30) DEF KVInv, ReadOK, ReadsAreWhole
<1>. QED  BY <1>1, KVInvariance, PTL

-----------------------------------------------------------------------------
(***************************************************************************)
(* Proofs about BrowserGateway, for every set of hosts and addresses, every*)
(* limit of the network policy and every behaviour of DNS.                 *)
(*                                                                         *)
(* The three properties speak of what has crossed (traffic).  What makes   *)
(* them hold is where the rest is: a request that was charged and has not  *)
(* been answered yet (Pending), and the bytes of a reply that the gateway  *)
(* is about to write (Ready) or that the page has not read yet (Carried).  *)
(* GatewayInv accounts for all three.                                      *)
(***************************************************************************)

Budgets == [requests : Nat, bytes : Nat, redirects : Nat]

\* Requests that were charged and have not reached an address yet
Pending == IF gate.at = "upstream" /\ (mode = "web" => job = "running") THEN 1 ELSE 0

\* Bytes on their way to the page
Carried == IF wire = <<>> THEN 0 ELSE Head(wire).size
Ready == IF gate.at = "send" THEN gate.reply.size ELSE 0

\* The account that comes with a reply covers it and the n bytes before it.
Covers(reply, n) ==
  IF reply.ok THEN n + reply.size <= reply.budget.bytes ELSE reply.size = 0

ReplyOK(reply) == reply.size \in Nat /\ reply.budget \in Budgets

GateOK(g) ==
  /\ g = [at |-> g.at, conns |-> g.conns, open |-> g.open, error |-> g.error,
          stop |-> g.stop, reply |-> g.reply, target |-> g.target, hops |-> g.hops]
  /\ ReplyOK(g.reply)
  /\ g.at = "upstream" => g.target.pinned \subseteq Global

PageOK(p) == p = [at |-> p.at, asked |-> p.asked, last |-> p.last] /\ p.last \in Budgets

WireOK(w) == w = <<>> \/ (w = <<Head(w)>> /\ ReplyOK(Head(w)))

\* The records are well formed, and a request at an upstream server was bound to
\* global addresses.
ShapeInv ==
  /\ GateOK(gate) /\ PageOK(page) /\ WireOK(wire) /\ budget \in Budgets
  /\ traffic \in [requests : Nat, reached : SUBSET Global, got : Nat]

\* The broker's account is ahead of the traffic, and inside the policy.
AccountInv ==
  /\ traffic.requests + Pending <= budget.requests
  /\ budget.requests <= MaxRequests
  /\ traffic.got + Carried + Ready <= budget.bytes
  /\ traffic.got + Carried + Ready <= MaxTotal

\* The account that the page reports covers what it got, and will do so when it has
\* read the replies that are on their way.
ReportInv ==
  mode = "live" =>
    /\ traffic.got <= page.last.bytes
    /\ wire # <<>> => Covers(Head(wire), traffic.got)
    /\ gate.at = "send" => Covers(gate.reply, traffic.got + Carried)

GatewayInv == ShapeInv /\ AccountInv /\ ReportInv

-----------------------------------------------------------------------------
LEMMA GatewayInitOK == GatewayInit => GatewayInv
<1> SUFFICES ASSUME GatewayInit PROVE GatewayInv
  OBVIOUS
<1>1. NoBudget \in Budgets /\ NoBudget.bytes = 0 /\ NoBudget.requests = 0
  BY DEF NoBudget, Budgets
<1>2. Denied.size = 0 /\ Denied.budget \in Budgets
  BY <1>1, SMTT(30) DEF Denied
<1>3. ShapeInv
  BY <1>1, <1>2 DEF GatewayInit, ShapeInv, GateOK, PageOK, WireOK, ReplyOK
<1>4. Carried = 0 /\ Ready = 0 /\ Pending = 0
  BY DEF GatewayInit, Carried, Ready, Pending
<1>5. AccountInv
  BY <1>1, <1>4, GatewayAssumption DEF GatewayInit, AccountInv
<1>6. ReportInv
  BY <1>1 DEF GatewayInit, ReportInv
<1>. QED  BY <1>3, <1>5, <1>6 DEF GatewayInv

-----------------------------------------------------------------------------
(* The gateway thread.                                                     *)

LEMMA Limits == MaxRequests \in Nat /\ MaxTotal \in Nat
BY GatewayAssumption

LEMMA CoversLess ==
  ASSUME NEW r, NEW m \in Nat, NEW n \in Nat, m <= n, ReplyOK(r), Covers(r, n)
  PROVE  Covers(r, m)
<1>1. r.size \in Nat /\ r.budget.bytes \in Nat
  BY DEF ReplyOK, Budgets
<1>2. n + r.size <= r.budget.bytes => m + r.size <= r.budget.bytes
  BY <1>1
<1>. QED  BY <1>2 DEF Covers

\* An action that leaves budget and traffic alone and puts nothing new on the way
LEMMA AtRest ==
  ASSUME GatewayInv, ShapeInv', UNCHANGED <<mode, budget, traffic>>,
         page'.last = page.last,
         wire' \in {<<>>, wire},
         gate'.at \in {"upstream", "send"} => gate'.at = gate.at /\ gate'.reply = gate.reply,
         Pending' <= Pending
  PROVE  GatewayInv'
<1>1. Carried' \in Nat /\ Carried' <= Carried /\ Ready' \in Nat /\ Ready' <= Ready
  BY DEF GatewayInv, ShapeInv, GateOK, WireOK, ReplyOK, Carried, Ready
<1>2. Carried \in Nat /\ Ready \in Nat /\ Pending \in Nat /\ Pending' \in Nat
  BY DEF GatewayInv, ShapeInv, GateOK, WireOK, ReplyOK, Carried, Ready, Pending
<1>0. /\ traffic.requests \in Nat /\ traffic.got \in Nat
      /\ budget.requests \in Nat /\ budget.bytes \in Nat
  BY DEF GatewayInv, ShapeInv, Budgets
<1>u. mode' = mode /\ budget' = budget /\ traffic' = traffic
  OBVIOUS
<1>3. AccountInv'
  <2>1. traffic.requests + Pending' <= budget.requests
    BY <1>0, <1>2 DEF GatewayInv, AccountInv
  <2>2. traffic.got + Carried' + Ready' <= traffic.got + Carried + Ready
    BY <1>0, <1>1, <1>2
  <2>3. traffic.got + Carried' + Ready' <= budget.bytes
    BY <1>0, <1>1, <1>2, <2>2 DEF GatewayInv, AccountInv
  <2>4. traffic.got + Carried' + Ready' <= MaxTotal
    BY <1>0, <1>1, <1>2, <2>2, Limits DEF GatewayInv, AccountInv
  <2>. QED  BY <1>u, <2>1, <2>3, <2>4 DEF GatewayInv, AccountInv
<1>4. ReportInv'
  <2> SUFFICES ASSUME mode = "live" PROVE ReportInv'
    BY DEF ReportInv
  <2>1. wire' # <<>> => Covers(Head(wire'), traffic'.got)
    BY DEF GatewayInv, ReportInv
  <2>2. ASSUME gate'.at = "send" PROVE Covers(gate'.reply, traffic'.got + Carried')
    <3>1. Covers(gate.reply, traffic.got + Carried)
      BY <2>2 DEF GatewayInv, ReportInv
    <3>2. ReplyOK(gate.reply)
      BY DEF GatewayInv, ShapeInv, GateOK
    <3>3. gate'.reply = gate.reply
      BY <2>2
    <3>4. /\ traffic.got + Carried' \in Nat /\ traffic.got + Carried \in Nat
          /\ traffic.got + Carried' <= traffic.got + Carried
      BY <1>0, <1>1, <1>2
    <3>5. Covers(gate.reply, traffic.got + Carried')
      BY <3>1, <3>2, <3>4, CoversLess
    <3>. QED  BY <1>u, <3>3, <3>5
  <2>. QED  BY <2>1, <2>2 DEF GatewayInv, ReportInv
<1>. QED  BY <1>3, <1>4 DEF GatewayInv

LEMMA AcceptOK == GatewayInv /\ Accept => GatewayInv'
<1> SUFFICES ASSUME GatewayInv, Accept PROVE GatewayInv'
  OBVIOUS
<1>1. GateOK(gate) /\ PageOK(page)
  BY DEF GatewayInv, ShapeInv
<1>2. GateOK(gate') /\ gate'.at \notin {"upstream", "send"}
  BY <1>1, Zenon DEF Accept, Fails, GateOK
<1>4. ShapeInv'
  BY <1>1, <1>2 DEF Accept, GatewayInv, ShapeInv, WireOK
<1>5. Pending' <= Pending
  BY <1>1, <1>2 DEF Accept, Pending
<1>. QED  BY <1>1, <1>2, <1>4, <1>5, AtRest DEF Accept

LEMMA GateStopsOK == GatewayInv /\ GateStops => GatewayInv'
<1> SUFFICES ASSUME GatewayInv, GateStops PROVE GatewayInv'
  OBVIOUS
<1>1. GateOK(gate) /\ PageOK(page)
  BY DEF GatewayInv, ShapeInv
<1>2. GateOK(gate') /\ gate'.at \notin {"upstream", "send"}
  BY <1>1 DEF GateStops, GateOK
<1>4. ShapeInv'
  BY <1>1, <1>2 DEF GateStops, GatewayInv, ShapeInv, WireOK
<1>5. Pending' <= Pending
  BY <1>1, <1>2 DEF GateStops, Pending
<1>. QED  BY <1>1, <1>2, <1>4, <1>5, AtRest DEF GateStops

LEMMA DnsChangesOK == GatewayInv /\ DnsChanges => GatewayInv'
<1> SUFFICES ASSUME GatewayInv, DnsChanges PROVE GatewayInv'
  OBVIOUS
<1>1. GateOK(gate) /\ PageOK(page)
  BY DEF GatewayInv, ShapeInv
<1>4. ShapeInv'
  BY <1>1 DEF DnsChanges, GatewayInv, ShapeInv, WireOK
<1>5. Pending' <= Pending
  BY <1>1 DEF DnsChanges, Pending
<1>. QED  BY <1>1, <1>4, <1>5, AtRest DEF DnsChanges

LEMMA PageAsksOK == GatewayInv /\ PageAsks => GatewayInv'
<1> SUFFICES ASSUME GatewayInv, PageAsks PROVE GatewayInv'
  OBVIOUS
<1>1. GateOK(gate) /\ PageOK(page)
  BY DEF GatewayInv, ShapeInv
<1>3. PageOK(page') /\ page'.last = page.last
  BY <1>1, Zenon DEF PageAsks, PageOK
<1>4. ShapeInv'
  BY <1>1, <1>3 DEF PageAsks, GatewayInv, ShapeInv, WireOK
<1>5. Pending' <= Pending
  BY <1>1, <1>3 DEF PageAsks, Pending
<1>. QED  BY <1>1, <1>3, <1>4, <1>5, AtRest DEF PageAsks

LEMMA PageLosesReplyOK == GatewayInv /\ PageLosesReply => GatewayInv'
<1> SUFFICES ASSUME GatewayInv, PageLosesReply PROVE GatewayInv'
  OBVIOUS
<1>1. GateOK(gate) /\ PageOK(page)
  BY DEF GatewayInv, ShapeInv
<1>2. GateOK(gate') /\ gate'.at = gate.at /\ gate'.reply = gate.reply
  BY <1>1, Zenon DEF PageLosesReply, GateOK
<1>3. PageOK(page') /\ page'.last = page.last
  BY <1>1 DEF PageLosesReply, Exit, PageOK
<1>4. ShapeInv'
  BY <1>1, <1>2, <1>3 DEF PageLosesReply, GatewayInv, ShapeInv, WireOK
<1>5. Pending' <= Pending
  BY <1>1, <1>2, <1>3 DEF PageLosesReply, Pending
<1>. QED  BY <1>1, <1>2, <1>3, <1>4, <1>5, AtRest DEF PageLosesReply

LEMMA PageExitsOK == GatewayInv /\ PageExits => GatewayInv'
<1> SUFFICES ASSUME GatewayInv, PageExits PROVE GatewayInv'
  OBVIOUS
<1>1. GateOK(gate) /\ PageOK(page)
  BY DEF GatewayInv, ShapeInv
<1>3. PageOK(page') /\ page'.last = page.last
  BY <1>1 DEF PageExits, Exit, PageOK
<1>4. ShapeInv'
  BY <1>1, <1>3 DEF PageExits, GatewayInv, ShapeInv, WireOK
<1>5. Pending' <= Pending
  BY <1>1, <1>3 DEF PageExits, Pending
<1>. QED  BY <1>1, <1>3, <1>4, <1>5, AtRest DEF PageExits

LEMMA StartOK == GatewayInv /\ Start => GatewayInv'
<1> SUFFICES ASSUME GatewayInv, Start PROVE GatewayInv'
  OBVIOUS
<1>1. GateOK(gate) /\ PageOK(page)
  BY DEF GatewayInv, ShapeInv
<1>2. GateOK(gate') /\ (gate'.at \in {"upstream", "send"} => gate' = gate /\ mode = "selftest")
  BY <1>1 DEF Start, GateOK
<1>3. PageOK(page') /\ page'.last = page.last
  BY <1>1 DEF Start, PageOK
<1>4. ShapeInv'
  BY <1>1, <1>2, <1>3 DEF Start, GatewayInv, ShapeInv, WireOK
<1>5. Pending' <= Pending
  BY <1>1, <1>2, <1>3 DEF Start, Pending
<1>. QED  BY <1>1, <1>2, <1>3, <1>4, <1>5, AtRest DEF Start

LEMMA TimesOutOK == GatewayInv /\ TimesOut => GatewayInv'
<1> SUFFICES ASSUME GatewayInv, TimesOut PROVE GatewayInv'
  OBVIOUS
<1>1. GateOK(gate) /\ PageOK(page)
  BY DEF GatewayInv, ShapeInv
<1>2. GateOK(gate') /\ (gate'.at \in {"upstream", "send"} => gate'.at = gate.at /\ gate'.reply = gate.reply)
  BY <1>1, Zenon DEF TimesOut, GateOK
<1>3. PageOK(page') /\ page'.last = page.last
  BY <1>1 DEF TimesOut, Exit, PageOK
<1>4. ShapeInv'
  BY <1>1, <1>2, <1>3 DEF TimesOut, GatewayInv, ShapeInv, WireOK
<1>5. Pending' <= Pending
  BY <1>1, <1>2, <1>3 DEF TimesOut, Pending
<1>. QED  BY <1>1, <1>2, <1>3, <1>4, <1>5, AtRest DEF TimesOut

LEMMA StopOK == GatewayInv /\ Stop => GatewayInv'
<1> SUFFICES ASSUME GatewayInv, Stop PROVE GatewayInv'
  OBVIOUS
<1>1. GateOK(gate) /\ PageOK(page)
  BY DEF GatewayInv, ShapeInv
<1>2. GateOK(gate') /\ gate'.at = gate.at /\ gate'.reply = gate.reply
  BY <1>1, Zenon DEF Stop, GateOK
<1>4. ShapeInv'
  BY <1>1, <1>2 DEF Stop, GatewayInv, ShapeInv, WireOK
<1>5. Pending' <= Pending
  BY <1>1, <1>2 DEF Stop, Pending
<1>. QED  BY <1>1, <1>2, <1>4, <1>5, AtRest DEF Stop

LEMMA JudgeOK == GatewayInv /\ Judge => GatewayInv'
<1> SUFFICES ASSUME GatewayInv, Judge PROVE GatewayInv'
  OBVIOUS
<1>1. GateOK(gate) /\ PageOK(page)
  BY DEF GatewayInv, ShapeInv
<1>4. ShapeInv'
  BY <1>1 DEF Judge, GatewayInv, ShapeInv, WireOK
<1>5. Pending' <= Pending
  BY <1>1 DEF Judge, Pending
<1>. QED  BY <1>1, <1>4, <1>5, AtRest DEF Judge

LEMMA FetchesDoneOK == GatewayInv /\ FetchesDone => GatewayInv'
<1> SUFFICES ASSUME GatewayInv, FetchesDone PROVE GatewayInv'
  OBVIOUS
<1>1. GateOK(gate) /\ PageOK(page)
  BY DEF GatewayInv, ShapeInv
<1>4. ShapeInv'
  BY <1>1 DEF FetchesDone, GatewayInv, ShapeInv, WireOK
<1>5. Pending' <= Pending
  BY <1>1 DEF FetchesDone, Pending
<1>. QED  BY <1>1, <1>4, <1>5, AtRest DEF FetchesDone

-----------------------------------------------------------------------------
(* Requests, replies and bytes.                                            *)

LEMMA Amounts ==
  ASSUME ShapeInv
  PROVE  /\ traffic.requests \in Nat /\ traffic.got \in Nat
         /\ budget.requests \in Nat /\ budget.bytes \in Nat
         /\ Carried \in Nat /\ Ready \in Nat /\ Pending \in Nat
<1>1. Carried \in Nat
  BY DEF ShapeInv, WireOK, ReplyOK, Carried
<1>2. Ready \in Nat /\ Pending \in Nat
  BY DEF ShapeInv, GateOK, ReplyOK, Ready, Pending
<1>. QED  BY <1>1, <1>2 DEF ShapeInv, Budgets

LEMMA DeniedOK == ReplyOK(Denied) /\ Denied.size = 0 /\ \A n : Covers(Denied, n)
BY DEF Denied, NoBudget, ReplyOK, Covers, Budgets

LEMMA SendOK == GatewayInv /\ Send => GatewayInv'
<1> SUFFICES ASSUME GatewayInv, Send PROVE GatewayInv'
  OBVIOUS
<1>1. GateOK(gate) /\ ReplyOK(gate.reply)
  BY DEF GatewayInv, ShapeInv, GateOK
<1>2. CASE gate.open /\ wire' = <<gate.reply>>
                     /\ gate' = [gate EXCEPT !.at = IF gate.stop THEN "ended" ELSE "accept"]
  <2>1. GateOK(gate') /\ gate'.at \notin {"upstream", "send"}
    BY <1>1, <1>2 DEF GateOK
  <2>2. wire' # <<>> /\ Head(wire') = gate.reply /\ WireOK(wire')
    BY <1>1, <1>2 DEF WireOK
  <2>3. ShapeInv'
    BY <2>1, <2>2 DEF Send, GatewayInv, ShapeInv
  <2>4. Pending' = 0 /\ Ready' = 0 /\ Carried' = Ready
    BY <2>1, <2>2 DEF Send, Pending, Ready, Carried
  <2>5. UNCHANGED <<mode, budget, traffic, page>>
    BY DEF Send
  <2>6. AccountInv'
    BY <2>4, <2>5, Amounts, Limits DEF GatewayInv, AccountInv
  <2>7. ASSUME mode = "live" PROVE Covers(Head(wire)', traffic.got)
    <3>1. Covers(gate.reply, traffic.got + Carried)
      BY <2>7 DEF Send, GatewayInv, ReportInv
    <3>2. traffic.got \in Nat /\ traffic.got + Carried \in Nat /\ traffic.got <= traffic.got + Carried
      BY Amounts DEF GatewayInv
    <3>. QED  BY <1>1, <2>2, <3>1, <3>2, CoversLess
  <2>8. ReportInv'
    BY <2>1, <2>2, <2>5, <2>7 DEF GatewayInv, ReportInv
  <2>. QED  BY <2>3, <2>6, <2>8 DEF GatewayInv
<1>3. CASE ~gate.open /\ gate' = Fails /\ UNCHANGED wire
  <2>1. GateOK(gate') /\ gate'.at \notin {"upstream", "send"}
    BY <1>1, <1>3, Zenon DEF GateOK, Fails
  <2>2. ShapeInv'
    BY <1>3, <2>1 DEF Send, GatewayInv, ShapeInv
  <2>3. Pending' <= Pending
    BY <2>1 DEF Pending
  <2>. QED  BY <1>3, <2>1, <2>2, <2>3, AtRest DEF Send
<1>. QED  BY <1>2, <1>3 DEF Send

LEMMA ServePingOK == GatewayInv /\ ServePing => GatewayInv'
<1> SUFFICES ASSUME GatewayInv, ServePing PROVE GatewayInv'
  OBVIOUS
<1>1. GateOK(gate)
  BY DEF GatewayInv, ShapeInv
<1>2. GateOK(gate') /\ gate'.at \notin {"upstream", "send"}
  BY <1>1 DEF ServePing, Fails, GateOK
<1>3. WireOK(wire') /\ (wire' = wire \/ Carried' = 0)
  <2> DEFINE pong == [ok |-> TRUE, size |-> 0, budget |-> NoBudget]
  <2>1. CASE wire' = wire
    BY <2>1 DEF GatewayInv, ShapeInv
  <2>2. CASE wire' = <<pong>>
    <3>1. ReplyOK(pong) /\ pong.size = 0
      BY DEF ReplyOK, NoBudget, Budgets
    <3>2. wire' # <<>> /\ Head(wire') = pong
      BY <2>2
    <3>. QED  BY <2>2, <3>1, <3>2 DEF WireOK, Carried
  <2>. QED  BY <2>1, <2>2, Zenon DEF ServePing
<1>4. UNCHANGED <<mode, budget, traffic, page>> /\ mode = "transport"
  BY Zenon DEF ServePing
<1>5. ShapeInv'
  BY <1>2, <1>3, <1>4 DEF GatewayInv, ShapeInv
<1>6. Pending' = 0 /\ Ready' = 0 /\ (Carried' = Carried \/ Carried' = 0)
  BY <1>2, <1>3 DEF Pending, Ready, Carried
<1>7. AccountInv'
  BY <1>4, <1>6, Amounts, Limits DEF GatewayInv, AccountInv
<1>8. ReportInv'
  BY <1>4 DEF ReportInv
<1>. QED  BY <1>5, <1>7, <1>8 DEF GatewayInv

LEMMA PageReceivesOK == GatewayInv /\ PageReceives => GatewayInv'
<1> SUFFICES ASSUME GatewayInv, PageReceives PROVE GatewayInv'
  OBVIOUS
<1> DEFINE reply == Head(wire)
<1>1. ReplyOK(reply) /\ reply.size \in Nat /\ reply.size = Carried
  BY DEF PageReceives, GatewayInv, ShapeInv, WireOK, ReplyOK, Carried
<1>2. PageOK(page) /\ page.last.bytes \in Nat
  BY DEF GatewayInv, ShapeInv, PageOK, Budgets
<1>3. PageOK(page') /\ page'.last = LastBudget(page.last, reply)
  BY <1>1, <1>2, Zenon DEF PageReceives, PageOK, LastBudget, ReplyOK
<1>4. /\ traffic' \in [requests : Nat, reached : SUBSET Global, got : Nat]
      /\ traffic'.requests = traffic.requests /\ traffic'.got = traffic.got + reply.size
  BY <1>1 DEF PageReceives, GatewayInv, ShapeInv
<1>5. UNCHANGED <<mode, job, gate, budget>> /\ wire' = <<>>
  BY DEF PageReceives
<1>6. ShapeInv'
  BY <1>3, <1>4, <1>5 DEF GatewayInv, ShapeInv, WireOK
<1>7. Carried' = 0 /\ Ready' = Ready /\ Pending' = Pending
  BY <1>5 DEF Carried, Ready, Pending
<1>8. traffic'.got + Carried' + Ready' = traffic.got + Carried + Ready
  BY <1>1, <1>4, <1>7, Amounts DEF GatewayInv
<1>9. AccountInv'
  BY <1>4, <1>5, <1>7, <1>8 DEF GatewayInv, AccountInv
<1>10. ReportInv'
  <2> SUFFICES ASSUME mode = "live" PROVE ReportInv'
    BY <1>5 DEF ReportInv
  <2>1. traffic.got <= page.last.bytes /\ Covers(reply, traffic.got)
    BY DEF PageReceives, GatewayInv, ReportInv
  <2>2. traffic'.got <= page'.last.bytes
    <3>1. CASE reply.ok
      BY <1>3, <1>4, <2>1, <3>1 DEF Covers, LastBudget
    <3>2. CASE ~reply.ok
      <4>1. reply.size = 0
        BY <2>1, <3>2 DEF Covers
      <4>2. traffic'.got = traffic.got
        BY <1>4, <4>1, Amounts DEF GatewayInv
      <4>. QED  BY <1>3, <2>1, <3>2, <4>2 DEF LastBudget
    <3>. QED  BY <3>1, <3>2
  <2>3. traffic'.got + Carried' = traffic.got + Carried
    BY <1>1, <1>4, <1>7, Amounts DEF GatewayInv
  <2>4. gate'.at = "send" => Covers(gate'.reply, traffic'.got + Carried')
    BY <1>5, <2>3 DEF GatewayInv, ReportInv
  <2>. QED  BY <1>5, <2>2, <2>4 DEF ReportInv
<1>. QED  BY <1>6, <1>9, <1>10 DEF GatewayInv

\* A request that is forwarded is charged and bound to global addresses.
LEMMA ForwardOK ==
  ASSUME GatewayInv, NEW h \in Hosts, ValidTarget(h), budget.requests < MaxRequests,
         Forward(h), gate.at = "serve", UNCHANGED <<mode, wire, page, traffic>>
  PROVE  GatewayInv'
<1>0. GateOK(gate) /\ budget \in Budgets /\ dns[h] \subseteq Global
  BY DEF GatewayInv, ShapeInv, ValidTarget, ResolvesPublic
<1>1. GateOK(gate') /\ gate'.at = "upstream"
  <2>1. /\ gate' = [gate EXCEPT !.at = "upstream", !.target = [host |-> h, pinned |-> dns[h]]]
        /\ [host |-> h, pinned |-> dns[h]].pinned \subseteq Global
    BY <1>0 DEF Forward
  <2>. QED  BY <1>0, <2>1, Zenon DEF GateOK
<1>2. /\ budget' \in Budgets /\ budget'.requests = budget.requests + 1
      /\ budget'.bytes = budget.bytes
  BY <1>0 DEF Forward, Charged, Budgets
<1>3. ShapeInv'
  BY <1>1, <1>2 DEF GatewayInv, ShapeInv
<1>4. Pending' <= 1 /\ Pending' \in Nat /\ Pending = 0 /\ Ready' = 0 /\ Ready = 0 /\ Carried' = Carried
  BY <1>1 DEF Pending, Ready, Carried
<1>5. AccountInv'
  BY <1>2, <1>4, Amounts, Limits DEF GatewayInv, AccountInv
<1>6. ReportInv'
  BY <1>1 DEF GatewayInv, ReportInv
<1>. QED  BY <1>3, <1>5, <1>6 DEF GatewayInv

\* A denial carries no bytes.
LEMMA DenyOK ==
  ASSUME GatewayInv, Deny, gate.at # "send", UNCHANGED <<mode, wire, page, budget>>,
         traffic' \in [requests : Nat, reached : SUBSET Global, got : Nat],
         traffic'.got = traffic.got,
         traffic'.requests <= traffic.requests + Pending
  PROVE  GatewayInv'
<1>1. GateOK(gate') /\ gate'.at = "send" /\ gate'.reply = Denied
  BY DeniedOK, Zenon DEF Deny, GateOK, GatewayInv, ShapeInv
<1>2. ShapeInv'
  BY <1>1 DEF GatewayInv, ShapeInv
<1>3. Pending' = 0 /\ Ready' = 0 /\ Ready = 0 /\ Carried' = Carried
  BY <1>1, DeniedOK DEF Pending, Ready, Carried
<1>4. traffic'.requests \in Nat
  OBVIOUS
<1>5. AccountInv'
  BY <1>3, <1>4, Amounts, Limits, SMTT(30) DEF GatewayInv, AccountInv
<1>6. ReportInv'
  BY <1>1, DeniedOK DEF GatewayInv, ReportInv
<1>. QED  BY <1>2, <1>5, <1>6 DEF GatewayInv

LEMMA HandleRequestOK ==
  ASSUME GatewayInv, NEW h \in Hosts, HandleRequest(h) PROVE GatewayInv'
<1>0. gate.at = "serve" /\ UNCHANGED <<mode, wire, page, traffic>>
  BY DEF HandleRequest
<1>1. CASE budget.requests < MaxRequests /\ ValidTarget(h) /\ Forward(h)
  BY <1>0, <1>1, ForwardOK
<1>2. CASE Deny /\ UNCHANGED budget
  <2>1. traffic'.requests <= traffic.requests + Pending
    BY <1>0, Amounts DEF GatewayInv
  <2>. QED  BY <1>0, <1>2, <2>1, DenyOK DEF GatewayInv, ShapeInv
<1>. QED  BY <1>1, <1>2 DEF HandleRequest

LEMMA FetchOK ==
  ASSUME GatewayInv, NEW h \in Hosts, Fetch(h) PROVE GatewayInv'
<1>0. gate.at = "serve" /\ UNCHANGED <<mode, wire, page, traffic>>
  BY DEF Fetch
<1>1. CASE budget.requests < MaxRequests /\ ValidTarget(h) /\ Forward(h)
  BY <1>0, <1>1, ForwardOK
<1>2. CASE job' = "failed" /\ UNCHANGED <<gate, budget>>
  <2>1. ShapeInv'
    BY <1>0, <1>2 DEF GatewayInv, ShapeInv
  <2>2. Pending' <= Pending
    BY <1>0, <1>2 DEF Pending
  <2>. QED  BY <1>0, <1>2, <2>1, <2>2, AtRest
<1>. QED  BY <1>1, <1>2 DEF Fetch

\* The request that was pending has reached a global address, and n bytes have been
\* received.
LEMMA ReachOK ==
  ASSUME GatewayInv, NEW a \in Dial(gate.target), gate.at = "upstream", NEW n \in Nat,
         traffic' = [requests |-> traffic.requests + 1, reached |-> traffic.reached \cup {a},
                     got |-> n]
  PROVE  /\ traffic' \in [requests : Nat, reached : SUBSET Global, got : Nat]
         /\ traffic'.got = n /\ traffic'.requests = traffic.requests + 1
<1>1. a \in Global
  BY DEF GatewayInv, ShapeInv, GateOK, Dial
<1>2. traffic.reached \cup {a} \subseteq Global
  BY <1>1 DEF GatewayInv, ShapeInv
<1>. QED  BY <1>2, Amounts DEF GatewayInv

LEMMA AnswerTypes ==
  ASSUME NEW ans \in UpstreamAnswers
  PROVE  ans.size \in Nat /\ (ans.kind # "body" => ans.size = 0)
BY GatewayAssumption DEF UpstreamAnswers, Sizes

LEMMA AnswerRequestOK ==
  ASSUME GatewayInv, NEW ans \in UpstreamAnswers, NEW a \in Addresses, AnswerRequest(ans, a)
  PROVE  GatewayInv'
<1>0. gate.at = "upstream" /\ mode = "live" /\ UNCHANGED <<mode, wire, page>> /\ Reach(a)
  BY SMTT(30) DEF AnswerRequest
<1>1. /\ traffic' \in [requests : Nat, reached : SUBSET Global, got : Nat]
      /\ traffic'.got = traffic.got /\ traffic'.requests = traffic.requests + 1
  <2>1. traffic' = [requests |-> traffic.requests + 1, reached |-> traffic.reached \cup {a},
                    got |-> traffic.got]
    BY <1>0, Zenon DEF GatewayInv, ShapeInv, Reach
  <2>2. a \in Dial(gate.target) /\ traffic.got \in Nat
    BY <1>0, Amounts, SMTT(30) DEF Reach, GatewayInv
  <2>. QED  BY <1>0, <2>1, <2>2, ReachOK
<1>2. Pending = 1 /\ Ready = 0 /\ Carried' = Carried
  BY <1>0 DEF Pending, Ready, Carried
<1>3. GateOK(gate) /\ budget \in Budgets
  BY DEF GatewayInv, ShapeInv
\* A reply, with the bytes it carries and the account it comes with
<1>4. ASSUME NEW r, ReplyOK(r), gate' = [gate EXCEPT !.at = "send", !.reply = r],
             budget' \in Budgets, budget'.requests = budget.requests,
             traffic.got + Carried + r.size <= budget'.bytes,
             traffic.got + Carried + r.size <= MaxTotal,
             Covers(r, traffic.got + Carried)
      PROVE  GatewayInv'
  <2>1. GateOK(gate') /\ gate'.at = "send" /\ gate'.reply = r
    BY <1>3, <1>4, Zenon DEF GateOK
  <2>2. ShapeInv'
    BY <1>0, <1>1, <1>4, <2>1 DEF GatewayInv, ShapeInv
  <2>3. Pending' = 0 /\ Ready' = r.size
    BY <2>1 DEF Pending, Ready
  <2>4. AccountInv'
    BY <1>1, <1>2, <1>4, <2>3, Amounts DEF GatewayInv, AccountInv
  <2>5. ReportInv'
    BY <1>0, <1>1, <1>2, <1>4, <2>1 DEF GatewayInv, ReportInv
  <2>. QED  BY <2>2, <2>4, <2>5 DEF GatewayInv
<1>5. CASE /\ ans.kind = "body"
           /\ budget' = [budget EXCEPT !.bytes = @ + ans.size]
           /\ gate' = [gate EXCEPT !.at = "send", !.reply = BodyReply(budget, ans.size)]
  <2>1. /\ budget' \in Budgets /\ budget'.requests = budget.requests
        /\ budget'.bytes = budget.bytes + ans.size
    BY <1>3, <1>5, AnswerTypes DEF Budgets
  <2>2. CASE budget.bytes + ans.size > MaxTotal
    <3>1. BodyReply(budget, ans.size) = Denied
      BY <2>2 DEF BodyReply
    <3>2. traffic.got + Carried + 0 <= budget'.bytes /\ traffic.got + Carried + 0 <= MaxTotal
      BY <1>2, <2>1, Amounts, Limits, AnswerTypes DEF GatewayInv, AccountInv
    <3>. QED  BY <1>4, <1>5, <2>1, <3>1, <3>2, DeniedOK, Zenon
  <2>3. CASE ~(budget.bytes + ans.size > MaxTotal)
    <3> DEFINE r == [ok |-> TRUE, size |-> ans.size, budget |-> budget']
    <3>1. BodyReply(budget, ans.size) = r
      BY <1>5, <2>3, SMTT(30) DEF BodyReply
    <3>2. ReplyOK(r) /\ r.size = ans.size /\ r.ok /\ r.budget = budget'
      BY <2>1, AnswerTypes DEF ReplyOK
    <3>3. /\ traffic.got + Carried + ans.size <= budget'.bytes
          /\ traffic.got + Carried + ans.size <= MaxTotal
      BY <1>2, <2>1, <2>3, Amounts, Limits, AnswerTypes DEF GatewayInv, AccountInv
    <3>4. Covers(r, traffic.got + Carried)
      BY <3>2, <3>3 DEF Covers
    <3>. QED  BY <1>4, <1>5, <2>1, <3>1, <3>2, <3>3, <3>4, Zenon
  <2>. QED  BY <2>2, <2>3
<1>6. CASE /\ budget' = [budget EXCEPT !.redirects = @ + 1]
           /\ gate' = [gate EXCEPT !.at = "send",
                                   !.reply = [ok |-> TRUE, size |-> 0, budget |-> budget']]
  <2> DEFINE r == [ok |-> TRUE, size |-> 0, budget |-> budget']
  <2>1. /\ budget' \in Budgets /\ budget'.requests = budget.requests
        /\ budget'.bytes = budget.bytes
    BY <1>3, <1>6 DEF Budgets
  <2>2. ReplyOK(r) /\ r.size = 0 /\ r.ok /\ r.budget = budget'
    BY <2>1 DEF ReplyOK
  <2>3. traffic.got + Carried + 0 <= budget'.bytes /\ traffic.got + Carried + 0 <= MaxTotal
    BY <1>2, <2>1, Amounts, Limits DEF GatewayInv, AccountInv
  <2>4. Covers(r, traffic.got + Carried)
    BY <2>2, <2>3 DEF Covers
  <2>. QED  BY <1>4, <1>6, <2>1, <2>2, <2>3, <2>4, Zenon
<1>7. CASE Deny /\ UNCHANGED budget
  <2>1. traffic'.requests <= traffic.requests + Pending
    BY <1>1, <1>2, Amounts DEF GatewayInv
  <2>. QED  BY <1>0, <1>1, <1>7, <2>1, DenyOK
<1>. QED  BY <1>5, <1>6, <1>7 DEF AnswerRequest

LEMMA AnswerFetchOK ==
  ASSUME GatewayInv, NEW ans \in UpstreamAnswers, NEW a \in Addresses, AnswerFetch(ans, a)
  PROVE  GatewayInv'
<1> DEFINE n == traffic.got + IF job' = "running" THEN ans.size ELSE 0
<1>0. /\ gate.at = "upstream" /\ mode = "web" /\ job = "running" /\ UNCHANGED <<mode, wire, page>>
      /\ a \in Dial(gate.target)
  BY DEF AnswerFetch
<1>1. n \in Nat
  BY Amounts, AnswerTypes, SMTT(30) DEF GatewayInv
<1>2. /\ traffic' \in [requests : Nat, reached : SUBSET Global, got : Nat]
      /\ traffic'.got = n /\ traffic'.requests = traffic.requests + 1
  <2>1. traffic' = [requests |-> traffic.requests + 1, reached |-> traffic.reached \cup {a}, got |-> n]
    BY Zenon DEF GatewayInv, ShapeInv, AnswerFetch
  <2>. QED  BY <1>0, <1>1, <2>1, ReachOK
<1>3. GateOK(gate) /\ budget \in Budgets
  BY DEF GatewayInv, ShapeInv
<1>4. Pending = 1 /\ Ready = 0 /\ Carried' = Carried
  BY <1>0 DEF Pending, Ready, Carried
<1>5. ASSUME GateOK(gate'), gate'.at # "send", gate'.at = "upstream" => job' # "running",
             budget' \in Budgets, budget'.requests = budget.requests,
             n + Carried <= budget'.bytes, n + Carried <= MaxTotal
      PROVE  GatewayInv'
  <2>1. ShapeInv'
    BY <1>0, <1>2, <1>5 DEF GatewayInv, ShapeInv
  <2>2. Pending' = 0 /\ Ready' = 0
    BY <1>0, <1>5 DEF Pending, Ready
  <2>3. AccountInv'
    BY <1>1, <1>2, <1>4, <1>5, <2>2, Amounts DEF GatewayInv, AccountInv
  <2>4. ReportInv'
    BY <1>0 DEF ReportInv
  <2>. QED  BY <2>1, <2>3, <2>4 DEF GatewayInv
<1>6. CASE /\ ans.kind = "redirect" /\ UNCHANGED <<job, budget>>
           /\ gate' = [gate EXCEPT !.at = "serve", !.hops = @ + 1,
                                   !.target = [host |-> ans.to, pinned |-> {}]]
  <2>1. GateOK(gate') /\ gate'.at = "serve"
    BY <1>3, <1>6, Zenon DEF GateOK
  <2>2. n = traffic.got
    BY <1>6, AnswerTypes, Amounts DEF GatewayInv
  <2>3. n + Carried <= budget.bytes /\ n + Carried <= MaxTotal
    BY <1>4, <2>2, Amounts, Limits DEF GatewayInv, AccountInv
  <2>. QED  BY <1>3, <1>5, <1>6, <2>1, <2>3
<1>7. CASE /\ budget' = [budget EXCEPT !.bytes = @ + ans.size]
           /\ job' \in {"failed"} \cup (IF BodyReply(budget, ans.size).ok THEN {job} ELSE {})
           /\ gate' = [gate EXCEPT !.at = "serve", !.hops = 0]
  <2>1. GateOK(gate') /\ gate'.at = "serve"
    BY <1>3, <1>7, Zenon DEF GateOK
  <2>2. /\ budget' \in Budgets /\ budget'.requests = budget.requests
        /\ budget'.bytes = budget.bytes + ans.size
    BY <1>3, <1>7, AnswerTypes DEF Budgets
  <2>3. job' = "running" => budget.bytes + ans.size <= MaxTotal
    <3>1. job' = "running" => BodyReply(budget, ans.size).ok
      BY <1>7
    <3>2. BodyReply(budget, ans.size).ok => ~(budget.bytes + ans.size > MaxTotal)
      BY DEF BodyReply, Denied
    <3>. QED  BY <3>1, <3>2, Amounts, Limits, AnswerTypes DEF GatewayInv
  <2>4. n + Carried <= budget'.bytes /\ n + Carried <= MaxTotal
    BY <1>4, <2>2, <2>3, Amounts, Limits, AnswerTypes DEF GatewayInv, AccountInv
  <2>. QED  BY <1>5, <2>1, <2>2, <2>4
<1>8. CASE job' = "failed" /\ UNCHANGED <<gate, budget>>
  <2>1. n + Carried <= budget.bytes /\ n + Carried <= MaxTotal
    BY <1>4, <1>8, Amounts, Limits DEF GatewayInv, AccountInv
  <2>. QED  BY <1>0, <1>3, <1>5, <1>8, <2>1
<1>. QED  BY <1>6, <1>7, <1>8 DEF AnswerFetch

LEMMA GatewayStepOK == GatewayInv /\ [GatewayNext]_gatewayVars => GatewayInv'
<1>1. ASSUME GatewayInv, UNCHANGED gatewayVars PROVE GatewayInv'
  <2>1. ShapeInv' /\ Pending' = Pending /\ UNCHANGED <<mode, budget, traffic, page, wire, gate>>
    BY <1>1 DEF gatewayVars, GatewayInv, ShapeInv, Pending
  <2>2. Pending' <= Pending
    BY <2>1, <1>1, Amounts DEF GatewayInv
  <2>. QED  BY <1>1, <2>1, <2>2, AtRest
<1>. QED
  BY <1>1, DnsChangesOK, AcceptOK, SendOK, GateStopsOK, ServePingOK, PageAsksOK, PageReceivesOK,
     PageLosesReplyOK, PageExitsOK, StartOK, TimesOutOK, StopOK, JudgeOK, FetchesDoneOK,
     HandleRequestOK, FetchOK, AnswerRequestOK, AnswerFetchOK DEF GatewayNext

-----------------------------------------------------------------------------
\* In every reachable state the broker's account covers what has crossed and what is on
\* its way, and a request at an upstream server is bound to global addresses.
THEOREM GatewayInvariance == GatewaySpec => []GatewayInv
BY GatewayInitOK, GatewayStepOK, PTL DEF GatewaySpec

\* No more requests leave the worker than max_requests and the Run receives no more than
\* max_total_bytes, for every policy and whatever is lost, denied or redirected
\* (handle_request, _fetch).
THEOREM BudgetKept == GatewaySpec => []TrafficWithinBudget
<1>1. GatewayInv => TrafficWithinBudget
  BY Amounts, Limits DEF GatewayInv, AccountInv, TrafficWithinBudget
<1>. QED  BY <1>1, GatewayInvariance, PTL

\* Only addresses that were validated are reached, whatever DNS answers afterwards
\* (validate_target, _PinnedHTTPSConnection).
THEOREM OnlyGlobal == GatewaySpec => []ReachesValidated
<1>1. GatewayInv => ReachesValidated
  BY DEF GatewayInv, ShapeInv, ReachesValidated
<1>. QED  BY <1>1, GatewayInvariance, PTL

\* The egress_budget that an accepted live navigation reports covers every byte the page
\* received (last_budget of _route_request, run_browser_live_navigation).
THEOREM ReportsCover == GatewaySpec => []ReportCoversPage
<1>1. GatewayInv => ReportCoversPage
  BY DEF GatewayInv, ReportInv, ReportCoversPage
<1>. QED  BY <1>1, GatewayInvariance, PTL
=============================================================================
