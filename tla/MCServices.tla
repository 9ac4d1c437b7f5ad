----------------------------- MODULE MCServices -----------------------------
(***************************************************************************)
(* The services that a Run uses, on small sets: the key-value store, the   *)
(* dataset, the request queue and the web.  They share no row and no       *)
(* transaction: a behaviour exercises the one that Init chooses.           *)
(***************************************************************************)
EXTENDS KeyValueStore, Datasets, RequestQueue, BrowserGateway, TLC

CONSTANTS i1, i2, i3, i4, a, b

VARIABLE part

Set(i, k, v, n) == [idem |-> i, op |-> "set", key |-> k, expected |-> v, size |-> n]
Delete(i, k, v) == [idem |-> i, op |-> "delete", key |-> k, expected |-> v, size |-> 0]
MCMutations ==
  {Set(i1, a, AnyVersion, 1), Set(i2, a, 1, 2), Set(i3, b, 0, 1),
   Delete(i4, a, AnyVersion), Delete(i1, a, AnyVersion)}
MCBatches ==
  {[idem |-> i1, count |-> 2, bytes |-> 3], [idem |-> i2, count |-> 1, bytes |-> 1],
   [idem |-> i3, count |-> 1, bytes |-> 2], [idem |-> i1, count |-> 1, bytes |-> 2]}
MCLookups == {{"public"}, {"public", "private"}, {"private"}}

Init ==
  /\ part \in {"key-value", "dataset", "queue", "web"}
  /\ KVInit /\ DatasetInit /\ QueueInit
  /\ GatewayInit /\ (part # "web" => mode = "web" /\ \A h \in Hosts : dns[h] = {"public"})

Next ==
  /\ UNCHANGED part
  /\ \/ part = "key-value" /\ KVNext /\ UNCHANGED <<dsVars, queueVars, gatewayVars>>
     \/ part = "dataset" /\ DatasetNext /\ UNCHANGED <<kvVars, queueVars, gatewayVars>>
     \/ part = "queue" /\ QueueNext /\ UNCHANGED <<kvVars, dsVars, gatewayVars>>
     \/ part = "web" /\ GatewayNext /\ UNCHANGED <<kvVars, dsVars, queueVars>>

Spec == Init /\ [][Next]_<<part, kvVars, dsVars, queueVars, gatewayVars>>

\* The idempotency keys of the queue are interchangeable.
KeySymmetry == Permutations(Keys)
=============================================================================
