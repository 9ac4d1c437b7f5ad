------------------------------ MODULE Datasets ------------------------------
(***************************************************************************)
(* One dataset of a run, its items and the receipts of the appends         *)
(* (apps/api/app/services/datasets.py, append_worker_dataset_items of      *)
(* execution_plane.py, migrations 0009 and 0010).                          *)
(*                                                                         *)
(* An append loads the dataset row, locks it later, and the lock does not  *)
(* refresh it: quotas and the first sequence number come from the loaded   *)
(* row.  Everything after the lock is one step.                            *)
(***************************************************************************)
EXTENDS Integers, FiniteSets

CONSTANTS
  Appenders,         \* concurrent append requests
  Exporters,         \* concurrent exports
  Batches,           \* the appends that clients send, each any number of times
  AppendKeys,        \* idempotency keys
  MaxDatasetItems,   \* MAX_DATASET_ITEMS
  MaxDatasetBytes    \* MAX_DATASET_BYTES

\* What validate_dataset_append lets through: the number of items and the sum of
\* their encoded sizes.  Equal digests are equal batches.
Batch == [idem : AppendKeys, count : Nat \ {0}, bytes : Nat \ {0}]

ASSUME DatasetAssumption ==
  /\ Batches \subseteq Batch
  /\ MaxDatasetItems \in Nat /\ MaxDatasetBytes \in Nat

VARIABLES
  dataset,       \* the row of control.datasets
  items,         \* control.dataset_items
  appendReceipt, \* control.dataset_append_receipts, by idempotency key
  appending,     \* the open append transactions
  exporting      \* the open exports

dsVars == <<dataset, items, appendReceipt, appending, exporting>>

NoDataset == [exists |-> FALSE, count |-> 0, bytes |-> 0, next |-> 1]
NoAppend == [first |-> 0]
Free == [pc |-> "free"]

DatasetRow == [exists : BOOLEAN, count : 0..MaxDatasetItems,
               bytes : 0..MaxDatasetBytes, next : Nat \ {0}]
Item == [sequence : Nat \ {0}, idem : AppendKeys]
AppendReceipt == [first : Nat \ {0}, request : Batches]

\* Columns keep their types and the dataset its CHECK constraints.
DatasetTypeOK ==
  /\ dataset \in DatasetRow
  /\ items \in SUBSET Item
  /\ appendReceipt \in [AppendKeys -> AppendReceipt \cup {NoAppend}]
  /\ appending \in [Appenders -> [pc : {"loaded"}, q : Batches, row : DatasetRow] \cup {Free}]
  /\ exporting \in [Exporters ->
       [pc : {"loaded", "done", "changed", "gap"}, row : DatasetRow, rows : SUBSET Item]
         \cup {Free}]

DatasetInit ==
  /\ dataset = NoDataset
  /\ items = {}
  /\ appendReceipt = [i \in AppendKeys |-> NoAppend]
  /\ appending = [t \in Appenders |-> Free]
  /\ exporting = [e \in Exporters |-> Free]

-----------------------------------------------------------------------------
\* create_dataset
CreateDataset ==
  /\ ~dataset.exists
  /\ dataset' = [dataset EXCEPT !.exists = TRUE]
  /\ UNCHANGED <<items, appendReceipt, appending, exporting>>

\* require_dataset_permission, or the query for the dataset named default
LoadDataset(t, q) ==
  /\ appending[t] = Free /\ dataset.exists
  /\ appending' = [appending EXCEPT ![t] = [pc |-> "loaded", q |-> q, row |-> dataset]]
  /\ UNCHANGED <<dataset, items, appendReceipt, exporting>>

\* The quotas, against the row as it was loaded
WithinQuota(q, row) ==
  /\ row.count + q.count <= MaxDatasetItems
  /\ row.bytes + q.bytes <= MaxDatasetBytes

NewItems(q, first) ==
  {[sequence |-> n, idem |-> q.idem] : n \in first..(first + q.count - 1)}

\* uq_dataset_items_dataset_sequence
SequencesFree(new) ==
  \A i \in items, j \in new : i.sequence # j.sequence

\* Mutant: the receipt is not looked up, and a repeated batch is stored again.
StoreWithoutReceipt(q, row) ==
  LET new == NewItems(q, row.next) IN
  /\ WithinQuota(q, row)
  /\ SequencesFree(new)
  /\ items' = items \cup new
  /\ appendReceipt' = [appendReceipt EXCEPT ![q.idem] = [first |-> row.next, request |-> q]]
  /\ dataset' = [exists |-> TRUE, count |-> row.count + q.count,
                 bytes |-> row.bytes + q.bytes, next |-> row.next + q.count]

\* The body of append_dataset_items after the receipt was not found: the receipt,
\* the items and the counters of the row that was loaded.
Store(q, row) ==
  LET new == NewItems(q, row.next) IN
  /\ appendReceipt[q.idem] = NoAppend
  /\ WithinQuota(q, row)
  /\ SequencesFree(new)
  /\ items' = items \cup new
  /\ appendReceipt' = [appendReceipt EXCEPT ![q.idem] = [first |-> row.next, request |-> q]]
  /\ dataset' = [exists |-> TRUE, count |-> row.count + q.count,
                 bytes |-> row.bytes + q.bytes, next |-> row.next + q.count]

\* append_dataset_items under the row lock
AppendItems(t) ==
  /\ appending[t] # Free
  /\ Store(appending[t].q, appending[t].row)
  /\ appending' = [appending EXCEPT ![t] = Free]
  /\ UNCHANGED exporting

\* append_worker_dataset_items creates the dataset and appends in one transaction;
\* the unique index on run and name lets one such transaction succeed.
CreateAndAppend(q) ==
  /\ ~dataset.exists
  /\ Store(q, NoDataset)
  /\ UNCHANGED <<appending, exporting>>

\* A receipt answers the repeated append; a quota or a taken sequence number
\* refuses it; or the transaction fails.  Nothing is stored.
EndAppend(t) ==
  /\ appending[t] # Free
  /\ appending' = [appending EXCEPT ![t] = Free]
  /\ UNCHANGED <<dataset, items, appendReceipt, exporting>>

-----------------------------------------------------------------------------
(* export_dataset_jsonl reads the rows after the dataset, in a second      *)
(* query that sees what was committed in between.                          *)

LoadForExport(e) ==
  /\ exporting[e] = Free /\ dataset.exists
  /\ exporting' = [exporting EXCEPT ![e] =
                     [pc |-> "loaded", row |-> dataset, rows |-> {}]]
  /\ UNCHANGED <<dataset, items, appendReceipt, appending>>

\* Mutant: the number of rows is not compared with the dataset.
ExportOutcomeAnyCount(count) ==
  IF {i.sequence : i \in items} # 1..Cardinality(items) THEN "gap" ELSE "done"

ExportOutcome(count) ==
  IF Cardinality(items) # count THEN "changed"
  ELSE IF {i.sequence : i \in items} # 1..count THEN "gap" ELSE "done"

Export(e) ==
  /\ exporting[e] # Free /\ exporting[e].pc = "loaded"
  /\ exporting' = [exporting EXCEPT ![e].pc = ExportOutcome(exporting[e].row.count),
                                    ![e].rows = items]
  /\ UNCHANGED <<dataset, items, appendReceipt, appending>>

EndExport(e) ==
  /\ exporting[e] # Free /\ exporting[e].pc # "loaded"
  /\ exporting' = [exporting EXCEPT ![e] = Free]
  /\ UNCHANGED <<dataset, items, appendReceipt, appending>>

DatasetNext ==
  \/ CreateDataset
  \/ \E q \in Batches : CreateAndAppend(q)
  \/ \E t \in Appenders :
       (\E q \in Batches : LoadDataset(t, q)) \/ AppendItems(t) \/ EndAppend(t)
  \/ \E e \in Exporters : LoadForExport(e) \/ Export(e) \/ EndExport(e)

DatasetSpec == DatasetInit /\ [][DatasetNext]_dsVars

-----------------------------------------------------------------------------
(* What the dataset promises.                                              *)

\* A batch is stored once and whole, however often it is sent: its receipt names
\* the first of exactly as many consecutive items as the batch has.
BatchStoredOnce ==
  \A i \in AppendKeys :
    {j.sequence : j \in {x \in items : x.idem = i}} =
      IF appendReceipt[i] = NoAppend
        THEN {}
        ELSE appendReceipt[i].first ..
               (appendReceipt[i].first + appendReceipt[i].request.count - 1)

\* An export that succeeds holds exactly the items that the dataset had when the
\* export was requested, and none ever reports a gap (DATASET_EXPORT_SEQUENCE_GAP).
ExportsAreWhole ==
  \A e \in Exporters :
    exporting[e] # Free =>
      /\ exporting[e].pc # "gap"
      /\ exporting[e].pc = "done" =>
           {i.sequence : i \in exporting[e].rows} = 1..(exporting[e].row.next - 1)
=============================================================================
