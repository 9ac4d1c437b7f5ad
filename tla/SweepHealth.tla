------------------------------ MODULE SweepHealth ------------------------------
(***************************************************************************)
(* The single row in which the processes that run the same sweep report    *)
(* how it went: execution_recovery_state and, with the same statements,    *)
(* egress_health_maintenance_state                                         *)
(* (apps/api/app/services/execution_recovery_sweeper.py,                   *)
(* egress_health_maintenance.py, recovery_scheduler.py,                    *)
(* egress_health_maintenance_runner.py, migrations 0018 and 0034).         *)
(*                                                                         *)
(* A sweep holds an advisory lock and commits its result with its work.  A *)
(* failed one rolls back and records the failure in a second transaction,  *)
(* which may come at any later time.                                       *)
(***************************************************************************)
EXTENDS Integers

CONSTANTS
  Owners,         \* processes that run the sweep
  MaxSweepTime    \* bound on the clock

ASSUME SweepAssumption == MaxSweepTime \in Nat

VARIABLES
  sweep_now,   \* the clock
  attempt,     \* what each process is doing
  row          \* the state row

sweepVars == <<sweep_now, attempt, row>>

NeverAt == -1
Nobody == "nobody"
Resting == [pc |-> "resting"]

StateRow ==
  [status : {"NEVER_RUN", "HEALTHY", "FAILED"}, owner : Owners \cup {Nobody},
   started : Int, completed : Int, heartbeat : Int]

\* ck_execution_recovery_state_status; times are past times of the clock and a row's
\* heartbeat is never older than its last success.
SweepTypeOK ==
  /\ sweep_now \in 0 .. MaxSweepTime
  /\ row \in StateRow
  /\ {row.started, row.completed, row.heartbeat} \subseteq NeverAt .. sweep_now
  /\ row.completed <= row.heartbeat

SweepInit ==
  /\ sweep_now = 0
  /\ attempt = [p \in Owners |-> Resting]
  /\ row = [status |-> "NEVER_RUN", owner |-> Nobody,
            started |-> NeverAt, completed |-> NeverAt, heartbeat |-> NeverAt]

\* run_sweep_loop: the time is read before the transaction begins.
StartSweep(p) ==
  /\ attempt[p] = Resting
  /\ attempt' = [attempt EXCEPT ![p] = [pc |-> "started", at |-> sweep_now]]
  /\ UNCHANGED <<sweep_now, row>>

\* The times with which a sweep may stamp what it does: the recovery sweep reports the
\* time it began, the maintenance sweep one that the database read before the lock, and
\* a failure the time at which its record was prepared.
Stamps(began) == began .. sweep_now

\* pg_try_advisory_xact_lock
TakeLock(p) ==
  /\ attempt[p].pc = "started"
  /\ \/ /\ \E other \in Owners : attempt[other].pc = "sweeping"
        /\ attempt' = [attempt EXCEPT ![p] = Resting]
     \/ /\ \A other \in Owners : attempt[other].pc # "sweeping"
        /\ \E time \in Stamps(attempt[p].at) :
             attempt' = [attempt EXCEPT ![p] = [pc |-> "sweeping", at |-> attempt[p].at, stamp |-> time]]
  /\ UNCHANGED <<sweep_now, row>>

CompleteSweep(p) ==
  /\ attempt[p].pc = "sweeping"
  /\ LET time == attempt[p].stamp
     IN  row' = [status |-> "HEALTHY", owner |-> p,
                 started |-> time, completed |-> time, heartbeat |-> time]
  /\ attempt' = [attempt EXCEPT ![p] = Resting]
  /\ UNCHANGED sweep_now

FailSweep(p) ==
  /\ attempt[p].pc \in {"started", "sweeping"}
  /\ attempt' = [attempt EXCEPT ![p] = [pc |-> "failed", at |-> attempt[p].at]]
  /\ UNCHANGED <<sweep_now, row>>

\* Mutant: a failure must be later than the heartbeat, not only as late.
RecordsStrictlyLater(started) == row.heartbeat < started

RecordsFailure(started) == row.heartbeat <= started

\* record_execution_recovery_failure; an exception here is only logged.
RecordFailure(p) ==
  /\ attempt[p].pc = "failed"
  /\ \/ UNCHANGED row
     \/ /\ RecordsFailure(attempt[p].at)
        /\ \E time \in Stamps(attempt[p].at) :
             row' = [row EXCEPT !.status = "FAILED", !.owner = p,
                                !.started = attempt[p].at, !.heartbeat = time]
  /\ attempt' = [attempt EXCEPT ![p] = Resting]
  /\ UNCHANGED sweep_now

SweepTick ==
  /\ sweep_now < MaxSweepTime
  /\ sweep_now' = sweep_now + 1
  /\ UNCHANGED <<attempt, row>>

SweepNext ==
  \/ \E p \in Owners :
       StartSweep(p) \/ TakeLock(p) \/ CompleteSweep(p) \/ FailSweep(p) \/ RecordFailure(p)
  \/ SweepTick

SweepSpec == SweepInit /\ [][SweepNext]_sweepVars

-----------------------------------------------------------------------------

\* A failure's record is refused only in favour of another process: while it is yet to
\* be written, record_execution_recovery_failure's WHERE holds unless the row is the
\* report of another process.  What a process reported of its earlier sweeps, at
\* whatever times it stamped them, never silences its own next failure.
FailureSilencedByOthersOnly ==
  \A p \in Owners :
    attempt[p].pc = "failed" /\ ~RecordsFailure(attempt[p].at) => row.owner \in Owners \ {p}
=============================================================================
