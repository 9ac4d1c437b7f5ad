-------------------------- MODULE MCExecutionPlane --------------------------
(***************************************************************************)
(* ExecutionPlane for TLC.  Workers outside FaultyWorkers, and builds, are *)
(* interchangeable: no definition tells one from another.                  *)
(***************************************************************************)
EXTENDS ExecutionPlane, TLC

VARIABLE tenant

\* The tenant of a behaviour creates Runs only, or builds only.
Unused == IF tenant = "runs" THEN Builds ELSE Runs

\* At most two transactions of several steps are open at a time.
MaxOpen == 2
Open == {w \in Workers : tx[w].phase # "IDLE"} \cup {p \in Reapers : reap[p].open}

EitherInit == Init /\ tenant \in {"runs", "builds"}
EitherNext ==
  /\ Next /\ UNCHANGED tenant
  /\ \A t \in Unused : target'[t].status = "ABSENT"
  /\ Cardinality(Open') <= MaxOpen
EitherSpec == EitherInit /\ [][EitherNext]_<<vars, tenant>>

Alike == Permutations(Workers) \cup Permutations(Builds)
=============================================================================
