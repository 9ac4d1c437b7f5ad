------------------------------ MODULE MCEgress ------------------------------
(***************************************************************************)
(* The egress components on small sets: the credential canaries, the       *)
(* health observations with their rollups, and the state row of a sweep.   *)
(* They share no state: a behaviour exercises the one that Init chooses.   *)
(***************************************************************************)
EXTENDS EgressCanaries, EgressHealth, SweepHealth

VARIABLE part

egressVars == <<part, canaryVars, healthVars, sweepVars>>

\* A page that is missing and empty: the two rules that could both apply
MCEvidences ==
  {[transport |-> None, status |-> 404, bytes |-> 0, challenge |-> FALSE, login |-> FALSE]}

Init ==
  /\ part \in {"canaries", "health", "sweep"}
  /\ CanaryInit /\ HealthInit /\ SweepInit

Next ==
  /\ UNCHANGED part
  /\ \/ part = "canaries" /\ CanaryNext /\ UNCHANGED <<healthVars, sweepVars>>
     \/ part = "health" /\ HealthNext /\ UNCHANGED <<canaryVars, sweepVars>>
     \/ part = "sweep" /\ SweepNext /\ UNCHANGED <<canaryVars, healthVars>>

\* CanaryFairness, in a behaviour of that part
Fairness ==
  LET Others == UNCHANGED <<part, healthVars, sweepVars>>
  IN  /\ WF_egressVars(part = "canaries" /\ SomeClaim /\ Others)
      /\ WF_egressVars(part = "canaries" /\ CanaryTick /\ Others)

Spec == Init /\ [][Next]_egressVars /\ Fairness
=============================================================================
