------------------------------ MODULE MCWorker ------------------------------
(***************************************************************************)
(* The sandbox worker with two hosts and two Runs, and the activation of   *)
(* one Run.  They share no variable: a behaviour exercises the one that    *)
(* Init chooses.                                                           *)
(***************************************************************************)
EXTENDS SandboxWorker, Activation

CONSTANTS r1, r2

VARIABLE part

MCOutputs == {<<"a", "b">>, <<"b">>, <<>>}

\* Two Runs, each with one lease left, work the queue
MCPairPlan == r1 :> {"late", "queue"} @@ r2 :> {"late", "queue"}

\* One Run with every lease; the other kinds of work with one
MCSinglePlans ==
  {(r1 :> p @@ r2 :> {"absent"}) :
     p \in {{"queue", "kv"}}
           \cup {{"late"} \cup other :
                   other \in {{"queue", "dataset"}, {"browser"}, {"build"}, {"denied"}, {"fetch"},
                              {"kv", "fetch", "secrets"}, {"queue", "acquire"},
                              {"queue", "http"}}}}

MCPlans == {MCPairPlan} \cup MCSinglePlans

\* Everything on, and every way of closing one switch and what depends on it.
Dependents(g) == {g} \cup {d \in Gates : g \in Needs[d] \/ \E e \in Needs[d] : g \in Needs[e]}
Closed(g) == [gates |-> Gates \ Dependents(g), ceiling |-> 2]
AllOpen == [gates |-> Gates, ceiling |-> 2]
Narrow == [gates |-> Gates, ceiling |-> 1]
MCApiConfigs == {AllOpen, Narrow} \cup {Closed(g) : g \in Gates}
WorkerPart(c) == [gates |-> c.gates \ {"mode", "name", "version", "fits"}, ceiling |-> c.ceiling]
MCWorkerConfigs ==
  {WorkerPart(c) : c \in {AllOpen, Narrow} \cup {Closed(g) : g \in Capabilities \cup {"nav", "queue_http"}}}
\* One manifest per way in which capabilities combine.
MCManifests ==
  {{}, {"web"}, {"browser"}, {"web", "browser"}, {"dataset", "kv"}, {"web", "dataset"},
   {"queue"}, {"queue", "kv"}, {"queue", "web", "dataset"}, {"queue", "web", "browser"}}
MCWidth == <<1, 2>>

Init ==
  /\ WorkerInit /\ ActivationInit
  /\ \/ part = "worker" /\ api = AllOpen /\ worker = WorkerPart(AllOpen)
                        /\ attested /\ policy = [active |-> TRUE, revision |-> 1]
     \/ part = "activation" /\ plan = MCPairPlan

Next ==
  /\ UNCHANGED part
  /\ \/ part = "worker" /\ WorkerNext /\ UNCHANGED activationVars
     \/ part = "activation" /\ ActivationNext /\ UNCHANGED workerVars

Spec == Init /\ [][Next]_<<part, workerVars, activationVars>>
=============================================================================
