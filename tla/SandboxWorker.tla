--------------------------- MODULE SandboxWorker ---------------------------
(***************************************************************************)
(* The sandbox worker: one process per worker that claims a lease, walks a *)
(* Run or a Build through its stages, and reports the outcome, while a     *)
(* watchdog thread renews the lease.  The process may die at any step and  *)
(* its containers outlive it; the supervisor starts it again.  Every call  *)
(* of the API may fail before or after it took effect, and the control     *)
(* plane may expire or cancel the lease meanwhile (ExecutionPlane has the  *)
(* control plane in full; here a lease is held or not).                    *)
(*                                                                         *)
(* A plan is the set of features a Run has ("absent": never created,       *)
(* "late": one lease left, "denied": execution is switched off); all the   *)
(* queue-bound Runs share one queue, whose single request is in "request". *)
(* What an attempt persists goes to the Run's own default store and        *)
(* dataset, under keys derived from the request, so stored[r] is what the  *)
(* keys of this request hold there.  An output is a sequence of mutations, *)
(* or of the items of one append.                                          *)
(***************************************************************************)
EXTENDS Naturals, Sequences, FiniteSetsExt, TLC

CONSTANTS
    Workers, Runs,
    Plans,          \* assignments of a set of features to every Run
    Entries,        \* the mutations and items an Agent may output
    Outputs,        \* its outputs: sequences of mutations or items
    Opaque,         \* an output that is no envelope of mutations or items
    Nothing,
    MaxMutations,   \* MAX_WORKER_MUTATIONS
    MaxTries,       \* leases a Run may have
    MaxClaims,      \* max_attempts of the queue request
    FaultyWorkers,  \* the workers whose calls and commands may fail
    MaxFaults       \* bound on lost calls, failed commands, crashes, cancellations

Features == {"absent", "late", "build", "denied", "browser", "queue", "http", "acquire", "kv",
             "fetch", "secrets", "dataset"}
Stages == <<"prepare", "claimRequest", "acquire", "http", "kvRead", "fetch",
            "secrets", "status", "agent", "build", "mutate", "append", "settle",
            "upload", "finish">>

ASSUME OutputAssumption ==
  /\ Outputs \subseteq Seq(Entries) /\ Nothing \notin Entries
  /\ Nothing \notin Outputs /\ Opaque \notin Outputs /\ Opaque # Nothing
  /\ MaxMutations \in Nat

VARIABLES
    plan,       \* [Runs -> SUBSET Features]
    runStatus,  \* status of each Run
    holder,     \* holder of each Run's RUN_START or BUILD lease, <<worker, attempt>>
    tries,      \* leases of each Run so far
    cancel,     \* the RUN_CANCEL command of each Run: "no", "queued", "done" or its holder
    request,    \* the queue request: status, claim token, whether the claim is live
    stored,     \* per Run, mutations and items persisted under the request's keys
    proc,       \* per worker: place of the main thread and its local variables
    dog,        \* per worker: its watchdog thread
    boxes,      \* per worker host: managed containers that exist
    faults

workerVars == <<plan, runStatus, holder, tries, cancel, request, stored, proc, dog, boxes, faults>>
server == <<runStatus, holder, tries, cancel, request, stored>>

NoJob == [kind |-> "START", run |-> Nothing, n |-> 0]
Fresh(place) == [at |-> place, job |-> NoJob, token |-> 0, out |-> Nothing, idx |-> 1]

WorkerInit ==
  /\ plan \in Plans
  /\ runStatus = [r \in Runs |-> IF "absent" \in plan[r] THEN "ABSENT" ELSE "QUEUED"]
  /\ holder = [r \in Runs |-> Nothing] 
  /\ tries = [r \in Runs |-> IF "late" \in plan[r] THEN MaxTries - 1 ELSE 0]
  /\ cancel = [r \in Runs |-> "no"]
  /\ request = [status |-> "PENDING", token |-> 0, live |-> FALSE]
  /\ stored = [r \in Runs |-> [kv |-> [i \in 1..MaxMutations |-> Nothing], items |-> Nothing]]
  /\ proc = [w \in Workers |-> Fresh("down")]
  /\ dog = [w \in Workers |-> "off"] /\ boxes = [w \in Workers |-> {}]
  /\ faults = 0

-----------------------------------------------------------------------------
(* Calls of the API *)

Answers == {"ok", "lost", "http", "net"}

Fault == faults < MaxFaults /\ faults' = faults + 1
FaultOf(w) == w \in FaultyWorkers /\ Fault

\* One request of the worker client.  "lost": applied, but the connection broke
\* before the response; "net": never applied; "http": refused, or a server error.
Call(w, accepted, answer) ==
  \/ accepted /\ answer = "ok" /\ UNCHANGED faults
  \/ ~accepted /\ answer = "http" /\ UNCHANGED faults
  \/ answer \in {"http", "net"} /\ FaultOf(w)
  \/ accepted /\ answer = "lost" /\ FaultOf(w)

Applied(answer) == answer \in {"ok", "lost"}

\* require_lease_access: a cancelled Run refuses the calls of its start lease.
Holds(w) ==
  LET j == proc[w].job
  IN  IF j.kind = "CANCEL" THEN cancel[j.run] = w
      ELSE holder[j.run] = <<w, j.n>> /\ runStatus[j.run] # "ABORTING"

-----------------------------------------------------------------------------
(* Where the main thread goes; "me" is the process record of a worker *)

At(w, place) == proc[w].at = place
Goto(w, place) == proc' = [proc EXCEPT ![w].at = place]

\* Whether _run or _build has anything to do at a stage
Applies(stage, me) ==
  LET p == plan[me.job.run]
      exited0 == me.out # Nothing
  IN  CASE stage = "claimRequest" -> "queue" \in p
        [] stage = "kvRead" -> "kv" \in p
        [] stage \in {"acquire", "http", "fetch", "secrets", "build"} -> stage \in p
        [] stage = "agent" -> "build" \notin p
        [] stage = "mutate" -> "kv" \in p /\ exited0 /\ me.out # <<>>
        [] stage = "append" -> "dataset" \in p /\ exited0
        [] stage = "settle" -> me.token # 0
        [] OTHER -> TRUE

Position(place) == CHOOSE i \in 1..Len(Stages) : Stages[i] = place

\* On from stage "from" to the first later one that applies
Proceed(w, from, me) ==
  LET later == {i \in 1..Len(Stages) : i > Position(from) /\ Applies(Stages[i], me)}
  IN  proc' = [proc EXCEPT ![w] = [me EXCEPT !.at = Stages[Min(later)]]]

\* A handler that gives the claimed request up before it fails the Run
GiveUp(me) == IF me.token # 0 THEN "unclaim" ELSE "fail"

OutsideTry == {"except", "deny", "cancelled"}

\* Mutant: a refused completion of the request is taken for its success.
OnHttpKeepsGoing(me) ==
  CASE me.at \in {"kvRead", "mutate", "append"} -> GiveUp(me)
    [] me.at \in {"claimRequest", "empty", "unclaim"} -> "fail"
    [] me.at = "settle" -> "upload"
    [] me.at \in OutsideTry -> "dying"
    [] OTHER -> "except"

\* WorkerProtocolError at a place of the main thread
OnHttp(me) ==
  CASE me.at \in {"kvRead", "mutate", "append"} -> GiveUp(me)
    [] me.at \in {"claimRequest", "empty", "unclaim", "settle"} -> "fail"
    [] me.at \in OutsideTry -> "dying"
    [] OTHER -> "except"

\* Mutant: a connection that broke during the persistence is ignored.
OnNetKeepsGoing(me) ==
  CASE me.at \in {"mutate", "append"} -> "settle"
    [] me.at \in OutsideTry -> "dying"
    [] OTHER -> "except"

\* OSError at a place of the main thread: few handlers name it
OnNet(me) ==
  CASE me.at \in {"mutate", "append"} -> GiveUp(me)
    [] me.at \in OutsideTry -> "dying"
    [] OTHER -> "except"

OnError(me, answer) == IF answer = "http" THEN OnHttp(me) ELSE OnNet(me)

-----------------------------------------------------------------------------
(* The process and its supervisor *)

\* cleanup_managed_containers and the workspaces of a host
CleanUp(w) == boxes' = [boxes EXCEPT ![w] = {}]

\* main up to its loop: force_startup_cleanup precedes everything; a start
\* whose cleanup or first heartbeat fails is one the supervisor repeats.
Boot(w) ==
  /\ At(w, "down")
  /\ CleanUp(w)
  /\ Goto(w, "idle")
  /\ UNCHANGED <<plan, server, dog, faults>>

\* The first place of _run or _build for a claimed lease
Begin(j) ==
  [Fresh(IF j.kind = "CANCEL" THEN "cancelBox"
         ELSE IF "denied" \in plan[j.run] THEN "deny" ELSE "prepare")
     EXCEPT !.job = j]

\* claim_work offers cancellations first, one lease at a time per worker.
Offer(w) ==
  LET cancels == {r \in Runs : cancel[r] = "queued"}
  IN  IF \E r \in Runs : cancel[r] = w \/ (holder[r] # Nothing /\ holder[r][1] = w) THEN {}
      ELSE IF cancels # {} THEN {[kind |-> "CANCEL", run |-> r, n |-> 0] : r \in cancels}
      ELSE {[kind |-> "START", run |-> r, n |-> tries[r] + 1] :
              r \in {q \in Runs : runStatus[q] = "QUEUED"}}

\* A claim whose response never arrives ends the process.
ClaimLease(w) ==
  /\ At(w, "idle")
  /\ \E j \in Offer(w), answer \in Answers :
       /\ Call(w, TRUE, answer)
       /\ IF ~Applied(answer) THEN UNCHANGED <<runStatus, holder, tries, cancel>>
          ELSE IF j.kind = "CANCEL"
          THEN cancel' = [cancel EXCEPT ![j.run] = w] /\ UNCHANGED <<runStatus, holder, tries>>
          ELSE /\ runStatus' = [runStatus EXCEPT ![j.run] = "STARTING"]
               /\ holder' = [holder EXCEPT ![j.run] = <<w, j.n>>]
               /\ tries' = [tries EXCEPT ![j.run] = j.n]
               /\ UNCHANGED cancel
       /\ IF answer = "ok"
          THEN proc' = [proc EXCEPT ![w] = Begin(j)] /\ dog' = [dog EXCEPT ![w] = "wait"]
          ELSE Goto(w, "dying") /\ UNCHANGED dog
  /\ UNCHANGED <<plan, request, stored, boxes>>

\* The finally of main: one more cleanup, whose failure nothing repeats
StopProcess(w) ==
  /\ At(w, "dying")
  /\ proc' = [proc EXCEPT ![w] = Fresh("down")]
  /\ dog' = [dog EXCEPT ![w] = "off"]
  /\ \/ CleanUp(w) /\ UNCHANGED faults
     \/ FaultOf(w) /\ UNCHANGED boxes
  /\ UNCHANGED <<plan, server>>

\* SIGTERM raises WorkerShutdown, a BaseException no handler of _run catches;
\* the finally of run_agent is covered by the cleanup of StopProcess.
Terminate(w) ==
  /\ ~At(w, "down") /\ ~At(w, "dying")
  /\ FaultOf(w)
  /\ Goto(w, "dying")
  /\ UNCHANGED <<plan, server, dog, boxes>>

\* SIGKILL or a host failure: the containers stay.
Crash(w) ==
  /\ ~At(w, "down")
  /\ FaultOf(w)
  /\ proc' = [proc EXCEPT ![w] = Fresh("down")]
  /\ dog' = [dog EXCEPT ![w] = "off"]
  /\ UNCHANGED <<plan, server, boxes>>

-----------------------------------------------------------------------------
(* The stages of _run and _build *)

\* A stage that only reads from the API or from object storage
Consult(w, stage) ==
  LET me == proc[w]
  IN  /\ At(w, stage)
      /\ \E answer \in Answers :
           /\ Call(w, Holds(w), answer)
           /\ IF answer = "ok" THEN Proceed(w, stage, me)
              ELSE Goto(w, OnError(me, answer))
      /\ UNCHANGED <<plan, server, dog, boxes>>

\* Policies, activation and proxy credential of a Run, and the image of its Agent
PrepareRun(w) == Consult(w, "prepare") /\ "build" \notin plan[proc[w].job.run]

\* Policies and activation of a Build, and its source archive
PrepareBuild(w) == Consult(w, "prepare") /\ "build" \in plan[proc[w].job.run]

ReadRecords(w) == Consult(w, "kvRead")

ReceiveSecrets(w) == Consult(w, "secrets")

UploadArtifacts(w) == Consult(w, "upload")

\* queue_claim reclaims an expired claim first, and fails the request when
\* its attempts are used up; the Run of an empty queue succeeds at once.  A claim
\* that the worker itself finds invalid, or whose runtime keys the Run's input
\* already has, fails the Run and stays claimed.
ClaimRequest(w) ==
  LET me == proc[w]
      expired == request.status = "CLAIMED" /\ ~request.live
      free == request.status = "PENDING" \/ (expired /\ request.token < MaxClaims)
      next == request.token + 1
  IN  /\ At(w, "claimRequest")
      /\ \E answer \in Answers :
           /\ Call(w, Holds(w), answer)
           /\ request' = IF ~Applied(answer) THEN request
                         ELSE IF free
                         THEN [status |-> "CLAIMED", token |-> next, live |-> TRUE]
                         ELSE IF expired THEN [request EXCEPT !.status = "FAILED"]
                         ELSE request
           /\ IF answer # "ok" THEN Goto(w, OnError(me, answer))
              ELSE IF ~free THEN Goto(w, "empty")
              ELSE Proceed(w, me.at, [me EXCEPT !.token = next]) \/ Goto(w, "fail")
      /\ UNCHANGED <<plan, runStatus, holder, tries, cancel, stored, dog, boxes>>

\* The trusted broker fetches the URL of the claimed request; only the errors of
\* its own policies and contracts give the request up.
FetchRequest(w) ==
  /\ At(w, "http")
  /\ \/ Proceed(w, "http", proc[w]) /\ UNCHANGED faults
     \/ FaultOf(w) /\ (Goto(w, GiveUp(proc[w])) \/ Goto(w, "except"))
  /\ UNCHANGED <<plan, server, dog, boxes>>

\* It fetches what the Run asks for: the errors of a versioned envelope are
\* handled, those of the legacy request key are not.
FetchWeb(w) ==
  /\ At(w, "fetch")
  /\ \/ Proceed(w, "fetch", proc[w]) /\ UNCHANGED faults
     \/ FaultOf(w) /\ (Goto(w, "fail") \/ Goto(w, "except"))
  /\ UNCHANGED <<plan, server, dog, boxes>>

ReportRunning(w) ==
  LET me == proc[w]
  IN  /\ At(w, "status")
      /\ \E answer \in Answers :
           /\ Call(w, Holds(w), answer)
           /\ runStatus' = IF Applied(answer) THEN [runStatus EXCEPT ![me.job.run] = "RUNNING"] ELSE runStatus
           /\ IF answer = "ok" THEN Proceed(w, me.at, me)
              ELSE Goto(w, OnError(me, answer))
      /\ UNCHANGED <<plan, holder, tries, cancel, request, stored, dog, boxes>>

Box(me) ==
  << IF me.at \in {"acquire", "acquiring"} \/ "browser" \in plan[me.job.run]
     THEN "browser" ELSE "run", me.job.run >>

\* The container command ended with another status than 0, or timed out.
BoxFailed(w, me, timeout) ==
  IF me.at \in {"acquire", "acquiring"} THEN Goto(w, "unclaim")
  ELSE IF "browser" \in plan[me.job.run] THEN Goto(w, "fail")
  ELSE IF timeout THEN Goto(w, "except")
  ELSE Proceed(w, "agent", me)

\* cancel_run ignores that the removal failed.
Remove(w, box) ==
  \/ boxes' = [boxes EXCEPT ![w] = @ \ {box}] /\ UNCHANGED faults
  \/ box \in boxes[w] /\ FaultOf(w) /\ UNCHANGED boxes

\* The container of the queue's browser acquisition, of the controlled browser
\* or of the Agent.  A name that still exists makes the command fail, and the
\* finally of the executor removes it.
StartBox(w) ==
  LET me == proc[w]
  IN  /\ me.at \in {"acquire", "agent"}
      /\ IF Box(me) \in boxes[w]
         THEN /\ boxes' = [boxes EXCEPT ![w] = @ \ {Box(me)}]
              /\ BoxFailed(w, me, FALSE)
         ELSE /\ boxes' = [boxes EXCEPT ![w] = @ \cup {Box(me)}]
              /\ Goto(w, IF At(w, "agent") THEN "running" ELSE "acquiring")
      /\ UNCHANGED <<plan, server, dog, faults>>

\* The container of a place exits with status 0 and leaves an output.
BoxExits(w, out) ==
  LET me == proc[w]
  IN  /\ Box(me) \in boxes[w]
      /\ boxes' = [boxes EXCEPT ![w] = @ \ {Box(me)}]
      /\ Proceed(w, IF me.at = "running" THEN "agent" ELSE "acquire",
                 [me EXCEPT !.out = out])
      /\ UNCHANGED <<plan, server, dog, faults>>

\* _queue_browser_acquire
PageAcquired(w) == At(w, "acquiring") /\ BoxExits(w, Nothing)

\* The controlled browser: its output is no envelope.
BrowserExits(w) ==
  /\ At(w, "running") /\ "browser" \in plan[proc[w].job.run]
  /\ BoxExits(w, Opaque)

AgentExits(w) ==
  /\ At(w, "running") /\ "browser" \notin plan[proc[w].job.run]
  /\ \E out \in Outputs \cup {Opaque} : BoxExits(w, out)

\* It exits otherwise, the watchdog removed it, or its time is up.
BoxFails(w) ==
  LET me == proc[w]
  IN  /\ me.at \in {"acquiring", "running"}
      /\ \E timeout \in BOOLEAN :
           /\ timeout => Box(me) \in boxes[w]
           /\ BoxFailed(w, me, timeout)
           /\ Remove(w, Box(me))
      /\ UNCHANGED <<plan, server, dog>>

\* build_agent: policy check, BuildKit, scan, SBOM
BuildImage(w) ==
  LET me == proc[w]
  IN  /\ At(w, "build")
      /\ \/ Proceed(w, me.at, [me EXCEPT !.out = Opaque])
         \/ Goto(w, "except")
      /\ UNCHANGED <<plan, server, dog, boxes, faults>>

\* What validate_kv_worker_output and validate_dataset_append say of an output;
\* the mutations may be none, the items at least one.
ValidOutput(me) ==
  /\ me.out # Opaque
  /\ IF me.at = "mutate" THEN Len(me.out) <= MaxMutations ELSE me.out # <<>>

\* One kv_mutate of the loop over the output's mutations.  The key is derived
\* from the request and the index: a repeated call with the same mutation is
\* replayed, one with another mutation refused.
MutateRecord(w) ==
  LET me == proc[w]
      r == me.job.run
      held == stored[r].kv[me.idx]
  IN  /\ At(w, "mutate") /\ ValidOutput(me)
      /\ \E answer \in Answers :
           /\ Call(w, Holds(w) /\ held \in {Nothing, me.out[me.idx]}, answer)
           /\ stored' = IF Applied(answer)
                        THEN [stored EXCEPT ![r].kv[me.idx] = me.out[me.idx]]
                        ELSE stored
           /\ IF answer # "ok" THEN Goto(w, OnError(me, answer))
              ELSE IF me.idx < Len(me.out) THEN proc' = [proc EXCEPT ![w].idx = @ + 1]
              ELSE Proceed(w, me.at, me)
      /\ UNCHANGED <<plan, runStatus, holder, tries, cancel, request, dog, boxes>>

AppendItems(w) ==
  LET me == proc[w]
      r == me.job.run
  IN  /\ At(w, "append") /\ ValidOutput(me)
      /\ \E answer \in Answers :
           /\ Call(w, Holds(w) /\ stored[r].items \in {Nothing, me.out}, answer)
           /\ stored' = IF Applied(answer) THEN [stored EXCEPT ![r].items = me.out]
                        ELSE stored
           /\ IF answer = "ok" THEN Proceed(w, me.at, me)
              ELSE Goto(w, OnError(me, answer))
      /\ UNCHANGED <<plan, runStatus, holder, tries, cancel, request, dog, boxes>>

\* The output does not pass the worker's own validation.
RefuseOutput(w) ==
  LET me == proc[w]
  IN  /\ me.at \in {"mutate", "append"} /\ ~ValidOutput(me)
      /\ Goto(w, GiveUp(me))
      /\ UNCHANGED <<plan, server, dog, boxes, faults>>

\* complete_worker_queue_request
MaySettle(w) ==
  /\ Holds(w)
  /\ request.status = "CLAIMED" /\ request.token = proc[w].token /\ request.live

\* queue_completion_payload
Verdict(me) == IF me.at = "settle" /\ me.out # Nothing THEN "HANDLED" ELSE "FAILED"

\* queue_complete, before the outcome of the Run is known to the server:
\* "unclaim" gives the request up, "settle" reports the Agent's exit status.
CompleteRequest(w) ==
  LET me == proc[w]
  IN  /\ me.at \in {"unclaim", "settle"}
      /\ \E answer \in Answers :
           /\ Call(w, MaySettle(w), answer)
           /\ request' = IF Applied(answer) THEN [request EXCEPT !.status = Verdict(me)]
                         ELSE request
           /\ IF answer # "ok" THEN Goto(w, OnError(me, answer))
              ELSE IF At(w, "settle") THEN Proceed(w, me.at, me)
              ELSE Goto(w, "fail")
      /\ UNCHANGED <<plan, runStatus, holder, tries, cancel, stored, dog, boxes>>

CancelBox(w) ==
  /\ At(w, "cancelBox")
  /\ Remove(w, <<"run", proc[w].job.run>>)
  /\ Goto(w, "cancelled")
  /\ UNCHANGED <<plan, server, dog>>

Outcome(me) ==
  CASE me.at = "finish" -> IF me.out # Nothing THEN "SUCCEEDED" ELSE "FAILED"
    [] me.at = "empty" -> "SUCCEEDED"
    [] me.at = "cancelled" -> "ABORTED"
    [] OTHER -> "FAILED"

\* complete: every report of the worker says that it is not retryable.
CompleteLease(w) ==
  LET me == proc[w]
      r == me.job.run
  IN  /\ me.at \in {"finish", "empty", "fail", "except", "deny", "cancelled"}
      /\ \E answer \in Answers :
           /\ Call(w, Holds(w), answer)
           /\ IF ~Applied(answer) THEN UNCHANGED <<runStatus, holder, cancel>>
              ELSE /\ runStatus' = [runStatus EXCEPT ![r] = Outcome(me)]
                   /\ holder' = [holder EXCEPT ![r] = Nothing]
                   /\ cancel' = [cancel EXCEPT ![r] = IF me.job.kind = "CANCEL" THEN "done" ELSE @]
           /\ Goto(w, IF answer = "ok" THEN "returned" ELSE OnError(me, answer))
      /\ UNCHANGED <<plan, tries, request, stored, dog, boxes>>

-----------------------------------------------------------------------------
(* The watchdog of a lease *)

\* _run has returned and removed its workspace: mark_completed.
MarkCompleted(w) ==
  /\ At(w, "returned")
  /\ Goto(w, "exit")
  /\ UNCHANGED <<plan, server, dog, boxes, faults>>

\* Heartbeat and renewal.  A failure that the thread sees before mark_completed
\* ends the lease: the thread removes every managed container, ignores that a
\* removal failed, and returns.
Renew(w) ==
  /\ dog[w] = "wait" /\ proc[w].at \notin {"exit", "dying"}
  /\ dog' = [dog EXCEPT ![w] = "failed"]
  /\ \/ /\ \E answer \in Answers \ {"ok"} : Call(w, Holds(w), answer)
        /\ CleanUp(w)
     \/ ~Holds(w) /\ FaultOf(w) /\ UNCHANGED boxes
  /\ UNCHANGED <<plan, server, proc>>

\* Mutant: a lease that was lost meanwhile does not end the process.
LeaveWatchdogUnchecked(w) ==
  /\ At(w, "exit")
  /\ proc' = [proc EXCEPT ![w] = Fresh("idle")]
  /\ dog' = [dog EXCEPT ![w] = "off"]
  /\ UNCHANGED <<plan, server, boxes, faults>>

\* __exit__: join the thread and raise if it failed, or if it is still inside a
\* call when the time of the join is up.
LeaveWatchdog(w) ==
  /\ At(w, "exit")
  /\ \/ /\ dog[w] = "wait"
        /\ proc' = [proc EXCEPT ![w] = Fresh("idle")]
        /\ dog' = [dog EXCEPT ![w] = "off"]
        /\ UNCHANGED faults
     \/ dog[w] = "failed" /\ Goto(w, "dying") /\ UNCHANGED <<dog, faults>>
     \/ dog[w] = "wait" /\ FaultOf(w) /\ Goto(w, "dying") /\ UNCHANGED dog
  /\ UNCHANGED <<plan, server, boxes>>

-----------------------------------------------------------------------------
(* The control plane *)

\* A lease that was not renewed in time; the command is pending again while
\* attempts remain.
ExpireLease(r) ==
  /\ holder[r] # Nothing /\ runStatus[r] \in {"STARTING", "RUNNING"}
  /\ holder' = [holder EXCEPT ![r] = Nothing]
  /\ runStatus' = [runStatus EXCEPT ![r] = IF tries[r] < MaxTries THEN "QUEUED" ELSE "FAILED"]
  /\ UNCHANGED <<plan, tries, cancel, request, stored, proc, dog, boxes, faults>>

ExpireClaim ==
  /\ request.status = "CLAIMED" /\ request.live
  /\ request' = [request EXCEPT !.live = FALSE]
  /\ UNCHANGED <<plan, runStatus, holder, tries, cancel, stored, proc, dog, boxes, faults>>

CancelRun(r) ==
  /\ Fault
  /\ \/ runStatus[r] = "QUEUED" /\ runStatus' = [runStatus EXCEPT ![r] = "ABORTED"] /\ UNCHANGED cancel
     \/ /\ runStatus[r] \in {"STARTING", "RUNNING"} /\ "build" \notin plan[r]
        /\ runStatus' = [runStatus EXCEPT ![r] = "ABORTING"]
        /\ cancel' = [cancel EXCEPT ![r] = "queued"]
  /\ UNCHANGED <<plan, holder, tries, request, stored, proc, dog, boxes>>

\* The cancellation deadline: both leases are fenced.
Converge(r) ==
  /\ runStatus[r] = "ABORTING"
  /\ runStatus' = [runStatus EXCEPT ![r] = "ABORTED"]
  /\ holder' = [holder EXCEPT ![r] = Nothing]
  /\ cancel' = [cancel EXCEPT ![r] = "done"]
  /\ UNCHANGED <<plan, tries, request, stored, proc, dog, boxes, faults>>

-----------------------------------------------------------------------------
MainThread(w) ==
  \/ PrepareRun(w) \/ PrepareBuild(w) \/ ClaimRequest(w) \/ FetchRequest(w) \/ ReadRecords(w)
  \/ FetchWeb(w) \/ ReceiveSecrets(w) \/ ReportRunning(w)
  \/ StartBox(w) \/ PageAcquired(w) \/ BrowserExits(w) \/ AgentExits(w)
  \/ BoxFails(w) \/ BuildImage(w)
  \/ MutateRecord(w) \/ AppendItems(w) \/ RefuseOutput(w) \/ CompleteRequest(w)
  \/ UploadArtifacts(w) \/ CancelBox(w) \/ CompleteLease(w)
  \/ MarkCompleted(w) \/ LeaveWatchdog(w) \/ StopProcess(w)

WorkerNext ==
  \/ \E w \in Workers :
       MainThread(w) \/ Renew(w) \/ Boot(w) \/ ClaimLease(w) \/ Terminate(w) \/ Crash(w)
  \/ \E r \in Runs : ExpireLease(r) \/ CancelRun(r) \/ Converge(r)
  \/ ExpireClaim

WorkerSpec == WorkerInit /\ [][WorkerNext]_workerVars

-----------------------------------------------------------------------------
(* Properties *)

Persisted(me) ==
  LET p == plan[me.job.run]
      s == stored[me.job.run]
  IN  /\ "kv" \in p => \A i \in 1..Len(me.out) : s.kv[i] = me.out[i]
      /\ "dataset" \in p => s.items = me.out

\* A queue request becomes HANDLED only by the worker that holds its claim, and
\* only when everything that this attempt's Agent output is in the stores of its
\* Run: the order of _run between kv_mutate, dataset_append and queue_complete,
\* with answers lost in between and another attempt's mutations already there.
HandledIsPersisted ==
  [][request'.status = "HANDLED" /\ request.status # "HANDLED"
       => \E w \in Workers : /\ proc[w].token = request.token
                             /\ proc[w].out # Nothing
                             /\ Persisted(proc[w])]_workerVars

\* A Run succeeds with the claim of a request only if the request is HANDLED
\* under that claim: no error path of _run reports success for a request that was
\* given up, reclaimed by another Run or failed.
SucceededMeansHandled ==
  [][\A w \in Workers :
       LET me == proc[w]
       IN  me.token # 0 /\ runStatus[me.job.run] # "SUCCEEDED" /\ runStatus'[me.job.run] = "SUCCEEDED"
             /\ holder[me.job.run] = <<w, me.job.n>>
           => request.status = "HANDLED" /\ request.token = me.token]_workerVars

\* A process whose watchdog failed claims no other lease: whatever path _run
\* takes meanwhile, and whether or not its report was accepted, __exit__ of
\* LeaseWatchdog raises out of main.
LostLeaseEndsProcess ==
  [][\A w \in Workers : dog[w] = "failed" => dog'[w] = "failed" \/ proc'[w].at = "down"]_workerVars

=============================================================================
