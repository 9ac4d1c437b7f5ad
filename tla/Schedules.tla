------------------------------ MODULE Schedules ------------------------------
(***************************************************************************)
(* Run schedules: tenants create, pause and resume them, dispatcher        *)
(* replicas turn due instants into Runs                                    *)
(* (apps/api/app/services/schedules.py, schedule_dispatcher.py).           *)
(*                                                                         *)
(* A sweep locks the rows it takes and writes nothing else, and only one   *)
(* replica at a time holds the advisory lock, so a sweep is one step at    *)
(* its commit; the time it works with was read before (StartSweep).  A     *)
(* pause or resume reads the schedule when it checks the permission, locks *)
(* the row later, and decides on what it read first: Read, Lock, Commit.   *)
(***************************************************************************)
EXTENDS Integers, FiniteSets

CONSTANTS
  Names,        \* schedules, by their name: unique within the project
  Users,        \* concurrent pause and resume calls
  Dispatchers,  \* replicas of app.schedule_dispatcher
  Intervals,    \* interval_seconds in use
  Starts,       \* starts_at in use
  Grace,        \* misfire_grace_seconds
  BatchSize,    \* schedule_dispatch_batch_size
  Null,         \* NULL in next_fire_at; no sweep, no call
  MaxCalls,     \* bound: pause and resume calls of one user
  MaxTime       \* bound: the clock stops here

ASSUME ScheduleAssumption ==
  /\ IsFiniteSet(Names)
  /\ Intervals \subseteq Nat \ {0} /\ Starts \subseteq Nat
  /\ Grace \in Nat /\ BatchSize \in Nat \ {0}
  /\ Null \notin Nat \cup Names
  /\ MaxCalls \in Nat /\ MaxTime \in Nat

VARIABLES
  now,      \* the clock
  row,      \* control.schedules
  trigger,  \* control.schedule_triggers, by schedule and scheduled_for
  runs,     \* the number of Runs created for a schedule and an instant
  call,     \* open pause and resume calls
  clock     \* the time each replica read for its open sweep

scheduleVars == <<now, row, trigger, runs, call, clock>>

Outcomes == {"FIRED", "SKIPPED", "FAILED"}
Statuses == {"ABSENT", "ACTIVE", "PAUSED", "COMPLETED"}

\* interval is 0 for the cadence ONCE.
Row ==
  [status : Statuses, interval : Intervals \cup {0}, startsAt : Nat,
   policy : {"SKIP", "FIRE_ONCE"}, next : Nat \cup {Null},
   count : [Outcomes -> Nat]]

Trigger == [outcome : Outcomes \cup {"NONE"}, observedAt : Nat]

Call ==
  [name : Names \cup {Null}, locked : BOOLEAN, seen : Statuses, used : 0..MaxCalls]

Idle(used) == [name |-> Null, locked |-> FALSE, seen |-> "ABSENT", used |-> used]

NoTrigger == [outcome |-> "NONE", observedAt |-> 0]

\* The columns keep their types, and a completed schedule is a one-time
\* schedule without a next instant (ck_schedules_completed_once).
ScheduleTypeOK ==
  /\ now \in 0..MaxTime
  /\ row \in [Names -> Row]
  /\ trigger \in [Names -> [0..MaxTime -> Trigger]]
  /\ runs \in [Names -> [0..MaxTime -> Nat]]
  /\ call \in [Users -> Call]
  /\ clock \in [Dispatchers -> (0..MaxTime) \cup {Null}]
  /\ \A s \in Names :
       row[s].status = "COMPLETED" => row[s].interval = 0 /\ row[s].next = Null

-----------------------------------------------------------------------------
ScheduleInit ==
  /\ now = 0
  /\ row = [s \in Names |->
              [status |-> "ABSENT", interval |-> 0, startsAt |-> 0, policy |-> "SKIP",
               next |-> Null, count |-> [o \in Outcomes |-> 0]]]
  /\ trigger = [s \in Names |-> [i \in 0..MaxTime |-> NoTrigger]]
  /\ runs = [s \in Names |-> [i \in 0..MaxTime |-> 0]]
  /\ call = [u \in Users |-> Idle(0)]
  /\ clock = [d \in Dispatchers |-> Null]

ScheduleTick ==
  /\ now < MaxTime
  /\ now' = now + 1
  /\ UNCHANGED <<row, trigger, runs, call, clock>>

\* create_schedule; a replay and a name in use change nothing.  starts_at may
\* lie in the past.
CreateSchedule(s, interval, startsAt, policy) ==
  /\ row[s].status = "ABSENT"
  /\ row' = [row EXCEPT ![s] =
               [status |-> "ACTIVE", interval |-> interval,
                startsAt |-> startsAt, policy |-> policy, next |-> startsAt,
                count |-> [o \in Outcomes |-> 0]]]
  /\ UNCHANGED <<now, trigger, runs, call, clock>>

-----------------------------------------------------------------------------
(* set_schedule_paused.                                                    *)

\* require_schedule_permission loads the schedule without a lock.
Read(u, s) ==
  /\ call[u].name = Null /\ call[u].used < MaxCalls
  /\ row[s].status # "ABSENT"
  /\ call' = [call EXCEPT ![u] = [name |-> s, locked |-> FALSE,
                                  seen |-> row[s].status, used |-> @.used + 1]]
  /\ UNCHANGED <<now, row, trigger, runs, clock>>

Locked(s) == \E u \in Users : call[u].locked /\ call[u].name = s

\* The row is locked, but the loaded object is not refreshed.
Lock(u) ==
  /\ call[u].name # Null /\ ~Locked(call[u].name)
  /\ call' = [call EXCEPT ![u].locked = TRUE]
  /\ UNCHANGED <<now, row, trigger, runs, clock>>

\* The row after the call: refused for a completed schedule, nothing to do for
\* the same status, and only the changed column is written.
NewStatus(r, seen, target) ==
  IF seen \in {target, "COMPLETED"} THEN r ELSE [r EXCEPT !.status = target]

SetSchedulePaused(u, target) ==
  LET s == call[u].name
  IN  /\ call[u].locked
      /\ row' = [row EXCEPT ![s] = NewStatus(@, call[u].seen, target)]
      /\ call' = [call EXCEPT ![u] = Idle(@.used)]
      /\ UNCHANGED <<now, trigger, runs, clock>>

\* A lost connection
Disconnect(u) ==
  /\ call[u].name # Null
  /\ call' = [call EXCEPT ![u] = Idle(@.used)]
  /\ UNCHANGED <<now, row, trigger, runs, clock>>

-----------------------------------------------------------------------------
(* dispatch_due_schedules.                                                 *)

\* run_dispatch_loop reads the time before the sweep does anything.
StartSweep(d) ==
  /\ clock[d] = Null
  /\ clock' = [clock EXCEPT ![d] = now]
  /\ UNCHANGED <<now, row, trigger, runs, call>>

\* What the selection for a sweep takes; locked rows are skipped.
Due(s, at) ==
  /\ row[s].status = "ACTIVE" /\ row[s].next # Null
  /\ row[s].next <= at /\ ~Locked(s)

\* The oldest due instants, up to BatchSize; identifiers break ties.
DueBatch(B, at) ==
  LET due == {s \in Names : Due(s, at)}
  IN  /\ B \subseteq due
      /\ Cardinality(B) = BatchSize \/ (B = due /\ Cardinality(due) < BatchSize)
      /\ \A s \in B, t \in due \ B : row[s].next <= row[t].next

\* _advance_schedule
Advance(r, at) ==
  IF r.interval = 0
  THEN [r EXCEPT !.status = "COMPLETED", !.next = Null]
  ELSE [r EXCEPT !.next = @ + ((at - @) \div r.interval + 1) * r.interval]

Missed(r, at) == r.next < at - Grace

\* Mutant: a Run that was flushed before the refusal stays.
CreateRunKept(n, outcome) == IF outcome = "SKIPPED" THEN n ELSE IF n > 0 THEN n ELSE 1

\* create_run: the key made from schedule and instant creates one Run only, and
\* every refusal precedes the first write.
CreateRun(n, outcome) == IF outcome # "FIRED" \/ n > 0 THEN n ELSE 1

\* Mutant: a missed instant of the policy FIRE_ONCE raises an error.
PossibleOutcomesRaising(r, at) ==
  IF Missed(r, at)
  THEN (IF r.policy = "SKIP" THEN {"SKIPPED"} ELSE {})
  ELSE {"FIRED", "FAILED"}

\* The outcomes of an instant: skipped when it is too old for the policy,
\* otherwise create_run accepts or refuses.
PossibleOutcomes(r, at) ==
  IF Missed(r, at) /\ r.policy = "SKIP" THEN {"SKIPPED"} ELSE {"FIRED", "FAILED"}

\* A sweep that takes the schedules B, with one outcome for each; an instant
\* that has its trigger already only advances the schedule.
Sweep(d, B, outcome) ==
  LET at == clock[d]
      fresh(s) == trigger[s][row[s].next].outcome = "NONE"
  IN  /\ at # Null /\ DueBatch(B, at)
      /\ \A s \in B : outcome[s] \in PossibleOutcomes(row[s], at)
      /\ row' = [s \in Names |->
                   IF s \notin B THEN row[s]
                   ELSE IF fresh(s)
                        THEN [Advance(row[s], at) EXCEPT !.count[outcome[s]] = @ + 1]
                        ELSE Advance(row[s], at)]
      /\ trigger' = [s \in Names |->
                       IF s \in B /\ fresh(s)
                       THEN [trigger[s] EXCEPT ![row[s].next] =
                               [outcome |-> outcome[s], observedAt |-> at]]
                       ELSE trigger[s]]
      /\ runs' = [s \in Names |->
                    IF s \in B /\ fresh(s)
                    THEN [runs[s] EXCEPT ![row[s].next] = CreateRun(@, outcome[s])]
                    ELSE runs[s]]
      /\ clock' = [clock EXCEPT ![d] = Null]
      /\ UNCHANGED <<now, call>>

\* Another replica holds the advisory lock, the process stops, or any error
\* rolls the sweep back: run_dispatch_loop logs it and starts again.
AbandonSweep(d) ==
  /\ clock[d] # Null
  /\ clock' = [clock EXCEPT ![d] = Null]
  /\ UNCHANGED <<now, row, trigger, runs, call>>

-----------------------------------------------------------------------------
Dispatch(d) ==
  \E B \in SUBSET Names : \E outcome \in [B -> Outcomes] : Sweep(d, B, outcome)

ScheduleNext ==
  \/ ScheduleTick
  \/ \E s \in Names, interval \in Intervals \cup {0}, startsAt \in Starts,
        policy \in {"SKIP", "FIRE_ONCE"} :
       CreateSchedule(s, interval, startsAt, policy)
  \/ \E u \in Users :
       \/ \E s \in Names : Read(u, s)
       \/ Lock(u)
       \/ \E target \in {"ACTIVE", "PAUSED"} : SetSchedulePaused(u, target)
       \/ Disconnect(u)
  \/ \E d \in Dispatchers : StartSweep(d) \/ Dispatch(d) \/ AbandonSweep(d)

ScheduleSpec == ScheduleInit /\ [][ScheduleNext]_scheduleVars

EndCall(u) == Disconnect(u) \/ \E target \in {"ACTIVE", "PAUSED"} : SetSchedulePaused(u, target)
SomeSweepStarts == \E d \in Dispatchers : StartSweep(d)
SomeSweepEnds == \E d \in Dispatchers : Dispatch(d)

(***************************************************************************)
(* A call in the API ends; some replica starts a sweep again and again     *)
(* (run_dispatch_loop never leaves its loop) and not every sweep fails.    *)
(***************************************************************************)
ScheduleFairness ==
  /\ WF_scheduleVars(ScheduleTick)
  /\ \A u \in Users : WF_scheduleVars(EndCall(u))
  /\ WF_scheduleVars(SomeSweepStarts)
  /\ SF_scheduleVars(SomeSweepEnds)

FairScheduleSpec == ScheduleSpec /\ ScheduleFairness

-----------------------------------------------------------------------------
(* Safety.                                                                 *)

\* An instant has one Run when its trigger says FIRED and none otherwise, and
\* the counters of the schedule are the numbers of triggers by outcome: pauses
\* that write a schedule they read earlier lose no update of a sweep.
RunsMatchHistory ==
  \A s \in Names :
    /\ \A i \in 0..MaxTime :
         runs[s][i] = IF trigger[s][i].outcome = "FIRED" THEN 1 ELSE 0
    /\ \A o \in Outcomes :
         row[s].count[o] = Cardinality({i \in 0..MaxTime : trigger[s][i].outcome = o})

\* No schedule stays due: every due instant of an active schedule is handled or
\* the schedule is paused, although sweeps are limited in size, skip locked rows
\* and may fail, and another schedule may be refused again and again.
DueIsHandled ==
  \A s \in Names :
    LET due == row[s].status = "ACTIVE" /\ row[s].next # Null /\ row[s].next <= now
    IN  due ~> ~due

=============================================================================
