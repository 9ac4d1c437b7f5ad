----------------------------- MODULE EgressHealth -----------------------------
(***************************************************************************)
(* Egress health of one project: observations that workers report, their   *)
(* hourly rollups, retention, and the summaries that combine both          *)
(* (apps/api/app/services/egress_health.py, egress_health_maintenance.py,  *)
(* egress_health_protocol.py, migrations 0023, 0025 and 0034).  The row in *)
(* which a sweep also reports that it ran is SweepHealth.                  *)
(*                                                                         *)
(* A rollup row stores counts; here a rolled hour is the set of the        *)
(* observations that were counted, so that "counted twice" and "missed"    *)
(* can be told apart.                                                      *)
(***************************************************************************)
EXTENDS Integers, FiniteSets, FiniteSetsExt

CONSTANTS
  Observations,       \* client observation identifiers of one lease
  Evidences,          \* the evidence workers send with them
  HourTicks,          \* clock ticks in an hour
  WindowHours,        \* the widest summary a caller may ask for
  RawRetentionHours,  \* egress_health_raw_retention_hours
  RollupRetentionHours,
  RollupBatchSize,    \* hours rolled by one sweep
  PurgeBatchSize,     \* rows of one kind purged by one sweep
  MaxHealthTime       \* bound on the clock

\* 24 hours against at least 48 and at least 7 days in the code.
ASSUME RetentionAssumption ==
  /\ {HourTicks, WindowHours, RollupBatchSize, PurgeBatchSize} \subseteq Nat \ {0}
  /\ RawRetentionHours \in Nat /\ RollupRetentionHours \in Nat
  /\ WindowHours < RawRetentionHours /\ RawRetentionHours < RollupRetentionHours

None == "none"
Absent == -1

-----------------------------------------------------------------------------
(* Classification, in the service and again in the database.               *)

TransportFailures == {"DNS_FAILURE", "TLS_FAILURE", "TIMEOUT", "PROXY_FAILURE"}

\* EgressHealthEvidence with one status of every class the rules tell apart
Evidence ==
  {e \in [transport : TransportFailures \cup {None},
          status : {Absent, 200, 302, 403, 404, 429, 500},
          bytes : {Absent, 0, 1}, challenge : BOOLEAN, login : BOOLEAN] :
     /\ (e.transport = None) # (e.status = Absent)
     /\ e.transport # None => e.bytes = Absent /\ ~e.challenge /\ ~e.login}

Verdict(outcome, healthy, retryable) ==
  [outcome |-> outcome, healthy |-> healthy, retryable |-> retryable]

\* classify_egress_health
Classified(e) ==
  CASE e.transport # None -> Verdict(e.transport, FALSE, TRUE)
    [] e.transport = None /\ e.challenge -> Verdict("BOT_CHALLENGE", FALSE, FALSE)
    [] e.transport = None /\ ~e.challenge /\ e.login -> Verdict("LOGIN_REQUIRED", FALSE, FALSE)
    [] OTHER ->
         CASE e.status = 403 -> Verdict("HTTP_403", FALSE, FALSE)
           [] e.status = 429 -> Verdict("HTTP_429", FALSE, TRUE)
           [] e.status >= 400 /\ e.status \notin {403, 429} ->
                Verdict("HTTP_ERROR", FALSE, e.status >= 500)
           [] e.status < 400 /\ e.bytes = 0 -> Verdict("EMPTY_RESPONSE", FALSE, TRUE)
           [] OTHER -> Verdict("SUCCESS", TRUE, FALSE)

\* The outcome that enforce_egress_health_observation stores, whatever the
\* service sent: a chain of ELSIFs, here the first rule that applies.
Guarded(e) ==
  IF e.transport # None THEN Verdict(e.transport, FALSE, TRUE)
  ELSE IF e.challenge THEN Verdict("BOT_CHALLENGE", FALSE, FALSE)
  ELSE IF e.login THEN Verdict("LOGIN_REQUIRED", FALSE, FALSE)
  ELSE IF e.status = 403 THEN Verdict("HTTP_403", FALSE, FALSE)
  ELSE IF e.status = 429 THEN Verdict("HTTP_429", FALSE, TRUE)
  ELSE IF e.status >= 400 THEN Verdict("HTTP_ERROR", FALSE, e.status >= 500)
  ELSE IF e.bytes = 0 THEN Verdict("EMPTY_RESPONSE", FALSE, TRUE)
  ELSE Verdict("SUCCESS", TRUE, FALSE)

-----------------------------------------------------------------------------
VARIABLES
  health_now,   \* the clock
  observation,  \* egress_health_observations, by client observation id
  rolled,       \* egress_health_rollup_buckets: hour -> observations counted
  answered      \* the last answer a worker got for an observation

healthVars == <<health_now, observation, rolled, answered>>

Never == -1
NotSeen == [pc |-> "none"]

\* A report is open between reading the clock and the commit; a purged
\* observation is kept in the model to say what is missing.
Report ==
  [pc : {"open", "raw", "purged"}, at : Nat, committed : Int, evidence : Evidences,
   verdict : [outcome : STRING, healthy : BOOLEAN, retryable : BOOLEAN]]

Hours == 0 .. (MaxHealthTime \div HourTicks)

\* Columns keep their types; a rolled hour was not empty (ck_egress_health_rollup_counts).
HealthTypeOK ==
  /\ health_now \in 0 .. MaxHealthTime
  /\ \A o \in Observations : observation[o] = NotSeen \/ observation[o] \in Report
  /\ DOMAIN rolled \subseteq Hours
  /\ \A hour \in DOMAIN rolled : rolled[hour] # {} /\ rolled[hour] \subseteq Observations

HealthInit ==
  /\ health_now = 0
  /\ observation = [o \in Observations |-> NotSeen]
  /\ rolled = [hour \in {} |-> {}]
  /\ answered = [o \in Observations |-> NotSeen]

Hour(t) == t \div HourTicks
HourStart(hour) == hour * HourTicks
HourEnd(hour) == HourStart(hour + 1)

-----------------------------------------------------------------------------
(* record_egress_health_observation                                        *)

\* The time of the observation is read before the row is inserted and committed.
\* The trigger replaces the verdict that the service computed.
OpenReport(o, e) ==
  /\ observation[o] = NotSeen
  /\ observation' = [observation EXCEPT ![o] =
       [pc |-> "open", at |-> health_now, committed |-> Never,
        evidence |-> e, verdict |-> Guarded(e)]]
  /\ UNCHANGED <<health_now, rolled, answered>>

\* The answer is built from the object in memory, not from the stored row.
CommitReport(o) ==
  /\ observation[o].pc = "open"
  /\ observation' = [observation EXCEPT ![o].pc = "raw", ![o].committed = health_now]
  /\ answered' = [answered EXCEPT ![o] = Classified(observation[o].evidence)]
  /\ UNCHANGED <<health_now, rolled>>

\* The lease ended meanwhile or the commit failed.
ReportFails(o) ==
  /\ observation[o].pc = "open"
  /\ observation' = [observation EXCEPT ![o] = NotSeen]
  /\ UNCHANGED <<health_now, rolled, answered>>

\* The same evidence again is answered from the stored row.  Leases end long
\* before their observations are purged, so a purged one is not reported again.
RepeatReport(o) ==
  /\ observation[o].pc = "raw"
  /\ answered' = [answered EXCEPT ![o] = observation[o].verdict]
  /\ UNCHANGED <<health_now, observation, rolled>>

-----------------------------------------------------------------------------
(* run_egress_health_maintenance                                           *)

Raw == {o \in Observations : observation[o].pc = "raw"}
OfHour(hour) == {o \in Raw : Hour(observation[o].at) = hour}

\* The first n members of S, in the order of f.
Oldest(S, n, f(_)) ==
  {T \in SUBSET S :
     /\ Cardinality(T) = Min({n, Cardinality(S)})
     /\ \A x \in T, y \in S \ T : f(x) <= f(y)}

\* Mutant: the current hour is rolled too.
RollableWithCurrent ==
  {Hour(observation[o].at) : o \in Raw} \ DOMAIN rolled

\* Closed hours with observations and no rollup
Rollable ==
  {hour \in {Hour(observation[o].at) : o \in Raw} \ DOMAIN rolled :
     HourEnd(hour) <= HourStart(Hour(health_now))}

\* Old raw rows, if their hour is rolled
Purgeable(hours) ==
  {o \in Raw : /\ observation[o].at < health_now - RawRetentionHours * HourTicks
               /\ Hour(observation[o].at) \in hours}

\* Rollups before the hour in which their retention began
ExpiredHours(hours) ==
  {hour \in hours : hour < Hour(health_now - RollupRetentionHours * HourTicks)}

\* One transaction under an advisory lock.  An hour is one rollup row.
SweepHours ==
  /\ \E new \in Oldest(Rollable, RollupBatchSize, LAMBDA hour : hour) :
       LET hours == DOMAIN rolled \cup new
           counted(hour) == IF hour \in new THEN OfHour(hour) ELSE rolled[hour]
       IN  \E gone \in Oldest(Purgeable(hours), PurgeBatchSize, LAMBDA o : observation[o].at),
              out \in Oldest(ExpiredHours(hours), PurgeBatchSize, LAMBDA hour : hour) :
             /\ rolled' = [hour \in hours \ out |-> counted(hour)]
             /\ observation' = [o \in Observations |->
                  IF o \in gone THEN [observation[o] EXCEPT !.pc = "purged"] ELSE observation[o]]
  /\ UNCHANGED <<health_now, answered>>

HealthTick ==
  /\ health_now < MaxHealthTime
  /\ health_now' = health_now + 1
  /\ UNCHANGED <<observation, rolled, answered>>

HealthNext ==
  \/ \E o \in Observations :
       \/ \E e \in Evidences : OpenReport(o, e)
       \/ CommitReport(o)
       \/ ReportFails(o)
       \/ RepeatReport(o)
  \/ SweepHours
  \/ HealthTick

HealthSpec == HealthInit /\ [][HealthNext]_healthVars

-----------------------------------------------------------------------------
(* _egress_health_aggregate_rows for a window that ends now                *)

WindowStart(hours) == health_now - hours * HourTicks

\* Hours that lie in the window as a whole
Covered(hours) ==
  {hour \in Hours : /\ hour > Hour(WindowStart(hours))
                    /\ HourEnd(hour) <= health_now}

FromRollups(hours) == UNION {rolled[hour] : hour \in Covered(hours) \cap DOMAIN rolled}

FromRaw(hours) ==
  {o \in Raw : /\ WindowStart(hours) <= observation[o].at
               /\ observation[o].at < health_now
               /\ Hour(observation[o].at) \notin Covered(hours) \cap DOMAIN rolled}

-----------------------------------------------------------------------------
(* Properties                                                              *)

Stored == {o \in Observations : observation[o].pc \in {"raw", "purged"}}

InWindow(hours) ==
  {o \in Stored : WindowStart(hours) <= observation[o].at /\ observation[o].at < health_now}

\* Committed after the end of its hour
Late == {o \in Stored : observation[o].committed >= HourEnd(Hour(observation[o].at))}

\* A summary counts every observation of its window once, except ones whose
\* transaction was still open when their hour ended: no observation is counted from a
\* rollup and from its row, purging never reaches into a window, partial hours and
\* hours not yet rolled are read from raw rows, and nothing that was committed in its
\* own hour is left out of a rollup, however far maintenance lags.
SummariesCountOnce ==
  \A hours \in 1 .. WindowHours :
    /\ FromRollups(hours) \cap FromRaw(hours) = {}
    /\ FromRollups(hours) \cup FromRaw(hours) \subseteq InWindow(hours)
    /\ InWindow(hours) \ Late \subseteq FromRollups(hours) \cup FromRaw(hours)

=============================================================================
