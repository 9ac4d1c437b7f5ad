---------------------------- MODULE EgressProofs ----------------------------
(***************************************************************************)
(* Proofs about the egress components: the state row of a sweep, the health *)
(* rollups and the credential canaries.                                    *)
(***************************************************************************)
EXTENDS EgressCanaries, EgressHealth, SweepHealth, TLAPS

-----------------------------------------------------------------------------
(***************************************************************************)
(* The state row of a sweep, for any number of processes and any clock.    *)
(*                                                                         *)
(* record_execution_recovery_failure compares the row's heartbeat with the *)
(* time at which the failed sweep began.  OwnReportsEarlier is what that   *)
(* needs: a heartbeat that a process wrote itself lies before whatever it  *)
(* has begun since.  It is kept because a process ends one attempt before  *)
(* it begins the next and never knows a time that is still to come.        *)
(***************************************************************************)

AttemptOK(a) ==
  \/ a = Resting
  \/ /\ a.pc \in {"started", "sweeping", "failed"}
     /\ a.at \in Nat /\ a.at <= sweep_now
     /\ a.pc = "sweeping" => a.stamp \in Nat /\ a.at <= a.stamp /\ a.stamp <= sweep_now

OwnReportsEarlier(p) ==
  row.owner = p /\ attempt[p] # Resting => row.heartbeat <= attempt[p].at

SweepInv ==
  /\ SweepTypeOK
  /\ row.owner \notin Owners => row.heartbeat = NeverAt
  /\ attempt = [p \in Owners |-> attempt[p]]
  /\ \A p \in Owners : AttemptOK(attempt[p]) /\ OwnReportsEarlier(p)

-----------------------------------------------------------------------------
\* A process that changes what it does, when the row stays or becomes the process's own
LEMMA AttemptStep ==
  ASSUME SweepInv, NEW p \in Owners, SweepTypeOK', sweep_now' = sweep_now,
         attempt' = [q \in Owners |-> attempt'[q]],
         \A q \in Owners \ {p} : attempt'[q] = attempt[q],
         AttemptOK(attempt[p])', OwnReportsEarlier(p)',
         row' = row \/ row'.owner = p
  PROVE  SweepInv'
<1>1. ASSUME NEW q \in Owners \ {p}  PROVE AttemptOK(attempt[q])' /\ OwnReportsEarlier(q)'
  BY DEF SweepInv, AttemptOK, OwnReportsEarlier
<1>. QED  BY <1>1 DEF SweepInv

\* What a busy process knows
LEMMA BusyFacts ==
  ASSUME SweepInv, NEW p \in Owners, attempt[p].pc \in {"started", "sweeping", "failed"}
  PROVE  /\ attempt[p] # Resting /\ attempt[p].at \in Nat /\ attempt[p].at <= sweep_now
         /\ sweep_now \in Nat /\ MaxSweepTime \in Nat
         /\ row.owner = p => row.heartbeat <= attempt[p].at
BY SweepAssumption DEF SweepInv, AttemptOK, OwnReportsEarlier, Resting, SweepTypeOK

\* Only rows in range are written, and only known times.
LEMMA SweepStepOK == SweepInv /\ [SweepNext]_sweepVars => SweepInv'
<1> SUFFICES ASSUME SweepInv, [SweepNext]_sweepVars  PROVE SweepInv'
  OBVIOUS
<1>0. sweep_now \in Nat /\ MaxSweepTime \in Nat
  BY SweepAssumption DEF SweepInv, SweepTypeOK
<1>1. ASSUME NEW p \in Owners, StartSweep(p)  PROVE SweepInv'
  <2>1. /\ attempt'[p] = [pc |-> "started", at |-> sweep_now]
        /\ attempt' = [q \in Owners |-> attempt'[q]] /\ \A q \in Owners \ {p} : attempt'[q] = attempt[q]
        /\ sweep_now' = sweep_now /\ row' = row
    BY <1>1 DEF StartSweep, SweepInv
  <2>2. SweepTypeOK'
    BY <2>1 DEF SweepInv, SweepTypeOK
  <2>3. AttemptOK(attempt[p])'
    BY <1>0, <2>1 DEF AttemptOK
  <2>4. row.heartbeat <= sweep_now
    BY <1>0 DEF SweepInv, SweepTypeOK, NeverAt
  <2>. QED  BY <2>1, <2>2, <2>3, <2>4, AttemptStep DEF OwnReportsEarlier
<1>2. ASSUME NEW p \in Owners, TakeLock(p)  PROVE SweepInv'
  <2>1. attempt[p].pc \in {"started", "sweeping", "failed"}
    BY <1>2 DEF TakeLock
  <2>2. /\ attempt' = [q \in Owners |-> attempt'[q]] /\ \A q \in Owners \ {p} : attempt'[q] = attempt[q]
        /\ sweep_now' = sweep_now /\ row' = row
    BY <1>2 DEF TakeLock, SweepInv
  <2>3. \/ attempt'[p] = Resting
        \/ \E time \in Stamps(attempt[p].at) :
             attempt'[p] = [pc |-> "sweeping", at |-> attempt[p].at, stamp |-> time]
    BY <1>2 DEF TakeLock, SweepInv
  <2>4. SweepTypeOK'
    BY <2>2 DEF SweepInv, SweepTypeOK
  <2>5. CASE attempt'[p] = Resting
    BY <2>2, <2>4, <2>5, AttemptStep DEF AttemptOK, OwnReportsEarlier
  <2>6. CASE attempt'[p] # Resting
    <3>1. PICK time \in Stamps(attempt[p].at) :
            attempt'[p] = [pc |-> "sweeping", at |-> attempt[p].at, stamp |-> time]
      BY <2>3, <2>6
    <3>2. time \in Nat /\ attempt[p].at <= time /\ time <= sweep_now
      BY <2>1, <3>1, BusyFacts DEF Stamps
    <3>3. AttemptOK(attempt[p])' /\ OwnReportsEarlier(p)'
      BY <2>1, <2>2, <3>1, <3>2, BusyFacts DEF AttemptOK, OwnReportsEarlier
    <3>. QED  BY <2>2, <2>4, <3>3, AttemptStep
  <2>. QED  BY <2>5, <2>6
<1>3. ASSUME NEW p \in Owners, CompleteSweep(p)  PROVE SweepInv'
  <2>1. attempt[p].stamp \in Nat /\ attempt[p].stamp <= sweep_now
    BY <1>3 DEF CompleteSweep, SweepInv, AttemptOK, Resting
  <2>2. /\ row' = [status |-> "HEALTHY", owner |-> p, started |-> attempt[p].stamp,
                   completed |-> attempt[p].stamp, heartbeat |-> attempt[p].stamp]
        /\ attempt'[p] = Resting /\ sweep_now' = sweep_now
        /\ attempt' = [q \in Owners |-> attempt'[q]] /\ \A q \in Owners \ {p} : attempt'[q] = attempt[q]
    BY <1>3 DEF CompleteSweep, SweepInv
  <2>3. SweepTypeOK'
    BY <1>0, <2>1, <2>2 DEF SweepInv, SweepTypeOK, StateRow, NeverAt
  <2>. QED  BY <2>2, <2>3, AttemptStep DEF AttemptOK, OwnReportsEarlier
<1>4. ASSUME NEW p \in Owners, FailSweep(p)  PROVE SweepInv'
  <2>1. attempt[p].pc \in {"started", "sweeping", "failed"}
    BY <1>4 DEF FailSweep
  <2>2. /\ attempt'[p] = [pc |-> "failed", at |-> attempt[p].at]
        /\ attempt' = [q \in Owners |-> attempt'[q]] /\ \A q \in Owners \ {p} : attempt'[q] = attempt[q]
        /\ sweep_now' = sweep_now /\ row' = row
    BY <1>4 DEF FailSweep, SweepInv
  <2>3. SweepTypeOK'
    BY <2>2 DEF SweepInv, SweepTypeOK
  <2>4. AttemptOK(attempt[p])' /\ OwnReportsEarlier(p)'
    BY <2>1, <2>2, BusyFacts DEF AttemptOK, OwnReportsEarlier
  <2>. QED  BY <2>2, <2>3, <2>4, AttemptStep
<1>5. ASSUME NEW p \in Owners, RecordFailure(p)  PROVE SweepInv'
  <2>1. attempt[p].pc \in {"started", "sweeping", "failed"}
    BY <1>5 DEF RecordFailure
  <2>2. /\ attempt'[p] = Resting /\ sweep_now' = sweep_now
        /\ attempt' = [q \in Owners |-> attempt'[q]] /\ \A q \in Owners \ {p} : attempt'[q] = attempt[q]
    BY <1>5 DEF RecordFailure, SweepInv
  <2>3. CASE row' = row
    BY <2>2, <2>3, AttemptStep DEF AttemptOK, OwnReportsEarlier, SweepInv, SweepTypeOK
  <2>4. CASE row' # row
    <3>1. PICK time \in Stamps(attempt[p].at) :
            /\ row.heartbeat <= attempt[p].at
            /\ row' = [row EXCEPT !.status = "FAILED", !.owner = p,
                                  !.started = attempt[p].at, !.heartbeat = time]
      BY <1>5, <2>4 DEF RecordFailure, RecordsFailure
    <3>2. time \in Nat /\ attempt[p].at <= time /\ time <= sweep_now /\ attempt[p].at \in Nat
      BY <2>1, <3>1, BusyFacts DEF Stamps
    <3>3. /\ row' \in StateRow /\ row'.started = attempt[p].at /\ row'.heartbeat = time
          /\ row'.completed = row.completed /\ row'.owner = p
      <4>1. row \in StateRow /\ attempt[p].at \in Int /\ time \in Int
        BY <3>2 DEF SweepInv, SweepTypeOK
      <4>. QED  BY <3>1, <4>1, Zenon DEF StateRow
    <3>4. /\ row.completed \in Int /\ row.heartbeat \in Int /\ NeverAt <= row.completed
          /\ row.completed <= row.heartbeat
      BY DEF SweepInv, SweepTypeOK, StateRow, NeverAt
    <3>5. SweepTypeOK'
      BY <1>0, <2>2, <3>1, <3>2, <3>3, <3>4 DEF SweepInv, SweepTypeOK, NeverAt
    <3>. QED  BY <2>2, <3>3, <3>5, AttemptStep DEF AttemptOK, OwnReportsEarlier
  <2>. QED  BY <2>3, <2>4
<1>6. ASSUME SweepTick  PROVE SweepInv'
  <2>1. SweepTypeOK'
    BY <1>0, <1>6 DEF SweepTick, SweepInv, SweepTypeOK, NeverAt
  <2>. QED  BY <1>0, <1>6, <2>1 DEF SweepTick, SweepInv, AttemptOK, OwnReportsEarlier
<1>7. CASE UNCHANGED sweepVars
  BY <1>7 DEF sweepVars, SweepInv, SweepTypeOK, AttemptOK, OwnReportsEarlier
<1>. QED  BY <1>1, <1>2, <1>3, <1>4, <1>5, <1>6, <1>7 DEF SweepNext

\* A process's own reports lie before what it has begun since, and every row has only
\* past times and no success after its heartbeat.
THEOREM SweepInvariance == SweepSpec => []SweepInv
<1>1. SweepInit => SweepInv
  BY SweepAssumption DEF SweepInit, SweepInv, SweepTypeOK, AttemptOK, OwnReportsEarlier, StateRow, NeverAt
<1>. QED  BY <1>1, SweepStepOK, PTL DEF SweepSpec

\* A failure that is yet to be recorded is refused only if the row is another process's
\* report (the WHERE of record_execution_recovery_failure), for any number of processes.
THEOREM FailuresAreReported == SweepSpec => []FailureSilencedByOthersOnly
<1>1. SweepInv => FailureSilencedByOthersOnly
  <2> SUFFICES ASSUME SweepInv, NEW p \in Owners, attempt[p].pc = "failed", ~RecordsFailure(attempt[p].at)
               PROVE  row.owner \in Owners \ {p}
    BY DEF FailureSilencedByOthersOnly
  <2>1. ~(row.heartbeat <= attempt[p].at) /\ attempt[p].at \in Nat
    BY BusyFacts DEF RecordsFailure
  <2>2. row.owner # p
    BY <2>1, BusyFacts
  <2>3. row.owner \in Owners
    BY <2>1 DEF SweepInv, NeverAt
  <2>. QED  BY <2>2, <2>3
<1>. QED  BY <1>1, SweepInvariance, PTL

-----------------------------------------------------------------------------
(***************************************************************************)
(* Health: for any number of observations, hours and retentions.  The      *)
(* argument is about the order in which the maintenance removes rows: a raw *)
(* row is purged only after its hour left every window, so no window ever  *)
(* counts an hour twice or reads one that was rolled up incompletely.      *)
(***************************************************************************)

ObservationOK(o) ==
  \/ observation[o] = NotSeen
  \/ LET x == observation[o]
     IN  /\ x = [pc |-> x.pc, at |-> x.at, committed |-> x.committed,
                 evidence |-> x.evidence, verdict |-> x.verdict]
         /\ x.pc \in {"open", "raw", "purged"} /\ x.at \in Nat /\ x.at <= health_now
         /\ x.committed \in Int

\* A purged observation is older than any window.
PurgedAreOld ==
  \A o \in Observations :
    observation[o].pc = "purged" => observation[o].at < health_now - RawRetentionHours * HourTicks

\* A rolled hour is over, counts observations of its own, and has every raw one that
\* was committed in time.
RolledOK(hour) ==
  /\ hour \in Int /\ HourEnd(hour) <= health_now
  /\ \A o \in rolled[hour] : o \in Stored /\ Hour(observation[o].at) = hour
  /\ OfHour(hour) \ Late \subseteq rolled[hour]

HealthInv ==
  /\ health_now \in Nat
  /\ observation = [o \in Observations |-> observation[o]]
  /\ \A o \in Observations : ObservationOK(o)
  /\ PurgedAreOld
  /\ \A hour \in DOMAIN rolled : RolledOK(hour)

-----------------------------------------------------------------------------
(* Hours.                                                                  *)

LEMMA Ticks ==
  /\ HourTicks \in Nat \ {0} /\ WindowHours \in Nat /\ RawRetentionHours \in Nat
  /\ WindowHours < RawRetentionHours
BY RetentionAssumption

LEMMA Division ==
  ASSUME NEW t \in Int, NEW k \in Nat \ {0}
  PROVE  /\ t \div k \in Int
         /\ (t \div k) * k <= t
         /\ t < (t \div k + 1) * k
OBVIOUS

LEMMA Multiplied ==
  ASSUME NEW a \in Int, NEW b \in Int, NEW k \in Nat \ {0}, a <= b
  PROVE  a * k <= b * k
OBVIOUS

LEMMA HourBounds ==
  ASSUME NEW t \in Int
  PROVE  Hour(t) \in Int /\ HourStart(Hour(t)) <= t /\ t < HourEnd(Hour(t))
         /\ HourStart(Hour(t)) \in Int /\ HourEnd(Hour(t)) \in Int
BY Ticks, Division DEF Hour, HourStart, HourEnd

\* A later hour begins later.
LEMMA LaterHour ==
  ASSUME NEW s \in Int, NEW t \in Int, Hour(t) > Hour(s)
  PROVE  t >= s
<1>1. Hour(s) \in Int /\ Hour(t) \in Int /\ HourTicks \in Nat \ {0}
  BY Ticks, HourBounds
<1>2. (Hour(s) + 1) * HourTicks <= Hour(t) * HourTicks
  BY <1>1, Multiplied
<1>3. HourEnd(Hour(s)) <= HourStart(Hour(t))
  BY <1>2 DEF HourEnd, HourStart
<1>. QED  BY <1>3, HourBounds

-----------------------------------------------------------------------------
(* The invariant.                                                          *)

LEMMA Fields ==
  ASSUME HealthInv, NEW o \in Observations, observation[o].pc # "none"
  PROVE  LET x == observation[o]
         IN  /\ x = [pc |-> x.pc, at |-> x.at, committed |-> x.committed,
                     evidence |-> x.evidence, verdict |-> x.verdict]
             /\ x.pc \in {"open", "raw", "purged"} /\ x.at \in Nat /\ x.at <= health_now
             /\ x.committed \in Int
BY DEF HealthInv, ObservationOK, NotSeen

LEMMA HealthInitOK == HealthInit => HealthInv
BY DEF HealthInit, HealthInv, ObservationOK, PurgedAreOld, NotSeen

\* A step that changes one observation which is not stored, and leaves it unstored or
\* commits it now
LEMMA ReportOK ==
  ASSUME HealthInv, NEW o \in Observations, NEW x, observation' = [observation EXCEPT ![o] = x],
         observation[o].pc \in {"none", "open"}, UNCHANGED <<health_now, rolled>>,
         \/ x = NotSeen
         \/ /\ x = [pc |-> x.pc, at |-> x.at, committed |-> x.committed,
                    evidence |-> x.evidence, verdict |-> x.verdict]
            /\ x.at \in Nat /\ x.at <= health_now /\ x.committed \in Int
            /\ x.pc = "open" \/ (x.pc = "raw" /\ x.committed = health_now)
  PROVE  HealthInv'
<1>1. /\ observation' = [q \in Observations |-> observation'[q]] /\ observation'[o] = x
      /\ \A q \in Observations : q # o => observation'[q] = observation[q]
  BY DEF HealthInv
<1>2. NotSeen.pc = "none"
  BY DEF NotSeen
<1>3. \A q \in Observations : ObservationOK(q)'
  <2>1. ObservationOK(o)'
    BY <1>1 DEF ObservationOK
  <2>2. ASSUME NEW q \in Observations, q # o PROVE ObservationOK(q)'
    BY <1>1, <2>2 DEF HealthInv, ObservationOK
  <2>. QED  BY <2>1, <2>2
<1>4. PurgedAreOld'
  BY <1>1, <1>2 DEF HealthInv, PurgedAreOld
<1>5. ASSUME NEW hour \in DOMAIN rolled PROVE RolledOK(hour)'
  <2>1. RolledOK(hour)
    BY DEF HealthInv
  <2>2. \A q \in rolled[hour] : q # o
    BY <2>1 DEF RolledOK, Stored
  <2>3. \A q \in rolled[hour] : q \in Stored' /\ Hour(observation'[q].at) = hour
    BY <1>1, <2>1, <2>2 DEF RolledOK, Stored
  <2>4. ASSUME NEW q \in OfHour(hour)', q \notin Late' PROVE q \in rolled[hour]
    <3>1. q \in Observations /\ observation'[q].pc = "raw" /\ Hour(observation'[q].at) = hour
      BY <2>4 DEF OfHour, Raw
    <3>2. observation'[q].committed < HourEnd(hour) \/ ~(observation'[q].committed >= HourEnd(hour))
      BY <2>4, <3>1 DEF Late, Stored
    <3>3. CASE q = o
      <4>1. observation'[q].committed = health_now /\ HourEnd(hour) <= health_now /\ health_now \in Nat
        BY <1>1, <1>2, <2>1, <3>1, <3>3 DEF RolledOK, HealthInv
      <4>2. HourEnd(hour) \in Int
        BY <2>1, Ticks DEF RolledOK, HourEnd, HourStart
      <4>. QED  BY <3>2, <4>1, <4>2
    <3>4. CASE q # o
      <4>1. q \in OfHour(hour) /\ q \notin Late
        BY <1>1, <2>4, <3>1, <3>4 DEF OfHour, Raw, Late, Stored
      <4>. QED  BY <2>1, <4>1 DEF RolledOK
    <3>. QED  BY <3>3, <3>4
  <2>. QED  BY <2>1, <2>3, <2>4 DEF RolledOK
<1>. QED  BY <1>1, <1>3, <1>4, <1>5 DEF HealthInv

\* Time passes.
LEMMA TickOK ==
  ASSUME HealthInv, HealthTick PROVE HealthInv'
<1>1. health_now' = health_now + 1 /\ health_now \in Nat /\ UNCHANGED <<observation, rolled>>
  BY DEF HealthTick, HealthInv
<1>2. \A o \in Observations : ObservationOK(o)'
  BY <1>1 DEF HealthInv, ObservationOK
<1>3. PurgedAreOld'
  <2>1. RawRetentionHours * HourTicks \in Int
    BY Ticks
  <2>2. ASSUME NEW o \in Observations, observation[o].pc = "purged"
        PROVE  observation[o].at < health_now' - RawRetentionHours * HourTicks
    <3>1. observation[o].at \in Nat
      BY <2>2, Fields, Zenon
    <3>2. observation[o].at < health_now - RawRetentionHours * HourTicks
      BY <2>2 DEF HealthInv, PurgedAreOld
    <3>. QED  BY <1>1, <2>1, <3>1, <3>2
  <2>. QED  BY <1>1, <2>2 DEF PurgedAreOld
<1>4. ASSUME NEW hour \in DOMAIN rolled PROVE RolledOK(hour)'
  <2>1. RolledOK(hour)
    BY DEF HealthInv
  <2>2. HourEnd(hour) \in Int /\ HourEnd(hour) <= health_now'
    BY <1>1, <2>1, Ticks DEF RolledOK, HourEnd, HourStart
  <2>3. OfHour(hour)' = OfHour(hour) /\ Late' = Late /\ Stored' = Stored
    BY <1>1 DEF OfHour, Raw, Late, Stored
  <2>. QED  BY <1>1, <2>1, <2>2, <2>3 DEF RolledOK
<1>. QED  BY <1>1, <1>2, <1>3, <1>4 DEF HealthInv

IsReport(x) ==
  x = [pc |-> x.pc, at |-> x.at, committed |-> x.committed, evidence |-> x.evidence, verdict |-> x.verdict]

LEMMA PurgedReport ==
  ASSUME NEW x, IsReport(x), NEW y, y = [x EXCEPT !.pc = "purged"]
  PROVE  IsReport(y) /\ y.pc = "purged" /\ y.at = x.at /\ y.committed = x.committed
BY DEF IsReport

\* A sweep rolls closed hours, and purges old rows of rolled hours and old rollups.
LEMMA SweepOK ==
  ASSUME HealthInv, SweepHours PROVE HealthInv'
<1>1. PICK new, gone, out :
        /\ new \subseteq Rollable /\ gone \subseteq Purgeable(DOMAIN rolled \cup new)
        /\ rolled' = [hour \in (DOMAIN rolled \cup new) \ out |->
                        IF hour \in new THEN OfHour(hour) ELSE rolled[hour]]
        /\ observation' = [o \in Observations |->
             IF o \in gone THEN [observation[o] EXCEPT !.pc = "purged"] ELSE observation[o]]
  <2>1. PICK new \in Oldest(Rollable, RollupBatchSize, LAMBDA hour : hour) :
          LET hours == DOMAIN rolled \cup new
              counted(hour) == IF hour \in new THEN OfHour(hour) ELSE rolled[hour]
          IN  \E gone \in Oldest(Purgeable(hours), PurgeBatchSize, LAMBDA o : observation[o].at),
                 out \in Oldest(ExpiredHours(hours), PurgeBatchSize, LAMBDA hour : hour) :
                /\ rolled' = [hour \in hours \ out |-> counted(hour)]
                /\ observation' = [o \in Observations |->
                     IF o \in gone THEN [observation[o] EXCEPT !.pc = "purged"] ELSE observation[o]]
    BY Zenon DEF SweepHours
  <2>2. PICK gone \in Oldest(Purgeable(DOMAIN rolled \cup new), PurgeBatchSize, LAMBDA o : observation[o].at),
             out \in Oldest(ExpiredHours(DOMAIN rolled \cup new), PurgeBatchSize, LAMBDA hour : hour) :
          /\ rolled' = [hour \in (DOMAIN rolled \cup new) \ out |->
                          IF hour \in new THEN OfHour(hour) ELSE rolled[hour]]
          /\ observation' = [o \in Observations |->
               IF o \in gone THEN [observation[o] EXCEPT !.pc = "purged"] ELSE observation[o]]
    BY <2>1, Zenon
  <2>3. new \subseteq Rollable
    BY DEF Oldest
  <2>4. gone \subseteq Purgeable(DOMAIN rolled \cup new)
    BY Zenon DEF Oldest
  <2>. QED  BY <2>2, <2>3, <2>4, Zenon
<1>2. health_now' = health_now /\ health_now \in Nat
  BY DEF SweepHours, HealthInv
<1>3. ASSUME NEW o \in Observations, o \in gone
      PROVE  /\ observation[o].pc = "raw"
             /\ observation[o].at < health_now - RawRetentionHours * HourTicks
             /\ IsReport(observation'[o]) /\ observation'[o].pc = "purged"
             /\ observation'[o].at = observation[o].at
             /\ observation'[o].committed = observation[o].committed
  <2>1. observation[o].pc = "raw" /\ observation[o].at < health_now - RawRetentionHours * HourTicks
    BY <1>1, <1>3 DEF Purgeable, Raw
  <2>2. PICK x : x = observation[o]
    OBVIOUS
  <2>3. IsReport(x)
    BY <2>1, <2>2, Fields DEF IsReport
  <2>4. PICK y : y = [x EXCEPT !.pc = "purged"]
    BY Zenon
  <2>5. observation'[o] = y
    BY <1>1, <1>3, <2>2, <2>4
  <2>. QED  BY <2>1, <2>2, <2>3, <2>4, <2>5, PurgedReport
<1>4. \A o \in Observations : o \notin gone => observation'[o] = observation[o]
  BY <1>1
<1>5. ASSUME NEW o \in Observations
      PROVE  /\ observation'[o].at = observation[o].at /\ observation'[o].committed = observation[o].committed
             /\ observation'[o].pc = "raw" => observation[o].pc = "raw"
             /\ observation'[o].pc \in {"raw", "purged"} <=> observation[o].pc \in {"raw", "purged"}
  <2>1. CASE o \in gone
    BY <1>3, <2>1
  <2>2. CASE o \notin gone
    BY <1>4, <2>2
  <2>. QED  BY <2>1, <2>2
<1>6. \A o \in Observations : ObservationOK(o)'
  <2>1. ASSUME NEW o \in Observations, o \in gone PROVE ObservationOK(o)'
    <3>1. /\ observation[o].at \in Nat /\ observation[o].at <= health_now /\ observation[o].committed \in Int
      BY <1>3, <2>1, Fields, Zenon
    <3>. QED  BY <1>2, <1>3, <2>1, <3>1 DEF ObservationOK, IsReport
  <2>2. ASSUME NEW o \in Observations, o \notin gone PROVE ObservationOK(o)'
    BY <1>2, <1>4, <2>2 DEF ObservationOK, HealthInv
  <2>. QED  BY <2>1, <2>2
<1>7. PurgedAreOld'
  BY <1>2, <1>3, <1>4 DEF HealthInv, PurgedAreOld
<1>8. Late' = Late
  BY <1>5 DEF Late, Stored
<1>9. ASSUME NEW hour \in DOMAIN rolled' PROVE RolledOK(hour)'
  <2>1. CASE hour \in new
    <3>1. rolled'[hour] = OfHour(hour)
      BY <1>1, <1>9, <2>1
    <3>2. PICK o \in Observations : o \in Raw /\ hour = Hour(observation[o].at)
      BY <1>1, <2>1 DEF Rollable, Raw
    <3>3. hour \in Int
      <4>1. observation[o].pc = "raw"
        BY <3>2 DEF Raw
      <4>2. observation[o].at \in Nat
        BY <4>1, Fields, Zenon
      <4>. QED  BY <3>2, <4>2, HourBounds
    <3>4. HourEnd(hour) <= HourStart(Hour(health_now))
      BY <1>1, <2>1 DEF Rollable
    <3>5. HourEnd(hour) \in Int
      BY <3>3, Ticks DEF HourEnd, HourStart
    <3>6. HourEnd(hour) <= health_now
      BY <1>2, <3>4, <3>5, HourBounds
    <3>7. \A q \in OfHour(hour) : q \in Stored' /\ Hour(observation'[q].at) = hour
      BY <1>5 DEF OfHour, Raw, Stored
    <3>8. OfHour(hour)' \subseteq OfHour(hour)
      BY <1>5 DEF OfHour, Raw
    <3>. QED  BY <1>2, <3>1, <3>3, <3>6, <3>7, <3>8 DEF RolledOK
  <2>2. CASE hour \notin new
    <3>1. rolled'[hour] = rolled[hour] /\ hour \in DOMAIN rolled
      BY <1>1, <1>9, <2>2
    <3>2. RolledOK(hour)
      BY <3>1 DEF HealthInv
    <3>3. \A q \in rolled[hour] : q \in Stored' /\ Hour(observation'[q].at) = hour
      BY <1>5, <3>2 DEF RolledOK, Stored
    <3>4. OfHour(hour)' \subseteq OfHour(hour)
      BY <1>5 DEF OfHour, Raw
    <3>. QED  BY <1>2, <1>8, <3>1, <3>2, <3>3, <3>4 DEF RolledOK
  <2>. QED  BY <2>1, <2>2
<1>10. observation' = [o \in Observations |-> observation'[o]]
  BY <1>1
<1>. QED  BY <1>2, <1>6, <1>7, <1>9, <1>10 DEF HealthInv

LEMMA HealthStepOK ==
  ASSUME HealthInv, [HealthNext]_healthVars PROVE HealthInv'
<1>1. CASE UNCHANGED <<health_now, observation, rolled>>
  BY <1>1 DEF HealthInv, ObservationOK, PurgedAreOld, RolledOK, Stored, OfHour, Raw, Late
<1>2. ASSUME NEW o \in Observations, NEW e, OpenReport(o, e) PROVE HealthInv'
  <2>1. PICK v : v = Guarded(e)
    OBVIOUS
  <2>2. PICK x : x = [pc |-> "open", at |-> health_now, committed |-> Never, evidence |-> e, verdict |-> v]
    BY Zenon
  <2>3. /\ observation' = [observation EXCEPT ![o] = x] /\ observation[o].pc = "none"
        /\ UNCHANGED <<health_now, rolled>>
    BY <1>2, <2>1, <2>2 DEF OpenReport, NotSeen
  <2>4. /\ x = [pc |-> x.pc, at |-> x.at, committed |-> x.committed, evidence |-> x.evidence, verdict |-> x.verdict]
        /\ x.at \in Nat /\ x.at <= health_now /\ x.committed \in Int /\ x.pc = "open"
    BY <2>2 DEF HealthInv, Never
  <2>. QED  BY <2>3, <2>4, ReportOK, Zenon
<1>3. ASSUME NEW o \in Observations, CommitReport(o) PROVE HealthInv'
  <2>1. PICK y : y = observation[o]
    OBVIOUS
  <2>2. /\ y = [pc |-> y.pc, at |-> y.at, committed |-> y.committed, evidence |-> y.evidence, verdict |-> y.verdict]
        /\ y.pc = "open" /\ y.at \in Nat /\ y.at <= health_now
    BY <1>3, <2>1, Fields DEF CommitReport
  <2>3. PICK x : x = [y EXCEPT !.pc = "raw", !.committed = health_now]
    OBVIOUS
  <2>4. x = [pc |-> "raw", at |-> y.at, committed |-> health_now, evidence |-> y.evidence, verdict |-> y.verdict]
    BY <2>2, <2>3, Zenon
  <2>5. observation' = [observation EXCEPT ![o] = x] /\ UNCHANGED <<health_now, rolled>>
    <3>1. observation' = [observation EXCEPT ![o].pc = "raw", ![o].committed = health_now]
      BY <1>3 DEF CommitReport
    <3>. QED  BY <1>3, <2>1, <2>3, <3>1, Zenon DEF CommitReport, HealthInv
  <2>6. /\ x = [pc |-> x.pc, at |-> x.at, committed |-> x.committed, evidence |-> x.evidence, verdict |-> x.verdict]
        /\ x.at \in Nat /\ x.at <= health_now /\ x.committed \in Int
        /\ x.pc = "raw" /\ x.committed = health_now
    BY <2>2, <2>4 DEF HealthInv
  <2>. QED  BY <2>1, <2>2, <2>5, <2>6, ReportOK, Zenon
<1>4. ASSUME NEW o \in Observations, ReportFails(o) PROVE HealthInv'
  BY <1>4, ReportOK, Zenon DEF ReportFails
<1>5. ASSUME NEW o \in Observations, RepeatReport(o) PROVE HealthInv'
  BY <1>1, <1>5 DEF RepeatReport
<1>. QED  BY <1>1, <1>2, <1>3, <1>4, <1>5, SweepOK, TickOK DEF HealthNext, healthVars

-----------------------------------------------------------------------------
\* A purged observation is older than every window, and a rolled hour is over and has
\* counted all the raw observations that were committed before it was.
THEOREM HealthInvariance == HealthSpec => []HealthInv
<1>1. HealthInv /\ [HealthNext]_healthVars => HealthInv'
  BY HealthStepOK
<1>. QED  BY <1>1, HealthInitOK, PTL DEF HealthSpec

\* However far run_egress_health_maintenance lags, a summary counts every observation
\* of its window once, but for those committed after their hour had ended.
THEOREM CountedOnce == HealthSpec => []SummariesCountOnce
<1>1. ASSUME HealthInv, NEW hours \in 1 .. WindowHours
      PROVE  /\ FromRollups(hours) \cap FromRaw(hours) = {}
             /\ FromRollups(hours) \cup FromRaw(hours) \subseteq InWindow(hours)
             /\ InWindow(hours) \ Late \subseteq FromRollups(hours) \cup FromRaw(hours)
  <2>0. /\ health_now \in Nat /\ HourTicks \in Nat \ {0} /\ hours \in Nat /\ WindowHours \in Nat
        /\ hours <= RawRetentionHours /\ RawRetentionHours \in Nat /\ WindowStart(hours) \in Int
    BY <1>1, Ticks DEF HealthInv, WindowStart
  <2>1. ASSUME NEW o \in FromRollups(hours)
        PROVE  o \in InWindow(hours) /\ Hour(observation[o].at) \in Covered(hours) \cap DOMAIN rolled
    <3>1. PICK hour \in Covered(hours) \cap DOMAIN rolled : o \in rolled[hour]
      BY DEF FromRollups
    <3>2. o \in Stored /\ Hour(observation[o].at) = hour
      BY <1>1, <3>1 DEF HealthInv, RolledOK
    <3>3. o \in Observations /\ observation[o].at \in Nat
      BY <1>1, <3>2, Fields, Zenon DEF Stored
    <3>4. hour > Hour(WindowStart(hours)) /\ HourEnd(hour) <= health_now
      BY <3>1 DEF Covered
    <3>5. WindowStart(hours) <= observation[o].at
      BY <2>0, <3>2, <3>3, <3>4, LaterHour
    <3>6. observation[o].at < health_now
      BY <2>0, <3>2, <3>3, <3>4, HourBounds
    <3>. QED  BY <3>1, <3>2, <3>5, <3>6 DEF InWindow
  <2>2. FromRaw(hours) \subseteq InWindow(hours)
    BY DEF FromRaw, InWindow, Raw, Stored
  <2>3. \A o \in FromRaw(hours) : Hour(observation[o].at) \notin Covered(hours) \cap DOMAIN rolled
    BY DEF FromRaw
  <2>4. ASSUME NEW o \in InWindow(hours), o \notin Late PROVE o \in FromRollups(hours) \cup FromRaw(hours)
    <3>1. o \in Stored /\ o \in Observations /\ WindowStart(hours) <= observation[o].at /\ observation[o].at < health_now
      BY DEF InWindow, Stored
    <3>2. observation[o].at \in Nat
      BY <1>1, <3>1, Fields, Zenon DEF Stored
    <3>3. observation[o].pc # "purged"
      <4>1. hours * HourTicks <= RawRetentionHours * HourTicks
        BY <2>0, Multiplied
      <4>2. health_now - hours * HourTicks <= observation[o].at
        BY <3>1 DEF WindowStart
      <4>3. hours * HourTicks \in Int /\ RawRetentionHours * HourTicks \in Int
        BY <2>0
      <4>4. ~(observation[o].at < health_now - RawRetentionHours * HourTicks)
        BY <2>0, <3>2, <4>1, <4>2, <4>3
      <4>. QED  BY <1>1, <3>1, <4>4 DEF HealthInv, PurgedAreOld
    <3>4. o \in Raw
      BY <3>1, <3>3 DEF Raw, Stored
    <3>5. CASE Hour(observation[o].at) \in Covered(hours) \cap DOMAIN rolled
      <4>1. o \in rolled[Hour(observation[o].at)]
        BY <1>1, <2>4, <3>4, <3>5 DEF HealthInv, RolledOK, OfHour
      <4>. QED  BY <3>5, <4>1 DEF FromRollups
    <3>6. CASE Hour(observation[o].at) \notin Covered(hours) \cap DOMAIN rolled
      BY <3>1, <3>4, <3>6 DEF FromRaw
    <3>. QED  BY <3>5, <3>6
  <2>. QED  BY <2>1, <2>2, <2>3, <2>4
<1>2. HealthInv => SummariesCountOnce
  BY <1>1 DEF SummariesCountOnce
<1>. QED  BY <1>2, HealthInvariance, PTL

-----------------------------------------------------------------------------
(***************************************************************************)
(* The canaries, for any number of secret versions, tries and probes.  A step *)
(* replaces a whole row, so an attempt is spelled out field by field       *)
(* (IsAttempt).  The invariant says that an attempt that waits has a try left *)
(* and that no attempt exists for a version the secret has not reached; the *)
(* refinement of LeasedWork needs both.                                    *)
(***************************************************************************)

IsAttempt(c) ==
  /\ c = [status |-> c.status, count |-> c.count, left |-> c.left, target |-> c.target,
          outcome |-> c.outcome, retryable |-> c.retryable]
  /\ c.status \in {"PENDING", "CLAIMED"} \cup Ended
  /\ c.count \in Nat /\ c.left \in Nat

\* An attempt that waits has a try left.
AttemptInv(c) ==
  \/ c = NotScheduled
  \/ IsAttempt(c) /\ (c.status = "PENDING" => c.count < MaxCanaryAttempts)

IsProbe(p) ==
  /\ p = [version |-> p.version, count |-> p.count, runner |-> p.runner, pc |-> p.pc,
          outcome |-> p.outcome]
  /\ p.version \in SecretVersions

\* There is no attempt for a version that the secret has not reached.
CanaryInv ==
  /\ secretVersion \in SecretVersions
  /\ canary = [v \in SecretVersions |-> canary[v]]
  /\ \A v \in SecretVersions : AttemptInv(canary[v]) /\ (v > secretVersion => canary[v] = NotScheduled)
  /\ \A p \in probes : IsProbe(p)

CanaryLimits == MaxCanaryAttempts \in Nat \ {0} /\ ClaimTicks \in Nat \ {0} /\ MaxSecretVersion \in Nat \ {0}

LEMMA Limits == CanaryLimits
BY CanaryAssumption DEF CanaryLimits

-----------------------------------------------------------------------------
(* Attempts.                                                               *)

Attempt(status, count, left, target, outcome, retryable) ==
  [status |-> status, count |-> count, left |-> left, target |-> target,
   outcome |-> outcome, retryable |-> retryable]

LEMMA AttemptFields ==
  ASSUME NEW s, NEW n, NEW l, NEW t, NEW o, NEW r
  PROVE  LET c == Attempt(s, n, l, t, o, r)
         IN  c.status = s /\ c.count = n /\ c.left = l /\ c.target = t /\ c.outcome = o /\ c.retryable = r
BY DEF Attempt

LEMMA AttemptIs ==
  ASSUME NEW s \in {"PENDING", "CLAIMED"} \cup Ended, NEW n \in Nat, NEW l \in Nat, NEW t, NEW o, NEW r
  PROVE  IsAttempt(Attempt(s, n, l, t, o, r))
BY DEF Attempt, IsAttempt

LEMMA Scheduled ==
  ASSUME NEW c, AttemptInv(c), c.status # "none"
  PROVE  IsAttempt(c) /\ c # NotScheduled /\ (c.status = "PENDING" => c.count < MaxCanaryAttempts)
BY DEF AttemptInv, NotScheduled

LEMMA StatusIs ==
  ASSUME NEW c, IsAttempt(c), NEW s, NEW y, y = [c EXCEPT !.status = s]
  PROVE  y = Attempt(s, c.count, c.left, c.target, c.outcome, c.retryable)
BY DEF IsAttempt, Attempt

LEMMA FailedIs ==
  ASSUME NEW c, IsAttempt(c), NEW s, NEW o, NEW y, y = [c EXCEPT !.status = s, !.outcome = o]
  PROVE  y = Attempt(s, c.count, c.left, c.target, o, c.retryable)
BY Zenon DEF IsAttempt, Attempt

LEMMA ConcludedIs ==
  ASSUME NEW c, IsAttempt(c), NEW s, NEW o, NEW r, NEW y,
         y = [c EXCEPT !.status = s, !.outcome = o, !.retryable = r]
  PROVE  y = Attempt(s, c.count, c.left, c.target, o, r)
BY Zenon DEF IsAttempt, Attempt

LEMMA ReclaimedIs ==
  ASSUME NEW c, IsAttempt(c)
  PROVE  ReclaimedCanaries(c) =
           IF c.count < MaxCanaryAttempts
             THEN Attempt("PENDING", c.count, c.left, c.target, c.outcome, c.retryable)
             ELSE Attempt("FAILED", c.count, c.left, c.target, "MAX_ATTEMPTS_EXCEEDED", c.retryable)
<1>1. c.count >= MaxCanaryAttempts <=> ~(c.count < MaxCanaryAttempts)
  BY Limits DEF CanaryLimits, IsAttempt
<1>2. [c EXCEPT !.status = "PENDING"] = Attempt("PENDING", c.count, c.left, c.target, c.outcome, c.retryable)
  BY StatusIs
<1>3. [c EXCEPT !.status = "FAILED", !.outcome = "MAX_ATTEMPTS_EXCEEDED"] =
        Attempt("FAILED", c.count, c.left, c.target, "MAX_ATTEMPTS_EXCEEDED", c.retryable)
  BY FailedIs, Zenon
<1>. QED  BY <1>1, <1>2, <1>3 DEF ReclaimedCanaries

LEMMA ClaimedIs ==
  ASSUME NEW c, IsAttempt(c)
  PROVE  Claimed(c) = Attempt("CLAIMED", c.count + 1, ClaimTicks, c.target, c.outcome, c.retryable)
<1>1. ASSUME NEW y, y = [c EXCEPT !.status = "CLAIMED", !.count = @ + 1, !.left = ClaimTicks]
      PROVE  y = Attempt("CLAIMED", c.count + 1, ClaimTicks, c.target, c.outcome, c.retryable)
  BY <1>1, Zenon DEF IsAttempt, Attempt
<1>. QED  BY <1>1 DEF Claimed

-----------------------------------------------------------------------------
(* What the steps do to the attempts.                                      *)

\* A poll takes an expired claim back, or claims an attempt that waits or was taken back.
TakenBack(v) ==
  /\ canary[v].status = "CLAIMED" /\ canary[v].left = 0
  /\ canary'[v].status = IF canary[v].count < MaxCanaryAttempts THEN "PENDING" ELSE "FAILED"
  /\ canary'[v].count = canary[v].count

ClaimedNow(v) ==
  /\ canary[v].status = "PENDING" \/ (canary[v].status = "CLAIMED" /\ canary[v].left = 0)
  /\ canary[v].count < MaxCanaryAttempts
  /\ canary'[v].status = "CLAIMED" /\ canary'[v].count = canary[v].count + 1
  /\ canary'[v].left = ClaimTicks

LEMMA ClaimRows ==
  ASSUME CanaryInv, NEW runner, ClaimBatch(runner)
  PROVE  /\ secretVersion' = secretVersion
         /\ canary' = [v \in SecretVersions |-> canary'[v]]
         /\ \E taken \in SUBSET SecretVersions :
              /\ probes' = probes \cup {ProbeOf(v, canary'[v], runner) : v \in taken}
              /\ \A v \in SecretVersions :
                   /\ v \in taken => ClaimedNow(v) /\ IsAttempt(canary'[v])
                   /\ v \notin taken => \/ canary'[v] = canary[v]
                                        \/ TakenBack(v) /\ IsAttempt(canary'[v])
<1>1. PICK expired \in Limited({v \in WithStatus("CLAIMED") : canary[v].left = 0}) :
        LET after == [v \in SecretVersions |->
                        IF v \in expired THEN ReclaimedCanaries(canary[v]) ELSE canary[v]]
            taken == OldestOf({v \in SecretVersions : after[v].status = "PENDING"})
        IN  /\ canary' = [v \in SecretVersions |-> IF v \in taken THEN Claimed(after[v]) ELSE after[v]]
            /\ probes' = probes \cup {ProbeOf(v, canary'[v], runner) : v \in taken}
            /\ UNCHANGED secretVersion
  BY Zenon DEF ClaimBatch
<1> DEFINE after == [v \in SecretVersions |->
                       IF v \in expired THEN ReclaimedCanaries(canary[v]) ELSE canary[v]]
           taken == OldestOf({v \in SecretVersions : after[v].status = "PENDING"})
<1>2. \A v \in expired : v \in SecretVersions /\ canary[v].status = "CLAIMED" /\ canary[v].left = 0
  BY DEF Limited, WithStatus
<1>3. taken \subseteq SecretVersions /\ \A v \in taken : after[v].status = "PENDING"
  BY DEF OldestOf
<1>4. ASSUME NEW v \in SecretVersions, v \in expired
      PROVE  /\ IsAttempt(canary[v]) /\ IsAttempt(after[v]) /\ after[v].count = canary[v].count
             /\ after[v].status = IF canary[v].count < MaxCanaryAttempts THEN "PENDING" ELSE "FAILED"
  <2>1. PICK c : c = canary[v]
    OBVIOUS
  <2>2. IsAttempt(c) /\ c.count \in Nat /\ c.left \in Nat
    BY <1>2, <1>4, <2>1, Scheduled DEF CanaryInv, IsAttempt
  <2>3. after[v] = ReclaimedCanaries(c)
    BY <1>4, <2>1
  <2> HIDE DEF after
  <2>4. CASE c.count < MaxCanaryAttempts
    <3>1. after[v] = Attempt("PENDING", c.count, c.left, c.target, c.outcome, c.retryable)
      BY <2>2, <2>3, <2>4, ReclaimedIs
    <3>. QED  BY <2>1, <2>2, <2>4, <3>1, AttemptFields, AttemptIs
  <2>5. CASE ~(c.count < MaxCanaryAttempts)
    <3>1. after[v] = Attempt("FAILED", c.count, c.left, c.target, "MAX_ATTEMPTS_EXCEEDED", c.retryable)
      BY <2>2, <2>3, <2>5, ReclaimedIs
    <3>2. "FAILED" \in {"PENDING", "CLAIMED"} \cup Ended
      BY DEF Ended
    <3>. QED  BY <2>1, <2>2, <2>5, <3>1, <3>2, AttemptFields, AttemptIs
  <2>. QED  BY <2>4, <2>5
<1>5. \A v \in SecretVersions : v \notin expired => after[v] = canary[v]
  OBVIOUS
<1>6. /\ canary' = [v \in SecretVersions |-> IF v \in taken THEN Claimed(after[v]) ELSE after[v]]
      /\ probes' = probes \cup {ProbeOf(v, canary'[v], runner) : v \in taken}
      /\ secretVersion' = secretVersion
  BY <1>1
<1> HIDE DEF after, taken
<1>7. ASSUME NEW v \in SecretVersions, v \in taken PROVE ClaimedNow(v) /\ IsAttempt(canary'[v])
  <2>1. PICK a : a = after[v]
    OBVIOUS
  <2>2. IsAttempt(a) /\ a.count = canary[v].count /\ a.count < MaxCanaryAttempts
    <3>1. CASE v \in expired
      BY <1>3, <1>4, <1>7, <2>1, <3>1
    <3>2. CASE v \notin expired
      BY <1>3, <1>5, <1>7, <2>1, <3>2, Scheduled DEF CanaryInv
    <3>. QED  BY <3>1, <3>2
  <2>3. canary[v].status = "PENDING" \/ (canary[v].status = "CLAIMED" /\ canary[v].left = 0)
    BY <1>2, <1>3, <1>5, <1>7
  <2>4. canary'[v] = Attempt("CLAIMED", a.count + 1, ClaimTicks, a.target, a.outcome, a.retryable)
    BY <1>6, <1>7, <2>1, <2>2, ClaimedIs
  <2>5. a.count + 1 \in Nat /\ ClaimTicks \in Nat
    BY <2>2, Limits DEF IsAttempt, CanaryLimits
  <2>. QED  BY <2>2, <2>3, <2>4, <2>5, AttemptFields, AttemptIs DEF ClaimedNow
<1>8. ASSUME NEW v \in SecretVersions, v \notin taken
      PROVE  canary'[v] = canary[v] \/ (TakenBack(v) /\ IsAttempt(canary'[v]))
  <2>1. canary'[v] = after[v]
    BY <1>6, <1>8
  <2>. QED  BY <1>2, <1>4, <1>5, <2>1 DEF TakenBack
<1>9. canary' = [v \in SecretVersions |-> canary'[v]]
  BY <1>6
<1>. QED  BY <1>3, <1>6, <1>7, <1>8, <1>9, Zenon

LEMMA CompleteRows ==
  ASSUME CanaryInv, NEW p \in probes, CompleteProbe(p)
  PROVE  LET v == p.version
         IN  /\ v \in SecretVersions /\ Accepts(p) /\ probes' = probes \ {p} /\ secretVersion' = secretVersion
             /\ canary' = [u \in SecretVersions |-> canary'[u]]
             /\ \A u \in SecretVersions : u # v => canary'[u] = canary[u]
             /\ IsAttempt(canary'[v]) /\ canary'[v].count = canary[v].count
             /\ canary'[v].status = Final(Conclusion(p)) /\ canary'[v].status \in Ended
<1> DEFINE v == p.version
<1>1. v \in SecretVersions /\ Accepts(p) /\ probes' = probes \ {p} /\ secretVersion' = secretVersion
  BY DEF CanaryInv, IsProbe, CompleteProbe
<1>2. PICK c, o, r : /\ c = canary[v] /\ o = Conclusion(p)
                     /\ r = (o \in {"TARGET_ERROR", "TIMEOUT", "DNS_FAILURE"})
  OBVIOUS
<1>3. IsAttempt(c) /\ c.count \in Nat /\ c.left \in Nat
  BY <1>1, <1>2, Scheduled DEF CanaryInv, Accepts, IsAttempt
<1>4. PICK y : y = [c EXCEPT !.status = Final(o), !.outcome = o, !.retryable = r]
  OBVIOUS
<1>5. y = Attempt(Final(o), c.count, c.left, c.target, o, r)
  BY <1>3, <1>4, ConcludedIs, Zenon
<1>6. canary' = [canary EXCEPT ![v] = y]
  BY <1>2, <1>4 DEF CompleteProbe
<1>7. /\ canary' = [u \in SecretVersions |-> canary'[u]] /\ canary'[v] = y
      /\ \A u \in SecretVersions : u # v => canary'[u] = canary[u]
  BY <1>1, <1>6 DEF CanaryInv
<1>8. Final(o) \in Ended
  BY DEF Final, Ended
<1>9. IsAttempt(y) /\ y.count = c.count /\ y.status = Final(o)
  <2>1. PICK s : s = Final(o)
    OBVIOUS
  <2>2. s \in {"PENDING", "CLAIMED"} \cup Ended
    BY <1>8, <2>1
  <2>3. y = Attempt(s, c.count, c.left, c.target, o, r)
    BY <1>5, <2>1
  <2>. QED  BY <1>3, <2>1, <2>2, <2>3, AttemptFields, AttemptIs
<1>. QED  BY <1>1, <1>2, <1>7, <1>8, <1>9

LEMMA TickRows ==
  ASSUME CanaryInv, CanaryTick
  PROVE  /\ UNCHANGED <<secretVersion, probes>>
         /\ canary' = [v \in SecretVersions |-> canary'[v]]
         /\ \A v \in SecretVersions :
              \/ canary'[v] = canary[v]
              \/ /\ canary[v].status = "CLAIMED" /\ canary[v].left > 0
                 /\ IsAttempt(canary[v]) /\ IsAttempt(canary'[v])
                 /\ canary'[v].status = "CLAIMED" /\ canary'[v].count = canary[v].count
<1>1. /\ UNCHANGED <<secretVersion, probes>>
      /\ canary' = [v \in SecretVersions |->
           IF canary[v].status = "CLAIMED" /\ canary[v].left > 0
             THEN [canary[v] EXCEPT !.left = @ - 1] ELSE canary[v]]
  BY DEF CanaryTick
<1>2. ASSUME NEW v \in SecretVersions, canary[v].status = "CLAIMED", canary[v].left > 0
      PROVE  /\ IsAttempt(canary[v]) /\ IsAttempt(canary'[v])
             /\ canary'[v].status = "CLAIMED" /\ canary'[v].count = canary[v].count
  <2>1. PICK c : c = canary[v]
    OBVIOUS
  <2>2. IsAttempt(c) /\ c.count \in Nat /\ c.left \in Nat /\ c.status = "CLAIMED" /\ c.left > 0
    BY <1>2, <2>1, Scheduled DEF CanaryInv, IsAttempt
  <2>3. PICK y : y = [c EXCEPT !.left = @ - 1]
    BY Zenon
  <2>4. y = Attempt(c.status, c.count, c.left - 1, c.target, c.outcome, c.retryable)
    BY <2>2, <2>3 DEF IsAttempt, Attempt
  <2>5. canary'[v] = y
    BY <1>1, <1>2, <2>1, <2>3
  <2>6. c.left - 1 \in Nat
    BY <2>2
  <2>. QED  BY <2>1, <2>2, <2>4, <2>5, <2>6, AttemptFields, AttemptIs
<1>. QED  BY <1>1, <1>2

-----------------------------------------------------------------------------
(* The invariant.                                                          *)

LEMMA CanaryInitOK == CanaryInit => CanaryInv
BY Limits DEF CanaryInit, CanaryInv, CanaryLimits, AttemptInv, SecretVersions

\* A rotation adds at most one attempt, for the version it makes current.
LEMMA RotateRows ==
  ASSUME CanaryInv, NEW bound, NEW target, RotateSecret(bound, target)
  PROVE  /\ secretVersion + 1 \in SecretVersions /\ secretVersion' = secretVersion + 1
         /\ canary[secretVersion + 1] = NotScheduled /\ probes' = probes
         /\ canary' = [v \in SecretVersions |-> canary'[v]]
         /\ \A v \in SecretVersions : v # secretVersion + 1 => canary'[v] = canary[v]
         /\ LET c == canary'[secretVersion + 1]
            IN  c = NotScheduled \/ (IsAttempt(c) /\ c.status = "PENDING" /\ c.count = 0)
<1>1. /\ secretVersion + 1 \in SecretVersions /\ secretVersion' = secretVersion + 1 /\ probes' = probes
      /\ secretVersion + 1 > secretVersion
  BY Limits DEF RotateSecret, CanaryInv, SecretVersions, CanaryLimits
<1>2. PICK v : v = secretVersion + 1
  OBVIOUS
<1>3. PICK y : y = EnqueuedCanaries(bound, target)
  OBVIOUS
<1>4. y = NotScheduled \/ (IsAttempt(y) /\ y.status = "PENDING" /\ y.count = 0)
  <2>1. PICK r : r = FALSE
    OBVIOUS
  <2>2. y = NotScheduled \/ y = Attempt("PENDING", 0, 0, target, "none", r)
    BY <1>3, <2>1, Zenon DEF EnqueuedCanaries, Attempt
  <2>. QED  BY <2>2, AttemptFields, AttemptIs
<1>5. canary' = [canary EXCEPT ![v] = y]
  BY <1>2, <1>3 DEF RotateSecret
<1>. QED  BY <1>1, <1>2, <1>4, <1>5 DEF CanaryInv

LEMMA CanaryStepOK ==
  ASSUME CanaryInv, [CanaryNext]_canaryVars PROVE CanaryInv'
<1>0. /\ secretVersion \in Nat /\ \A v \in SecretVersions : v \in Nat
      /\ \A c : IsAttempt(c) /\ c.status # "PENDING" => AttemptInv(c)
  BY DEF CanaryInv, SecretVersions, AttemptInv
<1>1. CASE UNCHANGED canaryVars
  BY <1>1 DEF canaryVars, CanaryInv
<1>2. ASSUME NEW bound, NEW target, RotateSecret(bound, target) PROVE CanaryInv'
  <2>1. \A c : c = NotScheduled \/ (IsAttempt(c) /\ c.status = "PENDING" /\ c.count = 0) => AttemptInv(c)
    BY Limits DEF AttemptInv, CanaryLimits
  <2>2. \A v \in SecretVersions : AttemptInv(canary'[v])
    BY <1>2, <2>1, RotateRows DEF CanaryInv
  <2>3. \A v \in SecretVersions : v > secretVersion + 1 => canary'[v] = NotScheduled
    <3>1. \A v \in SecretVersions : v # secretVersion + 1 => canary'[v] = canary[v]
      BY <1>2, RotateRows
    <3>2. \A v \in SecretVersions : v > secretVersion + 1 => v > secretVersion /\ v # secretVersion + 1
      BY <1>0
    <3>. QED  BY <3>1, <3>2 DEF CanaryInv
  <2>. QED  BY <1>2, <2>2, <2>3, RotateRows DEF CanaryInv
<1>3. ASSUME NEW runner, ClaimBatch(runner) PROVE CanaryInv'
  <2>1. PICK taken \in SUBSET SecretVersions :
          /\ probes' = probes \cup {ProbeOf(v, canary'[v], runner) : v \in taken}
          /\ \A v \in SecretVersions :
               /\ v \in taken => ClaimedNow(v) /\ IsAttempt(canary'[v])
               /\ v \notin taken => canary'[v] = canary[v] \/ (TakenBack(v) /\ IsAttempt(canary'[v]))
    BY <1>3, ClaimRows
  <2>2. secretVersion' = secretVersion /\ canary' = [v \in SecretVersions |-> canary'[v]]
    BY <1>3, ClaimRows
  <2>3. ASSUME NEW v \in SecretVersions
        PROVE  AttemptInv(canary'[v]) /\ (v > secretVersion => canary'[v] = NotScheduled)
    <3>1. AttemptInv(canary[v]) /\ (v > secretVersion => canary[v] = NotScheduled)
      BY DEF CanaryInv
    <3>2. NotScheduled.status = "none"
      BY DEF NotScheduled
    <3>3. ClaimedNow(v) \/ TakenBack(v) => ~(v > secretVersion)
      BY <3>1, <3>2 DEF ClaimedNow, TakenBack
    <3>4. CASE canary'[v] = canary[v]
      BY <3>1, <3>4
    <3>5. CASE ClaimedNow(v) /\ IsAttempt(canary'[v])
      BY <1>0, <3>3, <3>5 DEF ClaimedNow
    <3>6. CASE TakenBack(v) /\ IsAttempt(canary'[v])
      BY <1>0, <3>3, <3>6 DEF TakenBack, AttemptInv
    <3>. QED  BY <2>1, <3>4, <3>5, <3>6
  <2>4. \A v \in taken : IsProbe(ProbeOf(v, canary'[v], runner))
    BY DEF IsProbe, ProbeOf
  <2>. QED  BY <2>1, <2>2, <2>3, <2>4 DEF CanaryInv
<1>4. ASSUME NEW p \in probes, NEW pc, NEW o, Advance(p, pc, o), UNCHANGED <<secretVersion, canary>>
      PROVE  CanaryInv'
  <2>1. PICK q : q = [p EXCEPT !.pc = pc, !.outcome = o]
    OBVIOUS
  <2>2. IsProbe(p)
    BY DEF CanaryInv
  <2>3. q = [version |-> p.version, count |-> p.count, runner |-> p.runner, pc |-> pc, outcome |-> o]
    BY <2>1, <2>2, Zenon DEF IsProbe
  <2>4. IsProbe(q)
    BY <2>2, <2>3 DEF IsProbe
  <2>5. probes' = (probes \ {p}) \cup {q}
    BY <1>4, <2>1 DEF Advance
  <2>. QED  BY <1>4, <2>4, <2>5 DEF CanaryInv
<1>5. ASSUME NEW p \in probes, LoadCredential(p) PROVE CanaryInv'
  BY <1>4, <1>5 DEF LoadCredential
<1>6. ASSUME NEW p \in probes, RunTransport(p) PROVE CanaryInv'
  <2>1. PICK o : Advance(p, "probed", o)
    BY <1>6 DEF RunTransport
  <2>. QED  BY <1>4, <1>6, <2>1 DEF RunTransport
<1>7. ASSUME NEW p \in probes, CompleteProbe(p) PROVE CanaryInv'
  <2>1. /\ p.version \in SecretVersions /\ Accepts(p) /\ probes' = probes \ {p} /\ secretVersion' = secretVersion
        /\ canary' = [u \in SecretVersions |-> canary'[u]]
        /\ \A u \in SecretVersions : u # p.version => canary'[u] = canary[u]
        /\ IsAttempt(canary'[p.version]) /\ canary'[p.version].status \in Ended
    BY <1>7, CompleteRows
  <2>2. AttemptInv(canary'[p.version])
    BY <1>0, <2>1 DEF Ended
  <2>3. ~(p.version > secretVersion)
    BY <2>1 DEF CanaryInv, Accepts, NotScheduled
  <2>. QED  BY <2>1, <2>2, <2>3 DEF CanaryInv
<1>8. CASE CanaryTick
  <2>1. ASSUME NEW v \in SecretVersions
        PROVE  AttemptInv(canary'[v]) /\ (v > secretVersion => canary'[v] = NotScheduled)
    <3>1. AttemptInv(canary[v]) /\ (v > secretVersion => canary[v] = NotScheduled)
      BY DEF CanaryInv
    <3>2. NotScheduled.status = "none"
      BY DEF NotScheduled
    <3>. QED  BY <1>0, <1>8, <3>1, <3>2, TickRows
  <2>. QED  BY <1>8, <2>1, TickRows DEF CanaryInv
<1>. QED  BY <1>1, <1>2, <1>3, <1>5, <1>6, <1>7, <1>8 DEF CanaryNext, SomeClaim

\* Attempts are well formed, belong to versions that the secret has reached, and one
\* that waits has a try left.
THEOREM CanaryInvariance == CanarySpec => []CanaryInv
<1>1. CanaryInv /\ [CanaryNext]_canaryVars => CanaryInv'
  BY CanaryStepOK
<1>. QED  BY <1>1, CanaryInitOK, PTL DEF CanarySpec

\* complete_egress_credential_canary records a success only for the current version of
\* the secret, from a probe of the attempt's target that holds the current claim.
THEOREM CurrentSuccess == CanarySpec => SuccessIsCurrent
<1>1. ASSUME CanaryInv, [CanaryNext]_canaryVars, NEW v \in SecretVersions,
             canary'[v].status = "SUCCEEDED", canary[v].status # "SUCCEEDED"
      PROVE  /\ secretVersion = v
             /\ \E p \in probes : /\ p.version = v /\ p.count = canary[v].count
                                  /\ p.outcome = "SUCCESS" /\ p.runner = canary[v].target
  <2>1. CASE UNCHANGED canary
    BY <1>1, <2>1
  <2>2. ASSUME NEW bound, NEW target, RotateSecret(bound, target) PROVE FALSE
    <3>1. canary'[v] = canary[v] \/ canary'[v] = NotScheduled \/ canary'[v].status = "PENDING"
      BY <1>1, <2>2, RotateRows
    <3>. QED  BY <1>1, <3>1 DEF NotScheduled
  <2>3. ASSUME NEW runner, ClaimBatch(runner) PROVE FALSE
    <3>1. ClaimedNow(v) \/ canary'[v] = canary[v] \/ TakenBack(v)
      BY <1>1, <2>3, ClaimRows
    <3>. QED  BY <1>1, <3>1 DEF ClaimedNow, TakenBack
  <2>4. CASE CanaryTick
    BY <1>1, <2>4, TickRows
  <2>5. ASSUME NEW p \in probes, CompleteProbe(p)
        PROVE  /\ secretVersion = v /\ p.version = v /\ p.count = canary[v].count
               /\ p.outcome = "SUCCESS" /\ p.runner = canary[v].target
    <3>1. p.version = v /\ Accepts(p) /\ Final(Conclusion(p)) = "SUCCEEDED"
      BY <1>1, <2>5, CompleteRows
    <3>2. Conclusion(p) = "SUCCESS"
      BY <3>1 DEF Final
    <3>. QED  BY <3>1, <3>2 DEF Conclusion, Accepts
  <2>. QED  BY <1>1, <2>1, <2>2, <2>3, <2>4, <2>5
            DEF CanaryNext, canaryVars, SomeClaim, LoadCredential, RunTransport
<1>2. CanaryInv /\ [CanaryNext]_canaryVars =>
        [\A v \in SecretVersions :
           canary'[v].status = "SUCCEEDED" /\ canary[v].status # "SUCCEEDED" =>
             /\ secretVersion = v
             /\ \E p \in probes : /\ p.version = v /\ p.count = canary[v].count
                                  /\ p.outcome = "SUCCESS" /\ p.runner = canary[v].target]_canaryVars
  BY <1>1
<1>. QED  BY <1>2, CanaryInvariance, PTL DEF CanarySpec, SuccessIsCurrent

-----------------------------------------------------------------------------
(* The attempts implement LeasedWork.                                      *)

WorkItem(phase, tries) == [phase |-> phase, round |-> 0, tries |-> tries]

WorkPhase == {"none", "waiting", "held", "lapsed", "done", "dead"}

LEMMA ItemFields ==
  ASSUME NEW p, NEW n
  PROVE  WorkItem(p, n).phase = p /\ WorkItem(p, n).round = 0 /\ WorkItem(p, n).tries = n
BY DEF WorkItem

LEMMA ItemMoves ==
  ASSUME NEW p, NEW n, NEW q  PROVE [WorkItem(p, n) EXCEPT !.phase = q] = WorkItem(q, n)
BY DEF WorkItem

\* The phase of an attempt, by its status
LEMMA CanaryPhases ==
  ASSUME NEW c
  PROVE  /\ c.status = "none" => CanaryPhase(c) = "none"
         /\ c.status = "PENDING" => CanaryPhase(c) = "waiting"
         /\ c.status = "CLAIMED" /\ c.left > 0 => CanaryPhase(c) = "held"
         /\ c.status = "CLAIMED" /\ ~(c.left > 0) => CanaryPhase(c) = "lapsed"
         /\ c.status = "SUCCEEDED" => CanaryPhase(c) = "done"
         /\ c.status \in {"FAILED", "SUPERSEDED"} => CanaryPhase(c) = "dead"
BY DEF CanaryPhase

LEMMA ItemOfAttempt ==
  ASSUME NEW c, IsAttempt(c)  PROVE CanaryItem(c) = WorkItem(CanaryPhase(c), c.count)
<1>1. c # NotScheduled
  BY DEF IsAttempt, NotScheduled, Ended
<1>. QED  BY <1>1 DEF CanaryItem, WorkItem

LEMMA ItemOfNone == CanaryItem(NotScheduled) = WorkItem("none", 0)
<1>1. NotScheduled.status = "none"
  BY DEF NotScheduled
<1>2. CanaryPhase(NotScheduled) = "none"
  BY <1>1, CanaryPhases
<1>. QED  BY <1>2 DEF CanaryItem, WorkItem

LEMMA LeasedItem ==
  ASSUME NEW p \in {"waiting", "lapsed"}, NEW n \in Nat, n < MaxCanaryAttempts
  PROVE  CanaryWork!Leased(WorkItem(p, n), WorkItem("held", n + 1))
<1>1. ASSUME NEW x \in [phase : WorkPhase, round : Nat, tries : Nat], x.round = 0, x.tries = n,
             NEW y, y = [x EXCEPT !.phase = "held", !.tries = @ + 1]
      PROVE  y = WorkItem("held", n + 1)
  BY <1>1, Zenon DEF WorkItem, WorkPhase
<1>2. WorkItem(p, n) \in [phase : WorkPhase, round : Nat, tries : Nat]
  BY DEF WorkItem, WorkPhase
<1>3. WorkItem(p, n).phase = p /\ WorkItem(p, n).round = 0 /\ WorkItem(p, n).tries = n
  BY ItemFields
<1>. QED  BY <1>1, <1>2, <1>3, Zenon DEF CanaryWork!Leased

LEMMA LeasedCounts ==
  ASSUME NEW p, NEW n, NEW y, CanaryWork!Leased(WorkItem(p, n), y)
  PROVE  y.tries = n + 1
<1>1. PICK q \in {"held", "lapsed"} : y = [WorkItem(p, n) EXCEPT !.phase = q, !.tries = @ + 1]
  BY Zenon DEF CanaryWork!Leased
<1>2. ASSUME NEW x, x = WorkItem(p, n), y = [x EXCEPT !.phase = q, !.tries = @ + 1]
      PROVE  y.tries = n + 1
  BY <1>2 DEF WorkItem
<1>. QED  BY <1>1, <1>2, Zenon

LEMMA ReturnedItem ==
  ASSUME NEW n \in Nat, NEW p \in WorkPhase, p = IF n < MaxCanaryAttempts THEN "waiting" ELSE "dead"
  PROVE  CanaryWork!Returned(WorkItem("lapsed", n), WorkItem(p, n))
BY DEF CanaryWork!Returned, WorkItem

LEMMA RememberedTokens ==
  ASSUME NEW P, NEW h
  PROVE  h \in Remembered(P) <=> \E p \in P : h = <<p.version, <<0, p.count>>>>
BY DEF Remembered

LEMMA RememberedWithout ==
  ASSUME NEW P, NEW p \in P
  PROVE  /\ Remembered(P \ {p}) \subseteq Remembered(P)
         /\ Remembered(P) \ {<<p.version, <<0, p.count>>>>} \subseteq Remembered(P \ {p})
BY DEF Remembered

\* A rotation offers the attempt of the new version, or nothing.
LEMMA RotateOffers ==
  ASSUME CanaryInv, NEW bound, NEW target, RotateSecret(bound, target)
  PROVE  CanaryWork!Offer(secretVersion + 1) \/ UNCHANGED <<canary, probes>>
<1> DEFINE v == secretVersion + 1
<1>1. /\ v \in SecretVersions /\ canary[v] = NotScheduled /\ probes' = probes
      /\ canary' = [u \in SecretVersions |-> canary'[u]]
      /\ \A u \in SecretVersions : u # v => canary'[u] = canary[u]
      /\ LET c == canary'[v]
         IN  c = NotScheduled \/ (IsAttempt(c) /\ c.status = "PENDING" /\ c.count = 0)
  BY RotateRows
<1> HIDE DEF v
<1>2. CASE canary'[v] = NotScheduled
  BY <1>1, <1>2 DEF CanaryInv
<1>3. CASE IsAttempt(canary'[v]) /\ canary'[v].status = "PENDING" /\ canary'[v].count = 0
  <2>1. CanaryItem(canary[v]) = WorkItem("none", 0) /\ CanaryItem(canary'[v]) = WorkItem("waiting", 0)
    BY <1>1, <1>3, ItemOfNone, ItemOfAttempt, CanaryPhases
  <2>2. [u \in SecretVersions |-> CanaryItem(canary'[u])] =
          [[u \in SecretVersions |-> CanaryItem(canary[u])] EXCEPT ![v] = WorkItem("waiting", 0)]
    BY <1>1, <2>1, Zenon
  <2>3. WorkItem("none", 0).phase = "none" /\ [WorkItem("none", 0) EXCEPT !.phase = "waiting"] = WorkItem("waiting", 0)
    BY ItemFields, ItemMoves
  <2>4. CanaryWork!Offer(v)
    BY <1>1, <2>1, <2>2, <2>3, Zenon DEF CanaryWork!Offer, CanaryWork!Change
  <2>. QED  BY <2>4 DEF v
<1>. QED  BY <1>1, <1>2, <1>3

LEMMA ClaimPolls ==
  ASSUME CanaryInv, NEW runner, ClaimBatch(runner)  PROVE CanaryWork!Poll
<1> DEFINE x(v) == CanaryItem(canary[v])
           y(v) == CanaryItem(canary'[v])
<1>1. PICK taken \in SUBSET SecretVersions :
        /\ probes' = probes \cup {ProbeOf(v, canary'[v], runner) : v \in taken}
        /\ \A v \in SecretVersions :
             /\ v \in taken => ClaimedNow(v) /\ IsAttempt(canary'[v])
             /\ v \notin taken => canary'[v] = canary[v] \/ (TakenBack(v) /\ IsAttempt(canary'[v]))
  BY ClaimRows
<1>2. ASSUME NEW v \in SecretVersions, ClaimedNow(v) \/ TakenBack(v)
      PROVE  IsAttempt(canary[v]) /\ canary[v].count \in Nat /\ canary[v].left \in Nat
  <2>1. IsAttempt(canary[v])
    BY <1>2, Scheduled DEF CanaryInv, ClaimedNow, TakenBack
  <2>. QED  BY <2>1 DEF IsAttempt
<1>3. ASSUME NEW v \in SecretVersions, v \in taken
      PROVE  /\ y(v) = WorkItem("held", canary[v].count + 1)
             /\ canary'[v].count = canary[v].count + 1
             /\ CanaryWork!Leased(x(v), y(v))
  <2>1. ClaimedNow(v) /\ IsAttempt(canary'[v]) /\ ClaimTicks > 0
    BY <1>1, <1>3, Limits DEF CanaryLimits
  <2>2. y(v) = WorkItem("held", canary[v].count + 1)
    BY <2>1, ItemOfAttempt, CanaryPhases DEF ClaimedNow
  <2>3. PICK p \in {"waiting", "lapsed"} : x(v) = WorkItem(p, canary[v].count)
    <3>1. CASE canary[v].status = "PENDING"
      BY <1>2, <2>1, <3>1, ItemOfAttempt, CanaryPhases
    <3>2. CASE canary[v].status = "CLAIMED" /\ ~(canary[v].left > 0)
      BY <1>2, <2>1, <3>2, ItemOfAttempt, CanaryPhases
    <3>. QED  BY <1>2, <2>1, <3>1, <3>2 DEF ClaimedNow
  <2>. QED  BY <1>2, <2>1, <2>2, <2>3, LeasedItem DEF ClaimedNow
<1>4. ASSUME NEW v \in SecretVersions, v \notin taken
      PROVE  (y(v) = x(v) \/ CanaryWork!Returned(x(v), y(v))) /\ ~CanaryWork!Leased(x(v), y(v))
  <2>1. CASE canary'[v] = canary[v]
    <3>1. PICK p \in WorkPhase, n \in Nat : x(v) = WorkItem(p, n)
      <4>1. CASE canary[v] = NotScheduled
        BY <4>1, ItemOfNone DEF WorkPhase
      <4>2. CASE IsAttempt(canary[v])
        <5>1. CanaryPhase(canary[v]) \in WorkPhase /\ canary[v].count \in Nat
          BY <4>2, CanaryPhases DEF IsAttempt, Ended, WorkPhase
        <5>. QED  BY <4>2, <5>1, ItemOfAttempt
      <4>. QED  BY <4>1, <4>2 DEF CanaryInv, AttemptInv
    <3>2. x(v).tries = n /\ y(v) = x(v)
      BY <2>1, <3>1, ItemFields
    <3> HIDE DEF x, y
    <3>3. CanaryWork!Leased(x(v), y(v)) => y(v).tries = n + 1
      BY <3>1, LeasedCounts
    <3>. QED  BY <3>2, <3>3
  <2>2. CASE TakenBack(v) /\ IsAttempt(canary'[v])
    <3> DEFINE n == canary[v].count
               p == IF n < MaxCanaryAttempts THEN "waiting" ELSE "dead"
    <3>1. x(v) = WorkItem("lapsed", n) /\ n \in Nat
      BY <1>2, <2>2, ItemOfAttempt, CanaryPhases DEF TakenBack
    <3>2. y(v) = WorkItem(p, n)
      BY <2>2, ItemOfAttempt, CanaryPhases DEF TakenBack
    <3>3. p \in WorkPhase /\ y(v).tries = n
      BY <3>2, ItemFields DEF WorkPhase
    <3> HIDE DEF x, y, n
    <3>4. CanaryWork!Returned(x(v), y(v))
      BY <3>1, <3>2, <3>3, ReturnedItem
    <3>5. CanaryWork!Leased(x(v), y(v)) => y(v).tries = n + 1
      BY <3>1, LeasedCounts
    <3>. QED  BY <3>1, <3>3, <3>4, <3>5
  <2>. QED  BY <1>1, <1>4, <2>1, <2>2, Zenon
<1>5. \A v \in SecretVersions : v \in taken => CanaryWork!Token(y(v)) = <<0, canary'[v].count>>
  BY <1>3, ItemFields DEF CanaryWork!Token
<1>6. Remembered(probes') = Remembered(probes) \cup {<<v, <<0, canary'[v].count>>>> : v \in taken}
  <2> DEFINE new(v) == ProbeOf(v, canary'[v], runner)
             N == {new(v) : v \in taken}
  <2>1. \A v : new(v).version = v /\ new(v).count = canary'[v].count
    BY DEF ProbeOf
  <2>2. probes' = probes \cup N
    BY <1>1
  <2> HIDE DEF new
  <2>3. ASSUME NEW h
        PROVE  h \in Remembered(probes \cup N) <=>
                 h \in Remembered(probes) \/ \E v \in taken : h = <<v, <<0, canary'[v].count>>>>
    <3>1. h \in Remembered(N) <=> \E v \in taken : h = <<new(v).version, <<0, new(v).count>>>>
      BY RememberedTokens
    <3>2. h \in Remembered(N) <=> \E v \in taken : h = <<v, <<0, canary'[v].count>>>>
      BY <2>1, <3>1
    <3> HIDE DEF N
    <3>3. h \in Remembered(probes \cup N) <=> h \in Remembered(probes) \/ h \in Remembered(N)
      BY RememberedTokens
    <3>. QED  BY <3>2, <3>3
  <2> HIDE DEF N
  <2>. QED  BY <2>2, <2>3
<1> HIDE DEF x, y
<1>7. {j \in SecretVersions : CanaryWork!Leased(x(j), y(j))} = taken
  BY <1>3, <1>4
<1>8. Remembered(probes') = Remembered(probes) \cup
        {<<i, CanaryWork!Token(y(i))>> : i \in {j \in SecretVersions : CanaryWork!Leased(x(j), y(j))}}
  BY <1>5, <1>6, <1>7
<1>9. \A v \in SecretVersions : y(v) = x(v) \/ CanaryWork!Returned(x(v), y(v)) \/ CanaryWork!Leased(x(v), y(v))
  BY <1>3, <1>4
<1>. QED  BY <1>8, <1>9, ZenonT(30) DEF CanaryWork!Poll, x, y

\* A completion settles the attempt under the token of its probe.
LEMMA CompleteSettles ==
  ASSUME CanaryInv, NEW p \in probes, CompleteProbe(p)
  PROVE  CanaryWork!Settle(p.version)
<1> DEFINE v == p.version
           n == canary[v].count
<1>1. /\ v \in SecretVersions /\ Accepts(p) /\ probes' = probes \ {p}
      /\ \A u \in SecretVersions : u # v => canary'[u] = canary[u]
      /\ IsAttempt(canary'[v]) /\ canary'[v].count = n /\ canary'[v].status \in Ended
  BY CompleteRows
<1>2. canary[v].status = "CLAIMED" /\ IsAttempt(canary[v]) /\ p.count = n
  BY <1>1, Scheduled DEF CanaryInv, Accepts
<1>3. PICK old \in {"held", "lapsed"} : CanaryItem(canary[v]) = WorkItem(old, n)
  BY <1>2, ItemOfAttempt, CanaryPhases
<1>4. PICK new \in {"done", "dead"} : CanaryItem(canary'[v]) = WorkItem(new, n)
  BY <1>1, ItemOfAttempt, CanaryPhases DEF Ended
<1>5. [u \in SecretVersions |-> CanaryItem(canary'[u])] =
        [[u \in SecretVersions |-> CanaryItem(canary[u])] EXCEPT ![v] = WorkItem(new, n)]
  BY <1>1, <1>4, Zenon
<1>6. /\ Remembered(probes') \subseteq Remembered(probes) /\ <<v, <<0, n>>>> \in Remembered(probes)
      /\ Remembered(probes) \ {<<v, <<0, n>>>>} \subseteq Remembered(probes')
  BY <1>1, <1>2, RememberedWithout, RememberedTokens
<1>7. [u \in SecretVersions |-> CanaryItem(canary[u])][v] = WorkItem(old, n)
  BY <1>1, <1>3
<1> HIDE DEF n, v
<1>8. /\ WorkItem(old, n).phase = old /\ WorkItem(old, n).tries = n
      /\ [WorkItem(old, n) EXCEPT !.phase = new] = WorkItem(new, n)
      /\ CanaryWork!Token(WorkItem(old, n)) = <<0, n>>
  BY ItemFields, ItemMoves DEF CanaryWork!Token
<1>9. CanaryWork!Change(v, [WorkItem(old, n) EXCEPT !.phase = new])
  BY <1>5, <1>8, Zenon DEF CanaryWork!Change
<1>10. CanaryWork!Settle(v)
  BY <1>4, <1>6, <1>7, <1>8, <1>9 DEF CanaryWork!Settle
<1>. QED  BY <1>10 DEF v

\* A probe that goes on keeps its token.
LEMMA ProbeForgets ==
  ASSUME CanaryInv, NEW p \in probes, NEW pc, NEW o, Advance(p, pc, o), UNCHANGED canary
  PROVE  CanaryWork!Forget
<1>1. PICK q : q = [p EXCEPT !.pc = pc, !.outcome = o]
  OBVIOUS
<1>2. q.version = p.version /\ q.count = p.count
  BY <1>1 DEF CanaryInv, IsProbe
<1>3. probes' = (probes \ {p}) \cup {q}
  BY <1>1 DEF Advance
<1>4. Remembered(probes') \subseteq Remembered(probes)
  BY <1>2, <1>3, RememberedTokens
<1>. QED  BY <1>4 DEF CanaryWork!Forget

\* Time passes: claims lapse.
LEMMA TickLapses ==
  ASSUME CanaryInv, CanaryTick  PROVE CanaryWork!Lapse
<1>1. ASSUME NEW v \in SecretVersions
      PROVE  LET x == CanaryItem(canary[v])
                 y == CanaryItem(canary'[v])
             IN  y = x \/ (x.phase = "held" /\ y = [x EXCEPT !.phase = "lapsed"])
  <2>1. CASE canary'[v] = canary[v]
    BY <2>1
  <2>2. CASE /\ canary[v].status = "CLAIMED" /\ canary[v].left > 0
             /\ IsAttempt(canary[v]) /\ IsAttempt(canary'[v])
             /\ canary'[v].status = "CLAIMED" /\ canary'[v].count = canary[v].count
    <3>1. CanaryItem(canary[v]) = WorkItem("held", canary[v].count)
      BY <2>2, ItemOfAttempt, CanaryPhases
    <3>2. CanaryItem(canary'[v]) \in {WorkItem("held", canary[v].count), WorkItem("lapsed", canary[v].count)}
      BY <2>2, ItemOfAttempt, CanaryPhases
    <3>. QED  BY <3>1, <3>2, ItemFields, ItemMoves
  <2>. QED  BY <2>1, <2>2, TickRows
<1>2. Remembered(probes') = Remembered(probes)
  BY TickRows
<1>. QED  BY <1>1, <1>2 DEF CanaryWork!Lapse

LEMMA InitMaps == CanaryInit => CanaryWork!Init
<1> SUFFICES ASSUME CanaryInit PROVE CanaryWork!Init
  OBVIOUS
<1>1. \A v \in SecretVersions : CanaryItem(canary[v]) = [phase |-> "none", round |-> 0, tries |-> 0]
  BY ItemOfNone DEF CanaryInit, WorkItem
<1>2. Remembered(probes) = {}
  BY DEF CanaryInit, Remembered
<1>. QED  BY <1>1, <1>2 DEF CanaryWork!Init

LEMMA StepMaps ==
  ASSUME CanaryInv, [CanaryNext]_canaryVars
  PROVE  [CanaryWork!Next]_(CanaryWork!workVars)
<1>1. CASE UNCHANGED <<canary, probes>>
  BY <1>1 DEF CanaryWork!workVars
<1>2. ASSUME NEW bound, NEW target, RotateSecret(bound, target)
      PROVE  [CanaryWork!Next]_(CanaryWork!workVars)
  <2>1. CanaryWork!Offer(secretVersion + 1) \/ UNCHANGED <<canary, probes>>
    BY <1>2, RotateOffers
  <2>2. secretVersion + 1 \in SecretVersions
    BY <1>2, RotateRows
  <2>. QED  BY <1>1, <2>1, <2>2 DEF CanaryWork!Next
<1>3. ASSUME NEW runner, ClaimBatch(runner) PROVE CanaryWork!Next
  BY <1>3, ClaimPolls DEF CanaryWork!Next
<1>4. ASSUME NEW p \in probes, LoadCredential(p) \/ RunTransport(p) PROVE CanaryWork!Next
  <2>1. UNCHANGED canary /\ \E pc, o : Advance(p, pc, o)
    BY <1>4 DEF LoadCredential, RunTransport
  <2>. QED  BY <2>1, ProbeForgets DEF CanaryWork!Next
<1>5. ASSUME NEW p \in probes, CompleteProbe(p) PROVE CanaryWork!Next
  <2>1. p.version \in SecretVersions
    BY DEF CanaryInv, IsProbe
  <2>. QED  BY <1>5, <2>1, CompleteSettles DEF CanaryWork!Next
<1>6. CASE CanaryTick
  BY <1>6, TickLapses DEF CanaryWork!Next
<1>. QED  BY <1>1, <1>2, <1>3, <1>4, <1>5, <1>6 DEF CanaryNext, SomeClaim, canaryVars

\* The canary attempts of a secret implement LeasedWork, for any number of rotations,
\* runners and attempts: only the current claim of an attempt, or its expiry, ends it.
THEOREM CanariesImplementLeasedWork == CanarySpec => CanariesAreLeasedWork
<1>1. CanaryInit => CanaryWork!Init
  BY InitMaps
<1>2. CanaryInv /\ [CanaryNext]_canaryVars => [CanaryWork!Next]_(CanaryWork!workVars)
  BY StepMaps
<1>. QED  BY <1>1, <1>2, CanaryInvariance, PTL DEF CanarySpec, CanariesAreLeasedWork, CanaryWork!Spec
=============================================================================
