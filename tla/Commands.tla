------------------------------ MODULE Commands ------------------------------
(***************************************************************************)
(* A user's session with one configuration file: "dry-run" validates it and   *)
(* prints the plan, then "run" (with flags) or "schedule" executes it          *)
(* (cmd/dryrun.go, cmd/run.go, cmd/schedule.go), through the steps of           *)
(* orchestrator.Run that read the configuration.  A field that is not           *)
(* validated may fail a run late, or panic and end the process.                *)
(*                                                                         *)
(* Time is in minutes.  Scheduled runs are shorter than the cron's period      *)
(* here (ScheduledRuns models the overlapping ones), and a trigger's time is   *)
(* read a moment late or not, which decides at stopAt.                         *)
(***************************************************************************)
EXTENDS Configuration

CONSTANTS
    Files,      \* the configuration files considered
    FlagSets,   \* the flags of "run" considered
    Disks,      \* what the paths of the sinks are, at first
    Existing,   \* one more than the highest key in the collection, at first
    LatestStart,\* bound: the time the command is started at
    Horizon     \* bound: the time of the last trigger

ASSUME CommandsAssumption ==
    /\ Files \subseteq Config
    /\ FlagSets \subseteq Flags
    /\ Disks \subseteq Disk
    /\ Existing \subseteq Nat
    /\ LatestStart \in Nat /\ Horizon \in Nat

\* A schedule fires at most once a minute: the finest that a cron expression says.
ASSUME PeriodAssumption ==
    \A f \in Files : Parses(f.schedule.cron) => f.schedule.cron.value \in Nat \ {0}

VARIABLES
    file,       \* the configuration file
    disk,       \* the paths of the sinks
    existing,   \* one more than the highest key in the collection
    now,        \* the time
    command,    \* "none", "run" or "schedule"
    at,         \* where the command is
    cfg,        \* its configuration
    skip,       \* --skip-preload
    plan,       \* the plan that was printed last
    count,      \* startingCount
    startedAt,  \* the time the cron was started at
    completed,  \* Scheduler.completed
    fired,      \* history: the times at which runs were started by the schedule
    executed,   \* history: what the last benchmark was
    dropped,    \* history: the collection was dropped
    late        \* history: fields for which a run failed after they were validated

session == <<file, disk, command, cfg, skip, plan>>
progress == <<existing, count, executed, dropped, late>>
cron == <<now, startedAt, completed, fired>>
vars == <<session, progress, cron, at>>

None == [none |-> TRUE]

-----------------------------------------------------------------------------
Init ==
    /\ file \in Files
    /\ disk \in Disks
    /\ existing \in Existing
    /\ now = 0
    /\ command = "none"
    /\ at = "shell"
    /\ cfg = file
    /\ skip = FALSE
    /\ plan = None
    /\ count = 0
    /\ startedAt = 0
    /\ completed = 0
    /\ fired = {}
    /\ executed = None
    /\ dropped = FALSE
    /\ late = {}

TimePasses ==
    /\ at = "shell"
    /\ now < LatestStart
    /\ now' = now + 1
    /\ UNCHANGED <<session, progress, at, startedAt, completed, fired>>

Printed(c) == [shown |-> Plan(c), forecast |-> Forecast(c.schedule, now), when |-> now]

\* dry-run: Validate has created the directories, also when it finds errors.
DryRun ==
    /\ at = "shell"
    /\ plan = None
    /\ disk' = Created(file, disk)
    /\ IF Errors(file, disk) = {} THEN plan' = Printed(file) /\ at' = at
       ELSE at' = "rejected" /\ plan' = plan
    /\ UNCHANGED <<file, command, cfg, skip, progress, cron>>

\* Mutant of Run: the file is validated, and then overridden.
RunValidatesFile ==
    /\ at = "shell"
    /\ command' = "run"
    /\ \E flags \in FlagSets :
        /\ cfg' = Overridden(file, flags)
        /\ skip' = flags.skipPreload
        /\ disk' = Created(file, disk)
        /\ IF Errors(file, disk) = {} THEN plan' = Printed(cfg') /\ at' = "connect"
           ELSE at' = "rejected" /\ plan' = plan
    /\ UNCHANGED <<file, progress, cron>>

\* run: the flags override the file, the result is validated and its plan printed.
Run ==
    /\ at = "shell"
    /\ command' = "run"
    /\ \E flags \in FlagSets :
        /\ cfg' = Overridden(file, flags)
        /\ skip' = flags.skipPreload
        /\ disk' = Created(cfg', disk)
        /\ IF Errors(cfg', disk) = {} THEN plan' = Printed(cfg') /\ at' = "connect"
           ELSE at' = "rejected" /\ plan' = plan
    /\ UNCHANGED <<file, progress, cron>>

\* schedule: also refused when it is not enabled.
Schedule ==
    /\ at = "shell"
    /\ command' = "schedule"
    /\ cfg' = file
    /\ skip' \in BOOLEAN
    /\ disk' = Created(file, disk)
    /\ at' = IF Errors(file, disk) = {} /\ file.schedule.enabled THEN "starting" ELSE "rejected"
    /\ UNCHANGED <<file, plan, progress, cron>>

-----------------------------------------------------------------------------
\* A failure that the configuration causes after it was validated.
FailLate(causes, next) ==
    /\ late' = late \cup causes
    /\ at' = next
    /\ UNCHANGED <<session, count, executed>>

\* Start up to c.Start(): the duration, the wait for the window, the expression.
StartScheduler ==
    LET b == cfg.schedule.bounds
        opens == IF b.type = "timeWindow" /\ Parses(b.startAt) /\ b.startAt.value > now
                   THEN b.startAt.value ELSE now
        causes == IF b.type = "runFor" /\ b.runFor.text = "garbage" THEN {"runFor"}
                  ELSE IF b.type = "timeWindow" /\ b.startAt.text = "garbage" THEN {"startAt"}
                  ELSE When(~Parses(cfg.schedule.cron), "cron")
    IN  /\ at = "starting"
        /\ now' = opens
        /\ startedAt' = opens
        /\ IF causes = {} THEN at' = "waiting" /\ UNCHANGED <<session, progress>>
           ELSE FailLate(causes, "ended") /\ UNCHANGED <<existing, dropped>>
        /\ UNCHANGED <<completed, fired>>

Due == NextTrigger(cfg.schedule.cron.value, now)
Deadline == startedAt + cfg.schedule.bounds.runFor.value

\* The next trigger comes, and the context has not ended before.
Comes ==
    /\ at = "waiting"
    /\ Due <= Horizon
    /\ cfg.schedule.bounds.type = "runFor" => Due <= Deadline
    /\ now' = Due

\* What a trigger finds when it looks at its bound, its clock a moment late or not.
BoundFound(lateRead) ==
    LET b == cfg.schedule.bounds IN
    \/ b.type = "timeWindow" /\ (Due > b.stopAt.value \/ (lateRead /\ Due = b.stopAt.value))
    \/ b.type = "maxRuns" /\ completed >= b.maxRuns

\* A trigger starts a run: a new orchestrator with the same configuration.
TriggerRun ==
    /\ Comes
    /\ \E lateRead \in BOOLEAN : ~BoundFound(lateRead)
    /\ fired' = fired \cup {Due}
    /\ at' = "connect"
    /\ UNCHANGED <<session, progress, startedAt, completed>>

TriggerStops ==
    /\ Comes
    /\ \E lateRead \in BOOLEAN : BoundFound(lateRead)
    /\ at' = "stopped"
    /\ UNCHANGED <<session, progress, startedAt, completed, fired>>

\* runFor: the context ends, at the latest when a trigger is due after it; one of no
\* length, or a negative one, has ended.
Expire ==
    /\ at = "waiting"
    /\ cfg.schedule.bounds.type = "runFor"
    /\ Deadline <= Due
    /\ now' = IF Deadline > now THEN Deadline ELSE now
    /\ at' = "stopped"
    /\ UNCHANGED <<session, progress, startedAt, completed, fired>>

\* Ctrl+C: the process ends.
Interrupt ==
    /\ at = "waiting"
    /\ at' = "ended"
    /\ UNCHANGED <<session, progress, cron>>

-----------------------------------------------------------------------------
\* Where a run that returned an error leaves the command.
AfterError == IF command = "run" THEN "ended" ELSE "waiting"

\* NewBenchmarkClient: unknown names are refused, and then a URI that the driver does not
\* parse, before anything is sent.
Connect ==
    LET c == cfg.connection
        causes == When(c.readPreference \notin ReadPreferences \cup {""}, "readPreference")
                    \cup When(c.writeConcern \notin WriteConcerns \cup {""}, "writeConcern")
                    \cup When(c.malformed, "uri")
    IN  /\ at = "connect"
        /\ IF causes = {} THEN at' = "prepare" /\ UNCHANGED <<session, count, executed, late>>
           ELSE FailLate(causes, AfterError)
        /\ UNCHANGED <<existing, dropped, cron>>

Preloads == cfg.preload.enabled /\ ~(cfg.preload.skipIfExists /\ existing > 0)

\* The cluster does not answer, or a drop, an insert or the lookup of the highest key
\* fails, which may leave the preload half done.
ClusterFails ==
    /\ at \in {"connect", "prepare", "indexes"}
    /\ at' = AfterError
    /\ \/ UNCHANGED <<existing, dropped>>
       \/ /\ at = "prepare" /\ ~skip /\ Preloads
          /\ dropped' = TRUE
          /\ existing' \in {0, cfg.preload.documentCount}
    /\ UNCHANGED <<session, count, executed, late, cron>>

\* --skip-preload: the benchmark goes on from the highest key.
Reuse ==
    /\ at = "prepare" /\ skip
    /\ count' = existing
    /\ at' = "build"
    /\ UNCHANGED <<session, existing, executed, dropped, late, cron>>

\* The preload drops the collection and makes documents; an array of a negative size
\* panics, and so does a division by no threads.
Prepare ==
    LET causes == When(cfg.shape.arrays /\ cfg.shape.arraySize < 0, "arraySize")
                    \cup When(cfg.preload.threads = 0, "preloadThreads")
    IN  /\ at = "prepare" /\ ~skip
        /\ dropped' = (dropped \/ Preloads)
        /\ existing' = IF ~Preloads THEN existing
                       ELSE IF causes = {} THEN cfg.preload.documentCount ELSE 0
        /\ IF Preloads /\ causes # {} THEN FailLate(causes, "dead")
           ELSE at' = "indexes" /\ UNCHANGED <<session, count, executed, late>>
        /\ UNCHANGED cron

\* CreateIndexes: the server may refuse any index that it is asked for - a second text
\* index, a geo index over other values - with the documents there.
CreateIndexes ==
    /\ at = "indexes"
    /\ \/ /\ count' = cfg.preload.documentCount
          /\ at' = "build"
          /\ UNCHANGED <<session, executed, late>>
       \/ cfg.indexes # {} /\ FailLate({"indexes"}, AfterError)
    /\ UNCHANGED <<existing, dropped, cron>>

\* Mutant of Build: workload D keeps the configured distribution.
BuildAsConfigured ==
    /\ at = "build"
    /\ at' = "warmup"
    /\ UNCHANGED <<session, progress, cron>>

\* Workload D switches the shared configuration to "latest"; NewSelector.
Build ==
    /\ at = "build"
    /\ IF cfg.workload.type \notin Standard \cup {"custom"}
         THEN FailLate({"workload"}, AfterError) /\ UNCHANGED <<existing, dropped>>
         ELSE /\ cfg' = IF cfg.workload.type = "D"
                          THEN [cfg EXCEPT !.execution.keyDistribution = "latest"] ELSE cfg
              /\ at' = "warmup"
              /\ UNCHANGED <<file, disk, command, skip, plan, progress>>
    /\ UNCHANGED cron

WarmUp ==
    /\ at = "warmup"
    /\ IF cfg.warmup.enabled /\ ~Parses(cfg.warmup.duration)
         THEN FailLate({"warmup"}, AfterError) /\ UNCHANGED <<existing, dropped>>
         ELSE at' = "benchmark" /\ UNCHANGED <<session, progress>>
    /\ UNCHANGED cron

-----------------------------------------------------------------------------
Performs(ops) == \E o \in ops : Percentages(cfg.workload)[o] > 0

\* NextExistingKey draws from the inserted keys directly: for uniform keys, and when
\* there was no record to prepare a skewed distribution for.
DrawsUniformly ==
    LET records == IF cfg.execution.recordCount > 0 THEN cfg.execution.recordCount ELSE count IN
    \/ cfg.execution.keyDistribution \in {"", "uniform"}
    \/ cfg.execution.keyDistribution \in {"zipfian", "latest"} /\ records <= 0

\* What an operation of a worker, in the warm-up or after it, panics on: no field to choose from, a negative size,
\* a negative number of keys; operations to divide by no threads, no threshold.
Panics ==
    When(Performs({"update", "readModifyWrite"}) /\ ~cfg.workload.writeAllFields
           /\ cfg.shape.fieldCount <= 0, "fieldCount")
      \cup When(Performs({"insert"}) /\ cfg.shape.arrays /\ cfg.shape.arraySize < 0, "arraySize")
      \cup When(Performs(Operations \ {"insert"}) /\ count < 0 /\ DrawsUniformly, "documentCount")
      \cup When(cfg.execution.mode = "ops" /\ cfg.execution.threads = 0, "threads")
      \cup When(~Performs(Operations), "custom")

\* The durations that Pool.Run parses.
Unparsed ==
    LET e == cfg.execution IN
    CASE e.mode = "ops" -> {}
      [] e.mode = "rampup" -> When(~Parses(e.rampup.stepDuration), "stepDuration")
      [] OTHER -> When(~Parses(e.duration), "duration")

Benchmark ==
    /\ at = "benchmark"
    /\ Unparsed = {}
    /\ "threads" \notin Panics
    /\ executed' = Executed(cfg, count)
    /\ at' = IF command = "run" THEN "ended" ELSE "waiting"
    /\ completed' = IF command = "run" THEN completed ELSE completed + 1
    /\ UNCHANGED <<session, existing, count, dropped, late, now, startedAt, fired>>

BenchmarkFails ==
    /\ at = "benchmark"
    /\ \/ Unparsed # {} /\ FailLate(Unparsed, AfterError)
       \/ Unparsed = {} /\ Panics # {} /\ FailLate(Panics, "dead")
    /\ UNCHANGED <<existing, dropped, cron>>

Terminating == at \in {"rejected", "stopped", "ended", "dead"} /\ UNCHANGED vars

Next ==
    \/ TimePasses \/ DryRun \/ Run \/ Schedule
    \/ StartScheduler \/ TriggerRun \/ TriggerStops \/ Expire \/ Interrupt
    \/ Connect \/ ClusterFails \/ Reuse \/ Prepare \/ CreateIndexes \/ Build \/ WarmUp
    \/ Benchmark \/ BenchmarkFails
    \/ Terminating

Spec == Init /\ [][Next]_vars
-----------------------------------------------------------------------------
Started == at \notin {"shell", "rejected"}

\* validator.go:8: once a command goes on, its configuration - with the flags of run, and
\* after the changes that runs make to it - is what the pool, the loader, the selector,
\* the generator, the scheduler and the reporters need, for all their values.
SoundOnceStarted == Started => Sound(cfg, disk)

\* The fields that a run looks at again, of those that Validate vouches for.
Validated ==
    {"readPreference", "runFor", "startAt", "preloadThreads", "workload", "threads", "custom",
     "duration", "stepDuration"}

\* README.md:230, 751: "validates the full config", a "pre-flight validation": a run never
\* fails for what Validate looked at, after the flags.  Of what it does not look at, an
\* unknown write concern, a malformed URI and an unparsable expression are found out
\* before any run drops the collection (field counts, array sizes, the warm-up and refused
\* indexes are not), and a negative number of documents harms only where there is no preload.
LateOnlyUnvalidated ==
    /\ late \cap Validated = {}
    /\ late \cap {"uri", "writeConcern", "cron"} # {} => ~dropped
    /\ "documentCount" \in late => ~cfg.preload.enabled

\* What the plan says and what is executed, where the two must agree: not the rate of a
\* ramp-up nor its last step when stepSize does not divide it, not the distribution of
\* workload D, not the records when no preload of this run determined them, not
\* percentages of which some are negative, not a default maxLength below minLength, and
\* neither the distribution of scan lengths nor the ordering of inserts.
PlanIsExecuted ==
    (executed # None /\ plan # None) =>
        LET p == plan.shown
            x == executed
            ramp == p.mode = "rampup"
            w == cfg.workload
            step == cfg.execution.rampup.stepSize IN
        /\ p.workload = x.workload /\ p.mode = x.mode /\ p.limit = x.limit
        /\ p.threads[1] = x.threads[1]
        /\ IF ramp THEN x.threads[2] \in p.threads[2] - step + 1 .. p.threads[2]
           ELSE x.threads[2] = p.threads[2]
        /\ x.rate = IF ramp THEN 0 ELSE p.rate
        /\ x.distribution = IF p.workload = "D" THEN "latest" ELSE p.distribution
        /\ (~skip /\ p.records >= 0) => x.records = p.records
        /\ x.scan[1] = p.scan[1] /\ (p.scan[1] <= p.scan[2] => x.scan = p.scan)
        /\ (w.type = "custom" /\ \A o \in Operations : w.custom[o] >= 0) => x.mix = p.mix

\* dryrun.go:20, README.md:230: "print what would be executed", "the full benchmark plan".
PlanIsExact ==
    (executed # None /\ plan # None) =>
        /\ plan.shown.rate = executed.rate
        /\ plan.shown.ordering = executed.ordering

\* README.md:132, 691: a schedule that stops for its bound has started the runs that
\* dry-run foretold - up to a trigger at stopAt or at the deadline, which may come late,
\* and for a window, less the triggers that were over when the schedule was started; and
\* it started runs at the triggers marked as inside of the window, and at no other.
\* With startAt in another zone than the cron's, the count is within one more run; and
\* an estimate that reached the limit of triggers is a lower bound.
ScheduleForetold ==
    (command = "schedule" /\ at = "stopped" /\ plan # None /\ plan.forecast # NoForecast) =>
        LET s == cfg.schedule
            b == s.bounds
            f == plan.forecast
            trigger(t) == t % s.cron.value = 0
            over == Cardinality({t \in b.startAt.value + 1 .. b.stopAt.value :
                                     trigger(t) /\ t <= startedAt})
            slack == IF b.zone % s.cron.value = 0 THEN 0 ELSE 1
            edge(t) == IF trigger(t) THEN 1 ELSE 0
            foretold(n, less, more) ==
                /\ n >= f.estimate - less
                /\ f.estimate < TriggerLimit => n <= f.estimate + more IN
        CASE b.type = "maxRuns" -> completed = f.estimate
          [] b.type = "runFor" ->
                 /\ foretold(Cardinality(fired), 1 + edge(Deadline), 1)
                 /\ startedAt = plan.when => foretold(Cardinality(fired), edge(Deadline), 0)
          [] b.type = "timeWindow" ->
                 /\ foretold(Cardinality(fired) + over, edge(b.stopAt.value) + slack, slack)
                 /\ \A t \in DOMAIN f.marked :
                        /\ t \in fired => f.marked[t] = "inside"
                        /\ (f.marked[t] = "inside" /\ t \notin fired) => t <= startedAt \/ t = b.stopAt.value
=============================================================================
