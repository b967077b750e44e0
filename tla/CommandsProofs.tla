--------------------------- MODULE CommandsProofs ---------------------------
(***************************************************************************)
(* A configuration that Validate lets through is one that the components      *)
(* can work with, for all values of its fields; and no command goes on        *)
(* without one.                                                              *)
(***************************************************************************)
EXTENDS Commands, FiniteSetTheorems, FunctionTheorems, TLAPS

-----------------------------------------------------------------------------
\* Section by section: no error, and the component's assumptions hold.
LEMMA WhenEmpty ==
    ASSUME NEW cond \in BOOLEAN, NEW error, When(cond, error) = {}
    PROVE  ~cond
BY DEF When

LEMMA PoolIsSound ==
    ASSUME NEW c \in Config, ExecutionErrors(c) = {}
    PROVE  PoolSound(c)
<1> DEFINE e == c.execution
           r == e.rampup
<1>1. e \in ExecutionConfig /\ r \in RampupConfig
  BY DEF Config, ExecutionConfig
<1>2. /\ e.threads \in Int /\ e.operationCount \in Int
      /\ r.initialThreads \in Int /\ r.maxThreads \in Int /\ r.stepSize \in Int
  BY <1>1 DEF ExecutionConfig, RampupConfig
<1>3. /\ e.mode \in Modes
      /\ e.mode = "time" => Parses(e.duration)
      /\ e.mode = "ops" => ~(e.operationCount <= 0)
      /\ ~(e.threads <= 0)
      /\ e.mode = "rampup" => RampupErrors(r) = {}
  BY DEF ExecutionErrors, When, Parses
<1>4. RampupErrors(r) = {} => /\ ~(r.initialThreads <= 0) /\ ~(r.maxThreads <= r.initialThreads)
                              /\ ~(r.stepSize <= 0) /\ Parses(r.stepDuration)
  BY DEF RampupErrors, When, Parses
<1>5. e.threads >= 1 /\ (e.mode = "ops" => e.operationCount >= 1)
  BY <1>2, <1>3
<1>6. e.mode = "rampup" => /\ 1 <= r.initialThreads /\ r.initialThreads < r.maxThreads
                           /\ r.stepSize >= 1 /\ Parses(r.stepDuration)
  BY <1>2, <1>3, <1>4
<1>7. QED
  BY <1>3, <1>5, <1>6 DEF PoolSound, Modes

LEMMA LoaderIsSound ==
    ASSUME NEW c \in Config, PreloadErrors(c) = {}
    PROVE  LoaderSound(c)
<1>1. c.preload.documentCount \in Int /\ c.preload.threads \in Int
  BY DEF Config, PreloadConfig
<1>2. c.preload.enabled => ~(c.preload.documentCount <= 0) /\ ~(c.preload.threads <= 0)
  BY DEF PreloadErrors, When
<1>3. QED
  BY <1>1, <1>2 DEF LoaderSound

\* Whole percentages that add up to 100 are not all zero or negative.
LEMMA SelectorIsSound ==
    ASSUME NEW c \in Config, WorkloadErrors(c) = {}
    PROVE  SelectorSound(c)
<1> DEFINE w == c.workload
           p == w.custom
<1>1. p \in [Operations -> Int]
  BY DEF Config, WorkloadConfig
<1>2. w.type \in Standard \cup {"custom"} /\ (w.type = "custom" => CustomTotal(p) = 100)
  BY DEF WorkloadErrors, When
<1>3. ASSUME \A o \in Operations : ~(p[o] > 0)
      PROVE  CustomTotal(p) <= 0
  <2>1. /\ p["read"] \in Int /\ p["insert"] \in Int /\ p["update"] \in Int
        /\ p["delete"] \in Int /\ p["scan"] \in Int /\ p["readModifyWrite"] \in Int
    BY <1>1 DEF Operations
  <2>2. /\ ~(p["read"] > 0) /\ ~(p["insert"] > 0) /\ ~(p["update"] > 0)
        /\ ~(p["delete"] > 0) /\ ~(p["scan"] > 0) /\ ~(p["readModifyWrite"] > 0)
    BY <1>3 DEF Operations
  <2>3. QED
    BY <2>1, <2>2 DEF CustomTotal
<1>4. w.type = "custom" => \E o \in Operations : p[o] > 0
  BY <1>2, <1>3
<1>5. QED
  BY <1>2, <1>4 DEF SelectorSound

LEMMA SchedulerIsSound ==
    ASSUME NEW c \in Config, ScheduleErrors(c) = {}
    PROVE  SchedulerSound(c)
<1> DEFINE b == c.schedule.bounds
<1>1. b.maxRuns \in Int
  BY DEF Config, ScheduleConfig, BoundsConfig
<1>2. c.schedule.enabled => BoundErrors(b) = {}
  BY DEF ScheduleErrors
<1>3. ASSUME BoundErrors(b) = {}
      PROVE  /\ b.type \in {"runFor", "maxRuns", "timeWindow", "unlimited"}
             /\ b.type = "runFor" => Parses(b.runFor)
             /\ b.type = "maxRuns" => ~(b.maxRuns <= 0)
             /\ b.type = "timeWindow" => WindowOpens(b)
  BY <1>3, Zenon DEF BoundErrors, When
<1>4. QED
  BY <1>1, <1>2, <1>3 DEF SchedulerSound

LEMMA GeneratorIsSound ==
    ASSUME NEW c \in Config, ExecutionErrors(c) = {}
    PROVE  GeneratorSound(c)
<1> DEFINE z == c.execution.zipfianConstant
<1>1. z \in Int
  BY DEF Config, ExecutionConfig
<1>2. ~(z # 0 /\ (z <= 0 \/ z >= 100))
  BY DEF ExecutionErrors, KeyErrors, When
<1>3. QED
  BY <1>1, <1>2 DEF GeneratorSound, ZipfianConstant

LEMMA SinksAreSound ==
    ASSUME NEW c \in Config, NEW d \in Disk, SinkErrors(c, d) = {}
    PROVE  SinksSound(c, Created(c, d))
BY DEF SinkErrors, SinksSound, Created, Disk, Config

\* validator.go: Validate finds no error only in a configuration that every component
\* can work with, after the directories it creates.
THEOREM ValidIsSound ==
    ASSUME NEW c \in Config, NEW d \in Disk, Errors(c, d) = {}
    PROVE  Sound(c, Created(c, d))
<1>1. /\ WorkloadErrors(c) = {} /\ ExecutionErrors(c) = {} /\ PreloadErrors(c) = {}
      /\ ScheduleErrors(c) = {} /\ SinkErrors(c, d) = {}
  BY DEF Errors
<1>2. QED
  BY <1>1, PoolIsSound, LoaderIsSound, SelectorIsSound, SchedulerIsSound, GeneratorIsSound,
     SinksAreSound DEF Sound

-----------------------------------------------------------------------------
\* The flags leave a configuration a configuration.
LEMMA OverriddenIsConfig ==
    ASSUME NEW c \in Config, NEW flags \in Flags
    PROVE  Overridden(c, flags) \in Config
<1> DEFINE x == c.execution
           threads == IF flags.threads > 0 THEN flags.threads ELSE x.threads
           duration == IF flags.duration = Unset THEN x.duration ELSE flags.duration
           operationCount == IF flags.ops > 0 THEN flags.ops ELSE x.operationCount
           mode == IF flags.ops > 0 THEN "ops"
                   ELSE IF flags.duration # Unset THEN "time" ELSE x.mode
           e == [x EXCEPT !.threads = threads, !.duration = duration,
                          !.operationCount = operationCount, !.mode = mode]
           w == [c.workload EXCEPT !.type = IF flags.workload = "" THEN @ ELSE flags.workload]
           malformed == IF "uri" \in flags.given THEN flags.malformed ELSE c.connection.malformed
           n == [c.connection EXCEPT !.given = @ \cup flags.given, !.malformed = malformed]
<1>1. e \in ExecutionConfig
  <2>1. x \in ExecutionConfig
    BY DEF Config
  <2>2. threads \in Int /\ operationCount \in Int
    BY <2>1 DEF ExecutionConfig, Flags
  <2>3. duration \in Text
    BY <2>1 DEF ExecutionConfig, Flags
  <2>4. mode \in Or(Modes)
    BY <2>1 DEF ExecutionConfig, Or, Modes
  <2> HIDE DEF threads, duration, operationCount, mode
  <2>5. QED
    BY <2>1, <2>2, <2>3, <2>4 DEF ExecutionConfig
<1>2. w \in WorkloadConfig
  BY DEF Config, WorkloadConfig, Flags
<1>3. n \in ConnectionConfig
  <2>1. c.connection \in ConnectionConfig
    BY DEF Config
  <2>2. (c.connection.given \cup flags.given) \in SUBSET {"uri", "database", "collection"}
    BY <2>1 DEF ConnectionConfig, Flags
  <2>3. malformed \in BOOLEAN
    BY <2>1 DEF ConnectionConfig, Flags
  <2> HIDE DEF malformed
  <2>4. QED
    BY <2>1, <2>2, <2>3 DEF ConnectionConfig
<1>4. Overridden(c, flags) = [c EXCEPT !.connection = n, !.workload = w, !.execution = e]
  BY Zenon DEF Overridden
<1>5. QED
  BY <1>1, <1>2, <1>3, <1>4 DEF Config

\* What workload D changes is not what the components assume anything of.
LEMMA SwitchIsSound ==
    ASSUME NEW c \in Config, NEW d \in Disk, Sound(c, d)
    PROVE  LET s == [c EXCEPT !.execution.keyDistribution = "latest"] IN s \in Config /\ Sound(s, d)
<1> DEFINE e == [c.execution EXCEPT !.keyDistribution = "latest"]
           s == [c EXCEPT !.execution = e]
<1>1. [c EXCEPT !.execution.keyDistribution = "latest"] = s
  BY Zenon
<1>2. c.execution \in ExecutionConfig
  BY DEF Config
<1>3. e \in ExecutionConfig
  <2>1. "latest" \in Or(KeyDistributions)
    BY DEF Or, KeyDistributions
  <2>2. QED
    BY <1>2, <2>1 DEF ExecutionConfig
<1>4. s \in Config
  BY <1>3 DEF Config
<1>5. /\ s.execution = e /\ s.workload = c.workload /\ s.preload = c.preload
      /\ s.schedule = c.schedule /\ s.sinks = c.sinks
  BY DEF Config
<1>6. /\ e.mode = c.execution.mode /\ e.threads = c.execution.threads
      /\ e.duration = c.execution.duration /\ e.operationCount = c.execution.operationCount
      /\ e.rampup = c.execution.rampup /\ e.zipfianConstant = c.execution.zipfianConstant
  BY <1>2 DEF ExecutionConfig
<1>7. PoolSound(s)
  BY <1>5, <1>6 DEF Sound, PoolSound
<1>8. GeneratorSound(s)
  BY <1>5, <1>6 DEF Sound, GeneratorSound, ZipfianConstant
<1>9. LoaderSound(s) /\ SelectorSound(s) /\ SchedulerSound(s) /\ SinksSound(s, d)
  BY <1>5 DEF Sound, LoaderSound, SelectorSound, SchedulerSound, SinksSound
<1>10. QED
  BY <1>1, <1>4, <1>7, <1>8, <1>9 DEF Sound
-----------------------------------------------------------------------------
\* The file, the configuration in use and the directories have their types.
IInv ==
    /\ file \in Config /\ cfg \in Config /\ disk \in Disk
    /\ SoundOnceStarted

\* A step of a command that was let through leaves it with what it was validated with,
\* or with the distribution of workload D.
LEMMA GoingOn ==
    ASSUME IInv, Started, file' = file, disk' = disk,
           cfg' \in {cfg, [cfg EXCEPT !.execution.keyDistribution = "latest"]}
    PROVE  IInv'
<1>1. Sound(cfg, disk) /\ cfg \in Config /\ disk \in Disk /\ file \in Config
  BY DEF IInv, SoundOnceStarted
<1>2. cfg' \in Config /\ Sound(cfg', disk)
  BY <1>1, SwitchIsSound
<1>3. QED
  BY <1>1, <1>2 DEF IInv, SoundOnceStarted

\* Nothing is started yet, so what is started is sound: main.go.
THEOREM StartsSound == Init => IInv
BY CommandsAssumption DEF Init, IInv, SoundOnceStarted, Started, CommandsAssumption

LEMMA CreatedIsDisk ==
    ASSUME NEW c \in Config, NEW d \in Disk
    PROVE  Created(c, d) \in Disk
BY DEF Created, Disk

THEOREM StaysSound == IInv /\ [Next]_vars => IInv'
<1> SUFFICES ASSUME IInv, [Next]_vars PROVE IInv'
  OBVIOUS
<1>1. file \in Config /\ cfg \in Config /\ disk \in Disk
  BY DEF IInv
<1>2. CASE TimePasses
  BY <1>2 DEF TimePasses, IInv, SoundOnceStarted, Started, session
<1>3. CASE DryRun
  <2>1. Created(file, disk) \in Disk
    BY <1>1, CreatedIsDisk
  <2>2. at' \in {"shell", "rejected"}
    BY <1>3 DEF DryRun
  <2>3. QED
    BY <1>1, <1>3, <2>1, <2>2 DEF DryRun, IInv, SoundOnceStarted, Started
<1>4. CASE Run
  <2>1. PICK flags \in FlagSets :
            /\ cfg' = Overridden(file, flags) /\ disk' = Created(cfg', disk)
            /\ at' = "rejected" \/ Errors(cfg', disk) = {}
    BY <1>4 DEF Run
  <2>2. cfg' \in Config
    BY <1>1, <2>1, OverriddenIsConfig, CommandsAssumption DEF CommandsAssumption
  <2>3. disk' \in Disk
    BY <1>1, <2>1, <2>2, CreatedIsDisk
  <2>4. at' = "rejected" \/ Sound(cfg', disk')
    BY <1>1, <2>1, <2>2, ValidIsSound
  <2>5. file' = file
    BY <1>4 DEF Run
  <2>6. QED
    BY <1>1, <2>2, <2>3, <2>4, <2>5 DEF IInv, SoundOnceStarted, Started
<1>5. CASE Schedule
  <2>1. /\ cfg' = file /\ file' = file /\ disk' = Created(file, disk)
        /\ at' = "rejected" \/ Errors(file, disk) = {}
    BY <1>5 DEF Schedule
  <2>2. disk' \in Disk
    BY <1>1, <2>1, CreatedIsDisk
  <2>3. at' = "rejected" \/ Sound(cfg', disk')
    BY <1>1, <2>1, ValidIsSound
  <2>4. QED
    BY <1>1, <2>1, <2>2, <2>3 DEF IInv, SoundOnceStarted, Started
<1>6. CASE \/ StartScheduler \/ Connect \/ Prepare \/ CreateIndexes \/ WarmUp
          \/ BenchmarkFails
  <2>1. Started
    BY <1>6 DEF Started, StartScheduler, Connect, Prepare, CreateIndexes, WarmUp, BenchmarkFails
  <2>2. UNCHANGED <<file, disk, cfg>>
    BY <1>6 DEF StartScheduler, Connect, Prepare, CreateIndexes, WarmUp, BenchmarkFails,
                FailLate, session
  <2>3. QED
    BY <2>1, <2>2, GoingOn
<1>7. CASE TriggerRun \/ TriggerStops \/ Expire \/ Interrupt \/ ClusterFails \/ Reuse \/ Benchmark
  <2>1. Started
    BY <1>7 DEF Started, TriggerRun, TriggerStops, Comes, Expire, Interrupt, ClusterFails, Reuse,
                Benchmark
  <2>2. UNCHANGED <<file, disk, cfg>>
    BY <1>7 DEF TriggerRun, TriggerStops, Expire, Interrupt, ClusterFails, Reuse, Benchmark, session
  <2>3. QED
    BY <2>1, <2>2, GoingOn
<1>8. CASE Build
  <2>1. Started
    BY <1>8 DEF Started, Build
  <2>2. /\ file' = file /\ disk' = disk
        /\ cfg' \in {cfg, [cfg EXCEPT !.execution.keyDistribution = "latest"]}
    BY <1>8 DEF Build, FailLate, session
  <2>3. QED
    BY <2>1, <2>2, GoingOn
<1>9. CASE UNCHANGED vars
  BY <1>9 DEF vars, session, IInv, SoundOnceStarted, Started
<1>10. CASE Terminating
  BY <1>10, <1>9 DEF Terminating
<1>11. QED
  BY <1>2, <1>3, <1>4, <1>5, <1>6, <1>7, <1>8, <1>9, <1>10 DEF Next

\* Every command that goes on after its validation does so with a configuration that is
\* sound, whatever the file, the flags, the directories and the collection are.
THEOREM AlwaysSound == Spec => []SoundOnceStarted
<1>1. IInv => SoundOnceStarted
  BY DEF IInv
<1>2. QED
  BY <1>1, StartsSound, StaysSound, PTL DEF Spec

-----------------------------------------------------------------------------
(* What may still fail a run.                                                *)

Known(c) == c.connection.writeConcern \in WriteConcerns \cup {""} /\ ~c.connection.malformed

\* Past NewBenchmarkClient, before the end of the run.
Inside == {"prepare", "indexes", "build", "warmup", "benchmark"}

\* The key that the next insert gets is never negative after a preload.
Counts ==
    /\ existing \in Nat /\ count \in Int
    /\ ~Started => count = 0
    /\ count < 0 => ~cfg.preload.enabled

\* Inductive, beside IInv: nothing failed or was dropped before a command started; the
\* scheduler starts once, before any run; a client was made only for a known write concern
\* and a URI that parses.
Spared ==
    /\ late \cap Validated = {}
    /\ ~Started => late = {} /\ ~dropped
    /\ Started => cfg.connection.readPreference \in ReadPreferences \cup {""}
    /\ at = "starting" => cfg.schedule.enabled /\ ~dropped
    /\ "cron" \in late => at = "ended" /\ ~dropped
    /\ at \in Inside \/ dropped => Known(cfg)
    /\ late \cap {"uri", "writeConcern"} # {} => ~Known(cfg)
    /\ "documentCount" \in late => ~cfg.preload.enabled

LEMMA StartsCounting == Init => Counts
BY CommandsAssumption DEF Init, Counts, Started, CommandsAssumption

LEMMA StaysCounting == Counts /\ IInv /\ [Next]_vars => Counts'
<1> SUFFICES ASSUME Counts, IInv, [Next]_vars PROVE Counts'
  OBVIOUS
<1>1. /\ existing \in Nat /\ count \in Int /\ cfg \in Config
      /\ ~Started => count = 0
      /\ count < 0 => ~cfg.preload.enabled
      /\ Started => Sound(cfg, disk)
  BY DEF Counts, IInv, SoundOnceStarted
<1>2. CASE UNCHANGED <<existing, count>> /\ cfg'.preload = cfg.preload /\ (Started => Started')
  BY <1>1, <1>2 DEF Counts
<1>3. CASE at = "shell" /\ UNCHANGED <<existing, count>>
  BY <1>1, <1>3 DEF Counts, Started
<1>4. CASE TimePasses \/ DryRun \/ Run \/ Schedule
  BY <1>3, <1>4 DEF TimePasses, DryRun, Run, Schedule, progress
<1>5. CASE StartScheduler \/ TriggerRun \/ TriggerStops \/ Expire \/ Interrupt \/ Connect \/ WarmUp
  BY <1>2, <1>5 DEF StartScheduler, TriggerRun, TriggerStops, Comes, Expire, Interrupt, Connect,
                    WarmUp, FailLate, AfterError, session, progress, Started
<1>6. CASE Benchmark \/ BenchmarkFails
  BY <1>2, <1>6 DEF Benchmark, BenchmarkFails, FailLate, AfterError, session, progress, Started
<1>7. cfg.preload.documentCount \in Int /\ (Started /\ cfg.preload.enabled => cfg.preload.documentCount \in Nat)
  BY <1>1 DEF Config, PreloadConfig, Sound, LoaderSound
<1>8. CASE ClusterFails \/ Prepare
  <2>1. /\ Started /\ Started' /\ UNCHANGED <<count, cfg>>
        /\ \/ existing' = existing
           \/ Preloads /\ existing' \in {0, cfg.preload.documentCount}
    BY <1>8 DEF ClusterFails, Prepare, FailLate, AfterError, session, Started
  <2>2. existing' \in Nat
    BY <1>1, <1>7, <2>1 DEF Preloads
  <2>. QED
    BY <1>1, <2>1, <2>2 DEF Counts
<1>9. CASE Reuse
  BY <1>1, <1>9 DEF Reuse, session, Counts, Started
<1>10. CASE CreateIndexes
  <2>1. /\ Started /\ Started' /\ UNCHANGED <<existing, cfg>>
        /\ count' \in {count, cfg.preload.documentCount}
    BY <1>10 DEF CreateIndexes, FailLate, AfterError, session, Started
  <2>. QED
    BY <1>1, <1>7, <2>1 DEF Counts
<1>11. CASE Build
  <2>1. /\ UNCHANGED <<existing, count>> /\ Started /\ Started'
        /\ cfg' \in {cfg, [cfg EXCEPT !.execution.keyDistribution = "latest"]}
    BY <1>11 DEF Build, FailLate, AfterError, session, progress, Started
  <2>2. cfg'.preload = cfg.preload
    BY <1>1, <2>1 DEF Config
  <2>. QED
    BY <1>2, <2>1, <2>2
<1>12. CASE UNCHANGED vars
  BY <1>2, <1>12 DEF vars, session, progress, Started
<1>13. CASE Terminating
  BY <1>12, <1>13 DEF Terminating
<1>. QED
  BY <1>4, <1>5, <1>6, <1>8, <1>9, <1>10, <1>11, <1>12, <1>13 DEF Next

\* What FailLate may be called for, given that the configuration is sound.
Rest == {"writeConcern", "uri", "arraySize", "documentCount", "warmup", "fieldCount", "indexes", "cron"}

LEMMA RestUnvalidated == Rest \cap Validated = {}
BY DEF Rest, Validated

\* A step of a command that was let through: what has to be shown of it.
LEMMA Sparing ==
    ASSUME Spared, Started, Started', NEW causes \in SUBSET Rest,
           late' = late \cup causes,
           cfg'.connection = cfg.connection, cfg'.preload = cfg.preload,
           at' # "starting", at # "ended",
           "cron" \in causes => at' = "ended" /\ ~dropped',
           at' \in Inside \/ dropped' => Known(cfg),
           causes \cap {"uri", "writeConcern"} # {} => ~Known(cfg),
           "documentCount" \in causes => ~cfg.preload.enabled
    PROVE  Spared'
<1>1. /\ late \cap Validated = {} /\ "cron" \notin late
      /\ cfg.connection.readPreference \in ReadPreferences \cup {""}
      /\ late \cap {"uri", "writeConcern"} # {} => ~Known(cfg)
      /\ "documentCount" \in late => ~cfg.preload.enabled
  BY DEF Spared
<1>2. Known(cfg)' <=> Known(cfg)
  BY DEF Known
<1>3. late' \cap Validated' = {}
  BY <1>1, RestUnvalidated DEF Validated
<1>4. "cron" \in late' => at' = "ended" /\ ~dropped'
  BY <1>1
<1>5. late' \cap {"uri", "writeConcern"} # {} => ~Known(cfg)
  BY <1>1
<1>6. (cfg.connection.readPreference \in ReadPreferences \cup {""})'
  BY <1>1
<1>7. "documentCount" \in late' => ~cfg'.preload.enabled
  BY <1>1
<1>. QED
  BY <1>2, <1>3, <1>4, <1>5, <1>6, <1>7 DEF Spared

\* A step of a command that leaves the configuration and what failed before alone.
LEMMA SparingAlone ==
    ASSUME Spared, Started, Started', UNCHANGED <<late, cfg>>, at' # "starting", at # "ended",
           at' \in Inside \/ dropped' => Known(cfg)
    PROVE  Spared'
BY Sparing, {} \in SUBSET Rest

\* The readPreference of a valid configuration is a known one; "schedule" is refused
\* unless it is enabled.
LEMMA StartsSpared == Init => Spared
BY DEF Init, Spared, Started, Inside

LEMMA StaysSpared == Spared /\ Counts /\ IInv /\ [Next]_vars => Spared'
<1> SUFFICES ASSUME Spared, Counts, IInv, [Next]_vars PROVE Spared'
  OBVIOUS
<1>1. Started => Sound(cfg, disk)
  BY DEF IInv, SoundOnceStarted
<1>2. CASE ~Started /\ ~Started' /\ UNCHANGED <<late, dropped>>
  BY <1>2 DEF Spared, Started, Inside
<1>3. CASE ~Started /\ Started' /\ UNCHANGED <<late, dropped>> /\ at' \notin Inside
             /\ (at' = "starting" => cfg'.schedule.enabled) /\ ConnectionErrors(cfg') = {}
  <2>1. late' = {} /\ ~dropped'
    BY <1>3 DEF Spared
  <2>2. cfg'.connection.readPreference \in ReadPreferences \cup {""}
    BY <1>3 DEF ConnectionErrors, When
  <2>. QED
    BY <1>3, <2>1, <2>2 DEF Spared
<1>4. CASE TimePasses \/ DryRun
  BY <1>2, <1>4 DEF TimePasses, DryRun, Started, progress
<1>5. CASE Run
  <2>1. /\ at = "shell" /\ UNCHANGED <<late, dropped>> /\ at' \in {"connect", "rejected"}
        /\ at' = "connect" => ConnectionErrors(cfg') = {}
    BY <1>5 DEF Run, Errors, progress
  <2>. QED
    BY <1>2, <1>3, <2>1 DEF Started, Inside
<1>6. CASE Schedule
  <2>1. /\ at = "shell" /\ UNCHANGED <<late, dropped>> /\ at' \in {"starting", "rejected"}
        /\ at' = "starting" => ConnectionErrors(cfg') = {} /\ cfg'.schedule.enabled
    BY <1>6 DEF Schedule, Errors, progress
  <2>. QED
    BY <1>2, <1>3, <2>1 DEF Started, Inside
<1>7. CASE StartScheduler
  <2>1. Started /\ SchedulerSound(cfg) /\ cfg.schedule.enabled /\ ~dropped /\ at = "starting"
    BY <1>1, <1>7 DEF StartScheduler, Spared, Sound, Started
  <2>2. UNCHANGED <<cfg, dropped>> /\ at' \in {"waiting", "ended"}
    BY <1>7 DEF StartScheduler, FailLate, session, progress
  <2>3. late' = late \/ (late' = late \cup {"cron"} /\ at' = "ended")
    <3> DEFINE b == cfg.schedule.bounds
    <3>1. ~(b.type = "runFor" /\ b.runFor.text = "garbage")
          /\ ~(b.type = "timeWindow" /\ b.startAt.text = "garbage")
      BY <2>1 DEF SchedulerSound, WindowOpens, Parses
    <3>. QED
      BY <1>7, <3>1 DEF StartScheduler, FailLate, When, progress
  <2>4. CASE late' = late
    BY <2>1, <2>2, <2>4, SparingAlone DEF Inside, Started
  <2>5. CASE late' = late \cup {"cron"} /\ at' = "ended"
    BY <2>1, <2>2, <2>5, Sparing DEF Inside, Started, Rest
  <2>. QED
    BY <2>3, <2>4, <2>5
<1>8. CASE TriggerRun \/ TriggerStops \/ Expire \/ Interrupt
  <2>1. /\ at = "waiting" /\ UNCHANGED <<late, cfg, dropped>>
        /\ at' \in {"connect", "stopped", "ended"}
    BY <1>8 DEF TriggerRun, TriggerStops, Comes, Expire, Interrupt, session, progress
  <2>. QED
    BY <2>1, SparingAlone DEF Started, Inside, Spared
<1>9. CASE Connect
  <2>1. at = "connect" /\ UNCHANGED <<cfg, dropped>> /\ at' \in {"prepare", "waiting", "ended"}
    BY <1>9 DEF Connect, FailLate, AfterError, session
  <2>2. cfg.connection.readPreference \in ReadPreferences \cup {""}
    BY <2>1 DEF Spared, Started
  <2>3. \/ Known(cfg) /\ late' = late
        \/ /\ ~Known(cfg) /\ at' # "prepare"
           /\ \E causes \in SUBSET {"writeConcern", "uri"} : late' = late \cup causes
    <3>1. cfg.connection.malformed \in BOOLEAN
      BY DEF IInv, Config, ConnectionConfig
    <3> DEFINE causes == When(cfg.connection.writeConcern \notin WriteConcerns \cup {""}, "writeConcern")
                           \cup When(cfg.connection.malformed, "uri")
    <3>2. causes \in SUBSET {"writeConcern", "uri"} /\ (causes = {} <=> Known(cfg))
      BY <3>1 DEF When, Known
    <3>3. \/ causes = {} /\ late' = late
          \/ causes # {} /\ at' # "prepare" /\ late' = late \cup causes
      BY <1>9, <2>2 DEF Connect, FailLate, AfterError, When
    <3> HIDE DEF causes
    <3>. QED
      BY <3>2, <3>3
  <2>4. CASE Known(cfg) /\ late' = late
    BY <2>1, <2>4, SparingAlone DEF Started
  <2>5. CASE /\ ~Known(cfg) /\ at' # "prepare"
             /\ \E causes \in SUBSET {"writeConcern", "uri"} : late' = late \cup causes
    <3>1. PICK causes \in SUBSET {"writeConcern", "uri"} : late' = late \cup causes
      BY <2>5
    <3>2. causes \in SUBSET Rest /\ "cron" \notin causes /\ "documentCount" \notin causes
      BY DEF Rest
    <3>. QED
      BY <2>1, <2>5, <3>1, <3>2, Sparing DEF Started, Inside, Spared
  <2>. QED
    BY <2>3, <2>4, <2>5
<1>10. CASE ClusterFails \/ Reuse
  <2>1. /\ at \in {"connect", "prepare", "indexes"} /\ UNCHANGED <<late, cfg>>
        /\ at' \in {"waiting", "ended"} \/ (at' = "build" /\ at = "prepare")
        /\ dropped' = dropped \/ at = "prepare"
    BY <1>10 DEF ClusterFails, Reuse, AfterError, session
  <2>2. at' \in Inside \/ dropped' => Known(cfg)
    <3>1. at \in Inside \/ dropped => Known(cfg)
      BY DEF Spared
    <3>2. CASE at \in {"prepare", "indexes"}
      BY <3>1, <3>2 DEF Inside
    <3>3. CASE at = "connect"
      BY <2>1, <3>1, <3>3 DEF Inside
    <3>. QED
      BY <2>1, <3>2, <3>3
  <2>. QED
    BY <2>1, <2>2, SparingAlone DEF Started
<1>11. CASE Prepare
  <2>1. at = "prepare" /\ UNCHANGED cfg /\ at' \in {"indexes", "dead"}
    BY <1>11 DEF Prepare, FailLate, session
  <2>2. Known(cfg) /\ LoaderSound(cfg) /\ cfg \in Config
    BY <1>1, <2>1 DEF Spared, Inside, Sound, Started, IInv
  <2>3. Preloads => cfg.preload.threads # 0
    BY <2>2 DEF LoaderSound, Preloads
  <2>4. late' = late \/ late' = late \cup {"arraySize"}
    BY <1>11, <2>3 DEF Prepare, FailLate, When
  <2>5. CASE late' = late
    BY <2>1, <2>2, <2>5, SparingAlone DEF Started
  <2>6. CASE late' = late \cup {"arraySize"}
    BY <2>1, <2>2, <2>6, Sparing DEF Started, Rest
  <2>. QED
    BY <2>4, <2>5, <2>6
<1>12. CASE CreateIndexes
  <2>1. /\ at = "indexes" /\ UNCHANGED <<cfg, dropped>> /\ at' \in {"build", "waiting", "ended"}
        /\ late' = late \/ late' = late \cup {"indexes"}
    BY <1>12 DEF CreateIndexes, FailLate, AfterError, session
  <2>2. Known(cfg)
    BY <2>1 DEF Spared, Inside
  <2>3. CASE late' = late
    BY <2>1, <2>2, <2>3, SparingAlone DEF Started
  <2>4. CASE late' = late \cup {"indexes"}
    BY <2>1, <2>2, <2>4, Sparing DEF Started, Rest
  <2>. QED
    BY <2>1, <2>3, <2>4
<1>18. CASE Build
  <2>1. at = "build" /\ Started /\ cfg \in Config /\ SelectorSound(cfg)
    BY <1>1, <1>18 DEF Build, Started, Sound, IInv
  <2>2. /\ at' = "warmup" /\ UNCHANGED <<late, dropped>>
        /\ cfg' \in {cfg, [cfg EXCEPT !.execution.keyDistribution = "latest"]}
    BY <1>18, <2>1 DEF Build, SelectorSound, progress
  <2>3. cfg'.connection = cfg.connection /\ cfg'.preload = cfg.preload
    BY <2>1, <2>2 DEF Config
  <2>4. Known(cfg)
    BY <2>1 DEF Spared, Inside
  <2>. QED
    BY <2>1, <2>2, <2>3, <2>4, Sparing, {} \in SUBSET Rest DEF Started
<1>13. CASE WarmUp
  <2>1. /\ at = "warmup" /\ UNCHANGED <<cfg, dropped>> /\ at' \in {"benchmark", "waiting", "ended"}
        /\ late' = late \/ late' = late \cup {"warmup"}
    BY <1>13 DEF WarmUp, FailLate, AfterError, session, progress
  <2>2. Known(cfg)
    BY <2>1 DEF Spared, Inside
  <2>3. CASE late' = late
    BY <2>1, <2>2, <2>3, SparingAlone DEF Started
  <2>4. CASE late' = late \cup {"warmup"}
    BY <2>1, <2>2, <2>4, Sparing DEF Started, Rest
  <2>. QED
    BY <2>1, <2>3, <2>4
<1>14. CASE Benchmark
  BY <1>14, SparingAlone DEF Benchmark, Started, Inside, Spared, session
<1>15. CASE BenchmarkFails
  <2>1. /\ at = "benchmark" /\ UNCHANGED <<cfg, dropped>> /\ at' \in {"waiting", "ended", "dead"}
        /\ late' = late \cup Unparsed \/ late' = late \cup Panics
    BY <1>15 DEF BenchmarkFails, FailLate, AfterError, session
  <2>2. PoolSound(cfg) /\ SelectorSound(cfg) /\ cfg \in Config /\ Known(cfg)
    BY <1>1, <2>1 DEF Started, Sound, IInv, Spared, Inside
  <2>3. Unparsed = {}
    BY <2>2 DEF Unparsed, PoolSound, When
  <2>4. Panics \subseteq {"fieldCount", "arraySize", "documentCount"}
    <3>1. cfg.execution.threads # 0
      BY <2>2 DEF PoolSound
    <3>2. Performs(Operations)
      <4>1. CASE cfg.workload.type = "custom"
        BY <2>2, <4>1 DEF SelectorSound, Performs, Percentages, Standard
      <4>2. CASE cfg.workload.type \in Standard
        <5>1. Percentages(cfg.workload)["read"] > 0 \/ Percentages(cfg.workload)["scan"] > 0
          BY <4>2 DEF Percentages, Standard, Mix, Operations
        <5>. QED
          BY <5>1 DEF Performs, Operations
      <4>. QED
        BY <2>2, <4>1, <4>2 DEF SelectorSound
    <3>. QED
      BY <3>1, <3>2 DEF Panics, When
  <2>5. "documentCount" \in Panics => ~cfg.preload.enabled
    BY DEF Panics, When, Counts
  <2>6. PICK causes \in SUBSET {"fieldCount", "arraySize", "documentCount"} :
            late' = late \cup causes /\ ("documentCount" \in causes => ~cfg.preload.enabled)
    BY <2>1, <2>3, <2>4, <2>5
  <2>. QED
    BY <2>1, <2>2, <2>6, Sparing DEF Started, Rest
<1>16. CASE UNCHANGED vars
  BY <1>16 DEF vars, session, progress, cron, Spared, Started, Inside, Known
<1>17. CASE Terminating
  BY <1>16, <1>17 DEF Terminating
<1>. QED
  BY <1>4, <1>5, <1>6, <1>7, <1>8, <1>9, <1>10, <1>11, <1>12, <1>13, <1>14, <1>15, <1>16, <1>17,
     <1>18
     DEF Next

\* README.md:230: for any files and flags, what Validate looked at never fails a run, and
\* nothing was dropped when the URI, the write concern or the cron is wrong.
THEOREM FailsForUnvalidated == Spec => []LateOnlyUnvalidated
<1>1. Spared => LateOnlyUnvalidated
  BY DEF Spared, LateOnlyUnvalidated
<1>. QED
  BY <1>1, StartsSound, StaysSound, StartsCounting, StaysCounting, StartsSpared, StaysSpared, PTL
     DEF Spec

-----------------------------------------------------------------------------
(* The selector: what the thresholds make of the percentages.                *)

\* The thresholds of the selector, one by one.
LEMMA LimitsAre ==
    ASSUME NEW p \in [Operations -> Nat]
    PROVE  /\ Limits(p)[0] = 0
           /\ \A i \in 1 .. 6 : Limits(p)[i] = Limits(p)[i - 1] + p[Order[i]]
<1> DEFINE More(i) == IF i \in Positive(p) THEN p[Order[i]] ELSE 0
           Is(f) == f = [i \in 0 .. Len(Order) |-> IF i = 0 THEN 0 ELSE f[i - 1] + More(i)]
           f1 == p["read"]
           f2 == f1 + p["insert"]
           f3 == f2 + p["update"]
           f4 == f3 + p["delete"]
           f5 == f4 + p["scan"]
           f6 == f5 + p["readModifyWrite"]
           g == [i \in 0 .. 6 |-> IF i = 0 THEN 0 ELSE IF i = 1 THEN f1 ELSE IF i = 2 THEN f2
                                  ELSE IF i = 3 THEN f3 ELSE IF i = 4 THEN f4
                                  ELSE IF i = 5 THEN f5 ELSE f6]
<1>1. Len(Order) = 6 /\ \A i \in 1 .. 6 : Order[i] \in Operations
  BY DEF Order, Operations
<1>2. \A i \in 1 .. 6 : More(i) = p[Order[i]]
  BY <1>1 DEF Positive
<1>3. /\ More(1) = p["read"] /\ More(2) = p["insert"] /\ More(3) = p["update"]
      /\ More(4) = p["delete"] /\ More(5) = p["scan"] /\ More(6) = p["readModifyWrite"]
  BY <1>2 DEF Order
<1>4. /\ p["read"] \in Nat /\ p["insert"] \in Nat /\ p["update"] \in Nat
      /\ p["delete"] \in Nat /\ p["scan"] \in Nat /\ p["readModifyWrite"] \in Nat
  BY DEF Operations
<1> HIDE DEF More
<1>5. \A i \in 0 .. 6 : g[i] = IF i = 0 THEN 0 ELSE g[i - 1] + More(i)
  BY <1>3, <1>4
<1>6. Is(g)
  <2> HIDE DEF g
  <2>1. g = [i \in 0 .. 6 |-> g[i]]
    BY DEF g
  <2>. QED
    BY <1>1, <1>5, <2>1
<1>7. Limits(p) = CHOOSE f : Is(f)
  BY Zenon DEF Limits, More
<1> HIDE DEF Is
<1>8. Is(Limits(p))
  BY <1>6, <1>7, Zenon
<1>9. \A i \in 0 .. 6 : Limits(p)[i] = IF i = 0 THEN 0 ELSE Limits(p)[i - 1] + More(i)
  BY <1>1, <1>8 DEF Is
<1>. QED
  BY <1>2, <1>9

\* They do not decrease, and end with the sum of the percentages.
LEMMA LimitsGrow ==
    ASSUME NEW p \in [Operations -> Nat]
    PROVE  /\ \A i \in 0 .. 6 : Limits(p)[i] \in Nat
           /\ \A i, j \in 0 .. 6 : i <= j => Limits(p)[i] <= Limits(p)[j]
           /\ Limits(p)[6] = CustomTotal(p)
<1> DEFINE L == Limits(p)
<1>1. /\ L[0] = 0 /\ L[1] = L[0] + p["read"] /\ L[2] = L[1] + p["insert"]
      /\ L[3] = L[2] + p["update"] /\ L[4] = L[3] + p["delete"] /\ L[5] = L[4] + p["scan"]
      /\ L[6] = L[5] + p["readModifyWrite"]
  BY LimitsAre DEF Order
<1>2. /\ p["read"] \in Nat /\ p["insert"] \in Nat /\ p["update"] \in Nat
      /\ p["delete"] \in Nat /\ p["scan"] \in Nat /\ p["readModifyWrite"] \in Nat
  BY DEF Operations
<1> HIDE DEF L
<1>3. /\ L[0] \in Nat /\ L[1] \in Nat /\ L[2] \in Nat /\ L[3] \in Nat /\ L[4] \in Nat
      /\ L[5] \in Nat /\ L[6] \in Nat
      /\ L[0] <= L[1] /\ L[1] <= L[2] /\ L[2] <= L[3] /\ L[3] <= L[4] /\ L[4] <= L[5] /\ L[5] <= L[6]
  BY <1>1, <1>2
<1>4. \A i \in 0 .. 6 : L[i] \in Nat
  BY <1>3
<1>5. \A i, j \in 0 .. 6 : i <= j => L[i] <= L[j]
  BY <1>3
<1>6. L[6] = CustomTotal(p)
  BY <1>1, <1>2 DEF CustomTotal
<1>. QED
  BY <1>4, <1>5, <1>6 DEF L

\* A number between two neighbouring thresholds selects the operation of the upper one.
LEMMA SelectIs ==
    ASSUME NEW p \in [Operations -> Nat], NEW i \in 1 .. 6, NEW r \in Nat,
           Limits(p)[i - 1] <= r, r < Limits(p)[i]
    PROVE  Select(p, r) = Order[i]
<1> DEFINE L == Limits(p)
           above == {k \in Positive(p) : r < L[k]}
           first == CHOOSE k \in above : \A j \in above : k <= j
<1>1. \A k \in 1 .. 6 : L[k] = L[k - 1] + p[Order[k]] /\ p[Order[k]] \in Nat
  BY LimitsAre DEF Order, Operations
<1>2. /\ \A k \in 0 .. 6 : L[k] \in Nat
      /\ \A k, j \in 0 .. 6 : k <= j => L[k] <= L[j]
  BY LimitsGrow
<1>3. Positive(p) = {k \in 1 .. 6 : p[Order[k]] > 0}
  BY DEF Positive, Order
<1>4. L[i - 1] <= r /\ r < L[i]
  OBVIOUS
<1> HIDE DEF L
<1>5. i \in above
  BY <1>1, <1>2, <1>3, <1>4
<1>6. \A j \in above : i <= j
  <2> SUFFICES ASSUME NEW j \in 1 .. 6, r < L[j], j < i PROVE FALSE
    BY <1>3
  <2>1. L[j] <= L[i - 1]
    BY <1>2
  <2>. QED
    BY <1>2, <1>4, <2>1
<1>7. above \subseteq 1 .. 6
  BY <1>3
<1> HIDE DEF above
<1>8. first = i
  <2>1. first \in above /\ \A j \in above : first <= j
    BY <1>5, <1>6, Zenon
  <2>. HIDE DEF first
  <2>. QED
    BY <1>5, <1>6, <1>7, <2>1
<1>. QED
  BY <1>5, <1>8 DEF Select, L, above

\* worker/selector.go: of a hundred equally likely numbers, each operation is selected
\* by as many as its percentage says.
THEOREM SharesAsConfigured ==
    ASSUME NEW p \in [Operations -> Nat], CustomTotal(p) = 100
    PROVE  Shares(p) = p
<1> DEFINE L == Limits(p)
<1>1. /\ L[0] = 0 /\ L[6] = 100
      /\ \A k \in 1 .. 6 : L[k] = L[k - 1] + p[Order[k]]
  BY LimitsAre, LimitsGrow
<1>2. /\ \A k \in 0 .. 6 : L[k] \in Nat
      /\ \A k, j \in 0 .. 6 : k <= j => L[k] <= L[j]
  BY LimitsGrow
<1>3. \A k \in 1 .. 6 : \A r \in L[k - 1] .. L[k] - 1 : Select(p, r) = Order[k]
  <2> SUFFICES ASSUME NEW k \in 1 .. 6, NEW r \in L[k - 1] .. L[k] - 1
               PROVE  Select(p, r) = Order[k]
    OBVIOUS
  <2>1. k - 1 \in 0 .. 6 /\ k \in 0 .. 6
    OBVIOUS
  <2>2. L[k - 1] \in Nat /\ L[k] \in Nat
    BY <1>2, <2>1
  <2>3. r \in Nat /\ Limits(p)[k - 1] <= r /\ r < Limits(p)[k]
    BY <2>2
  <2>. QED
    BY <2>3, SelectIs
<1> HIDE DEF L
<1>4. \A r \in 0 .. 99 : \E k \in 1 .. 6 : r \in L[k - 1] .. L[k] - 1
  <2>1. /\ L[0] = 0 /\ L[1] \in Nat /\ L[2] \in Nat /\ L[3] \in Nat /\ L[4] \in Nat
        /\ L[5] \in Nat /\ L[6] = 100
    BY <1>1, <1>2
  <2>2. SUFFICES ASSUME NEW r \in 0 .. 99 PROVE \E k \in 1 .. 6 : r \in L[k - 1] .. L[k] - 1
    OBVIOUS
  <2>3. \/ r \in L[1 - 1] .. L[1] - 1 \/ r \in L[2 - 1] .. L[2] - 1
        \/ r \in L[3 - 1] .. L[3] - 1 \/ r \in L[4 - 1] .. L[4] - 1
        \/ r \in L[5 - 1] .. L[5] - 1 \/ r \in L[6 - 1] .. L[6] - 1
    BY <2>1
  <2>4. /\ 1 \in 1 .. 6 /\ 2 \in 1 .. 6 /\ 3 \in 1 .. 6 /\ 4 \in 1 .. 6 /\ 5 \in 1 .. 6
        /\ 6 \in 1 .. 6
    OBVIOUS
  <2>. QED
    BY <2>3, <2>4, Zenon
<1>5. \A k, j \in 1 .. 6 : Order[k] = Order[j] => k = j
  BY DEF Order
<1>6. ASSUME NEW k \in 1 .. 6
      PROVE  Cardinality({r \in 0 .. 99 : Select(p, r) = Order[k]}) = p[Order[k]]
  <2> DEFINE lo == L[k - 1]
             hi == L[k] - 1
             S == {r \in 0 .. 99 : Select(p, r) = Order[k]}
  <2>1. /\ k - 1 \in 0 .. 6 /\ k \in 0 .. 6 /\ L[k - 1] \in Nat /\ L[k] \in Nat
        /\ L[k] <= 100 /\ L[k] = L[k - 1] + p[Order[k]]
    BY <1>1, <1>2
  <2>2. S = lo .. hi
    <3>1. ASSUME NEW r \in lo .. hi PROVE r \in S
      BY <1>3, <2>1, <3>1
    <3>2. ASSUME NEW r \in S PROVE r \in lo .. hi
      <4>1. PICK j \in 1 .. 6 : r \in L[j - 1] .. L[j] - 1
        BY <1>4
      <4>2. Order[j] = Order[k]
        BY <1>3, <4>1
      <4>. QED
        BY <1>5, <4>1, <4>2
    <3>. QED
      BY <3>1, <3>2
  <2>3. lo \in Int /\ hi \in Int /\ p[Order[k]] \in Nat
    BY <2>1 DEF Order, Operations
  <2> HIDE DEF lo, hi, S
  <2>4. Cardinality(lo .. hi) = IF lo > hi THEN 0 ELSE hi - lo + 1
    BY <2>3, FS_Interval
  <2>5. hi - lo + 1 = p[Order[k]]
    BY <2>1, <2>3 DEF lo, hi
  <2>6. Cardinality(S) = p[Order[k]]
    BY ONLY <2>2, <2>3, <2>4, <2>5
  <2>. QED
    BY <2>6 DEF S
<1>7. \A o \in Operations : \E k \in 1 .. 6 : o = Order[k]
  <2>1. /\ Order[1] = "read" /\ Order[2] = "insert" /\ Order[3] = "update" /\ Order[4] = "delete"
        /\ Order[5] = "scan" /\ Order[6] = "readModifyWrite"
    BY DEF Order
  <2>. QED
    BY <2>1 DEF Operations
<1>8. \A o \in Operations : Cardinality({r \in 0 .. 99 : Select(p, r) = o}) = p[o]
  <2> SUFFICES ASSUME NEW o \in Operations
               PROVE  Cardinality({r \in 0 .. 99 : Select(p, r) = o}) = p[o]
    OBVIOUS
  <2>1. PICK k \in 1 .. 6 : o = Order[k]
    BY <1>7
  <2>2. Cardinality({r \in 0 .. 99 : Select(p, r) = Order[k]}) = p[Order[k]]
    BY <1>6
  <2>. QED
    BY <2>1, <2>2, Zenon
<1>. QED
  BY <1>8 DEF Shares

-----------------------------------------------------------------------------
(* The plan and its execution.                                               *)

WithKeys(c, k) == [c EXCEPT !.execution.keyDistribution = k]

\* The plan was printed of this configuration, before workload D changed its keys.
Foreseen ==
    \E k \in Or(KeyDistributions) :
        /\ plan.shown = Plan(WithKeys(cfg, k))
        /\ cfg.workload.type # "D" => k = cfg.execution.keyDistribution

Switched(c) == c.workload.type = "D" => c.execution.keyDistribution = "latest"

\* Inductive, beside IInv: what was printed, what the generator starts from and what was
\* executed are of the configuration in use.
Planned ==
    /\ at = "shell" => cfg = file /\ (plan # None => plan.shown = Plan(file))
    /\ ~Started => executed = None
    /\ Started /\ plan # None => Foreseen
    /\ Started /\ cfg.workload.type = "custom" => CustomTotal(cfg.workload.custom) = 100
    /\ at \in {"build", "warmup", "benchmark"} /\ ~skip => count = cfg.preload.documentCount
    /\ at \in {"warmup", "benchmark"} => Switched(cfg)
    /\ executed # None =>
           /\ Switched(cfg)
           /\ executed = Executed(cfg, executed.records)
           /\ ~skip => executed.records = IF cfg.execution.recordCount > 0 THEN cfg.execution.recordCount
                                          ELSE cfg.preload.documentCount

\* The fields that WithKeys leaves alone, and the one it sets.
LEMMA WithKeysIs ==
    ASSUME NEW c \in Config, NEW k \in Or(KeyDistributions)
    PROVE  LET s == WithKeys(c, k) IN
           /\ s \in Config
           /\ s.workload = c.workload /\ s.preload = c.preload
           /\ s.execution = [c.execution EXCEPT !.keyDistribution = k]
           /\ \A j \in Or(KeyDistributions) : WithKeys(s, j) = WithKeys(c, j)
           /\ k = c.execution.keyDistribution => s = c
<1> DEFINE e == [c.execution EXCEPT !.keyDistribution = k]
           s == [c EXCEPT !.execution = e]
<1>1. WithKeys(c, k) = s
  BY Zenon DEF WithKeys
<1>2. c.execution \in ExecutionConfig
  BY DEF Config
<1>3. e \in ExecutionConfig
  BY <1>2 DEF ExecutionConfig
<1>4. s \in Config /\ s.workload = c.workload /\ s.preload = c.preload /\ s.execution = e
  BY <1>3 DEF Config
<1>5. ASSUME NEW j \in Or(KeyDistributions) PROVE WithKeys(s, j) = WithKeys(c, j)
  <2>1. WithKeys(s, j) = [s EXCEPT !.execution = [s.execution EXCEPT !.keyDistribution = j]]
    BY Zenon DEF WithKeys
  <2>2. WithKeys(c, j) = [c EXCEPT !.execution = [c.execution EXCEPT !.keyDistribution = j]]
    BY Zenon DEF WithKeys
  <2>3. [e EXCEPT !.keyDistribution = j] = [c.execution EXCEPT !.keyDistribution = j]
    BY <1>2 DEF ExecutionConfig
  <2>4. \A x, y : [[c EXCEPT !.execution = x] EXCEPT !.execution = y] = [c EXCEPT !.execution = y]
    BY DEF Config
  <2>. QED
    BY <1>4, <2>1, <2>2, <2>3, <2>4
<1>6. k = c.execution.keyDistribution => s = c
  <2>1. k = c.execution.keyDistribution => e = c.execution
    BY <1>2 DEF ExecutionConfig
  <2>2. [c EXCEPT !.execution = c.execution] = c
    BY DEF Config
  <2>. QED
    BY <2>1, <2>2
<1>. QED
  BY <1>1, <1>4, <1>5, <1>6

LEMMA StartsPlanned == Init => Planned
BY DEF Init, Planned, Started

\* What was validated says, and what it does not matter which distribution is left.
LEMMA CustomAddsUp ==
    ASSUME NEW c, WorkloadErrors(c) = {}, c.workload.type = "custom"
    PROVE  CustomTotal(c.workload.custom) = 100
BY DEF WorkloadErrors, When

\* A step of a command that leaves its configuration, plan and result alone.
LEMMA PlannedAlone ==
    ASSUME Planned, Started, Started', UNCHANGED <<cfg, plan, skip, executed>>,
           at' \in {"build", "warmup", "benchmark"} /\ ~skip => count' = cfg.preload.documentCount,
           at' \in {"warmup", "benchmark"} => Switched(cfg)
    PROVE  Planned'
<1>1. at' # "shell"
  BY DEF Started
<1>2. (Foreseen <=> Foreseen') /\ (Switched(cfg) <=> Switched(cfg)')
  BY DEF Foreseen, Switched
<1>. QED
  BY <1>1, <1>2 DEF Planned

LEMMA StaysPlanned == Planned /\ IInv /\ [Next]_vars => Planned'
<1> SUFFICES ASSUME Planned, IInv, [Next]_vars PROVE Planned'
  OBVIOUS
<1>1. file \in Config /\ cfg \in Config /\ disk \in Disk
  BY DEF IInv
<1>2. ASSUME NEW c \in Config, cfg' = c, plan' # None => plan'.shown = Plan(c), Started'
      PROVE  Foreseen' \/ plan' = None
  <2>1. c.execution.keyDistribution \in Or(KeyDistributions)
    BY <1>2 DEF Config, ExecutionConfig
  <2>2. WithKeys(c, c.execution.keyDistribution) = c
    BY <2>1, WithKeysIs
  <2>. QED
    BY <1>2, <2>1, <2>2 DEF Foreseen
<1>3. CASE TimePasses \/ DryRun
  <2>1. /\ at = "shell" /\ at' \in {"shell", "rejected"} /\ UNCHANGED <<file, cfg, executed>>
        /\ at' = "shell" => plan' = plan \/ plan'.shown = Plan(file)
    BY <1>3 DEF TimePasses, DryRun, session, progress, Printed
  <2>2. executed' = None /\ cfg' = file' /\ ~Started' /\ (plan # None => plan.shown = Plan(file))
    BY <2>1 DEF Planned, Started
  <2>. QED
    BY <2>1, <2>2 DEF Planned, Started
<1>4. CASE Run
  <2>1. PICK flags \in FlagSets :
            /\ cfg' = Overridden(file, flags)
            /\ \/ at' = "rejected"
               \/ at' = "connect" /\ plan'.shown = Plan(cfg') /\ Errors(cfg', disk) = {}
    BY <1>4 DEF Run, Printed
  <2>2. cfg' \in Config
    BY <1>1, <2>1, OverriddenIsConfig, CommandsAssumption DEF CommandsAssumption
  <2>3. executed' = None
    BY <1>4 DEF Run, Planned, Started, progress
  <2>4. CASE at' = "rejected"
    BY <2>3, <2>4 DEF Planned, Started
  <2>5. CASE at' = "connect" /\ plan'.shown = Plan(cfg') /\ Errors(cfg', disk) = {}
    <3>1. Started'
      BY <2>5 DEF Started
    <3>2. Foreseen' \/ plan' = None
      BY <1>2, <2>2, <2>5, <3>1
    <3>3. WorkloadErrors(cfg') = {}
      BY <2>5 DEF Errors
    <3>4. cfg'.workload.type = "custom" => CustomTotal(cfg'.workload.custom) = 100
      BY <3>3, CustomAddsUp
    <3>. QED
      BY <2>3, <2>5, <3>1, <3>2, <3>4 DEF Planned
  <2>. QED
    BY <2>1, <2>4, <2>5
<1>5. CASE Schedule
  <2>1. /\ at = "shell" /\ cfg' = file /\ UNCHANGED <<plan, executed>>
        /\ at' = "rejected" \/ (at' = "starting" /\ Errors(file, disk) = {})
    BY <1>5 DEF Schedule, progress
  <2>2. executed' = None /\ (plan' # None => plan'.shown = Plan(file))
    BY <2>1 DEF Planned, Started
  <2>3. CASE at' = "rejected"
    BY <2>2, <2>3 DEF Planned, Started
  <2>4. CASE at' = "starting" /\ Errors(file, disk) = {}
    <3>1. Started'
      BY <2>4 DEF Started
    <3>2. Foreseen' \/ plan' = None
      BY <1>1, <1>2, <2>1, <2>2, <3>1
    <3>3. WorkloadErrors(file) = {}
      BY <2>4 DEF Errors
    <3>4. file.workload.type = "custom" => CustomTotal(file.workload.custom) = 100
      BY <3>3, CustomAddsUp
    <3>. QED
      BY <2>1, <2>2, <2>4, <3>1, <3>2, <3>4 DEF Planned
  <2>. QED
    BY <2>1, <2>3, <2>4
<1>6. CASE StartScheduler \/ TriggerRun \/ TriggerStops \/ Expire \/ Interrupt \/ Connect \/ ClusterFails
  <2>1. /\ at \in {"starting", "waiting", "connect", "prepare", "indexes"}
        /\ at' \in {"waiting", "ended", "connect", "stopped", "prepare"}
        /\ UNCHANGED <<cfg, plan, skip, executed>>
    BY <1>6 DEF StartScheduler, TriggerRun, TriggerStops, Comes, Expire, Interrupt, Connect,
                ClusterFails, FailLate, AfterError, session, progress
  <2>. QED
    BY <2>1, PlannedAlone DEF Started
<1>7. CASE Reuse \/ Prepare \/ CreateIndexes
  <2>1. /\ at \in {"prepare", "indexes"} /\ at' \in {"indexes", "build", "dead", "waiting", "ended"}
        /\ UNCHANGED <<cfg, plan, skip, executed>>
        /\ at' = "build" /\ ~skip => count' = cfg.preload.documentCount
    BY <1>7 DEF Reuse, Prepare, CreateIndexes, FailLate, AfterError, session
  <2>. QED
    BY <2>1, PlannedAlone DEF Started
<1>8. CASE Build
  <2>1. /\ at = "build" /\ UNCHANGED <<plan, skip, executed>>
        /\ \/ at' \in {"waiting", "ended"} /\ UNCHANGED cfg
           \/ /\ at' = "warmup" /\ UNCHANGED count
              /\ cfg' = IF cfg.workload.type = "D" THEN WithKeys(cfg, "latest") ELSE cfg
    BY <1>8 DEF Build, FailLate, AfterError, session, progress, WithKeys
  <2>2. Started /\ Started'
    BY <2>1 DEF Started
  <2>3. ~skip => count = cfg.preload.documentCount
    BY <2>1 DEF Planned
  <2>4. CASE UNCHANGED cfg /\ (at' = "warmup" => Switched(cfg) /\ UNCHANGED count)
    BY <2>1, <2>2, <2>3, <2>4, PlannedAlone
  <2>5. CASE /\ at' = "warmup" /\ UNCHANGED count
             /\ cfg.workload.type = "D" /\ cfg' = WithKeys(cfg, "latest") /\ cfg' # cfg
    <3>1. "latest" \in Or(KeyDistributions)
      BY DEF Or, KeyDistributions
    <3>2. /\ cfg'.workload = cfg.workload /\ cfg'.preload = cfg.preload
          /\ cfg'.execution.keyDistribution = "latest"
          /\ \A j \in Or(KeyDistributions) : WithKeys(cfg', j) = WithKeys(cfg, j)
      <4>1. /\ cfg' = WithKeys(cfg, "latest") /\ cfg.execution \in ExecutionConfig
        BY <1>1, <2>5 DEF Config
      <4>2. /\ cfg'.workload = cfg.workload /\ cfg'.preload = cfg.preload
            /\ cfg'.execution = [cfg.execution EXCEPT !.keyDistribution = "latest"]
            /\ \A j \in Or(KeyDistributions) : WithKeys(cfg', j) = WithKeys(cfg, j)
        BY <1>1, <3>1, <4>1, WithKeysIs
      <4>. QED
        BY <4>1, <4>2 DEF ExecutionConfig
    <3>3. cfg.execution.keyDistribution # "latest"
      BY <1>1, <2>5, <3>1, WithKeysIs
    <3>4. executed' = None
      BY <2>1, <2>5, <3>3 DEF Planned, Switched
    <3>5. plan # None => Foreseen
      BY <2>2 DEF Planned
    <3>6. plan' # None => Foreseen'
      <4>1. SUFFICES ASSUME plan # None PROVE Foreseen'
        BY <2>1
      <4>2. PICK k \in Or(KeyDistributions) : plan.shown = Plan(WithKeys(cfg, k))
        BY <3>5, <4>1 DEF Foreseen
      <4>3. WithKeys(cfg', k) = WithKeys(cfg, k)
        BY <3>2
      <4>4. plan'.shown = Plan(WithKeys(cfg', k))
        BY <2>1, <4>2, <4>3
      <4>. QED
        BY <2>5, <3>2, <4>2, <4>4 DEF Foreseen
    <3>7. Switched(cfg)'
      BY <3>2 DEF Switched
    <3>8. ~skip' => count' = cfg'.preload.documentCount
      BY <2>1, <2>3, <2>5, <3>2
    <3>. QED
      BY <2>2, <2>5, <3>2, <3>4, <3>6, <3>7, <3>8 DEF Planned
  <2>6. WithKeys(cfg, "latest") = cfg => cfg.execution.keyDistribution = "latest"
    <3>1. "latest" \in Or(KeyDistributions) /\ cfg.execution \in ExecutionConfig
      BY <1>1 DEF Or, KeyDistributions, Config
    <3>2. WithKeys(cfg, "latest").execution = [cfg.execution EXCEPT !.keyDistribution = "latest"]
      BY <1>1, <3>1, WithKeysIs
    <3>. QED
      BY <3>1, <3>2 DEF ExecutionConfig
  <2>7. CASE at' = "warmup" /\ UNCHANGED <<cfg, count>>
    <3>1. Switched(cfg)
      BY <2>1, <2>6, <2>7 DEF Switched
    <3>. QED
      BY <2>4, <2>7, <3>1
  <2>8. CASE at' # "warmup"
    BY <2>1, <2>4, <2>8
  <2>9. CASE at' = "warmup" /\ cfg' # cfg
    BY <2>1, <2>5, <2>9
  <2>. QED
    BY <2>1, <2>7, <2>8, <2>9
<1>9. CASE WarmUp \/ BenchmarkFails
  <2>1. /\ at \in {"warmup", "benchmark"} /\ UNCHANGED <<cfg, plan, skip, executed>>
        /\ at' = "benchmark" => UNCHANGED count
        /\ at' \in {"benchmark", "waiting", "ended", "dead"}
    BY <1>9 DEF WarmUp, BenchmarkFails, FailLate, AfterError, session, progress
  <2>2. Switched(cfg) /\ (~skip => count = cfg.preload.documentCount)
    BY <2>1 DEF Planned
  <2>. QED
    BY <2>1, <2>2, PlannedAlone DEF Started
<1>10. CASE Benchmark
  <2>1. /\ at = "benchmark" /\ at' \in {"ended", "waiting"} /\ UNCHANGED <<cfg, plan, skip>>
        /\ executed' = Executed(cfg, count)
    BY <1>10 DEF Benchmark, session
  <2>2. Started /\ Started' /\ Switched(cfg) /\ (~skip => count = cfg.preload.documentCount)
    BY <2>1 DEF Planned, Started
  <2>3. executed'.records = IF cfg.execution.recordCount > 0 THEN cfg.execution.recordCount ELSE count
    BY <2>1 DEF Executed
  <2>4. executed' = Executed(cfg, executed'.records)
    BY <2>1, <2>3 DEF Executed
  <2>5. (Foreseen <=> Foreseen') /\ (Switched(cfg) <=> Switched(cfg)')
    BY <2>1 DEF Foreseen, Switched
  <2>6. (executed = Executed(cfg, executed.records))'
    BY <2>1, <2>4
  <2>. QED
    BY <2>1, <2>2, <2>3, <2>5, <2>6 DEF Planned, Started
<1>11. CASE UNCHANGED vars
  <2>1. UNCHANGED <<file, cfg, plan, skip, executed, count, at>>
    BY <1>11 DEF vars, session, progress, cron
  <2>. QED
    BY <2>1 DEF Planned, Started, Foreseen, Switched
<1>12. CASE Terminating
  BY <1>11, <1>12 DEF Terminating
<1>. QED
  BY <1>3, <1>4, <1>5, <1>6, <1>7, <1>8, <1>9, <1>10, <1>11, <1>12 DEF Next

\* What the workers of a pool get of an operation count is the count.
LEMMA WholeCount ==
    ASSUME NEW t \in Nat \ {0}, NEW n \in Nat
    PROVE  (t - 1) * (n \div t) + (n \div t) + (n % t) = n
<1> DEFINE q == n \div t
<1>1. q \in Int /\ n % t \in Int /\ n = t * q + (n % t)
  OBVIOUS
<1> HIDE DEF q
<1>2. (t - 1) * q + q = t * q
  BY <1>1
<1>3. t * q \in Int
  BY <1>1
<1>. QED
  BY <1>1, <1>2, <1>3 DEF q

\* The last step of a ramp-up is less than a step below its maximum.
LEMMA LastStep ==
    ASSUME NEW r \in RampupConfig, 1 <= r.initialThreads, r.initialThreads < r.maxThreads,
           r.stepSize >= 1
    PROVE  Largest(Steps(r)) \in r.maxThreads - r.stepSize + 1 .. r.maxThreads
<1> DEFINE lo == r.initialThreads
           hi == r.maxThreads
           s == r.stepSize
           off == (hi - lo) % s
           n == hi - off
<1>1. lo \in Int /\ hi \in Int /\ s \in Int /\ 1 <= lo /\ lo < hi /\ s >= 1
  BY DEF RampupConfig
<1>2. Steps(r) = {m \in lo .. hi : (m - lo) % s = 0}
  BY DEF Steps
<1> HIDE DEF lo, hi, s
<1>3. off \in 0 .. s - 1 /\ off <= hi - lo
  <2>1. hi - lo \in Nat /\ s \in Nat \ {0}
    BY <1>1
  <2>2. \A a \in Nat, b \in Nat \ {0} : (a % b) \in 0 .. b - 1 /\ (a % b) <= a
    OBVIOUS
  <2>. QED
    BY <2>1, <2>2
<1>4. (n - lo) % s = 0
  <2>1. \A a \in Nat, b \in Nat \ {0} : (a - (a % b)) % b = 0
    OBVIOUS
  <2>2. hi - lo \in Nat /\ s \in Nat \ {0}
    BY <1>1
  <2>3. n - lo = (hi - lo) - off
    BY <1>1, <1>3
  <2>. QED
    BY <2>1, <2>2, <2>3
<1> HIDE DEF off
<1>5. n \in Steps(r)
  BY <1>1, <1>2, <1>3, <1>4
<1>6. \A m \in Steps(r) : m <= n
  <2>1. SUFFICES ASSUME NEW m \in lo .. hi, (m - lo) % s = 0, m > n PROVE FALSE
    BY <1>1, <1>2, <1>3
  <2>2. \A a \in Int, b \in Int, d \in Nat \ {0} : a % d = 0 /\ b % d = 0 => (a - b) % d = 0
    OBVIOUS
  <2>3. (m - n) % s = 0
    <3>1. m - lo \in Int /\ n - lo \in Int /\ m - n = (m - lo) - (n - lo) /\ s \in Nat \ {0}
      BY <1>1, <1>3
    <3>2. (m - lo) % s = 0
      BY <2>1
    <3>. QED
      BY <1>4, <2>2, <3>1, <3>2
  <2>4. m - n \in 1 .. s - 1
    BY <1>1, <1>3, <2>1
  <2>5. \A d \in Nat \ {0} : \A a \in 1 .. d - 1 : a % d = a
    OBVIOUS
  <2>. QED
    BY <1>1, <2>3, <2>4, <2>5
<1> HIDE DEF n
<1>7. Largest(Steps(r)) \in Steps(r) /\ \A m \in Steps(r) : m <= Largest(Steps(r))
  BY <1>5, <1>6, Zenon DEF Largest
<1>8. Largest(Steps(r)) \in lo .. hi /\ n <= Largest(Steps(r))
  BY <1>2, <1>5, <1>7
<1>. QED
  BY <1>1, <1>3, <1>8 DEF lo, hi, s, n

\* cmd/dryrun.go, for all configurations, flags and collections: what is executed is
\* what the printed plan says, where the two must agree.
THEOREM PlanHolds == Planned /\ IInv => PlanIsExecuted
<1> SUFFICES ASSUME Planned, IInv, executed # None, plan # None PROVE PlanIsExecuted
  BY DEF PlanIsExecuted
<1> DEFINE p == plan.shown
           x == executed
           e == cfg.execution
           r == e.rampup
           w == cfg.workload
           n == executed.records
<1>1. Started /\ cfg \in Config /\ PoolSound(cfg)
  BY DEF Planned, IInv, SoundOnceStarted, Sound
<1>2. PICK k \in Or(KeyDistributions) :
          /\ p = Plan(WithKeys(cfg, k))
          /\ w.type # "D" => k = e.keyDistribution
  BY <1>1 DEF Planned, Foreseen
<1>3. /\ x = Executed(cfg, n) /\ Switched(cfg)
      /\ ~skip => n = IF e.recordCount > 0 THEN e.recordCount ELSE cfg.preload.documentCount
      /\ w.type = "custom" => CustomTotal(w.custom) = 100
  BY <1>1 DEF Planned
<1> DEFINE c == WithKeys(cfg, k)
<1>4. /\ c.workload = w /\ c.preload = cfg.preload
      /\ c.execution = [e EXCEPT !.keyDistribution = k]
  BY <1>1, WithKeysIs
<1>5. e \in ExecutionConfig /\ r \in RampupConfig /\ w \in WorkloadConfig
      /\ e.rampup = r /\ cfg.preload.documentCount \in Int
  BY <1>1 DEF Config, ExecutionConfig, PreloadConfig
<1>6. /\ c.execution.mode = e.mode /\ c.execution.duration = e.duration
      /\ c.execution.operationCount = e.operationCount /\ c.execution.rampup = r
      /\ c.execution.threads = e.threads /\ c.execution.targetOpsPerSec = e.targetOpsPerSec
      /\ c.execution.recordCount = e.recordCount /\ c.execution.keyDistribution = k
      /\ c.execution.insertOrdering = e.insertOrdering
  BY <1>4, <1>5 DEF ExecutionConfig
<1> HIDE DEF c
<1>7. p.workload = x.workload /\ p.mode = x.mode /\ x.mode = e.mode
  BY <1>2, <1>3, <1>4, <1>6 DEF Plan, Executed, c
<1>8. p.limit = x.limit
  <2>1. p.limit = Limit(e)
    BY <1>2, <1>6 DEF Plan, Limit, c
  <2>2. CASE e.mode # "ops"
    BY <1>3, <2>1, <2>2 DEF Executed
  <2>3. CASE e.mode = "ops"
    <3>1. e.threads \in Nat \ {0} /\ e.operationCount \in Nat
      BY <1>1, <1>5, <2>3 DEF PoolSound, ExecutionConfig
    <3>2. (e.threads - 1) * (e.operationCount \div e.threads) + (e.operationCount \div e.threads)
              + (e.operationCount % e.threads) = e.operationCount
      BY <3>1, WholeCount
    <3>3. x.limit = (e.threads - 1) * (e.operationCount \div e.threads)
              + (e.operationCount \div e.threads) + (e.operationCount % e.threads)
      BY <1>3, <2>3 DEF Executed
    <3>4. p.limit = e.operationCount
      BY <2>1, <2>3 DEF Limit
    <3>. QED
      BY <3>2, <3>3, <3>4
  <2>. QED
    BY <2>2, <2>3
<1>9. /\ p.threads[1] = x.threads[1]
      /\ IF e.mode = "rampup" THEN x.threads[2] \in p.threads[2] - r.stepSize + 1 .. p.threads[2]
         ELSE x.threads[2] = p.threads[2]
  <2>1. CASE e.mode = "rampup"
    <3>1. p.threads = <<r.initialThreads, r.maxThreads>>
      BY <1>2, <1>6, <2>1 DEF Plan, c
    <3>2. x.threads = <<r.initialThreads, Largest(Steps(r))>>
      BY <1>3, <2>1 DEF Executed
    <3>3. Largest(Steps(r)) \in r.maxThreads - r.stepSize + 1 .. r.maxThreads
      BY <1>1, <1>5, <2>1, LastStep DEF PoolSound
    <3>. QED
      BY <2>1, <3>1, <3>2, <3>3
  <2>2. CASE e.mode # "rampup"
    <3>1. p.threads = <<e.threads, e.threads>>
      BY <1>2, <1>6, <2>2 DEF Plan, c
    <3>2. x.threads = <<e.threads, e.threads>>
      BY <1>3, <2>2 DEF Executed
    <3>. QED
      BY <2>2, <3>1, <3>2
  <2>. QED
    BY <2>1, <2>2
<1>10. x.rate = IF e.mode = "rampup" THEN 0 ELSE p.rate
  BY <1>2, <1>3, <1>6 DEF Plan, Executed, c
<1>11. x.distribution = IF p.workload = "D" THEN "latest" ELSE p.distribution
  <2>1. p.workload = w.type /\ p.distribution = OrDefault(k, "uniform")
    BY <1>2, <1>4, <1>6 DEF Plan, c
  <2>2. x.distribution = OrDefault(e.keyDistribution, "uniform")
    BY <1>3 DEF Executed
  <2>. QED
    BY <1>2, <1>3, <2>1, <2>2 DEF Switched, OrDefault
<1>12. ~skip /\ p.records >= 0 => x.records = p.records
  <2>1. p.records = IF e.recordCount = 0 THEN cfg.preload.documentCount ELSE e.recordCount
    BY <1>2, <1>4, <1>6 DEF Plan, c
  <2>. QED
    BY <1>3, <1>5, <2>1 DEF ExecutionConfig
<1>13. x.scan[1] = p.scan[1] /\ (p.scan[1] <= p.scan[2] => x.scan = p.scan)
  <2>1. ScanMin(c) = ScanMin(cfg) /\ ScanMax(c) = ScanMax(cfg)
    BY <1>4 DEF ScanMin, ScanMax
  <2>2. ScanMin(cfg) \in Int /\ ScanMax(cfg) \in Int
    BY <1>5 DEF ScanMin, ScanMax, WorkloadConfig
  <2>3. p.scan = <<ScanMin(cfg), ScanMax(cfg)>>
    BY <1>2, <2>1 DEF Plan, c
  <2>4. x.scan = <<ScanMin(cfg), IF ScanMax(cfg) > ScanMin(cfg) THEN ScanMax(cfg) ELSE ScanMin(cfg)>>
    BY <1>3 DEF Executed
  <2>. QED
    BY <2>2, <2>3, <2>4
<1>14. (w.type = "custom" /\ \A o \in Operations : w.custom[o] >= 0) => x.mix = p.mix
  <2>1. SUFFICES ASSUME w.type = "custom", \A o \in Operations : w.custom[o] >= 0
                 PROVE  x.mix = p.mix
    OBVIOUS
  <2>2. w.custom \in [Operations -> Int]
    BY <1>5 DEF WorkloadConfig
  <2>3. \A o \in Operations : w.custom[o] \in Nat
    BY <2>1, <2>2
  <2>4. w.custom \in [Operations -> Nat]
    BY <2>2, <2>3
  <2>5. Shares(w.custom) = w.custom
    BY <1>3, <2>1, <2>4, SharesAsConfigured
  <2>6. p.mix = w.custom
    BY <1>2, <1>4 DEF Plan, c
  <2>7. Percentages(w) = w.custom
    BY <2>1 DEF Percentages
  <2>8. x.mix = Shares(Percentages(w))
    BY <1>3 DEF Executed
  <2>. QED
    BY <2>5, <2>6, <2>7, <2>8
<1>. QED
  BY <1>7, <1>8, <1>9, <1>10, <1>11, <1>12, <1>13, <1>14 DEF PlanIsExecuted

THEOREM ExecutesThePlan == Spec => []PlanIsExecuted
<1>. QED
  BY PlanHolds, StartsSound, StaysSound, StartsPlanned, StaysPlanned, PTL DEF Spec

-----------------------------------------------------------------------------
(* Triggers: the multiples of a period.                                      *)

\* The triggers of a period after a time, up to another.
Multiples(p, a, b) == {t \in a + 1 .. b : t % p = 0}

\* Where a time lies between two multiples of a period.
LEMMA Quotient ==
    ASSUME NEW p \in Nat \ {0}, NEW t \in Int
    PROVE  /\ t \div p \in Int /\ t % p \in 0 .. p - 1
           /\ t = p * (t \div p) + (t % p)
OBVIOUS

\* A product is ordered like its factors.
LEMMA Monotone ==
    ASSUME NEW p \in Nat \ {0}, NEW u \in Int, NEW v \in Int
    PROVE  /\ u <= v <=> p * u <= p * v
           /\ u < v <=> p * u < p * v
           /\ p * u \in Int
           /\ p * (u + v) = p * u + p * v
           /\ p * (u - v) = p * u - p * v
OBVIOUS

LEMMA MultipleOf ==
    ASSUME NEW p \in Nat \ {0}, NEW u \in Int
    PROVE  (p * u) % p = 0 /\ (p * u) \div p = u
OBVIOUS

\* A whole number of periods later, as much is left.
LEMMA Shifted ==
    ASSUME NEW p \in Nat \ {0}, NEW x \in Int, NEW g \in Int
    PROVE  (x + p * g) % p = x % p
<1> DEFINE y == x + p * g
           qx == x \div p
           qy == y \div p
           rx == x % p
           ry == y % p
           u == (qy - qx) - g
<1>1. p * g \in Int /\ y \in Int
  BY Monotone
<1>2. /\ qx \in Int /\ qy \in Int /\ rx \in 0 .. p - 1 /\ ry \in 0 .. p - 1
      /\ x = p * qx + rx /\ y = p * qy + ry
  BY <1>1, Quotient
<1> HIDE DEF qx, qy, rx, ry
<1>3. u \in Int /\ p * u = (p * qy - p * qx) - p * g /\ p * qx \in Int /\ p * qy \in Int
  BY <1>2
<1> HIDE DEF u
<1>4. p * u = rx - ry
  BY <1>1, <1>2, <1>3
<1>5. p * u < p * 1 /\ p * (-1) < p * u
  BY <1>2, <1>4
<1>6. u < 1 /\ -1 < u
  BY <1>3, <1>5, Monotone
<1>7. u = 0
  BY <1>3, <1>6
<1>. QED
  BY <1>2, <1>4, <1>7 DEF rx, ry

\* Between two times there are as many triggers as their quotients are apart.
LEMMA CountOfMultiples ==
    ASSUME NEW p \in Nat \ {0}, NEW a \in Int, NEW b \in Int, a <= b
    PROVE  /\ IsFiniteSet(Multiples(p, a, b))
           /\ Cardinality(Multiples(p, a, b)) = (b \div p) - (a \div p)
<1> DEFINE lo == (a \div p) + 1
           hi == b \div p
           K == lo .. hi
           M == Multiples(p, a, b)
           f == [k \in K |-> p * k]
<1>1. /\ a \div p \in Int /\ b \div p \in Int /\ a % p \in 0 .. p - 1 /\ b % p \in 0 .. p - 1
      /\ a = p * (a \div p) + (a % p) /\ b = p * (b \div p) + (b % p)
  BY Quotient
<1>2. lo \in Int /\ hi \in Int
  BY <1>1
<1>3. p * lo = p * (a \div p) + p /\ p * lo \in Int /\ p * hi \in Int
  BY <1>1, <1>2
<1>4. a < p * lo /\ p * lo - p <= a /\ p * hi <= b /\ b < p * hi + p
  BY <1>1, <1>2, <1>3
<1> HIDE DEF lo, hi
<1>5. ASSUME NEW k \in K PROVE p * k \in M
  <2>1. k \in Int /\ lo <= k /\ k <= hi
    BY <1>2
  <2>2. p * lo <= p * k /\ p * k <= p * hi /\ p * k \in Int
    BY <1>2, <2>1, Monotone
  <2>3. (p * k) % p = 0
    BY <2>1, MultipleOf
  <2>. QED
    BY <1>3, <1>4, <2>2, <2>3 DEF Multiples
<1>6. ASSUME NEW t \in M PROVE \E k \in K : p * k = t
  <2>1. t \in Int /\ a < t /\ t <= b /\ t % p = 0
    BY DEF Multiples
  <2>2. t \div p \in Int /\ t = p * (t \div p)
    BY <2>1, Quotient
  <2> DEFINE k == t \div p
  <2>3. k \in Int /\ p * k = t
    BY <2>2
  <2> HIDE DEF k
  <2>4. p * k < p * hi + p /\ p * lo - p < p * k
    BY <1>3, <1>4, <2>1, <2>3
  <2>5. hi + 1 \in Int /\ p * (hi + 1) = p * hi + p /\ lo - 1 \in Int /\ p * (lo - 1) = p * lo - p
    BY <1>2
  <2>6. k < hi + 1 /\ lo - 1 < k
    BY <2>3, <2>4, <2>5, Monotone
  <2>7. k \in K
    BY <1>2, <2>3, <2>6
  <2>. QED
    BY <2>3, <2>7
<1>7. f \in Bijection(K, M)
  <2>1. \A k, j \in K : f[k] = f[j] => k = j
    <3> SUFFICES ASSUME NEW k \in K, NEW j \in K, p * k = p * j PROVE k = j
      OBVIOUS
    <3>1. k \in Int /\ j \in Int /\ p * k \in Int
      BY <1>2
    <3>2. ~(k < j) /\ ~(j < k)
      BY <3>1, Monotone
    <3>. QED
      BY <3>1, <3>2
  <2>2. f \in [K -> M]
    BY <1>5
  <2>3. \A t \in M : \E k \in K : f[k] = t
    BY <1>6
  <2> HIDE DEF f, K, M
  <2>. QED
    BY <2>1, <2>2, <2>3, Fun_IsBij
<1>8. IsFiniteSet(K) /\ Cardinality(K) = IF lo > hi THEN 0 ELSE hi - lo + 1
  BY <1>2, FS_Interval
<1> HIDE DEF K, M, f
<1>9. ExistsBijection(K, M)
  BY <1>7 DEF ExistsBijection
<1>10. IsFiniteSet(M) /\ Cardinality(M) = Cardinality(K)
  BY <1>8, <1>9, FS_Bijection
<1>11. lo <= hi + 1
  <2>1. p * lo - p < p * hi + p
    BY <1>2, <1>3, <1>4
  <2>2. lo - 1 \in Int /\ hi + 1 \in Int /\ p * (lo - 1) = p * lo - p /\ p * (hi + 1) = p * hi + p
    BY <1>2
  <2>3. lo - 1 < hi + 1
    BY <2>1, <2>2, Monotone
  <2>. QED
    BY <1>2, <2>3
<1>12. Cardinality(M) = hi - lo + 1
  BY <1>2, <1>8, <1>10, <1>11
<1>. QED
  BY <1>1, <1>2, <1>10, <1>12 DEF lo, hi, M

LEMMA NoMultiples ==
    ASSUME NEW p \in Nat \ {0}, NEW a \in Int, NEW b \in Int, b <= a
    PROVE  Multiples(p, a, b) = {}
BY DEF Multiples

\* Two spans of one length hold the same number of triggers, give or take one.
LEMMA SpansAlike ==
    ASSUME NEW p \in Nat \ {0}, NEW a \in Int, NEW b \in Int, NEW d \in Int
    PROVE  LET n == Cardinality(Multiples(p, a, b))
               m == Cardinality(Multiples(p, a + d, b + d)) IN
           /\ n \in Nat /\ m \in Nat
           /\ n \in m - 1 .. m + 1
           /\ d % p = 0 => n = m
<1> DEFINE c == a + d
           e == b + d
           n == Cardinality(Multiples(p, a, b))
           m == Cardinality(Multiples(p, c, e))
<1>1. c \in Int /\ e \in Int
  OBVIOUS
<1>2. CASE b <= a
  <2>1. e <= c
    BY <1>2
  <2>2. n = 0 /\ m = 0
    BY <1>1, <1>2, <2>1, NoMultiples, FS_EmptySet
  <2>. QED
    BY <2>2
<1>3. CASE a < b
  <2>1. a <= b /\ c <= e
    BY <1>3
  <2> DEFINE qa == a \div p
             qb == b \div p
             qc == c \div p
             qe == e \div p
  <2>2. n = qb - qa /\ IsFiniteSet(Multiples(p, a, b))
    BY <2>1, CountOfMultiples
  <2>3. m = qe - qc /\ IsFiniteSet(Multiples(p, c, e))
    BY <1>1, <2>1, CountOfMultiples
  <2>4. n \in Nat /\ m \in Nat
    BY <2>2, <2>3, FS_CardinalityType
  <2>5. /\ qa \in Int /\ qb \in Int /\ qc \in Int /\ qe \in Int
        /\ a = p * qa + (a % p) /\ a % p \in 0 .. p - 1
        /\ b = p * qb + (b % p) /\ b % p \in 0 .. p - 1
        /\ c = p * qc + (c % p) /\ c % p \in 0 .. p - 1
        /\ e = p * qe + (e % p) /\ e % p \in 0 .. p - 1
    BY <1>1, Quotient
  <2> DEFINE ra == a % p
             rb == b % p
             rc == c % p
             re == e % p
             u == (qb - qa) - (qe - qc)
  <2>6. u \in Int /\ p * u = (p * qb - p * qa) - (p * qe - p * qc)
    BY <2>5
  <2>7. b - a = e - c
    OBVIOUS
  <2> HIDE DEF qa, qb, qc, qe, u, c, e, n, m
  <2>8. p * u = (ra - rb) - (rc - re)
    <3>1. /\ p * qa \in Int /\ p * qb \in Int /\ p * qc \in Int /\ p * qe \in Int
          /\ ra \in Int /\ rb \in Int /\ rc \in Int /\ re \in Int
      BY <2>5, Monotone
    <3>2. /\ p * qa = a - ra /\ p * qb = b - rb /\ p * qc = c - rc /\ p * qe = e - re
      BY <1>1, <2>5, <3>1
    <3>3. p * u = ((b - rb) - (a - ra)) - ((e - re) - (c - rc))
      BY <2>6, <3>2
    <3> HIDE DEF ra, rb, rc, re
    <3>. QED
      BY ONLY <1>1, <2>7, <3>1, <3>3, a \in Int, b \in Int
  <2>9. p * u < p * 2 /\ p * (-2) < p * u
    BY <2>5, <2>6, <2>8
  <2>10. u < 2 /\ -2 < u
    BY <2>6, <2>9, Monotone
  <2>11. n - m = u
    BY <2>2, <2>3, <2>5 DEF u
  <2>12. n \in m - 1 .. m + 1
    BY <2>4, <2>6, <2>10, <2>11
  <2>13. ASSUME d % p = 0 PROVE n = m
    <3>1. d \div p \in Int /\ d = p * (d \div p)
      BY <2>13, Quotient
    <3>2. rc = ra /\ re = rb
      <4> DEFINE g == d \div p
      <4>1. g \in Int /\ c = a + p * g /\ e = b + p * g
        BY <3>1 DEF c, e
      <4> HIDE DEF g
      <4>. QED
        BY <4>1, Shifted
    <3>3. p * u = p * 0
      BY <2>5, <2>8, <3>2
    <3>4. ~(u < 0) /\ ~(0 < u)
      BY <2>6, <3>3, Monotone
    <3>. QED
      BY <2>4, <2>6, <2>11, <3>4
  <2>. QED
    BY <2>4, <2>12, <2>13 DEF n, m, c, e
<1>. QED
  BY <1>2, <1>3

\* The next trigger is the only one that comes after a time, up to itself.
LEMMA NextIsNext ==
    ASSUME NEW p \in Nat \ {0}, NEW t \in Int
    PROVE  LET n == NextTrigger(p, t) IN
           /\ n \in Int /\ t < n /\ n % p = 0
           /\ \A m \in Int : t < m /\ m % p = 0 => n <= m
<1> DEFINE q == t \div p
           r == t % p
           n == NextTrigger(p, t)
<1>1. q \in Int /\ r \in 0 .. p - 1 /\ t = p * q + r
  BY Quotient
<1> HIDE DEF q
<1>2. p * q \in Int /\ p * (q + 1) = p * q + p /\ q + 1 \in Int
  BY <1>1
<1>3. n = p * (q + 1)
  <2>1. n = (t - r) + p
    BY DEF NextTrigger
  <2> HIDE DEF r, n
  <2>. QED
    BY <1>1, <1>2, <2>1
<1> HIDE DEF r, n
<1>4. n \in Int /\ t < n /\ n % p = 0
  BY <1>1, <1>2, <1>3, MultipleOf
<1>5. ASSUME NEW m \in Int, t < m, m % p = 0 PROVE n <= m
  <2>1. m \div p \in Int /\ m = p * (m \div p)
    BY <1>5, Quotient
  <2> DEFINE k == m \div p
  <2>2. k \in Int /\ m = p * k
    BY <2>1
  <2> HIDE DEF k
  <2>3. p * q < p * k
    BY <1>1, <1>2, <1>5, <2>2
  <2>4. q < k
    BY <1>1, <2>2, <2>3, Monotone
  <2>5. q + 1 <= k
    BY <1>1, <2>2, <2>4
  <2>. QED
    BY <1>2, <1>3, <2>2, <2>5, Monotone
<1>. QED
  BY <1>4, <1>5 DEF n

LEMMA UpToNext ==
    ASSUME NEW p \in Nat \ {0}, NEW a \in Int, NEW t \in Int, a <= t
    PROVE  LET n == NextTrigger(p, t) IN
           Multiples(p, a, n) = Multiples(p, a, t) \cup {n}
<1> DEFINE n == NextTrigger(p, t)
<1>1. /\ n \in Int /\ t < n /\ n % p = 0
      /\ \A m \in Int : t < m /\ m % p = 0 => n <= m
  BY NextIsNext
<1> HIDE DEF n
<1>2. ASSUME NEW m \in Int PROVE m \in Multiples(p, a, n) <=> m \in Multiples(p, a, t) \cup {n}
  BY <1>1 DEF Multiples
<1>3. Multiples(p, a, n) \subseteq Int /\ Multiples(p, a, t) \cup {n} \subseteq Int
  BY <1>1 DEF Multiples
<1>. QED
  BY <1>2, <1>3 DEF n

-----------------------------------------------------------------------------
(* The schedule against its forecast.                                        *)

Period == cfg.schedule.cron.value
Bound == cfg.schedule.bounds

\* All triggers up to the last are fired, and it may be.
FiredUpTo(last) ==
    /\ fired \subseteq Multiples(Period, startedAt, last)
    /\ Multiples(Period, startedAt, last) \ {last} \subseteq fired

\* The cron was started, and the plan printed, before.
CronRuns ==
    /\ Parses(cfg.schedule.cron)
    /\ startedAt \in Nat /\ startedAt <= now
    /\ plan # None => plan.when <= startedAt
    /\ Bound.type = "timeWindow" => Bound.startAt.value <= startedAt

\* While the bound has not been found: every trigger so far has fired.
InCycle ==
    /\ CronRuns
    /\ fired = Multiples(Period, startedAt, now)
    /\ Bound.type = "runFor" => \A t \in fired : t <= Deadline
    /\ Bound.type = "timeWindow" => \A t \in fired : t <= Bound.stopAt.value
    /\ Bound.type = "maxRuns" =>
           /\ completed \in Nat /\ completed <= Bound.maxRuns
           /\ at # "waiting" => completed < Bound.maxRuns

\* Stopped: at the bound.
AtBound ==
    /\ CronRuns
    /\ CASE Bound.type = "maxRuns" -> completed = Bound.maxRuns
         [] Bound.type = "runFor" -> FiredUpTo(Deadline)
         [] Bound.type = "timeWindow" -> FiredUpTo(Bound.stopAt.value)
         [] OTHER -> FALSE

\* Inductive, beside IInv: the schedule is the file's, and what fired is every trigger
\* since it was started.
Forecasted ==
    /\ Parses(file.schedule.cron) => file.schedule.cron.value \in Nat \ {0}
    /\ now \in Nat
    /\ at = "shell" => fired = {} /\ completed = 0 /\ startedAt = 0
    /\ plan # None =>
           /\ plan.when \in Nat /\ plan.when <= now
           /\ at = "shell" \/ command = "schedule" =>
                  plan.forecast = Forecast(file.schedule, plan.when)
    /\ Started => command \in {"run", "schedule"}
    /\ at \in {"starting", "waiting", "stopped"} => command = "schedule"
    /\ command = "schedule" /\ Started =>
           /\ cfg.schedule = file.schedule /\ file.schedule.enabled
           /\ at = "starting" => fired = {} /\ completed = 0
           /\ at = "waiting" \/ at = "connect" \/ at \in Inside => InCycle
           /\ at = "stopped" => AtBound

\* The fields of a schedule that are counted with.
LEMMA ScheduleTypes ==
    ASSUME NEW c \in Config
    PROVE  LET b == c.schedule.bounds IN
           /\ c.schedule.cron.value \in Int /\ b.maxRuns \in Int /\ b.runFor.value \in Int
           /\ b.startAt.value \in Int /\ b.stopAt.value \in Int /\ b.zone \in Int
BY DEF Config, ScheduleConfig, BoundsConfig, Text

LEMMA SoundSchedule ==
    ASSUME IInv, Started, cfg.schedule.enabled
    PROVE  SchedulerSound(cfg)
BY DEF IInv, SoundOnceStarted, Sound

LEMMA StartsForecasted == Init => Forecasted
<1> SUFFICES ASSUME Init PROVE Forecasted
  OBVIOUS
<1>1. file \in Files /\ at = "shell" /\ now = 0 /\ plan = None /\ fired = {} /\ completed = 0
      /\ startedAt = 0
  BY DEF Init
<1>2. Parses(file.schedule.cron) => file.schedule.cron.value \in Nat \ {0}
  BY <1>1, PeriodAssumption
<1>. QED
  BY <1>1, <1>2 DEF Forecasted, Started

\* A step inside of a run, or out of one, that leaves the schedule alone.
LEMMA ForecastedAlone ==
    ASSUME Forecasted, Started, Started', cfg'.schedule = cfg.schedule,
           UNCHANGED <<file, command, plan, now, startedAt, completed, fired>>,
           \/ at' \in {"ended", "dead"}
           \/ at' = "waiting" /\ at # "starting" /\ command = "schedule"
           \/ at' \in Inside,
           at \in {"connect"} \cup Inside \/ at' \in {"ended", "dead"}
    PROVE  Forecasted'
<1>1. Deadline' = Deadline /\ Period' = Period /\ Bound' = Bound
  BY DEF Deadline, Period, Bound
<1>2. CronRuns => CronRuns'
  BY <1>1 DEF CronRuns
<1>3. command = "schedule" /\ at \in {"connect"} \cup Inside => InCycle
  BY DEF Forecasted
<1>4. InCycle /\ at # "waiting" => InCycle'
  BY <1>1, <1>2 DEF InCycle
<1>5. command = "schedule" /\ at \in {"connect"} \cup Inside => InCycle'
  BY <1>3, <1>4 DEF Inside
<1>6. at' \notin {"starting", "stopped", "shell"} /\ (at' = "waiting" => command = "schedule")
  BY DEF Inside
<1>7. at' \in {"ended", "dead"} => ~(at' = "waiting" \/ at' = "connect" \/ at' \in Inside)
  BY DEF Inside
<1>8. command = "schedule" => cfg.schedule = file.schedule /\ file.schedule.enabled
  BY DEF Forecasted
<1>9. command \in {"run", "schedule"}
  BY DEF Forecasted
<1>10. /\ Parses(file.schedule.cron) => file.schedule.cron.value \in Nat \ {0}
       /\ now \in Nat
       /\ plan # None => plan.when \in Nat /\ plan.when <= now
       /\ plan # None /\ command = "schedule" => plan.forecast = Forecast(file.schedule, plan.when)
  BY DEF Forecasted
<1>. QED
  BY <1>5, <1>6, <1>7, <1>8, <1>9, <1>10 DEF Forecasted

\* The triggers that had fired by now are those before a bound that the next one reaches.
LEMMA FiredAtBound ==
    ASSUME InCycle, now \in Nat, Period \in Nat \ {0}, NEW last \in Int, last <= Due,
           \A t \in fired : t <= last
    PROVE  FiredUpTo(last)
<1>1. startedAt \in Nat /\ fired = Multiples(Period, startedAt, now)
  BY DEF InCycle, CronRuns
<1>2. Due = NextTrigger(Period, now)
  BY DEF Due, Period
<1>3. \A m \in Int : now < m /\ m % Period = 0 => Due <= m
  BY <1>2, NextIsNext
<1>4. Due \in Int
  BY <1>2, NextIsNext
<1>5. fired \subseteq Multiples(Period, startedAt, last)
  BY <1>1 DEF Multiples
<1>6. ASSUME NEW m \in Multiples(Period, startedAt, last), m # last PROVE m \in fired
  <2>1. m \in Int /\ startedAt < m /\ m < last /\ m % Period = 0
    BY <1>1, <1>6 DEF Multiples
  <2>2. m <= now
    BY <1>3, <1>4, <2>1
  <2>. QED
    BY <1>1, <2>1, <2>2 DEF Multiples
<1>. QED
  BY <1>5, <1>6 DEF FiredUpTo

\* The expression parses, the duration and the times too: the schedule starts at startAt
\* or at once, and nothing has fired.
LEMMA SchedulerStarts ==
    ASSUME Forecasted, IInv, StartScheduler
    PROVE  Forecasted'
<1> DEFINE b == cfg.schedule.bounds
           opens == IF b.type = "timeWindow" /\ Parses(b.startAt) /\ b.startAt.value > now
                      THEN b.startAt.value ELSE now
           causes == IF b.type = "runFor" /\ b.runFor.text = "garbage" THEN {"runFor"}
                     ELSE IF b.type = "timeWindow" /\ b.startAt.text = "garbage" THEN {"startAt"}
                     ELSE When(~Parses(cfg.schedule.cron), "cron")
<1>1. /\ at = "starting" /\ Started /\ now' = opens /\ startedAt' = opens
      /\ UNCHANGED <<completed, fired, session>>
      /\ \/ at' = "waiting" /\ causes = {}
         \/ at' = "ended"
  BY Zenon DEF StartScheduler, FailLate, Started
<1>2. UNCHANGED <<file, cfg, plan, command>>
  BY <1>1 DEF session
<1>3. /\ now \in Nat /\ command = "schedule" /\ cfg.schedule = file.schedule
      /\ file.schedule.enabled /\ fired = {} /\ completed = 0
      /\ Parses(file.schedule.cron) => file.schedule.cron.value \in Nat \ {0}
      /\ plan # None => /\ plan.when \in Nat /\ plan.when <= now
                        /\ plan.forecast = Forecast(file.schedule, plan.when)
  BY <1>1 DEF Forecasted
<1>4. b.maxRuns \in Int /\ b.startAt.value \in Int
  BY ScheduleTypes DEF IInv
<1>5. opens \in Nat /\ now <= opens
  BY <1>3, <1>4
<1>6. SchedulerSound(cfg)
  BY <1>1, <1>3, SoundSchedule
<1>7. b.type = "timeWindow" => b.startAt.value <= opens
  <2>1. b.type = "timeWindow" => Parses(b.startAt)
    BY <1>3, <1>6 DEF SchedulerSound, WindowOpens
  <2>. QED
    BY <1>3, <1>4, <2>1
<1>8. b.type = "maxRuns" => 0 <= b.maxRuns
  BY <1>3, <1>4, <1>6 DEF SchedulerSound
<1> HIDE DEF opens
<1>9. CASE at' = "ended"
  BY <1>1, <1>2, <1>3, <1>5, <1>9 DEF Forecasted, Inside
<1>10. CASE at' = "waiting" /\ causes = {}
  <2>1. Parses(cfg.schedule.cron)
    BY <1>10 DEF When
  <2> HIDE DEF causes
  <2>2. Period \in Nat \ {0}
    BY <1>3, <2>1 DEF Period
  <2>3. Multiples(Period, opens, opens) = {}
    BY <1>5, <2>2, NoMultiples
  <2>4. CronRuns'
    BY <1>1, <1>2, <1>3, <1>5, <1>7, <2>1 DEF CronRuns, Bound
  <2>5. Period' = Period /\ Bound' = b
    BY <1>2 DEF Period, Bound
  <2>6. fired' = Multiples(Period', startedAt', now')
    BY <1>1, <1>3, <2>3, <2>5
  <2>7. fired' = {} /\ completed' = 0
    BY <1>1, <1>3
  <2>8. InCycle'
    BY <1>8, <1>10, <2>4, <2>5, <2>6, <2>7 DEF InCycle
  <2>. QED
    BY <1>1, <1>2, <1>3, <1>5, <1>10, <2>8 DEF Forecasted, Inside
<1>. QED
  BY <1>1, <1>9, <1>10

\* What is known of a schedule that waits for its next trigger.
LEMMA Waiting ==
    ASSUME Forecasted, IInv, at = "waiting"
    PROVE  /\ Started /\ command = "schedule" /\ InCycle /\ now \in Nat
           /\ cfg.schedule = file.schedule /\ file.schedule.enabled
           /\ Period \in Nat \ {0} /\ cfg.schedule.cron.value = Period
           /\ Due \in Int /\ now < Due
           /\ Bound.maxRuns \in Int /\ Bound.runFor.value \in Int /\ Bound.stopAt.value \in Int
           /\ startedAt \in Nat /\ Deadline \in Int
<1>1. /\ Started /\ command = "schedule" /\ InCycle /\ now \in Nat
      /\ cfg.schedule = file.schedule /\ file.schedule.enabled
      /\ Parses(file.schedule.cron) => file.schedule.cron.value \in Nat \ {0}
  BY DEF Forecasted, Started
<1>2. Period \in Nat \ {0} /\ cfg.schedule.cron.value = Period /\ startedAt \in Nat
  BY <1>1 DEF InCycle, CronRuns, Period
<1>3. Due \in Int /\ now < Due
  BY <1>1, <1>2, NextIsNext DEF Due
<1>4. /\ Bound.maxRuns \in Int /\ Bound.runFor.value \in Int /\ Bound.stopAt.value \in Int
  BY ScheduleTypes DEF IInv, Bound
<1>5. Deadline \in Int
  BY <1>2, <1>4 DEF Deadline, Bound
<1>. QED
  BY <1>1, <1>2, <1>3, <1>4, <1>5

\* A trigger that comes fires, and all before it have.
LEMMA TriggerFires ==
    ASSUME Forecasted, IInv, TriggerRun
    PROVE  Forecasted'
<1>1. /\ at = "waiting" /\ at' = "connect" /\ now' = Due /\ fired' = fired \cup {Due}
      /\ Bound.type = "runFor" => Due <= Deadline
      /\ UNCHANGED <<file, cfg, plan, command, startedAt, completed>>
  BY DEF TriggerRun, Comes, session, progress, Bound
<1>2. \E lateRead \in BOOLEAN : ~BoundFound(lateRead)
  BY DEF TriggerRun
<1>3. /\ Started /\ command = "schedule" /\ InCycle /\ now \in Nat
      /\ cfg.schedule = file.schedule /\ file.schedule.enabled
      /\ Period \in Nat \ {0} /\ cfg.schedule.cron.value = Period
      /\ Due \in Int /\ now < Due
      /\ Bound.maxRuns \in Int /\ Bound.runFor.value \in Int /\ Bound.stopAt.value \in Int
      /\ startedAt \in Nat /\ Deadline \in Int
  BY <1>1, Waiting
<1>4. /\ Bound.type = "timeWindow" => ~(Due > Bound.stopAt.value)
      /\ Bound.type = "maxRuns" => ~(completed >= Bound.maxRuns)
  BY <1>2 DEF BoundFound, Bound
<1>5. /\ fired = Multiples(Period, startedAt, now) /\ startedAt <= now /\ CronRuns
      /\ Bound.type = "runFor" => \A t \in fired : t <= Deadline
      /\ Bound.type = "timeWindow" => \A t \in fired : t <= Bound.stopAt.value
      /\ Bound.type = "maxRuns" => completed \in Nat /\ completed <= Bound.maxRuns
  BY <1>3 DEF InCycle, CronRuns
<1>6. Due = NextTrigger(Period, now)
  BY DEF Due, Period
<1>7. fired' = Multiples(Period, startedAt, Due)
  BY <1>1, <1>3, <1>5, <1>6, UpToNext
<1>8. Period' = Period /\ Bound' = Bound /\ Deadline' = Deadline
  BY <1>1 DEF Period, Bound, Deadline
<1>9. /\ Bound.type = "runFor" => \A t \in fired' : t <= Deadline
      /\ Bound.type = "timeWindow" => \A t \in fired' : t <= Bound.stopAt.value
      /\ Bound.type = "maxRuns" => completed < Bound.maxRuns
  BY <1>1, <1>3, <1>4, <1>5
<1>10. CronRuns'
  BY <1>1, <1>3, <1>5, <1>8 DEF CronRuns
<1>11. fired' = Multiples(Period', startedAt', now')
  BY <1>1, <1>7, <1>8
<1>12. InCycle'
  BY <1>1, <1>5, <1>8, <1>9, <1>10, <1>11 DEF InCycle
<1>13. now' \in Nat /\ now <= now'
  BY <1>1, <1>3
<1>14. /\ Parses(file.schedule.cron) => file.schedule.cron.value \in Nat \ {0}
       /\ plan # None => /\ plan.when \in Nat /\ plan.when <= now
                         /\ plan.forecast = Forecast(file.schedule, plan.when)
  BY <1>3 DEF Forecasted
<1>15. plan # None => plan.when <= now'
  BY <1>3, <1>13, <1>14
<1>. QED
  BY <1>1, <1>3, <1>12, <1>13, <1>14, <1>15 DEF Forecasted

\* The bound is found at a trigger, or the context ends.
LEMMA BoundStops ==
    ASSUME Forecasted, IInv, TriggerStops \/ Expire
    PROVE  Forecasted'
<1>1. /\ at = "waiting" /\ at' = "stopped"
      /\ UNCHANGED <<file, cfg, plan, command, startedAt, completed, fired>>
  BY DEF TriggerStops, Expire, Comes, session, progress
<1>2. /\ Started /\ command = "schedule" /\ InCycle /\ now \in Nat
      /\ cfg.schedule = file.schedule /\ file.schedule.enabled
      /\ Period \in Nat \ {0} /\ cfg.schedule.cron.value = Period
      /\ Due \in Int /\ now < Due
      /\ Bound.maxRuns \in Int /\ Bound.runFor.value \in Int /\ Bound.stopAt.value \in Int
      /\ startedAt \in Nat /\ Deadline \in Int
  BY <1>1, Waiting
<1>3. now' \in Nat /\ now <= now'
  <2>1. now' = Due \/ now' = IF Deadline > now THEN Deadline ELSE now
    BY DEF TriggerStops, Comes, Expire
  <2>. QED
    BY <1>2, <2>1
<1>4. Period' = Period /\ Bound' = Bound /\ Deadline' = Deadline
  BY <1>1 DEF Period, Bound, Deadline
<1>5. CronRuns
  BY <1>2 DEF InCycle
<1>6. CronRuns'
  BY <1>1, <1>2, <1>3, <1>4, <1>5 DEF CronRuns
<1>7. ASSUME NEW last \in Int, FiredUpTo(last) PROVE FiredUpTo(last)'
  BY <1>1, <1>4, <1>7 DEF FiredUpTo
<1>8. AtBound'
  <2>1. CASE Expire
    <3>1. Bound.type = "runFor" /\ Deadline <= Due
      BY <2>1 DEF Expire, Bound
    <3>2. \A t \in fired : t <= Deadline
      BY <1>2, <3>1 DEF InCycle
    <3>3. FiredUpTo(Deadline)
      BY <1>2, <3>1, <3>2, FiredAtBound
    <3>4. FiredUpTo(Deadline)'
      BY <1>2, <1>4, <1>7, <3>3
    <3>. QED
      BY <1>4, <1>6, <3>1, <3>4 DEF AtBound
  <2>2. CASE TriggerStops
    <3>1. \E lateRead \in BOOLEAN : BoundFound(lateRead)
      BY <2>2 DEF TriggerStops
    <3>2. \/ Bound.type = "timeWindow" /\ (Due > Bound.stopAt.value \/ Due = Bound.stopAt.value)
          \/ Bound.type = "maxRuns" /\ completed >= Bound.maxRuns
      BY <3>1 DEF BoundFound, Bound
    <3>3. CASE Bound.type = "timeWindow"
      <4>1. Bound.stopAt.value <= Due /\ \A t \in fired : t <= Bound.stopAt.value
        BY <1>2, <3>2, <3>3 DEF InCycle
      <4>2. FiredUpTo(Bound.stopAt.value)
        BY <1>2, <4>1, FiredAtBound
      <4>3. FiredUpTo(Bound.stopAt.value)'
        <5> DEFINE last == Bound.stopAt.value
        <5>1. last \in Int /\ last' = last
          BY <1>2, <1>4
        <5>2. FiredUpTo(last)
          BY <4>2
        <5> HIDE DEF last
        <5>3. FiredUpTo(last)'
          BY <1>1, <1>4, <5>1, <5>2 DEF FiredUpTo
        <5>. QED
          BY <5>3 DEF last
      <4>. QED
        BY <1>4, <1>6, <3>3, <4>3 DEF AtBound
    <3>4. CASE Bound.type = "maxRuns"
      <4>1. completed = Bound.maxRuns
        BY <1>2, <3>2, <3>4 DEF InCycle
      <4>. QED
        BY <1>1, <1>4, <1>6, <3>4, <4>1 DEF AtBound
    <3>. QED
      BY <3>2, <3>3, <3>4
  <2>. QED
    BY <2>1, <2>2
<1>9. /\ Parses(file.schedule.cron) => file.schedule.cron.value \in Nat \ {0}
      /\ plan # None => /\ plan.when \in Nat /\ plan.when <= now
                        /\ plan.forecast = Forecast(file.schedule, plan.when)
  BY <1>2 DEF Forecasted
<1>10. plan # None => plan.when <= now'
  BY <1>2, <1>3, <1>9
<1>. QED
  BY <1>1, <1>2, <1>3, <1>8, <1>9, <1>10 DEF Forecasted, Inside

LEMMA StaysForecasted == Forecasted /\ IInv /\ [Next]_vars => Forecasted'
<1> SUFFICES ASSUME Forecasted, IInv, [Next]_vars PROVE Forecasted'
  OBVIOUS
<1>0. /\ Parses(file.schedule.cron) => file.schedule.cron.value \in Nat \ {0}
      /\ now \in Nat /\ (plan # None => plan.when \in Nat /\ plan.when <= now)
      /\ at = "shell" => fired = {} /\ completed = 0 /\ startedAt = 0
      /\ plan # None /\ at = "shell" => plan.forecast = Forecast(file.schedule, plan.when)
  BY DEF Forecasted
<1>1. CASE TimePasses
  <2>1. /\ at = "shell" /\ at' = "shell" /\ now' = now + 1
        /\ UNCHANGED <<file, command, plan, startedAt, completed, fired>>
    BY <1>1 DEF TimePasses, session
  <2>2. now' \in Nat /\ (plan # None => plan.when <= now')
    BY <1>0, <2>1
  <2>. QED
    BY <1>0, <2>1, <2>2 DEF Forecasted, Started
<1>2. CASE DryRun \/ Run
  <2>1. /\ at = "shell" /\ UNCHANGED <<file, now, startedAt, completed, fired>>
        /\ at' = "shell" \/ at' = "rejected" \/ (at' = "connect" /\ command' = "run")
        /\ plan' = plan \/ (plan'.when = now /\ plan'.forecast = Forecast(file.schedule, now))
                        \/ (plan'.when = now /\ command' = "run" /\ at' # "shell")
    BY <1>2 DEF DryRun, Run, Printed, progress, cron
  <2>2. plan' # None => plan'.when \in Nat /\ plan'.when <= now
    BY <1>0, <2>1
  <2>3. CASE at' = "connect"
    BY <1>0, <2>1, <2>2, <2>3 DEF Forecasted, Started
  <2>4. CASE at' \in {"shell", "rejected"}
    <3>1. plan' # None => \/ plan'.forecast = Forecast(file.schedule, plan'.when)
                          \/ command' = "run" /\ at' # "shell"
      BY <1>0, <2>1
    <3>. QED
      BY <1>0, <2>1, <2>2, <2>4, <3>1 DEF Forecasted, Started
  <2>. QED
    BY <2>1, <2>3, <2>4
<1>3. CASE Schedule
  <2>1. /\ at = "shell" /\ command' = "schedule" /\ cfg' = file
        /\ UNCHANGED <<file, plan, now, startedAt, completed, fired>>
        /\ at' = "rejected" \/ (at' = "starting" /\ file.schedule.enabled)
    BY <1>3 DEF Schedule, progress, cron
  <2>. QED
    BY <1>0, <2>1 DEF Forecasted, Started, Inside
<1>4. CASE StartScheduler
  BY <1>4, SchedulerStarts
<1>5. CASE TriggerRun
  BY <1>5, TriggerFires
<1>6. CASE TriggerStops \/ Expire
  BY <1>6, BoundStops
<1>7. CASE Interrupt
  BY <1>7, ForecastedAlone DEF Interrupt, Started, session, progress, cron
<1>8. CASE \/ Connect \/ ClusterFails \/ Reuse \/ Prepare \/ CreateIndexes \/ WarmUp
          \/ BenchmarkFails
  <2>1. /\ at \in {"connect"} \cup Inside
        /\ UNCHANGED <<file, command, plan, cfg, now, startedAt, completed, fired>>
        /\ at' \in {"dead", AfterError} \cup Inside
    BY <1>8 DEF Connect, ClusterFails, Reuse, Prepare, CreateIndexes, WarmUp, BenchmarkFails, FailLate, session,
                progress, cron, Inside
  <2>2. command \in {"run", "schedule"} /\ Started
    BY <2>1 DEF Forecasted, Started, Inside
  <2>3. at' \in {"ended", "dead"} \/ (at' = "waiting" /\ command = "schedule") \/ at' \in Inside
    BY <2>1, <2>2 DEF AfterError
  <2>. QED
    BY <2>1, <2>2, <2>3, ForecastedAlone DEF Started, Inside
<1>9. CASE Build
  <2>1. /\ at = "build" /\ UNCHANGED <<file, command, plan, now, startedAt, completed, fired>>
        /\ at' \in {"warmup", AfterError}
        /\ cfg' \in {cfg, [cfg EXCEPT !.execution.keyDistribution = "latest"]}
    BY <1>9 DEF Build, FailLate, session, progress, cron
  <2>2. cfg'.schedule = cfg.schedule
    BY <2>1 DEF IInv, Config
  <2>3. command \in {"run", "schedule"} /\ Started
    BY <2>1 DEF Forecasted, Started
  <2>4. at' = "ended" \/ (at' = "waiting" /\ command = "schedule") \/ at' = "warmup"
    BY <2>1, <2>3 DEF AfterError
  <2>. QED
    BY <2>1, <2>2, <2>3, <2>4, ForecastedAlone DEF Started, Inside
<1>10. CASE Benchmark
  <2>1. /\ at = "benchmark" /\ UNCHANGED <<file, command, plan, cfg, now, startedAt, fired>>
        /\ at' = IF command = "run" THEN "ended" ELSE "waiting"
        /\ completed' = IF command = "run" THEN completed ELSE completed + 1
    BY <1>10 DEF Benchmark, session
  <2>2. command \in {"run", "schedule"} /\ Started
    BY <2>1 DEF Forecasted, Started
  <2>3. CASE command = "run"
    BY <2>1, <2>2, <2>3, ForecastedAlone DEF Started, Inside
  <2>4. CASE command = "schedule"
    <3>1. /\ InCycle /\ cfg.schedule = file.schedule /\ file.schedule.enabled
          /\ plan # None => plan.forecast = Forecast(file.schedule, plan.when)
      BY <2>1, <2>2, <2>4 DEF Forecasted, Inside
    <3>2. Period' = Period /\ Bound' = Bound /\ Deadline' = Deadline
      BY <2>1 DEF Period, Bound, Deadline
    <3>3. Bound.maxRuns \in Int
      BY ScheduleTypes DEF IInv, Bound
    <3>4. Bound.type = "maxRuns" => completed' \in Nat /\ completed' <= Bound.maxRuns
      BY <2>1, <2>4, <3>1, <3>3 DEF InCycle
    <3>5. CronRuns'
      BY <2>1, <3>1, <3>2 DEF InCycle, CronRuns
    <3>6. InCycle'
      BY <2>1, <2>4, <3>1, <3>2, <3>4, <3>5 DEF InCycle
    <3>. QED
      BY <1>0, <2>1, <2>2, <2>4, <3>1, <3>6 DEF Forecasted, Started, Inside
  <2>. QED
    BY <2>2, <2>3, <2>4
<1>11. CASE UNCHANGED vars
  <2>1. UNCHANGED <<file, cfg, command, plan, at, now, startedAt, completed, fired>>
    BY <1>11 DEF vars, session, progress, cron
  <2>2. Period' = Period /\ Bound' = Bound /\ Deadline' = Deadline
    BY <2>1 DEF Period, Bound, Deadline
  <2>3. (CronRuns => CronRuns') /\ \A t : FiredUpTo(t) => FiredUpTo(t)'
    BY <2>1, <2>2 DEF CronRuns, FiredUpTo
  <2>4. (InCycle => InCycle') /\ (AtBound => AtBound')
    BY <2>1, <2>2, <2>3 DEF InCycle, AtBound, FiredUpTo
  <2>. QED
    BY <2>1, <2>4 DEF Forecasted, Started
<1>12. CASE Terminating
  BY <1>11, <1>12 DEF Terminating
<1>. QED
  BY <1>1, <1>2, <1>3, <1>4, <1>5, <1>6, <1>7, <1>8, <1>9, <1>10, <1>11, <1>12 DEF Next

\* Counting in the zone of startAt is counting over a span moved by it.
LEMMA InZone ==
    ASSUME NEW p \in Nat \ {0}, NEW a \in Int, NEW b \in Int, NEW z \in Int
    PROVE  Cardinality({t \in a + 1 .. b : (t + z) % p = 0})
             = Cardinality(Multiples(p, a + z, b + z))
<1> DEFINE S == {t \in a + 1 .. b : (t + z) % p = 0}
           lo == a + 1
           M == Multiples(p, a + z, b + z)
           f == [t \in S |-> t + z]
<1>1. lo \in Int /\ S \subseteq lo .. b
  OBVIOUS
<1> HIDE DEF lo
<1>2. IsFiniteSet(lo .. b)
  BY <1>1, FS_Interval
<1>3. IsFiniteSet(S)
  BY <1>1, <1>2, FS_Subset
<1>4. f \in [S -> M]
  <2>1. \A t \in S : t + z \in M
    BY DEF Multiples
  <2>. QED
    BY <2>1
<1>5. \A t, u \in S : f[t] = f[u] => t = u
  OBVIOUS
<1>6. \A m \in M : \E t \in S : f[t] = m
  <2> SUFFICES ASSUME NEW m \in M PROVE \E t \in S : f[t] = m
    OBVIOUS
  <2>1. m \in Int /\ a + z + 1 <= m /\ m <= b + z /\ m % p = 0
    BY DEF Multiples
  <2>2. m - z \in a + 1 .. b /\ (m - z) + z = m
    BY <2>1
  <2>3. m - z \in S
    BY <2>1, <2>2
  <2>. QED
    BY <2>2, <2>3
<1> HIDE DEF f, S, M
<1>7. ExistsBijection(S, M)
  BY <1>4, <1>5, <1>6, Fun_IsBij DEF ExistsBijection
<1>8. Cardinality(M) = Cardinality(S)
  BY <1>3, <1>7, FS_Bijection
<1>. QED
  BY <1>8 DEF S, M

LEMMA MultiplesFinite ==
    ASSUME NEW p \in Nat \ {0}, NEW a \in Int, NEW b \in Int
    PROVE  IsFiniteSet(Multiples(p, a, b)) /\ Cardinality(Multiples(p, a, b)) \in Nat
<1>1. IsFiniteSet(Multiples(p, a, b))
  <2>1. CASE a <= b
    BY <2>1, CountOfMultiples
  <2>2. CASE b <= a
    BY <2>2, NoMultiples, FS_EmptySet
  <2>. QED
    BY <2>1, <2>2
<1>. QED
  BY <1>1, FS_CardinalityType

\* What fired up to a bound: all its triggers, less at most the one at the bound.
LEMMA HowManyFired ==
    ASSUME NEW last \in Int, FiredUpTo(last), Period \in Nat \ {0}, startedAt \in Nat
    PROVE  LET n == Cardinality(Multiples(Period, startedAt, last))
               edge == IF last % Period = 0 THEN 1 ELSE 0 IN
           /\ n \in Nat /\ IsFiniteSet(fired)
           /\ Cardinality(fired) \in n - edge .. n
<1> DEFINE M == Multiples(Period, startedAt, last)
           n == Cardinality(M)
<1>1. IsFiniteSet(M) /\ n \in Nat
  <2>1. startedAt \in Int
    OBVIOUS
  <2>. QED
    BY <2>1, MultiplesFinite
<1>2. fired \subseteq M /\ M \ {last} \subseteq fired
  BY DEF FiredUpTo
<1>3. last \in M => last % Period = 0
  BY DEF Multiples
<1> HIDE DEF M
<1>4. IsFiniteSet(fired) /\ Cardinality(fired) \in Nat /\ Cardinality(fired) <= n
  BY <1>1, <1>2, FS_Subset, FS_CardinalityType
<1>5. CASE fired = M
  BY <1>1, <1>4, <1>5 DEF M
<1>6. CASE fired # M
  <2>1. last \in M /\ fired = M \ {last}
    BY <1>2, <1>6
  <2>2. Cardinality(M \ {last}) = Cardinality(M) - 1
    BY <1>1, <2>1, FS_RemoveElement
  <2>3. Cardinality(fired) = n - 1 /\ last % Period = 0
    BY <1>3, <2>1, <2>2
  <2>. QED
    BY <1>1, <1>4, <2>3 DEF M
<1>. QED
  BY <1>5, <1>6

\* The triggers of a window are those that were over when the schedule was started, and
\* those from then on.
LEMMA OverAndAhead ==
    ASSUME NEW p \in Nat \ {0}, NEW a \in Int, NEW b \in Int, NEW s \in Int, a <= s
    PROVE  LET over == Cardinality({t \in a + 1 .. b : t % p = 0 /\ t <= s}) IN
           /\ over \in Nat
           /\ Cardinality(Multiples(p, a, b)) = over + Cardinality(Multiples(p, s, b))
<1> DEFINE O == {t \in a + 1 .. b : t % p = 0 /\ t <= s}
           A == Multiples(p, s, b)
           M == Multiples(p, a, b)
<1>1. M = O \cup A
  BY DEF Multiples
<1>2. O \cap A = {}
  BY DEF Multiples
<1>3. IsFiniteSet(A) /\ Cardinality(A) \in Nat /\ IsFiniteSet(M)
  BY MultiplesFinite
<1> HIDE DEF O, A, M
<1>4. IsFiniteSet(O) /\ Cardinality(O) \in Nat
  BY <1>1, <1>3, FS_Subset, FS_CardinalityType
<1>5. Cardinality(O \cup A) = Cardinality(O) + Cardinality(A) - Cardinality(O \cap A)
  BY <1>3, <1>4, FS_Union
<1>6. Cardinality(O \cap A) = 0
  BY <1>2, FS_EmptySet
<1>7. Cardinality(M) = Cardinality(O) + Cardinality(A)
  BY ONLY <1>1, <1>3, <1>4, <1>5, <1>6
<1>. QED
  BY <1>4, <1>7 DEF O, A, M

\* Every time that nextCronTriggers lists is a trigger.
LEMMA ListedAreTriggers ==
    ASSUME NEW p \in Nat \ {0}, NEW n \in Nat, NEW from \in Int,
           NEW t \in Triggers(p, n, from)
    PROVE  t \in Int /\ t % p = 0
<1>1. PICK k \in 0 .. n - 1 : t = NextTrigger(p, from) + k * p
  BY DEF Triggers
<1>2. NextTrigger(p, from) \in Int /\ NextTrigger(p, from) % p = 0
  BY NextIsNext
<1>3. k \in Int /\ k * p = p * k /\ p * k \in Int
  BY <1>1
<1> DEFINE x == NextTrigger(p, from)
<1> HIDE DEF x
<1>4. x \in Int /\ x % p = 0 /\ t = x + p * k
  BY <1>1, <1>2, <1>3 DEF x
<1>5. (x + p * k) % p = x % p
  BY <1>3, <1>4, Shifted
<1>. QED
  BY <1>4, <1>5

\* scheduler.go against cmd/dryrun.go, for all schedules and all times: what a schedule
\* that stopped for its bound has fired is what was foretold.
THEOREM ForecastHolds == Forecasted /\ IInv => ScheduleForetold
<1> SUFFICES ASSUME Forecasted, IInv, command = "schedule", at = "stopped", plan # None,
                    plan.forecast # NoForecast
             PROVE  ScheduleForetold
  BY DEF ScheduleForetold
<1> DEFINE s == cfg.schedule
           b == s.bounds
           p == s.cron.value
           f == plan.forecast
           trigger(t) == t % p = 0
           edge(t) == IF trigger(t) THEN 1 ELSE 0
           over == Cardinality({t \in b.startAt.value + 1 .. b.stopAt.value :
                                    trigger(t) /\ t <= startedAt})
           slack == IF b.zone % p = 0 THEN 0 ELSE 1
           when == plan.when
           foretold(k, less, more) ==
               /\ k >= f.estimate - less
               /\ f.estimate < TriggerLimit => k <= f.estimate + more
<1>1. /\ Started /\ AtBound /\ cfg.schedule = file.schedule /\ file.schedule.enabled
      /\ Parses(file.schedule.cron) => file.schedule.cron.value \in Nat \ {0}
      /\ f = Forecast(file.schedule, when) /\ when \in Nat
  BY DEF Forecasted, Started
<1>2. /\ Parses(s.cron) /\ startedAt \in Nat /\ when <= startedAt
      /\ b.type = "timeWindow" => b.startAt.value <= startedAt
  BY <1>1 DEF AtBound, CronRuns, Bound
<1>3. p \in Nat \ {0} /\ Period = p /\ Bound = b
  BY <1>1, <1>2 DEF Period, Bound
<1>4. /\ f.marked = [t \in Triggers(p, Shown, when) |-> Marker(b, t)]
      /\ f.estimate = Estimate(s, when)
  BY <1>1, <1>2 DEF Forecast
<1>5. /\ b.runFor.value \in Int /\ b.startAt.value \in Int /\ b.stopAt.value \in Int
      /\ b.zone \in Int
  BY ScheduleTypes DEF IInv
<1>6. CASE b.type = "maxRuns"
  <2>1. completed = b.maxRuns
    BY <1>1, <1>3, <1>6 DEF AtBound
  <2>2. f.estimate = b.maxRuns
    BY <1>4, <1>6 DEF Estimate
  <2>. QED
    BY <1>6, <2>1, <2>2 DEF ScheduleForetold
<1>7. CASE b.type = "runFor"
  <2> DEFINE R == b.runFor.value
             n == Cardinality(Multiples(p, startedAt, startedAt + R))
             m == Cardinality(Multiples(p, when, when + R))
  <2>1. Deadline = startedAt + R /\ Deadline \in Int
    BY <1>2, <1>5 DEF Deadline
  <2>2. FiredUpTo(Deadline)
    BY <1>1, <1>3, <1>7 DEF AtBound
  <2>3. n \in Nat /\ Cardinality(fired) \in n - edge(Deadline) .. n
    <3>1. /\ Cardinality(Multiples(Period, startedAt, Deadline)) \in Nat
          /\ Cardinality(fired) \in Cardinality(Multiples(Period, startedAt, Deadline))
                   - (IF Deadline % Period = 0 THEN 1 ELSE 0)
                 .. Cardinality(Multiples(Period, startedAt, Deadline))
      BY <1>2, <1>3, <2>1, <2>2, HowManyFired
    <3>. QED
      BY <1>3, <2>1, <3>1
  <2>4. f.estimate = IF m <= TriggerLimit THEN m ELSE TriggerLimit
    BY <1>4, <1>7 DEF Estimate, Counted, Multiples
  <2>5. m \in n - 1 .. n + 1 /\ m \in Nat
    <3> DEFINE d == startedAt - when
               e == when + R
    <3>1. d \in Int /\ e \in Int /\ when + d = startedAt /\ e + d = startedAt + R
      BY <1>1, <1>2, <1>5
    <3>2. m = Cardinality(Multiples(p, when, e)) /\ n = Cardinality(Multiples(p, when + d, e + d))
      BY <3>1
    <3> HIDE DEF d, e, m, n
    <3>3. when \in Int
      BY <1>1
    <3> HIDE DEF p, when
    <3>4. LET x == Cardinality(Multiples(p, when, e))
              y == Cardinality(Multiples(p, when + d, e + d)) IN
          /\ x \in Nat /\ y \in Nat /\ x \in y - 1 .. y + 1
      BY <1>3, <3>1, <3>3, SpansAlike
    <3>. QED
      BY <3>2, <3>4
  <2>6. startedAt = when => n = m
    OBVIOUS
  <2>7. edge(Deadline) \in {0, 1}
    OBVIOUS
  <2>10. TriggerLimit \in Nat
    BY TriggerLimitAssumption
  <2> HIDE DEF n, m, edge
  <2>11. f.estimate \in Nat /\ f.estimate <= m /\ (f.estimate < TriggerLimit => f.estimate = m)
    BY <2>4, <2>5, <2>10
  <2>12. Cardinality(fired) \in Int
    BY <2>3, <2>7
  <2> DEFINE c == Cardinality(fired)
             est == f.estimate
  <2> HIDE DEF c, est, f
  <2>8. foretold(c, 1 + edge(Deadline), 1)
    BY <2>3, <2>5, <2>7, <2>10, <2>11, <2>12 DEF c, est
  <2>9. startedAt = when => foretold(c, edge(Deadline), 0)
    BY <2>3, <2>5, <2>6, <2>7, <2>10, <2>11, <2>12 DEF c, est
  <2>. QED
    BY <1>7, <2>8, <2>9 DEF ScheduleForetold, edge, c, f
<1>8. CASE b.type = "timeWindow"
  <2> DEFINE A == b.startAt.value
             B == b.stopAt.value
             z == b.zone
             n == Cardinality(Multiples(p, startedAt, B))
             w == Cardinality(Multiples(p, A, B))
             m == Cardinality(Multiples(p, A + z, B + z))
  <2>1. FiredUpTo(B)
    BY <1>1, <1>3, <1>8 DEF AtBound
  <2>2. n \in Nat /\ Cardinality(fired) \in n - edge(B) .. n
    <3>1. /\ Cardinality(Multiples(Period, startedAt, B)) \in Nat
          /\ Cardinality(fired) \in Cardinality(Multiples(Period, startedAt, B))
                   - (IF B % Period = 0 THEN 1 ELSE 0)
                 .. Cardinality(Multiples(Period, startedAt, B))
      BY <1>2, <1>3, <1>5, <2>1, HowManyFired
    <3>. QED
      BY <1>3, <3>1
  <2>3. over \in Nat /\ w = over + n
    <3>1. A \in Int /\ B \in Int /\ startedAt \in Int /\ A <= startedAt
      BY <1>2, <1>5, <1>8
    <3>. QED
      BY <1>3, <3>1, OverAndAhead
  <2>4. f.estimate = IF m <= TriggerLimit THEN m ELSE TriggerLimit
    <3>1. f.estimate = Counted({t \in A + 1 .. B : (t + z) % p = 0})
      BY <1>4, <1>8 DEF Estimate
    <3>2. Cardinality({t \in A + 1 .. B : (t + z) % p = 0}) = m
      BY <1>3, <1>5, InZone
    <3>. QED
      BY <3>1, <3>2 DEF Counted
  <2>5. m \in Nat /\ w \in Nat /\ w \in m - 1 .. m + 1 /\ (z % p = 0 => w = m)
    BY <1>3, <1>5, SpansAlike
  <2>6. edge(B) \in {0, 1} /\ slack = IF z % p = 0 THEN 0 ELSE 1
    OBVIOUS
  <2>7. Cardinality(fired) \in Int
    BY <2>2, <2>6
  <2>8. foretold(Cardinality(fired) + over, edge(B) + slack, slack)
    <3>1. TriggerLimit \in Nat
      BY TriggerLimitAssumption
    <3> HIDE DEF n, w, m, over, edge, slack
    <3>2. f.estimate \in Nat /\ f.estimate <= m /\ (f.estimate < TriggerLimit => f.estimate = m)
      BY <2>4, <2>5, <3>1
    <3>3. slack \in {0, 1} /\ (slack = 0 => w = m)
      BY <2>5, <2>6
    <3>. QED
      BY <2>2, <2>3, <2>5, <2>6, <2>7, <3>1, <3>2, <3>3
  <2>9. ASSUME NEW t \in DOMAIN f.marked
        PROVE  /\ t \in fired => f.marked[t] = "inside"
               /\ (f.marked[t] = "inside" /\ t \notin fired) => t <= startedAt \/ t = B
    <3>1. t \in Triggers(p, Shown, when) /\ f.marked[t] = Marker(b, t)
      BY <1>4
    <3>2. t \in Int /\ t % p = 0
      BY <1>1, <1>3, <3>1, ListedAreTriggers DEF Shown
    <3>3. t \in fired => startedAt < t /\ t <= B
      BY <1>2, <1>3, <1>5, <2>1 DEF FiredUpTo, Multiples
    <3>4. t \notin fired => t <= startedAt \/ t = B \/ t > B
      BY <1>2, <1>3, <1>5, <2>1, <3>2 DEF FiredUpTo, Multiples
    <3>. QED
      BY <1>2, <1>5, <1>8, <3>1, <3>2, <3>3, <3>4 DEF Marker
  <2> HIDE DEF over, edge, slack, f
  <2>. QED
    BY <1>8, <2>8, <2>9 DEF ScheduleForetold, over, edge, slack, f
<1>9. b.type \in {"maxRuns", "runFor", "timeWindow"}
  BY <1>1, <1>3 DEF AtBound
<1>. QED
  BY <1>6, <1>7, <1>8, <1>9

THEOREM FiresAsForetold == Spec => []ScheduleForetold
<1>. QED
  BY ForecastHolds, StartsSound, StaysSound, StartsForecasted, StaysForecasted, PTL DEF Spec
=============================================================================
