--------------------------- MODULE Configuration ---------------------------
(***************************************************************************)
(* The configuration of a benchmark as pure operators: what Validate          *)
(* (internal/config/validator.go) lets through, what the flags of "run"       *)
(* change (cmd/run.go), the defaults, the plan that is printed                *)
(* (cmd/dryrun.go), and what the pool, the generator, the selector and the    *)
(* scheduler make of the same fields.                                         *)
(*                                                                         *)
(* Durations and timestamps are numbers of minutes behind a text that may be  *)
(* missing or unparsable; a cron expression fires every so many minutes.      *)
(* Percentages are whole numbers, and so are constants in hundredths.         *)
(***************************************************************************)
EXTENDS Integers, Sequences, FiniteSets

CONSTANT TriggerLimit   \* how many triggers an estimate looks at: 10000

ASSUME TriggerLimitAssumption == TriggerLimit \in Nat \ {0}

Text == [text : {"unset", "garbage", "given"}, value : Int]
Unset == [text |-> "unset", value |-> 0]
Garbage == [text |-> "garbage", value |-> 0]
Given(v) == [text |-> "given", value |-> v]
Parses(t) == t.text = "given"

\* The names that a field may have; any other text is "unknown", and "" is not set.
Or(names) == names \cup {"", "unknown"}

ReadPreferences == {"primary", "primaryPreferred", "secondary", "secondaryPreferred", "nearest"}
WriteConcerns == {"majority", "w:1", "w1", "w:0", "w0"}
Standard == {"A", "B", "C", "D", "E", "F"}
Modes == {"time", "ops", "rampup"}
ScanDistributions == {"uniform", "zipfian"}
KeyDistributions == {"uniform", "zipfian", "latest", "sequential"}
InsertOrderings == {"ordered", "hashed"}
IndexTypes == {"asc", "desc", "text", "geo2dsphere"}
BoundTypes == {"unlimited", "runFor", "maxRuns", "timeWindow"}

Operations == {"read", "insert", "update", "delete", "scan", "readModifyWrite"}
Sinks == {"local", "html", "csv"}

ConnectionConfig ==
    [given : SUBSET {"uri", "database", "collection"},
     malformed : BOOLEAN,        \* the URI is there, but the driver does not parse it
     readPreference : Or(ReadPreferences), writeConcern : Or(WriteConcerns)]

WorkloadConfig ==
    [type : Or(Standard \cup {"custom"}), custom : [Operations -> Int],
     writeAllFields : BOOLEAN,
     scan : [minLength : Int, maxLength : Int, distribution : Or(ScanDistributions)]]

DocumentShapeConfig == [fieldCount : Int, arrays : BOOLEAN, arraySize : Int]

RampupConfig == [initialThreads : Int, maxThreads : Int, stepSize : Int, stepDuration : Text]

ExecutionConfig ==
    [mode : Or(Modes), duration : Text, operationCount : Int, threads : Int,
     targetOpsPerSec : Int, recordCount : Int, keyDistribution : Or(KeyDistributions),
     zipfianConstant : Int, insertOrdering : Or(InsertOrderings), rampup : RampupConfig]

PreloadConfig == [enabled : BOOLEAN, skipIfExists : BOOLEAN, documentCount : Int, threads : Int]
WarmupConfig == [enabled : BOOLEAN, duration : Text]
IndexField == [named : BOOLEAN, type : Or(IndexTypes)]

BoundsConfig ==
    [type : Or(BoundTypes), runFor : Text, maxRuns : Int, startAt : Text, stopAt : Text,
     zone : Int]

ScheduleConfig == [enabled : BOOLEAN, cron : Text, bounds : BoundsConfig]

MongoResultsConfig ==
    [enabled : BOOLEAN, uri : {"", "placeholder", "real"}, given : SUBSET {"database", "collection"}]

\* An index is the set of its fields; sinks are the local results, the HTML and the CSV.
Config ==
    [connection : ConnectionConfig, workload : WorkloadConfig, shape : DocumentShapeConfig,
     execution : ExecutionConfig, preload : PreloadConfig, warmup : WarmupConfig,
     indexes : SUBSET SUBSET IndexField, schedule : ScheduleConfig, results : MongoResultsConfig,
     sinks : [Sinks -> [enabled : BOOLEAN, path : BOOLEAN]]]

-----------------------------------------------------------------------------
(* The flags of "run": what each overrides, 0 and unset meaning not given.     *)

Flags ==
    [given : SUBSET {"uri", "database", "collection"}, malformed : BOOLEAN,
     workload : Or(Standard \cup {"custom"}),
     threads : Int, duration : Text, ops : Int, skipPreload : BOOLEAN]

Overridden(c, flags) ==
    [c EXCEPT !.connection.given = @ \cup flags.given,
              !.connection.malformed = IF "uri" \in flags.given THEN flags.malformed ELSE @,
              !.workload.type = IF flags.workload = "" THEN @ ELSE flags.workload,
              !.execution.threads = IF flags.threads > 0 THEN flags.threads ELSE @,
              !.execution.duration = IF flags.duration = Unset THEN @ ELSE flags.duration,
              !.execution.operationCount = IF flags.ops > 0 THEN flags.ops ELSE @,
              !.execution.mode = IF flags.ops > 0 THEN "ops"
                                 ELSE IF flags.duration # Unset THEN "time" ELSE @]

-----------------------------------------------------------------------------
(* Validate: the set of its errors, section by section.                        *)

When(cond, error) == IF cond THEN {error} ELSE {}

ConnectionErrors(c) ==
    ({"uri", "database", "collection"} \ c.connection.given)
      \cup When(c.connection.readPreference \notin ReadPreferences \cup {""}, "readPreference")

CustomTotal(w) == w["read"] + w["insert"] + w["update"] + w["delete"] + w["scan"] + w["readModifyWrite"]

WorkloadErrors(c) ==
    LET w == c.workload IN
    When(w.type \notin Standard \cup {"custom"}, "workload")
      \cup When(w.type = "custom" /\ CustomTotal(w.custom) # 100, "custom")
      \cup When(w.scan.minLength < 0, "minLength")
      \cup When(w.scan.maxLength > 0 /\ w.scan.maxLength < w.scan.minLength, "maxLength")
      \cup When(w.scan.distribution \notin ScanDistributions \cup {""}, "scanDistribution")

RampupErrors(r) ==
    When(r.initialThreads <= 0, "initialThreads")
      \cup When(r.maxThreads <= r.initialThreads, "maxThreads")
      \cup When(r.stepSize <= 0, "stepSize")
      \cup When(~Parses(r.stepDuration), "stepDuration")

KeyErrors(e) ==
    When(e.keyDistribution \notin KeyDistributions \cup {""}, "keyDistribution")
      \cup When(e.zipfianConstant # 0 /\ (e.zipfianConstant <= 0 \/ e.zipfianConstant >= 100),
                "zipfianConstant")
      \cup When(e.insertOrdering \notin InsertOrderings \cup {""}, "insertOrdering")

\* Mutant of ExecutionErrors: the duration is left to the pool.
ExecutionErrorsNoDuration(c) ==
    LET e == c.execution IN
    When(e.mode \notin Modes, "mode")
      \cup When(e.mode = "ops" /\ e.operationCount <= 0, "operationCount")
      \cup When(e.threads <= 0, "threads")
      \cup (IF e.mode = "rampup" THEN RampupErrors(e.rampup) ELSE {})
      \cup KeyErrors(e)

ExecutionErrors(c) ==
    LET e == c.execution IN
    When(e.mode \notin Modes, "mode")
      \cup When(e.mode = "time" /\ ~Parses(e.duration), "duration")
      \cup When(e.mode = "ops" /\ e.operationCount <= 0, "operationCount")
      \cup When(e.threads <= 0, "threads")
      \cup (IF e.mode = "rampup" THEN RampupErrors(e.rampup) ELSE {})
      \cup KeyErrors(e)

PreloadErrors(c) ==
    When(c.preload.enabled /\ c.preload.documentCount <= 0, "documentCount")
      \cup When(c.preload.enabled /\ c.preload.threads <= 0, "preloadThreads")

IndexErrors(c) ==
    LET parts == UNION c.indexes IN
    When(\E p \in parts : ~p.named, "indexField")
      \cup When(\E p \in parts : p.type \notin IndexTypes \cup {""}, "indexType")

\* The fields of the bounds that are set; each type allows its own.
SetFields(b) ==
    When(b.runFor # Unset, "runFor") \cup When(b.maxRuns # 0, "maxRuns")
      \cup When(b.startAt # Unset, "startAt") \cup When(b.stopAt # Unset, "stopAt")

OwnFields(type) ==
    CASE type = "runFor" -> {"runFor"}
      [] type = "maxRuns" -> {"maxRuns"}
      [] type = "timeWindow" -> {"startAt", "stopAt"}
      [] OTHER -> {}

WindowOpens(b) == Parses(b.startAt) /\ Parses(b.stopAt) /\ b.stopAt.value > b.startAt.value

BoundErrors(b) ==
    CASE b.type = "runFor" -> When(~Parses(b.runFor), "runFor")
      [] b.type = "maxRuns" -> When(b.maxRuns <= 0, "maxRuns")
      [] b.type = "timeWindow" -> When(~WindowOpens(b), "window")
      [] b.type = "unlimited" -> {}
      [] OTHER -> {"boundType"}

\* The cron expression must be there; whether it parses is not looked at.
ScheduleErrors(c) ==
    LET s == c.schedule IN
    IF ~s.enabled THEN {}
    ELSE When(s.cron = Unset, "cron")
           \cup BoundErrors(s.bounds)
           \cup (IF s.bounds.type \in BoundTypes
                   THEN SetFields(s.bounds) \ OwnFields(s.bounds.type) ELSE {})

ResultErrors(c) ==
    LET r == c.results IN
    IF ~r.enabled THEN {}
    ELSE When(r.uri # "real", "resultsUri") \cup ({"database", "collection"} \ r.given)

\* The state of the directories that the paths name.
Disk == [Sinks -> {"missing", "unwritable", "writable"}]

\* ensureWritableDir: a directory that is missing is created.  Done for every enabled
\* sink with a path, whatever the other errors are.
Created(c, disk) ==
    [s \in Sinks |-> IF c.sinks[s].enabled /\ c.sinks[s].path /\ disk[s] = "missing"
                       THEN "writable" ELSE disk[s]]

SinkErrors(c, disk) ==
    {s \in Sinks : c.sinks[s].enabled /\ (~c.sinks[s].path \/ disk[s] = "unwritable")}

Errors(c, disk) ==
    ConnectionErrors(c) \cup WorkloadErrors(c) \cup ExecutionErrors(c) \cup PreloadErrors(c)
      \cup IndexErrors(c) \cup ScheduleErrors(c) \cup ResultErrors(c) \cup SinkErrors(c, disk)

-----------------------------------------------------------------------------
(* What the modules that model the components assume of their constants.       *)

PoolSound(c) ==
    LET e == c.execution
        r == e.rampup IN
    /\ e.threads >= 1
    /\ CASE e.mode = "time" -> Parses(e.duration)
         [] e.mode = "ops" -> e.operationCount >= 1
         [] e.mode = "rampup" -> /\ 1 <= r.initialThreads /\ r.initialThreads < r.maxThreads
                                 /\ r.stepSize >= 1
                                 /\ Parses(r.stepDuration)
         [] OTHER -> FALSE

LoaderSound(c) == c.preload.enabled => c.preload.documentCount >= 1 /\ c.preload.threads >= 1

\* Next ends with the last threshold: there is one.
SelectorSound(c) ==
    \/ c.workload.type \in Standard
    \/ c.workload.type = "custom" /\ \E o \in Operations : c.workload.custom[o] > 0

SchedulerSound(c) ==
    LET b == c.schedule.bounds IN
    c.schedule.enabled =>
        CASE b.type = "unlimited" -> TRUE
          [] b.type = "runFor" -> Parses(b.runFor)
          [] b.type = "maxRuns" -> b.maxRuns >= 1
          [] b.type = "timeWindow" -> WindowOpens(b)
          [] OTHER -> FALSE

\* theta in (0, 1), once 0 is replaced by the default.
ZipfianConstant(e) == IF e.zipfianConstant = 0 THEN 99 ELSE e.zipfianConstant
GeneratorSound(c) == 0 < ZipfianConstant(c.execution) /\ ZipfianConstant(c.execution) < 100

SinksSound(c, disk) == \A s \in Sinks : c.sinks[s].enabled => c.sinks[s].path /\ disk[s] = "writable"

Sound(c, disk) ==
    /\ PoolSound(c) /\ LoaderSound(c) /\ SelectorSound(c) /\ SchedulerSound(c)
    /\ GeneratorSound(c) /\ SinksSound(c, disk)

-----------------------------------------------------------------------------
(* The workload selector: the percentages in the order of the thresholds.      *)

Order == <<"read", "insert", "update", "delete", "scan", "readModifyWrite">>

Mix(pairs) == [o \in Operations |-> IF o \in DOMAIN pairs THEN pairs[o] ELSE 0]

Percentages(w) ==
    CASE w.type = "custom" -> w.custom
      [] w.type = "A" -> Mix([read |-> 50, update |-> 50])
      [] w.type = "B" -> Mix([read |-> 95, update |-> 5])
      [] w.type = "C" -> Mix([read |-> 100])
      [] w.type = "D" -> Mix([read |-> 95, insert |-> 5])
      [] w.type = "E" -> Mix([scan |-> 95, insert |-> 5])
      [] w.type = "F" -> Mix([read |-> 50, readModifyWrite |-> 50])
      [] OTHER -> Mix(<<>>)

Positive(p) == {i \in 1 .. Len(Order) : p[Order[i]] > 0}

\* limits[i] is the sum of the positive percentages up to the i-th.
Limits(p) ==
    LET limits[i \in 0 .. Len(Order)] ==
            IF i = 0 THEN 0
            ELSE limits[i - 1] + (IF i \in Positive(p) THEN p[Order[i]] ELSE 0)
    IN  limits

\* Selector.Next: the first threshold above r, or else the last one.
Select(p, r) ==
    LET above == {i \in Positive(p) : r < Limits(p)[i]}
        first == CHOOSE i \in above : \A j \in above : i <= j
        last == CHOOSE i \in Positive(p) : \A j \in Positive(p) : j <= i
    IN  Order[IF above = {} THEN last ELSE first]

\* How often each operation is selected, of 100 values of r.
Shares(p) == [o \in Operations |-> Cardinality({r \in 0 .. 99 : Select(p, r) = o})]

-----------------------------------------------------------------------------
(* Defaults.                                                                   *)

ScanMin(c) == IF c.workload.scan.minLength <= 0 THEN 1 ELSE c.workload.scan.minLength
ScanMax(c) == IF c.workload.scan.maxLength <= 0 THEN 1000 ELSE c.workload.scan.maxLength
OrDefault(s, default) == IF s = "" THEN default ELSE s

\* The threads of the steps of a ramp-up.
Steps(r) == {n \in r.initialThreads .. r.maxThreads : (n - r.initialThreads) % r.stepSize = 0}
Largest(S) == CHOOSE n \in S : \A m \in S : m <= n

-----------------------------------------------------------------------------
(* Cron: the expression fires at the multiples of its period.                  *)

NextTrigger(period, t) == t - (t % period) + period

\* nextCronTriggers: the n next times after the given one.
Triggers(period, n, from) == {NextTrigger(period, from) + k * period : k \in 0 .. n - 1}

Shown == 5
Marker(b, t) ==
    IF b.type # "timeWindow" THEN ""
    ELSE IF t < b.startAt.value THEN "before"
    ELSE IF t > b.stopAt.value THEN "after" ELSE "inside"

\* nextCronTriggers is asked for so many triggers, and what comes after them is not counted.
Counted(times) ==
    LET n == Cardinality(times) IN IF n <= TriggerLimit THEN n ELSE TriggerLimit

\* Mutant of Estimate: the window's triggers are counted from now on.
EstimateFromNow(s, now) ==
    LET b == s.bounds
        upTo(from, deadline) == {t \in from + 1 .. deadline : t % s.cron.value = 0}
    IN  CASE b.type = "runFor" -> Counted(upTo(now, now + b.runFor.value))
          [] b.type = "maxRuns" -> b.maxRuns
          [] b.type = "timeWindow" -> Counted(upTo(now, b.stopAt.value))
          [] OTHER -> 0

\* The runs estimated: the triggers until the deadline, or from startAt to stopAt.  The
\* latter are counted from startAt, in the zone of startAt (zone minutes off the local one).
Estimate(s, now) ==
    LET b == s.bounds
        upTo(from, deadline) == {t \in from + 1 .. deadline : t % s.cron.value = 0}
    IN  CASE b.type = "runFor" -> Counted(upTo(now, now + b.runFor.value))
          [] b.type = "maxRuns" -> b.maxRuns
          [] b.type = "timeWindow" ->
                 Counted({t \in b.startAt.value + 1 .. b.stopAt.value :
                              (t + b.zone) % s.cron.value = 0})
          [] OTHER -> 0

-----------------------------------------------------------------------------
(* printConfigSummary: the plan, and what is executed of it.                   *)

NoForecast == [marked |-> <<>>, estimate |-> 0]

\* Nothing is printed of an expression that does not parse.
Forecast(s, now) ==
    IF ~s.enabled \/ ~Parses(s.cron) THEN NoForecast
    ELSE [marked |-> [t \in Triggers(s.cron.value, Shown, now) |-> Marker(s.bounds, t)],
          estimate |-> Estimate(s, now)]

Limit(e) ==
    CASE e.mode = "time" -> e.duration.value
      [] e.mode = "ops" -> e.operationCount
      [] OTHER -> e.rampup.stepDuration.value

Plan(c) ==
    LET e == c.execution IN
    [workload |-> c.workload.type,
     mix |-> c.workload.custom,
     scan |-> <<ScanMin(c), ScanMax(c)>>,
     scanDistribution |-> OrDefault(c.workload.scan.distribution, "uniform"),
     mode |-> e.mode,
     limit |-> Limit(e),
     threads |-> IF e.mode = "rampup" THEN <<e.rampup.initialThreads, e.rampup.maxThreads>>
                 ELSE <<e.threads, e.threads>>,
     rate |-> IF e.targetOpsPerSec > 0 THEN e.targetOpsPerSec ELSE 0,
     distribution |-> OrDefault(e.keyDistribution, "uniform"),
     records |-> IF e.recordCount = 0 THEN c.preload.documentCount ELSE e.recordCount,
     ordering |-> OrDefault(e.insertOrdering, "ordered")]

\* What NewSelector, NewPool, Pool.Run, doScan and datagen.New do with the same fields,
\* when the generator starts at count.  Scan lengths are uniform and keys are inserted in
\* the order of their numbers whatever is configured; a ramp-up has no limiter.
Executed(c, count) ==
    LET e == c.execution
        ramp == e.mode = "rampup" IN
    [workload |-> c.workload.type,
     mix |-> Shares(Percentages(c.workload)),
     scan |-> <<ScanMin(c), IF ScanMax(c) > ScanMin(c) THEN ScanMax(c) ELSE ScanMin(c)>>,
     scanDistribution |-> "uniform",
     mode |-> e.mode,
     limit |-> IF e.mode = "ops"
                 THEN (e.threads - 1) * (e.operationCount \div e.threads)
                        + (e.operationCount \div e.threads) + (e.operationCount % e.threads)
                 ELSE Limit(e),
     threads |-> IF ramp THEN <<e.rampup.initialThreads, Largest(Steps(e.rampup))>>
                 ELSE <<e.threads, e.threads>>,
     rate |-> IF e.targetOpsPerSec > 0 /\ ~ramp THEN e.targetOpsPerSec ELSE 0,
     distribution |-> OrDefault(e.keyDistribution, "uniform"),
     records |-> IF e.recordCount > 0 THEN e.recordCount ELSE count,
     ordering |-> "ordered"]
=============================================================================
