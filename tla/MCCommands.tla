---------------------------- MODULE MCCommands ----------------------------
(***************************************************************************)
(* Commands over the files that differ from a plain one in at most two        *)
(* sections: every variant of a section meets every variant of another.       *)
(***************************************************************************)
EXTENDS Commands

Base ==
    [connection |-> [given |-> {"uri", "database", "collection"}, malformed |-> FALSE,
                     readPreference |-> "", writeConcern |-> "majority"],
     workload |-> [type |-> "A", custom |-> [o \in Operations |-> 0], writeAllFields |-> FALSE,
                   scan |-> [minLength |-> 0, maxLength |-> 0, distribution |-> ""]],
     shape |-> [fieldCount |-> 10, arrays |-> FALSE, arraySize |-> 0],
     execution |-> [mode |-> "time", duration |-> Given(5), operationCount |-> 0, threads |-> 2,
                    targetOpsPerSec |-> 0, recordCount |-> 0, keyDistribution |-> "zipfian",
                    zipfianConstant |-> 0, insertOrdering |-> "",
                    rampup |-> [initialThreads |-> 0, maxThreads |-> 0, stepSize |-> 0,
                                stepDuration |-> Unset]],
     preload |-> [enabled |-> TRUE, skipIfExists |-> FALSE, documentCount |-> 5, threads |-> 2],
     warmup |-> [enabled |-> FALSE, duration |-> Unset],
     indexes |-> {},
     schedule |-> [enabled |-> FALSE, cron |-> Unset,
                   bounds |-> [type |-> "", runFor |-> Unset, maxRuns |-> 0,
                               startAt |-> Unset, stopAt |-> Unset, zone |-> 0]],
     results |-> [enabled |-> FALSE, uri |-> "", given |-> {}],
     sinks |-> [s \in Sinks |-> [enabled |-> s = "local", path |-> TRUE]]]

Exec == Base.execution
Ramp(first, most, step, text) ==
    [Exec EXCEPT !.mode = "rampup", !.duration = Unset, !.targetOpsPerSec = 7,
                 !.rampup = [initialThreads |-> first, maxThreads |-> most, stepSize |-> step,
                             stepDuration |-> text]]
Custom(p) == [Base.workload EXCEPT !.type = "custom", !.custom = [o \in Operations |-> IF o \in DOMAIN p THEN p[o] ELSE 0]]
Scan(least, most, dist) == [Base.workload EXCEPT !.type = "E", !.scan =
                               [minLength |-> least, maxLength |-> most, distribution |-> dist]]

\* The variants of each section.
Variants ==
    [connection |->
        {[Base.connection EXCEPT !.given = @ \ {"uri"}],
         [Base.connection EXCEPT !.malformed = TRUE],
         [Base.connection EXCEPT !.readPreference = "unknown"],
         [Base.connection EXCEPT !.writeConcern = "unknown"]},
     workload |->
        {[Base.workload EXCEPT !.type = t] : t \in {"C", "D", "F", "unknown"}}
          \cup {Custom([read |-> 60, update |-> 30, delete |-> 10]), Custom([read |-> 60, scan |-> 30]),
                Custom([read |-> -10, insert |-> 110])}
          \cup {Scan(3, 7, "zipfian"), Scan(7, 3, ""), Scan(-1, 0, ""), Scan(2000, 0, "")},
     shape |->
        {[Base.shape EXCEPT !.fieldCount = 0],
         [Base.shape EXCEPT !.arrays = TRUE, !.arraySize = -1]},
     execution |->
        {[Exec EXCEPT !.duration = Garbage], [Exec EXCEPT !.mode = "unknown"],
         [Exec EXCEPT !.threads = 0], [Exec EXCEPT !.targetOpsPerSec = 7],
         [Exec EXCEPT !.mode = "ops", !.operationCount = 7],
         [Exec EXCEPT !.mode = "ops", !.duration = Unset],
         [Exec EXCEPT !.keyDistribution = ""], [Exec EXCEPT !.recordCount = 9],
         [Exec EXCEPT !.recordCount = -1], [Exec EXCEPT !.zipfianConstant = 100],
         [Exec EXCEPT !.insertOrdering = "hashed"],
         Ramp(1, 4, 2, Given(1)), Ramp(1, 3, 2, Given(1)), Ramp(2, 2, 1, Given(1)),
         Ramp(1, 3, 0, Given(1)), Ramp(1, 3, 1, Garbage)},
     preload |->
        {[enabled |-> e, skipIfExists |-> x, documentCount |-> n, threads |-> t] :
             e \in BOOLEAN, x \in BOOLEAN, n \in {-3, 5}, t \in {0, 2}},
     warmup |-> {[enabled |-> TRUE, duration |-> d] : d \in {Unset, Given(1)}},
     indexes |->
        {{{[named |-> TRUE, type |-> "desc"], [named |-> TRUE, type |-> ""]}},
         {{[named |-> FALSE, type |-> "asc"]}}, {{[named |-> TRUE, type |-> "unknown"]}}},
     schedule |->
        LET s(c, b) == [enabled |-> TRUE, cron |-> c, bounds |-> b]
            none == Base.schedule.bounds
            window(from, to, z) == [none EXCEPT !.type = "timeWindow", !.startAt = from,
                                                !.stopAt = to, !.zone = z] IN
        {s(Given(3), [none EXCEPT !.type = "unlimited"]),
         s(Given(3), [none EXCEPT !.type = "runFor", !.runFor = Given(7)]),
         s(Given(3), [none EXCEPT !.type = "runFor", !.runFor = Given(6)]),
         s(Given(3), [none EXCEPT !.type = "runFor", !.runFor = Given(12)]),
         s(Given(3), [none EXCEPT !.type = "runFor", !.runFor = Given(-1)]),
         s(Given(3), [none EXCEPT !.type = "runFor", !.runFor = Garbage]),
         s(Given(3), [none EXCEPT !.type = "runFor", !.runFor = Given(7), !.maxRuns = 2]),
         s(Given(3), [none EXCEPT !.type = "maxRuns", !.maxRuns = 2]),
         s(Given(3), [none EXCEPT !.type = "maxRuns"]),
         s(Given(3), window(Given(-3), Given(9), 0)),
         s(Given(3), window(Given(3), Given(9), 0)), s(Given(3), window(Given(1), Given(8), 0)),
         s(Given(3), window(Given(3), Given(9), 1)), s(Given(3), window(Given(2), Given(9), -1)),
         s(Garbage, window(Given(4), Given(9), 0)), s(Unset, [none EXCEPT !.type = "unlimited"]),
         s(Given(3), window(Given(9), Given(9), 0)), s(Given(3), window(Garbage, Given(9), 0)),
         s(Given(3), window(Given(4), Unset, 0)), s(Given(3), [none EXCEPT !.type = "unknown"])},
     results |->
        {[enabled |-> TRUE, uri |-> u, given |-> {"database", "collection"}] :
             u \in {"", "placeholder", "real"}},
     sinks |->
        {[s \in Sinks |-> [enabled |-> s # "html", path |-> p]] : p \in BOOLEAN}]

Sections == DOMAIN Variants

MCFiles ==
    {Base} \cup UNION {{[Base EXCEPT ![s] = v] : v \in Variants[s]} : s \in Sections}
           \cup UNION {UNION {{[Base EXCEPT ![s] = v, ![u] = w] : v \in Variants[s], w \in Variants[u]} :
                                  u \in Sections \ {s}} : s \in Sections}

NoFlags == [given |-> {}, malformed |-> FALSE, workload |-> "", threads |-> 0, duration |-> Unset, ops |-> 0,
            skipPreload |-> FALSE]

MCFlagSets ==
    {NoFlags, [NoFlags EXCEPT !.skipPreload = TRUE],
     [NoFlags EXCEPT !.given = {"uri"}, !.workload = "C", !.threads = 3],
     [NoFlags EXCEPT !.duration = Garbage], [NoFlags EXCEPT !.duration = Given(2), !.ops = 4]}

MCDisks == {[s \in Sinks |-> d] : d \in {"missing", "unwritable"}}

\* A ramp-up with a target rate and hashed inserts.
HashedFile == {[Base EXCEPT !.execution = [Ramp(1, 3, 2, Given(1)) EXCEPT !.insertOrdering = "hashed"]]}
=============================================================================
