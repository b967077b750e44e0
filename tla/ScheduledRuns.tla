--------------------------- MODULE ScheduledRuns ---------------------------
(***************************************************************************)
(* The runs that a Scheduler starts, on the collection that they share: every *)
(* trigger makes a new orchestrator of the same configuration                 *)
(* (cmd/schedule.go), and nothing keeps a run from dropping, filling or       *)
(* inserting into the collection while another one is going on.               *)
(*                                                                         *)
(* A preload inserts its keys one by one here (Loader has the threads and     *)
(* the batches), and fails at a key that is there; a benchmark inserts from   *)
(* where its run took the keys to end, and deletes some (KeySpace has its     *)
(* operations).  The collection holds documents of this program only.         *)
(***************************************************************************)
EXTENDS Scheduler

CONSTANTS
    Setups,         \* how schedules are configured: the preload, or --skip-preload
    Left,           \* the collections that earlier commands may have left
    DocumentCount,  \* phases.preload.documentCount
    MaxKey          \* bound: keys

ASSUME ScheduledRunsAssumption ==
    /\ Setups \subseteq {"disabled", "fresh", "ifExists", "skipPreload"}
    /\ DocumentCount \in Nat \ {0}
    /\ MaxKey \in Nat /\ MaxKey >= DocumentCount
    /\ Left \subseteq SUBSET (0 .. MaxKey)

VARIABLES
    setup,      \* preload disabled, enabled, enabled with skipIfExists; --skip-preload
    docs,       \* the numbers of the keys in the collection
    at,         \* where the run of each slot is
    next,       \* the next key that it inserts; once "counted", the documents it counted
    overlapped, \* history: another run was going on during this one
    misjudged,  \* history: the run took a number of documents for the end of the keys,
                \* and there was a key at or above it
    hurt        \* history: the keys that a run preloaded were not all there, or were
                \* dropped under it, or it inserted a key that was there already

runVars == <<setup, docs, at, next, overlapped, misjudged, hurt>>
allVars == <<vars, runVars>>

Highest == CHOOSE k \in docs : \A j \in docs : j <= k

RunsInit ==
    /\ Init
    /\ setup \in Setups
    /\ docs \in Left
    /\ at = [s \in Slots |-> "none"]
    /\ next = [s \in Slots |-> 0]
    /\ overlapped = [s \in Slots |-> FALSE]
    /\ misjudged = [s \in Slots |-> FALSE]
    /\ hurt = [s \in Slots |-> FALSE]

-----------------------------------------------------------------------------
\* The run of a slot is at a stage of orchestrator.Run, and goes on to another one.
Leaves(s, stage) == job[s] = "running" /\ at[s] = stage /\ UNCHANGED <<vars, setup, overlapped>>
Enters(s, stage) == at' = [at EXCEPT ![s] = stage]

\* A trigger finds its bound not reached: a new orchestrator.
BeginRun(s) ==
    /\ StartRun(s)
    /\ Enters(s, "starting")
    /\ overlapped' = [t \in Slots |-> IF t = s THEN Running # {} ELSE overlapped[t] \/ t \in Running]
    /\ UNCHANGED <<setup, docs, next, misjudged, hurt>>

\* EstimatedDocumentCount: with --skip-preload, and for skipIfExists.
CountDocuments(s) ==
    /\ Leaves(s, "starting") /\ setup \in {"ifExists", "skipPreload"}
    /\ next' = [next EXCEPT ![s] = Cardinality(docs)]
    /\ Enters(s, "counted")
    /\ UNCHANGED <<docs, misjudged, hurt>>

\* Mutant of HighestKey: where the configuration says that the keys end.
HighestKeyConfigured(s) ==
    /\ Leaves(s, "counted") /\ setup = "skipPreload"
    /\ next' = [next EXCEPT ![s] = DocumentCount]
    /\ Enters(s, "benchmark")
    /\ UNCHANGED <<docs, misjudged, hurt>>

\* --skip-preload: nothing was counted, or no key is left to aggregate, or one more than
\* the highest key.
HighestKey(s) ==
    /\ Leaves(s, "counted") /\ setup = "skipPreload"
    /\ next' = [next EXCEPT ![s] = IF @ = 0 \/ docs = {} THEN @ ELSE Highest + 1]
    /\ Enters(s, "benchmark")
    /\ UNCHANGED <<docs, misjudged, hurt>>

\* A number of documents stands for the end of the keys.
TakesForEnd(s, n) ==
    /\ next' = [next EXCEPT ![s] = n]
    /\ misjudged' = [misjudged EXCEPT ![s] = \E k \in docs : k >= n]
    /\ Enters(s, "benchmark")
    /\ UNCHANGED <<docs, hurt>>

\* --skip-preload: the aggregation, or the decoding of its result, fails.
FallBackToCount(s) ==
    /\ Leaves(s, "counted") /\ setup = "skipPreload"
    /\ next[s] > 0
    /\ TakesForEnd(s, next[s])

\* Preload returns at once, because it is disabled or the count was not 0; the run
\* goes on with the number of documents that it would have preloaded.
KeepCollection(s) ==
    /\ \/ Leaves(s, "starting") /\ setup = "disabled"
       \/ Leaves(s, "counted") /\ setup = "ifExists" /\ next[s] > 0
    /\ TakesForEnd(s, DocumentCount)

\* Preload drops the collection, also under the other runs.
Drop(s) ==
    /\ \/ Leaves(s, "starting") /\ setup = "fresh"
       \/ Leaves(s, "counted") /\ setup = "ifExists" /\ next[s] = 0
    /\ docs' = {}
    /\ hurt' = [t \in Slots |-> hurt[t] \/ (t \in Running \ {s} /\ at[t] \in {"preloading", "benchmark"})]
    /\ Enters(s, "preloading")
    /\ UNCHANGED <<next, misjudged>>

LoadKey(s, k) ==
    /\ Leaves(s, "preloading")
    /\ next[s] = k /\ k < DocumentCount
    /\ k \notin docs
    /\ docs' = docs \cup {k}
    /\ next' = [next EXCEPT ![s] = k + 1]
    /\ UNCHANGED <<at, misjudged, hurt>>

\* The indexes are made; the benchmark addresses the keys below documentCount.
Preloaded(s) ==
    /\ Leaves(s, "preloading")
    /\ next[s] = DocumentCount
    /\ hurt' = [hurt EXCEPT ![s] = @ \/ ~(0 .. DocumentCount - 1 \subseteq docs)]
    /\ Enters(s, "benchmark")
    /\ UNCHANGED <<docs, next, misjudged>>

\* An insert of the benchmark; a duplicate key is an error of the operation.
InsertKey(s) ==
    /\ Leaves(s, "benchmark")
    /\ next[s] <= MaxKey
    /\ docs' = docs \cup {next[s]}
    /\ next' = [next EXCEPT ![s] = @ + 1]
    /\ hurt' = [hurt EXCEPT ![s] = @ \/ next[s] \in docs]
    /\ UNCHANGED <<at, misjudged>>

\* A delete of the benchmark, of a key that it takes to be there.
DeleteKey(s) ==
    /\ Leaves(s, "benchmark")
    /\ \E k \in docs : k < next[s] /\ docs' = docs \ {k}
    /\ UNCHANGED <<at, next, misjudged, hurt>>

Forget(slots) ==
    /\ at' = [s \in Slots |-> IF s \in slots THEN "none" ELSE at[s]]
    /\ next' = [s \in Slots |-> IF s \in slots THEN 0 ELSE next[s]]
    /\ overlapped' = [s \in Slots |-> s \notin slots /\ overlapped[s]]
    /\ misjudged' = [s \in Slots |-> s \notin slots /\ misjudged[s]]
    /\ hurt' = [s \in Slots |-> s \notin slots /\ hurt[s]]
    /\ UNCHANGED <<setup, docs>>

\* Run returns its result after the benchmark, or an error before it ends.
RunSucceeds(s) ==
    /\ at[s] = "benchmark"
    /\ Succeed(s)
    /\ Forget({s})

RunFails(s) == Fail(s) /\ Forget({s})

ExitAll == Exit /\ Forget(Slots)

-----------------------------------------------------------------------------
\* What the Scheduler does without a run.
Alone(action) == action /\ UNCHANGED runVars

RunStep(s) ==
    \/ CountDocuments(s) \/ HighestKey(s) \/ FallBackToCount(s) \/ KeepCollection(s)
    \/ Drop(s) \/ (\E k \in 0 .. DocumentCount - 1 : LoadKey(s, k)) \/ Preloaded(s)
    \/ InsertKey(s) \/ DeleteKey(s)

NextOfRuns ==
    \/ Alone(Start) \/ Alone(WindowWaited) \/ Alone(TimePasses) \/ Alone(Expire) \/ Alone(Return)
    \/ ExitAll
    \/ \E s \in Slots :
          \/ Alone(Fire(s)) \/ Alone(StopAtBound(s))
          \/ BeginRun(s) \/ RunStep(s) \/ RunSucceeds(s) \/ RunFails(s)
    \/ Alone(Terminating)

RunsSpec == RunsInit /\ [][NextOfRuns]_allVars

\* Time passes, the cron keeps firing, goroutines are scheduled and runs end; and what
\* runs try again and again succeeds, in one run or another.
RunsFairness ==
    /\ WF_allVars(Alone(Start \/ WindowWaited \/ Return) \/ ExitAll)
    /\ WF_allVars(Alone(TimePasses)) /\ WF_allVars(Alone(Expire))
    /\ WF_allVars(\E s \in Slots : Alone(Fire(s)))
    /\ \A s \in Slots :
           WF_allVars(Alone(StopAtBound(s)) \/ BeginRun(s) \/ RunSucceeds(s) \/ RunFails(s))
    /\ SF_allVars(\E s \in Slots : CountDocuments(s))
    /\ SF_allVars(\E s \in Slots : HighestKey(s) \/ FallBackToCount(s) \/ KeepCollection(s) \/ Drop(s))
    /\ \A k \in 0 .. DocumentCount - 1 : SF_allVars(\E s \in Slots : LoadKey(s, k))
    /\ SF_allVars(\E s \in Slots : Preloaded(s))
    /\ SF_allVars(\E s \in Slots : RunSucceeds(s))

FairRunsSpec == RunsSpec /\ RunsFairness

-----------------------------------------------------------------------------
\* loader.go:28-50, orchestrator.go:72-113: a run that no other one overlaps finds the
\* keys it preloaded, inserts none that is there already, and its collection is not
\* dropped - however the runs before it ended, and whatever they deleted - unless it
\* started from a number of documents (the configured one after a preload that was
\* disabled or skipped, or the estimate) and there was a key at or above that number.
OnlyOverlapHurts == \A s \in Slots : hurt[s] => overlapped[s] \/ misjudged[s]

\* README.md:496: "N runs successfully completed": when maxRuns ends the schedule, and
\* the process with it, no run is cut off but one that others overlapped.
NoneCutOff ==
    (bound = "maxRuns" /\ Returned) => \A s \in Running : overlapped[s]

\* The bound ends the schedule: it returns once its window is closed, its duration is
\* over, or its runs are completed (at the trigger after the last one).  Not so with
\* maxRuns when runs that preload overlap: they may fail each other for ever.
BoundEnds ==
    (/\ bound # "unlimited"
     /\ (bound = "maxRuns" /\ setup = "fresh") => [](Cardinality(Running) <= 1))
    => <>Returned
=============================================================================
