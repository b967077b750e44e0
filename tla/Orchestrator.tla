---------------------------- MODULE Orchestrator ----------------------------
(***************************************************************************)
(* orchestrator.Orchestrator.Run (internal/orchestrator/orchestrator.go)     *)
(* over the collection that successive runs share: how a run determines the  *)
(* key its inserts start from - from the preload it did, from the preload it *)
(* was configured with, or from the highest key in the collection.  The      *)
(* benchmark itself is what it does to the collection: it inserts keys from  *)
(* startingCount on, some of them lost, and deletes (KeySpace models it).    *)
(*                                                                         *)
(* One run at a time; the command is called again, or the schedule fires     *)
(* again, with the collection the last run left.                             *)
(***************************************************************************)
EXTENDS Loader

CONSTANTS
    Setups,         \* how the runs considered are configured
    MaxRuns,        \* bound: runs
    MaxKey          \* bound: keys

ASSUME OrchestratorAssumption ==
    /\ Setups \subseteq {"disabled", "fresh", "ifExists", "skipPreload"}
    /\ MaxRuns \in Nat \ {0}
    /\ MaxKey \in Nat /\ MaxKey >= DocumentCount

VARIABLES
    phase,          \* where the run is; "idle" between runs
    setup,          \* preload disabled, enabled, enabled with skipIfExists; --skip-preload
    startingCount,  \* startingCount
    nextKey,        \* gen.nextKey
    runs,           \* history: runs begun
    origin          \* history: what startingCount was determined from

runVars == <<phase, setup, startingCount, nextKey, runs, origin>>
vars == <<loaderVars, runVars>>

Highest == CHOOSE k \in docs : \A j \in docs : j <= k

-----------------------------------------------------------------------------
Init ==
    /\ LoaderInit
    /\ phase = "idle"
    /\ setup \in Setups
    /\ startingCount = 0
    /\ nextKey = 0
    /\ runs = 0
    /\ origin = "none"

Begin ==
    /\ phase = "idle"
    /\ runs < MaxRuns
    /\ setup' \in Setups
    /\ phase' = "starting"
    /\ runs' = runs + 1
    /\ origin' = "none"
    /\ UNCHANGED <<loaderVars, startingCount, nextKey>>

\* The generator of the benchmark is created.
StartBenchmark(count) ==
    /\ phase' = "benchmark"
    /\ startingCount' = count
    /\ nextKey' = count
    /\ UNCHANGED <<loaderVars, setup, runs>>

\* Mutant of HighestKey: start at the number of documents.
HighestKeyCount ==
    /\ phase = "starting" /\ setup = "skipPreload"
    /\ StartBenchmark(Cardinality(docs))
    /\ origin' = "highest"

\* --skip-preload: one more than the highest key, or 0 in an empty collection.
HighestKey ==
    /\ phase = "starting" /\ setup = "skipPreload"
    /\ StartBenchmark(IF docs = {} THEN 0 ELSE Highest + 1)
    /\ origin' = "highest"

\* The aggregation fails: the number of documents instead.
FallBackToCount ==
    /\ phase = "starting" /\ setup = "skipPreload"
    /\ docs # {}
    /\ StartBenchmark(Cardinality(docs))
    /\ origin' = "count"

\* Preload returns at once: it is disabled, or the collection has documents.
SkipPreload ==
    /\ phase = "starting"
    /\ setup = "disabled" \/ (setup = "ifExists" /\ docs # {})
    /\ phase' = "indexes"
    /\ origin' = "configured"
    /\ UNCHANGED <<loaderVars, setup, startingCount, nextKey, runs>>

BeginPreload ==
    /\ phase = "starting"
    /\ setup = "fresh" \/ (setup = "ifExists" /\ docs = {})
    /\ DropAndSpawn
    /\ phase' = "preloading"
    /\ UNCHANGED <<setup, startingCount, nextKey, runs, origin>>

Preload(t) ==
    /\ phase = "preloading"
    /\ LoadStep(t)
    /\ UNCHANGED runVars

\* Mutant of PreloadSucceeds: the errors are not looked at.
PreloadSucceedsRegardless ==
    /\ phase = "preloading" /\ Loaded
    /\ phase' = "indexes"
    /\ origin' = "preload"
    /\ UNCHANGED <<loaderVars, setup, startingCount, nextKey, runs>>

PreloadSucceeds ==
    /\ phase = "preloading" /\ Loaded
    /\ errs = 0
    /\ phase' = "indexes"
    /\ origin' = "preload"
    /\ UNCHANGED <<loaderVars, setup, startingCount, nextKey, runs>>

PreloadFails ==
    /\ phase = "preloading" /\ Loaded
    /\ errs > 0
    /\ phase' = "idle"
    /\ UNCHANGED <<loaderVars, setup, startingCount, nextKey, runs, origin>>

\* The indexes are created; the benchmark starts at the configured documentCount.
IndexesCreated ==
    /\ phase = "indexes"
    /\ StartBenchmark(DocumentCount)
    /\ UNCHANGED origin

\* A count, the drop or an index fails: Run returns the error.
SetupFails ==
    /\ phase \in {"starting", "indexes"}
    /\ phase' = "idle"
    /\ UNCHANGED <<loaderVars, setup, startingCount, nextKey, runs, origin>>

-----------------------------------------------------------------------------
\* An insert reaches the collection, unless its key is there already.
BenchmarkInsert ==
    /\ phase = "benchmark"
    /\ nextKey <= MaxKey
    /\ nextKey' = nextKey + 1
    /\ docs' = docs \cup {nextKey}
    /\ UNCHANGED <<preloadKey, confirmed, task, errs, phase, setup, startingCount, runs, origin>>

\* An insert fails: its key is never used again in this run.
BenchmarkInsertFails ==
    /\ phase = "benchmark"
    /\ nextKey <= MaxKey
    /\ nextKey' = nextKey + 1
    /\ UNCHANGED <<loaderVars, phase, setup, startingCount, runs, origin>>

BenchmarkDelete ==
    /\ phase = "benchmark"
    /\ \E k \in docs : docs' = docs \ {k}
    /\ UNCHANGED <<preloadKey, confirmed, task, errs, runVars>>

EndRun ==
    /\ phase = "benchmark"
    /\ phase' = "idle"
    /\ UNCHANGED <<loaderVars, setup, startingCount, nextKey, runs, origin>>

\* The process is killed, at any point: no handler, nothing is undone, and a batch that
\* was being inserted may still be stored in part.
Kill ==
    /\ phase # "idle"
    /\ \E stored \in SUBSET UNION {task[t].batch : t \in {u \in Tasks : InFlight(u)}} :
           docs' = docs \cup stored
    /\ task' = [t \in Tasks |-> Idle]
    /\ phase' = "idle"
    /\ UNCHANGED <<preloadKey, confirmed, errs, setup, startingCount, nextKey, runs, origin>>

Terminating == phase = "idle" /\ runs = MaxRuns /\ UNCHANGED vars

Next ==
    \/ Begin \/ HighestKey \/ FallBackToCount \/ SkipPreload
    \/ BeginPreload \/ PreloadSucceeds \/ PreloadFails \/ IndexesCreated \/ SetupFails
    \/ \E t \in Tasks : Preload(t)
    \/ BenchmarkInsert \/ BenchmarkInsertFails \/ BenchmarkDelete \/ EndRun
    \/ Kill
    \/ Terminating

Spec == Init /\ [][Next]_vars

\* Threads are scheduled, requests return, and Preload goes on when they are over.
FairSpec ==
    /\ Spec
    /\ \A t \in Tasks : WF_vars(Preload(t))
    /\ WF_vars(PreloadSucceeds \/ PreloadFails)

-----------------------------------------------------------------------------
\* Every variable has its type; preload threads are alive during the preload only.
TypeOK ==
    /\ docs \subseteq 0 .. MaxKey
    /\ preloadKey \in 0 .. DocumentCount
    /\ confirmed \in 0 .. DocumentCount
    /\ task \in [Tasks -> [at : {"loop", "failed", "ended"}, left : 0 .. DocumentCount,
                           batch : SUBSET (0 .. DocumentCount - 1)]]
    /\ errs \in 0 .. PreloadThreads
    /\ phase \in {"idle", "starting", "preloading", "indexes", "benchmark"}
    /\ setup \in Setups
    /\ startingCount \in 0 .. MaxKey + 1
    /\ nextKey \in startingCount .. MaxKey + 1
    /\ runs \in 0 .. MaxRuns
    /\ origin \in {"none", "configured", "preload", "highest", "count"}
    /\ phase # "preloading" => \A t \in Tasks : task[t] = Idle

\* loader.go:58-106: however the threads share the counter, and whichever batches
\* fail, a run goes on after its preload only with all the keys 0 .. documentCount-1.
PreloadExact ==
    (phase = "indexes" /\ origin = "preload") =>
        /\ docs = 0 .. DocumentCount - 1
        /\ confirmed = DocumentCount /\ preloadKey = DocumentCount

\* loader.go:120-126: no two batches share a key, and none holds a key that is in the
\* collection, so that no preload fails with a duplicate key of its own.
BatchesDisjoint ==
    \A t \in Tasks : task[t].at = "loop" =>
        /\ task[t].batch \cap docs = {}
        /\ \A u \in Tasks \ {t} : task[t].batch \cap task[u].batch = {}

\* orchestrator.go:476-479: after a preload, and after earlier runs inserted, lost and
\* deleted keys, no key that the benchmark has yet to insert is in the collection.
NoInsertCollides ==
    (phase = "benchmark" /\ origin \in {"preload", "highest"}) => \A k \in docs : k < nextKey

\* loader.go:97-104: a preload returns, also when every one of its threads fails.
PreloadReturns == phase = "preloading" ~> phase # "preloading"
=============================================================================
