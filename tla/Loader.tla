------------------------------- MODULE Loader -------------------------------
(***************************************************************************)
(* loader.Loader.Preload (internal/loader/loader.go): the collection is      *)
(* dropped and filled by threads that reserve the keys of a batch one by one *)
(* from a shared counter, insert the batch unordered, and acknowledge it.    *)
(* A thread that fails reports its error and stops; the others go on.        *)
(***************************************************************************)
EXTENDS Integers, FiniteSets

CONSTANTS
    PreloadThreads, \* phases.preload.threads
    BatchSize,      \* batchSize
    DocumentCount   \* phases.preload.documentCount

ASSUME LoaderAssumption ==
    /\ PreloadThreads \in Nat \ {0}
    /\ BatchSize \in Nat \ {0}
    /\ DocumentCount \in Nat \ {0}

VARIABLES
    docs,           \* the numbers of the keys in the collection
    preloadKey,     \* preloadGen.nextKey
    confirmed,      \* preloadGen.insertedDocs
    task,           \* each thread: where it is, what is left to insert, its batch
    errs            \* errors in errCh

loaderVars == <<docs, preloadKey, confirmed, task, errs>>

Tasks == 0 .. PreloadThreads - 1
Idle == [at |-> "ended", left |-> 0, batch |-> {}]

-----------------------------------------------------------------------------
\* What thread t has to insert; the last one gets the remainder.
TaskSize(t) ==
    DocumentCount \div PreloadThreads
      + IF t = PreloadThreads - 1 THEN DocumentCount % PreloadThreads ELSE 0

\* Mutant of ErrCapacity: room for the one error that is looked at.
ErrCapacityOne == 1

\* errCh is buffered: one error of each thread fits although nobody receives before
\* all threads are over.
ErrCapacity == PreloadThreads

LoaderInit ==
    /\ docs = {}
    /\ preloadKey = 0
    /\ confirmed = 0
    /\ task = [t \in Tasks |-> Idle]
    /\ errs = 0

\* The collection is dropped and the threads are started with a generator at 0.
DropAndSpawn ==
    /\ docs' = {}
    /\ preloadKey' = 0
    /\ confirmed' = 0
    /\ task' = [t \in Tasks |-> [at |-> "loop", left |-> TaskSize(t), batch |-> {}]]
    /\ errs' = 0

-----------------------------------------------------------------------------
BatchOf(t) == IF BatchSize > task[t].left THEN task[t].left ELSE BatchSize
BatchFull(t) == Cardinality(task[t].batch) = BatchOf(t)
InFlight(t) == task[t].at = "loop" /\ task[t].left > 0 /\ BatchFull(t)

\* Mutant of ReserveBatchKey: the counter is read and set in two steps, and another
\* thread's reservation is overwritten.
ReserveBatchKeyRacy(t) ==
    /\ task[t].at = "loop" /\ task[t].left > 0 /\ ~BatchFull(t)
    /\ task' = [task EXCEPT ![t].batch = @ \cup {preloadKey}]
    /\ preloadKey' \in {preloadKey, preloadKey + 1}
    /\ UNCHANGED <<docs, confirmed, errs>>

\* One turn of the loop that builds a batch.
ReserveBatchKey(t) ==
    /\ task[t].at = "loop" /\ task[t].left > 0 /\ ~BatchFull(t)
    /\ task' = [task EXCEPT ![t].batch = @ \cup {preloadKey}]
    /\ preloadKey' = preloadKey + 1
    /\ UNCHANGED <<docs, confirmed, errs>>

\* InsertMany succeeds and every insert of the batch is acknowledged.
InsertBatch(t) ==
    /\ InFlight(t)
    /\ docs' = docs \cup task[t].batch
    /\ confirmed' = confirmed + BatchOf(t)
    /\ task' = [task EXCEPT ![t].left = @ - BatchOf(t), ![t].batch = {}]
    /\ UNCHANGED <<preloadKey, errs>>

\* InsertMany is unordered: it fails with any part of the batch inserted.
InsertBatchFails(t) ==
    /\ InFlight(t)
    /\ \E stored \in SUBSET task[t].batch : docs' = docs \cup stored
    /\ task' = [task EXCEPT ![t].at = "failed"]
    /\ UNCHANGED <<preloadKey, confirmed, errs>>

\* errCh <- err
ReportError(t) ==
    /\ task[t].at = "failed"
    /\ errs < ErrCapacity
    /\ errs' = errs + 1
    /\ task' = [task EXCEPT ![t] = Idle]
    /\ UNCHANGED <<docs, preloadKey, confirmed>>

EndTask(t) ==
    /\ task[t].at = "loop" /\ task[t].left = 0
    /\ task' = [task EXCEPT ![t] = Idle]
    /\ UNCHANGED <<docs, preloadKey, confirmed, errs>>

LoadStep(t) ==
    \/ ReserveBatchKey(t) \/ InsertBatch(t) \/ InsertBatchFails(t)
    \/ ReportError(t) \/ EndTask(t)

\* Mutant of Loaded: the threads are not waited for.
LoadedEarly == \E t \in Tasks : task[t].at = "ended"

\* workerWg.Wait()
Loaded == \A t \in Tasks : task[t].at = "ended"
=============================================================================
