------------------------------ MODULE KeySpace ------------------------------
(***************************************************************************)
(* The key space of one benchmark run: the generator's atomic counters     *)
(* (internal/datagen/generator.go), the workers that reserve, confirm and  *)
(* address keys (internal/worker/worker.go), and the two pools that share  *)
(* one generator, the warm-up pool and the benchmark pool                  *)
(* (internal/orchestrator/orchestrator.go).                                *)
(*                                                                         *)
(* A document is its key number.  MongoDB is external: `coll` holds the    *)
(* keys present in the collection; a request the client gave up on may     *)
(* still be executed by the server afterwards.                             *)
(***************************************************************************)
EXTENDS Integers, FiniteSets

CONSTANTS
    Workers,        \* the goroutines of a pool (execution.threads)
    StartingCount,  \* startingCount of datagen.New
    RecordCount,    \* execution.recordCount, 0 when not configured
    Distribution,   \* execution.keyDistribution
    Warmup,         \* phases.warmup.enabled
    MaxKey,         \* bound: keys StartingCount .. MaxKey-1 may be reserved
    MaxSeq          \* bound: no sequential pick starts at seqCounter >= MaxSeq

ASSUME WorkersAssumption == IsFiniteSet(Workers)
ASSUME CountAssumption ==
    /\ StartingCount \in Nat
    /\ RecordCount \in Nat
    /\ MaxKey \in Nat
    /\ MaxSeq \in Nat
ASSUME ModeAssumption ==
    /\ Distribution \in {"uniform", "zipfian", "latest", "sequential"}
    /\ Warmup \in BOOLEAN

VARIABLES
    nextKey,       \* Generator.nextKey
    insertedDocs,  \* Generator.insertedDocs: keys 0..insertedDocs-1 are addressed
    seqCounter,    \* Generator.seqCounter
    pc,            \* where each worker is in Run / execute
    op,            \* the operation it is executing
    count,         \* the insertedDocs it loaded in NextExistingKey
    key,           \* the key it reserved or chose
    phase,         \* which pool is running
    ctxDone,       \* the pool's context is done (deadline or cancellation)
    parentDone,    \* the context given to Orchestrator.Run is done
    coll,          \* external: keys present in the collection
    lateInserts,   \* external: inserts the client gave up on, not executed yet
    lateDeletes,   \* external: deletes the client gave up on, not executed yet
    confirmed,     \* history: keys whose InsertOne returned nil
    lost           \* history: keys reserved whose insert was not confirmed

generator == <<nextKey, insertedDocs, seqCounter>>
locals    == <<pc, op, count, key>>
control   == <<phase, ctxDone, parentDone>>
server    == <<coll, lateInserts, lateDeletes>>
history   == <<confirmed, lost>>
vars      == <<generator, locals, control, server, history>>

\* What Selector.Next may return, whatever the percentages of the workload, beside
\* inserts: a worker may get any of them at any time.
Lookups == {"read", "update", "scan"}       \* one request, no key appears or goes
KeyedOps == Lookups \cup {"delete", "rmw"}  \* operations on an existing key

\* worker.go: "idle" is the top of the loop, "ready" is past the context check,
\* "counted" is inside NextExistingKey, "keyed", "updating" and "inserting" have
\* a request at the server, "ack" is between InsertOne and AcknowledgeInsert.
Places == {"idle", "ready", "counted", "keyed", "updating", "inserting", "ack", "stopped"}
Phases == {"warmup", "bench", "finished"}

None == "none"
NoKey == -1

Initial   == 0 .. StartingCount - 1
Reserving == {w \in Workers : pc[w] \in {"inserting", "ack"}}
InFlight  == {key[w] : w \in Reserving}
Acked     == confirmed \ {key[w] : w \in {v \in Workers : pc[v] = "ack"}}
AllStopped == \A w \in Workers : pc[w] = "stopped"

-----------------------------------------------------------------------------
Init ==
    /\ nextKey = StartingCount
    /\ insertedDocs = StartingCount
    /\ seqCounter = 0
    /\ pc = [w \in Workers |-> "idle"]
    /\ op = [w \in Workers |-> None]
    /\ count = [w \in Workers |-> 0]
    /\ key = [w \in Workers |-> NoKey]
    /\ phase = IF Warmup THEN "warmup" ELSE "bench"
    /\ ctxDone = FALSE
    /\ parentDone = FALSE
    /\ coll \in SUBSET Initial    \* deletes of an earlier run may have left gaps
    /\ lateInserts = {}
    /\ lateDeletes = {}
    /\ confirmed = {}
    /\ lost = {}

\* execute returned: its locals are gone, the worker is at `place`.
Return(w, place) ==
    /\ pc' = [pc EXCEPT ![w] = place]
    /\ op' = [op EXCEPT ![w] = None]
    /\ count' = [count EXCEPT ![w] = 0]
    /\ key' = [key EXCEPT ![w] = NoKey]

\* The loop of Run: leave when the context is done, otherwise go for an operation.
Proceed(w) ==
    /\ pc[w] = "idle"
    /\ ~ctxDone
    /\ pc' = [pc EXCEPT ![w] = "ready"]
    /\ UNCHANGED <<generator, op, count, key, control, server, history>>

Leave(w) ==
    /\ pc[w] = "idle"
    /\ ctxDone
    /\ pc' = [pc EXCEPT ![w] = "stopped"]
    /\ UNCHANGED <<generator, op, count, key, control, server, history>>

\* limiter.wait returned the context's error.
LimiterGivesUp(w) ==
    /\ pc[w] = "ready"
    /\ ctxDone
    /\ pc' = [pc EXCEPT ![w] = "stopped"]
    /\ UNCHANGED <<generator, op, count, key, control, server, history>>

-----------------------------------------------------------------------------
\* Mutant of Reserve: the result of nextKey.Add(1) is taken as the key.
ReserveOffByOne(w) ==
    /\ pc[w] = "ready"
    /\ nextKey < MaxKey
    /\ nextKey' = nextKey + 1
    /\ key' = [key EXCEPT ![w] = nextKey + 1]
    /\ pc' = [pc EXCEPT ![w] = "inserting"]
    /\ UNCHANGED <<insertedDocs, seqCounter, op, count, control, server, history>>

\* doInsert: ReserveInsertKey, one atomic add.
Reserve(w) ==
    /\ pc[w] = "ready"
    /\ nextKey < MaxKey
    /\ nextKey' = nextKey + 1
    /\ key' = [key EXCEPT ![w] = nextKey]
    /\ pc' = [pc EXCEPT ![w] = "inserting"]
    /\ UNCHANGED <<insertedDocs, seqCounter, op, count, control, server, history>>

\* Mutant of InsertConfirmed: AcknowledgeInsert is forgotten.
InsertUnacknowledged(w) ==
    /\ pc[w] = "inserting"
    /\ key[w] \notin coll
    /\ coll' = coll \cup {key[w]}
    /\ confirmed' = confirmed \cup {key[w]}
    /\ Return(w, "idle")
    /\ UNCHANGED <<generator, control, lateInserts, lateDeletes, lost>>

\* doInsert: InsertOne succeeded.
InsertConfirmed(w) ==
    /\ pc[w] = "inserting"
    /\ key[w] \notin coll
    /\ coll' = coll \cup {key[w]}
    /\ confirmed' = confirmed \cup {key[w]}
    /\ pc' = [pc EXCEPT ![w] = "ack"]
    /\ UNCHANGED <<generator, op, count, key, control, lateInserts, lateDeletes, lost>>

\* Mutant of InsertFailed: the insert is acknowledged whatever InsertOne returned.
FailedAcknowledged(w) ==
    /\ pc[w] = "inserting"
    /\ lost' = lost \cup {key[w]}
    /\ insertedDocs' = insertedDocs + 1
    /\ Return(w, "idle")
    /\ UNCHANGED <<nextKey, seqCounter, control, server, confirmed>>

\* doInsert: InsertOne failed (a duplicate key, a server or network error, the
\* context).  Only a context error ends the worker; any other one is recorded.
\* The server may have executed the request, may do it later, or never.
InsertFailed(w) ==
    /\ pc[w] = "inserting"
    /\ lost' = lost \cup {key[w]}
    /\ \/ UNCHANGED <<coll, lateInserts>>
       \/ coll' = coll \cup {key[w]} /\ UNCHANGED lateInserts
       \/ lateInserts' = lateInserts \cup {key[w]} /\ UNCHANGED coll
    /\ UNCHANGED lateDeletes
    /\ Return(w, "idle") \/ (ctxDone /\ Return(w, "stopped"))
    /\ UNCHANGED <<generator, control, confirmed>>

\* doInsert: AcknowledgeInsert, one atomic add, whichever key was inserted.
AcknowledgeInsert(w) ==
    /\ pc[w] = "ack"
    /\ insertedDocs' = insertedDocs + 1
    /\ Return(w, "idle")
    /\ UNCHANGED <<nextKey, seqCounter, control, server, history>>

-----------------------------------------------------------------------------
\* Mutant of LoadCount: the counter of the reserved keys is loaded.
LoadReserved(w) ==
    /\ pc[w] = "ready"
    /\ Distribution = "sequential" => seqCounter < MaxSeq
    /\ IF nextKey = 0
       THEN Return(w, "idle")
       ELSE /\ \E o \in KeyedOps : op' = [op EXCEPT ![w] = o]
            /\ count' = [count EXCEPT ![w] = nextKey]
            /\ pc' = [pc EXCEPT ![w] = "counted"]
            /\ UNCHANGED key
    /\ UNCHANGED <<generator, control, server, history>>

\* NextExistingKey loads insertedDocs once; "" ends the operation with nil.
LoadCount(w) ==
    /\ pc[w] = "ready"
    /\ Distribution = "sequential" => seqCounter < MaxSeq
    /\ IF insertedDocs = 0
       THEN Return(w, "idle")
       ELSE /\ \E o \in KeyedOps : op' = [op EXCEPT ![w] = o]
            /\ count' = [count EXCEPT ![w] = insertedDocs]
            /\ pc' = [pc EXCEPT ![w] = "counted"]
            /\ UNCHANGED key
    /\ UNCHANGED <<generator, control, server, history>>

\* recordCount of the generator: the configured value wins over startingCount.
EffectiveRecordCount == IF RecordCount > 0 THEN RecordCount ELSE StartingCount

Clamp(i, c) == IF i >= c THEN c - 1 ELSE i

\* Mutant of FromNewest: the newest of c keys is taken to be c.
FromNewestOffByOne(z, c) ==
    LET i == c - Clamp(z, c) IN IF i < 0 THEN 0 ELSE i

\* NextLatest: the offset counts down from the newest of c keys, and stops at 0.
FromNewest(z, c) ==
    LET i == c - 1 - Clamp(z, c) IN IF i < 0 THEN 0 ELSE i

\* The indexes the distribution may return for the c keys it was told of.  A
\* Zipfian draw is any number below the record count it was built for, and
\* without record count (so no Zipfian generator) the draw is uniform.
IndexChoices(c, n) ==
    CASE Distribution = "sequential" -> {n % c}
      [] Distribution = "zipfian" /\ EffectiveRecordCount > 0 ->
            {Clamp(z, c) : z \in 0 .. EffectiveRecordCount - 1}
      [] Distribution = "latest" /\ EffectiveRecordCount > 0 ->
            {FromNewest(z, c) : z \in 0 .. EffectiveRecordCount - 1}
      [] OTHER -> 0 .. c - 1

PickKey(w) ==
    /\ pc[w] = "counted"
    /\ \E i \in IndexChoices(count[w], seqCounter) : key' = [key EXCEPT ![w] = i]
    /\ seqCounter' = IF Distribution = "sequential" THEN seqCounter + 1 ELSE seqCounter
    /\ count' = [count EXCEPT ![w] = 0]
    /\ pc' = [pc EXCEPT ![w] = "keyed"]
    /\ UNCHANGED <<nextKey, insertedDocs, op, control, server, history>>

\* doRead, doUpdate, doScan: a missing document is not an error.
Lookup(w) ==
    /\ pc[w] = "keyed"
    /\ op[w] \in Lookups
    /\ Return(w, "idle")
    /\ UNCHANGED <<generator, control, server, history>>

\* doDelete: the generator is not told.
Delete(w) ==
    /\ pc[w] = "keyed"
    /\ op[w] = "delete"
    /\ coll' = coll \ {key[w]}
    /\ Return(w, "idle")
    /\ UNCHANGED <<generator, control, lateInserts, lateDeletes, history>>

\* doReadModifyWrite: FindOne; only a document that was found is updated, and
\* it may be gone by then.
ReadModify(w) ==
    /\ pc[w] = "keyed"
    /\ op[w] = "rmw"
    /\ IF key[w] \in coll
       THEN pc' = [pc EXCEPT ![w] = "updating"] /\ UNCHANGED <<op, count, key>>
       ELSE Return(w, "idle")
    /\ UNCHANGED <<generator, control, server, history>>

Write(w) ==
    /\ pc[w] = "updating"
    /\ Return(w, "idle")
    /\ UNCHANGED <<generator, control, server, history>>

\* A request on an existing key fails; a delete may still be executed later.
KeyedFailed(w) ==
    /\ pc[w] \in {"keyed", "updating"}
    /\ \/ UNCHANGED <<coll, lateDeletes>>
       \/ op[w] = "delete" /\ coll' = coll \ {key[w]} /\ UNCHANGED lateDeletes
       \/ op[w] = "delete" /\ lateDeletes' = lateDeletes \cup {key[w]} /\ UNCHANGED coll
    /\ UNCHANGED lateInserts
    /\ Return(w, "idle") \/ (ctxDone /\ Return(w, "stopped"))
    /\ UNCHANGED <<generator, control, history>>

-----------------------------------------------------------------------------
\* context.WithTimeout of the running pool expires.
Expire ==
    /\ phase # "finished"
    /\ ~ctxDone
    /\ ctxDone' = TRUE
    /\ UNCHANGED <<generator, locals, phase, parentDone, server, history>>

\* The scheduler's total duration expires: every derived context is done.
CancelParent ==
    /\ phase # "finished"
    /\ ~parentDone
    /\ parentDone' = TRUE
    /\ ctxDone' = TRUE
    /\ UNCHANGED <<generator, locals, phase, server, history>>

\* Mutant of StartBenchmark: a generator of its own, started at InsertedCount().
StartBenchmarkAtCount ==
    /\ phase = "warmup"
    /\ AllStopped
    /\ phase' = "bench"
    /\ ctxDone' = parentDone
    /\ pc' = [w \in Workers |-> "idle"]
    /\ nextKey' = insertedDocs
    /\ UNCHANGED <<insertedDocs, seqCounter, op, count, key, parentDone, server, history>>

\* Mutant of StartBenchmark: the benchmark's context is not derived from the run's.
StartBenchmarkDetached ==
    /\ phase = "warmup"
    /\ AllStopped
    /\ phase' = "bench"
    /\ ctxDone' = FALSE
    /\ pc' = [w \in Workers |-> "idle"]
    /\ UNCHANGED <<generator, op, count, key, parentDone, server, history>>

\* wg.Wait returned in the warm-up pool: the benchmark pool starts new workers
\* on the same generator.
StartBenchmark ==
    /\ phase = "warmup"
    /\ AllStopped
    /\ phase' = "bench"
    /\ ctxDone' = parentDone
    /\ pc' = [w \in Workers |-> "idle"]
    /\ UNCHANGED <<generator, op, count, key, parentDone, server, history>>

FinishBenchmark ==
    /\ phase = "bench"
    /\ AllStopped
    /\ phase' = "finished"
    /\ UNCHANGED <<generator, locals, ctxDone, parentDone, server, history>>

\* The server executes a request whose client is gone; an insert of a key that is
\* there fails.
ExecuteLateInsert(k) ==
    /\ k \in lateInserts
    /\ lateInserts' = lateInserts \ {k}
    /\ coll' = coll \cup {k}
    /\ UNCHANGED <<generator, locals, control, lateDeletes, history>>

ExecuteLateDelete(k) ==
    /\ k \in lateDeletes
    /\ lateDeletes' = lateDeletes \ {k}
    /\ coll' = coll \ {k}
    /\ UNCHANGED <<generator, locals, control, lateInserts, history>>

Terminating == phase = "finished" /\ UNCHANGED vars

WorkerStep(w) ==
    \/ Proceed(w) \/ Leave(w) \/ LimiterGivesUp(w)
    \/ Reserve(w) \/ InsertConfirmed(w) \/ InsertFailed(w) \/ AcknowledgeInsert(w)
    \/ LoadCount(w) \/ PickKey(w)
    \/ Lookup(w) \/ Delete(w) \/ ReadModify(w) \/ Write(w) \/ KeyedFailed(w)

Next ==
    \/ \E w \in Workers : WorkerStep(w)
    \/ Expire \/ CancelParent \/ StartBenchmark \/ FinishBenchmark
    \/ \E k \in lateInserts : ExecuteLateInsert(k)
    \/ \E k \in lateDeletes : ExecuteLateDelete(k)
    \/ Terminating

Spec == Init /\ [][Next]_vars

-----------------------------------------------------------------------------
\* Every variable has its type and each worker's locals fit its place: the
\* counters of the generator only count up from startingCount.
TypeOK ==
    /\ nextKey \in Nat /\ insertedDocs \in Nat /\ seqCounter \in Nat
    /\ nextKey >= StartingCount /\ insertedDocs >= StartingCount
    /\ pc \in [Workers -> Places]
    /\ op \in [Workers -> KeyedOps \cup {None}]
    /\ count \in [Workers -> Nat]
    /\ key \in [Workers -> Nat \cup {NoKey}]
    /\ \A w \in Workers : pc[w] = "counted" => count[w] > 0
    /\ \A w \in Workers : pc[w] \in {"keyed", "updating", "inserting", "ack"} => key[w] \in Nat
    /\ phase \in Phases /\ ctxDone \in BOOLEAN /\ parentDone \in BOOLEAN
    /\ coll \subseteq Nat
    /\ lateInserts \subseteq Nat /\ lateDeletes \subseteq Nat
    /\ confirmed \subseteq Nat /\ lost \subseteq Nat

\* The keys from startingCount on are divided among the inserts: each one is in
\* flight in one worker only, confirmed, or lost.
KeysPartitioned ==
    /\ \A w \in Reserving : key[w] \in StartingCount .. nextKey - 1 /\ key[w] \notin lost
    /\ \A w, v \in Reserving : w # v => key[w] # key[v]
    /\ \A w \in Workers : /\ pc[w] = "inserting" => key[w] \notin confirmed
                          /\ pc[w] = "ack" => key[w] \in confirmed
    /\ confirmed \cap lost = {}
    /\ confirmed \cup lost \cup InFlight = StartingCount .. nextKey - 1

\* insertedDocs counts the acknowledged keys.
CountIsAcked == insertedDocs = StartingCount + Cardinality(Acked)

\* The server knows reserved keys only, and a late insert is of a lost key.
ServerBehind ==
    /\ coll \subseteq 0 .. nextKey - 1
    /\ \A w \in Workers : pc[w] = "inserting" => key[w] \notin coll
    /\ lateInserts \subseteq lost

Addressing == {w \in Workers : pc[w] \in {"keyed", "updating"}}

\* A count loaded or a key chosen stays within the keys that may be addressed.
LocalsBehind ==
    /\ \A w \in Workers : pc[w] = "counted" => count[w] <= insertedDocs
    /\ \A w \in Addressing : key[w] < insertedDocs

\* Inductive: the keys are divided, the count is the number acknowledged, and what
\* the server and the workers know lags behind the counters.
IInv == TypeOK /\ KeysPartitioned /\ CountIsAcked /\ ServerBehind /\ LocalsBehind

\* No insert of a run can fail with a duplicate key: a key waiting to be inserted
\* (by a worker, or by the server after its client gave up) belongs to one insert
\* only and is not in the collection, across both pools and whatever deletes,
\* failures and late executions happened before (ReserveInsertKey's promise).
NoDuplicateKey ==
    /\ \A w \in Workers : pc[w] = "inserting" => key[w] \notin coll
    /\ \A w, v \in Reserving : w # v => key[w] # key[v]
    /\ \A w \in Reserving : key[w] \notin lateInserts

\* Every key an operation addresses is accounted for: it was there when the run
\* started, its insert was confirmed, is still in flight, or failed.  Never a key
\* that was not reserved (NextExistingKey against ReserveInsertKey).
AddressedKeyAccounted ==
    \A w \in Addressing : key[w] \in Initial \cup confirmed \cup InFlight \cup lost

\* The two counters differ by exactly the inserts in flight and the inserts lost,
\* so insertedDocs never overtakes nextKey and never catches up after a loss.
CountersAgree ==
    nextKey - insertedDocs = Cardinality(InFlight) + Cardinality(lost)

\* insertedDocs is a count used as a prefix, so an acknowledged key may be out of
\* reach: one at or above insertedDocs is addressed by no operation, and only for
\* inserts reserved before it that are still in flight or were lost - as many as
\* it lies above the last addressed key.  Once none is left before it, a key that
\* was acknowledged can be read (AcknowledgeInsert against NextExistingKey).
HiddenByEarlier ==
    \A k \in Acked : k >= insertedDocs =>
        /\ Cardinality({j \in InFlight \cup lost : j < k}) > k - insertedDocs
        /\ \A w \in Addressing : key[w] # k

\* README.md:106 and generator.go:79: "keys only become available for reads after
\* their insert is confirmed".
OnlyConfirmedAddressed ==
    \A w \in Addressing : key[w] \in Initial \cup confirmed

\* The counters, driven by concurrent workers of two pools, implement KeyAllocator:
\* no key is handed out twice or settled twice, and the limit moves by one exactly
\* when a pending key is acknowledged.
Allocator == INSTANCE KeyAllocator WITH
    next <- nextKey, limit <- insertedDocs,
    pending <- InFlight, acked <- Acked, abandoned <- lost

ImplementsAllocator == Allocator!Spec

\* A cancellation from above is final: the benchmark pool of a cancelled run
\* starts no operation (orchestrator.go derives both pools from one context).
CancelledStartsNothing ==
    [][parentDone => \A w \in Workers : pc[w] = "idle" => pc'[w] \in {"idle", "stopped"}]_vars
=============================================================================
