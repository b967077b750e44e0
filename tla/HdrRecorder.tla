---------------------------- MODULE HdrRecorder ----------------------------
(***************************************************************************)
(* The metrics of one benchmark: HdrRecorder (internal/metrics/metrics.go), *)
(* written by the workers and read by the Ticker goroutine                 *)
(* (internal/metrics/ticker.go) and, once the pool is done and the ticker  *)
(* stopped, by the orchestrator; and the SystemSampler goroutine beside it *)
(* (internal/metrics/system.go).                                           *)
(*                                                                         *)
(* A histogram is the number of values it holds.  Record updates the       *)
(* histograms under the mutex and the two totals after it; Snapshot holds  *)
(* the mutex but reads the two totals one after the other.                 *)
(***************************************************************************)
EXTENDS Integers, Sequences, FiniteSets

CONSTANTS
    Workers,        \* the goroutines that record
    Operations,     \* the operations of the workload
    OpsPerWorker,   \* bound: operations a worker executes
    MaxTicks,       \* bound: ticks delivered to the ticker goroutine
    MaxSamples,     \* bound: ticks delivered to the sampler goroutine
    SampleLimit,    \* error messages kept per operation (5 in the code)
    Messages        \* the texts an error may have

ASSUME RecorderAssumption ==
    /\ IsFiniteSet(Workers)
    /\ Operations \subseteq {"read", "insert", "update", "delete", "scan", "readModifyWrite"}
    /\ OpsPerWorker \in Nat
    /\ MaxTicks \in Nat
    /\ MaxSamples \in Nat
    /\ SampleLimit \in Nat

VARIABLES
    hists,      \* HdrRecorder.hists: values recorded per operation type
    opErrs,     \* HdrRecorder.opErrs
    errorMsgs,  \* HdrRecorder.errorMsgs
    totalOps,   \* HdrRecorder.totalOps
    totalErrs,  \* HdrRecorder.totalErrs
    deltas,     \* HdrRecorder.deltas: operations per interval
    lastOps,    \* HdrRecorder.lastOps
    mu,         \* holder of HdrRecorder.mu while it is held across steps
    wpc,        \* where each worker is in Record
    calls,      \* the Record calls each worker still has to make
    left,       \* operations each worker still has to execute
    sampler,    \* where the sampler goroutine is; its stop channel closed or not
    samples,    \* SystemSampler.samples: how many there are
    rpc,        \* where each reader is: the ticker goroutine, the orchestrator
    snap,       \* the snapshot each reader is building
    stop,       \* Ticker.stop is closed
    ticks,      \* ticks delivered so far
    pool,       \* what Pool.Run returned
    executed,   \* history: operations executed, and scans that returned documents
    failed,     \* history: Record calls with an error that returned
    dropped     \* history: values the histogram refused

metrics == <<hists, opErrs, errorMsgs, totalOps, totalErrs>>
series  == <<deltas, lastOps>>
system  == <<sampler, samples>>
workers == <<wpc, calls, left>>
readers == <<rpc, snap, stop, ticks>>
history == <<executed, failed, dropped>>
vars    == <<metrics, series, system, mu, workers, readers, pool, history>>

OpTypes    == Operations \cup {"scan_per_record"}
Readers    == {"ticker", "main"}
NoError    == "ok"
Nobody     == "nobody"

\* One Record call: operation type, error, and whether the latency is within the
\* histogram's range of one minute.
Call == [op : OpTypes, err : Messages \cup {NoError}, fits : BOOLEAN]

EmptySnapshot == [ops |-> 0, errs |-> 0,
                  counts |-> [o \in OpTypes |-> 0], opErrs |-> [o \in OpTypes |-> 0]]

-----------------------------------------------------------------------------
Init ==
    /\ hists = [o \in OpTypes |-> 0]
    /\ opErrs = [o \in OpTypes |-> 0]
    /\ errorMsgs = [o \in OpTypes |-> <<>>]
    /\ totalOps = 0
    /\ totalErrs = 0
    /\ deltas = <<>>
    /\ lastOps = 0
    /\ mu = Nobody
    /\ wpc = [w \in Workers |-> "run"]
    /\ calls = [w \in Workers |-> <<>>]
    /\ left = [w \in Workers |-> OpsPerWorker]
    /\ sampler = [at |-> "wait", stop |-> FALSE]
    /\ samples = 0
    /\ rpc = [r \in Readers |-> "wait"]
    /\ snap = [r \in Readers |-> EmptySnapshot]
    /\ stop = FALSE
    /\ ticks = 0
    /\ pool = "running"
    /\ executed = [ops |-> 0, scans |-> 0]
    /\ failed = 0
    /\ dropped = 0

-----------------------------------------------------------------------------
\* worker.go: execute one operation and record it.  A scan that returned documents
\* first records the derived latency per record; a failed scan does not.
Execute(w) ==
    /\ pool = "running"
    /\ wpc[w] = "run"
    /\ calls[w] = <<>>
    /\ left[w] > 0
    /\ left' = [left EXCEPT ![w] = @ - 1]
    /\ \E c \in Call :
        /\ c.op \in Operations
        /\ \/ /\ calls' = [calls EXCEPT ![w] = <<c>>]
              /\ executed' = [executed EXCEPT !.ops = @ + 1]
           \/ /\ c.op = "scan" /\ c.err = NoError
              /\ executed' = [ops |-> executed.ops + 1, scans |-> executed.scans + 1]
              /\ \E fits \in BOOLEAN :
                    calls' = [calls EXCEPT ![w] =
                        <<[op |-> "scan_per_record", err |-> NoError, fits |-> fits], c>>]
    /\ UNCHANGED <<metrics, series, system, mu, wpc, readers, pool, failed, dropped>>

\* An operation that failed with a cancellation or an exceeded deadline is not recorded,
\* and its worker does nothing any more.
Cancelled(w) ==
    /\ pool = "running"
    /\ wpc[w] = "run"
    /\ calls[w] = <<>>
    /\ left[w] > 0
    /\ left' = [left EXCEPT ![w] = 0]
    /\ UNCHANGED <<metrics, series, system, mu, wpc, calls, readers, pool, history>>

\* Record keeps the first messages of an operation type.
Sampled(msgs, m) == IF Len(msgs) < SampleLimit THEN Append(msgs, m) ELSE msgs

\* Record, the part under the mutex.
RecordHistogram(w) ==
    /\ wpc[w] = "run"
    /\ calls[w] # <<>>
    /\ mu = Nobody
    /\ LET c == Head(calls[w])
       IN  /\ hists' = [hists EXCEPT ![c.op] = @ + IF c.fits THEN 1 ELSE 0]
           /\ dropped' = dropped + IF c.fits THEN 0 ELSE 1
           /\ IF c.err = NoError
              THEN UNCHANGED <<opErrs, errorMsgs>>
              ELSE /\ opErrs' = [opErrs EXCEPT ![c.op] = @ + 1]
                   /\ errorMsgs' = [errorMsgs EXCEPT ![c.op] =
                        Sampled(@, c.err)]
    /\ wpc' = [wpc EXCEPT ![w] = "ops"]
    /\ UNCHANGED <<totalOps, totalErrs, series, system, mu, calls, left, readers, pool, executed, failed>>

\* The Record call returns.
Recorded(w) ==
    /\ calls' = [calls EXCEPT ![w] = Tail(@)]
    /\ wpc' = [wpc EXCEPT ![w] = "run"]
    /\ failed' = failed + IF Head(calls[w]).err = NoError THEN 0 ELSE 1

\* Record, after the unlock: totalOps.Add(1).
AddTotalOps(w) ==
    /\ wpc[w] = "ops"
    /\ totalOps' = totalOps + 1
    /\ IF Head(calls[w]).err = NoError
       THEN Recorded(w)
       ELSE wpc' = [wpc EXCEPT ![w] = "errs"] /\ UNCHANGED <<calls, failed>>
    /\ UNCHANGED <<hists, opErrs, errorMsgs, totalErrs, series, system, mu, left, readers, pool, executed, dropped>>

\* Record: totalErrs.Add(1).
AddTotalErrs(w) ==
    /\ wpc[w] = "errs"
    /\ totalErrs' = totalErrs + 1
    /\ Recorded(w)
    /\ UNCHANGED <<hists, opErrs, errorMsgs, totalOps, series, system, mu, left, readers, pool, executed, dropped>>

-----------------------------------------------------------------------------
\* Mutant of SnapshotOps: the snapshot does not take the mutex.
SnapshotUnlocked(r, from, to) ==
    /\ rpc[r] = from
    /\ snap' = [snap EXCEPT ![r] = [EmptySnapshot EXCEPT !.ops = totalOps]]
    /\ rpc' = [rpc EXCEPT ![r] = to]
    /\ UNCHANGED <<metrics, series, system, mu, workers, stop, ticks, pool, history>>

\* Snapshot takes the mutex and loads totalOps, then loads totalErrs, then copies
\* the histograms and releases the mutex.  `from` and `to` are where the reader is
\* before and after.
SnapshotOps(r, from, to) ==
    /\ rpc[r] = from
    /\ mu = Nobody
    /\ mu' = r
    /\ snap' = [snap EXCEPT ![r] = [EmptySnapshot EXCEPT !.ops = totalOps]]
    /\ rpc' = [rpc EXCEPT ![r] = to]
    /\ UNCHANGED <<metrics, series, system, workers, stop, ticks, pool, history>>

SnapshotErrs(r, from, to) ==
    /\ rpc[r] = from
    /\ snap' = [snap EXCEPT ![r].errs = totalErrs]
    /\ rpc' = [rpc EXCEPT ![r] = to]
    /\ UNCHANGED <<metrics, series, system, mu, workers, stop, ticks, pool, history>>

SnapshotHists(r, from, to) ==
    /\ rpc[r] = from
    /\ mu' = Nobody
    /\ snap' = [snap EXCEPT ![r].counts = hists, ![r].opErrs = opErrs]
    /\ rpc' = [rpc EXCEPT ![r] = to]
    /\ UNCHANGED <<metrics, series, system, workers, stop, ticks, pool, history>>

Snapshot(r, before, errs, copy, after) ==
    \/ SnapshotOps(r, before, errs)
    \/ SnapshotErrs(r, errs, copy)
    \/ SnapshotHists(r, copy, after)

\* ticker.go: the select of the loop.
Tick ==
    /\ rpc["ticker"] = "wait"
    /\ ticks < MaxTicks
    /\ ticks' = ticks + 1
    /\ rpc' = [rpc EXCEPT !["ticker"] = "print"]
    /\ UNCHANGED <<metrics, series, system, mu, workers, snap, stop, pool, history>>

TickerReturns ==
    /\ rpc["ticker"] = "wait"
    /\ stop
    /\ rpc' = [rpc EXCEPT !["ticker"] = "done"]
    /\ UNCHANGED <<metrics, series, system, mu, workers, snap, stop, ticks, pool, history>>

\* A tick takes a snapshot to print, and RecordDelta takes another one.
TickerSnapshots ==
    \/ Snapshot("ticker", "print", "print_errs", "print_copy", "delta")
    \/ Snapshot("ticker", "delta", "delta_errs", "delta_copy", "append")

\* Mutant of RecordDelta: the counter is read again for the next interval.
RecordDeltaRereads ==
    /\ rpc["ticker"] = "append"
    /\ deltas' = Append(deltas, snap["ticker"].ops - lastOps)
    /\ lastOps' = totalOps
    /\ rpc' = [rpc EXCEPT !["ticker"] = "wait"]
    /\ UNCHANGED <<metrics, system, mu, workers, snap, stop, ticks, pool, history>>

\* RecordDelta, the part under deltasMu.
RecordDelta ==
    /\ rpc["ticker"] = "append"
    /\ deltas' = Append(deltas, snap["ticker"].ops - lastOps)
    /\ lastOps' = snap["ticker"].ops
    /\ rpc' = [rpc EXCEPT !["ticker"] = "wait"]
    /\ UNCHANGED <<metrics, system, mu, workers, snap, stop, ticks, pool, history>>

-----------------------------------------------------------------------------
\* system.go: the loop of the sampler; a sample is collected, and appended under a mutex
\* that nobody else holds for long.
Sample ==
    /\ sampler.at = "wait"
    /\ samples < MaxSamples
    /\ samples' = samples + 1
    /\ UNCHANGED <<metrics, series, sampler, mu, workers, readers, pool, history>>

SamplerReturns ==
    /\ sampler.at = "wait"
    /\ sampler.stop
    /\ sampler' = [sampler EXCEPT !.at = "done"]
    /\ UNCHANGED <<metrics, series, samples, mu, workers, readers, pool, history>>

-----------------------------------------------------------------------------
\* Mutant of PoolDone: the wait does not cover the recording of the last operation.
PoolDoneEarly == \A w \in Workers : wpc[w] = "run"

\* The workers are over, after any number of operations.
PoolDone == \A w \in Workers : wpc[w] = "run" /\ calls[w] = <<>>

\* Mutant of StopTicker: after an error the stop channel is not closed.
StopTickerOpen ==
    /\ rpc["main"] = "wait"
    /\ PoolDone
    /\ pool' \in {"nil", "error"}
    /\ stop' = (pool' = "nil")
    /\ rpc' = [rpc EXCEPT !["main"] = "stopping"]
    /\ UNCHANGED <<metrics, series, system, mu, workers, snap, ticks, history>>

\* orchestrator.go: pool.Run returned, with or without an error; ticker.Stop closes the
\* channel ...
StopTicker ==
    /\ rpc["main"] = "wait"
    /\ PoolDone
    /\ pool' \in {"nil", "error"}
    /\ stop' = TRUE
    /\ rpc' = [rpc EXCEPT !["main"] = "stopping"]
    /\ UNCHANGED <<metrics, series, system, mu, workers, snap, ticks, history>>

\* Mutant of TickerStopped: Stop does not wait for the goroutine.
TickerNotAwaited ==
    /\ rpc["main"] = "stopping"
    /\ sampler' = [sampler EXCEPT !.stop = TRUE]
    /\ rpc' = [rpc EXCEPT !["main"] = "sampler"]
    /\ UNCHANGED <<metrics, series, samples, mu, workers, snap, stop, ticks, pool, history>>

\* ... and waits for the goroutine to end; then sampler.Stop does the same.
TickerStopped ==
    /\ rpc["main"] = "stopping"
    /\ rpc["ticker"] = "done"
    /\ sampler' = [sampler EXCEPT !.stop = TRUE]
    /\ rpc' = [rpc EXCEPT !["main"] = "sampler"]
    /\ UNCHANGED <<metrics, series, samples, mu, workers, snap, stop, ticks, pool, history>>

\* The result is built, or the error returned.
SamplerStopped ==
    /\ rpc["main"] = "sampler"
    /\ sampler.at = "done"
    /\ rpc' = [rpc EXCEPT !["main"] = IF pool = "nil" THEN "final" ELSE "failed"]
    /\ UNCHANGED <<metrics, series, system, mu, workers, snap, stop, ticks, pool, history>>

FinalSnapshot == Snapshot("main", "final", "final_errs", "final_copy", "reported")

Over == rpc["main"] \in {"reported", "failed"}
Terminating == Over /\ UNCHANGED vars

WorkerStep(w) == Execute(w) \/ Cancelled(w) \/ RecordHistogram(w) \/ AddTotalOps(w) \/ AddTotalErrs(w)
TickerStep == Tick \/ TickerReturns \/ TickerSnapshots \/ RecordDelta
SamplerStep == Sample \/ SamplerReturns
MainStep == StopTicker \/ TickerStopped \/ SamplerStopped \/ FinalSnapshot

Next ==
    \/ \E w \in Workers : WorkerStep(w)
    \/ TickerStep \/ SamplerStep \/ MainStep \/ Terminating

Spec == Init /\ [][Next]_vars

\* Goroutines are scheduled, and the pool returns.  A mutex that is released again and again is granted to
\* whoever waits for it (Go's mutex hands over to a starving waiter), and select
\* chooses at random among the ready channels, so a closed stop is noticed.
Fairness ==
    /\ \A w \in Workers : SF_vars(WorkerStep(w))
    /\ SF_vars(TickerReturns) /\ SF_vars(TickerSnapshots \/ RecordDelta)
    /\ SF_vars(SamplerReturns)
    /\ SF_vars(MainStep)

FairSpec == Spec /\ Fairness

-----------------------------------------------------------------------------
Places == {"wait", "print", "print_errs", "print_copy", "delta", "delta_errs", "delta_copy",
           "append", "done", "stopping", "sampler", "final", "final_errs", "final_copy",
           "reported", "failed"}

\* Every variable has its type, and the samples of error messages stay within their
\* limit.
TypeOK ==
    /\ hists \in [OpTypes -> Nat] /\ opErrs \in [OpTypes -> Nat]
    /\ errorMsgs \in [OpTypes -> Seq(Messages)]
    /\ \A o \in OpTypes : Len(errorMsgs[o]) <= SampleLimit
    /\ totalOps \in Nat /\ totalErrs \in Nat
    /\ deltas \in Seq(Int) /\ lastOps \in Nat
    /\ mu \in Readers \cup {Nobody}
    /\ wpc \in [Workers -> {"run", "ops", "errs"}]
    /\ calls \in [Workers -> Seq(Call)]
    /\ \A w \in Workers : wpc[w] # "run" => calls[w] # <<>>
    /\ left \in [Workers -> 0 .. OpsPerWorker]
    /\ sampler \in [at : {"wait", "done"}, stop : BOOLEAN] /\ samples \in Nat
    /\ rpc \in [Readers -> Places] /\ pool \in {"running", "nil", "error"}
    /\ snap \in [Readers -> [ops : Nat, errs : Nat, counts : [OpTypes -> Nat],
                             opErrs : [OpTypes -> Nat]]]
    /\ stop \in BOOLEAN /\ ticks \in Nat
    /\ executed \in [ops : Nat, scans : Nat] /\ failed \in Nat /\ dropped \in Nat

\* Readers whose snapshot is complete.
Complete == {r \in Readers : rpc[r] \in {"delta", "append", "reported"}}

\* What the counts f[o] amount to: the set of what they count, the i-th of o for every i
\* up to f[o], and how many that are.
Counted(f) == UNION {{o} \X (1 .. f[o]) : o \in DOMAIN f}
Total(f) == Cardinality(Counted(f))

\* A snapshot never reports an operation its histograms do not hold (but for the
\* values they refused), and lags behind them by at most one call per worker: the
\* totals are updated after the histograms and read before them.
SnapshotLags ==
    \A r \in Complete :
        LET held == Total(snap[r].counts)
        IN  /\ snap[r].ops <= held + dropped
            /\ held <= snap[r].ops + Cardinality(Workers)
            /\ snap[r].errs <= Total(snap[r].opErrs)

\* The snapshot the report is built from is exact, because the pool and the ticker
\* are over by then: every operation executed, every error - and, once more, every
\* scan that returned documents, whose scan_per_record passes for an operation.
FinalExact ==
    rpc["main"] = "reported" =>
        LET s == snap["main"]
        IN  /\ s.ops = executed.ops + executed.scans /\ s.errs = failed
            /\ Total(s.counts) = s.ops - dropped
            /\ Total(s.opErrs) = s.errs /\ s.errs <= s.ops

\* The intervals of the time series add up to what was counted at the last tick:
\* no operation is in two intervals, none between two intervals is left out.
DeltasTelescope ==
    /\ Total(deltas) = lastOps
    /\ lastOps <= totalOps
    /\ \A i \in DOMAIN deltas : deltas[i] >= 0

\* Once the ticker and the sampler are stopped nothing is added any more, so Deltas()
\* and Samples() return the whole series.
NoDeltaAfterStop == [][(Over \/ rpc["main"] \in {"final", "final_errs", "final_copy"})
                        => UNCHANGED <<series, samples>>]_vars

\* The run is always reported, or its error returned: Stop does not wait for a ticker
\* that waits for the mutex, ticks do not keep the ticker or the sampler from noticing
\* the stop, and none of the two outlives the run.
EventuallyReported == <>(Over /\ rpc["ticker"] = "done" /\ sampler.at = "done")
=============================================================================
