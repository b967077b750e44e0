-------------------------- MODULE HdrRecorderProofs --------------------------
(***************************************************************************)
(* Proofs about HdrRecorder, for any number of workers, operations, ticks and *)
(* samples: its types, that snapshots exclude each other, that the time       *)
(* series is complete when it is read, and what a snapshot holds.             *)
(*                                                                            *)
(* RecorderInv is about where the goroutines are; SnapshotInv, on top of it,  *)
(* is the books: every counter against the histograms, the calls under way    *)
(* and what the readers have read so far.                                     *)
(***************************************************************************)
EXTENDS HdrRecorder, FiniteSetTheorems, TLAPS

TickerPlaces == {"wait", "print", "print_errs", "print_copy", "delta", "delta_errs", "delta_copy",
                 "append", "done"}
MainPlaces == {"wait", "stopping", "sampler", "final", "final_errs", "final_copy", "reported", "failed"}
Reporting == {"final", "final_errs", "final_copy", "reported", "failed"}

\* The orchestrator goes on when the goroutine that it waited for is over.
StoppedInOrder ==
    /\ rpc["ticker"] \in TickerPlaces /\ rpc["main"] \in MainPlaces
    /\ rpc["main"] \in Reporting \cup {"sampler"} => rpc["ticker"] = "done"
    /\ rpc["main"] \in Reporting => sampler.at = "done"

\* A reader inside Snapshot holds the mutex.
Copying == {"print_errs", "print_copy", "delta_errs", "delta_copy", "final_errs", "final_copy"}
LockHeld == \A r \in Readers : rpc[r] \in Copying <=> mu = r

RecorderInv == TypeOK /\ StoppedInOrder /\ LockHeld

\* The Record calls under way: at a place of Record, and with an error to count.
At(place) == {w \in Workers : wpc[w] = place}
Failing == {w \in Workers : wpc[w] # "run" /\ Head(calls[w]).err # NoError}
ToMake == [w \in Workers |-> Len(calls[w])]

\* The histograms run ahead of the totals by the calls that are between the unlock and
\* the additions; what was executed is what was counted and the calls not yet made.
Books ==
    /\ \A w \in At("errs") : w \in Failing
    /\ totalOps + Cardinality(At("ops")) = Total(hists) + dropped
    /\ totalErrs + Cardinality(Failing) = Total(opErrs)
    /\ totalErrs + Cardinality(At("errs")) <= totalOps
    /\ totalErrs = failed
    /\ executed.ops + executed.scans + Cardinality(At("errs")) = totalOps + Total(ToMake)

\* What a reader has read while it holds the mutex, when no histogram changes.
Reading ==
    \A r \in Readers :
        /\ rpc[r] \in Copying =>
              /\ snap[r].ops <= Total(hists) + dropped
              /\ Total(hists) + dropped <= snap[r].ops + Cardinality(Workers)
        /\ rpc[r] \in {"print_copy", "delta_copy", "final_copy"} => snap[r].errs <= Total(opErrs)

\* The snapshot of RecordDelta lies between the last one and the total.
Ticking ==
    rpc["ticker"] \in {"delta_errs", "delta_copy", "append"} =>
        lastOps <= snap["ticker"].ops /\ snap["ticker"].ops <= totalOps

\* Once the pool is over nothing is recorded, so that the last snapshot is exact.
Settled ==
    /\ rpc["main"] # "wait" => pool # "running" /\ PoolDone
    /\ rpc["main"] \in {"final_errs", "final_copy", "reported"} => snap["main"].ops = totalOps
    /\ rpc["main"] \in {"final_copy", "reported"} => snap["main"].errs = totalErrs
    /\ rpc["main"] = "reported" => snap["main"].counts = hists /\ snap["main"].opErrs = opErrs

SnapshotInv == Books /\ Reading /\ SnapshotLags /\ Ticking /\ DeltasTelescope /\ Settled

-----------------------------------------------------------------------------
(* Lemmas about Total.                                                       *)

\* What finitely many counts count is finite.
LEMMA TotalFinite ==
    ASSUME NEW S, IsFiniteSet(S), NEW f \in [S -> Int]
    PROVE  IsFiniteSet(Counted(f)) /\ Total(f) \in Nat
<1> DEFINE part == [o \in S |-> {o} \X (1 .. f[o])]
           parts == {part[o] : o \in S}
<1>1. IsFiniteSet(parts)
  <2>1. part \in Surjection(S, parts)
    BY DEF Surjection
  <2>. QED
    BY <2>1, FS_Surjection
<1>2. \A p \in parts : IsFiniteSet(p)
  <2> SUFFICES ASSUME NEW o \in S PROVE IsFiniteSet({o} \X (1 .. f[o]))
    OBVIOUS
  <2>1. IsFiniteSet({o}) /\ IsFiniteSet(1 .. f[o])
    <3>1. f[o] \in Int /\ 1 \in Int
      OBVIOUS
    <3>. QED
      BY ONLY <3>1, FS_Singleton, FS_Interval
  <2>. QED
    BY <2>1, FS_Product
<1>3. Counted(f) = UNION parts
  BY DEF Counted
<1> HIDE DEF parts
<1>4. IsFiniteSet(UNION parts)
  BY <1>1, <1>2, FS_UNION
<1>. QED
  BY <1>3, <1>4, FS_CardinalityType DEF Total

LEMMA TotalOfZeros == ASSUME NEW S PROVE Total([o \in S |-> 0]) = 0
<1>1. Counted([o \in S |-> 0]) = {}
  BY DEF Counted
<1>. QED
  BY <1>1, FS_EmptySet DEF Total

\* As many things are counted more as the interval holds that a count grows by.
LEMMA IntervalSize ==
    ASSUME NEW o, NEW lo \in Int, NEW hi \in Int, lo <= hi + 1
    PROVE  IsFiniteSet({o} \X (lo .. hi)) /\ Cardinality({o} \X (lo .. hi)) = hi - lo + 1
<1>1. IsFiniteSet({o}) /\ Cardinality({o}) = 1
  BY FS_Singleton
<1>2. IsFiniteSet(lo .. hi) /\ Cardinality(lo .. hi) = IF lo > hi THEN 0 ELSE hi - lo + 1
  BY ONLY lo \in Int, hi \in Int, FS_Interval
<1>3. IsFiniteSet({o} \X (lo .. hi)) /\ Cardinality({o} \X (lo .. hi)) = Cardinality({o}) * Cardinality(lo .. hi)
  BY <1>1, <1>2, FS_Product
<1>. QED
  BY <1>1, <1>2, <1>3

LEMMA DisjointUnion ==
    ASSUME NEW A, NEW B, IsFiniteSet(A), IsFiniteSet(B), A \cap B = {}
    PROVE  Cardinality(A \cup B) = Cardinality(A) + Cardinality(B)
<1>1. Cardinality(A \cup B) = Cardinality(A) + Cardinality(B) - Cardinality(A \cap B)
  BY FS_Union
<1>2. Cardinality(A) \in Nat /\ Cardinality(B) \in Nat /\ Cardinality(A \cap B) = 0
  BY FS_CardinalityType, FS_EmptySet
<1>. QED
  BY <1>1, <1>2

LEMMA TotalAdds ==
    ASSUME NEW S, IsFiniteSet(S), NEW f \in [S -> Nat], NEW o \in S, NEW n \in Nat
    PROVE  Total([f EXCEPT ![o] = @ + n]) = Total(f) + n
<1> DEFINE g == [f EXCEPT ![o] = f[o] + n]
           new == {o} \X (f[o] + 1 .. f[o] + n)
<1>1. f[o] \in Nat /\ f[o] + n \in Nat /\ f[o] <= f[o] + n /\ f[o] + n - f[o] = n
  OBVIOUS
<1>2. Counted(g) = Counted(f) \cup new
  <2>1. \A p : p \in Counted(f) <=> \E x \in S : \E i \in 1 .. f[x] : p = <<x, i>>
    BY DEF Counted
  <2>2. \A p : p \in Counted(g) <=> \E x \in S : \E i \in 1 .. g[x] : p = <<x, i>>
    BY DEF Counted
  <2>3. \A p : p \in new <=> \E i \in f[o] + 1 .. f[o] + n : p = <<o, i>>
    OBVIOUS
  <2>4. \A x \in S : x # o => g[x] = f[x]
    OBVIOUS
  <2>5. g[o] = f[o] + n
    OBVIOUS
  <2>6. \A i : i \in 1 .. f[o] + n <=> i \in 1 .. f[o] \/ i \in f[o] + 1 .. f[o] + n
    BY <1>1
  <2> HIDE DEF g, new
  <2>7. \A p : p \in Counted(g) <=> p \in Counted(f) \/ p \in new
    BY <2>1, <2>2, <2>3, <2>4, <2>5, <2>6
  <2>. QED
    BY <2>7
<1>3. Counted(f) \cap new = {}
  BY <1>1 DEF Counted
<1>4. f \in [S -> Int]
  OBVIOUS
<1> HIDE DEF g
<1>5. IsFiniteSet(Counted(f)) /\ Total(f) \in Nat
  BY <1>4, TotalFinite
<1>6. IsFiniteSet(new) /\ Cardinality(new) = n
  <2> DEFINE lo == f[o] + 1
             hi == f[o] + n
  <2>1. lo \in Int /\ hi \in Int /\ lo <= hi + 1 /\ hi - lo + 1 = n
    BY <1>1
  <2> HIDE DEF lo, hi
  <2>2. IsFiniteSet({o} \X (lo .. hi)) /\ Cardinality({o} \X (lo .. hi)) = hi - lo + 1
    BY ONLY <2>1, IntervalSize
  <2>. QED
    BY <2>1, <2>2 DEF lo, hi
<1> HIDE DEF new
<1>7. Cardinality(Counted(f) \cup new) = Cardinality(Counted(f)) + n
  BY <1>3, <1>5, <1>6, DisjointUnion
<1>. QED
  BY <1>2, <1>7 DEF g, Total

LEMMA TotalTakes ==
    ASSUME NEW S, IsFiniteSet(S), NEW f \in [S -> Nat], NEW o \in S, NEW g \in [S -> Nat],
           f[o] > 0, g = [f EXCEPT ![o] = f[o] - 1]
    PROVE  Total(g) = Total(f) - 1
<1>1. f = [g EXCEPT ![o] = @ + 1]
  <2>1. g[o] + 1 = f[o]
    <3>1. f[o] \in Nat /\ g[o] = f[o] - 1
      OBVIOUS
    <3>. QED
      BY ONLY <3>1
  <2>2. \A x \in S : x # o => g[x] = f[x]
    OBVIOUS
  <2>. QED
    BY <2>1, <2>2
<1>2. Total(f) = Total(g) + 1
  BY <1>1, TotalAdds
<1>3. Total(g) \in Nat
  <2>1. g \in [S -> Int]
    OBVIOUS
  <2>. QED
    BY <2>1, TotalFinite
<1>. QED
  BY <1>2, <1>3

LEMMA TotalAppends ==
    ASSUME NEW s \in Seq(Int), NEW n \in Nat
    PROVE  Total(Append(s, n)) = Total(s) + n
<1> DEFINE t == Append(s, n)
           new == {Len(s) + 1} \X (1 .. n)
<1>1. /\ Len(s) \in Nat /\ DOMAIN s = 1 .. Len(s) /\ DOMAIN t = 1 .. Len(s) + 1
      /\ \A k \in 1 .. Len(s) : t[k] = s[k]
      /\ t[Len(s) + 1] = n
      /\ s \in [1 .. Len(s) -> Int]
  OBVIOUS
<1> HIDE DEF t
<1>2. Counted(t) = Counted(s) \cup new
  <2>1. \A p : p \in Counted(s) <=> \E x \in 1 .. Len(s) : \E i \in 1 .. s[x] : p = <<x, i>>
    BY <1>1 DEF Counted
  <2>2. \A p : p \in Counted(t) <=> \E x \in 1 .. Len(s) + 1 : \E i \in 1 .. t[x] : p = <<x, i>>
    BY <1>1 DEF Counted
  <2>3. \A p : p \in new <=> \E i \in 1 .. n : p = <<Len(s) + 1, i>>
    OBVIOUS
  <2>4. \A x : x \in 1 .. Len(s) + 1 <=> x \in 1 .. Len(s) \/ x = Len(s) + 1
    BY <1>1
  <2> HIDE DEF new
  <2>5. \A p : p \in Counted(t) <=> p \in Counted(s) \/ p \in new
    BY <1>1, <2>1, <2>2, <2>3, <2>4
  <2>. QED
    BY <2>5
<1>3. Counted(s) \cap new = {}
  BY <1>1 DEF Counted
<1>4. IsFiniteSet(1 .. Len(s))
  <2>1. 1 \in Int /\ Len(s) \in Int
    BY <1>1
  <2>. QED
    BY ONLY <2>1, FS_Interval
<1>5. IsFiniteSet(Counted(s)) /\ Total(s) \in Nat
  BY <1>1, <1>4, TotalFinite
<1>6. IsFiniteSet(new) /\ Cardinality(new) = n
  <2>1. 1 \in Int /\ n \in Int /\ 1 <= n + 1 /\ n - 1 + 1 = n
    OBVIOUS
  <2>. QED
    BY <2>1, IntervalSize
<1> HIDE DEF new
<1>7. Cardinality(Counted(s) \cup new) = Cardinality(Counted(s)) + n
  BY <1>3, <1>5, <1>6, DisjointUnion
<1>. QED
  BY <1>2, <1>7 DEF t, Total

-----------------------------------------------------------------------------
LEMMA RecorderStarts == Init => RecorderInv
<1> SUFFICES ASSUME Init PROVE RecorderInv
  OBVIOUS
<1> USE RecorderAssumption
<1>1. /\ hists \in [OpTypes -> Nat] /\ opErrs \in [OpTypes -> Nat]
      /\ errorMsgs \in [OpTypes -> Seq(Messages)] /\ \A o \in OpTypes : Len(errorMsgs[o]) <= SampleLimit
  BY DEF Init
<1>2. /\ deltas \in Seq(Int) /\ calls \in [Workers -> Seq(Call)] /\ left \in [Workers -> 0 .. OpsPerWorker]
      /\ wpc \in [Workers -> {"run", "ops", "errs"}] /\ \A w \in Workers : wpc[w] = "run"
  BY DEF Init
<1>3. snap \in [Readers -> [ops : Nat, errs : Nat, counts : [OpTypes -> Nat], opErrs : [OpTypes -> Nat]]]
  BY DEF Init, EmptySnapshot
<1>4. TypeOK
  BY <1>1, <1>2, <1>3 DEF Init, TypeOK, Places, Readers
<1>5. StoppedInOrder /\ LockHeld
  BY DEF Init, StoppedInOrder, LockHeld, TickerPlaces, MainPlaces, Reporting, Copying, Readers, Nobody
<1>. QED
  BY <1>4, <1>5 DEF RecorderInv

-----------------------------------------------------------------------------
(* The workers.                                                              *)

\* A worker changes nothing of what the readers and the sampler know.
LEMMA ReadersUndisturbed ==
    ASSUME RecorderInv, UNCHANGED <<series, system, mu, readers, pool>>
    PROVE  StoppedInOrder' /\ LockHeld'
BY DEF RecorderInv, StoppedInOrder, LockHeld, system, readers

LEMMA WorkerStays == ASSUME RecorderInv, NEW w \in Workers, WorkerStep(w) PROVE RecorderInv'
<1> USE RecorderAssumption
<1>0. TypeOK
  BY DEF RecorderInv
<1>1. UNCHANGED <<series, system, mu, readers, pool>>
  BY DEF WorkerStep, Execute, Cancelled, RecordHistogram, AddTotalOps, AddTotalErrs, metrics
<1>2. StoppedInOrder' /\ LockHeld'
  BY <1>1, ReadersUndisturbed
<1>3. CASE Execute(w)
  <2>1. /\ UNCHANGED <<metrics, wpc, failed, dropped>> /\ wpc[w] = "run"
        /\ left' = [left EXCEPT ![w] = @ - 1] /\ left[w] > 0
    BY <1>3 DEF Execute
  <2>2. PICK s \in Seq(Call) : calls' = [calls EXCEPT ![w] = s]
    <3>1. PICK c \in Call :
             \/ calls' = [calls EXCEPT ![w] = <<c>>]
             \/ \E fits \in BOOLEAN :
                   calls' = [calls EXCEPT ![w] = <<[op |-> "scan_per_record", err |-> NoError, fits |-> fits], c>>]
      BY <1>3 DEF Execute
    <3>2. CASE calls' = [calls EXCEPT ![w] = <<c>>]
      <4>1. <<c>> \in Seq(Call)
        OBVIOUS
      <4>. QED
        BY <3>2, <4>1
    <3>3. ASSUME NEW fits \in BOOLEAN,
                 calls' = [calls EXCEPT ![w] =
                             <<[op |-> "scan_per_record", err |-> NoError, fits |-> fits], c>>]
          PROVE  \E s \in Seq(Call) : calls' = [calls EXCEPT ![w] = s]
      <4> DEFINE perRecord == [op |-> "scan_per_record", err |-> NoError, fits |-> fits]
      <4>1. perRecord \in Call
        BY DEF Call, OpTypes
      <4>2. calls' = [calls EXCEPT ![w] = <<perRecord, c>>]
        BY <3>3
      <4> HIDE DEF perRecord
      <4>3. <<perRecord, c>> \in Seq(Call)
        BY <4>1
      <4>. QED
        BY <4>2, <4>3
    <3>. QED
      BY <3>1, <3>2, <3>3
  <2>3. executed' \in [ops : Nat, scans : Nat]
    <3>1. \/ executed' = [executed EXCEPT !.ops = @ + 1]
          \/ executed' = [ops |-> executed.ops + 1, scans |-> executed.scans + 1]
      BY <1>3 DEF Execute
    <3>2. executed \in [ops : Nat, scans : Nat]
      BY <1>0 DEF TypeOK
    <3>. QED
      BY <3>1, <3>2
  <2>4. /\ calls' \in [Workers -> Seq(Call)] /\ left' \in [Workers -> 0 .. OpsPerWorker]
        /\ \A v \in Workers : wpc'[v] # "run" => calls'[v] # <<>>
    BY <1>0, <2>1, <2>2 DEF TypeOK
  <2>5. TypeOK'
    BY <1>0, <1>1, <2>1, <2>3, <2>4 DEF TypeOK, metrics, series, system, readers
  <2>. QED
    BY <1>2, <2>5 DEF RecorderInv
<1>4. CASE RecordHistogram(w)
  <2> DEFINE c == Head(calls[w])
  <2>1. c \in Call /\ calls[w] # <<>>
    BY <1>0, <1>4 DEF RecordHistogram, TypeOK
  <2> HIDE DEF c
  <2>2. hists' \in [OpTypes -> Nat] /\ dropped' \in Nat
    BY <1>0, <1>4, <2>1 DEF RecordHistogram, TypeOK, Call, c
  <2>3. opErrs' \in [OpTypes -> Nat]
    <3>1. \/ opErrs' = opErrs
          \/ opErrs' = [opErrs EXCEPT ![c.op] = @ + 1]
      BY <1>4 DEF RecordHistogram, c
    <3>2. opErrs \in [OpTypes -> Nat]
      BY <1>0 DEF TypeOK
    <3>. QED
      BY <3>1, <3>2
  <2>4. errorMsgs' \in [OpTypes -> Seq(Messages)] /\ \A o \in OpTypes : Len(errorMsgs'[o]) <= SampleLimit
    <3>1. CASE c.err = NoError
      BY <1>0, <1>4, <3>1 DEF RecordHistogram, TypeOK, c
    <3>2. CASE c.err # NoError
      <4>1. errorMsgs' = [errorMsgs EXCEPT ![c.op] = Sampled(errorMsgs[c.op], c.err)]
        BY <1>4, <3>2 DEF RecordHistogram, c
      <4>2. c.op \in OpTypes /\ c.err \in Messages
        BY <2>1, <3>2 DEF Call
      <4>3. \A m \in Seq(Messages) : Len(m) <= SampleLimit
               => Sampled(m, c.err) \in Seq(Messages) /\ Len(Sampled(m, c.err)) <= SampleLimit
        BY <4>2 DEF Sampled
      <4>. QED
        BY <1>0, <4>1, <4>2, <4>3 DEF TypeOK
    <3>. QED
      BY <3>1, <3>2
  <2>5. TypeOK'
    BY <1>0, <1>1, <1>4, <2>1, <2>2, <2>3, <2>4 DEF RecordHistogram, TypeOK, series, system, readers
  <2>. QED
    BY <1>2, <2>5 DEF RecorderInv
<1>5. CASE AddTotalOps(w) \/ AddTotalErrs(w)
  <2>1. /\ totalOps' \in Nat /\ totalErrs' \in Nat /\ failed' \in Nat
        /\ UNCHANGED <<hists, opErrs, errorMsgs, left, executed, dropped>>
    BY <1>0, <1>5 DEF AddTotalOps, AddTotalErrs, Recorded, TypeOK
  <2>2. calls[w] # <<>> /\ calls[w] \in Seq(Call) /\ Tail(calls[w]) \in Seq(Call)
    BY <1>0, <1>5 DEF AddTotalOps, AddTotalErrs, TypeOK
  <2>3. \/ calls' = [calls EXCEPT ![w] = Tail(calls[w])] /\ wpc' = [wpc EXCEPT ![w] = "run"]
        \/ calls' = calls /\ wpc' = [wpc EXCEPT ![w] = "errs"]
    BY <1>5 DEF AddTotalOps, AddTotalErrs, Recorded
  <2>4. /\ calls' \in [Workers -> Seq(Call)] /\ wpc' \in [Workers -> {"run", "ops", "errs"}]
        /\ \A v \in Workers : wpc'[v] # "run" => calls'[v] # <<>>
    <3>1. CASE calls' = calls /\ wpc' = [wpc EXCEPT ![w] = "errs"]
      BY <1>0, <2>2, <3>1 DEF TypeOK
    <3>2. CASE calls' = [calls EXCEPT ![w] = Tail(calls[w])] /\ wpc' = [wpc EXCEPT ![w] = "run"]
      <4> DEFINE rest == Tail(calls[w])
      <4>1. rest \in Seq(Call) /\ calls' = [calls EXCEPT ![w] = rest]
        BY <2>2, <3>2
      <4> HIDE DEF rest
      <4>. QED
        BY <1>0, <3>2, <4>1 DEF TypeOK
    <3>. QED
      BY <2>3, <3>1, <3>2
  <2>5. TypeOK'
    BY <1>0, <1>1, <2>1, <2>4 DEF TypeOK, series, system, readers
  <2>. QED
    BY <1>2, <2>5 DEF RecorderInv
<1>6. CASE Cancelled(w)
  <2>1. left' \in [Workers -> 0 .. OpsPerWorker] /\ UNCHANGED <<metrics, wpc, calls, history>>
    BY <1>0, <1>6 DEF Cancelled, TypeOK
  <2>2. TypeOK'
    BY <1>0, <1>1, <2>1 DEF TypeOK, metrics, series, system, readers, history
  <2>. QED
    BY <1>2, <2>2 DEF RecorderInv
<1>. QED
  BY <1>3, <1>4, <1>5, <1>6 DEF WorkerStep

-----------------------------------------------------------------------------
(* The ticker, the sampler and the orchestrator.                             *)

\* Snapshot is the same for its readers; they differ in where they come from and go to.
LEMMA SnapshotTypes ==
    ASSUME TypeOK, NEW r \in Readers, NEW before \in Places, NEW e \in Places, NEW copy \in Places,
           NEW after \in Places, Snapshot(r, before, e, copy, after)
    PROVE  /\ TypeOK'
           /\ UNCHANGED <<series, system, pool>>
           /\ \/ rpc[r] = before /\ rpc' = [rpc EXCEPT ![r] = e] /\ mu = Nobody /\ mu' = r
              \/ rpc[r] = e /\ rpc' = [rpc EXCEPT ![r] = copy] /\ mu' = mu
              \/ rpc[r] = copy /\ rpc' = [rpc EXCEPT ![r] = after] /\ mu' = Nobody
<1>1. /\ snap' \in [Readers -> [ops : Nat, errs : Nat, counts : [OpTypes -> Nat], opErrs : [OpTypes -> Nat]]]
      /\ UNCHANGED <<metrics, series, system, workers, stop, ticks, pool, history>>
  <2>1. CASE SnapshotOps(r, before, e)
    BY <2>1 DEF SnapshotOps, EmptySnapshot, TypeOK
  <2>2. CASE SnapshotErrs(r, e, copy)
    BY <2>2 DEF SnapshotErrs, TypeOK
  <2>3. CASE SnapshotHists(r, copy, after)
    BY <2>3 DEF SnapshotHists, TypeOK
  <2>. QED
    BY <2>1, <2>2, <2>3 DEF Snapshot
<1>2. \/ rpc[r] = before /\ rpc' = [rpc EXCEPT ![r] = e] /\ mu = Nobody /\ mu' = r
      \/ rpc[r] = e /\ rpc' = [rpc EXCEPT ![r] = copy] /\ mu' = mu
      \/ rpc[r] = copy /\ rpc' = [rpc EXCEPT ![r] = after] /\ mu' = Nobody
  BY DEF Snapshot, SnapshotOps, SnapshotErrs, SnapshotHists
<1>3. rpc' \in [Readers -> Places] /\ mu' \in Readers \cup {Nobody}
  BY <1>2 DEF TypeOK
<1>4. TypeOK'
  BY <1>1, <1>3 DEF TypeOK, metrics, series, system, workers, history
<1>. QED
  BY <1>1, <1>2, <1>4

LEMMA TickerStays == ASSUME RecorderInv, TickerStep PROVE RecorderInv'
<1> USE RecorderAssumption DEF RecorderInv
<1>1. CASE Tick \/ TickerReturns
  <2>1. /\ \E place \in {"print", "done"} : rpc' = [rpc EXCEPT !["ticker"] = place]
        /\ rpc["ticker"] = "wait" /\ ticks' \in Nat
        /\ UNCHANGED <<metrics, series, system, mu, workers, snap, stop, pool, history>>
    BY <1>1 DEF Tick, TickerReturns, TypeOK
  <2>2. TypeOK'
    BY <2>1 DEF TypeOK, metrics, series, system, workers, history, Places, Readers
  <2>3. StoppedInOrder' /\ LockHeld'
    BY <2>1 DEF StoppedInOrder, LockHeld, TypeOK, TickerPlaces, MainPlaces, Reporting, Copying, Readers, system
  <2>. QED
    BY <2>2, <2>3
<1>2. ASSUME NEW before \in {"print", "delta"}, NEW e \in {"print_errs", "delta_errs"},
             NEW copy \in {"print_copy", "delta_copy"}, NEW after \in {"delta", "append"},
             Snapshot("ticker", before, e, copy, after)
      PROVE  RecorderInv'
  <2>1. /\ TypeOK' /\ UNCHANGED <<series, system, pool>>
        /\ \/ rpc["ticker"] = before /\ rpc' = [rpc EXCEPT !["ticker"] = e] /\ mu = Nobody /\ mu' = "ticker"
           \/ rpc["ticker"] = e /\ rpc' = [rpc EXCEPT !["ticker"] = copy] /\ mu' = mu
           \/ rpc["ticker"] = copy /\ rpc' = [rpc EXCEPT !["ticker"] = after] /\ mu' = Nobody
    <3>1. "ticker" \in Readers /\ before \in Places /\ e \in Places /\ copy \in Places /\ after \in Places
      BY DEF Readers, Places
    <3>. QED
      BY <1>2, <3>1, SnapshotTypes
  <2>2. StoppedInOrder'
    BY <2>1 DEF StoppedInOrder, TypeOK, TickerPlaces, MainPlaces, Reporting, Readers, system
  <2>3. LockHeld'
    BY <2>1 DEF LockHeld, TypeOK, StoppedInOrder, Copying, Readers, Nobody
  <2>. QED
    BY <2>1, <2>2, <2>3
<1>3. CASE TickerSnapshots
  BY <1>2, <1>3 DEF TickerSnapshots
<1>4. CASE RecordDelta
  <2>1. /\ rpc["ticker"] = "append" /\ rpc' = [rpc EXCEPT !["ticker"] = "wait"]
        /\ deltas' \in Seq(Int) /\ lastOps' \in Nat
        /\ UNCHANGED <<metrics, system, mu, workers, snap, stop, ticks, pool, history>>
    <3>1. snap["ticker"].ops \in Nat
      BY DEF TypeOK, Readers
    <3>. QED
      BY <1>4, <3>1 DEF RecordDelta, TypeOK
  <2>2. TypeOK'
    BY <2>1 DEF TypeOK, metrics, system, workers, history, Places, Readers
  <2>3. StoppedInOrder' /\ LockHeld'
    BY <2>1 DEF StoppedInOrder, LockHeld, TypeOK, TickerPlaces, MainPlaces, Reporting, Copying, Readers, system
  <2>. QED
    BY <2>2, <2>3
<1>. QED
  BY <1>1, <1>3, <1>4 DEF TickerStep

LEMMA SamplerStays == ASSUME RecorderInv, SamplerStep PROVE RecorderInv'
<1> USE DEF RecorderInv
<1>1. /\ sampler' \in [at : {"wait", "done"}, stop : BOOLEAN] /\ samples' \in Nat
      /\ sampler.at # "done"
      /\ UNCHANGED <<metrics, series, mu, workers, readers, pool, history>>
  <2>1. CASE Sample
    BY <2>1 DEF Sample, TypeOK
  <2>2. CASE SamplerReturns
    BY <2>2 DEF SamplerReturns, TypeOK
  <2>. QED
    BY <2>1, <2>2 DEF SamplerStep
<1>2. TypeOK'
  BY <1>1 DEF TypeOK, metrics, series, workers, readers, history
<1>3. StoppedInOrder' /\ LockHeld'
  BY <1>1 DEF StoppedInOrder, LockHeld, readers
<1>. QED
  BY <1>2, <1>3

LEMMA MainStays == ASSUME RecorderInv, MainStep PROVE RecorderInv'
<1> USE RecorderAssumption DEF RecorderInv
<1>1. CASE StopTicker \/ TickerStopped \/ SamplerStopped
  <2>1. /\ stop' \in BOOLEAN /\ pool' \in {"running", "nil", "error"}
        /\ sampler' \in [at : {"wait", "done"}, stop : BOOLEAN] /\ sampler'.at = sampler.at
        /\ UNCHANGED <<metrics, series, samples, mu, workers, snap, ticks, history>>
    BY <1>1 DEF StopTicker, TickerStopped, SamplerStopped, TypeOK, system
  <2>2. \/ rpc["main"] = "wait" /\ rpc' = [rpc EXCEPT !["main"] = "stopping"]
        \/ rpc["main"] = "stopping" /\ rpc["ticker"] = "done" /\ rpc' = [rpc EXCEPT !["main"] = "sampler"]
        \/ /\ rpc["main"] = "sampler" /\ sampler.at = "done"
           /\ \E place \in {"final", "failed"} : rpc' = [rpc EXCEPT !["main"] = place]
    BY <1>1 DEF StopTicker, TickerStopped, SamplerStopped
  <2>3. rpc' \in [Readers -> Places]
    BY <2>2 DEF TypeOK, Places, Readers
  <2>4. TypeOK'
    BY <2>1, <2>3 DEF TypeOK, metrics, series, workers, history
  <2>5. StoppedInOrder' /\ LockHeld'
    BY <2>1, <2>2 DEF StoppedInOrder, LockHeld, TypeOK, TickerPlaces, MainPlaces, Reporting, Copying, Readers
  <2>. QED
    BY <2>4, <2>5
<1>2. CASE FinalSnapshot
  <2>1. /\ TypeOK' /\ UNCHANGED <<series, system, pool>>
        /\ \/ rpc["main"] = "final" /\ rpc' = [rpc EXCEPT !["main"] = "final_errs"] /\ mu = Nobody /\ mu' = "main"
           \/ rpc["main"] = "final_errs" /\ rpc' = [rpc EXCEPT !["main"] = "final_copy"] /\ mu' = mu
           \/ rpc["main"] = "final_copy" /\ rpc' = [rpc EXCEPT !["main"] = "reported"] /\ mu' = Nobody
    <3>1. /\ "main" \in Readers /\ "final" \in Places /\ "final_errs" \in Places /\ "final_copy" \in Places
          /\ "reported" \in Places
      BY DEF Readers, Places
    <3>. QED
      BY <1>2, <3>1, SnapshotTypes DEF FinalSnapshot
  <2>2. StoppedInOrder'
    BY <2>1 DEF StoppedInOrder, TypeOK, TickerPlaces, MainPlaces, Reporting, Readers, system
  <2>3. LockHeld'
    BY <2>1 DEF LockHeld, TypeOK, StoppedInOrder, Copying, Reporting, Readers, Nobody
  <2>. QED
    BY <2>1, <2>2, <2>3
<1>. QED
  BY <1>1, <1>2 DEF MainStep

LEMMA RecorderStays == RecorderInv /\ [Next]_vars => RecorderInv'
<1>1. ASSUME RecorderInv, UNCHANGED vars PROVE RecorderInv'
  BY <1>1 DEF vars, metrics, series, system, workers, readers, history, RecorderInv, TypeOK, StoppedInOrder, LockHeld
<1>. QED
  BY <1>1, WorkerStays, TickerStays, SamplerStays, MainStays DEF Next, Terminating

LEMMA RecorderAlways == Spec => []RecorderInv
BY RecorderStarts, RecorderStays, PTL DEF Spec

\* Every variable has its type, and no operation type keeps more error messages than the
\* limit, whatever the number of workers and errors.
THEOREM TypeCorrect == Spec => []TypeOK
<1>1. RecorderInv => TypeOK
  BY DEF RecorderInv
<1>. QED
  BY <1>1, RecorderAlways, PTL

\* orchestrator.go: once the ticker and the sampler are stopped neither adds anything,
\* whatever the number of ticks and samples: the series read for the report is whole.
THEOREM SeriesWhole == Spec => NoDeltaAfterStop
<1>1. RecorderInv /\ [Next]_vars
        => [(Over \/ rpc["main"] \in {"final", "final_errs", "final_copy"}) => UNCHANGED <<series, samples>>]_vars
  <2> SUFFICES ASSUME RecorderInv, Next, rpc["main"] \in Reporting
               PROVE  UNCHANGED <<series, samples>>
    BY DEF Over, Reporting
  <2>1. rpc["ticker"] = "done" /\ sampler.at = "done"
    BY DEF RecorderInv, StoppedInOrder
  <2>2. ASSUME NEW w \in Workers, WorkerStep(w) PROVE UNCHANGED <<series, samples>>
    BY <2>2 DEF WorkerStep, Execute, Cancelled, RecordHistogram, AddTotalOps, AddTotalErrs, system
  <2>3. CASE TickerStep
    BY <2>1, <2>3 DEF TickerStep, Tick, TickerReturns, TickerSnapshots, RecordDelta, Snapshot, SnapshotOps,
                      SnapshotErrs, SnapshotHists
  <2>4. CASE SamplerStep
    BY <2>1, <2>4 DEF SamplerStep, Sample, SamplerReturns
  <2>5. CASE MainStep
    BY <2>5 DEF MainStep, StopTicker, TickerStopped, SamplerStopped, FinalSnapshot, Snapshot, SnapshotOps,
                SnapshotErrs, SnapshotHists, system
  <2>6. CASE Terminating
    BY <2>6 DEF Terminating, vars, series, system
  <2>. QED
    BY <2>2, <2>3, <2>4, <2>5, <2>6 DEF Next
<1>. QED
  BY <1>1, RecorderAlways, PTL DEF Spec, NoDeltaAfterStop
-----------------------------------------------------------------------------
(* The books: what the counters and the histograms hold.                     *)

LEMMA OpTypesFinite == IsFiniteSet(OpTypes)
<1> DEFINE types == {"read", "insert", "update", "delete", "scan", "readModifyWrite", "scan_per_record"}
           nth == [i \in 1 .. 7 |->
                     CASE i = 1 -> "read" [] i = 2 -> "insert" [] i = 3 -> "update" [] i = 4 -> "delete"
                       [] i = 5 -> "scan" [] i = 6 -> "readModifyWrite" [] OTHER -> "scan_per_record"]
<1>1. nth \in Surjection(1 .. 7, types)
  <2>1. nth \in [1 .. 7 -> types]
    OBVIOUS
  <2>2. /\ nth[1] = "read" /\ nth[2] = "insert" /\ nth[3] = "update" /\ nth[4] = "delete"
        /\ nth[5] = "scan" /\ nth[6] = "readModifyWrite" /\ nth[7] = "scan_per_record"
    OBVIOUS
  <2> HIDE DEF nth
  <2>3. \A t \in types : \E i \in 1 .. 7 : nth[i] = t
    BY <2>2
  <2>. QED
    BY <2>1, <2>3 DEF Surjection
<1>2. IsFiniteSet(types)
  <2>1. IsFiniteSet(1 .. 7)
    BY ONLY 1 \in Int, 7 \in Int, FS_Interval
  <2> HIDE DEF nth, types
  <2>. QED
    BY <1>1, <2>1, FS_Surjection
<1>3. OpTypes \in SUBSET types
  BY RecorderAssumption DEF OpTypes
<1>. QED
  BY <1>2, <1>3, FS_Subset

LEMMA SomeWorkers ==
    ASSUME NEW S \in SUBSET Workers
    PROVE  /\ IsFiniteSet(S) /\ Cardinality(S) \in Nat
           /\ Cardinality(Workers) \in Nat /\ Cardinality(S) <= Cardinality(Workers)
BY RecorderAssumption, FS_Subset, FS_CardinalityType

\* The numbers that the books relate.
LEMMA Numbers ==
    ASSUME TypeOK
    PROVE  /\ Total(hists) \in Nat /\ Total(opErrs) \in Nat /\ Total(ToMake) \in Nat
           /\ totalOps \in Nat /\ totalErrs \in Nat /\ dropped \in Nat /\ failed \in Nat
           /\ executed.ops \in Nat /\ executed.scans \in Nat
           /\ ToMake \in [Workers -> Nat]
           /\ \A place : At(place) \in SUBSET Workers
           /\ Failing \in SUBSET Workers
<1>1. hists \in [OpTypes -> Int] /\ opErrs \in [OpTypes -> Int]
  BY DEF TypeOK
<1>2. ToMake \in [Workers -> Nat] /\ ToMake \in [Workers -> Int]
  BY DEF TypeOK, ToMake
<1>3. Total(hists) \in Nat /\ Total(opErrs) \in Nat /\ Total(ToMake) \in Nat
  BY <1>1, <1>2, OpTypesFinite, RecorderAssumption, TotalFinite
<1>. QED
  BY <1>2, <1>3 DEF TypeOK, At, Failing

LEMMA ExecuteBooks == ASSUME TypeOK, Books, NEW w \in Workers, Execute(w) PROVE Books'
<1>1. /\ wpc[w] = "run" /\ calls[w] = <<>>
      /\ UNCHANGED <<hists, opErrs, totalOps, totalErrs, wpc, failed, dropped>>
  BY DEF Execute, metrics
<1>2. PICK n \in {1, 2} : /\ executed'.ops + executed'.scans = executed.ops + executed.scans + n
                          /\ \E s : Len(s) = n /\ calls' = [calls EXCEPT ![w] = s]
  <2>1. executed \in [ops : Nat, scans : Nat]
    BY DEF TypeOK
  <2>2. PICK c \in Call :
           \/ /\ calls' = [calls EXCEPT ![w] = <<c>>]
              /\ executed' = [executed EXCEPT !.ops = @ + 1]
           \/ /\ executed' = [ops |-> executed.ops + 1, scans |-> executed.scans + 1]
              /\ \E d : calls' = [calls EXCEPT ![w] = <<d, c>>]
    BY DEF Execute
  <2>3. CASE calls' = [calls EXCEPT ![w] = <<c>>] /\ executed' = [executed EXCEPT !.ops = @ + 1]
    <3>1. executed'.ops + executed'.scans = executed.ops + executed.scans + 1
      BY <2>1, <2>3
    <3>2. Len(<<c>>) = 1
      OBVIOUS
    <3>. QED
      BY <2>3, <3>1, <3>2
  <2>4. ASSUME executed' = [ops |-> executed.ops + 1, scans |-> executed.scans + 1],
               NEW d, calls' = [calls EXCEPT ![w] = <<d, c>>]
        PROVE  \E n \in {1, 2} : /\ executed'.ops + executed'.scans = executed.ops + executed.scans + n
                                 /\ \E s : Len(s) = n /\ calls' = [calls EXCEPT ![w] = s]
    <3>1. executed'.ops + executed'.scans = executed.ops + executed.scans + 2
      BY <2>1, <2>4
    <3>2. Len(<<d, c>>) = 2
      OBVIOUS
    <3>. QED
      BY <2>4, <3>1, <3>2
  <2>. QED
    BY <2>2, <2>3, <2>4
<1>3. PICK s : Len(s) = n /\ calls' = [calls EXCEPT ![w] = s]
  BY <1>2
<1>4. Total(ToMake') = Total(ToMake) + n
  <2>1. ToMake' = [ToMake EXCEPT ![w] = @ + n]
    <3>1. Len(calls[w]) = 0 /\ calls \in [Workers -> Seq(Call)]
      BY <1>1 DEF TypeOK
    <3>2. Len(calls'[w]) = n /\ Len(calls[w]) + n = n
      BY <1>3, <3>1
    <3>3. \A v \in Workers : v # w => Len(calls'[v]) = Len(calls[v])
      BY <1>3, <3>1
    <3>. QED
      BY <3>2, <3>3 DEF ToMake
  <2>2. n \in Nat
    OBVIOUS
  <2>3. ToMake \in [Workers -> Nat] /\ IsFiniteSet(Workers)
    BY Numbers, RecorderAssumption
  <2>4. Total([ToMake EXCEPT ![w] = @ + n]) = Total(ToMake) + n
    BY ONLY <2>2, <2>3, w \in Workers, TotalAdds
  <2>. QED
    BY <2>1, <2>4
<1>5. \A place : At(place)' = At(place)
  BY <1>1 DEF At
<1>6. Failing' = Failing
  BY <1>1, <1>3 DEF Failing, TypeOK
<1>7. Cardinality(At("errs")) \in Nat
  BY Numbers, SomeWorkers
<1>8. executed'.ops + executed'.scans + Cardinality(At("errs")) = totalOps + Total(ToMake')
  <2>1. executed.ops + executed.scans + Cardinality(At("errs")) = totalOps + Total(ToMake)
    BY DEF Books
  <2>. QED
    BY <1>2, <1>4, <1>7, <2>1, Numbers
<1>. QED
  BY <1>1, <1>5, <1>6, <1>8 DEF Books

LEMMA RecordHistogramBooks == ASSUME TypeOK, Books, NEW w \in Workers, RecordHistogram(w) PROVE Books'
<1> DEFINE c == Head(calls[w])
<1>1. /\ wpc[w] = "run" /\ wpc' = [wpc EXCEPT ![w] = "ops"] /\ c \in Call
      /\ UNCHANGED <<calls, totalOps, totalErrs, executed, failed>>
  BY DEF RecordHistogram, TypeOK
<1>2. Total(hists') + dropped' = Total(hists) + dropped + 1
  <2>1. c.op \in OpTypes /\ hists \in [OpTypes -> Nat] /\ dropped \in Nat
    BY <1>1 DEF Call, TypeOK
  <2>2. CASE c.fits
    <3>1. hists' = [hists EXCEPT ![c.op] = @ + 1] /\ dropped' = dropped
      BY <2>1, <2>2 DEF RecordHistogram
    <3>2. Total(hists') = Total(hists) + 1
      BY <2>1, <3>1, OpTypesFinite, TotalAdds
    <3>. QED
      BY <2>1, <3>1, <3>2, Numbers
  <2>3. CASE ~c.fits
    <3>1. hists' = hists /\ dropped' = dropped + 1
      BY <2>1, <2>3 DEF RecordHistogram
    <3>. QED
      BY <2>1, <3>1, Numbers
  <2>. QED
    BY <2>2, <2>3
<1>3. Cardinality(At("ops")') = Cardinality(At("ops")) + 1
  <2>1. At("ops")' = At("ops") \cup {w} /\ w \notin At("ops")
    BY <1>1 DEF At, TypeOK
  <2>2. IsFiniteSet(At("ops"))
    BY Numbers, SomeWorkers
  <2>. QED
    BY <2>1, <2>2, FS_AddElement
<1>4. At("errs")' = At("errs")
  BY <1>1 DEF At, TypeOK
<1>5. /\ Total(opErrs') - Cardinality(Failing') = Total(opErrs) - Cardinality(Failing)
      /\ Total(opErrs') \in Nat /\ Cardinality(Failing') \in Nat
      /\ Failing \subseteq Failing'
  <2>1. IsFiniteSet(Failing) /\ Cardinality(Failing) \in Nat /\ w \notin Failing
    BY <1>1, Numbers, SomeWorkers DEF Failing
  <2>2. CASE c.err = NoError
    <3>1. opErrs' = opErrs
      BY <2>2 DEF RecordHistogram
    <3>2. Failing' = Failing
      BY <1>1, <2>2 DEF Failing, TypeOK
    <3>. QED
      BY <2>1, <3>1, <3>2, Numbers
  <2>3. CASE c.err # NoError
    <3>1. opErrs' = [opErrs EXCEPT ![c.op] = @ + 1]
      BY <2>3 DEF RecordHistogram
    <3>2. c.op \in OpTypes /\ opErrs \in [OpTypes -> Nat]
      BY <1>1 DEF Call, TypeOK
    <3>3. Total(opErrs') = Total(opErrs) + 1
      BY <3>1, <3>2, OpTypesFinite, TotalAdds
    <3>4. Failing' = Failing \cup {w}
      BY <1>1, <2>3 DEF Failing, TypeOK
    <3>5. Cardinality(Failing') = Cardinality(Failing) + 1
      BY <2>1, <3>4, FS_AddElement
    <3>. QED
      BY <2>1, <3>3, <3>4, <3>5, Numbers
  <2>. QED
    BY <2>2, <2>3
<1>6. ToMake' = ToMake
  BY <1>1 DEF ToMake
<1>7. Cardinality(At("ops")) \in Nat /\ Cardinality(Failing) \in Nat
  BY Numbers, SomeWorkers
<1>8. totalOps' + Cardinality(At("ops")') = Total(hists') + dropped'
  <2>1. totalOps + Cardinality(At("ops")) = Total(hists) + dropped
    BY DEF Books
  <2>. QED
    BY <1>1, <1>2, <1>3, <1>7, <2>1, Numbers
<1>9. totalErrs' + Cardinality(Failing') = Total(opErrs')
  <2>1. totalErrs + Cardinality(Failing) = Total(opErrs)
    BY DEF Books
  <2>. QED
    BY <1>1, <1>5, <1>7, <2>1, Numbers
<1>. QED
  BY <1>1, <1>4, <1>5, <1>6, <1>8, <1>9 DEF Books

\* One call less to make for w.
LEMMA CallMade ==
    ASSUME TypeOK, NEW w \in Workers, wpc[w] # "run", calls' = [calls EXCEPT ![w] = Tail(@)]
    PROVE  Total(ToMake') = Total(ToMake) - 1
<1>1. calls[w] \in Seq(Call) /\ calls[w] # <<>>
  BY DEF TypeOK
<1>2. Len(calls[w]) > 0 /\ Len(Tail(calls[w])) = Len(calls[w]) - 1 /\ Len(calls[w]) - 1 \in Nat
  BY <1>1
<1>3. ToMake' = [ToMake EXCEPT ![w] = ToMake[w] - 1] /\ ToMake[w] > 0 /\ ToMake[w] - 1 \in Nat
  BY <1>2 DEF ToMake, TypeOK
<1>4. ToMake' \in [Workers -> Nat] /\ ToMake \in [Workers -> Nat]
  BY <1>3, Numbers
<1>. QED
  BY <1>3, <1>4, RecorderAssumption, TotalTakes

LEMMA AddTotalOpsBooks == ASSUME TypeOK, Books, NEW w \in Workers, AddTotalOps(w) PROVE Books'
<1>1. /\ wpc[w] = "ops" /\ totalOps' = totalOps + 1
      /\ UNCHANGED <<hists, opErrs, totalErrs, executed, dropped>>
  BY DEF AddTotalOps
<1>2. \A place : IsFiniteSet(At(place)) /\ Cardinality(At(place)) \in Nat
  BY Numbers, SomeWorkers
<1>3. Cardinality(At("ops")') = Cardinality(At("ops")) - 1
  <2>1. At("ops")' = At("ops") \ {w} /\ w \in At("ops")
    BY DEF AddTotalOps, Recorded, At, TypeOK
  <2>. QED
    BY <1>2, <2>1, FS_RemoveElement
<1>4. CASE Head(calls[w]).err = NoError
  <2>1. /\ calls' = [calls EXCEPT ![w] = Tail(@)] /\ wpc' = [wpc EXCEPT ![w] = "run"]
        /\ failed' = failed
    BY <1>4 DEF AddTotalOps, Recorded, TypeOK
  <2>2. Total(ToMake') = Total(ToMake) - 1
    BY <1>1, <2>1, CallMade
  <2>3. At("errs")' = At("errs")
    BY <1>1, <2>1 DEF At, TypeOK
  <2>4. Failing' = Failing
    BY <1>1, <1>4, <2>1 DEF Failing, TypeOK
  <2>5. totalOps' + Cardinality(At("ops")') = Total(hists') + dropped'
    <3>1. totalOps + Cardinality(At("ops")) = Total(hists) + dropped
      BY DEF Books
    <3>. QED
      BY <1>1, <1>2, <1>3, <3>1, Numbers
  <2>6. executed.ops + executed.scans + Cardinality(At("errs")) = totalOps' + Total(ToMake')
    <3>1. executed.ops + executed.scans + Cardinality(At("errs")) = totalOps + Total(ToMake)
      BY DEF Books
    <3>. QED
      BY <1>1, <1>2, <2>2, <3>1, Numbers
  <2>7. totalErrs + Cardinality(At("errs")) <= totalOps'
    <3>1. totalErrs + Cardinality(At("errs")) <= totalOps
      BY DEF Books
    <3>. QED
      BY <1>1, <1>2, <3>1, Numbers
  <2>. QED
    BY <1>1, <2>1, <2>3, <2>4, <2>5, <2>6, <2>7 DEF Books
<1>5. CASE Head(calls[w]).err # NoError
  <2>1. calls' = calls /\ wpc' = [wpc EXCEPT ![w] = "errs"] /\ failed' = failed
    BY <1>5 DEF AddTotalOps
  <2>2. ToMake' = ToMake
    BY <2>1 DEF ToMake
  <2>3. At("errs")' = At("errs") \cup {w} /\ w \notin At("errs")
    BY <1>1, <2>1 DEF At, TypeOK
  <2>4. Cardinality(At("errs")') = Cardinality(At("errs")) + 1
    BY <1>2, <2>3, FS_AddElement
  <2>5. Failing' = Failing /\ w \in Failing
    BY <1>1, <1>5, <2>1 DEF Failing, TypeOK
  <2>. QED
    BY <1>1, <1>2, <1>3, <2>1, <2>2, <2>3, <2>4, <2>5, Numbers DEF Books
<1>. QED
  BY <1>4, <1>5

LEMMA AddTotalErrsBooks == ASSUME TypeOK, Books, NEW w \in Workers, AddTotalErrs(w) PROVE Books'
<1>1. /\ wpc[w] = "errs" /\ totalErrs' = totalErrs + 1
      /\ calls' = [calls EXCEPT ![w] = Tail(@)] /\ wpc' = [wpc EXCEPT ![w] = "run"]
      /\ UNCHANGED <<hists, opErrs, totalOps, executed, dropped>>
  BY DEF AddTotalErrs, Recorded
<1>2. w \in Failing /\ failed' = failed + 1
  <2>1. w \in Failing
    BY <1>1 DEF Books, At
  <2>. QED
    BY <2>1 DEF AddTotalErrs, Recorded, Failing
<1>3. \A place : IsFiniteSet(At(place)) /\ Cardinality(At(place)) \in Nat
  BY Numbers, SomeWorkers
<1>4. IsFiniteSet(Failing) /\ Cardinality(Failing) \in Nat
  BY Numbers, SomeWorkers
<1>5. At("ops")' = At("ops")
  BY <1>1 DEF At, TypeOK
<1>6. At("errs")' = At("errs") \ {w} /\ w \in At("errs")
  BY <1>1 DEF At, TypeOK
<1>7. Failing' = Failing \ {w}
  BY <1>1 DEF Failing, TypeOK
<1>8. Cardinality(At("errs")') = Cardinality(At("errs")) - 1
  BY <1>3, <1>6, FS_RemoveElement
<1>9. Cardinality(Failing') = Cardinality(Failing) - 1
  BY <1>2, <1>4, <1>7, FS_RemoveElement
<1>10. Total(ToMake') = Total(ToMake) - 1
  BY <1>1, CallMade
<1>11. totalErrs' + Cardinality(Failing') = Total(opErrs)
  <2>1. totalErrs + Cardinality(Failing) = Total(opErrs)
    BY DEF Books
  <2>. QED
    BY <1>1, <1>4, <1>9, <2>1, Numbers
<1>12. totalErrs' + Cardinality(At("errs")') <= totalOps
  <2>1. totalErrs + Cardinality(At("errs")) <= totalOps
    BY DEF Books
  <2>. QED
    BY <1>1, <1>3, <1>8, <2>1, Numbers
<1>13. executed.ops + executed.scans + Cardinality(At("errs")') = totalOps + Total(ToMake')
  <2>1. executed.ops + executed.scans + Cardinality(At("errs")) = totalOps + Total(ToMake)
    BY DEF Books
  <2>. QED
    BY <1>3, <1>8, <1>10, <2>1, Numbers
<1>14. \A v \in At("errs")' : v \in Failing'
  BY <1>6, <1>7 DEF Books
<1>. QED
  BY <1>1, <1>2, <1>5, <1>11, <1>12, <1>13, <1>14 DEF Books

LEMMA WorkerBooks == ASSUME TypeOK, Books, NEW w \in Workers, WorkerStep(w) PROVE Books'
<1>1. CASE Cancelled(w)
  BY <1>1 DEF Cancelled, Books, metrics, history, At, Failing, ToMake
<1>. QED
  BY <1>1, ExecuteBooks, RecordHistogramBooks, AddTotalOpsBooks, AddTotalErrsBooks DEF WorkerStep

-----------------------------------------------------------------------------
(* What the readers have read.                                               *)

\* Between the unlock and the additions there is at most one call per worker.
LEMMA HistogramsAhead ==
    ASSUME TypeOK, Books
    PROVE  /\ totalOps <= Total(hists) + dropped
           /\ Total(hists) + dropped <= totalOps + Cardinality(Workers)
           /\ totalErrs <= Total(opErrs)
           /\ totalErrs <= totalOps
<1>1. /\ totalOps + Cardinality(At("ops")) = Total(hists) + dropped
      /\ totalErrs + Cardinality(Failing) = Total(opErrs)
      /\ totalErrs + Cardinality(At("errs")) <= totalOps
  BY DEF Books
<1>2. /\ Cardinality(At("ops")) \in Nat /\ Cardinality(At("ops")) <= Cardinality(Workers)
      /\ Cardinality(At("errs")) \in Nat /\ Cardinality(Failing) \in Nat /\ Cardinality(Workers) \in Nat
  BY Numbers, SomeWorkers
<1>. QED
  BY <1>1, <1>2, Numbers

LEMMA SnapshotNumbers ==
    ASSUME TypeOK, NEW r \in Readers
    PROVE  /\ snap[r].ops \in Nat /\ snap[r].errs \in Nat
           /\ Total(snap[r].counts) \in Nat /\ Total(snap[r].opErrs) \in Nat
<1>1. /\ snap[r].ops \in Nat /\ snap[r].errs \in Nat
      /\ snap[r].counts \in [OpTypes -> Int] /\ snap[r].opErrs \in [OpTypes -> Int]
  BY DEF TypeOK
<1>. QED
  BY <1>1, OpTypesFinite, TotalFinite

LEMMA BooksKept ==
    ASSUME Books, UNCHANGED <<metrics, workers, history>> PROVE Books'
BY DEF Books, metrics, workers, history, At, Failing, ToMake

LEMMA WorkerSnapshots ==
    ASSUME RecorderInv, SnapshotInv, NEW w \in Workers, WorkerStep(w) PROVE SnapshotInv'
<1>0. TypeOK /\ LockHeld /\ SnapshotInv
  BY DEF RecorderInv
<1>1. /\ UNCHANGED <<rpc, snap, deltas, lastOps, mu, pool>>
      /\ rpc["main"] = "wait"
  <2>1. UNCHANGED <<series, mu, readers, pool>>
    BY DEF WorkerStep, Execute, Cancelled, RecordHistogram, AddTotalOps, AddTotalErrs
  <2>2. ~(pool # "running" /\ PoolDone)
    BY DEF WorkerStep, Execute, Cancelled, RecordHistogram, AddTotalOps, AddTotalErrs, PoolDone
  <2>. QED
    BY <1>0, <2>1, <2>2 DEF series, readers, SnapshotInv, Settled
<1>2. /\ totalOps <= totalOps' /\ dropped <= dropped' /\ dropped' \in Nat /\ totalOps' \in Nat
  BY <1>0 DEF WorkerStep, Execute, Cancelled, RecordHistogram, AddTotalOps, AddTotalErrs, TypeOK, metrics,
                   history
<1>3. Books'
  BY <1>0, WorkerBooks DEF SnapshotInv
<1>4. Reading'
  <2> SUFFICES ASSUME NEW r \in Readers, rpc[r] \in Copying
               PROVE  UNCHANGED <<hists, opErrs, dropped>>
    BY <1>0, <1>1 DEF SnapshotInv, Reading, Copying
  <2>1. mu = r
    BY <1>0 DEF LockHeld
  <2>2. ~RecordHistogram(w)
    BY <2>1 DEF RecordHistogram, Readers, Nobody
  <2>. QED
    BY <2>2 DEF WorkerStep, Execute, Cancelled, AddTotalOps, AddTotalErrs, metrics, history
<1>5. SnapshotLags'
  <2> SUFFICES ASSUME NEW r \in Complete
               PROVE  /\ snap[r].ops <= Total(snap[r].counts) + dropped'
                      /\ Total(snap[r].counts) <= snap[r].ops + Cardinality(Workers)
                      /\ snap[r].errs <= Total(snap[r].opErrs)
    BY <1>1 DEF SnapshotLags, Complete
  <2>1. r \in Readers
    BY DEF Complete
  <2>2. /\ snap[r].ops <= Total(snap[r].counts) + dropped
        /\ Total(snap[r].counts) <= snap[r].ops + Cardinality(Workers)
        /\ snap[r].errs <= Total(snap[r].opErrs)
    BY <1>0 DEF SnapshotInv, SnapshotLags
  <2>. QED
    BY <1>0, <1>2, <2>1, <2>2, SnapshotNumbers, Numbers
<1>6. Ticking' /\ DeltasTelescope'
  <2>1. "ticker" \in Readers
    BY DEF Readers
  <2>2. totalOps \in Nat /\ lastOps \in Nat /\ snap["ticker"].ops \in Nat
    BY <1>0, <2>1, SnapshotNumbers DEF TypeOK
  <2>. QED
    BY <1>0, <1>1, <1>2, <2>2 DEF SnapshotInv, Ticking, DeltasTelescope
<1>7. Settled'
  BY <1>1 DEF Settled
<1>. QED
  BY <1>3, <1>4, <1>5, <1>6, <1>7 DEF SnapshotInv

\* A step of Snapshot: the totals are read under the mutex before the histograms are.
LEMMA SnapshotReads ==
    ASSUME RecorderInv, SnapshotInv, NEW r \in Readers, NEW before \in {"print", "delta", "final"},
           NEW e \in {"print_errs", "delta_errs", "final_errs"},
           NEW copy \in {"print_copy", "delta_copy", "final_copy"},
           NEW after \in {"delta", "append", "reported"},
           Snapshot(r, before, e, copy, after)
    PROVE  /\ Books' /\ Reading' /\ SnapshotLags'
           /\ UNCHANGED <<metrics, series, workers, pool>>
           /\ \A q \in Readers \ {r} : rpc'[q] = rpc[q] /\ snap'[q] = snap[q]
           /\ \/ rpc[r] = before /\ rpc'[r] = e /\ snap'[r].ops = totalOps
              \/ rpc[r] = e /\ rpc'[r] = copy /\ snap'[r].ops = snap[r].ops /\ snap'[r].errs = totalErrs
              \/ /\ rpc[r] = copy /\ rpc'[r] = after
                 /\ snap'[r].ops = snap[r].ops /\ snap'[r].errs = snap[r].errs
                 /\ snap'[r].counts = hists /\ snap'[r].opErrs = opErrs
<1>0. TypeOK /\ Books /\ Reading /\ SnapshotLags
  BY DEF RecorderInv, SnapshotInv
<1>1. UNCHANGED <<metrics, series, workers, pool, history>>
  BY DEF Snapshot, SnapshotOps, SnapshotErrs, SnapshotHists
<1>2. \A q \in Readers \ {r} : rpc'[q] = rpc[q] /\ snap'[q] = snap[q]
  BY <1>0 DEF Snapshot, SnapshotOps, SnapshotErrs, SnapshotHists, TypeOK
<1>3. \/ rpc[r] = before /\ rpc'[r] = e /\ snap'[r].ops = totalOps
      \/ rpc[r] = e /\ rpc'[r] = copy /\ snap'[r].ops = snap[r].ops /\ snap'[r].errs = totalErrs
      \/ /\ rpc[r] = copy /\ rpc'[r] = after
         /\ snap'[r].ops = snap[r].ops /\ snap'[r].errs = snap[r].errs
         /\ snap'[r].counts = hists /\ snap'[r].opErrs = opErrs
  BY <1>0 DEF Snapshot, SnapshotOps, SnapshotErrs, SnapshotHists, TypeOK, EmptySnapshot
<1>4. Books'
  BY <1>0, <1>1, BooksKept
<1>5. /\ hists' = hists /\ opErrs' = opErrs /\ dropped' = dropped
  BY <1>1 DEF metrics, history
<1>6. ASSUME NEW q \in Readers, rpc'[q] \in Copying
      PROVE  /\ snap'[q].ops <= Total(hists) + dropped
             /\ Total(hists) + dropped <= snap'[q].ops + Cardinality(Workers)
             /\ rpc'[q] \in {"print_copy", "delta_copy", "final_copy"} => snap'[q].errs <= Total(opErrs)
  <2>1. CASE q # r
    BY <1>0, <1>2, <1>6, <2>1 DEF Reading
  <2>2. CASE q = r
    <3>1. /\ totalOps <= Total(hists) + dropped
          /\ Total(hists) + dropped <= totalOps + Cardinality(Workers)
          /\ totalErrs <= Total(opErrs)
      BY <1>0, HistogramsAhead
    <3>2. rpc[r] = e => /\ snap[r].ops <= Total(hists) + dropped
                        /\ Total(hists) + dropped <= snap[r].ops + Cardinality(Workers)
      BY <1>0 DEF Reading, Copying
    <3>3. e # after /\ after \notin Copying /\ e \notin {"print_copy", "delta_copy", "final_copy"}
      BY DEF Copying
    <3>. QED
      BY <1>3, <1>6, <2>2, <3>1, <3>2, <3>3
  <2>. QED
    BY <2>1, <2>2
<1>7. Reading'
  <2> SUFFICES ASSUME NEW q \in Readers
               PROVE  /\ rpc'[q] \in Copying =>
                           /\ snap'[q].ops <= Total(hists') + dropped'
                           /\ Total(hists') + dropped' <= snap'[q].ops + Cardinality(Workers)
                      /\ rpc'[q] \in {"print_copy", "delta_copy", "final_copy"} => snap'[q].errs <= Total(opErrs')
    BY DEF Reading, Copying
  <2>. QED
    BY <1>5, <1>6 DEF Copying
<1>8. ASSUME NEW q \in Readers, rpc'[q] \in {"delta", "append", "reported"}
      PROVE  /\ snap'[q].ops <= Total(snap'[q].counts) + dropped
             /\ Total(snap'[q].counts) <= snap'[q].ops + Cardinality(Workers)
             /\ snap'[q].errs <= Total(snap'[q].opErrs)
  <2>1. CASE q # r
    BY <1>0, <1>2, <1>8, <2>1 DEF SnapshotLags, Complete
  <2>2. CASE q = r
    <3>1. /\ rpc[r] = copy /\ snap'[r].ops = snap[r].ops /\ snap'[r].errs = snap[r].errs
          /\ snap'[r].counts = hists /\ snap'[r].opErrs = opErrs
      BY <1>3, <1>8, <2>2
    <3>2. /\ snap[r].ops <= Total(hists) + dropped
          /\ Total(hists) + dropped <= snap[r].ops + Cardinality(Workers)
          /\ snap[r].errs <= Total(opErrs)
      BY <1>0, <3>1 DEF Reading, Copying
    <3>3. Cardinality(Workers) \in Nat
      BY SomeWorkers
    <3>. QED
      BY <1>0, <2>2, <3>1, <3>2, <3>3, SnapshotNumbers, Numbers
  <2>. QED
    BY <2>1, <2>2
<1>9. SnapshotLags'
  BY <1>5, <1>8 DEF SnapshotLags, Complete
<1>. QED
  BY <1>1, <1>2, <1>3, <1>4, <1>7, <1>9

\* The ticker changes neither the books nor what the orchestrator has read.
LEMMA TickerSeries == ASSUME RecorderInv, SnapshotInv, TickerStep PROVE SnapshotInv'
<1>0. TypeOK /\ Books /\ Reading /\ SnapshotLags /\ Ticking /\ DeltasTelescope /\ Settled
  BY DEF RecorderInv, SnapshotInv
<1>1. totalOps \in Nat /\ lastOps \in Nat /\ snap["ticker"].ops \in Nat /\ deltas \in Seq(Int) /\ "ticker" \in Readers
  <2>1. "ticker" \in Readers
    BY DEF Readers
  <2>. QED
    BY <1>0, <2>1, SnapshotNumbers DEF TypeOK
<1>2. CASE Tick \/ TickerReturns \/ RecordDelta
  <2>1. /\ UNCHANGED <<metrics, workers, pool, history, snap>>
        /\ \E place \in {"print", "done", "wait"} : rpc' = [rpc EXCEPT !["ticker"] = place]
        /\ rpc["ticker"] \in {"wait", "append"}
    BY <1>2 DEF Tick, TickerReturns, RecordDelta
  <2>2. /\ rpc'["ticker"] \in {"print", "done", "wait"}
        /\ \A r \in Readers : r # "ticker" => rpc'[r] = rpc[r]
    BY <1>0, <1>1, <2>1 DEF TypeOK
  <2>3. Books'
    BY <1>0, <2>1, BooksKept
  <2>4. Reading' /\ SnapshotLags'
    BY <1>0, <2>1, <2>2 DEF Reading, SnapshotLags, Complete, Copying, metrics, history
  <2>5. Settled' /\ Ticking'
    BY <1>0, <2>1, <2>2 DEF Settled, Ticking, PoolDone, metrics, workers, Readers
  <2>6. DeltasTelescope'
    <3>1. CASE Tick \/ TickerReturns
      BY <1>0, <2>1, <3>1 DEF Tick, TickerReturns, DeltasTelescope, series, metrics
    <3>2. CASE RecordDelta
      <4> DEFINE delta == snap["ticker"].ops - lastOps
      <4>1. /\ deltas' = Append(deltas, delta) /\ lastOps' = snap["ticker"].ops
            /\ totalOps' = totalOps /\ rpc["ticker"] = "append"
        BY <3>2 DEF RecordDelta, metrics
      <4>2. delta \in Nat /\ lastOps + delta = snap["ticker"].ops /\ snap["ticker"].ops <= totalOps
        BY <1>0, <1>1, <4>1 DEF Ticking
      <4> HIDE DEF delta
      <4>3. Total(deltas') = lastOps + delta
        BY <1>0, <1>1, <4>1, <4>2, TotalAppends DEF DeltasTelescope
      <4>4. \A i \in DOMAIN deltas' : deltas'[i] >= 0
        BY <1>0, <1>1, <4>1, <4>2 DEF DeltasTelescope
      <4>. QED
        BY <4>1, <4>2, <4>3, <4>4 DEF DeltasTelescope
    <3>. QED
      BY <1>2, <3>1, <3>2
  <2>. QED
    BY <2>3, <2>4, <2>5, <2>6 DEF SnapshotInv
<1>3. ASSUME NEW before \in {"print", "delta"}, NEW e \in {"print_errs", "delta_errs"},
             NEW copy \in {"print_copy", "delta_copy"}, NEW after \in {"delta", "append"},
             /\ before = "print" => e = "print_errs" /\ copy = "print_copy" /\ after = "delta"
             /\ before = "delta" => e = "delta_errs" /\ copy = "delta_copy" /\ after = "append",
             Snapshot("ticker", before, e, copy, after)
      PROVE  SnapshotInv'
  <2>1. /\ Books' /\ Reading' /\ SnapshotLags'
        /\ UNCHANGED <<metrics, series, workers, pool>>
        /\ \A q \in Readers \ {"ticker"} : rpc'[q] = rpc[q] /\ snap'[q] = snap[q]
        /\ \/ rpc["ticker"] = before /\ rpc'["ticker"] = e /\ snap'["ticker"].ops = totalOps
           \/ rpc["ticker"] = e /\ rpc'["ticker"] = copy /\ snap'["ticker"].ops = snap["ticker"].ops
           \/ rpc["ticker"] = copy /\ rpc'["ticker"] = after /\ snap'["ticker"].ops = snap["ticker"].ops
    <3>1. /\ before \in {"print", "delta", "final"} /\ e \in {"print_errs", "delta_errs", "final_errs"}
          /\ copy \in {"print_copy", "delta_copy", "final_copy"} /\ after \in {"delta", "append", "reported"}
      OBVIOUS
    <3>2. RecorderInv /\ SnapshotInv
      OBVIOUS
    <3>. QED
      BY ONLY <1>1, <1>3, <3>1, <3>2, SnapshotReads
  <2>2. rpc'["main"] = rpc["main"] /\ snap'["main"] = snap["main"]
    BY <2>1 DEF Readers
  <2>3. Ticking'
    BY <1>0, <1>1, <1>3, <2>1 DEF Ticking, metrics, series, DeltasTelescope
  <2>4. Settled' /\ DeltasTelescope'
    BY <1>0, <2>1, <2>2 DEF Settled, DeltasTelescope, PoolDone, metrics, series, workers
  <2>. QED
    BY <2>1, <2>3, <2>4 DEF SnapshotInv
<1>4. CASE TickerSnapshots
  BY <1>3, <1>4 DEF TickerSnapshots
<1>. QED
  BY <1>2, <1>4 DEF TickerStep

\* The orchestrator waits for the pool, so that nothing is recorded while it reads.
LEMMA MainSnapshot == ASSUME RecorderInv, SnapshotInv, MainStep PROVE SnapshotInv'
<1>0. TypeOK /\ Books /\ Reading /\ SnapshotLags /\ Ticking /\ DeltasTelescope /\ Settled
  BY DEF RecorderInv, SnapshotInv
<1>1. "main" \in Readers /\ "ticker" \in Readers
  BY DEF Readers
<1>2. CASE StopTicker \/ TickerStopped \/ SamplerStopped
  <2>1. /\ UNCHANGED <<metrics, series, workers, history, snap>>
        /\ \E place \in {"stopping", "sampler", "final", "failed"} : rpc' = [rpc EXCEPT !["main"] = place]
        /\ pool' # "running" /\ PoolDone
    BY <1>0, <1>2 DEF StopTicker, TickerStopped, SamplerStopped, Settled
  <2>2. /\ rpc'["main"] \in {"stopping", "sampler", "final", "failed"}
        /\ \A r \in Readers : r # "main" => rpc'[r] = rpc[r]
    BY <1>0, <1>1, <2>1 DEF TypeOK
  <2>3. Books'
    BY <1>0, <2>1, BooksKept
  <2>4. Reading' /\ SnapshotLags'
    BY <1>0, <2>1, <2>2 DEF Reading, SnapshotLags, Complete, Copying, metrics, history
  <2>5. Settled' /\ Ticking'
    BY <1>0, <1>1, <2>1, <2>2 DEF Settled, Ticking, PoolDone, metrics, series, workers
  <2>6. DeltasTelescope'
    BY <1>0, <2>1 DEF DeltasTelescope, series, metrics
  <2>. QED
    BY <2>3, <2>4, <2>5, <2>6 DEF SnapshotInv
<1>3. CASE FinalSnapshot
  <2>1. /\ Books' /\ Reading' /\ SnapshotLags'
        /\ UNCHANGED <<metrics, series, workers, pool>>
        /\ \A q \in Readers \ {"main"} : rpc'[q] = rpc[q] /\ snap'[q] = snap[q]
        /\ \/ rpc["main"] = "final" /\ rpc'["main"] = "final_errs" /\ snap'["main"].ops = totalOps
           \/ /\ rpc["main"] = "final_errs" /\ rpc'["main"] = "final_copy"
              /\ snap'["main"].ops = snap["main"].ops /\ snap'["main"].errs = totalErrs
           \/ /\ rpc["main"] = "final_copy" /\ rpc'["main"] = "reported"
              /\ snap'["main"].ops = snap["main"].ops /\ snap'["main"].errs = snap["main"].errs
              /\ snap'["main"].counts = hists /\ snap'["main"].opErrs = opErrs
    <3>1. Snapshot("main", "final", "final_errs", "final_copy", "reported")
      BY <1>3 DEF FinalSnapshot
    <3>. QED
      BY <1>1, <3>1, SnapshotReads
  <2>2. rpc'["ticker"] = rpc["ticker"] /\ snap'["ticker"] = snap["ticker"]
    BY <2>1 DEF Readers
  <2>3. Ticking' /\ DeltasTelescope'
    BY <1>0, <2>1, <2>2 DEF Ticking, DeltasTelescope, metrics, series
  <2>4. Settled'
    BY <1>0, <2>1 DEF Settled, PoolDone, metrics, workers
  <2>. QED
    BY <2>1, <2>3, <2>4 DEF SnapshotInv
<1>. QED
  BY <1>2, <1>3 DEF MainStep

LEMMA SnapshotInvKept ==
    ASSUME SnapshotInv, UNCHANGED <<metrics, series, workers, rpc, snap, pool, history>> PROVE SnapshotInv'
<1>1. Books'
  BY BooksKept DEF SnapshotInv
<1>2. /\ UNCHANGED <<hists, opErrs, totalOps, totalErrs, deltas, lastOps, wpc, calls, rpc, snap, pool, dropped>>
      /\ Reading /\ SnapshotLags /\ Ticking /\ DeltasTelescope /\ Settled
  BY DEF SnapshotInv, metrics, series, workers, history
<1>3. Reading' /\ SnapshotLags'
  BY <1>2 DEF Reading, SnapshotLags, Complete, Copying
<1>4. Ticking' /\ DeltasTelescope' /\ Settled'
  BY <1>2 DEF Ticking, DeltasTelescope, Settled, PoolDone
<1>. QED
  BY <1>1, <1>3, <1>4 DEF SnapshotInv

LEMMA SnapshotStarts == Init => SnapshotInv
<1> SUFFICES ASSUME Init PROVE SnapshotInv
  OBVIOUS
<1>1. TypeOK
  BY RecorderStarts DEF RecorderInv
<1>2. At("ops") = {} /\ At("errs") = {} /\ Failing = {} /\ Cardinality({}) = 0
  BY FS_EmptySet DEF Init, At, Failing
<1>3. Total(hists) = 0 /\ Total(opErrs) = 0
  BY TotalOfZeros DEF Init
<1>4. Total(ToMake) = 0
  <2>1. ToMake = [w \in Workers |-> 0]
    BY DEF ToMake, Init
  <2>. QED
    BY <2>1, TotalOfZeros
<1>5. Books
  <2>1. totalOps = 0 /\ totalErrs = 0 /\ dropped = 0 /\ failed = 0 /\ executed.ops = 0 /\ executed.scans = 0
    BY DEF Init
  <2>. QED
    BY <1>2, <1>3, <1>4, <2>1 DEF Books
<1>6. \A r \in Readers : rpc[r] = "wait"
  BY DEF Init
<1>7. DeltasTelescope
  <2>1. deltas = <<>> /\ lastOps = 0 /\ totalOps = 0
    BY DEF Init
  <2>2. Counted(deltas) = {}
    BY <2>1 DEF Counted
  <2>3. Total(deltas) = 0
    BY <1>2, <2>2 DEF Total
  <2>. QED
    BY <2>1, <2>3 DEF DeltasTelescope
<1>8. Reading /\ SnapshotLags /\ Ticking /\ Settled
  BY <1>6 DEF Reading, SnapshotLags, Ticking, Settled, Complete, Copying, Readers
<1>. QED
  BY <1>5, <1>7, <1>8 DEF SnapshotInv

LEMMA SnapshotAlways == Spec => []SnapshotInv
<1>1. RecorderInv /\ SnapshotInv /\ [Next]_vars => SnapshotInv'
  <2>1. ASSUME RecorderInv, SnapshotInv, UNCHANGED vars PROVE SnapshotInv'
    BY <2>1, SnapshotInvKept DEF vars, readers
  <2>2. ASSUME RecorderInv, SnapshotInv, SamplerStep PROVE SnapshotInv'
    <3>1. UNCHANGED <<metrics, series, workers, rpc, snap, pool, history>>
      BY <2>2 DEF SamplerStep, Sample, SamplerReturns, readers
    <3>. QED
      BY <2>2, <3>1, SnapshotInvKept
  <2>. QED
    BY <2>1, <2>2, WorkerSnapshots, TickerSeries, MainSnapshot DEF Next, Terminating
<1>. QED
  BY <1>1, SnapshotStarts, RecorderAlways, PTL DEF Spec

\* metrics.go: the totals are added after the histograms are unlocked and read before the
\* histograms are copied, so that a snapshot taken while any number of workers record never
\* reports an operation or an error its histograms do not hold, and misses at most one
\* call per worker.
THEOREM SnapshotNeverAhead == Spec => []SnapshotLags
<1>1. SnapshotInv => SnapshotLags
  BY DEF SnapshotInv
<1>. QED
  BY <1>1, SnapshotAlways, PTL

\* ticker.go, RecordDelta: the time series adds up to the operations counted at the last
\* tick, with no interval below zero, for any number of ticks.
THEOREM SeriesAddsUp == Spec => []DeltasTelescope
<1>1. SnapshotInv => DeltasTelescope
  BY DEF SnapshotInv
<1>. QED
  BY <1>1, SnapshotAlways, PTL

\* orchestrator.go: the snapshot that the report is built from holds every operation and
\* every error of the run, and one more for every scan that returned documents, for any
\* number of workers and operations.
THEOREM ReportExact == Spec => []FinalExact
<1>1. TypeOK /\ SnapshotInv => FinalExact
  <2> SUFFICES ASSUME TypeOK, SnapshotInv, rpc["main"] = "reported" PROVE FinalExact
    BY DEF FinalExact
  <2> DEFINE s == snap["main"]
  <2>1. /\ Books /\ PoolDone
        /\ s.ops = totalOps /\ s.errs = totalErrs /\ s.counts = hists /\ s.opErrs = opErrs
    BY DEF SnapshotInv, Settled
  <2>2. At("ops") = {} /\ At("errs") = {} /\ Failing = {} /\ Cardinality({}) = 0
    BY <2>1, FS_EmptySet DEF PoolDone, At, Failing
  <2>3. Total(ToMake) = 0
    <3>1. ToMake = [w \in Workers |-> 0]
      BY <2>1 DEF ToMake, PoolDone
    <3>. QED
      BY <3>1, TotalOfZeros
  <2>4. /\ totalOps = Total(hists) + dropped /\ totalErrs = Total(opErrs) /\ totalErrs <= totalOps
        /\ totalErrs = failed /\ executed.ops + executed.scans = totalOps
    BY <2>1, <2>2, <2>3, Numbers DEF Books
  <2> HIDE DEF s
  <2>5. /\ s.ops = executed.ops + executed.scans /\ s.errs = failed
        /\ Total(s.counts) = s.ops - dropped
        /\ Total(s.opErrs) = s.errs /\ s.errs <= s.ops
    BY <2>1, <2>4, Numbers
  <2>. QED
    BY <2>5 DEF FinalExact, s
<1>2. RecorderInv => TypeOK
  BY DEF RecorderInv
<1>. QED
  BY <1>1, <1>2, RecorderAlways, SnapshotAlways, PTL
=============================================================================
