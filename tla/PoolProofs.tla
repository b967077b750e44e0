----------------------------- MODULE PoolProofs -----------------------------
(***************************************************************************)
(* Proofs about Pool, for any number of threads, operations and tokens and    *)
(* any ramp-up: its types, that the workers of one step are gone before those *)
(* of the next one start, how far a ramp-up climbs, and that a run in mode    *)
(* ops does every operation of its count once.                                *)
(***************************************************************************)
EXTENDS Pool, FiniteSetTheorems, TLAPS

\* Workers run while the main goroutine waits for them, and no more than it spawned.
WorkersKnown ==
    /\ main # "wait" => AllStopped
    /\ \A w \in Ids : wpc[w] \in Ended \/ w <= threads
    /\ mode = "ops" => \A w \in Ids : wpc[w] \in {"token", "execute"} => left[w] > 0

\* The number of threads of a ramp-up is its first one and a number of steps, and is
\* past the last step by one step at most.
RampKnown ==
    /\ result = "nil" => main = "returned"
    /\ (mode = "rampup" /\ main # "start") =>
           /\ \E n \in Nat : threads = InitialThreads + n * StepSize
           /\ main = "wait" => threads <= MaxThreads
           /\ threads <= MaxThreads + StepSize
           /\ result = "nil" => threads > MaxThreads

PoolInv == TypeOK /\ WorkersKnown /\ RampKnown

-----------------------------------------------------------------------------
LEMMA Multiples == ASSUME NEW n \in Nat, NEW d \in Nat \ {0} PROVE (n * d) % d = 0
<1> DEFINE q == (n * d) \div d
<1> DEFINE r == (n * d) % d
<1>1. n * d \in Nat
  OBVIOUS
<1>2. q \in Nat /\ r \in 0 .. d - 1 /\ n * d = d * q + r
  BY <1>1
<1> HIDE DEF q, r
<1>3. CASE n <= q
  <2>1. PICK m \in Nat : q = n + m
    <3>1. q - n \in Nat /\ q = n + (q - n)
      BY <1>2, <1>3
    <3>. QED
      BY <3>1
  <2>2. d * q = n * d + d * m /\ d * m \in Nat
    BY <2>1
  <2>. QED
    BY <1>1, <1>2, <2>2 DEF r
<1>4. CASE n > q
  <2>1. PICK m \in Nat : n = q + 1 + m
    <3>1. n - q - 1 \in Nat /\ n = q + 1 + (n - q - 1)
      BY <1>2, <1>4
    <3>. QED
      BY <3>1
  <2>2. n * d = d * q + d + d * m /\ d * m \in Nat /\ d * q \in Nat
    BY <1>2, <2>1
  <2>. QED
    BY <1>2, <2>2
<1>. QED
  BY <1>2, <1>3, <1>4

LEMMA LimiterSizes == Limiter!TokensPerTick \in Nat \ {0} /\ Limiter!Capacity \in Nat \ {0}
<1> DEFINE n == IF Limited THEN OpsPerSec ELSE 1
<1>1. n \in Nat \ {0}
  BY PoolAssumption DEF Limited
<1>2. /\ Limiter!Capacity = n
      /\ Limiter!TokensPerTick = IF n \div 10 < 1 THEN 1 ELSE n \div 10
  BY DEF Limiter!TokensPerTick, Limiter!TicksPerSec, Limiter!Capacity
<1> HIDE DEF n
<1>3. n \div 10 \in Nat
  BY <1>1
<1>. QED
  BY <1>1, <1>2, <1>3

\* The limiter keeps its types.
LEMMA LimiterTypes ==
    ASSUME Limiter!LimiterTypeOK,
           \/ UNCHANGED limiterVars
           \/ Limiter!Create \/ Limiter!Stop \/ Limiter!Take
           \/ Limiter!Fire \/ Limiter!ReceiveTick \/ Limiter!Deposit \/ Limiter!Exit
    PROVE  Limiter!LimiterTypeOK'
<1>1. Limiter!TokensPerTick' = Limiter!TokensPerTick /\ Limiter!Capacity' = Limiter!Capacity
  BY DEF Limiter!TokensPerTick, Limiter!TicksPerSec, Limiter!Capacity
<1>2. fired' \in BOOLEAN /\ done' \in BOOLEAN
  BY DEF Limiter!LimiterTypeOK, limiterVars, Limiter!Create, Limiter!Stop, Limiter!Take,
         Limiter!Fire, Limiter!ReceiveTick, Limiter!Deposit, Limiter!Exit
<1>3. /\ tokens' \in 0 .. Limiter!Capacity /\ todo' \in 0 .. Limiter!TokensPerTick
      /\ refiller' \in {"none", "select", "deposit", "exited"}
      /\ (refiller' = "deposit") <=> (todo' > 0)
  <2>. QED
    BY LimiterSizes DEF Limiter!LimiterTypeOK, limiterVars, Limiter!Create, Limiter!Stop, Limiter!Take,
         Limiter!Fire, Limiter!ReceiveTick, Limiter!Deposit, Limiter!Exit
<1>. QED
  BY <1>1, <1>2, <1>3 DEF Limiter!LimiterTypeOK

LEMMA IdsNumbered ==
    /\ Ids \subseteq Nat \ {0}
    /\ Threads \in Ids /\ 1 .. Threads \subseteq Ids /\ 1 .. MaxThreads \subseteq Ids
BY PoolAssumption DEF Ids, Larger

LEMMA OpCountsType == OpCounts \in [Ids -> Nat]
<1>1. OperationCount \div Threads \in Nat /\ OperationCount % Threads \in Nat
  BY PoolAssumption
<1>. QED
  BY <1>1 DEF OpCounts

LEMMA PoolStarts == Init => PoolInv
<1> SUFFICES ASSUME Init PROVE PoolInv
  OBVIOUS
<1>1. Limiter!LimiterTypeOK
  <2>1. fired \in BOOLEAN /\ done \in BOOLEAN /\ refiller = "none" /\ tokens = 0 /\ todo = 0
    BY DEF Init, Limiter!LimiterInit
  <2>2. tokens \in 0 .. Limiter!Capacity /\ todo \in 0 .. Limiter!TokensPerTick /\ ~(todo > 0)
    BY <2>1, LimiterSizes
  <2>. QED
    BY <2>1, <2>2 DEF Limiter!LimiterTypeOK
<1>2. TypeOK
  BY <1>1 DEF Init, TypeOK, Ended
<1>3. WorkersKnown /\ RampKnown
  BY DEF Init, WorkersKnown, RampKnown, AllStopped, Ended
<1>. QED
  BY <1>2, <1>3 DEF PoolInv

-----------------------------------------------------------------------------
(* The main goroutine.                                                       *)

LEMMA StartStays == ASSUME PoolInv, Start PROVE PoolInv'
<1> USE PoolAssumption DEF PoolInv
<1>1. Limiter!LimiterTypeOK'
  BY LimiterTypes DEF Start, TypeOK, Ended
<1>2. main = "start" /\ UNCHANGED <<mode, ctxDone, parentDone, result, executed>> /\ mode \in {"time", "ops", "rampup"}
  BY DEF Start, history, TypeOK, Ended
<1>3. CASE mode = "rampup"
  <2>1. main' = "step" /\ threads' = InitialThreads /\ wpc' = wpc /\ left' = left
    BY <1>3 DEF Start
  <2>2. TypeOK'
    BY <1>1, <1>2, <2>1 DEF TypeOK, Ended
  <2>3. WorkersKnown'
    BY <1>2, <1>3, <2>1 DEF WorkersKnown, AllStopped, Ended
  <2>4. \E n \in Nat : threads' = InitialThreads + n * StepSize
    <3>1. InitialThreads = InitialThreads + 0 * StepSize
      OBVIOUS
    <3>. QED
      BY <2>1, <3>1
  <2>5. RampKnown'
    BY <1>2, <2>1, <2>4 DEF RampKnown
  <2>. QED
    BY <2>2, <2>3, <2>5
<1>4. CASE mode # "rampup"
  <2>1. /\ main' = "wait" /\ threads' = Threads
        /\ wpc' = [w \in Ids |-> IF w <= Threads THEN "loop" ELSE "off"]
        /\ left' \in [Ids -> Nat]
    BY <1>4, OpCountsType DEF Start, Spawn, TypeOK, Ended
  <2>2. TypeOK'
    BY <1>1, <1>2, <2>1 DEF TypeOK, Ended
  <2>3. WorkersKnown'
    BY <2>1 DEF WorkersKnown, Ended
  <2>4. RampKnown'
    BY <1>2, <1>4 DEF RampKnown
  <2>. QED
    BY <2>2, <2>3, <2>4
<1>. QED
  BY <1>3, <1>4

LEMMA RampStepStays == ASSUME PoolInv, RampStep PROVE PoolInv'
<1> USE PoolAssumption DEF PoolInv
<1>1. /\ main = "step" /\ threads <= MaxThreads /\ main' = "wait" /\ threads' = threads /\ ctxDone' = FALSE
      /\ wpc' = [w \in Ids |-> IF w <= threads THEN "loop" ELSE "off"]
      /\ UNCHANGED <<limiterVars, mode, parentDone, left, result, executed>>
  BY DEF RampStep, Spawn, history
<1>2. TypeOK'
  BY <1>1, LimiterTypes DEF TypeOK, Ended
<1>3. WorkersKnown'
  BY <1>1 DEF WorkersKnown, Ended
<1>4. RampKnown'
  BY <1>1 DEF RampKnown
<1>. QED
  BY <1>2, <1>3, <1>4

\* Run returns, or the next step of a ramp-up begins: the workers are gone.
LEMMA LeaveStays ==
    ASSUME PoolInv, RampCancelled \/ RampFinished \/ Joined
    PROVE  PoolInv'
<1> USE PoolAssumption DEF PoolInv
<1>1. AllStopped /\ UNCHANGED <<mode, ctxDone, parentDone, wpc, left, executed>> /\ main # "start"
  BY DEF RampCancelled, RampFinished, Joined, workers, WorkersKnown
<1>2. Limiter!LimiterTypeOK'
  BY LimiterTypes DEF RampCancelled, RampFinished, Joined, Return, TypeOK, Ended
<1>3. AllStopped'
  BY <1>1 DEF AllStopped, Ended
<1>4. CASE Joined /\ mode = "rampup"
  <2>1. main = "wait" /\ main' = "step" /\ threads' = threads + StepSize /\ result' = result
    BY <1>4 DEF Joined
  <2>2. TypeOK'
    BY <1>1, <1>2, <2>1 DEF TypeOK, Ended
  <2>3. \E n \in Nat : threads' = InitialThreads + n * StepSize
    <3>1. PICK n \in Nat : threads = InitialThreads + n * StepSize
      BY <1>4, <2>1 DEF RampKnown
    <3>2. (n + 1) * StepSize = n * StepSize + StepSize /\ n * StepSize \in Nat
      OBVIOUS
    <3>3. threads' = InitialThreads + (n + 1) * StepSize
      BY <2>1, <3>1, <3>2
    <3>. QED
      BY <3>3
  <2>4. threads <= MaxThreads /\ threads' <= MaxThreads + StepSize /\ result # "nil"
    BY <1>4, <2>1 DEF RampKnown, TypeOK, Ended
  <2>. QED
    BY <1>1, <1>3, <2>1, <2>2, <2>3, <2>4 DEF WorkersKnown, RampKnown, AllStopped, Ended
<1>5. CASE RampCancelled \/ RampFinished \/ (Joined /\ mode # "rampup")
  <2>1. main' = "returned" /\ threads' = threads /\ result' \in {"nil", "cancelled"}
    BY <1>5 DEF RampCancelled, RampFinished, Joined, Return
  <2>2. (mode = "rampup" /\ result' = "nil") => threads > MaxThreads
    BY <1>5 DEF RampCancelled, RampFinished, Joined, Return
  <2>3. TypeOK'
    BY <1>1, <1>2, <2>1 DEF TypeOK, Ended
  <2>4. WorkersKnown'
    BY <1>1, <1>3, <2>1 DEF WorkersKnown, AllStopped, Ended
  <2>5. RampKnown'
    BY <1>1, <2>1, <2>2 DEF RampKnown
  <2>. QED
    BY <2>3, <2>4, <2>5
<1>. QED
  BY <1>4, <1>5

-----------------------------------------------------------------------------
(* The workers, the contexts and the refill goroutine.                       *)

LEMMA WorkerStays == ASSUME PoolInv, NEW w \in Ids, WorkerStep(w) PROVE PoolInv'
<1> USE PoolAssumption DEF PoolInv
<1>1. /\ main' = main /\ mode' = mode /\ threads' = threads /\ ctxDone' = ctxDone
      /\ parentDone' = parentDone /\ result' = result
  BY DEF WorkerStep, LeaveLoop, EnterLoop, TakeToken, WaitCancelled, Complete, ExecuteCancelled, control, history
<1>2. Limiter!LimiterTypeOK'
  BY LimiterTypes DEF WorkerStep, LeaveLoop, EnterLoop, TakeToken, WaitCancelled, Complete, ExecuteCancelled, TypeOK, Ended
<1>3. /\ wpc[w] \in {"loop", "token", "execute"}
      /\ \E place \in {"loop", "token", "execute", "stopped", "gaveUp"} : wpc' = [wpc EXCEPT ![w] = place]
  BY DEF WorkerStep, LeaveLoop, EnterLoop, TakeToken, WaitCancelled, Complete, ExecuteCancelled
<1>4. main = "wait" /\ w <= threads
  BY <1>3 DEF WorkersKnown, AllStopped, Ended
<1>5. PICK place \in {"loop", "token", "execute", "stopped", "gaveUp"} : wpc' = [wpc EXCEPT ![w] = place]
  BY <1>3
<1>6. /\ left' \in [Ids -> Nat] /\ executed' \in Nat
      /\ \A u \in Ids \ {w} : left'[u] = left[u]
      /\ (mode = "ops" /\ place \in {"token", "execute"}) => left'[w] > 0
  <2>1. CASE Complete(w)
    <3>1. place = "loop"
      BY <1>5, <2>1 DEF Complete, TypeOK, Ended
    <3>2. CASE mode = "ops"
      <4>1. left' = [left EXCEPT ![w] = @ - 1] /\ executed' = executed + 1 /\ left[w] > 0
        BY <2>1, <3>2 DEF Complete, WorkersKnown
      <4>. QED
        BY <3>1, <4>1 DEF TypeOK, Ended
    <3>3. CASE mode # "ops"
      BY <2>1, <3>1, <3>3 DEF Complete, TypeOK, Ended
    <3>. QED
      BY <3>2, <3>3
  <2>2. CASE ~Complete(w)
    <3>1. left' = left /\ executed' = executed
      BY <2>2 DEF WorkerStep, LeaveLoop, EnterLoop, TakeToken, WaitCancelled, ExecuteCancelled, history
    <3>2. (mode = "ops" /\ place \in {"token", "execute"}) => left[w] > 0
      BY <1>5, <2>2 DEF WorkerStep, LeaveLoop, EnterLoop, TakeToken, WaitCancelled, ExecuteCancelled,
                        WorkersKnown, TypeOK
    <3>. QED
      BY <3>1, <3>2 DEF TypeOK, Ended
  <2>. QED
    BY <2>1, <2>2
<1>7. TypeOK'
  BY <1>1, <1>2, <1>5, <1>6 DEF TypeOK, Ended
<1>8. WorkersKnown'
  BY <1>1, <1>4, <1>5, <1>6 DEF WorkersKnown, TypeOK, Ended
<1>9. RampKnown'
  BY <1>1 DEF RampKnown
<1>. QED
  BY <1>7, <1>8, <1>9

LEMMA OthersStay == ASSUME PoolInv, Expire \/ CancelParent \/ Refill \/ UNCHANGED vars PROVE PoolInv'
<1> USE PoolAssumption DEF PoolInv
<1>1. /\ main' = main /\ mode' = mode /\ threads' = threads /\ wpc' = wpc /\ left' = left
      /\ result' = result /\ executed' = executed
      /\ ctxDone' \in {ctxDone, TRUE} /\ parentDone' \in {parentDone, TRUE}
  BY DEF Expire, CancelParent, Refill, vars, control, workers, history
<1>2. Limiter!LimiterTypeOK'
  BY LimiterTypes DEF Expire, CancelParent, Refill, vars, TypeOK, Ended
<1>3. TypeOK'
  BY <1>1, <1>2 DEF TypeOK, Ended
<1>4. WorkersKnown' /\ RampKnown'
  BY <1>1 DEF WorkersKnown, AllStopped, Ended, RampKnown
<1>. QED
  BY <1>3, <1>4

LEMMA PoolAlways == Spec => []PoolInv
<1>1. PoolInv /\ [Next]_vars => PoolInv'
  BY StartStays, RampStepStays, LeaveStays, WorkerStays, OthersStay DEF Next, MainStep, Terminating
<1>. QED
  BY PoolStarts, <1>1, PTL DEF Spec

\* Every variable has its type, whatever the threads, the operations and the tokens.
THEOREM TypeCorrect == Spec => []TypeOK
<1>1. PoolInv => TypeOK
  BY DEF PoolInv
<1>. QED
  BY <1>1, PoolAlways, PTL

\* pool.go:105-141, for every ramp-up: the workers of a step are gone before the next one, at
\* most `threads` run, and none once Run has returned.
THEOREM StepsApart == Spec => []StepsDoNotOverlap
<1>1. PoolInv => StepsDoNotOverlap
  <2> SUFFICES ASSUME PoolInv PROVE StepsDoNotOverlap
    OBVIOUS
  <2>1. Running \subseteq 1 .. threads /\ threads \in Nat
    <3>1. \A w \in Running : w \in Nat \ {0} /\ w <= threads
      BY IdsNumbered DEF PoolInv, WorkersKnown, Running
    <3>2. threads \in Nat
      BY DEF PoolInv, TypeOK, Ended
    <3>. QED
      BY <3>1, <3>2
  <2>2. IsFiniteSet(1 .. threads) /\ Cardinality(1 .. threads) = threads
    BY <2>1, FS_Interval
  <2>3. Cardinality(Running) <= threads
    BY <2>1, <2>2, FS_Subset
  <2>4. main # "wait" => Running = {}
    BY DEF PoolInv, WorkersKnown, AllStopped, Ended, Running
  <2>. QED
    BY <2>3, <2>4 DEF StepsDoNotOverlap
<1>. QED
  BY <1>1, PoolAlways, PTL

\* README.md:567, for every ramp-up: the climb ends at the last step within maxThreads.
THEOREM ClimbsToLastStep == Spec => []RampClimbs
<1>1. PoolInv => RampClimbs
  <2> SUFFICES ASSUME PoolInv, mode = "rampup", result = "nil"
               PROVE  /\ threads - StepSize \in MaxThreads - StepSize + 1 .. MaxThreads
                      /\ (threads - InitialThreads) % StepSize = 0
    BY DEF RampClimbs
  <2> USE PoolAssumption
  <2>1. PICK n \in Nat : threads = InitialThreads + n * StepSize
    BY DEF PoolInv, RampKnown
  <2>2. threads \in Nat /\ threads > MaxThreads /\ threads <= MaxThreads + StepSize
    BY DEF PoolInv, RampKnown, TypeOK, Ended
  <2>3. n * StepSize \in Nat /\ threads - InitialThreads = n * StepSize
    BY <2>1
  <2>4. (n * StepSize) % StepSize = 0
    BY Multiples
  <2>. QED
    BY <2>2, <2>3, <2>4
<1>. QED
  BY <1>1, PoolAlways, PTL
-----------------------------------------------------------------------------
(* Mode ops: every operation is done once.                                   *)

\* What is left for the workers is what the count lacks, unless the run was cancelled.
OpsKnown ==
    mode = "ops" =>
        /\ main # "step"
        /\ ctxDone => parentDone
        /\ main = "start" => executed = 0
        /\ main # "start" =>
               /\ IsFiniteSet(ToDo) /\ executed + Cardinality(ToDo) = OperationCount
               /\ \A w \in Ids : wpc[w] = "off" => left[w] = 0
               /\ \A w \in Ids : wpc[w] = "stopped" => left[w] = 0 \/ parentDone

\* runOpsBound splits the operation count without losing or repeating an operation.
LEMMA SplitIsWhole ==
    ASSUME NEW f, f = OpCounts, NEW S, S = UNION {{w} \X (1 .. f[w]) : w \in Ids}
    PROVE  IsFiniteSet(S) /\ Cardinality(S) = OperationCount
<1> DEFINE q == OperationCount \div Threads
           r == OperationCount % Threads
           even == (1 .. Threads) \X (1 .. q)
           rest == {Threads} \X (q + 1 .. q + r)
<1>1. /\ q \in Nat /\ r \in Nat /\ Threads \in Nat /\ OperationCount \in Nat
      /\ OperationCount = Threads * q + r
  BY PoolAssumption
<1>2. \A w \in Ids : f[w] = IF w > Threads THEN 0 ELSE IF w = Threads THEN q + r ELSE q
  BY <1>1 DEF OpCounts
<1> HIDE DEF q, r
<1>3. S = even \cup rest
  <2>1. \A p : p \in S <=> \E w \in Ids : \E i \in 1 .. f[w] : p = <<w, i>>
    OBVIOUS
  <2>2. \A p : p \in even <=> \E w \in 1 .. Threads : \E i \in 1 .. q : p = <<w, i>>
    OBVIOUS
  <2>3. \A p : p \in rest <=> \E i \in q + 1 .. q + r : p = <<Threads, i>>
    OBVIOUS
  <2>4. \A i : i \in 1 .. q + r <=> i \in 1 .. q \/ i \in q + 1 .. q + r
    BY <1>1
  <2>5. /\ \A w \in Ids : w > Threads => 1 .. f[w] = {}
        /\ \A w \in 1 .. Threads : w \in Ids /\ (w # Threads => f[w] = q)
        /\ \A w \in Ids : ~(w > Threads) => w \in 1 .. Threads
        /\ Threads \in Ids /\ Threads \in 1 .. Threads /\ f[Threads] = q + r
    BY <1>1, <1>2, IdsNumbered, PoolAssumption
  <2> HIDE DEF even, rest
  <2>6. \A p : p \in S => p \in even \cup rest
    <3> SUFFICES ASSUME NEW w \in Ids, NEW i \in 1 .. f[w] PROVE <<w, i>> \in even \cup rest
      BY <2>1
    <3>1. w \in 1 .. Threads
      BY <2>5
    <3>2. CASE w = Threads
      BY <2>2, <2>3, <2>4, <2>5, <3>1, <3>2
    <3>3. CASE w # Threads
      BY <2>2, <2>5, <3>1, <3>3
    <3>. QED
      BY <3>2, <3>3
  <2>7. \A p : p \in even => p \in S
    <3> SUFFICES ASSUME NEW w \in 1 .. Threads, NEW i \in 1 .. q PROVE <<w, i>> \in S
      BY <2>2
    <3>1. w \in Ids /\ i \in 1 .. f[w]
      BY <2>4, <2>5
    <3>. QED
      BY <2>1, <3>1
  <2>8. \A p : p \in rest => p \in S
    <3> SUFFICES ASSUME NEW i \in q + 1 .. q + r PROVE <<Threads, i>> \in S
      BY <2>3
    <3>. QED
      BY <2>1, <2>4, <2>5
  <2>. QED
    BY <2>6, <2>7, <2>8
<1>4. even \cap rest = {}
  BY <1>1
<1>5. IsFiniteSet(even) /\ Cardinality(even) = Threads * q
  <2>1. 1 \in Int /\ Threads \in Int /\ q \in Int
    BY <1>1
  <2>2. /\ IsFiniteSet(1 .. Threads) /\ Cardinality(1 .. Threads) = IF 1 > Threads THEN 0 ELSE Threads - 1 + 1
        /\ IsFiniteSet(1 .. q) /\ Cardinality(1 .. q) = IF 1 > q THEN 0 ELSE q - 1 + 1
    BY ONLY <2>1, FS_Interval
  <2>3. Cardinality(1 .. Threads) = Threads /\ Cardinality(1 .. q) = q
    BY <1>1, <2>2
  <2>. QED
    BY <2>2, <2>3, FS_Product
<1>6. IsFiniteSet(rest) /\ Cardinality(rest) = r
  <2> DEFINE lo == q + 1
             hi == q + r
  <2>1. lo \in Int /\ hi \in Int /\ (IF lo > hi THEN 0 ELSE hi - lo + 1) = r
    BY <1>1
  <2> HIDE DEF lo, hi
  <2>2. IsFiniteSet(lo .. hi) /\ Cardinality(lo .. hi) = r
    BY ONLY <2>1, FS_Interval
  <2>3. IsFiniteSet({Threads}) /\ Cardinality({Threads}) = 1
    BY FS_Singleton
  <2>4. IsFiniteSet({Threads} \X (lo .. hi)) /\ Cardinality({Threads} \X (lo .. hi)) = 1 * r
    BY <2>2, <2>3, FS_Product
  <2>. QED
    BY <1>1, <2>4 DEF lo, hi
<1> HIDE DEF even, rest
<1>7. /\ IsFiniteSet(even \cup rest)
      /\ Cardinality(even \cup rest) = Cardinality(even) + Cardinality(rest) - Cardinality(even \cap rest)
  BY <1>5, <1>6, FS_Union
<1>8. Cardinality(even \cap rest) = 0
  BY <1>4, FS_EmptySet
<1>9. Threads * q \in Nat
  BY <1>1
<1>10. Cardinality(even \cup rest) = OperationCount
  BY ONLY <1>1, <1>5, <1>6, <1>7, <1>8, <1>9
<1>. QED
  BY ONLY <1>3, <1>7, <1>10

LEMMA OpsStart == ASSUME PoolInv, OpsKnown, Start PROVE OpsKnown'
<1>1. UNCHANGED <<mode, ctxDone, parentDone, executed>> /\ main = "start"
  BY DEF Start, history
<1>0. CASE mode # "ops"
  BY <1>0, <1>1 DEF OpsKnown
<1> SUFFICES ASSUME mode = "ops" PROVE OpsKnown'
  BY <1>0
<1>2. main' = "wait" /\ left' = OpCounts /\ wpc' = [w \in Ids |-> IF w <= Threads THEN "loop" ELSE "off"]
  BY DEF Start, Spawn
<1>3. IsFiniteSet(ToDo') /\ Cardinality(ToDo') = OperationCount
  <2>1. ToDo' = UNION {{w} \X (1 .. OpCounts[w]) : w \in Ids}
    BY <1>2 DEF ToDo
  <2>. QED
    BY <2>1, SplitIsWhole
<1>4. \A w \in Ids : wpc'[w] = "off" => left'[w] = 0
  <2> SUFFICES ASSUME NEW w \in Ids, wpc'[w] = "off" PROVE left'[w] = 0
    OBVIOUS
  <2>1. w > Threads
    BY <1>2, IdsNumbered, PoolAssumption
  <2>. QED
    BY <1>2, <2>1 DEF OpCounts
<1>5. \A w \in Ids : wpc'[w] # "stopped"
  BY <1>2
<1>6. executed = 0 /\ (ctxDone => parentDone)
  BY <1>1 DEF OpsKnown
<1>7. executed' + Cardinality(ToDo') = OperationCount
  BY <1>1, <1>3, <1>6, PoolAssumption
<1>. QED
  BY <1>1, <1>2, <1>3, <1>4, <1>5, <1>6, <1>7 DEF OpsKnown

\* A completed operation is one that was left, of the worker that did it.
LEMMA OpsComplete ==
    ASSUME PoolInv, OpsKnown, NEW w \in Ids, Complete(w), mode = "ops"
    PROVE  OpsKnown'
<1>1. /\ wpc[w] = "execute" /\ wpc' = [wpc EXCEPT ![w] = "loop"]
      /\ left' = [left EXCEPT ![w] = @ - 1] /\ executed' = executed + 1
      /\ UNCHANGED control
  BY DEF Complete
<1>2. left \in [Ids -> Nat] /\ left[w] > 0 /\ main = "wait" /\ executed \in Nat
  BY <1>1 DEF PoolInv, TypeOK, WorkersKnown, AllStopped, Ended
<1>3. IsFiniteSet(ToDo) /\ executed + Cardinality(ToDo) = OperationCount
  BY <1>2 DEF OpsKnown
<1>4. ToDo' = ToDo \ {<<w, left[w]>>} /\ <<w, left[w]>> \in ToDo
  <2>1. \A p : p \in ToDo <=> \E v \in Ids : \E i \in 1 .. left[v] : p = <<v, i>>
    BY DEF ToDo
  <2>2. \A p : p \in ToDo' <=> \E v \in Ids : \E i \in 1 .. left'[v] : p = <<v, i>>
    BY DEF ToDo
  <2>3. \A v \in Ids \ {w} : left'[v] = left[v]
    BY <1>1, <1>2
  <2>4. left'[w] = left[w] - 1
    BY <1>1, <1>2
  <2>5. /\ \A i : i \in 1 .. left[w] - 1 <=> i \in 1 .. left[w] /\ i # left[w]
        /\ left[w] \in 1 .. left[w]
    BY <1>2
  <2>6. <<w, left[w]>> \in ToDo
    BY <2>1, <2>5
  <2>7. \A p : p \in ToDo' <=> p \in ToDo /\ p # <<w, left[w]>>
    BY <2>1, <2>2, <2>3, <2>4, <2>5
  <2>. QED
    BY <2>6, <2>7
<1>5. IsFiniteSet(ToDo') /\ Cardinality(ToDo') = Cardinality(ToDo) - 1
  BY <1>3, <1>4, FS_RemoveElement
<1>6. executed' + Cardinality(ToDo') = OperationCount
  <2>1. Cardinality(ToDo) \in Nat
    BY <1>3, FS_CardinalityType
  <2>. QED
    BY <1>1, <1>2, <1>3, <1>5, <2>1
<1>7. \A v \in Ids : /\ wpc'[v] = "off" => left'[v] = 0
                     /\ wpc'[v] = "stopped" => left'[v] = 0 \/ parentDone
  BY <1>1, <1>2 DEF OpsKnown, PoolInv, TypeOK, Ended
<1>. QED
  BY <1>1, <1>2, <1>5, <1>6, <1>7 DEF OpsKnown, control

\* A worker ends when it has no iteration left, or when the run was cancelled.
LEMMA OpsWorker ==
    ASSUME PoolInv, OpsKnown, NEW w \in Ids, WorkerStep(w), ~Complete(w), mode = "ops"
    PROVE  OpsKnown'
<1>1. UNCHANGED <<control, left, executed>>
  BY DEF WorkerStep, LeaveLoop, EnterLoop, TakeToken, WaitCancelled, ExecuteCancelled, history
<1>2. \E place \in {"token", "execute", "stopped", "gaveUp"} :
         /\ wpc' = [wpc EXCEPT ![w] = place]
         /\ place = "stopped" => ctxDone \/ left[w] = 0
  BY DEF WorkerStep, LeaveLoop, EnterLoop, TakeToken, WaitCancelled, ExecuteCancelled
<1>3. wpc \in [Ids -> {"off", "loop", "token", "execute", "stopped", "gaveUp"}]
  BY DEF PoolInv, TypeOK, Ended
<1>4. ToDo' = ToDo
  BY <1>1 DEF ToDo
<1>. QED
  BY <1>1, <1>2, <1>3, <1>4 DEF OpsKnown, control

LEMMA OpsStays == ASSUME PoolInv, OpsKnown, [Next]_vars PROVE OpsKnown'
<1>1. CASE Start
  BY <1>1, OpsStart
<1>2. ASSUME NEW w \in Ids, WorkerStep(w) PROVE OpsKnown'
  <2>1. mode' = mode
    BY <1>2 DEF WorkerStep, LeaveLoop, EnterLoop, TakeToken, WaitCancelled, Complete, ExecuteCancelled, control
  <2>2. CASE mode = "ops"
    BY <1>2, <2>2, OpsComplete, OpsWorker
  <2>. QED
    BY <2>1, <2>2 DEF OpsKnown
<1>3. CASE RampStep \/ RampCancelled \/ RampFinished
  BY <1>3 DEF RampStep, RampCancelled, RampFinished, OpsKnown
<1>4. CASE Joined
  <2>1. /\ UNCHANGED <<mode, ctxDone, parentDone, wpc, left, executed>> /\ main = "wait"
        /\ mode = "ops" => main' = "returned"
    BY <1>4 DEF Joined, Return, workers
  <2>2. ToDo' = ToDo
    BY <2>1 DEF ToDo
  <2>. QED
    BY <2>1, <2>2 DEF OpsKnown
<1>5. CASE Expire \/ CancelParent \/ Refill \/ UNCHANGED vars
  <2>1. /\ UNCHANGED <<mode, main, wpc, left, executed>>
        /\ mode = "ops" => (ctxDone' = ctxDone /\ parentDone' = parentDone) \/ parentDone'
        /\ parentDone => parentDone'
    BY <1>5 DEF Expire, CancelParent, Refill, vars, control, workers, history
  <2>2. ToDo' = ToDo
    BY <2>1 DEF ToDo
  <2>. QED
    BY <2>1, <2>2 DEF OpsKnown
<1>. QED
  BY <1>1, <1>2, <1>3, <1>4, <1>5 DEF Next, MainStep, Terminating

LEMMA OpsAlways == Spec => []OpsKnown
<1>1. Init => OpsKnown
  BY DEF Init, OpsKnown
<1>. QED
  BY <1>1, OpsStays, PoolAlways, PTL DEF Spec

\* README.md:76, worker.go:77, for every operation count and every number of threads: the
\* operations done and those left to the workers are the operation count, and a run that was
\* not cancelled did them all.
THEOREM CountIsExact == Spec => []ExactlyN
<1>1. PoolInv /\ OpsKnown => ExactlyN
  <2> SUFFICES ASSUME PoolInv, OpsKnown, mode = "ops", main \in {"wait", "returned"}
               PROVE  /\ executed + Cardinality(ToDo) = OperationCount
                      /\ (main = "returned" /\ ~parentDone /\ \A w \in Ids : wpc[w] # "gaveUp")
                           => executed = OperationCount
    BY DEF ExactlyN
  <2>1. executed + Cardinality(ToDo) = OperationCount
    BY DEF OpsKnown
  <2>2. ASSUME main = "returned", ~parentDone, \A w \in Ids : wpc[w] # "gaveUp"
        PROVE  executed = OperationCount
    <3>1. \A w \in Ids : left[w] = 0
      BY <2>2 DEF PoolInv, WorkersKnown, AllStopped, Ended, OpsKnown
    <3>2. ToDo = {}
      BY <3>1 DEF ToDo
    <3>3. Cardinality(ToDo) = 0 /\ executed \in Nat
      BY <3>2, FS_EmptySet DEF PoolInv, TypeOK, Ended
    <3>. QED
      BY <2>1, <3>3
  <2>. QED
    BY <2>1, <2>2
<1>. QED
  BY <1>1, PoolAlways, OpsAlways, PTL
=============================================================================
