-------------------------------- MODULE Pool --------------------------------
(***************************************************************************)
(* worker.Pool.Run (internal/worker/pool.go) in its three modes: the main   *)
(* goroutine that spawns workers and waits for them, the workers' loops     *)
(* (Run and RunN of internal/worker/worker.go), the contexts that end them, *)
(* and the rate limiter they wait for.  What an operation does is modelled  *)
(* in KeySpace; here it either completes or fails with the context's error. *)
(***************************************************************************)
EXTENDS Integers, FiniteSets

CONSTANTS
    Modes,           \* the values of execution.mode considered
    Threads,         \* execution.threads
    OperationCount,  \* execution.operationCount, for mode "ops"
    OpsPerSec,       \* execution.targetOpsPerSec, 0 = unlimited
    InitialThreads, MaxThreads, StepSize   \* execution.rampup, for mode "rampup"

\* What Config.Validate demands of these values.
ASSUME PoolAssumption ==
    /\ Modes \subseteq {"time", "ops", "rampup"}
    /\ Threads \in Nat \ {0}
    /\ OperationCount \in Nat \ {0}
    /\ OpsPerSec \in Nat
    /\ InitialThreads \in Nat \ {0}
    /\ MaxThreads \in Nat /\ MaxThreads > InitialThreads
    /\ StepSize \in Nat \ {0}

VARIABLES
    tokens, refiller, fired, todo, done,   \* the rate limiter
    mode,        \* execution.mode of the pool
    main,        \* where Pool.Run is
    threads,     \* workers spawned by the running spawnAndWait
    ctxDone,     \* the context of the running workers is done
    parentDone,  \* the context given to Pool.Run is done
    wpc,         \* where each worker is in its loop
    left,        \* RunN: iterations left (mode "ops")
    result,      \* history: "nil" or the context's error, once Run has returned
    executed     \* history: operations completed, in mode "ops"

limiterVars == <<tokens, refiller, fired, todo, done>>
workers     == <<wpc, left>>
control     == <<mode, main, threads, ctxDone, parentDone>>
history     == <<result, executed>>
vars        == <<limiterVars, control, workers, history>>

\* The limiter is created for a positive target only.
Limited == OpsPerSec > 0
Limiter == INSTANCE RateLimiter WITH OpsPerSec <- IF Limited THEN OpsPerSec ELSE 1

Larger(a, b) == IF a >= b THEN a ELSE b
Ids == 1 .. Larger(Threads, MaxThreads)

-----------------------------------------------------------------------------
Init ==
    /\ Limiter!LimiterInit
    /\ mode \in Modes
    /\ main = "start"
    /\ threads = 0
    /\ ctxDone = FALSE
    /\ parentDone = FALSE
    /\ wpc = [w \in Ids |-> "off"]
    /\ left = [w \in Ids |-> 0]
    /\ result = "none"
    /\ executed = 0

\* Mutant of OpCounts: the remainder is given to nobody.
OpCountsNoRemainder == [w \in Ids |-> IF w > Threads THEN 0 ELSE OperationCount \div Threads]

\* runOpsBound: every worker gets the quotient, the last one the remainder too.
OpCounts == [w \in Ids |->
    IF w > Threads THEN 0
    ELSE OperationCount \div Threads + IF w = Threads THEN OperationCount % Threads ELSE 0]

Spawn(n) ==
    /\ main' = "wait"
    /\ threads' = n
    /\ wpc' = [w \in Ids |-> IF w <= n THEN "loop" ELSE "off"]

\* Run builds the limiter and enters the mode's strategy; time and ramp-up derive a
\* context with a deadline, runOpsBound passes the one it got.
Start ==
    /\ main = "start"
    /\ IF Limited THEN Limiter!Create ELSE UNCHANGED limiterVars
    /\ IF mode = "rampup"
       THEN /\ main' = "step" /\ threads' = InitialThreads
            /\ UNCHANGED <<wpc, left>>
       ELSE /\ Spawn(Threads)
            /\ left' = IF mode = "ops" THEN OpCounts ELSE left
    /\ UNCHANGED <<mode, ctxDone, parentDone, history>>

\* Mutant of RampStep: the step grows by doubling it.
RampStepDoubled ==
    /\ main = "step"
    /\ threads <= MaxThreads
    /\ ~parentDone
    /\ Spawn(2 * threads)
    /\ ctxDone' = FALSE
    /\ UNCHANGED <<limiterVars, mode, parentDone, left, history>>

\* runRampup: the head of the loop.  `threads` is the number of the next step.
RampStep ==
    /\ main = "step"
    /\ threads <= MaxThreads
    /\ ~parentDone
    /\ Spawn(threads)
    /\ ctxDone' = FALSE
    /\ UNCHANGED <<limiterVars, mode, parentDone, left, history>>

Return(err) ==
    /\ main' = "returned"
    /\ result' = err
    /\ IF Limited THEN Limiter!Stop ELSE UNCHANGED limiterVars

RampCancelled ==
    /\ main = "step"
    /\ threads <= MaxThreads
    /\ parentDone
    /\ Return("cancelled")
    /\ UNCHANGED <<mode, threads, ctxDone, parentDone, workers, executed>>

RampFinished ==
    /\ main = "step"
    /\ threads > MaxThreads
    /\ Return("nil")
    /\ UNCHANGED <<mode, threads, ctxDone, parentDone, workers, executed>>

\* A worker whose loop is over; "gaveUp" is one that ended although nothing cancelled it.
Ended == {"off", "stopped", "gaveUp"}

AllStopped == \A w \in Ids : wpc[w] \in Ended

\* Mutant of Joined: wg.Wait is missing.
JoinedEarly ==
    /\ main = "wait"
    /\ IF mode = "rampup"
       THEN /\ main' = "step" /\ threads' = threads + StepSize
            /\ UNCHANGED <<limiterVars, result>>
       ELSE Return("nil") /\ UNCHANGED threads
    /\ UNCHANGED <<mode, ctxDone, parentDone, workers, executed>>

\* wg.Wait returned: the next ramp-up step, or Run returns and its deferred
\* limiter.stop runs.
Joined ==
    /\ main = "wait"
    /\ AllStopped
    /\ IF mode = "rampup"
       THEN /\ main' = "step" /\ threads' = threads + StepSize
            /\ UNCHANGED <<limiterVars, result>>
       ELSE Return("nil") /\ UNCHANGED threads
    /\ UNCHANGED <<mode, ctxDone, parentDone, workers, executed>>

-----------------------------------------------------------------------------
\* Mutant of LeaveLoop: RunN and Run do not look at what should end them.
LeaveLoopNever(w) ==
    /\ wpc[w] = "loop"
    /\ mode = "ops" /\ left[w] = 0 /\ ctxDone
    /\ wpc' = [wpc EXCEPT ![w] = "stopped"]
    /\ UNCHANGED <<limiterVars, control, left, history>>

\* The head of the loop of Run and RunN: leave when RunN has no iteration left or
\* the context is done.
LeaveLoop(w) ==
    /\ wpc[w] = "loop"
    /\ ctxDone \/ (mode = "ops" /\ left[w] = 0)
    /\ wpc' = [wpc EXCEPT ![w] = "stopped"]
    /\ UNCHANGED <<limiterVars, control, left, history>>

\* Otherwise wait for a token, if the worker was given a limiter: ramp-up gives none.
EnterLoop(w) ==
    /\ wpc[w] = "loop"
    /\ ~ctxDone
    /\ mode = "ops" => left[w] > 0
    /\ wpc' = [wpc EXCEPT ![w] = IF Limited /\ mode # "rampup" THEN "token" ELSE "execute"]
    /\ UNCHANGED <<limiterVars, control, left, history>>

\* limiter.wait: a token, or the context's error; with both ready, either.
TakeToken(w) ==
    /\ wpc[w] = "token"
    /\ Limiter!Take
    /\ wpc' = [wpc EXCEPT ![w] = "execute"]
    /\ UNCHANGED <<control, left, history>>

WaitCancelled(w) ==
    /\ wpc[w] = "token"
    /\ ctxDone
    /\ wpc' = [wpc EXCEPT ![w] = "stopped"]
    /\ UNCHANGED <<limiterVars, control, left, history>>

\* The operation completed, with or without an error, and was recorded.
Complete(w) ==
    /\ wpc[w] = "execute"
    /\ wpc' = [wpc EXCEPT ![w] = "loop"]
    /\ IF mode = "ops"
       THEN left' = [left EXCEPT ![w] = @ - 1] /\ executed' = executed + 1
       ELSE UNCHANGED <<left, executed>>
    /\ UNCHANGED <<limiterVars, control, result>>

\* The operation failed with an error that is a cancellation or an exceeded deadline,
\* the context's or, while the context lives, one of the operation's own (a timeoutMS in
\* the connection string): it is not recorded and the worker ends.
ExecuteCancelled(w) ==
    /\ wpc[w] = "execute"
    /\ wpc' = [wpc EXCEPT ![w] = IF ctxDone THEN "stopped" ELSE "gaveUp"]
    /\ UNCHANGED <<limiterVars, control, left, history>>

-----------------------------------------------------------------------------
\* The deadline of the derived context; runOpsBound has none.
Expire ==
    /\ main = "wait"
    /\ mode # "ops"
    /\ ~ctxDone
    /\ ctxDone' = TRUE
    /\ UNCHANGED <<limiterVars, mode, main, threads, parentDone, workers, history>>

CancelParent ==
    /\ main # "returned"
    /\ ~parentDone
    /\ parentDone' = TRUE
    /\ ctxDone' = TRUE
    /\ UNCHANGED <<limiterVars, mode, main, threads, workers, history>>

\* The refill goroutine and the clock.
Refill ==
    /\ Limiter!Fire \/ Limiter!ReceiveTick \/ Limiter!Deposit \/ Limiter!Exit
    /\ UNCHANGED <<control, workers, history>>

Terminating ==
    /\ main = "returned" /\ refiller \in {"none", "exited"}
    /\ UNCHANGED vars

WorkerStep(w) ==
    \/ LeaveLoop(w) \/ EnterLoop(w)
    \/ TakeToken(w) \/ WaitCancelled(w)
    \/ Complete(w) \/ ExecuteCancelled(w)

MainStep == Start \/ RampStep \/ RampCancelled \/ RampFinished \/ Joined

Next ==
    \/ MainStep
    \/ \E w \in Ids : WorkerStep(w)
    \/ Expire \/ CancelParent \/ Refill \/ Terminating

Spec == Init /\ [][Next]_vars

\* Goroutines are scheduled, timers fire, operations end.  A worker waiting for a
\* token that comes again and again gets one (a channel serves its receivers in
\* order), and select chooses at random, so the refill goroutine sees the stop.
Fairness ==
    /\ WF_vars(MainStep)
    /\ WF_vars(Expire)
    /\ \A w \in Ids : WF_vars(WorkerStep(w)) /\ SF_vars(TakeToken(w))
    /\ WF_vars(Limiter!Fire /\ UNCHANGED <<control, workers, history>>)
    /\ WF_vars(Limiter!Deposit /\ UNCHANGED <<control, workers, history>>)
    /\ SF_vars(Limiter!ReceiveTick /\ UNCHANGED <<control, workers, history>>)
    /\ SF_vars(Limiter!Exit /\ UNCHANGED <<control, workers, history>>)

FairSpec == Spec /\ Fairness

-----------------------------------------------------------------------------
\* Every variable has its type.
TypeOK ==
    /\ Limiter!LimiterTypeOK
    /\ mode \in Modes
    /\ main \in {"start", "step", "wait", "returned"}
    /\ threads \in Nat
    /\ ctxDone \in BOOLEAN /\ parentDone \in BOOLEAN
    /\ wpc \in [Ids -> {"off", "loop", "token", "execute"} \cup Ended]
    /\ left \in [Ids -> Nat]
    /\ result \in {"none", "nil", "cancelled"}
    /\ executed \in Nat

Running == {w \in Ids : wpc[w] \notin Ended}

\* RunN: the iterations that the workers have left.
ToDo == UNION {{w} \X (1 .. left[w]) : w \in Ids}

\* README.md:76 and worker.go:77, "exactly N operations": a run in mode ops that was
\* not cancelled executed the operation count - unless a worker took an operation's own
\* timeout for the end of the run - and at no time is an operation of it lost or done
\* twice by the split among the workers.
ExactlyN ==
    (mode = "ops" /\ main \in {"wait", "returned"}) =>
        /\ executed + Cardinality(ToDo) = OperationCount
        /\ (main = "returned" /\ ~parentDone /\ \A w \in Ids : wpc[w] # "gaveUp")
            => executed = OperationCount

\* A ramp-up step starts only when the workers of the step before are gone, so at
\* most `threads` workers run, and none once Run has returned.
StepsDoNotOverlap ==
    /\ Cardinality(Running) <= threads
    /\ main # "wait" => Running = {}

\* Run returns when its context is cancelled, when the durations are over, or when
\* the operations are done, also with workers that wait for tokens; and the refill
\* goroutine does not outlive it.
EventuallyReturns == <>(main = "returned" /\ refiller \in {"none", "exited"})

\* A ramp-up that was not cancelled climbs to the last multiple of the step size
\* within maxThreads - which is maxThreads itself (README.md:567) only when the step
\* size divides the climb.
RampClimbs ==
    (mode = "rampup" /\ result = "nil") =>
        /\ threads - StepSize \in MaxThreads - StepSize + 1 .. MaxThreads
        /\ (threads - InitialThreads) % StepSize = 0
=============================================================================
