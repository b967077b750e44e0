----------------------------- MODULE Scheduler -----------------------------
(***************************************************************************)
(* scheduler.Scheduler.Start (internal/scheduler/scheduler.go) and its       *)
(* caller (cmd/schedule.go): one goroutine that waits for the bound, and a   *)
(* goroutine per cron trigger that checks the bound and runs a benchmark.    *)
(* Nothing keeps a trigger from firing while an earlier run is still going   *)
(* on, and nothing waits for such a run when the scheduler stops.  The       *)
(* caller's context is the background context: only runFor ends it.          *)
(*                                                                         *)
(* What a run does is left open here; ScheduledRuns refines it.               *)
(*                                                                         *)
(* Triggers are a minute apart or more, so checking the bound and closing    *)
(* the stop channel is one step; a benchmark lasts any number of triggers.   *)
(***************************************************************************)
EXTENDS Integers, FiniteSets

CONSTANTS
    Bounds,         \* the values of schedule.bounds.type considered
    MaxRuns,        \* schedule.bounds.maxRuns
    Slots,          \* bound: triggers whose goroutines are alive at a time
    MaxCompleted    \* bound: runs counted, for bounds that do not count

ASSUME SchedulerAssumption ==
    /\ Bounds \subseteq {"unlimited", "runFor", "maxRuns", "timeWindow"}
    /\ MaxRuns \in Nat \ {0}
    /\ IsFiniteSet(Slots)
    /\ MaxCompleted \in Nat

VARIABLES
    bound,      \* bounds.Type
    clock,      \* the time against startAt and stopAt: "before", "open", "closed"
    ctxDone,    \* the context that runFor derives is done
    main,       \* where Start and its caller are
    stop,       \* Scheduler.stop is closed
    job,        \* what the goroutine of each slot does
    completed,  \* Scheduler.completed
    total,      \* the number Start returned
    succeeded,  \* history: runs that returned nil
    peak        \* history: most runs going on at once

vars == <<bound, clock, ctxDone, main, stop, job, completed, total, succeeded, peak>>

Running == {s \in Slots : job[s] = "running"}
Returned == main \in {"returned", "exited"}

-----------------------------------------------------------------------------
Init ==
    /\ bound \in Bounds
    /\ clock \in IF bound = "timeWindow" THEN {"before", "open", "closed"} ELSE {"open"}
    /\ ctxDone = FALSE
    /\ main = "start"
    /\ stop = FALSE
    /\ job = [s \in Slots |-> "free"]
    /\ completed = 0
    /\ total = 0
    /\ succeeded = 0
    /\ peak = 0

\* Start up to c.Start(): a window that is not open yet is waited for.
Start ==
    /\ main = "start"
    /\ main' = IF bound = "timeWindow" /\ clock = "before" THEN "waiting" ELSE "running"
    /\ UNCHANGED <<bound, clock, ctxDone, stop, job, completed, total, succeeded, peak>>

WindowWaited ==
    /\ main = "waiting"
    /\ clock # "before"
    /\ main' = "running"
    /\ UNCHANGED <<bound, clock, ctxDone, stop, job, completed, total, succeeded, peak>>

\* Only a time window looks at the clock.
TimePasses ==
    /\ bound = "timeWindow"
    /\ \/ clock = "before" /\ clock' = "open"
       \/ clock = "open" /\ clock' = "closed"
    /\ UNCHANGED <<bound, ctxDone, main, stop, job, completed, total, succeeded, peak>>

\* runFor: the deadline of the derived context.
Expire ==
    /\ bound = "runFor"
    /\ main = "running"
    /\ ~ctxDone
    /\ ctxDone' = TRUE
    /\ UNCHANGED <<bound, clock, main, stop, job, completed, total, succeeded, peak>>

-----------------------------------------------------------------------------
\* The cron starts a goroutine for a trigger, whatever the earlier ones are doing.
Fire(s) ==
    /\ main = "running"
    /\ job[s] = "free"
    /\ job' = [job EXCEPT ![s] = "fired"]
    /\ UNCHANGED <<bound, clock, ctxDone, main, stop, completed, total, succeeded, peak>>

\* Mutant of BoundReached: one run more is let through.
BoundReachedLate ==
    \/ bound = "timeWindow" /\ clock = "closed"
    \/ bound = "maxRuns" /\ completed > MaxRuns

\* Mutant of BoundReached: stopAt is not looked at.
BoundReachedNoStopAt == bound = "maxRuns" /\ completed >= MaxRuns

\* Mutant of BoundReached: the runs that were started are counted.
BoundReachedStarted ==
    \/ bound = "timeWindow" /\ clock = "closed"
    \/ bound = "maxRuns" /\ completed + Cardinality(Running) >= MaxRuns

\* The bounds that a trigger checks.
BoundReached ==
    \/ bound = "timeWindow" /\ clock = "closed"
    \/ bound = "maxRuns" /\ completed >= MaxRuns

\* Mutant of StopAtBound: the trigger returns and the channel stays open.
StopAtBoundSilently(s) ==
    /\ job[s] = "fired"
    /\ main # "exited"
    /\ BoundReached
    /\ job' = [job EXCEPT ![s] = "free"]
    /\ UNCHANGED <<bound, clock, ctxDone, main, stop, completed, total, succeeded, peak>>

\* A trigger finds its bound reached: close the channel, unless it is closed.
StopAtBound(s) ==
    /\ job[s] = "fired"
    /\ main # "exited"
    /\ BoundReached
    /\ stop' = TRUE
    /\ job' = [job EXCEPT ![s] = "free"]
    /\ UNCHANGED <<bound, clock, ctxDone, main, completed, total, succeeded, peak>>

\* Otherwise it runs a benchmark.
StartRun(s) ==
    /\ job[s] = "fired"
    /\ main # "exited"
    /\ ~BoundReached
    /\ job' = [job EXCEPT ![s] = "running"]
    /\ peak' = IF Cardinality(Running) + 1 > peak THEN Cardinality(Running) + 1 ELSE peak
    /\ UNCHANGED <<bound, clock, ctxDone, main, stop, completed, total, succeeded>>

Succeed(s) ==
    /\ job[s] = "running"
    /\ completed < MaxCompleted
    /\ job' = [job EXCEPT ![s] = "free"]
    /\ completed' = completed + 1
    /\ succeeded' = succeeded + 1
    /\ UNCHANGED <<bound, clock, ctxDone, main, stop, total, peak>>

\* Mutant of Fail: a run that failed is counted.
FailCounted(s) ==
    /\ job[s] = "running"
    /\ completed < MaxCompleted
    /\ job' = [job EXCEPT ![s] = "free"]
    /\ completed' = completed + 1
    /\ UNCHANGED <<bound, clock, ctxDone, main, stop, total, succeeded, peak>>

Fail(s) ==
    /\ job[s] = "running"
    /\ job' = [job EXCEPT ![s] = "free"]
    /\ UNCHANGED <<bound, clock, ctxDone, main, stop, completed, total, succeeded, peak>>

-----------------------------------------------------------------------------
\* The select of Start: the context or the stop channel; the cron is stopped, the
\* goroutines of its triggers are not.
Return ==
    /\ main = "running"
    /\ ctxDone \/ stop
    /\ main' = "returned"
    /\ total' = completed
    /\ UNCHANGED <<bound, clock, ctxDone, stop, job, completed, succeeded, peak>>

\* runSchedule returns: the process ends and with it the runs still going on.
Exit ==
    /\ main = "returned"
    /\ main' = "exited"
    /\ job' = [s \in Slots |-> "free"]
    /\ UNCHANGED <<bound, clock, ctxDone, stop, completed, total, succeeded, peak>>

Terminating == main = "exited" /\ UNCHANGED vars

JobStep(s) == StopAtBound(s) \/ StartRun(s) \/ Succeed(s) \/ Fail(s)

Next ==
    \/ Start \/ WindowWaited \/ TimePasses \/ Expire \/ Return \/ Exit
    \/ \E s \in Slots : Fire(s) \/ JobStep(s)
    \/ Terminating

Spec == Init /\ [][Next]_vars

-----------------------------------------------------------------------------
\* Every variable has its type; no goroutine of a trigger exists before the cron is
\* started or after the process ended.
TypeOK ==
    /\ bound \in Bounds
    /\ clock \in {"before", "open", "closed"}
    /\ ctxDone \in BOOLEAN /\ stop \in BOOLEAN
    /\ main \in {"start", "waiting", "running", "returned", "exited"}
    /\ job \in [Slots -> {"free", "fired", "running"}]
    /\ completed \in Nat /\ total \in Nat /\ succeeded \in Nat /\ peak \in Nat
    /\ main \in {"start", "waiting", "exited"} => \A s \in Slots : job[s] = "free"

\* A run may start while others are going on, and each of them may be the one that
\* reaches maxRuns: the runs counted and going on exceed the bound by at most the
\* overlap, and without overlap the bound is exact.
OvershootBounded ==
    bound = "maxRuns" => completed + Cardinality(Running) <= MaxRuns + (IF peak = 0 THEN 0 ELSE peak - 1)

\* The scheduler stops for its bound only: enough runs that really succeeded, the
\* duration elapsed, the window closed - and never when there is no bound.
StopsForItsBound ==
    Returned => CASE bound = "maxRuns" -> succeeded >= MaxRuns /\ total >= MaxRuns
                  [] bound = "runFor" -> ctxDone
                  [] bound = "timeWindow" -> clock = "closed"
                  [] OTHER -> FALSE

\* config.go:198: with a time window benchmarks start between startAt and stopAt
\* only, also when the scheduler was started before the window or outlives it.
StartsInWindow ==
    [][bound = "timeWindow" => (Cardinality(Running') > Cardinality(Running) => clock = "open")]_vars
=============================================================================
