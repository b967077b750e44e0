---------------------------- MODULE RateLimiter ----------------------------
(***************************************************************************)
(* The token bucket of internal/worker/pool.go: a buffered channel of      *)
(* tokens, a goroutine that refills it ten times per second, and a channel  *)
(* that stops the goroutine.  Who takes tokens, and when, is left to the    *)
(* module that uses the limiter.                                           *)
(***************************************************************************)
EXTENDS Integers

CONSTANT OpsPerSec   \* execution.targetOpsPerSec

ASSUME OpsPerSecAssumption == OpsPerSec \in Nat \ {0}

VARIABLES
    tokens,     \* values in the channel rateLimiter.tokens
    refiller,   \* where the refill goroutine is
    fired,      \* ticker.C holds a tick (a channel of capacity one)
    todo,       \* deposits left for the tick being handled
    done        \* rateLimiter.done is closed

limiterVars == <<tokens, refiller, fired, todo, done>>

TicksPerSec == 10
Capacity == OpsPerSec
\* Mutant of TokensPerTick: the quotient is rounded up.
TokensPerTickUp == (OpsPerSec + TicksPerSec - 1) \div TicksPerSec

TokensPerTick == IF OpsPerSec \div TicksPerSec < 1 THEN 1 ELSE OpsPerSec \div TicksPerSec

LimiterInit ==
    /\ tokens = 0
    /\ refiller = "none"
    /\ fired = FALSE
    /\ todo = 0
    /\ done = FALSE

\* newRateLimiter: an empty bucket, a running goroutine.
Create ==
    /\ refiller = "none"
    /\ refiller' = "select"
    /\ UNCHANGED <<tokens, fired, todo, done>>

\* A tenth of a second passes; a tick the goroutine is not ready for is kept, a
\* second one is dropped.
Fire ==
    /\ refiller \in {"select", "deposit"}
    /\ fired' = TRUE
    /\ UNCHANGED <<tokens, refiller, todo, done>>

\* Mutant of ReceiveTick: the tick stays in the channel.
ReceiveTickAgain ==
    /\ refiller = "select"
    /\ fired
    /\ todo' = TokensPerTick
    /\ refiller' = "deposit"
    /\ UNCHANGED <<tokens, fired, done>>

ReceiveTick ==
    /\ refiller = "select"
    /\ fired
    /\ fired' = FALSE
    /\ todo' = TokensPerTick
    /\ refiller' = "deposit"
    /\ UNCHANGED <<tokens, done>>

\* One turn of the loop: a token that does not fit is discarded.
Deposit ==
    /\ refiller = "deposit"
    /\ tokens' = IF tokens < Capacity THEN tokens + 1 ELSE tokens
    /\ todo' = todo - 1
    /\ refiller' = IF todo = 1 THEN "select" ELSE "deposit"
    /\ UNCHANGED <<fired, done>>

\* Mutant of Take: the waiter looks at the bucket and takes nothing.
TakeNothing == tokens > 0 /\ UNCHANGED <<tokens, refiller, fired, todo, done>>

\* limiter.wait received a token.
Take ==
    /\ tokens > 0
    /\ tokens' = tokens - 1
    /\ UNCHANGED <<refiller, fired, todo, done>>

\* stop() closes the channel; the goroutine sees it at its next select.
Stop ==
    /\ ~done
    /\ done' = TRUE
    /\ UNCHANGED <<tokens, refiller, fired, todo>>

Exit ==
    /\ refiller = "select"
    /\ done
    /\ refiller' = "exited"
    /\ UNCHANGED <<tokens, fired, todo, done>>

LimiterTypeOK ==
    /\ tokens \in 0 .. Capacity
    /\ refiller \in {"none", "select", "deposit", "exited"}
    /\ fired \in BOOLEAN
    /\ todo \in 0 .. TokensPerTick
    /\ (refiller = "deposit") <=> (todo > 0)
    /\ done \in BOOLEAN
=============================================================================
