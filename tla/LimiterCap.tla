----------------------------- MODULE LimiterCap -----------------------------
(***************************************************************************)
(* How many operations the limiter lets through: RateLimiter with takers    *)
(* that take a token whenever there is one, a clock that counts tenths of a *)
(* second, and the start of a window placed anywhere in the run.           *)
(***************************************************************************)
EXTENDS RateLimiter

CONSTANT MaxTicks    \* bound: ticks of the clock

ASSUME MaxTicksAssumption == MaxTicks \in Nat

VARIABLES
    ticks,    \* history: tenths of a second since the limiter was created
    taken,    \* history: tokens taken since then
    mark      \* history: ticks and taken at the start of the window

vars == <<limiterVars, ticks, taken, mark>>

Init ==
    /\ LimiterInit
    /\ ticks = 0
    /\ taken = 0
    /\ mark = [ticks |-> 0, taken |-> 0, tokens |-> 0]

Refill == (Create \/ ReceiveTick \/ Deposit \/ Stop \/ Exit) /\ UNCHANGED <<ticks, taken, mark>>

Clock ==
    /\ ticks < MaxTicks
    /\ Fire
    /\ ticks' = ticks + 1
    /\ UNCHANGED <<taken, mark>>

\* An operation passes limiter.wait.
Pass == Take /\ taken' = taken + 1 /\ UNCHANGED <<ticks, mark>>

StartWindow ==
    /\ mark.ticks = 0
    /\ ticks > 0
    /\ mark' = [ticks |-> ticks, taken |-> taken, tokens |-> tokens]
    /\ UNCHANGED <<limiterVars, ticks, taken>>

Next == Refill \/ Clock \/ Pass \/ StartWindow

Spec == Init /\ [][Next]_vars

-----------------------------------------------------------------------------
\* The limiter's variables and the histories have their types.
TypeOK ==
    /\ LimiterTypeOK
    /\ ticks \in Nat /\ taken \in Nat
    /\ mark \in [ticks : Nat, taken : Nat, tokens : 0 .. Capacity]

\* Tokens still to come for the ticks that were fired.
Upcoming == todo + IF fired THEN TokensPerTick ELSE 0

\* Tokens are conserved: those taken, in the bucket and still to be deposited never
\* exceed what the ticks so far are worth, whatever is discarded or dropped.
Conserved == taken + tokens + Upcoming <= TokensPerTick * ticks

\* A burst is bounded: in a window of any length the operations let through are at
\* most what was in the bucket, what two ticks already fired are worth, and the
\* ticks of the window - a full bucket lets twice the target through in a second.
BurstBounded ==
    taken - mark.taken + tokens + Upcoming
        <= mark.tokens + TokensPerTick * (ticks - mark.ticks + 2)

\* The cap, for the targets that are worth at least one token per tick.
CapsFromTen == OpsPerSec >= TicksPerSec => taken * TicksPerSec <= OpsPerSec * ticks
=============================================================================
