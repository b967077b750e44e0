-------------------------- MODULE LimiterCapProofs --------------------------
(***************************************************************************)
(* Proofs about LimiterCap, for every target and every number of ticks:    *)
(* tokens are conserved, bursts are bounded, and targets of at least ten    *)
(* operations per second are respected on average.                         *)
(***************************************************************************)
EXTENDS LimiterCap, TLAPS

LEMMA TickWorth ==
    /\ TokensPerTick \in Nat \ {0}
    /\ OpsPerSec >= TicksPerSec => TokensPerTick * TicksPerSec <= OpsPerSec
  BY OpsPerSecAssumption DEF TokensPerTick, TicksPerSec

\* One more tick is worth TokensPerTick more.
LEMMA OneMoreTick ==
    \A t \in Int : TokensPerTick * (t + 1) = TokensPerTick * t + TokensPerTick
  BY TickWorth

\* The mark lies in the past, and both bounds hold.
LInv ==
    /\ TypeOK
    /\ mark.ticks <= ticks /\ mark.taken <= taken
    /\ Conserved
    /\ BurstBounded

LEMMA InitLInv == Init => LInv
<1>. SUFFICES ASSUME Init PROVE LInv
  OBVIOUS
<1>. USE DEF Init, LimiterInit
<1>1. TypeOK
  <2>1. LimiterTypeOK
    <3>1. tokens \in 0 .. Capacity /\ todo \in 0 .. TokensPerTick /\ ~(todo > 0)
      BY TickWorth, OpsPerSecAssumption DEF Capacity
    <3>2. refiller = "none" /\ fired \in BOOLEAN /\ done \in BOOLEAN
      OBVIOUS
    <3>. QED
      BY <3>1, <3>2 DEF LimiterTypeOK
  <2>2. 0 \in 0 .. Capacity
    BY OpsPerSecAssumption DEF Capacity
  <2>. QED
    BY <2>1, <2>2 DEF TypeOK
<1>2. Conserved
  BY TickWorth DEF Conserved, Upcoming
<1>3. BurstBounded
  BY TickWorth DEF BurstBounded, Upcoming
<1>. QED
  BY <1>1, <1>2, <1>3 DEF LInv

LEMMA StepLInv == LInv /\ [Next]_vars => LInv'
<1>. SUFFICES ASSUME LInv, [Next]_vars PROVE LInv'
  OBVIOUS
<1>. DEFINE worth(t) == TokensPerTick * t
<1>0. /\ TokensPerTick \in Nat /\ TokensPerTick > 0
      /\ OpsPerSec \in Nat
      /\ \A t \in Int : worth(t) \in Int
      /\ \A t \in Int : worth(t + 1) = worth(t) + TokensPerTick
      /\ worth(0) = 0
  BY TickWorth, OneMoreTick, OpsPerSecAssumption
<1>1. /\ Conserved = (taken + tokens + Upcoming <= worth(ticks))
      /\ BurstBounded = (taken - mark.taken + tokens + Upcoming
                          <= mark.tokens + worth(ticks - mark.ticks + 2))
  BY DEF Conserved, BurstBounded
<1>2. /\ Conserved' = ((taken + tokens + Upcoming)' <= worth(ticks'))
      /\ BurstBounded' = ((taken - mark.taken + tokens + Upcoming)'
                          <= mark'.tokens + worth(ticks' - mark'.ticks + 2))
  BY DEF Conserved, BurstBounded
<1>3. worth(2) = TokensPerTick + TokensPerTick
  BY TickWorth
<1>. HIDE DEF worth
<1>. USE <1>0, <1>1, <1>2, <1>3 DEF LInv, TypeOK, LimiterTypeOK, Upcoming, Capacity, limiterVars
<1>4. CASE Refill
  <2>1. CASE Create
    BY <1>4, <2>1 DEF Refill, Create
  <2>2. CASE ReceiveTick
    <3>1. /\ refiller = "select" /\ todo = 0 /\ fired /\ todo' = TokensPerTick /\ ~fired'
          /\ refiller' = "deposit" /\ UNCHANGED <<tokens, done, ticks, taken, mark>>
      BY <1>4, <2>2 DEF Refill, ReceiveTick
    <3>2. todo' \in 0 .. TokensPerTick /\ todo' > 0 /\ fired' \in BOOLEAN
      <4>1. todo' \in 0 .. TokensPerTick /\ todo' > 0
        BY <3>1
      <4>2. fired' \in BOOLEAN
        BY <2>2 DEF ReceiveTick
      <4>. QED
        BY <4>1, <4>2
    <3>3. TypeOK'
      BY <3>1, <3>2
    <3>4. Upcoming' = Upcoming
      BY <3>1
    <3>5. Conserved' /\ BurstBounded'
      BY <3>1, <3>4 DEF Conserved, BurstBounded
    <3>. QED
      BY <3>1, <3>3, <3>5
  <2>3. CASE Deposit
    <3>1. /\ refiller = "deposit" /\ todo > 0 /\ todo' = todo - 1 /\ todo' \in 0 .. TokensPerTick
          /\ refiller' \in {"select", "deposit"} /\ (refiller' = "deposit" <=> todo' > 0)
          /\ UNCHANGED <<fired, done, ticks, taken, mark>>
      BY <1>4, <2>3 DEF Refill, Deposit
    <3>2. tokens' \in 0 .. Capacity /\ tokens' <= tokens + 1
      BY <2>3 DEF Deposit
    <3>3. TypeOK'
      BY <3>1, <3>2
    <3>4. /\ taken \in Int /\ tokens \in Int /\ tokens' \in Int /\ todo \in Int
          /\ Upcoming' = Upcoming - 1 /\ Upcoming \in Int
      BY <3>1, <3>2
    <3>5. Conserved'
      BY <3>1, <3>2, <3>4
    <3>6. BurstBounded'
      BY <3>1, <3>2, <3>4
    <3>. QED
      BY <3>1, <3>3, <3>5, <3>6
  <2>4. CASE Stop
    BY <1>4, <2>4 DEF Refill, Stop
  <2>5. CASE Exit
    BY <1>4, <2>5 DEF Refill, Exit
  <2>. QED
    BY <1>4, <2>1, <2>2, <2>3, <2>4, <2>5 DEF Refill
<1>5. CASE Clock
  <2>1. ticks' - mark.ticks + 2 = (ticks - mark.ticks + 2) + 1
    BY <1>5 DEF Clock
  <2>2. /\ worth(ticks') = worth(ticks) + TokensPerTick
        /\ worth(ticks' - mark.ticks + 2) = worth(ticks - mark.ticks + 2) + TokensPerTick
    BY <1>5, <2>1 DEF Clock
  <2>. QED
    BY <1>5, <2>2 DEF Clock, Fire
<1>6. CASE Pass
  BY <1>6 DEF Pass, Take
<1>7. CASE StartWindow
  BY <1>7 DEF StartWindow
<1>8. CASE UNCHANGED vars
  BY <1>8 DEF vars
<1>. QED
  BY <1>4, <1>5, <1>6, <1>7, <1>8 DEF Next

\* For every target, the inductive invariant of the limiter (newRateLimiter's goroutine).
THEOREM LimiterInductive == Spec => []LInv
<1>. QED
  BY InitLInv, StepLInv, PTL DEF Spec

\* For every target: the tokens taken, held and still to come never exceed what the
\* ticks so far are worth (newRateLimiter's goroutine against limiter.wait).
THEOREM TokensConserved == Spec => []Conserved
<1>1. LInv => Conserved
  BY DEF LInv
<1>. QED
  BY <1>1, LimiterInductive, PTL

\* For every target and window: a burst is bounded by the bucket, two ticks, and the
\* window.
THEOREM BurstsBounded == Spec => []BurstBounded
<1>1. LInv => BurstBounded
  BY DEF LInv
<1>. QED
  BY <1>1, LimiterInductive, PTL

\* For every target of ten operations per second or more the limiter caps the rate
\* from the start of the run on, as pool.go:149 says.
THEOREM CapHolds == Spec => []CapsFromTen
<1>1. ASSUME LInv PROVE CapsFromTen
  <2>1. SUFFICES ASSUME OpsPerSec >= TicksPerSec PROVE taken * TicksPerSec <= OpsPerSec * ticks
    BY DEF CapsFromTen
  <2>2. taken <= TokensPerTick * ticks
    <3>1. Upcoming >= 0 /\ tokens >= 0 /\ taken \in Nat /\ tokens \in Int /\ Upcoming \in Int
      BY <1>1, TickWorth, OpsPerSecAssumption DEF LInv, TypeOK, LimiterTypeOK, Upcoming, Capacity
    <3>2. TokensPerTick * ticks \in Int
      BY <1>1, TickWorth DEF LInv, TypeOK
    <3>. QED
      BY <1>1, <3>1, <3>2 DEF LInv, Conserved
  <2>3. TokensPerTick * TicksPerSec <= OpsPerSec
    BY <2>1, TickWorth
  <2>4. /\ ticks \in Nat /\ taken \in Nat /\ TokensPerTick \in Nat /\ OpsPerSec \in Nat
        /\ TicksPerSec = 10
    BY <1>1, TickWorth, OpsPerSecAssumption DEF LInv, TypeOK, TicksPerSec
  <2>5. taken * 10 <= (TokensPerTick * ticks) * 10
    BY <2>2, <2>4
  <2>6. (TokensPerTick * ticks) * 10 = (TokensPerTick * 10) * ticks
    BY <2>4
  <2>7. (TokensPerTick * 10) * ticks <= OpsPerSec * ticks
    BY <2>3, <2>4
  <2>. QED
    BY <2>4, <2>5, <2>6, <2>7
<1>. QED
  BY <1>1, LimiterInductive, PTL
=============================================================================
