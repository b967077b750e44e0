------------------------ MODULE ScheduledRunsProofs ------------------------
(***************************************************************************)
(* Proofs about Scheduler and ScheduledRuns, for any bound, maxRuns, number   *)
(* of goroutines and documents: what stops the scheduler, how far it          *)
(* overshoots, when its runs start, and that a run is hurt by one that it      *)
(* overlaps, or by a count that it took for the end of the keys.               *)
(***************************************************************************)
EXTENDS ScheduledRuns, FiniteSetTheorems, WellFoundedInduction, TLAPS

\* A set of naturals that is bounded and not empty has a largest element.
LEMMA MaxExists ==
    ASSUME NEW S \in SUBSET Nat, NEW n \in Nat, \A k \in S : k <= n, S # {}
    PROVE  \E k \in S : \A j \in S : j <= k
<1> DEFINE T == {n - k : k \in S}
<1> DEFINE R == {ss \in Nat \X Nat : ss[1] < ss[2]}
<1>1. \A k \in S : n - k \in Nat
  OBVIOUS
<1>2. T \subseteq Nat /\ T # {}
  BY <1>1
<1>3. IsWellFoundedOn(R, Nat)
  BY NatLessThanWellFounded DEF OpToRel
<1>4. PICK m \in T : \A y \in T : ~(<<y, m>> \in R)
  <2> HIDE DEF R, T
  <2> QED
    BY <1>2, <1>3, WFMin
<1>5. PICK k \in S : m = n - k
  OBVIOUS
<1>6. \A j \in S : n - j \in T
  OBVIOUS
<1>7. \A j \in S : ~(n - j < n - k)
  BY <1>2, <1>4, <1>5, <1>6
<1>. QED
  BY <1>7

-----------------------------------------------------------------------------
(* The scheduler.                                                            *)

\* The stop channel is closed for a bound that was reached and stays so; a window that a
\* trigger can see is open or over; the runs counted are the runs that succeeded.
StopsForReason ==
    /\ completed = succeeded
    /\ stop => \/ bound = "timeWindow" /\ clock = "closed"
               \/ bound = "maxRuns" /\ completed >= MaxRuns
    /\ ctxDone => bound = "runFor"
    /\ Returned => (ctxDone \/ stop) /\ (bound = "maxRuns" => total >= MaxRuns)
    /\ (bound = "timeWindow" /\ main \in {"running", "returned"}) => clock # "before"

PeakCovers == Cardinality(Running) <= peak

SchedulerInv == TypeOK /\ StopsForReason /\ PeakCovers /\ OvershootBounded

\* The runs going on are finitely many.
LEMMA RunningFinite == IsFiniteSet(Running) /\ Cardinality(Running) \in Nat
BY SchedulerAssumption, FS_Subset, FS_CardinalityType DEF Running

\* A run that starts is one more, one that ends is one less.
LEMMA RunningChanges ==
    ASSUME TypeOK, NEW s \in Slots
    PROVE  /\ (job[s] # "running" /\ job' = [job EXCEPT ![s] = "running"])
                => Running' = Running \cup {s} /\ Cardinality(Running)' = Cardinality(Running) + 1
           /\ (job[s] = "running" /\ job' = [job EXCEPT ![s] = "free"])
                => Running' = Running \ {s} /\ Cardinality(Running)' = Cardinality(Running) - 1
<1>1. /\ Cardinality(Running \cup {s}) = IF s \in Running THEN Cardinality(Running) ELSE Cardinality(Running) + 1
      /\ Cardinality(Running \ {s}) = IF s \in Running THEN Cardinality(Running) - 1 ELSE Cardinality(Running)
  BY RunningFinite, FS_AddElement, FS_RemoveElement
<1>2. ASSUME job[s] # "running", job' = [job EXCEPT ![s] = "running"]
      PROVE  Running' = Running \cup {s} /\ s \notin Running
  BY <1>2 DEF TypeOK, Running
<1>3. ASSUME job[s] = "running", job' = [job EXCEPT ![s] = "free"]
      PROVE  Running' = Running \ {s} /\ s \in Running
  BY <1>3 DEF TypeOK, Running
<1>. QED
  BY <1>1, <1>2, <1>3

LEMMA SchedulerStarts == Init => SchedulerInv
<1> SUFFICES ASSUME Init PROVE SchedulerInv
  OBVIOUS
<1>1. Running = {} /\ Cardinality(Running) = 0
  BY FS_EmptySet DEF Init, Running
<1>2. TypeOK
  BY DEF Init, TypeOK
<1>3. StopsForReason
  BY DEF Init, StopsForReason, Returned
<1>4. PeakCovers /\ OvershootBounded
  BY <1>1, SchedulerAssumption DEF Init, PeakCovers, OvershootBounded
<1>. QED
  BY <1>2, <1>3, <1>4 DEF SchedulerInv

\* Every step of the scheduler keeps the invariant.
LEMMA SchedulerStays == SchedulerInv /\ [Next]_vars => SchedulerInv'
<1> SUFFICES ASSUME SchedulerInv, [Next]_vars PROVE SchedulerInv'
  OBVIOUS
<1> USE SchedulerAssumption DEF SchedulerInv
<1>1. Cardinality(Running) \in Nat
  BY RunningFinite
<1>2. ASSUME job' = job PROVE Running' = Running
  BY <1>2 DEF Running
<1>3. CASE Start \/ WindowWaited \/ TimePasses \/ Expire
  <2>1. TypeOK'
    BY <1>3 DEF TypeOK, Start, WindowWaited, TimePasses, Expire
  <2>2. StopsForReason'
    BY <1>3 DEF TypeOK, StopsForReason, Returned, Start, WindowWaited, TimePasses, Expire
  <2>3. (PeakCovers /\ OvershootBounded)'
    BY <1>2, <1>3 DEF PeakCovers, OvershootBounded, Start, WindowWaited, TimePasses, Expire
  <2>. QED
    BY <2>1, <2>2, <2>3
<1>4. ASSUME NEW s \in Slots, Fire(s) \/ StopAtBound(s) PROVE SchedulerInv'
  <2>1. TypeOK' /\ Running' = Running
    BY <1>4 DEF TypeOK, Running, Fire, StopAtBound
  <2>2. StopsForReason'
    BY <1>4 DEF TypeOK, StopsForReason, Returned, Fire, StopAtBound, BoundReached
  <2>3. (PeakCovers /\ OvershootBounded)'
    BY <1>4, <2>1 DEF PeakCovers, OvershootBounded, Fire, StopAtBound
  <2>. QED
    BY <2>1, <2>2, <2>3
<1>5. ASSUME NEW s \in Slots, StartRun(s) PROVE SchedulerInv'
  <2>1. TypeOK'
    BY <1>1, <1>5 DEF TypeOK, StartRun
  <2>2. Cardinality(Running)' = Cardinality(Running) + 1
    BY <1>5, RunningChanges DEF StartRun
  <2>3. StopsForReason'
    BY <1>5 DEF StopsForReason, Returned, StartRun
  <2>4. PeakCovers' /\ peak' >= peak /\ peak' >= 1
    BY <1>1, <1>5, <2>2 DEF PeakCovers, StartRun, TypeOK
  <2>5. OvershootBounded'
    BY <1>1, <1>5, <2>1, <2>2, <2>4 DEF OvershootBounded, PeakCovers, StartRun, BoundReached, TypeOK
  <2>. QED
    BY <2>1, <2>3, <2>4, <2>5
<1>6. ASSUME NEW s \in Slots, Succeed(s) \/ Fail(s) PROVE SchedulerInv'
  <2>1. TypeOK'
    BY <1>6 DEF TypeOK, Succeed, Fail
  <2>2. Cardinality(Running)' = Cardinality(Running) - 1
    BY <1>6, RunningChanges DEF Succeed, Fail
  <2>3. StopsForReason'
    BY <1>6 DEF StopsForReason, Returned, Succeed, Fail, TypeOK
  <2>4. (PeakCovers /\ OvershootBounded)'
    BY <1>1, <1>6, <2>2 DEF PeakCovers, OvershootBounded, Succeed, Fail, TypeOK
  <2>. QED
    BY <2>1, <2>3, <2>4
<1>7. CASE Return
  <2>1. TypeOK' /\ Running' = Running
    BY <1>2, <1>7 DEF TypeOK, Return
  <2>2. StopsForReason'
    BY <1>7 DEF StopsForReason, Returned, Return, TypeOK
  <2>3. (PeakCovers /\ OvershootBounded)'
    BY <1>7, <2>1 DEF PeakCovers, OvershootBounded, Return
  <2>. QED
    BY <2>1, <2>2, <2>3
<1>8. CASE Exit
  <2>1. TypeOK' /\ Running' = {} /\ Cardinality(Running)' = 0
    BY <1>8, FS_EmptySet DEF TypeOK, Exit, Running
  <2>2. StopsForReason'
    BY <1>8 DEF StopsForReason, Returned, Exit
  <2>3. (PeakCovers /\ OvershootBounded)'
    BY <1>1, <1>8, <2>1 DEF PeakCovers, OvershootBounded, Exit, TypeOK
  <2>. QED
    BY <2>1, <2>2, <2>3
<1>9. CASE UNCHANGED vars
  BY <1>9 DEF vars, TypeOK, StopsForReason, PeakCovers, OvershootBounded, Returned, Running
<1>. QED
  BY <1>3, <1>4, <1>5, <1>6, <1>7, <1>8, <1>9 DEF Next, JobStep, Terminating

-----------------------------------------------------------------------------
(* ScheduledRuns implements the scheduler: what runs do is none of its matter.    *)

LEMMA RunsStep == [NextOfRuns]_allVars => [Next]_vars
<1> SUFFICES ASSUME [NextOfRuns]_allVars PROVE [Next]_vars
  OBVIOUS
<1>1. ASSUME NEW s \in Slots, RunStep(s) PROVE UNCHANGED vars
  BY <1>1 DEF RunStep, CountDocuments, HighestKey, FallBackToCount, KeepCollection, TakesForEnd, Drop, LoadKey, Preloaded,
              InsertKey, DeleteKey, Leaves
<1>2. ASSUME NEW s \in Slots, BeginRun(s) \/ RunSucceeds(s) \/ RunFails(s) PROVE JobStep(s)
  BY <1>2 DEF BeginRun, RunSucceeds, RunFails, JobStep
<1>3. CASE NextOfRuns
  BY <1>1, <1>2, <1>3 DEF NextOfRuns, Alone, ExitAll, Next, JobStep
<1>4. CASE UNCHANGED allVars
  BY <1>4 DEF allVars
<1>. QED
  BY <1>3, <1>4

\* Every behaviour of the runs on their collection is one of the scheduler: starting a
\* run, its result and the end of the process are the only steps that it sees.
THEOREM ImplementsScheduler == RunsSpec => Spec
<1>1. RunsInit => Init
  BY DEF RunsInit
<1>. QED
  BY <1>1, RunsStep, PTL DEF RunsSpec, Spec

LEMMA SchedulerAlways == Spec => []SchedulerInv
BY SchedulerStarts, SchedulerStays, PTL DEF Spec

\* Every variable of the scheduler has its type, whatever its runs do.
THEOREM TypeCorrect == RunsSpec => []TypeOK
<1>1. SchedulerInv => TypeOK
  BY DEF SchedulerInv
<1>. QED
  BY <1>1, ImplementsScheduler, SchedulerAlways, PTL

\* scheduler.go:97: whatever maxRuns and however many runs overlap: the runs counted and
\* going on exceed maxRuns by at most the overlap.
THEOREM Overshoots == RunsSpec => []OvershootBounded
<1>1. SchedulerInv => OvershootBounded
  BY DEF SchedulerInv
<1>. QED
  BY <1>1, ImplementsScheduler, SchedulerAlways, PTL

\* scheduler.go:136: the scheduler returns because its bound was reached, for every bound.
THEOREM StopsForBound == RunsSpec => []StopsForItsBound
<1>1. SchedulerInv => StopsForItsBound
  <2> SUFFICES ASSUME SchedulerInv PROVE StopsForItsBound
    OBVIOUS
  <2>1. bound \in {"unlimited", "runFor", "maxRuns", "timeWindow"}
    BY SchedulerAssumption DEF SchedulerInv, TypeOK
  <2>. QED
    BY <2>1 DEF SchedulerInv, StopsForReason, StopsForItsBound
<1>. QED
  BY <1>1, ImplementsScheduler, SchedulerAlways, PTL

LEMMA StartsWhenOpen ==
    SchedulerInv /\ [Next]_vars
      => [bound = "timeWindow" => (Cardinality(Running') > Cardinality(Running) => clock = "open")]_vars
<1> SUFFICES ASSUME SchedulerInv, Next, bound = "timeWindow", Cardinality(Running') > Cardinality(Running)
             PROVE  clock = "open"
  BY DEF vars
<1>1. ASSUME Running' \subseteq Running PROVE FALSE
  <2>1. Cardinality(Running') <= Cardinality(Running) /\ Cardinality(Running') \in Nat
    BY <1>1, RunningFinite, FS_Subset, FS_CardinalityType
  <2>. QED
    BY <2>1, RunningFinite
<1>2. PICK s \in Slots : StartRun(s)
  BY <1>1 DEF Next, JobStep, Start, WindowWaited, TimePasses, Expire, Return, Exit, Terminating, vars,
              Fire, StopAtBound, Succeed, Fail, Running, SchedulerInv, TypeOK
<1>3. main \in {"running", "returned"}
  BY <1>2 DEF StartRun, SchedulerInv, TypeOK
<1>4. clock # "before"
  BY <1>3 DEF SchedulerInv, StopsForReason
<1>. QED
  BY <1>2, <1>4 DEF StartRun, BoundReached, SchedulerInv, TypeOK

\* config.go:198: runs start while the window is open, whenever the schedule was started
\* and however long runs take.
THEOREM StartsInsideWindow == RunsSpec => StartsInWindow
BY ImplementsScheduler, SchedulerAlways, StartsWhenOpen, PTL DEF StartsInWindow, Spec

-----------------------------------------------------------------------------
(* What runs do to each other.                                               *)

Stages == {"none", "starting", "counted", "preloading", "benchmark"}

RunsType ==
    /\ setup \in Setups
    /\ docs \subseteq 0 .. MaxKey
    /\ at \in [Slots -> Stages]
    /\ next \in [Slots -> 0 .. MaxKey + 1]
    /\ overlapped \in [Slots -> BOOLEAN]
    /\ misjudged \in [Slots -> BOOLEAN]
    /\ hurt \in [Slots -> BOOLEAN]
    /\ \A s \in Slots : at[s] = "none" <=> s \notin Running
    /\ \A s \in Slots \ Running : next[s] = 0 /\ ~hurt[s]

\* Two runs that are going on overlap each other.
OverlapSeen == \A s, t \in Running : s # t => overlapped[s]

\* What a run that nothing overlaps knows of the collection.
KnowsItsKeys(s) ==
    /\ hurt[s] => misjudged[s]
    /\ at[s] \in {"starting", "counted"} => ~hurt[s]
    /\ at[s] = "starting" => next[s] = 0
    /\ at[s] = "counted" => (next[s] = 0 => docs = {})
    /\ at[s] = "preloading" => next[s] <= DocumentCount /\ docs = 0 .. next[s] - 1
    /\ at[s] = "benchmark" => misjudged[s] \/ \A k \in docs : k < next[s]

AloneIsRight == \A s \in Slots : overlapped[s] \/ KnowsItsKeys(s)

\* Once maxRuns is reached no run starts: those going on overlapped the last one counted.
LastOnesOverlap == (bound = "maxRuns" /\ completed >= MaxRuns) => \A s \in Running : overlapped[s]

RunsInv == SchedulerInv /\ RunsType /\ OverlapSeen /\ AloneIsRight /\ LastOnesOverlap

LEMMA RunsStart == RunsInit => RunsInv
<1> SUFFICES ASSUME RunsInit PROVE RunsInv
  OBVIOUS
<1> USE ScheduledRunsAssumption
<1>1. SchedulerInv
  BY SchedulerStarts DEF RunsInit
<1>2. Running = {}
  BY DEF RunsInit, Init, Running
<1>3. RunsType
  BY <1>2 DEF RunsInit, RunsType, Stages
<1>4. OverlapSeen /\ LastOnesOverlap
  BY <1>2 DEF OverlapSeen, LastOnesOverlap
<1>5. AloneIsRight
  BY DEF RunsInit, AloneIsRight, KnowsItsKeys
<1>. QED
  BY <1>1, <1>3, <1>4, <1>5 DEF RunsInv

\* The steps of the scheduler alone neither start nor end a run.
LEMMA AloneStays ==
    ASSUME RunsInv, NextOfRuns, UNCHANGED runVars, Running' = Running,
           bound' = bound, completed' = completed
    PROVE  RunsInv'
<1>1. SchedulerInv'
  BY SchedulerStays, RunsStep DEF RunsInv
<1>2. RunsType' /\ OverlapSeen' /\ AloneIsRight' /\ LastOnesOverlap'
  BY DEF RunsInv, RunsType, OverlapSeen, AloneIsRight, KnowsItsKeys, LastOnesOverlap, runVars
<1>. QED
  BY <1>1, <1>2 DEF RunsInv

\* What is counted lies within the bound of the keys, and is 0 for no document only.
LEMMA CountsBounded ==
    ASSUME docs \subseteq 0 .. MaxKey
    PROVE  Cardinality(docs) \in 0 .. MaxKey + 1 /\ (Cardinality(docs) = 0 => docs = {})
<1>1. MaxKey \in Int /\ 0 \in Int /\ MaxKey >= 0
  BY ScheduledRunsAssumption
<1>2. IsFiniteSet(0 .. MaxKey) /\ Cardinality(0 .. MaxKey) = MaxKey + 1
  BY <1>1, FS_Interval
<1>3. IsFiniteSet(docs) /\ Cardinality(docs) <= Cardinality(0 .. MaxKey)
  BY <1>2, FS_Subset
<1>4. Cardinality(docs) \in Nat /\ (Cardinality(docs) = 0 => docs = {})
  BY <1>3, FS_CardinalityType, FS_EmptySet
<1>. QED
  BY <1>1, <1>2, <1>3, <1>4

\* A run starts: whatever is going on overlaps it, and it overlaps that.
LEMMA BeginStays == ASSUME RunsInv, NEW s \in Slots, BeginRun(s) PROVE RunsInv'
<1> USE DEF RunsInv
<1>1. SchedulerInv'
  BY RunsStep, SchedulerStays DEF NextOfRuns
<1>2. job[s] # "running" /\ job' = [job EXCEPT ![s] = "running"]
  BY DEF BeginRun, StartRun
<1>3. /\ Running' = Running \cup {s} /\ s \notin Running
      /\ bound' = bound /\ completed' = completed /\ ~BoundReached
  BY <1>2, RunningChanges DEF BeginRun, StartRun, SchedulerInv, Running
<1>4. /\ setup' = setup /\ docs' = docs /\ next' = next /\ hurt' = hurt /\ misjudged' = misjudged
      /\ at' = [at EXCEPT ![s] = "starting"]
      /\ overlapped' = [t \in Slots |-> IF t = s THEN Running # {} ELSE overlapped[t] \/ t \in Running]
  BY DEF BeginRun, Enters
<1>5. RunsType'
  BY <1>3, <1>4 DEF RunsType, Stages
<1>6. OverlapSeen'
  <2> SUFFICES ASSUME NEW t \in Running', NEW u \in Running', t # u PROVE overlapped'[t]
    BY DEF OverlapSeen
  <2>. QED
    BY <1>3, <1>4 DEF RunsType, Running
<1>7. AloneIsRight'
  <2> SUFFICES ASSUME NEW t \in Slots, ~overlapped'[t] PROVE KnowsItsKeys(t)'
    BY DEF AloneIsRight
  <2>1. CASE t = s
    BY <1>3, <1>4, <2>1 DEF RunsType, KnowsItsKeys
  <2>2. CASE t # s
    BY <1>4, <2>2 DEF RunsType, KnowsItsKeys, AloneIsRight
  <2>. QED
    BY <2>1, <2>2
<1>8. LastOnesOverlap'
  BY <1>3 DEF LastOnesOverlap, BoundReached
<1>. QED
  BY <1>1, <1>5, <1>6, <1>7, <1>8

\* A stage of one run: the other runs going on overlap it, so that only what the run
\* itself knows is at stake.
LEMMA StageStays ==
    ASSUME RunsInv, NextOfRuns, NEW s \in Running, UNCHANGED <<vars, overlapped>>, RunsType',
           \A t \in Slots \ {s} : /\ at'[t] = at[t] /\ next'[t] = next[t] /\ misjudged'[t] = misjudged[t]
                               /\ (hurt'[t] => hurt[t] \/ t \in Running),
           overlapped[s] \/ KnowsItsKeys(s)'
    PROVE  RunsInv'
<1> USE DEF RunsInv
<1>1. SchedulerInv'
  BY RunsStep, SchedulerStays
<1>2. Running' = Running /\ bound' = bound /\ completed' = completed /\ overlapped' = overlapped
  BY DEF vars, Running
<1>3. OverlapSeen' /\ LastOnesOverlap'
  BY <1>2 DEF OverlapSeen, LastOnesOverlap
<1>4. AloneIsRight'
  <2> SUFFICES ASSUME NEW t \in Slots, ~overlapped[t] PROVE KnowsItsKeys(t)'
    BY <1>2 DEF AloneIsRight
  <2>1. CASE t = s
    BY <2>1
  <2>2. CASE t # s
    <3>1. t \notin Running
      BY <2>2 DEF OverlapSeen
    <3>. QED
      BY <2>2, <3>1 DEF RunsType, KnowsItsKeys
  <2>. QED
    BY <2>1, <2>2
<1>. QED
  BY <1>1, <1>3, <1>4

\* Each stage of a run.
LEMMA StepStays == ASSUME RunsInv, NEW s \in Slots, RunStep(s) PROVE RunsInv'
<1> USE ScheduledRunsAssumption DEF RunsInv
<1>1. /\ NextOfRuns /\ UNCHANGED <<vars, setup, overlapped>> /\ s \in Running /\ Running' = Running
      /\ s \in Slots /\ DocumentCount \in Nat /\ MaxKey \in Nat /\ DocumentCount <= MaxKey
  BY DEF NextOfRuns, RunStep, CountDocuments, HighestKey, FallBackToCount, KeepCollection, TakesForEnd, Drop, LoadKey, Preloaded,
              InsertKey, DeleteKey, Leaves, Running, vars
<1>2. /\ docs \subseteq 0 .. MaxKey /\ at \in [Slots -> Stages]
      /\ next \in [Slots -> 0 .. MaxKey + 1] /\ hurt \in [Slots -> BOOLEAN]
      /\ misjudged \in [Slots -> BOOLEAN]
  BY DEF RunsType
<1>3. overlapped[s] \/ KnowsItsKeys(s)
  BY DEF AloneIsRight
<1>. USE DEF Stages
<1>a. ASSUME CountDocuments(s) PROVE RunsInv'
  <2>1. /\ docs' = docs /\ hurt' = hurt /\ misjudged' = misjudged /\ at' = [at EXCEPT ![s] = "counted"]
        /\ at[s] = "starting"
    BY <1>a DEF CountDocuments, Enters, Leaves
  <2>2. Cardinality(docs) \in 0 .. MaxKey + 1 /\ (Cardinality(docs) = 0 => docs = {})
    BY <1>1, <1>2, CountsBounded
  <2>. DEFINE n == Cardinality(docs)
  <2>3. n \in 0 .. MaxKey + 1 /\ (n = 0 => docs = {}) /\ next' = [next EXCEPT ![s] = n]
    BY <1>a, <2>2 DEF CountDocuments
  <2>. HIDE DEF n
  <2>4. RunsType'
    BY <1>1, <1>2, <2>1, <2>3 DEF RunsType
  <2>5. overlapped[s] \/ KnowsItsKeys(s)'
    BY <1>1, <1>2, <1>3, <2>1, <2>3 DEF KnowsItsKeys
  <2>. QED
    BY <1>1, <1>2, <2>1, <2>3, <2>4, <2>5, StageStays
<1>4. CASE HighestKey(s)
  <2>1. docs # {} => Highest \in docs /\ \A k \in docs : k <= Highest
    <3> SUFFICES ASSUME docs # {} PROVE \E k \in docs : \A j \in docs : j <= k
      BY DEF Highest
    <3>1. docs \in SUBSET Nat /\ \A k \in docs : k <= MaxKey
      BY <1>1, <1>2
    <3>. QED
      BY <1>1, <3>1, MaxExists
  <2> DEFINE n == IF next[s] = 0 \/ docs = {} THEN next[s] ELSE Highest + 1
  <2>2. /\ docs' = docs /\ hurt' = hurt /\ misjudged' = misjudged /\ at' = [at EXCEPT ![s] = "benchmark"]
        /\ next' = [next EXCEPT ![s] = n] /\ at[s] = "counted"
    BY <1>4 DEF HighestKey, Enters, Leaves
  <2>3. n \in 0 .. MaxKey + 1 /\ ((next[s] = 0 => docs = {}) => \A k \in docs : k < n)
    <3>1. CASE next[s] = 0 \/ docs = {}
      <4>1. n = next[s]
        BY <3>1
      <4>. QED
        BY <1>1, <1>2, <3>1, <4>1
    <3>2. CASE next[s] # 0 /\ docs # {}
      <4>1. Highest \in 0 .. MaxKey /\ \A k \in docs : k \in 0 .. MaxKey /\ k <= Highest
        BY <1>2, <2>1, <3>2
      <4>2. n = Highest + 1
        BY <3>2
      <4>. HIDE DEF n
      <4>. QED
        BY <1>1, <4>1, <4>2
    <3>. QED
      BY <3>1, <3>2
  <2> HIDE DEF n
  <2>4. RunsType'
    BY <1>1, <1>2, <2>2, <2>3 DEF RunsType
  <2>5. overlapped[s] \/ KnowsItsKeys(s)'
    BY <1>1, <1>2, <1>3, <2>2, <2>3 DEF KnowsItsKeys
  <2>. QED
    BY <1>1, <1>2, <2>2, <2>3, <2>4, <2>5, StageStays
<1>b. ASSUME FallBackToCount(s) \/ KeepCollection(s) PROVE RunsInv'
  <2>1. PICK n \in 0 .. MaxKey + 1 : TakesForEnd(s, n)
    <3>1. next[s] \in 0 .. MaxKey + 1 /\ DocumentCount \in 0 .. MaxKey + 1
      BY <1>1, <1>2
    <3>. QED
      BY <1>b, <3>1 DEF FallBackToCount, KeepCollection
  <2>2. /\ docs' = docs /\ hurt' = hurt /\ at' = [at EXCEPT ![s] = "benchmark"]
        /\ next' = [next EXCEPT ![s] = n]
        /\ misjudged' = [misjudged EXCEPT ![s] = \E k \in docs : k >= n]
    BY <2>1 DEF TakesForEnd, Enters
  <2>3. RunsType'
    <3>1. misjudged' \in [Slots -> BOOLEAN]
      BY <1>2, <2>2, Zenon
    <3>. QED
      BY <1>1, <1>2, <2>2, <3>1 DEF RunsType
  <2>4. ~hurt[s] \/ overlapped[s]
    BY <1>b, <1>1, <1>3 DEF FallBackToCount, KeepCollection, Leaves, KnowsItsKeys
  <2>5. KnowsItsKeys(s)' \/ overlapped[s]
    <3>1. misjudged'[s] <=> \E k \in docs : k >= n
      BY <1>1, <1>2, <2>2, Zenon
    <3>2. \A k \in docs : k \in Int /\ n \in Int
      BY <1>2, <2>1
    <3>3. misjudged'[s] \/ \A k \in docs : k < n
      BY <3>1, <3>2
    <3>4. at'[s] = "benchmark" /\ next'[s] = n /\ hurt'[s] = hurt[s] /\ docs' = docs
      BY <1>1, <1>2, <2>2
    <3>. QED
      BY <2>4, <3>3, <3>4 DEF KnowsItsKeys
  <2>. QED
    BY <1>1, <1>2, <2>2, <2>3, <2>5, StageStays
<1>5. CASE Drop(s)
  <2>1. /\ docs' = {} /\ next' = next /\ at' = [at EXCEPT ![s] = "preloading"] /\ misjudged' = misjudged
        /\ hurt' = [t \in Slots |-> hurt[t] \/ (t \in Running \ {s} /\ at[t] \in {"preloading", "benchmark"})]
        /\ at[s] = "starting" \/ (at[s] = "counted" /\ next[s] = 0)
    BY <1>5 DEF Drop, Enters, Leaves
  <2>2. RunsType'
    BY <1>1, <1>2, <2>1 DEF RunsType
  <2>3. overlapped[s] \/ KnowsItsKeys(s)'
    BY <1>1, <1>2, <1>3, <2>1 DEF KnowsItsKeys
  <2>. QED
    BY <1>1, <1>2, <2>1, <2>2, <2>3, StageStays
<1>6. ASSUME NEW k \in 0 .. DocumentCount - 1, LoadKey(s, k) PROVE RunsInv'
  <2>1. /\ docs' = docs \cup {k} /\ next' = [next EXCEPT ![s] = k + 1] /\ at' = at /\ hurt' = hurt
        /\ misjudged' = misjudged
        /\ at[s] = "preloading" /\ next[s] = k /\ k < DocumentCount
    BY <1>6 DEF LoadKey, Leaves
  <2>2. RunsType'
    BY <1>1, <1>2, <2>1 DEF RunsType
  <2>3. overlapped[s] \/ KnowsItsKeys(s)'
    BY <1>1, <1>2, <1>3, <2>1 DEF KnowsItsKeys
  <2>. QED
    BY <1>1, <1>2, <2>1, <2>2, <2>3, StageStays
<1>7. CASE Preloaded(s)
  <2>1. /\ docs' = docs /\ next' = next /\ at' = [at EXCEPT ![s] = "benchmark"] /\ misjudged' = misjudged
        /\ hurt' = [hurt EXCEPT ![s] = @ \/ ~(0 .. DocumentCount - 1 \subseteq docs)]
        /\ at[s] = "preloading" /\ next[s] = DocumentCount
    BY <1>7 DEF Preloaded, Leaves, Enters
  <2>2. RunsType'
    BY <1>1, <1>2, <2>1 DEF RunsType
  <2>3. overlapped[s] \/ KnowsItsKeys(s)'
    BY <1>1, <1>2, <1>3, <2>1 DEF KnowsItsKeys
  <2>. QED
    BY <1>1, <1>2, <2>1, <2>2, <2>3, StageStays
<1>8. CASE InsertKey(s)
  <2>1. /\ docs' = docs \cup {next[s]} /\ next' = [next EXCEPT ![s] = @ + 1] /\ at' = at
        /\ hurt' = [hurt EXCEPT ![s] = @ \/ next[s] \in docs]
        /\ at[s] = "benchmark" /\ next[s] <= MaxKey /\ misjudged' = misjudged
    BY <1>8 DEF InsertKey, Leaves
  <2>2. RunsType'
    <3>1. next[s] \in 0 .. MaxKey /\ next[s] + 1 \in 0 .. MaxKey + 1
      BY <1>1, <1>2, <2>1
    <3>2. docs' \subseteq 0 .. MaxKey /\ next' \in [Slots -> 0 .. MaxKey + 1]
      BY <1>2, <2>1, <3>1
    <3>3. hurt' \in [Slots -> BOOLEAN]
      BY <1>2, <2>1, Zenon
    <3>. QED
      BY <1>1, <2>1, <3>2, <3>3 DEF RunsType
  <2>3. overlapped[s] \/ KnowsItsKeys(s)'
    BY <1>1, <1>2, <1>3, <2>1 DEF KnowsItsKeys
  <2>. QED
    BY <1>1, <1>2, <2>1, <2>2, <2>3, StageStays
<1>9. CASE DeleteKey(s)
  <2>1. /\ docs' \subseteq docs /\ next' = next /\ at' = at /\ hurt' = hurt /\ misjudged' = misjudged
        /\ at[s] = "benchmark"
    BY <1>9 DEF DeleteKey, Leaves
  <2>2. RunsType'
    BY <1>1, <1>2, <2>1 DEF RunsType
  <2>3. overlapped[s] \/ KnowsItsKeys(s)'
    BY <1>1, <1>2, <1>3, <2>1 DEF KnowsItsKeys
  <2>. QED
    BY <1>1, <1>2, <2>1, <2>2, <2>3, StageStays
<1>. QED
  BY <1>a, <1>b, <1>4, <1>5, <1>6, <1>7, <1>8, <1>9 DEF RunStep

\* A run ends, or all of them: what is forgotten is not going on any more.
LEMMA EndStays ==
    ASSUME RunsInv, NextOfRuns, NEW slots \in SUBSET Slots, Forget(slots), Running' = Running \ slots,
           LastOnesOverlap'
    PROVE  RunsInv'
<1> USE ScheduledRunsAssumption DEF RunsInv
<1>1. SchedulerInv'
  BY RunsStep, SchedulerStays
<1>2. RunsType'
  <2>1. setup' \in Setups /\ docs' \subseteq 0 .. MaxKey
    BY DEF RunsType, Forget
  <2>2. /\ at' \in [Slots -> Stages]
        /\ next' \in [Slots -> 0 .. MaxKey + 1]
    BY DEF RunsType, Forget, Stages
  <2>3. /\ overlapped' \in [Slots -> BOOLEAN] /\ hurt' \in [Slots -> BOOLEAN]
        /\ misjudged' \in [Slots -> BOOLEAN]
    BY Zenon DEF RunsType, Forget
  <2>4. \A t \in Slots : at'[t] = "none" <=> t \notin Running'
    BY DEF RunsType, Forget
  <2>5. \A t \in Slots \ Running' : next'[t] = 0 /\ ~hurt'[t]
    BY DEF RunsType, Forget
  <2>. QED
    BY <2>1, <2>2, <2>3, <2>4, <2>5 DEF RunsType
<1>3. OverlapSeen'
  BY DEF OverlapSeen, RunsType, Forget, Running
<1>4. AloneIsRight'
  <2> SUFFICES ASSUME NEW t \in Slots, ~overlapped'[t] PROVE KnowsItsKeys(t)'
    BY DEF AloneIsRight
  <2>. QED
    BY DEF AloneIsRight, KnowsItsKeys, RunsType, Forget
<1>. QED
  BY <1>1, <1>2, <1>3, <1>4

LEMMA RunsStays == RunsInv /\ [NextOfRuns]_allVars => RunsInv'
<1> SUFFICES ASSUME RunsInv, [NextOfRuns]_allVars PROVE RunsInv'
  OBVIOUS
<1>1. ASSUME NextOfRuns, Alone(Start) \/ Alone(WindowWaited) \/ Alone(TimePasses) \/ Alone(Expire) \/ Alone(Return)
                         \/ (\E s \in Slots : Alone(Fire(s)) \/ Alone(StopAtBound(s)))
      PROVE RunsInv'
  <2>1. UNCHANGED runVars
    BY <1>1 DEF Alone
  <2>2. Running' = Running /\ bound' = bound /\ completed' = completed
    BY <1>1 DEF Alone, Start, WindowWaited, TimePasses, Expire, Return, Fire, StopAtBound, Running,
                RunsInv, SchedulerInv, TypeOK
  <2>. QED
    BY <1>1, <2>1, <2>2, AloneStays
<1>2. ASSUME NEW s \in Slots, BeginRun(s) PROVE RunsInv'
  BY <1>2, BeginStays
<1>3. ASSUME NEW s \in Slots, RunStep(s) PROVE RunsInv'
  BY <1>3, StepStays
<1>4. ASSUME NEW s \in Slots, RunSucceeds(s) \/ RunFails(s) PROVE RunsInv'
  <2>1. Running' = Running \ {s} /\ s \in Running /\ bound' = bound /\ completed' \in {completed, completed + 1}
    BY <1>4, RunningChanges DEF RunSucceeds, RunFails, Succeed, Fail, Running, RunsInv, SchedulerInv
  <2>2. Forget({s}) /\ NextOfRuns
    BY <1>4 DEF RunSucceeds, RunFails, NextOfRuns
  <2>3. \A t \in Running' : overlapped[t] /\ overlapped'[t]
    BY <2>1, <2>2 DEF RunsInv, OverlapSeen, Forget, Running
  <2>. QED
    BY <2>1, <2>2, <2>3, EndStays DEF LastOnesOverlap
<1>5. CASE ExitAll
  <2>1. Forget(Slots) /\ NextOfRuns /\ Running' = {}
    BY <1>5 DEF ExitAll, NextOfRuns, Exit, Running
  <2>. QED
    BY <2>1, EndStays DEF LastOnesOverlap, Running
<1>6. CASE UNCHANGED allVars
  BY <1>6 DEF allVars, vars, runVars, RunsInv, SchedulerInv, TypeOK, StopsForReason, PeakCovers, OvershootBounded,
              RunsType, OverlapSeen, AloneIsRight, KnowsItsKeys, LastOnesOverlap, Returned, Running
<1>7. CASE Alone(Terminating)
  BY <1>7 DEF Alone, Terminating, vars, runVars, RunsInv, SchedulerInv, TypeOK, StopsForReason, PeakCovers,
              OvershootBounded, RunsType, OverlapSeen, AloneIsRight, KnowsItsKeys, LastOnesOverlap, Returned, Running
<1>. QED
  BY <1>1, <1>2, <1>3, <1>4, <1>5, <1>6, <1>7 DEF NextOfRuns

LEMMA RunsAlways == RunsSpec => []RunsInv
BY RunsStart, RunsStays, PTL DEF RunsSpec

\* loader.go:28-50, orchestrator.go:72-113: for every number of documents, keys and
\* goroutines, every setup and whatever the collection was: a run that no other one
\* overlaps finds the keys it preloaded, and the keys it inserts are new, unless it took
\* a number of documents for the end of the keys with a key at or above that number.
THEOREM OverlapHurts == RunsSpec => []OnlyOverlapHurts
<1>1. RunsInv => OnlyOverlapHurts
  BY DEF RunsInv, AloneIsRight, KnowsItsKeys, OnlyOverlapHurts
<1>. QED
  BY <1>1, RunsAlways, PTL

\* README.md:496: whatever maxRuns: a run that nothing overlapped is not cut off when
\* the last one is counted.
THEOREM AloneNotCutOff == RunsSpec => []NoneCutOff
<1>1. RunsInv => NoneCutOff
  BY DEF RunsInv, SchedulerInv, StopsForReason, LastOnesOverlap, NoneCutOff
<1>. QED
  BY <1>1, RunsAlways, PTL
=============================================================================
