------------------------- MODULE OrchestratorProofs -------------------------
(***************************************************************************)
(* Proofs about Loader and Orchestrator, for any number of threads, batch     *)
(* size and number of documents: a preload that succeeds has loaded exactly   *)
(* the keys it was asked for, no two batches hold a key twice, and the        *)
(* benchmark that follows inserts new keys only.                              *)
(*                                                                         *)
(* The keys that threads have still to reserve are counted without a sum:     *)
(* every one of them is a claim, a pair of a thread and a number, and the     *)
(* counter and the claims together are documentCount.                         *)
(***************************************************************************)
EXTENDS Orchestrator, FiniteSetTheorems, WellFoundedInduction, TLAPS

Claims == {c \in Tasks \X (1 .. DocumentCount) : c[2] <= task[c[1]].left - Cardinality(task[c[1]].batch)}

\* What a thread owns; a thread that ended owns nothing.
TaskOK(t) ==
    /\ task[t].batch \subseteq 0 .. preloadKey - 1
    /\ task[t].at = "loop" => Cardinality(task[t].batch) <= BatchOf(t) /\ task[t].batch \cap docs = {}
    /\ task[t].at = "ended" => task[t] = Idle
    /\ \A u \in Tasks \ {t} : task[t].batch \cap task[u].batch = {}

Clean == errs = 0 /\ \A t \in Tasks : task[t].at # "failed"

\* During a preload: no key is reserved past documentCount, and as long as no thread
\* failed every key reserved is in the collection or in a batch.
LoadInv ==
    /\ docs \subseteq 0 .. preloadKey - 1
    /\ Cardinality(Claims) + preloadKey <= DocumentCount
    /\ confirmed <= Cardinality(docs)
    /\ Clean => /\ Cardinality(Claims) + preloadKey = DocumentCount
                /\ \A k \in 0 .. preloadKey - 1 : k \in docs \/ \E t \in Tasks : k \in task[t].batch
                /\ confirmed = Cardinality(docs)

\* Before the benchmark only what a preload did or was configured to do is known.
OriginKnown == phase = "indexes" => origin \in {"configured", "preload"}

OrchInv ==
    /\ TypeOK
    /\ \A t \in Tasks : TaskOK(t)
    /\ phase = "preloading" => LoadInv
    /\ PreloadExact
    /\ NoInsertCollides
    /\ OriginKnown

-----------------------------------------------------------------------------
(* The split of the documents among the threads.                             *)

LEMMA Products ==
    ASSUME NEW q \in Nat, NEW t \in Nat, NEW u \in Nat, t < u
    PROVE  t * q + q <= u * q
<1>1. PICK d \in Nat : u = t + 1 + d
  <2>1. u - t - 1 \in Nat /\ u = t + 1 + (u - t - 1)
    OBVIOUS
  <2>. QED
    BY <2>1
<1>2. d * q \in Nat /\ u * q = t * q + q + d * q
  BY <1>1
<1>. QED
  BY <1>2

LEMMA TaskSizes ==
    /\ DocumentCount \div PreloadThreads \in Nat
    /\ DocumentCount % PreloadThreads \in 0 .. PreloadThreads - 1
    /\ DocumentCount = PreloadThreads * (DocumentCount \div PreloadThreads) + (DocumentCount % PreloadThreads)
    /\ \A t \in Tasks : TaskSize(t) \in 0 .. DocumentCount
<1> DEFINE q == DocumentCount \div PreloadThreads
<1> DEFINE r == DocumentCount % PreloadThreads
<1>1. /\ PreloadThreads \in Nat /\ PreloadThreads > 0 /\ DocumentCount \in Nat
      /\ q \in Nat /\ r \in 0 .. PreloadThreads - 1 /\ DocumentCount = PreloadThreads * q + r
  BY LoaderAssumption
<1>2. \A t \in Tasks : TaskSize(t) = q + IF t = PreloadThreads - 1 THEN r ELSE 0
  BY DEF TaskSize
<1> HIDE DEF q, r
<1>3. q <= PreloadThreads * q
  <2>1. 0 * q + q <= PreloadThreads * q
    BY <1>1, Products
  <2>. QED
    BY <1>1, <2>1
<1>4. PreloadThreads * q \in Nat
  BY <1>1
<1>5. \A t \in Tasks : TaskSize(t) \in 0 .. DocumentCount
  BY <1>1, <1>2, <1>3, <1>4
<1>. QED
  BY <1>1, <1>5 DEF q, r

\* The sizes of the tasks add up to documentCount: the keys are numbered through.
LEMMA TasksCover ==
    LET C == {c \in Tasks \X (1 .. DocumentCount) : c[2] <= TaskSize(c[1])}
    IN  IsFiniteSet(C) /\ Cardinality(C) = DocumentCount
<1> DEFINE C == {c \in Tasks \X (1 .. DocumentCount) : c[2] <= TaskSize(c[1])}
<1> DEFINE q == DocumentCount \div PreloadThreads
<1> DEFINE r == DocumentCount % PreloadThreads
<1> DEFINE f == [c \in C |-> c[1] * q + c[2]]
<1>1. /\ PreloadThreads \in Nat /\ PreloadThreads > 0 /\ DocumentCount \in Nat
      /\ q \in Nat /\ r \in Nat /\ DocumentCount = PreloadThreads * q + r
  BY TaskSizes, LoaderAssumption
<1>2. \A t \in Tasks : t \in Nat /\ t < PreloadThreads /\ TaskSize(t) = q + IF t = PreloadThreads - 1 THEN r ELSE 0
  BY <1>1 DEF TaskSize, Tasks
<1>3. PreloadThreads * q = (PreloadThreads - 1) * q + q
  BY <1>1
<1> HIDE DEF q, r
<1>4. \A c \in C : c[1] * q \in Nat /\ c[2] \in Nat \ {0} /\ c[1] * q + c[2] \in 1 .. DocumentCount
  <2> SUFFICES ASSUME NEW c \in C PROVE c[1] * q \in Nat /\ c[2] \in Nat \ {0} /\ c[1] * q + c[2] \in 1 .. DocumentCount
    OBVIOUS
  <2>1. c[1] \in Tasks /\ c[1] \in Nat /\ c[2] \in Nat \ {0} /\ c[2] <= TaskSize(c[1])
    BY <1>1, <1>2
  <2>2. c[1] * q \in Nat
    BY <1>1, <2>1
  <2>3. CASE c[1] = PreloadThreads - 1
    <3>1. c[1] * q + q + r = DocumentCount
      BY <1>1, <1>3, <2>3
    <3>. QED
      BY <1>1, <1>2, <2>1, <2>2, <2>3, <3>1
  <2>4. CASE c[1] # PreloadThreads - 1
    <3>1. c[1] * q + q <= PreloadThreads * q /\ PreloadThreads * q \in Nat
      BY <1>1, <1>2, <2>1, Products
    <3>. QED
      BY <1>1, <1>2, <2>1, <2>2, <2>4, <3>1
  <2>. QED
    BY <2>3, <2>4
<1>5. \A c, d \in C : c[1] < d[1] => c[1] * q + c[2] < d[1] * q + d[2]
  <2> SUFFICES ASSUME NEW c \in C, NEW d \in C, c[1] < d[1] PROVE c[1] * q + c[2] < d[1] * q + d[2]
    OBVIOUS
  <2>1. c[1] \in Tasks /\ d[1] \in Tasks /\ c[2] <= TaskSize(c[1]) /\ c[2] \in Nat /\ d[2] \in Nat \ {0}
    BY <1>1
  <2>2. c[1] # PreloadThreads - 1 /\ c[1] \in Nat /\ d[1] \in Nat
    BY <1>1, <1>2, <2>1
  <2>3. c[2] <= q
    BY <1>1, <1>2, <2>1, <2>2
  <2>4. c[1] * q + q <= d[1] * q /\ c[1] * q \in Nat /\ d[1] * q \in Nat
    BY <1>1, <2>2, Products
  <2>. QED
    BY <1>1, <2>1, <2>3, <2>4
<1>6. f \in Injection(C, 1 .. DocumentCount)
  <2>1. f \in [C -> 1 .. DocumentCount]
    BY <1>4
  <2>2. ASSUME NEW c \in C, NEW d \in C, f[c] = f[d] PROVE c = d
    <3>1. c[1] * q + c[2] = d[1] * q + d[2]
      BY <2>2
    <3>2. c[1] \in Nat /\ d[1] \in Nat
      BY <1>2
    <3>3. c[1] = d[1]
      BY <1>4, <1>5, <3>1, <3>2
    <3>4. c[2] = d[2]
      BY <1>4, <3>1, <3>3
    <3>. QED
      BY <3>3, <3>4
  <2>. QED
    BY <2>1, <2>2 DEF Injection, IsInjective
<1>7. f \in Surjection(C, 1 .. DocumentCount)
  <2>1. f \in [C -> 1 .. DocumentCount]
    BY <1>4
  <2>2. ASSUME NEW n \in 1 .. DocumentCount PROVE \E c \in C : f[c] = n
    <3>1. CASE n > (PreloadThreads - 1) * q
      <4> DEFINE c == <<PreloadThreads - 1, n - (PreloadThreads - 1) * q>>
      <4>1. (PreloadThreads - 1) * q \in Nat /\ PreloadThreads - 1 \in Tasks
        BY <1>1 DEF Tasks
      <4>2. TaskSize(PreloadThreads - 1) = q + r /\ DocumentCount = (PreloadThreads - 1) * q + q + r
        BY <1>1, <1>2, <1>3, <4>1
      <4>3. n - (PreloadThreads - 1) * q \in 1 .. DocumentCount /\ n - (PreloadThreads - 1) * q <= q + r
        BY <1>1, <3>1, <4>1, <4>2
      <4>4. c \in C
        BY <4>1, <4>2, <4>3
      <4>5. f[c] = n
        BY <4>1, <4>4
      <4>. QED
        BY <4>4, <4>5
    <3>2. CASE n <= (PreloadThreads - 1) * q
      <4>1. q > 0
        <5>1. q = 0 => (PreloadThreads - 1) * q = 0
          BY <1>1
        <5>. QED
          BY <1>1, <3>2, <5>1
      <4> DEFINE t == (n - 1) \div q
      <4> DEFINE i == ((n - 1) % q) + 1
      <4>2. t \in Nat /\ i \in 1 .. q /\ n = t * q + i
        BY <1>1, <4>1
      <4> HIDE DEF t, i
      <4>3. t < PreloadThreads - 1
        <5> SUFFICES ASSUME t >= PreloadThreads - 1 PROVE FALSE
          BY <1>1, <4>2
        <5>1. CASE t = PreloadThreads - 1
          BY <1>1, <3>2, <4>2, <5>1
        <5>2. CASE t > PreloadThreads - 1
          <6>1. (PreloadThreads - 1) * q + q <= t * q /\ (PreloadThreads - 1) * q \in Nat /\ t * q \in Nat
            BY <1>1, <4>2, <5>2, Products
          <6>. QED
            BY <1>1, <3>2, <4>2, <6>1
        <5>. QED
          BY <1>1, <4>2, <5>1, <5>2
      <4>4. t \in Tasks /\ t # PreloadThreads - 1
        BY <1>1, <4>2, <4>3 DEF Tasks
      <4>5. TaskSize(t) = q /\ i <= n
        <5>1. t * q \in Nat
          BY <1>1, <4>2
        <5>. QED
          BY <1>1, <1>2, <4>2, <4>4, <5>1
      <4>6. i \in 1 .. DocumentCount
        BY <1>1, <4>2, <4>5
      <4>7. <<t, i>> \in C
        BY <4>2, <4>4, <4>5, <4>6
      <4>8. f[<<t, i>>] = n
        BY <4>2, <4>7
      <4>. QED
        BY <4>7, <4>8
    <3>. QED
      BY <1>1, <3>1, <3>2
  <2>. QED
    BY <2>1, <2>2 DEF Surjection
<1>8. IsFiniteSet(1 .. DocumentCount) /\ Cardinality(1 .. DocumentCount) = DocumentCount
  BY <1>1, FS_Interval, LoaderAssumption
<1> HIDE DEF C, f
<1>9. IsFiniteSet(C) /\ Cardinality(C) = DocumentCount
  BY <1>6, <1>7, <1>8, FS_Injection
<1>. QED
  BY <1>9 DEF C

-----------------------------------------------------------------------------
(* The claims.                                                               *)

LEMMA ClaimsFinite == IsFiniteSet(Claims) /\ Cardinality(Claims) \in Nat
<1>1. IsFiniteSet(0 .. PreloadThreads - 1) /\ IsFiniteSet(1 .. DocumentCount)
  BY LoaderAssumption, FS_Interval
<1>2. IsFiniteSet(Tasks \X (1 .. DocumentCount))
  BY <1>1, FS_Product DEF Tasks
<1>3. Claims \subseteq Tasks \X (1 .. DocumentCount)
  BY DEF Claims
<1>. QED
  BY <1>2, <1>3, FS_Subset, FS_CardinalityType

\* The batches are finite, and so is the collection.
LEMMA BatchesFinite ==
    ASSUME TypeOK, NEW t \in Tasks
    PROVE  /\ IsFiniteSet(task[t].batch) /\ Cardinality(task[t].batch) \in Nat
           /\ IsFiniteSet(docs) /\ Cardinality(docs) \in Nat
<1>1. task[t].batch \subseteq 0 .. DocumentCount - 1 /\ docs \subseteq 0 .. MaxKey
  BY DEF TypeOK
<1>2. IsFiniteSet(0 .. DocumentCount - 1) /\ IsFiniteSet(0 .. MaxKey)
  BY LoaderAssumption, OrchestratorAssumption, FS_Interval
<1>. QED
  BY <1>1, <1>2, FS_Subset, FS_CardinalityType

\* A key that is reserved is a claim less.
LEMMA ClaimReserved ==
    ASSUME TypeOK, NEW t \in Tasks, TaskOK(t), ReserveBatchKey(t)
    PROVE  /\ Cardinality(Claims) \in Nat \ {0} /\ Cardinality(Claims') = Cardinality(Claims) - 1
           /\ Cardinality(task'[t].batch) = Cardinality(task[t].batch) + 1
           /\ Cardinality(task'[t].batch) <= BatchOf(t)
<1> DEFINE n == task[t].left - Cardinality(task[t].batch)
<1>1. /\ task[t].at = "loop" /\ preloadKey \in Nat /\ preloadKey \notin task[t].batch
      /\ task' = [task EXCEPT ![t].batch = @ \cup {preloadKey}]
      /\ task[t].left \in 0 .. DocumentCount /\ DOMAIN task = Tasks
  BY LoaderAssumption DEF ReserveBatchKey, TaskOK, TypeOK
<1>2. /\ task'[t].batch = task[t].batch \cup {preloadKey} /\ task'[t].left = task[t].left
      /\ \A u \in Tasks \ {t} : task'[u] = task[u]
  BY <1>1 DEF TypeOK
<1>3. Cardinality(task'[t].batch) = Cardinality(task[t].batch) + 1 /\ Cardinality(task[t].batch) \in Nat
  BY <1>1, <1>2, BatchesFinite, FS_AddElement
<1>4. Cardinality(task[t].batch) < BatchOf(t) /\ BatchOf(t) \in Nat /\ BatchOf(t) <= task[t].left
  BY <1>1, <1>3, LoaderAssumption DEF ReserveBatchKey, BatchFull, TaskOK, BatchOf
<1>5. n \in 1 .. DocumentCount /\ task'[t].left - Cardinality(task'[t].batch) = n - 1
  BY <1>1, <1>2, <1>3, <1>4, LoaderAssumption
<1>6. <<t, n>> \in Claims
  BY <1>5 DEF Claims
<1> HIDE DEF n
<1>7. Claims' = Claims \ {<<t, n>>}
  <2>1. ASSUME NEW c \in Tasks \X (1 .. DocumentCount), c[1] # t PROVE c \in Claims' <=> c \in Claims
    BY <1>2, <2>1 DEF Claims
  <2>2. ASSUME NEW c \in Tasks \X (1 .. DocumentCount), c[1] = t PROVE c \in Claims' <=> c \in Claims /\ c # <<t, n>>
    <3>1. c \in Claims' <=> c[2] <= n - 1
      BY <1>5, <2>2 DEF Claims
    <3>2. c \in Claims <=> c[2] <= n
      BY <2>2 DEF Claims, n
    <3>3. c = <<t, n>> <=> c[2] = n
      BY <2>2
    <3>. QED
      BY <1>5, <3>1, <3>2, <3>3
  <2>3. Claims \subseteq Tasks \X (1 .. DocumentCount) /\ Claims' \subseteq Tasks \X (1 .. DocumentCount)
    BY DEF Claims
  <2>. QED
    BY <2>1, <2>2, <2>3
<1>8. /\ IsFiniteSet(Claims) /\ Cardinality(Claims) \in Nat /\ Cardinality(Claims) # 0
      /\ Cardinality(Claims \ {<<t, n>>}) = Cardinality(Claims) - 1
  BY <1>6, ClaimsFinite, FS_RemoveElement, FS_EmptySet
<1>. QED
  BY <1>3, <1>4, <1>7, <1>8

\* What the threads do with a batch leaves the claims as they are, or drops those of one.
LEMMA ClaimsKept ==
    ASSUME NEW t \in Tasks, \A u \in Tasks \ {t} : task'[u] = task[u],
           \A i \in 1 .. DocumentCount : (i <= task'[t].left - Cardinality(task'[t].batch))
                                             <=> (i <= task[t].left - Cardinality(task[t].batch))
    PROVE  Claims' = Claims
<1>1. ASSUME NEW c \in Tasks \X (1 .. DocumentCount) PROVE c \in Claims' <=> c \in Claims
  <2>1. CASE c[1] = t
    BY <2>1 DEF Claims
  <2>2. CASE c[1] # t
    <3>1. task'[c[1]] = task[c[1]]
      BY <2>2
    <3>. QED
      BY <3>1 DEF Claims
  <2>. QED
    BY <2>1, <2>2
<1>2. Claims \subseteq Tasks \X (1 .. DocumentCount) /\ Claims' \subseteq Tasks \X (1 .. DocumentCount)
  BY DEF Claims
<1>. QED
  BY <1>1, <1>2

-----------------------------------------------------------------------------
(* The steps of the threads.                                                 *)

LoaderType ==
    /\ docs \subseteq 0 .. MaxKey
    /\ preloadKey \in 0 .. DocumentCount
    /\ confirmed \in 0 .. DocumentCount
    /\ task \in [Tasks -> [at : {"loop", "failed", "ended"}, left : 0 .. DocumentCount,
                           batch : SUBSET (0 .. DocumentCount - 1)]]
    /\ errs \in 0 .. PreloadThreads

LoaderGood == LoaderType /\ (\A t \in Tasks : TaskOK(t)) /\ LoadInv

\* No more is confirmed than there are keys reserved.
LEMMA ConfirmedBounded ==
    ASSUME NEW k \in 0 .. DocumentCount, NEW keys \in SUBSET (0 .. k - 1), NEW n \in Nat, n <= Cardinality(keys)
    PROVE  n \in 0 .. DocumentCount
<1> USE LoaderAssumption
<1>1. IsFiniteSet(0 .. k - 1) /\ Cardinality(0 .. k - 1) = k
  BY FS_Interval
<1>2. Cardinality(keys) <= k /\ Cardinality(keys) \in Nat
  BY <1>1, FS_Subset, FS_CardinalityType
<1>. QED
  BY <1>2

LEMMA ReserveStays ==
    ASSUME TypeOK, LoaderGood, NEW t \in Tasks, ReserveBatchKey(t)
    PROVE  LoaderGood'
<1> USE LoaderAssumption DEF LoaderGood
<1>1. /\ task[t].at = "loop" /\ preloadKey \in Nat /\ preloadKey' = preloadKey + 1
      /\ docs' = docs /\ confirmed' = confirmed /\ errs' = errs
      /\ task' = [task EXCEPT ![t].batch = @ \cup {preloadKey}]
  BY DEF ReserveBatchKey, LoaderType
<1>2. /\ task'[t].batch = task[t].batch \cup {preloadKey} /\ task'[t].left = task[t].left
      /\ task'[t].at = "loop" /\ \A u \in Tasks \ {t} : task'[u] = task[u]
  BY <1>1 DEF LoaderType
<1>3. /\ Cardinality(Claims) \in Nat \ {0} /\ Cardinality(Claims') = Cardinality(Claims) - 1
      /\ Cardinality(task'[t].batch) <= BatchOf(t)
  BY ClaimReserved
<1>4. preloadKey \in 0 .. DocumentCount - 1 /\ preloadKey' \in 0 .. DocumentCount
  BY <1>1, <1>3 DEF LoadInv
<1>5. LoaderType'
  BY <1>1, <1>4 DEF LoaderType
<1>6. \A u \in Tasks : TaskOK(u)'
  <2>1. TaskOK(t)'
    <3>1. BatchOf(t)' = BatchOf(t)
      BY <1>2 DEF BatchOf
    <3>. QED
      BY <1>1, <1>2, <1>3, <3>1 DEF TaskOK, LoadInv
  <2>2. ASSUME NEW u \in Tasks \ {t} PROVE TaskOK(u)'
    <3>1. BatchOf(u)' = BatchOf(u) /\ task'[u] = task[u]
      BY <1>2 DEF BatchOf
    <3>. QED
      BY <1>1, <1>2, <3>1 DEF TaskOK
  <2>. QED
    BY <2>1, <2>2
<1>7. LoadInv'
  <2>1. Clean' <=> Clean
    BY <1>1, <1>2 DEF Clean
  <2>2. docs' \subseteq 0 .. preloadKey' - 1 /\ Cardinality(Claims') + preloadKey' = Cardinality(Claims) + preloadKey
    BY <1>1, <1>3 DEF LoadInv
  <2>3. ASSUME Clean, NEW k \in 0 .. preloadKey' - 1 PROVE k \in docs' \/ \E u \in Tasks : k \in task'[u].batch
    <3>1. k = preloadKey \/ k \in 0 .. preloadKey - 1
      BY <1>1
    <3>2. \A u \in Tasks : task[u].batch \subseteq task'[u].batch
      BY <1>2
    <3>. QED
      BY <1>1, <1>2, <2>3, <3>1, <3>2 DEF LoadInv
  <2>. QED
    BY <1>1, <2>1, <2>2, <2>3 DEF LoadInv
<1>. QED
  BY <1>5, <1>6, <1>7

\* A batch is stored, as a whole or in part.
LEMMA BatchStays ==
    ASSUME TypeOK, LoaderGood, NEW t \in Tasks, InsertBatch(t) \/ InsertBatchFails(t)
    PROVE  LoaderGood'
<1> USE LoaderAssumption, OrchestratorAssumption DEF LoaderGood
<1>1. /\ task[t].at = "loop" /\ Cardinality(task[t].batch) = BatchOf(t)
      /\ preloadKey' = preloadKey /\ errs' = errs /\ preloadKey \in Nat
  BY DEF InsertBatch, InsertBatchFails, InFlight, BatchFull, LoaderType
<1>2. /\ BatchOf(t) \in Nat /\ BatchOf(t) <= task[t].left /\ task[t].left \in 0 .. DocumentCount
      /\ IsFiniteSet(task[t].batch) /\ IsFiniteSet(docs) /\ Cardinality(docs) \in Nat
  BY BatchesFinite DEF BatchOf, LoaderType
<1>3. /\ \A u \in Tasks \ {t} : task'[u] = task[u]
      /\ task'[t].left - Cardinality(task'[t].batch) = task[t].left - Cardinality(task[t].batch)
      /\ docs \subseteq docs' /\ docs' \subseteq docs \cup task[t].batch
  <2>1. CASE InsertBatch(t)
    BY <1>1, <1>2, <2>1, FS_EmptySet DEF InsertBatch, LoaderType
  <2>2. CASE InsertBatchFails(t)
    BY <2>2 DEF InsertBatchFails, LoaderType
  <2>. QED
    BY <2>1, <2>2
<1>4. Claims' = Claims
  BY <1>3, ClaimsKept
<1>5. docs' \subseteq 0 .. preloadKey - 1
  BY <1>3 DEF LoadInv, TaskOK
<1>6. \A u \in Tasks \ {t} : TaskOK(u)'
  <2> SUFFICES ASSUME NEW u \in Tasks \ {t} PROVE TaskOK(u)'
    OBVIOUS
  <2>1. BatchOf(u)' = BatchOf(u) /\ task'[u] = task[u] /\ task'[t].batch \subseteq task[t].batch
    <3>1. task'[t].batch \in {task[t].batch, {}}
      BY DEF InsertBatch, InsertBatchFails, LoaderType
    <3>. QED
      BY <1>3, <3>1 DEF BatchOf
  <2>2. task[u].batch \cap task[t].batch = {}
    BY DEF TaskOK
  <2>. QED
    BY <1>1, <1>3, <2>1, <2>2 DEF TaskOK
<1>7. CASE InsertBatch(t)
  <2>1. /\ docs' = docs \cup task[t].batch /\ confirmed' = confirmed + BatchOf(t)
        /\ task'[t].at = "loop" /\ task'[t].left = task[t].left - BatchOf(t) /\ task'[t].batch = {}
    BY <1>1, <1>7 DEF InsertBatch, LoaderType
  <2>2. Cardinality(docs') = Cardinality(docs) + BatchOf(t)
    <3>1. docs \cap task[t].batch = {}
      BY <1>1 DEF TaskOK
    <3>2. Cardinality(docs \cup task[t].batch) = Cardinality(docs) + Cardinality(task[t].batch) - Cardinality({})
      BY <1>2, <3>1, FS_Union
    <3>. QED
      BY <1>1, <1>2, <2>1, <3>2, FS_EmptySet
  <2>3. LoadInv'
    <3>1. Clean' <=> Clean
      BY <1>1, <1>3, <2>1 DEF Clean
    <3>2. ASSUME Clean, NEW k \in 0 .. preloadKey - 1 PROVE k \in docs' \/ \E u \in Tasks : k \in task'[u].batch
      BY <1>3, <2>1, <3>2 DEF LoadInv
    <3>. QED
      BY <1>1, <1>2, <1>4, <1>5, <2>1, <2>2, <3>1, <3>2 DEF LoadInv, LoaderType
  <2>4. TaskOK(t)'
    <3>1. BatchOf(t)' \in Nat
      BY <1>2, <2>1 DEF BatchOf
    <3>. QED
      BY <2>1, <3>1, FS_EmptySet DEF TaskOK
  <2>5. LoaderType'
    <3>1. confirmed' \in 0 .. DocumentCount
      <4>1. confirmed' \in Nat /\ preloadKey' \in 0 .. DocumentCount
        BY <1>1, <1>2, <2>1 DEF LoaderType
      <4>2. confirmed' <= Cardinality(docs') /\ docs' \subseteq 0 .. preloadKey' - 1
        BY <2>3 DEF LoadInv
      <4>. QED
        BY <4>1, <4>2, ConfirmedBounded
    <3>2. task' \in [Tasks -> [at : {"loop", "failed", "ended"}, left : 0 .. DocumentCount,
                             batch : SUBSET (0 .. DocumentCount - 1)]]
      <4>1. task[t].left - BatchOf(t) \in 0 .. DocumentCount
        BY <1>2
      <4>. QED
        BY <1>7, <4>1 DEF InsertBatch, LoaderType
    <3>. QED
      BY <1>1, <1>5, <3>1, <3>2 DEF LoaderType
  <2>. QED
    BY <1>6, <2>3, <2>4, <2>5
<1>8. CASE InsertBatchFails(t)
  <2>1. /\ confirmed' = confirmed
        /\ task'[t] = [task[t] EXCEPT !.at = "failed"]
        /\ task' = [task EXCEPT ![t].at = "failed"]
    BY <1>8 DEF InsertBatchFails, LoaderType
  <2>2. Cardinality(docs') >= Cardinality(docs) /\ Cardinality(docs') \in Nat
    BY <1>2, <1>3, FS_Union, FS_Subset, FS_CardinalityType
  <2>3. LoadInv'
    <3>1. ~Clean'
      BY <2>1 DEF Clean, LoaderType
    <3>. QED
      BY <1>1, <1>2, <1>4, <1>5, <2>1, <2>2, <3>1 DEF LoadInv, LoaderType
  <2>4. TaskOK(t)'
    BY <1>1, <1>3, <2>1 DEF TaskOK, LoaderType
  <2>5. LoaderType'
    BY <1>1, <1>5, <2>1 DEF LoaderType
  <2>. QED
    BY <1>6, <2>3, <2>4, <2>5
<1>. QED
  BY <1>7, <1>8

\* A thread ends, having inserted all it had to, or reporting its error.
LEMMA ThreadEnds ==
    ASSUME TypeOK, LoaderGood, NEW t \in Tasks, ReportError(t) \/ EndTask(t)
    PROVE  LoaderGood'
<1> USE LoaderAssumption DEF LoaderGood
<1>1. /\ task' = [task EXCEPT ![t] = Idle] /\ docs' = docs /\ preloadKey' = preloadKey /\ confirmed' = confirmed
      /\ errs' \in 0 .. PreloadThreads
  BY DEF ReportError, EndTask, ErrCapacity, LoaderType
<1>2. task'[t] = Idle /\ \A u \in Tasks \ {t} : task'[u] = task[u]
  BY <1>1 DEF LoaderType
<1>3. LoaderType'
  BY <1>1 DEF LoaderType, Idle
<1>4. \A u \in Tasks : TaskOK(u)'
  <2>1. TaskOK(t)'
    BY <1>2 DEF TaskOK, Idle
  <2>2. ASSUME NEW u \in Tasks \ {t} PROVE TaskOK(u)'
    <3>1. BatchOf(u)' = BatchOf(u) /\ task'[u] = task[u]
      BY <1>2 DEF BatchOf
    <3>. QED
      BY <1>1, <1>2, <3>1 DEF TaskOK, Idle
  <2>. QED
    BY <2>1, <2>2
<1>5. LoadInv'
  <2>1. CASE ReportError(t)
    <3>1. ~Clean'
      BY <2>1 DEF ReportError, Clean, LoaderType
    <3>2. Claims' \subseteq Claims
      <4>1. \A i \in 1 .. DocumentCount : ~(i <= task'[t].left - Cardinality(task'[t].batch))
        BY <1>2, FS_EmptySet DEF Idle
      <4>. QED
        BY <1>2, <4>1 DEF Claims
    <3>3. Cardinality(Claims') <= Cardinality(Claims) /\ Cardinality(Claims') \in Nat
      BY <3>2, ClaimsFinite, FS_Subset, FS_CardinalityType
    <3>. QED
      BY <1>1, <3>1, <3>3, ClaimsFinite DEF LoadInv, LoaderType
  <2>2. CASE EndTask(t)
    <3>1. task[t].batch = {} /\ task[t].left = 0 /\ task[t].at = "loop" /\ errs' = errs
      <4>1. task[t].left = 0 /\ task[t].at = "loop" /\ errs' = errs
        BY <2>2 DEF EndTask
      <4>2. BatchOf(t) = 0
        BY <4>1 DEF BatchOf
      <4>3. Cardinality(task[t].batch) = 0
        BY <4>1, <4>2, BatchesFinite DEF TaskOK
      <4>. QED
        BY <4>1, <4>3, BatchesFinite, FS_EmptySet
    <3>2. Claims' = Claims
      <4>1. task'[t].left = task[t].left /\ task'[t].batch = task[t].batch
        BY <1>2, <3>1 DEF Idle
      <4>. QED
        BY <1>2, <4>1, ClaimsKept
    <3>3. Clean' <=> Clean
      BY <1>2, <3>1 DEF Clean, Idle
    <3>4. \A u \in Tasks : task'[u].batch = task[u].batch
      BY <1>2, <3>1 DEF Idle
    <3>. QED
      BY <1>1, <3>2, <3>3, <3>4 DEF LoadInv
  <2>. QED
    BY <2>1, <2>2
<1>. QED
  BY <1>3, <1>4, <1>5

-----------------------------------------------------------------------------
(* The steps of a run.                                                       *)

\* A set of naturals that is bounded and not empty has a largest element.
LEMMA MaxExists ==
    ASSUME NEW S \in SUBSET Nat, NEW n \in Nat, \A k \in S : k <= n, S # {}
    PROVE  \E k \in S : \A j \in S : j <= k
<1> DEFINE T == {n - k : k \in S}
<1> DEFINE R == {ss \in Nat \X Nat : ss[1] < ss[2]}
<1>1. \A k \in S : n - k \in Nat
  OBVIOUS
<1>2. T \subseteq Nat /\ T # {}
  BY <1>1
<1>3. IsWellFoundedOn(R, Nat)
  BY NatLessThanWellFounded DEF OpToRel
<1>4. PICK m \in T : \A y \in T : ~(<<y, m>> \in R)
  <2> HIDE DEF R, T
  <2> QED
    BY <1>2, <1>3, WFMin
<1>5. PICK k \in S : m = n - k
  OBVIOUS
<1>6. \A j \in S : n - j \in T
  OBVIOUS
<1>7. \A j \in S : ~(n - j < n - k)
  BY <1>2, <1>4, <1>5, <1>6
<1>. QED
  BY <1>7

LEMMA HighestIs ==
    ASSUME TypeOK, docs # {}
    PROVE  Highest \in 0 .. MaxKey /\ \A k \in docs : k \in 0 .. MaxKey /\ k <= Highest
<1>1. docs \in SUBSET Nat /\ (\A k \in docs : k <= MaxKey) /\ MaxKey \in Nat /\ docs \subseteq 0 .. MaxKey
  BY OrchestratorAssumption DEF TypeOK
<1>2. \E k \in docs : \A j \in docs : j <= k
  BY <1>1, MaxExists
<1>. QED
  BY <1>1, <1>2 DEF Highest

\* The threads start with a claim to each of the keys.
LEMMA PreloadBegins == ASSUME OrchInv, BeginPreload PROVE LoaderGood'
<1> USE LoaderAssumption, OrchestratorAssumption
<1>1. /\ docs' = {} /\ preloadKey' = 0 /\ confirmed' = 0 /\ errs' = 0
      /\ task' = [t \in Tasks |-> [at |-> "loop", left |-> TaskSize(t), batch |-> {}]]
  BY DEF BeginPreload, DropAndSpawn
<1>2. LoaderType'
  BY <1>1, TaskSizes DEF LoaderType
<1>3. \A t \in Tasks : TaskOK(t)'
  <2> SUFFICES ASSUME NEW t \in Tasks PROVE TaskOK(t)'
    OBVIOUS
  <2>1. BatchOf(t)' \in Nat
    BY <1>1, TaskSizes DEF BatchOf
  <2>. QED
    BY <1>1, <2>1, FS_EmptySet DEF TaskOK
<1>4. Cardinality(Claims') = DocumentCount
  <2>1. Claims' = {c \in Tasks \X (1 .. DocumentCount) : c[2] <= TaskSize(c[1])}
    <3>1. \A t \in Tasks : task'[t].left - Cardinality(task'[t].batch) = TaskSize(t)
      <4>1. \A t \in Tasks : task'[t].left = TaskSize(t) /\ task'[t].batch = {} /\ TaskSize(t) \in Nat
        BY <1>1, TaskSizes
      <4>2. Cardinality({}) = 0
        BY FS_EmptySet
      <4>3. \A t \in Tasks : Cardinality(task'[t].batch) = 0
        BY <4>1, <4>2
      <4>. QED
        BY <4>1, <4>2, <4>3
    <3>. QED
      BY <3>1 DEF Claims
  <2>. QED
    BY <2>1, TasksCover
<1>5. LoadInv'
  BY <1>1, <1>4, FS_EmptySet DEF LoadInv
<1>. QED
  BY <1>2, <1>3, <1>5 DEF LoaderGood

LEMMA OrchStarts == Init => OrchInv
<1> USE LoaderAssumption, OrchestratorAssumption
<1> SUFFICES ASSUME Init PROVE OrchInv
  OBVIOUS
<1>1. TypeOK
  BY DEF Init, LoaderInit, TypeOK, Idle
<1>2. \A t \in Tasks : TaskOK(t)
  BY DEF Init, LoaderInit, TaskOK, Idle
<1>. QED
  BY <1>1, <1>2 DEF OrchInv, Init, PreloadExact, NoInsertCollides, OriginKnown

\* The threads leave the run where it is.
LEMMA PreloadStays == ASSUME OrchInv, NEW t \in Tasks, Preload(t) PROVE OrchInv'
<1>1. phase = "preloading" /\ LoadStep(t) /\ UNCHANGED runVars
  BY DEF Preload
<1>2. LoaderGood
  BY <1>1 DEF LoaderGood, LoaderType, OrchInv, TypeOK
<1>3. LoaderGood'
  BY <1>1, <1>2, ReserveStays, BatchStays, ThreadEnds DEF LoadStep, OrchInv
<1>4. phase' = "preloading"
  BY <1>1 DEF runVars
<1>5. TypeOK'
  BY <1>1, <1>3, <1>4 DEF LoaderGood, LoaderType, TypeOK, OrchInv, runVars
<1>6. PreloadExact' /\ NoInsertCollides' /\ OriginKnown'
  BY <1>4 DEF PreloadExact, NoInsertCollides, OriginKnown
<1>. QED
  BY <1>3, <1>5, <1>6 DEF LoaderGood, OrchInv

\* A preload whose threads are over without an error: there is no claim left, so the
\* counter is at documentCount, and there is no batch left, so the keys are stored.
LEMMA PreloadIsExact ==
    ASSUME OrchInv, phase = "preloading", Loaded, errs = 0
    PROVE  docs = 0 .. DocumentCount - 1 /\ confirmed = DocumentCount /\ preloadKey = DocumentCount
<1> USE LoaderAssumption
<1>1. \A t \in Tasks : task[t] = Idle
  BY DEF Loaded, OrchInv, TaskOK
<1>2. Clean /\ LoadInv
  BY <1>1 DEF Clean, OrchInv, Idle
<1>3. Claims = {}
  <2>1. \A t \in Tasks : task[t].left - Cardinality(task[t].batch) = 0
    <3>1. \A t \in Tasks : task[t].left = 0 /\ task[t].batch = {}
      BY <1>1 DEF Idle
    <3>2. Cardinality({}) = 0
      BY FS_EmptySet
    <3>. QED
      BY <3>1, <3>2
  <2>. QED
    BY <2>1 DEF Claims
<1>4. preloadKey = DocumentCount
  <2>1. Cardinality(Claims) = 0
    BY <1>3, FS_EmptySet
  <2>2. preloadKey \in Nat
    BY DEF OrchInv, TypeOK
  <2>. QED
    BY <1>2, <2>1, <2>2 DEF LoadInv
<1>5. docs = 0 .. DocumentCount - 1
  <2>1. \A t \in Tasks : task[t].batch = {}
    BY <1>1 DEF Idle
  <2>2. \A k \in 0 .. preloadKey - 1 : k \in docs \/ \E t \in Tasks : k \in task[t].batch
    BY <1>2 DEF LoadInv
  <2>3. docs \subseteq 0 .. preloadKey - 1 /\ 0 .. preloadKey - 1 = 0 .. DocumentCount - 1
    BY <1>2, <1>4 DEF LoadInv
  <2>. QED
    BY <2>1, <2>2, <2>3
<1>6. Cardinality(docs) = DocumentCount
  BY <1>5, FS_Interval
<1>. QED
  BY <1>2, <1>4, <1>5, <1>6 DEF LoadInv

\* A step that leaves the threads alone, outside a preload.
LEMMA OutsideStays ==
    ASSUME OrchInv, TypeOK', phase' # "preloading", PreloadExact', NoInsertCollides', OriginKnown'
    PROVE  OrchInv'
<1>1. \A t \in Tasks : task'[t] = Idle
  BY DEF TypeOK
<1>2. \A t \in Tasks : TaskOK(t)'
  BY <1>1 DEF TaskOK, Idle
<1>. QED
  BY <1>2 DEF OrchInv

LEMMA OrchStays == OrchInv /\ [Next]_vars => OrchInv'
<1> SUFFICES ASSUME OrchInv, [Next]_vars PROVE OrchInv'
  OBVIOUS
<1> USE LoaderAssumption, OrchestratorAssumption
<1>0. TypeOK /\ PreloadExact /\ NoInsertCollides /\ OriginKnown /\ DocumentCount \in 0 .. MaxKey /\ MaxKey \in Nat
  BY DEF OrchInv
<1>1. CASE Begin
  <2>1. TypeOK'
    BY <1>0, <1>1 DEF TypeOK, Begin, loaderVars
  <2>. QED
    BY <1>1, <2>1, OutsideStays DEF Begin, PreloadExact, NoInsertCollides, OriginKnown
<1>2. CASE HighestKey
  <2> DEFINE n == IF docs = {} THEN 0 ELSE Highest + 1
  <2>1. n \in 0 .. MaxKey + 1 /\ \A k \in docs : k < n
    <3>1. CASE docs = {}
      BY <1>0, <3>1
    <3>2. CASE docs # {}
      <4>1. n = Highest + 1
        BY <3>2
      <4> HIDE DEF n
      <4>. QED
        BY <1>0, <3>2, <4>1, HighestIs
    <3>. QED
      BY <3>1, <3>2
  <2>2. StartBenchmark(n) /\ phase = "starting" /\ origin' = "highest"
    BY <1>2 DEF HighestKey
  <2> HIDE DEF n
  <2>3. TypeOK'
    BY <1>0, <2>1, <2>2 DEF TypeOK, StartBenchmark, loaderVars
  <2>4. PreloadExact' /\ NoInsertCollides' /\ OriginKnown'
    BY <2>1, <2>2 DEF PreloadExact, NoInsertCollides, OriginKnown, StartBenchmark, loaderVars
  <2>. QED
    BY <2>2, <2>3, <2>4, OutsideStays DEF StartBenchmark, OriginKnown
<1>3. CASE FallBackToCount
  <2>1. Cardinality(docs) \in 0 .. MaxKey + 1
    <3>1. IsFiniteSet(0 .. MaxKey) /\ Cardinality(0 .. MaxKey) = MaxKey + 1
      BY <1>0, FS_Interval
    <3>2. docs \subseteq 0 .. MaxKey
      BY <1>0 DEF TypeOK
    <3>3. Cardinality(docs) <= Cardinality(0 .. MaxKey) /\ Cardinality(docs) \in Nat
      BY <3>1, <3>2, FS_Subset, FS_CardinalityType
    <3>. QED
      BY <1>0, <3>1, <3>3
  <2>2. StartBenchmark(Cardinality(docs)) /\ phase = "starting" /\ origin' = "count"
    BY <1>3 DEF FallBackToCount
  <2>3. TypeOK'
    BY <1>0, <2>1, <2>2 DEF TypeOK, StartBenchmark, loaderVars
  <2>. QED
    BY <2>2, <2>3, OutsideStays DEF StartBenchmark, PreloadExact, NoInsertCollides, OriginKnown
<1>4. CASE SkipPreload
  <2>1. TypeOK'
    BY <1>0, <1>4 DEF TypeOK, SkipPreload, loaderVars
  <2>. QED
    BY <1>4, <2>1, OutsideStays DEF SkipPreload, PreloadExact, NoInsertCollides, OriginKnown
<1>5. CASE BeginPreload
  <2>1. LoaderGood'
    BY <1>5, PreloadBegins
  <2>2. phase' = "preloading" /\ UNCHANGED <<setup, startingCount, nextKey, runs, origin>>
    BY <1>5 DEF BeginPreload
  <2>3. TypeOK'
    BY <1>0, <2>1, <2>2 DEF LoaderGood, LoaderType, TypeOK
  <2>. QED
    BY <2>1, <2>2, <2>3 DEF LoaderGood, OrchInv, PreloadExact, NoInsertCollides, OriginKnown
<1>6. ASSUME NEW t \in Tasks, Preload(t) PROVE OrchInv'
  BY <1>6, PreloadStays
<1>7. CASE PreloadSucceeds
  <2>1. docs = 0 .. DocumentCount - 1 /\ confirmed = DocumentCount /\ preloadKey = DocumentCount
    BY <1>7, PreloadIsExact DEF PreloadSucceeds
  <2>2. \A t \in Tasks : task[t] = Idle
    BY <1>7 DEF PreloadSucceeds, Loaded, OrchInv, TaskOK
  <2>3. TypeOK'
    BY <1>0, <1>7, <2>2 DEF TypeOK, PreloadSucceeds, loaderVars
  <2>. QED
    BY <1>7, <2>1, <2>3, OutsideStays DEF PreloadSucceeds, PreloadExact, NoInsertCollides, OriginKnown, loaderVars
<1>8. CASE PreloadFails
  <2>1. \A t \in Tasks : task[t] = Idle
    BY <1>8 DEF PreloadFails, Loaded, OrchInv, TaskOK
  <2>2. TypeOK'
    BY <1>0, <1>8, <2>1 DEF TypeOK, PreloadFails, loaderVars
  <2>. QED
    BY <1>8, <2>2, OutsideStays DEF PreloadFails, PreloadExact, NoInsertCollides, OriginKnown
<1>9. CASE IndexesCreated
  <2>1. StartBenchmark(DocumentCount) /\ phase = "indexes" /\ origin' = origin
    BY <1>9 DEF IndexesCreated
  <2>2. TypeOK'
    BY <1>0, <2>1 DEF TypeOK, StartBenchmark, loaderVars
  <2>. QED
    BY <1>0, <2>1, <2>2, OutsideStays DEF StartBenchmark, PreloadExact, NoInsertCollides, OriginKnown, loaderVars
<1>10. CASE SetupFails
  <2>1. TypeOK'
    BY <1>0, <1>10 DEF TypeOK, SetupFails, loaderVars
  <2>. QED
    BY <1>10, <2>1, OutsideStays DEF SetupFails, PreloadExact, NoInsertCollides, OriginKnown
<1>11. CASE BenchmarkInsert
  <2>1. TypeOK'
    BY <1>0, <1>11 DEF TypeOK, BenchmarkInsert
  <2>2. NoInsertCollides'
    BY <1>0, <1>11 DEF TypeOK, BenchmarkInsert, NoInsertCollides
  <2>. QED
    BY <1>11, <2>1, <2>2, OutsideStays DEF BenchmarkInsert, PreloadExact, OriginKnown
<1>12. CASE BenchmarkInsertFails
  <2>1. TypeOK'
    BY <1>0, <1>12 DEF TypeOK, BenchmarkInsertFails, loaderVars
  <2>2. NoInsertCollides'
    BY <1>0, <1>12 DEF TypeOK, BenchmarkInsertFails, NoInsertCollides, loaderVars
  <2>. QED
    BY <1>12, <2>1, <2>2, OutsideStays DEF BenchmarkInsertFails, PreloadExact, OriginKnown
<1>13. CASE BenchmarkDelete
  <2>1. docs' \subseteq docs /\ UNCHANGED <<preloadKey, confirmed, task, errs, runVars>> /\ phase = "benchmark"
    BY <1>13 DEF BenchmarkDelete
  <2>2. TypeOK'
    BY <1>0, <2>1 DEF TypeOK, runVars
  <2>. QED
    BY <1>0, <2>1, <2>2, OutsideStays DEF PreloadExact, NoInsertCollides, OriginKnown, runVars
<1>14. CASE EndRun
  <2>1. TypeOK'
    BY <1>0, <1>14 DEF TypeOK, EndRun, loaderVars
  <2>. QED
    BY <1>14, <2>1, OutsideStays DEF EndRun, PreloadExact, NoInsertCollides, OriginKnown
<1>15. CASE Kill
  <2>1. docs' \subseteq 0 .. MaxKey
    <3>1. \A t \in Tasks : task[t].batch \subseteq 0 .. MaxKey
      BY <1>0 DEF TypeOK
    <3>2. PICK stored \in SUBSET UNION {task[t].batch : t \in {u \in Tasks : InFlight(u)}} : docs' = docs \cup stored
      BY <1>15 DEF Kill
    <3>3. \A k \in stored : \E t \in Tasks : k \in task[t].batch
      OBVIOUS
    <3>4. docs \subseteq 0 .. MaxKey
      BY <1>0 DEF TypeOK
    <3>. QED
      BY <3>1, <3>2, <3>3, <3>4
  <2>2. TypeOK'
    BY <1>0, <1>15, <2>1 DEF TypeOK, Kill, Idle
  <2>. QED
    BY <1>15, <2>2, OutsideStays DEF Kill, PreloadExact, NoInsertCollides, OriginKnown
<1>16. CASE UNCHANGED vars
  <2>1. /\ docs' = docs /\ preloadKey' = preloadKey /\ confirmed' = confirmed /\ task' = task /\ errs' = errs
        /\ phase' = phase /\ setup' = setup /\ startingCount' = startingCount /\ nextKey' = nextKey
        /\ runs' = runs /\ origin' = origin
    BY <1>16 DEF vars, loaderVars, runVars
  <2>2. TypeOK' /\ PreloadExact' /\ NoInsertCollides' /\ OriginKnown'
    BY <1>0, <2>1 DEF TypeOK, PreloadExact, NoInsertCollides, OriginKnown
  <2>3. (\A t \in Tasks : TaskOK(t)') /\ (LoadInv' <=> LoadInv)
    BY <2>1 DEF OrchInv, TaskOK, BatchOf, LoadInv, Clean, Claims
  <2>. QED
    BY <2>1, <2>2, <2>3 DEF OrchInv
<1>. QED
  BY <1>1, <1>2, <1>3, <1>4, <1>5, <1>6, <1>7, <1>8, <1>9, <1>10, <1>11, <1>12, <1>13, <1>14, <1>15, <1>16
     DEF Next, Terminating

LEMMA OrchAlways == Spec => []OrchInv
BY OrchStarts, OrchStays, PTL DEF Spec

\* Every variable has its type, whatever the number of threads, documents and runs.
THEOREM TypeCorrect == Spec => []TypeOK
<1>1. OrchInv => TypeOK
  BY DEF OrchInv
<1>. QED
  BY <1>1, OrchAlways, PTL

\* loader.go:58-106: whatever the number of threads and documents and the batch size, a
\* run goes on after its preload only with all of its keys.
THEOREM PreloadLoadsAll == Spec => []PreloadExact
<1>1. OrchInv => PreloadExact
  BY DEF OrchInv
<1>. QED
  BY <1>1, OrchAlways, PTL

\* loader.go:120-126: no key is in two batches, and none of a batch is stored already.
THEOREM BatchesApart == Spec => []BatchesDisjoint
<1>1. OrchInv => BatchesDisjoint
  BY DEF OrchInv, TaskOK, BatchesDisjoint
<1>. QED
  BY <1>1, OrchAlways, PTL

\* orchestrator.go:476-479: after a preload, or from the highest key on, inserts are new.
THEOREM InsertsAreNew == Spec => []NoInsertCollides
<1>1. OrchInv => NoInsertCollides
  BY DEF OrchInv
<1>. QED
  BY <1>1, OrchAlways, PTL
=============================================================================
