--------------------------- MODULE KeySpaceProofs ---------------------------
(***************************************************************************)
(* Proofs about KeySpace, for every finite set of workers, every starting  *)
(* count, record count and distribution: type correctness, the inductive   *)
(* invariant IInv, and what follows from it.                               *)
(***************************************************************************)
EXTENDS KeySpace, FiniteSetTheorems, TLAPS

\* Whatever the distribution and the number it was built for, the index it
\* returns lies below the count it was given (NextExistingKey, NextLatest).
LEMMA IndexInRange ==
    ASSUME NEW c \in Nat \ {0}, NEW n \in Nat
    PROVE  IndexChoices(c, n) \subseteq 0 .. c - 1
<1>1. n % c \in 0 .. c - 1
  OBVIOUS
<1>2. \A z \in Nat : Clamp(z, c) \in 0 .. c - 1 /\ FromNewest(z, c) \in 0 .. c - 1
  BY DEF Clamp, FromNewest
<1>3. EffectiveRecordCount \in Nat
  BY CountAssumption DEF EffectiveRecordCount
<1>4. CASE Distribution = "sequential"
  BY <1>1, <1>4 DEF IndexChoices
<1>5. CASE Distribution = "zipfian" /\ EffectiveRecordCount > 0
  BY <1>2, <1>3, <1>5 DEF IndexChoices
<1>6. CASE Distribution = "latest" /\ EffectiveRecordCount > 0
  BY <1>2, <1>3, <1>6 DEF IndexChoices
<1>7. CASE /\ Distribution # "sequential"
           /\ ~(Distribution = "zipfian" /\ EffectiveRecordCount > 0)
           /\ ~(Distribution = "latest" /\ EffectiveRecordCount > 0)
  BY <1>7 DEF IndexChoices
<1>. QED
  BY <1>4, <1>5, <1>6, <1>7

\* Dropping a worker's locals keeps them typed.
LEMMA ReturnType ==
    ASSUME TypeOK, NEW w \in Workers, NEW place \in {"idle", "stopped"}, Return(w, place)
    PROVE  /\ pc' \in [Workers -> Places]
           /\ op' \in [Workers -> KeyedOps \cup {None}]
           /\ count' \in [Workers -> Nat]
           /\ key' \in [Workers -> Nat \cup {NoKey}]
           /\ \A v \in Workers : pc'[v] = "counted" => count'[v] > 0
           /\ \A v \in Workers :
                pc'[v] \in {"keyed", "updating", "inserting", "ack"} => key'[v] \in Nat
  BY DEF TypeOK, Return, Places, None, NoKey

LEMMA InitType == Init => TypeOK
<1>. SUFFICES ASSUME Init PROVE TypeOK
  OBVIOUS
<1>1. coll \subseteq Nat
  BY CountAssumption DEF Init, Initial
<1>2. phase \in Phases
  BY ModeAssumption DEF Init, Phases
<1>3. lateInserts \subseteq Nat /\ lateDeletes \subseteq Nat /\ confirmed \subseteq Nat /\ lost \subseteq Nat
  BY DEF Init
<1>4. /\ pc \in [Workers -> Places] /\ op \in [Workers -> KeyedOps \cup {None}]
      /\ count \in [Workers -> Nat] /\ key \in [Workers -> Nat \cup {NoKey}]
  BY DEF Init, Places
<1>5. \A w \in Workers : pc[w] = "idle"
  BY DEF Init
<1>6. /\ nextKey = StartingCount /\ insertedDocs = StartingCount /\ seqCounter = 0
      /\ ctxDone \in BOOLEAN /\ parentDone \in BOOLEAN
  BY DEF Init
<1>. QED
  BY <1>1, <1>2, <1>3, <1>4, <1>5, <1>6, CountAssumption DEF TypeOK

LEMMA StepType == TypeOK /\ [Next]_vars => TypeOK'
<1>. SUFFICES ASSUME TypeOK, [Next]_vars PROVE TypeOK'
  OBVIOUS
<1>. USE CountAssumption DEF TypeOK, Places, Phases, KeyedOps, Lookups, None, NoKey
<1>1. CASE UNCHANGED vars
  BY <1>1 DEF vars, generator, locals, control, server, history
<1>2. ASSUME NEW w \in Workers, WorkerStep(w) PROVE TypeOK'
  <2>. USE DEF generator, control, server, history, Return
  <2>1. CASE Proceed(w)
    BY <2>1 DEF Proceed
  <2>2. CASE Leave(w)
    BY <2>2 DEF Leave
  <2>3. CASE LimiterGivesUp(w)
    BY <2>3 DEF LimiterGivesUp
  <2>4. CASE Reserve(w)
    BY <2>4 DEF Reserve
  <2>5. CASE InsertConfirmed(w)
    BY <2>5 DEF InsertConfirmed
  <2>6. CASE InsertFailed(w)
    <3>1. key[w] \in Nat
      BY <2>6 DEF InsertFailed
    <3>2. coll' \subseteq Nat /\ lateInserts' \subseteq Nat /\ lateDeletes' \subseteq Nat
      BY <2>6, <3>1 DEF InsertFailed
    <3>3. Return(w, "idle") \/ Return(w, "stopped")
      BY <2>6 DEF InsertFailed
    <3>4. UNCHANGED <<generator, control, confirmed>> /\ lost' \subseteq Nat
      BY <2>6, <3>1 DEF InsertFailed
    <3>. QED
      BY <3>2, <3>3, <3>4, ReturnType
  <2>7. CASE AcknowledgeInsert(w)
    BY <2>7 DEF AcknowledgeInsert
  <2>8. CASE LoadCount(w)
    BY <2>8 DEF LoadCount
  <2>9. CASE PickKey(w)
    <3>1. PICK i \in IndexChoices(count[w], seqCounter) : key' = [key EXCEPT ![w] = i]
      BY <2>9 DEF PickKey
    <3>2. i \in Nat
      BY <3>1, <2>9, IndexInRange DEF PickKey
    <3>. QED
      BY <2>9, <3>1, <3>2 DEF PickKey
  <2>10. CASE Lookup(w)
    BY <2>10 DEF Lookup
  <2>11. CASE Delete(w)
    BY <2>11 DEF Delete
  <2>12. CASE ReadModify(w)
    BY <2>12 DEF ReadModify
  <2>13. CASE Write(w)
    BY <2>13 DEF Write
  <2>14. CASE KeyedFailed(w)
    <3>1. key[w] \in Nat
      BY <2>14 DEF KeyedFailed
    <3>2. coll' \subseteq Nat /\ lateInserts' \subseteq Nat /\ lateDeletes' \subseteq Nat
      BY <2>14, <3>1 DEF KeyedFailed
    <3>3. Return(w, "idle") \/ Return(w, "stopped")
      BY <2>14 DEF KeyedFailed
    <3>4. UNCHANGED <<generator, control, confirmed>> /\ lost' \subseteq Nat
      BY <2>14, <3>1 DEF KeyedFailed
    <3>. QED
      BY <3>2, <3>3, <3>4, ReturnType
  <2>. QED
    BY <1>2, <2>1, <2>2, <2>3, <2>4, <2>5, <2>6, <2>7, <2>8, <2>9, <2>10, <2>11,
       <2>12, <2>13, <2>14 DEF WorkerStep
<1>3. CASE Expire
  BY <1>3 DEF Expire, generator, locals, server, history
<1>4. CASE CancelParent
  BY <1>4 DEF CancelParent, generator, locals, server, history
<1>5. CASE StartBenchmark
  BY <1>5 DEF StartBenchmark, generator, server, history
<1>6. CASE FinishBenchmark
  BY <1>6 DEF FinishBenchmark, generator, locals, server, history
<1>7. ASSUME NEW k \in lateInserts, ExecuteLateInsert(k) PROVE TypeOK'
  BY <1>7 DEF ExecuteLateInsert, generator, locals, control, history
<1>8. ASSUME NEW k \in lateDeletes, ExecuteLateDelete(k) PROVE TypeOK'
  BY <1>8 DEF ExecuteLateDelete, generator, locals, control, history
<1>9. CASE Terminating
  BY <1>1, <1>9 DEF Terminating
<1>. QED
  BY <1>1, <1>2, <1>3, <1>4, <1>5, <1>6, <1>7, <1>8, <1>9 DEF Next

-----------------------------------------------------------------------------
InsertPlaces == {"inserting", "ack"}

\* The key sets depend on the workers inside an insert only: a step that neither
\* enters nor leaves an insert, nor touches the keys, leaves them as they are.
LEMMA OutsideInserts ==
    ASSUME UNCHANGED <<nextKey, insertedDocs, confirmed, lost>>,
           \A v \in Workers : /\ pc[v] \in InsertPlaces => pc'[v] = pc[v] /\ key'[v] = key[v]
                              /\ pc'[v] \in InsertPlaces => pc'[v] = pc[v]
    PROVE  /\ Reserving' = Reserving /\ InFlight' = InFlight /\ Acked' = Acked
           /\ KeysPartitioned => KeysPartitioned'
           /\ CountIsAcked => CountIsAcked'
<1>1. Reserving' = Reserving
  BY DEF Reserving, InsertPlaces
<1>2. \A v \in Reserving : key'[v] = key[v]
  BY DEF Reserving, InsertPlaces
<1>3. InFlight' = InFlight
  BY <1>1, <1>2 DEF InFlight
<1>4. \A v \in Workers : /\ pc'[v] = "ack" <=> pc[v] = "ack"
                         /\ pc'[v] = "inserting" <=> pc[v] = "inserting"
                         /\ pc[v] \in {"ack", "inserting"} => key'[v] = key[v]
  BY DEF InsertPlaces
<1>5. Acked' = Acked
  BY <1>4 DEF Acked
<1>6. KeysPartitioned => KeysPartitioned'
  BY <1>1, <1>2, <1>3, <1>4 DEF KeysPartitioned
<1>. QED
  BY <1>1, <1>3, <1>5, <1>6 DEF CountIsAcked

\* ReserveInsertKey: a key nobody had becomes pending.
LEMMA ReserveKeys ==
    ASSUME TypeOK, KeysPartitioned, NEW w \in Workers, Reserve(w)
    PROVE  /\ KeysPartitioned'
           /\ InFlight' = InFlight \cup {nextKey} /\ Acked' = Acked
<1>. USE CountAssumption DEF TypeOK
<1>1. /\ pc[w] = "ready" /\ pc'[w] = "inserting" /\ key'[w] = nextKey
      /\ \A v \in Workers \ {w} : pc'[v] = pc[v] /\ key'[v] = key[v]
      /\ nextKey' = nextKey + 1 /\ confirmed' = confirmed /\ lost' = lost
  BY DEF Reserve, history
<1>2. Reserving' = Reserving \cup {w} /\ w \notin Reserving
  BY <1>1 DEF Reserving
<1>3. InFlight' = InFlight \cup {nextKey}
  <2>1. \A v \in Reserving : key'[v] = key[v]
    BY <1>1, <1>2 DEF Reserving
  <2>2. key'[w] = nextKey
    BY <1>1
  <2>. QED
    BY <1>2, <2>1, <2>2 DEF InFlight
<1>4. Acked' = Acked
  BY <1>1 DEF Acked
<1>5. StartingCount .. nextKey' - 1 = (StartingCount .. nextKey - 1) \cup {nextKey}
  BY <1>1
<1>6. nextKey \notin confirmed \cup lost \cup InFlight
  BY DEF KeysPartitioned
<1>7. \A v \in Reserving : key[v] # nextKey
  BY <1>6 DEF InFlight
<1>8. \A v \in Reserving' : key'[v] \in StartingCount .. nextKey' - 1 /\ key'[v] \notin lost'
  BY <1>1, <1>2, <1>5, <1>6 DEF KeysPartitioned, Reserving
<1>9. \A u, v \in Reserving' : u # v => key'[u] # key'[v]
  BY <1>1, <1>2, <1>7 DEF KeysPartitioned, Reserving
<1>10. \A v \in Workers : /\ pc'[v] = "inserting" => key'[v] \notin confirmed'
                          /\ pc'[v] = "ack" => key'[v] \in confirmed'
  BY <1>1, <1>6 DEF KeysPartitioned
<1>11. confirmed' \cup lost' \cup InFlight' = StartingCount .. nextKey' - 1
  BY <1>1, <1>3, <1>5 DEF KeysPartitioned
<1>. QED
  BY <1>1, <1>3, <1>4, <1>8, <1>9, <1>10, <1>11 DEF KeysPartitioned

\* InsertOne succeeded: the key stays pending until it is acknowledged.
LEMMA ConfirmKeys ==
    ASSUME TypeOK, KeysPartitioned, NEW w \in Workers, InsertConfirmed(w)
    PROVE  /\ KeysPartitioned'
           /\ InFlight' = InFlight /\ Acked' = Acked
<1>. USE DEF TypeOK
<1>1. /\ pc[w] = "inserting" /\ pc'[w] = "ack" /\ key' = key
      /\ \A v \in Workers \ {w} : pc'[v] = pc[v]
      /\ confirmed' = confirmed \cup {key[w]} /\ lost' = lost /\ nextKey' = nextKey
  BY DEF InsertConfirmed, generator
<1>2. Reserving' = Reserving /\ w \in Reserving
  BY <1>1 DEF Reserving
<1>3. InFlight' = InFlight
  BY <1>1, <1>2 DEF InFlight
<1>4. \A v \in Reserving \ {w} : key[v] # key[w]
  BY <1>2 DEF KeysPartitioned
<1>5. key[w] \notin confirmed
  BY <1>1 DEF KeysPartitioned
<1>6. Acked' = Acked
  <2>1. {v \in Workers : pc'[v] = "ack"} = {v \in Workers : pc[v] = "ack"} \cup {w}
    BY <1>1
  <2>. QED
    BY <1>1, <1>5, <2>1 DEF Acked
<1>7. \A v \in Workers : /\ pc'[v] = "inserting" => key'[v] \notin confirmed'
                         /\ pc'[v] = "ack" => key'[v] \in confirmed'
  BY <1>1, <1>4 DEF KeysPartitioned, Reserving
<1>8. confirmed' \cap lost' = {}
  BY <1>1, <1>2 DEF KeysPartitioned
<1>9. confirmed' \cup lost' \cup InFlight' = StartingCount .. nextKey' - 1
  BY <1>1, <1>2, <1>3 DEF KeysPartitioned
<1>. QED
  BY <1>1, <1>2, <1>3, <1>6, <1>7, <1>8, <1>9 DEF KeysPartitioned

\* A worker leaves an insert: exactly its own key is no longer pending.
LEMMA LeaveInsert ==
    ASSUME TypeOK, KeysPartitioned, NEW w \in Reserving,
           NEW place \in {"idle", "stopped"}, Return(w, place)
    PROVE  /\ Reserving' = Reserving \ {w} /\ InFlight' = InFlight \ {key[w]}
           /\ key[w] \in InFlight
           /\ \A v \in Reserving' : key'[v] = key[v]
           /\ \A v \in Workers \ {w} : pc'[v] = pc[v] /\ key'[v] = key[v]
           /\ pc'[w] = place
<1>. USE DEF TypeOK
<1>1. /\ pc'[w] = place /\ w \in Workers
      /\ \A v \in Workers \ {w} : pc'[v] = pc[v] /\ key'[v] = key[v]
  BY DEF Return, Reserving
<1>2. Reserving' = Reserving \ {w}
  BY <1>1 DEF Reserving
<1>3. \A v \in Reserving' : key'[v] = key[v]
  BY <1>1, <1>2 DEF Reserving
<1>4. \A v \in Reserving \ {w} : key[v] # key[w]
  BY DEF KeysPartitioned
<1>5. InFlight' = InFlight \ {key[w]} /\ key[w] \in InFlight
  BY <1>2, <1>3, <1>4 DEF InFlight
<1>. QED
  BY <1>1, <1>2, <1>3, <1>5

\* A failed insert: its key is lost.
LEMMA LoseKeys ==
    ASSUME TypeOK, KeysPartitioned, NEW w \in Workers, InsertFailed(w)
    PROVE  /\ KeysPartitioned'
           /\ key[w] \in InFlight /\ InFlight' = InFlight \ {key[w]} /\ Acked' = Acked
<1>. USE DEF TypeOK
<1>1. /\ pc[w] = "inserting" /\ lost' = lost \cup {key[w]}
      /\ confirmed' = confirmed /\ nextKey' = nextKey
      /\ w \in Reserving
      /\ \E place \in {"idle", "stopped"} : Return(w, place)
  BY DEF InsertFailed, generator, Reserving
<1>2. /\ Reserving' = Reserving \ {w} /\ InFlight' = InFlight \ {key[w]}
      /\ key[w] \in InFlight
      /\ \A v \in Reserving' : key'[v] = key[v]
      /\ \A v \in Workers \ {w} : pc'[v] = pc[v] /\ key'[v] = key[v]
      /\ pc'[w] \in {"idle", "stopped"}
  BY <1>1, LeaveInsert
<1>3. Acked' = Acked
  <2>1. \A v \in Workers : /\ pc'[v] = "ack" <=> pc[v] = "ack"
                           /\ pc[v] = "ack" => key'[v] = key[v]
    BY <1>1, <1>2
  <2>. QED
    BY <1>1, <2>1 DEF Acked
<1>4. \A v \in Reserving' : key'[v] \in StartingCount .. nextKey' - 1 /\ key'[v] \notin lost'
  BY <1>1, <1>2 DEF KeysPartitioned
<1>5. \A u, v \in Reserving' : u # v => key'[u] # key'[v]
  BY <1>2 DEF KeysPartitioned
<1>6. \A v \in Workers : /\ pc'[v] = "inserting" => key'[v] \notin confirmed'
                         /\ pc'[v] = "ack" => key'[v] \in confirmed'
  BY <1>1, <1>2 DEF KeysPartitioned
<1>7. confirmed' \cap lost' = {}
  BY <1>1 DEF KeysPartitioned
<1>8. confirmed' \cup lost' \cup InFlight' = StartingCount .. nextKey' - 1
  BY <1>1, <1>2 DEF KeysPartitioned
<1>. QED
  BY <1>2, <1>3, <1>4, <1>5, <1>6, <1>7, <1>8 DEF KeysPartitioned

\* AcknowledgeInsert: a pending key, confirmed before, is acknowledged.
LEMMA AcknowledgeKeys ==
    ASSUME TypeOK, KeysPartitioned, NEW w \in Workers, AcknowledgeInsert(w)
    PROVE  /\ KeysPartitioned'
           /\ key[w] \in InFlight /\ InFlight' = InFlight \ {key[w]}
           /\ key[w] \notin Acked /\ Acked' = Acked \cup {key[w]}
<1>. USE DEF TypeOK
<1>1. /\ pc[w] = "ack" /\ lost' = lost /\ confirmed' = confirmed /\ nextKey' = nextKey
      /\ w \in Reserving /\ Return(w, "idle")
  BY DEF AcknowledgeInsert, history, Reserving
<1>2. /\ Reserving' = Reserving \ {w} /\ InFlight' = InFlight \ {key[w]}
      /\ key[w] \in InFlight
      /\ \A v \in Reserving' : key'[v] = key[v]
      /\ \A v \in Workers \ {w} : pc'[v] = pc[v] /\ key'[v] = key[v]
      /\ pc'[w] = "idle"
  BY <1>1, LeaveInsert
<1>3. key[w] \in confirmed
  BY <1>1 DEF KeysPartitioned
<1>4. key[w] \notin Acked /\ Acked' = Acked \cup {key[w]}
  <2>1. {v \in Workers : pc'[v] = "ack"} = {v \in Workers : pc[v] = "ack"} \ {w}
    BY <1>1, <1>2
  <2>2. \A v \in Workers \ {w} : pc[v] = "ack" => key[v] # key[w]
    BY <1>1 DEF KeysPartitioned, Reserving
  <2>. QED
    BY <1>1, <1>2, <1>3, <2>1, <2>2 DEF Acked
<1>5. \A v \in Reserving' : key'[v] \in StartingCount .. nextKey' - 1 /\ key'[v] \notin lost'
  BY <1>1, <1>2 DEF KeysPartitioned
<1>6. \A u, v \in Reserving' : u # v => key'[u] # key'[v]
  BY <1>2 DEF KeysPartitioned
<1>7. \A v \in Workers : /\ pc'[v] = "inserting" => key'[v] \notin confirmed'
                         /\ pc'[v] = "ack" => key'[v] \in confirmed'
  BY <1>1, <1>2 DEF KeysPartitioned
<1>8. confirmed' \cup lost' \cup InFlight' = StartingCount .. nextKey' - 1
  BY <1>1, <1>2, <1>3 DEF KeysPartitioned
<1>. QED
  BY <1>1, <1>2, <1>4, <1>5, <1>6, <1>7, <1>8 DEF KeysPartitioned

-----------------------------------------------------------------------------
\* The keys from startingCount to nextKey are finitely many, so every set they
\* are divided into is finite, and the acknowledged ones are at most as many.
LEMMA KeySetsFinite ==
    ASSUME TypeOK, KeysPartitioned
    PROVE  /\ IsFiniteSet(Acked) /\ IsFiniteSet(InFlight) /\ IsFiniteSet(lost)
           /\ Acked \subseteq StartingCount .. nextKey - 1
           /\ Acked \cup InFlight \cup lost = StartingCount .. nextKey - 1
           /\ Acked \cap InFlight = {} /\ Acked \cap lost = {} /\ InFlight \cap lost = {}
           /\ Cardinality(StartingCount .. nextKey - 1) = nextKey - StartingCount
<1>. DEFINE keys == StartingCount .. nextKey - 1
<1>1. IsFiniteSet(keys) /\ Cardinality(keys) = nextKey - StartingCount
  <2>1. StartingCount \in Int /\ nextKey - 1 \in Int /\ nextKey >= StartingCount
    BY CountAssumption DEF TypeOK
  <2>2. /\ IsFiniteSet(keys)
        /\ Cardinality(keys) = IF StartingCount > nextKey - 1 THEN 0
                               ELSE (nextKey - 1) - StartingCount + 1
    BY <2>1, FS_Interval
  <2>. QED
    BY <2>1, <2>2 DEF TypeOK
<1>2. confirmed \cup lost \cup InFlight = keys
  BY DEF KeysPartitioned
<1>3. Acked \subseteq keys
  BY <1>2 DEF Acked
<1>4. Acked \cup InFlight \cup lost = keys
  <2>1. {key[w] : w \in {v \in Workers : pc[v] = "ack"}} \subseteq InFlight
    BY DEF InFlight, Reserving
  <2>. QED
    BY <1>2, <2>1 DEF Acked
<1>5. Acked \cap InFlight = {}
  <2>1. \A w \in Reserving : key[w] \notin Acked
    BY DEF KeysPartitioned, Acked, Reserving
  <2>. QED
    BY <2>1 DEF InFlight
<1>6. Acked \cap lost = {} /\ InFlight \cap lost = {}
  BY DEF KeysPartitioned, Acked, InFlight
<1>. QED
  BY <1>1, <1>2, <1>3, <1>4, <1>5, <1>6, FS_Subset

LEMMA InitInv == Init => IInv
<1>. SUFFICES ASSUME Init PROVE IInv
  OBVIOUS
<1>1. TypeOK
  BY InitType
<1>2. Reserving = {} /\ Addressing = {} /\ InFlight = {} /\ Acked = {}
  BY DEF Init, Reserving, Addressing, InFlight, Acked
<1>3. \A w \in Workers : pc[w] = "idle"
  BY DEF Init
<1>4. KeysPartitioned
  <2>1. StartingCount .. nextKey - 1 = {}
    BY CountAssumption DEF Init
  <2>. QED
    BY <1>2, <1>3, <2>1 DEF Init, KeysPartitioned
<1>5. CountIsAcked
  BY <1>2, FS_EmptySet, CountAssumption DEF Init, CountIsAcked
<1>6. ServerBehind
  BY <1>3, CountAssumption DEF Init, ServerBehind, Initial
<1>7. LocalsBehind
  BY <1>2, <1>3 DEF LocalsBehind
<1>. QED
  BY <1>1, <1>4, <1>5, <1>6, <1>7 DEF IInv

\* A step outside the inserts: the keys stay divided as they are, and only what
\* the server and the workers know can move.
LEMMA QuietStep ==
    ASSUME IInv, TypeOK',
           UNCHANGED <<nextKey, insertedDocs, confirmed, lost>>,
           \A v \in Workers : /\ pc[v] \in InsertPlaces => pc'[v] = pc[v] /\ key'[v] = key[v]
                              /\ pc'[v] \in InsertPlaces => pc'[v] = pc[v],
           coll' \subseteq coll \cup lateInserts, lateInserts' \subseteq lateInserts,
           \A v \in Workers : pc'[v] = "counted" => count'[v] <= insertedDocs,
           \A v \in Workers : pc'[v] \in {"keyed", "updating"} => key'[v] < insertedDocs
    PROVE  IInv'
<1>1. KeysPartitioned' /\ CountIsAcked'
  BY OutsideInserts DEF IInv
<1>2. ServerBehind'
  <2>1. lateInserts \subseteq lost /\ lost \subseteq 0 .. nextKey - 1
    BY CountAssumption DEF IInv, TypeOK, KeysPartitioned, ServerBehind
  <2>2. \A v \in Workers : pc[v] = "inserting" => key[v] \notin coll /\ key[v] \notin lost
    BY DEF IInv, KeysPartitioned, ServerBehind, Reserving
  <2>3. \A v \in Workers : pc'[v] = "inserting" => pc[v] = "inserting" /\ key'[v] = key[v]
    BY DEF InsertPlaces
  <2>. QED
    BY <2>1, <2>2, <2>3 DEF ServerBehind, IInv
<1>3. LocalsBehind'
  BY DEF LocalsBehind, Addressing
<1>. QED
  BY <1>1, <1>2, <1>3 DEF IInv

\* The steps of an insert: what each one moves in ServerBehind and LocalsBehind.
LEMMA InsertStep ==
    ASSUME IInv, TypeOK', NEW w \in Workers,
           Reserve(w) \/ InsertConfirmed(w) \/ InsertFailed(w) \/ AcknowledgeInsert(w)
    PROVE  IInv'
<1>. USE CountAssumption DEF IInv
<1>0. /\ \A v \in Workers : pc[v] = "inserting" =>
                key[v] \notin coll /\ key[v] \notin lost /\ key[v] \in 0 .. nextKey - 1
      /\ lateInserts \subseteq lost
      /\ \A v \in Workers : pc[v] = "inserting" /\ v # w =>
                (pc[w] = "inserting" => key[v] # key[w])
  BY DEF TypeOK, KeysPartitioned, ServerBehind, Reserving
<1>1. CASE Reserve(w)
  <2>1. KeysPartitioned' /\ Acked' = Acked
    BY <1>1, ReserveKeys
  <2>2. CountIsAcked'
    BY <1>1, <2>1 DEF CountIsAcked, Reserve
  <2>3. /\ pc'[w] = "inserting" /\ key'[w] = nextKey /\ nextKey' = nextKey + 1
        /\ \A v \in Workers \ {w} : pc'[v] = pc[v] /\ key'[v] = key[v]
        /\ UNCHANGED <<coll, lateInserts, lost, insertedDocs, count>>
    BY <1>1 DEF Reserve, TypeOK, server, history
  <2>4. ServerBehind'
    BY <1>0, <2>3 DEF ServerBehind, TypeOK
  <2>5. LocalsBehind'
    BY <2>3 DEF LocalsBehind, Addressing
  <2>. QED
    BY <2>1, <2>2, <2>4, <2>5
<1>2. CASE InsertConfirmed(w)
  <2>1. KeysPartitioned' /\ Acked' = Acked
    BY <1>2, ConfirmKeys
  <2>2. CountIsAcked'
    BY <1>2, <2>1 DEF CountIsAcked, InsertConfirmed, generator
  <2>3. /\ pc[w] = "inserting" /\ pc'[w] = "ack" /\ key' = key
        /\ \A v \in Workers \ {w} : pc'[v] = pc[v]
        /\ coll' = coll \cup {key[w]}
        /\ UNCHANGED <<nextKey, lateInserts, lost, insertedDocs, count>>
    BY <1>2 DEF InsertConfirmed, TypeOK, generator
  <2>4. ServerBehind'
    BY <1>0, <2>3 DEF ServerBehind
  <2>5. LocalsBehind'
    BY <2>3 DEF LocalsBehind, Addressing
  <2>. QED
    BY <2>1, <2>2, <2>4, <2>5
<1>3. CASE InsertFailed(w)
  <2>1. KeysPartitioned' /\ Acked' = Acked
    BY <1>3, LoseKeys
  <2>2. CountIsAcked'
    BY <1>3, <2>1 DEF CountIsAcked, InsertFailed, generator
  <2>3. /\ pc[w] = "inserting" /\ pc'[w] \in {"idle", "stopped"}
        /\ \A v \in Workers \ {w} : /\ pc'[v] = pc[v] /\ key'[v] = key[v]
                                     /\ count'[v] = count[v]
        /\ UNCHANGED <<nextKey, insertedDocs>>
    BY <1>3 DEF InsertFailed, Return, TypeOK, generator
  <2>4. /\ coll' \subseteq coll \cup {key[w]} /\ lateInserts' \subseteq lateInserts \cup {key[w]}
        /\ lost' = lost \cup {key[w]}
    BY <1>3 DEF InsertFailed
  <2>5. ServerBehind'
    BY <1>0, <2>3, <2>4 DEF ServerBehind
  <2>6. LocalsBehind'
    BY <2>3 DEF LocalsBehind, Addressing
  <2>. QED
    BY <2>1, <2>2, <2>5, <2>6
<1>4. CASE AcknowledgeInsert(w)
  <2>1. KeysPartitioned' /\ key[w] \notin Acked /\ Acked' = Acked \cup {key[w]}
    BY <1>4, AcknowledgeKeys
  <2>2. insertedDocs' = insertedDocs + 1
    BY <1>4 DEF AcknowledgeInsert
  <2>3. CountIsAcked'
    <3>1. IsFiniteSet(Acked)
      BY KeySetsFinite
    <3>2. Cardinality(Acked') = Cardinality(Acked) + 1
      BY <2>1, <3>1, FS_AddElement
    <3>. QED
      BY <2>2, <3>1, <3>2, FS_CardinalityType DEF CountIsAcked, TypeOK
  <2>4. /\ pc'[w] = "idle"
        /\ \A v \in Workers \ {w} : /\ pc'[v] = pc[v] /\ key'[v] = key[v]
                                     /\ count'[v] = count[v]
        /\ UNCHANGED <<nextKey, coll, lateInserts, lost>>
    BY <1>4 DEF AcknowledgeInsert, Return, TypeOK, server, history
  <2>5. ServerBehind'
    BY <1>0, <2>4 DEF ServerBehind
  <2>6. LocalsBehind'
    BY <2>2, <2>4 DEF LocalsBehind, Addressing, TypeOK
  <2>. QED
    BY <2>1, <2>3, <2>5, <2>6
<1>. QED
  BY <1>1, <1>2, <1>3, <1>4

LEMMA StepInv == IInv /\ [Next]_vars => IInv'
<1>. SUFFICES ASSUME IInv, [Next]_vars PROVE IInv'
  OBVIOUS
<1>0. TypeOK /\ TypeOK'
  BY StepType DEF IInv
<1>. USE DEF InsertPlaces
<1>a. /\ \A v \in Workers : pc[v] = "counted" => count[v] <= insertedDocs
      /\ \A v \in Workers : pc[v] \in {"keyed", "updating"} => key[v] < insertedDocs
  BY DEF IInv, LocalsBehind, Addressing
<1>1. CASE UNCHANGED vars
  BY <1>0, <1>1, <1>a, QuietStep DEF vars, generator, locals, control, server, history
<1>2. ASSUME NEW w \in Workers, WorkerStep(w) PROVE IInv'
  <2>. USE DEF generator, control, server, history, Return, TypeOK
  <2>1. CASE Reserve(w) \/ InsertConfirmed(w) \/ InsertFailed(w) \/ AcknowledgeInsert(w)
    BY <1>0, <2>1, InsertStep
  <2>2. CASE Proceed(w) \/ Leave(w) \/ LimiterGivesUp(w)
    <3>1. /\ pc[w] \in {"idle", "ready"} /\ pc'[w] \in {"ready", "stopped"}
          /\ \A v \in Workers \ {w} : pc'[v] = pc[v]
          /\ UNCHANGED <<generator, count, key, server, history>>
      BY <1>0, <2>2 DEF Proceed, Leave, LimiterGivesUp
    <3>. QED
      BY <1>0, <1>a, <3>1, QuietStep
  <2>3. CASE LoadCount(w)
    <3>1. /\ pc[w] = "ready"
          /\ pc'[w] = "idle" \/ (pc'[w] = "counted" /\ count'[w] = insertedDocs)
          /\ \A v \in Workers \ {w} : /\ pc'[v] = pc[v] /\ key'[v] = key[v]
                                       /\ count'[v] = count[v]
          /\ UNCHANGED <<generator, server, history>>
      BY <1>0, <2>3 DEF LoadCount
    <3>. QED
      BY <1>0, <1>a, <3>1, QuietStep
  <2>4. CASE PickKey(w)
    <3>1. PICK i \in IndexChoices(count[w], seqCounter) : key' = [key EXCEPT ![w] = i]
      BY <2>4 DEF PickKey
    <3>2. i \in 0 .. count[w] - 1 /\ count[w] <= insertedDocs
      BY <1>0, <1>a, <2>4, <3>1, IndexInRange DEF PickKey
    <3>3. /\ pc[w] = "counted" /\ pc'[w] = "keyed" /\ key'[w] < insertedDocs
          /\ \A v \in Workers \ {w} : /\ pc'[v] = pc[v] /\ key'[v] = key[v]
                                       /\ count'[v] = count[v]
          /\ UNCHANGED <<nextKey, insertedDocs, server, history>>
      BY <1>0, <2>4, <3>1, <3>2 DEF PickKey
    <3>. QED
      BY <1>0, <1>a, <3>3, QuietStep
  <2>5. CASE Lookup(w) \/ Delete(w) \/ ReadModify(w) \/ Write(w) \/ KeyedFailed(w)
    <3>1. /\ pc[w] \in {"keyed", "updating"} /\ pc'[w] \in {"idle", "stopped", "updating"}
          /\ pc'[w] = "updating" => key'[w] = key[w]
          /\ \A v \in Workers \ {w} : /\ pc'[v] = pc[v] /\ key'[v] = key[v]
                                       /\ count'[v] = count[v]
          /\ UNCHANGED <<generator, lateInserts, history>>
      BY <1>0, <2>5 DEF Lookup, Delete, ReadModify, Write, KeyedFailed
    <3>2. coll' \subseteq coll
      BY <2>5 DEF Lookup, Delete, ReadModify, Write, KeyedFailed
    <3>. QED
      BY <1>0, <1>a, <3>1, <3>2, QuietStep
  <2>. QED
    BY <1>2, <2>1, <2>2, <2>3, <2>4, <2>5 DEF WorkerStep
<1>3. CASE Expire \/ CancelParent \/ FinishBenchmark
  <2>1. UNCHANGED <<generator, locals, server, history>>
    BY <1>3 DEF Expire, CancelParent, FinishBenchmark
  <2>. QED
    BY <1>0, <1>a, <2>1, QuietStep DEF generator, locals, server, history
<1>4. CASE StartBenchmark
  <2>1. /\ \A v \in Workers : pc[v] = "stopped" /\ pc'[v] = "idle"
        /\ UNCHANGED <<generator, count, key, server, history>>
    BY <1>4 DEF StartBenchmark, AllStopped
  <2>. QED
    BY <1>0, <1>a, <2>1, QuietStep DEF generator, server, history
<1>5. ASSUME NEW k \in lateInserts, ExecuteLateInsert(k) PROVE IInv'
  <2>1. /\ coll' = coll \cup {k} /\ lateInserts' = lateInserts \ {k}
        /\ UNCHANGED <<generator, locals, history>>
    BY <1>5 DEF ExecuteLateInsert
  <2>. QED
    BY <1>0, <1>a, <1>5, <2>1, QuietStep DEF generator, locals, history
<1>6. ASSUME NEW k \in lateDeletes, ExecuteLateDelete(k) PROVE IInv'
  <2>1. /\ coll' = coll \ {k} /\ UNCHANGED <<generator, locals, lateInserts, history>>
    BY <1>6 DEF ExecuteLateDelete
  <2>. QED
    BY <1>0, <1>a, <2>1, QuietStep DEF generator, locals, history
<1>7. CASE Terminating
  BY <1>1, <1>7 DEF Terminating
<1>. QED
  BY <1>1, <1>2, <1>3, <1>4, <1>5, <1>6, <1>7 DEF Next

\* The inductive invariant of the key space, for all constants: the keys reserved
\* from the generator are divided among inserts in flight, confirmed and lost, and
\* insertedDocs counts the acknowledged ones (generator.go, worker.go doInsert).
THEOREM Inductive == Spec => []IInv
<1>. QED
  BY InitInv, StepInv, PTL DEF Spec

\* Every variable keeps its type, for all constants.
THEOREM TypeCorrect == Spec => []TypeOK
<1>1. IInv => TypeOK
  BY DEF IInv
<1>. QED
  BY <1>1, Inductive, PTL

\* No insert of a run ever gets a duplicate-key error, for any number of workers:
\* the reserved keys are distinct and above everything the server knows.
THEOREM NoInsertCollides == Spec => []NoDuplicateKey
<1>1. IInv => NoDuplicateKey
  BY DEF IInv, NoDuplicateKey, KeysPartitioned, ServerBehind
<1>. QED
  BY <1>1, Inductive, PTL

-----------------------------------------------------------------------------
LEMMA DisjointUnion ==
    ASSUME NEW S, IsFiniteSet(S), NEW T, IsFiniteSet(T), S \cap T = {}
    PROVE  /\ IsFiniteSet(S \cup T)
           /\ Cardinality(S \cup T) = Cardinality(S) + Cardinality(T)
<1>1. /\ IsFiniteSet(S \cup T)
      /\ Cardinality(S \cup T) = Cardinality(S) + Cardinality(T) - Cardinality(S \cap T)
  BY FS_Union
<1>2. Cardinality(S \cap T) = 0
  BY FS_EmptySet
<1>3. Cardinality(S) \in Nat /\ Cardinality(T) \in Nat
  BY FS_CardinalityType
<1>. QED
  BY <1>1, <1>2, <1>3

\* insertedDocs never overtakes nextKey, and the difference is what is in flight
\* or lost.
LEMMA CountersFollow == IInv => CountersAgree /\ insertedDocs <= nextKey
<1>. SUFFICES ASSUME IInv PROVE CountersAgree /\ insertedDocs <= nextKey
  OBVIOUS
<1>1. TypeOK /\ KeysPartitioned /\ insertedDocs = StartingCount + Cardinality(Acked)
  BY DEF IInv, CountIsAcked
<1>2. /\ IsFiniteSet(Acked) /\ IsFiniteSet(InFlight) /\ IsFiniteSet(lost)
      /\ (Acked \cup InFlight) \cup lost = StartingCount .. nextKey - 1
      /\ Acked \cap InFlight = {} /\ (Acked \cup InFlight) \cap lost = {}
      /\ Cardinality(StartingCount .. nextKey - 1) = nextKey - StartingCount
  BY <1>1, KeySetsFinite
<1>3. /\ Cardinality(Acked) \in Nat /\ Cardinality(InFlight) \in Nat
      /\ Cardinality(lost) \in Nat
  BY <1>2, FS_CardinalityType
<1>4. /\ IsFiniteSet(Acked \cup InFlight)
      /\ Cardinality(Acked \cup InFlight) = Cardinality(Acked) + Cardinality(InFlight)
  BY <1>2, DisjointUnion
<1>5. Cardinality((Acked \cup InFlight) \cup lost)
        = Cardinality(Acked \cup InFlight) + Cardinality(lost)
  BY <1>2, <1>4, DisjointUnion
<1>6. nextKey - StartingCount = Cardinality(Acked) + Cardinality(InFlight) + Cardinality(lost)
  BY <1>2, <1>4, <1>5
<1>. QED
  BY <1>1, <1>3, <1>6, CountAssumption DEF CountersAgree, TypeOK

\* For all constants, the counters of the generator differ by exactly the inserts
\* in flight and lost.
THEOREM CountersTrack == Spec => []CountersAgree
<1>. QED
  BY CountersFollow, Inductive, PTL

\* For all constants, an operation addresses only keys that existed, were confirmed,
\* are being inserted, or whose insert failed (NextExistingKey).
THEOREM AddressedAccounted == Spec => []AddressedKeyAccounted
<1>1. ASSUME IInv PROVE AddressedKeyAccounted
  <2>1. insertedDocs <= nextKey
    BY <1>1, CountersFollow
  <2>2. \A w \in Addressing : key[w] \in 0 .. nextKey - 1
    BY <1>1, <2>1 DEF IInv, LocalsBehind, Addressing, TypeOK
  <2>3. confirmed \cup lost \cup InFlight = StartingCount .. nextKey - 1
    BY <1>1 DEF IInv, KeysPartitioned
  <2>. QED
    BY <1>1, <2>2, <2>3, CountAssumption DEF AddressedKeyAccounted, Initial, IInv, TypeOK
<1>. QED
  BY <1>1, Inductive, PTL

\* For all constants, an acknowledged key is out of reach of reads only behind
\* inserts reserved before it that are in flight or lost, and only then.
THEOREM HiddenOnlyByEarlier == Spec => []HiddenByEarlier
<1>1. ASSUME IInv, NEW k \in Acked, k >= insertedDocs
      PROVE  /\ Cardinality({j \in InFlight \cup lost : j < k}) > k - insertedDocs
             /\ \A w \in Addressing : key[w] # k
  <2>. DEFINE before  == StartingCount .. k - 1
              earlier == {j \in InFlight \cup lost : j < k}
              known   == Acked \cap before
  <2>1. /\ TypeOK /\ KeysPartitioned
        /\ insertedDocs = StartingCount + Cardinality(Acked)
    BY <1>1 DEF IInv, CountIsAcked
  <2>2. /\ IsFiniteSet(Acked) /\ Cardinality(Acked) \in Nat
        /\ Acked \cup InFlight \cup lost = StartingCount .. nextKey - 1
    BY <2>1, KeySetsFinite, FS_CardinalityType
  <2>3. /\ k \in Int /\ StartingCount \in Int /\ k - 1 \in Int /\ nextKey \in Int
        /\ StartingCount <= k /\ k <= nextKey - 1 /\ insertedDocs \in Int
    <3>1. k \in StartingCount .. nextKey - 1
      BY <1>1, <2>2
    <3>2. nextKey \in Int /\ insertedDocs \in Int /\ StartingCount \in Int
      BY <2>1, CountAssumption DEF TypeOK
    <3>. QED
      BY <3>1, <3>2
  <2>4. IsFiniteSet(before) /\ Cardinality(before) = k - StartingCount
    <3>1. /\ IsFiniteSet(StartingCount .. k - 1)
          /\ Cardinality(StartingCount .. k - 1)
               = IF StartingCount > k - 1 THEN 0 ELSE (k - 1) - StartingCount + 1
      <4>. HIDE DEF before
      <4>. QED
        BY <2>3, FS_Interval
    <3>2. (IF StartingCount > k - 1 THEN 0 ELSE (k - 1) - StartingCount + 1) = k - StartingCount
      BY <2>3
    <3>. QED
      BY <3>1, <3>2
  <2>5. before \ known \subseteq earlier
    BY <2>2, <2>3
  <2>6. earlier \subseteq before
    BY <2>2, <2>3
  <2>7. known \subseteq Acked \ {k} /\ known \subseteq before
    BY <2>3
  <2>. HIDE DEF before, earlier, known
  <2>8. IsFiniteSet(Acked \ {k}) /\ Cardinality(Acked \ {k}) = Cardinality(Acked) - 1
    BY <1>1, <2>2, FS_RemoveElement
  <2>9. IsFiniteSet(known) /\ Cardinality(known) <= Cardinality(Acked) - 1
    BY <2>7, <2>8, FS_Subset
  <2>10. before \cap known = known
    BY <2>7
  <2>11. Cardinality(before \ known) = Cardinality(before) - Cardinality(known)
    <3>1. IsFiniteSet(before)
      BY <2>4
    <3>2. Cardinality(before \ known) = Cardinality(before) - Cardinality(before \cap known)
      BY ONLY <3>1, FS_Difference, Zenon
    <3>. QED
      BY ONLY <2>10, <3>2, Zenon
  <2>12. IsFiniteSet(earlier) /\ Cardinality(before \ known) <= Cardinality(earlier)
    <3>1. IsFiniteSet(earlier)
      BY <2>4, <2>6, FS_Subset
    <3>. QED
      BY <2>5, <3>1, FS_Subset
  <2>13. Cardinality(known) \in Nat /\ Cardinality(earlier) \in Nat
    BY <2>9, <2>12, FS_CardinalityType
  <2>14. Cardinality(earlier) > k - insertedDocs
    <3>. DEFINE a == Cardinality(Acked)
                b == Cardinality(known)
                e == Cardinality(earlier)
    <3>1. /\ k - StartingCount - b <= e /\ b <= a - 1 /\ insertedDocs = StartingCount + a
          /\ a \in Int /\ b \in Int /\ e \in Int
      BY <2>1, <2>2, <2>4, <2>9, <2>11, <2>12, <2>13
    <3>. HIDE DEF a, b, e
    <3>2. e > k - insertedDocs
      BY <2>3, <3>1
    <3>. QED
      BY <3>2 DEF e
  <2>15. \A w \in Addressing : key[w] # k
    BY <1>1, <2>3 DEF IInv, LocalsBehind, Addressing, TypeOK
  <2>. QED
    BY <2>14, <2>15 DEF earlier
<1>2. IInv => HiddenByEarlier
  BY <1>1 DEF HiddenByEarlier
<1>. QED
  BY <1>2, Inductive, PTL

-----------------------------------------------------------------------------
\* Every step of the workers is a step of the abstract allocator, or none.
LEMMA AllocatorStep == IInv /\ [Next]_vars => [Allocator!Next]_Allocator!vars
<1>. SUFFICES ASSUME IInv, [Next]_vars PROVE [Allocator!Next]_Allocator!vars
  OBVIOUS
<1>0. TypeOK /\ KeysPartitioned
  BY DEF IInv
<1>. USE DEF Allocator!vars
<1>a. ASSUME UNCHANGED <<nextKey, insertedDocs, confirmed, lost>>,
             \A v \in Workers : /\ pc[v] \in InsertPlaces => pc'[v] = pc[v] /\ key'[v] = key[v]
                                /\ pc'[v] \in InsertPlaces => pc'[v] = pc[v]
      PROVE  UNCHANGED Allocator!vars
  BY <1>a, OutsideInserts
<1>1. CASE UNCHANGED <<generator, locals, history>>
  BY <1>1, <1>a DEF generator, locals, history
<1>2. ASSUME NEW w \in Workers, WorkerStep(w) PROVE [Allocator!Next]_Allocator!vars
  <2>1. CASE Reserve(w)
    <3>1. Allocator!Reserve
      BY <1>0, <2>1, ReserveKeys DEF Allocator!Reserve, Reserve, history
    <3>. QED
      BY <3>1 DEF Allocator!Next
  <2>2. CASE InsertConfirmed(w)
    BY <1>0, <2>2, ConfirmKeys DEF InsertConfirmed, generator
  <2>3. CASE InsertFailed(w)
    <3>1. Allocator!Abandon(key[w]) /\ key[w] \in InFlight
      BY <1>0, <2>3, LoseKeys DEF Allocator!Abandon, InsertFailed, generator
    <3>. QED
      BY <3>1 DEF Allocator!Next
  <2>4. CASE AcknowledgeInsert(w)
    <3>1. Allocator!Acknowledge(key[w]) /\ key[w] \in InFlight
      BY <1>0, <2>4, AcknowledgeKeys DEF Allocator!Acknowledge, AcknowledgeInsert, history
    <3>. QED
      BY <3>1 DEF Allocator!Next
  <2>5. CASE ~(Reserve(w) \/ InsertConfirmed(w) \/ InsertFailed(w) \/ AcknowledgeInsert(w))
    <3>. USE DEF generator, control, server, history, Return, TypeOK, InsertPlaces
    <3>1. CASE Proceed(w) \/ Leave(w) \/ LimiterGivesUp(w)
      BY <1>0, <1>a, <3>1 DEF Proceed, Leave, LimiterGivesUp
    <3>2. CASE LoadCount(w)
      BY <1>0, <1>a, <3>2 DEF LoadCount
    <3>3. CASE PickKey(w)
      BY <1>0, <1>a, <3>3 DEF PickKey
    <3>4. CASE Lookup(w) \/ Delete(w) \/ ReadModify(w) \/ Write(w) \/ KeyedFailed(w)
      BY <1>0, <1>a, <3>4 DEF Lookup, Delete, ReadModify, Write, KeyedFailed
    <3>. QED
      BY <1>2, <2>5, <3>1, <3>2, <3>3, <3>4 DEF WorkerStep
  <2>. QED
    BY <2>1, <2>2, <2>3, <2>4, <2>5
<1>3. CASE StartBenchmark
  BY <1>3, <1>a DEF StartBenchmark, AllStopped, generator, history, InsertPlaces
<1>4. CASE /\ ~\E w \in Workers : WorkerStep(w)
           /\ ~StartBenchmark
  <2>1. UNCHANGED <<generator, locals, history>>
    BY <1>4 DEF Next, Expire, CancelParent, FinishBenchmark, ExecuteLateInsert,
                ExecuteLateDelete, Terminating, vars
  <2>. QED
    BY <1>1, <2>1
<1>. QED
  BY <1>2, <1>3, <1>4

\* For all constants, the workers and pools sharing the generator's two counters
\* implement KeyAllocator.
THEOREM Implements == Spec => ImplementsAllocator
<1>1. Init => Allocator!Init
  BY DEF Init, Allocator!Init, Reserving, InFlight, Acked
<1>. QED
  BY <1>1, Inductive, AllocatorStep, PTL DEF Spec, ImplementsAllocator, Allocator!Spec

-----------------------------------------------------------------------------
(* Cancellation from above.                                                  *)

\* The context of a pool is derived from the run's.
Derived == ctxDone \in BOOLEAN /\ (parentDone => ctxDone)

LEMMA DerivedAlways == Spec => []Derived
<1>1. Init => Derived
  BY DEF Init, Derived
<1>2. Derived /\ TypeOK /\ [Next]_vars => Derived'
  <2> SUFFICES ASSUME Derived, TypeOK, [Next]_vars PROVE Derived'
    OBVIOUS
  <2>1. ASSUME NEW w \in Workers, WorkerStep(w) PROVE UNCHANGED <<ctxDone, parentDone>>
    BY <2>1 DEF WorkerStep, Proceed, Leave, LimiterGivesUp, Reserve, InsertConfirmed, InsertFailed,
                AcknowledgeInsert, LoadCount, PickKey, Lookup, Delete, ReadModify, Write, KeyedFailed, control
  <2>2. CASE Expire \/ CancelParent
    <3>1. ctxDone' = TRUE
      BY <2>2 DEF Expire, CancelParent
    <3>. QED
      BY <3>1 DEF Derived
  <2>5. CASE FinishBenchmark
    BY <2>5 DEF FinishBenchmark, Derived
  <2>3. CASE StartBenchmark
    BY <2>3 DEF StartBenchmark, Derived, TypeOK
  <2>4. CASE \/ \E k \in lateInserts : ExecuteLateInsert(k)
             \/ \E k \in lateDeletes : ExecuteLateDelete(k)
             \/ Terminating \/ UNCHANGED vars
    BY <2>4 DEF ExecuteLateInsert, ExecuteLateDelete, Terminating, vars, control, Derived
  <2>. QED
    BY <2>1, <2>2, <2>3, <2>4, <2>5 DEF Next, Derived
<1>. QED
  BY <1>1, <1>2, TypeCorrect, PTL DEF Spec

\* orchestrator.go, worker.go, for any number of workers and both pools: once the context
\* of the run is cancelled, a worker at the top of its loop goes for no operation any more.
THEOREM CancellationIsFinal == Spec => CancelledStartsNothing
<1>1. TypeOK /\ Derived /\ [Next]_vars
        => [parentDone => \A w \in Workers : pc[w] = "idle" => pc'[w] \in {"idle", "stopped"}]_vars
  <2> SUFFICES ASSUME TypeOK, Derived, Next, parentDone, NEW w \in Workers, pc[w] = "idle"
               PROVE  pc'[w] \in {"idle", "stopped"}
    OBVIOUS
  <2>1. ctxDone
    BY DEF Derived
  <2>2. ASSUME NEW v \in Workers, WorkerStep(v) PROVE pc'[w] \in {"idle", "stopped"}
    <3>1. CASE v = w
      <4>1. Leave(w)
        BY <2>1, <2>2, <3>1 DEF WorkerStep, Proceed, LimiterGivesUp, Reserve, InsertConfirmed, InsertFailed,
                AcknowledgeInsert, LoadCount, PickKey, Lookup, Delete, ReadModify, Write, KeyedFailed
      <4>. QED
        BY <4>1 DEF Leave, TypeOK
    <3>2. CASE v # w
      <4>1. \E place : pc' = [pc EXCEPT ![v] = place]
        BY <2>2 DEF WorkerStep, Proceed, Leave, LimiterGivesUp, Reserve, InsertConfirmed, InsertFailed,
                AcknowledgeInsert, LoadCount, PickKey, Lookup, Delete, ReadModify, Write, KeyedFailed, Return
      <4>. QED
        BY <3>2, <4>1 DEF TypeOK
    <3>. QED
      BY <3>1, <3>2
  <2>3. ~StartBenchmark
    BY DEF StartBenchmark, AllStopped
  <2>4. CASE \/ Expire \/ CancelParent \/ FinishBenchmark
             \/ \E k \in lateInserts : ExecuteLateInsert(k)
             \/ \E k \in lateDeletes : ExecuteLateDelete(k)
             \/ Terminating
    <3>1. pc' = pc
      BY <2>4 DEF Expire, CancelParent, FinishBenchmark, ExecuteLateInsert, ExecuteLateDelete, Terminating,
                  vars, locals
    <3>. QED
      BY <3>1
  <2>. QED
    BY <2>2, <2>3, <2>4 DEF Next
<1>. QED
  BY <1>1, TypeCorrect, DerivedAlways, PTL DEF Spec, CancelledStartsNothing
=============================================================================
