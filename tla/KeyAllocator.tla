---------------------------- MODULE KeyAllocator ----------------------------
(***************************************************************************)
(* What the generator promises to the code that inserts documents, without *)
(* workers, pools, contexts or a database: keys are handed out in order and *)
(* only once, each one is settled only once, and the limit of the addressed *)
(* keys is startingCount plus the number of acknowledged inserts - a count, *)
(* which says nothing about which keys were acknowledged.                  *)
(***************************************************************************)
EXTENDS Integers

CONSTANT StartingCount

VARIABLES
    next,       \* the next key to hand out
    limit,      \* keys below it may be addressed
    pending,    \* handed out, not settled
    acked,      \* acknowledged
    abandoned   \* given up

vars == <<next, limit, pending, acked, abandoned>>

Init ==
    /\ next = StartingCount
    /\ limit = StartingCount
    /\ pending = {}
    /\ acked = {}
    /\ abandoned = {}

Reserve ==
    /\ pending' = pending \cup {next}
    /\ next' = next + 1
    /\ UNCHANGED <<limit, acked, abandoned>>

Acknowledge(k) ==
    /\ k \in pending
    /\ pending' = pending \ {k}
    /\ acked' = acked \cup {k}
    /\ limit' = limit + 1
    /\ UNCHANGED <<next, abandoned>>

Abandon(k) ==
    /\ k \in pending
    /\ pending' = pending \ {k}
    /\ abandoned' = abandoned \cup {k}
    /\ UNCHANGED <<next, limit, acked>>

Next == Reserve \/ \E k \in pending : Acknowledge(k) \/ Abandon(k)

Spec == Init /\ [][Next]_vars
=============================================================================
