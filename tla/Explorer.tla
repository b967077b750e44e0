------------------------------ MODULE Explorer ------------------------------
(***************************************************************************)
(* The comparison page of the results explorer                               *)
(* (internal/explorer/web/app.js) and the two requests it makes of the       *)
(* server (internal/explorer/server.go).  The page runs one event handler at *)
(* a time; only toggleSelect gives up its turn in the middle, while it       *)
(* awaits the details of a run, and the user may click meanwhile - on a      *)
(* table that was rendered before.                                           *)
(*                                                                         *)
(* The order and the text of the rows are left out, and so are the contents  *)
(* of the comparison: it is known by the runs it shows.                      *)
(***************************************************************************)
EXTENDS Naturals, FiniteSets, Sequences, Functions

CONSTANTS
    Ids,        \* the runs in the results collection
    MAX,        \* how many runs may be compared
    Requests    \* bound: requests for the details of one run that are under way

ASSUME ExplorerAssumption ==
    IsFiniteSet(Ids) /\ MAX \in Nat \ {0} /\ Requests \in Nat \ {0}

VARIABLES
    listing,     \* whether the list of runs is still awaited
    runs,        \* state.runs
    selected,    \* state.selected
    details,     \* the domain of state.details
    awaiting,    \* the calls of toggleSelect that await a run's details, by run
    rows,        \* the rows of the table: the runs the filters let through
    checked,     \* the rows whose box is checked
    disabled,    \* the rows whose box is disabled
    panel        \* the runs the comparison shows

table    == <<rows, checked, disabled>>
pageVars == <<listing, runs, selected, details, awaiting, table, panel>>

PageInit ==
    /\ listing = TRUE /\ runs = {} /\ selected = <<>> /\ details = {}
    /\ awaiting = [id \in Ids |-> 0]
    /\ rows = {} /\ checked = {} /\ disabled = {}
    /\ panel = <<>>

-----------------------------------------------------------------------------
\* Array.prototype.filter: the elements of a sequence that are in a set, in their order.
filter(s, S) ==
    LET kept[n \in 0 .. Len(s)] ==
            IF n = 0 THEN <<>>
            ELSE IF s[n] \in S THEN Append(kept[n - 1], s[n]) ELSE kept[n - 1]
    IN  kept[Len(s)]

\* A new table: its boxes follow the selection, and are disabled outside a full one.
renderTable(shown) ==
    /\ rows' = shown
    /\ checked' = shown \cap Range(selected')
    /\ disabled' = IF Len(selected') >= MAX THEN shown \ Range(selected') ELSE {}

\* The comparison of the selected runs whose details are there.
renderCompare == panel' = filter(selected', details')

\* The server's answers: a list without the runs that cannot be decoded, and a run's
\* details or an error, because it is gone or cannot be read.
Lists == SUBSET Ids
Answers(id) == {details, details \cup {id}}

\* The list arrives; or an error, and then there is no list.
loadRuns ==
    /\ listing /\ listing' = FALSE
    /\ UNCHANGED <<selected, details, awaiting, panel>>
    /\ \/ runs' \in Lists /\ renderTable(runs')
       \/ UNCHANGED <<runs, table>>

\* A search, another workload or another order.
Filter ==
    /\ UNCHANGED <<listing, runs, selected, details, awaiting, panel>>
    /\ \E shown \in SUBSET runs : renderTable(shown)

Clickable(id) == id \in rows \ disabled

\* The box of a run is checked; it stays so when the selection turns out to be full.
Refused(id) ==
    /\ Clickable(id) /\ id \notin checked
    /\ Len(selected) >= MAX
    /\ checked' = checked \cup {id}
    /\ UNCHANGED <<listing, runs, selected, details, awaiting, rows, disabled, panel>>

Push(id) == selected' = IF id \in Range(selected) THEN selected ELSE Append(selected, id)

\* Mutant of Request: a table at its limit is not looked at again.
RequestUnlimited(id) ==
    /\ Clickable(id) /\ id \notin checked
    /\ id \notin details /\ awaiting[id] < Requests
    /\ Push(id)
    /\ checked' = checked \cup {id}
    /\ awaiting' = [awaiting EXCEPT ![id] = @ + 1]
    /\ UNCHANGED <<listing, runs, details, rows, disabled, panel>>

\* The run is selected and its details are asked for: nothing is rendered yet.
Request(id) ==
    /\ Clickable(id) /\ id \notin checked
    /\ Len(selected) < MAX
    /\ id \notin details /\ awaiting[id] < Requests
    /\ Push(id)
    /\ checked' = checked \cup {id}
    /\ awaiting' = [awaiting EXCEPT ![id] = @ + 1]
    /\ UNCHANGED <<listing, runs, details, rows, disabled, panel>>

\* The run is selected and its details are there.
Select(id) ==
    /\ Clickable(id) /\ id \notin checked
    /\ Len(selected) < MAX
    /\ id \in details
    /\ Push(id)
    /\ UNCHANGED <<listing, runs, details, awaiting>>
    /\ renderTable(rows) /\ renderCompare

\* Mutant of Answer: an answer that fails, or comes for a run no longer selected,
\* renders nothing.
AnswerDropped(id) ==
    /\ awaiting[id] > 0
    /\ awaiting' = [awaiting EXCEPT ![id] = @ - 1]
    /\ details' \in Answers(id)
    /\ UNCHANGED <<listing, runs, selected>>
    /\ IF id \in Range(selected) /\ id \in details'
       THEN renderTable(rows) /\ renderCompare
       ELSE UNCHANGED <<table, panel>>

\* The server answers; toggleSelect goes on, whatever was clicked in between.
Answer(id) ==
    /\ awaiting[id] > 0
    /\ awaiting' = [awaiting EXCEPT ![id] = @ - 1]
    /\ details' \in Answers(id)
    /\ UNCHANGED <<listing, runs, selected>>
    /\ renderTable(rows) /\ renderCompare

\* Mutant of Deselect: a run whose details never came is not in the comparison, so
\* nothing is rendered.
DeselectQuietly(id) ==
    /\ Clickable(id) /\ id \in checked
    /\ selected' = filter(selected, Ids \ {id})
    /\ UNCHANGED <<listing, runs, details, awaiting>>
    /\ IF id \in details THEN renderTable(rows) /\ renderCompare
       ELSE checked' = checked \ {id} /\ UNCHANGED <<rows, disabled, panel>>

\* The box of a run is unchecked.
Deselect(id) ==
    /\ Clickable(id) /\ id \in checked
    /\ selected' = filter(selected, Ids \ {id})
    /\ UNCHANGED <<listing, runs, details, awaiting>>
    /\ renderTable(rows) /\ renderCompare

Clear ==
    /\ selected' = <<>>
    /\ UNCHANGED <<listing, runs, details, awaiting>>
    /\ renderTable(rows) /\ renderCompare

PageNext ==
    \/ loadRuns \/ Filter \/ Clear
    \/ \E id \in Ids :
          Refused(id) \/ Request(id) \/ Select(id) \/ Answer(id) \/ Deselect(id)

PageSpec == PageInit /\ [][PageNext]_pageVars

-----------------------------------------------------------------------------
\* Every variable has its type; the selection has no run twice and no more than MAX,
\* although its limit is checked against a table that may be out of date.
PageTypeOK ==
    /\ listing \in BOOLEAN /\ runs \subseteq Ids /\ details \subseteq Ids
    /\ selected \in Seq(Ids) /\ Len(selected) <= MAX /\ IsInjective(selected)
    /\ awaiting \in [Ids -> 0 .. Requests]
    /\ rows \subseteq runs /\ checked \subseteq rows /\ disabled \subseteq rows
    /\ panel \in Seq(Ids)

\* app.js:111-128: whatever was clicked while details were awaited, and whichever of
\* the requests failed, once none is under way the boxes show the selection, the limit
\* is enforced and the comparison shows every selected run whose details arrived.
ViewCurrent ==
    (\A id \in Ids : awaiting[id] = 0) =>
        /\ checked = rows \cap Range(selected)
        /\ disabled = IF Len(selected) >= MAX THEN rows \ checked ELSE {}
        /\ panel = filter(selected, details)

\* app.js:85-147: even while details are awaited, the comparison shows no run that is
\* no longer selected, in the order of the selection, and no box stays disabled when
\* the selection has room.
NothingOutdated ==
    /\ panel = filter(selected, Range(panel))
    /\ disabled # {} => Len(selected) = MAX
=============================================================================
