---------------------------- MODULE ResultStore ----------------------------
(***************************************************************************)
(* Where results are stored and found again: the end of Orchestrator.Run,    *)
(* which saves to MongoDB and then to files, each failure being logged and   *)
(* no more (internal/orchestrator/orchestrator.go, internal/reporter), and   *)
(* the comparer, which looks in MongoDB first and falls back to the JSON     *)
(* files (internal/comparer/comparer.go).                                    *)
(*                                                                         *)
(* A result is known by its run; `stamp` orders results by their timestamp.  *)
(* A tag question is whether a run carries all tags asked for.  Results are  *)
(* saved by other processes while the comparer looks.                        *)
(***************************************************************************)
EXTENDS Integers, FiniteSets

CONSTANTS
    Runs,    \* bound: the runs that are ever made
    NoRun    \* no result

ASSUME RunsAssumption == IsFiniteSet(Runs) /\ NoRun \notin Runs

VARIABLES
    enabled,    \* the stores enabled in the configuration
    tagged,     \* the runs that carry the tags asked for
    pc,         \* where each run is in saving its result
    clock,      \* external: the last timestamp given
    stamp,      \* RunResult.Timestamp
    mongo,      \* external: the results collection
    json,       \* external: what there is of <run_id>.json
    csv,        \* external: what there is of <run_id>.csv
    html,       \* external: the runs whose <run_id>.html is whole
    failed,     \* history: the saves of a run that returned an error
    query,      \* what the comparer does: where it is, what it is asked, files to read
    answer,     \* the run it found
    before      \* history: the stores when the question was asked

saving  == <<pc, clock, stamp, failed>>
stores  == <<mongo, json, csv, html>>
config  == <<enabled, tagged>>
looking == <<query, answer, before>>
vars    == <<config, saving, stores, looking>>

Whole == {r \in Runs : json[r] = "whole"}

\* The most recent run of a set.
Latest(S) == CHOOSE r \in S : \A s \in S : stamp[s] <= stamp[r]

Init ==
    /\ enabled \in SUBSET {"mongo", "json", "csv", "html"}
    /\ tagged \in SUBSET Runs
    /\ pc = [r \in Runs |-> "running"]
    /\ clock = 0
    /\ stamp = [r \in Runs |-> 0]
    /\ mongo = {}
    /\ json = [r \in Runs |-> "none"]
    /\ csv = [r \in Runs |-> "none"]
    /\ html = {}
    /\ failed = [r \in Runs |-> {}]
    /\ query = [at |-> "idle", by |-> "tag", id |-> NoRun, left |-> {}, from |-> "mongo",
                unreachable |-> FALSE, unread |-> {}]
    /\ answer = NoRun
    /\ before = [mongo |-> {}, whole |-> {}]

-----------------------------------------------------------------------------
Goto(r, place) == pc' = [pc EXCEPT ![r] = place]
Failed(r, store) == failed' = [failed EXCEPT ![r] = @ \cup {store}]

\* The benchmark is over: the result is built, with its timestamp.
BuildResult(r) ==
    /\ pc[r] = "running"
    /\ clock' = clock + 1
    /\ stamp' = [stamp EXCEPT ![r] = clock + 1]
    /\ Goto(r, "mongo")
    /\ UNCHANGED <<config, failed, stores, looking>>

SaveToMongo(r) ==
    /\ pc[r] = "mongo"
    /\ mongo' = IF "mongo" \in enabled THEN mongo \cup {r} ELSE mongo
    /\ Goto(r, "json")
    /\ UNCHANGED <<config, clock, stamp, failed, json, csv, html, looking>>

\* Mutant of MongoFails: the run returns the error.
MongoFailsReturns(r) ==
    /\ pc[r] = "mongo" /\ "mongo" \in enabled
    /\ mongo' = mongo
    /\ Failed(r, "mongo")
    /\ Goto(r, "done")
    /\ UNCHANGED <<config, clock, stamp, json, csv, html, looking>>

\* MongoDB is out of reach, or its context is done (a schedule's runFor): a warning.
\* The result may be stored all the same when only the answer is lost.
MongoFails(r) ==
    /\ pc[r] = "mongo" /\ "mongo" \in enabled
    /\ mongo' \in {mongo, mongo \cup {r}}
    /\ Failed(r, "mongo")
    /\ Goto(r, "json")
    /\ UNCHANGED <<config, clock, stamp, json, csv, html, looking>>

\* The file is created, and is empty or partial until it is written.
CreateJSON(r) ==
    /\ pc[r] = "json"
    /\ IF "json" \in enabled
       THEN json' = [json EXCEPT ![r] = "partial"] /\ Goto(r, "writing")
       ELSE json' = json /\ Goto(r, "csv")
    /\ UNCHANGED <<config, clock, stamp, failed, mongo, csv, html, looking>>

WriteJSON(r) ==
    /\ pc[r] = "writing"
    /\ json' = [json EXCEPT ![r] = "whole"]
    /\ Goto(r, "csv")
    /\ UNCHANGED <<config, clock, stamp, failed, mongo, csv, html, looking>>

\* LocalReporter.Save returns: no CSV file is written.
JSONFails(r) ==
    /\ pc[r] = "writing" \/ (pc[r] = "json" /\ "json" \in enabled)
    /\ Failed(r, "json")
    /\ Goto(r, "html")
    /\ UNCHANGED <<config, clock, stamp, stores, looking>>

\* saveCSV: the file is created, and all of its rows are written, or not all: nothing
\* looks at the errors of the writer.  One step, for nothing reads reports.
SaveCSV(r) ==
    /\ pc[r] = "csv"
    /\ IF "csv" \in enabled
       THEN \E size \in {"partial", "whole"} : csv' = [csv EXCEPT ![r] = size]
       ELSE csv' = csv
    /\ Goto(r, "html")
    /\ UNCHANGED <<config, clock, stamp, failed, mongo, json, html, looking>>

\* Only a directory or a file that cannot be created is an error.
CSVFails(r) ==
    /\ pc[r] = "csv" /\ "csv" \in enabled
    /\ Failed(r, "csv")
    /\ Goto(r, "html")
    /\ UNCHANGED <<config, clock, stamp, stores, looking>>

\* A page of which a part is there is not counted: rendering it, or creating it, failed.
SaveHTML(r) ==
    /\ pc[r] = "html"
    /\ html' = IF "html" \in enabled THEN html \cup {r} ELSE html
    /\ Goto(r, "done")
    /\ UNCHANGED <<config, clock, stamp, failed, mongo, json, csv, looking>>

HTMLFails(r) ==
    /\ pc[r] = "html" /\ "html" \in enabled
    /\ Failed(r, "html")
    /\ Goto(r, "done")
    /\ UNCHANGED <<config, clock, stamp, stores, looking>>

\* The process is killed; a schedule also ends with runs still going on.
Kill(r) ==
    /\ pc[r] \notin {"done", "dead"}
    /\ Goto(r, "dead")
    /\ UNCHANGED <<config, clock, stamp, failed, stores, looking>>

SaveStep(r) ==
    \/ BuildResult(r) \/ SaveToMongo(r) \/ MongoFails(r) \/ CreateJSON(r) \/ WriteJSON(r)
    \/ JSONFails(r) \/ SaveCSV(r) \/ CSVFails(r) \/ SaveHTML(r) \/ HTMLFails(r)
    \/ Kill(r)

-----------------------------------------------------------------------------
Consult(place) == query' = [query EXCEPT !.at = place]
Found(r) == Consult("done") /\ answer' = r

\* load and loadByTag: MongoDB is consulted when it is enabled.
Ask(by, id) ==
    /\ query.at \in {"idle", "done"}
    /\ LET first == IF "mongo" \in enabled THEN "mongo" ELSE "files"
       IN query' = [at |-> first, by |-> by, id |-> id, left |-> {}, from |-> first,
                    unreachable |-> FALSE, unread |-> {}]
    /\ answer' = NoRun
    /\ before' = [mongo |-> mongo, whole |-> Whole]
    /\ UNCHANGED <<config, saving, stores>>

\* What a lookup in MongoDB matches.
Matches == IF query.by = "id" THEN {query.id} \cap mongo ELSE tagged \cap mongo

\* FindOne, the most recent first.
FindInMongo ==
    /\ query.at = "mongo"
    /\ Matches # {}
    /\ Found(Latest(Matches))
    /\ UNCHANGED <<config, saving, stores, before>>

\* Mutant of NotInMongo: only a MongoDB that is out of reach has a fallback.
NotInMongoFinal ==
    /\ query.at = "mongo"
    /\ Matches = {}
    /\ Consult("done")
    /\ UNCHANGED <<config, saving, stores, answer, before>>

\* No document matches: the files.
NotInMongo ==
    /\ query.at = "mongo"
    /\ Matches = {}
    /\ query' = [query EXCEPT !.at = "files", !.from = "files"]
    /\ UNCHANGED <<config, saving, stores, answer, before>>

\* The lookup fails: the files, too.
MongoUnreachable ==
    /\ query.at = "mongo"
    /\ query' = [query EXCEPT !.at = "files", !.from = "files", !.unreachable = TRUE]
    /\ UNCHANGED <<config, saving, stores, answer, before>>

\* loadFromJSON, os.Open: there is a file, but it cannot be opened.
RunFileUnreadable ==
    /\ query.at = "files" /\ query.by = "id"
    /\ query' = [query EXCEPT !.at = "done", !.unread = {query.id}]
    /\ UNCHANGED <<config, saving, stores, answer, before>>

\* loadFromJSON: the file of the run; a partial one cannot be decoded.
ReadRunFile ==
    /\ query.at = "files" /\ query.by = "id"
    /\ Found(IF query.id \in Whole THEN query.id ELSE NoRun)
    /\ UNCHANGED <<config, saving, stores, before>>

\* loadByTagFromJSON: the entries of the directory ...
ReadDir ==
    /\ query.at = "files" /\ query.by = "tag"
    /\ query' = [query EXCEPT !.at = "reading", !.left = {r \in Runs : json[r] # "none"}]
    /\ UNCHANGED <<config, saving, stores, answer, before>>

\* os.ReadDir fails: no file is looked at.
DirUnreadable ==
    /\ query.at = "files" /\ query.by = "tag"
    /\ query' = [query EXCEPT !.at = "done", !.unread = Runs]
    /\ UNCHANGED <<config, saving, stores, answer, before>>

\* Mutant of ReadEntry: the last match read.
ReadEntryLast(r) ==
    /\ query.at = "reading" /\ r \in query.left
    /\ query' = [query EXCEPT !.left = @ \ {r}]
    /\ answer' = IF r \in Whole \cap tagged THEN r ELSE answer
    /\ UNCHANGED <<config, saving, stores, before>>

\* ... are read one by one, those that cannot be decoded skipped; the most recent
\* match is kept.
ReadEntry(r) ==
    /\ query.at = "reading" /\ r \in query.left
    /\ query' = [query EXCEPT !.left = @ \ {r}]
    /\ answer' = IF r \in Whole \cap tagged /\ (answer = NoRun \/ stamp[r] > stamp[answer])
                 THEN r ELSE answer
    /\ UNCHANGED <<config, saving, stores, before>>

\* An entry that cannot be opened is skipped as well.
EntryUnreadable(r) ==
    /\ query.at = "reading" /\ r \in query.left
    /\ query' = [query EXCEPT !.left = @ \ {r}, !.unread = @ \cup {r}]
    /\ UNCHANGED <<config, saving, stores, answer, before>>

DirRead ==
    /\ query.at = "reading" /\ query.left = {}
    /\ Consult("done")
    /\ UNCHANGED <<config, saving, stores, answer, before>>

LookupStep ==
    \/ FindInMongo \/ NotInMongo \/ MongoUnreachable
    \/ ReadRunFile \/ RunFileUnreadable \/ ReadDir \/ DirUnreadable \/ DirRead
    \/ \E r \in Runs : ReadEntry(r) \/ EntryUnreadable(r)

Next ==
    \/ \E r \in Runs : SaveStep(r)
    \/ Ask("tag", NoRun)
    \/ \E r \in Runs : Ask("id", r)
    \/ LookupStep

Spec == Init /\ [][Next]_vars

-----------------------------------------------------------------------------
File == {"none", "partial", "whole"}

\* Every variable has its type, and a result in a store has its timestamp.
TypeOK ==
    /\ enabled \subseteq {"mongo", "json", "csv", "html"} /\ tagged \subseteq Runs
    /\ pc \in [Runs -> {"running", "mongo", "json", "writing", "csv", "html", "done", "dead"}]
    /\ clock \in Nat /\ stamp \in [Runs -> 0 .. clock]
    /\ mongo \subseteq Runs
    /\ json \in [Runs -> File] /\ csv \in [Runs -> File] /\ html \subseteq Runs
    /\ failed \in [Runs -> SUBSET enabled]
    /\ query \in [at : {"idle", "mongo", "files", "reading", "done"}, by : {"id", "tag"},
                  id : Runs \cup {NoRun}, left : SUBSET Runs, from : {"mongo", "files"},
                  unreachable : BOOLEAN, unread : SUBSET Runs]
    /\ answer \in Runs \cup {NoRun}
    /\ before \in [mongo : SUBSET Runs, whole : SUBSET Runs]
    /\ \A r \in mongo \cup Whole : stamp[r] > 0

\* orchestrator.go:302-318: the stores fail independently.  A run that is over is in
\* every store that is enabled and did not fail itself - but for the CSV file, which
\* a JSON file that cannot be written takes with it, and which may be there in part:
\* what goes wrong while it is written is not reported.
SavedUnlessFailed ==
    \A r \in Runs : pc[r] = "done" =>
        /\ "mongo" \in enabled \ failed[r] => r \in mongo
        /\ "json" \in enabled \ failed[r] => r \in Whole
        /\ "html" \in enabled \ failed[r] => r \in html
        /\ ("csv" \in enabled \ failed[r] /\ "json" \notin failed[r]) => csv[r] # "none"

\* comparer.go:163-174: a run that is in a store that can be read is found by its
\* identifier, whichever of its saves failed.
FoundById ==
    (query.at = "done" /\ query.by = "id" /\ answer # query.id) =>
        /\ answer = NoRun
        /\ query.id \notin before.whole \/ query.id \in query.unread
        /\ query.unreachable \/ "mongo" \notin enabled \/ query.id \notin before.mongo

\* comparer.go:176-301: the answer carries the tags and is as recent as every match in
\* the store it comes from, although results are saved, and files are partial, while
\* that store is being read, and a file that cannot be read hides no other; the files answer only for a MongoDB without a match or
\* out of reach.
MostRecentInStore ==
    (query.at = "done" /\ query.by = "tag") =>
        /\ answer # NoRun => answer \in tagged
        /\ LET found == IF query.from = "mongo" THEN before.mongo ELSE before.whole \ query.unread
           IN \A r \in tagged \cap found : answer # NoRun /\ stamp[r] <= stamp[answer]
        /\ query.from = "files" =>
              "mongo" \notin enabled \/ query.unreachable \/ tagged \cap before.mongo = {}

\* README.md:441: a comparison by tag "finds the most recent run with each tag".
MostRecentWithTag ==
    (query.at = "done" /\ query.by = "tag" /\ answer # NoRun) =>
        \A r \in tagged \cap (before.mongo \cup before.whole) : stamp[r] <= stamp[answer]
=============================================================================
