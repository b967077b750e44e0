---------------------------- MODULE ResultsProofs ----------------------------
(***************************************************************************)
(* Proofs about what happens to results.  ResultStore, for any number of      *)
(* runs: where a run that is over is stored, and what the comparer finds      *)
(* while other processes save.  Explorer, for any number of runs, any limit   *)
(* and any number of requests under way: what the page shows.                 *)
(***************************************************************************)
EXTENDS ResultStore, Explorer, FiniteSetTheorems, WellFoundedInduction, TLAPS

\* The places of a run after the save of a store.
AfterMongo == {"json", "writing", "csv", "html", "done"}
AfterJSON == {"csv", "html", "done"}

\* A run that passed a store is in it, unless the store is disabled or failed; what is
\* stored was built, and a file that is whole is not written again.
RunSaved(r) ==
    /\ pc[r] \in AfterMongo /\ "mongo" \in enabled \ failed[r] => r \in mongo
    /\ pc[r] \in AfterJSON /\ "json" \in enabled \ failed[r] => json[r] = "whole"
    /\ (pc[r] \in {"html", "done"} /\ "csv" \in enabled \ failed[r] /\ "json" \notin failed[r])
          => csv[r] # "none"
    /\ pc[r] = "done" /\ "html" \in enabled \ failed[r] => r \in html
    /\ r \in mongo => pc[r] # "running" /\ stamp[r] > 0
    /\ json[r] = "whole" => pc[r] \in AfterJSON \cup {"dead"} /\ stamp[r] > 0
    /\ pc[r] \notin {"running", "dead"} => stamp[r] > 0
    /\ pc[r] = "writing" => "json" \in enabled

SavedSoFar == \A r \in Runs : RunSaved(r)

\* What is known while a question is being answered: no store loses what it held.
LookupKnows ==
    /\ before.mongo \subseteq mongo /\ before.whole \subseteq Whole
    /\ query.by = "id" => query.id \in Runs
    /\ query.at = "mongo" => query.from = "mongo" /\ answer = NoRun /\ "mongo" \in enabled
    /\ query.at \in {"files", "reading"} => query.from = "files"
    /\ query.at = "files" => answer = NoRun
    /\ query.at = "reading" => query.by = "tag"
    /\ (query.at # "idle" /\ query.from = "files") =>
          \/ query.unreachable \/ "mongo" \notin enabled
          \/ query.by = "id" /\ query.id \notin before.mongo
          \/ query.by = "tag" /\ tagged \cap before.mongo = {}

\* The files read so far: the answer is as recent as those that match.
ReadSoFar ==
    query.at = "reading" =>
        /\ answer # NoRun => answer \in tagged \cap Whole
        /\ \A r \in (tagged \cap before.whole) \ query.unread : r \in query.left \/ (answer # NoRun /\ stamp[r] <= stamp[answer])

AnswerStored == answer # NoRun => answer \in mongo \cup Whole

StoreInv ==
    TypeOK /\ SavedSoFar /\ LookupKnows /\ ReadSoFar /\ AnswerStored /\ FoundById /\ MostRecentInStore

-----------------------------------------------------------------------------
\* A nonempty set of natural numbers has a least element.
LEMMA LeastNumber ==
    ASSUME NEW S \in SUBSET Nat, S # {}
    PROVE  \E least \in S : \A n \in S : least <= n
<1> DEFINE R == {ss \in Nat \X Nat : ss[1] < ss[2]}
<1>1. IsWellFoundedOn(R, Nat)
  BY NatLessThanWellFounded DEF OpToRel
<1>2. PICK least \in S : \A n \in S : ~(<<n, least>> \in R)
  <2> HIDE DEF R
  <2>. QED
    BY <1>1, WFMin
<1>3. \A n \in S : ~(n < least)
  BY <1>2
<1>. QED
  BY <1>3

\* Of some runs there is one that is the most recent.
LEMMA LatestExists ==
    ASSUME TypeOK, NEW S \in SUBSET Runs, S # {}
    PROVE  Latest(S) \in S /\ \A r \in S : stamp[r] <= stamp[Latest(S)]
<1> DEFINE T == {clock - stamp[r] : r \in S}
<1>1. clock \in Nat /\ \A r \in S : stamp[r] \in 0 .. clock
  BY DEF TypeOK
<1>2. T \subseteq Nat /\ T # {}
  BY <1>1
<1>3. PICK m \in T : \A y \in T : m <= y
  <2> HIDE DEF T
  <2>. QED
    BY <1>2, LeastNumber
<1>4. PICK r \in S : m = clock - stamp[r]
  OBVIOUS
<1>5. \A s \in S : clock - stamp[s] \in T
  OBVIOUS
<1>6. \A s \in S : clock - stamp[r] <= clock - stamp[s]
  BY <1>3, <1>4, <1>5
<1>7. \A s \in S : stamp[s] <= stamp[r]
  BY <1>1, <1>6
<1>. QED
  BY <1>7 DEF Latest

LEMMA StoreStarts == Init => StoreInv
<1> SUFFICES ASSUME Init PROVE StoreInv
  OBVIOUS
<1>1. TypeOK
  BY DEF Init, TypeOK, Whole, File
<1>2. SavedSoFar
  BY DEF Init, SavedSoFar, RunSaved, AfterMongo, AfterJSON, Whole
<1>3. LookupKnows /\ ReadSoFar /\ AnswerStored /\ FoundById /\ MostRecentInStore
  BY DEF Init, LookupKnows, ReadSoFar, AnswerStored, FoundById, MostRecentInStore, Whole
<1>. QED
  BY <1>1, <1>2, <1>3 DEF StoreInv

-----------------------------------------------------------------------------
(* Saving.                                                                   *)

\* What saving does to a lookup: stores grow, and stamps of what is stored stay.
LEMMA LookupUndisturbed ==
    ASSUME StoreInv, UNCHANGED <<config, looking>>, mongo \subseteq mongo', Whole \subseteq Whole',
           \A r \in mongo \cup Whole : stamp'[r] = stamp[r]
    PROVE  LookupKnows' /\ ReadSoFar' /\ AnswerStored' /\ FoundById' /\ MostRecentInStore'
<1> USE DEF StoreInv
<1>1. /\ enabled' = enabled /\ tagged' = tagged /\ query' = query /\ answer' = answer /\ before' = before
  BY DEF config, looking
<1>2. LookupKnows'
  BY <1>1 DEF LookupKnows
<1>3. AnswerStored'
  BY <1>1 DEF AnswerStored
<1>4. FoundById'
  BY <1>1 DEF FoundById
<1>5. /\ \A r \in before.mongo \cup before.whole : stamp'[r] = stamp[r]
      /\ answer # NoRun => stamp'[answer] = stamp[answer]
  BY DEF LookupKnows, AnswerStored
<1>6. ReadSoFar'
  BY <1>1, <1>5 DEF ReadSoFar
<1>7. MostRecentInStore'
  BY <1>1, <1>5 DEF MostRecentInStore
<1>. QED
  BY <1>2, <1>3, <1>4, <1>6, <1>7

\* A step of the saving of one run: that run's place and stores change.
LEMMA SaveStays == ASSUME StoreInv, NEW r \in Runs, SaveStep(r) PROVE StoreInv'
<1> USE DEF StoreInv
<1>1. /\ enabled' = enabled /\ tagged' = tagged /\ query' = query /\ answer' = answer /\ before' = before
      /\ UNCHANGED <<config, looking>>
  BY DEF SaveStep, BuildResult, SaveToMongo, MongoFails, CreateJSON, WriteJSON, JSONFails,
         SaveCSV, CSVFails, SaveHTML, HTMLFails, Kill, config, looking
<1>2. \A s \in Runs \ {r} : /\ pc'[s] = pc[s] /\ stamp'[s] = stamp[s] /\ json'[s] = json[s]
                            /\ csv'[s] = csv[s] /\ (s \in html' <=> s \in html) /\ failed'[s] = failed[s]
                            /\ (s \in mongo' <=> s \in mongo)
  BY DEF SaveStep, BuildResult, SaveToMongo, MongoFails, CreateJSON, WriteJSON, JSONFails,
         SaveCSV, CSVFails, SaveHTML, HTMLFails, Kill, TypeOK, Goto, Failed, saving, stores
<1>3. \A s \in Runs \ {r} : s \in Whole' <=> s \in Whole
  BY <1>2 DEF Whole
<1>4. /\ r \in mongo => r \in mongo' /\ stamp'[r] = stamp[r]
      /\ r \in Whole => r \in Whole' /\ stamp'[r] = stamp[r]
  BY DEF SaveStep, BuildResult, SaveToMongo, MongoFails, CreateJSON, WriteJSON, JSONFails,
         SaveCSV, CSVFails, SaveHTML, HTMLFails, Kill, TypeOK, Goto, Failed, saving, stores,
         SavedSoFar, RunSaved, Whole, AfterJSON
<1>5. RunSaved(r)'
  <2>0. RunSaved(r) /\ TypeOK
    BY DEF SavedSoFar
  <2>1. CASE BuildResult(r)
    <3>1. /\ pc[r] = "running" /\ pc'[r] = "mongo" /\ stamp'[r] > 0 /\ failed'[r] = failed[r]
          /\ json'[r] = json[r] /\ csv'[r] = csv[r] /\ (r \in html' <=> r \in html) /\ mongo' = mongo
      BY <2>1 DEF BuildResult, Goto, TypeOK, stores
    <3>. QED
      BY <2>0, <3>1 DEF RunSaved, AfterMongo, AfterJSON
  <2>2. CASE SaveToMongo(r)
    <3>1. /\ pc[r] = "mongo" /\ pc'[r] = "json" /\ stamp'[r] = stamp[r] /\ failed'[r] = failed[r]
          /\ json'[r] = json[r] /\ csv'[r] = csv[r] /\ (r \in html' <=> r \in html) /\ ("mongo" \in enabled \/ r \in mongo <=> r \in mongo')
      BY <2>0, <2>2 DEF SaveToMongo, Goto, TypeOK, saving, stores
    <3>. QED
      BY <1>1, <2>0, <3>1 DEF RunSaved, AfterMongo, AfterJSON
  <2>3. CASE MongoFails(r)
    <3>1. /\ pc[r] = "mongo" /\ pc'[r] = "json" /\ stamp'[r] = stamp[r] /\ failed'[r] = failed[r] \cup {"mongo"}
          /\ json'[r] = json[r] /\ csv'[r] = csv[r] /\ (r \in html' <=> r \in html) /\ (r \in mongo => r \in mongo')
      BY <2>0, <2>3 DEF MongoFails, Goto, Failed, TypeOK, saving, stores
    <3>. QED
      BY <1>1, <2>0, <3>1 DEF RunSaved, AfterMongo, AfterJSON
  <2>4. CASE CreateJSON(r)
    <3>1. /\ pc[r] = "json" /\ stamp'[r] = stamp[r] /\ failed'[r] = failed[r]
          /\ csv'[r] = csv[r] /\ (r \in html' <=> r \in html) /\ mongo' = mongo
          /\ \/ "json" \in enabled /\ json'[r] = "partial" /\ pc'[r] = "writing"
             \/ "json" \notin enabled /\ json'[r] = json[r] /\ pc'[r] = "csv"
      BY <2>0, <2>4 DEF CreateJSON, Goto, TypeOK
    <3>. QED
      BY <1>1, <2>0, <3>1 DEF RunSaved, AfterMongo, AfterJSON
  <2>5. CASE WriteJSON(r)
    <3>1. /\ pc[r] = "writing" /\ pc'[r] = "csv" /\ stamp'[r] = stamp[r] /\ failed'[r] = failed[r]
          /\ json'[r] = "whole" /\ csv'[r] = csv[r] /\ (r \in html' <=> r \in html) /\ (r \in mongo' <=> r \in mongo)
      BY <2>0, <2>5 DEF WriteJSON, Goto, TypeOK, saving, stores
    <3>. QED
      BY <1>1, <2>0, <3>1 DEF RunSaved, AfterMongo, AfterJSON
  <2>6. CASE JSONFails(r)
    <3>1. /\ pc[r] \in {"json", "writing"} /\ pc'[r] = "html" /\ stamp'[r] = stamp[r] /\ json'[r] = json[r]
          /\ failed'[r] = failed[r] \cup {"json"} /\ csv'[r] = csv[r] /\ (r \in html' <=> r \in html) /\ mongo' = mongo
      BY <2>0, <2>6 DEF JSONFails, Goto, Failed, TypeOK, stores
    <3>. QED
      BY <1>1, <2>0, <3>1 DEF RunSaved, AfterMongo, AfterJSON
  <2>7. CASE SaveCSV(r) \/ CSVFails(r)
    <3>1. /\ pc[r] = "csv" /\ pc'[r] = "html" /\ stamp'[r] = stamp[r] /\ json'[r] = json[r]
          /\ mongo' = mongo /\ html' = html
          /\ \/ failed'[r] = failed[r] \cup {"csv"}
             \/ failed'[r] = failed[r] /\ ("csv" \in enabled => csv'[r] # "none")
      BY <2>0, <2>7 DEF SaveCSV, CSVFails, Goto, Failed, TypeOK, stores
    <3>. QED
      BY <1>1, <2>0, <3>1 DEF RunSaved, AfterMongo, AfterJSON
  <2>8. CASE SaveHTML(r) \/ HTMLFails(r)
    <3>1. /\ pc[r] = "html" /\ pc'[r] = "done" /\ stamp'[r] = stamp[r] /\ json'[r] = json[r]
          /\ mongo' = mongo /\ csv' = csv
          /\ \/ failed'[r] = failed[r] \cup {"html"} /\ html' = html
             \/ failed'[r] = failed[r] /\ ("html" \in enabled => r \in html')
      BY <2>0, <2>8 DEF SaveHTML, HTMLFails, Goto, Failed, TypeOK, stores
    <3>. QED
      BY <1>1, <2>0, <3>1 DEF RunSaved, AfterMongo, AfterJSON
  <2>9. CASE Kill(r)
    <3>1. /\ pc[r] # "done" /\ pc'[r] = "dead" /\ stamp' = stamp /\ failed' = failed /\ json' = json
          /\ csv' = csv /\ html' = html /\ mongo' = mongo
      BY <2>0, <2>9 DEF Kill, Goto, TypeOK, stores
    <3>. QED
      BY <1>1, <2>0, <3>1 DEF RunSaved, AfterMongo, AfterJSON
  <2>. QED
    BY <2>1, <2>2, <2>3, <2>4, <2>5, <2>6, <2>7, <2>8, <2>9 DEF SaveStep
<1>6. SavedSoFar'
  <2>1. ASSUME NEW s \in Runs \ {r} PROVE RunSaved(s)'
    BY <1>1, <1>2 DEF SavedSoFar, RunSaved
  <2>. QED
    BY <1>5, <2>1 DEF SavedSoFar
<1>7. mongo \subseteq mongo' /\ Whole \subseteq Whole' /\ \A s \in mongo \cup Whole : stamp'[s] = stamp[s]
  BY <1>2, <1>3, <1>4 DEF TypeOK, Whole
<1>8. LookupKnows' /\ ReadSoFar' /\ AnswerStored' /\ FoundById' /\ MostRecentInStore'
  BY <1>1, <1>7, LookupUndisturbed
<1>9. TypeOK'
  <2>1. \A s \in mongo' \cup Whole' : s \in Runs => stamp'[s] > 0
    BY <1>6 DEF SavedSoFar, RunSaved, Whole
  <2>2. /\ pc' \in [Runs -> {"running", "mongo", "json", "writing", "csv", "html", "done", "dead"}]
        /\ mongo' \subseteq Runs
        /\ json' \in [Runs -> File]
    BY DEF SaveStep, BuildResult, SaveToMongo, MongoFails, CreateJSON, WriteJSON, JSONFails,
           SaveCSV, CSVFails, SaveHTML, HTMLFails, Kill, TypeOK, File, Goto, saving, stores
  <2>3. clock' \in Nat /\ stamp' \in [Runs -> 0 .. clock']
    <3>1. CASE BuildResult(r)
      BY <3>1 DEF BuildResult, TypeOK
    <3>2. CASE clock' = clock /\ stamp' = stamp
      BY <3>2 DEF TypeOK
    <3>. QED
      BY <3>1, <3>2 DEF SaveStep, SaveToMongo, MongoFails, CreateJSON, WriteJSON, JSONFails,
                        SaveCSV, CSVFails, SaveHTML, HTMLFails, Kill, saving
  <2>4. csv' \in [Runs -> File] /\ html' \subseteq Runs
    <3>1. CASE UNCHANGED <<csv, html>>
      BY <3>1 DEF TypeOK
    <3>2. CASE SaveCSV(r) \/ SaveHTML(r)
      BY <3>2 DEF SaveCSV, SaveHTML, TypeOK, File
    <3>. QED
      BY <3>1, <3>2 DEF SaveStep, BuildResult, SaveToMongo, MongoFails, CreateJSON, WriteJSON,
                        JSONFails, CSVFails, HTMLFails, Kill, stores
  <2>5. failed' \in [Runs -> SUBSET enabled]
    <3>1. CASE failed' = failed
      BY <3>1 DEF TypeOK
    <3>2. ASSUME NEW kind \in enabled, failed' = [failed EXCEPT ![r] = @ \cup {kind}]
          PROVE  failed' \in [Runs -> SUBSET enabled]
      BY <3>2 DEF TypeOK
    <3>3. \/ failed' = failed
          \/ \E kind \in enabled : failed' = [failed EXCEPT ![r] = @ \cup {kind}]
      <4>1. CASE MongoFails(r)
        BY <4>1 DEF MongoFails, Failed
      <4>2. CASE JSONFails(r)
        <5>1. "json" \in enabled
          BY <4>2 DEF JSONFails, SavedSoFar, RunSaved, LookupKnows
        <5>. QED
          BY <4>2, <5>1 DEF JSONFails, Failed
      <4>3. CASE CSVFails(r) \/ HTMLFails(r)
        BY <4>3 DEF CSVFails, HTMLFails, Failed
      <4>. QED
        BY <4>1, <4>2, <4>3 DEF SaveStep, BuildResult, SaveToMongo, CreateJSON, WriteJSON,
                                SaveCSV, SaveHTML, Kill, saving
    <3>. QED
      BY <3>1, <3>2, <3>3
  <2>. QED
    BY <1>1, <2>1, <2>2, <2>3, <2>4, <2>5 DEF TypeOK, Whole
<1>. QED
  BY <1>6, <1>8, <1>9

-----------------------------------------------------------------------------
(* Looking a result up.                                                      *)

\* A lookup leaves the stores alone.
LEMMA StoresUndisturbed ==
    ASSUME StoreInv, UNCHANGED <<config, saving, stores>>, query' \in [
               at : {"idle", "mongo", "files", "reading", "done"}, by : {"id", "tag"},
               id : Runs \cup {NoRun}, left : SUBSET Runs, from : {"mongo", "files"}, unreachable : BOOLEAN,
                         unread : SUBSET Runs],
           answer' \in Runs \cup {NoRun}, before' \in [mongo : SUBSET Runs, whole : SUBSET Runs]
    PROVE  TypeOK' /\ SavedSoFar' /\ Whole' = Whole
<1>1. /\ enabled' = enabled /\ tagged' = tagged /\ pc' = pc /\ clock' = clock /\ stamp' = stamp
      /\ failed' = failed /\ mongo' = mongo /\ json' = json /\ csv' = csv /\ html' = html
  BY DEF config, saving, stores
<1>. QED
  BY <1>1 DEF StoreInv, TypeOK, SavedSoFar, RunSaved, Whole

LEMMA AskStays ==
    ASSUME StoreInv, \/ Ask("tag", NoRun)
                     \/ \E r \in Runs : Ask("id", r)
    PROVE  StoreInv'
<1> USE DEF StoreInv
<1>1. PICK by \in {"tag", "id"}, id \in Runs \cup {NoRun} : Ask(by, id) /\ (by = "id" => id \in Runs)
  OBVIOUS
<1> DEFINE first == IF "mongo" \in enabled THEN "mongo" ELSE "files"
<1>2. /\ query' = [at |-> first, by |-> by, id |-> id, left |-> {}, from |-> first, unreachable |-> FALSE,
              unread |-> {}]
      /\ answer' = NoRun /\ before' = [mongo |-> mongo, whole |-> Whole]
      /\ UNCHANGED <<config, saving, stores>>
  BY <1>1 DEF Ask
<1>3. Whole \subseteq Runs /\ mongo \subseteq Runs
  BY DEF Whole, TypeOK
<1>4. first \in {"mongo", "files"}
  OBVIOUS
<1>5. TypeOK' /\ SavedSoFar' /\ Whole' = Whole
  BY <1>2, <1>3, <1>4, StoresUndisturbed
<1>6. mongo' = mongo /\ enabled' = enabled /\ tagged' = tagged
  BY <1>2 DEF stores, config
<1>7. LookupKnows'
  BY <1>1, <1>2, <1>5, <1>6 DEF LookupKnows
<1>8. ReadSoFar' /\ AnswerStored' /\ FoundById' /\ MostRecentInStore'
  BY <1>2, <1>4 DEF ReadSoFar, AnswerStored, FoundById, MostRecentInStore
<1>. QED
  BY <1>5, <1>7, <1>8

LEMMA LookupStays == ASSUME StoreInv, LookupStep PROVE StoreInv'
<1> USE RunsAssumption DEF StoreInv
<1>1. /\ UNCHANGED <<config, saving, stores, before>> /\ enabled' = enabled /\ tagged' = tagged
      /\ mongo' = mongo /\ stamp' = stamp /\ before' = before
      /\ query'.by = query.by /\ query'.id = query.id
  BY DEF LookupStep, FindInMongo, NotInMongo, MongoUnreachable, ReadRunFile, RunFileUnreadable, ReadDir,
         DirUnreadable, DirRead, ReadEntry, EntryUnreadable, Found, Consult, config, saving, stores, TypeOK
<1>2. /\ query \in [at : {"idle", "mongo", "files", "reading", "done"}, by : {"id", "tag"},
                     id : Runs \cup {NoRun}, left : SUBSET Runs, from : {"mongo", "files"}, unreachable : BOOLEAN,
                         unread : SUBSET Runs]
      /\ answer \in Runs \cup {NoRun} /\ before \in [mongo : SUBSET Runs, whole : SUBSET Runs]
      /\ Whole \subseteq Runs /\ mongo \subseteq Runs /\ tagged \subseteq Runs
      /\ before.mongo \subseteq mongo /\ before.whole \subseteq Whole
  BY DEF TypeOK, LookupKnows, Whole
<1>3. ASSUME query' \in [at : {"idle", "mongo", "files", "reading", "done"}, by : {"id", "tag"},
                         id : Runs \cup {NoRun}, left : SUBSET Runs, from : {"mongo", "files"}, unreachable : BOOLEAN,
                         unread : SUBSET Runs],
             answer' \in Runs \cup {NoRun}
      PROVE  TypeOK' /\ SavedSoFar' /\ Whole' = Whole
  BY <1>1, <1>2, <1>3, StoresUndisturbed
<1>4. CASE FindInMongo
  <2> DEFINE found == Latest(Matches)
  <2>1. query.at = "mongo" /\ query' = [query EXCEPT !.at = "done"] /\ answer' = found
    BY <1>4 DEF FindInMongo, Found, Consult
  <2>2. found \in Matches /\ \A r \in Matches : stamp[r] <= stamp[found]
    BY <1>2, <1>4, LatestExists DEF FindInMongo, Matches
  <2> HIDE DEF found
  <2>3. found \in mongo /\ found \in Runs /\ (query.by = "id" => found = query.id)
        /\ (query.by = "tag" => found \in tagged)
    BY <1>2, <2>2 DEF Matches
  <2>4. TypeOK' /\ SavedSoFar' /\ Whole' = Whole
    BY <1>2, <1>3, <2>1, <2>3
  <2>5. query'.at = "done" /\ query'.from = "mongo" /\ query'.unreachable = query.unreachable
    BY <1>2, <2>1 DEF LookupKnows
  <2>6. LookupKnows' /\ ReadSoFar' /\ AnswerStored'
    BY <1>1, <1>2, <2>1, <2>3, <2>4, <2>5 DEF LookupKnows, ReadSoFar, AnswerStored
  <2>7. FoundById'
    BY <1>1, <2>1, <2>3 DEF FoundById
  <2>8. MostRecentInStore'
    <3>1. query.by = "tag" => Matches = tagged \cap mongo
      BY DEF Matches
    <3>. QED
      BY <1>1, <1>2, <2>1, <2>2, <2>3, <2>5, <3>1 DEF MostRecentInStore
  <2>. QED
    BY <2>4, <2>6, <2>7, <2>8
<1>5. CASE NotInMongo
  <2>1. query.at = "mongo" /\ Matches = {} /\ query' = [query EXCEPT !.at = "files", !.from = "files"] /\ answer' = answer
    BY <1>5 DEF NotInMongo
  <2>2. TypeOK' /\ SavedSoFar' /\ Whole' = Whole
    BY <1>2, <1>3, <2>1
  <2>3. query'.at = "files" /\ query'.from = "files" /\ query'.unreachable = query.unreachable /\ answer = NoRun
    BY <1>2, <2>1 DEF LookupKnows
  <2>4. (query.by = "id" => query.id \notin before.mongo) /\ (query.by = "tag" => tagged \cap before.mongo = {})
    BY <1>2, <2>1 DEF Matches
  <2>5. LookupKnows'
    BY <1>1, <1>2, <2>1, <2>2, <2>3, <2>4 DEF LookupKnows
  <2>. QED
    BY <1>1, <2>1, <2>2, <2>3, <2>5 DEF ReadSoFar, AnswerStored, FoundById, MostRecentInStore
<1>6. CASE MongoUnreachable
  <2>1. /\ query.at = "mongo" /\ answer' = answer
        /\ query' = [query EXCEPT !.at = "files", !.from = "files", !.unreachable = TRUE]
    BY <1>6 DEF MongoUnreachable
  <2>2. TypeOK' /\ SavedSoFar' /\ Whole' = Whole
    BY <1>2, <1>3, <2>1
  <2>3. query'.at = "files" /\ query'.from = "files" /\ query'.unreachable = TRUE /\ answer = NoRun
    BY <1>2, <2>1 DEF LookupKnows
  <2>4. LookupKnows'
    BY <1>1, <1>2, <2>1, <2>2, <2>3 DEF LookupKnows
  <2>. QED
    BY <1>1, <2>1, <2>2, <2>3, <2>4 DEF ReadSoFar, AnswerStored, FoundById, MostRecentInStore
<1>7. CASE ReadRunFile
  <2>1. /\ query.at = "files" /\ query.by = "id" /\ query' = [query EXCEPT !.at = "done"]
        /\ answer' = IF query.id \in Whole THEN query.id ELSE NoRun
    BY <1>7 DEF ReadRunFile, Found, Consult
  <2>2. TypeOK' /\ SavedSoFar' /\ Whole' = Whole
    BY <1>2, <1>3, <2>1
  <2>3. query'.at = "done" /\ query'.from = query.from /\ query'.unreachable = query.unreachable
    BY <1>2, <2>1
  <2>4. LookupKnows' /\ ReadSoFar' /\ AnswerStored'
    BY <1>1, <1>2, <2>1, <2>2, <2>3 DEF LookupKnows, ReadSoFar, AnswerStored
  <2>5. FoundById'
    BY <1>1, <1>2, <2>1, <2>3 DEF FoundById, LookupKnows
  <2>6. MostRecentInStore'
    BY <1>1, <2>1 DEF MostRecentInStore
  <2>. QED
    BY <2>2, <2>4, <2>5, <2>6
<1>8. CASE ReadDir
  <2>1. /\ query.at = "files" /\ query.by = "tag" /\ answer' = answer
        /\ query' = [query EXCEPT !.at = "reading", !.left = {r \in Runs : json[r] # "none"}]
    BY <1>8 DEF ReadDir
  <2>2. TypeOK' /\ SavedSoFar' /\ Whole' = Whole
    BY <1>2, <1>3, <2>1
  <2>3. /\ query'.at = "reading" /\ query'.from = query.from /\ query'.unreachable = query.unreachable
        /\ answer = NoRun /\ Whole \subseteq query'.left
    BY <1>2, <2>1 DEF LookupKnows, Whole
  <2>4. LookupKnows'
    BY <1>1, <1>2, <2>1, <2>2, <2>3 DEF LookupKnows
  <2>5. ReadSoFar' /\ AnswerStored'
    BY <1>1, <1>2, <2>1, <2>3 DEF ReadSoFar, AnswerStored
  <2>. QED
    BY <1>1, <2>1, <2>2, <2>3, <2>4, <2>5 DEF FoundById, MostRecentInStore
<1>9. ASSUME NEW r \in Runs, ReadEntry(r) PROVE StoreInv'
  <2>1. /\ query.at = "reading" /\ r \in query.left /\ query' = [query EXCEPT !.left = @ \ {r}]
        /\ answer' = IF r \in Whole \cap tagged /\ (answer = NoRun \/ stamp[r] > stamp[answer]) THEN r ELSE answer
    BY <1>9 DEF ReadEntry
  <2>2. answer' \in Runs \cup {NoRun}
    BY <1>2, <2>1
  <2>3. TypeOK' /\ SavedSoFar' /\ Whole' = Whole
    BY <1>2, <1>3, <2>1, <2>2
  <2>4. /\ query'.at = "reading" /\ query'.from = query.from /\ query'.unreachable = query.unreachable
        /\ query'.left = query.left \ {r} /\ query'.unread = query.unread
    BY <1>2, <2>1
  <2>5. LookupKnows'
    BY <1>1, <1>2, <2>1, <2>3, <2>4 DEF LookupKnows
  <2>6. /\ answer' # NoRun => answer' \in tagged \cap Whole
        /\ answer # NoRun => answer' # NoRun /\ stamp[answer] <= stamp[answer']
        /\ r \in tagged \cap Whole => answer' # NoRun /\ stamp[r] <= stamp[answer']
    <3>1. \A s \in Runs : stamp[s] \in Nat
      BY DEF TypeOK
    <3>. QED
      BY <1>2, <2>1, <3>1 DEF ReadSoFar
  <2>7. ReadSoFar'
    <3>1. \A s \in Runs : stamp[s] \in Nat
      BY DEF TypeOK
    <3>2. ASSUME NEW s \in (tagged \cap before.whole) \ query'.unread, s \notin query'.left
          PROVE  answer' # NoRun /\ stamp[s] <= stamp[answer']
      <4>1. CASE s = r
        BY <1>2, <2>6, <4>1
      <4>2. CASE s # r
        <5>1. answer # NoRun /\ stamp[s] <= stamp[answer]
          BY <2>1, <2>4, <3>2, <4>2 DEF ReadSoFar
        <5>. QED
          BY <1>2, <2>2, <2>6, <3>1, <5>1
      <4>. QED
        BY <4>1, <4>2
    <3>. QED
      BY <1>1, <2>3, <2>6, <3>2 DEF ReadSoFar
  <2>8. AnswerStored'
    BY <1>1, <2>3, <2>6 DEF AnswerStored
  <2>. QED
    BY <2>3, <2>4, <2>5, <2>7, <2>8 DEF FoundById, MostRecentInStore
<1>10. CASE DirRead
  <2>1. query.at = "reading" /\ query.left = {} /\ query' = [query EXCEPT !.at = "done"] /\ answer' = answer
    BY <1>10 DEF DirRead, Consult
  <2>2. TypeOK' /\ SavedSoFar' /\ Whole' = Whole
    BY <1>2, <1>3, <2>1
  <2>3. /\ query'.at = "done" /\ query'.from = "files" /\ query'.unreachable = query.unreachable
        /\ query'.unread = query.unread /\ query.by = "tag" /\ query.from = "files"
    BY <1>2, <2>1 DEF LookupKnows
  <2>4. LookupKnows' /\ ReadSoFar' /\ AnswerStored' /\ FoundById'
    BY <1>1, <1>2, <2>1, <2>2, <2>3 DEF LookupKnows, ReadSoFar, AnswerStored, FoundById
  <2>5. MostRecentInStore'
    <3>1. \A r \in (tagged \cap before.whole) \ query.unread :
              answer # NoRun /\ stamp[r] <= stamp[answer]
      BY <2>1 DEF ReadSoFar
    <3>2. answer # NoRun => answer \in tagged
      BY <2>1 DEF ReadSoFar
    <3>3. "mongo" \notin enabled \/ query.unreachable \/ tagged \cap before.mongo = {}
      BY <2>1, <2>3 DEF LookupKnows
    <3>. QED
      BY <1>1, <2>1, <2>3, <3>1, <3>2, <3>3 DEF MostRecentInStore
  <2>. QED
    BY <2>2, <2>4, <2>5
<1>11. CASE RunFileUnreadable
  <2>1. /\ query.at = "files" /\ query.by = "id" /\ answer' = answer
        /\ query' = [query EXCEPT !.at = "done", !.unread = {query.id}]
    BY <1>11 DEF RunFileUnreadable
  <2>2. query.id \in Runs /\ answer = NoRun
    BY <2>1 DEF LookupKnows
  <2>3. TypeOK' /\ SavedSoFar' /\ Whole' = Whole
    BY <1>2, <1>3, <2>1, <2>2
  <2>4. /\ query'.at = "done" /\ query'.from = query.from /\ query'.unreachable = query.unreachable
        /\ query'.unread = {query.id}
    BY <1>2, <2>1
  <2>5. LookupKnows' /\ ReadSoFar' /\ AnswerStored'
    BY <1>1, <1>2, <2>1, <2>2, <2>3, <2>4 DEF LookupKnows, ReadSoFar, AnswerStored
  <2>6. FoundById'
    BY <1>1, <1>2, <2>1, <2>2, <2>4 DEF FoundById, LookupKnows
  <2>7. MostRecentInStore'
    BY <1>1, <2>1 DEF MostRecentInStore
  <2>. QED
    BY <2>3, <2>5, <2>6, <2>7
<1>12. CASE DirUnreadable
  <2>1. /\ query.at = "files" /\ query.by = "tag" /\ answer' = answer
        /\ query' = [query EXCEPT !.at = "done", !.unread = Runs]
    BY <1>12 DEF DirUnreadable
  <2>2. TypeOK' /\ SavedSoFar' /\ Whole' = Whole
    BY <1>2, <1>3, <2>1
  <2>3. /\ query'.at = "done" /\ query'.from = "files" /\ query'.unreachable = query.unreachable
        /\ query'.unread = Runs /\ answer = NoRun /\ query.from = "files"
    BY <1>2, <2>1 DEF LookupKnows
  <2>4. LookupKnows' /\ ReadSoFar' /\ AnswerStored' /\ FoundById'
    BY <1>1, <1>2, <2>1, <2>2, <2>3 DEF LookupKnows, ReadSoFar, AnswerStored, FoundById
  <2>5. MostRecentInStore'
    <3>1. "mongo" \notin enabled \/ query.unreachable \/ tagged \cap before.mongo = {}
      BY <2>1, <2>3 DEF LookupKnows
    <3>. QED
      BY <1>1, <1>2, <2>1, <2>3, <3>1 DEF MostRecentInStore
  <2>. QED
    BY <2>2, <2>4, <2>5
<1>13. ASSUME NEW r \in Runs, EntryUnreadable(r) PROVE StoreInv'
  <2>1. /\ query.at = "reading" /\ r \in query.left /\ answer' = answer
        /\ query' = [query EXCEPT !.left = @ \ {r}, !.unread = @ \cup {r}]
    BY <1>13 DEF EntryUnreadable
  <2>2. TypeOK' /\ SavedSoFar' /\ Whole' = Whole
    BY <1>2, <1>3, <2>1
  <2>3. /\ query'.at = "reading" /\ query'.from = query.from /\ query'.unreachable = query.unreachable
        /\ query'.left = query.left \ {r} /\ query'.unread = query.unread \cup {r}
    BY <1>2, <2>1
  <2>4. LookupKnows' /\ AnswerStored'
    BY <1>1, <1>2, <2>1, <2>2, <2>3 DEF LookupKnows, AnswerStored
  <2>5. ReadSoFar'
    BY <1>1, <2>1, <2>2, <2>3 DEF ReadSoFar
  <2>. QED
    BY <2>2, <2>3, <2>4, <2>5 DEF FoundById, MostRecentInStore
<1>. QED
  BY <1>4, <1>5, <1>6, <1>7, <1>8, <1>9, <1>10, <1>11, <1>12, <1>13 DEF LookupStep

LEMMA StoreAlways == Spec => []StoreInv
<1>1. ASSUME StoreInv, UNCHANGED vars PROVE StoreInv'
  BY <1>1 DEF vars, config, saving, stores, looking, StoreInv, TypeOK, SavedSoFar, RunSaved, LookupKnows,
              ReadSoFar, AnswerStored, FoundById, MostRecentInStore, Whole
<1>2. StoreInv /\ [Next]_vars => StoreInv'
  BY <1>1, SaveStays, AskStays, LookupStays DEF Next
<1>. QED
  BY StoreStarts, <1>2, PTL DEF Spec

\* Every variable has its type, and what is in a store has its timestamp.
THEOREM TypeCorrect == Spec => []TypeOK
<1>1. StoreInv => TypeOK
  BY DEF StoreInv
<1>. QED
  BY <1>1, StoreAlways, PTL

\* orchestrator.go:302-318, for any number of runs: a run that is over is in every store
\* that is enabled and did not fail.
THEOREM StoresIndependent == Spec => []SavedUnlessFailed
<1>1. StoreInv => SavedUnlessFailed
  BY DEF StoreInv, SavedSoFar, RunSaved, SavedUnlessFailed, AfterMongo, AfterJSON, Whole
<1>. QED
  BY <1>1, StoreAlways, PTL

\* comparer.go:163-174, for any number of runs: a run that can be read is found.
THEOREM LookupById == Spec => []FoundById
<1>1. StoreInv => FoundById
  BY DEF StoreInv
<1>. QED
  BY <1>1, StoreAlways, PTL

\* comparer.go:176-301, for any number of runs: the answer is as recent as every match
\* of its store.
THEOREM LookupByTag == Spec => []MostRecentInStore
<1>1. StoreInv => MostRecentInStore
  BY DEF StoreInv
<1>. QED
  BY <1>1, StoreAlways, PTL

-----------------------------------------------------------------------------
(* The page of the explorer: what filter returns.                            *)

\* The function by which filter is defined, on its first arguments.
Keeps(kept, s, S, m) ==
    \A n \in 0 .. m :
        kept[n] = IF n = 0 THEN <<>>
                  ELSE IF s[n] \in S THEN Append(kept[n - 1], s[n]) ELSE kept[n - 1]

\* There is such a function, of any number of arguments.
LEMMA KeepsExists ==
    ASSUME NEW s, NEW S, NEW m \in Nat
    PROVE  \E kept : kept = [n \in 0 .. m |-> kept[n]] /\ Keeps(kept, s, S, m)
<1> DEFINE Has(n) == \E kept : kept = [i \in 0 .. n |-> kept[i]] /\ Keeps(kept, s, S, n)
           Bad == {n \in Nat : ~Has(n)}
<1>1. SUFFICES ASSUME Bad # {} PROVE FALSE
  BY Zenon
<1>2. PICK least \in Bad : \A n \in Bad : least <= n
  <2> HIDE DEF Bad
  <2>1. Bad \in SUBSET Nat
    BY DEF Bad
  <2>. QED
    BY <1>1, <2>1, LeastNumber
<1>3. least \in Nat /\ ~Has(least)
  BY <1>2
<1>4. Has(0)
  <2> DEFINE kept == [i \in 0 .. 0 |-> <<>>]
  <2>1. kept = [i \in 0 .. 0 |-> kept[i]] /\ Keeps(kept, s, S, 0)
    BY DEF Keeps
  <2>. QED
    BY <2>1, Zenon
<1>5. least - 1 \in Nat
  <2> HIDE DEF Has
  <2>. QED
    BY <1>3, <1>4
<1>6. Has(least - 1)
  <2> HIDE DEF Has
  <2>. QED
    BY <1>2, <1>5
<1>7. PICK old : old = [i \in 0 .. least - 1 |-> old[i]] /\ Keeps(old, s, S, least - 1)
  BY <1>6, Zenon
<1> DEFINE last == IF s[least] \in S THEN Append(old[least - 1], s[least]) ELSE old[least - 1]
           new  == [i \in 0 .. least |-> IF i = least THEN last ELSE old[i]]
<1>8. Keeps(new, s, S, least)
  <2> SUFFICES ASSUME NEW n \in 0 .. least
               PROVE  new[n] = IF n = 0 THEN <<>>
                               ELSE IF s[n] \in S THEN Append(new[n - 1], s[n]) ELSE new[n - 1]
    BY Zenon DEF Keeps
  <2>1. CASE n = least
    <3>1. new[n] = last /\ new[n - 1] = old[n - 1] /\ n # 0
      BY <1>3, <1>5, <2>1
    <3>. QED
      BY <2>1, <3>1
  <2>2. CASE n # least
    <3>1. n \in 0 .. least - 1 /\ new[n] = old[n]
      BY <1>3, <1>5, <2>2
    <3>2. n # 0 => new[n - 1] = old[n - 1]
      BY <1>3, <1>5, <3>1
    <3>. QED
      BY <1>7, <3>1, <3>2 DEF Keeps
  <2>. QED
    BY <2>1, <2>2
<1>9. new = [i \in 0 .. least |-> new[i]]
  OBVIOUS
<1>10. Has(least)
  <2> HIDE DEF new
  <2>. QED
    BY <1>8, <1>9, Zenon
<1>. QED
  BY <1>3, <1>10

\* What filter does, by such a function.
LEMMA FilterIs ==
    ASSUME NEW s, NEW S, Len(s) \in Nat
    PROVE  \E kept : Keeps(kept, s, S, Len(s)) /\ filter(s, S) = kept[Len(s)]
<1> DEFINE Is(f) == f = [n \in 0 .. Len(s) |->
                            IF n = 0 THEN <<>>
                            ELSE IF s[n] \in S THEN Append(f[n - 1], s[n]) ELSE f[n - 1]]
           kept == CHOOSE f : Is(f)
<1>1. PICK f : f = [n \in 0 .. Len(s) |-> f[n]] /\ Keeps(f, s, S, Len(s))
  BY KeepsExists
<1>2. Is(f)
  <2>1. \A n \in 0 .. Len(s) :
            f[n] = IF n = 0 THEN <<>> ELSE IF s[n] \in S THEN Append(f[n - 1], s[n]) ELSE f[n - 1]
    BY <1>1 DEF Keeps
  <2>. QED
    BY <1>1, <2>1
<1>3. filter(s, S) = kept[Len(s)]
  BY Zenon DEF filter
<1>4. Is(kept)
  <2> HIDE DEF Is
  <2>. QED
    BY <1>2, Zenon
<1>5. Keeps(kept, s, S, Len(s))
  <2> HIDE DEF kept
  <2>. QED
    BY <1>4 DEF Keeps
<1>. QED
  BY <1>3, <1>5, Zenon

\* It depends only on which of the first elements are in the set.
LEMMA KeepsAlike ==
    ASSUME NEW k, NEW h, NEW s, NEW t, NEW S, NEW R, NEW m \in Nat,
           Keeps(k, s, S, m), Keeps(h, t, R, m),
           \A i \in 1 .. m : s[i] = t[i] /\ (s[i] \in S <=> t[i] \in R)
    PROVE  k[m] = h[m]
<1> DEFINE Bad == {n \in 0 .. m : k[n] # h[n]}
<1>1. SUFFICES ASSUME Bad # {} PROVE FALSE
  BY DEF Keeps
<1>2. PICK least \in Bad : \A n \in Bad : least <= n
  <2>1. Bad \in SUBSET Nat
    OBVIOUS
  <2> HIDE DEF Bad
  <2>. QED
    BY <1>1, <2>1, LeastNumber
<1>3. least \in 0 .. m /\ k[least] # h[least]
  BY <1>2
<1>4. CASE least = 0
  BY <1>3, <1>4 DEF Keeps
<1>5. CASE least # 0
  <2>1. least - 1 \in 0 .. m /\ least \in 1 .. m
    BY <1>3, <1>5
  <2>2. k[least - 1] = h[least - 1]
    BY <1>2, <2>1
  <2>. QED
    BY <1>3, <1>5, <2>1, <2>2 DEF Keeps
<1>. QED
  BY <1>4, <1>5

\* One element more.
LEMMA RangeOfAppend ==
    ASSUME NEW T, NEW s \in Seq(T), NEW x \in T
    PROVE  Range(Append(s, x)) = Range(s) \cup {x}
<1>1. Append(s, x) \in Seq(T) /\ DOMAIN Append(s, x) = 1 .. Len(s) + 1 /\ DOMAIN s = 1 .. Len(s)
  OBVIOUS
<1>2. \A i \in 1 .. Len(s) : Append(s, x)[i] = s[i]
  OBVIOUS
<1>3. Append(s, x)[Len(s) + 1] = x
  OBVIOUS
<1>. QED
  BY <1>1, <1>2, <1>3 DEF Range

LEMMA InjectiveAppend ==
    ASSUME NEW T, NEW s \in Seq(T), NEW x \in T, IsInjective(s), x \notin Range(s)
    PROVE  IsInjective(Append(s, x))
<1>1. DOMAIN Append(s, x) = 1 .. Len(s) + 1 /\ DOMAIN s = 1 .. Len(s) /\ Len(s) \in Nat
  OBVIOUS
<1>2. \A i \in 1 .. Len(s) + 1 : Append(s, x)[i] = IF i = Len(s) + 1 THEN x ELSE s[i]
  OBVIOUS
<1>3. \A i \in 1 .. Len(s) : s[i] # x
  BY <1>1 DEF Range
<1>4. \A i, j \in 1 .. Len(s) : s[i] = s[j] => i = j
  BY <1>1 DEF IsInjective
<1>5. \A i, j \in 1 .. Len(s) + 1 : Append(s, x)[i] = Append(s, x)[j] => i = j
  BY <1>1, <1>2, <1>3, <1>4
<1>. QED
  BY <1>1, <1>5 DEF IsInjective

\* What is kept of the first n elements.
LEMMA KeptIs ==
    ASSUME NEW T, NEW s \in Seq(T), NEW S, NEW kept, Keeps(kept, s, S, Len(s)),
           NEW n \in 0 .. Len(s)
    PROVE  /\ kept[n] \in Seq(T) /\ Len(kept[n]) <= n
           /\ Range(kept[n]) = {s[i] : i \in 1 .. n} \cap S
           /\ IsInjective(s) => IsInjective(kept[n])
<1> DEFINE Good(i) == /\ kept[i] \in Seq(T) /\ Len(kept[i]) <= i
                      /\ Range(kept[i]) = {s[j] : j \in 1 .. i} \cap S
                      /\ IsInjective(s) => IsInjective(kept[i])
           Bad == {i \in 0 .. Len(s) : ~Good(i)}
<1>1. SUFFICES ASSUME Bad # {} PROVE FALSE
  BY Zenon
<1>2. PICK least \in Bad : \A i \in Bad : least <= i
  <2>1. Bad \in SUBSET Nat
    OBVIOUS
  <2> HIDE DEF Bad
  <2>. QED
    BY <1>1, <2>1, LeastNumber
<1>3. least \in 0 .. Len(s) /\ ~Good(least)
  BY <1>2
<1>4. Good(0)
  <2>1. kept[0] = <<>>
    BY DEF Keeps
  <2>. QED
    BY <2>1 DEF Range, IsInjective
<1>5. least \in 1 .. Len(s) /\ least - 1 \in 0 .. Len(s) /\ least - 1 \in Nat
  <2> HIDE DEF Good
  <2>. QED
    BY <1>3, <1>4
<1>6. Good(least - 1)
  <2> HIDE DEF Good
  <2>. QED
    BY <1>2, <1>5
<1> DEFINE old == kept[least - 1]
           x   == s[least]
<1>7. x \in T /\ kept[least] = IF x \in S THEN Append(old, x) ELSE old
  BY <1>5 DEF Keeps
<1>8. {s[j] : j \in 1 .. least} = {s[j] : j \in 1 .. least - 1} \cup {x}
  BY <1>5
<1>9. IsInjective(s) => x \notin {s[j] : j \in 1 .. least - 1}
  BY <1>5 DEF IsInjective
<1> HIDE DEF x, old
<1>10. CASE x \notin S
  <2>1. kept[least] = old /\ Len(old) <= least
    BY <1>5, <1>6, <1>7, <1>10 DEF old
  <2>2. {s[j] : j \in 1 .. least} \cap S = {s[j] : j \in 1 .. least - 1} \cap S
    BY <1>8, <1>10
  <2>. QED
    BY <1>3, <1>6, <2>1, <2>2 DEF old
<1>11. CASE x \in S
  <2>1. old \in Seq(T) /\ Len(old) <= least - 1 /\ kept[least] = Append(old, x)
    BY <1>6, <1>7, <1>11 DEF old
  <2>2. kept[least] \in Seq(T) /\ Len(kept[least]) <= least
    BY <1>5, <1>7, <2>1
  <2>3. Range(Append(old, x)) = Range(old) \cup {x}
    BY <1>7, <2>1, RangeOfAppend
  <2>4. Range(kept[least]) = {s[j] : j \in 1 .. least} \cap S
    BY <1>6, <1>8, <1>11, <2>1, <2>3 DEF old
  <2>5. IsInjective(s) => IsInjective(kept[least])
    BY <1>6, <1>7, <1>9, <2>1, InjectiveAppend DEF old
  <2>. QED
    BY <1>3, <2>2, <2>4, <2>5
<1>. QED
  BY <1>10, <1>11

\* What filter returns: the elements that are in the set, no more often than they were.
LEMMA FilterKeeps ==
    ASSUME NEW T, NEW s \in Seq(T), NEW S
    PROVE  /\ filter(s, S) \in Seq(T) /\ Len(filter(s, S)) <= Len(s)
           /\ Range(filter(s, S)) = Range(s) \cap S
           /\ IsInjective(s) => IsInjective(filter(s, S))
<1>1. Len(s) \in Nat /\ Len(s) \in 0 .. Len(s) /\ DOMAIN s = 1 .. Len(s)
  OBVIOUS
<1>2. PICK kept : Keeps(kept, s, S, Len(s)) /\ filter(s, S) = kept[Len(s)]
  BY <1>1, FilterIs
<1>3. Range(s) = {s[i] : i \in 1 .. Len(s)}
  BY <1>1 DEF Range
<1>4. /\ kept[Len(s)] \in Seq(T) /\ Len(kept[Len(s)]) <= Len(s)
      /\ Range(kept[Len(s)]) = {s[i] : i \in 1 .. Len(s)} \cap S
      /\ IsInjective(s) => IsInjective(kept[Len(s)])
  BY <1>1, <1>2, KeptIs
<1>. QED
  BY <1>2, <1>3, <1>4, Zenon

\* Of a set only what is in the sequence matters.
LEMMA FilterAlike ==
    ASSUME NEW T, NEW s \in Seq(T), NEW S, NEW R, Range(s) \cap S = Range(s) \cap R
    PROVE  filter(s, S) = filter(s, R)
<1>1. Len(s) \in Nat /\ DOMAIN s = 1 .. Len(s)
  OBVIOUS
<1>2. \A i \in 1 .. Len(s) : s[i] \in S <=> s[i] \in R
  BY <1>1 DEF Range
<1>3. PICK k : Keeps(k, s, S, Len(s)) /\ filter(s, S) = k[Len(s)]
  BY <1>1, FilterIs
<1>4. PICK h : Keeps(h, s, R, Len(s)) /\ filter(s, R) = h[Len(s)]
  BY <1>1, FilterIs
<1>. QED
  BY <1>1, <1>2, <1>3, <1>4, KeepsAlike

\* An element that is not in the set makes no difference at the end of the sequence.
LEMMA FilterAppend ==
    ASSUME NEW T, NEW s \in Seq(T), NEW x \in T, NEW S, x \notin S
    PROVE  filter(Append(s, x), S) = filter(s, S)
<1> DEFINE t == Append(s, x)
<1>1. Len(s) \in Nat /\ Len(t) = Len(s) + 1 /\ t[Len(s) + 1] = x
  OBVIOUS
<1>2. \A i \in 1 .. Len(s) : s[i] = t[i]
  OBVIOUS
<1> HIDE DEF t
<1>3. PICK k : Keeps(k, s, S, Len(s)) /\ filter(s, S) = k[Len(s)]
  BY <1>1, FilterIs
<1>4. PICK h : Keeps(h, t, S, Len(t)) /\ filter(t, S) = h[Len(t)]
  BY <1>1, FilterIs
<1>5. h[Len(s) + 1] = h[Len(s)]
  BY <1>1, <1>4 DEF Keeps
<1>6. Keeps(h, t, S, Len(s))
  BY <1>1, <1>4 DEF Keeps
<1>7. k[Len(s)] = h[Len(s)]
  BY <1>1, <1>2, <1>3, <1>6, KeepsAlike
<1>. QED
  BY <1>1, <1>3, <1>4, <1>5, <1>7 DEF t
-----------------------------------------------------------------------------
(* The page of the explorer: its invariant.                                  *)

\* The invariant of the page.
PageInv == PageTypeOK /\ ViewCurrent /\ NothingOutdated

LEMMA PageStarts == PageInit => PageInv
<1> SUFFICES ASSUME PageInit PROVE PageInv
  OBVIOUS
<1>1. <<>> \in Seq(Ids) /\ Len(<<>>) = 0 /\ Range(<<>>) = {} /\ IsInjective(<<>>)
  BY DEF Range, IsInjective
<1>2. \A S : filter(<<>>, S) = <<>>
  <2> SUFFICES ASSUME NEW S PROVE filter(<<>>, S) = <<>>
    OBVIOUS
  <2>1. filter(<<>>, S) \in Seq(Ids) /\ Len(filter(<<>>, S)) <= 0
    BY <1>1, FilterKeeps
  <2>. QED
    BY <2>1
<1>3. PageTypeOK
  BY <1>1, ExplorerAssumption DEF PageInit, PageTypeOK
<1>4. ViewCurrent
  BY <1>1, <1>2, ExplorerAssumption DEF PageInit, ViewCurrent
<1>5. NothingOutdated
  BY <1>2, Zenon DEF PageInit, NothingOutdated
<1>. QED
  BY <1>3, <1>4, <1>5 DEF PageInv

\* After a new table and a new comparison, nothing is out of date.
LEMMA RenderedIsCurrent ==
    ASSUME ExplorerAssumption, PageTypeOK, selected' \in Seq(Ids), Len(selected') <= MAX,
           renderTable(rows), renderCompare
    PROVE  /\ panel' \in Seq(Ids) /\ rows' = rows
           /\ checked' \subseteq rows' /\ disabled' \subseteq rows'
           /\ ViewCurrent' /\ NothingOutdated'
<1>1. rows' = rows /\ checked' = rows \cap Range(selected')
  BY DEF renderTable
<1>2. disabled' = IF Len(selected') >= MAX THEN rows \ Range(selected') ELSE {}
  BY DEF renderTable
<1>3. panel' = filter(selected', details')
  BY DEF renderCompare
<1>4. panel' \in Seq(Ids) /\ Range(panel') = Range(selected') \cap details'
  BY <1>3, FilterKeeps
<1>5. ViewCurrent'
  BY <1>1, <1>2, <1>3 DEF ViewCurrent
<1>6. panel' = filter(selected', Range(panel'))
  <2>1. Range(selected') \cap details' = Range(selected') \cap Range(panel')
    BY <1>4
  <2>. QED
    BY <1>3, <2>1, FilterAlike
<1>7. disabled' # {} => Len(selected') = MAX
  <2>1. Len(selected') \in Nat /\ MAX \in Nat
    BY ExplorerAssumption
  <2>. QED
    BY <1>2, <2>1
<1>. QED
  BY <1>1, <1>2, <1>4, <1>5, <1>6, <1>7 DEF NothingOutdated

\* The run of a clicked box is selected, when there is room.
LEMMA Pushed ==
    ASSUME ExplorerAssumption, PageTypeOK, NEW id \in Ids, Len(selected) < MAX, Push(id)
    PROVE  selected' \in Seq(Ids) /\ Len(selected') <= MAX /\ IsInjective(selected')
<1>1. selected \in Seq(Ids) /\ Len(selected) \in Nat /\ MAX \in Nat /\ IsInjective(selected)
  BY ExplorerAssumption DEF PageTypeOK
<1>2. CASE id \in Range(selected)
  BY <1>1, <1>2 DEF Push
<1>3. CASE id \notin Range(selected)
  <2>1. selected' = Append(selected, id)
    BY <1>3 DEF Push
  <2>2. IsInjective(selected')
    BY <1>1, <1>3, <2>1, InjectiveAppend
  <2>. QED
    BY <1>1, <2>1, <2>2
<1>. QED
  BY <1>2, <1>3

\* Whatever the page does, its invariant holds.
LEMMA PageStays == PageInv /\ [PageNext]_pageVars => PageInv'
<1> SUFFICES ASSUME PageInv, [PageNext]_pageVars PROVE PageInv'
  OBVIOUS
<1>1. PageTypeOK /\ ViewCurrent /\ NothingOutdated /\ ExplorerAssumption
  BY ExplorerAssumption DEF PageInv
<1>2. /\ listing \in BOOLEAN /\ runs \subseteq Ids /\ details \subseteq Ids
      /\ selected \in Seq(Ids) /\ Len(selected) <= MAX /\ IsInjective(selected)
      /\ awaiting \in [Ids -> 0 .. Requests] /\ rows \subseteq runs
      /\ checked \subseteq rows /\ disabled \subseteq rows /\ panel \in Seq(Ids)
  BY <1>1 DEF PageTypeOK
<1>3. Len(selected) \in Nat /\ MAX \in Nat /\ Requests \in Nat
  BY <1>2, ExplorerAssumption
<1>4. ASSUME NEW shown \in SUBSET runs', renderTable(shown), runs' \subseteq Ids, listing' \in BOOLEAN,
             UNCHANGED <<selected, details, awaiting, panel>>
      PROVE  PageInv'
  <2>1. PageTypeOK'
    BY <1>2, <1>4 DEF PageTypeOK, renderTable
  <2>2. ViewCurrent'
    BY <1>1, <1>4 DEF ViewCurrent, renderTable
  <2>3. NothingOutdated'
    BY <1>1, <1>2, <1>3, <1>4 DEF NothingOutdated, renderTable
  <2>. QED
    BY <2>1, <2>2, <2>3 DEF PageInv
<1>5. ASSUME selected' \in Seq(Ids), Len(selected') <= MAX, IsInjective(selected'),
             renderTable(rows), renderCompare, UNCHANGED <<listing, runs>>,
             details' \subseteq Ids, awaiting' \in [Ids -> 0 .. Requests]
      PROVE  PageInv'
  <2>1. /\ panel' \in Seq(Ids) /\ rows' = rows
        /\ checked' \subseteq rows' /\ disabled' \subseteq rows'
        /\ ViewCurrent' /\ NothingOutdated'
    BY <1>1, <1>5, RenderedIsCurrent
  <2>2. PageTypeOK'
    BY <1>2, <1>5, <2>1 DEF PageTypeOK
  <2>. QED
    BY <2>1, <2>2 DEF PageInv
<1>6. CASE loadRuns
  <2>1. CASE runs' \in Lists /\ renderTable(runs')
    BY <1>4, <1>6, <2>1 DEF loadRuns, Lists
  <2>2. CASE UNCHANGED <<runs, table>>
    <3>1. PageTypeOK'
      BY <1>2, <1>6, <2>2 DEF PageTypeOK, loadRuns, table
    <3>2. ViewCurrent' /\ NothingOutdated'
      BY <1>1, <1>6, <2>2 DEF ViewCurrent, NothingOutdated, loadRuns, table
    <3>. QED
      BY <3>1, <3>2 DEF PageInv
  <2>. QED
    BY <1>6, <2>1, <2>2 DEF loadRuns
<1>7. CASE Filter
  BY <1>2, <1>4, <1>7 DEF Filter
<1>8. CASE Clear
  <2>1. <<>> \in Seq(Ids) /\ Len(<<>>) <= MAX /\ IsInjective(<<>>)
    BY <1>3 DEF IsInjective
  <2>. QED
    BY <1>2, <1>5, <1>8, <2>1 DEF Clear
<1>9. ASSUME NEW id \in Ids, Refused(id) PROVE PageInv'
  <2>1. PageTypeOK'
    BY <1>2, <1>9 DEF PageTypeOK, Refused, Clickable
  <2>2. ~(\A i \in Ids : awaiting[i] = 0)
    \* otherwise the boxes outside a full selection would be disabled
    <3> SUFFICES ASSUME \A i \in Ids : awaiting[i] = 0 PROVE FALSE
      OBVIOUS
    <3>1. disabled = rows \ checked
      BY <1>1, <1>9 DEF ViewCurrent, Refused
    <3>. QED
      BY <1>9, <3>1 DEF Refused, Clickable
  <2>3. ViewCurrent' /\ NothingOutdated'
    BY <1>1, <1>9, <2>2 DEF ViewCurrent, NothingOutdated, Refused
  <2>. QED
    BY <2>1, <2>3 DEF PageInv
<1>10. ASSUME NEW id \in Ids, Request(id) PROVE PageInv'
  <2>1. selected' \in Seq(Ids) /\ Len(selected') <= MAX /\ IsInjective(selected')
    BY <1>1, <1>10, Pushed DEF Request
  <2>2. awaiting' \in [Ids -> 0 .. Requests] /\ awaiting'[id] # 0
    <3>1. awaiting[id] \in 0 .. Requests /\ awaiting[id] < Requests
      BY <1>2, <1>10 DEF Request
    <3>2. awaiting[id] + 1 \in 0 .. Requests /\ awaiting[id] + 1 # 0
      BY <1>3, <3>1
    <3>3. awaiting' = [awaiting EXCEPT ![id] = awaiting[id] + 1]
      BY <1>10 DEF Request
    <3>. QED
      BY <1>2, <3>2, <3>3
  <2>3. PageTypeOK'
    BY <1>2, <1>10, <2>1, <2>2 DEF PageTypeOK, Request, Clickable
  <2>4. ViewCurrent'
    BY <2>2 DEF ViewCurrent
  <2>5. panel' = filter(selected', Range(panel'))
    <3>1. panel' = panel /\ panel = filter(selected, Range(panel))
      BY <1>1, <1>10 DEF NothingOutdated, Request
    <3>2. CASE id \in Range(selected)
      BY <1>10, <3>1, <3>2 DEF Request, Push
    <3>3. CASE id \notin Range(selected)
      <4>1. Range(panel) = Range(selected) \cap Range(panel)
        BY <1>2, <3>1, FilterKeeps
      <4>2. filter(Append(selected, id), Range(panel)) = filter(selected, Range(panel))
        BY <1>2, <3>3, <4>1, FilterAppend
      <4>. QED
        BY <1>10, <3>1, <3>3, <4>2 DEF Request, Push
    <3>. QED
      BY <3>2, <3>3
  <2>6. disabled' = {}
    BY <1>1, <1>3, <1>10 DEF NothingOutdated, Request
  <2>. QED
    BY <2>3, <2>4, <2>5, <2>6 DEF PageInv, NothingOutdated
<1>11. ASSUME NEW id \in Ids, Select(id) PROVE PageInv'
  <2>1. selected' \in Seq(Ids) /\ Len(selected') <= MAX /\ IsInjective(selected')
    BY <1>1, <1>11, Pushed DEF Select
  <2>. QED
    BY <1>2, <1>5, <1>11, <2>1 DEF Select
<1>12. ASSUME NEW id \in Ids, Answer(id) PROVE PageInv'
  <2>1. awaiting' \in [Ids -> 0 .. Requests]
    <3>1. awaiting[id] \in 0 .. Requests /\ awaiting[id] > 0
      BY <1>2, <1>12 DEF Answer
    <3>2. awaiting[id] - 1 \in 0 .. Requests
      BY <1>3, <3>1
    <3>3. awaiting' = [awaiting EXCEPT ![id] = awaiting[id] - 1]
      BY <1>12 DEF Answer
    <3>. QED
      BY <1>2, <3>2, <3>3
  <2>2. details' \subseteq Ids
    BY <1>2, <1>12 DEF Answer, Answers
  <2>. QED
    BY <1>2, <1>5, <1>12, <2>1, <2>2 DEF Answer
<1>13. ASSUME NEW id \in Ids, Deselect(id) PROVE PageInv'
  <2> DEFINE left == filter(selected, Ids \ {id})
  <2>1. left \in Seq(Ids) /\ Len(left) <= Len(selected) /\ IsInjective(left)
    BY <1>2, FilterKeeps
  <2> HIDE DEF left
  <2>2. Len(left) <= MAX
    BY <1>2, <1>3, <2>1
  <2>3. selected' = left /\ UNCHANGED <<listing, runs, details, awaiting>>
        /\ renderTable(rows) /\ renderCompare
    BY <1>13 DEF Deselect, left
  <2>. QED
    BY <1>2, <1>5, <2>1, <2>2, <2>3
<1>14. CASE UNCHANGED pageVars
  <2>1. PageTypeOK'
    BY <1>2, <1>14 DEF PageTypeOK, pageVars, table
  <2>2. ViewCurrent' /\ NothingOutdated'
    BY <1>1, <1>14 DEF ViewCurrent, NothingOutdated, pageVars, table
  <2>. QED
    BY <2>1, <2>2 DEF PageInv
<1>. QED
  BY <1>6, <1>7, <1>8, <1>9, <1>10, <1>11, <1>12, <1>13, <1>14 DEF PageNext

LEMMA PageAlways == PageSpec => []PageInv
<1>. QED
  BY PageStarts, PageStays, PTL DEF PageSpec

\* app.js:85-128: the variables of the page keep their types; for any limit and any
\* number of clicks on a table that is out of date, no more runs are selected than may be
\* compared, and none twice.
THEOREM PageTypeCorrect == PageSpec => []PageTypeOK
<1>1. PageInv => PageTypeOK
  BY DEF PageInv
<1>. QED
  BY <1>1, PageAlways, PTL

\* app.js:111-128: whenever no request is under way the screen shows the selection,
\* whichever requests failed and whatever was clicked before they were answered.
THEOREM ScreenCatchesUp == PageSpec => []ViewCurrent
<1>1. PageInv => ViewCurrent
  BY DEF PageInv
<1>. QED
  BY <1>1, PageAlways, PTL

\* app.js:85-147: at any time the comparison shows selected runs only, in the order of
\* the selection, and a box is disabled only when the selection is full.
THEOREM ShowsOnlySelected == PageSpec => []NothingOutdated
<1>1. PageInv => NothingOutdated
  BY DEF PageInv
<1>. QED
  BY <1>1, PageAlways, PTL
=============================================================================
