----------------------------- MODULE Behaviour ------------------------------
(***************************************************************************)
(* The requests that make feature rows, baselines, anomaly results and     *)
(* models, as they run side by side: feature generation, the profile view, *)
(* detection, training and the export of training data, over an event      *)
(* store that still grows and in processes that load the model once.       *)
(*                                                                         *)
(* Every read and write of a store is a step of its own; what a request    *)
(* does between two of them is not interrupted in its process.             *)
(***************************************************************************)
EXTENDS Forest

CONSTANTS Workers,       \* what serves the requests
          ProcessOf,     \* the server process of each
          Pool,          \* the events that may be stored
          Menu,          \* the requests that may be made, each once
          MaxRequests,
          Shipped,       \* the artifacts that may be on disk at the start
          Calibrations,  \* what a training may calibrate to
          Decisions,     \* decision scores
          MinRows,       \* training needs this many rows
          HistoryTicks,  \* the range of a profile
          NonPerson      \* NON_PERSON_USER_IDS

VARIABLES events,    \* canonical_events
          rows,      \* behavioral_features: by user, window, start and dataset
          baselines, \* behavioral_baselines: by user, as committed
          results,   \* anomaly_results: by user, window and start
          file,      \* the artifact on disk
          served,    \* ModelService._artifact of each process
          task,      \* what each worker is doing
          asked,     \* the requests made
          asOf,      \* history: the events and the range a row was made from
          rewritten, \* history: rows overwritten by a different row
          trained,   \* history: the trainings that were completed
          since      \* history: how many were when a process started

histVars == <<asOf, rewritten, trained, since>>
vars == <<events, rows, baselines, results, file, served, task, asked, histVars>>

Processes == {ProcessOf[w] : w \in Workers}
Idle == [step |-> "idle"]

ASSUME RequestsAssumption == MaxRequests \in Nat
ASSUME RowsAssumption == MinRows \in Nat \ {0}

\* Scores are integers in some small unit.
Calibrated(x) == {"low", "high"} \subseteq DOMAIN x /\ x.low \in Int /\ x.high \in Int

ASSUME ShippedAssumption ==
    /\ \A f \in Shipped \ {Nothing} :
          Calibrated(f) /\ f.offset \in Int /\ "id" \in DOMAIN f /\ f.id = 0
    /\ \A c \in Calibrations : Calibrated(c)
    /\ Decisions \subseteq Int

ASSUME PoolAssumption == \A e \in Pool : e.at \in Int

ASSUME MenuAssumption ==
    \A q \in Menu :
        /\ q.kind \in {"generate", "profile", "detect", "train", "export"}
        /\ q.kind = "generate" => q.from \in Int /\ q.to \in Int

Init ==
    /\ events = {}
    /\ rows = << >> /\ baselines = << >> /\ results = << >>
    /\ file \in Shipped
    /\ served = [p \in Processes |-> Nothing]
    /\ task = [w \in Workers |-> Idle]
    /\ asked = {}
    /\ asOf = << >> /\ rewritten = {} /\ trained = 0
    /\ since = [p \in Processes |-> 0]

At(w, step) == task[w].step = step
Go(w, t) == task' = [task EXCEPT ![w] = t]
Put(f, k, v) == [x \in DOMAIN f \cup {k} |-> IF x = k THEN v ELSE f[x]]

\* An event is stored, sooner or later than others of its day.
Arrive(e) ==
    /\ e \in Pool \ events
    /\ events' = events \cup {e}
    /\ UNCHANGED <<rows, baselines, results, file, served, task, asked, histVars>>

Ask(w, q) ==
    /\ At(w, "idle")
    /\ q \in Menu \ asked /\ Cardinality(asked) < MaxRequests
    /\ asked' = asked \cup {q}
    /\ Go(w, [step |-> q.kind, q |-> q])
    /\ UNCHANGED <<events, rows, baselines, results, file, served, histVars>>

(***************************************************************************)
(* The stores.  "all" asks for every dataset, and is also the dataset that *)
(* the rows made of every dataset are of.                                  *)
(***************************************************************************)
OfDataset(dataset, S) == {x \in S : dataset = "all" \/ x.dataset = dataset}

\* find_events.
FindEvents(dataset, from, to) == Within(OfDataset(dataset, events), from, to)

Key(r) == <<r.user, r.window, r.start, r.dataset>>
ResultKey(r) == <<r.user, r.window, r.start>>
AllRows == {rows[k] : k \in DOMAIN rows}

\* list_for_user and list_in_window: by where a row starts, whatever its window.
ListRows(dataset, from, to) == {r \in OfDataset(dataset, AllRows) : from <= r.start /\ r.start < to}

First(S) == {r \in S : \A s \in S : r.start <= s.start}

(***************************************************************************)
(* generate_features.                                                      *)
(***************************************************************************)
Discover(w) ==
    LET q == task[w].q
        found == {e.user : e \in FindEvents(q.dataset, q.from, q.to)} \ NonPerson
    IN /\ At(w, "generate")
       /\ Go(w, [step |-> "find", q |-> q, made |-> {},
                 users |-> IF q.users = {} THEN found ELSE q.users])
       /\ UNCHANGED <<events, rows, baselines, results, file, served, asked, histVars>>

\* The rows of one user; with the last user's they are all written.
MakeRows(w) ==
    LET q == task[w].q IN
    /\ At(w, "find")
    /\ \E u \in task[w].users :
          LET found == {e \in FindEvents(q.dataset, q.from, q.to) : e.user = u}
              made == {[row |-> r, from |-> [events |-> found, start |-> q.from]] :
                          r \in FeatureRows(u, q.window, q.from, q.to, q.dataset, found)}
          IN Go(w, [task[w] EXCEPT !.users = @ \ {u}, !.made = @ \cup made])
    /\ UNCHANGED <<events, rows, baselines, results, file, served, asked, histVars>>

\* upsert_many, one row.
UpsertRow(w) ==
    /\ At(w, "find")
    /\ task[w].users = {}
    /\ \E m \in task[w].made :
          /\ m.row \in First({n.row : n \in task[w].made})
          /\ rows' = Put(rows, Key(m.row), m.row)
          /\ asOf' = Put(asOf, Key(m.row), m.from)
          /\ rewritten' = rewritten \cup
                 (IF Key(m.row) \in DOMAIN rows /\ rows[Key(m.row)] # m.row THEN {Key(m.row)} ELSE {})
          /\ Go(w, [task[w] EXCEPT !.made = @ \ {m}])
    /\ UNCHANGED <<events, baselines, results, file, served, asked, trained, since>>

Generated(w) ==
    /\ At(w, "find")
    /\ task[w].users = {} /\ task[w].made = {}
    /\ Go(w, Idle)
    /\ UNCHANGED <<events, rows, baselines, results, file, served, asked, histVars>>

(***************************************************************************)
(* The profile view rebuilds the baseline of the days up to now, and saves *)
(* it.  Without events the answer is 404.                                  *)
(***************************************************************************)
Profile(w) ==
    LET q == task[w].q
        found == {e \in FindEvents("all", q.to - HistoryTicks, q.to) : e.user = q.user}
    IN /\ At(w, "profile")
       /\ baselines' = IF found = {} THEN baselines
                       ELSE Put(baselines, q.user, BaselineOf(found, q.to - HistoryTicks, q.to))
       /\ Go(w, Idle)
       /\ UNCHANGED <<events, rows, results, file, served, asked, histVars>>

(***************************************************************************)
(* detect_for_window, detect_for_user, detect_for_user_window.             *)
(***************************************************************************)
ListUsers(w) ==
    LET q == task[w].q IN
    /\ At(w, "detect")
    /\ Go(w, [step |-> "list", q |-> q, listed |-> {}, todo |-> {}, row |-> Nothing,
              users |-> IF q.user = Nothing THEN {r.user : r \in OfDataset(q.dataset, AllRows)}
                        ELSE {q.user}])
    /\ UNCHANGED <<events, rows, baselines, results, file, served, asked, histVars>>

\* Mutant of Busy: rows without events are judged as well.
AnyRow(r, window) == r.window = window

\* Empty days are skipped, there is nothing to judge.
Busy(r, window) == r.window = window /\ r.count # 0

ListForUser(w) ==
    LET q == task[w].q IN
    /\ At(w, "list")
    /\ \E u \in task[w].users :
          LET busy == {r \in ListRows(q.dataset, q.from, q.to) : r.user = u /\ Busy(r, q.window)}
          IN Go(w, [task[w] EXCEPT !.step = "judge", !.users = @ \ {u}, !.todo = busy,
                                   !.listed = @ \cup busy])
    /\ UNCHANGED <<events, rows, baselines, results, file, served, asked, histVars>>

\* get_artifact, for the process of w.
Model(w) ==
    LET p == ProcessOf[w]
    IN IF served[p] # Nothing THEN served[p] ELSE IF Loadable(file) THEN Load(file) ELSE Nothing

\* A row is judged that starts where the listed one does, read anew; of
\* several it is the first to come.

\* Mutant of ToJudge: the kind of window is not compared.
AnyWindow(S, r) == {s \in S : s.start = r.start}

ToJudge(S, r) ==
    LET exact == {s \in S : s.start = r.start /\ s.window = r.window}
    IN IF exact # {} THEN exact ELSE First(S)

Refetch(w) ==
    LET q == task[w].q IN
    /\ At(w, "judge")
    /\ \E r \in First(task[w].todo) :
          /\ served' = [served EXCEPT ![ProcessOf[w]] = Model(w)]
          /\ IF Model(w) # Nothing /\ Compatible(Model(w))
             THEN \E row \in ToJudge({s \in ListRows(q.dataset, r.start, r.end) : s.user = r.user}, r) :
                     Go(w, [task[w] EXCEPT !.step = "score", !.todo = @ \ {r}, !.row = row])
             ELSE Go(w, Idle)   \* 500
    /\ UNCHANGED <<events, rows, baselines, results, file, asked, histVars>>

\* The result of a row: what the forest says is any of Decisions.
Judgement(row, baseline, art, decision) ==
    LET input == Prepared(row, baseline, art)
        risk == RiskScore(decision, art.low, art.high)
    IN [user |-> row.user, window |-> row.window, start |-> row.start, end |-> row.end,
        dataset |-> row.dataset, observed |-> row.features, source |-> input.source,
        model |-> art.id, prediction |-> Prediction(decision), risk |-> risk,
        level |-> RiskLevel(risk), top |-> TopDeviations(input.zscores, 3)]

\* The baseline is read and the row scored.
Score(w) ==
    LET row == task[w].row
        baseline == IF row.user \in DOMAIN baselines THEN baselines[row.user] ELSE Nothing
    IN /\ At(w, "score")
       /\ \E decision \in Decisions :
             Go(w, [task[w] EXCEPT !.step = "store",
                                   !.row = Judgement(row, baseline, served[ProcessOf[w]], decision)])
       /\ UNCHANGED <<events, rows, baselines, results, file, served, asked, histVars>>

\* MongoAnomalyResultStore.upsert: whatever the dataset was.
Store(w) ==
    /\ At(w, "store")
    /\ results' = Put(results, ResultKey(task[w].row), task[w].row)
    /\ Go(w, [task[w] EXCEPT !.step = "judge", !.row = Nothing])
    /\ UNCHANGED <<events, rows, baselines, file, served, asked, histVars>>

\* The next user, or the answer.
NextUser(w) ==
    /\ At(w, "judge")
    /\ task[w].todo = {}
    /\ Go(w, IF task[w].users # {} THEN [task[w] EXCEPT !.step = "list"]
             ELSE [step |-> "answer", q |-> task[w].q, listed |-> task[w].listed])
    /\ UNCHANGED <<events, rows, baselines, results, file, served, asked, histVars>>

Answer(w) ==
    /\ At(w, "answer")
    /\ Go(w, Idle)
    /\ UNCHANGED <<events, rows, baselines, results, file, served, asked, histVars>>

(***************************************************************************)
(* train: the rows are read, and the artifact dumped over the one on disk. *)
(* The processes go on with the model they have.                           *)
(***************************************************************************)
\* Mutant of Dumped: training writes where no server looks.
DumpedElsewhere(new) == file

Dumped(new) == new

ReadTraining(w) ==
    LET q == task[w].q
        found == {r \in OfDataset(q.dataset, AllRows) : r.window = q.window}
    IN /\ At(w, "train")
       /\ IF Cardinality(found) < MinRows
          THEN Go(w, Idle) /\ UNCHANGED file   \* 400
          ELSE \E c \in Calibrations :
                  LET new == Trained(Nothing, found, c)
                  IN /\ file' = Dumped([new EXCEPT !.whole = FALSE])
                     /\ Go(w, [step |-> "dump", new |-> new])
       /\ UNCHANGED <<events, rows, baselines, results, served, asked, histVars>>

\* Trainings are numbered in the order in which they are done.
Dump(w) ==
    /\ At(w, "dump")
    /\ trained' = trained + 1
    /\ file' = Dumped([task[w].new EXCEPT !.id = trained'])
    /\ Go(w, Idle)
    /\ UNCHANGED <<events, rows, baselines, results, served, asked, asOf, rewritten, since>>

(***************************************************************************)
(* export_training_dataset: the rows of the range, of all windows.         *)
(***************************************************************************)
Exported(q) == {r \in ListRows(q.dataset, q.from, q.to) : r.start >= q.from /\ r.end <= q.to}

Export(w) ==
    /\ At(w, "export")
    /\ Go(w, [step |-> "answer", q |-> task[w].q, listed |-> Exported(task[w].q)])
    /\ UNCHANGED <<events, rows, baselines, results, file, served, asked, histVars>>

\* A process stops, and starts without a model; its requests are gone.
Restart(p) ==
    /\ \E w \in Workers : ProcessOf[w] = p /\ task[w] # Idle
    /\ served' = [served EXCEPT ![p] = Nothing]
    /\ task' = [w \in Workers |-> IF ProcessOf[w] = p THEN Idle ELSE task[w]]
    /\ since' = [since EXCEPT ![p] = trained]
    /\ UNCHANGED <<events, rows, baselines, results, file, asked, asOf, rewritten, trained>>

Next ==
    \/ \E e \in Pool : Arrive(e)
    \/ \E w \in Workers :
          \/ \E q \in Menu : Ask(w, q)
          \/ Discover(w)
          \/ MakeRows(w)
          \/ UpsertRow(w)
          \/ Generated(w)
          \/ Profile(w)
          \/ ListUsers(w)
          \/ ListForUser(w)
          \/ Refetch(w)
          \/ Score(w)
          \/ Store(w)
          \/ NextUser(w)
          \/ Answer(w)
          \/ ReadTraining(w)
          \/ Dump(w)
          \/ Export(w)
    \/ \E p \in Processes : Restart(p)

Spec == Init /\ [][Next]_vars

(***************************************************************************)
(* What the feature rows, the results and the models promise.              *)
(***************************************************************************)

\* A feature row counts the events of its own window, of its dataset, that
\* were stored when its run read them, each once: a day never reaches over
\* midnight, and an event that came late or fell on a boundary is neither
\* lost nor counted for two days (_features_daily, iter_daily_windows).  A
\* rolling row is only as good as the range it was asked for: what the range
\* leaves out of its window it does not see (_features_rolling).
RowsTellEvents ==
    \A k \in DOMAIN rows :
        LET r == rows[k]
            inWindow == {e \in asOf[k].events : r.start <= e.at /\ e.at < r.end}
        IN /\ r.window = "daily" => r.end - 1 <= 2 * (r.start \div 2) + 1
           /\ \A e \in asOf[k].events : e.user = r.user /\ (r.dataset = "all" \/ e.dataset = r.dataset)
           /\ r.count = Cardinality(inWindow)
           /\ asOf[k].start <= r.start => r.features["total_activity_count"] = Cardinality(inWindow)
           /\ r.features["external_email_count"] <= r.count
           /\ r.features["unique_active_hours"] = Cardinality({e.at % 2 : e \in inWindow})

\* When a detection answers, every day with activity that it listed has a
\* result, of that kind of window, whatever else was generated meanwhile and
\* whatever other windows start at the same instant (detect_for_user).
BusyRowsJudged ==
    \A w \in Workers :
        At(w, "answer") /\ task[w].q.kind = "detect"
            => \A r \in task[w].listed :
                   ResultKey(r) \in DOMAIN results /\ results[ResultKey(r)].window = r.window

\* No result is about a day without activity: those are not judged, since they
\* look like nothing the model was trained on (detect_for_user).  Not so where
\* two datasets have rows of the same day, as the one that is judged need not
\* be the one that was listed, nor for a row that has been rewritten meanwhile.
EmptyDaysSkipped ==
    \A k \in DOMAIN results :
        results[k].observed["total_activity_count"] = 0
            => \/ \E r, s \in AllRows : r # s /\ ResultKey(r) = k /\ ResultKey(s) = k
               \/ \E r \in rewritten : <<r[1], r[2], r[3]>> = k

\* A result is LOW exactly when the forest calls the day normal, for every
\* calibration an artifact may come with, old or new (risk_scoring).
LevelFollowsVerdict ==
    \A k \in DOMAIN results :
        /\ results[k].level = "LOW" <=> results[k].prediction = "normal"
        /\ results[k].risk \in Risks

\* A process serves no model older than the newest that had been trained when
\* it started: training writes where serving reads (DEFAULT_OUTPUT_PATH).
RestartServesTrained ==
    \A p \in Processes : served[p] # Nothing => served[p].id >= since[p]
=============================================================================
