-------------------------- MODULE Behaviour_proofs --------------------------
(***************************************************************************)
(* Whatever the forest decides and an artifact was calibrated to, a result *)
(* is LOW exactly when the day is normal (LevelFollowsVerdict); and a      *)
(* process that starts serves nothing older than the newest training       *)
(* (RestartServesTrained), in however many processes and requests.         *)
(*                                                                         *)
(* A second invariant follows the rows: a row counts the events that its   *)
(* run was given (RowsTellEvents), a detection gives every busy day that   *)
(* it listed a result (BusyRowsJudged), and an empty day gets none unless  *)
(* a row was doubled or rewritten under it (EmptyDaysSkipped).             *)
(***************************************************************************)
EXTENDS Behaviour, FiniteSetTheorems, TLAPS

-----------------------------------------------------------------------------
(* The arithmetic of risk_scoring.                                         *)

(* Rounding a quotient stays within the bound of what is divided. *)
LEMMA RoundedWithin ==
  ASSUME NEW x \in Nat, NEW y \in Nat, y > 0, NEW k \in Nat, x <= k * y
  PROVE  Rounded(x, y) \in 0..k
<1> DEFINE n == 2 * x + y
           z == 2 * y
           q == n \div z
           r == n % z
<1>1. n \in Nat /\ z \in Nat /\ z > 0
  OBVIOUS
<1> HIDE DEF n, z
<1>2. q \in Int /\ r \in 0..(z - 1) /\ n = z * q + r
  BY <1>1
<1> HIDE DEF q, r
<1>3. q >= 0
  <2> SUFFICES ASSUME q <= -1 PROVE FALSE
    BY <1>2
  <2>1. z * q <= -z
    BY <1>1, <1>2
  <2> QED
    BY <1>1, <1>2, <2>1
<1>4. q <= k
  <2> SUFFICES ASSUME q >= k + 1 PROVE FALSE
    BY <1>2
  <2>1. z * q >= z * (k + 1)
    BY <1>1, <1>2
  <2>2. z * (k + 1) = 2 * (k * y) + 2 * y
    BY DEF z
  <2>3. n <= 2 * (k * y) + y
    BY DEF n
  <2>4. k * y \in Int
    OBVIOUS
  <2> QED
    BY <1>1, <1>2, <2>1, <2>2, <2>3, <2>4
<1>5. Rounded(x, y) = q
  BY DEF Rounded, q, n, z
<1> QED
  BY <1>2, <1>3, <1>4, <1>5

LEMMA SpanPositive ==
  ASSUME NEW a \in Int, NEW b \in Int
  PROVE  Span(a, b) \in Nat /\ Span(a, b) > 0
<1> DEFINE S == {Magnitude(b), 1}
<1>1. Magnitude(b) \in Nat
  BY DEF Magnitude
<1>2. \E x \in S : \A y \in S : x >= y
  BY <1>1
<1>3. Max(S) \in S /\ Max(S) >= 1
  BY <1>1, <1>2 DEF Max
<1> QED
  BY <1>1, <1>3 DEF Span

(* The scores of normal days and those of anomalies. *)
NormalTop == Floor - 10
AnomalyTop == MaxRisk - Floor
NormalScores == {r \in Int : 0 <= r /\ r <= NormalTop}
AnomalyScores == {r \in Int : Floor <= r /\ r <= MaxRisk}

LEMMA InRange ==
  ASSUME NEW n \in Nat, NEW q \in 0..n
  PROVE  q \in Int /\ 0 <= q /\ q <= n
OBVIOUS

LEMMA NormalBelow ==
  ASSUME NEW d \in Int, d >= 0, NEW s \in Nat, s > 0
  PROVE  NormalRisk(d, s) \in NormalScores
<1> DEFINE m == Min2(d, s)
           x == (Floor - 10) * (s - m)
<1>1. m \in 0..s
  BY DEF Min2
<1> HIDE DEF m
<1>2. x \in Nat /\ x <= NormalTop * s
  BY <1>1 DEF Floor, NormalTop
<1>3. NormalTop \in Nat
  BY DEF Floor, NormalTop
<1> HIDE DEF x
<1>4. Rounded(x, s) \in 0..NormalTop
  BY <1>2, <1>3, RoundedWithin, Zenon
<1>5. NormalRisk(d, s) = Rounded(x, s)
  BY Zenon DEF NormalRisk, x, m
<1>6. Rounded(x, s) \in Int /\ 0 <= Rounded(x, s) /\ Rounded(x, s) <= NormalTop
  BY <1>3, <1>4, InRange, Zenon
<1> QED
  BY <1>5, <1>6, Zenon DEF NormalScores

LEMMA AboveFloor ==
  ASSUME NEW q \in Int, 0 <= q, q <= AnomalyTop
  PROVE  Floor + q \in AnomalyScores
BY DEF AnomalyTop, AnomalyScores, Floor, MaxRisk

LEMMA AnomalyAbove ==
  ASSUME NEW d \in Int, d < 0, NEW s \in Nat, s > 0
  PROVE  AnomalyRisk(d, s) \in AnomalyScores
<1> DEFINE m == Min2(-d, s)
           x == (MaxRisk - Floor) * m
<1>1. m \in 0..s
  BY DEF Min2
<1> HIDE DEF m
<1>2. x \in Nat /\ x <= AnomalyTop * s
  BY <1>1 DEF Floor, MaxRisk, AnomalyTop
<1>3. AnomalyTop \in Nat
  BY DEF Floor, MaxRisk, AnomalyTop
<1>4. AnomalyRisk(d, s) = Floor + Rounded(x, s)
  BY DEF AnomalyRisk, x, m
<1> HIDE DEF x
<1>5. Rounded(x, s) \in 0..AnomalyTop
  BY <1>2, <1>3, RoundedWithin, Zenon
<1>6. Rounded(x, s) \in Int /\ 0 <= Rounded(x, s) /\ Rounded(x, s) <= AnomalyTop
  BY <1>3, <1>5, InRange, Zenon
<1> QED
  BY <1>4, <1>6, AboveFloor, Zenon

(* A normal day stays below the floor that an anomaly starts from. *)
LEMMA RiskFollowsDecision ==
  ASSUME NEW d \in Int, NEW low \in Int, NEW high \in Int
  PROVE  RiskScore(d, low, high) \in IF d >= 0 THEN NormalScores ELSE AnomalyScores
<1>1. CASE d >= 0
  <2>1. Span(high, low) \in Nat /\ Span(high, low) > 0
    BY SpanPositive, Zenon
  <2>2. RiskScore(d, low, high) = NormalRisk(d, Span(high, low))
    BY <1>1, Zenon DEF RiskScore
  <2>3. NormalRisk(d, Span(high, low)) \in NormalScores
    BY <1>1, <2>1, NormalBelow, Zenon
  <2> QED
    BY <1>1, <2>2, <2>3, Zenon
<1>2. CASE d < 0
  <2>1. -low \in Int
    OBVIOUS
  <2>2. Span(-low, high) \in Nat /\ Span(-low, high) > 0
    BY <2>1, SpanPositive, Zenon
  <2>3. AnomalyRisk(d, Span(-low, high)) \in AnomalyScores
    BY <1>2, <2>2, AnomalyAbove, Zenon
  <2>4. ~(d >= 0)
    BY <1>2
  <2>5. RiskScore(d, low, high) = AnomalyRisk(d, Span(-low, high))
    BY <2>4, Zenon DEF RiskScore
  <2> QED
    BY <2>3, <2>4, <2>5, Zenon
<1> QED
  BY <1>1, <1>2

LEMMA InRisks ==
  ASSUME NEW r \in Int, 0 <= r, r <= MaxRisk
  PROVE  r \in Risks
<1>1. MaxRisk \in Nat
  BY DEF MaxRisk
<1> QED
  BY <1>1 DEF Risks

LEMMA BelowThresholds ==
  ASSUME NEW r \in NormalScores
  PROVE  ~(r >= Critical) /\ ~(r >= High) /\ ~(r >= Floor) /\ r \in Risks
<1>1. r \in Int /\ 0 <= r /\ r <= MaxRisk
  BY DEF NormalScores, NormalTop, Floor, MaxRisk
<1>2. r \in Risks
  BY <1>1, InRisks, Zenon
<1>3. ~(r >= Critical) /\ ~(r >= High) /\ ~(r >= Floor)
  BY DEF NormalScores, NormalTop, Critical, High, Floor
<1> QED
  BY <1>2, <1>3

LEMMA FromFloor ==
  ASSUME NEW r \in AnomalyScores
  PROVE  r >= Floor /\ r \in Risks
<1>1. r \in Int /\ 0 <= r /\ r <= MaxRisk /\ r >= Floor
  BY DEF AnomalyScores, Floor, MaxRisk
<1> QED
  BY <1>1, InRisks, Zenon

LEMMA LevelOfScore ==
  /\ \A r \in NormalScores : RiskLevel(r) = "LOW" /\ r \in Risks
  /\ \A r \in AnomalyScores : RiskLevel(r) # "LOW" /\ r \in Risks
<1>1. ASSUME NEW r \in NormalScores PROVE RiskLevel(r) = "LOW"
  BY BelowThresholds, Zenon DEF RiskLevel
<1>2. ASSUME NEW r \in AnomalyScores PROVE RiskLevel(r) # "LOW"
  <2>1. r >= Floor
    BY FromFloor, Zenon
  <2>2. CASE r >= Critical
    BY <2>2, Zenon DEF RiskLevel
  <2>3. CASE ~(r >= Critical) /\ r >= High
    BY <2>3, Zenon DEF RiskLevel
  <2>4. CASE ~(r >= Critical) /\ ~(r >= High)
    BY <2>1, <2>4, Zenon DEF RiskLevel
  <2> QED
    BY <2>2, <2>3, <2>4, Zenon
<1>3. ASSUME NEW r \in NormalScores PROVE r \in Risks
  BY BelowThresholds, Zenon
<1>4. ASSUME NEW r \in AnomalyScores PROVE r \in Risks
  BY FromFloor, Zenon
<1> QED
  BY <1>1, <1>2, <1>3, <1>4, Zenon

-----------------------------------------------------------------------------
(* The artifacts, the tasks and the results, in every state.               *)

Sound(r) == (r.level = "LOW" <=> r.prediction = "normal") /\ r.risk \in Risks

\* An artifact as it is on disk: a whole one is the newest training.
OnDisk(f) == Calibrated(f) /\ f.offset \in Int /\ "id" \in DOMAIN f

\* A process has no model older than the trainings it started after.
Newer(art, n) == Calibrated(art) /\ art.id \in Nat /\ art.id >= n

TaskOK(t, art) ==
    /\ "step" \in DOMAIN t
    /\ t.step \in {"list", "judge", "score", "store"} => "row" \in DOMAIN t
    /\ t.step = "score" => art # Nothing
    /\ t.step = "store" => Sound(t.row)
    /\ t.step = "dump" => OnDisk(t.new)

FileInv == file # Nothing => OnDisk(file) /\ (file.whole => file.id = trained)
CountInv ==
    /\ trained \in Nat
    /\ DOMAIN since = Processes
    /\ \A p \in Processes : since[p] \in Nat /\ since[p] <= trained
ServedInv ==
    /\ DOMAIN served = Processes
    /\ \A p \in Processes : served[p] # Nothing => Newer(served[p], since[p])
TaskInv == DOMAIN task = Workers /\ \A w \in Workers : TaskOK(task[w], served[ProcessOf[w]])
ResultInv == \A k \in DOMAIN results : Sound(results[k])

IInv == FileInv /\ CountInv /\ ServedInv /\ TaskInv /\ ResultInv

LEMMA InitInv == Init => IInv
<1> SUFFICES ASSUME Init PROVE IInv
  OBVIOUS
<1>1. FileInv
  BY ShippedAssumption DEF Init, FileInv, OnDisk, Calibrated
<1>2. CountInv
  BY DEF Init, CountInv
<1>3. ServedInv
  BY DEF Init, ServedInv
<1>4. TaskInv
  BY DEF Init, TaskInv, TaskOK, Idle
<1>5. ResultInv
  BY DEF Init, ResultInv
<1> QED
  BY <1>1, <1>2, <1>3, <1>4, <1>5 DEF IInv

(* A step that changes the task of one worker, and no artifact. *)
LEMMA OneTask ==
  ASSUME TaskInv, NEW w \in Workers, NEW t, Go(w, t), TaskOK(t, served[ProcessOf[w]]),
         UNCHANGED served
  PROVE  TaskInv'
BY DEF TaskInv, Go, TaskOK

LEMMA Untouched ==
  ASSUME IInv, UNCHANGED <<results, file, served, trained, since>>, TaskInv'
  PROVE  IInv'
BY DEF IInv, FileInv, CountInv, ServedInv, ResultInv

(* What a process gets when it asks for its model. *)
LEMMA ModelNewer ==
  ASSUME IInv, NEW w \in Workers, Model(w) # Nothing
  PROVE  Newer(Model(w), since[ProcessOf[w]])
<1> DEFINE p == ProcessOf[w]
<1>1. p \in Processes
  BY DEF Processes
<1>2. CASE served[p] # Nothing
  BY <1>1, <1>2, Zenon DEF IInv, ServedInv, Model
<1>3. CASE served[p] = Nothing
  <2>1. Loadable(file) /\ Model(w) = Load(file)
    BY <1>3, Zenon DEF Model
  <2>2. file # Nothing /\ file.whole
    BY <2>1, Zenon DEF Loadable
  <2>3. OnDisk(file) /\ file.id = trained
    BY <2>2 DEF IInv, FileInv
  <2>4. Shift(file) \in Int
    BY <2>3 DEF Shift, OnDisk
  <2> DEFINE s == Shift(file)
             art == [file EXCEPT !.low = file.low - s, !.high = file.high - s]
  <2> HIDE DEF s
  <2>5. Calibrated(art) /\ art.id = trained
    BY <2>3, <2>4 DEF OnDisk, Calibrated, s
  <2>6. trained \in Nat /\ trained >= since[p]
    BY <1>1 DEF IInv, CountInv
  <2>7. Load(file) = art
    BY Zenon DEF Load, s
  <2> QED
    BY <2>1, <2>5, <2>6, <2>7 DEF Newer
<1> QED
  BY <1>2, <1>3

(* The result of any row, under any calibrated model. *)
LEMMA JudgementSound ==
  ASSUME NEW row, NEW baseline, NEW art, Calibrated(art), NEW d \in Int
  PROVE  Sound(Judgement(row, baseline, art, d))
<1> DEFINE j == Judgement(row, baseline, art, d)
           risk == RiskScore(d, art.low, art.high)
<1>1. art.low \in Int /\ art.high \in Int
  BY DEF Calibrated
<1>2. risk \in IF d >= 0 THEN NormalScores ELSE AnomalyScores
  BY <1>1, RiskFollowsDecision, Zenon
<1>3. j.level = RiskLevel(risk) /\ j.prediction = Prediction(d) /\ j.risk = risk
  BY DEF Judgement
<1> HIDE DEF risk, j
<1>4. CASE d >= 0
  <2>1. ~(d < 0)
    BY <1>4
  <2>2. Prediction(d) = "normal"
    BY <2>1, Zenon DEF Prediction
  <2>3. RiskLevel(risk) = "LOW" /\ risk \in Risks
    BY <1>2, <1>4, LevelOfScore, Zenon
  <2> QED
    BY <1>3, <2>2, <2>3, Zenon DEF Sound, j
<1>5. CASE ~(d >= 0)
  <2>1. d < 0
    BY <1>5
  <2>2. Prediction(d) = "anomaly"
    BY <2>1, Zenon DEF Prediction
  <2>3. RiskLevel(risk) # "LOW" /\ risk \in Risks
    BY <1>2, <1>5, LevelOfScore, Zenon
  <2>4. "anomaly" # "normal"
    OBVIOUS
  <2> QED
    BY <1>3, <2>2, <2>3, <2>4, Zenon DEF Sound, j
<1> QED
  BY <1>4, <1>5

-----------------------------------------------------------------------------
(* Every step keeps the invariant.                                         *)

LEMMA IdleOK == \A art : TaskOK(Idle, art)
BY DEF TaskOK, Idle

(* A worker that goes on with a task that carries no artifact and no result. *)
LEMMA PlainStep ==
  ASSUME IInv, NEW w \in Workers, NEW t, Go(w, t),
         UNCHANGED <<results, file, served, trained, since>>,
         "step" \in DOMAIN t, t.step \notin {"score", "store", "dump"},
         t.step \in {"list", "judge"} => "row" \in DOMAIN t
  PROVE  IInv'
<1>1. TaskOK(t, served[ProcessOf[w]])
  BY DEF TaskOK
<1> QED
  BY <1>1, OneTask, Untouched DEF IInv

LEMMA AskKeeps ==
  ASSUME IInv, NEW w \in Workers, NEW q \in Menu, Ask(w, q)
  PROVE  IInv'
<1> DEFINE t == [step |-> q.kind, q |-> q]
<1>1. Go(w, t) /\ UNCHANGED <<results, file, served, trained, since>>
  BY DEF Ask, histVars
<1>2. "step" \in DOMAIN t /\ t.step \in {"generate", "profile", "detect", "train", "export"}
  BY MenuAssumption
<1> HIDE DEF t
<1> QED
  BY <1>1, <1>2, PlainStep

LEMMA GenerationKeeps ==
  ASSUME IInv, NEW w \in Workers, Discover(w) \/ MakeRows(w) \/ UpsertRow(w) \/ Generated(w)
  PROVE  IInv'
<1>1. "step" \in DOMAIN task[w]
  BY DEF IInv, TaskInv, TaskOK
<1>2. CASE Discover(w)
  <2> PICK t : Go(w, t) /\ "step" \in DOMAIN t /\ t.step = "find"
    BY <1>2 DEF Discover
  <2> QED
    BY <1>2, PlainStep DEF Discover, histVars
<1>3. CASE MakeRows(w)
  <2>0. At(w, "find") /\ UNCHANGED <<events, rows, baselines, results, file, served, asked, histVars>>
    BY <1>3, Zenon DEF MakeRows
  <2>1. task[w].step = "find" /\ UNCHANGED <<results, file, served, trained, since>>
    BY <2>0, Zenon DEF At, histVars
  <2>2. PICK u, n : Go(w, [task[w] EXCEPT !.users = @ \ {u}, !.made = @ \cup n])
    BY <1>3, Zenon DEF MakeRows
  <2> DEFINE t == [task[w] EXCEPT !.users = @ \ {u}, !.made = @ \cup n]
  <2>3. "step" \in DOMAIN t /\ t.step = "find"
    BY <1>1, <2>1
  <2> HIDE DEF t
  <2> QED
    BY <2>1, <2>2, <2>3, PlainStep DEF t
<1>4. CASE UpsertRow(w)
  <2>1. task[w].step = "find" /\ UNCHANGED <<results, file, served, trained, since>>
    BY <1>4 DEF UpsertRow, At
  <2>2. PICK m : Go(w, [task[w] EXCEPT !.made = @ \ {m}])
    BY <1>4, Zenon DEF UpsertRow
  <2> DEFINE t == [task[w] EXCEPT !.made = @ \ {m}]
  <2>3. "step" \in DOMAIN t /\ t.step = "find"
    BY <1>1, <2>1
  <2> HIDE DEF t
  <2> QED
    BY <2>1, <2>2, <2>3, PlainStep DEF t
<1>5. CASE Generated(w)
  BY <1>5, PlainStep DEF Generated, Idle, histVars
<1> QED
  BY <1>2, <1>3, <1>4, <1>5

LEMMA ProfileKeeps ==
  ASSUME IInv, NEW w \in Workers, Profile(w)
  PROVE  IInv'
<1>1. Go(w, Idle) /\ UNCHANGED <<results, file, served, trained, since>>
  BY DEF Profile, histVars
<1> QED
  BY <1>1, PlainStep DEF Idle

LEMMA ListingKeeps ==
  ASSUME IInv, NEW w \in Workers, ListUsers(w) \/ ListForUser(w) \/ NextUser(w)
  PROVE  IInv'
<1>1. "step" \in DOMAIN task[w] /\ (task[w].step \in {"list", "judge"} => "row" \in DOMAIN task[w])
  BY DEF IInv, TaskInv, TaskOK
<1>2. CASE ListUsers(w)
  <2>1. UNCHANGED <<results, file, served, trained, since>>
    BY <1>2 DEF ListUsers, histVars
  <2>2. PICK u : Go(w, [step |-> "list", q |-> task[w].q, listed |-> {}, todo |-> {},
                        row |-> Nothing, users |-> u])
    BY <1>2, Zenon DEF ListUsers
  <2> DEFINE t == [step |-> "list", q |-> task[w].q, listed |-> {}, todo |-> {},
                   row |-> Nothing, users |-> u]
  <2>3. {"step", "row"} \subseteq DOMAIN t /\ t.step = "list"
    OBVIOUS
  <2> HIDE DEF t
  <2> QED
    BY <2>1, <2>2, <2>3, PlainStep DEF t
<1>3. CASE ListForUser(w)
  <2>0. At(w, "list") /\ UNCHANGED <<events, rows, baselines, results, file, served, asked, histVars>>
    BY <1>3, Zenon DEF ListForUser
  <2>1. task[w].step = "list" /\ UNCHANGED <<results, file, served, trained, since>>
    BY <2>0, Zenon DEF At, histVars
  <2>2. PICK u, b : Go(w, [task[w] EXCEPT !.step = "judge", !.users = @ \ {u}, !.todo = b,
                                          !.listed = @ \cup b])
    BY <1>3, Zenon DEF ListForUser
  <2> DEFINE t == [task[w] EXCEPT !.step = "judge", !.users = @ \ {u}, !.todo = b,
                                  !.listed = @ \cup b]
  <2>3. {"step", "row"} \subseteq DOMAIN t /\ t.step = "judge"
    BY <1>1, <2>1
  <2> HIDE DEF t
  <2> QED
    BY <2>1, <2>2, <2>3, PlainStep DEF t
<1>4. CASE NextUser(w)
  <2>1. task[w].step = "judge" /\ UNCHANGED <<results, file, served, trained, since>>
    BY <1>4 DEF NextUser, At, histVars
  <2>2. CASE task[w].users # {}
    <3> DEFINE t == [task[w] EXCEPT !.step = "list"]
    <3>1. {"step", "row"} \subseteq DOMAIN t /\ t.step = "list"
      BY <1>1, <2>1
    <3>2. Go(w, t)
      BY <1>4, <2>2, Zenon DEF NextUser
    <3> HIDE DEF t
    <3> QED
      BY <2>1, <3>1, <3>2, PlainStep
  <2>3. CASE ~(task[w].users # {})
    <3> DEFINE t == [step |-> "answer", q |-> task[w].q, listed |-> task[w].listed]
    <3>1. "step" \in DOMAIN t /\ t.step = "answer"
      OBVIOUS
    <3>2. Go(w, t)
      BY <1>4, <2>3, Zenon DEF NextUser
    <3> HIDE DEF t
    <3> QED
      BY <2>1, <3>1, <3>2, PlainStep
  <2> QED
    BY <2>2, <2>3
<1> QED
  BY <1>2, <1>3, <1>4

(* The process has a model now, if it had none. *)
LEMMA RefetchKeeps ==
  ASSUME IInv, NEW w \in Workers, Refetch(w)
  PROVE  IInv'
<1> DEFINE p == ProcessOf[w]
<1>0. At(w, "judge") /\ served' = [served EXCEPT ![p] = Model(w)]
      /\ UNCHANGED <<events, rows, baselines, results, file, asked, histVars>>
  BY Zenon DEF Refetch
<1>1. p \in Processes
  BY DEF Processes
<1>2. UNCHANGED <<results, file, trained, since>>
  BY <1>0, Zenon DEF histVars
<1>3. "step" \in DOMAIN task[w] /\ "row" \in DOMAIN task[w]
  <2>1. task[w].step = "judge"
    BY <1>0, Zenon DEF At
  <2> QED
    BY <2>1 DEF IInv, TaskInv, TaskOK
<1> DEFINE art == Model(w)
<1>4. art # Nothing => Newer(art, since[p])
  BY ModelNewer, Zenon
<1>5. served[p] # Nothing => art # Nothing
  BY Zenon DEF Model
<1>6. PICK t : Go(w, t) /\ TaskOK(t, art)
  <2>1. CASE art # Nothing /\ Compatible(art)
    <3>1. PICK todo, row :
             Go(w, [task[w] EXCEPT !.step = "score", !.todo = todo, !.row = row])
      BY <2>1, Zenon DEF Refetch
    <3> DEFINE u == [task[w] EXCEPT !.step = "score", !.todo = todo, !.row = row]
    <3>2. TaskOK(u, art)
      <4> HIDE DEF art
      <4> QED
        BY <1>3, <2>1 DEF TaskOK
    <3> HIDE DEF u
    <3> QED
      BY <3>1, <3>2, Zenon DEF u
  <2>2. CASE ~(art # Nothing /\ Compatible(art))
    BY <2>2, IdleOK, Zenon DEF Refetch
  <2> QED
    BY <2>1, <2>2, Zenon
<1>8. served' = [served EXCEPT ![p] = art]
  BY <1>0, Zenon
<1> HIDE DEF art
<1>9. ServedInv'
  BY <1>1, <1>2, <1>4, <1>8 DEF IInv, ServedInv
<1>7. TaskInv'
  <2> SUFFICES ASSUME NEW v \in Workers PROVE TaskOK(task'[v], served'[ProcessOf[v]])
    BY <1>6 DEF IInv, TaskInv, Go
  <2>1. CASE v = w
    BY <1>1, <1>6, <1>8, <2>1 DEF IInv, TaskInv, ServedInv, Go
  <2>2. CASE v # w
    <3>1. TaskOK(task[v], served[ProcessOf[v]]) /\ task'[v] = task[v]
      BY <1>6, <2>2 DEF IInv, TaskInv, Go
    <3>2. served[ProcessOf[v]] # Nothing => served'[ProcessOf[v]] # Nothing
      BY <1>1, <1>5, <1>8 DEF IInv, ServedInv, Processes
    <3> QED
      BY <3>1, <3>2 DEF TaskOK
  <2> QED
    BY <2>1, <2>2
<1> QED
  BY <1>2, <1>7, <1>9 DEF IInv, FileInv, CountInv, ResultInv

LEMMA ScoreKeeps ==
  ASSUME IInv, NEW w \in Workers, Score(w)
  PROVE  IInv'
<1> DEFINE p == ProcessOf[w]
<1>1. {"step", "row"} \subseteq DOMAIN task[w] /\ served[p] # Nothing
  BY DEF Score, At, IInv, TaskInv, TaskOK
<1>2. Calibrated(served[p])
  BY <1>1 DEF IInv, ServedInv, Newer, Processes
<1>3. PICK j : Sound(j) /\ Go(w, [task[w] EXCEPT !.step = "store", !.row = j])
  <2>1. PICK baseline, d : d \in Decisions
           /\ Go(w, [task[w] EXCEPT !.step = "store",
                                    !.row = Judgement(task[w].row, baseline, served[p], d)])
    BY Zenon DEF Score
  <2>2. d \in Int
    BY <2>1, ShippedAssumption
  <2>3. Sound(Judgement(task[w].row, baseline, served[p], d))
    BY <1>2, <2>2, JudgementSound, Zenon
  <2> QED
    BY <2>1, <2>3, Zenon
<1> DEFINE t == [task[w] EXCEPT !.step = "store", !.row = j]
<1>4. TaskOK(t, served[p])
  BY <1>1, <1>3 DEF TaskOK
<1> HIDE DEF t
<1>5. Go(w, t) /\ UNCHANGED <<results, file, served, trained, since>>
  BY <1>3 DEF Score, histVars, t
<1> QED
  BY <1>4, <1>5, OneTask, Untouched DEF IInv

LEMMA StoreKeeps ==
  ASSUME IInv, NEW w \in Workers, Store(w)
  PROVE  IInv'
<1> DEFINE t == [task[w] EXCEPT !.step = "judge", !.row = Nothing]
<1>1. {"step", "row"} \subseteq DOMAIN task[w] /\ Sound(task[w].row)
  BY DEF Store, At, IInv, TaskInv, TaskOK
<1>2. TaskOK(t, served[ProcessOf[w]])
  BY <1>1 DEF TaskOK
<1> HIDE DEF t
<1>3. Go(w, t) /\ UNCHANGED <<file, served, trained, since>>
  BY DEF Store, histVars, t
<1>4. TaskInv'
  BY <1>2, <1>3, OneTask DEF IInv
<1>5. ResultInv'
  BY <1>1 DEF Store, Put, IInv, ResultInv
<1> QED
  BY <1>3, <1>4, <1>5 DEF IInv, FileInv, CountInv, ServedInv

LEMMA AnswerKeeps ==
  ASSUME IInv, NEW w \in Workers, Answer(w) \/ Export(w)
  PROVE  IInv'
<1>1. CASE Answer(w)
  BY <1>1, PlainStep DEF Answer, Idle, histVars
<1>2. CASE Export(w)
  <2> PICK t : Go(w, t) /\ "step" \in DOMAIN t /\ t.step = "answer"
    BY <1>2 DEF Export
  <2> QED
    BY <1>2, PlainStep DEF Export, histVars
<1> QED
  BY <1>1, <1>2

LEMMA TrainedOnDisk ==
  ASSUME NEW id, NEW found, NEW c, Calibrated(c)
  PROVE  OnDisk(Trained(id, found, c))
BY DEF Trained, OnDisk, Calibrated

LEMMA ReadTrainingKeeps ==
  ASSUME IInv, NEW w \in Workers, ReadTraining(w)
  PROVE  IInv'
<1>1. CASE Go(w, Idle) /\ UNCHANGED file
  BY <1>1, PlainStep DEF ReadTraining, Idle, histVars
<1>2. ASSUME NEW new, OnDisk(new), file' = [new EXCEPT !.whole = FALSE],
             Go(w, [step |-> "dump", new |-> new])
      PROVE  IInv'
  <2>1. TaskOK([step |-> "dump", new |-> new], served[ProcessOf[w]])
    BY <1>2 DEF TaskOK
  <2>2. UNCHANGED <<results, served, trained, since>>
    BY DEF ReadTraining, histVars
  <2>3. TaskInv'
    BY <1>2, <2>1, <2>2, OneTask DEF IInv
  <2>4. FileInv'
    BY <1>2 DEF FileInv, OnDisk, Calibrated
  <2> QED
    BY <2>2, <2>3, <2>4 DEF IInv, CountInv, ServedInv, ResultInv
<1> QED
  BY <1>1, <1>2, TrainedOnDisk, ShippedAssumption DEF ReadTraining, Dumped

LEMMA DumpKeeps ==
  ASSUME IInv, NEW w \in Workers, Dump(w)
  PROVE  IInv'
<1>1. OnDisk(task[w].new)
  BY DEF Dump, At, IInv, TaskInv, TaskOK
<1>2. Go(w, Idle) /\ UNCHANGED <<results, served, since>>
  BY DEF Dump
<1>3. TaskInv'
  BY <1>2, IdleOK, OneTask DEF IInv
<1>4. trained' = trained + 1 /\ file' = [task[w].new EXCEPT !.id = trained']
  BY DEF Dump, Dumped
<1>5. FileInv'
  BY <1>1, <1>4 DEF FileInv, OnDisk, Calibrated
<1>6. CountInv'
  BY <1>2, <1>4 DEF IInv, CountInv
<1> QED
  BY <1>2, <1>3, <1>5, <1>6 DEF IInv, ServedInv, ResultInv

LEMMA RestartKeeps ==
  ASSUME IInv, NEW p \in Processes, Restart(p)
  PROVE  IInv'
<1>1. UNCHANGED <<results, file, trained>> /\ served' = [served EXCEPT ![p] = Nothing]
      /\ since' = [since EXCEPT ![p] = trained]
      /\ task' = [w \in Workers |-> IF ProcessOf[w] = p THEN Idle ELSE task[w]]
  BY DEF Restart
<1>2. CountInv'
  BY <1>1 DEF IInv, CountInv
<1>3. ServedInv'
  BY <1>1 DEF IInv, ServedInv, CountInv
<1>4. TaskInv'
  <2> SUFFICES ASSUME NEW w \in Workers PROVE TaskOK(task'[w], served'[ProcessOf[w]])
    BY <1>1 DEF TaskInv
  <2>1. CASE ProcessOf[w] = p
    BY <1>1, <2>1, IdleOK
  <2>2. CASE ProcessOf[w] # p
    <3>1. ProcessOf[w] \in Processes
      BY DEF Processes
    <3> QED
      BY <1>1, <2>2, <3>1 DEF IInv, TaskInv, ServedInv
  <2> QED
    BY <2>1, <2>2
<1> QED
  BY <1>1, <1>2, <1>3, <1>4 DEF IInv, FileInv, ResultInv

LEMMA StepInv == IInv /\ [Next]_vars => IInv'
<1> SUFFICES ASSUME IInv, [Next]_vars PROVE IInv'
  OBVIOUS
<1>1. ASSUME NEW e \in Pool, Arrive(e) PROVE IInv'
  BY <1>1 DEF Arrive, histVars, IInv, FileInv, CountInv, ServedInv, TaskInv, ResultInv
<1>2. ASSUME NEW w \in Workers, NEW q \in Menu, Ask(w, q) PROVE IInv'
  BY <1>2, AskKeeps
<1>3. ASSUME NEW w \in Workers, Discover(w) \/ MakeRows(w) \/ UpsertRow(w) \/ Generated(w) PROVE IInv'
  BY <1>3, GenerationKeeps
<1>4. ASSUME NEW w \in Workers, Profile(w) PROVE IInv'
  BY <1>4, ProfileKeeps
<1>5. ASSUME NEW w \in Workers, ListUsers(w) \/ ListForUser(w) \/ NextUser(w) PROVE IInv'
  BY <1>5, ListingKeeps
<1>6. ASSUME NEW w \in Workers, Refetch(w) PROVE IInv'
  BY <1>6, RefetchKeeps
<1>7. ASSUME NEW w \in Workers, Score(w) PROVE IInv'
  BY <1>7, ScoreKeeps
<1>8. ASSUME NEW w \in Workers, Store(w) PROVE IInv'
  BY <1>8, StoreKeeps
<1>9. ASSUME NEW w \in Workers, Answer(w) \/ Export(w) PROVE IInv'
  BY <1>9, AnswerKeeps
<1>10. ASSUME NEW w \in Workers, ReadTraining(w) PROVE IInv'
  BY <1>10, ReadTrainingKeeps
<1>11. ASSUME NEW w \in Workers, Dump(w) PROVE IInv'
  BY <1>11, DumpKeeps
<1>12. ASSUME NEW p \in Processes, Restart(p) PROVE IInv'
  BY <1>12, RestartKeeps
<1>13. CASE UNCHANGED vars
  BY <1>13 DEF vars, histVars, IInv, FileInv, CountInv, ServedInv, TaskInv, ResultInv
<1> QED
  BY <1>1, <1>2, <1>3, <1>4, <1>5, <1>6, <1>7, <1>8, <1>9, <1>10, <1>11, <1>12, <1>13, Zenon DEF Next

-----------------------------------------------------------------------------
(* Whatever is requested, and whatever artifacts were shipped or trained,  *)
(* the invariant holds (ModelService, ModelTrainingService,                *)
(* AnomalyDetectionService).                                               *)
THEOREM Invariance == Spec => []IInv
BY InitInv, StepInv, PTL DEF Spec

(* For every calibration and every decision score, no anomaly is LOW and   *)
(* every normal day is, in every stored result (risk_score_from_decision,  *)
(* classify_risk_level).                                                   *)
THEOREM LevelsAreSound == Spec => []LevelFollowsVerdict
<1>1. IInv => LevelFollowsVerdict
  BY DEF IInv, ResultInv, Sound, LevelFollowsVerdict
<1> QED
  BY <1>1, Invariance, PTL

(* With any number of processes and trainings, a process serves no model   *)
(* older than the newest that had been trained when it started.            *)
THEOREM NewestIsServed == Spec => []RestartServesTrained
<1>1. IInv => RestartServesTrained
  BY DEF IInv, ServedInv, Newer, RestartServesTrained
<1> QED
  BY <1>1, Invariance, PTL

-----------------------------------------------------------------------------
(* The rows a generation makes.                                            *)

Total(f) == f["total_activity_count"]

Tells(r, from) ==
    LET inWindow == Within(from.events, r.start, r.end)
    IN /\ r.window = "daily" => r.end - 1 <= 2 * (r.start \div 2) + 1
       /\ \A e \in from.events : e.user = r.user /\ (r.dataset = "all" \/ e.dataset = r.dataset)
       /\ r.count = Cardinality(inWindow)
       /\ Total(r.features) = Cardinality(inWindow)
       /\ r.features["external_email_count"] <= r.count
       /\ r.features["unique_active_hours"] = Cardinality({e.at % 2 : e \in inWindow})

\* A row with activity has a time to have it in.
Sane(r) ==
    /\ r.start \in Int /\ r.end \in Int
    /\ r.count # 0 => r.start < r.end
    /\ Total(r.features) = r.count

LEMMA Parity == \A n \in Int : n % 2 \in {0, 1}
OBVIOUS

(* As many hours as halves of the day: 3 stands for the even instants, 10  *)
(* for the odd ones.                                                       *)
LEMMA AsManyHours ==
  ASSUME NEW evs, \A e \in evs : e.at \in Int
  PROVE  Cardinality(UNION {FieldOf(e)["unique_active_hours"] : e \in evs})
           = Cardinality({e.at % 2 : e \in evs})
<1> DEFINE H == UNION {FieldOf(e)["unique_active_hours"] : e \in evs}
           P == {e.at % 2 : e \in evs}
<1>1. \A h : h \in H <=> \E e \in evs : h = HourOf(e.at)
  BY DEF FieldOf
<1>2. \A e \in evs : (e.at % 2 = 0 /\ HourOf(e.at) = 3) \/ (e.at % 2 = 1 /\ HourOf(e.at) = 10)
  <2> TAKE e \in evs
  <2>1. e.at % 2 \in {0, 1}
    BY Parity
  <2> QED
    BY <2>1, Zenon DEF HourOf
<1>3. H \subseteq {3, 10} /\ P \subseteq {0, 1}
  BY <1>1, <1>2
<1>4. (3 \in H <=> 0 \in P) /\ (10 \in H <=> 1 \in P)
  BY <1>1, <1>2
<1> HIDE DEF H, P
<1>5. /\ Cardinality({}) = 0 /\ Cardinality({3}) = 1 /\ Cardinality({10}) = 1
      /\ Cardinality({0}) = 1 /\ Cardinality({1}) = 1
      /\ Cardinality({3, 10}) = 2 /\ Cardinality({0, 1}) = 2
  <2>1. ASSUME NEW a \in Int, NEW b \in Int, a # b PROVE Cardinality({a, b}) = 2
    <3>1. IsFiniteSet({a}) /\ Cardinality({a}) = 1
      BY FS_Singleton
    <3>2. Cardinality({a} \cup {b}) = Cardinality({a}) + 1
      BY <2>1, <3>1, FS_AddElement
    <3>3. {a} \cup {b} = {a, b}
      OBVIOUS
    <3>4. Cardinality({a} \cup {b}) = 2
      BY <3>1, <3>2
    <3> QED
      BY <3>3, <3>4, Zenon
  <2>2. 3 \in Int /\ 10 \in Int /\ 0 \in Int /\ 1 \in Int /\ 3 # 10 /\ 0 # 1
    OBVIOUS
  <2>3. Cardinality({3, 10}) = 2 /\ Cardinality({0, 1}) = 2
    BY <2>1, <2>2, Zenon
  <2> QED
    BY <2>3, FS_EmptySet, FS_Singleton, Zenon
<1>6. CASE 3 \in H /\ 10 \in H
  <2>1. H = {3, 10} /\ P = {0, 1}
    BY <1>3, <1>4, <1>6
  <2> QED
    BY <1>5, <2>1 DEF H, P
<1>7. CASE 3 \in H /\ 10 \notin H
  <2>1. H = {3} /\ P = {0}
    BY <1>3, <1>4, <1>7
  <2> QED
    BY <1>5, <2>1 DEF H, P
<1>8. CASE 3 \notin H /\ 10 \in H
  <2>1. H = {10} /\ P = {1}
    BY <1>3, <1>4, <1>8
  <2> QED
    BY <1>5, <2>1 DEF H, P
<1>9. CASE 3 \notin H /\ 10 \notin H
  <2>1. H = {} /\ P = {}
    BY <1>3, <1>4, <1>9
  <2> QED
    BY <2>1 DEF H, P
<1> QED
  BY <1>6, <1>7, <1>8, <1>9

(* What the aggregation says of any finite set of events. *)
LEMMA AggregateCounts ==
  ASSUME NEW evs, IsFiniteSet(evs), \A e \in evs : e.at \in Int
  PROVE  /\ Total(Aggregate(evs)) = Cardinality(evs)
         /\ Aggregate(evs)["external_email_count"] <= Cardinality(evs)
         /\ Aggregate(evs)["unique_active_hours"] = Cardinality({e.at % 2 : e \in evs})
<1> DEFINE names == {"total_activity_count", "external_email_count", "unique_active_hours"}
<1>1. names \subseteq FeatureNames
  BY DEF FeatureNames, SetSize
<1>2. "total_activity_count" \notin SetSize /\ "external_email_count" \notin SetSize
  BY DEF SetSize
<1>3. /\ Matching("total_activity_count", evs) = evs
      /\ Matching("external_email_count", evs) = {e \in evs : External(e)}
  BY DEF Matching
<1>4. Cardinality({e \in evs : External(e)}) <= Cardinality(evs)
  BY FS_Subset, {e \in evs : External(e)} \in SUBSET evs
<1>5. Total(Aggregate(evs)) = Cardinality(evs)
  BY <1>1, <1>2, <1>3 DEF Aggregate, Total
<1>6. Aggregate(evs)["external_email_count"] = Cardinality({e \in evs : External(e)})
  BY <1>1, <1>2, <1>3 DEF Aggregate
<1>7. Aggregate(evs)["unique_active_hours"]
        = Cardinality(UNION {FieldOf(e)["unique_active_hours"] : e \in evs})
  BY <1>1, Zenon DEF Aggregate, SetSize
<1> QED
  BY <1>4, <1>5, <1>6, <1>7, AsManyHours

LEMMA WindowOfDay ==
  ASSUME NEW from \in Int, NEW to \in Int, NEW w \in DailyWindows(from, to)
  PROVE  /\ w.start \in Int /\ w.end \in Int
         /\ w.end - 1 <= 2 * (w.start \div 2) + 1
<1>1. PICK d \in (from \div 2) .. (to \div 2) :
        2 * d < to /\ w = [start |-> Later(from, 2 * d), end |-> Sooner(to, 2 * d + 2)]
  BY DEF DailyWindows
<1>2. from \div 2 \in Int /\ to \div 2 \in Int /\ d \in Int /\ from \div 2 <= d
  OBVIOUS
<1>3. w.start \in {from, 2 * d} /\ w.end \in {to, 2 * d + 2} /\ w.end <= 2 * d + 2 /\ w.start >= 2 * d
  BY <1>1, <1>2 DEF Later, Sooner
<1>4. w.start \in Int /\ w.end \in Int
  BY <1>2, <1>3
<1>5. w.start \div 2 >= d
  BY <1>2, <1>3, <1>4
<1>6. w.start \div 2 \in Int
  BY <1>4
<1> QED
  BY <1>2, <1>3, <1>4, <1>5, <1>6

LEMMA RowTells ==
  ASSUME NEW u, NEW window, NEW from \in Int, NEW to \in Int, NEW dataset,
         NEW found, IsFiniteSet(found),
         \A e \in found : e.at \in Int /\ e.user = u /\ (dataset = "all" \/ e.dataset = dataset),
         NEW r \in FeatureRows(u, window, from, to, dataset, found)
  PROVE  Tells(r, [events |-> found, start |-> from]) /\ Sane(r)
<1>1. PICK w \in DailyWindows(from, to) :
        r = LET start == IF window = "daily" THEN w.start ELSE RollingStart(w)
            IN  Row(u, window, start, w.end, dataset, Within(found, start, w.end))
  BY DEF FeatureRows
<1> DEFINE start == IF window = "daily" THEN w.start ELSE RollingStart(w)
           evs == Within(found, start, w.end)
<1>2. r = Row(u, window, start, w.end, dataset, evs)
  BY <1>1
<1>3. w.start \in Int /\ w.end \in Int /\ w.end - 1 <= 2 * (w.start \div 2) + 1
  BY WindowOfDay
<1>4. start \in Int /\ (window = "daily" => start = w.start)
  BY <1>3, RollingAssumption DEF RollingStart
<1>5. IsFiniteSet(evs) /\ \A e \in evs : e.at \in Int /\ start <= e.at /\ e.at < w.end
  <2>1. evs \in SUBSET found
    BY DEF Within
  <2>2. IsFiniteSet(evs)
    BY <2>1, FS_Subset
  <2> QED
    BY <2>2 DEF Within
<1> HIDE DEF start
<1>6. evs = {} => Cardinality(evs) = 0
  BY FS_EmptySet
<1>7. Cardinality(evs) # 0 => start < w.end
  BY <1>3, <1>4, <1>5, <1>6
<1>8. /\ r.user = u /\ r.window = window /\ r.start = start /\ r.end = w.end
      /\ r.dataset = dataset /\ r.features = Aggregate(evs) /\ r.count = Cardinality(evs)
  BY <1>2 DEF Row
<1>9. /\ Total(Aggregate(evs)) = Cardinality(evs)
      /\ Aggregate(evs)["external_email_count"] <= Cardinality(evs)
      /\ Aggregate(evs)["unique_active_hours"] = Cardinality({e.at % 2 : e \in evs})
  <2> HIDE DEF evs
  <2> QED
    BY <1>5, AggregateCounts
<1>10. Sane(r)
  BY <1>3, <1>4, <1>7, <1>8, <1>9 DEF Sane
<1>11. Within(found, r.start, r.end) = evs
  BY <1>8
<1> HIDE DEF evs
<1>12. Tells(r, [events |-> found, start |-> from])
  BY <1>3, <1>4, <1>8, <1>9, <1>11 DEF Tells
<1> QED
  BY <1>10, <1>12

-----------------------------------------------------------------------------
(* Rows, results and the detections between them.  Others write rows and   *)
(* results all the time, so that what a worker relies on is said of any    *)
(* rows R, keys V of rewritten rows and results S.                         *)

Prefix(k) == <<k[1], k[2], k[3]>>

(* A result may look idle where two rows have its user, window and start,  *)
(* or where such a row was rewritten.                                      *)
Doubled(k, R) == \E i, j \in DOMAIN R : i # j /\ ResultKey(R[i]) = k /\ ResultKey(R[j]) = k
Excused(k, R, V) == Doubled(k, R) \/ \E i \in V : Prefix(i) = k

(* A listed row was there, and is unless it has been rewritten. *)
WasListed(r, q, R, V) ==
    /\ Sane(r) /\ r.count # 0
    /\ q.dataset = "all" \/ r.dataset = q.dataset
    /\ Key(r) \in DOMAIN R
    /\ R[Key(r)] = r \/ Key(r) \in V

InHand(t, r) == t.step \in {"score", "store"} /\ ResultKey(t.row) = ResultKey(r)

Detecting(t, R, V, S) ==
    /\ {"step", "q", "users", "listed", "todo", "row"} \subseteq DOMAIN t
    /\ t.todo \subseteq t.listed
    /\ \A r \in t.listed :
          /\ WasListed(r, t.q, R, V)
          /\ ResultKey(r) \in DOMAIN S \/ r \in t.todo \/ InHand(t, r)
    /\ t.step = "list" => t.todo = {}
    /\ t.step = "score" /\ Total(t.row.features) = 0 => Excused(ResultKey(t.row), R, V)
    /\ t.step = "store" /\ Total(t.row.observed) = 0 => Excused(ResultKey(t.row), R, V)

Generating(t) ==
    /\ {"step", "q", "users", "made"} \subseteq DOMAIN t
    /\ t.q \in Menu /\ t.q.kind = "generate"
    /\ \A m \in t.made : Tells(m.row, m.from) /\ Sane(m.row)

Honest(t, R, V, S) ==
    /\ t.step \in {"list", "judge", "score", "store"} => Detecting(t, R, V, S)
    /\ t.step = "find" => Generating(t)
    /\ t.step = "generate" => t.q \in Menu /\ t.q.kind = "generate"
    /\ t.step = "export" => t.q.kind = "export"
    /\ t.step = "answer" /\ t.q.kind = "detect" => \A r \in t.listed : ResultKey(r) \in DOMAIN S

EventInv == events \subseteq Pool /\ IsFiniteSet(events)
RowInv ==
    \A k \in DOMAIN rows :
        /\ Key(rows[k]) = k /\ Sane(rows[k])
        /\ k \in DOMAIN asOf /\ Tells(rows[k], asOf[k])
KeptInv ==
    \A k \in DOMAIN results :
        /\ ResultKey(results[k]) = k
        /\ Total(results[k].observed) = 0 => Excused(k, rows, rewritten)
HonestInv == \A w \in Workers : Honest(task[w], rows, rewritten, results)

RInv == EventInv /\ RowInv /\ KeptInv /\ HonestInv

LEMMA KeyPrefix == \A r : ResultKey(r) = Prefix(Key(r))
BY DEF ResultKey, Key, Prefix

LEMMA StartsHonest == Init => RInv
<1> SUFFICES ASSUME Init PROVE RInv
  OBVIOUS
<1>1. EventInv
  BY FS_EmptySet DEF Init, EventInv
<1>2. RowInv /\ KeptInv
  BY DEF Init, RowInv, KeptInv
<1>3. HonestInv
  BY DEF Init, HonestInv, Honest, Idle
<1> QED
  BY <1>1, <1>2, <1>3 DEF RInv

(* What a step leaves of the rows and the results. *)
Grows ==
    /\ \A k \in DOMAIN rows :
          k \in DOMAIN rows' /\ Key(rows'[k]) = k /\ (rows'[k] = rows[k] \/ k \in rewritten')
    /\ rewritten \subseteq rewritten'
    /\ DOMAIN results \subseteq DOMAIN results'

LEMMA ExcusedStays ==
  ASSUME RowInv, Grows, NEW k, Excused(k, rows, rewritten)
  PROVE  Excused(k, rows', rewritten')
<1>1. CASE Doubled(k, rows)
  <2>1. PICK i \in DOMAIN rows, j \in DOMAIN rows :
          i # j /\ ResultKey(rows[i]) = k /\ ResultKey(rows[j]) = k
    BY <1>1 DEF Doubled
  <2>2. \A n \in DOMAIN rows : n \in DOMAIN rows' /\ ResultKey(rows'[n]) = ResultKey(rows[n])
    BY KeyPrefix DEF RowInv, Grows
  <2> QED
    BY <2>1, <2>2 DEF Doubled, Excused
<1>2. CASE \E i \in rewritten : Prefix(i) = k
  BY <1>2 DEF Grows, Excused
<1> QED
  BY <1>1, <1>2 DEF Excused

LEMMA ListedStays ==
  ASSUME Grows, NEW r, NEW q, WasListed(r, q, rows, rewritten)
  PROVE  WasListed(r, q, rows', rewritten')
BY DEF Grows, WasListed

LEMMA HonestStays ==
  ASSUME RowInv, Grows, NEW t, Honest(t, rows, rewritten, results)
  PROVE  Honest(t, rows', rewritten', results')
<1>1. DOMAIN results \subseteq DOMAIN results'
  BY DEF Grows
<1>2. Detecting(t, rows, rewritten, results) => Detecting(t, rows', rewritten', results')
  <2> SUFFICES ASSUME Detecting(t, rows, rewritten, results)
               PROVE  Detecting(t, rows', rewritten', results')
    OBVIOUS
  <2>1. \A r \in t.listed :
          /\ WasListed(r, t.q, rows', rewritten')
          /\ ResultKey(r) \in DOMAIN results' \/ r \in t.todo \/ InHand(t, r)
    BY <1>1, ListedStays DEF Detecting
  <2>2. Excused(ResultKey(t.row), rows, rewritten) => Excused(ResultKey(t.row), rows', rewritten')
    BY ExcusedStays
  <2> QED
    BY <2>1, <2>2 DEF Detecting
<1> QED
  BY <1>1, <1>2 DEF Honest

(* A worker goes on with task t; the rows and results grow. *)
LEMMA OneHonest ==
  ASSUME IInv, RowInv, HonestInv, NEW w \in Workers, NEW t, Go(w, t), Grows,
         Honest(t, rows', rewritten', results')
  PROVE  HonestInv'
<1> SUFFICES ASSUME NEW v \in Workers
             PROVE  Honest(task'[v], rows', rewritten', results')
  BY DEF HonestInv
<1>1. CASE v = w
  BY <1>1 DEF Go, IInv, TaskInv
<1>2. CASE v # w
  <2>1. task'[v] = task[v]
    BY <1>2 DEF Go
  <2>2. Honest(task[v], rows', rewritten', results')
    BY HonestStays DEF HonestInv
  <2> QED
    BY <2>1, <2>2
<1> QED
  BY <1>1, <1>2

(* A worker goes on, and nothing else happens. *)
LEMMA Quiet ==
  ASSUME IInv, RInv, NEW w \in Workers, NEW t, Go(w, t),
         Honest(t, rows, rewritten, results),
         UNCHANGED <<events, rows, results, asOf, rewritten>>
  PROVE  RInv'
<1>1. Grows
  BY DEF Grows, RInv, RowInv
<1>2. HonestInv'
  BY <1>1, OneHonest DEF RInv
<1> QED
  BY <1>2 DEF RInv, EventInv, RowInv, KeptInv

(* Most tasks rely on nothing. *)
LEMMA CarefreeTask ==
  ASSUME NEW t, t.step \in {"idle", "dump", "profile", "detect", "train"}
  PROVE  Honest(t, rows, rewritten, results)
BY DEF Honest

-----------------------------------------------------------------------------
(* Every step keeps rows, results and tasks honest.                        *)

LEMMA ArriveHonest ==
  ASSUME IInv, RInv, NEW e \in Pool, Arrive(e)
  PROVE  RInv'
<1>1. UNCHANGED <<rows, results, task, asOf, rewritten>> /\ events' = events \cup {e}
  BY DEF Arrive, histVars
<1>2. EventInv'
  BY <1>1, FS_AddElement DEF RInv, EventInv
<1> QED
  BY <1>1, <1>2 DEF RInv, RowInv, KeptInv, HonestInv

LEMMA AskHonest ==
  ASSUME IInv, RInv, NEW w \in Workers, NEW q \in Menu, Ask(w, q)
  PROVE  RInv'
<1> DEFINE t == [step |-> q.kind, q |-> q]
<1>1. Go(w, t) /\ UNCHANGED <<events, rows, results, asOf, rewritten>>
  BY DEF Ask, histVars
<1>2. t.step = q.kind /\ t.q = q /\ q.kind \in {"generate", "profile", "detect", "train", "export"}
  BY MenuAssumption
<1> HIDE DEF t
<1>3. Honest(t, rows, rewritten, results)
  BY <1>2 DEF Honest
<1> QED
  BY <1>1, <1>3, Quiet

LEMMA DiscoverHonest ==
  ASSUME IInv, RInv, NEW w \in Workers, Discover(w)
  PROVE  RInv'
<1>1. task[w].step = "generate" /\ UNCHANGED <<events, rows, results, asOf, rewritten>>
  BY DEF Discover, At, histVars
<1>2. PICK users : Go(w, [step |-> "find", q |-> task[w].q, made |-> {}, users |-> users])
  BY Zenon DEF Discover
<1> DEFINE t == [step |-> "find", q |-> task[w].q, made |-> {}, users |-> users]
<1>3. {"step", "q", "users", "made"} \subseteq DOMAIN t /\ t.step = "find" /\ t.made = {}
      /\ t.q = task[w].q
  OBVIOUS
<1> HIDE DEF t
<1>4. Honest(t, rows, rewritten, results)
  BY <1>1, <1>3 DEF Honest, Generating, RInv, HonestInv
<1> QED
  BY <1>1, <1>2, <1>4, Quiet DEF t

(* The rows made of one user's events, as they are found. *)
LEMMA MakeRowsHonest ==
  ASSUME IInv, RInv, NEW w \in Workers, MakeRows(w)
  PROVE  RInv'
<1> DEFINE q == task[w].q
<1>1. task[w].step = "find" /\ UNCHANGED <<events, rows, results, asOf, rewritten>>
  <2>1. At(w, "find") /\ UNCHANGED <<events, rows, baselines, results, file, served, asked, histVars>>
    BY Zenon DEF MakeRows
  <2> QED
    BY <2>1 DEF At, histVars
<1>2. PICK u, found, made :
        /\ found = {e \in FindEvents(q.dataset, q.from, q.to) : e.user = u}
        /\ made = {[row |-> r, from |-> [events |-> found, start |-> q.from]] :
                     r \in FeatureRows(u, q.window, q.from, q.to, q.dataset, found)}
        /\ Go(w, [task[w] EXCEPT !.users = @ \ {u}, !.made = @ \cup made])
  BY Zenon DEF MakeRows
<1>3. Generating(task[w])
  BY <1>1 DEF RInv, HonestInv, Honest
<1>4. q.from \in Int /\ q.to \in Int
  BY <1>3, MenuAssumption DEF Generating
<1>5. /\ IsFiniteSet(found)
      /\ \A e \in found : e.at \in Int /\ e.user = u /\ (q.dataset = "all" \/ e.dataset = q.dataset)
  <2>1. found \in SUBSET events
    BY <1>2 DEF FindEvents, Within, OfDataset
  <2>2. IsFiniteSet(found)
    BY <2>1, FS_Subset DEF RInv, EventInv
  <2>3. \A e \in found : e.user = u /\ (q.dataset = "all" \/ e.dataset = q.dataset)
    BY <1>2 DEF FindEvents, Within, OfDataset
  <2> QED
    BY <2>1, <2>2, <2>3, PoolAssumption DEF RInv, EventInv
<1> HIDE DEF q
<1>6. ASSUME NEW m \in made PROVE Tells(m.row, m.from) /\ Sane(m.row)
  <2>1. PICK r \in FeatureRows(u, q.window, q.from, q.to, q.dataset, found) :
          m = [row |-> r, from |-> [events |-> found, start |-> q.from]]
    BY <1>2, <1>6
  <2>2. Tells(r, [events |-> found, start |-> q.from]) /\ Sane(r)
    BY <1>4, <1>5, RowTells
  <2> QED
    BY <2>1, <2>2
<1> DEFINE t == [task[w] EXCEPT !.users = @ \ {u}, !.made = @ \cup made]
<1>7. /\ DOMAIN t = DOMAIN task[w] /\ t.step = task[w].step /\ t.q = task[w].q
      /\ t.made = task[w].made \cup made
  BY <1>3 DEF Generating
<1> HIDE DEF t
<1>8. Generating(t)
  BY <1>3, <1>6, <1>7 DEF Generating
<1>9. Honest(t, rows, rewritten, results)
  BY <1>1, <1>7, <1>8 DEF Honest
<1> QED
  BY <1>1, <1>2, <1>9, Quiet DEF t

LEMMA UpsertRowHonest ==
  ASSUME IInv, RInv, NEW w \in Workers, UpsertRow(w)
  PROVE  RInv'
<1>1. task[w].step = "find" /\ UNCHANGED <<events, results>>
  BY DEF UpsertRow, At
<1>2. PICK m \in task[w].made :
        /\ rows' = Put(rows, Key(m.row), m.row)
        /\ asOf' = Put(asOf, Key(m.row), m.from)
        /\ rewritten' = rewritten \cup
             (IF Key(m.row) \in DOMAIN rows /\ rows[Key(m.row)] # m.row THEN {Key(m.row)} ELSE {})
        /\ Go(w, [task[w] EXCEPT !.made = @ \ {m}])
  BY Zenon DEF UpsertRow
<1>3. Generating(task[w])
  BY <1>1 DEF RInv, HonestInv, Honest
<1>4. Tells(m.row, m.from) /\ Sane(m.row)
  BY <1>3 DEF Generating
<1> DEFINE k == Key(m.row)
           was == k \in DOMAIN rows /\ rows[k] # m.row
<1>5. rows' = Put(rows, k, m.row) /\ asOf' = Put(asOf, k, m.from)
  BY <1>2
<1>6. rewritten' = (IF was THEN rewritten \cup {k} ELSE rewritten)
  BY <1>2
<1>7. was \in BOOLEAN
  OBVIOUS
<1> HIDE DEF k, was
<1>8. /\ DOMAIN rows' = DOMAIN rows \cup {k} /\ rows'[k] = m.row
      /\ \A x \in DOMAIN rows : x # k => rows'[x] = rows[x]
  BY <1>5 DEF Put
<1>9. /\ DOMAIN asOf' = DOMAIN asOf \cup {k} /\ asOf'[k] = m.from
      /\ \A x \in DOMAIN asOf : x # k => asOf'[x] = asOf[x]
  BY <1>5 DEF Put
<1>10. rewritten \subseteq rewritten' /\ (was => k \in rewritten')
  BY <1>6, <1>7
<1>11. Grows
  BY <1>1, <1>4, <1>8, <1>10 DEF Grows, RInv, RowInv, was, k
<1> DEFINE t == [task[w] EXCEPT !.made = @ \ {m}]
<1>12. DOMAIN t = DOMAIN task[w] /\ t.step = "find" /\ t.q = task[w].q /\ t.made \subseteq task[w].made
  BY <1>1, <1>3 DEF Generating
<1> HIDE DEF t
<1>13. Honest(t, rows', rewritten', results')
  BY <1>3, <1>12 DEF Honest, Generating
<1>14. HonestInv'
  BY <1>2, <1>11, <1>13, OneHonest DEF RInv, t
<1>15. RowInv'
  <2> SUFFICES ASSUME NEW x \in DOMAIN rows'
               PROVE  /\ Key(rows'[x]) = x /\ Sane(rows'[x])
                      /\ x \in DOMAIN asOf' /\ Tells(rows'[x], asOf'[x])
    BY DEF RowInv
  <2>1. CASE x = k
    BY <1>4, <1>8, <1>9, <2>1 DEF k
  <2>2. CASE x # k
    BY <1>8, <1>9, <2>2 DEF RInv, RowInv
  <2> QED
    BY <2>1, <2>2
<1>16. KeptInv'
  BY <1>1, <1>11, ExcusedStays DEF RInv, KeptInv
<1> QED
  BY <1>1, <1>14, <1>15, <1>16 DEF RInv, EventInv

LEMMA DetectionOf ==
  ASSUME RInv, NEW w \in Workers, task[w].step \in {"list", "judge", "score", "store"}
  PROVE  Detecting(task[w], rows, rewritten, results)
BY DEF RInv, HonestInv, Honest

LEMMA ListUsersHonest ==
  ASSUME IInv, RInv, NEW w \in Workers, ListUsers(w)
  PROVE  RInv'
<1>1. UNCHANGED <<events, rows, results, asOf, rewritten>>
  BY DEF ListUsers, histVars
<1>2. PICK users : Go(w, [step |-> "list", q |-> task[w].q, listed |-> {}, todo |-> {},
                          row |-> Nothing, users |-> users])
  BY Zenon DEF ListUsers
<1> DEFINE t == [step |-> "list", q |-> task[w].q, listed |-> {}, todo |-> {}, row |-> Nothing,
                 users |-> users]
<1>3. /\ {"step", "q", "users", "listed", "todo", "row"} \subseteq DOMAIN t
      /\ t.step = "list" /\ t.todo = {} /\ t.listed = {}
  OBVIOUS
<1> HIDE DEF t
<1>4. Honest(t, rows, rewritten, results)
  BY <1>3 DEF Honest, Detecting
<1> QED
  BY <1>1, <1>2, <1>4, Quiet DEF t

LEMMA ListForUserHonest ==
  ASSUME IInv, RInv, NEW w \in Workers, ListForUser(w)
  PROVE  RInv'
<1> DEFINE q == task[w].q
<1>1. task[w].step = "list" /\ UNCHANGED <<events, rows, results, asOf, rewritten>>
  <2>1. At(w, "list") /\ UNCHANGED <<events, rows, baselines, results, file, served, asked, histVars>>
    BY Zenon DEF ListForUser
  <2> QED
    BY <2>1 DEF At, histVars
<1>2. PICK u, busy :
        /\ busy = {r \in ListRows(q.dataset, q.from, q.to) : r.user = u /\ Busy(r, q.window)}
        /\ Go(w, [task[w] EXCEPT !.step = "judge", !.users = @ \ {u}, !.todo = busy,
                                 !.listed = @ \cup busy])
  BY Zenon DEF ListForUser
<1>3. Detecting(task[w], rows, rewritten, results) /\ task[w].todo = {}
  BY <1>1, DetectionOf DEF Detecting
<1>4. \A r \in busy : WasListed(r, q, rows, rewritten)
  <2> SUFFICES ASSUME NEW r \in busy PROVE WasListed(r, q, rows, rewritten)
    OBVIOUS
  <2>1. r \in AllRows /\ (q.dataset = "all" \/ r.dataset = q.dataset) /\ r.count # 0
    BY <1>2 DEF ListRows, OfDataset, Busy
  <2>2. PICK k \in DOMAIN rows : r = rows[k]
    BY <2>1 DEF AllRows
  <2>3. Key(r) = k /\ Sane(r)
    BY <2>2 DEF RInv, RowInv
  <2> QED
    BY <2>1, <2>2, <2>3 DEF WasListed
<1> DEFINE t == [task[w] EXCEPT !.step = "judge", !.users = @ \ {u}, !.todo = busy,
                                !.listed = @ \cup busy]
<1>5. /\ DOMAIN t = DOMAIN task[w] /\ t.step = "judge" /\ t.q = q
      /\ t.todo = busy /\ t.listed = task[w].listed \cup busy
  BY <1>3 DEF Detecting
<1> HIDE DEF t, q
<1>6. \A r \in task[w].listed : WasListed(r, q, rows, rewritten) /\ ResultKey(r) \in DOMAIN results
  BY <1>1, <1>3 DEF Detecting, InHand, q
<1>7. Detecting(t, rows, rewritten, results)
  BY <1>3, <1>4, <1>5, <1>6 DEF Detecting
<1>8. Honest(t, rows, rewritten, results)
  BY <1>5, <1>7 DEF Honest
<1> QED
  BY <1>1, <1>2, <1>8, Quiet DEF t

(* A listed row is read again under its own window: only one that is not   *)
(* alone, or was rewritten, can have become empty.                         *)
LEMMA JudgedIsListed ==
  ASSUME RInv, NEW r, NEW q, WasListed(r, q, rows, rewritten),
         NEW row \in ToJudge({s \in ListRows(q.dataset, r.start, r.end) : s.user = r.user}, r)
  PROVE  /\ ResultKey(row) = ResultKey(r)
         /\ Total(row.features) = 0 => Excused(ResultKey(row), rows, rewritten)
<1> DEFINE S == {s \in ListRows(q.dataset, r.start, r.end) : s.user = r.user}
           ex == rows[Key(r)]
<1>1. /\ Key(r) \in DOMAIN rows /\ Key(ex) = Key(r) /\ r.count # 0 /\ Sane(r)
      /\ q.dataset = "all" \/ r.dataset = q.dataset
  BY DEF WasListed, RInv, RowInv
<1>2. ex.user = r.user /\ ex.window = r.window /\ ex.start = r.start /\ ex.dataset = r.dataset
  BY <1>1 DEF Key
<1>3. r.start \in Int /\ r.end \in Int /\ r.start < r.end
  BY <1>1 DEF Sane
<1>4. ex \in AllRows
  BY <1>1 DEF AllRows
<1>5. ex \in S
  <2> HIDE DEF ex
  <2> QED
    BY <1>1, <1>2, <1>3, <1>4 DEF ListRows, OfDataset
<1>6. row \in {s \in S : s.start = r.start /\ s.window = r.window}
  <2> HIDE DEF ex, S
  <2>1. {s \in S : s.start = r.start /\ s.window = r.window} # {}
    BY <1>2, <1>5
  <2> QED
    BY <2>1, Zenon DEF ToJudge, S
<1>7. row.user = r.user /\ row.start = r.start /\ row.window = r.window /\ row \in AllRows
  BY <1>6 DEF ListRows, OfDataset
<1>8. ResultKey(row) = ResultKey(r)
  BY <1>7 DEF ResultKey
<1>9. ASSUME Total(row.features) = 0 PROVE Excused(ResultKey(row), rows, rewritten)
  <2>1. PICK k \in DOMAIN rows : row = rows[k]
    BY <1>7 DEF AllRows
  <2>2. Sane(row)
    BY <2>1 DEF RInv, RowInv
  <2>3. row.count = 0 /\ row # r
    BY <1>1, <1>9, <2>2 DEF Sane
  <2>4. CASE k = Key(r)
    <3>1. Key(r) \in rewritten /\ Prefix(Key(r)) = ResultKey(row)
      BY <1>8, <2>1, <2>3, <2>4, KeyPrefix DEF WasListed
    <3> QED
      BY <3>1 DEF Excused
  <2>5. CASE k # Key(r)
    <3>1. ResultKey(rows[k]) = ResultKey(row) /\ ResultKey(rows[Key(r)]) = ResultKey(row)
      BY <1>2, <1>8, <2>1 DEF ResultKey
    <3> QED
      BY <1>1, <2>5, <3>1 DEF Excused, Doubled
  <2> QED
    BY <2>4, <2>5
<1> QED
  BY <1>8, <1>9

LEMMA RefetchHonest ==
  ASSUME IInv, RInv, NEW w \in Workers, Refetch(w)
  PROVE  RInv'
<1> DEFINE q == task[w].q
<1>1. task[w].step = "judge" /\ UNCHANGED <<events, rows, results, asOf, rewritten>>
  <2>1. At(w, "judge") /\ UNCHANGED <<events, rows, baselines, results, file, asked, histVars>>
    BY Zenon DEF Refetch
  <2> QED
    BY <2>1 DEF At, histVars
<1>2. PICK r \in First(task[w].todo) :
        IF Model(w) # Nothing /\ Compatible(Model(w))
        THEN \E row \in ToJudge({s \in ListRows(q.dataset, r.start, r.end) : s.user = r.user}, r) :
                Go(w, [task[w] EXCEPT !.step = "score", !.todo = @ \ {r}, !.row = row])
        ELSE Go(w, Idle)
  BY Zenon DEF Refetch
<1>3. Detecting(task[w], rows, rewritten, results)
  BY <1>1, DetectionOf
<1>4. r \in task[w].listed /\ WasListed(r, q, rows, rewritten)
  BY <1>3 DEF First, Detecting
<1>5. CASE Go(w, Idle)
  <2>1. Honest(Idle, rows, rewritten, results)
    BY CarefreeTask DEF Idle
  <2> QED
    BY <1>1, <1>5, <2>1, Quiet
<1>6. ASSUME NEW row \in ToJudge({s \in ListRows(q.dataset, r.start, r.end) : s.user = r.user}, r),
             Go(w, [task[w] EXCEPT !.step = "score", !.todo = @ \ {r}, !.row = row])
      PROVE  RInv'
  <2> DEFINE t == [task[w] EXCEPT !.step = "score", !.todo = @ \ {r}, !.row = row]
  <2>1. /\ ResultKey(row) = ResultKey(r)
        /\ Total(row.features) = 0 => Excused(ResultKey(row), rows, rewritten)
    BY <1>4, <1>6, JudgedIsListed
  <2>2. /\ DOMAIN t = DOMAIN task[w] /\ t.step = "score" /\ t.q = task[w].q
        /\ t.todo = task[w].todo \ {r} /\ t.listed = task[w].listed /\ t.row = row
    BY <1>3 DEF Detecting
  <2> HIDE DEF t
  <2>3. \A x \in t.listed : ResultKey(x) \in DOMAIN results \/ x \in t.todo \/ InHand(t, x)
    BY <1>1, <1>3, <2>1, <2>2 DEF Detecting, InHand
  <2>4. Detecting(t, rows, rewritten, results)
    BY <1>3, <2>1, <2>2, <2>3 DEF Detecting
  <2>5. Honest(t, rows, rewritten, results)
    BY <2>2, <2>4 DEF Honest
  <2> QED
    BY <1>1, <1>6, <2>5, Quiet DEF t
<1> QED
  BY <1>2, <1>5, <1>6, Zenon

(* A judgement is of the row it was made of. *)
LEMMA ScoreHonest ==
  ASSUME IInv, RInv, NEW w \in Workers, Score(w)
  PROVE  RInv'
<1> DEFINE row == task[w].row
<1>1. task[w].step = "score" /\ UNCHANGED <<events, rows, results, asOf, rewritten>>
  <2>1. At(w, "score") /\ UNCHANGED <<events, rows, baselines, results, file, served, asked, histVars>>
    BY Zenon DEF Score
  <2> QED
    BY <2>1 DEF At, histVars
<1>2. PICK baseline, decision :
        Go(w, [task[w] EXCEPT !.step = "store",
                              !.row = Judgement(row, baseline, served[ProcessOf[w]], decision)])
  BY Zenon DEF Score
<1> DEFINE s == Judgement(row, baseline, served[ProcessOf[w]], decision)
           t == [task[w] EXCEPT !.step = "store", !.row = s]
<1>3. Detecting(task[w], rows, rewritten, results)
  BY <1>1, DetectionOf
<1>4. ResultKey(s) = ResultKey(row) /\ s.observed = row.features
  BY DEF Judgement, ResultKey
<1> HIDE DEF s
<1>5. /\ DOMAIN t = DOMAIN task[w] /\ t.step = "store" /\ t.q = task[w].q
      /\ t.todo = task[w].todo /\ t.listed = task[w].listed /\ t.row = s
  BY <1>3 DEF Detecting
<1> HIDE DEF t
<1>6. \A x \in t.listed : ResultKey(x) \in DOMAIN results \/ x \in t.todo \/ InHand(t, x)
  BY <1>1, <1>3, <1>4, <1>5 DEF Detecting, InHand
<1>7. Total(s.observed) = 0 => Excused(ResultKey(s), rows, rewritten)
  BY <1>1, <1>3, <1>4 DEF Detecting
<1>8. Detecting(t, rows, rewritten, results)
  BY <1>3, <1>5, <1>6, <1>7 DEF Detecting
<1>9. Honest(t, rows, rewritten, results)
  BY <1>5, <1>8 DEF Honest
<1> QED
  BY <1>1, <1>2, <1>9, Quiet DEF t, s

LEMMA StoreHonest ==
  ASSUME IInv, RInv, NEW w \in Workers, Store(w)
  PROVE  RInv'
<1> DEFINE s == task[w].row
           k == ResultKey(s)
           t == [task[w] EXCEPT !.step = "judge", !.row = Nothing]
<1>1. /\ task[w].step = "store" /\ Go(w, t) /\ results' = Put(results, k, s)
      /\ UNCHANGED <<events, rows, asOf, rewritten>>
  BY DEF Store, At, histVars
<1>2. Detecting(task[w], rows, rewritten, results)
  BY <1>1, DetectionOf
<1>3. /\ DOMAIN t = DOMAIN task[w] /\ t.step = "judge" /\ t.q = task[w].q
      /\ t.todo = task[w].todo /\ t.listed = task[w].listed
  BY <1>2 DEF Detecting
<1> HIDE DEF t, k
<1>4. /\ DOMAIN results' = DOMAIN results \cup {k} /\ results'[k] = s
      /\ \A x \in DOMAIN results : x # k => results'[x] = results[x]
  BY <1>1 DEF Put
<1>5. Grows
  BY <1>1, <1>4 DEF Grows, RInv, RowInv
<1>6. \A x \in t.listed : ResultKey(x) \in DOMAIN results' \/ x \in t.todo \/ InHand(t, x)
  BY <1>2, <1>3, <1>4 DEF Detecting, InHand, k
<1>7. Detecting(t, rows', rewritten', results')
  BY <1>1, <1>2, <1>3, <1>6 DEF Detecting
<1>8. Honest(t, rows', rewritten', results')
  BY <1>3, <1>7 DEF Honest
<1>9. HonestInv'
  BY <1>1, <1>5, <1>8, OneHonest DEF RInv
<1>10. KeptInv'
  <2> SUFFICES ASSUME NEW x \in DOMAIN results'
               PROVE  /\ ResultKey(results'[x]) = x
                      /\ Total(results'[x].observed) = 0 => Excused(x, rows, rewritten)
    BY <1>1 DEF KeptInv
  <2>1. CASE x = k
    BY <1>1, <1>2, <1>4, <2>1 DEF Detecting, k
  <2>2. CASE x # k
    BY <1>4, <2>2 DEF RInv, KeptInv
  <2> QED
    BY <2>1, <2>2
<1> QED
  BY <1>1, <1>9, <1>10 DEF RInv, EventInv, RowInv

LEMMA NextUserHonest ==
  ASSUME IInv, RInv, NEW w \in Workers, NextUser(w)
  PROVE  RInv'
<1>1. /\ task[w].step = "judge" /\ task[w].todo = {}
      /\ UNCHANGED <<events, rows, results, asOf, rewritten>>
  BY DEF NextUser, At, histVars
<1>2. Detecting(task[w], rows, rewritten, results)
  BY <1>1, DetectionOf
<1>3. \A r \in task[w].listed : ResultKey(r) \in DOMAIN results
  BY <1>1, <1>2 DEF Detecting, InHand
<1>4. CASE Go(w, [task[w] EXCEPT !.step = "list"])
  <2> DEFINE t == [task[w] EXCEPT !.step = "list"]
  <2>1. /\ DOMAIN t = DOMAIN task[w] /\ t.step = "list" /\ t.q = task[w].q
        /\ t.todo = {} /\ t.listed = task[w].listed
    BY <1>1, <1>2 DEF Detecting
  <2> HIDE DEF t
  <2>2. Detecting(t, rows, rewritten, results)
    BY <1>2, <1>3, <2>1 DEF Detecting
  <2>3. Honest(t, rows, rewritten, results)
    BY <2>1, <2>2 DEF Honest
  <2> QED
    BY <1>1, <1>4, <2>3, Quiet DEF t
<1>5. CASE Go(w, [step |-> "answer", q |-> task[w].q, listed |-> task[w].listed])
  <2> DEFINE t == [step |-> "answer", q |-> task[w].q, listed |-> task[w].listed]
  <2>1. t.step = "answer" /\ t.listed = task[w].listed
    OBVIOUS
  <2> HIDE DEF t
  <2>2. Honest(t, rows, rewritten, results)
    BY <1>3, <2>1 DEF Honest
  <2> QED
    BY <1>1, <1>5, <2>2, Quiet DEF t
<1> QED
  BY <1>4, <1>5 DEF NextUser

LEMMA ExportHonest ==
  ASSUME IInv, RInv, NEW w \in Workers, Export(w)
  PROVE  RInv'
<1> DEFINE t == [step |-> "answer", q |-> task[w].q, listed |-> Exported(task[w].q)]
<1>1. /\ task[w].step = "export" /\ Go(w, t)
      /\ UNCHANGED <<events, rows, results, asOf, rewritten>>
  BY DEF Export, At, histVars
<1>2. t.step = "answer" /\ t.q = task[w].q
  OBVIOUS
<1>3. task[w].q.kind = "export"
  BY <1>1 DEF RInv, HonestInv, Honest
<1> HIDE DEF t
<1>4. Honest(t, rows, rewritten, results)
  BY <1>2, <1>3 DEF Honest
<1> QED
  BY <1>1, <1>4, Quiet

(* A request that is done, and a training that goes on, rely on nothing. *)
LEMMA CarefreeHonest ==
  ASSUME IInv, RInv, NEW w \in Workers,
         Generated(w) \/ Profile(w) \/ Answer(w) \/ ReadTraining(w) \/ Dump(w)
  PROVE  RInv'
<1>1. UNCHANGED <<events, rows, results, asOf, rewritten>>
  BY DEF Generated, Profile, Answer, ReadTraining, Dump, histVars
<1>2. PICK t : Go(w, t) /\ t.step \in {"idle", "dump"}
  <2>1. Idle.step = "idle"
    BY DEF Idle
  <2>2. CASE Go(w, Idle)
    BY <2>1, <2>2
  <2>3. CASE ReadTraining(w) /\ ~Go(w, Idle)
    <3>1. PICK new : Go(w, [step |-> "dump", new |-> new])
      BY <2>3, Zenon DEF ReadTraining
    <3>2. [step |-> "dump", new |-> new].step = "dump"
      OBVIOUS
    <3> QED
      BY <3>1, <3>2, Zenon
  <2> QED
    BY <2>2, <2>3 DEF Generated, Profile, Answer, Dump
<1>3. Honest(t, rows, rewritten, results)
  BY <1>2, CarefreeTask
<1> QED
  BY <1>1, <1>2, <1>3, Quiet

LEMMA RestartHonest ==
  ASSUME IInv, RInv, NEW p \in Processes, Restart(p)
  PROVE  RInv'
<1>1. /\ UNCHANGED <<events, rows, results, asOf, rewritten>>
      /\ task' = [w \in Workers |-> IF ProcessOf[w] = p THEN Idle ELSE task[w]]
  BY DEF Restart
<1>2. Honest(Idle, rows, rewritten, results)
  BY CarefreeTask DEF Idle
<1>3. \A w \in Workers : task'[w] \in {Idle, task[w]}
  BY <1>1
<1>4. HonestInv'
  <2> SUFFICES ASSUME NEW w \in Workers
               PROVE  Honest(task'[w], rows, rewritten, results)
    BY <1>1 DEF HonestInv
  <2> QED
    BY <1>2, <1>3 DEF RInv, HonestInv
<1> QED
  BY <1>1, <1>4 DEF RInv, EventInv, RowInv, KeptInv

LEMMA StayHonest == IInv /\ RInv /\ [Next]_vars => RInv'
<1> SUFFICES ASSUME IInv, RInv, [Next]_vars PROVE RInv'
  OBVIOUS
<1>1. ASSUME NEW e \in Pool, Arrive(e) PROVE RInv'
  BY <1>1, ArriveHonest
<1>2. ASSUME NEW w \in Workers, NEW q \in Menu, Ask(w, q) PROVE RInv'
  BY <1>2, AskHonest
<1>3. ASSUME NEW w \in Workers, Discover(w) PROVE RInv'
  BY <1>3, DiscoverHonest
<1>4. ASSUME NEW w \in Workers, MakeRows(w) PROVE RInv'
  BY <1>4, MakeRowsHonest
<1>5. ASSUME NEW w \in Workers, UpsertRow(w) PROVE RInv'
  BY <1>5, UpsertRowHonest
<1>6. ASSUME NEW w \in Workers, ListUsers(w) PROVE RInv'
  BY <1>6, ListUsersHonest
<1>7. ASSUME NEW w \in Workers, ListForUser(w) PROVE RInv'
  BY <1>7, ListForUserHonest
<1>8. ASSUME NEW w \in Workers, Refetch(w) PROVE RInv'
  BY <1>8, RefetchHonest
<1>9. ASSUME NEW w \in Workers, Score(w) PROVE RInv'
  BY <1>9, ScoreHonest
<1>10. ASSUME NEW w \in Workers, Store(w) PROVE RInv'
  BY <1>10, StoreHonest
<1>11. ASSUME NEW w \in Workers, NextUser(w) PROVE RInv'
  BY <1>11, NextUserHonest
<1>12. ASSUME NEW w \in Workers, Export(w) PROVE RInv'
  BY <1>12, ExportHonest
<1>13. ASSUME NEW w \in Workers,
              Generated(w) \/ Profile(w) \/ Answer(w) \/ ReadTraining(w) \/ Dump(w)
       PROVE  RInv'
  BY <1>13, CarefreeHonest
<1>14. ASSUME NEW p \in Processes, Restart(p) PROVE RInv'
  BY <1>14, RestartHonest
<1>15. CASE UNCHANGED vars
  BY <1>15 DEF vars, histVars, RInv, EventInv, RowInv, KeptInv, HonestInv
<1> QED
  BY <1>1, <1>2, <1>3, <1>4, <1>5, <1>6, <1>7, <1>8, <1>9, <1>10, <1>11, <1>12, <1>13, <1>14,
     <1>15, Zenon DEF Next

(* However the requests interleave, and whatever arrives between them,     *)
(* rows, results and the detections under way stay honest.                 *)
THEOREM RowsStayHonest == Spec => []RInv
<1>1. IInv /\ RInv /\ [Next]_vars => IInv' /\ RInv'
  BY StepInv, StayHonest
<1>2. Init => IInv /\ RInv
  BY InitInv, StartsHonest
<1> QED
  BY <1>1, <1>2, PTL DEF Spec

(* For any events, ranges and interleaving of generations, a feature row   *)
(* counts the events of its own window that its run was given, each once   *)
(* (feature_service, aggregate_features).                                  *)
THEOREM RowsAreCounts == Spec => []RowsTellEvents
<1>1. RInv => RowsTellEvents
  <2> SUFFICES ASSUME RInv, NEW k \in DOMAIN rows
               PROVE  LET r == rows[k]
                          inWindow == {e \in asOf[k].events : r.start <= e.at /\ e.at < r.end}
                      IN /\ r.window = "daily" => r.end - 1 <= 2 * (r.start \div 2) + 1
                         /\ \A e \in asOf[k].events :
                               e.user = r.user /\ (r.dataset = "all" \/ e.dataset = r.dataset)
                         /\ r.count = Cardinality(inWindow)
                         /\ asOf[k].start <= r.start
                              => r.features["total_activity_count"] = Cardinality(inWindow)
                         /\ r.features["external_email_count"] <= r.count
                         /\ r.features["unique_active_hours"] = Cardinality({e.at % 2 : e \in inWindow})
    BY Zenon DEF RowsTellEvents
  <2>1. Tells(rows[k], asOf[k])
    BY DEF RInv, RowInv
  <2> QED
    BY <2>1, Zenon DEF Tells, Within, Total
<1> QED
  BY <1>1, RowsStayHonest, PTL

(* Every busy day that a detection listed has a result when it answers,    *)
(* of that kind of window (detect_for_user).                               *)
THEOREM BusyDaysAreJudged == Spec => []BusyRowsJudged
<1>1. RInv => BusyRowsJudged
  <2> SUFFICES ASSUME RInv, NEW w \in Workers, At(w, "answer"), task[w].q.kind = "detect",
                      NEW r \in task[w].listed
               PROVE  ResultKey(r) \in DOMAIN results /\ results[ResultKey(r)].window = r.window
    BY DEF BusyRowsJudged
  <2>1. ResultKey(r) \in DOMAIN results
    BY DEF RInv, HonestInv, Honest, At
  <2>2. ResultKey(results[ResultKey(r)]) = ResultKey(r)
    BY <2>1 DEF RInv, KeptInv
  <2> QED
    BY <2>1, <2>2 DEF ResultKey
<1> QED
  BY <1>1, RowsStayHonest, PTL

(* A day without activity is judged only where another row has its window, *)
(* or it was rewritten (detect_for_user).                                  *)
THEOREM EmptyDaysAreSkipped == Spec => []EmptyDaysSkipped
<1>1. RInv => EmptyDaysSkipped
  <2> SUFFICES ASSUME RInv, NEW k \in DOMAIN results, Total(results[k].observed) = 0
               PROVE  \/ \E r, s \in AllRows : r # s /\ ResultKey(r) = k /\ ResultKey(s) = k
                      \/ \E r \in rewritten : <<r[1], r[2], r[3]>> = k
    BY Zenon DEF EmptyDaysSkipped, Total
  <2>1. Excused(k, rows, rewritten)
    BY DEF RInv, KeptInv
  <2>2. CASE Doubled(k, rows)
    <3>1. PICK i \in DOMAIN rows, j \in DOMAIN rows :
            i # j /\ ResultKey(rows[i]) = k /\ ResultKey(rows[j]) = k
      BY <2>2 DEF Doubled
    <3>2. rows[i] # rows[j] /\ rows[i] \in AllRows /\ rows[j] \in AllRows
      BY <3>1 DEF RInv, RowInv, AllRows
    <3> QED
      BY <3>1, <3>2
  <2>3. CASE \E i \in rewritten : Prefix(i) = k
    BY <2>3 DEF Prefix
  <2> QED
    BY <2>1, <2>2, <2>3 DEF Excused
<1> QED
  BY <1>1, RowsStayHonest, PTL
=============================================================================
