-------------------------- MODULE Pipeline_proofs --------------------------
(***************************************************************************)
(* However many processes and triggers there are and however the pipeline  *)
(* runs go: a run beside the one the Redis key stands for needs a lost     *)
(* lock of its own (RunsBounded), a run that nothing came between leaves   *)
(* the stores in step with the events (CleanRunIsFresh), and no day is     *)
(* judged by a baseline built from it unless a lock was lost or a profile  *)
(* viewed (YardstickUnlessViewed).                                         *)
(*                                                                         *)
(* None of them is inductive.  RunsBounded: the run that holds the key and *)
(* the runs that lost theirs are alike to it.  What is inductive counts    *)
(* the strays, the runs the key does not stand for, releasing ones         *)
(* included.  The step that matters is the DELETE of a stray: it makes the *)
(* holder of the key a stray, but the stray that deleted is gone in the    *)
(* same step.                                                              *)
(*                                                                         *)
(* CleanRunIsFresh speaks of the end of a run.  RunInv says at every stage *)
(* what a clean run has put right by then, day by day, and that it is the  *)
(* only one (Accurate, Alone).  YardInv bounds every baseline, committed   *)
(* or not, by the days of the runs under way and by the oldest day the     *)
(* next run will look at; that needs the strays, for two runs at once      *)
(* would give each other their baselines.                                  *)
(***************************************************************************)
EXTENDS Pipeline, FiniteSetTheorems, TLAPS

Strays == {t \in Active : ~(held[t] /\ key = t)}

StraysCounted == Cardinality(Strays) <= lapses

LockInv == LockTypeOK /\ StraysCounted

-----------------------------------------------------------------------------
(* Lemmas on sets of tasks.                                                *)

(* There are finitely many tasks. *)
LEMMA TasksFinite == IsFiniteSet(Tasks)
<1>1. IsFiniteSet({"schedule", "manual"})
  <2>1. IsFiniteSet({})
    BY FS_EmptySet
  <2>2. IsFiniteSet({} \union {"schedule"})
    BY <2>1, FS_AddElement
  <2>3. IsFiniteSet(({} \union {"schedule"}) \union {"manual"})
    BY <2>2, FS_AddElement
  <2>4. ({} \union {"schedule"}) \union {"manual"} = {"schedule", "manual"}
    OBVIOUS
  <2> QED
    BY <2>3, <2>4
<1>2. IsFiniteSet(Triggers)
  BY <1>1, FS_Subset, TriggersAssumption
<1> QED
  BY <1>2, FS_Product, ProcsAssumption DEF Tasks

(* A set of tasks is finite, and no larger than a set that includes it. *)
LEMMA NoMore ==
  ASSUME NEW S \in SUBSET Tasks, NEW R \in SUBSET S
  PROVE  /\ Cardinality(S) \in Nat /\ Cardinality(R) \in Nat
         /\ Cardinality(R) <= Cardinality(S)
<1>1. IsFiniteSet(S)
  BY TasksFinite, FS_Subset
<1>2. IsFiniteSet(R) /\ Cardinality(R) <= Cardinality(S)
  BY <1>1, FS_Subset
<1> QED
  BY <1>1, <1>2, FS_CardinalityType

(* One more element makes at most one more. *)
LEMMA OneMore ==
  ASSUME NEW S \in SUBSET Tasks, NEW x, NEW R \in SUBSET Tasks, R \subseteq S \union {x}
  PROVE  Cardinality(R) <= Cardinality(S) + 1
<1>1. IsFiniteSet(S)
  BY TasksFinite, FS_Subset
<1>2. /\ IsFiniteSet(S \union {x})
      /\ \/ Cardinality(S \union {x}) = Cardinality(S)
         \/ Cardinality(S \union {x}) = Cardinality(S) + 1
  BY <1>1, FS_AddElement
<1>3. Cardinality(R) <= Cardinality(S \union {x})
  BY <1>2, FS_Subset
<1>4. /\ Cardinality(S) \in Nat /\ Cardinality(R) \in Nat
      /\ Cardinality(S \union {x}) \in Nat
  BY <1>1, <1>2, NoMore, FS_CardinalityType
<1> QED
  BY <1>2, <1>3, <1>4

(* One out, one in: no more than before. *)
LEMMA Exchange ==
  ASSUME NEW S \in SUBSET Tasks, NEW t \in S, NEW x,
         NEW R \in SUBSET Tasks, R \subseteq (S \ {t}) \union {x}
  PROVE  Cardinality(R) <= Cardinality(S)
<1>1. IsFiniteSet(S)
  BY TasksFinite, FS_Subset
<1>2. Cardinality(S \ {t}) = Cardinality(S) - 1
  BY <1>1, FS_RemoveElement
<1>3. S \ {t} \in SUBSET Tasks
  OBVIOUS
<1>4. Cardinality(R) <= Cardinality(S \ {t}) + 1
  BY <1>3, OneMore
<1>5. Cardinality(S) \in Nat
  BY NoMore
<1> QED
  BY <1>2, <1>4, <1>5

-----------------------------------------------------------------------------
(* The lock.                                                               *)

(* Nobody runs at first.                                                   *)
LEMMA LockStart == LockInit => LockInv
<1> SUFFICES ASSUME LockInit PROVE LockInv
  OBVIOUS
<1>1. LockTypeOK
  BY BudgetAssumption DEF LockInit, LockTypeOK, Phases
<1>2. Strays = {}
  BY DEF LockInit, Strays, Active
<1>3. Cardinality(Strays) = 0
  BY <1>2, FS_EmptySet
<1> QED
  BY <1>1, <1>3, BudgetAssumption DEF LockInv, StraysCounted, LockInit

(* What a step has to show: the tasks it touches keep their types, and it  *)
(* makes no stray, or makes one and counts it, or exchanges two.           *)
LEMMA FewStrays ==
  ASSUME LockTypeOK, StraysCounted, LockTypeOK',
         \/ Strays' \subseteq Strays /\ lapses' = lapses
         \/ lapses' = lapses + 1 /\ \E x : Strays' \subseteq Strays \union {x}
         \/ lapses' = lapses /\ \E t \in Strays : \E x :
              Strays' \subseteq (Strays \ {t}) \union {x}
  PROVE  StraysCounted'
<1>1. Strays \in SUBSET Tasks /\ Strays' \in SUBSET Tasks
  BY DEF Strays, Active
<1>2. lapses \in Nat /\ lapses' \in Nat
  BY BudgetAssumption DEF LockTypeOK
<1>3. Cardinality(Strays) \in Nat /\ Cardinality(Strays') \in Nat
  BY <1>1, NoMore
<1>4. Cardinality(Strays) <= lapses
  BY DEF StraysCounted
<1>5. CASE Strays' \subseteq Strays /\ lapses' = lapses
  <2>1. Cardinality(Strays') <= Cardinality(Strays)
    BY <1>1, <1>5, NoMore
  <2> QED
    BY <1>2, <1>3, <1>4, <1>5, <2>1 DEF StraysCounted
<1>6. CASE lapses' = lapses + 1 /\ \E x : Strays' \subseteq Strays \union {x}
  <2>1. Cardinality(Strays') <= Cardinality(Strays) + 1
    BY <1>1, <1>6, OneMore
  <2> QED
    BY <1>2, <1>3, <1>4, <1>6, <2>1 DEF StraysCounted
<1>7. CASE lapses' = lapses /\ \E t \in Strays : \E x :
             Strays' \subseteq (Strays \ {t}) \union {x}
  <2>1. Cardinality(Strays') <= Cardinality(Strays)
    BY <1>1, <1>7, Exchange
  <2> QED
    BY <1>2, <1>3, <1>4, <1>7, <2>1 DEF StraysCounted
<1> QED
  BY <1>5, <1>6, <1>7

(* Every task is at home in a process. *)
LEMMA HomeType == \A t \in Tasks : Home(t) \in Procs
  BY DEF Tasks, Home

(* No step leaves the types. *)
LEMMA LockTypeStep == LockTypeOK /\ [LockNext]_lockVars => LockTypeOK'
<1> SUFFICES ASSUME LockTypeOK, [LockNext]_lockVars PROVE LockTypeOK'
  OBVIOUS
<1> USE HomeType, BudgetAssumption DEF LockTypeOK, Phases
<1>1. ASSUME NEW t \in Tasks, Begin(t) PROVE LockTypeOK'
  BY <1>1 DEF Begin
<1>2. ASSUME NEW t \in Tasks, Call(t) PROVE LockTypeOK'
  <2>1. CASE Acquire(t)
    BY <2>1 DEF Acquire, Goto
  <2>2. CASE Skip(t)
    BY <2>2 DEF Skip, Leave
  <2>3. CASE RunWithoutLock(t)
    BY <2>3 DEF RunWithoutLock, Goto
  <2>4. CASE FindOwnKey(t)
    BY <2>4 DEF FindOwnKey, Goto
  <2>5. CASE FindOtherKey(t)
    BY <2>5 DEF FindOtherKey, Leave
  <2>6. CASE Drop(t)
    BY <2>6 DEF Drop, Leave
  <2>7. CASE ReleaseFails(t)
    BY <2>7 DEF ReleaseFails, Leave
  <2> QED
    BY <1>2, <2>1, <2>2, <2>3, <2>4, <2>5, <2>6, <2>7 DEF Call
<1>3. ASSUME NEW t \in Tasks, EndRun(t) PROVE LockTypeOK'
  BY <1>3 DEF EndRun, Goto, Leave
<1>4. ASSUME NEW t \in Tasks, Cancel(t) PROVE LockTypeOK'
  <2>1. CASE CancelRun(t)
    BY <2>1 DEF CancelRun
  <2>2. CASE CancelCall(t)
    BY <2>2 DEF CancelCall, Leave
  <2> QED
    BY <1>4, <2>1, <2>2 DEF Cancel
<1>5. ASSUME NEW p \in Procs, Crash(p) PROVE LockTypeOK'
  <2>1. phase' \in [Tasks -> Phases]
    BY <1>5 DEF Crash
  <2>2. held' \in [Tasks -> BOOLEAN]
    <3>1. \A t \in Tasks : (IF Home(t) = p THEN FALSE ELSE held[t]) \in BOOLEAN
      OBVIOUS
    <3> QED
      BY <1>5, <3>1, Zenon DEF Crash
  <2>3. /\ local' \in [Procs -> Tasks \union {Nobody}]
        /\ key' \in Tasks \union {Nobody}
        /\ lapses' \in 0..MaxLapses
        /\ stops' \in 0..MaxStops
    BY <1>5 DEF Crash
  <2> QED
    BY <2>1, <2>2, <2>3
<1>6. CASE Expire
  BY <1>6 DEF Expire
<1>7. CASE Lapse
  BY <1>7 DEF Lapse
<1>8. CASE UNCHANGED lockVars
  BY <1>8 DEF lockVars
<1> QED
  BY <1>1, <1>2, <1>3, <1>4, <1>5, <1>6, <1>7, <1>8 DEF LockNext

(* No step makes a stray that is not counted. *)
LEMMA StrayStep == LockInv /\ [LockNext]_lockVars => StraysCounted'
<1> SUFFICES ASSUME LockInv, [LockNext]_lockVars PROVE StraysCounted'
  OBVIOUS
<1>0. LockTypeOK /\ StraysCounted /\ LockTypeOK'
  BY LockTypeStep DEF LockInv
<1> DEFINE None == Strays' \subseteq Strays /\ lapses' = lapses
           One == lapses' = lapses + 1 /\ \E x : Strays' \subseteq Strays \union {x}
           Swap == lapses' = lapses /\ \E t \in Strays : \E x :
                     Strays' \subseteq (Strays \ {t}) \union {x}
<1>1. None \/ One \/ Swap => StraysCounted'
  BY <1>0, FewStrays
<1> USE <1>0 DEF LockTypeOK, Strays, Active
<1>2. ASSUME NEW t \in Tasks, Begin(t) PROVE None
  BY <1>2 DEF Begin
<1>3. ASSUME NEW t \in Tasks, Acquire(t) PROVE None
  BY <1>3, NobodyAssumption DEF Acquire, Goto
<1>4. ASSUME NEW t \in Tasks, Skip(t) PROVE None
  BY <1>4 DEF Skip, Leave
<1>5. ASSUME NEW t \in Tasks, RunWithoutLock(t) PROVE One
  <2>1. Strays' \subseteq Strays \union {t}
    BY <1>5, NobodyAssumption DEF RunWithoutLock, Goto
  <2> QED
    BY <1>5, <2>1 DEF RunWithoutLock
<1>6. ASSUME NEW t \in Tasks, FindOwnKey(t) PROVE None
  BY <1>6 DEF FindOwnKey, Goto
<1>7. ASSUME NEW t \in Tasks, FindOtherKey(t) PROVE None
  BY <1>7 DEF FindOtherKey, Leave
<1>8. ASSUME NEW t \in Tasks, phase[t] = "drop", key' = Nobody, Leave(t),
             lapses' = lapses
      PROVE  None \/ Swap
  <2>1. CASE key = t
    BY <1>8, <2>1, NobodyAssumption DEF Leave
  <2>2. CASE key # t
    <3>1. t \in Strays
      BY <1>8, <2>2
    <3>2. Strays' \subseteq (Strays \ {t}) \union {key}
      BY <1>8, <2>2 DEF Leave
    <3> QED
      BY <1>8, <3>1, <3>2
  <2> QED
    BY <2>1, <2>2
<1>9. ASSUME NEW t \in Tasks, ReleaseFails(t) PROVE None
  BY <1>9 DEF ReleaseFails, Leave
<1>10. ASSUME NEW t \in Tasks, EndRun(t) PROVE None
  BY <1>10 DEF EndRun, Goto, Leave
<1>11. ASSUME NEW t \in Tasks, CancelRun(t) PROVE None
  BY <1>11 DEF CancelRun
<1>12. ASSUME NEW t \in Tasks, CancelCall(t) PROVE None \/ Swap
  <2>1. CASE UNCHANGED key
    BY <1>12, <2>1 DEF CancelCall, Leave
  <2>2. CASE phase[t] = "acquire" /\ key = Nobody /\ key' = t
    BY <1>12, <2>2, NobodyAssumption DEF CancelCall, Leave
  <2>3. CASE phase[t] = "drop" /\ key' = Nobody
    BY <1>8, <1>12, <2>3 DEF CancelCall
  <2> QED
    BY <1>12, <2>1, <2>2, <2>3 DEF CancelCall
<1>13. ASSUME NEW p \in Procs, Crash(p) PROVE None
  BY <1>13 DEF Crash
<1>14. CASE Expire
  <2>1. None
    BY <1>14 DEF Expire
  <2> QED
    BY <1>1, <2>1
<1>15. CASE Lapse
  <2>1. Strays' \subseteq Strays \union {key}
    BY <1>15 DEF Lapse
  <2>2. One
    BY <1>15, <2>1 DEF Lapse
  <2> QED
    BY <1>1, <2>2
<1>16. CASE UNCHANGED lockVars
  <2>1. None
    BY <1>16 DEF lockVars
  <2> QED
    BY <1>1, <2>1
<1>17. ASSUME NEW t \in Tasks, Drop(t) PROVE None \/ Swap
  BY <1>8, <1>17 DEF Drop
<1> HIDE DEF None, One, Swap
<1> QED
  BY <1>1, <1>2, <1>3, <1>4, <1>5, <1>6, <1>7, <1>9, <1>10, <1>11, <1>12, <1>13,
     <1>14, <1>15, <1>16, <1>17 DEF LockNext, Call, Cancel

(* LockInv bounds the runs: one may stand behind the key, the others are   *)
(* strays.                                                                 *)
LEMMA StraysBoundRuns == LockInv => RunsBounded
<1> SUFFICES ASSUME LockInv PROVE RunsBounded
  OBVIOUS
<1>1. Strays \in SUBSET Tasks /\ Running \in SUBSET Tasks
  BY DEF Strays, Active, Running
<1>2. Running \subseteq Strays \union {key}
  BY DEF Strays, Active, Running
<1>3. Cardinality(Running) <= Cardinality(Strays) + 1
  BY <1>1, <1>2, OneMore
<1>4. /\ Cardinality(Running) \in Nat /\ Cardinality(Strays) \in Nat
      /\ lapses \in Nat /\ Cardinality(Strays) <= lapses
  BY <1>1, NoMore, BudgetAssumption DEF LockInv, LockTypeOK, StraysCounted
<1> QED
  BY <1>3, <1>4 DEF RunsBounded

-----------------------------------------------------------------------------
(* The pipeline only ever steps the lock as the coordinator does.          *)

(* A pipeline step is a step of the coordinator or leaves the lock alone:  *)
(* the model of the stages hides no run from it.                           *)
LEMMA PipelineStepsLock == [Next]_vars => [LockNext]_lockVars
<1> SUFFICES ASSUME [Next]_vars PROVE [LockNext]_lockVars
  OBVIOUS
<1>1. ASSUME NEW t \in Tasks, StartRun(t) \/ CallStep(t) \/ SchedulerStops(t)
      PROVE  LockNext
  BY <1>1 DEF StartRun, CallStep, SchedulerStops, LockNext
<1>2. ASSUME NEW t \in Tasks, Body(t) PROVE LockNext \/ UNCHANGED lockVars
  <2>1. CASE Close(t)
    BY <2>1 DEF Close, LockNext
  <2>2. CASE ~Close(t)
    BY <1>2, <2>2 DEF Body, Discover, WriteRow, ReadBaseline, KeepBaseline,
         BuildBaseline, Judge, ReadEvents, ClearFindings, StoreFinding,
         ReadSignals, StoreScore, RaiseAlert
  <2> QED
    BY <2>1, <2>2
<1>3. ASSUME NEW t \in Tasks, CommitLate(t) PROVE UNCHANGED lockVars
  BY <1>3 DEF CommitLate
<1>4. ASSUME NEW t \in Tasks, Trouble(t) PROVE LockNext \/ UNCHANGED lockVars
  <2>1. CASE StageRaises(t)
    BY <2>1 DEF StageRaises, LockNext
  <2>2. CASE BaselineClash(t)
    BY <2>2 DEF BaselineClash, LockNext
  <2>3. CASE ~StageRaises(t) /\ ~BaselineClash(t)
    BY <1>4, <2>3 DEF Trouble, SkipDetection, DetectorsFail, AlertFails
  <2> QED
    BY <2>1, <2>2, <2>3
<1>5. ASSUME NEW p \in Procs, ProcessDies(p) PROVE LockNext
  BY <1>5 DEF ProcessDies, LockNext
<1>6. CASE KeyExpires \/ KeyLapses
  BY <1>6 DEF KeyExpires, KeyLapses, LockNext
<1>7. ASSUME NEW d \in Days, EventsArrive(d) \/ PickUp(d) PROVE UNCHANGED lockVars
  BY <1>7 DEF EventsArrive, PickUp
<1>8. CASE DayPasses \/ ViewProfile
  BY <1>8 DEF DayPasses, ViewProfile
<1>9. CASE UNCHANGED vars
  BY <1>9 DEF vars
<1> QED
  BY <1>1, <1>2, <1>3, <1>4, <1>5, <1>6, <1>7, <1>8, <1>9 DEF Next

(* The pipeline's runs are runs of the coordinator (RunLock).              *)
THEOREM RunsAreCoordinated == Spec => LockSpec
<1>1. Init => LockInit
  BY DEF Init
<1> QED
  BY <1>1, PipelineStepsLock, PTL DEF Spec, LockSpec

(* The inductive invariant of the lock holds in every run of the pipeline. *)
THEOREM LockInvariance == LockSpec => []LockInv
<1>1. LockInv /\ [LockNext]_lockVars => LockInv'
  BY LockTypeStep, StrayStep DEF LockInv
<1> QED
  BY <1>1, LockStart, PTL DEF LockSpec

(* Whatever the number of processes, the triggers, crashes and shutdowns:  *)
(* there are at most as many pipeline runs at once as locks were lost,     *)
(* plus one (PipelineCoordinator.run, _acquire, _release).                 *)
THEOREM RunsStayBounded == Spec => []RunsBounded
BY RunsAreCoordinated, LockInvariance, StraysBoundRuns, PTL

-----------------------------------------------------------------------------
(* What a run that nothing came between can rely on.                       *)
(* The stages of a run, by what has been done when they are reached.       *)
AfterStore == {"signals", "scores", "alerts"}
AfterClear == {"store"} \cup AfterStore
AfterJudge == {"read", "clear"} \cup AfterClear
AfterRows == {"baseline", "build", "judge"} \cup AfterJudge
Stages == {"start", "rows", "close"} \cup AfterRows

Progress == [stage : Stages, days : SUBSET Days, left : SUBSET Days, seen : [Days -> Nat],
             signals : [Days -> Nat], clean : BOOLEAN]

StoreTypeOK ==
  /\ today \in Lookback..MaxDay
  /\ version \in [Days -> Nat]
  /\ features \in [Days -> Nat] /\ findings \in [Days -> Nat]
  /\ scores \in [Days -> Nat] /\ alerts \in [Days -> Nat]
  /\ results \in [Days -> [version : Nat, yard : Nat]]
  /\ baseline \in Nat
  /\ taken \subseteq Days
  /\ open \in [Tasks -> Nat]
  /\ work \in [Tasks -> Progress]
  /\ viewed \in BOOLEAN

(* A task that is not running remembers nothing.                           *)
Resting == \A t \in Tasks : phase[t] # "run" => work[t] = Rest

(* A run is about Lookback days in a row that ended by now, and a loop has *)
(* taken a beginning of them.                                              *)
Spanned(w, now) ==
  \E n \in Lookback..now :
    /\ w.days = (n - Lookback + 1)..n
    /\ \E a \in w.days : w.left = a..n
    /\ w.stage \in {"baseline", "build", "read", "clear", "signals"} => w.left = w.days
Spans == \A t \in Tasks : work[t].stage # "start" => Spanned(work[t], today)

(* A clean run is the only one.                                            *)
Alone ==
  \A t \in Tasks : work[t].clean =>
    work[t].stage # "start" /\ \A u \in Tasks \ {t} : work[u].stage = "start"

(* The days a run has dealt with in stage `here`: all, when it is past it. *)
Covered(w, here, later) ==
  {d \in w.days : w.stage \in later \/ (w.stage = here /\ d \notin w.left)}

(* What a clean run has done so far is in step with the events, whatever   *)
(* the stores said before it.                                              *)
Accurate(w) ==
  /\ \A d \in w.days : w.seen[d] = version[d]
  /\ \A d \in Covered(w, "rows", AfterRows) : features[d] = version[d]
  /\ \A d \in Covered(w, "judge", AfterJudge) :
       version[d] > 0 => results[d].version = version[d]
  /\ \A d \in Covered(w, "", AfterClear) : version[d] \notin Spiky => findings[d] = 0
  /\ \A d \in Covered(w, "store", AfterStore) : findings[d] = FindingOf(d)
  /\ \A d \in Covered(w, "", {"scores", "alerts"}) : w.signals[d] = FindingOf(d)
  /\ \A d \in Covered(w, "scores", {"alerts"}) : scores[d] = FindingOf(d)
  /\ \A d \in Covered(w, "alerts", {}) :
       FindingOf(d) # 0 /\ d \notin taken => alerts[d] = FindingOf(d)
  /\ w.stage = "close" => \A d \in w.days : Fresh(d)

CleanInv == \A t \in Tasks : \A w \in {work[t]} : w.clean => Accurate(w)

(* No baseline, committed or open, reaches past the midnight a day of the  *)
(* run starts with.                                                        *)
NoLater(w) ==
  w.stage # "start" =>
    \A d \in w.days : baseline <= 2 * d /\ \A u \in Tasks : open[u] <= 2 * d
(* Without a lost lock and a profile view, baselines reach at most to the  *)
(* first day looked back to, and to no day of a run under way.             *)
Reached == 2 * (today - Lookback + 1)
YardInv ==
  viewed \/ lapses > 0 \/
    /\ baseline <= Reached /\ \A u \in Tasks : open[u] <= Reached
    /\ \A t \in Tasks : \A w \in {work[t]} : NoLater(w)
    /\ YardstickHonest

-----------------------------------------------------------------------------
(* Windows are intervals, and the loops take them from the left.           *)

(* trailing_window is an interval.                                         *)
LEMMA WindowIs ==
  ASSUME NEW n \in Lookback..MaxDay
  PROVE  /\ Window(n) = (n - Lookback + 1)..n
         /\ n \in Window(n) /\ (n - Lookback + 1) \in Window(n)
         /\ Window(n) \subseteq Days
BY SettingsAssumption DEF Window, Days

(* The first day of an interval.                                           *)
LEMMA FirstIs ==
  ASSUME NEW a \in Int, NEW n \in Int, a <= n
  PROVE  First(a..n) = a
<1>1. \E x \in a..n : \A e \in a..n : x <= e
  BY a \in a..n
<1>2. First(a..n) \in a..n /\ \A e \in a..n : First(a..n) <= e
  BY <1>1 DEF First
<1>3. First(a..n) <= a
  BY <1>2
<1> QED
  BY <1>2, <1>3

(* One turn of a loop. *)
LEMMA TurnTaken ==
  ASSUME StoreTypeOK, Spans, NEW t \in Tasks, NEW here, NEW next \in Stages, NEW d,
         Turn(t, here, d), here \in Stages \ {"start", "baseline", "build", "read", "clear", "signals"}
  PROVE  LET w == After(t, d, next) IN
           /\ w \in Progress /\ w.days = work[t].days /\ w.seen = work[t].seen
           /\ w.signals = work[t].signals /\ w.clean = work[t].clean
           /\ d \in w.days
           /\ Spanned(w, today)
           /\ \/ w.stage = here /\ w.left = work[t].left \ {d}
              \/ w.stage = next /\ w.left = w.days /\ work[t].left = {d}
<1>1. work[t] \in Progress /\ work \in [Tasks -> Progress] /\ work[t].stage = here
  BY DEF StoreTypeOK, Turn, At
<1>2. PICK n \in Lookback..today :
        /\ work[t].days = (n - Lookback + 1)..n
        /\ \E a \in work[t].days : work[t].left = a..n
  BY <1>1 DEF Spans, Spanned
<1>3. PICK a \in work[t].days : work[t].left = a..n
  BY <1>2
<1>4. Lookback \in Nat \ {0} /\ today \in Int /\ n \in Int /\ a \in Int /\ a <= n
  BY <1>2, SettingsAssumption DEF StoreTypeOK
<1>5. d = a
  BY <1>3, <1>4, FirstIs DEF Turn
<1>6. CASE work[t].left = {d}
  <2> DEFINE w == [work[t] EXCEPT !.left = work[t].days, !.stage = next]
  <2>1. After(t, d, next) = w
    BY <1>6 DEF After
  <2>2. /\ w \in Progress /\ w.days = work[t].days /\ w.seen = work[t].seen
        /\ w.signals = work[t].signals /\ w.clean = work[t].clean
        /\ w.stage = next /\ w.left = work[t].days
    BY <1>1 DEF Progress
  <2>3. (n - Lookback + 1) \in work[t].days
    BY <1>2, <1>4
  <2> HIDE DEF w
  <2>4. Spanned(w, today)
    BY <1>2, <2>2, <2>3 DEF Spanned
  <2> QED
    BY <1>3, <1>5, <1>6, <2>1, <2>2, <2>4
<1>7. CASE work[t].left # {d}
  <2> DEFINE w == [work[t] EXCEPT !.left = work[t].left \ {d}]
  <2>1. After(t, d, next) = w
    BY <1>7 DEF After
  <2>2. /\ w \in Progress /\ w.days = work[t].days /\ w.seen = work[t].seen
        /\ w.signals = work[t].signals /\ w.clean = work[t].clean
        /\ w.stage = here /\ w.left = work[t].left \ {d}
    BY <1>1 DEF Progress
  <2>3. a < n
    BY <1>3, <1>4, <1>5, <1>7
  <2>4. w.left = (a + 1)..n /\ a + 1 \in work[t].days
    BY <1>2, <1>3, <1>4, <1>5, <2>2, <2>3
  <2> HIDE DEF w
  <2>5. Spanned(w, today)
    BY <1>2, <2>2, <2>4 DEF Spanned
  <2> QED
    BY <1>3, <1>5, <2>1, <2>2, <2>5
<1> QED
  BY <1>6, <1>7

-----------------------------------------------------------------------------
(* The shapes of a step.                                                   *)

(* A run past its start goes on by itself. *)
LEMMA OwnStep ==
  ASSUME StoreTypeOK, Resting, Spans, Alone, NEW t \in Tasks, NEW w \in Progress,
         phase[t] = "run", work[t].stage # "start", w.stage # "start",
         work' = [work EXCEPT ![t] = w], phase' = phase, today' = today,
         Spanned(w, today), w.clean => work[t].clean, w.clean => Accurate(w)'
  PROVE  work' \in [Tasks -> Progress] /\ Resting' /\ Spans' /\ Alone' /\ CleanInv'
<1>1. /\ work \in [Tasks -> Progress] /\ work' \in [Tasks -> Progress] /\ work'[t] = w
      /\ \A x \in Tasks : x # t => work'[x] = work[x]
  BY DEF StoreTypeOK
<1>2. Resting'
  BY <1>1 DEF Resting
<1>3. Spans'
  BY <1>1 DEF Spans
<1>4. \A x \in Tasks : work'[x].clean => x = t
  BY <1>1 DEF Alone
<1>5. Alone'
  BY <1>1, <1>4 DEF Alone
<1>6. CleanInv'
  BY <1>1, <1>4 DEF CleanInv
<1> QED
  BY <1>1, <1>2, <1>3, <1>5, <1>6

(* What the stores say of a run stands as long as they stand. *)
LEMMA AccurateStays ==
  ASSUME NEW w, Accurate(w),
         UNCHANGED <<version, features, results, findings, scores, alerts, taken>>
  PROVE  Accurate(w)'
<1>1. \A e : FindingOf(e)' = FindingOf(e) /\ (Fresh(e)' <=> Fresh(e))
  BY DEF FindingOf, Fresh
<1>2. /\ version' = version /\ features' = features /\ results' = results
      /\ findings' = findings /\ scores' = scores /\ alerts' = alerts /\ taken' = taken
  OBVIOUS
<1> QED
  BY <1>1, <1>2 DEF Accurate, Covered, AfterRows, AfterJudge, AfterClear, AfterStore

(* The runs of S end, others go on as they were. *)
LEMMA RestStep ==
  ASSUME StoreTypeOK, Resting, Spans, Alone, CleanInv, NEW S \in SUBSET Tasks,
         work' = [x \in Tasks |-> IF x \in S THEN Rest ELSE work[x]],
         \A x \in Tasks : phase'[x] # "run" => x \in S \/ work[x] = Rest,
         UNCHANGED <<today, version, features, results, findings, scores, alerts, taken>>
  PROVE  work' \in [Tasks -> Progress] /\ Resting' /\ Spans' /\ Alone' /\ CleanInv'
<1>1. Rest \in Progress /\ Rest.stage = "start" /\ ~Rest.clean
  BY DEF Rest, Progress, Nothing, Stages
<1>2. work' \in [Tasks -> Progress]
  BY <1>1 DEF StoreTypeOK
<1>3. \A x \in Tasks : work'[x] = Rest \/ work'[x] = work[x]
  OBVIOUS
<1>4. Resting'
  BY DEF Resting
<1>5. Spans'
  BY <1>1, <1>3 DEF Spans
<1>6. Alone'
  BY <1>1, <1>3 DEF Alone
<1>7. CleanInv'
  BY <1>1, <1>3, AccurateStays DEF CleanInv
<1> QED
  BY <1>2, <1>4, <1>5, <1>6, <1>7

(* What a step has to show of a run it belongs to. *)
LEMMA AccurateNext ==
  ASSUME NEW w, version' = version,
         \A d \in w.days : w.seen[d] = version[d],
         \A d \in Covered(w, "rows", AfterRows) : features'[d] = version[d],
         \A d \in Covered(w, "judge", AfterJudge) :
           version[d] > 0 => results'[d].version = version[d],
         \A d \in Covered(w, "", AfterClear) : version[d] \notin Spiky => findings'[d] = 0,
         \A d \in Covered(w, "store", AfterStore) : findings'[d] = FindingOf(d),
         \A d \in Covered(w, "", {"scores", "alerts"}) : w.signals[d] = FindingOf(d),
         \A d \in Covered(w, "scores", {"alerts"}) : scores'[d] = FindingOf(d),
         \A d \in Covered(w, "alerts", {}) :
           FindingOf(d) # 0 /\ d \notin taken' => alerts'[d] = FindingOf(d),
         w.stage = "close" => \A d \in w.days : Fresh(d)'
  PROVE  Accurate(w)'
<1>1. \A d : FindingOf(d)' = FindingOf(d)
  BY DEF FindingOf
<1> QED
  BY <1>1 DEF Accurate, Covered, AfterRows, AfterJudge, AfterClear, AfterStore

(* A run that is no longer clean is otherwise as it was.                   *)
LEMMA Uncleaned ==
  ASSUME NEW w \in Progress
  PROVE  /\ [w EXCEPT !.clean = FALSE] \in Progress
         /\ [w EXCEPT !.clean = FALSE].clean = FALSE
         /\ [w EXCEPT !.clean = FALSE].stage = w.stage
         /\ [w EXCEPT !.clean = FALSE].days = w.days
         /\ [w EXCEPT !.clean = FALSE].left = w.left
         /\ w = Rest => [w EXCEPT !.clean = FALSE] = w
<1> DEFINE u == [w EXCEPT !.clean = FALSE]
<1>1. /\ u \in Progress /\ u.clean = FALSE /\ u.stage = w.stage /\ u.days = w.days /\ u.left = w.left
      /\ u.seen = w.seen /\ u.signals = w.signals
  BY DEF Progress
<1> HIDE DEF u
<1>2. ASSUME w = Rest PROVE u = w
  <2>1. w \in Progress /\ w.clean = u.clean
    BY <1>1, <1>2 DEF Rest
  <2> QED
    BY <1>1, <2>1 DEF Progress
<1> QED
  BY <1>1, <1>2 DEF u

RunInv == StoreTypeOK /\ Resting /\ Spans /\ Alone /\ CleanInv

-----------------------------------------------------------------------------
(* Every step keeps the runs.                                              *)

(* A run v has dealt with day d in a loop, and goes on as w. *)
Moved(v, w, here, next, d) ==
  /\ w.days = v.days /\ w.seen = v.seen /\ w.signals = v.signals /\ w.clean = v.clean
  /\ d \in w.days /\ Spanned(w, today)
  /\ \/ w.stage = here /\ w.left = v.left \ {d}
     \/ w.stage = next /\ w.left = w.days /\ v.left = {d}

(* A turn of a loop moves its run, and both are runs.                      *)
LEMMA LoopMoves ==
  ASSUME RunInv, NEW t \in Tasks, NEW here, NEW next \in Stages, NEW d,
         here \in Stages \ {"start", "baseline", "build", "read", "clear", "signals"},
         Turn(t, here, d)
  PROVE  \E v \in Progress, w \in Progress :
           /\ v = work[t] /\ w = After(t, d, next) /\ v.stage = here /\ phase[t] = "run"
           /\ Moved(v, w, here, next, d)
<1>1. work[t] \in Progress
  BY DEF RunInv, StoreTypeOK
<1>2. work[t].stage = here /\ phase[t] = "run"
  BY DEF Turn, At
<1>3. After(t, d, next) \in Progress /\ Moved(work[t], After(t, d, next), here, next, d)
  BY TurnTaken DEF RunInv, Moved
<1> QED
  BY <1>1, <1>2, <1>3

(* No run is under way at first.                                           *)
LEMMA RunsStart == Init => RunInv
<1> SUFFICES ASSUME Init PROVE RunInv
  OBVIOUS
<1>1. /\ Rest \in Progress /\ Rest.stage = "start" /\ ~Rest.clean
      /\ Nothing \in [Days -> Nat] /\ [d \in Days |-> NoResult] \in [Days -> [version : Nat, yard : Nat]]
  BY DEF Rest, Progress, Nothing, Stages, NoResult
<1>2. StoreTypeOK
  <2>1. Lookback \in Lookback..MaxDay
    BY SettingsAssumption
  <2> QED
    BY <1>1, <2>1 DEF Init, StoreTypeOK
<1>3. Resting /\ Spans /\ Alone /\ CleanInv
  BY <1>1 DEF Init, Resting, Spans, Alone, CleanInv
<1> QED
  BY <1>2, <1>3 DEF RunInv

(* A run starts, clean if no other is running: the others are clean no     *)
(* more.                                                                   *)
LEMMA DiscoverKeeps ==
  ASSUME RunInv, NEW t \in Tasks, Discover(t)
  PROVE  RunInv'
<1> DEFINE days == Window(today)
           idle == \A d \in days : version[d] = 0
           new == [Rest EXCEPT
                     !.stage = IF idle THEN "close" ELSE "rows",
                     !.days = days, !.left = days,
                     !.seen = [d \in Days |-> IF d \in days THEN version[d] ELSE 0],
                     !.clean = Running = {t}]
<1>1. /\ At(t, "start")
      /\ work' = [u \in Tasks |-> CASE u = t -> new [] OTHER -> [work[u] EXCEPT !.clean = FALSE]]
      /\ UNCHANGED <<lockVars, storeVars, worldVars, open>>
  BY Zenon DEF Discover
<1>2. /\ UNCHANGED <<today, version, features, baseline, results, findings, scores, alerts, taken>>
      /\ UNCHANGED <<viewed, open, phase>>
  BY <1>1 DEF storeVars, worldVars, lockVars
<1>3. /\ days = (today - Lookback + 1)..today /\ today \in days /\ (today - Lookback + 1) \in days
      /\ days \subseteq Days
  BY WindowIs DEF RunInv, StoreTypeOK
<1>4. /\ new.stage \in {"close", "rows"} /\ new.days = days /\ new.left = days
      /\ \A d \in days : new.seen[d] = version[d]
      /\ new.stage = "close" => idle
      /\ new.clean => Running = {t}
      /\ new \in Progress
  <2>1. [d \in Days |-> IF d \in days THEN version[d] ELSE 0] \in [Days -> Nat]
    BY DEF RunInv, StoreTypeOK
  <2>2. Rest \in Progress
    BY DEF Rest, Progress, Nothing, Stages
  <2>3. (IF idle THEN "close" ELSE "rows") \in {"close", "rows"}
    OBVIOUS
  <2> HIDE DEF days, idle
  <2> QED
    BY <1>3, <2>1, <2>2, <2>3 DEF Rest, Progress, Stages
<1> HIDE DEF new, days
<1>5. /\ work'[t] = new
      /\ \A u \in Tasks : u # t => work'[u] = [work[u] EXCEPT !.clean = FALSE]
  BY <1>1
<1>6. \A u \in Tasks : u # t => /\ work'[u] \in Progress /\ ~work'[u].clean
                                /\ work'[u].stage = work[u].stage /\ work'[u].days = work[u].days
                                /\ work'[u].left = work[u].left
                                /\ work[u] = Rest => work'[u] = Rest
  <2> SUFFICES ASSUME NEW u \in Tasks, u # t
               PROVE  /\ work'[u] \in Progress /\ ~work'[u].clean
                      /\ work'[u].stage = work[u].stage /\ work'[u].days = work[u].days
                      /\ work'[u].left = work[u].left
                      /\ work[u] = Rest => work'[u] = Rest
    OBVIOUS
  <2>1. work[u] \in Progress
    BY DEF RunInv, StoreTypeOK
  <2>2. work'[u] = [work[u] EXCEPT !.clean = FALSE]
    BY <1>5
  <2> QED
    BY <2>1, <2>2, Uncleaned
<1>7. work' \in [Tasks -> Progress]
  BY <1>1, <1>4, <1>5, <1>6
<1>8. Resting'
  <2> SUFFICES ASSUME NEW u \in Tasks, phase[u] # "run" PROVE work'[u] = Rest
    BY <1>2 DEF Resting
  <2>1. u # t /\ work[u] = Rest
    BY <1>1 DEF RunInv, Resting, At
  <2> QED
    BY <1>6, <2>1
<1>9. Spans'
  <2>1. Spanned(new, today)
    <3>1. today \in Lookback..today
      BY SettingsAssumption DEF RunInv, StoreTypeOK
    <3> QED
      BY <1>3, <1>4, <3>1 DEF Spanned
  <2> SUFFICES ASSUME NEW u \in Tasks, work'[u].stage # "start" PROVE Spanned(work'[u], today)
    BY <1>2 DEF Spans
  <2>2. CASE u # t
    BY <1>6, <2>2 DEF RunInv, Spans, Spanned
  <2> QED
    BY <1>5, <2>1, <2>2
<1>10. Alone'
  <2> SUFFICES ASSUME NEW x \in Tasks, work'[x].clean
               PROVE  work'[x].stage # "start" /\ \A u \in Tasks \ {x} : work'[u].stage = "start"
    BY DEF Alone
  <2>1. x = t /\ Running = {t}
    BY <1>4, <1>5, <1>6
  <2>2. \A u \in Tasks \ {t} : work[u] = Rest
    BY <2>1 DEF Running, RunInv, Resting
  <2> QED
    BY <1>4, <1>5, <1>6, <2>1, <2>2 DEF Rest
<1>11. CleanInv'
  <2>1. ASSUME NEW w \in {new} PROVE Accurate(w)'
    <3>1. /\ w.stage \in {"close", "rows"} /\ w.days = days /\ w.left = days
          /\ \A d \in days : w.seen[d] = version[d]
          /\ w.stage = "close" => \A d \in days : version[d] = 0
      BY <1>4, <2>1
    <3>2. w.stage = "close" => \A d \in days : Fresh(d)'
      BY <1>2, <3>1 DEF Fresh
    <3> QED
      BY <1>2, <3>1, <3>2 DEF Accurate, Covered, AfterRows, AfterJudge, AfterClear, AfterStore
  <2> QED
    BY <1>5, <1>6, <2>1 DEF CleanInv
<1>12. StoreTypeOK'
  BY <1>2, <1>7 DEF RunInv, StoreTypeOK
<1> QED
  BY <1>8, <1>9, <1>10, <1>11, <1>12 DEF RunInv

LEMMA WriteRowKeeps ==
  ASSUME RunInv, NEW t \in Tasks, NEW d \in Days, WriteRow(t, d)
  PROVE  RunInv'
<1>1. /\ Turn(t, "rows", d) /\ work' = [work EXCEPT ![t] = After(t, d, "baseline")]
      /\ features' = [features EXCEPT ![d] = work[t].seen[d]]
      /\ UNCHANGED <<lockVars, baseline, results, findings, scores, alerts, taken, worldVars, open>>
  BY DEF WriteRow, Loop
<1>2. /\ UNCHANGED <<today, version, baseline, results, findings, scores, alerts, taken>>
      /\ UNCHANGED <<viewed, open, phase>>
  BY <1>1 DEF worldVars, lockVars
<1>3. PICK v \in Progress, w \in Progress :
        /\ v = work[t] /\ work' = [work EXCEPT ![t] = w] /\ v.stage = "rows" /\ phase[t] = "run"
        /\ Moved(v, w, "rows", "baseline", d)
  BY <1>1, LoopMoves DEF Stages, AfterRows
<1>4. ASSUME w.clean PROVE Accurate(w)'
  <2>1. Accurate(v)
    BY <1>3, <1>4 DEF RunInv, CleanInv, Moved
  <2>2. features'[d] = v.seen[d] /\ \A e \in Days \ {d} : features'[e] = features[e]
    BY <1>1, <1>3 DEF RunInv, StoreTypeOK
  <2>3. /\ Covered(w, "judge", AfterJudge) = {} /\ Covered(w, "", AfterClear) = {}
        /\ Covered(w, "store", AfterStore) = {} /\ Covered(w, "", {"scores", "alerts"}) = {}
        /\ Covered(w, "scores", {"alerts"}) = {} /\ Covered(w, "alerts", {}) = {}
        /\ w.stage # "close"
    BY <1>3 DEF Moved, Covered, AfterRows, AfterJudge, AfterClear, AfterStore
  <2>4. \A e \in Covered(w, "rows", AfterRows) : e = d \/ e \in Covered(v, "rows", AfterRows)
    BY <1>3 DEF Moved, Covered
  <2>5. \A e \in Covered(w, "rows", AfterRows) : features'[e] = version[e]
    BY <1>3, <2>1, <2>2, <2>4 DEF Accurate, Moved, Covered, Progress
  <2> QED
    BY <1>2, <1>3, <2>1, <2>3, <2>5, AccurateNext DEF Accurate, Moved
<1>5. work' \in [Tasks -> Progress] /\ Resting' /\ Spans' /\ Alone' /\ CleanInv'
  BY <1>2, <1>3, <1>4, OwnStep DEF RunInv, Moved
<1>6. StoreTypeOK'
  BY <1>1, <1>2, <1>3, <1>5 DEF RunInv, StoreTypeOK, Progress
<1> QED
  BY <1>5, <1>6 DEF RunInv

(* A run goes from one stage to the next. *)
Passed(v, w, next) ==
  /\ w.days = v.days /\ w.left = v.days /\ w.stage = next /\ w.clean = v.clean
  /\ Spanned(w, today)

(* A stage without a loop passes its run on.                               *)
LEMMA StageMoves ==
  ASSUME RunInv, NEW t \in Tasks, NEW here \in {"baseline", "build", "read", "clear", "signals"},
         NEW next \in Stages \ {"start"}, At(t, here)
  PROVE  \E v \in Progress, w \in Progress :
           /\ v = work[t] /\ v.stage = here /\ phase[t] = "run"
           /\ w = [v EXCEPT !.stage = next] /\ Stage(t, next) = [work EXCEPT ![t] = w]
           /\ Passed(v, w, next) /\ w.seen = v.seen /\ w.signals = v.signals
<1> DEFINE v == work[t]
           w == [v EXCEPT !.stage = next]
<1>1. v \in Progress /\ v.stage = here /\ here # "start" /\ phase[t] = "run"
  BY DEF RunInv, StoreTypeOK, At
<1>2. Stage(t, next) = [work EXCEPT ![t] = w]
  BY DEF Stage
<1> HIDE DEF v
<1>3. /\ w \in Progress /\ w.days = v.days /\ w.left = v.left /\ w.stage = next
      /\ w.clean = v.clean /\ w.seen = v.seen /\ w.signals = v.signals
  BY <1>1 DEF Progress
<1>4. Spanned(v, today)
  BY <1>1 DEF RunInv, Spans, v
<1>5. v.left = v.days
  BY <1>1, <1>4 DEF Spanned
<1> HIDE DEF w
<1>6. Spanned(w, today)
  BY <1>3, <1>4, <1>5 DEF Spanned
<1> QED
  BY <1>1, <1>2, <1>3, <1>5, <1>6 DEF Passed, v, w

(* A stage that only looks: nothing is covered that was not. *)
LEMMA LookedKeeps ==
  ASSUME RunInv, NEW t \in Tasks, NEW v \in Progress, NEW w \in Progress,
         v = work[t], phase[t] = "run", work' = [work EXCEPT ![t] = w],
         Passed(v, w, w.stage), w.seen = v.seen, w.signals = v.signals,
         \/ v.stage = "baseline" /\ w.stage \in {"build", "judge"}
         \/ v.stage = "build" /\ w.stage = "judge",
         UNCHANGED <<today, version, features, baseline, results, findings, scores, alerts, taken>>,
         UNCHANGED <<viewed, phase>>, open' \in [Tasks -> Nat]
  PROVE  RunInv'
<1>1. ASSUME w.clean PROVE Accurate(w)'
  <2>1. Accurate(v)
    BY <1>1 DEF RunInv, CleanInv, Passed
  <2>2. /\ Covered(w, "judge", AfterJudge) = {} /\ Covered(w, "", AfterClear) = {}
        /\ Covered(w, "store", AfterStore) = {} /\ Covered(w, "", {"scores", "alerts"}) = {}
        /\ Covered(w, "scores", {"alerts"}) = {} /\ Covered(w, "alerts", {}) = {}
        /\ w.stage # "close"
    BY DEF Passed, Covered, AfterRows, AfterJudge, AfterClear, AfterStore
  <2>3. \A e \in Covered(w, "rows", AfterRows) : e \in Covered(v, "rows", AfterRows)
    BY DEF Passed, Covered, AfterRows
  <2> QED
    BY <2>1, <2>2, <2>3, AccurateNext DEF Accurate, Passed
<1>2. work' \in [Tasks -> Progress] /\ Resting' /\ Spans' /\ Alone' /\ CleanInv'
  BY <1>1, OwnStep DEF RunInv, Passed
<1>3. StoreTypeOK'
  BY <1>2 DEF RunInv, StoreTypeOK
<1> QED
  BY <1>2, <1>3 DEF RunInv

(* A run has a first day, no later than the oldest day looked back to now. *)
LEMMA FirstDay ==
  ASSUME StoreTypeOK, Spans, NEW t \in Tasks, work[t].stage # "start"
  PROVE  /\ First(work[t].days) \in work[t].days /\ First(work[t].days) \in Nat
         /\ First(work[t].days) <= today - Lookback + 1
         /\ \A d \in work[t].days : First(work[t].days) <= d
<1>1. PICK n \in Lookback..today :
        work[t].days = (n - Lookback + 1)..n /\ work[t].days # {}
  BY DEF Spans, Spanned
<1>2. Lookback \in Nat \ {0} /\ today \in Int /\ n \in Int
  BY <1>1, SettingsAssumption DEF StoreTypeOK
<1>3. First(work[t].days) = n - Lookback + 1
  BY <1>1, <1>2, FirstIs
<1> QED
  BY <1>1, <1>2, <1>3

LEMMA BaselineStagesKeep ==
  ASSUME RunInv, NEW t \in Tasks, ReadBaseline(t) \/ KeepBaseline(t) \/ BuildBaseline(t)
  PROVE  RunInv'
<1>1. PICK here \in {"baseline", "build"}, next \in {"build", "judge"} :
        /\ At(t, here) /\ work' = Stage(t, next) /\ (here = "build" => next = "judge")
  <2>1. CASE ReadBaseline(t)
    BY <2>1 DEF ReadBaseline
  <2>2. CASE KeepBaseline(t) \/ BuildBaseline(t)
    BY <2>2 DEF KeepBaseline, BuildBaseline
  <2> QED
    BY <2>1, <2>2
<1>2. /\ UNCHANGED <<today, version, features, baseline, results, findings, scores, alerts, taken>>
      /\ UNCHANGED <<viewed, phase>>
  BY DEF ReadBaseline, KeepBaseline, BuildBaseline, storeVars, worldVars, lockVars
<1>3. open' \in [Tasks -> Nat]
  <2>1. CASE BuildBaseline(t)
    <3>1. 2 * First(work[t].days) \in Nat
      BY <2>1, FirstDay DEF BuildBaseline, At, RunInv
    <3> QED
      BY <2>1, <3>1 DEF BuildBaseline, WindowStart, RunInv, StoreTypeOK
  <2>2. CASE ReadBaseline(t) \/ KeepBaseline(t)
    BY <2>2 DEF ReadBaseline, KeepBaseline, RunInv, StoreTypeOK
  <2> QED
    BY <2>1, <2>2
<1>4. here \in {"baseline", "build", "read", "clear", "signals"} /\ next \in Stages \ {"start"}
  BY DEF Stages, AfterRows
<1>5. PICK v \in Progress, w \in Progress :
        /\ v = work[t] /\ v.stage = here /\ phase[t] = "run"
        /\ Stage(t, next) = [work EXCEPT ![t] = w]
        /\ Passed(v, w, next) /\ w.seen = v.seen /\ w.signals = v.signals
  BY <1>1, <1>4, StageMoves
<1>6. w.stage = next
  BY <1>5 DEF Passed
<1> QED
  BY <1>1, <1>2, <1>3, <1>5, <1>6, LookedKeeps

LEMMA JudgeKeeps ==
  ASSUME RunInv, NEW t \in Tasks, NEW d \in Days, Judge(t, d)
  PROVE  RunInv'
<1>1. /\ Turn(t, "judge", d) /\ work' = [work EXCEPT ![t] = After(t, d, "read")]
      /\ results' = IF features[d] = 0 THEN results
                    ELSE [results EXCEPT ![d] = [version |-> features[d], yard |-> Yard(t)]]
      /\ UNCHANGED <<lockVars, features, baseline, findings, scores, alerts, taken, worldVars, open>>
  BY DEF Judge, Loop
<1>2. /\ UNCHANGED <<today, version, features, baseline, findings, scores, alerts, taken>>
      /\ UNCHANGED <<viewed, open, phase>>
  BY <1>1 DEF worldVars, lockVars
<1>3. PICK v \in Progress, w \in Progress :
        /\ v = work[t] /\ work' = [work EXCEPT ![t] = w] /\ v.stage = "judge" /\ phase[t] = "run"
        /\ Moved(v, w, "judge", "read", d)
  BY <1>1, LoopMoves DEF Stages, AfterRows, AfterJudge
<1>4. /\ results' \in [Days -> [version : Nat, yard : Nat]]
      /\ features[d] # 0 => results'[d].version = features[d]
      /\ \A e \in Days \ {d} : results'[e] = results[e]
  <2>1. Yard(t) \in Nat /\ features[d] \in Nat
    BY DEF Yard, RunInv, StoreTypeOK
  <2>2. [version |-> features[d], yard |-> Yard(t)] \in [version : Nat, yard : Nat]
    BY <2>1
  <2> QED
    BY <1>1, <2>1, <2>2 DEF RunInv, StoreTypeOK
<1>5. ASSUME w.clean PROVE Accurate(w)'
  <2>1. Accurate(v)
    BY <1>3, <1>5 DEF RunInv, CleanInv, Moved
  <2>2. /\ Covered(w, "", AfterClear) = {}
        /\ Covered(w, "store", AfterStore) = {} /\ Covered(w, "", {"scores", "alerts"}) = {}
        /\ Covered(w, "scores", {"alerts"}) = {} /\ Covered(w, "alerts", {}) = {}
        /\ w.stage # "close"
    BY <1>3 DEF Moved, Covered, AfterRows, AfterJudge, AfterClear, AfterStore
  <2>3. /\ \A e \in w.days : e \in Covered(v, "rows", AfterRows)
        /\ Covered(w, "rows", AfterRows) \subseteq w.days
        /\ \A e \in Covered(w, "judge", AfterJudge) : e = d \/ e \in Covered(v, "judge", AfterJudge)
        /\ Covered(w, "judge", AfterJudge) \subseteq w.days
    BY <1>3 DEF Moved, Covered, AfterRows
  <2>4. \A e \in w.days : features[e] = version[e] /\ e \in Days
    BY <1>3, <2>1, <2>3 DEF Accurate, Moved, Progress
  <2>5. \A e \in Covered(w, "judge", AfterJudge) : version[e] > 0 => results'[e].version = version[e]
    <3> SUFFICES ASSUME NEW e \in Covered(w, "judge", AfterJudge), version[e] > 0
                 PROVE  results'[e].version = version[e]
      OBVIOUS
    <3>1. e \in w.days /\ features[e] = version[e] /\ version[e] # 0
      BY <2>3, <2>4
    <3>2. CASE e = d
      BY <1>4, <3>1, <3>2
    <3>3. CASE e # d
      <4>1. e \in Covered(v, "judge", AfterJudge) /\ e \in Days
        BY <2>3, <2>4, <3>3
      <4>2. results[e].version = version[e]
        BY <2>1, <4>1 DEF Accurate
      <4> QED
        BY <1>4, <3>3, <4>1, <4>2
    <3> QED
      BY <3>2, <3>3
  <2>6. \A e \in Covered(w, "rows", AfterRows) : features'[e] = version[e]
    BY <1>2, <2>3, <2>4
  <2>7. \A e \in w.days : w.seen[e] = version[e]
    BY <1>3, <2>1 DEF Accurate, Moved
  <2> QED
    BY <1>2, <2>2, <2>5, <2>6, <2>7, AccurateNext
<1>6. work' \in [Tasks -> Progress] /\ Resting' /\ Spans' /\ Alone' /\ CleanInv'
  BY <1>2, <1>3, <1>5, OwnStep DEF RunInv, Moved
<1>7. StoreTypeOK'
  BY <1>2, <1>4, <1>6 DEF RunInv, StoreTypeOK
<1> QED
  BY <1>6, <1>7 DEF RunInv

LEMMA ReadEventsKeeps ==
  ASSUME RunInv, NEW t \in Tasks, ReadEvents(t)
  PROVE  RunInv'
<1> DEFINE read == [d \in Days |-> IF d \in work[t].days THEN version[d] ELSE 0]
           new == [work[t] EXCEPT !.stage = "clear", !.seen = read]
<1>1. /\ At(t, "read")
      /\ UNCHANGED <<today, version, features, baseline, results, findings, scores, alerts, taken>>
      /\ UNCHANGED <<viewed, open, phase>>
  BY DEF ReadEvents, storeVars, worldVars, lockVars
<1>2. work[t] \in Progress /\ work \in [Tasks -> Progress] /\ version \in [Days -> Nat]
  BY DEF RunInv, StoreTypeOK
<1>3. work' = [work EXCEPT ![t] = new]
  BY <1>2 DEF ReadEvents
<1>4. read \in [Days -> Nat] /\ \A d \in work[t].days : read[d] = version[d]
  BY <1>2 DEF Progress
<1> HIDE DEF read
<1>5. /\ new \in Progress /\ new.stage = "clear" /\ new.days = work[t].days
      /\ new.left = work[t].left /\ new.seen = read /\ new.clean = work[t].clean
  BY <1>2, <1>4 DEF Progress, Stages, AfterRows, AfterJudge
<1> HIDE DEF new
<1>6. work[t].left = work[t].days /\ Spanned(new, today)
  BY <1>1, <1>5 DEF RunInv, Spans, Spanned, At
<1>7. PICK v \in Progress, w \in Progress : v = work[t] /\ w = new
  BY <1>2, <1>5
<1>8. ASSUME w.clean PROVE Accurate(w)'
  <2>1. Accurate(v)
    BY <1>5, <1>7, <1>8 DEF RunInv, CleanInv
  <2>2. /\ Covered(w, "", AfterClear) = {}
        /\ Covered(w, "store", AfterStore) = {} /\ Covered(w, "", {"scores", "alerts"}) = {}
        /\ Covered(w, "scores", {"alerts"}) = {} /\ Covered(w, "alerts", {}) = {}
        /\ w.stage # "close"
    BY <1>5, <1>7 DEF Covered, AfterClear, AfterStore
  <2>3. /\ Covered(w, "rows", AfterRows) = Covered(v, "rows", AfterRows)
        /\ Covered(w, "judge", AfterJudge) = Covered(v, "judge", AfterJudge)
    BY <1>1, <1>5, <1>7 DEF Covered, AfterRows, AfterJudge, At
  <2>4. \A e \in w.days : w.seen[e] = version[e]
    BY <1>4, <1>5, <1>7
  <2> QED
    BY <1>1, <2>1, <2>2, <2>3, <2>4, AccurateNext DEF Accurate
<1>9. /\ work' = [work EXCEPT ![t] = w] /\ Spanned(w, today) /\ phase[t] = "run"
      /\ work[t].stage # "start" /\ w.stage # "start" /\ (w.clean => work[t].clean)
  BY <1>1, <1>3, <1>5, <1>6, <1>7 DEF At
<1>10. work' \in [Tasks -> Progress] /\ Resting' /\ Spans' /\ Alone' /\ CleanInv'
  BY <1>1, <1>8, <1>9, OwnStep DEF RunInv
<1>11. StoreTypeOK'
  BY <1>1, <1>10 DEF RunInv, StoreTypeOK
<1> QED
  BY <1>10, <1>11 DEF RunInv

LEMMA ClearFindingsKeeps ==
  ASSUME RunInv, NEW t \in Tasks, ClearFindings(t)
  PROVE  RunInv'
<1>1. /\ At(t, "clear") /\ work' = Stage(t, "store")
      /\ findings' = [d \in Days |-> IF d \in work[t].days /\ ~Found(t, d) THEN 0 ELSE findings[d]]
      /\ UNCHANGED <<today, version, features, baseline, results, scores, alerts, taken>>
      /\ UNCHANGED <<viewed, open, phase>>
  BY DEF ClearFindings, storeVars, worldVars, lockVars
<1>2. PICK v \in Progress, w \in Progress :
        /\ v = work[t] /\ v.stage = "clear" /\ phase[t] = "run"
        /\ work' = [work EXCEPT ![t] = w]
        /\ Passed(v, w, "store") /\ w.seen = v.seen /\ w.signals = v.signals
  <2>1. "store" \in Stages \ {"start"}
    BY DEF Stages, AfterRows, AfterJudge, AfterClear
  <2> QED
    BY <1>1, <2>1, StageMoves
<1>3. findings' \in [Days -> Nat]
  BY <1>1 DEF RunInv, StoreTypeOK
<1>4. ASSUME w.clean PROVE Accurate(w)'
  <2>1. Accurate(v)
    BY <1>2, <1>4 DEF RunInv, CleanInv, Passed
  <2>2. /\ Covered(w, "store", AfterStore) = {} /\ Covered(w, "", {"scores", "alerts"}) = {}
        /\ Covered(w, "scores", {"alerts"}) = {} /\ Covered(w, "alerts", {}) = {}
        /\ w.stage # "close"
    BY <1>2 DEF Passed, Covered, AfterStore
  <2>3. /\ Covered(w, "rows", AfterRows) = Covered(v, "rows", AfterRows)
        /\ Covered(w, "judge", AfterJudge) = Covered(v, "judge", AfterJudge)
        /\ Covered(w, "", AfterClear) \subseteq v.days
    BY <1>2 DEF Passed, Covered, AfterRows, AfterJudge, AfterClear
  <2>4. \A e \in v.days : e \in Days /\ (Found(t, e) <=> version[e] \in Spiky)
    BY <1>2, <2>1 DEF Found, Accurate, Progress
  <2>5. \A e \in v.days : version[e] \notin Spiky => findings'[e] = 0
    BY <1>1, <1>2, <2>4
  <2>6. /\ \A e \in w.days : w.seen[e] = version[e]
        /\ \A e \in Covered(w, "rows", AfterRows) : features[e] = version[e]
        /\ \A e \in Covered(w, "judge", AfterJudge) : version[e] > 0 => results[e].version = version[e]
        /\ \A e \in Covered(w, "", AfterClear) : version[e] \notin Spiky => findings'[e] = 0
    BY <1>2, <2>1, <2>3, <2>5 DEF Accurate, Passed
  <2> QED
    BY <1>1, <2>2, <2>6, AccurateNext
<1>5. work' \in [Tasks -> Progress] /\ Resting' /\ Spans' /\ Alone' /\ CleanInv'
  BY <1>1, <1>2, <1>4, OwnStep DEF RunInv, Passed
<1>6. StoreTypeOK'
  BY <1>1, <1>3, <1>5 DEF RunInv, StoreTypeOK
<1> QED
  BY <1>5, <1>6 DEF RunInv

LEMMA StoreFindingKeeps ==
  ASSUME RunInv, NEW t \in Tasks, NEW d \in Days, StoreFinding(t, d)
  PROVE  RunInv'
<1>1. /\ Turn(t, "store", d) /\ work' = [work EXCEPT ![t] = After(t, d, "signals")]
      /\ findings' = IF Found(t, d) THEN [findings EXCEPT ![d] = work[t].seen[d]] ELSE findings
      /\ UNCHANGED <<today, version, features, baseline, results, scores, alerts, taken>>
      /\ UNCHANGED <<viewed, open, phase>>
  BY DEF StoreFinding, Loop, worldVars, lockVars
<1>2. PICK v \in Progress, w \in Progress :
        /\ v = work[t] /\ work' = [work EXCEPT ![t] = w] /\ v.stage = "store" /\ phase[t] = "run"
        /\ Moved(v, w, "store", "signals", d)
  <2>1. "signals" \in Stages
        /\ "store" \in Stages \ {"start", "baseline", "build", "read", "clear", "signals"}
    BY DEF Stages, AfterRows, AfterJudge, AfterClear, AfterStore
  <2> QED
    BY <1>1, <2>1, LoopMoves
<1>3. /\ findings' \in [Days -> Nat]
      /\ Found(t, d) => findings'[d] = v.seen[d]
      /\ ~Found(t, d) => findings'[d] = findings[d]
      /\ \A e \in Days \ {d} : findings'[e] = findings[e]
  <2>1. v.seen[d] \in Nat
    BY DEF Progress
  <2> QED
    BY <1>1, <1>2, <2>1 DEF RunInv, StoreTypeOK
<1>4. ASSUME w.clean PROVE Accurate(w)'
  <2>1. Accurate(v)
    BY <1>2, <1>4 DEF RunInv, CleanInv, Moved
  <2>2. /\ Covered(w, "", {"scores", "alerts"}) = {}
        /\ Covered(w, "scores", {"alerts"}) = {} /\ Covered(w, "alerts", {}) = {}
        /\ w.stage # "close"
    BY <1>2 DEF Moved, Covered
  <2>3. /\ Covered(w, "rows", AfterRows) = Covered(v, "rows", AfterRows)
        /\ Covered(w, "judge", AfterJudge) = Covered(v, "judge", AfterJudge)
        /\ Covered(w, "", AfterClear) = v.days /\ Covered(v, "", AfterClear) = v.days
    BY <1>2 DEF Moved, Covered, AfterRows, AfterJudge, AfterClear, AfterStore
  <2>4. \A e \in Covered(w, "store", AfterStore) :
          e \in v.days /\ (e = d \/ e \in Covered(v, "store", AfterStore))
    BY <1>2 DEF Moved, Covered
  <2>5. \A e \in v.days : /\ e \in Days /\ v.seen[e] = version[e]
                          /\ version[e] \notin Spiky => findings[e] = 0
    BY <2>1, <2>3 DEF Accurate, Progress
  <2>6. d \in v.days /\ (Found(t, d) <=> version[d] \in Spiky)
    BY <1>2, <2>5 DEF Found, Moved
  <2>7. findings'[d] = FindingOf(d)
    BY <1>3, <2>5, <2>6 DEF FindingOf
  <2>8. \A e \in v.days \ {d} : findings'[e] = findings[e]
    BY <1>3, <2>5
  <2>9. \A e \in Covered(w, "store", AfterStore) : findings'[e] = FindingOf(e)
    BY <2>1, <2>4, <2>7, <2>8 DEF Accurate
  <2>10. \A e \in v.days : version[e] \notin Spiky => findings'[e] = 0
    BY <2>5, <2>7, <2>8 DEF FindingOf
  <2>11. /\ \A e \in w.days : w.seen[e] = version[e]
         /\ \A e \in Covered(w, "rows", AfterRows) : features[e] = version[e]
         /\ \A e \in Covered(w, "judge", AfterJudge) : version[e] > 0 => results[e].version = version[e]
         /\ \A e \in Covered(w, "", AfterClear) : version[e] \notin Spiky => findings'[e] = 0
    BY <1>2, <2>1, <2>3, <2>10 DEF Accurate, Moved
  <2> QED
    BY <1>1, <2>2, <2>9, <2>11, AccurateNext
<1>5. work' \in [Tasks -> Progress] /\ Resting' /\ Spans' /\ Alone' /\ CleanInv'
  BY <1>1, <1>2, <1>4, OwnStep DEF RunInv, Moved
<1>6. StoreTypeOK'
  BY <1>1, <1>3, <1>5 DEF RunInv, StoreTypeOK
<1> QED
  BY <1>5, <1>6 DEF RunInv

LEMMA ReadSignalsKeeps ==
  ASSUME RunInv, NEW t \in Tasks, ReadSignals(t)
  PROVE  RunInv'
<1> DEFINE new == [work[t] EXCEPT !.stage = "scores", !.signals = findings]
<1>1. /\ At(t, "signals")
      /\ UNCHANGED <<today, version, features, baseline, results, findings, scores, alerts, taken>>
      /\ UNCHANGED <<viewed, open, phase>>
  BY DEF ReadSignals, storeVars, worldVars, lockVars
<1>2. work[t] \in Progress /\ work \in [Tasks -> Progress] /\ findings \in [Days -> Nat]
  BY DEF RunInv, StoreTypeOK
<1>3. work' = [work EXCEPT ![t] = new]
  BY <1>2 DEF ReadSignals
<1>4. /\ new \in Progress /\ new.stage = "scores" /\ new.days = work[t].days
      /\ new.left = work[t].left /\ new.seen = work[t].seen /\ new.signals = findings
      /\ new.clean = work[t].clean
  BY <1>2 DEF Progress, Stages, AfterRows, AfterJudge, AfterClear, AfterStore
<1> HIDE DEF new
<1>5. work[t].left = work[t].days /\ Spanned(new, today)
  BY <1>1, <1>4 DEF RunInv, Spans, Spanned, At
<1>6. PICK v \in Progress, w \in Progress : v = work[t] /\ w = new
  BY <1>2, <1>4
<1>7. ASSUME w.clean PROVE Accurate(w)'
  <2>1. Accurate(v)
    BY <1>4, <1>6, <1>7 DEF RunInv, CleanInv
  <2>2. /\ Covered(w, "scores", {"alerts"}) = {} /\ Covered(w, "alerts", {}) = {}
        /\ w.stage # "close"
    BY <1>4, <1>5, <1>6 DEF Covered
  <2>3. /\ Covered(w, "rows", AfterRows) = Covered(v, "rows", AfterRows)
        /\ Covered(w, "judge", AfterJudge) = Covered(v, "judge", AfterJudge)
        /\ Covered(w, "", AfterClear) = Covered(v, "", AfterClear)
        /\ Covered(w, "store", AfterStore) = Covered(v, "store", AfterStore)
        /\ Covered(w, "", {"scores", "alerts"}) = Covered(v, "store", AfterStore)
    BY <1>1, <1>4, <1>6 DEF Covered, AfterRows, AfterJudge, AfterClear, AfterStore, At
  <2>4. \A e \in Covered(w, "", {"scores", "alerts"}) : w.signals[e] = FindingOf(e)
    BY <1>4, <1>6, <2>1, <2>3 DEF Accurate
  <2>5. /\ \A e \in w.days : w.seen[e] = version[e]
        /\ \A e \in Covered(w, "rows", AfterRows) : features[e] = version[e]
        /\ \A e \in Covered(w, "judge", AfterJudge) : version[e] > 0 => results[e].version = version[e]
        /\ \A e \in Covered(w, "", AfterClear) : version[e] \notin Spiky => findings[e] = 0
        /\ \A e \in Covered(w, "store", AfterStore) : findings[e] = FindingOf(e)
    BY <1>4, <1>6, <2>1, <2>3 DEF Accurate
  <2> QED
    BY <1>1, <2>2, <2>4, <2>5, AccurateNext
<1>8. /\ work' = [work EXCEPT ![t] = w] /\ Spanned(w, today) /\ phase[t] = "run"
      /\ work[t].stage # "start" /\ w.stage # "start" /\ (w.clean => work[t].clean)
  BY <1>1, <1>3, <1>4, <1>5, <1>6 DEF At
<1>9. work' \in [Tasks -> Progress] /\ Resting' /\ Spans' /\ Alone' /\ CleanInv'
  BY <1>1, <1>7, <1>8, OwnStep DEF RunInv
<1>10. StoreTypeOK'
  BY <1>1, <1>9 DEF RunInv, StoreTypeOK
<1> QED
  BY <1>9, <1>10 DEF RunInv

LEMMA StoreScoreKeeps ==
  ASSUME RunInv, NEW t \in Tasks, NEW d \in Days, StoreScore(t, d)
  PROVE  RunInv'
<1>1. /\ Turn(t, "scores", d) /\ work' = [work EXCEPT ![t] = After(t, d, "alerts")]
      /\ scores' = [scores EXCEPT ![d] = work[t].signals[d]]
      /\ UNCHANGED <<today, version, features, baseline, results, findings, alerts, taken>>
      /\ UNCHANGED <<viewed, open, phase>>
  BY DEF StoreScore, Loop, worldVars, lockVars
<1>2. PICK v \in Progress, w \in Progress :
        /\ v = work[t] /\ work' = [work EXCEPT ![t] = w] /\ v.stage = "scores" /\ phase[t] = "run"
        /\ Moved(v, w, "scores", "alerts", d)
  <2>1. "alerts" \in Stages
        /\ "scores" \in Stages \ {"start", "baseline", "build", "read", "clear", "signals"}
    BY DEF Stages, AfterRows, AfterJudge, AfterClear, AfterStore
  <2> QED
    BY <1>1, <2>1, LoopMoves
<1>3. /\ scores' \in [Days -> Nat] /\ scores'[d] = v.signals[d]
      /\ \A e \in Days \ {d} : scores'[e] = scores[e]
  <2>1. v.signals[d] \in Nat
    BY DEF Progress
  <2> QED
    BY <1>1, <1>2, <2>1 DEF RunInv, StoreTypeOK
<1>4. ASSUME w.clean PROVE Accurate(w)'
  <2>1. Accurate(v)
    BY <1>2, <1>4 DEF RunInv, CleanInv, Moved
  <2>2. Covered(w, "alerts", {}) = {} /\ w.stage # "close"
    BY <1>2 DEF Moved, Covered
  <2>3. /\ Covered(w, "rows", AfterRows) = Covered(v, "rows", AfterRows)
        /\ Covered(w, "judge", AfterJudge) = Covered(v, "judge", AfterJudge)
        /\ Covered(w, "", AfterClear) = Covered(v, "", AfterClear)
        /\ Covered(w, "store", AfterStore) = Covered(v, "store", AfterStore)
        /\ Covered(w, "", {"scores", "alerts"}) = v.days
        /\ Covered(v, "", {"scores", "alerts"}) = v.days
    BY <1>2 DEF Moved, Covered, AfterRows, AfterJudge, AfterClear, AfterStore
  <2>4. \A e \in Covered(w, "scores", {"alerts"}) :
          e \in v.days /\ e \in Days /\ (e = d \/ e \in Covered(v, "scores", {"alerts"}))
    BY <1>2 DEF Moved, Covered, Progress
  <2>5. \A e \in v.days : v.signals[e] = FindingOf(e)
    BY <2>1, <2>3 DEF Accurate
  <2>6. \A e \in Covered(w, "scores", {"alerts"}) : scores'[e] = FindingOf(e)
    BY <1>3, <2>1, <2>4, <2>5 DEF Accurate
  <2>7. /\ \A e \in w.days : w.seen[e] = version[e]
        /\ \A e \in Covered(w, "rows", AfterRows) : features[e] = version[e]
        /\ \A e \in Covered(w, "judge", AfterJudge) : version[e] > 0 => results[e].version = version[e]
        /\ \A e \in Covered(w, "", AfterClear) : version[e] \notin Spiky => findings[e] = 0
        /\ \A e \in Covered(w, "store", AfterStore) : findings[e] = FindingOf(e)
        /\ \A e \in Covered(w, "", {"scores", "alerts"}) : w.signals[e] = FindingOf(e)
    BY <1>2, <2>1, <2>3, <2>5 DEF Accurate, Moved
  <2> QED
    BY <1>1, <2>2, <2>6, <2>7, AccurateNext
<1>5. work' \in [Tasks -> Progress] /\ Resting' /\ Spans' /\ Alone' /\ CleanInv'
  BY <1>1, <1>2, <1>4, OwnStep DEF RunInv, Moved
<1>6. StoreTypeOK'
  BY <1>1, <1>3, <1>5 DEF RunInv, StoreTypeOK
<1> QED
  BY <1>5, <1>6 DEF RunInv

(* With its last alert a clean run has brought every store in step. *)
LEMMA RaiseAlertKeeps ==
  ASSUME RunInv, NEW t \in Tasks, NEW d \in Days, RaiseAlert(t, d)
  PROVE  RunInv'
<1>1. /\ Turn(t, "alerts", d) /\ work' = [work EXCEPT ![t] = After(t, d, "close")]
      /\ alerts' = IF Found(t, d) /\ work[t].signals[d] # 0 /\ d \notin taken
                   THEN [alerts EXCEPT ![d] = work[t].seen[d]] ELSE alerts
      /\ UNCHANGED <<today, version, features, baseline, results, findings, scores, taken>>
      /\ UNCHANGED <<viewed, open, phase>>
  BY DEF RaiseAlert, Loop, worldVars, lockVars
<1>2. PICK v \in Progress, w \in Progress :
        /\ v = work[t] /\ work' = [work EXCEPT ![t] = w] /\ v.stage = "alerts" /\ phase[t] = "run"
        /\ Moved(v, w, "alerts", "close", d)
  <2>1. "close" \in Stages
        /\ "alerts" \in Stages \ {"start", "baseline", "build", "read", "clear", "signals"}
    BY DEF Stages, AfterRows, AfterJudge, AfterClear, AfterStore
  <2> QED
    BY <1>1, <2>1, LoopMoves
<1>3. /\ alerts' \in [Days -> Nat]
      /\ Found(t, d) /\ v.signals[d] # 0 /\ d \notin taken => alerts'[d] = v.seen[d]
      /\ \A e \in Days \ {d} : alerts'[e] = alerts[e]
  <2>1. v.seen[d] \in Nat
    BY DEF Progress
  <2> QED
    BY <1>1, <1>2, <2>1 DEF RunInv, StoreTypeOK
<1>4. ASSUME w.clean PROVE Accurate(w)'
  <2>1. Accurate(v)
    BY <1>2, <1>4 DEF RunInv, CleanInv, Moved
  <2>2. /\ Covered(v, "rows", AfterRows) = v.days /\ Covered(v, "judge", AfterJudge) = v.days
        /\ Covered(v, "", AfterClear) = v.days /\ Covered(v, "store", AfterStore) = v.days
        /\ Covered(v, "", {"scores", "alerts"}) = v.days
        /\ Covered(v, "scores", {"alerts"}) = v.days
        /\ w.days = v.days /\ d \in v.days /\ v.days \subseteq Days
    BY <1>2 DEF Moved, Covered, AfterRows, AfterJudge, AfterClear, AfterStore, Progress
  <2>3. \A e \in v.days :
          /\ v.seen[e] = version[e] /\ features[e] = version[e]
          /\ version[e] > 0 => results[e].version = version[e]
          /\ version[e] \notin Spiky => findings[e] = 0
          /\ findings[e] = FindingOf(e) /\ v.signals[e] = FindingOf(e) /\ scores[e] = FindingOf(e)
    BY <2>1, <2>2 DEF Accurate
  <2>4. FindingOf(d) # 0 /\ d \notin taken => alerts'[d] = FindingOf(d)
    BY <1>2, <1>3, <2>2, <2>3 DEF Found, FindingOf
  <2>5. \A e \in v.days : e = d \/ e \in Covered(v, "alerts", {}) =>
          (FindingOf(e) # 0 /\ e \notin taken => alerts'[e] = FindingOf(e))
    <3>1. \A e \in v.days \ {d} : e \in Days /\ alerts'[e] = alerts[e]
      BY <1>3, <2>2
    <3> QED
      BY <2>1, <2>4, <3>1 DEF Accurate
  <2>6. \A e \in Covered(w, "alerts", {}) : e \in v.days /\ (e = d \/ e \in Covered(v, "alerts", {}))
    BY <1>2 DEF Moved, Covered
  <2>7. /\ Covered(w, "rows", AfterRows) \subseteq v.days /\ Covered(w, "judge", AfterJudge) \subseteq v.days
        /\ Covered(w, "", AfterClear) \subseteq v.days /\ Covered(w, "store", AfterStore) \subseteq v.days
        /\ Covered(w, "", {"scores", "alerts"}) \subseteq v.days
        /\ Covered(w, "scores", {"alerts"}) \subseteq v.days
    BY <2>2 DEF Covered
  <2>8. ASSUME w.stage = "close", NEW e \in v.days PROVE Fresh(e)'
    <3>1. e = d \/ e \in Covered(v, "alerts", {})
      BY <1>2, <2>8 DEF Moved, Covered
    <3>2. FindingOf(e)' = FindingOf(e)
      BY <1>1 DEF FindingOf
    <3> QED
      BY <1>1, <2>3, <2>5, <3>1, <3>2 DEF Fresh
  <2>9. w.seen = v.seen /\ w.signals = v.signals
    BY <1>2 DEF Moved
  <2>10. \A e \in Covered(w, "alerts", {}) :
           FindingOf(e) # 0 /\ e \notin taken' => alerts'[e] = FindingOf(e)
    BY <1>1, <2>5, <2>6
  <2> QED
    BY <1>1, <2>2, <2>3, <2>7, <2>8, <2>9, <2>10, AccurateNext
<1>5. work' \in [Tasks -> Progress] /\ Resting' /\ Spans' /\ Alone' /\ CleanInv'
  BY <1>1, <1>2, <1>4, OwnStep DEF RunInv, Moved
<1>6. StoreTypeOK'
  BY <1>1, <1>3, <1>5 DEF RunInv, StoreTypeOK
<1> QED
  BY <1>5, <1>6 DEF RunInv

(* A baseline is committed or given up by those who have one, and nothing  *)
(* else is written.                                                        *)
Settled ==
  /\ baseline' \in {baseline} \union {open[u] : u \in Tasks}
  /\ open' \in [Tasks -> Nat] /\ \A u \in Tasks : open'[u] \in {0, open[u]}
  /\ UNCHANGED <<today, version, features, results, findings, scores, alerts, taken, viewed>>

(* Settling keeps the types.                                               *)
LEMMA SettledType ==
  ASSUME StoreTypeOK, Settled, work' \in [Tasks -> Progress]
  PROVE  StoreTypeOK'
BY DEF StoreTypeOK, Settled

(* Runs may end anywhere.                                                  *)
LEMMA EndKeeps ==
  ASSUME RunInv, Settled, NEW S \in SUBSET Tasks,
         work' = [x \in Tasks |-> IF x \in S THEN Rest ELSE work[x]],
         \A x \in Tasks \ S : phase'[x] = phase[x]
  PROVE  RunInv'
<1>1. \A x \in Tasks : phase'[x] # "run" => x \in S \/ work[x] = Rest
  BY DEF RunInv, Resting
<1>2. work' \in [Tasks -> Progress] /\ Resting' /\ Spans' /\ Alone' /\ CleanInv'
  BY <1>1, RestStep DEF RunInv, Settled
<1> QED
  BY <1>2, SettledType DEF RunInv

(* A run that closes, raises, clashes or is cancelled commits its baseline *)
(* or gives it up, or leaves it for get_db.                                *)
LEMMA EndingSettles ==
  ASSUME LockTypeOK, StoreTypeOK, NEW t \in Tasks,
         Close(t) \/ StageRaises(t) \/ BaselineClash(t) \/ SchedulerStops(t)
  PROVE  /\ Settled /\ work' = [x \in Tasks |-> IF x \in {t} THEN Rest ELSE work[x]]
         /\ \A x \in Tasks \ {t} : phase'[x] = phase[x]
<1> USE DEF LockTypeOK, StoreTypeOK
<1>1. ASSUME EndRun(t) PROVE \A x \in Tasks \ {t} : phase'[x] = phase[x]
  BY <1>1 DEF EndRun, Goto, Leave
<1>2. CASE Close(t)
  <2>1. Settled
    BY <1>2 DEF Close, Settle, Settled, worldVars
  <2>2. work' = [x \in Tasks |-> IF x \in {t} THEN Rest ELSE work[x]]
    BY <1>2 DEF Close
  <2> QED
    BY <1>1, <1>2, <2>1, <2>2 DEF Close
<1>3. CASE StageRaises(t)
  <2>1. Settled
    BY <1>3 DEF StageRaises, Fault, Settled, storeVars
  <2>2. work' = [x \in Tasks |-> IF x \in {t} THEN Rest ELSE work[x]]
    BY <1>3 DEF StageRaises
  <2> QED
    BY <1>1, <1>3, <2>1, <2>2 DEF StageRaises
<1>4. CASE BaselineClash(t)
  <2>1. Settled
    BY <1>4 DEF BaselineClash, Settled, storeVars, worldVars
  <2>2. work' = [x \in Tasks |-> IF x \in {t} THEN Rest ELSE work[x]]
    BY <1>4 DEF BaselineClash
  <2> QED
    BY <1>1, <1>4, <2>1, <2>2 DEF BaselineClash
<1>5. CASE SchedulerStops(t)
  <2>1. Settled
    BY <1>5 DEF SchedulerStops, Stopped, Settled, storeVars, worldVars
  <2>2. work' = [x \in Tasks |-> IF x \in {t} THEN Rest ELSE work[x]]
    BY <1>5 DEF SchedulerStops, Stopped
  <2>3. \A x \in Tasks \ {t} : phase'[x] = phase[x]
    BY <1>5 DEF SchedulerStops, Cancel, CancelRun, CancelCall, Leave
  <2> QED
    BY <2>1, <2>2, <2>3
<1> QED
  BY <1>2, <1>3, <1>4, <1>5

(* A process that dies takes the open baselines of its tasks along.        *)
LEMMA DeathSettles ==
  ASSUME LockTypeOK, StoreTypeOK, NEW p \in Procs, ProcessDies(p)
  PROVE  /\ Settled
         /\ work' = [x \in Tasks |-> IF x \in {u \in Tasks : Home(u) = p} THEN Rest ELSE work[x]]
         /\ \A x \in Tasks \ {u \in Tasks : Home(u) = p} : phase'[x] = phase[x]
<1>1. Settled
  BY DEF ProcessDies, Stopped, Settled, storeVars, worldVars, StoreTypeOK
<1>2. work' = [x \in Tasks |-> IF x \in {u \in Tasks : Home(u) = p} THEN Rest ELSE work[x]]
  BY DEF ProcessDies, Stopped
<1>3. \A x \in Tasks \ {u \in Tasks : Home(u) = p} : phase'[x] = phase[x]
  BY DEF ProcessDies, Crash
<1> QED
  BY <1>1, <1>2, <1>3

(* The run goes on without what it was about: no claim is left. *)
LEMMA SpoiltKeeps ==
  ASSUME RunInv, NEW t \in Tasks, NEW w \in Progress, phase[t] = "run", work[t].stage # "start",
         w.stage # "start", ~w.clean, Spanned(w, today), work' = [work EXCEPT ![t] = w],
         UNCHANGED <<today, version, features, baseline, results, findings, scores, alerts, taken>>,
         UNCHANGED <<viewed, open, phase>>
  PROVE  RunInv'
<1>1. work' \in [Tasks -> Progress] /\ Resting' /\ Spans' /\ Alone' /\ CleanInv'
  BY OwnStep DEF RunInv
<1> QED
  BY <1>1 DEF RunInv, StoreTypeOK

(* A stage that fails without ending the run spoils it.                    *)
LEMMA TroubleSpoils ==
  ASSUME RunInv, NEW t \in Tasks,
         SkipDetection(t) \/ DetectorsFail(t) \/ \E d \in Days : AlertFails(t, d)
  PROVE  \E w \in Progress :
           /\ phase[t] = "run" /\ work[t].stage # "start" /\ w.stage # "start" /\ ~w.clean
           /\ w.days = work[t].days /\ Spanned(w, today) /\ work' = [work EXCEPT ![t] = w]
           /\ UNCHANGED <<today, version, features, baseline, results, findings, scores, alerts, taken>>
           /\ UNCHANGED <<viewed, open, phase>>
<1>1. /\ UNCHANGED <<today, version, features, baseline, results, findings, scores, alerts, taken>>
      /\ UNCHANGED <<viewed, open, phase>> /\ phase[t] = "run" /\ work[t].stage # "start"
  BY DEF SkipDetection, DetectorsFail, AlertFails, Turn, At, Fault, storeVars, lockVars
<1>2. work[t] \in Progress /\ work \in [Tasks -> Progress] /\ Spanned(work[t], today)
  BY <1>1 DEF RunInv, StoreTypeOK, Spans
<1>3. CASE SkipDetection(t)
  <2> DEFINE w == [work[t] EXCEPT !.stage = "close", !.clean = FALSE]
  <2>1. work' = [work EXCEPT ![t] = w]
    BY <1>2, <1>3 DEF SkipDetection
  <2>2. /\ w \in Progress /\ w.stage = "close" /\ ~w.clean
        /\ w.days = work[t].days /\ w.left = work[t].left
    BY <1>2 DEF Progress, Stages
  <2> HIDE DEF w
  <2>3. Spanned(w, today)
    BY <1>2, <2>2 DEF Spanned
  <2> QED
    BY <1>1, <2>1, <2>2, <2>3
<1>4. CASE DetectorsFail(t)
  <2> DEFINE w == [work[t] EXCEPT !.stage = "signals", !.left = work[t].days,
                                  !.seen = Nothing, !.clean = FALSE]
  <2>1. work' = [work EXCEPT ![t] = w]
    BY <1>2, <1>4 DEF DetectorsFail
  <2>2. /\ w \in Progress /\ w.stage = "signals" /\ ~w.clean
        /\ w.days = work[t].days /\ w.left = work[t].days
    <3>1. Nothing \in [Days -> Nat]
      BY DEF Nothing
    <3> QED
      BY <1>2, <3>1 DEF Progress, Stages, AfterRows, AfterJudge, AfterClear, AfterStore
  <2> HIDE DEF w
  <2>3. PICK n \in Lookback..today : work[t].days = (n - Lookback + 1)..n
    BY <1>2 DEF Spanned
  <2>4. (n - Lookback + 1) \in work[t].days
    <3>1. Lookback \in Nat \ {0} /\ today \in Int
      BY SettingsAssumption DEF RunInv, StoreTypeOK
    <3>2. n \in Int /\ n - Lookback + 1 <= n
      BY <3>1
    <3> QED
      BY <2>3, <3>1, <3>2
  <2>5. Spanned(w, today)
    BY <2>2, <2>3, <2>4 DEF Spanned
  <2> QED
    BY <1>1, <2>1, <2>2, <2>5
<1>5. ASSUME NEW d \in Days, AlertFails(t, d)
      PROVE  \E w \in Progress :
               /\ w.stage # "start" /\ ~w.clean /\ w.days = work[t].days /\ Spanned(w, today)
               /\ work' = [work EXCEPT ![t] = w]
  <2>1. "close" \in Stages
        /\ "alerts" \in Stages \ {"start", "baseline", "build", "read", "clear", "signals"}
    BY DEF Stages, AfterRows, AfterJudge, AfterClear, AfterStore
  <2>2. PICK v \in Progress, a \in Progress :
          v = work[t] /\ a = After(t, d, "close") /\ Moved(v, a, "alerts", "close", d)
    BY <1>5, <2>1, LoopMoves DEF AlertFails
  <2> DEFINE w == [a EXCEPT !.clean = FALSE]
  <2>3. work' = [work EXCEPT ![t] = w]
    BY <1>5, <2>2 DEF AlertFails
  <2>4. w \in Progress /\ ~w.clean /\ w.stage = a.stage /\ w.days = a.days /\ w.left = a.left
    BY Uncleaned
  <2> HIDE DEF w
  <2>5. Spanned(w, today)
    BY <2>2, <2>4 DEF Moved, Spanned
  <2> QED
    BY <2>2, <2>3, <2>4, <2>5 DEF Moved
<1> QED
  BY <1>1, <1>3, <1>4, <1>5

(* New events leave no run clean.                                          *)
LEMMA EventsArriveKeeps ==
  ASSUME RunInv, NEW d \in Days, EventsArrive(d)
  PROVE  RunInv'
<1>1. /\ version' = [version EXCEPT ![d] = @ + 1]
      /\ work' = [t \in Tasks |-> [work[t] EXCEPT !.clean = FALSE]]
      /\ UNCHANGED <<today, features, baseline, results, findings, scores, alerts, taken>>
      /\ UNCHANGED <<viewed, open, phase>>
  BY DEF EventsArrive, Unclean, storeVars, lockVars
<1>2. \A u \in Tasks : /\ work'[u] \in Progress /\ ~work'[u].clean
                       /\ work'[u].stage = work[u].stage /\ work'[u].days = work[u].days
                       /\ work'[u].left = work[u].left
                       /\ work[u] = Rest => work'[u] = Rest
  <2> SUFFICES ASSUME NEW u \in Tasks
               PROVE  /\ work'[u] \in Progress /\ ~work'[u].clean
                      /\ work'[u].stage = work[u].stage /\ work'[u].days = work[u].days
                      /\ work'[u].left = work[u].left
                      /\ work[u] = Rest => work'[u] = Rest
    OBVIOUS
  <2>1. work[u] \in Progress
    BY DEF RunInv, StoreTypeOK
  <2>2. work'[u] = [work[u] EXCEPT !.clean = FALSE]
    BY <1>1
  <2> QED
    BY <2>1, <2>2, Uncleaned
<1>3. StoreTypeOK'
  <2>1. version' \in [Days -> Nat]
    BY <1>1 DEF RunInv, StoreTypeOK
  <2>2. work' \in [Tasks -> Progress]
    BY <1>1, <1>2
  <2> QED
    BY <1>1, <2>1, <2>2 DEF RunInv, StoreTypeOK
<1>4. Resting' /\ Alone' /\ CleanInv'
  BY <1>1, <1>2 DEF RunInv, Resting, Alone, CleanInv
<1>5. Spans'
  BY <1>1, <1>2 DEF RunInv, Spans, Spanned
<1> QED
  BY <1>3, <1>4, <1>5 DEF RunInv

(* What leaves the runs and the events alone. *)
LEMMA AsideKeeps ==
  ASSUME RunInv, work' = work, \A t \in Tasks : phase'[t] # "run" => work[t] = Rest,
         StoreTypeOK', today <= today', taken \subseteq taken',
         UNCHANGED <<version, features, results, findings, scores, alerts>>
  PROVE  RunInv'
<1>1. Resting' /\ Alone'
  BY DEF RunInv, Resting, Alone
<1>2. Spans'
  <2>1. Lookback..today \subseteq Lookback..today'
    BY SettingsAssumption DEF RunInv, StoreTypeOK
  <2> QED
    BY <2>1 DEF RunInv, Spans, Spanned
<1>3. ASSUME NEW w, Accurate(w) PROVE Accurate(w)'
  <2>1. /\ \A d \in w.days : w.seen[d] = version[d]
        /\ \A d \in Covered(w, "rows", AfterRows) : features'[d] = version[d]
        /\ \A d \in Covered(w, "judge", AfterJudge) :
             version[d] > 0 => results'[d].version = version[d]
        /\ \A d \in Covered(w, "", AfterClear) : version[d] \notin Spiky => findings'[d] = 0
        /\ \A d \in Covered(w, "store", AfterStore) : findings'[d] = FindingOf(d)
        /\ \A d \in Covered(w, "", {"scores", "alerts"}) : w.signals[d] = FindingOf(d)
        /\ \A d \in Covered(w, "scores", {"alerts"}) : scores'[d] = FindingOf(d)
        /\ \A d \in Covered(w, "alerts", {}) :
             FindingOf(d) # 0 /\ d \notin taken' => alerts'[d] = FindingOf(d)
    BY <1>3 DEF Accurate
  <2>2. \A d : FindingOf(d)' = FindingOf(d)
    BY DEF FindingOf
  <2>3. \A d : Fresh(d) => Fresh(d)'
    BY <2>2 DEF Fresh
  <2>4. w.stage = "close" => \A d \in w.days : Fresh(d)'
    BY <1>3, <2>3 DEF Accurate
  <2> QED
    BY <2>1, <2>4, AccurateNext
<1>4. CleanInv'
  BY <1>3 DEF RunInv, CleanInv
<1> QED
  BY <1>1, <1>2, <1>4 DEF RunInv

(* The steps that only the lock, a commit, the calendar, an analyst or a   *)
(* visitor takes.                                                          *)
Aside ==
  \/ \E t \in Tasks : StartRun(t) \/ CallStep(t) \/ CommitLate(t)
  \/ KeyExpires \/ KeyLapses
  \/ \E d \in Days : PickUp(d)
  \/ DayPasses \/ ViewProfile
  \/ UNCHANGED vars

(* The lock moves no task that has something to remember out of its run.   *)
LEMMA IdleStays ==
  ASSUME LockTypeOK, Resting, NEW t \in Tasks, StartRun(t) \/ CallStep(t)
  PROVE  \A x \in Tasks : phase'[x] # "run" => work[x] = Rest
<1> USE DEF LockTypeOK, Resting
<1>1. CASE StartRun(t)
  BY <1>1 DEF StartRun, Begin
<1>2. CASE CallStep(t)
  <2>1. phase[t] # "run" /\ \A x \in Tasks : x # t => phase'[x] = phase[x]
    BY <1>2 DEF CallStep, Call, Acquire, Skip, RunWithoutLock, FindOwnKey, FindOtherKey, Drop,
         ReleaseFails, Goto, Leave
  <2> QED
    BY <2>1
<1> QED
  BY <1>1, <1>2

LEMMA AsideLeavesRuns ==
  ASSUME LockTypeOK, RunInv, Aside
  PROVE  RunInv'
<1>1. /\ UNCHANGED <<version, features, results, findings, scores, alerts>> /\ work' = work
  BY DEF Aside, StartRun, CallStep, CommitLate, KeyExpires, KeyLapses, PickUp, DayPasses,
       ViewProfile, vars, storeVars, worldVars
<1>2. taken \subseteq taken'
  BY DEF Aside, StartRun, CallStep, CommitLate, KeyExpires, KeyLapses, PickUp, DayPasses,
       ViewProfile, vars, storeVars
<1>3. \A x \in Tasks : phase'[x] # "run" => work[x] = Rest
  <2>1. ASSUME NEW t \in Tasks, StartRun(t) \/ CallStep(t)
        PROVE  \A x \in Tasks : phase'[x] # "run" => work[x] = Rest
    BY <2>1, IdleStays DEF RunInv
  <2>2. CASE phase' = phase
    BY <2>2 DEF RunInv, Resting
  <2>3. phase' = phase \/ \E t \in Tasks : StartRun(t) \/ CallStep(t)
    BY DEF Aside, CommitLate, KeyExpires, KeyLapses, Expire, Lapse, PickUp, DayPasses,
         ViewProfile, vars, lockVars
  <2> QED
    BY <2>1, <2>2, <2>3
<1>4. today <= today' /\ StoreTypeOK'
  <2> USE DEF RunInv, StoreTypeOK
  <2>1. CASE \/ \E t \in Tasks : StartRun(t) \/ CallStep(t)
             \/ KeyExpires \/ KeyLapses \/ UNCHANGED vars
    BY <2>1, SettingsAssumption DEF StartRun, CallStep, KeyExpires, KeyLapses, vars, storeVars, worldVars
  <2>2. ASSUME NEW t \in Tasks, CommitLate(t) PROVE today <= today' /\ StoreTypeOK'
    BY <2>2, SettingsAssumption DEF CommitLate, worldVars
  <2>3. CASE DayPasses
    BY <2>3, SettingsAssumption DEF DayPasses, storeVars
  <2>4. CASE ViewProfile
    <3>1. 2 * today + 1 \in Nat /\ today <= today
      BY SettingsAssumption
    <3> QED
      BY <2>4, <3>1 DEF ViewProfile
  <2>5. ASSUME NEW d \in Days, PickUp(d) PROVE today <= today' /\ StoreTypeOK'
    BY <2>5, SettingsAssumption DEF PickUp, worldVars
  <2> QED
    BY <2>1, <2>2, <2>3, <2>4, <2>5 DEF Aside
<1> QED
  BY <1>1, <1>2, <1>3, <1>4, AsideKeeps

(* One step of anybody.                                                    *)
LEMMA RunsStep ==
  ASSUME LockTypeOK, RunInv, [Next]_vars
  PROVE  RunInv'
<1>1. ASSUME NEW t \in Tasks, Body(t) PROVE RunInv'
  <2>1. CASE Close(t)
    BY <2>1, EndingSettles, EndKeeps DEF RunInv
  <2>2. CASE Discover(t)
    BY <2>2, DiscoverKeeps
  <2>3. ASSUME NEW d \in Days, WriteRow(t, d) PROVE RunInv'
    BY <2>3, WriteRowKeeps
  <2>4. CASE ReadBaseline(t) \/ KeepBaseline(t) \/ BuildBaseline(t)
    BY <2>4, BaselineStagesKeep
  <2>5. ASSUME NEW d \in Days, Judge(t, d) PROVE RunInv'
    BY <2>5, JudgeKeeps
  <2>6. CASE ReadEvents(t)
    BY <2>6, ReadEventsKeeps
  <2>7. CASE ClearFindings(t)
    BY <2>7, ClearFindingsKeeps
  <2>8. ASSUME NEW d \in Days, StoreFinding(t, d) PROVE RunInv'
    BY <2>8, StoreFindingKeeps
  <2>9. CASE ReadSignals(t)
    BY <2>9, ReadSignalsKeeps
  <2>10. ASSUME NEW d \in Days, StoreScore(t, d) PROVE RunInv'
    BY <2>10, StoreScoreKeeps
  <2>11. ASSUME NEW d \in Days, RaiseAlert(t, d) PROVE RunInv'
    BY <2>11, RaiseAlertKeeps
  <2> QED
    BY <1>1, <2>1, <2>2, <2>3, <2>4, <2>5, <2>6, <2>7, <2>8, <2>9, <2>10, <2>11 DEF Body
<1>2. ASSUME NEW t \in Tasks, Trouble(t) \/ SchedulerStops(t) PROVE RunInv'
  <2>1. CASE StageRaises(t) \/ BaselineClash(t) \/ SchedulerStops(t)
    BY <2>1, EndingSettles, EndKeeps DEF RunInv
  <2>2. CASE SkipDetection(t) \/ DetectorsFail(t) \/ \E d \in Days : AlertFails(t, d)
    BY <2>2, TroubleSpoils, SpoiltKeeps
  <2> QED
    BY <1>2, <2>1, <2>2 DEF Trouble
<1>3. ASSUME NEW p \in Procs, ProcessDies(p) PROVE RunInv'
  <2>1. {u \in Tasks : Home(u) = p} \in SUBSET Tasks
    OBVIOUS
  <2> QED
    BY <1>3, <2>1, DeathSettles, EndKeeps DEF RunInv
<1>4. ASSUME NEW d \in Days, EventsArrive(d) PROVE RunInv'
  BY <1>4, EventsArriveKeeps
<1>5. CASE Aside
  BY <1>5, AsideLeavesRuns
<1> QED
  BY <1>1, <1>2, <1>3, <1>4, <1>5 DEF Next, Aside

(* The lock and the runs, in every reachable state.                        *)
LEMMA RunInvariance == Spec => [](LockInv /\ RunInv)
<1>1. Init => LockInv /\ RunInv
  BY LockStart, RunsStart DEF Init
<1>2. LockInv /\ RunInv /\ [Next]_vars => LockInv' /\ RunInv'
  BY PipelineStepsLock, LockTypeStep, StrayStep, RunsStep DEF LockInv
<1> QED
  BY <1>1, <1>2, PTL DEF Spec

(* However many processes, days and events: a run that nothing came        *)
(* between leaves the stores in step with the events of its window         *)
(* (run_once and the stages it calls).                                     *)
THEOREM CleanRunsAreFresh == Spec => []CleanRunIsFresh
<1>1. RunInv => CleanRunIsFresh
  BY DEF RunInv, CleanInv, Accurate, CleanRunIsFresh, At
<1> QED
  BY <1>1, RunInvariance, PTL

-----------------------------------------------------------------------------
(* The yardstick.                                                          *)

(* Without a lost lock one run is at work. *)
LEMMA OneAtWork ==
  ASSUME LockInv, RunInv, lapses = 0, NEW t \in Tasks, phase[t] = "run",
         NEW u \in Tasks, work[u].stage # "start"
  PROVE  u = t
<1>1. Strays \in SUBSET Tasks /\ IsFiniteSet(Strays)
  BY TasksFinite, FS_Subset DEF Strays, Active
<1>2. Cardinality(Strays) \in Nat /\ Cardinality(Strays) <= 0
  BY <1>1, NoMore DEF LockInv, StraysCounted
<1>3. Strays = {}
  BY <1>1, <1>2, FS_EmptySet
<1>4. phase[u] = "run"
  BY DEF RunInv, Resting, Rest
<1> QED
  BY <1>3, <1>4 DEF Strays, Active

(* Lost locks are only ever added.                                         *)
LEMMA LapsesGrow == LockTypeOK /\ [LockNext]_lockVars => lapses \in Nat /\ lapses <= lapses'
<1> SUFFICES ASSUME LockTypeOK, [LockNext]_lockVars PROVE lapses \in Nat /\ lapses <= lapses'
  OBVIOUS
<1>1. lapses \in Nat
  BY BudgetAssumption DEF LockTypeOK
<1>2. lapses' = lapses \/ lapses' = lapses + 1
  BY DEF LockNext, Begin, Call, Acquire, Skip, RunWithoutLock, FindOwnKey, FindOtherKey, Drop,
       ReleaseFails, EndRun, Cancel, CancelRun, CancelCall, Crash, Expire, Lapse, lockVars
<1> QED
  BY <1>1, <1>2

(* No run is about days that it was not about, and no result is written. *)
LEMMA YardStands ==
  ASSUME RunInv, YardInv, lapses \in Nat, lapses <= lapses', lapses' \in Nat,
         viewed => viewed', today <= today', today \in Int, today' \in Int, results' = results,
         baseline' \in {baseline} \union {open[u] : u \in Tasks},
         \A u \in Tasks : open'[u] \in {0, open[u]},
         \A u \in Tasks : work'[u].stage # "start" =>
           work[u].stage # "start" /\ work'[u].days = work[u].days
  PROVE  YardInv'
<1> SUFFICES ASSUME ~viewed', ~(lapses' > 0)
             PROVE  /\ baseline' <= Reached' /\ \A u \in Tasks : open'[u] <= Reached'
                    /\ \A t \in Tasks : \A w \in {work'[t]} : NoLater(w)'
                    /\ \A d \in Days : results'[d].yard <= 2 * d
  BY DEF YardInv, YardstickHonest
<1>1. /\ baseline <= Reached /\ \A u \in Tasks : open[u] <= Reached
      /\ \A t \in Tasks : \A w \in {work[t]} : NoLater(w)
      /\ YardstickHonest
  BY DEF YardInv
<1>2. /\ today \in Lookback..MaxDay /\ Lookback \in Nat \ {0} /\ Reached \in Nat /\ Reached' \in Int
      /\ Reached <= Reached' /\ baseline \in Nat /\ open \in [Tasks -> Nat]
  BY SettingsAssumption DEF RunInv, StoreTypeOK, Reached
<1>3. baseline' <= Reached' /\ \A u \in Tasks : open'[u] <= Reached'
  BY <1>1, <1>2
<1>4. ASSUME NEW t \in Tasks, NEW w \in {work'[t]} PROVE NoLater(w)'
  <2> SUFFICES ASSUME w.stage # "start", NEW d \in w.days
               PROVE  baseline' <= 2 * d /\ \A u \in Tasks : open'[u] <= 2 * d
    BY DEF NoLater
  <2>1. work[t].stage # "start" /\ d \in work[t].days
    BY <1>4
  <2>2. d \in Nat
    BY <2>1 DEF RunInv, StoreTypeOK, Progress, Days
  <2>3. baseline <= 2 * d /\ \A u \in Tasks : open[u] <= 2 * d
    BY <1>1, <2>1 DEF NoLater
  <2> QED
    BY <1>2, <2>2, <2>3
<1> QED
  BY <1>1, <1>3, <1>4 DEF YardstickHonest

(* A run that starts is about days no baseline has reached into: they      *)
(* begin where today looks back to.                                        *)
LEMMA DiscoverYard ==
  ASSUME RunInv, RunInv', YardInv, lapses' = lapses, NEW t \in Tasks, Discover(t)
  PROVE  YardInv'
<1>1. /\ UNCHANGED <<today, baseline, results, open, viewed>>
      /\ \A u \in Tasks \ {t} : work'[u].stage = work[u].stage /\ work'[u].days = work[u].days
      /\ work'[t].days = Window(today)
  <2>1. UNCHANGED <<today, baseline, results, open, viewed>>
    BY DEF Discover, storeVars, worldVars
  <2>2. ASSUME NEW u \in Tasks \ {t}
        PROVE  work'[u].stage = work[u].stage /\ work'[u].days = work[u].days
    <3>1. work'[u] = [work[u] EXCEPT !.clean = FALSE]
      BY <2>2 DEF Discover
    <3>2. work[u] \in Progress
      BY DEF RunInv, StoreTypeOK
    <3> QED
      BY <3>1, <3>2, Uncleaned
  <2>3. work'[t].days = Window(today)
    BY DEF Discover, Rest
  <2> QED
    BY <2>1, <2>2, <2>3
<1> SUFFICES ASSUME ~viewed, ~(lapses > 0), NEW u \in Tasks, NEW w \in {work'[u]}
             PROVE  NoLater(w)'
  BY <1>1 DEF YardInv, YardstickHonest, Reached
<1>2. /\ baseline <= Reached /\ \A x \in Tasks : open[x] <= Reached
      /\ \A v \in {work[u]} : NoLater(v)
  BY DEF YardInv
<1>3. CASE u = t
  <2>1. \A d \in Window(today) : d \in Int /\ today - Lookback + 1 <= d
    <3>1. Lookback \in Int /\ today \in Int
      BY SettingsAssumption DEF RunInv, StoreTypeOK
    <3> QED
      BY <3>1 DEF Window, Days
  <2>2. \A d \in Window(today) : Reached <= 2 * d
    BY <2>1, SettingsAssumption DEF Reached, RunInv, StoreTypeOK
  <2>3. baseline \in Nat /\ open \in [Tasks -> Nat] /\ Reached \in Int
    BY SettingsAssumption DEF Reached, RunInv, StoreTypeOK
  <2>4. \A d \in Window(today) : baseline <= 2 * d /\ \A x \in Tasks : open[x] <= 2 * d
    BY <1>2, <2>1, <2>2, <2>3
  <2> QED
    BY <1>1, <1>3, <2>4 DEF NoLater
<1>4. CASE u # t
  BY <1>1, <1>2, <1>4 DEF NoLater
<1> QED
  BY <1>3, <1>4

(* The baseline a run builds reaches to its own first day, and it is the   *)
(* only run.                                                               *)
LEMMA BuildYard ==
  ASSUME LockInv, RunInv, YardInv, lapses' = lapses, NEW t \in Tasks, BuildBaseline(t)
  PROVE  YardInv'
<1> DEFINE new == 2 * First(work[t].days)
<1>1. /\ UNCHANGED <<today, baseline, results, viewed>> /\ phase[t] = "run" /\ work[t].stage = "build"
      /\ open' = [open EXCEPT ![t] = new]
      /\ \A u \in Tasks : work'[u].days = work[u].days
      /\ \A u \in Tasks : u # t => work'[u] = work[u]
  BY DEF BuildBaseline, At, Stage, WindowStart, storeVars, worldVars, RunInv, StoreTypeOK, Progress
<1>2. new \in Nat /\ new <= Reached /\ \A d \in work[t].days : new <= 2 * d
  <2>1. /\ First(work[t].days) \in Nat /\ First(work[t].days) <= today - Lookback + 1
        /\ \A d \in work[t].days : First(work[t].days) <= d
    BY <1>1, FirstDay DEF RunInv
  <2>2. \A d \in work[t].days : d \in Int
    BY DEF RunInv, StoreTypeOK, Progress, Days
  <2>3. today \in Int /\ Lookback \in Int
    BY SettingsAssumption DEF RunInv, StoreTypeOK
  <2> QED
    BY <2>1, <2>2, <2>3 DEF Reached
<1> HIDE DEF new
<1> SUFFICES ASSUME ~viewed, ~(lapses > 0)
             PROVE  /\ \A u \in Tasks : open'[u] <= Reached
                    /\ \A u \in Tasks : \A w \in {work'[u]} : NoLater(w)'
  BY <1>1 DEF YardInv, YardstickHonest, Reached
<1>3. /\ \A u \in Tasks : open[u] <= Reached
      /\ \A u \in Tasks : \A w \in {work[u]} : NoLater(w)
  BY DEF YardInv
<1>4. open \in [Tasks -> Nat]
  BY DEF RunInv, StoreTypeOK
<1>5. lapses = 0
  BY BudgetAssumption DEF LockInv, LockTypeOK
<1>6. ASSUME NEW u \in Tasks, NEW w \in {work'[u]} PROVE NoLater(w)'
  <2> SUFFICES ASSUME w.stage # "start", NEW d \in w.days
               PROVE  baseline <= 2 * d /\ \A x \in Tasks : open'[x] <= 2 * d
    BY <1>1 DEF NoLater
  <2>1. u = t
    <3>1. CASE u # t
      <4>1. work[u].stage # "start"
        BY <1>1, <1>6, <3>1
      <4> QED
        BY <1>1, <1>5, <4>1, OneAtWork
    <3> QED
      BY <3>1
  <2>2. d \in work[t].days
    BY <1>1, <1>6, <2>1
  <2>3. baseline <= 2 * d /\ \A x \in Tasks : open[x] <= 2 * d
    BY <1>1, <1>3, <2>2 DEF NoLater
  <2> QED
    BY <1>1, <1>2, <1>4, <2>2, <2>3
<1>7. \A u \in Tasks : open'[u] <= Reached
  BY <1>1, <1>2, <1>3, <1>4
<1> QED
  BY <1>6, <1>7

(* A day is judged by the baseline of its run or the committed one, and    *)
(* neither reaches into it.                                                *)
LEMMA JudgeYard ==
  ASSUME RunInv, YardInv, lapses' = lapses, NEW t \in Tasks, NEW d \in Days, Judge(t, d)
  PROVE  YardInv'
<1>1. /\ UNCHANGED <<today, baseline, open, viewed>>
      /\ Turn(t, "judge", d) /\ work' = [work EXCEPT ![t] = After(t, d, "read")]
      /\ results' = results \/ results' = [results EXCEPT ![d] = [version |-> features[d], yard |-> Yard(t)]]
  BY DEF Judge, Loop, worldVars
<1>2. PICK v \in Progress, w \in Progress :
        /\ v = work[t] /\ w = After(t, d, "read") /\ v.stage = "judge"
        /\ Moved(v, w, "judge", "read", d)
  BY <1>1, LoopMoves DEF Stages, AfterRows, AfterJudge
<1>3. \A u \in Tasks : work'[u].stage # "start" =>
        work[u].stage # "start" /\ work'[u].days = work[u].days
  BY <1>1, <1>2 DEF Moved, RunInv, StoreTypeOK
<1> SUFFICES ASSUME ~viewed, ~(lapses > 0)
             PROVE  /\ \A u \in Tasks : \A x \in {work'[u]} : NoLater(x)'
                    /\ \A e \in Days : results'[e].yard <= 2 * e
  BY <1>1 DEF YardInv, YardstickHonest, Reached
<1>4. /\ \A u \in Tasks : \A x \in {work[u]} : NoLater(x)
      /\ YardstickHonest
  BY DEF YardInv
<1>5. \A u \in Tasks : \A x \in {work'[u]} : NoLater(x)'
  BY <1>1, <1>3, <1>4 DEF NoLater
<1>6. Yard(t) <= 2 * d
  BY <1>2, <1>4 DEF NoLater, Moved, Yard
<1>7. \A e \in Days : results'[e].yard <= 2 * e
  BY <1>1, <1>4, <1>6 DEF YardstickHonest, RunInv, StoreTypeOK
<1> QED
  BY <1>5, <1>7

(* What a step that neither starts a run nor judges leaves of runs,        *)
(* baselines and results.                                                  *)
Standing ==
  /\ viewed => viewed'
  /\ today <= today' /\ today' \in Int
  /\ results' = results
  /\ baseline' \in {baseline} \union {open[u] : u \in Tasks}
  /\ \A u \in Tasks : open'[u] \in {0, open[u]}
  /\ \A u \in Tasks : work'[u].stage # "start" =>
       work[u].stage # "start" /\ work'[u].days = work[u].days

(* There is no baseline at first.                                          *)
LEMMA YardStart == Init => YardInv
<1> SUFFICES ASSUME Init PROVE YardInv
  OBVIOUS
<1>1. Reached \in Nat
  BY SettingsAssumption DEF Init, Reached
<1>2. YardstickHonest
  BY DEF Init, YardstickHonest, NoResult, Days
<1>3. \A t \in Tasks : \A w \in {work[t]} : NoLater(w)
  BY DEF Init, NoLater, Rest
<1> QED
  BY <1>1, <1>2, <1>3 DEF Init, YardInv

(* One run goes on as w. *)
LEMMA GoesOnStanding ==
  ASSUME RunInv, NEW t \in Tasks, NEW w \in Progress, work[t].stage # "start",
         work' = [work EXCEPT ![t] = w], w.days = work[t].days,
         UNCHANGED <<today, results, baseline, viewed, open>>
  PROVE  Standing
<1>1. today \in Int
  BY SettingsAssumption DEF RunInv, StoreTypeOK
<1> QED
  BY <1>1 DEF Standing, RunInv, StoreTypeOK

(* The runs of S end. *)
LEMMA EndStanding ==
  ASSUME RunInv, Settled, NEW S \in SUBSET Tasks,
         work' = [x \in Tasks |-> IF x \in S THEN Rest ELSE work[x]]
  PROVE  Standing
<1>1. today \in Int
  BY SettingsAssumption DEF RunInv, StoreTypeOK
<1> QED
  BY <1>1 DEF Standing, Settled, Rest

LEMMA StageStanding ==
  ASSUME RunInv, NEW t \in Tasks,
         \/ ReadBaseline(t) \/ KeepBaseline(t)
         \/ ReadEvents(t) \/ ClearFindings(t) \/ ReadSignals(t)
  PROVE  Standing
<1>1. work[t].stage # "start" /\ UNCHANGED <<today, results, baseline, viewed, open>>
  BY DEF ReadBaseline, KeepBaseline, ReadEvents, ClearFindings, ReadSignals, At, storeVars, worldVars
<1>2. today \in Int /\ work \in [Tasks -> Progress]
  BY SettingsAssumption DEF RunInv, StoreTypeOK
<1>3. \A u \in Tasks : u # t => work'[u] = work[u]
  BY <1>2 DEF ReadBaseline, KeepBaseline, ReadEvents, ClearFindings, ReadSignals, Stage
<1>4. work'[t].days = work[t].days
  BY <1>2 DEF ReadBaseline, KeepBaseline, ReadEvents, ClearFindings, ReadSignals, Stage, Progress
<1> QED
  BY <1>1, <1>2, <1>3, <1>4 DEF Standing

LEMMA LoopStanding ==
  ASSUME RunInv, NEW t \in Tasks, NEW d \in Days,
         WriteRow(t, d) \/ StoreFinding(t, d) \/ StoreScore(t, d) \/ RaiseAlert(t, d)
  PROVE  Standing
<1>1. UNCHANGED <<today, results, baseline, viewed, open>>
  BY DEF WriteRow, StoreFinding, StoreScore, RaiseAlert, worldVars
<1>2. PICK here \in Stages \ {"start", "baseline", "build", "read", "clear", "signals"},
           next \in Stages :
        Turn(t, here, d) /\ work' = [work EXCEPT ![t] = After(t, d, next)]
  BY DEF WriteRow, StoreFinding, StoreScore, RaiseAlert, Loop, Stages, AfterRows, AfterJudge,
       AfterClear, AfterStore
<1>3. PICK v \in Progress, w \in Progress :
        /\ v = work[t] /\ w = After(t, d, next) /\ v.stage = here
        /\ Moved(v, w, here, next, d)
  BY <1>2, LoopMoves
<1> QED
  BY <1>1, <1>2, <1>3, GoesOnStanding DEF Moved

LEMMA WorldStanding ==
  ASSUME RunInv, RunInv', \/ \E d \in Days : EventsArrive(d)
                          \/ Aside /\ ~ViewProfile
  PROVE  Standing
<1>1. today \in Int /\ today' \in Int
  BY SettingsAssumption DEF RunInv, StoreTypeOK
<1>2. ASSUME NEW d \in Days, EventsArrive(d) PROVE Standing
  <2>1. UNCHANGED <<today, results, baseline, viewed, open>>
    BY <1>2 DEF EventsArrive, storeVars
  <2>2. ASSUME NEW u \in Tasks
        PROVE  work'[u].stage = work[u].stage /\ work'[u].days = work[u].days
    <3>1. work'[u] = [work[u] EXCEPT !.clean = FALSE] /\ work[u] \in Progress
      BY <1>2 DEF EventsArrive, Unclean, RunInv, StoreTypeOK
    <3> QED
      BY <3>1, Uncleaned
  <2> QED
    BY <1>1, <2>1, <2>2 DEF Standing
<1>3. ASSUME NEW t \in Tasks, CommitLate(t) PROVE Standing
  <2>1. UNCHANGED <<today, results, viewed, work>>
    BY <1>3 DEF CommitLate, worldVars
  <2>2. /\ baseline' \in {baseline} \union {open[u] : u \in Tasks}
        /\ \A u \in Tasks : open'[u] \in {0, open[u]}
    BY <1>3 DEF CommitLate, RunInv, StoreTypeOK
  <2> QED
    BY <1>1, <2>1, <2>2 DEF Standing
<1>4. CASE DayPasses
  BY <1>1, <1>4 DEF DayPasses, storeVars, Standing
<1>5. ASSUME UNCHANGED <<today, baseline, results, open, viewed, work>> PROVE Standing
  BY <1>1, <1>5 DEF Standing
<1>6. ASSUME Aside, ~ViewProfile, ~DayPasses, ~\E t \in Tasks : CommitLate(t)
      PROVE  UNCHANGED <<today, baseline, results, open, viewed, work>>
  BY <1>6 DEF Aside, StartRun, CallStep, KeyExpires, KeyLapses, PickUp, vars, storeVars, worldVars
<1> QED
  BY <1>2, <1>3, <1>4, <1>5, <1>6

(* One step of anybody keeps the yardstick.                                *)
LEMMA YardStep ==
  ASSUME LockInv, LockInv', RunInv, RunInv', YardInv, [Next]_vars
  PROVE  YardInv'
<1>1. lapses \in Nat /\ lapses' \in Nat /\ lapses <= lapses'
  BY LapsesGrow, PipelineStepsLock, BudgetAssumption DEF LockInv, LockTypeOK
<1>2. today \in Int /\ today' \in Int
  BY SettingsAssumption DEF RunInv, StoreTypeOK
<1>3. Standing => YardInv'
  BY <1>1, <1>2, YardStands DEF Standing
<1>4. ASSUME NEW t \in Tasks, Body(t) PROVE YardInv'
  <2>1. CASE Discover(t)
    BY <2>1, DiscoverYard DEF Discover, lockVars
  <2>2. CASE BuildBaseline(t)
    BY <2>2, BuildYard DEF BuildBaseline, lockVars
  <2>3. ASSUME NEW d \in Days, Judge(t, d) PROVE YardInv'
    BY <2>3, JudgeYard DEF Judge, lockVars
  <2>4. CASE Close(t)
    <3>1. Settled /\ work' = [x \in Tasks |-> IF x \in {t} THEN Rest ELSE work[x]]
      BY <2>4, EndingSettles DEF LockInv, RunInv
    <3> QED
      BY <1>3, <3>1, EndStanding
  <2>5. CASE \/ ReadBaseline(t) \/ KeepBaseline(t)
             \/ ReadEvents(t) \/ ClearFindings(t) \/ ReadSignals(t)
    BY <1>3, <2>5, StageStanding
  <2>6. ASSUME NEW d \in Days,
               WriteRow(t, d) \/ StoreFinding(t, d) \/ StoreScore(t, d) \/ RaiseAlert(t, d)
        PROVE  YardInv'
    BY <1>3, <2>6, LoopStanding
  <2> QED
    BY <1>4, <2>1, <2>2, <2>3, <2>4, <2>5, <2>6 DEF Body
<1>5. ASSUME NEW t \in Tasks, Trouble(t) \/ SchedulerStops(t) PROVE YardInv'
  <2>1. CASE StageRaises(t) \/ BaselineClash(t) \/ SchedulerStops(t)
    <3>1. Settled /\ work' = [x \in Tasks |-> IF x \in {t} THEN Rest ELSE work[x]]
      BY <2>1, EndingSettles DEF LockInv, RunInv
    <3> QED
      BY <1>3, <3>1, EndStanding
  <2>2. CASE SkipDetection(t) \/ DetectorsFail(t) \/ \E d \in Days : AlertFails(t, d)
    <3>1. PICK w \in Progress :
            /\ work[t].stage # "start" /\ w.days = work[t].days
            /\ work' = [work EXCEPT ![t] = w]
            /\ UNCHANGED <<today, results, baseline, viewed, open>>
      BY <2>2, TroubleSpoils
    <3> QED
      BY <1>3, <3>1, GoesOnStanding
  <2> QED
    BY <1>5, <2>1, <2>2 DEF Trouble
<1>6. ASSUME NEW p \in Procs, ProcessDies(p) PROVE YardInv'
  <2>1. {u \in Tasks : Home(u) = p} \in SUBSET Tasks
    OBVIOUS
  <2>2. /\ Settled
        /\ work' = [x \in Tasks |-> IF x \in {u \in Tasks : Home(u) = p} THEN Rest ELSE work[x]]
    BY <1>6, DeathSettles DEF LockInv, RunInv
  <2> QED
    BY <1>3, <2>1, <2>2, EndStanding
<1>7. ASSUME NEW d \in Days, EventsArrive(d) PROVE YardInv'
  BY <1>3, <1>7, WorldStanding
<1>8. CASE ViewProfile
  BY <1>8 DEF ViewProfile, YardInv
<1>9. CASE Aside /\ ~ViewProfile
  BY <1>3, <1>9, WorldStanding
<1> QED
  BY <1>4, <1>5, <1>6, <1>7, <1>8, <1>9 DEF Next, Aside

(* However many processes and days, whatever ends a run half-way: without  *)
(* a lost lock and a profile view no day is judged by a baseline built     *)
(* from it (refresh_baseline, get_db and live_stages).                     *)
THEOREM YardstickStaysHonest == Spec => []YardstickUnlessViewed
<1>1. Init => YardInv
  BY YardStart
<1>2. LockInv /\ RunInv /\ LockInv' /\ RunInv' /\ YardInv /\ [Next]_vars => YardInv'
  BY YardStep
<1>3. YardInv => YardstickUnlessViewed
  BY DEF YardInv, YardstickUnlessViewed
<1> QED
  BY <1>1, <1>2, <1>3, RunInvariance, PTL DEF Spec
=============================================================================
