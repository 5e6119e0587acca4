----------------------------- MODULE Pipeline -----------------------------
(***************************************************************************)
(* The continuous detection pipeline (ueba/application/                    *)
(* detection_pipeline.py): one run turns a trailing window of days of one  *)
(* person's activity into feature rows, a personal baseline, anomaly       *)
(* results, findings, risk scores and alerts, each stage in a store of its *)
(* own, while events arrive, days pass, other runs go on and the analyst   *)
(* looks at the person's profile.                                          *)
(*                                                                         *)
(* A day's events are a version number; what a store says of a day is the  *)
(* version it was computed from, 0 for nothing.  At the versions in Spiky  *)
(* the detectors find something, something else at each; the model's own   *)
(* vote for an alert is left out.  Moments are half-days: 2d is the        *)
(* midnight day d starts with, 2d+1 a moment during it.                    *)
(***************************************************************************)
EXTENDS RunLock

CONSTANTS
  MaxDay,        \* bound: days that pass
  MaxEvents,     \* bound: batches of events that arrive
  MaxViews,      \* bound: profiles looked at
  MaxFaults,     \* bound: stages that raise
  Spiky,         \* versions of a day's events the detectors find something in
  Lookback,      \* PIPELINE_LOOKBACK_DAYS
  HistoryDays,   \* PIPELINE_BASELINE_HISTORY_DAYS
  MinDays        \* PIPELINE_BASELINE_MIN_DAYS

ASSUME SettingsAssumption ==
  /\ MaxDay \in Nat /\ Lookback <= MaxDay
  /\ {MaxEvents, MaxViews, MaxFaults, MinDays} \subseteq Nat
  /\ {Lookback, HistoryDays} \subseteq Nat \ {0}
  /\ Spiky \subseteq Nat \ {0}

VARIABLES
  today,
  version,       \* canonical_events: per day, how many batches arrived
  features,      \* behavioral_features
  baseline,      \* behavioral_baselines: window_end as committed, 0 for no row
  results,       \* anomaly_results: per day, what was judged by which baseline
  findings,      \* detection findings
  scores,        \* employee risk scores: the day's finding they counted
  alerts,        \* alerts: the finding they show
  taken,         \* days whose alert an analyst has picked up
  open,          \* per task: window_end of a baseline not committed yet, or 0
  work,          \* per task: how far its run is and what it remembers
  arrivals, views, faults,
  viewed         \* history: a profile view has replaced the baseline

storeVars == <<features, baseline, results, findings, scores, alerts, taken>>
worldVars == <<today, version, arrivals, views, faults, viewed>>
vars == <<lockVars, storeVars, worldVars, open, work>>

Days == 1..MaxDay
NoResult == [version |-> 0, yard |-> 0]

Nothing == [d \in Days |-> 0]
Rest == [stage |-> "start", days |-> {}, left |-> {}, seen |-> Nothing,
         signals |-> Nothing, clean |-> FALSE]

Init ==
  /\ LockInit
  /\ today = Lookback
  /\ version = Nothing
  /\ features = Nothing
  /\ baseline = 0
  /\ results = [d \in Days |-> NoResult]
  /\ findings = Nothing
  /\ scores = Nothing
  /\ alerts = Nothing
  /\ taken = {}
  /\ open = [t \in Tasks |-> 0]
  /\ work = [t \in Tasks |-> Rest]
  /\ arrivals = 0
  /\ views = 0
  /\ faults = 0
  /\ viewed = FALSE

-----------------------------------------------------------------------------
(* One run.                                                                *)

At(t, stage) == phase[t] = "run" /\ work[t].stage = stage
First(S) == CHOOSE d \in S : \A e \in S : d <= e

(* trailing_window *)
Window(now) == {d \in Days : now - Lookback < d /\ d <= now}

Stage(t, next) == [work EXCEPT ![t].stage = next]

(* The loops take the window's days in order, an awaited write for each.   *)
Turn(t, here, d) == At(t, here) /\ d = First(work[t].left)

After(t, d, next) ==
  IF work[t].left = {d}
  THEN [work[t] EXCEPT !.left = work[t].days, !.stage = next]
  ELSE [work[t] EXCEPT !.left = @ \ {d}]

Loop(t, here, next, d) ==
  /\ Turn(t, here, d)
  /\ work' = [work EXCEPT ![t] = After(t, d, next)]

(* run_once and generate_features: the window is that of the start, and a  *)
(* run over a window without events goes no further.                       *)
Discover(t) ==
  /\ At(t, "start")
  /\ LET days == Window(today)
         idle == \A d \in days : version[d] = 0
     IN work' = [u \in Tasks |->
          CASE u = t ->
                 [Rest EXCEPT
                    !.stage = IF idle THEN "close" ELSE "rows",
                    !.days = days, !.left = days,
                    !.seen = [d \in Days |-> IF d \in days THEN version[d] ELSE 0],
                    !.clean = Running = {t}]
            [] OTHER -> [work[u] EXCEPT !.clean = FALSE]]
  /\ UNCHANGED <<lockVars, storeVars, worldVars, open>>

WriteRow(t, d) ==
  /\ Loop(t, "rows", "baseline", d)
  /\ features' = [features EXCEPT ![d] = work[t].seen[d]]
  /\ UNCHANGED <<lockVars, baseline, results, findings, scores, alerts, taken,
                 worldVars, open>>

(* The baseline a run reads: its own transaction's, or the committed one.  *)
Yard(t) == IF open[t] # 0 THEN open[t] ELSE baseline

(* Mutant of WindowStart: the baseline reaches to the end of the window. *)
WindowEnd(t) == 2 * (First(work[t].days) + Lookback)

WindowStart(t) == 2 * First(work[t].days)

(* build_baseline has enough active days before `end`.                     *)
History(end, length) ==
  {d \in Days : version[d] > 0 /\ 2 * d < end /\ end <= 2 * (d + length)}

CanBuild(t) ==
  LET active == History(WindowStart(t), HistoryDays)
  IN active # {} /\ Cardinality(active) >= MinDays

(* refresh_baseline: is there a baseline that reaches to the window?       *)
ReadBaseline(t) ==
  /\ At(t, "baseline")
  /\ work' = Stage(t, IF Yard(t) >= WindowStart(t) THEN "judge" ELSE "build")
  /\ UNCHANGED <<lockVars, storeVars, worldVars, open>>

(* NoDataForBaselineError: the old baseline, if any, stays in use.         *)
KeepBaseline(t) ==
  /\ At(t, "build")
  /\ ~CanBuild(t)
  /\ work' = Stage(t, "judge")
  /\ UNCHANGED <<lockVars, storeVars, worldVars, open>>

BuildBaseline(t) ==
  /\ At(t, "build")
  /\ CanBuild(t)
  /\ \A u \in Tasks \ {t} : open[u] = 0     \* the row lock
  /\ open' = [open EXCEPT ![t] = WindowStart(t)]
  /\ work' = Stage(t, "judge")
  /\ UNCHANGED <<lockVars, storeVars, worldVars>>

(* AnomalyDetectionService.detect_for_user, row by row; rows without       *)
(* events are not judged.                                                  *)
Judge(t, d) ==
  /\ Loop(t, "judge", "read", d)
  /\ results' = IF features[d] = 0 THEN results
                ELSE [results EXCEPT ![d] =
                        [version |-> features[d], yard |-> Yard(t)]]
  /\ UNCHANGED <<lockVars, features, baseline, findings, scores, alerts, taken,
                 worldVars, open>>

(* DetectionService.detect_user: read the events, run the detectors ...    *)
ReadEvents(t) ==
  /\ At(t, "read")
  /\ work' = [work EXCEPT ![t].stage = "clear",
                          ![t].seen = [d \in Days |->
                             IF d \in work[t].days THEN version[d] ELSE 0]]
  /\ UNCHANGED <<lockVars, storeVars, worldVars, open>>

Found(t, d) == work[t].seen[d] \in Spiky

(* Mutant of ClearFindings: nothing is dropped. *)
KeepFindings(t) ==
  /\ At(t, "clear")
  /\ work' = Stage(t, "store")
  /\ UNCHANGED <<lockVars, storeVars, worldVars, open>>

(* ... and replace_for_user_days: drop what no longer applies, upsert the  *)
(* rest.                                                                   *)
ClearFindings(t) ==
  /\ At(t, "clear")
  /\ findings' = [d \in Days |->
       IF d \in work[t].days /\ ~Found(t, d) THEN 0 ELSE findings[d]]
  /\ work' = Stage(t, "store")
  /\ UNCHANGED <<lockVars, features, baseline, results, scores, alerts, taken,
                 worldVars, open>>

StoreFinding(t, d) ==
  /\ Loop(t, "store", "signals", d)
  /\ findings' = IF Found(t, d)
                 THEN [findings EXCEPT ![d] = work[t].seen[d]] ELSE findings
  /\ UNCHANGED <<lockVars, features, baseline, results, scores, alerts, taken,
                 worldVars, open>>

(* RiskService.score_window: the signals are read back from the stores.    *)
ReadSignals(t) ==
  /\ At(t, "signals")
  /\ work' = [work EXCEPT ![t].stage = "scores", ![t].signals = findings]
  /\ UNCHANGED <<lockVars, storeVars, worldVars, open>>

StoreScore(t, d) ==
  /\ Loop(t, "scores", "alerts", d)
  /\ scores' = [scores EXCEPT ![d] = work[t].signals[d]]
  /\ UNCHANGED <<lockVars, features, baseline, results, findings, alerts, taken,
                 worldVars, open>>

(* RiskAlertService.raise_for: the score says how bad, the run's own       *)
(* findings say what; an alert an analyst has picked up stays as it is.    *)
RaiseAlert(t, d) ==
  /\ Loop(t, "alerts", "close", d)
  /\ alerts' = IF Found(t, d) /\ work[t].signals[d] # 0 /\ d \notin taken
               THEN [alerts EXCEPT ![d] = work[t].seen[d]] ELSE alerts
  /\ UNCHANGED <<lockVars, features, baseline, results, findings, scores, taken,
                 worldVars, open>>

(* live_stages commits at the end of a scheduled run; the request of a     *)
(* manual one commits in get_db, after the lock is released.               *)
Settle(t) ==
  IF Trigger(t) = "schedule" /\ open[t] # 0
  THEN baseline' = open[t] /\ open' = [open EXCEPT ![t] = 0]
  ELSE UNCHANGED <<baseline, open>>

Close(t) ==
  /\ At(t, "close")
  /\ EndRun(t)
  /\ Settle(t)
  /\ work' = [work EXCEPT ![t] = Rest]
  /\ UNCHANGED <<features, results, findings, scores, alerts, taken, worldVars>>

CommitLate(t) ==
  /\ phase[t] = "idle"
  /\ open[t] # 0
  /\ baseline' = open[t]
  /\ open' = [open EXCEPT ![t] = 0]
  /\ UNCHANGED <<lockVars, features, results, findings, scores, alerts, taken,
                 worldVars, work>>

-----------------------------------------------------------------------------
(* What goes wrong in a run.                                               *)

Fault(t) ==
  /\ faults < MaxFaults
  /\ faults' = faults + 1
  /\ UNCHANGED <<today, version, arrivals, views, viewed>>

(* A stage raises: run_once reports it and live_stages rolls back, but the *)
(* documents written so far stay.  A manual run's session is rolled back   *)
(* only if it was the session that failed: run_once swallows the rest.     *)
StageRaises(t) ==
  /\ phase[t] = "run"
  /\ work[t].stage # "close"
  /\ Fault(t)
  /\ EndRun(t)
  /\ \/ open' = [open EXCEPT ![t] = 0]
     \/ Trigger(t) = "manual" /\ UNCHANGED open
  /\ work' = [work EXCEPT ![t] = Rest]
  /\ UNCHANGED storeVars

(* A first baseline inserted twice: the unique constraint fails the run    *)
(* that comes second (it waits for the other's commit, changing nothing).  *)
BaselineClash(t) ==
  /\ At(t, "build")
  /\ CanBuild(t)
  /\ baseline = 0
  /\ \E u \in Tasks \ {t} : open[u] # 0
  /\ EndRun(t)
  /\ work' = [work EXCEPT ![t] = Rest]
  /\ UNCHANGED <<storeVars, worldVars, open>>

(* No usable model: detection is skipped, the run succeeds.                *)
SkipDetection(t) ==
  /\ At(t, "judge")
  /\ Fault(t)
  /\ work' = [work EXCEPT ![t].stage = "close", ![t].clean = FALSE]
  /\ UNCHANGED <<lockVars, storeVars, open>>

(* One person's bad data: logged, the run goes on without findings.        *)
DetectorsFail(t) ==
  /\ phase[t] = "run"
  /\ work[t].stage \in {"read", "clear", "store"}
  /\ Fault(t)
  /\ work' = [work EXCEPT ![t].stage = "signals", ![t].left = work[t].days,
                          ![t].seen = Nothing, ![t].clean = FALSE]
  /\ UNCHANGED <<lockVars, storeVars, open>>

(* One bad alert: logged, the next score is taken.                         *)
AlertFails(t, d) ==
  /\ Turn(t, "alerts", d)
  /\ Fault(t)
  /\ work' = [work EXCEPT ![t] = [After(t, d, "close") EXCEPT !.clean = FALSE]]
  /\ UNCHANGED <<lockVars, storeVars, open>>

-----------------------------------------------------------------------------
(* The world around the runs.                                              *)

Unclean == work' = [t \in Tasks |-> [work[t] EXCEPT !.clean = FALSE]]

(* Events of today, or late ones of an earlier day.                        *)
EventsArrive(d) ==
  /\ d <= today
  /\ arrivals < MaxEvents
  /\ arrivals' = arrivals + 1
  /\ version' = [version EXCEPT ![d] = @ + 1]
  /\ Unclean
  /\ UNCHANGED <<lockVars, storeVars, today, views, faults, viewed, open>>

DayPasses ==
  /\ today < MaxDay
  /\ today' = today + 1
  /\ UNCHANGED <<lockVars, storeVars, version, arrivals, views, faults, viewed,
                 open, work>>

PickUp(d) ==
  /\ alerts[d] # 0
  /\ taken' = taken \union {d}
  /\ UNCHANGED <<lockVars, features, baseline, results, findings, scores,
                 alerts, worldVars, open, work>>

(* GET /behavioral/profile/{user_id}: builds and saves a baseline of the   *)
(* last 30 days up to now.                                                 *)
ViewProfile ==
  /\ views < MaxViews
  /\ History(2 * today + 1, 30) # {}
  /\ \A t \in Tasks : open[t] = 0
  /\ baseline' = 2 * today + 1
  /\ views' = views + 1
  /\ viewed' = TRUE
  /\ UNCHANGED <<lockVars, features, results, findings, scores, alerts, taken,
                 today, version, arrivals, faults, open, work>>

-----------------------------------------------------------------------------
(* The coordinator's steps that leave the run alone, and those that end    *)
(* it.                                                                     *)

StartRun(t) ==
  /\ open[t] = 0
  /\ Begin(t)
  /\ UNCHANGED <<storeVars, worldVars, open, work>>

CallStep(t) ==
  /\ Call(t)
  /\ UNCHANGED <<storeVars, worldVars, open, work>>

Stopped(S) ==
  /\ work' = [t \in Tasks |-> IF t \in S THEN Rest ELSE work[t]]
  /\ open' = [t \in Tasks |-> IF t \in S THEN 0 ELSE open[t]]
  /\ UNCHANGED <<storeVars, worldVars>>

SchedulerStops(t) == Cancel(t) /\ Stopped({t})

ProcessDies(p) == Crash(p) /\ Stopped({t \in Tasks : Home(t) = p})

KeyExpires == Expire /\ UNCHANGED <<storeVars, worldVars, open, work>>
KeyLapses == Lapse /\ UNCHANGED <<storeVars, worldVars, open, work>>

Body(t) ==
  \/ Discover(t)
  \/ \E d \in Days : WriteRow(t, d)
  \/ ReadBaseline(t)
  \/ KeepBaseline(t)
  \/ BuildBaseline(t)
  \/ \E d \in Days : Judge(t, d)
  \/ ReadEvents(t)
  \/ ClearFindings(t)
  \/ \E d \in Days : StoreFinding(t, d)
  \/ ReadSignals(t)
  \/ \E d \in Days : StoreScore(t, d)
  \/ \E d \in Days : RaiseAlert(t, d)
  \/ Close(t)

Trouble(t) ==
  \/ StageRaises(t)
  \/ BaselineClash(t)
  \/ SkipDetection(t)
  \/ DetectorsFail(t)
  \/ \E d \in Days : AlertFails(t, d)

Next ==
  \/ \E t \in Tasks :
       \/ StartRun(t)
       \/ CallStep(t)
       \/ Body(t)
       \/ CommitLate(t)
       \/ Trouble(t)
       \/ SchedulerStops(t)
  \/ \E p \in Procs : ProcessDies(p)
  \/ KeyExpires
  \/ KeyLapses
  \/ \E d \in Days : EventsArrive(d) \/ PickUp(d)
  \/ DayPasses
  \/ ViewProfile

Spec == Init /\ [][Next]_vars

Fairness ==
  /\ \A t \in Tasks :
       /\ WF_vars(CallStep(t))
       /\ WF_vars(Body(t))
       /\ WF_vars(CommitLate(t))
       /\ Trigger(t) = "schedule" => WF_vars(StartRun(t))
  /\ WF_vars(KeyExpires)

FairSpec == Spec /\ Fairness

-----------------------------------------------------------------------------
(* Properties.                                                             *)

FindingOf(d) == IF version[d] \in Spiky THEN version[d] ELSE 0

(* What the stores say of a day is what its events say.  An alert is left  *)
(* alone once picked up, and when its finding no longer applies.           *)
Fresh(d) ==
  version[d] > 0 =>
    /\ features[d] = version[d]
    /\ results[d].version = version[d]
    /\ findings[d] = FindingOf(d)
    /\ scores[d] = FindingOf(d)
    /\ (FindingOf(d) # 0 /\ d \notin taken) => alerts[d] = FindingOf(d)

(* A run nothing came between - no other run, no event, no failing stage - *)
(* leaves all five stores in step with the events of its window, whatever  *)
(* interrupted and overlapping runs left behind ("every stage is           *)
(* idempotent", detection_pipeline.py).                                    *)
CleanRunIsFresh ==
  \A t \in Tasks :
    At(t, "close") /\ work[t].clean => \A d \in work[t].days : Fresh(d)

(* "the behaviour being judged never shapes its own yardstick"             *)
(* (detection_pipeline.py): no day is judged by a baseline built from it.  *)
YardstickHonest == \A d \in Days : results[d].yard <= 2 * d

(* It holds as long as the pipeline is the only one to build baselines and *)
(* its runs do not overlap: a newer run would give an older one a baseline *)
(* that covers the older one's days.                                       *)
YardstickUnlessViewed == viewed \/ lapses > 0 \/ YardstickHonest

(* When events, failures and stops have ended, the schedulers bring the    *)
(* stores in step with the days still looked back to, for good.            *)
Settles == <>[](\A d \in Window(today) : Fresh(d))
=============================================================================
