----------------------------- MODULE Screening -----------------------------
(***************************************************************************)
(* What the pipeline makes of one person's days: findings, the model's     *)
(* results, risk scores and alerts, while events arrive late, analysts     *)
(* act on the alerts and the employee directory changes.                   *)
(*                                                                         *)
(* A run is one step here: Pipeline takes it apart.  The model's result of *)
(* a day is its severity, 0 when the day is not anomalous or was not       *)
(* judged by the person's own baseline.  What the trained model says is a  *)
(* constant, but every run judges the days of its window anew: by their    *)
(* features of now, and by a baseline that follows the window.             *)
(***************************************************************************)
EXTENDS Detectors, Scoring, Bags

CONSTANTS MaxDays, WindowDays, HistoryDays,
          BaselineDays,        \* how far back a baseline looks
          MinBaselineDays,     \* the active days it takes
          Deeds,               \* what may happen on a day, and its bag of events
          DayChoices,          \* the deeds of a day when it comes
          Verdict(_, _),       \* the model's result of a day's deeds by what was learned
          Orgs,                \* what the directory may say
          FirstOrg,
          CaseSeverities,      \* what an investigation weighs
          MaxChanges,          \* late events, analyst's acts, directory changes
          NoScore

ASSUME ScreeningAssumption ==
    /\ {MaxDays, WindowDays, HistoryDays, BaselineDays, MinBaselineDays} \subseteq Nat \ {0}
    /\ DayChoices \subseteq SUBSET DOMAIN Deeds
    /\ FirstOrg \in Orgs
\* Fade and HistoricalFade go no further.
ASSUME FadeAssumption == MaxDays <= 14

VARIABLES today,       \* the current day
          deeds,       \* canonical_events: the deeds of each day
          baseline,    \* behavioral_baselines: what was learned, and until which day
          model,       \* anomaly_results
          org,         \* the directory
          findings,    \* detection_findings
          scores,      \* employee_risk_scores
          alerts,      \* alerts of the risk engine and of the model, per day
          cases,       \* investigations past OPEN, by the day they were opened
          changes,
          stale        \* history: days whose causes changed since the last run

vars == <<today, deeds, baseline, model, org, findings, scores, alerts, cases, changes, stale>>

Days == 1..MaxDays
Sources == {"risk", "model"}
NoAlert == [status |-> "none"]
NoBaseline == [until |-> 0, learned |-> [d \in 1..0 |-> {}]]
ProfileDays == 30
SeverityWeight == [LOW |-> 30, MEDIUM |-> 50, HIGH |-> 70, CRITICAL |-> 90]

Init ==
    /\ today = 0
    /\ deeds = [d \in Days |-> {}]
    /\ baseline = NoBaseline
    /\ model = [d \in Days |-> 0]
    /\ org = FirstOrg
    /\ findings = [d \in Days |-> {}]
    /\ scores = [d \in Days |-> NoScore]
    /\ alerts = [k \in Sources \X Days |-> NoAlert]
    /\ cases = [d \in Days |-> 0]
    /\ changes = 0
    /\ stale = {}

\* The events of a day.
Events(d) == FoldSet(LAMBDA deed, day : day (+) Deeds[deed], EmptyBag, deeds[d])

Window == {d \in 1..today : d > today - WindowDays}

\* No history before the window.
NoHistory == Min(Window)

\* The first day detect_user reads: history_days before the window.
HistoryStart == Max({1, Min(Window) - HistoryDays})

\* UserTimeline: each day is judged by the days before it, then learned.
ProfileOf(first, d) ==
    LET learned[n \in (first - 1)..(d - 1)] ==
            IF n < first THEN Unknown ELSE Learn(learned[n - 1], Events(n), org.owners)
    IN learned[d - 1]

Judged(first, d) == Detect(Events(d), ProfileOf(first, d), org)

Signal(d, component, severity, ref) ==
    [day |-> d, component |-> component, severity |-> severity, ref |-> ref]

\* An alert counts as soon as it exists.
OwnOutput(k) == alerts[k] # NoAlert /\ alerts[k].status # "FALSE_POSITIVE"

\* Alerts count once an analyst engaged with them and did not dismiss them.
Engaged(k) == alerts[k] # NoAlert /\ alerts[k].status = "ACKNOWLEDGED"

SignalsFor(found, results) ==
    (UNION {{Signal(d, f.component, f.severity, <<"finding", d, f.detector>>) : f \in found[d]} :
               d \in 1..today})
    \cup {Signal(d, "behavioral", results[d], <<"model", d>>) : d \in {e \in 1..today : results[e] > 0}}
    \cup {Signal(k[2], "historical", SeverityWeight[alerts[k].severity], <<"alert", k>>) :
            k \in {j \in DOMAIN alerts : Engaged(j)}}
    \cup {Signal(d, "historical", cases[d], <<"case", d>>) : d \in {e \in 1..today : cases[e] > 0}}

Scored(d, live) == [score |-> Score(d, live), priority |-> Priority(d, live)]

\* Only findings warrant an alert.
FindingsOnly(d, found, live) == Priority(d, live) >= MinPriority /\ found # {}

\* alert_warranted
Warranted(d, found, live) ==
    Priority(d, live) >= MinPriority /\ (found # {} \/ ModelToday(d, live))

\* An alert raised is never looked at again.
RaisedOnce(alert, d, found, live) ==
    IF Warranted(d, found, live) /\ alert = NoAlert
    THEN [status |-> "OPEN", severity |-> Level(Priority(d, live)),
          priority |-> Priority(d, live), findings |-> found]
    ELSE alert

\* raise_for: a new alert, or the content of one nobody has picked up.
Raised(alert, d, found, live) ==
    LET content == [status |-> "OPEN", severity |-> Level(Priority(d, live)),
                    priority |-> Priority(d, live), findings |-> found]
    IN IF Warranted(d, found, live) /\ (alert = NoAlert \/ alert.status = "OPEN")
       THEN content ELSE alert

Taught(days) == [d \in days |-> deeds[d]]

\* refresh_baseline: a baseline that ends before the window is built anew from
\* the days before the window, if the person was active on enough of them.
Refreshed ==
    LET before == {d \in 1..today : Min(Window) - BaselineDays <= d /\ d < Min(Window)}
    IN IF \/ baseline.until >= Min(Window)
          \/ Cardinality({d \in before : deeds[d] # {}}) < MinBaselineDays
       THEN baseline ELSE [until |-> Min(Window), learned |-> Taught(before)]

\* A person without an event in the window has no features and is passed over;
\* a day without one is not judged.
Run ==
    LET yard == Refreshed
        results == [d \in Days |-> IF d \in Window /\ deeds[d] # {}
                                   THEN Verdict(deeds[d], yard.learned) ELSE model[d]]
        found == [d \in Days |-> IF d \in Window THEN Judged(HistoryStart, d) ELSE findings[d]]
        signals == SignalsFor(found, results)
        live(d) == Live(d, signals)
    IN /\ \E d \in Window : deeds[d] # {}
       /\ baseline' = yard
       /\ model' = results
       /\ findings' = found
       /\ scores' = [d \in Days |-> IF d \in Window THEN Scored(d, live(d)) ELSE scores[d]]
       /\ alerts' = [k \in DOMAIN alerts |->
             IF k[1] = "risk" /\ k[2] \in Window
             THEN Raised(alerts[k], k[2], found[k[2]], live(k[2])) ELSE alerts[k]]
       /\ stale' = stale \ Window
       /\ UNCHANGED <<today, deeds, org, cases, changes>>

NewDay(choice) ==
    /\ today < MaxDays
    /\ today' = today + 1
    /\ deeds' = [deeds EXCEPT ![today'] = choice]
    /\ stale' = stale \cup {today'}
    /\ UNCHANGED <<baseline, model, org, findings, scores, alerts, cases, changes>>

Change(from) ==
    /\ changes < MaxChanges /\ today > 0
    /\ changes' = changes + 1
    /\ stale' = stale \cup from..today
    /\ UNCHANGED today

LateEvents(d, deed) ==
    /\ d \in 1..today /\ deed \notin deeds[d]
    /\ deeds' = [deeds EXCEPT ![d] = @ \cup {deed}]
    /\ Change(d)
    /\ UNCHANGED <<baseline, model, org, findings, scores, alerts, cases>>

Act(k, status) ==
    /\ alerts[k] # NoAlert /\ alerts[k].status # "FALSE_POSITIVE" /\ alerts[k].status # status
    /\ alerts' = [alerts EXCEPT ![k].status = status]
    /\ Change(k[2])
    /\ UNCHANGED <<deeds, baseline, model, org, findings, scores, cases>>

StartCase(d, severity) ==
    /\ d \in 1..today /\ cases[d] = 0
    /\ cases' = [cases EXCEPT ![d] = severity]
    /\ Change(d)
    /\ UNCHANGED <<deeds, baseline, model, org, findings, scores, alerts>>

DirectoryChanges(new) ==
    /\ new # org
    /\ org' = new
    /\ Change(1)
    /\ UNCHANGED <<deeds, baseline, model, findings, scores, alerts, cases>>

\* GET /behavioral/profile: a baseline of the last 30 days, today included.
ViewProfile ==
    LET days == {d \in 1..today : d >= today - ProfileDays}
    IN /\ \E d \in days : deeds[d] # {}
       /\ baseline' = [until |-> today, learned |-> Taught(days)]
       /\ Change(Min(Window))
       /\ UNCHANGED <<deeds, model, org, findings, scores, alerts, cases>>

\* The alert of a result of the model that is HIGH or worse, once.
ModelAlert(alert, result) ==
    IF alert = NoAlert /\ Level(10 * result) \in {"HIGH", "CRITICAL"}
    THEN [status |-> "OPEN", severity |-> Level(10 * result), priority |-> 10 * result, findings |-> {}]
    ELSE alert

\* POST /anomaly/detect for a day, by the row made of it last, which holds what
\* was there then: its alert comes with it.
DetectAgain(d, row) ==
    LET result == Verdict(row, baseline.learned)
    IN /\ d \in 1..today /\ row # {} /\ row \subseteq deeds[d]
       /\ model' = [model EXCEPT ![d] = result]
       /\ alerts' = [alerts EXCEPT ![<<"model", d>>] = ModelAlert(@, result)]
       /\ Change(d)
       /\ UNCHANGED <<deeds, baseline, org, findings, scores, cases>>

\* POST /alerts/generate: the alerts of the results there are.
Generate ==
    /\ changes < MaxChanges
    /\ changes' = changes + 1
    /\ alerts' = [k \in DOMAIN alerts |->
            IF k[1] = "model" THEN ModelAlert(alerts[k], model[k[2]]) ELSE alerts[k]]
    /\ UNCHANGED <<today, deeds, baseline, model, org, findings, scores, cases, stale>>

Next ==
    \/ Run \/ ViewProfile \/ Generate
    \/ \E d \in Days, row \in SUBSET DOMAIN Deeds : DetectAgain(d, row)
    \/ \E choice \in DayChoices : NewDay(choice)
    \/ \E d \in Days, deed \in DOMAIN Deeds : LateEvents(d, deed)
    \/ \E k \in DOMAIN alerts, status \in {"ACKNOWLEDGED", "FALSE_POSITIVE"} : Act(k, status)
    \/ \E d \in Days, severity \in CaseSeverities : StartCase(d, severity)
    \/ \E new \in Orgs : DirectoryChanges(new)

Spec == Init /\ [][Next]_vars

(***************************************************************************)
(* Properties.                                                             *)
(***************************************************************************)

\* Days a run has judged, and nothing of what it read has changed since.
Settled == Window \ stale

\* A day the window has left the history with: the person was active then.
Forgotten == \E d \in 1..today : d < Min(Window) - HistoryDays /\ deeds[d] # {}

\* The window has moved past the baseline, and by a new one the model sees the
\* day, or one before it, in another light.
NewYardstick(d) == baseline' # baseline /\ \E e \in Window : e <= d /\ model'[e] # model[e]

\* A run changes the score of a day only if something did of which the score
\* is made: the events of the day or of one before, the directory, an alert or
\* a case, a result or a baseline someone asked for.  Alerts nobody has acted
\* on do not raise tomorrow's score, and nothing of tomorrow raises today's.
\* Only days that leave the history do, and a baseline that has to be renewed.
OnlyCausesChangeScores ==
    [][Run => \A d \in Settled :
                scores[d] = NoScore \/ scores'[d] = scores[d] \/ Forgotten \/ NewYardstick(d)]_vars

\* "Results match a full dataset replay of the same days", as long as the
\* history holds every day on which the person was active.
WindowMatchesReplay ==
    \A d \in Settled : findings[d] = Judged(1, d) \/ Forgotten

\* An alert nobody has picked up shows the day as it was scored last, unless
\* the day does not warrant an alert any more.
OpenAlertCurrent ==
    \A d \in Settled :
        LET alert == alerts[<<"risk", d>>]
        IN alert # NoAlert /\ alert.status = "OPEN" =>
             \/ alert.priority = scores[d].priority /\ alert.findings = findings[d]
             \/ ~Warranted(d, findings[d], Live(d, SignalsFor(findings, model)))

\* A day of high priority on which something happened has an alert, unless all
\* that happened is a result of the model that five heavier signals hide.
CauseRaisesAlert ==
    \A d \in Settled :
        scores[d] # NoScore /\ scores[d].priority >= MinPriority =>
            \/ alerts[<<"risk", d>>] # NoAlert
            \/ findings[d] = {} /\ ~(model[d] > 0)
            \/ /\ findings[d] = {}
               /\ Cardinality({s \in Live(d, SignalsFor(findings, model)) : s.day < d \/ Historical(s)}) >= 5
=============================================================================
