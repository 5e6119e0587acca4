------------------------------- MODULE Forest -------------------------------
(***************************************************************************)
(* The anomaly model around the isolation forest: the artifact and what    *)
(* makes it loadable, the input prepared from a feature row and a          *)
(* baseline, the risk that a decision score comes to, the explanation.     *)
(* The forest itself is external: any decision score may come out of it.   *)
(***************************************************************************)
EXTENDS Features, Sequences

CONSTANT Nothing   \* None: no such document, artifact or request

\* FEATURE_NAMES, in the order the model is locked to.
FeatureOrder ==
    <<"total_activity_count", "logon_count", "failed_logon_count", "after_hours_activity_count",
      "unique_active_hours", "unique_device_count", "unique_resource_count", "file_activity_count",
      "file_copy_count", "usb_activity_count", "email_count", "external_email_count",
      "http_activity_count", "ldap_activity_count", "process_activity_count",
      "activity_type_diversity">>

(***************************************************************************)
(* The artifact on disk: `whole` unless a dump has been cut short; the     *)
(* columns and those of the z-scores (by the feature they are the score    *)
(* of); the statistics of the training rows, which users it holds a        *)
(* baseline of, and the scores it was calibrated at, in which space.       *)
(***************************************************************************)
Min2(a, b) == IF a < b THEN a ELSE b

Loadable(f) ==
    /\ f # Nothing
    /\ f.whole
    /\ f.model_features = Len(f.columns) + Len(f.zcolumns)
    /\ \A i \in 1 .. Min2(Len(f.columns), Len(f.zcolumns)) : f.columns[i] = f.zcolumns[i]

\* Older artifacts were calibrated below the decision function.
Shift(f) == IF f.space # "decision_function" /\ f.high <= 0 THEN f.offset ELSE 0

Load(f) == [f EXCEPT !.low = f.low - Shift(f), !.high = f.high - Shift(f)]

Compatible(art) == art.columns = FeatureOrder

(***************************************************************************)
(* build_32_features.  A z-score (value - mean) / deviation is kept as its *)
(* numerator and the square of its denominator, both scaled to integers.   *)
(***************************************************************************)
\* The square of n times the deviation of a series.
Variance(x) == x.n * x.squares - x.sum ^ 2

Zero == [num |-> 0, den2 |-> 1]

\* The deviation falls back to the population's when the user's is zero, and
\* without either there is no z-score.
ZScore(value, personal, population) ==
    LET spread == IF Variance(personal) > 0 THEN personal ELSE population
    IN IF Variance(spread) <= 0 THEN Zero
       ELSE [num |-> (value * personal.n - personal.sum) * spread.n,
             den2 |-> personal.n ^ 2 * Variance(spread)]

\* The personal baseline, or the one of the artifact; either only if it has
\* every feature.
Candidate(user, baseline, art) ==
    IF baseline # Nothing /\ DOMAIN baseline.stats # {} THEN baseline.stats
    ELSE IF user \in DOMAIN art.baselines THEN art.baselines[user]
    ELSE Nothing

Usable(stats) == stats # Nothing /\ FeatureNames \subseteq DOMAIN stats

Prepared(row, baseline, art) ==
    LET candidate == Candidate(row.user, baseline, art)
        personal == Usable(candidate)
    IN [source |-> IF personal THEN "personal" ELSE "global",
        zscores |-> [name \in FeatureNames |->
                        ZScore(row.features[name],
                               IF personal THEN candidate[name] ELSE art.population[name],
                               art.population[name])]]

(***************************************************************************)
(* top_deviations: by size, then by name.                                  *)
(***************************************************************************)
Alphabetical ==
    <<"activity_type_diversity", "after_hours_activity_count", "email_count", "external_email_count",
      "failed_logon_count", "file_activity_count", "file_copy_count", "http_activity_count",
      "ldap_activity_count", "logon_count", "process_activity_count", "total_activity_count",
      "unique_active_hours", "unique_device_count", "unique_resource_count", "usb_activity_count">>

\* zs[Alphabetical[i]] comes before zs[Alphabetical[j]].
Outranks(zs, i, j) ==
    LET a == zs[Alphabetical[i]]
        b == zs[Alphabetical[j]]
        x == a.num ^ 2 * b.den2
        y == b.num ^ 2 * a.den2
    IN x > y \/ (x = y /\ i < j)

TopDeviations(zs, n) ==
    [rank \in 1 .. n |->
        Alphabetical[CHOOSE i \in DOMAIN Alphabetical :
            Cardinality({j \in DOMAIN Alphabetical : Outranks(zs, j, i)}) = rank - 1]]

(***************************************************************************)
(* The risk of a decision score, in thousandths; below zero the forest     *)
(* calls it an anomaly.                                                    *)
(***************************************************************************)
Magnitude(x) == IF x < 0 THEN -x ELSE x
Span(bound, other) == IF bound > 0 THEN bound ELSE Max({Magnitude(other), 1})
Rounded(x, y) == (2 * x + y) \div (2 * y)

Floor == 40000
MaxRisk == 100000
Risks == 0 .. MaxRisk

\* Mutant of NormalRisk: a normal score may reach the anomalies' floor.
TouchingRisk(decision, span) == Rounded(Floor * (span - Min2(decision, span)), span)

NormalRisk(decision, span) == Rounded((Floor - 10) * (span - Min2(decision, span)), span)
AnomalyRisk(decision, span) == Floor + Rounded((MaxRisk - Floor) * Min2(-decision, span), span)

RiskScore(decision, low, high) ==
    IF decision >= 0 THEN NormalRisk(decision, Span(high, low)) ELSE AnomalyRisk(decision, Span(-low, high))

\* The thresholds of the levels; that of MEDIUM is the floor.
Critical == 80000
High == 60000

RiskLevel(risk) ==
    CASE risk >= Critical -> "CRITICAL"
      [] risk >= High -> "HIGH"
      [] risk >= Floor -> "MEDIUM"
      [] OTHER -> "LOW"

Prediction(decision) == IF decision < 0 THEN "anomaly" ELSE "normal"

(***************************************************************************)
(* ModelTrainingService.train, after the rows are read: a population       *)
(* deviation of zero is written as one, which Unit stands for.             *)
(***************************************************************************)
Unit(x) == IF Variance(x) > 0 THEN x ELSE [x EXCEPT !.squares = (x.sum ^ 2 + x.n ^ 2) \div x.n]

Trained(id, rows, calibration) ==
    [id |-> id, whole |-> TRUE, columns |-> FeatureOrder, zcolumns |-> FeatureOrder,
     model_features |-> 2 * Len(FeatureOrder), baselines |-> << >>,
     population |-> [name \in FeatureNames |-> Unit(Series(rows, name))],
     low |-> calibration.low, high |-> calibration.high,
     space |-> "decision_function", offset |-> 0]
=============================================================================
