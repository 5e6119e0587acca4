------------------------------ MODULE Scoring ------------------------------
(***************************************************************************)
(* A person's insider risk score of a day (risk/application/scoring.py).   *)
(*                                                                         *)
(* A signal has the day it is dated, its component, a severity in points   *)
(* and a reference.  Weights and scores are tenths of a point, 0 to 1000,  *)
(* rounded down.                                                           *)
(***************************************************************************)
EXTENDS Integers, FiniteSets, FiniteSetsExt

CONSTANTS LookbackDays, HistoricalLookbackDays

ASSUME LookbackAssumption == {LookbackDays, HistoricalLookbackDays} \subseteq Nat

Weights == [behavioral |-> 35, privilege |-> 25, data |-> 20, access |-> 10, historical |-> 10]
Components == DOMAIN Weights

MinPriority == 600

\* Per mille of a severity left after age days: half-lives of 7 and 90 days.
Fade == [age \in 0..13 |-> <<1000, 906, 820, 743, 673, 610, 552>>[(age % 7) + 1] \div 2 ^ (age \div 7)]
HistoricalFade == [age \in 0..13 |-> 1000 - (77 * age) \div 10]

Historical(s) == s.component = "historical"

\* Future signals never leak into the past.
Live(d, signals) ==
    {s \in signals : s.day <= d /\ d - s.day <= IF Historical(s) THEN HistoricalLookbackDays ELSE LookbackDays}

Weight(d, s) == (s.severity * (IF Historical(s) THEN HistoricalFade ELSE Fade)[d - s.day]) \div 100

\* Independent evidence: what is left to doubt after each of them.
Combine(d, signals) ==
    LET doubt == FoldSet(LAMBDA s, rest : (rest * (1000 - Weight(d, s))) \div 1000, 1000000, signals)
    IN 1000 - doubt \div 1000

Component(d, live, c) == Combine(d, {s \in live : s.component = c})

Score(d, live) ==
    MapThenSumSet(LAMBDA c : Weights[c] * Component(d, live, c), Components) \div 100

Today(d, live) == {s \in live : s.day = d /\ ~Historical(s)}

Strength(d, live) == Combine(d, Today(d, live))

Strongest(d, live) == Max({0} \cup {Weight(d, s) : s \in {t \in live : ~Historical(t)}})

\* The score, or four fifths of the day's live strength, if that is more.
Priority(d, live) ==
    Max({Score(d, live), (8 * Max({Strongest(d, live), Strength(d, live)})) \div 10})

\* classify_risk_level, and the severity of an alert of that level.
Level(score) ==
    CASE score >= 800 -> "CRITICAL" [] score >= 600 -> "HIGH"
      [] score >= 400 -> "MEDIUM" [] OTHER -> "LOW"

\* top_signals keeps five, the heaviest; of equal ones the findings of the
\* behavioral component come before the model's result.
Ahead(d, s, live) ==
    {t \in live \ {s} :
        \/ Weight(d, t) > Weight(d, s)
        \/ Weight(d, t) = Weight(d, s) /\ t.component = "behavioral"}

ModelToday(d, live) ==
    \E s \in Today(d, live) : s.ref[1] = "model" /\ Cardinality(Ahead(d, s, live)) < 5
=============================================================================
