---------------------------- MODULE MCBehaviour -----------------------------
EXTENDS Behaviour, TLC

CONSTANTS w1, w2, p1, p2

MCProcessOf == (w1 :> p1) @@ (w2 :> p2)

Event(user, at, type, dataset, external) ==
    [user |-> user, at |-> at, type |-> type, dataset |-> dataset, device |-> {"pc"},
     resource |-> IF type = "logon" THEN {} ELSE {type}, external |-> external]

\* Ann works on both days and mails on the second; what an exited process did
\* is nobody's.
MCPool ==
    {Event("ann", 1, "file_copy", "agent", FALSE),
     Event("ann", 2, "logon", "cert", FALSE),
     Event("unknown", 3, "app_launch", "agent", FALSE)}

Ann == {"ann"}
Generate(users, from, to, dataset, window) ==
    [kind |-> "generate", users |-> users, from |-> from, to |-> to, dataset |-> dataset, window |-> window]
Detect(user, dataset, window) ==
    [kind |-> "detect", user |-> user, from |-> 0, to |-> 4, dataset |-> dataset, window |-> window]
Train(dataset) == [kind |-> "train", dataset |-> dataset, window |-> "daily"]

\* The second day begins where the rolling window of the last one does.
MCMenu ==
    {Generate({}, 0, 4, "all", "daily"),
     Generate({}, 2, 5, "all", "rolling"),
     Generate(Ann, 1, 4, "cert", "daily"),
     Detect("ann", "all", "daily"),
     Detect(Nothing, "cert", "daily"),
     Train("all"),
     [kind |-> "profile", user |-> "ann", to |-> 3],
     [kind |-> "export", from |-> 0, to |-> 3, dataset |-> "all", window |-> "daily"]}

\* The artifact that comes with the system was calibrated the old way.
Old ==
    [id |-> 0, whole |-> TRUE, columns |-> FeatureOrder, zcolumns |-> FeatureOrder,
     model_features |-> 2 * Len(FeatureOrder), baselines |-> << >>,
     population |-> [name \in FeatureNames |-> [n |-> 2, sum |-> 2, squares |-> 4]],
     low |-> -6, high |-> -4, space |-> "score_samples", offset |-> -5]
MCShipped == {Nothing, Old, [Old EXCEPT !.columns = Tail(FeatureOrder) \o <<Head(FeatureOrder)>>]}

MCCalibrations == {[low |-> -1, high |-> 2], [low |-> 0, high |-> 0]}
MCDecisions == {-1, 0, 1}
=============================================================================
