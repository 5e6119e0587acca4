------------------------------ MODULE Features ------------------------------
(***************************************************************************)
(* Behavioural features: what one user's events in a window come to, the   *)
(* windows of a range, and the personal baseline drawn from past days.     *)
(*                                                                         *)
(* Time is counted in half days, so that a range can begin and end inside  *)
(* a day: an even instant lies in the night, an odd one in working hours.  *)
(***************************************************************************)
EXTENDS Integers, FiniteSetsExt

CONSTANT RollingTicks   \* the length of a rolling window

ASSUME RollingAssumption == RollingTicks \in Nat

(***************************************************************************)
(* One event.                                                              *)
(***************************************************************************)
HourOf(at) == IF at % 2 = 0 THEN 3 ELSE 10
AfterHours(e) == HourOf(e.at) < 8 \/ HourOf(e.at) >= 18

\* The features that count the events of some types.
TypesOf ==
    [logon_count |-> {"logon"},
     failed_logon_count |-> {"logon_failed"},
     file_activity_count |-> {"file_read", "file_write", "file_delete", "file_copy", "file_move",
                              "file_upload", "file_download", "file_print"},
     file_copy_count |-> {"file_copy"},
     usb_activity_count |-> {"usb_insert", "usb_remove", "usb_file_copy"},
     email_count |-> {"email_sent", "email_received", "email_attachment_sent", "email_external"},
     http_activity_count |-> {"http_request", "http_upload", "http_download"},
     ldap_activity_count |-> {"ldap_query", "privilege_change", "group_change", "account_created",
                              "account_disabled", "password_change"},
     process_activity_count |-> {"app_launch", "app_close", "app_install"}]

External(e) == e.type = "email_external" \/ e.external

\* The features that count distinct values, {} being None.
FieldOf(e) ==
    [unique_active_hours |-> {HourOf(e.at)},
     unique_device_count |-> e.device,
     unique_resource_count |-> e.resource,
     activity_type_diversity |-> {e.type}]

SetSize == {"unique_active_hours", "unique_device_count", "unique_resource_count",
            "activity_type_diversity"}
FeatureNames ==
    DOMAIN TypesOf \cup SetSize
    \cup {"total_activity_count", "after_hours_activity_count", "external_email_count"}

(***************************************************************************)
(* aggregate_features; of no events it is the empty row.                   *)
(***************************************************************************)
Matching(name, evs) ==
    CASE name = "total_activity_count" -> evs
      [] name = "after_hours_activity_count" -> {e \in evs : AfterHours(e)}
      [] name = "external_email_count" -> {e \in evs : External(e)}
      [] OTHER -> {e \in evs : e.type \in TypesOf[name]}

Aggregate(evs) ==
    [name \in FeatureNames |->
        IF name \in SetSize
        THEN Cardinality(UNION {FieldOf(e)[name] : e \in evs})
        ELSE Cardinality(Matching(name, evs))]

(***************************************************************************)
(* The windows of a range: days from midnight to midnight, the first and   *)
(* the last cut where the range begins and ends.                           *)
(***************************************************************************)
Later(a, b) == IF a > b THEN a ELSE b
Sooner(a, b) == IF a < b THEN a ELSE b

DailyWindows(from, to) ==
    {[start |-> Later(from, 2 * d), end |-> Sooner(to, 2 * d + 2)] :
        d \in {e \in (from \div 2) .. (to \div 2) : 2 * e < to}}

\* Mutant of Within: the end of a window belongs to it.
WithinClosed(evs, from, to) == {e \in evs : from <= e.at /\ e.at <= to}

\* The events of a range, and of one window.
Within(evs, from, to) == {e \in evs : from <= e.at /\ e.at < to}

Row(user, window, start, end, dataset, evs) ==
    [user |-> user, window |-> window, start |-> start, end |-> end, dataset |-> dataset,
     features |-> Aggregate(evs), count |-> Cardinality(evs)]

RollingStart(w) == w.end - RollingTicks

\* _features_daily and _features_rolling.
FeatureRows(user, window, from, to, dataset, found) ==
    {LET start == IF window = "daily" THEN w.start ELSE RollingStart(w)
     IN Row(user, window, start, w.end, dataset, Within(found, start, w.end)) :
        w \in DailyWindows(from, to)}

(***************************************************************************)
(* build_baseline: for each feature the series of the days, as its length, *)
(* sum and sum of squares, from which the mean and the deviation follow.   *)
(***************************************************************************)
Eligible(w, from, to) == w.end > from /\ w.start < to /\ w.end <= to

Series(rows, name) ==
    [n |-> Cardinality(rows),
     sum |-> MapThenSumSet(LAMBDA r : r.features[name], rows),
     squares |-> MapThenSumSet(LAMBDA r : r.features[name] ^ 2, rows)]

Stats(rows) == [name \in (IF rows = {} THEN {} ELSE FeatureNames) |-> Series(rows, name)]

DailyRows(found, from, to) == FeatureRows("", "daily", from, to, "", found)

BaselineOf(found, from, to) ==
    [stats |-> Stats({r \in DailyRows(found, from, to) : Eligible(r, from, to)}),
     start |-> from, end |-> to,
     days |-> Cardinality({r \in DailyRows(found, from, to) : r.count > 0})]
=============================================================================
