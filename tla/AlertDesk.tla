----------------------------- MODULE AlertDesk -----------------------------
(***************************************************************************)
(* Alert documents and the handlers that change them: AlertService         *)
(* (alerts/application/alert_service.py) over MongoAlertRepository, and    *)
(* RiskAlertService (risk_alert_service.py), with which the detection      *)
(* pipeline raises and refreshes alerts.                                   *)
(*                                                                         *)
(* Every handler reads a document, changes its copy and writes three       *)
(* fields of the copy back; nothing ties the write to the read.  So a      *)
(* handler is two steps, with steps of other handlers between them.  This  *)
(* module has the steps; Casework and Verdicts have the specifications.    *)
(***************************************************************************)
EXTENDS Naturals

CONSTANTS
  Alerts,        \* alert ids; one per person, day and risk model version
  Strays,        \* those a client may name although no alert has them
  Analysts,      \* users an alert can be assigned to
  Cases,         \* investigation ids
  Assessments,   \* what a scoring run can say of a person's day
  Workers,       \* bound: API handlers in progress at a time
  None,          \* no assignee, no investigation, no handler
  MaxRequests,   \* bound: API requests
  MaxFaults      \* bound: handlers cut short by a crash or an exception

ASSUME NoneIsNothing ==
  None \notin Alerts \union Analysts \union Cases \union Assessments
ASSUME StraysAreAlerts == Strays \subseteq Alerts
ASSUME BudgetsAreNaturals == MaxRequests \in Nat /\ MaxFaults \in Nat

VARIABLES
  alert,         \* the fields of an alert document AlertService.update writes
  content,       \* the fields update_content writes: severity, findings, scores
  refresh,       \* the pipeline's pending update_content, or NoRefresh
  step,          \* per worker: where its handler is, "idle" between requests
  about,         \* per worker: the alert its request names
  doc,           \* per worker: the changed copy it is about to write
  stale,         \* history: workers whose alert was written since they read it
  requests, faults

alertVars == <<alert, content, refresh>>
handlerVars == <<step, about, doc, stale>>
deskVars == <<alertVars, handlerVars, requests, faults>>

Statuses == {"OPEN", "ACKNOWLEDGED", "IN_PROGRESS", "RESOLVED", "FALSE_POSITIVE"}

NoAlert == [status |-> "ABSENT", assignee |-> None, case |-> None]
Raised == [NoAlert EXCEPT !.status = "OPEN"]
NoRefresh == [alert |-> None, says |-> None]

(* _VALID_TRANSITIONS *)
Allowed(status) ==
  CASE status = "OPEN" ->
         {"ACKNOWLEDGED", "IN_PROGRESS", "RESOLVED", "FALSE_POSITIVE"}
    [] status = "ACKNOWLEDGED" -> {"IN_PROGRESS", "RESOLVED", "FALSE_POSITIVE"}
    [] status = "IN_PROGRESS" -> {"RESOLVED", "ACKNOWLEDGED"}
    [] OTHER -> {}

Exists(a) == alert[a] # NoAlert

DeskInit ==
  /\ alert = [a \in Alerts |-> NoAlert]
  /\ content = [a \in Alerts |-> None]
  /\ refresh = NoRefresh
  /\ step = [w \in Workers |-> "idle"]
  /\ about = [w \in Workers |-> None]
  /\ doc = [w \in Workers |-> NoAlert]
  /\ stale = {}
  /\ requests = 0
  /\ faults = 0

-----------------------------------------------------------------------------
(* The pipeline: raise_for, one scored person and day at a time.           *)

(* upsert inserts under the unique idempotency key (the backfill of        *)
(* alert_generation_service does no more than this) ...                    *)
RaiseNew(a, c) ==
  /\ ~Exists(a) /\ a \notin Strays
  /\ alert' = [alert EXCEPT ![a] = Raised]
  /\ content' = [content EXCEPT ![a] = c]
  /\ UNCHANGED <<refresh, handlerVars, requests, faults>>

(* ... or finds the alert of an earlier run, still OPEN and different. *)
RaiseAgain(a, c) ==
  /\ refresh = NoRefresh
  /\ alert[a].status = "OPEN"
  /\ content[a] # c
  /\ refresh' = [alert |-> a, says |-> c]
  /\ UNCHANGED <<alert, content, handlerVars, requests, faults>>

(* Mutant of UpdateContent: the whole document is written back. *)
UpdateWholeAlert ==
  /\ refresh # NoRefresh
  /\ content' = [content EXCEPT ![refresh.alert] = refresh.says]
  /\ alert' = [alert EXCEPT ![refresh.alert].status = "OPEN"]
  /\ refresh' = NoRefresh
  /\ UNCHANGED <<handlerVars, requests, faults>>

(* update_content: the status is not looked at again. *)
UpdateContent ==
  /\ refresh # NoRefresh
  /\ content' = [content EXCEPT ![refresh.alert] = refresh.says]
  /\ refresh' = NoRefresh
  /\ UNCHANGED <<alert, handlerVars, requests, faults>>

PipelineFails ==
  /\ refresh # NoRefresh
  /\ faults < MaxFaults
  /\ faults' = faults + 1
  /\ refresh' = NoRefresh
  /\ UNCHANGED <<alert, content, handlerVars, requests>>

Pipeline ==
  \/ \E a \in Alerts, c \in Assessments : RaiseNew(a, c) \/ RaiseAgain(a, c)
  \/ UpdateContent
  \/ PipelineFails

-----------------------------------------------------------------------------
(* AlertService.  A request is counted when its handler first reads.       *)

Request(w) ==
  /\ step[w] = "idle"
  /\ requests < MaxRequests
  /\ requests' = requests + 1
  /\ UNCHANGED faults

(* get(): the handler has read alert a and will write d over it. *)
ReadAlert(w, a, d) ==
  /\ Exists(a)
  /\ step' = [step EXCEPT ![w] = "saveAlert"]
  /\ about' = [about EXCEPT ![w] = a]
  /\ doc' = [doc EXCEPT ![w] = d]
  /\ UNCHANGED <<alertVars, stale>>

(* acknowledge, change_status; other targets are refused or change nothing. *)
ChangeStatus(w, a, to) ==
  /\ Request(w)
  /\ to \in Allowed(alert[a].status)
  /\ ReadAlert(w, a, [alert[a] EXCEPT !.status = to])

Assign(w, a, u) ==
  /\ Request(w)
  /\ ReadAlert(w, a, [alert[a] EXCEPT !.assignee = u])

Finish(w, next) ==
  /\ step' = [step EXCEPT ![w] = next]
  /\ about' = IF next = "idle" THEN [about EXCEPT ![w] = None] ELSE about
  /\ doc' = [doc EXCEPT ![w] = NoAlert]

(* update(): $set status, assigned_to and investigation_id by _id. *)
SaveAlert(w, next) ==
  /\ step[w] = "saveAlert"
  /\ alert' = [alert EXCEPT ![about[w]] = doc[w]]
  /\ stale' = (stale \ {w}) \union
                {v \in Workers \ {w} : step[v] = "saveAlert" /\ about[v] = about[w]}
  /\ Finish(w, next)
  /\ UNCHANGED <<content, refresh, requests, faults>>

(* The handler ends early: the process dies or the database call raises. *)
CutShort(w) ==
  /\ step[w] # "idle"
  /\ faults < MaxFaults
  /\ faults' = faults + 1
  /\ stale' = stale \ {w}
  /\ Finish(w, "idle")
  /\ UNCHANGED <<alertVars, requests>>

-----------------------------------------------------------------------------
(* Properties of every specification built from these steps.               *)

StaleWrite(a) ==
  \E w \in stale : step[w] = "saveAlert" /\ about[w] = a /\ w \notin stale'

(* The lifecycle check happens on the copy.  A status leaves the lifecycle,*)
(* a closed alert opens again, or one request undoes what another did to a *)
(* second field, only when the alert was written between a handler's read  *)
(* and its write; never by the pipeline, and never when handlers of one    *)
(* alert do not overlap (alert_service.py _change_status, assign, link).   *)
FieldsChanged(a) ==
  {f \in {"status", "assignee", "case"} : alert'[a][f] # alert[a][f]}

LegalUnlessStale ==
  [][\A a \in Alerts :
       Exists(a) =>
         \/ FieldsChanged(a) = {}
         \/ FieldsChanged(a) = {"status"}
            /\ alert'[a].status \in Allowed(alert[a].status)
         \/ FieldsChanged(a) \in {{"assignee"}, {"case"}}
         \/ StaleWrite(a)]_deskVars
=============================================================================
