------------------------------ MODULE Casework ------------------------------
(***************************************************************************)
(* Investigations (investigations/application/investigation_service.py)    *)
(* and the alerts they group.  A link has two sides in two collections:    *)
(* the investigation's related_alert_ids, written first, and the alert's   *)
(* investigation_id, written by AlertService.  Investigations are read,    *)
(* changed and written back whole.                                         *)
(*                                                                         *)
(* Abstractions: an investigation is its status and its alerts (title,     *)
(* assignee, resolution and related users are left out, the write that     *)
(* carries them is not); notes are an append-only collection of their own. *)
(***************************************************************************)
EXTENDS AlertDesk, FiniteSets

CONSTANT Named           \* alerts a new investigation may be created with

ASSUME NamedAreAlerts == Named \subseteq Alerts

(* Ids are random: a request names an alert there is, or one there never is. *)
Nameable == {a \in Alerts : Exists(a)} \union Strays

VARIABLES
  case,          \* investigation documents
  file,          \* per worker: the investigation its request names
  caseDoc,       \* per worker: the changed investigation it will write
  follow,        \* per worker: the step that follows that write
  staleCase,     \* history: workers whose investigation was written meanwhile
  contended      \* history: alerts whose handlers overlapped or were cut short

caseVars == <<case, file, caseDoc, follow, staleCase>>
vars == <<deskVars, caseVars, contended>>

NoCase == [status |-> "ABSENT", alerts |-> {}]
CaseStatuses == {"OPEN", "IN_PROGRESS", "RESOLVED", "CLOSED"}

AllowedCase(status) ==
  CASE status = "OPEN" -> {"IN_PROGRESS"}
    [] status = "IN_PROGRESS" -> {"RESOLVED", "OPEN"}
    [] status = "RESOLVED" -> {"CLOSED", "IN_PROGRESS"}
    [] OTHER -> {}

Init ==
  /\ DeskInit
  /\ case = [i \in Cases |-> NoCase]
  /\ file = [w \in Workers |-> None]
  /\ caseDoc = [w \in Workers |-> NoCase]
  /\ follow = [w \in Workers |-> "idle"]
  /\ staleCase = {}
  /\ contended = {}

(* A request about alert a (or None) and investigation i (or None) starts: *)
(* alerts whose handlers it overlaps with are contended from now on.       *)
Overlap(w, a, i) ==
  LET others == {v \in Workers \ {w} :
                   step[v] # "idle" /\ (about[v] = a \/ file[v] = i)}
  IN  contended' = contended \union
        (IF others = {} THEN {}
         ELSE ({a} \union {about[v] : v \in others}) \ {None})

-----------------------------------------------------------------------------
(* AlertService requests. *)

AlertRequest(w, a) ==
  /\ \/ \E to \in Statuses : ChangeStatus(w, a, to)
     \/ \E u \in Analysts : Assign(w, a, u)
  /\ Overlap(w, a, "no case")
  /\ UNCHANGED caseVars

(* InvestigationService requests. *)

Create(w, i, S) ==
  /\ Request(w)
  /\ case[i] = NoCase
  /\ case' = [case EXCEPT ![i] = [status |-> "OPEN", alerts |-> S]]
  /\ UNCHANGED <<alertVars, handlerVars, file, caseDoc, follow, staleCase,
                 contended>>

ReadCase(w, i, a, d, next) ==
  /\ Request(w)
  /\ case[i] # NoCase
  /\ step' = [step EXCEPT ![w] = "saveCase"]
  /\ about' = [about EXCEPT ![w] = a]
  /\ file' = [file EXCEPT ![w] = i]
  /\ caseDoc' = [caseDoc EXCEPT ![w] = d]
  /\ follow' = [follow EXCEPT ![w] = next]
  /\ Overlap(w, a, i)
  /\ UNCHANGED <<alertVars, doc, stale, case, staleCase>>

(* Mutant of ChangeCaseStatus: any other status is accepted. *)
AnyCaseStatus(w, i, to) ==
  /\ to # case[i].status
  /\ ReadCase(w, i, None, [case[i] EXCEPT !.status = to], "idle")

ChangeCaseStatus(w, i, to) ==
  /\ to \in AllowedCase(case[i].status)
  /\ ReadCase(w, i, None, [case[i] EXCEPT !.status = to], "idle")

(* assign: the fields kept here are written back as they were read. *)
AssignCase(w, i) == ReadCase(w, i, None, case[i], "idle")

AddAlert(w, i, a) ==
  /\ a \in Nameable \ case[i].alerts
  /\ ReadCase(w, i, a, [case[i] EXCEPT !.alerts = @ \union {a}], "linkAlert")

(* Mutant of RemoveAlert: the alert's side of the link is forgotten. *)
RemoveOneSide(w, i, a) ==
  /\ a \in case[i].alerts
  /\ ReadCase(w, i, a, [case[i] EXCEPT !.alerts = @ \ {a}], "idle")

RemoveAlert(w, i, a) ==
  /\ a \in case[i].alerts
  /\ ReadCase(w, i, a, [case[i] EXCEPT !.alerts = @ \ {a}], "unlinkAlert")

EndCase(w, next) ==
  /\ file' = IF next = "idle" THEN [file EXCEPT ![w] = None] ELSE file
  /\ caseDoc' = [caseDoc EXCEPT ![w] = NoCase]
  /\ follow' = [follow EXCEPT ![w] = "idle"]

(* upsert: $set of the whole document. *)
SaveCase(w) ==
  /\ step[w] = "saveCase"
  /\ case' = [case EXCEPT ![file[w]] = caseDoc[w]]
  /\ staleCase' = (staleCase \ {w}) \union
       {v \in Workers \ {w} : step[v] = "saveCase" /\ file[v] = file[w]}
  /\ Finish(w, follow[w])
  /\ EndCase(w, follow[w])
  /\ UNCHANGED <<alertVars, stale, requests, faults, contended>>

(* link_investigation and unlink_investigation return at once when there   *)
(* is nothing to change, and raise when the alert does not exist: either   *)
(* way the request is over.  Unlinking clears whatever link the alert has. *)

Linked(w) == [alert[about[w]] EXCEPT !.case = file[w]]
Unlinked(w) == [alert[about[w]] EXCEPT !.case = None]

AlertSide(w, d) ==
  IF Exists(about[w]) /\ d # alert[about[w]]
  THEN /\ ReadAlert(w, about[w], d)
       /\ UNCHANGED caseVars
  ELSE /\ Finish(w, "idle")
       /\ EndCase(w, "idle")
       /\ UNCHANGED <<alertVars, stale, case, staleCase>>

LinkAlert(w) ==
  /\ step[w] = "linkAlert"
  /\ AlertSide(w, Linked(w))
  /\ UNCHANGED <<requests, faults, contended>>

UnlinkAlert(w) ==
  /\ step[w] = "unlinkAlert"
  /\ AlertSide(w, Unlinked(w))
  /\ UNCHANGED <<requests, faults, contended>>

WriteAlert(w) ==
  /\ SaveAlert(w, "idle")
  /\ EndCase(w, "idle")
  /\ UNCHANGED <<case, staleCase, contended>>

HandlerFails(w) ==
  /\ CutShort(w)
  /\ EndCase(w, "idle")
  /\ staleCase' = staleCase \ {w}
  /\ contended' = contended \union ({about[w]} \ {None})
  /\ UNCHANGED case

-----------------------------------------------------------------------------
CaseRequest(w, i) ==
  \/ \E S \in SUBSET (Named \intersect Nameable) : Create(w, i, S)
  \/ \E to \in CaseStatuses : ChangeCaseStatus(w, i, to)
  \/ AssignCase(w, i)
  \/ \E a \in Alerts : AddAlert(w, i, a) \/ RemoveAlert(w, i, a)

Worker(w) ==
  \/ \E a \in Alerts : AlertRequest(w, a)
  \/ \E i \in Cases : CaseRequest(w, i)
  \/ SaveCase(w)
  \/ LinkAlert(w)
  \/ UnlinkAlert(w)
  \/ WriteAlert(w)
  \/ HandlerFails(w)

RunPipeline == Pipeline /\ UNCHANGED <<caseVars, contended>>

Next == RunPipeline \/ \E w \in Workers : Worker(w)

Spec == Init /\ [][Next]_vars

-----------------------------------------------------------------------------
(* Properties.                                                             *)

(* The alert side of a link is never ahead of the investigation side: an   *)
(* alert whose handlers neither overlapped nor were cut short points only  *)
(* to an investigation that lists it, except while the request that takes  *)
(* it out is on its way (investigation_service.py add_alert, remove_alert).*)
PointsWhereListed ==
  \A a \in Alerts \ contended :
    LET i == alert[a].case
    IN  i # None =>
          \/ a \in case[i].alerts
          \/ \E w \in Workers :
               /\ about[w] = a
               /\ \/ step[w] = "unlinkAlert"
                  \/ step[w] = "saveAlert" /\ doc[w].case = None

(* An investigation leaves its lifecycle, or loses or gains more than one  *)
(* alert in a write, only through a write of a stale copy.                 *)
CaseLegalUnlessStale ==
  [][\A i \in Cases :
       case[i] # NoCase =>
         \/ case'[i] = case[i]
         \/ /\ case'[i].alerts = case[i].alerts
            /\ case'[i].status \in AllowedCase(case[i].status)
         \/ /\ case'[i].status = case[i].status
            /\ \E a \in Alerts : {a} = (case'[i].alerts \ case[i].alerts)
                                  \union (case[i].alerts \ case'[i].alerts)
         \/ \E w \in staleCase :
              step[w] = "saveCase" /\ file[w] = i /\ w \notin staleCase']_vars
=============================================================================
