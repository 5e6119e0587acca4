-------------------------- MODULE Casework_proofs --------------------------
(***************************************************************************)
(* Alerts, investigations and the links between them, for any number of    *)
(* handlers: lifecycles are left by stale writes only, and the alert's     *)
(* side of a link is never ahead of the investigation's.                   *)
(*                                                                         *)
(* Two facts carry the proofs.  A copy nobody has made stale differs from  *)
(* its document by the one change its request asks for.  And as long as an *)
(* alert is not contended its handler is alone, on the alert and on the    *)
(* investigation it links, so that every other copy of an investigation    *)
(* says of the alert what the investigation itself says.                   *)
(***************************************************************************)
EXTENDS Casework, TLAPS

Steps == {"idle", "saveCase", "linkAlert", "unlinkAlert", "saveAlert"}
Marks == Statuses \union {"ABSENT"}
Documents ==
  [status : Marks, assignee : Analysts \union {None}, case : Cases \union {None}]
Files == [status : CaseStatuses \union {"ABSENT"}, alerts : SUBSET Alerts]

TypeOK ==
  /\ alert \in [Alerts -> Documents]
  /\ step \in [Workers -> Steps]
  /\ about \in [Workers -> Alerts \union {None}]
  /\ doc \in [Workers -> Documents]
  /\ stale \subseteq Workers
  /\ case \in [Cases -> Files]
  /\ file \in [Workers -> Cases \union {None}]
  /\ caseDoc \in [Workers -> Files]
  /\ follow \in [Workers -> {"idle", "linkAlert", "unlinkAlert"}]
  /\ staleCase \subseteq Workers
  /\ contended \subseteq Alerts

(* Alerts and the copies handlers hold of them. *)
AlertsWhole == \A a \in Alerts : Exists(a) => alert[a].status \in Statuses

OneChange(d, e) ==
  \/ e = d
  \/ e.status \in Allowed(d.status) /\ e.assignee = d.assignee /\ e.case = d.case
  \/ e.status = d.status /\ (e.assignee = d.assignee \/ e.case = d.case)

CopySound(w) ==
  step[w] = "saveAlert" =>
    /\ about[w] \in Alerts /\ Exists(about[w]) /\ doc[w].status \in Statuses
    /\ w \notin stale => OneChange(alert[about[w]], doc[w])

(* Investigations and the copies handlers hold of them. *)
OneCaseChange(c, d) ==
  \/ d = c
  \/ d.alerts = c.alerts /\ d.status \in AllowedCase(c.status)
  \/ /\ d.status = c.status
     /\ \E a \in Alerts : {a} = (d.alerts \ c.alerts) \union (c.alerts \ d.alerts)

CasesWhole == \A i \in Cases : case[i] # NoCase => case[i].status \in CaseStatuses

CaseCopySound(w) ==
  step[w] = "saveCase" =>
    /\ file[w] \in Cases /\ case[file[w]] # NoCase
    /\ caseDoc[w].status \in CaseStatuses
    /\ w \notin staleCase => OneCaseChange(case[file[w]], caseDoc[w])

(* What a handler between its two writes remembers. *)
InStep(w) ==
  /\ step[w] = "idle" => about[w] = None /\ file[w] = None
  /\ step[w] \in {"linkAlert", "unlinkAlert"} => about[w] \in Alerts /\ file[w] \in Cases
  /\ step[w] = "saveCase" =>
       IF follow[w] = "idle" THEN about[w] = None ELSE about[w] \in Alerts
  /\ step[w] = "saveCase" /\ follow[w] = "linkAlert" => about[w] \in caseDoc[w].alerts

DeskSound ==
  /\ AlertsWhole /\ CasesWhole
  /\ \A w \in Workers : CopySound(w) /\ CaseCopySound(w) /\ InStep(w)

(* The handler of an alert that is not contended is alone ... *)
Alone(w, v) ==
  v # w /\ step[v] # "idle" =>
    about[v] # about[w] /\ (file[w] # None => file[v] # file[w])

Undisturbed == \A w \in Workers : about[w] \in Alerts \ contended => \A v \in Workers : Alone(w, v)

(* ... the copies of an investigation agree on the alert ... *)
Agrees(a, w) ==
  step[w] = "saveCase" /\ about[w] # a =>
    (a \in caseDoc[w].alerts <=> a \in case[file[w]].alerts)

CopiesAgree == \A a \in Alerts \ contended, w \in Workers : Agrees(a, w)

(* ... and it writes a link only once the investigation lists the alert. *)
Listed(w) == file[w] \in Cases /\ about[w] \in case[file[w]].alerts

LinkSound(w) ==
  about[w] \in Alerts \ contended =>
    /\ step[w] = "linkAlert" => Listed(w)
    /\ step[w] = "saveAlert" =>
         doc[w].case \in {None, alert[about[w]].case} \/ (doc[w].case = file[w] /\ Listed(w))

LinksSound ==
  /\ Undisturbed
  /\ CopiesAgree
  /\ \A w \in Workers : LinkSound(w)

IInv == TypeOK /\ DeskSound /\ LinksSound /\ PointsWhereListed

-----------------------------------------------------------------------------
(* Facts about documents.                                                  *)

LEMMA Lifecycles ==
  /\ \A s : Allowed(s) \subseteq Statuses
  /\ \A s : AllowedCase(s) \subseteq CaseStatuses
BY DEF Allowed, AllowedCase, Statuses, CaseStatuses

LEMMA FirstDocuments ==
  /\ Statuses \subseteq Marks /\ NoAlert \in Documents /\ Raised \in Documents
  /\ NoAlert.case = None /\ Raised.case = None /\ Raised # NoAlert
  /\ Raised.status \in Statuses
BY DEF Statuses, Marks, NoAlert, Raised, Documents

LEMMA FirstFiles ==
  /\ NoCase \in Files /\ NoCase.alerts = {} /\ NoCase.status \notin CaseStatuses
BY DEF NoCase, Files, CaseStatuses

(* A document with a status is there. *)
LEMMA WithStatus ==
  /\ \A d \in Documents : d.status \in Statuses => d # NoAlert
  /\ \A c \in Files : c.status \in CaseStatuses => c # NoCase
BY DEF NoAlert, Statuses, NoCase, CaseStatuses

-----------------------------------------------------------------------------
(* The steps.                                                              *)

LEMMA Start == Init => IInv
<1> SUFFICES ASSUME Init PROVE IInv
  OBVIOUS
<1> USE DEF Init, DeskInit
<1>1. TypeOK
  BY FirstDocuments, FirstFiles DEF TypeOK, Steps
<1>2. DeskSound
  BY DEF DeskSound, AlertsWhole, CasesWhole, CopySound, CaseCopySound, InStep, Exists
<1>3. LinksSound
  BY NoneIsNothing DEF LinksSound, Undisturbed, CopiesAgree, Agrees, LinkSound
<1>4. PointsWhereListed
  BY FirstDocuments DEF PointsWhereListed
<1> QED
  BY <1>1, <1>2, <1>3, <1>4 DEF IInv

(* What a request for an alert copies of it. *)
Asks(w, a, d) ==
  \/ \E to \in Allowed(alert[a].status) : d = [alert[a] EXCEPT !.status = to]
  \/ \E u \in Analysts : d = [alert[a] EXCEPT !.assignee = u]

LEMMA AlertRequestReads ==
  ASSUME NEW w \in Workers, NEW a \in Alerts, AlertRequest(w, a)
  PROVE  /\ step[w] = "idle" /\ Exists(a) /\ Overlap(w, a, "no case")
         /\ step' = [step EXCEPT ![w] = "saveAlert"] /\ about' = [about EXCEPT ![w] = a]
         /\ \E d : doc' = [doc EXCEPT ![w] = d] /\ Asks(w, a, d)
         /\ UNCHANGED <<alert, stale, case, file, caseDoc, follow, staleCase>>
<1>1. ASSUME NEW to \in Statuses, ChangeStatus(w, a, to)
      PROVE  /\ step[w] = "idle" /\ Exists(a)
             /\ step' = [step EXCEPT ![w] = "saveAlert"] /\ about' = [about EXCEPT ![w] = a]
             /\ doc' = [doc EXCEPT ![w] = [alert[a] EXCEPT !.status = to]]
             /\ to \in Allowed(alert[a].status) /\ UNCHANGED <<alert, stale>>
  BY <1>1 DEF ChangeStatus, Request, ReadAlert, alertVars
<1>2. ASSUME NEW u \in Analysts, Assign(w, a, u)
      PROVE  /\ step[w] = "idle" /\ Exists(a)
             /\ step' = [step EXCEPT ![w] = "saveAlert"] /\ about' = [about EXCEPT ![w] = a]
             /\ doc' = [doc EXCEPT ![w] = [alert[a] EXCEPT !.assignee = u]]
             /\ UNCHANGED <<alert, stale>>
  BY <1>2 DEF Assign, Request, ReadAlert, alertVars
<1>3. Overlap(w, a, "no case") /\ UNCHANGED <<case, file, caseDoc, follow, staleCase>>
  BY DEF AlertRequest, caseVars
<1>4. \/ \E to \in Statuses : ChangeStatus(w, a, to)
      \/ \E u \in Analysts : Assign(w, a, u)
  BY DEF AlertRequest
<1>5. CASE \E to \in Statuses : ChangeStatus(w, a, to)
  BY <1>1, <1>3, <1>5 DEF Asks
<1>6. CASE \E u \in Analysts : Assign(w, a, u)
  BY <1>2, <1>3, <1>6 DEF Asks
<1> QED
  BY <1>4, <1>5, <1>6

(* What a request for an investigation copies of it. *)
CaseAsks(a, c, d, next) ==
  \/ /\ a = None /\ next = "idle"
     /\ d = c \/ \E to \in AllowedCase(c.status) : d = [c EXCEPT !.status = to]
  \/ /\ a \in Alerts \ c.alerts /\ next = "linkAlert"
     /\ d = [c EXCEPT !.alerts = c.alerts \union {a}]
  \/ /\ a \in c.alerts /\ a \in Alerts /\ next = "unlinkAlert"
     /\ d = [c EXCEPT !.alerts = c.alerts \ {a}]

CaseRead(w) ==
  \E i \in Cases : \E a, d, next : CaseAsks(a, case[i], d, next) /\ ReadCase(w, i, a, d, next)

LEMMA CaseRequestReads ==
  ASSUME NEW w \in Workers, NEW i \in Cases, CaseRequest(w, i)
  PROVE  CaseRead(w) \/ \E S \in SUBSET Named : Create(w, i, S)
<1>1. ASSUME NEW to \in CaseStatuses, ChangeCaseStatus(w, i, to) PROVE CaseRead(w)
  BY <1>1 DEF ChangeCaseStatus, CaseRead, CaseAsks
<1>2. ASSUME AssignCase(w, i) PROVE CaseRead(w)
  BY <1>2 DEF AssignCase, CaseRead, CaseAsks
<1>3. ASSUME NEW a \in Alerts, AddAlert(w, i, a) PROVE CaseRead(w)
  BY <1>3 DEF AddAlert, CaseRead, CaseAsks
<1>4. ASSUME NEW a \in Alerts, RemoveAlert(w, i, a) PROVE CaseRead(w)
  BY <1>4 DEF RemoveAlert, CaseRead, CaseAsks
<1>5. ASSUME NEW S \in SUBSET (Named \intersect Nameable), Create(w, i, S)
      PROVE  \E T \in SUBSET Named : Create(w, i, T)
  BY <1>5
<1> QED
  BY <1>1, <1>2, <1>3, <1>4, <1>5 DEF CaseRequest

(* What can happen next, seen from the handlers. *)
Acts(w) ==
  \/ \E a \in Alerts : AlertRequest(w, a)
  \/ CaseRead(w)
  \/ \E i \in Cases, S \in SUBSET Named : Create(w, i, S)
  \/ SaveCase(w)
  \/ LinkAlert(w)
  \/ UnlinkAlert(w)
  \/ WriteAlert(w)
  \/ HandlerFails(w)

LEMMA WorkersAct == ASSUME NEW w \in Workers, Worker(w) PROVE Acts(w)
BY CaseRequestReads DEF Worker, Acts

LEMMA PipelineRaises ==
  ASSUME TypeOK, RunPipeline \/ UNCHANGED vars
  PROVE  /\ \A a \in Alerts : alert'[a] = alert[a] \/ (~Exists(a) /\ alert'[a] = Raised)
         /\ alert' \in [Alerts -> Documents]
         /\ UNCHANGED <<step, about, doc, stale, case, file, caseDoc, follow, staleCase,
                        contended>>
BY FirstDocuments DEF RunPipeline, Pipeline, RaiseNew, RaiseAgain, UpdateContent,
   PipelineFails, handlerVars, caseVars, vars, deskVars, alertVars, TypeOK

LEMMA AskedDocument ==
  ASSUME TypeOK, NEW w \in Workers, NEW a \in Alerts, NEW d, Asks(w, a, d),
         alert[a].status \in Statuses
  PROVE  /\ d \in Documents /\ d.status \in Statuses /\ d.case = alert[a].case
         /\ OneChange(alert[a], d)
BY Lifecycles, FirstDocuments DEF Asks, TypeOK, Documents, OneChange

LEMMA AskedFile ==
  ASSUME NEW a, NEW c \in Files, NEW d, NEW next, CaseAsks(a, c, d, next),
         c.status \in CaseStatuses
  PROVE  /\ d \in Files /\ d.status \in CaseStatuses /\ a \in Alerts \union {None}
         /\ next \in {"idle", "linkAlert", "unlinkAlert"}
         /\ OneCaseChange(c, d)
         /\ \A b \in Alerts : b # a => (b \in d.alerts <=> b \in c.alerts)
         /\ IF next = "idle" THEN a = None ELSE a \in Alerts
         /\ next = "linkAlert" => a \in d.alerts
<1>1. CASE a = None /\ next = "idle"
           /\ (d = c \/ \E to \in AllowedCase(c.status) : d = [c EXCEPT !.status = to])
  BY <1>1, Lifecycles DEF Files, OneCaseChange
<1>2. CASE /\ a \in Alerts \ c.alerts /\ next = "linkAlert"
           /\ d = [c EXCEPT !.alerts = c.alerts \union {a}]
  <2>1. d \in Files /\ d.status = c.status /\ d.alerts = c.alerts \union {a}
    BY <1>2 DEF Files
  <2>2. {a} = (d.alerts \ c.alerts) \union (c.alerts \ d.alerts)
    BY <1>2, <2>1
  <2> QED
    BY <1>2, <2>1, <2>2 DEF OneCaseChange
<1>3. CASE /\ a \in c.alerts /\ a \in Alerts /\ next = "unlinkAlert"
           /\ d = [c EXCEPT !.alerts = c.alerts \ {a}]
  <2>1. d \in Files /\ d.status = c.status /\ d.alerts = c.alerts \ {a}
    BY <1>3 DEF Files
  <2>2. {a} = (d.alerts \ c.alerts) \union (c.alerts \ d.alerts)
    BY <1>3, <2>1
  <2> QED
    BY <1>3, <2>1, <2>2 DEF OneCaseChange
<1> QED
  BY <1>1, <1>2, <1>3 DEF CaseAsks

(* The alert side of a link: the request goes on or is over. *)
Ends(w) ==
  /\ step' = [step EXCEPT ![w] = "idle"] /\ about' = [about EXCEPT ![w] = None]
  /\ doc' = [doc EXCEPT ![w] = NoAlert] /\ file' = [file EXCEPT ![w] = None]
  /\ caseDoc' = [caseDoc EXCEPT ![w] = NoCase] /\ follow' = [follow EXCEPT ![w] = "idle"]

GoesOn(w, d) ==
  /\ Exists(about[w])
  /\ step' = [step EXCEPT ![w] = "saveAlert"] /\ about' = [about EXCEPT ![w] = about[w]]
  /\ doc' = [doc EXCEPT ![w] = d] /\ UNCHANGED <<file, caseDoc, follow>>

LEMMA SidesStep ==
  ASSUME NEW w \in Workers
  PROVE  /\ LinkAlert(w) =>
              /\ step[w] = "linkAlert"
              /\ Ends(w) \/ GoesOn(w, Linked(w))
              /\ UNCHANGED <<alert, stale, case, staleCase, contended>>
         /\ UnlinkAlert(w) =>
              /\ step[w] = "unlinkAlert"
              /\ (Ends(w) /\ ~(Exists(about[w]) /\ Unlinked(w) # alert[about[w]]))
                 \/ GoesOn(w, Unlinked(w))
              /\ UNCHANGED <<alert, stale, case, staleCase, contended>>
<1>1. ASSUME NEW d, AlertSide(w, d)
      PROVE  /\ (Ends(w) /\ ~(Exists(about[w]) /\ d # alert[about[w]])) \/ GoesOn(w, d)
             /\ UNCHANGED <<alert, stale, case, staleCase>>
  <2>1. CASE Exists(about[w]) /\ d # alert[about[w]]
    BY <1>1, <2>1 DEF AlertSide, ReadAlert, GoesOn, caseVars, alertVars
  <2>2. CASE ~(Exists(about[w]) /\ d # alert[about[w]])
    BY <1>1, <2>2 DEF AlertSide, Finish, EndCase, Ends, alertVars
  <2> QED
    BY <2>1, <2>2
<1> QED
  BY <1>1 DEF LinkAlert, UnlinkAlert

LEMMA FailureEnds ==
  ASSUME NEW w \in Workers, HandlerFails(w)
  PROVE  /\ Ends(w) /\ UNCHANGED <<alert, case>>
         /\ stale' = stale \ {w} /\ staleCase' = staleCase \ {w}
         /\ contended' = contended \union ({about[w]} \ {None})
BY DEF HandlerFails, CutShort, Finish, EndCase, Ends, alertVars

LEMMA WriteWrites ==
  ASSUME NEW w \in Workers, WriteAlert(w)
  PROVE  /\ step[w] = "saveAlert" /\ Ends(w)
         /\ alert' = [alert EXCEPT ![about[w]] = doc[w]]
         /\ stale' = (stale \ {w}) \union
              {v \in Workers \ {w} : step[v] = "saveAlert" /\ about[v] = about[w]}
         /\ UNCHANGED <<case, staleCase, contended>>
BY DEF WriteAlert, SaveAlert, Finish, EndCase, Ends

LEMMA SaveSaves ==
  ASSUME NEW w \in Workers, SaveCase(w)
  PROVE  /\ step[w] = "saveCase"
         /\ case' = [case EXCEPT ![file[w]] = caseDoc[w]]
         /\ staleCase' = (staleCase \ {w}) \union
              {v \in Workers \ {w} : step[v] = "saveCase" /\ file[v] = file[w]}
         /\ step' = [step EXCEPT ![w] = follow[w]]
         /\ IF follow[w] = "idle" THEN Ends(w)
            ELSE /\ UNCHANGED <<about, file>> /\ doc' = [doc EXCEPT ![w] = NoAlert]
                 /\ caseDoc' = [caseDoc EXCEPT ![w] = NoCase]
                 /\ follow' = [follow EXCEPT ![w] = "idle"]
         /\ UNCHANGED <<alert, stale, contended>>
BY DEF SaveCase, Finish, EndCase, Ends, alertVars

LEMMA ReadReads ==
  ASSUME NEW w \in Workers, NEW i, NEW a, NEW d, NEW next, ReadCase(w, i, a, d, next)
  PROVE  /\ step[w] = "idle" /\ case[i] # NoCase /\ Overlap(w, a, i)
         /\ step' = [step EXCEPT ![w] = "saveCase"] /\ about' = [about EXCEPT ![w] = a]
         /\ file' = [file EXCEPT ![w] = i] /\ caseDoc' = [caseDoc EXCEPT ![w] = d]
         /\ follow' = [follow EXCEPT ![w] = next]
         /\ UNCHANGED <<alert, doc, stale, case, staleCase>>
BY DEF ReadCase, Request, alertVars

LEMMA CreateCreates ==
  ASSUME NEW w \in Workers, NEW i \in Cases, NEW S \in SUBSET Named, Create(w, i, S)
  PROVE  /\ step[w] = "idle" /\ case[i] = NoCase
         /\ case' = [case EXCEPT ![i] = [status |-> "OPEN", alerts |-> S]]
         /\ UNCHANGED <<alert, step, about, doc, stale, file, caseDoc, follow, staleCase,
                        contended>>
BY DEF Create, Request, alertVars, handlerVars

-----------------------------------------------------------------------------
(* Types.                                                                  *)

LEMMA OverlapGrows ==
  ASSUME TypeOK, NEW w \in Workers, NEW a \in Alerts \union {None}, NEW i, Overlap(w, a, i)
  PROVE  contended \subseteq contended' /\ contended' \subseteq Alerts
<1> DEFINE others == {v \in Workers \ {w} : step[v] # "idle" /\ (about[v] = a \/ file[v] = i)}
           more == IF others = {} THEN {} ELSE ({a} \union {about[v] : v \in others}) \ {None}
<1>1. contended' = contended \union more
  BY DEF Overlap
<1>2. more \subseteq Alerts
  BY DEF TypeOK
<1> QED
  BY <1>1, <1>2 DEF TypeOK

LEMMA EndsTypes ==
  ASSUME TypeOK, NEW w \in Workers, Ends(w)
  PROVE  /\ step' \in [Workers -> Steps] /\ about' \in [Workers -> Alerts \union {None}]
         /\ doc' \in [Workers -> Documents] /\ file' \in [Workers -> Cases \union {None}]
         /\ caseDoc' \in [Workers -> Files]
         /\ follow' \in [Workers -> {"idle", "linkAlert", "unlinkAlert"}]
BY FirstDocuments, FirstFiles DEF Ends, TypeOK, Steps

LEMMA TypeStep ==
  ASSUME TypeOK, DeskSound, [Next]_vars
  PROVE  TypeOK'
<1> USE DEF TypeOK
<1>1. ASSUME NEW w \in Workers, NEW a \in Alerts, AlertRequest(w, a) PROVE TypeOK'
  <2>1. PICK d : doc' = [doc EXCEPT ![w] = d] /\ Asks(w, a, d)
    BY <1>1, AlertRequestReads
  <2>2. d \in Documents
    BY <1>1, <2>1, AlertRequestReads, AskedDocument DEF DeskSound, AlertsWhole
  <2>3. contended' \subseteq Alerts
    BY <1>1, AlertRequestReads, OverlapGrows
  <2>4. /\ step' = [step EXCEPT ![w] = "saveAlert"] /\ about' = [about EXCEPT ![w] = a]
        /\ UNCHANGED <<alert, stale, case, file, caseDoc, follow, staleCase>>
    BY <1>1, AlertRequestReads
  <2> QED
    BY <2>1, <2>2, <2>3, <2>4 DEF Steps
<1>2. ASSUME NEW w \in Workers, CaseRead(w) PROVE TypeOK'
  <2>0. PICK i \in Cases : \E a, d, next : CaseAsks(a, case[i], d, next) /\ ReadCase(w, i, a, d, next)
    BY <1>2 DEF CaseRead
  <2>1. PICK a, d, next : CaseAsks(a, case[i], d, next) /\ ReadCase(w, i, a, d, next)
    BY <2>0
  <2>2. /\ d \in Files /\ a \in Alerts \union {None}
        /\ next \in {"idle", "linkAlert", "unlinkAlert"}
    BY <2>1, ReadReads, AskedFile DEF DeskSound, CasesWhole
  <2>3. contended' \subseteq Alerts
    BY <2>1, <2>2, ReadReads, OverlapGrows
  <2> QED
    BY <2>1, <2>2, <2>3, ReadReads DEF Steps
<1>3. ASSUME NEW w \in Workers, NEW i \in Cases, NEW S \in SUBSET Named, Create(w, i, S)
      PROVE  TypeOK'
  <2>1. [status |-> "OPEN", alerts |-> S] \in Files
    BY NamedAreAlerts DEF Files, CaseStatuses
  <2> QED
    BY <1>3, <2>1, CreateCreates
<1>4. ASSUME NEW w \in Workers, SaveCase(w) PROVE TypeOK'
  <2>1. CASE follow[w] = "idle"
    BY <1>4, <2>1, SaveSaves, EndsTypes DEF Steps
  <2>2. CASE follow[w] # "idle"
    BY <1>4, <2>2, SaveSaves, FirstDocuments, FirstFiles DEF Steps
  <2> QED
    BY <2>1, <2>2
<1>5. ASSUME NEW w \in Workers, LinkAlert(w) \/ UnlinkAlert(w) PROVE TypeOK'
  <2>1. CASE Ends(w)
    BY <1>5, <2>1, SidesStep, EndsTypes
  <2>2. CASE ~Ends(w)
    <3>1. about[w] \in Alerts /\ file[w] \in Cases
      BY <1>5, SidesStep DEF DeskSound, InStep
    <3>2. Linked(w) \in Documents /\ Unlinked(w) \in Documents
      BY <3>1 DEF Linked, Unlinked, Documents
    <3>3. GoesOn(w, Linked(w)) \/ GoesOn(w, Unlinked(w))
      BY <1>5, <2>2, SidesStep
    <3>4. UNCHANGED <<alert, stale, case, staleCase, contended>>
      BY <1>5, SidesStep
    <3> QED
      BY <3>1, <3>2, <3>3, <3>4 DEF GoesOn, Steps
  <2> QED
    BY <2>1, <2>2
<1>6. ASSUME NEW w \in Workers, WriteAlert(w) PROVE TypeOK'
  BY <1>6, WriteWrites, EndsTypes
<1>7. ASSUME NEW w \in Workers, HandlerFails(w) PROVE TypeOK'
  BY <1>7, FailureEnds, EndsTypes
<1>8. CASE RunPipeline \/ UNCHANGED vars
  BY <1>8, PipelineRaises
<1> QED
  BY <1>1, <1>2, <1>3, <1>4, <1>5, <1>6, <1>7, <1>8, WorkersAct DEF Next, Acts

-----------------------------------------------------------------------------
(* What a handler's step does to the other handlers, and to the documents. *)

Unmoved(v) ==
  /\ step'[v] = step[v] /\ about'[v] = about[v] /\ doc'[v] = doc[v]
  /\ file'[v] = file[v] /\ caseDoc'[v] = caseDoc[v] /\ follow'[v] = follow[v]

LEMMA OthersStay ==
  ASSUME TypeOK, DeskSound, NEW w \in Workers, Acts(w)
  PROVE  /\ \A v \in Workers \ {w} : Unmoved(v)
         /\ contended \subseteq contended'
<1> USE DEF TypeOK
<1> DEFINE OthersStill == \A v \in Workers \ {w} : Unmoved(v)
<1>1. ASSUME NEW a \in Alerts, AlertRequest(w, a)
      PROVE  OthersStill /\ contended \subseteq contended'
  <2>1. /\ step' = [step EXCEPT ![w] = "saveAlert"] /\ about' = [about EXCEPT ![w] = a]
        /\ UNCHANGED <<file, caseDoc, follow>> /\ Overlap(w, a, "no case")
    BY <1>1, AlertRequestReads
  <2>2. PICK d : doc' = [doc EXCEPT ![w] = d]
    BY <1>1, AlertRequestReads
  <2> QED
    BY <2>1, <2>2, OverlapGrows DEF Unmoved
<1>2. ASSUME CaseRead(w) PROVE OthersStill /\ contended \subseteq contended'
  <2>0. PICK i \in Cases : \E a, d, next : CaseAsks(a, case[i], d, next) /\ ReadCase(w, i, a, d, next)
    BY <1>2 DEF CaseRead
  <2>1. PICK a, d, next : CaseAsks(a, case[i], d, next) /\ ReadCase(w, i, a, d, next)
    BY <2>0
  <2>2. contended \subseteq contended'
    BY <2>1, ReadReads DEF Overlap
  <2> QED
    BY <2>1, <2>2, ReadReads DEF Unmoved
<1>3. ASSUME Ends(w) PROVE OthersStill
  BY <1>3 DEF Ends, Unmoved
<1>4. ASSUME NEW d, GoesOn(w, d) PROVE OthersStill
  BY <1>4 DEF GoesOn, Unmoved
<1>5. ASSUME SaveCase(w) PROVE OthersStill /\ contended \subseteq contended'
  <2>1. CASE follow[w] = "idle"
    BY <1>3, <1>5, <2>1, SaveSaves
  <2>2. CASE follow[w] # "idle"
    BY <1>5, <2>2, SaveSaves DEF Unmoved
  <2> QED
    BY <2>1, <2>2
<1>6. ASSUME NEW i \in Cases, NEW S \in SUBSET Named, Create(w, i, S)
      PROVE  OthersStill /\ contended \subseteq contended'
  BY <1>6, CreateCreates DEF Unmoved
<1>7. ASSUME LinkAlert(w) \/ UnlinkAlert(w) PROVE OthersStill /\ contended \subseteq contended'
  BY <1>3, <1>4, <1>7, SidesStep
<1>8. ASSUME WriteAlert(w) \/ HandlerFails(w) PROVE OthersStill /\ contended \subseteq contended'
  BY <1>3, <1>8, WriteWrites, FailureEnds
<1> QED
  BY <1>1, <1>2, <1>5, <1>6, <1>7, <1>8 DEF Acts

(* A handler begins a request, goes on with it, or is done. *)
Begins(w) ==
  \E a \in Alerts \union {None} : \E i :
    /\ step[w] = "idle" /\ Overlap(w, a, i)
    /\ about'[w] = a /\ file'[w] \in {i, None}

Continues(w) == step[w] # "idle" /\ about'[w] = about[w] /\ file'[w] = file[w]

Over(w) == step'[w] = "idle" /\ about'[w] = None /\ file'[w] = None

LEMMA Moves ==
  ASSUME TypeOK, DeskSound, NEW w \in Workers, Acts(w)
  PROVE  Begins(w) \/ Continues(w) \/ Over(w)
<1> USE DEF TypeOK
<1>0. step[w] = "idle" => about[w] = None /\ file[w] = None
  BY DEF DeskSound, InStep
<1>1. ASSUME NEW a \in Alerts, AlertRequest(w, a) PROVE Begins(w)
  <2>1. step[w] = "idle" /\ Overlap(w, a, "no case") /\ about'[w] = a /\ file'[w] = None
    BY <1>0, <1>1, AlertRequestReads
  <2> QED
    BY <2>1 DEF Begins
<1>2. ASSUME CaseRead(w) PROVE Begins(w)
  <2>0. PICK i \in Cases : \E a, d, next : CaseAsks(a, case[i], d, next) /\ ReadCase(w, i, a, d, next)
    BY <1>2 DEF CaseRead
  <2>1. PICK a, d, next : CaseAsks(a, case[i], d, next) /\ ReadCase(w, i, a, d, next)
    BY <2>0
  <2>2. step[w] = "idle" /\ Overlap(w, a, i) /\ about'[w] = a /\ file'[w] = i
    BY <2>1, ReadReads
  <2>3. a \in Alerts \union {None}
    BY <2>1 DEF CaseAsks
  <2> QED
    BY <2>2, <2>3 DEF Begins
<1>3. ASSUME Ends(w) PROVE Over(w)
  BY <1>3 DEF Ends, Over
<1>4. ASSUME NEW d, GoesOn(w, d), step[w] # "idle" PROVE Continues(w)
  BY <1>4 DEF GoesOn, Continues
<1>5. ASSUME SaveCase(w) PROVE Continues(w) \/ Over(w)
  BY <1>3, <1>5, SaveSaves DEF Continues
<1>6. ASSUME NEW i \in Cases, NEW S \in SUBSET Named, Create(w, i, S) PROVE Over(w)
  BY <1>0, <1>6, CreateCreates DEF Over
<1>7. ASSUME LinkAlert(w) \/ UnlinkAlert(w) PROVE Continues(w) \/ Over(w)
  BY <1>3, <1>4, <1>7, SidesStep
<1>8. ASSUME WriteAlert(w) \/ HandlerFails(w) PROVE Over(w)
  BY <1>3, <1>8, WriteWrites, FailureEnds
<1> QED
  BY <1>1, <1>2, <1>5, <1>6, <1>7, <1>8 DEF Acts

(* A handler that begins contends with everyone it overlaps with. *)
LEMMA OverlapContends ==
  ASSUME NEW w \in Workers, NEW a, NEW i, Overlap(w, a, i),
         NEW v \in Workers \ {w}, step[v] # "idle", about[v] = a \/ file[v] = i
  PROVE  /\ a # None => a \in contended'
         /\ about[v] # None => about[v] \in contended'
<1> DEFINE others == {u \in Workers \ {w} : step[u] # "idle" /\ (about[u] = a \/ file[u] = i)}
<1>1. v \in others
  OBVIOUS
<1>2. contended' = contended \union (({a} \union {about[u] : u \in others}) \ {None})
  BY <1>1 DEF Overlap
<1> QED
  BY <1>1, <1>2

(* Only the pipeline raises an alert, and only a handler that saves one    *)
(* replaces it.                                                            *)
LEMMA AlertsMove ==
  ASSUME TypeOK, DeskSound, NEW w \in Workers, Acts(w), NEW a \in Alerts
  PROVE  \/ alert'[a] = alert[a]
         \/ WriteAlert(w) /\ about[w] = a /\ alert'[a] = doc[w]
<1> USE DEF TypeOK
<1>1. ASSUME NEW b \in Alerts, AlertRequest(w, b) PROVE alert' = alert
  BY <1>1, AlertRequestReads
<1>2. ASSUME CaseRead(w) PROVE alert' = alert
  <2>0. PICK i \in Cases : \E b, d, next : CaseAsks(b, case[i], d, next) /\ ReadCase(w, i, b, d, next)
    BY <1>2 DEF CaseRead
  <2>1. PICK b, d, next : CaseAsks(b, case[i], d, next) /\ ReadCase(w, i, b, d, next)
    BY <2>0
  <2> QED
    BY <2>1, ReadReads
<1>3. ASSUME NEW i \in Cases, NEW S \in SUBSET Named, Create(w, i, S) PROVE alert' = alert
  BY <1>3, CreateCreates
<1>4. ASSUME SaveCase(w) \/ LinkAlert(w) \/ UnlinkAlert(w) \/ HandlerFails(w)
      PROVE  alert' = alert
  BY <1>4, SaveSaves, SidesStep, FailureEnds
<1>5. ASSUME WriteAlert(w), alert'[a] # alert[a] PROVE about[w] = a /\ alert'[a] = doc[w]
  BY <1>5, WriteWrites
<1> QED
  BY <1>1, <1>2, <1>3, <1>4, <1>5 DEF Acts

LEMMA CasesMove ==
  ASSUME TypeOK, DeskSound, NEW w \in Workers, Acts(w), NEW i \in Cases
  PROVE  \/ case'[i] = case[i]
         \/ SaveCase(w) /\ file[w] = i /\ case'[i] = caseDoc[w]
         \/ case[i] = NoCase /\ case'[i].status = "OPEN"
<1> USE DEF TypeOK
<1>1. ASSUME NEW a \in Alerts, AlertRequest(w, a) PROVE case' = case
  BY <1>1, AlertRequestReads
<1>2. ASSUME CaseRead(w) PROVE case' = case
  <2>0. PICK j \in Cases : \E a, d, next : CaseAsks(a, case[j], d, next) /\ ReadCase(w, j, a, d, next)
    BY <1>2 DEF CaseRead
  <2>1. PICK a, d, next : CaseAsks(a, case[j], d, next) /\ ReadCase(w, j, a, d, next)
    BY <2>0
  <2> QED
    BY <2>1, ReadReads
<1>3. ASSUME NEW j \in Cases, NEW S \in SUBSET Named, Create(w, j, S), case'[i] # case[i]
      PROVE  case[i] = NoCase /\ case'[i].status = "OPEN"
  BY <1>3, CreateCreates
<1>4. ASSUME SaveCase(w), case'[i] # case[i] PROVE file[w] = i /\ case'[i] = caseDoc[w]
  BY <1>4, SaveSaves
<1>5. ASSUME WriteAlert(w) \/ LinkAlert(w) \/ UnlinkAlert(w) \/ HandlerFails(w)
      PROVE  case' = case
  BY <1>5, WriteWrites, SidesStep, FailureEnds
<1> QED
  BY <1>1, <1>2, <1>3, <1>4, <1>5 DEF Acts

-----------------------------------------------------------------------------
(* Documents and copies stay sound.                                        *)

LEMMA WholeStep ==
  ASSUME TypeOK, DeskSound, [Next]_vars
  PROVE  AlertsWhole' /\ CasesWhole'
<1> USE DEF TypeOK
<1>1. ASSUME NEW w \in Workers, Acts(w) PROVE AlertsWhole'
  <2>1. WriteAlert(w) => doc[w].status \in Statuses
    BY WriteWrites DEF DeskSound, CopySound
  <2> QED
    BY <1>1, <2>1, AlertsMove DEF AlertsWhole, DeskSound, Exists
<1>2. ASSUME NEW w \in Workers, Acts(w) PROVE CasesWhole'
  <2>1. SaveCase(w) => caseDoc[w].status \in CaseStatuses
    BY SaveSaves DEF DeskSound, CaseCopySound
  <2>2. "OPEN" \in CaseStatuses
    BY DEF CaseStatuses
  <2> QED
    BY <1>2, <2>1, <2>2, CasesMove DEF CasesWhole, DeskSound
<1>3. CASE RunPipeline \/ UNCHANGED vars
  <2>1. AlertsWhole'
    BY <1>3, PipelineRaises, FirstDocuments DEF AlertsWhole, DeskSound, Exists
  <2> QED
    BY <1>3, <2>1, PipelineRaises DEF CasesWhole, DeskSound
<1> QED
  BY <1>1, <1>2, <1>3, WorkersAct DEF Next

(* The copy a handler has just made is sound ... *)
LEMMA OwnCopy ==
  ASSUME TypeOK, DeskSound, NEW w \in Workers, Acts(w)
  PROVE  CopySound(w)'
<1> USE DEF TypeOK
<1>0. step'[w] # "saveAlert" => CopySound(w)'
  BY DEF CopySound
<1>1. ASSUME NEW a \in Alerts, AlertRequest(w, a) PROVE CopySound(w)'
  <2>1. PICK d : doc' = [doc EXCEPT ![w] = d] /\ Asks(w, a, d)
    BY <1>1, AlertRequestReads
  <2>2. Exists(a) /\ about' = [about EXCEPT ![w] = a] /\ alert' = alert
    BY <1>1, AlertRequestReads
  <2>3. alert[a].status \in Statuses
    BY <2>2 DEF DeskSound, AlertsWhole
  <2>4. d.status \in Statuses /\ OneChange(alert[a], d)
    BY <2>1, <2>3, AskedDocument
  <2>5. about'[w] = a /\ doc'[w] = d
    BY <2>1, <2>2
  <2> QED
    BY <2>2, <2>4, <2>5 DEF CopySound, Exists
<1>2. ASSUME CaseRead(w) PROVE step'[w] # "saveAlert"
  BY <1>2, ReadReads DEF CaseRead
<1>3. ASSUME Ends(w) PROVE step'[w] # "saveAlert"
  BY <1>3 DEF Ends
<1>4. ASSUME NEW d, GoesOn(w, d), alert' = alert, about[w] \in Alerts,
             d.status = alert[about[w]].status, d.assignee = alert[about[w]].assignee
      PROVE  CopySound(w)'
  <2>1. about'[w] = about[w] /\ doc'[w] = d /\ Exists(about[w])
    BY <1>4 DEF GoesOn
  <2>2. d.status \in Statuses /\ OneChange(alert[about[w]], d)
    BY <1>4, <2>1 DEF DeskSound, AlertsWhole, OneChange
  <2> QED
    BY <1>4, <2>1, <2>2 DEF CopySound, Exists
<1>5. ASSUME SaveCase(w) PROVE step'[w] # "saveAlert"
  BY <1>5, SaveSaves
<1>6. ASSUME NEW i \in Cases, NEW S \in SUBSET Named, Create(w, i, S)
      PROVE  step'[w] # "saveAlert"
  BY <1>6, CreateCreates
<1>7. ASSUME LinkAlert(w) \/ UnlinkAlert(w) PROVE CopySound(w)'
  <2>1. about[w] \in Alerts /\ alert' = alert
    BY <1>7, SidesStep DEF DeskSound, InStep
  <2>2. ASSUME NEW d \in {Linked(w), Unlinked(w)}
        PROVE  d.status = alert[about[w]].status /\ d.assignee = alert[about[w]].assignee
    BY <2>1 DEF Linked, Unlinked, Documents
  <2> QED
    BY <1>0, <1>3, <1>4, <1>7, <2>1, <2>2, SidesStep
<1>8. ASSUME WriteAlert(w) \/ HandlerFails(w) PROVE step'[w] # "saveAlert"
  BY <1>3, <1>8, WriteWrites, FailureEnds
<1> QED
  BY <1>0, <1>1, <1>2, <1>5, <1>6, <1>7, <1>8 DEF Acts

(* ... and so is everyone else's, unless it has just been made stale. *)
LEMMA StaleMoves ==
  ASSUME TypeOK, DeskSound, NEW w \in Workers, Acts(w), NEW v \in Workers, v # w
  PROVE  /\ v \in stale => v \in stale'
         /\ v \in staleCase => v \in staleCase'
         /\ WriteAlert(w) /\ step[v] = "saveAlert" /\ about[v] = about[w] => v \in stale'
         /\ SaveCase(w) /\ step[v] = "saveCase" /\ file[v] = file[w] => v \in staleCase'
<1>1. ASSUME NEW a \in Alerts, AlertRequest(w, a) PROVE UNCHANGED <<stale, staleCase>>
  BY <1>1, AlertRequestReads
<1>2. ASSUME CaseRead(w) PROVE UNCHANGED <<stale, staleCase>>
  <2>0. PICK i \in Cases : \E a, d, next : CaseAsks(a, case[i], d, next) /\ ReadCase(w, i, a, d, next)
    BY <1>2 DEF CaseRead
  <2>1. PICK a, d, next : CaseAsks(a, case[i], d, next) /\ ReadCase(w, i, a, d, next)
    BY <2>0
  <2> QED
    BY <2>1, ReadReads
<1>3. ASSUME NEW i \in Cases, NEW S \in SUBSET Named, Create(w, i, S)
      PROVE  UNCHANGED <<stale, staleCase>>
  BY <1>3, CreateCreates
<1>4. ASSUME LinkAlert(w) \/ UnlinkAlert(w) PROVE UNCHANGED <<stale, staleCase>>
  BY <1>4, SidesStep
<1>5. ASSUME WriteAlert(w)
      PROVE  /\ v \in stale => v \in stale' /\ staleCase' = staleCase
             /\ step[v] = "saveAlert" /\ about[v] = about[w] => v \in stale'
  BY <1>5, WriteWrites
<1>6. ASSUME SaveCase(w)
      PROVE  /\ v \in staleCase => v \in staleCase' /\ stale' = stale
             /\ step[v] = "saveCase" /\ file[v] = file[w] => v \in staleCase'
  BY <1>6, SaveSaves
<1>7. ASSUME HandlerFails(w)
      PROVE  (v \in stale => v \in stale') /\ (v \in staleCase => v \in staleCase')
  BY <1>7, FailureEnds
<1>8. WriteAlert(w) => step[w] = "saveAlert" /\ UNCHANGED staleCase
  BY WriteWrites
<1>9. SaveCase(w) => step[w] = "saveCase" /\ UNCHANGED stale
  BY SaveSaves
<1> QED
  BY <1>1, <1>2, <1>3, <1>4, <1>5, <1>6, <1>7, <1>8, <1>9 DEF Acts

LEMMA OtherCopies ==
  ASSUME TypeOK, DeskSound, NEW w \in Workers, Acts(w), NEW v \in Workers, v # w
  PROVE  CopySound(v)' /\ CaseCopySound(v)'
<1> USE DEF TypeOK
<1>1. Unmoved(v)
  BY OthersStay
<1>2. CopySound(v)'
  <2>1. SUFFICES ASSUME step'[v] = "saveAlert" PROVE CopySound(v)'
    BY DEF CopySound
  <2>2. /\ about[v] \in Alerts /\ Exists(about[v]) /\ doc[v].status \in Statuses
        /\ v \notin stale => OneChange(alert[about[v]], doc[v])
    BY <1>1, <2>1 DEF Unmoved, DeskSound, CopySound
  <2>3. v \notin stale' => v \notin stale /\ alert'[about[v]] = alert[about[v]]
    BY <1>1, <2>1, <2>2, AlertsMove, StaleMoves DEF Unmoved
  <2>4. alert'[about[v]] # NoAlert
    <3>1. WriteAlert(w) => doc[w] # NoAlert
      BY WriteWrites, WithStatus DEF DeskSound, CopySound
    <3> QED
      BY <2>2, <3>1, AlertsMove DEF Exists
  <2> QED
    BY <1>1, <2>2, <2>3, <2>4 DEF Unmoved, CopySound, Exists
<1>3. CaseCopySound(v)'
  <2>1. SUFFICES ASSUME step'[v] = "saveCase" PROVE CaseCopySound(v)'
    BY DEF CaseCopySound
  <2>2. /\ file[v] \in Cases /\ case[file[v]] # NoCase /\ caseDoc[v].status \in CaseStatuses
        /\ v \notin staleCase => OneCaseChange(case[file[v]], caseDoc[v])
    BY <1>1, <2>1 DEF Unmoved, DeskSound, CaseCopySound
  <2>3. v \notin staleCase' => v \notin staleCase /\ case'[file[v]] = case[file[v]]
    BY <1>1, <2>1, <2>2, CasesMove, StaleMoves DEF Unmoved
  <2>4. case'[file[v]] # NoCase
    <3>1. SaveCase(w) => caseDoc[w] # NoCase
      BY SaveSaves, WithStatus DEF DeskSound, CaseCopySound
    <3> QED
      BY <2>2, <3>1, CasesMove
  <2> QED
    BY <1>1, <2>2, <2>3, <2>4 DEF Unmoved, CaseCopySound
<1> QED
  BY <1>2, <1>3

LEMMA OwnCaseCopy ==
  ASSUME TypeOK, DeskSound, NEW w \in Workers, Acts(w)
  PROVE  CaseCopySound(w)' /\ InStep(w)'
<1> USE DEF TypeOK
<1>1. ASSUME NEW a \in Alerts, AlertRequest(w, a) PROVE CaseCopySound(w)' /\ InStep(w)'
  <2>1. step'[w] = "saveAlert"
    BY <1>1, AlertRequestReads
  <2> QED
    BY <2>1 DEF CaseCopySound, InStep
<1>2. ASSUME CaseRead(w) PROVE CaseCopySound(w)' /\ InStep(w)'
  <2>0. PICK i \in Cases : \E a, d, next : CaseAsks(a, case[i], d, next) /\ ReadCase(w, i, a, d, next)
    BY <1>2 DEF CaseRead
  <2>1. PICK a, d, next : CaseAsks(a, case[i], d, next) /\ ReadCase(w, i, a, d, next)
    BY <2>0
  <2>2. /\ case[i] # NoCase /\ step'[w] = "saveCase" /\ about'[w] = a /\ file'[w] = i
        /\ caseDoc'[w] = d /\ follow'[w] = next /\ case' = case
    BY <2>1, ReadReads
  <2>3. /\ d.status \in CaseStatuses /\ OneCaseChange(case[i], d)
        /\ IF next = "idle" THEN a = None ELSE a \in Alerts
        /\ next = "linkAlert" => a \in d.alerts
    <3>1. case[i] \in Files /\ case[i].status \in CaseStatuses
      BY <2>2 DEF DeskSound, CasesWhole
    <3> QED
      BY <2>1, <3>1, AskedFile, Zenon
  <2>4. CaseCopySound(w)'
    BY <2>2, <2>3 DEF CaseCopySound
  <2>5. InStep(w)'
    BY <2>2, <2>3 DEF InStep
  <2> QED
    BY <2>4, <2>5
<1>3. ASSUME Ends(w) PROVE CaseCopySound(w)' /\ InStep(w)'
  BY <1>3 DEF Ends, CaseCopySound, InStep
<1>4. ASSUME NEW d, GoesOn(w, d) PROVE CaseCopySound(w)' /\ InStep(w)'
  BY <1>4 DEF GoesOn, CaseCopySound, InStep
<1>5. ASSUME SaveCase(w) PROVE CaseCopySound(w)' /\ InStep(w)'
  <2>1. CASE follow[w] = "idle"
    BY <1>3, <1>5, <2>1, SaveSaves
  <2>2. CASE follow[w] # "idle"
    <3>1. about[w] \in Alerts /\ file[w] \in Cases
      BY <1>5, <2>2, SaveSaves DEF DeskSound, InStep, CaseCopySound
    <3>2. /\ about'[w] = about[w] /\ file'[w] = file[w] /\ step'[w] = follow[w]
          /\ follow[w] \in {"linkAlert", "unlinkAlert"}
      BY <1>5, <2>2, SaveSaves
    <3> QED
      BY <3>1, <3>2 DEF CaseCopySound, InStep
  <2> QED
    BY <2>1, <2>2
<1>6. ASSUME NEW i \in Cases, NEW S \in SUBSET Named, Create(w, i, S)
      PROVE  CaseCopySound(w)' /\ InStep(w)'
  BY <1>6, CreateCreates DEF DeskSound, CaseCopySound, InStep
<1>7. ASSUME LinkAlert(w) \/ UnlinkAlert(w) PROVE CaseCopySound(w)' /\ InStep(w)'
  BY <1>3, <1>4, <1>7, SidesStep
<1>8. ASSUME WriteAlert(w) \/ HandlerFails(w) PROVE CaseCopySound(w)' /\ InStep(w)'
  BY <1>3, <1>8, WriteWrites, FailureEnds
<1> QED
  BY <1>1, <1>2, <1>5, <1>6, <1>7, <1>8 DEF Acts

LEMMA DeskStep ==
  ASSUME TypeOK, DeskSound, [Next]_vars
  PROVE  DeskSound'
<1> USE DEF TypeOK
<1>1. ASSUME NEW w \in Workers, Acts(w), NEW v \in Workers
      PROVE  CopySound(v)' /\ CaseCopySound(v)' /\ InStep(v)'
  <2>1. CASE v = w
    BY <1>1, <2>1, OwnCopy, OwnCaseCopy
  <2>2. CASE v # w
    BY <1>1, <2>2, OtherCopies, OthersStay DEF Unmoved, DeskSound, InStep
  <2> QED
    BY <2>1, <2>2
<1>2. ASSUME RunPipeline \/ UNCHANGED vars, NEW v \in Workers
      PROVE  CopySound(v)' /\ CaseCopySound(v)' /\ InStep(v)'
  <2>1. /\ \A a \in Alerts : alert'[a] = alert[a] \/ ~Exists(a)
        /\ UNCHANGED <<step, about, doc, stale, case, file, caseDoc, follow, staleCase>>
    BY <1>2, PipelineRaises
  <2>2. CopySound(v)'
    BY <2>1 DEF DeskSound, CopySound, Exists
  <2> QED
    BY <2>1, <2>2 DEF DeskSound, CaseCopySound, InStep
<1> QED
  BY <1>1, <1>2, WholeStep, WorkersAct DEF Next, DeskSound

-----------------------------------------------------------------------------
(* Links stay sound.                                                       *)

LEMMA UndisturbedStep ==
  ASSUME TypeOK, DeskSound, Undisturbed, NEW x \in Workers, Acts(x)
  PROVE  Undisturbed'
<1> SUFFICES ASSUME NEW w \in Workers, about'[w] \in Alerts, about'[w] \notin contended',
                    NEW v \in Workers, v # w, step'[v] # "idle"
             PROVE  about'[v] # about'[w] /\ (file'[w] # None => file'[v] # file'[w])
  BY DEF Undisturbed, Alone
<1> USE DEF TypeOK
<1>1. contended \subseteq contended'
  BY OthersStay
<1>2. ASSUME about[w] \in Alerts \ contended, step[v] # "idle"
      PROVE  about[v] # about[w] /\ (file[w] # None => file[v] # file[w])
  BY <1>2 DEF Undisturbed, Alone
<1>3. CASE w # x /\ v # x
  BY <1>1, <1>2, <1>3, OthersStay DEF Unmoved
<1>4. CASE w = x
  <2>1. step[v] # "idle" /\ about'[v] = about[v] /\ file'[v] = file[v]
    BY <1>4, OthersStay DEF Unmoved
  <2>2. CASE Begins(w)
    <3>0. PICK a \in Alerts \union {None} :
            \E i : /\ step[w] = "idle" /\ Overlap(w, a, i)
                  /\ about'[w] = a /\ file'[w] \in {i, None}
      BY <2>2 DEF Begins
    <3>1. PICK i : /\ step[w] = "idle" /\ Overlap(w, a, i)
                   /\ about'[w] = a /\ file'[w] \in {i, None}
      BY <3>0
    <3>2. a \in Alerts /\ a \notin contended' /\ a # None
      BY <3>1, NoneIsNothing
    <3>3. ~(about[v] = a \/ file[v] = i)
      BY <2>1, <3>1, <3>2, OverlapContends
    <3> QED
      BY <2>1, <3>1, <3>3
  <2>3. CASE Continues(w)
    BY <1>1, <1>2, <2>1, <2>3 DEF Continues
  <2>4. CASE Over(w)
    BY <2>4, NoneIsNothing DEF Over
  <2> QED
    BY <1>4, <2>2, <2>3, <2>4, Moves
<1>5. CASE v = x
  <2>1. about'[w] = about[w] /\ file'[w] = file[w] /\ about[w] \in Alerts \ contended
    BY <1>1, <1>5, OthersStay DEF Unmoved
  <2>2. step[w] # "idle" /\ about[w] # None
    BY <2>1, NoneIsNothing DEF DeskSound, InStep
  <2>3. CASE Begins(v)
    <3>0. PICK a \in Alerts \union {None} :
            \E i : /\ step[v] = "idle" /\ Overlap(v, a, i)
                  /\ about'[v] = a /\ file'[v] \in {i, None}
      BY <2>3 DEF Begins
    <3>1. PICK i : /\ step[v] = "idle" /\ Overlap(v, a, i)
                   /\ about'[v] = a /\ file'[v] \in {i, None}
      BY <3>0
    <3>2. ~(about[w] = a \/ file[w] = i)
      BY <2>1, <2>2, <3>1, OverlapContends
    <3> QED
      BY <2>1, <3>1, <3>2
  <2>4. CASE Continues(v)
    BY <1>2, <2>1, <2>4 DEF Continues
  <2>5. CASE Over(v)
    BY <2>5 DEF Over
  <2> QED
    BY <1>5, <2>3, <2>4, <2>5, Moves
<1> QED
  BY <1>3, <1>4, <1>5

(* Only reading an investigation makes a copy of one. *)
LEMMA CopiesAreRead ==
  ASSUME TypeOK, DeskSound, NEW w \in Workers, Acts(w), step'[w] = "saveCase"
  PROVE  CaseRead(w)
<1>1. ASSUME Ends(w) PROVE FALSE
  BY <1>1 DEF Ends, TypeOK
<1>2. ASSUME NEW d, GoesOn(w, d) PROVE FALSE
  BY <1>2 DEF GoesOn, TypeOK
<1>3. ASSUME SaveCase(w) PROVE FALSE
  BY <1>1, <1>3, SaveSaves DEF TypeOK
<1>4. ASSUME NEW a \in Alerts, AlertRequest(w, a) PROVE FALSE
  BY <1>4, AlertRequestReads DEF TypeOK
<1>5. ASSUME NEW i \in Cases, NEW S \in SUBSET Named, Create(w, i, S) PROVE FALSE
  BY <1>5, CreateCreates
<1> QED
  BY <1>1, <1>2, <1>3, <1>4, <1>5, SidesStep, WriteWrites, FailureEnds DEF Acts

LEMMA AgreeStep ==
  ASSUME TypeOK, DeskSound, Undisturbed, CopiesAgree, NEW x \in Workers, Acts(x)
  PROVE  CopiesAgree'
<1> SUFFICES ASSUME NEW a \in Alerts, a \notin contended', NEW w \in Workers,
                    step'[w] = "saveCase", about'[w] # a
             PROVE  a \in caseDoc'[w].alerts <=> a \in case'[file'[w]].alerts
  BY DEF CopiesAgree, Agrees
<1> USE DEF TypeOK
<1>1. a \notin contended
  BY OthersStay
<1>2. CASE w = x
  <2>1. CaseRead(w)
    BY <1>2, CopiesAreRead
  <2>0. PICK i \in Cases : \E b, d, next : CaseAsks(b, case[i], d, next) /\ ReadCase(w, i, b, d, next)
    BY <2>1 DEF CaseRead
  <2>2. PICK b, d, next : CaseAsks(b, case[i], d, next) /\ ReadCase(w, i, b, d, next)
    BY <2>0
  <2>3. /\ case[i] # NoCase /\ about'[w] = b /\ file'[w] = i /\ caseDoc'[w] = d
        /\ case' = case
    BY <2>2, ReadReads
  <2>4. case[i] \in Files /\ case[i].status \in CaseStatuses
    BY <2>3 DEF DeskSound, CasesWhole
  <2>5. \A c \in Alerts : c # b => (c \in d.alerts <=> c \in case[i].alerts)
    BY <2>2, <2>4, AskedFile, Zenon
  <2> QED
    BY <2>3, <2>5
<1>3. CASE w # x
  <2> DEFINE i == file[w]
  <2>1. Unmoved(w)
    BY <1>3, OthersStay
  <2>2. /\ step[w] = "saveCase" /\ about[w] # a /\ file'[w] = i
        /\ caseDoc'[w] = caseDoc[w]
    BY <2>1 DEF Unmoved
  <2>3. i \in Cases /\ case[i] # NoCase
    BY <2>2 DEF DeskSound, CaseCopySound
  <2>4. a \in caseDoc[w].alerts <=> a \in case[i].alerts
    BY <1>1, <2>2 DEF CopiesAgree, Agrees
  <2>5. CASE SaveCase(x) /\ file[x] = i /\ case'[i] = caseDoc[x]
    <3>1. step[x] = "saveCase" /\ i # None
      BY <2>3, <2>5, SaveSaves, NoneIsNothing
    <3>2. about[x] # a
      BY <1>1, <1>3, <2>2, <2>5, <3>1 DEF Undisturbed, Alone
    <3>3. a \in caseDoc[x].alerts <=> a \in case[i].alerts
      BY <1>1, <2>5, <3>1, <3>2 DEF CopiesAgree, Agrees
    <3> QED
      BY <2>2, <2>4, <2>5, <3>3
  <2> QED
    BY <2>2, <2>3, <2>4, <2>5, CasesMove
<1> QED
  BY <1>2, <1>3

(* The handler of an uncontended alert, at its own step. *)
LEMMA OwnLink ==
  ASSUME TypeOK, DeskSound, NEW w \in Workers, LinkSound(w), Acts(w),
         about'[w] \in Alerts, about'[w] \notin contended'
  PROVE  /\ step'[w] = "linkAlert" => Listed(w)'
         /\ step'[w] = "saveAlert" =>
              \/ doc'[w].case \in {None, alert'[about'[w]].case}
              \/ doc'[w].case = file'[w] /\ Listed(w)'
<1> DEFINE Goal == /\ step'[w] = "linkAlert" => Listed(w)'
                   /\ step'[w] = "saveAlert" =>
                        \/ doc'[w].case \in {None, alert'[about'[w]].case}
                        \/ doc'[w].case = file'[w] /\ Listed(w)'
<1> USE DEF TypeOK
<1>0. contended \subseteq contended'
  BY OthersStay
<1>1. ASSUME NEW a \in Alerts, AlertRequest(w, a) PROVE Goal
  <2>1. PICK d : doc' = [doc EXCEPT ![w] = d] /\ Asks(w, a, d)
    BY <1>1, AlertRequestReads
  <2>2. /\ step' = [step EXCEPT ![w] = "saveAlert"] /\ about' = [about EXCEPT ![w] = a]
        /\ alert' = alert /\ Exists(a)
    BY <1>1, AlertRequestReads
  <2>3. step'[w] = "saveAlert" /\ about'[w] = a /\ doc'[w] = d
    BY <2>1, <2>2
  <2>4. d.case = alert[a].case
    BY <2>1, <2>2, AskedDocument DEF DeskSound, AlertsWhole
  <2> QED
    BY <2>2, <2>3, <2>4
<1>2. ASSUME CaseRead(w) PROVE step'[w] = "saveCase"
  BY <1>2, ReadReads DEF CaseRead
<1>3. ASSUME Ends(w) PROVE FALSE
  BY <1>3, NoneIsNothing DEF Ends
<1>4. ASSUME SaveCase(w) PROVE Goal
  <2>1. /\ step[w] = "saveCase" /\ step'[w] = follow[w] /\ about'[w] = about[w]
        /\ file'[w] = file[w] /\ case' = [case EXCEPT ![file[w]] = caseDoc[w]]
    BY <1>3, <1>4, SaveSaves
  <2>2. follow[w] = "linkAlert" => about[w] \in caseDoc[w].alerts /\ file[w] \in Cases
    BY <2>1 DEF DeskSound, InStep, CaseCopySound
  <2> QED
    BY <2>1, <2>2 DEF Listed
<1>5. ASSUME NEW i \in Cases, NEW S \in SUBSET Named, Create(w, i, S) PROVE step'[w] = "idle"
  BY <1>5, CreateCreates
<1>6. ASSUME LinkAlert(w) PROVE Goal
  <2>1. /\ step[w] = "linkAlert" /\ GoesOn(w, Linked(w))
        /\ UNCHANGED <<alert, case>>
    BY <1>3, <1>6, SidesStep
  <2>2. about'[w] = about[w] /\ file'[w] = file[w] /\ doc'[w] = Linked(w)
    BY <2>1 DEF GoesOn
  <2>3. Listed(w)
    BY <1>0, <2>1, <2>2 DEF LinkSound
  <2>4. Linked(w).case = file[w]
    BY <2>2 DEF Linked, Documents
  <2> QED
    BY <2>1, <2>2, <2>3, <2>4 DEF Listed, GoesOn
<1>7. ASSUME UnlinkAlert(w) PROVE Goal
  <2>1. GoesOn(w, Unlinked(w))
    BY <1>3, <1>7, SidesStep
  <2>2. about'[w] = about[w] /\ step'[w] = "saveAlert" /\ doc'[w] = Unlinked(w)
    BY <2>1 DEF GoesOn
  <2>3. Unlinked(w).case = None
    BY <2>2 DEF Unlinked, Documents
  <2> QED
    BY <2>2, <2>3
<1>8. ASSUME WriteAlert(w) \/ HandlerFails(w) PROVE FALSE
  BY <1>3, <1>8, WriteWrites, FailureEnds
<1> QED
  BY <1>1, <1>2, <1>4, <1>5, <1>6, <1>7, <1>8 DEF Acts

LEMMA LinkStep ==
  ASSUME TypeOK, DeskSound, LinksSound, NEW x \in Workers, Acts(x)
  PROVE  \A w \in Workers : LinkSound(w)'
<1> SUFFICES ASSUME NEW w \in Workers, about'[w] \in Alerts, about'[w] \notin contended'
             PROVE  /\ step'[w] = "linkAlert" => Listed(w)'
                    /\ step'[w] = "saveAlert" =>
                         \/ doc'[w].case \in {None, alert'[about'[w]].case}
                         \/ doc'[w].case = file'[w] /\ Listed(w)'
  BY DEF LinkSound
<1> USE DEF TypeOK
<1>1. contended \subseteq contended' /\ LinkSound(w)
  BY OthersStay DEF LinksSound
<1>2. CASE w = x
  BY <1>1, <1>2, OwnLink
<1>3. CASE w # x
  <2>1. Unmoved(w)
    BY <1>3, OthersStay
  <2>2. about[w] \in Alerts \ contended
    BY <1>1, <2>1 DEF Unmoved
  <2>3. step[w] # "idle" => Alone(w, x)
    BY <2>2 DEF LinksSound, Undisturbed
  <2>4. step[w] = "saveAlert" => alert'[about[w]] = alert[about[w]]
    <3>1. WriteAlert(x) => step[x] = "saveAlert"
      BY WriteWrites
    <3> QED
      BY <1>3, <2>2, <2>3, <3>1, AlertsMove DEF Alone
  <2>5. step[w] # "idle" /\ Listed(w) => case'[file[w]] = case[file[w]]
    <3>1. SaveCase(x) => step[x] = "saveCase"
      BY SaveSaves
    <3> QED
      BY <1>3, <2>3, <3>1, CasesMove, NoneIsNothing, FirstFiles DEF Alone, Listed
  <2>6. step[w] # "idle" /\ Listed(w) => Listed(w)'
    BY <2>1, <2>5 DEF Unmoved, Listed
  <2>7. /\ step[w] = "linkAlert" => Listed(w)
        /\ step[w] = "saveAlert" =>
             \/ doc[w].case \in {None, alert[about[w]].case}
             \/ doc[w].case = file[w] /\ Listed(w)
    BY <1>1, <2>2 DEF LinkSound
  <2>8. /\ step'[w] = step[w] /\ about'[w] = about[w] /\ doc'[w] = doc[w]
        /\ file'[w] = file[w]
    BY <2>1 DEF Unmoved
  <2> QED
    BY <2>4, <2>6, <2>7, <2>8
<1> QED
  BY <1>2, <1>3

(* The request that takes an alert out of its investigation is on its way. *)
Leaves(a, w) ==
  about[w] = a /\ (step[w] = "unlinkAlert" \/ (step[w] = "saveAlert" /\ doc[w].case = None))

LEMMA LeavesOn ==
  ASSUME TypeOK, DeskSound, NEW x \in Workers, Acts(x), NEW a \in Alerts,
         a \notin contended', alert[a].case # None, NEW w \in Workers, Leaves(a, w)
  PROVE  Leaves(a, w)' \/ (WriteAlert(w) /\ alert'[a] = doc[w] /\ doc[w].case = None)
<1> USE DEF TypeOK
<1>1. CASE w # x
  BY <1>1, OthersStay DEF Unmoved, Leaves
<1>2. CASE w = x
  <2>1. step[w] \in {"unlinkAlert", "saveAlert"}
    BY DEF Leaves
  <2>2. \/ UnlinkAlert(w) \/ WriteAlert(w) \/ HandlerFails(w)
    BY <1>2, <2>1, AlertRequestReads, ReadReads, CreateCreates, SaveSaves, SidesStep
       DEF Acts, CaseRead
  <2>3. CASE UnlinkAlert(w)
    <3>1. alert[a] # NoAlert /\ about[w] = a
      BY FirstDocuments DEF Leaves
    <3>2. Unlinked(w) # alert[a] /\ Unlinked(w).case = None
      BY <3>1 DEF Unlinked, Documents
    <3>3. GoesOn(w, Unlinked(w))
      BY <2>3, <3>1, <3>2, SidesStep DEF Exists
    <3> QED
      BY <3>1, <3>2, <3>3 DEF GoesOn, Leaves
  <2>4. CASE WriteAlert(w)
    BY <2>4, WriteWrites DEF Leaves
  <2>5. CASE HandlerFails(w)
    BY <2>5, FailureEnds, NoneIsNothing DEF Leaves
  <2> QED
    BY <2>2, <2>3, <2>4, <2>5
<1> QED
  BY <1>1, <1>2

LEMMA PointsStep ==
  ASSUME TypeOK, DeskSound, LinksSound, PointsWhereListed, NEW x \in Workers, Acts(x)
  PROVE  PointsWhereListed'
<1> SUFFICES ASSUME NEW a \in Alerts, a \notin contended', alert'[a].case # None
             PROVE  a \in case'[alert'[a].case].alerts \/ \E w \in Workers : Leaves(a, w)'
  BY DEF PointsWhereListed, Leaves
<1> USE DEF TypeOK
<1>1. a \notin contended
  BY OthersStay
<1>2. ASSUME alert[a].case # None
      PROVE  a \in case[alert[a].case].alerts \/ \E w \in Workers : Leaves(a, w)
  BY <1>1, <1>2 DEF PointsWhereListed, Leaves
<1>3. CASE alert'[a] = alert[a]
  <2> DEFINE i == alert[a].case
  <2>1. i \in Cases
    BY <1>3 DEF Documents
  <2>2. ASSUME NEW w \in Workers, Leaves(a, w)
        PROVE  \E v \in Workers : Leaves(a, v)'
    BY <1>3, <2>2, LeavesOn
  <2>3. CASE a \in case[i].alerts
    <3>1. CASE SaveCase(x) /\ file[x] = i /\ case'[i] = caseDoc[x]
      <4>1. step[x] = "saveCase" /\ step'[x] = follow[x]
        BY <3>1, SaveSaves
      <4>2. CASE about[x] # a
        BY <1>1, <1>3, <2>3, <3>1, <4>1, <4>2 DEF LinksSound, CopiesAgree, Agrees
      <4>3. CASE about[x] = a
        <5>1. follow[x] \in {"linkAlert", "unlinkAlert"}
          BY <4>1, <4>3, NoneIsNothing DEF DeskSound, InStep
        <5>2. CASE follow[x] = "linkAlert"
          BY <1>3, <3>1, <4>1, <4>3, <5>2 DEF DeskSound, InStep
        <5>3. CASE follow[x] = "unlinkAlert"
          BY <3>1, <4>1, <4>3, <5>3, SaveSaves DEF Leaves
        <5> QED
          BY <5>1, <5>2, <5>3
      <4> QED
        BY <4>2, <4>3
    <3> QED
      BY <1>3, <2>1, <2>3, <3>1, CasesMove, FirstFiles
  <2> QED
    BY <1>2, <1>3, <2>2, <2>3
<1>4. CASE WriteAlert(x) /\ about[x] = a /\ alert'[a] = doc[x]
  <2>1. step[x] = "saveAlert" /\ case' = case
    BY <1>4, WriteWrites
  <2>2. \/ doc[x].case = alert[a].case
        \/ doc[x].case = file[x] /\ Listed(x)
    BY <1>1, <1>4, <2>1 DEF LinksSound, LinkSound
  <2>3. CASE doc[x].case = alert[a].case
    <3>1. ASSUME NEW w \in Workers, Leaves(a, w) PROVE FALSE
      <4>1. w = x
        BY <1>1, <1>4, <2>1, <3>1 DEF LinksSound, Undisturbed, Alone, Leaves
      <4> QED
        BY <1>4, <2>1, <3>1, <4>1 DEF Leaves
    <3> QED
      BY <1>2, <1>4, <2>1, <2>3, <3>1
  <2>4. CASE doc[x].case = file[x] /\ Listed(x)
    BY <1>4, <2>1, <2>4 DEF Listed
  <2> QED
    BY <2>2, <2>3, <2>4
<1> QED
  BY <1>3, <1>4, AlertsMove

-----------------------------------------------------------------------------
(* The inductive invariant, and what follows from it.                      *)

LEMMA InvariantStep ==
  ASSUME IInv, [Next]_vars
  PROVE  IInv'
<1> USE DEF IInv
<1>1. TypeOK' /\ DeskSound'
  BY TypeStep, DeskStep
<1>2. ASSUME NEW w \in Workers, Acts(w) PROVE LinksSound' /\ PointsWhereListed'
  BY <1>2, UndisturbedStep, AgreeStep, LinkStep, PointsStep DEF LinksSound
<1>3. CASE RunPipeline \/ UNCHANGED vars
  <2>1. /\ \A a \in Alerts : \/ alert'[a] = alert[a]
                             \/ ~Exists(a) /\ alert'[a].case = None
        /\ UNCHANGED <<step, about, doc, stale, case, file, caseDoc, follow, staleCase,
                       contended>>
    BY <1>3, PipelineRaises, FirstDocuments
  <2>2. Undisturbed' /\ CopiesAgree'
    BY <2>1 DEF LinksSound, Undisturbed, Alone, CopiesAgree, Agrees
  <2>3. ASSUME NEW w \in Workers PROVE LinkSound(w)'
    <3>1. step[w] = "saveAlert" => Exists(about[w]) /\ about[w] \in Alerts
      BY DEF DeskSound, CopySound
    <3> QED
      BY <2>1, <3>1 DEF LinksSound, LinkSound, Listed
  <2>4. PointsWhereListed'
    <3>1. SUFFICES ASSUME NEW a \in Alerts, a \notin contended, alert'[a].case # None
                   PROVE  a \in case[alert'[a].case].alerts \/ \E w \in Workers : Leaves(a, w)
      BY <2>1 DEF PointsWhereListed, Leaves
    <3>2. alert'[a] = alert[a]
      BY <2>1, <3>1
    <3> QED
      BY <3>1, <3>2 DEF PointsWhereListed, Leaves
  <2> QED
    BY <1>1, <2>2, <2>3, <2>4 DEF LinksSound
<1> QED
  BY <1>1, <1>2, <1>3, WorkersAct DEF Next

(* Copies and links stay sound whatever the handlers and the pipeline do.  *)
THEOREM Invariance == Spec => []IInv
<1>1. Init => IInv
  BY Start
<1>2. IInv /\ [Next]_vars => IInv'
  BY InvariantStep
<1> QED
  BY <1>1, <1>2, PTL DEF Spec

(* An alert whose handlers neither overlapped nor were cut short points    *)
(* only to an investigation that lists it, or is being taken out of it.    *)
THEOREM LinksAreListed == Spec => []PointsWhereListed
<1>1. IInv => PointsWhereListed
  BY DEF IInv
<1> QED
  BY <1>1, Invariance, PTL

(* Statuses leave the lifecycle, and one request undoes another, through   *)
(* writes of stale copies only; the pipeline never does either.            *)
LEMMA LegalStep ==
  ASSUME IInv, [Next]_vars, NEW a \in Alerts, Exists(a)
  PROVE  \/ FieldsChanged(a) = {}
         \/ FieldsChanged(a) = {"status"} /\ alert'[a].status \in Allowed(alert[a].status)
         \/ FieldsChanged(a) \in {{"assignee"}, {"case"}}
         \/ StaleWrite(a)
<1>1. CASE alert'[a] = alert[a]
  BY <1>1 DEF FieldsChanged
<1>2. ASSUME NEW w \in Workers, WriteAlert(w), about[w] = a, alert'[a] = doc[w], w \notin stale
      PROVE  \/ FieldsChanged(a) = {}
             \/ /\ FieldsChanged(a) = {"status"}
                /\ alert'[a].status \in Allowed(alert[a].status)
             \/ FieldsChanged(a) \in {{"assignee"}, {"case"}}
  <2>1. OneChange(alert[a], alert'[a])
    BY <1>2, WriteWrites DEF IInv, DeskSound, CopySound
  <2> QED
    BY <2>1 DEF OneChange, FieldsChanged
<1>3. ASSUME NEW w \in Workers, WriteAlert(w), about[w] = a, w \in stale
      PROVE  StaleWrite(a)
  BY <1>3, WriteWrites DEF StaleWrite
<1>4. ASSUME NEW w \in Workers, Acts(w), alert'[a] # alert[a]
      PROVE  WriteAlert(w) /\ about[w] = a /\ alert'[a] = doc[w]
  BY <1>4, AlertsMove DEF IInv
<1>5. RunPipeline \/ UNCHANGED vars => alert'[a] = alert[a]
  BY PipelineRaises DEF IInv
<1> QED
  BY <1>1, <1>2, <1>3, <1>4, <1>5, WorkersAct DEF Next

(* However many requests are on their way: an alert goes only where its    *)
(* lifecycle lets it, unless a handler writes back a copy it read before   *)
(* another one wrote (AlertStatusService.change_status,                    *)
(* MongoAlertRepository.update).                                           *)
THEOREM AlertsStayLegal == Spec => LegalUnlessStale
<1>1. IInv /\ [Next]_vars =>
        [\A a \in Alerts :
           Exists(a) =>
             \/ FieldsChanged(a) = {}
             \/ FieldsChanged(a) = {"status"}
                /\ alert'[a].status \in Allowed(alert[a].status)
             \/ FieldsChanged(a) \in {{"assignee"}, {"case"}}
             \/ StaleWrite(a)]_deskVars
  BY LegalStep
<1> QED
  BY <1>1, Invariance, PTL DEF Spec, LegalUnlessStale

(* An investigation leaves its lifecycle, or loses or gains more than one  *)
(* alert in a write, only through a write of a stale copy.                 *)
LEMMA CaseLegalStep ==
  ASSUME IInv, [Next]_vars, NEW i \in Cases, case[i] # NoCase
  PROVE  \/ case'[i] = case[i]
         \/ /\ case'[i].alerts = case[i].alerts
            /\ case'[i].status \in AllowedCase(case[i].status)
         \/ /\ case'[i].status = case[i].status
            /\ \E a \in Alerts : {a} = (case'[i].alerts \ case[i].alerts)
                                  \union (case[i].alerts \ case'[i].alerts)
         \/ \E w \in staleCase :
              step[w] = "saveCase" /\ file[w] = i /\ w \notin staleCase'
<1>1. ASSUME NEW w \in Workers, SaveCase(w), file[w] = i, case'[i] = caseDoc[w],
             w \notin staleCase
      PROVE  OneCaseChange(case[i], case'[i])
  BY <1>1, SaveSaves DEF IInv, DeskSound, CaseCopySound
<1>2. ASSUME NEW w \in Workers, SaveCase(w), file[w] = i, w \in staleCase
      PROVE  step[w] = "saveCase" /\ w \notin staleCase'
  BY <1>2, SaveSaves
<1>3. ASSUME NEW w \in Workers, Acts(w), case'[i] # case[i]
      PROVE  SaveCase(w) /\ file[w] = i /\ case'[i] = caseDoc[w]
  BY <1>3, CasesMove DEF IInv
<1>4. RunPipeline \/ UNCHANGED vars => case'[i] = case[i]
  BY PipelineRaises DEF IInv
<1>5. CASE OneCaseChange(case[i], case'[i])
  BY <1>5 DEF OneCaseChange
<1>6. CASE ~OneCaseChange(case[i], case'[i]) /\ case'[i] # case[i]
  BY <1>1, <1>2, <1>3, <1>4, <1>6, WorkersAct DEF Next
<1> QED
  BY <1>5, <1>6

(* The same of investigations (InvestigationService.change_status,         *)
(* MongoInvestigationRepository.update).                                   *)
THEOREM CasesStayLegal == Spec => CaseLegalUnlessStale
<1>1. IInv /\ [Next]_vars =>
        [\A i \in Cases :
           case[i] # NoCase =>
             \/ case'[i] = case[i]
             \/ /\ case'[i].alerts = case[i].alerts
                /\ case'[i].status \in AllowedCase(case[i].status)
             \/ /\ case'[i].status = case[i].status
                /\ \E a \in Alerts : {a} = (case'[i].alerts \ case[i].alerts)
                                      \union (case[i].alerts \ case'[i].alerts)
             \/ \E w \in staleCase :
                  step[w] = "saveCase" /\ file[w] = i /\ w \notin staleCase']_vars
  BY CaseLegalStep
<1> QED
  BY <1>1, Invariance, PTL DEF Spec, CaseLegalUnlessStale
=============================================================================
