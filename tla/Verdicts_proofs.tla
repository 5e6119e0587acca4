-------------------------- MODULE Verdicts_proofs --------------------------
(***************************************************************************)
(* Verdicts on record, for any number of analysts, alerts and requests:    *)
(* one is in force, the earlier ones form a line, a decisive one closed    *)
(* its alert, and nobody waits for ever.                                   *)
(*                                                                         *)
(* That one is in force is not inductive: it needs what the row locks and  *)
(* the unique index make true of transactions still open.  Two of them     *)
(* never retire the same row and never both hold a new row for one alert,  *)
(* and once a transaction holds a new row no committed row of that alert   *)
(* is in force but the one it retires.  That a verdict has closed its      *)
(* alert needs what is known of a copy of the alert: one that is not stale *)
(* differs from the alert only by a legal move, and a closed alert has no  *)
(* legal move left.                                                        *)
(***************************************************************************)
EXTENDS Verdicts, FiniteSetTheorems, TLAPS

Steps == {"idle", "lookUp", "retire", "insert", "move", "saveAlert", "commit"}
Marks == Statuses \union {"ABSENT"}
Documents ==
  [status : Marks, assignee : Analysts \union {None}, case : Cases \union {None}]
VerdictRows ==
  [alert : Alerts \union {None}, verdict : Kinds \union {"none"},
   by : Ids \union {0}, saw : Marks \union {"none"}]

TypeOK ==
  /\ alert \in [Alerts -> Documents]
  /\ step \in [Workers -> Steps]
  /\ about \in [Workers -> Alerts \union {None}]
  /\ doc \in [Workers -> Documents]
  /\ stale \subseteq Workers
  /\ requests \in 0..MaxRequests
  /\ rows \in [Ids -> VerdictRows]
  /\ entry \in [Workers -> Ids \union {0}]
  /\ verdict \in [Workers -> Kinds \union {"none"}]
  /\ seen \in [Workers -> Marks \union {"none"}]
  /\ previous \in [Workers -> Ids \union {0}]
  /\ retired \subseteq Workers
  /\ inserted \subseteq Workers
  /\ disturbed \subseteq Alerts

(* Where a handler is says what its transaction holds. *)
Holding == {"move", "saveAlert", "commit"}

InStep(w) ==
  /\ step[w] # "idle" => about[w] \in Alerts /\ Exists(about[w])
  /\ step[w] = "idle" => entry[w] = 0
  /\ step[w] \notin {"idle", "saveAlert"} => entry[w] # 0
  /\ w \in inserted <=> entry[w] # 0 /\ step[w] \in Holding
  /\ w \in retired => previous[w] # 0 /\ step[w] \in Holding \union {"insert"}
  /\ entry[w] = 0 => previous[w] = 0
  /\ step[w] = "retire" => previous[w] # 0
  /\ previous[w] # 0 => rows[previous[w]].alert = about[w]

(* Ids are given once, and an id given is not used before the commit. *)
Fresh(w) == entry[w] # 0 => entry[w] <= requests /\ rows[entry[w]] = NoRow

IdsGivenOnce ==
  /\ \A w \in Workers : Fresh(w)
  /\ \A v, w \in Workers : entry[v] = entry[w] /\ entry[v] # 0 => v = w
  /\ \A n \in Ids : n > requests => rows[n] = NoRow

(* Only an alert there is has verdicts, only a verdict is superseded. *)
RowsSound ==
  \A n \in Ids :
    /\ rows[n].alert # None => Exists(rows[n].alert)
    /\ rows[n].alert = None => rows[n] = NoRow

(* The row locks. *)
LocksHeldOnce ==
  \A v, w \in retired : previous[v] = previous[w] => v = w

(* The unique index. *)
IndexHeldOnce ==
  /\ \A v, w \in inserted : about[v] = about[w] => v = w
  /\ \A w \in inserted : Conflicts(w) = {}

OneEach == \A a \in Alerts : RowsOf(a) # {} => \E n \in Ids : InForce(a) = {n}

(* Alerts and the copies handlers hold of them. *)
AlertsWhole == \A a \in Alerts : Exists(a) => alert[a].status \in Statuses

LegalMove(from, to) == to = from \/ to \in Allowed(from)

CopySound(w) ==
  step[w] = "saveAlert" =>
    /\ doc[w].status \in Statuses
    /\ w \notin stale => LegalMove(alert[about[w]].status, doc[w].status)
    /\ entry[w] # 0 => doc[w].status = Target(verdict[w])

(* A verdict about to be committed has closed its alert, one about to be   *)
(* recorded on a closed alert finds it closed.                             *)
Closes(w) ==
  entry[w] # 0 /\ about[w] \notin disturbed =>
    /\ seen[w] \in Closed => alert[about[w]].status \in Closed
    /\ step[w] = "commit" /\ Target(verdict[w]) # "none" =>
         \/ alert[about[w]].status \in Closed
         \/ verdict[w] = "BENIGN" /\ seen[w] = "IN_PROGRESS"

Kept(w) == entry[w] # 0 => verdict[w] \in Kinds /\ seen[w] \in Statuses

DeskSound ==
  /\ AlertsWhole
  /\ \A w \in Workers : CopySound(w) /\ Kept(w) /\ Closes(w)

IInv ==
  /\ TypeOK
  /\ \A w \in Workers : InStep(w)
  /\ IdsGivenOnce
  /\ RowsSound
  /\ LocksHeldOnce
  /\ IndexHeldOnce
  /\ OneEach
  /\ LinearHistory
  /\ DeskSound
  /\ VerdictCloses

-----------------------------------------------------------------------------
(* The lifecycle.                                                          *)

(* No move leads back to OPEN, none leaves a closed status, and a decisive *)
(* verdict can move any other status but IN_PROGRESS.                      *)
LEMMA Lifecycle ==
  /\ \A s : Allowed(s) \subseteq Statuses
  /\ \A s \in Closed : Allowed(s) = {}
  /\ \A v : Target(v) # "none" => Target(v) \in Closed
  /\ \A s \in Statuses, v \in Kinds :
       Target(v) # "none" /\ Target(v) \notin Allowed(s) =>
         s \in Closed \/ (v = "BENIGN" /\ s = "IN_PROGRESS")
BY DEF Allowed, Statuses, Closed, Target, Kinds

(* A status is one before and after a move. *)
LEMMA MarksAreMarks == Statuses \subseteq Marks /\ NoAlert \in Documents /\ Raised \in Documents
BY DEF Statuses, Marks, NoAlert, Raised, Documents

LEMMA ZeroIsNoId == 0 \notin Ids /\ Ids \subseteq Nat
BY BudgetsAreNaturals DEF Ids

-----------------------------------------------------------------------------
(* The parts of the invariant, one step at a time.                         *)

LEMMA Start == Init => IInv
<1> SUFFICES ASSUME Init PROVE IInv
  OBVIOUS
<1> USE DEF Init, DeskInit
<1>1. NoRow \in VerdictRows
  BY DEF NoRow, VerdictRows
<1>2. TypeOK
  BY <1>1, MarksAreMarks, BudgetsAreNaturals DEF TypeOK, Steps, Marks
<1>3. \A n \in Ids : rows[n] = NoRow
  OBVIOUS
<1>4. \A a \in Alerts : RowsOf(a) = {}
  BY <1>3, NoneIsNothing DEF RowsOf, NoRow
<1>5. \A w \in Workers : InStep(w)
  BY DEF InStep, Holding
<1>6. IdsGivenOnce
  BY DEF IdsGivenOnce, Fresh
<1>7. RowsSound
  BY <1>3 DEF RowsSound, NoRow
<1>8. LocksHeldOnce /\ IndexHeldOnce
  BY DEF LocksHeldOnce, IndexHeldOnce
<1>9. OneEach
  BY <1>4 DEF OneEach
<1>10. LinearHistory
  BY <1>3 DEF LinearHistory, NoRow
<1>11. DeskSound
  BY DEF DeskSound, AlertsWhole, CopySound, Kept, Closes, Exists
<1>12. VerdictCloses
  BY <1>3 DEF VerdictCloses, NoRow, Target
<1> QED
  BY <1>2, <1>5, <1>6, <1>7, <1>8, <1>9, <1>10, <1>11, <1>12 DEF IInv

LEMMA TypeStep ==
  ASSUME TypeOK, \A w \in Workers : InStep(w), [Next]_vars
  PROVE  TypeOK'
<1> USE MarksAreMarks, ZeroIsNoId, BudgetsAreNaturals DEF TypeOK
<1>1. CASE RunPipeline
  <2>1. ASSUME NEW a \in Alerts, NEW c, RaiseNew(a, c) PROVE alert' \in [Alerts -> Documents]
    BY <2>1 DEF RaiseNew
  <2> QED
    BY <1>1, <2>1 DEF RunPipeline, Pipeline, RaiseNew, RaiseAgain, UpdateContent,
       PipelineFails, txVars, handlerVars
<1>2. ASSUME NEW w \in Workers, NEW a \in Alerts, NEW v \in Kinds, Judge(w, a, v) PROVE TypeOK'
  <2>1. requests + 1 \in Ids /\ requests + 1 \in 0..MaxRequests
    BY <1>2 DEF Judge, Request, Ids
  <2>2. alert[a].status \in Marks
    BY DEF Documents
  <2> QED
    BY <1>2, <2>1, <2>2 DEF Judge, Request, Steps, alertVars
<1>3. ASSUME NEW w \in Workers, LookUp(w) PROVE TypeOK'
  BY <1>3 DEF LookUp, To, InForce, RowsOf, Steps, alertVars
<1>4. ASSUME NEW w \in Workers, Retire(w) PROVE TypeOK'
  BY <1>4 DEF Retire, To, Steps, alertVars
<1>5. ASSUME NEW w \in Workers, Insert(w) PROVE TypeOK'
  BY <1>5 DEF Insert, To, Steps, alertVars
<1>6. ASSUME NEW w \in Workers, InsertRaises(w) \/ MoveRefused(w) PROVE TypeOK'
  BY <1>6 DEF InsertRaises, MoveRefused, ForgetTx, Finish, Steps, alertVars
<1>7. ASSUME NEW w \in Workers, LeaveStatus(w) PROVE TypeOK'
  BY <1>7 DEF LeaveStatus, To, Steps, alertVars, txVars
<1>8. ASSUME NEW w \in Workers, MoveStatus(w) PROVE TypeOK'
  <2>1. about[w] \in Alerts
    BY <1>8 DEF MoveStatus, InStep
  <2>2. Target(verdict[w]) \in Marks
    BY <1>8, Lifecycle DEF MoveStatus
  <2>3. [alert[about[w]] EXCEPT !.status = Target(verdict[w])] \in Documents
    BY <2>1, <2>2 DEF Documents
  <2> QED
    BY <1>8, <2>1, <2>3 DEF MoveStatus, ReadAlert, Steps, alertVars, txVars
<1>9. ASSUME NEW w \in Workers, Commit(w) PROVE TypeOK'
  BY <1>9 DEF Commit, ForgetTx, Finish, Steps, alertVars, VerdictRows
<1>10. ASSUME NEW w \in Workers, NEW a \in Alerts, AlertRequest(w, a) PROVE TypeOK'
  <2>0. requests < MaxRequests
    BY <1>10, Zenon DEF AlertRequest, ChangeStatus, Assign, Request
  <2>1. requests + 1 \in 0..MaxRequests
    BY <2>0
  <2>2. CASE \E to \in Statuses : ChangeStatus(w, a, to)
    <3>1. \A to \in Statuses : [alert[a] EXCEPT !.status = to] \in Documents
      BY DEF Documents
    <3> QED
      BY <1>10, <2>1, <2>2, <3>1 DEF AlertRequest, ChangeStatus, Request, ReadAlert,
         Steps, alertVars, txVars
  <2>3. CASE \E u \in Analysts : Assign(w, a, u)
    <3>1. \A u \in Analysts : [alert[a] EXCEPT !.assignee = u] \in Documents
      BY DEF Documents
    <3> QED
      BY <1>10, <2>1, <2>3, <3>1 DEF AlertRequest, Assign, Request, ReadAlert,
         Steps, alertVars, txVars
  <2> QED
    BY <1>10, <2>2, <2>3 DEF AlertRequest
<1>11. ASSUME NEW w \in Workers, WriteAlert(w) PROVE TypeOK'
  <2> DEFINE next == IF entry[w] = 0 THEN "idle" ELSE "commit"
  <2>1. next \in Steps
    BY DEF Steps
  <2>2. SaveAlert(w, next) /\ UNCHANGED <<rows, txVars>>
    BY <1>11 DEF WriteAlert
  <2>3. disturbed' \subseteq Alerts
    BY <1>11 DEF WriteAlert, SaveAlert, InStep
  <2> HIDE DEF next
  <2>4. /\ alert' \in [Alerts -> Documents]
        /\ step' \in [Workers -> Steps]
        /\ doc' \in [Workers -> Documents]
        /\ stale' \subseteq Workers
    BY <2>1, <2>2 DEF SaveAlert, Finish
  <2>5. about' \in [Workers -> Alerts \union {None}]
    BY <2>2 DEF SaveAlert, Finish
  <2> QED
    BY <2>2, <2>3, <2>4, <2>5 DEF SaveAlert, txVars
<1>12. ASSUME NEW w \in Workers, HandlerFails(w) PROVE TypeOK'
  BY <1>12 DEF HandlerFails, CutShort, ForgetTx, Finish, Steps, alertVars
<1>13. CASE UNCHANGED vars
  BY <1>13 DEF vars, deskVars, alertVars, handlerVars, txVars
<1> QED
  BY <1>1, <1>2, <1>3, <1>4, <1>5, <1>6, <1>7, <1>8, <1>9, <1>10, <1>11, <1>12, <1>13
     DEF Next, Worker, Record

(* A handler's step moves no other handler. *)
Unmoved(v) ==
  /\ step'[v] = step[v] /\ about'[v] = about[v] /\ doc'[v] = doc[v]
  /\ entry'[v] = entry[v] /\ verdict'[v] = verdict[v]
  /\ seen'[v] = seen[v] /\ previous'[v] = previous[v]
  /\ v \in retired' <=> v \in retired
  /\ v \in inserted' <=> v \in inserted

LEMMA OneMoves ==
  ASSUME TypeOK, NEW w \in Workers, Worker(w), NEW v \in Workers \ {w}
  PROVE  Unmoved(v)
<1> USE DEF TypeOK, Unmoved
<1>1. ASSUME NEW a \in Alerts, NEW k \in Kinds, Judge(w, a, k) PROVE Unmoved(v)
  BY <1>1 DEF Judge
<1>2. CASE LookUp(w) \/ Retire(w) \/ Insert(w) \/ LeaveStatus(w)
  BY <1>2 DEF LookUp, Retire, Insert, LeaveStatus, To, txVars
<1>3. CASE InsertRaises(w) \/ MoveRefused(w) \/ Commit(w) \/ HandlerFails(w)
  BY <1>3 DEF InsertRaises, MoveRefused, Commit, HandlerFails, CutShort, ForgetTx, Finish
<1>4. CASE MoveStatus(w)
  BY <1>4 DEF MoveStatus, ReadAlert, txVars
<1>5. ASSUME NEW a \in Alerts, AlertRequest(w, a) PROVE Unmoved(v)
  BY <1>5 DEF AlertRequest, ChangeStatus, Assign, ReadAlert, Request, txVars
<1>6. CASE WriteAlert(w)
  BY <1>6 DEF WriteAlert, SaveAlert, Finish, txVars
<1> QED
  BY <1>1, <1>2, <1>3, <1>4, <1>5, <1>6 DEF Worker, Record

(* Alerts are never deleted, verdicts neither. *)
AlertsStay == \A a \in Alerts : Exists(a) => Exists(a)'
RowsStay == \A n \in Ids : rows[n] # NoRow => rows'[n].alert = rows[n].alert

LEMMA AlertsStayStep ==
  ASSUME IInv, [Next]_vars
  PROVE  AlertsStay
<1> USE DEF IInv, TypeOK, AlertsStay, Exists
<1>1. CASE RunPipeline
  <2>1. NoAlert # Raised
    BY DEF NoAlert, Raised
  <2> QED
    BY <1>1, <2>1 DEF RunPipeline, Pipeline, RaiseNew, RaiseAgain, UpdateContent, PipelineFails
<1>2. ASSUME NEW w \in Workers, WriteAlert(w) PROVE AlertsStay
  <2>1. alert' = [alert EXCEPT ![about[w]] = doc[w]] /\ step[w] = "saveAlert"
    BY <1>2 DEF WriteAlert, SaveAlert
  <2>2. doc[w] # NoAlert
    BY <2>1 DEF DeskSound, CopySound, NoAlert, Statuses
  <2> QED
    BY <2>1, <2>2
<1>3. ASSUME NEW w \in Workers, Worker(w), ~WriteAlert(w) PROVE alert' = alert
  BY <1>3 DEF Worker, Record, Judge, LookUp, Retire, Insert, InsertRaises, LeaveStatus,
     MoveStatus, MoveRefused, Commit, AlertRequest, ChangeStatus, Assign, ReadAlert,
     HandlerFails, CutShort, To, alertVars
<1>4. CASE UNCHANGED vars
  BY <1>4 DEF vars, deskVars, alertVars
<1> QED
  BY <1>1, <1>2, <1>3, <1>4 DEF Next

LEMMA OnlyCommitsWrite ==
  ASSUME [Next]_vars, \A w \in Workers : ~Commit(w)
  PROVE  rows' = rows
BY DEF Next, RunPipeline, Worker, Record, Judge, LookUp, Retire, Insert, InsertRaises,
   LeaveStatus, MoveStatus, MoveRefused, AlertRequest, WriteAlert, HandlerFails, To,
   txVars, vars

LEMMA RowsStayStep ==
  ASSUME IInv, [Next]_vars
  PROVE  RowsStay
<1>1. ASSUME NEW w \in Workers, Commit(w) PROVE RowsStay
  <2>1. entry[w] # 0 /\ rows[entry[w]] = NoRow
    BY <1>1 DEF Commit, IInv, InStep, IdsGivenOnce, Fresh
  <2> QED
    BY <1>1, <2>1 DEF Commit, RowsStay, IInv, TypeOK, VerdictRows
<1> QED
  BY <1>1, OnlyCommitsWrite DEF RowsStay

(* Each handler stays in step with its transaction. *)
LEMMA InStepStep ==
  ASSUME IInv, [Next]_vars, NEW v \in Workers
  PROVE  InStep(v)'
<1> USE DEF IInv, TypeOK
<1>1. AlertsStay /\ RowsStay
  BY AlertsStayStep, RowsStayStep
<1>2. InStep(v) /\ (previous[v] # 0 => rows[previous[v]] # NoRow)
  BY NoneIsNothing DEF InStep, NoRow
<1>3. ASSUME Unmoved(v) PROVE InStep(v)'
  BY <1>1, <1>2, <1>3, ZeroIsNoId DEF InStep, Unmoved, AlertsStay, RowsStay
<1>4. CASE Worker(v)
  <2>1. ASSUME NEW a \in Alerts, NEW k \in Kinds, Judge(v, a, k) PROVE InStep(v)'
    <3>1. requests \in Nat
      BY BudgetsAreNaturals
    <3>2. entry'[v] # 0 /\ step'[v] = "lookUp" /\ about'[v] = a /\ Exists(a)
      BY <2>1, <3>1 DEF Judge, Request
    <3>3. v \notin inserted /\ v \notin retired /\ previous[v] = 0
      BY <1>2, <2>1 DEF InStep, Judge, Request
    <3> QED
      BY <1>1, <2>1, <3>2, <3>3 DEF InStep, AlertsStay, Judge, Holding
  <2>2. CASE LookUp(v)
    BY <1>1, <1>2, <2>2, ZeroIsNoId DEF InStep, LookUp, To, InForce, RowsOf, AlertsStay,
       Holding
  <2>3. CASE Retire(v)
    BY <1>1, <1>2, <2>3 DEF InStep, Retire, To, AlertsStay, Holding
  <2>4. CASE Insert(v)
    BY <1>1, <1>2, <2>4 DEF InStep, Insert, To, AlertsStay, Holding
  <2>5. CASE LeaveStatus(v)
    BY <1>1, <1>2, <2>5 DEF InStep, LeaveStatus, To, AlertsStay, Holding, txVars
  <2>6. CASE MoveStatus(v)
    BY <1>1, <1>2, <2>6 DEF InStep, MoveStatus, ReadAlert, AlertsStay, Holding, txVars
  <2>7. CASE InsertRaises(v) \/ MoveRefused(v) \/ Commit(v) \/ HandlerFails(v)
    BY <2>7 DEF InStep, InsertRaises, MoveRefused, Commit, HandlerFails, CutShort,
       ForgetTx, Finish
  <2>8. ASSUME NEW a \in Alerts, AlertRequest(v, a) PROVE InStep(v)'
    <3>1. /\ Exists(a) /\ step[v] = "idle" /\ about' = [about EXCEPT ![v] = a]
          /\ step' = [step EXCEPT ![v] = "saveAlert"]
          /\ UNCHANGED <<rows, txVars>>
      BY <2>8 DEF AlertRequest, ChangeStatus, Assign, Request, ReadAlert
    <3> QED
      BY <1>1, <1>2, <3>1 DEF InStep, AlertsStay, Holding, txVars
  <2>9. CASE WriteAlert(v)
    <3>1. CASE entry[v] = 0
      BY <1>1, <1>2, <2>9, <3>1 DEF InStep, WriteAlert, SaveAlert, Finish, AlertsStay,
         Holding, txVars
    <3>2. CASE entry[v] # 0
      BY <1>1, <1>2, <2>9, <3>2 DEF InStep, WriteAlert, SaveAlert, Finish, AlertsStay,
         Holding, txVars
    <3> QED
      BY <3>1, <3>2
  <2> QED
    BY <1>4, <2>1, <2>2, <2>3, <2>4, <2>5, <2>6, <2>7, <2>8, <2>9 DEF Worker, Record
<1>5. ASSUME NEW w \in Workers \ {v}, Worker(w) PROVE Unmoved(v)
  BY <1>5, OneMoves
<1>6. CASE RunPipeline \/ UNCHANGED vars
  <2>1. Unmoved(v)
    BY <1>6 DEF RunPipeline, Pipeline, RaiseNew, RaiseAgain, UpdateContent, PipelineFails,
       handlerVars, txVars, vars, deskVars, Unmoved
  <2> QED
    BY <1>3, <2>1
<1> QED
  BY <1>3, <1>4, <1>5, <1>6 DEF Next

LEMMA IdsAreCounts ==
  TypeOK =>
    /\ MaxRequests \in Nat /\ requests \in Nat
    /\ \A w \in Workers : entry[w] \in Nat
<1> SUFFICES ASSUME TypeOK
             PROVE  /\ MaxRequests \in Nat /\ requests \in Nat
                    /\ \A w \in Workers : entry[w] \in Nat
  OBVIOUS
<1>1. requests \in 0..MaxRequests /\ entry \in [Workers -> Ids \union {0}]
  BY DEF TypeOK
<1>2. MaxRequests \in Nat
  BY BudgetsAreNaturals
<1>3. requests \in Nat
  BY <1>1, <1>2
<1>4. \A w \in Workers : entry[w] \in Nat
  <2>1. \A n \in Ids \union {0} : n \in Nat
    BY <1>2 DEF Ids
  <2> QED
    BY <1>1, <2>1
<1> QED
  BY <1>2, <1>3, <1>4

(* A new id is a fresh one. *)
LEMMA IdsStep ==
  ASSUME IInv, [Next]_vars
  PROVE  IdsGivenOnce'
<1> USE DEF IInv, TypeOK
<1>0. /\ MaxRequests \in Nat /\ requests \in Nat
      /\ \A w \in Workers : entry[w] \in Nat
  BY IdsAreCounts
<1>1. ASSUME NEW w \in Workers, NEW a \in Alerts, NEW k \in Kinds, Judge(w, a, k)
      PROVE  IdsGivenOnce'
  <2>1. /\ requests' = requests + 1 /\ entry' = [entry EXCEPT ![w] = requests + 1]
        /\ rows' = rows
    BY <1>1 DEF Judge, Request
  <2>2. requests + 1 \in Ids
    <3>1. requests < MaxRequests
      BY <1>1 DEF Judge, Request
    <3> QED
      BY <1>0, <3>1 DEF Ids
  <2>3. \A v \in Workers : entry[v] <= requests
    BY <1>0 DEF IdsGivenOnce, Fresh
  <2> QED
    BY <1>0, <2>1, <2>2, <2>3, ZeroIsNoId DEF IdsGivenOnce, Fresh
<1>2. ASSUME NEW w \in Workers, Commit(w) PROVE IdsGivenOnce'
  <2>1. /\ requests' = requests /\ entry' = [entry EXCEPT ![w] = 0]
        /\ \A n \in Ids : rows'[n] # rows[n] =>
             n = entry[w] \/ (w \in retired /\ n = previous[w])
    BY <1>2 DEF Commit, ForgetTx
  <2>2. entry[w] # 0 /\ entry[w] <= requests
    BY <1>2 DEF Commit, InStep, IdsGivenOnce, Fresh
  <2>3. w \in retired => rows[previous[w]] # NoRow
    BY <1>2, NoneIsNothing DEF Commit, InStep, NoRow
  <2>4. \A n \in Ids : rows[n] = NoRow /\ n # entry[w] => rows'[n] = NoRow
    BY <2>1, <2>3
  <2>5. \A v \in Workers : entry'[v] # 0 => v # w /\ entry'[v] = entry[v] /\ entry[v] # entry[w]
    BY <2>1, <2>2 DEF IdsGivenOnce
  <2> QED
    BY <1>0, <2>1, <2>2, <2>4, <2>5 DEF IdsGivenOnce, Fresh
<1>3. ASSUME rows' = rows, requests' \in Nat, requests' >= requests,
             \A v \in Workers : entry'[v] \in {0, entry[v]}
      PROVE  IdsGivenOnce'
  BY <1>0, <1>3, ZeroIsNoId DEF IdsGivenOnce, Fresh
<1>4. ASSUME NEW w \in Workers, Worker(w), ~Commit(w),
             ~\E a \in Alerts, k \in Kinds : Judge(w, a, k)
      PROVE  /\ rows' = rows /\ requests' \in {requests, requests + 1}
             /\ \A v \in Workers : entry'[v] \in {0, entry[v]}
  <2>1. rows' = rows
    BY <1>4 DEF Worker, Record, LookUp, Retire, Insert, InsertRaises,
       LeaveStatus, MoveStatus, MoveRefused, AlertRequest, WriteAlert, HandlerFails
  <2>2. CASE LookUp(w) \/ Retire(w) \/ Insert(w) \/ LeaveStatus(w)
    BY <2>1, <2>2 DEF LookUp, Retire, Insert, LeaveStatus, To, txVars
  <2>3. CASE InsertRaises(w) \/ MoveRefused(w) \/ HandlerFails(w)
    BY <2>1, <2>3 DEF InsertRaises, MoveRefused, HandlerFails, CutShort, ForgetTx
  <2>4. CASE MoveStatus(w) \/ WriteAlert(w)
    BY <2>1, <2>4 DEF MoveStatus, WriteAlert, SaveAlert, txVars
  <2>5. ASSUME NEW a \in Alerts, AlertRequest(w, a)
        PROVE  requests' = requests + 1 /\ UNCHANGED txVars
    BY <2>5 DEF AlertRequest, ChangeStatus, Assign, Request
  <2> QED
    BY <1>4, <2>1, <2>2, <2>3, <2>4, <2>5 DEF Worker, Record, txVars
<1>5. CASE RunPipeline \/ UNCHANGED vars
  <2>1. UNCHANGED <<rows, requests, entry>>
    BY <1>5 DEF RunPipeline, Pipeline, RaiseNew, RaiseAgain, UpdateContent, PipelineFails,
       txVars, vars, deskVars
  <2> QED
    BY <1>0, <1>3, <2>1
<1> QED
  BY <1>0, <1>1, <1>2, <1>3, <1>4, <1>5 DEF Next

LEMMA RowsSoundStep ==
  ASSUME IInv, [Next]_vars
  PROVE  RowsSound'
<1> USE DEF IInv, TypeOK
<1>1. AlertsStay
  BY AlertsStayStep
<1>2. ASSUME NEW w \in Workers, Commit(w) PROVE RowsSound'
  <2>1. about[w] \in Alerts /\ alert'[about[w]] # NoAlert
    BY <1>1, <1>2 DEF Commit, InStep, AlertsStay, Exists
  <2>2. w \in retired => rows[previous[w]].alert = about[w]
    BY <1>2 DEF Commit, InStep
  <2>3. ASSUME NEW n \in Ids
        PROVE  \/ rows'[n] = rows[n]
               \/ rows'[n].alert = about[w]
    BY <1>2, <2>2 DEF Commit, VerdictRows
  <2>4. \A n \in Ids : rows[n].alert \in Alerts \union {None}
    BY DEF VerdictRows
  <2> QED
    BY <1>1, <2>1, <2>3, <2>4, NoneIsNothing DEF RowsSound, AlertsStay, Exists
<1>3. ASSUME rows' = rows PROVE RowsSound'
  <2>1. \A n \in Ids : rows[n].alert \in Alerts \union {None}
    BY DEF VerdictRows
  <2> QED
    BY <1>1, <1>3, <2>1 DEF RowsSound, AlertsStay
<1> QED
  BY <1>2, <1>3, OnlyCommitsWrite

-----------------------------------------------------------------------------
(* The locks.                                                              *)

(* Besides Retire no step gives a transaction a row lock. *)
LEMMA LocksStep ==
  ASSUME IInv, [Next]_vars
  PROVE  LocksHeldOnce'
<1> USE DEF IInv, TypeOK
<1>1. ASSUME NEW w \in Workers, Worker(w), NEW v \in retired', v # w
      PROVE  v \in retired /\ previous'[v] = previous[v]
  BY <1>1, OneMoves, TypeStep DEF Unmoved
<1>2. ASSUME NEW w \in Workers, Retire(w)
      PROVE  /\ \A v \in retired : v # w => previous[v] # previous[w]
             /\ previous' = previous
  BY <1>2 DEF Retire, RetireWaits, MeetsRow
<1>3. ASSUME NEW w \in Workers, Worker(w), ~Retire(w), w \in retired'
      PROVE  w \in retired /\ previous'[w] = previous[w]
  <2>1. CASE \E a \in Alerts, k \in Kinds : Judge(w, a, k)
    BY <1>3, <2>1 DEF Judge
  <2>2. CASE LookUp(w)
    BY <1>3, <2>2 DEF LookUp, To, InStep, Holding
  <2>3. CASE Insert(w) \/ LeaveStatus(w) \/ MoveStatus(w) \/ WriteAlert(w)
    BY <1>3, <2>3 DEF Insert, LeaveStatus, MoveStatus, WriteAlert, txVars
  <2>4. CASE InsertRaises(w) \/ MoveRefused(w) \/ Commit(w) \/ HandlerFails(w)
    BY <1>3, <2>4 DEF InsertRaises, MoveRefused, Commit, HandlerFails, ForgetTx
  <2>5. CASE \E a \in Alerts : AlertRequest(w, a)
    BY <1>3, <2>5 DEF AlertRequest, txVars
  <2> QED
    BY <1>3, <2>1, <2>2, <2>3, <2>4, <2>5 DEF Worker, Record
<1>4. ASSUME NEW w \in Workers, Worker(w) PROVE LocksHeldOnce'
  <2>1. CASE Retire(w)
    BY <1>1, <1>2, <1>4, <2>1 DEF LocksHeldOnce
  <2>2. CASE ~Retire(w)
    BY <1>1, <1>3, <1>4, <2>2 DEF LocksHeldOnce
  <2> QED
    BY <2>1, <2>2
<1>5. CASE RunPipeline \/ UNCHANGED vars
  BY <1>5 DEF RunPipeline, txVars, vars, LocksHeldOnce
<1> QED
  BY <1>4, <1>5 DEF Next

(* A commit writes the new row and supersedes the row it holds. *)
LEMMA CommitWrites ==
  ASSUME IInv, NEW w \in Workers, Commit(w)
  PROVE  /\ entry[w] \in Ids /\ rows[entry[w]] = NoRow /\ about[w] \in Alerts
         /\ w \in retired => previous[w] \in Ids /\ rows[previous[w]].alert = about[w]
         /\ \A n \in Ids : rows'[n] =
              IF n = entry[w]
              THEN [alert |-> about[w], verdict |-> verdict[w], by |-> 0, saw |-> seen[w]]
              ELSE IF w \in retired /\ n = previous[w]
                   THEN [rows[n] EXCEPT !.by = entry[w]] ELSE rows[n]
<1> USE DEF IInv, TypeOK
<1>1. /\ entry[w] \in Ids /\ rows[entry[w]] = NoRow /\ about[w] \in Alerts
      /\ w \in retired => previous[w] \in Ids /\ rows[previous[w]].alert = about[w]
  BY DEF Commit, InStep, IdsGivenOnce, Fresh
<1>2. \A n \in Ids : rows'[n] =
        CASE n = entry[w] ->
               [alert |-> about[w], verdict |-> verdict[w], by |-> 0, saw |-> seen[w]]
          [] w \in retired /\ n = previous[w] -> [rows[n] EXCEPT !.by = entry[w]]
          [] OTHER -> rows[n]
  BY DEF Commit
<1>3. w \in retired => previous[w] # entry[w]
  BY <1>1, NoneIsNothing DEF NoRow
<1> HIDE DEF IInv, TypeOK
<1> QED
  BY <1>1, <1>2, <1>3

(* What a commit does to the verdicts in force. *)
LEMMA CommitReplaces ==
  ASSUME IInv, NEW w \in Workers, Commit(w)
  PROVE  \A a \in Alerts :
           IF a = about[w] THEN InForce(a)' = {entry[w]}
                           ELSE InForce(a)' = InForce(a) /\ RowsOf(a)' = RowsOf(a)
<1> USE DEF IInv, TypeOK
<1>1. /\ entry[w] \in Ids /\ rows[entry[w]] = NoRow /\ about[w] \in Alerts
      /\ w \in inserted /\ (w \in retired => rows[previous[w]].alert = about[w])
      /\ previous[w] # entry[w]
  BY NoneIsNothing DEF Commit, InStep, Holding, IdsGivenOnce, Fresh, NoRow
<1>2. InForce(about[w]) \subseteq Own(w)
  BY <1>1 DEF IndexHeldOnce, Conflicts
<1>3. /\ rows'[entry[w]].alert = about[w] /\ rows'[entry[w]].by = 0
      /\ \A n \in Ids \ {entry[w]} : rows'[n].alert = rows[n].alert
      /\ \A n \in Ids \ {entry[w]} :
           IF w \in retired /\ n = previous[w] THEN rows'[n].by = entry[w]
                                               ELSE rows'[n].by = rows[n].by
  BY <1>1 DEF Commit, VerdictRows
<1>4. rows[entry[w]].alert = None
  BY <1>1 DEF NoRow
<1>5. ASSUME NEW a \in Alerts, a = about[w] PROVE InForce(a)' = {entry[w]}
  <2>1. \A n \in Ids \ {entry[w]} :
          rows[n].alert = about[w] /\ rows[n].by = 0 => w \in retired /\ n = previous[w]
    BY <1>2 DEF InForce, RowsOf, Own
  <2> QED
    BY <1>1, <1>3, <1>5, <2>1, ZeroIsNoId DEF InForce, RowsOf
<1>6. ASSUME NEW a \in Alerts, a # about[w]
      PROVE  InForce(a)' = InForce(a) /\ RowsOf(a)' = RowsOf(a)
  <2>1. \A n \in Ids : rows'[n].alert = a <=> rows[n].alert = a
    BY <1>3, <1>4, <1>6, NoneIsNothing
  <2>2. \A n \in Ids : rows[n].alert = a => rows'[n].by = rows[n].by
    BY <1>1, <1>3, <1>4, <1>6, NoneIsNothing
  <2> QED
    BY <2>1, <2>2 DEF InForce, RowsOf
<1> QED
  BY <1>5, <1>6

LEMMA OneEachStep ==
  ASSUME IInv, [Next]_vars
  PROVE  OneEach'
<1>1. ASSUME NEW w \in Workers, Commit(w) PROVE OneEach'
  <2>1. entry[w] \in Ids
    BY <1>1 DEF Commit, IInv, TypeOK, InStep
  <2> QED
    BY <1>1, <2>1, CommitReplaces DEF IInv, OneEach
<1>2. ASSUME rows' = rows PROVE OneEach'
  BY <1>2 DEF IInv, OneEach, InForce, RowsOf
<1> QED
  BY <1>1, <1>2, OnlyCommitsWrite

(* Insert takes the index entry; while a transaction holds it, no other    *)
(* commits a row for the alert.                                            *)
LEMMA IndexStep ==
  ASSUME IInv, [Next]_vars
  PROVE  IndexHeldOnce'
<1> USE DEF IInv, TypeOK
<1>1. ASSUME NEW w \in Workers, Worker(w), NEW v \in inserted', v # w
      PROVE  /\ v \in inserted /\ about'[v] = about[v] /\ about[v] \in Alerts
             /\ Own(v)' = Own(v)
  <2>1. v \in Workers /\ Unmoved(v)
    BY <1>1, OneMoves, TypeStep
  <2>2. v \in inserted /\ InStep(v)
    BY <1>1, <2>1 DEF Unmoved
  <2> QED
    BY <2>1, <2>2 DEF Unmoved, InStep, Holding, Own
<1>2. ASSUME NEW w \in Workers, Worker(w), ~Insert(w), w \in inserted'
      PROVE  /\ w \in inserted /\ about'[w] = about[w] /\ Own(w)' = Own(w) /\ ~Commit(w)
  <2>1. CASE \E a \in Alerts, k \in Kinds : Judge(w, a, k)
    BY <1>2, <2>1 DEF Judge, Request, InStep, Holding
  <2>2. CASE LookUp(w) \/ Retire(w)
    BY <1>2, <2>2 DEF LookUp, Retire, To, InStep, Holding
  <2>3. CASE LeaveStatus(w) \/ MoveStatus(w)
    BY <1>2, <2>3 DEF LeaveStatus, MoveStatus, To, ReadAlert, txVars, Own, Commit
  <2>4. CASE WriteAlert(w)
    <3>1. entry[w] # 0
      BY <1>2, <2>4 DEF WriteAlert, InStep, txVars
    <3> QED
      BY <1>2, <2>4, <3>1 DEF WriteAlert, SaveAlert, Finish, txVars, Own, Commit
  <2>5. CASE InsertRaises(w) \/ MoveRefused(w) \/ Commit(w) \/ HandlerFails(w)
    BY <1>2, <2>5 DEF InsertRaises, MoveRefused, Commit, HandlerFails, ForgetTx
  <2>6. CASE \E a \in Alerts : AlertRequest(w, a)
    BY <1>2, <2>6 DEF AlertRequest, ChangeStatus, Assign, Request, txVars, InStep, Holding
  <2> QED
    BY <1>2, <2>1, <2>2, <2>3, <2>4, <2>5, <2>6 DEF Worker, Record
<1>3. ASSUME NEW w \in Workers, Commit(w) PROVE IndexHeldOnce'
  <2>1. w \in inserted /\ w \notin inserted' /\ Worker(w)
    BY <1>3 DEF Commit, ForgetTx, InStep, Holding, Worker, Record
  <2>2. \A v \in inserted' : v \in inserted /\ v # w /\ about[v] # about[w]
    BY <1>1, <2>1 DEF IndexHeldOnce
  <2>3. \A v \in inserted' : InForce(about[v])' = InForce(about[v])
    BY <1>1, <1>3, <2>1, <2>2, CommitReplaces
  <2>4. \A v \in inserted' : Conflicts(v)' = Conflicts(v)
    BY <1>1, <2>1, <2>2, <2>3 DEF Conflicts, InForce, RowsOf
  <2> QED
    BY <1>1, <2>1, <2>2, <2>4 DEF IndexHeldOnce
<1>4. ASSUME rows' = rows, NEW v, about'[v] = about[v], Own(v)' = Own(v)
      PROVE  Conflicts(v)' = Conflicts(v)
  BY <1>4 DEF Conflicts, InForce, RowsOf
<1>5. ASSUME NEW w \in Workers, Insert(w) PROVE IndexHeldOnce'
  <2>1. /\ rows' = rows /\ about' = about /\ inserted' = inserted \union {w}
        /\ \A v : Own(v)' = Own(v)
    BY <1>5 DEF Insert, To, Own
  <2>2. /\ Conflicts(w) = {}
        /\ \A v \in inserted : v # w => about[v] # about[w]
    BY <1>5 DEF Insert, InsertWaits, MeetsIndex
  <2>3. \A v : Conflicts(v)' = Conflicts(v)
    BY <1>4, <2>1
  <2> QED
    BY <2>1, <2>2, <2>3 DEF IndexHeldOnce
<1>6. ASSUME NEW w \in Workers, Worker(w), ~Insert(w), ~Commit(w) PROVE IndexHeldOnce'
  <2>1. rows' = rows
    BY <1>6 DEF Worker, Record, Judge, LookUp, Retire, InsertRaises,
       LeaveStatus, MoveStatus, MoveRefused, AlertRequest, WriteAlert, HandlerFails
  <2>2. \A v \in inserted' : v \in inserted /\ about'[v] = about[v] /\ Own(v)' = Own(v)
    BY <1>1, <1>2, <1>6
  <2>3. \A v \in inserted' : Conflicts(v)' = Conflicts(v)
    BY <1>4, <2>1, <2>2
  <2> QED
    BY <2>2, <2>3 DEF IndexHeldOnce
<1>7. CASE RunPipeline \/ UNCHANGED vars
  <2>1. UNCHANGED <<rows, about, previous, retired, inserted>>
    BY <1>7 DEF RunPipeline, Pipeline, RaiseNew, RaiseAgain, UpdateContent, PipelineFails,
       handlerVars, txVars, vars, deskVars
  <2>2. \A v : Conflicts(v)' = Conflicts(v)
    BY <1>4, <2>1 DEF Own
  <2> QED
    BY <2>1, <2>2 DEF IndexHeldOnce
<1> QED
  BY <1>3, <1>5, <1>6, <1>7 DEF Next

-----------------------------------------------------------------------------
(* The line of earlier verdicts.                                           *)

(* A row is superseded by one on record. *)
LEMMA SupersededByRow ==
  ASSUME IInv, NEW m \in Ids, rows[m].by # 0
  PROVE  rows[m].by \in Ids /\ rows[rows[m].by] # NoRow
<1>1. rows[m] \in VerdictRows
  BY DEF IInv, TypeOK
<1>2. rows[m].alert # None
  BY DEF IInv, RowsSound, NoRow
<1> QED
  BY <1>1, <1>2 DEF IInv, LinearHistory, NoRow, VerdictRows

LEMMA LinearStep ==
  ASSUME IInv, [Next]_vars
  PROVE  LinearHistory'
<1>1. ASSUME NEW w \in Workers, Commit(w) PROVE LinearHistory'
  <2> DEFINE new == entry[w]
             old == previous[w]
  <2>1. /\ new \in Ids /\ rows[new] = NoRow /\ about[w] \in Alerts
        /\ w \in retired => old \in Ids /\ rows[old].alert = about[w]
    BY <1>1, CommitWrites
  <2>2. \A n \in Ids : rows'[n] =
          IF n = new
          THEN [alert |-> about[w], verdict |-> verdict[w], by |-> 0, saw |-> seen[w]]
          ELSE IF w \in retired /\ n = old
               THEN [rows[n] EXCEPT !.by = new] ELSE rows[n]
    BY <1>1, CommitWrites
  <2>3. /\ new \in Ids /\ rows[new] = NoRow
        /\ w \in retired => old \in Ids /\ rows[old].alert = about[w] /\ old # new
        /\ rows'[new].alert = about[w] /\ rows'[new].by = 0
    <3>1. rows[new].alert = None /\ None # about[w]
      BY <2>1, NoneIsNothing DEF NoRow
    <3>2. rows'[new] =
            [alert |-> about[w], verdict |-> verdict[w], by |-> 0, saw |-> seen[w]]
      BY <2>1, <2>2, Zenon
    <3>3. rows'[new].alert = about[w] /\ rows'[new].by = 0
      BY <3>2
    <3> QED
      BY <2>1, <3>1, <3>3
  <2>4. \A n \in Ids \ {new} :
          /\ rows'[n].alert = rows[n].alert
          /\ rows'[n].by = IF w \in retired /\ n = old THEN new ELSE rows[n].by
    <3>1. \A n \in Ids : rows[n] \in VerdictRows
      BY DEF IInv, TypeOK
    <3> QED
      BY <2>2, <3>1 DEF VerdictRows
  <2>5. \A m \in Ids : rows[m].by # 0 => rows[m].by \in Ids /\ rows[m].by # new
    BY <2>3, SupersededByRow
  <2>6. new # 0
    BY <2>3, ZeroIsNoId
  <2> HIDE DEF new, old
  <2> SUFFICES ASSUME NEW n \in Ids, rows'[n].by # 0
               PROVE  /\ rows'[n].by # n
                      /\ rows'[rows'[n].by].alert = rows'[n].alert
                      /\ \A m \in Ids \ {n} : rows'[m].by # rows'[n].by
    BY DEF LinearHistory
  <2>7. n # new
    BY <2>3
  <2>8. CASE w \in retired /\ n = old
    <3>1. rows'[n].by = new /\ rows'[new].alert = rows'[n].alert
      BY <2>3, <2>4, <2>7, <2>8
    <3>2. \A m \in Ids \ {n} : rows'[m].by # new
      BY <2>3, <2>4, <2>5, <2>6, <2>8
    <3> QED
      BY <2>7, <3>1, <3>2
  <2>9. CASE ~(w \in retired /\ n = old)
    <3>1. rows'[n].by = rows[n].by /\ rows[n].by \in Ids /\ rows[n].by # new
      BY <2>4, <2>5, <2>7, <2>9
    <3>2. /\ rows[n].by # n /\ rows[rows[n].by].alert = rows[n].alert
          /\ \A m \in Ids \ {n} : rows[m].by # rows[n].by
      BY <3>1, <2>7, <2>9, <2>4 DEF IInv, LinearHistory
    <3>3. \A m \in Ids \ {n} : rows'[m].by # rows[n].by
      BY <2>3, <2>4, <3>1, <3>2
    <3> QED
      BY <2>4, <2>7, <3>1, <3>2, <3>3
  <2> QED
    BY <2>8, <2>9
<1>2. ASSUME rows' = rows PROVE LinearHistory'
  BY <1>2 DEF IInv, LinearHistory
<1> QED
  BY <1>1, <1>2, OnlyCommitsWrite

-----------------------------------------------------------------------------
(* The alerts.                                                             *)

LEMMA OnlyWritesChange ==
  ASSUME IInv, NEW w \in Workers, Worker(w), ~WriteAlert(w)
  PROVE  alert' = alert /\ stale' \subseteq stale /\ disturbed' = disturbed
BY DEF Worker, Record, Judge, LookUp, Retire, Insert, InsertRaises, LeaveStatus,
   MoveStatus, MoveRefused, Commit, AlertRequest, ChangeStatus, Assign, ReadAlert,
   HandlerFails, CutShort, To, alertVars

(* The pipeline changes no alert there is. *)
LEMMA PipelineRaises ==
  ASSUME IInv, RunPipeline \/ UNCHANGED vars
  PROVE  /\ \A a \in Alerts : Exists(a) => alert'[a] = alert[a]
         /\ \A a \in Alerts : alert'[a] \in {alert[a], Raised}
         /\ UNCHANGED <<step, about, doc, stale, requests, rows, txVars, disturbed>>
BY DEF RunPipeline, Pipeline, RaiseNew, RaiseAgain, UpdateContent, PipelineFails,
   handlerVars, vars, deskVars, alertVars, IInv, TypeOK

LEMMA WriteWrites ==
  ASSUME IInv, NEW w \in Workers, WriteAlert(w)
  PROVE  /\ about[w] \in Alerts /\ doc[w].status \in Statuses
         /\ alert' = [alert EXCEPT ![about[w]] = doc[w]]
         /\ stale' = (stale \ {w}) \union
              {v \in Workers \ {w} : step[v] = "saveAlert" /\ about[v] = about[w]}
         /\ disturbed \subseteq disturbed'
         /\ w \in stale => about[w] \in disturbed'
         /\ w \notin stale => LegalMove(alert[about[w]].status, doc[w].status)
         /\ step[w] = "saveAlert" /\ UNCHANGED <<rows, txVars>>
         /\ step' = [step EXCEPT ![w] = IF entry[w] = 0 THEN "idle" ELSE "commit"]
         /\ entry[w] # 0 => about' = about
BY DEF WriteAlert, SaveAlert, Finish, IInv, InStep, DeskSound, CopySound

(* A closed alert stays closed unless a stale copy is written over it. *)
LEMMA ClosedStays ==
  ASSUME IInv, [Next]_vars, NEW a \in Alerts, a \notin disturbed',
         alert[a].status \in Closed
  PROVE  alert'[a].status \in Closed /\ a \notin disturbed
<1>1. Exists(a)
  BY DEF Exists, NoAlert, Closed
<1>2. ASSUME NEW w \in Workers, WriteAlert(w)
      PROVE  alert'[a].status \in Closed /\ a \notin disturbed
  <2>1. CASE about[w] = a
    <3>1. doc[w].status = alert[a].status
      BY <1>2, <2>1, WriteWrites, Lifecycle DEF LegalMove
    <3> QED
      BY <1>2, <2>1, <3>1, WriteWrites DEF IInv, TypeOK
  <2>2. CASE about[w] # a
    BY <1>2, <2>2, WriteWrites DEF IInv, TypeOK
  <2> QED
    BY <2>1, <2>2
<1> QED
  BY <1>1, <1>2, OnlyWritesChange, PipelineRaises DEF Next

LEMMA AlertsWholeStep ==
  ASSUME IInv, [Next]_vars
  PROVE  AlertsWhole'
<1>1. ASSUME NEW w \in Workers, WriteAlert(w) PROVE AlertsWhole'
  BY <1>1, WriteWrites DEF IInv, TypeOK, DeskSound, AlertsWhole, Exists
<1>2. CASE RunPipeline \/ UNCHANGED vars
  <2>1. Raised.status \in Statuses
    BY DEF Raised, NoAlert, Statuses
  <2> QED
    BY <1>2, <2>1, PipelineRaises DEF IInv, DeskSound, AlertsWhole, Exists
<1> QED
  BY <1>1, <1>2, OnlyWritesChange DEF Next, IInv, DeskSound, AlertsWhole, Exists

LEMMA CopySoundStep ==
  ASSUME IInv, [Next]_vars, NEW v \in Workers
  PROVE  CopySound(v)'
<1> USE DEF IInv, TypeOK
<1>1. CopySound(v) /\ (step[v] # "idle" => about[v] \in Alerts /\ Exists(about[v]))
  BY DEF DeskSound, InStep
<1>2. ASSUME Unmoved(v), v \in stale => v \in stale',
             step[v] = "saveAlert" => v \in stale' \/ alert'[about[v]] = alert[about[v]]
      PROVE  CopySound(v)'
  BY <1>1, <1>2 DEF CopySound, Unmoved
<1>3. ASSUME NEW w \in Workers \ {v}, Worker(w) PROVE CopySound(v)'
  <2>1. Unmoved(v)
    BY <1>3, OneMoves
  <2>2. CASE WriteAlert(w)
    <3>1. v \in stale => v \in stale'
      BY <2>2, WriteWrites
    <3>2. step[v] = "saveAlert" => v \in stale' \/ about[v] # about[w]
      BY <2>2, WriteWrites
    <3>3. about[v] # about[w] => alert'[about[v]] = alert[about[v]] \/ step[v] = "idle"
      BY <1>1, <2>2, WriteWrites
    <3> QED
      BY <1>2, <2>1, <3>1, <3>2, <3>3
  <2>3. CASE ~WriteAlert(w)
    <3>1. alert' = alert
      BY <1>3, <2>3, OnlyWritesChange
    <3>2. v \in stale => v \in stale'
      BY <1>3, <2>3 DEF Worker, Record, Judge, LookUp, Retire, Insert, InsertRaises,
         LeaveStatus, MoveStatus, MoveRefused, Commit, AlertRequest, ChangeStatus, Assign,
         ReadAlert, HandlerFails, CutShort, To
    <3> QED
      BY <1>2, <2>1, <3>1, <3>2
  <2> QED
    BY <2>2, <2>3
<1>4. CASE Worker(v)
  <2>1. ASSUME NEW a \in Alerts, AlertRequest(v, a) PROVE CopySound(v)'
    <3>1. /\ Exists(a) /\ alert' = alert /\ about'[v] = a /\ entry'[v] = 0
          /\ LegalMove(alert[a].status, doc'[v].status) /\ doc'[v].status \in Statuses
      <4>1. Exists(a) /\ alert' = alert /\ about'[v] = a
        BY <2>1 DEF AlertRequest, ChangeStatus, Assign, ReadAlert, alertVars
      <4>2. entry'[v] = 0
        BY <2>1 DEF AlertRequest, ChangeStatus, Assign, Request, InStep, txVars
      <4>3. alert[a] \in Documents /\ alert[a].status \in Statuses
        BY <4>1 DEF DeskSound, AlertsWhole
      <4>4. ASSUME NEW to \in Statuses, ChangeStatus(v, a, to)
            PROVE  to \in Allowed(alert[a].status) /\ doc'[v].status = to
        BY <4>3, <4>4 DEF ChangeStatus, ReadAlert, Documents
      <4>5. ASSUME NEW u \in Analysts, Assign(v, a, u)
            PROVE  doc'[v].status = alert[a].status
        BY <4>3, <4>5 DEF Assign, ReadAlert, Documents
      <4> QED
        BY <2>1, <4>1, <4>2, <4>3, <4>4, <4>5 DEF AlertRequest, LegalMove
    <3> QED
      BY <3>1 DEF CopySound
  <2>2. CASE MoveStatus(v)
    <3>1. about[v] \in Alerts
      BY <2>2 DEF MoveStatus, InStep
    <3>2. /\ alert' = alert /\ about'[v] = about[v] /\ verdict' = verdict
          /\ doc'[v].status = Target(verdict[v])
          /\ Target(verdict[v]) \in Allowed(alert[about[v]].status)
      BY <2>2, <3>1 DEF MoveStatus, ReadAlert, alertVars, txVars, Documents
    <3> QED
      BY <3>2, Lifecycle DEF CopySound, LegalMove
  <2>3. CASE WriteAlert(v)
    BY <2>3, WriteWrites DEF CopySound
  <2>4. ASSUME NEW a \in Alerts, NEW k \in Kinds, Judge(v, a, k)
        PROVE  step'[v] # "saveAlert"
    BY <2>4 DEF Judge
  <2>5. CASE LookUp(v) \/ Retire(v) \/ Insert(v) \/ LeaveStatus(v)
    BY <2>5 DEF LookUp, Retire, Insert, LeaveStatus, To, CopySound
  <2>6. CASE InsertRaises(v) \/ MoveRefused(v) \/ Commit(v) \/ HandlerFails(v)
    BY <2>6 DEF InsertRaises, MoveRefused, Commit, HandlerFails, CutShort, Finish, CopySound
  <2> QED
    BY <1>4, <2>1, <2>2, <2>3, <2>4, <2>5, <2>6 DEF Worker, Record, CopySound
<1>5. CASE RunPipeline \/ UNCHANGED vars
  BY <1>1, <1>2, <1>5, PipelineRaises DEF Unmoved, txVars
<1> QED
  BY <1>3, <1>4, <1>5 DEF Next

LEMMA KeptStep ==
  ASSUME IInv, [Next]_vars, NEW v \in Workers
  PROVE  Kept(v)'
<1> USE DEF IInv, TypeOK
<1>1. Kept(v)
  BY DEF DeskSound
<1>2. ASSUME entry'[v] = 0 \/ (/\ entry'[v] = entry[v] /\ verdict'[v] = verdict[v]
                               /\ seen'[v] = seen[v])
      PROVE  Kept(v)'
  BY <1>1, <1>2 DEF Kept
<1>3. ASSUME NEW a \in Alerts, NEW k \in Kinds, Judge(v, a, k) PROVE Kept(v)'
  <2>1. alert[a].status \in Statuses
    BY <1>3 DEF Judge, DeskSound, AlertsWhole
  <2> QED
    BY <1>3, <2>1 DEF Judge, Kept
<1>4. ASSUME NEW w \in Workers \ {v}, Worker(w) PROVE Kept(v)'
  BY <1>2, <1>4, OneMoves DEF Unmoved
<1>5. CASE InsertRaises(v) \/ MoveRefused(v) \/ Commit(v) \/ HandlerFails(v)
  BY <1>2, <1>5 DEF InsertRaises, MoveRefused, Commit, HandlerFails, ForgetTx
<1>6. ASSUME UNCHANGED <<entry, verdict, seen>> PROVE Kept(v)'
  BY <1>2, <1>6
<1>7. CASE \/ LookUp(v) \/ Retire(v) \/ Insert(v) \/ LeaveStatus(v) \/ MoveStatus(v)
           \/ WriteAlert(v) \/ \E a \in Alerts : AlertRequest(v, a)
  <2>1. UNCHANGED <<entry, verdict, seen>>
    BY <1>7 DEF LookUp, Retire, Insert, LeaveStatus, MoveStatus, WriteAlert, AlertRequest,
       To, txVars
  <2> QED
    BY <1>6, <2>1
<1>8. CASE RunPipeline \/ UNCHANGED vars
  BY <1>6, <1>8, PipelineRaises DEF txVars
<1> QED
  BY <1>3, <1>4, <1>5, <1>7, <1>8 DEF Next, Worker, Record

LEMMA ClosesStep ==
  ASSUME IInv, [Next]_vars, NEW v \in Workers
  PROVE  Closes(v)'
<1> SUFFICES ASSUME entry'[v] # 0, about'[v] \notin disturbed'
             PROVE  /\ seen'[v] \in Closed => alert'[about'[v]].status \in Closed
                    /\ step'[v] = "commit" /\ Target(verdict'[v]) # "none" =>
                         \/ alert'[about'[v]].status \in Closed
                         \/ verdict'[v] = "BENIGN" /\ seen'[v] = "IN_PROGRESS"
  BY DEF Closes
<1> DEFINE Goal ==
      /\ seen'[v] \in Closed => alert'[about'[v]].status \in Closed
      /\ step'[v] = "commit" /\ Target(verdict'[v]) # "none" =>
           \/ alert'[about'[v]].status \in Closed
           \/ verdict'[v] = "BENIGN" /\ seen'[v] = "IN_PROGRESS"
<1> USE DEF IInv, TypeOK
<1>1. Closes(v) /\ InStep(v) /\ Kept(v) /\ CopySound(v)
  BY DEF DeskSound
<1>2. ASSUME NEW a \in Alerts, NEW k \in Kinds, Judge(v, a, k) PROVE Goal
  BY <1>2 DEF Judge, alertVars
<1>3. ASSUME about'[v] = about[v], seen'[v] = seen[v], verdict'[v] = verdict[v],
             entry'[v] = entry[v], step'[v] \in {step[v], "lookUp", "retire", "insert",
                                                 "move", "saveAlert"}
      PROVE  Goal
  <2>1. about[v] \in Alerts /\ about[v] \notin disturbed'
    BY <1>1, <1>3 DEF InStep
  <2>2. about[v] \notin disturbed
    <3>1. ASSUME NEW w \in Workers, WriteAlert(w) PROVE disturbed \subseteq disturbed'
      BY <3>1, WriteWrites
    <3> QED
      BY <2>1, <3>1, OnlyWritesChange, PipelineRaises DEF Next
  <2>3. alert[about[v]].status \in Closed => alert'[about[v]].status \in Closed
    BY <2>1, ClosedStays
  <2> QED
    BY <1>1, <1>3, <2>1, <2>2, <2>3 DEF Closes
<1>4. ASSUME NEW w \in Workers \ {v}, Worker(w) PROVE Goal
  <2>1. Unmoved(v)
    BY <1>4, OneMoves
  <2> QED
    BY <1>3, <2>1 DEF Unmoved
<1>5. CASE LookUp(v) \/ Retire(v) \/ Insert(v)
  <2>1. /\ about'[v] = about[v] /\ seen'[v] = seen[v] /\ verdict'[v] = verdict[v]
        /\ entry'[v] = entry[v] /\ step'[v] \in {"retire", "insert", "move"}
    BY <1>5 DEF LookUp, Retire, Insert, To
  <2> QED
    BY <1>3, <2>1
<1>6. CASE LeaveStatus(v)
  <2>1. /\ alert' = alert /\ disturbed' = disturbed /\ about[v] \in Alerts
        /\ about'[v] = about[v] /\ seen' = seen /\ verdict' = verdict
        /\ seen[v] \in Statuses /\ verdict[v] \in Kinds /\ entry[v] # 0
    BY <1>1, <1>6 DEF LeaveStatus, To, txVars, alertVars, InStep, Kept
  <2>2. CASE alert[about[v]].status = Target(verdict[v])
    BY <1>1, <2>1, <2>2, Lifecycle DEF Closes
  <2>3. CASE ~CanMove(v)
    BY <1>1, <2>1, <2>3, Lifecycle DEF CanMove, Closes
  <2> QED
    BY <1>6, <2>2, <2>3 DEF LeaveStatus
<1>7. CASE MoveStatus(v)
  <2>1. /\ about'[v] = about[v] /\ seen'[v] = seen[v] /\ verdict'[v] = verdict[v]
        /\ entry'[v] = entry[v] /\ step'[v] = "saveAlert"
    BY <1>7 DEF MoveStatus, ReadAlert, txVars
  <2> QED
    BY <1>3, <2>1
<1>8. CASE WriteAlert(v)
  <2>1. /\ entry[v] # 0 /\ about' = about /\ seen' = seen /\ verdict' = verdict
        /\ alert'[about[v]] = doc[v] /\ doc[v].status = Target(verdict[v])
    BY <1>1, <1>8, WriteWrites DEF txVars, CopySound
  <2>2. Target(verdict[v]) # "none"
    BY <1>8, <2>1, WriteWrites DEF Statuses
  <2> QED
    BY <2>1, <2>2, Lifecycle
<1>9. CASE InsertRaises(v) \/ MoveRefused(v) \/ Commit(v) \/ HandlerFails(v)
  BY <1>9 DEF InsertRaises, MoveRefused, Commit, HandlerFails, ForgetTx
<1>10. ASSUME NEW a \in Alerts, AlertRequest(v, a) PROVE Goal
  BY <1>1, <1>10 DEF AlertRequest, ChangeStatus, Assign, Request, txVars, InStep
<1>11. CASE RunPipeline \/ UNCHANGED vars
  BY <1>3, <1>11, PipelineRaises DEF txVars
<1> QED
  BY <1>2, <1>4, <1>5, <1>6, <1>7, <1>8, <1>9, <1>10, <1>11 DEF Next, Worker, Record

LEMMA VerdictClosesStep ==
  ASSUME IInv, [Next]_vars
  PROVE  VerdictCloses'
<1> SUFFICES ASSUME NEW n \in Ids, rows'[n].alert \in Alerts \ disturbed',
                    Target(rows'[n].verdict) # "none"
             PROVE  \/ alert'[rows'[n].alert].status \in Closed
                    \/ rows'[n].verdict = "BENIGN" /\ rows'[n].saw = "IN_PROGRESS"
  BY DEF VerdictCloses
<1>1. ASSUME rows'[n].alert = rows[n].alert, rows'[n].verdict = rows[n].verdict,
             rows'[n].saw = rows[n].saw
      PROVE  \/ alert'[rows'[n].alert].status \in Closed
             \/ rows'[n].verdict = "BENIGN" /\ rows'[n].saw = "IN_PROGRESS"
  <2>1. rows[n].alert \notin disturbed
    <3>1. ASSUME NEW w \in Workers, WriteAlert(w) PROVE disturbed \subseteq disturbed'
      BY <3>1, WriteWrites
    <3> QED
      BY <1>1, <3>1, OnlyWritesChange, PipelineRaises DEF Next
  <2>2. \/ alert[rows[n].alert].status \in Closed
        \/ rows[n].verdict = "BENIGN" /\ rows[n].saw = "IN_PROGRESS"
    BY <1>1, <2>1 DEF IInv, VerdictCloses
  <2> QED
    BY <1>1, <2>2, ClosedStays
<1>2. ASSUME NEW w \in Workers, Commit(w)
      PROVE  \/ alert'[rows'[n].alert].status \in Closed
             \/ rows'[n].verdict = "BENIGN" /\ rows'[n].saw = "IN_PROGRESS"
  <2>1. CASE n = entry[w]
    <3>1. rows'[n] = [alert |-> about[w], verdict |-> verdict[w], by |-> 0, saw |-> seen[w]]
      BY <1>2, <2>1, CommitWrites, Zenon
    <3>2. rows'[n].alert = about[w] /\ rows'[n].verdict = verdict[w] /\ rows'[n].saw = seen[w]
      BY <3>1
    <3>3. entry[w] # 0 /\ step[w] = "commit" /\ alert' = alert /\ disturbed' = disturbed
      BY <1>2 DEF Commit, IInv, InStep, alertVars
    <3> QED
      BY <3>2, <3>3 DEF IInv, DeskSound, Closes
  <2>2. CASE n # entry[w]
    <3>1. rows[n] \in VerdictRows
      BY DEF IInv, TypeOK
    <3>2. rows'[n] = rows[n] \/ rows'[n] = [rows[n] EXCEPT !.by = entry[w]]
      BY <1>2, <2>2, CommitWrites
    <3> QED
      BY <1>1, <3>1, <3>2 DEF VerdictRows
  <2> QED
    BY <2>1, <2>2
<1> QED
  BY <1>1, <1>2, OnlyCommitsWrite

-----------------------------------------------------------------------------
(* The theorems.                                                           *)

LEMMA Step == IInv /\ [Next]_vars => IInv'
<1> SUFFICES ASSUME IInv, [Next]_vars PROVE IInv'
  OBVIOUS
<1>1. TypeOK'
  BY TypeStep DEF IInv
<1>2. DeskSound'
  BY AlertsWholeStep, CopySoundStep, KeptStep, ClosesStep DEF DeskSound
<1> QED
  BY <1>1, <1>2, InStepStep, IdsStep, RowsSoundStep, LocksStep, IndexStep, OneEachStep,
     LinearStep, VerdictClosesStep DEF IInv

(* The inductive invariant: what every handler holds, and what the stores  *)
(* say, agree at every step of every interleaving.                         *)
THEOREM Invariance == Spec => []IInv
BY Start, Step, PTL DEF Spec

(* However many analysts judge one alert at once, and wherever they fail:  *)
(* from its first verdict on it has exactly one in force                   *)
(* (VerdictService.record and the partial unique index).                   *)
THEOREM OneVerdictInForce == Spec => []OneInForce
<1>1. IInv => OneInForce
  <2> SUFFICES ASSUME IInv, NEW a \in Alerts, RowsOf(a) # {}
               PROVE  Cardinality(InForce(a)) = 1
    BY DEF OneInForce
  <2>1. PICK n \in Ids : InForce(a) = {n}
    BY DEF IInv, OneEach
  <2> QED
    BY <2>1, FS_Singleton
<1> QED
  BY <1>1, Invariance, PTL

(* The superseded verdicts of an alert form a line: each by another one of *)
(* the same alert, no two by the same (AnalystVerdict.supersede).          *)
THEOREM HistoryIsALine == Spec => []LinearHistory
<1>1. IInv => LinearHistory
  BY DEF IInv
<1> QED
  BY <1>1, Invariance, PTL

(* A decisive verdict on record has closed its alert, unless a stale write *)
(* came in or it was benign and the alert in progress (_move_status).      *)
THEOREM DecisiveVerdictsClose == Spec => []VerdictCloses
<1>1. IInv => VerdictCloses
  BY DEF IInv
<1> QED
  BY <1>1, Invariance, PTL

(* Row locks and index waits form no circle, with any number of handlers:  *)
(* who is waited for waits for nobody, or for handlers that wait for       *)
(* nobody (VerdictService.record, whose MongoDB calls take no lock).       *)
THEOREM NobodyDeadlocks == Spec => []NoCircle
<1>1. IInv => NoCircle
  <2> SUFFICES ASSUME IInv PROVE NoCircle
    OBVIOUS
  <2> USE DEF IInv, TypeOK
  <2>1. \A v \in inserted : GoesOn(v)
    BY DEF InStep, Holding, GoesOn, AtWork, WaitsFor
  <2>2. ASSUME NEW u \in retired, rows[previous[u]].by = 0 PROVE GoesOn(u)
    <3>1. /\ previous[u] \in InForce(about[u]) /\ about[u] \in Alerts
          /\ step[u] \in Holding \union {"insert"}
      BY <2>2 DEF InForce, RowsOf, InStep
    <3>2. InForce(about[u]) = {previous[u]}
      BY <3>1 DEF OneEach, InForce
    <3>3. Conflicts(u) = {}
      BY <2>2, <3>2 DEF Conflicts, Own
    <3>4. \A x \in inserted : about[x] = about[u] => x = u
      BY <2>2, <3>2 DEF IndexHeldOnce, LocksHeldOnce, Conflicts, Own
    <3> QED
      BY <3>1, <3>3, <3>4 DEF GoesOn, AtWork, WaitsFor, MeetsIndex, Holding
  <2>3. ASSUME NEW w \in Workers, NEW v \in Workers, MeetsIndex(w, v) PROVE GoesOn(v)
    BY <2>1, <2>2, <2>3 DEF MeetsIndex, Conflicts, InForce
  <2>4. ASSUME NEW w \in Workers, NEW v \in Workers, step[w] = "retire", MeetsRow(w, v)
        PROVE  AtWork(v) /\ \A u \in Workers : WaitsFor(v, u) => GoesOn(u)
    <3>1. step[v] \in Holding \union {"insert"}
      BY <2>4 DEF MeetsRow, InStep
    <3> QED
      BY <2>3, <3>1 DEF AtWork, WaitsFor, Holding
  <2> QED
    BY <2>3, <2>4 DEF NoCircle, WaitsFor, GoesOn
<1> QED
  BY <1>1, Invariance, PTL
=============================================================================
