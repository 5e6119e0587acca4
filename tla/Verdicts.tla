------------------------------ MODULE Verdicts ------------------------------
(***************************************************************************)
(* Analyst verdicts: VerdictService.record                                 *)
(* (feedback/application/verdict_service.py) with SqlVerdictRepository,    *)
(* next to analysts who move the same alerts through AlertService.  One    *)
(* request spans two stores: verdict rows in a READ COMMITTED transaction  *)
(* that get_db commits when the handler has returned, and the alert        *)
(* document, which is written at once and is not rolled back.              *)
(*                                                                         *)
(* Abstractions: a verdict's id is the number of its request; rationale,   *)
(* evidence snapshot and clocks are left out.                              *)
(***************************************************************************)
EXTENDS AlertDesk, FiniteSets

VARIABLES
  rows,          \* committed analyst_verdicts, by id
  entry,         \* per worker: id of the verdict being recorded, 0 if none
  verdict,       \* per worker: that verdict
  seen,          \* per worker: the alert's status when record() read it
  previous,      \* per worker: id current_for_alert returned, 0 if none
  retired,       \* workers whose transaction holds `previous' superseded
  inserted,      \* workers whose transaction holds a new row
  disturbed      \* history: alerts written over by a stale copy

txVars == <<entry, verdict, seen, previous, retired, inserted>>
vars == <<deskVars, rows, txVars, disturbed>>

Ids == 1..MaxRequests
Kinds == {"CONFIRMED_THREAT", "POLICY_VIOLATION", "BENIGN", "INCONCLUSIVE"}
NoRow == [alert |-> None, verdict |-> "none", by |-> 0, saw |-> "none"]

(* VERDICT_STATUS; INCONCLUSIVE moves nothing. *)
Target(v) ==
  CASE v \in {"CONFIRMED_THREAT", "POLICY_VIOLATION"} -> "RESOLVED"
    [] v = "BENIGN" -> "FALSE_POSITIVE"
    [] OTHER -> "none"

Closed == {"RESOLVED", "FALSE_POSITIVE"}

Init ==
  /\ DeskInit
  /\ rows = [n \in Ids |-> NoRow]
  /\ entry = [w \in Workers |-> 0]
  /\ verdict = [w \in Workers |-> "none"]
  /\ seen = [w \in Workers |-> "none"]
  /\ previous = [w \in Workers |-> 0]
  /\ retired = {}
  /\ inserted = {}
  /\ disturbed = {}

RowsOf(a) == {n \in Ids : rows[n].alert = a}
InForce(a) == {n \in RowsOf(a) : rows[n].by = 0}

-----------------------------------------------------------------------------
(* record().                                                               *)

To(w, next) ==
  /\ step' = [step EXCEPT ![w] = next]
  /\ UNCHANGED <<alertVars, about, doc, stale, requests, faults>>

Judge(w, a, v) ==
  /\ Request(w)
  /\ Exists(a)
  /\ step' = [step EXCEPT ![w] = "lookUp"]
  /\ about' = [about EXCEPT ![w] = a]
  /\ entry' = [entry EXCEPT ![w] = requests + 1]
  /\ verdict' = [verdict EXCEPT ![w] = v]
  /\ seen' = [seen EXCEPT ![w] = alert[a].status]
  /\ UNCHANGED <<alertVars, doc, stale, rows, previous, retired, inserted, disturbed>>

(* current_for_alert sees committed rows only. *)
LookUp(w) ==
  /\ step[w] = "lookUp"
  /\ LET now == InForce(about[w])
     IN  \/ \E n \in now :
              /\ previous' = [previous EXCEPT ![w] = n]
              /\ To(w, "retire")
         \/ now = {} /\ To(w, "insert") /\ UNCHANGED previous
  /\ UNCHANGED <<rows, entry, verdict, seen, retired, inserted, disturbed>>

(* update(previous) waits for the row lock of another open transaction. *)
MeetsRow(w, v) == v \in retired \ {w} /\ previous[v] = previous[w]
RetireWaits(w) == \E v \in Workers : MeetsRow(w, v)

Retire(w) ==
  /\ step[w] = "retire"
  /\ ~RetireWaits(w)
  /\ retired' = retired \union {w}
  /\ To(w, "insert")
  /\ UNCHANGED <<rows, entry, verdict, seen, previous, inserted, disturbed>>

(* The unique index waits for an open transaction that holds, or retires,  *)
(* a row in force for the same alert ...                                   *)
Own(w) == IF w \in retired THEN {previous[w]} ELSE {}
Conflicts(w) == InForce(about[w]) \ Own(w)
MeetsIndex(w, v) ==
  /\ v # w
  /\ \/ v \in inserted /\ about[v] = about[w]
     \/ v \in retired /\ previous[v] \in Conflicts(w)
InsertWaits(w) == \E v \in Workers : MeetsIndex(w, v)

(* Mutant of Insert: no unique index, every insert goes through. *)
InsertUnchecked(w) ==
  /\ step[w] = "insert"
  /\ inserted' = inserted \union {w}
  /\ To(w, "move")
  /\ UNCHANGED <<rows, entry, verdict, seen, previous, retired, disturbed>>

Insert(w) ==
  /\ step[w] = "insert"
  /\ ~InsertWaits(w)
  /\ Conflicts(w) = {}
  /\ inserted' = inserted \union {w}
  /\ To(w, "move")
  /\ UNCHANGED <<rows, entry, verdict, seen, previous, retired, disturbed>>

ForgetTx(w) ==
  /\ entry' = [entry EXCEPT ![w] = 0]
  /\ verdict' = [verdict EXCEPT ![w] = "none"]
  /\ seen' = [seen EXCEPT ![w] = "none"]
  /\ previous' = [previous EXCEPT ![w] = 0]
  /\ retired' = retired \ {w}
  /\ inserted' = inserted \ {w}

(* ... and raises IntegrityError when a committed one is left: get_db      *)
(* rolls the transaction back and the analyst gets an error.               *)
InsertRaises(w) ==
  /\ step[w] = "insert"
  /\ ~InsertWaits(w)
  /\ Conflicts(w) # {}
  /\ ForgetTx(w)
  /\ Finish(w, "idle")
  /\ UNCHANGED <<alertVars, stale, requests, faults, rows, disturbed>>

(* Mutant of CanMove: only untouched alerts are closed. *)
CanMoveFromOpen(w) == Target(verdict[w]) # "none" /\ seen[w] = "OPEN"

(* _move_status first looks at the alert record() read ... *)
CanMove(w) ==
  Target(verdict[w]) # "none" /\ Target(verdict[w]) \in Allowed(seen[w])

LeaveStatus(w) ==
  /\ step[w] = "move"
  /\ ~CanMove(w) \/ alert[about[w]].status = Target(verdict[w])
  /\ To(w, "commit")
  /\ UNCHANGED <<rows, txVars, disturbed>>

(* ... and then AlertService.change_status at the alert as it is now. *)
MoveStatus(w) ==
  /\ step[w] = "move"
  /\ CanMove(w)
  /\ Target(verdict[w]) \in Allowed(alert[about[w]].status)
  /\ ReadAlert(w, about[w], [alert[about[w]] EXCEPT !.status = Target(verdict[w])])
  /\ UNCHANGED <<requests, faults, rows, txVars, disturbed>>

(* Its IllegalAlertStatusTransitionError is caught by nobody. *)
MoveRefused(w) ==
  /\ step[w] = "move"
  /\ CanMove(w)
  /\ alert[about[w]].status # Target(verdict[w])
  /\ Target(verdict[w]) \notin Allowed(alert[about[w]].status)
  /\ ForgetTx(w)
  /\ Finish(w, "idle")
  /\ UNCHANGED <<alertVars, stale, requests, faults, rows, disturbed>>

(* Mutant of Commit: previous.supersede(previous.id). *)
CommitSupersedesItself(w) ==
  /\ step[w] = "commit"
  /\ rows' = [n \in Ids |->
                CASE n = entry[w] ->
                       [alert |-> about[w], verdict |-> verdict[w], by |-> 0,
                        saw |-> seen[w]]
                  [] w \in retired /\ n = previous[w] ->
                       [rows[n] EXCEPT !.by = n]
                  [] OTHER -> rows[n]]
  /\ ForgetTx(w)
  /\ Finish(w, "idle")
  /\ UNCHANGED <<alertVars, stale, requests, faults, disturbed>>

Commit(w) ==
  /\ step[w] = "commit"
  /\ rows' = [n \in Ids |->
                CASE n = entry[w] ->
                       [alert |-> about[w], verdict |-> verdict[w], by |-> 0,
                        saw |-> seen[w]]
                  [] w \in retired /\ n = previous[w] ->
                       [rows[n] EXCEPT !.by = entry[w]]
                  [] OTHER -> rows[n]]
  /\ ForgetTx(w)
  /\ Finish(w, "idle")
  /\ UNCHANGED <<alertVars, stale, requests, faults, disturbed>>

-----------------------------------------------------------------------------
(* Other requests on the same alerts, and failures.                        *)

AlertRequest(w, a) ==
  /\ \/ \E to \in Statuses : ChangeStatus(w, a, to)
     \/ \E u \in Analysts : Assign(w, a, u)
  /\ UNCHANGED <<rows, txVars, disturbed>>

WriteAlert(w) ==
  /\ SaveAlert(w, IF entry[w] = 0 THEN "idle" ELSE "commit")
  /\ disturbed' = IF w \in stale THEN disturbed \union {about[w]} ELSE disturbed
  /\ UNCHANGED <<rows, txVars>>

(* Mutant of HandlerFails: no rollback, the locks stay. *)
FailsWithoutRollback(w) ==
  /\ CutShort(w)
  /\ entry' = [entry EXCEPT ![w] = 0]
  /\ UNCHANGED <<rows, verdict, seen, previous, retired, inserted, disturbed>>

(* get_db rolls back; the alert document keeps what was written to it. *)
HandlerFails(w) ==
  /\ CutShort(w)
  /\ ForgetTx(w)
  /\ UNCHANGED <<rows, disturbed>>

Record(w) ==
  \/ LookUp(w)
  \/ Retire(w)
  \/ Insert(w)
  \/ InsertRaises(w)
  \/ LeaveStatus(w)
  \/ MoveStatus(w)
  \/ MoveRefused(w)
  \/ Commit(w)

Worker(w) ==
  \/ \E a \in Alerts, v \in Kinds : Judge(w, a, v)
  \/ Record(w)
  \/ \E a \in Alerts : AlertRequest(w, a)
  \/ WriteAlert(w)
  \/ HandlerFails(w)

RunPipeline == Pipeline /\ UNCHANGED <<rows, txVars, disturbed>>

Next == RunPipeline \/ \E w \in Workers : Worker(w)

Spec == Init /\ [][Next]_vars

-----------------------------------------------------------------------------
(* Properties.                                                             *)

(* Once an alert has been judged exactly one of its verdicts is in force:  *)
(* revising never leaves none, two analysts judging at once never leave    *)
(* two (feedback/infrastructure/models.py, the partial unique index).      *)
OneInForce ==
  \A a \in Alerts : RowsOf(a) # {} => Cardinality(InForce(a)) = 1

(* The earlier verdicts form one line: each was superseded by a committed  *)
(* other verdict on the same alert, and none supersedes two.               *)
LinearHistory ==
  \A n \in Ids :
    rows[n].by # 0 =>
      /\ rows[n].by # n
      /\ rows[rows[n].by].alert = rows[n].alert
      /\ \A m \in Ids \ {n} : rows[m].by # rows[n].by

(* A decisive verdict that is on record has closed its alert, whoever else *)
(* was working on it, unless a stale write came in or the alert was in     *)
(* progress and the verdict benign: IN_PROGRESS has no way to              *)
(* FALSE_POSITIVE (verdict_service.py _move_status).                       *)
VerdictCloses ==
  \A n \in Ids :
    LET a == rows[n].alert IN
    (a \in Alerts \ disturbed /\ Target(rows[n].verdict) # "none") =>
      \/ alert[a].status \in Closed
      \/ rows[n].verdict = "BENIGN" /\ rows[n].saw = "IN_PROGRESS"

(* Row locks and index waits never close a circle, not even among some of  *)
(* the requests: who is waited for is still at work, and waits for nobody  *)
(* or only for requests that wait for nobody.                              *)
WaitsFor(w, v) ==
  \/ step[w] = "retire" /\ MeetsRow(w, v)
  \/ step[w] = "insert" /\ MeetsIndex(w, v)

AtWork(w) == step[w] # "idle"
GoesOn(w) == AtWork(w) /\ \A v \in Workers : ~WaitsFor(w, v)

NoCircle ==
  \A w, v \in Workers :
    WaitsFor(w, v) => AtWork(v) /\ \A u \in Workers : WaitsFor(v, u) => GoesOn(u)
=============================================================================
