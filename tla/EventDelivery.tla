--------------------------- MODULE EventDelivery ---------------------------
(***************************************************************************)
(* Delivery of endpoint events: the agent's SQLite queue                   *)
(* (agent/itbis_agent/queue.py), the single uploader thread                *)
(* (uploader.py, runtime.py), the maintenance process that revives dead    *)
(* letters (__main__.py), and the server's ingest handler                  *)
(* (activity/presentation/agent_router.py) with the document collection    *)
(* it writes.  Every SQLite transaction, every document insert and every   *)
(* HTTP outcome is a step of its own, so a crash, a timeout or another     *)
(* process can come between any two of them.                               *)
(*                                                                         *)
(* Abstractions.  Events are numbered in the order they are enqueued, so   *)
(* an event is its own row id.  Payloads, reasons and clocks are left out: *)
(* `waiting' says that next_attempt_at is still in the future.             *)
(***************************************************************************)
EXTENDS Naturals, FiniteSets

CONSTANTS
  Events,        \* events the collectors can observe, numbered by arrival
  FutureTyped,   \* those whose event_type the server's schema does not know
  BatchSize,     \* upload.batch_size
  MaxRetries,    \* upload.max_retries
  Slots,         \* bound: ingest requests the server works on at a time
  NoSlot,        \* the uploader awaits no request
  MaxFaults,     \* bound: crashes, timeouts, lost or failed calls, shutdowns
  MaxOps         \* bound: operator actions (--requeue-dead, credential changes)

ASSUME EventsAreNaturals == Events \subseteq Nat /\ FutureTyped \subseteq Events
ASSUME BoundsAreNaturals ==
  /\ BatchSize \in Nat \ {0}
  /\ MaxRetries \in Nat
  /\ MaxFaults \in Nat
  /\ MaxOps \in Nat
ASSUME NoSlotIsNoSlot == NoSlot \notin Slots

VARIABLES
  status,        \* events.status per row; "absent" before the insert
  attempts,      \* events.attempts per row
  waiting,       \* next_attempt_at lies in the future
  agent,         \* the agent process: "up", "stopping" or "down"
  pc,            \* where the uploader thread is inside tick()
  batch,         \* the rows peek() returned (memory only)
  snapshot,      \* QueuedEvent.attempts of the batch, as read by peek()
  current,       \* the request the uploader awaits
  handler,       \* per slot: the server's progress on one request
  credential,    \* whether the server accepts the agent's key
  copies,        \* documents in canonical_events per event
  refused,       \* events some response counted as "rejected"
  failures,      \* history: transient failures seen since queued or revived
  answer,        \* history: how the server refused the awaited request
  cause,         \* history: refusal and batch of each row marked dead by one
  faults, ops    \* bounds: environment and operator steps taken so far

queueVars  == <<status, attempts, waiting>>
tickVars   == <<pc, batch, snapshot, current, answer>>
serverVars == <<handler, copies, refused>>
boundVars  == <<faults, ops>>
vars == <<queueVars, tickVars, serverVars, boundVars,
          agent, credential, failures, cause>>

Statuses == {"absent", "pending", "sent", "dead"}
Outcomes == {"acked", "unauthorised", "permanent", "transient"}
TickSteps == {"idle", "peeked", "awaiting", "retrying"} \union Outcomes
Free == [phase |-> "free", todo |-> {}]
Refusals == {"none", "unparseable", "elsewhere"}
NoCause == [refusal |-> "none", batch |-> {}]

TypeOK ==
  /\ status \in [Events -> Statuses]
  /\ attempts \in [Events -> Nat]
  /\ waiting \in [Events -> BOOLEAN]
  /\ agent \in {"up", "stopping", "down"}
  /\ pc \in TickSteps
  /\ batch \subseteq Events
  /\ snapshot \in [Events -> Nat]
  /\ current \in Slots \union {NoSlot}
  /\ handler \in [Slots -> [phase : {"free", "received", "storing"},
                            todo : SUBSET Events]]
  /\ credential \in {"valid", "rejected"}
  /\ copies \in [Events -> Nat]
  /\ refused \subseteq Events
  /\ failures \in [Events -> Nat]
  /\ answer \in Refusals
  /\ cause \in [Events -> [refusal : Refusals, batch : SUBSET Events]]
  /\ faults \in 0..MaxFaults
  /\ ops \in 0..MaxOps

Init ==
  /\ status = [e \in Events |-> "absent"]
  /\ attempts = [e \in Events |-> 0]
  /\ waiting = [e \in Events |-> FALSE]
  /\ agent = "up"
  /\ pc = "idle"
  /\ batch = {}
  /\ snapshot = [e \in Events |-> 0]
  /\ current = NoSlot
  /\ handler = [s \in Slots |-> Free]
  /\ credential = "valid"
  /\ copies = [e \in Events |-> 0]
  /\ refused = {}
  /\ failures = [e \in Events |-> 0]
  /\ answer = "none"
  /\ cause = [e \in Events |-> NoCause]
  /\ faults = 0
  /\ ops = 0

Fault == faults < MaxFaults /\ faults' = faults + 1 /\ UNCHANGED ops
Operate == ops < MaxOps /\ ops' = ops + 1 /\ UNCHANGED faults

-----------------------------------------------------------------------------
(* Collector threads.  enqueue() of an event already queued hits the       *)
(* UNIQUE key and changes nothing, whatever the row's status: rows are     *)
(* never deleted.  Enqueueing may still complete while the agent stops.    *)
Enqueue(e) ==
  /\ agent # "down"
  /\ status[e] = "absent"
  /\ \A f \in Events : f < e => status[f] # "absent"
  /\ status' = [status EXCEPT ![e] = "pending"]
  /\ UNCHANGED <<attempts, waiting, tickVars, serverVars, boundVars, agent,
                 credential, failures, cause>>

BackoffElapses(e) ==
  /\ waiting[e]
  /\ waiting' = [waiting EXCEPT ![e] = FALSE]
  /\ UNCHANGED <<status, attempts, tickVars, serverVars, boundVars, agent,
                 credential, failures, cause>>

-----------------------------------------------------------------------------
(* The uploader thread: one tick is peek, POST, and the marks.             *)

(* Mutant of Ready: rows at the retry limit are not selected. *)
ReadyWithinBudget ==
  {e \in Events : status[e] = "pending" /\ ~waiting[e] /\ attempts[e] < MaxRetries}

Ready == {e \in Events : status[e] = "pending" /\ ~waiting[e]}

(* SELECT ... ORDER BY id LIMIT batch_size *)
FirstReady == {e \in Ready : Cardinality({f \in Ready : f < e}) < BatchSize}

Peek ==
  /\ agent = "up"
  /\ pc = "idle"
  /\ Ready # {}
  /\ pc' = "peeked"
  /\ batch' = FirstReady
  /\ snapshot' = [e \in Events |-> IF e \in FirstReady THEN attempts[e] ELSE 0]
  /\ UNCHANGED <<queueVars, current, answer, serverVars, boundVars, agent,
                 credential, failures, cause>>

Send(s) ==
  /\ pc = "peeked"
  /\ handler[s] = Free
  /\ pc' = "awaiting"
  /\ current' = s
  /\ handler' = [handler EXCEPT ![s] = [phase |-> "received", todo |-> batch]]
  /\ UNCHANGED <<queueVars, batch, snapshot, answer, copies, refused,
                 boundVars, agent, credential, failures, cause>>

ChargeBatch ==
  failures' = [e \in Events |-> failures[e] + (IF e \in batch THEN 1 ELSE 0)]

(* Mutant of NoAnswer: a timeout is taken for success. *)
TimeoutIsSuccess ==
  /\ Fault
  /\ pc \in {"peeked", "awaiting"}
  /\ pc' = "acked"
  /\ current' = NoSlot
  /\ UNCHANGED <<queueVars, batch, snapshot, answer, serverVars, agent,
                 credential, failures, cause>>

(* The connection is refused, or no answer comes within the client's       *)
(* timeout: the server knows nothing of it and goes on with its request.   *)
NoAnswer ==
  /\ Fault
  /\ pc \in {"peeked", "awaiting"}
  /\ pc' = "transient"
  /\ current' = NoSlot
  /\ ChargeBatch
  /\ UNCHANGED <<queueVars, batch, snapshot, answer, serverVars, agent,
                 credential, cause>>

Rows(S, f, v) == [e \in Events |-> IF e \in S THEN v ELSE f[e]]

EndTick ==
  /\ pc' = "idle"
  /\ batch' = {}
  /\ snapshot' = [e \in Events |-> 0]
  /\ current' = NoSlot
  /\ answer' = "none"

(* Mutant of MarkSent: the last row of the batch is missed. *)
MarkSentButLast ==
  /\ pc = "acked"
  /\ status' = Rows({e \in batch : \E f \in batch : e < f}, status, "sent")
  /\ EndTick
  /\ UNCHANGED <<attempts, waiting, serverVars, boundVars, agent, credential,
                 failures, cause>>

(* mark_sent on every row of the batch, whatever the per-event results. *)
MarkSent ==
  /\ pc = "acked"
  /\ status' = Rows(batch, status, "sent")
  /\ EndTick
  /\ UNCHANGED <<attempts, waiting, serverVars, boundVars, agent, credential,
                 failures, cause>>

(* 401/403: mark_failed with increment_attempts=False. *)
HoldForCredential ==
  /\ pc = "unauthorised"
  /\ waiting' = Rows(batch, waiting, TRUE)
  /\ EndTick
  /\ UNCHANGED <<status, attempts, serverVars, boundVars, agent, credential,
                 failures, cause>>

(* Mutant of MarkBatchDead: a status the schema does not have. *)
MarkBatchFailed ==
  /\ pc = "permanent"
  /\ status' = Rows(batch, status, "failed")
  /\ EndTick
  /\ UNCHANGED <<attempts, waiting, serverVars, boundVars, agent, credential,
                 failures, cause>>

(* 400, 422 and every other 4xx but 401, 403, 408 and 429: mark_dead on    *)
(* the whole batch.                                                        *)
MarkBatchDead ==
  /\ pc = "permanent"
  /\ status' = Rows(batch, status, "dead")
  /\ cause' = Rows(batch, cause, [refusal |-> answer, batch |-> batch])
  /\ EndTick
  /\ UNCHANGED <<attempts, waiting, serverVars, boundVars, agent, credential,
                 failures>>

Exhausted == {e \in batch : snapshot[e] + 1 > MaxRetries}

(* A transient failure takes two transactions: the exhausted rows first. *)
MarkExhausted ==
  /\ pc = "transient"
  /\ Exhausted # {}
  /\ status' = Rows(Exhausted, status, "dead")
  /\ pc' = "retrying"
  /\ UNCHANGED <<attempts, waiting, batch, snapshot, answer, current,
                 serverVars, boundVars, agent, credential, failures, cause>>

MarkRetryable ==
  /\ pc = "retrying" \/ (pc = "transient" /\ Exhausted = {})
  /\ attempts' = [e \in Events |->
                    attempts[e] + (IF e \in batch \ Exhausted THEN 1 ELSE 0)]
  /\ waiting' = Rows(batch \ Exhausted, waiting, TRUE)
  /\ EndTick
  /\ UNCHANGED <<status, serverVars, boundVars, agent, credential, failures,
                 cause>>

(* Any other exception (a locked database, an undecodable answer, a client *)
(* closed by the shutdown) is swallowed by the uploader loop: no row is    *)
(* marked.                                                                 *)
TickError ==
  /\ Fault
  /\ pc # "idle"
  /\ EndTick
  /\ UNCHANGED <<queueVars, serverVars, agent, credential, failures, cause>>

-----------------------------------------------------------------------------
(* The agent process.                                                      *)

StopSignal ==
  /\ Fault
  /\ agent = "up"
  /\ agent' = "stopping"
  /\ UNCHANGED <<queueVars, tickVars, serverVars, credential, failures, cause>>

(* The process ends with the tick wherever it is: _shutdown waits at most  *)
(* five seconds for the daemon thread, a second signal does not wait.      *)
Exit ==
  /\ agent = "stopping"
  /\ agent' = "down"
  /\ EndTick
  /\ UNCHANGED <<queueVars, serverVars, boundVars, credential, failures,
                 cause>>

Crash ==
  /\ Fault
  /\ agent # "down"
  /\ agent' = "down"
  /\ EndTick
  /\ UNCHANGED <<queueVars, serverVars, credential, failures, cause>>

Restart ==
  /\ agent = "down"
  /\ agent' = "up"
  /\ UNCHANGED <<queueVars, tickVars, serverVars, boundVars, credential,
                 failures, cause>>

Revive(S) ==
  /\ Operate
  /\ S # {}
  /\ status' = Rows(S, status, "pending")
  /\ attempts' = Rows(S, attempts, 0)
  /\ waiting' = Rows(S, waiting, FALSE)
  /\ failures' = Rows(S, failures, 0)
  /\ cause' = Rows(S, cause, NoCause)
  /\ UNCHANGED <<tickVars, serverVars, agent, credential>>

(* Mutant of ReviveDead: a wider WHERE clause. *)
ReviveUnsent == Revive({e \in Events : status[e] \in {"pending", "dead"}})

(* `itbis-agent --requeue-dead' in a second process, agent running or not. *)
ReviveDead == Revive({e \in Events : status[e] = "dead"})

-----------------------------------------------------------------------------
(* The server: one handler per request.  Its dedup cache is created inside *)
(* the handler and a batch never carries a key twice (the agent's key is   *)
(* UNIQUE), so `dedup.seen' never answers yes and every event is inserted. *)

(* The response reaches the uploader only if it still waits for it. *)
Answer(s, outcome) ==
  /\ handler' = [handler EXCEPT ![s] = Free]
  /\ pc' = IF current = s THEN outcome ELSE pc
  /\ current' = IF current = s THEN NoSlot ELSE current

Admit(s) ==
  /\ handler[s].phase = "received"
  /\ credential = "valid"
  /\ handler[s].todo \intersect FutureTyped = {}
  /\ handler' = [handler EXCEPT ![s].phase = "storing"]
  /\ UNCHANGED <<queueVars, tickVars, copies, refused, boundVars, agent,
                 credential, failures, cause>>

(* Mutant of Unauthorised: a rejected credential answered like a bad batch. *)
UnauthorisedIsPermanent(s) ==
  /\ handler[s].phase = "received"
  /\ credential = "rejected"
  /\ Answer(s, "permanent")
  /\ UNCHANGED <<queueVars, batch, snapshot, answer, copies, refused,
                 boundVars, agent, credential, failures, cause>>

Unauthorised(s) ==
  /\ handler[s].phase = "received"
  /\ credential = "rejected"
  /\ Answer(s, "unauthorised")
  /\ UNCHANGED <<queueVars, batch, snapshot, answer, copies, refused,
                 boundVars, agent, credential, failures, cause>>

(* The refusal is the awaited request's, and is remembered with it. *)
Refuse(s, refusal) ==
  /\ Answer(s, "permanent")
  /\ answer' = IF current = s THEN refusal ELSE answer
  /\ UNCHANGED <<queueVars, batch, snapshot, copies, refused, agent,
                 credential, failures, cause>>

(* One event the schema cannot parse makes the request a 422: event_type   *)
(* is an enum of the schema, so the handler's own fallback to UNKNOWN for  *)
(* a type it does not know is never reached.                               *)
Unprocessable(s) ==
  /\ handler[s].phase = "received"
  /\ credential = "valid"
  /\ handler[s].todo \intersect FutureTyped # {}
  /\ Refuse(s, "unparseable")
  /\ UNCHANGED boundVars

(* The request is answered with a 404, 405, 413 ... before the handler is  *)
(* reached: a moved path, a proxy's size limit.                            *)
AnsweredElsewhere(s) ==
  /\ Fault
  /\ handler[s].phase = "received"
  /\ Refuse(s, "elsewhere")

NextEvent(s, e) ==
  /\ handler[s].phase = "storing"
  /\ e \in handler[s].todo
  /\ \A f \in handler[s].todo : e <= f
  /\ handler' = [handler EXCEPT ![s].todo = @ \ {e}]

Store(s, e) ==
  /\ NextEvent(s, e)
  /\ copies' = [copies EXCEPT ![e] = @ + 1]
  /\ UNCHANGED <<queueVars, tickVars, refused, boundVars, agent, credential,
                 failures, cause>>

(* The insert raises, before or after the document was written: the event  *)
(* is counted as rejected and the handler goes on; the response is a 200.  *)
StoreRaises(s, e) ==
  /\ Fault
  /\ NextEvent(s, e)
  /\ refused' = refused \union {e}
  /\ \E written \in {0, 1} : copies' = [copies EXCEPT ![e] = @ + written]
  /\ UNCHANGED <<queueVars, tickVars, agent, credential, failures, cause>>

(* Mutant of Acknowledge: the answer does not wait for the inserts. *)
AcknowledgeEarly(s) ==
  /\ handler[s].phase = "storing"
  /\ Answer(s, "acked")
  /\ UNCHANGED <<queueVars, batch, snapshot, answer, copies, refused,
                 boundVars, agent, credential, failures, cause>>

Acknowledge(s) ==
  /\ handler[s].phase = "storing"
  /\ handler[s].todo = {}
  /\ Answer(s, "acked")
  /\ UNCHANGED <<queueVars, batch, snapshot, answer, copies, refused,
                 boundVars, agent, credential, failures, cause>>

(* A 5xx, a server restart or an unreadable answer, after any prefix of    *)
(* the batch has been stored.                                              *)
HandlerFails(s) ==
  /\ Fault
  /\ handler[s] # Free
  /\ Answer(s, "transient")
  /\ IF current = s THEN ChargeBatch ELSE UNCHANGED failures
  /\ UNCHANGED <<queueVars, batch, snapshot, answer, copies, refused, agent,
                 credential, cause>>

(* An operator revokes or restores the agent's credential. *)
ChangeCredential ==
  /\ Operate
  /\ credential' = IF credential = "valid" THEN "rejected" ELSE "valid"
  /\ UNCHANGED <<queueVars, tickVars, serverVars, agent, failures, cause>>

-----------------------------------------------------------------------------
Collector == \E e \in Events : Enqueue(e) \/ BackoffElapses(e)

Uploader ==
  \/ Peek
  \/ \E s \in Slots : Send(s)
  \/ NoAnswer
  \/ MarkSent
  \/ HoldForCredential
  \/ MarkBatchDead
  \/ MarkExhausted
  \/ MarkRetryable
  \/ TickError

Process == StopSignal \/ Exit \/ Crash \/ Restart \/ ReviveDead

Serve(s) ==
  \/ Admit(s)
  \/ Unauthorised(s)
  \/ Unprocessable(s)
  \/ \E e \in Events : Store(s, e)
  \/ Acknowledge(s)

Server ==
  \/ \E s \in Slots :
       \/ Serve(s)
       \/ \E e \in Events : StoreRaises(s, e)
       \/ AnsweredElsewhere(s)
       \/ HandlerFails(s)
  \/ ChangeCredential

Next == Collector \/ Uploader \/ Process \/ Server

Spec == Init /\ [][Next]_vars

(* The uploader thread, the server's handlers and time go on; the machine  *)
(* is started again after a crash.  Nothing is assumed of the collectors,  *)
(* the operator or the faults, which are merely finitely many.             *)
Fairness ==
  /\ WF_vars(Peek)
  /\ WF_vars(\E s \in Slots : Send(s))
  /\ WF_vars(MarkSent \/ HoldForCredential \/ MarkBatchDead)
  /\ WF_vars(MarkExhausted \/ MarkRetryable)
  /\ WF_vars(Exit \/ Restart)
  /\ \A e \in Events : WF_vars(BackoffElapses(e))
  /\ \A s \in Slots : WF_vars(Serve(s))

FairSpec == Spec /\ Fairness

-----------------------------------------------------------------------------
(* Properties.                                                             *)

Handled(e) == copies[e] > 0 \/ e \in refused

(* An event the agent has ticked off was stored by the server, or the      *)
(* server said in a response that it would not store it: no crash, retry,  *)
(* timeout or late response ever marks an unhandled event as sent          *)
(* (uploader.py tick, success path).                                       *)
NoSilentLoss == \A e \in Events : status[e] = "sent" => Handled(e)

(* mark_sent, mark_failed and mark_dead update by id with no condition on  *)
(* the row's status.  That is sound only because the rows of a batch are   *)
(* still pending with the attempts peek() read when the marks run, whatever*)
(* a concurrent --requeue-dead or enqueue did meanwhile.                   *)
InFlightRowsUntouched ==
  \A e \in batch :
    \/ status[e] = "pending" /\ attempts[e] = snapshot[e]
    \/ pc = "retrying" /\ e \in Exhausted

(* An event is dead-lettered only after more than max_retries transient    *)
(* failures of its own, or because the batch it was sent in was refused as *)
(* a whole: by the schema, for an event of that same batch it cannot       *)
(* parse, or with another permanent 4xx from in front of the handler       *)
(* (uploader.py tick and _send_once).  Never because of a rejected         *)
(* credential, a crash, a shutdown, or what another batch contained.       *)
DeadOnlyForCause ==
  \A e \in Events :
    status[e] = "dead" =>
      \/ failures[e] > MaxRetries
      \/ /\ e \in cause[e].batch
         /\ \/ cause[e].refusal = "elsewhere"
            \/ /\ cause[e].refusal = "unparseable"
               /\ cause[e].batch \intersect FutureTyped # {}

(* The retry budget is never charged more than the transient failures that *)
(* happened, and never exceeds max_retries (uploader.py, mark_failed).     *)
BudgetHonest ==
  \A e \in Events : attempts[e] <= failures[e] /\ attempts[e] <= MaxRetries

(* A stored duplicate is always paid for by a fault: without faults every  *)
(* event is stored at most once, and each fault adds at most one copy.     *)
DuplicatesNeedFaults == \A e \in Events : copies[e] <= faults + 1

(* No step takes an event out of "sent": not a stale mark of a slow tick,  *)
(* not a revive by the maintenance process.                                *)
SentIsFinal ==
  [][\A e \in Events : status[e] = "sent" => status'[e] = "sent"]_vars

(* If the credential is in the end accepted, every queued event is in the  *)
(* end sent or dead-lettered.                                              *)
EventuallySettled ==
  <>[](credential = "valid") =>
    \A e \in Events : status[e] = "pending" ~> status[e] \in {"sent", "dead"}

(* The implemented promise. *)
PhaseOf(st) == CASE st = "absent"  -> "unseen"
                 [] st = "pending" -> "held"
                 [] st = "sent"    -> "settled"
                 [] st = "dead"    -> "parked"

Promise == INSTANCE ReliableDelivery WITH
  phase <- [e \in Events |-> PhaseOf(status[e])],
  stored <- {e \in Events : copies[e] > 0},
  declined <- refused

(* Every step of the agent and the server is a step of ReliableDelivery,   *)
(* or changes nothing it speaks of.                                        *)
KeepsPromise == Promise!AbsSpec
=============================================================================
