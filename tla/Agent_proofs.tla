---------------------------- MODULE Agent_proofs ----------------------------
(***************************************************************************)
(* The endpoint agent, for every choice of the constants: what its queue   *)
(* and its uploader deliver (EventDelivery), and what its collectors put   *)
(* into the queue (Sensors).                                               *)
(*                                                                         *)
(* A poll tells what is new from what it remembers, so the invariant that  *)
(* carries the theorems on the collectors is about memories.  A drive's    *)
(* watcher remembers what is there, but for what was done since; what its  *)
(* reader knows is what has settled (DriveInv).  A download that is to be  *)
(* reported is still settling, or awaited, or in the queue (DownloadsInv). *)
(* An endpoint is remembered as reported exactly as long as the queue can  *)
(* answer for it (NetworkInv).  A log record not reported yet is past the  *)
(* bookmark, and a process past the last one looked at (LogInv, WmiInv).   *)
(***************************************************************************)
EXTENDS EventDelivery, Sensors, FiniteSetTheorems, WellFoundedInduction, TLAPS

-----------------------------------------------------------------------------
(* The queue and the uploader. *)

(* Every step keeps the variables in their types. *)
THEOREM TypeCorrect == Spec => []TypeOK
<1> USE EventsAreNaturals, BoundsAreNaturals, NoSlotIsNoSlot
    DEF TypeOK, Statuses, Outcomes, TickSteps, Free, Refusals, NoCause
<1>1. Init => TypeOK
  BY DEF Init
<1>2. TypeOK /\ [Next]_vars => TypeOK'
  <2> SUFFICES ASSUME TypeOK, [Next]_vars PROVE TypeOK'
    OBVIOUS
  <2> USE DEF queueVars, tickVars, serverVars, boundVars, EndTick, Rows,
              Fault, Operate, Answer, ChargeBatch
  <2>1. ASSUME NEW e \in Events, Enqueue(e) PROVE TypeOK'
    BY <2>1 DEF Enqueue
  <2>2. ASSUME NEW e \in Events, BackoffElapses(e) PROVE TypeOK'
    BY <2>2 DEF BackoffElapses
  <2>3. CASE Peek
    BY <2>3 DEF Peek, FirstReady, Ready
  <2>4. ASSUME NEW s \in Slots, Send(s) PROVE TypeOK'
    BY <2>4 DEF Send
  <2>5. CASE NoAnswer
    BY <2>5 DEF NoAnswer
  <2>6. CASE MarkSent
    BY <2>6 DEF MarkSent
  <2>7. CASE HoldForCredential
    <3>1. waiting' \in [Events -> BOOLEAN]
      BY <2>7, Zenon DEF HoldForCredential
    <3>2. QED
      BY <2>7, <3>1 DEF HoldForCredential
  <2>8. CASE MarkBatchDead
    BY <2>8 DEF MarkBatchDead
  <2>9. CASE MarkExhausted
    BY <2>9 DEF MarkExhausted, Exhausted
  <2>10. CASE MarkRetryable
    <3>1. waiting' \in [Events -> BOOLEAN]
      BY <2>10, Zenon DEF MarkRetryable
    <3>2. attempts' \in [Events -> Nat]
      BY <2>10 DEF MarkRetryable
    <3>3. /\ pc' = "idle" /\ batch' = {} /\ current' = NoSlot
          /\ snapshot' \in [Events -> Nat] /\ answer' = "none"
          /\ UNCHANGED <<status, handler, copies, refused, faults, ops,
                         agent, credential, failures, cause>>
      BY <2>10 DEF MarkRetryable
    <3>4. QED
      BY <3>1, <3>2, <3>3
  <2>11. CASE TickError
    BY <2>11 DEF TickError
  <2>12. CASE StopSignal
    BY <2>12 DEF StopSignal
  <2>13. CASE Exit
    BY <2>13 DEF Exit
  <2>14. CASE Crash
    BY <2>14 DEF Crash
  <2>15. CASE Restart
    BY <2>15 DEF Restart
  <2>16. CASE ReviveDead
    <3>1. waiting' \in [Events -> BOOLEAN]
      BY <2>16, Zenon DEF ReviveDead, Revive
    <3>2. /\ status' \in [Events -> Statuses]
          /\ attempts' \in [Events -> Nat]
          /\ failures' \in [Events -> Nat]
          /\ cause' \in [Events -> [refusal : Refusals, batch : SUBSET Events]]
      BY <2>16 DEF ReviveDead, Revive
    <3>3. /\ ops' \in 0..MaxOps
          /\ UNCHANGED <<faults, pc, batch, snapshot, current, answer, handler,
                         copies, refused, agent, credential>>
      BY <2>16 DEF ReviveDead, Revive
    <3>4. QED
      BY <3>1, <3>2, <3>3
  <2>17. ASSUME NEW s \in Slots, Admit(s) PROVE TypeOK'
    BY <2>17 DEF Admit
  <2>18. ASSUME NEW s \in Slots, Unauthorised(s) PROVE TypeOK'
    BY <2>18 DEF Unauthorised
  <2>19. ASSUME NEW s \in Slots, Unprocessable(s) PROVE TypeOK'
    BY <2>19 DEF Unprocessable, Refuse
  <2>e. ASSUME NEW s \in Slots, AnsweredElsewhere(s) PROVE TypeOK'
    BY <2>e DEF AnsweredElsewhere, Refuse
  <2>20. ASSUME NEW s \in Slots, NEW e \in Events, Store(s, e) PROVE TypeOK'
    BY <2>20 DEF Store, NextEvent
  <2>21. ASSUME NEW s \in Slots, NEW e \in Events, StoreRaises(s, e)
         PROVE TypeOK'
    BY <2>21 DEF StoreRaises, NextEvent
  <2>22. ASSUME NEW s \in Slots, Acknowledge(s) PROVE TypeOK'
    BY <2>22 DEF Acknowledge
  <2>23. ASSUME NEW s \in Slots, HandlerFails(s) PROVE TypeOK'
    BY <2>23 DEF HandlerFails
  <2>24. CASE ChangeCredential
    BY <2>24 DEF ChangeCredential
  <2>25. CASE UNCHANGED vars
    BY <2>25 DEF vars
  <2>26. QED
    BY <2>1, <2>2, <2>3, <2>4, <2>5, <2>6, <2>7, <2>8, <2>9, <2>10, <2>11,
       <2>12, <2>13, <2>14, <2>15, <2>16, <2>17, <2>18, <2>19, <2>20, <2>21,
       <2>22, <2>23, <2>24, <2>25, <2>e
       DEF Next, Collector, Uploader, Process, Server, Serve
<1>3. QED
  BY <1>1, <1>2, PTL DEF Spec

-----------------------------------------------------------------------------
(* The inductive invariant.  TLC checks the properties; their proof needs  *)
(* what the steps between a peek and its marks rely on.                    *)

(* The thread holds a batch only inside a tick, and awaits one request.    *)
TickConsistent ==
  /\ pc = "idle" => batch = {}
  /\ agent = "down" => pc = "idle"
  /\ pc = "awaiting" <=> current # NoSlot

(* Whatever the awaited request no longer has to do has been handled.      *)
AwaitedRequest ==
  pc = "awaiting" =>
    /\ handler[current].phase # "free"
    /\ handler[current].phase = "received" => handler[current].todo = batch
    /\ \A e \in batch : e \in handler[current].todo \/ Handled(e)

AckedIsHandled == pc = "acked" => \A e \in batch : Handled(e)

(* The server only works on events that are in the queue.                  *)
ServerKnowsQueued ==
  \A s \in Slots : \A e \in handler[s].todo : status[e] # "absent"

(* The marks of a transient failure follow a failure that was counted.     *)
FailureCounted ==
  pc \in {"transient", "retrying"} =>
    \A e \in batch : \/ failures[e] >= snapshot[e] + 1
                     \/ pc = "retrying" /\ e \in Exhausted

(* The batch is refused for one of its own events, or in front of the      *)
(* handler.                                                                *)
RefusalHasCause ==
  pc = "permanent" =>
    \/ answer = "unparseable" /\ batch \intersect FutureTyped # {}
    \/ answer = "elsewhere"

TickInv == TickConsistent /\ InFlightRowsUntouched
LossInv == AwaitedRequest /\ AckedIsHandled /\ NoSilentLoss
CauseInv == FailureCounted /\ RefusalHasCause /\ DeadOnlyForCause /\ BudgetHonest

IInv == TypeOK /\ TickInv /\ LossInv /\ CauseInv /\ ServerKnowsQueued

-----------------------------------------------------------------------------
(* The batch is untouched by everybody but the tick that holds it.         *)
LEMMA TickStep ==
  ASSUME TypeOK, TickInv, [Next]_vars
  PROVE  TickInv'
<1> USE EventsAreNaturals, BoundsAreNaturals, NoSlotIsNoSlot
    DEF TypeOK, TickSteps, Outcomes, Statuses, Free, TickInv, TickConsistent,
        InFlightRowsUntouched, Exhausted, EndTick, Rows, Answer, Fault, Operate,
        queueVars, tickVars, serverVars, boundVars
<1>1. ASSUME NEW e \in Events, Enqueue(e) PROVE TickInv'
  BY <1>1 DEF Enqueue
<1>2. ASSUME NEW e \in Events, BackoffElapses(e) PROVE TickInv'
  BY <1>2 DEF BackoffElapses
<1>3. CASE Peek
  BY <1>3 DEF Peek, FirstReady, Ready
<1>4. ASSUME NEW s \in Slots, Send(s) PROVE TickInv'
  BY <1>4 DEF Send
<1>5. CASE NoAnswer
  BY <1>5 DEF NoAnswer
<1>6. CASE MarkSent
  BY <1>6 DEF MarkSent
<1>7. CASE HoldForCredential
  BY <1>7 DEF HoldForCredential
<1>8. CASE MarkBatchDead
  BY <1>8 DEF MarkBatchDead
<1>9. CASE MarkExhausted
  BY <1>9 DEF MarkExhausted
<1>10. CASE MarkRetryable
  BY <1>10 DEF MarkRetryable
<1>11. CASE TickError
  BY <1>11 DEF TickError
<1>12. CASE StopSignal
  BY <1>12 DEF StopSignal
<1>13. CASE Exit
  BY <1>13 DEF Exit
<1>14. CASE Crash
  BY <1>14 DEF Crash
<1>15. CASE Restart
  BY <1>15 DEF Restart
<1>16. CASE ReviveDead
  BY <1>16 DEF ReviveDead, Revive
<1>17. ASSUME NEW s \in Slots, Admit(s) PROVE TickInv'
  BY <1>17 DEF Admit
<1>18. ASSUME NEW s \in Slots, Unauthorised(s) PROVE TickInv'
  BY <1>18 DEF Unauthorised
<1>19. ASSUME NEW s \in Slots, Unprocessable(s) PROVE TickInv'
  BY <1>19 DEF Unprocessable, Refuse
<1>e. ASSUME NEW s \in Slots, AnsweredElsewhere(s) PROVE TickInv'
  BY <1>e DEF AnsweredElsewhere, Refuse
<1>20. ASSUME NEW s \in Slots, NEW e \in Events, Store(s, e) PROVE TickInv'
  BY <1>20 DEF Store, NextEvent
<1>21. ASSUME NEW s \in Slots, NEW e \in Events, StoreRaises(s, e) PROVE TickInv'
  BY <1>21 DEF StoreRaises, NextEvent
<1>22. ASSUME NEW s \in Slots, Acknowledge(s) PROVE TickInv'
  BY <1>22 DEF Acknowledge
<1>23. ASSUME NEW s \in Slots, HandlerFails(s) PROVE TickInv'
  BY <1>23 DEF HandlerFails
<1>24. CASE ChangeCredential
  BY <1>24 DEF ChangeCredential
<1>25. CASE UNCHANGED vars
  BY <1>25 DEF vars
<1>26. QED
  BY <1>1, <1>2, <1>3, <1>4, <1>5, <1>6, <1>7, <1>8, <1>9, <1>10, <1>11, <1>12, <1>13, <1>14, <1>15, <1>16, <1>17, <1>18, <1>19, <1>e, <1>20, <1>21, <1>22, <1>23, <1>24, <1>25
     DEF Next, Collector, Uploader, Process, Server, Serve

(* A response is an acknowledgement only when every event was handled.     *)
LEMMA LossStep ==
  ASSUME TypeOK, TickInv, LossInv, [Next]_vars
  PROVE  LossInv'
<1> USE EventsAreNaturals, BoundsAreNaturals, NoSlotIsNoSlot
    DEF TypeOK, TickSteps, Outcomes, Statuses, Free, TickInv, TickConsistent,
        LossInv, AwaitedRequest, AckedIsHandled, NoSilentLoss, Handled, EndTick,
        Rows, Answer, Fault, Operate,
        queueVars, tickVars, serverVars, boundVars
<1>1. ASSUME NEW e \in Events, Enqueue(e) PROVE LossInv'
  BY <1>1 DEF Enqueue
<1>2. ASSUME NEW e \in Events, BackoffElapses(e) PROVE LossInv'
  BY <1>2 DEF BackoffElapses
<1>3. CASE Peek
  BY <1>3 DEF Peek, FirstReady, Ready
<1>4. ASSUME NEW s \in Slots, Send(s) PROVE LossInv'
  BY <1>4 DEF Send
<1>5. CASE NoAnswer
  BY <1>5 DEF NoAnswer
<1>6. CASE MarkSent
  BY <1>6 DEF MarkSent
<1>7. CASE HoldForCredential
  BY <1>7 DEF HoldForCredential
<1>8. CASE MarkBatchDead
  BY <1>8 DEF MarkBatchDead
<1>9. CASE MarkExhausted
  BY <1>9 DEF MarkExhausted
<1>10. CASE MarkRetryable
  BY <1>10 DEF MarkRetryable
<1>11. CASE TickError
  BY <1>11 DEF TickError
<1>12. CASE StopSignal
  BY <1>12 DEF StopSignal
<1>13. CASE Exit
  BY <1>13 DEF Exit
<1>14. CASE Crash
  BY <1>14 DEF Crash
<1>15. CASE Restart
  BY <1>15 DEF Restart
<1>16. CASE ReviveDead
  BY <1>16 DEF ReviveDead, Revive
<1>17. ASSUME NEW s \in Slots, Admit(s) PROVE LossInv'
  BY <1>17 DEF Admit
<1>18. ASSUME NEW s \in Slots, Unauthorised(s) PROVE LossInv'
  BY <1>18 DEF Unauthorised
<1>19. ASSUME NEW s \in Slots, Unprocessable(s) PROVE LossInv'
  BY <1>19 DEF Unprocessable, Refuse
<1>e. ASSUME NEW s \in Slots, AnsweredElsewhere(s) PROVE LossInv'
  BY <1>e DEF AnsweredElsewhere, Refuse
<1>20. ASSUME NEW s \in Slots, NEW e \in Events, Store(s, e) PROVE LossInv'
  BY <1>20 DEF Store, NextEvent
<1>21. ASSUME NEW s \in Slots, NEW e \in Events, StoreRaises(s, e) PROVE LossInv'
  BY <1>21 DEF StoreRaises, NextEvent
<1>22. ASSUME NEW s \in Slots, Acknowledge(s) PROVE LossInv'
  BY <1>22 DEF Acknowledge
<1>23. ASSUME NEW s \in Slots, HandlerFails(s) PROVE LossInv'
  BY <1>23 DEF HandlerFails
<1>24. CASE ChangeCredential
  BY <1>24 DEF ChangeCredential
<1>25. CASE UNCHANGED vars
  BY <1>25 DEF vars
<1>26. QED
  BY <1>1, <1>2, <1>3, <1>4, <1>5, <1>6, <1>7, <1>8, <1>9, <1>10, <1>11, <1>12, <1>13, <1>14, <1>15, <1>16, <1>17, <1>18, <1>19, <1>e, <1>20, <1>21, <1>22, <1>23, <1>24, <1>25
     DEF Next, Collector, Uploader, Process, Server, Serve

(* Dead letters and charged retries follow from failures that happened.    *)
LEMMA CauseStep ==
  ASSUME TypeOK, TickInv, LossInv, CauseInv, [Next]_vars
  PROVE  CauseInv'
<1> USE EventsAreNaturals, BoundsAreNaturals, NoSlotIsNoSlot
    DEF TypeOK, TickSteps, Outcomes, Statuses, Free, TickInv, TickConsistent,
        InFlightRowsUntouched, CauseInv, FailureCounted, RefusalHasCause,
        DeadOnlyForCause, BudgetHonest, Exhausted, ChargeBatch, EndTick, Rows,
        Answer, Fault, Operate, queueVars, tickVars, serverVars, boundVars
<1>1. ASSUME NEW e \in Events, Enqueue(e) PROVE CauseInv'
  BY <1>1 DEF Enqueue
<1>2. ASSUME NEW e \in Events, BackoffElapses(e) PROVE CauseInv'
  BY <1>2 DEF BackoffElapses
<1>3. CASE Peek
  BY <1>3 DEF Peek, FirstReady, Ready
<1>4. ASSUME NEW s \in Slots, Send(s) PROVE CauseInv'
  BY <1>4 DEF Send
<1>5. CASE NoAnswer
  BY <1>5 DEF NoAnswer
<1>6. CASE MarkSent
  BY <1>6 DEF MarkSent
<1>7. CASE HoldForCredential
  BY <1>7 DEF HoldForCredential
<1>8. CASE MarkBatchDead
  BY <1>8 DEF MarkBatchDead
<1>9. CASE MarkExhausted
  BY <1>9 DEF MarkExhausted
<1>10. CASE MarkRetryable
  BY <1>10 DEF MarkRetryable
<1>11. CASE TickError
  BY <1>11 DEF TickError
<1>12. CASE StopSignal
  BY <1>12 DEF StopSignal
<1>13. CASE Exit
  BY <1>13 DEF Exit
<1>14. CASE Crash
  BY <1>14 DEF Crash
<1>15. CASE Restart
  BY <1>15 DEF Restart
<1>16. CASE ReviveDead
  BY <1>16 DEF ReviveDead, Revive
<1>17. ASSUME NEW s \in Slots, Admit(s) PROVE CauseInv'
  BY <1>17 DEF Admit
<1>18. ASSUME NEW s \in Slots, Unauthorised(s) PROVE CauseInv'
  BY <1>18 DEF Unauthorised
<1>19. ASSUME NEW s \in Slots, Unprocessable(s) PROVE CauseInv'
  BY <1>19 DEF Unprocessable, Refuse, LossInv, AwaitedRequest
<1>e. ASSUME NEW s \in Slots, AnsweredElsewhere(s) PROVE CauseInv'
  BY <1>e DEF AnsweredElsewhere, Refuse, LossInv, AwaitedRequest
<1>20. ASSUME NEW s \in Slots, NEW e \in Events, Store(s, e) PROVE CauseInv'
  BY <1>20 DEF Store, NextEvent
<1>21. ASSUME NEW s \in Slots, NEW e \in Events, StoreRaises(s, e) PROVE CauseInv'
  BY <1>21 DEF StoreRaises, NextEvent
<1>22. ASSUME NEW s \in Slots, Acknowledge(s) PROVE CauseInv'
  BY <1>22 DEF Acknowledge
<1>23. ASSUME NEW s \in Slots, HandlerFails(s) PROVE CauseInv'
  BY <1>23 DEF HandlerFails
<1>24. CASE ChangeCredential
  BY <1>24 DEF ChangeCredential
<1>25. CASE UNCHANGED vars
  BY <1>25 DEF vars
<1>26. QED
  BY <1>1, <1>2, <1>3, <1>4, <1>5, <1>6, <1>7, <1>8, <1>9, <1>10, <1>11, <1>12, <1>13, <1>14, <1>15, <1>16, <1>17, <1>18, <1>19, <1>e, <1>20, <1>21, <1>22, <1>23, <1>24, <1>25
     DEF Next, Collector, Uploader, Process, Server, Serve

(* No step removes a row, so the server never holds an unknown event.      *)
LEMMA ServerStep ==
  ASSUME TypeOK, TickInv, ServerKnowsQueued, [Next]_vars
  PROVE  ServerKnowsQueued'
<1> USE EventsAreNaturals, BoundsAreNaturals, NoSlotIsNoSlot
    DEF TypeOK, Statuses, Free, TickInv, TickConsistent,
        InFlightRowsUntouched, ServerKnowsQueued, EndTick, Rows, Answer,
        Fault, Operate, queueVars, tickVars, serverVars, boundVars
<1>1. ASSUME NEW e \in Events, Enqueue(e) PROVE ServerKnowsQueued'
  BY <1>1 DEF Enqueue
<1>2. ASSUME NEW e \in Events, BackoffElapses(e) PROVE ServerKnowsQueued'
  BY <1>2 DEF BackoffElapses
<1>3. CASE Peek
  BY <1>3 DEF Peek, FirstReady, Ready
<1>4. ASSUME NEW s \in Slots, Send(s) PROVE ServerKnowsQueued'
  BY <1>4 DEF Send
<1>5. CASE NoAnswer
  BY <1>5 DEF NoAnswer
<1>6. CASE MarkSent
  BY <1>6 DEF MarkSent
<1>7. CASE HoldForCredential
  BY <1>7 DEF HoldForCredential
<1>8. CASE MarkBatchDead
  BY <1>8 DEF MarkBatchDead
<1>9. CASE MarkExhausted
  BY <1>9 DEF MarkExhausted
<1>10. CASE MarkRetryable
  BY <1>10 DEF MarkRetryable
<1>11. CASE TickError
  BY <1>11 DEF TickError
<1>12. CASE StopSignal
  BY <1>12 DEF StopSignal
<1>13. CASE Exit
  BY <1>13 DEF Exit
<1>14. CASE Crash
  BY <1>14 DEF Crash
<1>15. CASE Restart
  BY <1>15 DEF Restart
<1>16. CASE ReviveDead
  BY <1>16 DEF ReviveDead, Revive
<1>17. ASSUME NEW s \in Slots, Admit(s) PROVE ServerKnowsQueued'
  BY <1>17 DEF Admit
<1>18. ASSUME NEW s \in Slots, Unauthorised(s) PROVE ServerKnowsQueued'
  BY <1>18 DEF Unauthorised
<1>19. ASSUME NEW s \in Slots, Unprocessable(s) PROVE ServerKnowsQueued'
  BY <1>19 DEF Unprocessable, Refuse
<1>e. ASSUME NEW s \in Slots, AnsweredElsewhere(s) PROVE ServerKnowsQueued'
  BY <1>e DEF AnsweredElsewhere, Refuse
<1>20. ASSUME NEW s \in Slots, NEW e \in Events, Store(s, e) PROVE ServerKnowsQueued'
  BY <1>20 DEF Store, NextEvent
<1>21. ASSUME NEW s \in Slots, NEW e \in Events, StoreRaises(s, e) PROVE ServerKnowsQueued'
  BY <1>21 DEF StoreRaises, NextEvent
<1>22. ASSUME NEW s \in Slots, Acknowledge(s) PROVE ServerKnowsQueued'
  BY <1>22 DEF Acknowledge
<1>23. ASSUME NEW s \in Slots, HandlerFails(s) PROVE ServerKnowsQueued'
  BY <1>23 DEF HandlerFails
<1>24. CASE ChangeCredential
  BY <1>24 DEF ChangeCredential
<1>25. CASE UNCHANGED vars
  BY <1>25 DEF vars
<1>26. QED
  BY <1>1, <1>2, <1>3, <1>4, <1>5, <1>6, <1>7, <1>8, <1>9, <1>10, <1>11, <1>12, <1>13, <1>14, <1>15, <1>16, <1>17, <1>18, <1>19, <1>e, <1>20, <1>21, <1>22, <1>23, <1>24, <1>25
     DEF Next, Collector, Uploader, Process, Server, Serve

-----------------------------------------------------------------------------
LEMMA Initially == Init => IInv
  BY EventsAreNaturals, BoundsAreNaturals, NoSlotIsNoSlot
     DEF Init, IInv, TypeOK, Statuses, Outcomes, TickSteps, Free, TickInv,
         TickConsistent, InFlightRowsUntouched, LossInv, AwaitedRequest,
         AckedIsHandled, NoSilentLoss, Handled, CauseInv, FailureCounted,
         RefusalHasCause, DeadOnlyForCause, BudgetHonest, ServerKnowsQueued,
         Refusals, NoCause

(* The conjunction of the invariants above is inductive. *)
THEOREM Invariance == Spec => []IInv
<1>1. TypeOK /\ IInv /\ [Next]_vars => TickInv' /\ LossInv' /\ CauseInv'
                                       /\ ServerKnowsQueued'
  BY TickStep, LossStep, CauseStep, ServerStep DEF IInv
<1>2. TypeOK /\ TypeOK' /\ IInv /\ [Next]_vars => IInv'
  BY <1>1 DEF IInv
<1>3. QED
  BY <1>2, Initially, TypeCorrect, PTL DEF Spec

(* An event the agent ticked off was stored or openly refused, whatever    *)
(* crashes, timeouts, retries and revivals came in between.                *)
THEOREM NothingLostSilently == Spec => []NoSilentLoss
<1>1. IInv => NoSilentLoss
  BY DEF IInv, LossInv
<1>2. QED
  BY <1>1, Invariance, PTL

(* The unguarded UPDATEs of the queue always find the rows peek() read. *)
THEOREM MarksFindTheirRows == Spec => []InFlightRowsUntouched
<1>1. IInv => InFlightRowsUntouched
  BY DEF IInv, TickInv
<1>2. QED
  BY <1>1, Invariance, PTL

(* A dead letter has exhausted its own budget, or was refused together     *)
(* with an event of its own batch that the server cannot parse, or with a  *)
(* permanent status from in front of the handler.                          *)
THEOREM DeadLettersHaveCause == Spec => []DeadOnlyForCause
<1>1. IInv => DeadOnlyForCause
  BY DEF IInv, CauseInv
<1>2. QED
  BY <1>1, Invariance, PTL

(* Attempts never exceed the failures that happened, nor max_retries. *)
THEOREM RetryBudgetHonest == Spec => []BudgetHonest
<1>1. IInv => BudgetHonest
  BY DEF IInv, CauseInv
<1>2. QED
  BY <1>1, Invariance, PTL

-----------------------------------------------------------------------------
(* No step of any process takes an event out of "sent". *)
THEOREM SentForGood == Spec => SentIsFinal
<1>1. IInv /\ [Next]_vars =>
        [\A e \in Events : status[e] = "sent" => status'[e] = "sent"]_vars
  <2> SUFFICES ASSUME IInv, Next, NEW e \in Events, status[e] = "sent"
               PROVE  status'[e] = "sent"
    OBVIOUS
  <2> USE DEF IInv, TypeOK, TickInv, InFlightRowsUntouched, Rows, Exhausted,
              queueVars
  <2>1. ASSUME NEW f \in Events, Enqueue(f) PROVE status'[e] = "sent"
    BY <2>1 DEF Enqueue
  <2>2. CASE MarkSent
    BY <2>2 DEF MarkSent
  <2>3. CASE MarkBatchDead
    BY <2>3 DEF MarkBatchDead
  <2>4. CASE MarkExhausted
    BY <2>4 DEF MarkExhausted
  <2>5. CASE ReviveDead
    BY <2>5 DEF ReviveDead, Revive
  <2>6. CASE UNCHANGED status
    BY <2>6
  <2>7. QED
    BY <2>1, <2>2, <2>3, <2>4, <2>5, <2>6
       DEF Next, Collector, Uploader, Process, Server, Serve, BackoffElapses,
           Peek, Send, NoAnswer, HoldForCredential, MarkRetryable, TickError,
           StopSignal, Exit, Crash, Restart, Admit, Unauthorised,
           Unprocessable, AnsweredElsewhere, Refuse, Store, StoreRaises,
           Acknowledge, HandlerFails, ChangeCredential
<1>2. QED
  BY <1>1, Invariance, PTL DEF Spec, SentIsFinal

-----------------------------------------------------------------------------
(* Every copy of an event is paid for.  An event can be stored once more   *)
(* for each request that still carries it, and once more if the agent may  *)
(* still send it; a tick that will never mark it, and a process about to   *)
(* exit with such a tick, cost a fault first.                              *)
Carriers(e) == {s \in Slots : e \in handler[s].todo}

OnItsWay(e) == e \in batch /\ pc \in {"awaiting", "acked"}
Spent(e) == status[e] = "sent" \/ OnItsWay(e)
StopPending == agent = "stopping"

AtMost(e, n) ==
  /\ IsFiniteSet(Carriers(e))
  /\ copies[e] + Cardinality(Carriers(e)) + n <= faults + 1

Paid(e) ==
  AtMost(e, (IF Spent(e) THEN 0 ELSE 1) + (IF StopPending THEN 1 ELSE 0))

LEMMA OneMore ==
  ASSUME NEW A, NEW B, NEW s, IsFiniteSet(A), B = A \union {s}
  PROVE  /\ IsFiniteSet(B) /\ Cardinality(A) \in Nat /\ Cardinality(B) \in Nat
         /\ Cardinality(B) <= Cardinality(A) + 1
<1> DEFINE C == A \union {s}
<1>1. IsFiniteSet(C) /\ Cardinality(C) = IF s \in A THEN Cardinality(A) ELSE Cardinality(A) + 1
  BY FS_AddElement
<1>2. Cardinality(A) \in Nat
  BY FS_CardinalityType
<1> HIDE DEF C
<1>3. Cardinality(C) \in Nat /\ Cardinality(C) <= Cardinality(A) + 1
  BY <1>1, <1>2
<1>4. B = C
  BY DEF C
<1> QED
  BY <1>1, <1>2, <1>3, <1>4, Zenon

LEMMA OneLess ==
  ASSUME NEW A, NEW B, NEW s, IsFiniteSet(A), B = A \ {s}
  PROVE  /\ IsFiniteSet(B) /\ Cardinality(A) \in Nat /\ Cardinality(B) \in Nat
         /\ Cardinality(B) <= Cardinality(A)
         /\ s \in A => Cardinality(B) + 1 <= Cardinality(A)
<1> DEFINE C == A \ {s}
<1>1. IsFiniteSet(C) /\ Cardinality(C) = IF s \in A THEN Cardinality(A) - 1 ELSE Cardinality(A)
  BY FS_RemoveElement
<1>2. Cardinality(A) \in Nat /\ Cardinality(C) \in Nat
  BY <1>1, FS_CardinalityType
<1> HIDE DEF C
<1>3. Cardinality(C) <= Cardinality(A) /\ (s \in A => Cardinality(C) + 1 <= Cardinality(A))
  BY <1>1, <1>2
<1>4. B = C
  BY DEF C
<1> QED
  BY <1>1, <1>2, <1>3, <1>4, Zenon

(* A request leaves the server: with its answer, or without one.           *)
LEMMA AnswerPaid ==
  ASSUME TypeOK, TickInv, NEW e \in Events, Paid(e), NEW s \in Slots, NEW outcome \in Outcomes,
         Answer(s, outcome), UNCHANGED <<status, agent, copies, batch>>,
         \/ faults' = faults + 1
         \/ /\ faults' = faults
            /\ current = s /\ e \in batch => outcome = "acked" \/ s \in Carriers(e)
  PROVE  Paid(e)'
<1> USE BoundsAreNaturals DEF TypeOK
<1> DEFINE n == Cardinality(Carriers(e))
           m == Cardinality(Carriers(e)')
<1>1. Carriers(e)' = Carriers(e) \ {s}
  BY DEF Answer, Carriers, Free
<1>2. /\ IsFiniteSet(Carriers(e)') /\ n \in Nat /\ m \in Nat /\ m <= n
      /\ s \in Carriers(e) => m + 1 <= n
  BY <1>1, OneLess, Zenon DEF Paid, AtMost
<1>3. /\ pc' = IF current = s THEN outcome ELSE pc
      /\ pc = "awaiting" <=> current # NoSlot
  BY DEF Answer, TickInv, TickConsistent
<1>4. Spent(e) => Spent(e)' \/ faults' = faults + 1 \/ s \in Carriers(e)
  BY <1>3, NoSlotIsNoSlot DEF Spent, OnItsWay
<1>5. StopPending' <=> StopPending
  BY DEF StopPending
<1> HIDE DEF n, m
<1>6. faults \in Nat /\ faults' \in {faults, faults + 1} /\ copies[e] \in Nat /\ copies'[e] = copies[e]
  OBVIOUS
<1> QED
  BY <1>2, <1>4, <1>5, <1>6 DEF Paid, AtMost, n, m

(* A step of the agent: it may send an event again only for a fault, and   *)
(* the fault of a stop signal pays for the exit.                           *)
Charged(e) ==
  /\ UNCHANGED <<handler, copies>>
  /\ \/ /\ faults' = faults
        /\ Spent(e) => Spent(e)'
        /\ StopPending' => StopPending
     \/ faults' = faults + 1 /\ (StopPending' => StopPending)
     \/ faults' = faults + 1 /\ (Spent(e) => Spent(e)')
     \/ faults' = faults /\ StopPending /\ ~StopPending'

LEMMA ChargedPaid ==
  ASSUME TypeOK, NEW e \in Events, Paid(e), Charged(e)
  PROVE  Paid(e)'
<1>1. Carriers(e)' = Carriers(e)
  BY DEF Charged, Carriers
<1>2. Cardinality(Carriers(e)) \in Nat
  BY FS_CardinalityType DEF Paid, AtMost
<1>3. faults \in Nat /\ copies[e] \in Nat /\ copies'[e] = copies[e]
  BY BoundsAreNaturals DEF TypeOK, Charged
<1> QED
  BY <1>1, <1>2, <1>3 DEF Charged, Paid, AtMost

LEMMA PaidStep ==
  ASSUME IInv, [Next]_vars, NEW e \in Events, Paid(e)
  PROVE  Paid(e)'
<1> USE DEF queueVars, tickVars, serverVars, boundVars
<1>t. TypeOK /\ TickInv
  BY DEF IInv
<1>n. faults \in Nat /\ copies[e] \in Nat
  BY <1>t, BoundsAreNaturals DEF TypeOK
<1>q. Charged(e) => Paid(e)'
  BY <1>t, ChargedPaid
<1> USE DEF Charged, Spent, OnItsWay, StopPending, EndTick, Fault, Operate
<1>1. ASSUME NEW f \in Events, Enqueue(f) PROVE Charged(e)
  BY <1>1, <1>t DEF Enqueue, TypeOK
<1>2. ASSUME NEW f \in Events, BackoffElapses(f) PROVE Charged(e)
  BY <1>2 DEF BackoffElapses
<1>3. CASE Peek
  BY <1>3, <1>q, <1>t DEF Peek, TickInv, TickConsistent
<1>4. ASSUME NEW s \in Slots, Send(s) PROVE Paid(e)'
  <2> DEFINE n == Cardinality(Carriers(e))
             m == Cardinality(Carriers(e)')
  <2>0. /\ faults' = faults /\ copies' = copies /\ (StopPending' <=> StopPending)
        /\ pc = "peeked" /\ pc' = "awaiting" /\ batch' = batch /\ status' = status
    BY <1>4 DEF Send
  <2>1. CASE e \in batch
    <3>1. ~Spent(e) /\ Spent(e)'
      BY <1>t, <2>0, <2>1 DEF TickInv, InFlightRowsUntouched
    <3>2. Carriers(e)' = Carriers(e) \union {s}
      BY <1>4, <1>t, <2>1 DEF Send, Carriers, TypeOK
    <3>3. IsFiniteSet(Carriers(e)') /\ n \in Nat /\ m \in Nat /\ m <= n + 1
      BY <3>2, OneMore, Zenon DEF Paid, AtMost
    <3> QED
      BY <1>n, <2>0, <3>1, <3>3 DEF Paid, AtMost
  <2>2. CASE e \notin batch
    <3>1. Spent(e)' <=> Spent(e)
      BY <2>0, <2>2
    <3>2. Carriers(e)' = Carriers(e) \ {s}
      BY <1>4, <1>t, <2>2 DEF Send, Carriers, TypeOK, Free
    <3>3. IsFiniteSet(Carriers(e)') /\ n \in Nat /\ m \in Nat /\ m <= n
      BY <3>2, OneLess, Zenon DEF Paid, AtMost
    <3> QED
      BY <1>n, <2>0, <3>1, <3>3 DEF Paid, AtMost
  <2> QED
    BY <2>1, <2>2
<1>5. CASE NoAnswer
  BY <1>5, <1>q DEF NoAnswer
<1>6. CASE MarkSent
  BY <1>6, <1>q, <1>t DEF MarkSent, Rows, TypeOK
<1>7. CASE HoldForCredential
  BY <1>7, <1>q DEF HoldForCredential
<1>8. CASE MarkBatchDead
  BY <1>8, <1>q, <1>t DEF MarkBatchDead, Rows, TypeOK, TickInv, InFlightRowsUntouched
<1>9. CASE MarkExhausted
  BY <1>9, <1>q, <1>t DEF MarkExhausted, Exhausted, Rows, TypeOK, TickInv, InFlightRowsUntouched
<1>10. CASE MarkRetryable
  BY <1>10, <1>q DEF MarkRetryable
<1>11. CASE TickError
  BY <1>11, <1>q DEF TickError
<1>12. CASE StopSignal
  BY <1>12, <1>q DEF StopSignal
<1>13. CASE Exit
  BY <1>13, <1>q DEF Exit
<1>14. CASE Crash
  BY <1>14, <1>q DEF Crash
<1>15. CASE Restart
  BY <1>15, <1>q DEF Restart
<1>16. CASE ReviveDead
  BY <1>16, <1>q, <1>t DEF ReviveDead, Revive, Rows, TypeOK
<1>17. ASSUME NEW s \in Slots, Admit(s) PROVE Paid(e)'
  <2>1. Carriers(e)' = Carriers(e)
    BY <1>17, <1>t DEF Admit, Carriers, TypeOK
  <2>2. UNCHANGED <<copies, faults, status, batch, pc, agent>>
    BY <1>17 DEF Admit
  <2> QED
    BY <2>1, <2>2 DEF Paid, AtMost
<1>18. ASSUME NEW s \in Slots, Unauthorised(s) \/ Unprocessable(s) PROVE Paid(e)'
  <2>1. PICK outcome \in Outcomes : Answer(s, outcome)
    BY <1>18 DEF Unauthorised, Unprocessable, Refuse, Outcomes
  <2>2. handler[s].phase = "received" /\ UNCHANGED <<status, agent, copies, batch, faults>>
    BY <1>18 DEF Unauthorised, Unprocessable, Refuse
  <2>3. current = s /\ e \in batch => s \in Carriers(e)
    BY <1>t, <2>2, NoSlotIsNoSlot
       DEF Carriers, IInv, LossInv, AwaitedRequest, TickInv, TickConsistent
  <2> QED
    BY <1>t, <2>1, <2>2, <2>3, AnswerPaid
<1>19. ASSUME NEW s \in Slots, Acknowledge(s) PROVE Paid(e)'
  <2>1. Answer(s, "acked") /\ UNCHANGED <<status, agent, copies, batch, faults>>
    BY <1>19 DEF Acknowledge
  <2> QED
    BY <1>t, <2>1, AnswerPaid DEF Outcomes
<1>20. ASSUME NEW s \in Slots, HandlerFails(s) PROVE Paid(e)'
  <2>1. /\ Answer(s, "transient") /\ UNCHANGED <<status, agent, copies, batch>>
        /\ faults' = faults + 1
    BY <1>20 DEF HandlerFails
  <2> QED
    BY <1>t, <2>1, AnswerPaid DEF Outcomes
<1>21. ASSUME NEW s \in Slots, NEW f \in Events, Store(s, f) \/ StoreRaises(s, f)
       PROVE  Paid(e)'
  <2> DEFINE n == Cardinality(Carriers(e))
             m == Cardinality(Carriers(e)')
  <2>1. UNCHANGED <<status, agent, batch, pc>> /\ NextEvent(s, f)
        /\ faults' \in {faults, faults + 1}
    BY <1>21 DEF Store, StoreRaises
  <2>2. (Spent(e)' <=> Spent(e)) /\ (StopPending' <=> StopPending)
    BY <2>1
  <2>3. \E k \in {0, 1} : copies' = [copies EXCEPT ![f] = @ + k]
    BY <1>21 DEF Store, StoreRaises
  <2>4. CASE e = f
    <3>1. Carriers(e)' = Carriers(e) \ {s} /\ s \in Carriers(e)
      BY <1>t, <2>1, <2>4 DEF NextEvent, Carriers, TypeOK
    <3>2. copies'[e] \in {copies[e], copies[e] + 1}
      BY <1>n, <1>t, <2>3, <2>4 DEF TypeOK
    <3>3. IsFiniteSet(Carriers(e)') /\ n \in Nat /\ m \in Nat /\ m + 1 <= n
      BY <3>1, OneLess, Zenon DEF Paid, AtMost
    <3> QED
      BY <1>n, <2>1, <2>2, <3>2, <3>3 DEF Paid, AtMost
  <2>5. CASE e # f
    <3>1. Carriers(e)' = Carriers(e)
      BY <1>t, <2>1, <2>5 DEF NextEvent, Carriers, TypeOK
    <3>2. copies'[e] = copies[e]
      BY <1>t, <2>3, <2>5 DEF TypeOK
    <3>3. n \in Nat
      BY FS_CardinalityType DEF Paid, AtMost
    <3> QED
      BY <1>n, <2>1, <2>2, <3>1, <3>2, <3>3 DEF Paid, AtMost
  <2> QED
    BY <2>4, <2>5
<1>22. CASE ChangeCredential
  BY <1>22, <1>q DEF ChangeCredential
<1>23. CASE UNCHANGED vars
  BY <1>23, <1>q DEF vars
<1>24. ASSUME NEW s \in Slots, AnsweredElsewhere(s) PROVE Paid(e)'
  <2>1. /\ Answer(s, "permanent") /\ UNCHANGED <<status, agent, copies, batch>>
        /\ faults' = faults + 1
    BY <1>24 DEF AnsweredElsewhere, Refuse
  <2> QED
    BY <1>t, <2>1, AnswerPaid DEF Outcomes
<1> QED
  BY <1>q, <1>1, <1>2, <1>3, <1>4, <1>5, <1>6, <1>7, <1>8, <1>9, <1>10, <1>11, <1>12,
     <1>13, <1>14, <1>15, <1>16, <1>17, <1>18, <1>19, <1>20, <1>21, <1>22, <1>23, <1>24
     DEF Next, Collector, Uploader, Process, Server, Serve

(* Without faults every event is stored at most once, and each fault adds  *)
(* at most one copy: at-least-once delivery repeats only what it has to.   *)
THEOREM CopiesArePaid == Spec => []DuplicatesNeedFaults
<1>1. Init => \A e \in Events : Paid(e)
  <2> SUFFICES ASSUME Init, NEW e \in Events PROVE Paid(e)
    OBVIOUS
  <2>1. Carriers(e) = {}
    BY DEF Init, Carriers, Free
  <2>2. IsFiniteSet(Carriers(e)) /\ Cardinality(Carriers(e)) = 0
    BY <2>1, FS_EmptySet, Zenon
  <2> QED
    BY <2>2 DEF Init, Paid, AtMost, Spent, StopPending, OnItsWay
<1>2. IInv /\ [Next]_vars /\ (\A e \in Events : Paid(e)) => (\A e \in Events : Paid(e))'
  BY PaidStep
<1>3. TypeOK /\ (\A e \in Events : Paid(e)) => DuplicatesNeedFaults
  <2> SUFFICES ASSUME TypeOK, NEW e \in Events, Paid(e) PROVE copies[e] <= faults + 1
    BY DEF DuplicatesNeedFaults
  <2> QED
    BY FS_CardinalityType, BoundsAreNaturals DEF Paid, AtMost, TypeOK
<1> QED
  BY <1>1, <1>2, <1>3, Invariance, TypeCorrect, PTL DEF Spec

-----------------------------------------------------------------------------
(* The abstract promise is implemented: every step of the agent, of the    *)
(* maintenance process and of the server is a step of ReliableDelivery on  *)
(* the mapped state, or leaves the mapped state unchanged.                 *)

(* Writing one status into a set of rows moves those events and no other.  *)
LEMMA RowsMove ==
  ASSUME NEW S \in SUBSET Events, NEW st \in Statuses,
         status' = Rows(S, status, st)
  PROVE  Promise!Move(S, PhaseOf(st))
<1>1. \A e \in Events :
        PhaseOf(status'[e]) = IF e \in S THEN PhaseOf(st)
                                         ELSE PhaseOf(status[e])
  BY DEF Rows
<1>2. QED
  BY <1>1 DEF Promise!Move

(* Queue, uploader and server together do what ReliableDelivery promises:  *)
(* an event is settled only when it is stored or declined, and until then  *)
(* held or parked.                                                         *)
THEOREM Implements == Spec => KeepsPromise
<1>1. Init => Promise!AbsInit
  BY DEF Init, Promise!AbsInit, PhaseOf
<1>2. IInv /\ [Next]_vars => [Promise!AbsNext]_(Promise!absVars)
  <2> SUFFICES ASSUME IInv, [Next]_vars
               PROVE  Promise!AbsNext \/ UNCHANGED Promise!absVars
    OBVIOUS
  <2>t. TypeOK
    BY DEF IInv
  <2>r. \A e \in batch : status[e] = "pending" \/ pc = "retrying"
    BY DEF IInv, TickInv, InFlightRowsUntouched
  <2>1. ASSUME NEW e \in Events, Enqueue(e) PROVE Promise!AbsNext
    <3>1. status' = Rows({e}, status, "pending")
      BY <2>1, <2>t DEF Enqueue, TypeOK, Rows
    <3>2. Promise!Move({e}, "held")
      BY <3>1, <2>t, RowsMove DEF Statuses, PhaseOf
    <3>3. Promise!Hold(e)
      BY <2>1, <3>2 DEF Enqueue, serverVars, PhaseOf, Promise!Hold
    <3>4. QED
      BY <3>3 DEF Promise!AbsNext
  <2>2. CASE MarkSent
    <3>1. \A e \in batch : status[e] = "pending" /\ Handled(e)
      BY <2>2, <2>r DEF MarkSent, IInv, LossInv, AckedIsHandled
    <3>2. Promise!Move(batch, "settled")
      BY <2>2, <2>t, RowsMove DEF MarkSent, TypeOK, Statuses, PhaseOf
    <3>3. Promise!Settle(batch)
      BY <2>2, <2>t, <3>1, <3>2 DEF MarkSent, serverVars, TypeOK, Handled,
            PhaseOf, Promise!Settle
    <3>4. QED
      BY <2>t, <3>3 DEF Promise!AbsNext, TypeOK
  <2>3. CASE MarkBatchDead
    <3>1. \A e \in batch : status[e] = "pending"
      BY <2>3, <2>r DEF MarkBatchDead
    <3>2. Promise!Move(batch, "parked")
      BY <2>3, <2>t, RowsMove DEF MarkBatchDead, Exhausted, TypeOK, Statuses, PhaseOf
    <3>3. Promise!Park(batch)
      BY <2>3, <2>t, <3>1, <3>2 DEF MarkBatchDead, serverVars, TypeOK, Exhausted,
            PhaseOf, Promise!Park
    <3>4. QED
      BY <2>t, <3>3 DEF Promise!AbsNext, TypeOK, Exhausted
  <2>4. CASE MarkExhausted
    <3>1. \A e \in Exhausted : status[e] = "pending"
      BY <2>4, <2>r DEF MarkExhausted, Exhausted
    <3>2. Promise!Move(Exhausted, "parked")
      BY <2>4, <2>t, RowsMove DEF MarkExhausted, Exhausted, TypeOK, Statuses, PhaseOf
    <3>3. Promise!Park(Exhausted)
      BY <2>4, <2>t, <3>1, <3>2 DEF MarkExhausted, serverVars, TypeOK, Exhausted,
            PhaseOf, Promise!Park
    <3>4. QED
      BY <2>t, <3>3 DEF Promise!AbsNext, TypeOK, Exhausted
  <2>5. CASE ReviveDead
    <3> DEFINE dead == {e \in Events : status[e] = "dead"}
    <3>1. Promise!Move(dead, "held")
      BY <2>5, RowsMove DEF ReviveDead, Revive, Statuses, PhaseOf
    <3>2. dead = {e \in Events :
                    [f \in Events |-> PhaseOf(status[f])][e] = "parked"}
      BY <2>t DEF TypeOK, Statuses, PhaseOf
    <3>3. Promise!Unpark
      BY <2>5, <3>1, <3>2 DEF ReviveDead, Revive, serverVars, Promise!Unpark
    <3>4. QED
      BY <3>3 DEF Promise!AbsNext
  <2>6. ASSUME NEW s \in Slots, NEW e \in Events, Store(s, e)
        PROVE  Promise!AbsNext
    <3>1. status[e] # "absent"
      BY <2>6 DEF Store, NextEvent, IInv, ServerKnowsQueued
    <3>2. Promise!Handle(e, TRUE, FALSE)
      BY <2>6, <2>t, <3>1 DEF Store, queueVars, TypeOK, Statuses, PhaseOf,
            Promise!Handle
    <3>3. QED
      BY <3>2 DEF Promise!AbsNext
  <2>7. ASSUME NEW s \in Slots, NEW e \in Events, StoreRaises(s, e)
        PROVE  Promise!AbsNext
    <3>1. status[e] # "absent"
      BY <2>7 DEF StoreRaises, NextEvent, IInv, ServerKnowsQueued
    <3>2. Promise!Handle(e, TRUE, TRUE) \/ Promise!Handle(e, FALSE, TRUE)
      BY <2>7, <2>t, <3>1 DEF StoreRaises, queueVars, TypeOK, Statuses,
            PhaseOf, Promise!Handle
    <3>3. QED
      BY <3>2 DEF Promise!AbsNext
  <2>8. CASE UNCHANGED <<status, copies, refused>>
    BY <2>8 DEF Promise!absVars, PhaseOf
  <2>9. QED
    BY <2>1, <2>2, <2>3, <2>4, <2>5, <2>6, <2>7, <2>8
       DEF Next, Collector, Uploader, Process, Server, Serve, BackoffElapses,
           Peek, Send, NoAnswer, HoldForCredential, MarkRetryable, TickError,
           StopSignal, Exit, Crash, Restart, Admit, Unauthorised,
           Unprocessable, AnsweredElsewhere, Refuse, Acknowledge,
           HandlerFails, ChangeCredential, queueVars, serverVars, vars
<1>3. QED
  BY <1>1, <1>2, Invariance, PTL DEF Spec, KeepsPromise, Promise!AbsSpec

-----------------------------------------------------------------------------
(* Snapshots and the changes between them (FolderWatch). *)

(* A change tells of a path in one of the two snapshots. *)
LEMMA ChangesSound ==
  ASSUME NEW a, NEW b, NEW c \in Diff(a, b)
  PROVE  \/ /\ c.kind = "modified" /\ c.path \in DOMAIN a.files /\ c.path \in DOMAIN b.files
            /\ c.state = b.files[c.path] /\ a.files[c.path] # b.files[c.path]
         \/ /\ c.kind = "renamed" /\ <<c.from, c.path>> \in Renames(a, b)
            /\ c.from \in Gone(a, b) /\ c.path \in Appeared(a, b)
            /\ c.state = b.files[c.path] /\ a.files[c.from] = c.state
         \/ /\ c.kind = "created" /\ c.path \in Appeared(a, b)
            /\ ~ \E r \in Renames(a, b) : r[2] = c.path
            /\ c.state = b.files[c.path]
         \/ /\ c.kind = "deleted" /\ c.path \in Gone(a, b)
<1>1. CASE c \in {Change("modified", p, p, b.files[p]) :
                    p \in {p \in DOMAIN a.files \cap DOMAIN b.files : a.files[p] # b.files[p]}}
  BY <1>1 DEF Change
<1>2. CASE c \in {Change("renamed", r[2], r[1], b.files[r[2]]) : r \in Renames(a, b)}
  <2>1. PICK r \in Renames(a, b) : c = Change("renamed", r[2], r[1], b.files[r[2]])
    BY <1>2
  <2>2. r = <<r[1], r[2]>> /\ r[1] \in Gone(a, b) /\ r[2] \in Appeared(a, b)
        /\ a.files[r[1]] = b.files[r[2]]
    BY DEF Renames
  <2> QED
    BY <2>1, <2>2 DEF Change
<1>3. CASE c \in {Change("created", q, q, b.files[q]) :
                    q \in Appeared(a, b) \ {r[2] : r \in Renames(a, b)}}
  BY <1>3 DEF Change
<1>4. CASE c \in {Change("deleted", p, p, a.files[p]) :
                    p \in Gone(a, b) \ {r[1] : r \in Renames(a, b)}}
  BY <1>4 DEF Change
<1> QED
  BY <1>1, <1>2, <1>3, <1>4 DEF Diff

(* A path comes by one change only. *)
LEMMA OneArrival ==
  ASSUME NEW a, NEW b, NEW c \in Diff(a, b), NEW d \in Diff(a, b), c.path = d.path,
         c.kind \in {"created", "renamed"}, d.kind \in {"created", "renamed"}
  PROVE  c.kind = d.kind /\ (c.kind = "renamed" => c.from = d.from)
<1>1. CASE c.kind = "renamed" /\ d.kind = "renamed"
  <2>1. <<c.from, c.path>> \in Renames(a, b) /\ <<d.from, c.path>> \in Renames(a, b)
    BY <1>1, ChangesSound
  <2>2. /\ c.from \in Gone(a, b) /\ d.from \in Gone(a, b)
        /\ a.files[c.from] = b.files[c.path] /\ a.files[d.from] = b.files[c.path]
        /\ \A p \in Gone(a, b) \ {c.from} : a.files[p] # a.files[c.from]
    BY <2>1 DEF Renames
  <2> QED
    BY <1>1, <2>2
<1>2. CASE c.kind = "renamed" /\ d.kind = "created"
  <2>1. <<c.from, c.path>> \in Renames(a, b) /\ ~ \E r \in Renames(a, b) : r[2] = d.path
    BY <1>2, ChangesSound
  <2> QED
    BY <2>1
<1>3. CASE c.kind = "created" /\ d.kind = "renamed"
  <2>1. <<d.from, d.path>> \in Renames(a, b) /\ ~ \E r \in Renames(a, b) : r[2] = c.path
    BY <1>3, ChangesSound
  <2> QED
    BY <2>1
<1> QED
  BY <1>1, <1>2, <1>3

(* Nothing that changed is left out. *)
LEMMA ChangesComplete ==
  ASSUME NEW a, NEW b
  PROVE  /\ \A p \in DOMAIN a.files \cap DOMAIN b.files : a.files[p] # b.files[p] =>
               \E c \in Diff(a, b) : c.kind = "modified" /\ c.path = p
         /\ \A p \in Appeared(a, b) :
               \E c \in Diff(a, b) : c.kind \in {"created", "renamed"} /\ c.path = p
         /\ \A p \in Gone(a, b) :
               \E c \in Diff(a, b) : \/ c.kind = "deleted" /\ c.path = p
                                     \/ c.kind = "renamed" /\ c.from = p
<1>1. ASSUME NEW p \in DOMAIN a.files \cap DOMAIN b.files, a.files[p] # b.files[p]
      PROVE  \E c \in Diff(a, b) : c.kind = "modified" /\ c.path = p
  <2>1. Change("modified", p, p, b.files[p]) \in Diff(a, b)
    BY <1>1 DEF Diff
  <2> QED
    BY <2>1 DEF Change
<1>2. ASSUME NEW p \in Appeared(a, b)
      PROVE  \E c \in Diff(a, b) : c.kind \in {"created", "renamed"} /\ c.path = p
  <2>1. CASE \E r \in Renames(a, b) : r[2] = p
    <3>1. PICK r \in Renames(a, b) : r[2] = p
      BY <2>1
    <3>2. Change("renamed", r[2], r[1], b.files[r[2]]) \in Diff(a, b)
      BY DEF Diff
    <3> QED
      BY <3>1, <3>2 DEF Change
  <2>2. CASE ~ \E r \in Renames(a, b) : r[2] = p
    <3>1. Change("created", p, p, b.files[p]) \in Diff(a, b)
      BY <2>2 DEF Diff
    <3> QED
      BY <3>1 DEF Change
  <2> QED
    BY <2>1, <2>2
<1>3. ASSUME NEW p \in Gone(a, b)
      PROVE  \E c \in Diff(a, b) : \/ c.kind = "deleted" /\ c.path = p
                                   \/ c.kind = "renamed" /\ c.from = p
  <2>1. CASE \E r \in Renames(a, b) : r[1] = p
    <3>1. PICK r \in Renames(a, b) : r[1] = p
      BY <2>1
    <3>2. Change("renamed", r[2], r[1], b.files[r[2]]) \in Diff(a, b)
      BY DEF Diff
    <3> QED
      BY <3>1, <3>2 DEF Change
  <2>2. CASE ~ \E r \in Renames(a, b) : r[1] = p
    <3>1. Change("deleted", p, p, a.files[p]) \in Diff(a, b)
      BY <2>2 DEF Diff
    <3> QED
      BY <3>1 DEF Change
  <2> QED
    BY <2>1, <2>2
<1> QED
  BY <1>1, <1>2, <1>3

-----------------------------------------------------------------------------
(* A scan (FolderWatch). *)

\* What settles was seen, as it is remembered.
Tracks(watcher) ==
    /\ DOMAIN watcher.pending \subseteq DOMAIN watcher.last.files
    /\ \A p \in DOMAIN watcher.pending : watcher.pending[p] = watcher.last.files[p]

Young(watcher, b) ==
    {c.path : c \in {c \in Diff(watcher.last, b) : IsYoung(watcher.pending, c)}}

Still(watcher, b) == (DOMAIN watcher.pending \cap DOMAIN b.files) \ Settled(watcher.pending, b)

(* The watcher after a scan, and what it tracks. *)
LEMMA ScannedIs ==
  ASSUME NEW w, NEW b
  PROVE  /\ Scanned(w, b).last = b
         /\ DOMAIN Scanned(w, b).pending = Young(w, b) \cup Still(w, b)
         /\ \A p \in Young(w, b) \cup Still(w, b) : Scanned(w, b).pending[p] = b.files[p]
         /\ Young(w, b) \subseteq Appeared(w.last, b)
         /\ Tracks(Scanned(w, b))
<1>1. Scanned(w, b) = [last |-> b, pending |-> Restrict(b.files, Young(w, b) \cup Still(w, b))]
  BY DEF Scanned, Young, Still
<1>2. Scanned(w, b).pending = [p \in Young(w, b) \cup Still(w, b) |-> b.files[p]]
  BY <1>1 DEF Restrict
<1>3. ASSUME NEW p \in Young(w, b)
      PROVE  p \in Appeared(w.last, b)
  <2>1. PICK c \in Diff(w.last, b) : IsYoung(w.pending, c) /\ c.path = p
    BY <1>3 DEF Young
  <2>2. c.kind \in {"created", "renamed"}
    BY <2>1 DEF IsYoung
  <2> QED
    BY <2>1, <2>2, ChangesSound
<1>4. Young(w, b) \cup Still(w, b) \subseteq DOMAIN b.files
  BY <1>3 DEF Still, Appeared
<1>5. Scanned(w, b).last = b
  BY <1>1
<1> QED
  BY <1>2, <1>3, <1>4, <1>5 DEF Tracks

(* A change that is reported tells of what is there and no longer settling, or *)
(* of what is gone.                                                            *)
LEMMA ReportsSound ==
  ASSUME NEW w, Tracks(w), NEW b, NEW c \in ScanChanges(w, b)
  PROVE  \/ /\ c.kind \in {"created", "modified", "renamed"}
            /\ c.path \in DOMAIN b.files /\ c.path \notin Young(w, b) \cup Still(w, b)
            /\ c.state = b.files[c.path]
            /\ c.kind = "renamed" => c.from \in Gone(w.last, b) \ DOMAIN w.pending
            /\ c.kind = "created" => c.path \in Settled(w.pending, b)
         \/ c.kind = "deleted" /\ c.path \in Gone(w.last, b)
<1>1. CASE c \in {Change("created", p, p, b.files[p]) : p \in Settled(w.pending, b)}
  <2>1. PICK p \in Settled(w.pending, b) : c = Change("created", p, p, b.files[p])
    BY <1>1
  <2>2. p \in DOMAIN w.last.files /\ p \in DOMAIN b.files
    BY DEF Settled, Tracks
  <2>3. p \notin Young(w, b) /\ p \notin Still(w, b)
    BY <2>2, ScannedIs DEF Appeared, Still
  <2> QED
    BY <2>1, <2>2, <2>3 DEF Change
<1>2. CASE c \in Diff(w.last, b) /\ ~IsYoung(w.pending, c) /\ ~IsUnsettled(w.pending, c)
  <2>1. c.kind # "created"
    BY <1>2 DEF IsYoung
  <2>2. CASE c.kind = "deleted"
    BY <1>2, <2>2, ChangesSound
  <2>3. CASE c.kind = "modified"
    <3>1. c.path \in DOMAIN w.last.files /\ c.path \in DOMAIN b.files /\ c.state = b.files[c.path]
      BY <1>2, <2>3, ChangesSound
    <3>2. c.path \notin DOMAIN w.pending
      BY <1>2, <2>3 DEF IsUnsettled
    <3> QED
      BY <2>3, <3>1, <3>2, ScannedIs DEF Appeared, Still
  <2>4. CASE c.kind = "renamed"
    <3>1. /\ c.from \in Gone(w.last, b) /\ c.path \in Appeared(w.last, b)
          /\ c.state = b.files[c.path]
      BY <1>2, <2>4, ChangesSound
    <3>2. c.from \notin DOMAIN w.pending
      BY <1>2, <2>4 DEF IsYoung
    <3>3. c.path \notin Still(w, b)
      BY <3>1 DEF Appeared, Still, Tracks
    <3>4. c.path \notin Young(w, b)
      <4> SUFFICES ASSUME c.path \in Young(w, b) PROVE FALSE
        OBVIOUS
      <4>1. PICK d \in Diff(w.last, b) : IsYoung(w.pending, d) /\ d.path = c.path
        BY DEF Young
      <4>2. d.kind \in {"created", "renamed"}
        BY <4>1 DEF IsYoung
      <4>3. d.kind = c.kind /\ d.from = c.from
        BY <1>2, <2>4, <4>1, <4>2, OneArrival
      <4> QED
        BY <3>2, <4>1, <4>3, <2>4 DEF IsYoung
    <3> QED
      BY <2>4, <3>1, <3>2, <3>3, <3>4 DEF Appeared
  <2> QED
    BY <1>2, <2>1, <2>2, <2>3, <2>4, ChangesSound
<1> QED
  BY <1>1, <1>2 DEF ScanChanges

(* What is there, no longer settling and not as it was before, is reported; so *)
(* is what was there, not settling, and is gone.                               *)
LEMMA ReportsComplete ==
  ASSUME NEW w, Tracks(w), NEW b
  PROVE  /\ \A p \in DOMAIN b.files \ (Young(w, b) \cup Still(w, b)) :
               \/ /\ p \in DOMAIN w.last.files \ DOMAIN w.pending
                  /\ w.last.files[p] = b.files[p]
               \/ \E c \in ScanChanges(w, b) : c.kind # "deleted" /\ c.path = p
         /\ \A p \in Gone(w.last, b) \ DOMAIN w.pending :
               \E c \in ScanChanges(w, b) : \/ c.kind = "deleted" /\ c.path = p
                                            \/ c.kind = "renamed" /\ c.from = p
<1>1. ASSUME NEW p \in DOMAIN b.files \ (Young(w, b) \cup Still(w, b))
      PROVE  \/ /\ p \in DOMAIN w.last.files \ DOMAIN w.pending
                /\ w.last.files[p] = b.files[p]
             \/ \E c \in ScanChanges(w, b) : c.kind # "deleted" /\ c.path = p
  <2>1. CASE p \in DOMAIN w.pending
    <3>1. Change("created", p, p, b.files[p]) \in ScanChanges(w, b)
      BY <2>1 DEF Still, ScanChanges
    <3> QED
      BY <3>1 DEF Change
  <2>2. CASE p \notin DOMAIN w.pending /\ p \in DOMAIN w.last.files /\ w.last.files[p] # b.files[p]
    <3>1. PICK c \in Diff(w.last, b) : c.kind = "modified" /\ c.path = p
      BY <2>2, ChangesComplete
    <3>2. c \in ScanChanges(w, b)
      BY <2>2, <3>1 DEF ScanChanges, IsYoung, IsUnsettled
    <3> QED
      BY <3>1, <3>2
  <2>3. CASE p \notin DOMAIN w.last.files
    <3>1. PICK c \in Diff(w.last, b) : c.kind \in {"created", "renamed"} /\ c.path = p
      BY <2>3, ChangesComplete DEF Appeared
    <3>2. ~IsYoung(w.pending, c)
      BY <3>1 DEF Young
    <3>3. c \in ScanChanges(w, b)
      BY <3>1, <3>2 DEF ScanChanges, IsUnsettled
    <3> QED
      BY <3>1, <3>3
  <2> QED
    BY <2>1, <2>2, <2>3
<1>2. ASSUME NEW p \in Gone(w.last, b) \ DOMAIN w.pending
      PROVE  \E c \in ScanChanges(w, b) : \/ c.kind = "deleted" /\ c.path = p
                                          \/ c.kind = "renamed" /\ c.from = p
  <2>1. PICK c \in Diff(w.last, b) : \/ c.kind = "deleted" /\ c.path = p
                                     \/ c.kind = "renamed" /\ c.from = p
    BY ChangesComplete
  <2>2. c \in ScanChanges(w, b)
    BY <2>1 DEF ScanChanges, IsYoung, IsUnsettled
  <2> QED
    BY <2>1, <2>2
<1> QED
  BY <1>1, <1>2

\* The raw events of a poll are its changes, but for a total.
Tells(raws, changes) ==
    /\ \A r \in raws : r.kind # "data_transfer" =>
          \E c \in changes : r.kind = c.kind /\ r.path = c.path /\ r.from = c.from /\ r.state = c.state
    /\ \A c \in changes : \E r \in raws :
          /\ r.kind # "data_transfer"
          /\ r.kind = c.kind /\ r.path = c.path /\ r.from = c.from /\ r.state = c.state

(* What a reader knows after a poll, path by path. *)
LEMMA ReportedIs ==
  ASSUME NEW known, NEW raws
  PROVE  LET now1 == {r \in raws : r.kind # "data_transfer" /\ r.kind # "deleted"}
             gone1(p) == \E r \in raws : \/ r.kind = "renamed" /\ r.from = p
                                         \/ r.kind = "deleted" /\ r.path = p
         IN  /\ \A p : p \in DOMAIN Reported(known, raws) <=>
                          \/ p \in DOMAIN known /\ ~gone1(p)
                          \/ \E r \in now1 : r.path = p
             /\ \A p \in DOMAIN Reported(known, raws) :
                   \/ \E r \in now1 : r.path = p /\ Reported(known, raws)[p] = r.state
                   \/ (~ \E r \in now1 : r.path = p) /\ Reported(known, raws)[p] = known[p]
<1> DEFINE now1 == {r \in raws : r.kind # "data_transfer" /\ r.kind # "deleted"}
           changes == {r \in raws : r.kind # "data_transfer"}
           present == {c \in changes : c.kind # "deleted"}
           gone == {c.from : c \in {c \in changes : c.kind = "renamed"}}
                   \cup {c.path : c \in {c \in changes : c.kind = "deleted"}}
           D == (DOMAIN known \ gone) \cup {c.path : c \in present}
           t == [p \in D |-> IF \E c \in present : c.path = p
                             THEN (CHOOSE c \in present : c.path = p).state ELSE known[p]]
<1>1. Reported(known, raws) = t
  BY DEF Reported
<1>2. now1 = present
  OBVIOUS
<1>3. \A p : p \in gone <=> \E r \in raws : \/ r.kind = "renamed" /\ r.from = p
                                            \/ r.kind = "deleted" /\ r.path = p
  OBVIOUS
<1>4. \A p : p \in DOMAIN t <=> \/ p \in DOMAIN known /\ p \notin gone
                                \/ \E r \in now1 : r.path = p
  BY <1>2
<1>5. ASSUME NEW p \in DOMAIN t
      PROVE  \/ \E r \in now1 : r.path = p /\ t[p] = r.state
             \/ (~ \E r \in now1 : r.path = p) /\ t[p] = known[p]
  <2>1. CASE \E c \in present : c.path = p
    <3>1. (CHOOSE c \in present : c.path = p) \in present
          /\ (CHOOSE c \in present : c.path = p).path = p
      BY <2>1
    <3>2. t[p] = (CHOOSE c \in present : c.path = p).state
      BY <2>1, <1>5
    <3> QED
      BY <3>1, <3>2, <1>2
  <2>2. CASE ~ \E c \in present : c.path = p
    BY <2>2, <1>2, <1>5
  <2> QED
    BY <2>1, <2>2
<1> HIDE DEF t, now1, gone, present
<1>6. /\ \A p : p \in DOMAIN t <=>
                   \/ p \in DOMAIN known /\ ~ \E r \in raws : \/ r.kind = "renamed" /\ r.from = p
                                                              \/ r.kind = "deleted" /\ r.path = p
                   \/ \E r \in now1 : r.path = p
  BY <1>3, <1>4
<1> QED
  BY <1>1, <1>5, <1>6 DEF now1

\* A reader knows these paths of a snapshot.
Knows(known, files, paths) == \A p \in paths : p \in DOMAIN known /\ known[p] = files[p]

(* A reader who knew what had settled still does after a poll and its events. *)
LEMMA ReportedAccounts ==
  ASSUME NEW w, Tracks(w), NEW b, NEW raws, Tells(raws, ScanChanges(w, b)), NEW known,
         Knows(known, w.last.files, DOMAIN w.last.files \ DOMAIN w.pending),
         NEW t, t = Reported(known, raws),
         NEW settled, settled = DOMAIN b.files \ DOMAIN Scanned(w, b).pending
  PROVE  /\ Knows(t, b.files, settled)
         /\ (/\ ~w.last.truncated /\ ~b.truncated
             /\ DOMAIN known = DOMAIN w.last.files \ DOMAIN w.pending) => DOMAIN t = settled
<1> DEFINE now1 == {r \in raws : r.kind # "data_transfer" /\ r.kind # "deleted"}
           gone1(p) == \E r \in raws : \/ r.kind = "renamed" /\ r.from = p
                                       \/ r.kind = "deleted" /\ r.path = p
<1>1. settled = DOMAIN b.files \ (Young(w, b) \cup Still(w, b))
  BY ScannedIs
<1>2. \A p : p \in DOMAIN t <=> \/ p \in DOMAIN known /\ ~gone1(p)
                                \/ \E r \in now1 : r.path = p
  BY ReportedIs
<1>3. \A p \in DOMAIN t : \/ \E r \in now1 : r.path = p /\ t[p] = r.state
                          \/ (~ \E r \in now1 : r.path = p) /\ t[p] = known[p]
  BY ReportedIs
<1>4. ASSUME NEW r \in now1
      PROVE  r.path \in settled /\ r.state = b.files[r.path]
  <2>1. PICK c \in ScanChanges(w, b) : r.kind = c.kind /\ r.path = c.path /\ r.state = c.state
    BY DEF Tells
  <2> QED
    BY <2>1, <1>1, ReportsSound
<1>5. ASSUME NEW p, gone1(p)
      PROVE  p \in Gone(w.last, b)
  <2>1. PICK r \in raws : \/ r.kind = "renamed" /\ r.from = p
                          \/ r.kind = "deleted" /\ r.path = p
    BY <1>5
  <2>2. PICK c \in ScanChanges(w, b) : r.kind = c.kind /\ r.path = c.path /\ r.from = c.from
    BY <2>1 DEF Tells
  <2> QED
    BY <2>1, <2>2, ReportsSound
<1>6. ASSUME NEW p \in settled
      PROVE  p \in DOMAIN t /\ t[p] = b.files[p]
  <2>1. p \in DOMAIN t
    <3>1. CASE p \in DOMAIN w.last.files \ DOMAIN w.pending /\ w.last.files[p] = b.files[p]
      <4>1. p \notin Gone(w.last, b)
        BY <1>6 DEF Gone
      <4> QED
        BY <1>2, <1>5, <3>1, <4>1 DEF Knows
    <3>2. CASE \E c \in ScanChanges(w, b) : c.kind # "deleted" /\ c.path = p
      <4>1. PICK c \in ScanChanges(w, b) : c.kind # "deleted" /\ c.path = p
        BY <3>2
      <4>2. PICK r \in raws : r.kind # "data_transfer" /\ r.kind = c.kind /\ r.path = c.path
        BY DEF Tells
      <4> QED
        BY <1>2, <4>1, <4>2
    <3> QED
      BY <1>1, <1>6, <3>1, <3>2, ReportsComplete
  <2>2. CASE \E r \in now1 : r.path = p /\ t[p] = r.state
    BY <2>1, <2>2, <1>4
  <2>3. CASE (~ \E r \in now1 : r.path = p) /\ t[p] = known[p]
    <3>1. ~ \E c \in ScanChanges(w, b) : c.kind # "deleted" /\ c.path = p
      BY <2>3 DEF Tells
    <3>2. p \in DOMAIN w.last.files \ DOMAIN w.pending /\ w.last.files[p] = b.files[p]
      BY <1>1, <1>6, <3>1, ReportsComplete
    <3> QED
      BY <2>1, <2>3, <3>2 DEF Knows
  <2> QED
    BY <1>3, <2>1, <2>2, <2>3
<1>7. ASSUME ~w.last.truncated, ~b.truncated,
             DOMAIN known = DOMAIN w.last.files \ DOMAIN w.pending,
             NEW p \in DOMAIN t
      PROVE  p \in settled
  <2>1. CASE \E r \in now1 : r.path = p
    BY <2>1, <1>4
  <2>2. CASE p \in DOMAIN known /\ ~gone1(p)
    <3>1. p \notin Gone(w.last, b)
      <4> SUFFICES ASSUME p \in Gone(w.last, b) PROVE FALSE
        OBVIOUS
      <4>1. PICK c \in ScanChanges(w, b) : \/ c.kind = "deleted" /\ c.path = p
                                           \/ c.kind = "renamed" /\ c.from = p
        BY <1>7, <2>2, ReportsComplete
      <4>2. PICK r \in raws : r.kind = c.kind /\ r.path = c.path /\ r.from = c.from
        BY DEF Tells
      <4> QED
        BY <2>2, <4>1, <4>2
    <3>2. p \in DOMAIN b.files /\ p \notin DOMAIN w.pending /\ p \in DOMAIN w.last.files
      BY <1>7, <2>2, <3>1 DEF Gone
    <3>3. p \notin Young(w, b)
      BY <3>2, ScannedIs DEF Appeared
    <3> QED
      BY <1>1, <3>2, <3>3 DEF Still
  <2> QED
    BY <1>2, <1>7, <2>1, <2>2
<1>8. /\ Knows(t, b.files, settled)
      /\ (/\ ~w.last.truncated /\ ~b.truncated
          /\ DOMAIN known = DOMAIN w.last.files \ DOMAIN w.pending) => DOMAIN t = settled
  BY <1>6, <1>7 DEF Knows
<1> QED
  BY <1>8

-----------------------------------------------------------------------------
(* Files in a folder. *)

\* Files by their path, snapshots of them, and watchers of the folder they are in.
FilesIn(paths) == UNION {[P -> Nat] : P \in SUBSET paths}
SnapshotsOf(paths) == [files : FilesIn(paths), truncated : BOOLEAN]
WatchersOf(paths) == [last : SnapshotsOf(paths) \cup {NoSnapshot}, pending : FilesIn(paths)]

LEMMA FilesInIs ==
  ASSUME NEW paths, NEW f
  PROVE  f \in FilesIn(paths) <=> DOMAIN f \subseteq paths /\ f \in [DOMAIN f -> Nat]
<1>1. ASSUME DOMAIN f \subseteq paths, f \in [DOMAIN f -> Nat]
      PROVE  f \in FilesIn(paths)
  <2>1. DOMAIN f \in SUBSET paths
    BY <1>1
  <2> QED
    BY <1>1, <2>1 DEF FilesIn
<1>2. ASSUME f \in FilesIn(paths)
      PROVE  DOMAIN f \subseteq paths /\ f \in [DOMAIN f -> Nat]
  <2>1. PICK P \in SUBSET paths : f \in [P -> Nat]
    BY <1>2 DEF FilesIn
  <2> QED
    BY <2>1
<1> QED
  BY <1>1, <1>2

(* A file written, and a file gone. *)
LEMMA NoFiles ==
  ASSUME NEW paths
  PROVE  <<>> \in FilesIn(paths)
<1>1. <<>> \in [{} -> Nat]
  OBVIOUS
<1> QED
  BY <1>1 DEF FilesIn

LEMMA FileWritten ==
  ASSUME NEW paths, NEW f \in FilesIn(paths), NEW p \in paths, NEW v \in Nat
  PROVE  /\ With(f, p, v) \in FilesIn(paths)
         /\ \A r \in paths \ {p} : /\ r \in DOMAIN With(f, p, v) <=> r \in DOMAIN f
                                   /\ r \in DOMAIN f => With(f, p, v)[r] = f[r]
<1>1. DOMAIN f \subseteq paths /\ f \in [DOMAIN f -> Nat]
  BY FilesInIs
<1> DEFINE g == With(f, p, v)
<1>2. g = [q \in DOMAIN f \cup {p} |-> IF q = p THEN v ELSE f[q]]
  BY DEF With
<1>3. DOMAIN g \subseteq paths /\ g \in [DOMAIN g -> Nat]
  BY <1>1, <1>2
<1> HIDE DEF g
<1>4. g \in FilesIn(paths)
  BY <1>3, FilesInIs
<1>5. \A r \in paths \ {p} : /\ r \in DOMAIN g <=> r \in DOMAIN f
                             /\ r \in DOMAIN f => g[r] = f[r]
  BY <1>2
<1> QED
  BY <1>4, <1>5 DEF g

LEMMA FileGone ==
  ASSUME NEW paths, NEW f \in FilesIn(paths), NEW p
  PROVE  /\ Without(f, p) \in FilesIn(paths)
         /\ \A r \in paths \ {p} : /\ r \in DOMAIN Without(f, p) <=> r \in DOMAIN f
                                   /\ r \in DOMAIN f => Without(f, p)[r] = f[r]
<1>1. DOMAIN f \subseteq paths /\ f \in [DOMAIN f -> Nat]
  BY FilesInIs
<1>2. Without(f, p) = [q \in DOMAIN f \ {p} |-> f[q]]
  BY DEF Without, Restrict
<1>3. DOMAIN Without(f, p) \subseteq paths /\ Without(f, p) \in [DOMAIN Without(f, p) -> Nat]
  BY <1>1, <1>2
<1> QED
  BY <1>2, <1>3, FilesInIs

(* A snapshot shows files as they are, and all of them unless it is cut short. *)
LEMMA SnapshotIs ==
  ASSUME NEW paths, IsFiniteSet(paths), NEW files \in FilesIn(paths), NEW hidden,
         NEW s, s = TakeSnapshot(files, hidden)
  PROVE  /\ s \in SnapshotsOf(paths)
         /\ DOMAIN s.files \subseteq DOMAIN files \ hidden
         /\ \A p \in DOMAIN s.files : s.files[p] = files[p]
         /\ ~s.truncated => DOMAIN s.files = DOMAIN files \ hidden
<1> DEFINE seen == DOMAIN files \ hidden
           first == {p \in seen : Cardinality({q \in seen : q < p}) < MaxFiles}
<1>1. DOMAIN files \subseteq paths /\ files \in [DOMAIN files -> Nat]
  BY FilesInIs
<1>2. s = [files |-> Restrict(files, first), truncated |-> Cardinality(seen) >= MaxFiles]
  BY DEF TakeSnapshot
<1> HIDE DEF seen
<1>3. s.files = [p \in first |-> files[p]] /\ (s.truncated <=> Cardinality(seen) >= MaxFiles)
      /\ s.truncated \in BOOLEAN
  <2> DEFINE much == Cardinality(seen) >= MaxFiles
  <2>1. much \in BOOLEAN
    OBVIOUS
  <2>2. s = [files |-> Restrict(files, first), truncated |-> much]
    BY <1>2
  <2> HIDE DEF much
  <2>3. s.truncated = much /\ s.files = Restrict(files, first)
    BY <2>2
  <2>4. s.truncated \in BOOLEAN /\ (s.truncated <=> much)
    BY <2>1, <2>3
  <2> QED
    BY <2>3, <2>4 DEF much, Restrict
<1>4. s \in SnapshotsOf(paths)
  <2>1. DOMAIN s.files \subseteq paths /\ s.files \in [DOMAIN s.files -> Nat]
    <3>1. first \subseteq DOMAIN files
      BY DEF seen
    <3> HIDE DEF first
    <3> QED
      BY <1>1, <1>3, <3>1
  <2>2. s.files \in FilesIn(paths)
    BY <2>1, FilesInIs
  <2>3. s = [files |-> s.files, truncated |-> s.truncated]
    BY <1>2
  <2> QED
    BY <1>3, <2>2, <2>3 DEF SnapshotsOf
<1>5. IsFiniteSet(seen) /\ Cardinality(seen) \in Nat
  <2>1. seen \subseteq paths
    BY <1>1 DEF seen
  <2> QED
    BY <2>1, FS_Subset, FS_CardinalityType
<1>6. ASSUME ~s.truncated
      PROVE  first = seen
  <2>1. Cardinality(seen) < MaxFiles
    <3>1. MaxFiles \in Nat /\ ~(Cardinality(seen) >= MaxFiles)
      BY <1>3, <1>6, BoundsAssumption
    <3> QED
      BY <1>5, <3>1
  <2>2. ASSUME NEW p \in seen
        PROVE  Cardinality({q \in seen : q < p}) < MaxFiles
    <3> DEFINE below == {q \in seen : q < p}
    <3>1. below \subseteq seen
      OBVIOUS
    <3> HIDE DEF below
    <3>2. Cardinality(below) \in Nat /\ Cardinality(below) <= Cardinality(seen)
      BY <1>5, <3>1, FS_Subset, FS_CardinalityType
    <3>3. Cardinality(below) < MaxFiles
      BY <2>1, <1>5, <3>2, BoundsAssumption
    <3> QED
      BY <3>3 DEF below
  <2> QED
    BY <2>2
<1>7. DOMAIN s.files \subseteq seen /\ \A p \in DOMAIN s.files : s.files[p] = files[p]
  <2>1. first \subseteq seen
    OBVIOUS
  <2> HIDE DEF first
  <2> QED
    BY <1>3, <2>1
<1>8. ~s.truncated => DOMAIN s.files = seen
  <2> HIDE DEF first
  <2> QED
    BY <1>3, <1>6
<1> QED
  BY <1>4, <1>7, <1>8 DEF seen

(* A folder that is as it was shows no change, and what settles has settled. *)
LEMMA NothingNew ==
  ASSUME NEW w, Tracks(w)
  PROVE  DOMAIN Scanned(w, w.last).pending = {}
<1>1. Appeared(w.last, w.last) = {}
  BY DEF Appeared
<1>2. Still(w, w.last) = {}
  BY DEF Still, Settled, Tracks
<1> QED
  BY <1>1, <1>2, ScannedIs

(* The watcher after a scan is one of the folder. *)
LEMMA ScannedType ==
  ASSUME NEW paths, NEW w \in WatchersOf(paths), w.last # NoSnapshot, NEW b \in SnapshotsOf(paths)
  PROVE  Scanned(w, b) \in WatchersOf(paths)
<1>1. /\ Scanned(w, b).last = b
      /\ DOMAIN Scanned(w, b).pending = Young(w, b) \cup Still(w, b)
      /\ \A p \in Young(w, b) \cup Still(w, b) : Scanned(w, b).pending[p] = b.files[p]
      /\ Young(w, b) \cup Still(w, b) \subseteq DOMAIN b.files
  BY ScannedIs DEF Appeared, Still
<1>2. DOMAIN b.files \subseteq paths /\ b.files \in [DOMAIN b.files -> Nat]
  BY FilesInIs DEF SnapshotsOf
<1>3. Scanned(w, b) = [last |-> Scanned(w, b).last, pending |-> Scanned(w, b).pending]
      /\ Scanned(w, b).pending = [p \in DOMAIN Scanned(w, b).pending |-> Scanned(w, b).pending[p]]
  BY DEF Scanned, Restrict
<1>4. Scanned(w, b).pending \in FilesIn(paths)
  BY <1>1, <1>2, <1>3, FilesInIs
<1> QED
  BY <1>1, <1>3, <1>4 DEF WatchersOf

-----------------------------------------------------------------------------
(* The collector of removable drives. *)

Clock ==
    /\ now \in Nat /\ stirred \in Nat /\ stirred <= now
    /\ deeds \in Nat /\ hitches \in Nat

DriveWorld ==
    world \in [volume : DOMAIN FirstFiles \cup {NoVolume},
               disks : [DOMAIN FirstFiles -> FilesIn(DOMAIN Dir)],
               locked : SUBSET (Range(Dir) \cup {"root"})]

\* What is not in since is on the drive as it is remembered.
Agrees ==
    \A p \in DOMAIN Dir \ since :
        /\ p \in DOMAIN memory.last.files <=> p \in DOMAIN Mounted
        /\ p \in DOMAIN Mounted => memory.last.files[p] = Mounted[p]

SettledFiles == DOMAIN memory.last.files \ DOMAIN memory.pending

\* What a drive's watcher remembers, what a reader knows, and what is there.
DriveRemembered ==
    /\ Tracks(memory) /\ DOMAIN memory.pending \subseteq since
    /\ told = [p \in DOMAIN told |-> told[p]]
    /\ \A p \in SettledFiles : p \in DOMAIN told /\ told[p] = memory.last.files[p]
    /\ 0 \notin since => ~memory.last.truncated /\ DOMAIN told = SettledFiles
    /\ Mounted # NoMemory =>
        /\ Agrees
        /\ "root" \notin world.locked /\ now > stirred =>
              memory.last = TakeSnapshot(Mounted, Hidden(world.locked))
        /\ "root" \notin world.locked /\ now > stirred + 1 => DOMAIN memory.pending = {}

DriveInv ==
    watched = "drive" =>
        /\ DriveWorld
        /\ memory # NoMemory => memory \in WatchersOf(DOMAIN Dir)
        /\ memory # NoMemory /\ memory.last = NoSnapshot => memory = Watcher
        /\ memory # NoMemory /\ memory.last # NoSnapshot => DriveRemembered

(* What is there is unlike what is not. *)
LEMMA SomethingThere ==
  /\ \A f \in FilesIn(DOMAIN Dir) : f # NoMemory
  /\ \A s \in SnapshotsOf(Paths) : s # NoSnapshot
  /\ \A w \in WatchersOf(Paths) : w # NoMemory
<1>1. ASSUME NEW f \in FilesIn(DOMAIN Dir)
      PROVE  f # NoMemory
  <2>1. DOMAIN f \in SUBSET Paths /\ f \in [DOMAIN f -> Nat]
    BY FilesInIs DEF Paths
  <2> QED
    BY <2>1, NothingAssumption
<1>2. ASSUME NEW s \in SnapshotsOf(Paths)
      PROVE  s # NoSnapshot
  <2>1. PICK P \in SUBSET Paths : s \in [files : [P -> Nat], truncated : BOOLEAN]
    BY DEF SnapshotsOf, FilesIn
  <2> QED
    BY <2>1, NothingAssumption
<1>3. ASSUME NEW w \in WatchersOf(Paths)
      PROVE  w # NoMemory
  <2>1. PICK P \in SUBSET Paths : w.last \in [files : [P -> Nat], truncated : BOOLEAN] \cup {NoSnapshot}
    BY DEF WatchersOf, SnapshotsOf, FilesIn
  <2>2. PICK Q \in SUBSET Paths : w.pending \in [Q -> Nat]
    BY DEF WatchersOf, FilesIn
  <2>3. w = [last |-> w.last, pending |-> w.pending]
    BY DEF WatchersOf
  <2>4. w \in [last : [files : [P -> Nat], truncated : BOOLEAN] \cup {NoSnapshot}, pending : [Q -> Nat]]
    BY <2>1, <2>2, <2>3
  <2> QED
    BY <2>4, NothingAssumption
<1> QED
  BY <1>1, <1>2, <1>3

(* A collector of drives sees paths among all. *)
LEMMA DrivePathsArePaths ==
  /\ IsFiniteSet(DOMAIN Dir) /\ 0 \notin DOMAIN Dir
  /\ FilesIn(DOMAIN Dir) \subseteq FilesIn(Paths)
  /\ SnapshotsOf(DOMAIN Dir) \subseteq SnapshotsOf(Paths)
  /\ WatchersOf(DOMAIN Dir) \subseteq WatchersOf(Paths)
<1>1. DOMAIN Dir \subseteq Paths
  BY DEF Paths
<1>2. IsFiniteSet(DOMAIN Dir) /\ 0 \notin DOMAIN Dir
  BY <1>1, PathsAssumption, FS_Subset
<1>3. FilesIn(DOMAIN Dir) \subseteq FilesIn(Paths)
  BY <1>1, FilesInIs
<1>4. SnapshotsOf(DOMAIN Dir) \subseteq SnapshotsOf(Paths)
  BY <1>3 DEF SnapshotsOf
<1> QED
  BY <1>2, <1>3, <1>4 DEF WatchersOf

(* A deed on a drive is noticed where it changes what is there. *)
LEMMA DriveDeedNoticed ==
  ASSUME DriveWorld, Clock, DriveDeed
  PROVE  /\ DriveWorld'
         /\ since \subseteq since'
         /\ UNCHANGED <<memory, told, now, alive, watched, queued, due>> /\ stirred' = now
         /\ Mounted' # NoMemory =>
              \A p \in DOMAIN Dir \ since' :
                  /\ Mounted # NoMemory
                  /\ p \in DOMAIN Mounted' <=> p \in DOMAIN Mounted
                  /\ p \in DOMAIN Mounted => Mounted'[p] = Mounted[p]
<1>1. deeds \in Nat
  BY DEF Clock
<1>2. UNCHANGED <<memory, told, now, alive, watched, queued, due>> /\ stirred' = now
  BY DEF DriveDeed, OnDrive, Done
<1> DEFINE Kept == \A p \in DOMAIN Dir \ since' :
                      /\ Mounted # NoMemory
                      /\ p \in DOMAIN Mounted' <=> p \in DOMAIN Mounted
                      /\ p \in DOMAIN Mounted => Mounted'[p] = Mounted[p]
           Noticed == DriveWorld' /\ since \subseteq since' /\ (Mounted' # NoMemory => Kept)
<1>3. world.volume # NoVolume => world.volume \in DOMAIN FirstFiles /\ Mounted \in FilesIn(DOMAIN Dir)
                                 /\ Mounted # NoMemory
  BY SomethingThere DEF DriveWorld, Mounted
<1>4. ASSUME world.volume # NoVolume, NEW files \in FilesIn(DOMAIN Dir), NEW touched,
             OnDrive(files, touched),
             \A p \in DOMAIN Dir \ touched : /\ p \in DOMAIN files <=> p \in DOMAIN Mounted
                                             /\ p \in DOMAIN Mounted => files[p] = Mounted[p]
      PROVE  Noticed
  <2>1. world' = [world EXCEPT !.disks[world.volume] = files] /\ since' = since \cup touched
    BY <1>4 DEF OnDrive, Done
  <2>2. world' = [world EXCEPT !.disks = [world.disks EXCEPT ![world.volume] = files]]
    BY <2>1 DEF DriveWorld
  <2>3. [world.disks EXCEPT ![world.volume] = files] \in [DOMAIN FirstFiles -> FilesIn(DOMAIN Dir)]
        /\ [world.disks EXCEPT ![world.volume] = files][world.volume] = files
    BY <1>3, <1>4 DEF DriveWorld
  <2>4. DriveWorld' /\ world'.volume = world.volume /\ world'.disks[world.volume] = files
    BY <2>2, <2>3 DEF DriveWorld
  <2>5. Mounted' = files
    BY <1>4, <2>4 DEF Mounted
  <2> QED
    BY <1>3, <1>4, <2>1, <2>4, <2>5
<1>5. ASSUME world.volume # NoVolume, NEW p \in DOMAIN Dir,
             \/ OnDrive(With(Mounted, p, deeds), {p})
             \/ p \in DOMAIN Mounted /\ OnDrive(Without(Mounted, p), {p})
             \/ \E q \in DOMAIN Mounted \ {p} :
                 \/ OnDrive(With(Mounted, p, Mounted[q]), {p})
                 \/ OnDrive(With(Without(Mounted, q), p, Mounted[q]), {p, q})
      PROVE  Noticed
  <2>0. PICK m \in FilesIn(DOMAIN Dir) : m = Mounted
    BY <1>3, <1>5
  <2>1. ASSUME NEW v \in Nat
        PROVE  /\ With(Mounted, p, v) \in FilesIn(DOMAIN Dir)
               /\ \A r \in DOMAIN Dir \ {p} :
                    /\ r \in DOMAIN With(Mounted, p, v) <=> r \in DOMAIN Mounted
                    /\ r \in DOMAIN Mounted => With(Mounted, p, v)[r] = Mounted[r]
    BY <2>0, FileWritten
  <2>2. ASSUME NEW q \in DOMAIN Mounted
        PROVE  /\ Mounted[q] \in Nat
               /\ Without(Mounted, q) \in FilesIn(DOMAIN Dir)
               /\ \A r \in DOMAIN Dir \ {q} :
                    /\ r \in DOMAIN Without(Mounted, q) <=> r \in DOMAIN Mounted
                    /\ r \in DOMAIN Mounted => Without(Mounted, q)[r] = Mounted[r]
    <3>1. Mounted[q] \in Nat
      BY <1>3, <1>5, FilesInIs
    <3> QED
      BY <3>1, <2>0, FileGone
  <2>3. CASE OnDrive(With(Mounted, p, deeds), {p})
    BY <1>1, <1>4, <1>5, <2>1, <2>3
  <2>4. CASE p \in DOMAIN Mounted /\ OnDrive(Without(Mounted, p), {p})
    BY <1>4, <1>5, <2>2, <2>4
  <2>5. ASSUME NEW q \in DOMAIN Mounted \ {p},
               \/ OnDrive(With(Mounted, p, Mounted[q]), {p})
               \/ OnDrive(With(Without(Mounted, q), p, Mounted[q]), {p, q})
        PROVE  Noticed
    <3>1. Mounted[q] \in Nat
      BY <2>2
    <3>2. CASE OnDrive(With(Mounted, p, Mounted[q]), {p})
      BY <1>4, <1>5, <2>1, <3>1, <3>2
    <3>3. CASE OnDrive(With(Without(Mounted, q), p, Mounted[q]), {p, q})
      <4> DEFINE f == Without(Mounted, q)
      <4>0. PICK g \in FilesIn(DOMAIN Dir) : g = f
        BY <2>2
      <4>1. /\ f \in FilesIn(DOMAIN Dir)
            /\ \A r \in DOMAIN Dir \ {q} : /\ r \in DOMAIN f <=> r \in DOMAIN Mounted
                                           /\ r \in DOMAIN Mounted => f[r] = Mounted[r]
        BY <2>2
      <4> HIDE DEF f
      <4>2. /\ With(f, p, Mounted[q]) \in FilesIn(DOMAIN Dir)
            /\ \A r \in DOMAIN Dir \ {p} :
                    /\ r \in DOMAIN With(f, p, Mounted[q]) <=> r \in DOMAIN f
                    /\ r \in DOMAIN f => With(f, p, Mounted[q])[r] = f[r]
        BY <3>1, <4>0, FileWritten
      <4>3. \A r \in DOMAIN Dir \ {p, q} :
                    /\ r \in DOMAIN With(f, p, Mounted[q]) <=> r \in DOMAIN Mounted
                    /\ r \in DOMAIN Mounted => With(f, p, Mounted[q])[r] = Mounted[r]
        BY <4>1, <4>2
      <4>4. OnDrive(With(f, p, Mounted[q]), {p, q})
        BY <3>3 DEF f
      <4> QED
        BY <1>4, <1>5, <4>2, <4>3, <4>4
    <3> QED
      BY <2>5, <3>2, <3>3
  <2> QED
    BY <1>5, <2>3, <2>4, <2>5
<1>6. ASSUME NEW d \in Range(Dir) \cup {"root"}, world.volume # NoVolume,
             Done([world EXCEPT !.locked = SymDiff(@, {d})], since)
      PROVE  Noticed
  <2>1. world' = [world EXCEPT !.locked = SymDiff(@, {d})] /\ since' = since
    BY <1>6 DEF Done
  <2>2. SymDiff(world.locked, {d}) \in SUBSET (Range(Dir) \cup {"root"})
    BY <1>6 DEF DriveWorld, SymDiff
  <2>3. DriveWorld' /\ world'.volume = world.volume /\ world'.disks = world.disks
    BY <2>1, <2>2 DEF DriveWorld
  <2>4. Mounted' = Mounted
    BY <2>3 DEF Mounted
  <2> QED
    BY <1>3, <1>6, <2>1, <2>3, <2>4
<1>7. ASSUME NEW v \in DOMAIN FirstFiles \cup {NoVolume},
             Done([world EXCEPT !.volume = v, !.locked = {}], since \cup DOMAIN Dir)
      PROVE  Noticed
  <2>1. world' = [world EXCEPT !.volume = v, !.locked = {}] /\ since' = since \cup DOMAIN Dir
    BY <1>7 DEF Done
  <2>2. DriveWorld'
    BY <2>1 DEF DriveWorld
  <2> QED
    BY <2>1, <2>2
<1>8. Noticed
  BY <1>5, <1>6, <1>7 DEF DriveDeed
<1> QED
  BY <1>2, <1>8

LEMMA DriveDeedKeeps ==
  ASSUME DriveInv, Clock, DriveDeed
  PROVE  DriveInv'
<1>1. watched = "drive" /\ DriveWorld
  BY DEF DriveDeed, DriveInv
<1>2. /\ DriveWorld' /\ since \subseteq since'
      /\ memory' = memory /\ told' = told /\ now' = now /\ stirred' = now
      /\ Mounted' # NoMemory =>
           \A p \in DOMAIN Dir \ since' :
               /\ Mounted # NoMemory
               /\ p \in DOMAIN Mounted' <=> p \in DOMAIN Mounted
               /\ p \in DOMAIN Mounted => Mounted'[p] = Mounted[p]
  BY <1>1, DriveDeedNoticed
<1>3. ASSUME memory # NoMemory, memory.last # NoSnapshot
      PROVE  DriveRemembered'
  <2>1. DriveRemembered
    BY <1>1, <1>3 DEF DriveInv
  <2>2. Tracks(memory') /\ DOMAIN memory'.pending \subseteq since'
    BY <1>2, <2>1 DEF DriveRemembered
  <2>3. /\ told' = [p \in DOMAIN told' |-> told'[p]]
        /\ \A p \in SettledFiles' : p \in DOMAIN told' /\ told'[p] = memory'.last.files[p]
        /\ 0 \notin since' => ~memory'.last.truncated /\ DOMAIN told' = SettledFiles'
    BY <1>2, <2>1 DEF DriveRemembered, SettledFiles
  <2>4. Mounted' # NoMemory => Agrees'
    <3> SUFFICES ASSUME Mounted' # NoMemory, NEW p \in DOMAIN Dir \ since'
                 PROVE  /\ p \in DOMAIN memory'.last.files <=> p \in DOMAIN Mounted'
                        /\ p \in DOMAIN Mounted' => memory'.last.files[p] = Mounted'[p]
      BY DEF Agrees
    <3>1. /\ Mounted # NoMemory
          /\ p \in DOMAIN Mounted' <=> p \in DOMAIN Mounted
          /\ p \in DOMAIN Mounted => Mounted'[p] = Mounted[p]
      BY <1>2
    <3>2. Agrees /\ p \notin since
      BY <1>2, <2>1, <3>1 DEF DriveRemembered
    <3>3. /\ p \in DOMAIN memory.last.files <=> p \in DOMAIN Mounted
          /\ p \in DOMAIN Mounted => memory.last.files[p] = Mounted[p]
      BY <3>2 DEF Agrees
    <3> QED
      BY <1>2, <3>1, <3>3
  <2>5. ~(now' > stirred') /\ ~(now' > stirred' + 1)
    BY <1>2 DEF Clock
  <2> QED
    BY <2>2, <2>3, <2>4, <2>5 DEF DriveRemembered
<1> QED
  BY <1>1, <1>2, <1>3 DEF DriveInv

(* The raw events of a drive tell its changes. *)
LEMMA DriveRawsTell ==
  ASSUME NEW changes, \A c \in changes : c.kind # "data_transfer", NEW time, NEW console
  PROVE  Tells(DriveRaws(changes, time, console), changes)
<1> DEFINE written == Cardinality({c \in changes : c.kind \in {"created", "modified"}})
           total == {Change("data_transfer", 0, 0, n) : n \in {written} \ {0}}
           raws == DriveRaws(changes, time, console)
<1>1. raws = {FileRaw("removable_files", c, time, console) : c \in changes \cup total}
  BY DEF DriveRaws
<1>2. ASSUME NEW c \in total
      PROVE  c.kind = "data_transfer"
  <2>1. PICK n : c = Change("data_transfer", 0, 0, n)
    OBVIOUS
  <2> QED
    BY <2>1 DEF Change
<1>3. \A c : /\ FileRaw("removable_files", c, time, console).kind = c.kind
             /\ FileRaw("removable_files", c, time, console).path = c.path
             /\ FileRaw("removable_files", c, time, console).from = c.from
             /\ FileRaw("removable_files", c, time, console).state = c.state
  BY DEF FileRaw
<1> HIDE DEF raws, total
<1> QED
  BY <1>1, <1>2, <1>3 DEF Tells, raws

LEMMA ScansTell ==
  ASSUME NEW w, Tracks(w), NEW b, NEW time, NEW console
  PROVE  Tells(DriveRaws(ScanChanges(w, b), time, console), ScanChanges(w, b))
<1>1. \A c \in ScanChanges(w, b) : c.kind # "data_transfer"
  BY ReportsSound
<1> QED
  BY <1>1, DriveRawsTell

(* Nothing changed, nothing told. *)
LEMMA NothingTold ==
  ASSUME NEW known, known = [p \in DOMAIN known |-> known[p]], NEW time, NEW console
  PROVE  Reported(known, DriveRaws({}, time, console)) = known
<1> DEFINE raws == DriveRaws({}, time, console)
<1>1. Tells(raws, {})
  BY DriveRawsTell
<1>2. \A r \in raws : r.kind = "data_transfer"
  BY <1>1 DEF Tells
<1> HIDE DEF raws
<1>3. /\ DOMAIN Reported(known, raws) = DOMAIN known
      /\ \A p \in DOMAIN known : Reported(known, raws)[p] = known[p]
  BY <1>2 DEF Reported
<1>4. Reported(known, raws) = [p \in DOMAIN Reported(known, raws) |-> Reported(known, raws)[p]]
  BY DEF Reported
<1> QED
  BY <1>3, <1>4 DEF raws

(* What one poll of a mounted drive does to the watcher, what a reader knows *)
(* and what is noticed.                                                      *)
LEMMA DrivePolled ==
  ASSUME PollDrive
  PROVE  LET result == DrivePoll(memory, Mounted, world.locked, now, Console)
             view == result.memory.last
             first == memory = NoMemory \/ memory.last = NoSnapshot
         IN  /\ watched = "drive" /\ alive /\ now' = now + 1
             /\ UNCHANGED <<watched, world, deeds, stirred>>
             /\ memory' = result.memory
             /\ IF Mounted = NoMemory \/ view = NoSnapshot
                THEN told' = <<>> /\ since' = {}
                ELSE /\ told' = IF first THEN view.files ELSE Reported(told, result.raws)
                     /\ since' = (IF first THEN {} ELSE since)
                                 \cup (DOMAIN Mounted \ DOMAIN view.files)
                                 \cup {0 : t \in {TRUE} \cap {view.truncated}}
  BY DEF PollDrive, Handle

LEMMA PollDriveKeeps ==
  ASSUME DriveInv, Clock, PollDrive
  PROVE  DriveInv'
<1> DEFINE result == DrivePoll(memory, Mounted, world.locked, now, Console)
           view == result.memory.last
           first == memory = NoMemory \/ memory.last = NoSnapshot
<1>1. /\ watched = "drive" /\ watched' = watched /\ world' = world /\ stirred' = stirred
      /\ now' = now + 1 /\ memory' = result.memory
  BY DrivePolled
<1>2. IF Mounted = NoMemory \/ view = NoSnapshot
      THEN told' = <<>> /\ since' = {}
      ELSE /\ told' = IF first THEN view.files ELSE Reported(told, result.raws)
           /\ since' = (IF first THEN {} ELSE since)
                       \cup (DOMAIN Mounted \ DOMAIN view.files)
                       \cup {0 : t \in {TRUE} \cap {view.truncated}}
  BY DrivePolled
<1>3. DriveWorld /\ DriveWorld' /\ Mounted' = Mounted
  BY <1>1 DEF DriveInv, DriveWorld, Mounted
<1>4. CASE Mounted = NoMemory
  <2>1. memory' = NoMemory
    BY <1>1, <1>4 DEF DrivePoll, Poll
  <2> QED
    BY <1>3, <2>1 DEF DriveInv
<1>5. ASSUME Mounted # NoMemory
      PROVE  DriveInv'
  <2> DEFINE w == IF memory = NoMemory THEN Watcher ELSE memory
             b == TakeSnapshot(Mounted, Hidden(world.locked))
             scan == Scan(w, Mounted, Hidden(world.locked), "root" \notin world.locked)
  <2>1. Mounted \in FilesIn(DOMAIN Dir)
    BY <1>3, <1>5 DEF DriveWorld, Mounted
  <2>2. /\ b \in SnapshotsOf(DOMAIN Dir)
        /\ DOMAIN b.files \subseteq DOMAIN Mounted
        /\ \A p \in DOMAIN b.files : b.files[p] = Mounted[p]
    <3>1. PICK m \in FilesIn(DOMAIN Dir) : m = Mounted
      BY <2>1
    <3>2. PICK h : h = Hidden(world.locked)
      OBVIOUS
    <3>3. PICK s : s = TakeSnapshot(m, h)
      OBVIOUS
    <3>4. /\ s \in SnapshotsOf(DOMAIN Dir)
          /\ DOMAIN s.files \subseteq DOMAIN m
          /\ \A p \in DOMAIN s.files : s.files[p] = m[p]
      BY <3>3, SnapshotIs, DrivePathsArePaths
    <3> QED
      BY <3>1, <3>2, <3>3, <3>4
  <2>3. b # NoSnapshot /\ b.truncated \in BOOLEAN
    BY <2>2, SomethingThere, DrivePathsArePaths DEF SnapshotsOf
  <2>4. w \in WatchersOf(DOMAIN Dir) /\ (w.last = NoSnapshot => w = Watcher)
        /\ (w.last # NoSnapshot => memory # NoMemory /\ w = memory)
    <3>1. Watcher \in WatchersOf(DOMAIN Dir) /\ Watcher.last = NoSnapshot
      <4>1. <<>> \in FilesIn(DOMAIN Dir)
        BY NoFiles
      <4> QED
        BY <4>1 DEF Watcher, WatchersOf
    <3> QED
      BY <1>1, <3>1 DEF DriveInv
  <2>5. first <=> w.last = NoSnapshot
    BY DEF Watcher
  <2>6. result.memory = scan.watcher
    BY <1>5 DEF DrivePoll, Poll
  <2>7. memory # NoMemory => result.raws = DriveRaws(scan.changes, now, Console)
    BY <1>5 DEF DrivePoll, Poll
  <2>8. \A p \in DOMAIN Dir : p # 0
    BY DrivePathsArePaths
  <2> HIDE DEF result, b, w, first
  <2>9. ASSUME view # NoSnapshot
        PROVE  /\ told' = IF first THEN view.files ELSE Reported(told, result.raws)
               /\ since' = (IF first THEN {} ELSE since)
                           \cup (DOMAIN Mounted \ DOMAIN view.files)
                           \cup {0 : t \in {TRUE} \cap {view.truncated}}
    BY <1>2, <1>5, <2>9
  <2>10. ASSUME view # NoSnapshot
         PROVE  /\ ~first => since \subseteq since'
                /\ DOMAIN Mounted \ DOMAIN view.files \subseteq since'
                /\ view.truncated = TRUE => 0 \in since'
    BY <2>9, <2>10
  <2>11. CASE "root" \in world.locked
    <3>1. scan = [watcher |-> w, changes |-> {}]
      BY <2>11 DEF Scan
    <3>2. memory' = w /\ view = w.last
      BY <1>1, <2>6, <3>1
    <3>3. CASE w.last = NoSnapshot
      BY <1>3, <2>4, <3>2, <3>3 DEF DriveInv
    <3>4. CASE w.last # NoSnapshot
      <4>1. DriveRemembered /\ memory' = memory /\ view = memory.last /\ memory # NoMemory
        BY <1>1, <2>4, <3>2, <3>4 DEF DriveInv
      <4>2. result.raws = DriveRaws({}, now, Console)
        BY <2>7, <3>1, <4>1
      <4>3. told' = told
        <5>1. told' = Reported(told, DriveRaws({}, now, Console))
          BY <2>5, <2>9, <3>2, <3>4, <4>2
        <5> QED
          BY <4>1, <5>1, NothingTold DEF DriveRemembered
      <4>4. since \subseteq since'
        BY <2>5, <2>10, <3>2, <3>4
      <4>5. Agrees'
        BY <1>3, <1>5, <4>1, <4>4 DEF Agrees, DriveRemembered
      <4>6. DriveRemembered'
        BY <1>1, <2>11, <4>1, <4>3, <4>4, <4>5 DEF DriveRemembered, SettledFiles
      <4> QED
        BY <1>3, <2>4, <3>2, <3>4, <4>6 DEF DriveInv
    <3> QED
      BY <3>3, <3>4
  <2>12. CASE "root" \notin world.locked /\ w.last = NoSnapshot
    <3>1. scan = [watcher |-> Baseline(b), changes |-> {}]
      BY <2>12 DEF Scan, b
    <3>2. memory' = [last |-> b, pending |-> <<>>] /\ view = b
      BY <1>1, <2>6, <3>1 DEF Baseline, Watcher
    <3>3. told' = b.files /\ DOMAIN Mounted \ DOMAIN b.files \subseteq since'
          /\ (b.truncated = TRUE => 0 \in since')
      BY <2>3, <2>5, <2>9, <2>10, <2>12, <3>2
    <3>4. memory' \in WatchersOf(DOMAIN Dir)
      <4>1. <<>> \in FilesIn(DOMAIN Dir)
        BY NoFiles
      <4> QED
        BY <2>2, <3>2, <4>1 DEF WatchersOf
    <3>5. Tracks(memory') /\ DOMAIN memory'.pending = {}
      BY <3>2 DEF Tracks
    <3>6. Agrees'
      BY <1>3, <2>2, <3>2, <3>3 DEF Agrees
    <3>7. told' = [p \in DOMAIN told' |-> told'[p]]
      BY <2>2, <3>3, FilesInIs DEF SnapshotsOf
    <3>8. SettledFiles' = DOMAIN b.files
      BY <3>2 DEF SettledFiles
    <3>9. memory'.last = TakeSnapshot(Mounted', Hidden(world'.locked))
      BY <1>1, <1>3, <3>2 DEF b
    <3>10. 0 \notin since' => ~memory'.last.truncated
      BY <2>3, <3>2, <3>3
    <3>11. DriveRemembered'
      BY <3>2, <3>3, <3>5, <3>6, <3>7, <3>8, <3>9, <3>10 DEF DriveRemembered
    <3> QED
      BY <1>3, <2>3, <3>2, <3>4, <3>11 DEF DriveInv
  <2>13. CASE "root" \notin world.locked /\ w.last # NoSnapshot
    <3>1. scan = [watcher |-> Scanned(w, b), changes |-> ScanChanges(w, b)]
      BY <2>13 DEF Scan, b
    <3>2. w = memory /\ memory # NoMemory /\ memory \in WatchersOf(DOMAIN Dir) /\ DriveRemembered
      BY <1>1, <2>4, <2>13 DEF DriveInv
    <3>3. memory' = Scanned(memory, b)
      BY <1>1, <2>6, <3>1, <3>2
    <3>4. /\ memory'.last = b /\ DOMAIN memory'.pending = Young(memory, b) \cup Still(memory, b)
          /\ Young(memory, b) \subseteq Appeared(memory.last, b)
          /\ Tracks(memory')
      <4>1. PICK v : v = memory
        OBVIOUS
      <4>2. PICK s : s = b
        OBVIOUS
      <4> QED
        BY <3>3, <4>1, <4>2, ScannedIs
    <3>5. view = b
      BY <1>1, <3>4
    <3>6. /\ told' = Reported(told, DriveRaws(ScanChanges(memory, b), now, Console))
          /\ since \subseteq since' /\ DOMAIN Mounted \ DOMAIN b.files \subseteq since'
          /\ (b.truncated = TRUE => 0 \in since')
      <4>1. view # NoSnapshot /\ ~first
        BY <2>3, <2>5, <2>13, <3>5
      <4>2. result.raws = DriveRaws(ScanChanges(memory, b), now, Console)
        BY <2>7, <3>1, <3>2
      <4>3. told' = Reported(told, result.raws)
        BY <2>9, <4>1
      <4> QED
        BY <2>10, <3>5, <4>1, <4>2, <4>3
    <3>7. Mounted # NoMemory => Agrees
      BY <3>2 DEF DriveRemembered
    <3>8. Agrees'
      BY <1>3, <2>2, <3>4, <3>6 DEF Agrees
    <3>9. DOMAIN memory'.pending \subseteq since'
      <4>1. ASSUME NEW p \in Young(memory, b), p \notin since
            PROVE  FALSE
        <5>1. p \in DOMAIN b.files /\ p \notin DOMAIN memory.last.files
          BY <3>4, <4>1 DEF Appeared
        <5>2. p \in DOMAIN Mounted /\ p \in DOMAIN Dir
          BY <2>1, <2>2, <5>1, FilesInIs
        <5> QED
          BY <1>5, <3>7, <4>1, <5>1, <5>2 DEF Agrees
      <4>2. Still(memory, b) \subseteq since
        BY <3>2 DEF Still, DriveRemembered
      <4> QED
        BY <3>4, <3>6, <4>1, <4>2
    <3>10. /\ told' = [p \in DOMAIN told' |-> told'[p]]
           /\ \A p \in SettledFiles' : p \in DOMAIN told' /\ told'[p] = b.files[p]
           /\ 0 \notin since' => DOMAIN told' = SettledFiles'
      <4>1. PICK v : v = memory
        OBVIOUS
      <4>2. PICK s : s = b
        OBVIOUS
      <4>3. PICK k : k = told
        OBVIOUS
      <4>4. PICK raws : raws = DriveRaws(ScanChanges(v, s), now, Console)
        OBVIOUS
      <4>5. Tracks(v)
        BY <3>2, <4>1 DEF DriveRemembered
      <4>6. Tells(raws, ScanChanges(v, s))
        BY <4>4, <4>5, ScansTell
      <4>7. Knows(k, v.last.files, DOMAIN v.last.files \ DOMAIN v.pending)
        BY <3>2, <4>1, <4>3 DEF DriveRemembered, SettledFiles, Knows
      <4>0. PICK t, settled : /\ t = Reported(k, raws)
                             /\ settled = DOMAIN s.files \ DOMAIN Scanned(v, s).pending
        OBVIOUS
      <4>8. /\ Knows(t, s.files, settled)
            /\ (/\ ~v.last.truncated /\ ~s.truncated
                /\ DOMAIN k = DOMAIN v.last.files \ DOMAIN v.pending) => DOMAIN t = settled
        BY <4>0, <4>5, <4>6, <4>7, ReportedAccounts
      <4>9. told' = Reported(k, raws) /\ memory' = Scanned(v, s)
        BY <3>3, <3>6, <4>1, <4>2, <4>3, <4>4
      <4>10. SettledFiles' = DOMAIN s.files \ DOMAIN Scanned(v, s).pending
        BY <3>4, <4>2, <4>9 DEF SettledFiles
      <4>11. 0 \notin since' => /\ ~v.last.truncated /\ ~s.truncated
                                /\ DOMAIN k = DOMAIN v.last.files \ DOMAIN v.pending
        BY <2>3, <3>2, <3>6, <4>1, <4>2, <4>3 DEF DriveRemembered, SettledFiles
      <4>12. told' = [p \in DOMAIN told' |-> told'[p]]
        BY <4>9 DEF Reported
      <4> QED
        BY <4>0, <4>2, <4>8, <4>9, <4>10, <4>11, <4>12 DEF Knows
    <3>11. memory'.last = TakeSnapshot(Mounted', Hidden(world'.locked))
      BY <1>1, <1>3, <3>4 DEF b
    <3>12. now' > stirred' + 1 => DOMAIN memory'.pending = {}
      <4> SUFFICES ASSUME now' > stirred' + 1 PROVE DOMAIN memory'.pending = {}
        OBVIOUS
      <4>1. now > stirred
        BY <1>1 DEF Clock
      <4>2. memory.last = b
        BY <1>5, <2>13, <3>2, <4>1 DEF DriveRemembered, b
      <4>3. PICK v : v = memory
        OBVIOUS
      <4>4. Tracks(v) /\ memory' = Scanned(v, v.last)
        BY <3>2, <3>3, <4>2, <4>3 DEF DriveRemembered
      <4> QED
        BY <4>4, NothingNew
    <3>13. 0 \notin since' => ~memory'.last.truncated
      BY <2>3, <3>4, <3>6
    <3>14. DriveRemembered'
      BY <3>4, <3>8, <3>9, <3>10, <3>11, <3>12, <3>13 DEF DriveRemembered
    <3>15. memory' \in WatchersOf(DOMAIN Dir)
      <4>1. PICK v \in WatchersOf(DOMAIN Dir) : v = memory
        BY <3>2
      <4>2. PICK s \in SnapshotsOf(DOMAIN Dir) : s = b
        BY <2>2
      <4>3. v.last # NoSnapshot
        BY <2>13, <3>2, <4>1
      <4> QED
        BY <3>3, <4>1, <4>2, <4>3, ScannedType
    <3> QED
      BY <1>3, <2>3, <3>4, <3>14, <3>15 DEF DriveInv
  <2> QED
    BY <2>11, <2>12, <2>13
<1> QED
  BY <1>4, <1>5

(* The first poll knows nothing. *)
LEMMA InitDrive == SensorsInit => Clock /\ DriveInv
<1> SUFFICES ASSUME SensorsInit PROVE Clock /\ DriveInv
  OBVIOUS
<1>1. Clock
  BY DEF SensorsInit, Clock
<1>2. ASSUME watched = "drive"
      PROVE  DriveWorld
  <2>1. world = [volume |-> FirstVolume, disks |-> FirstFiles, locked |-> {}]
    BY <1>2 DEF SensorsInit, FirstWorld
  <2>2. FirstFiles \in [DOMAIN FirstFiles -> FilesIn(DOMAIN Dir)]
    BY PathsAssumption, FilesInIs
  <2> QED
    BY <2>1, <2>2, PathsAssumption DEF DriveWorld
<1> QED
  BY <1>1, <1>2 DEF SensorsInit, DriveInv

(* Which collector it is does not change. *)
LEMMA OneCollector == [SensorsNext]_sensorVars => watched' = watched
BY DEF SensorsNext, sensorVars, Done, Handle, DriveDeed, OnDrive, WebDeed, Arrived, TcpDeed, LogDeed,
       WmiDeed, PollDrive, PollDownloads, PollNetwork, PollLog, PollWmi, ReadFails, AccessDenied,
       AgentRestarts

(* Time passes, deeds are numbered and hitches counted. *)
LEMMA ClockKeeps == Clock /\ [SensorsNext]_sensorVars => Clock'
<1> SUFFICES ASSUME Clock, [SensorsNext]_sensorVars PROVE Clock'
  OBVIOUS
<1> USE DEF Clock
<1>1. CASE UNCHANGED sensorVars
  BY <1>1 DEF sensorVars
<1>2. ASSUME NEW machine, NEW noticed, Done(machine, noticed)
      PROVE  Clock'
  BY <1>2 DEF Done
<1>3. CASE DriveDeed
  BY <1>2, <1>3 DEF DriveDeed, OnDrive
<1>4. CASE WebDeed
  BY <1>2, <1>4 DEF WebDeed, Arrived
<1>5. CASE TcpDeed \/ LogDeed \/ WmiDeed
  BY <1>2, <1>5 DEF TcpDeed, LogDeed, WmiDeed
<1>6. ASSUME NEW result, NEW observed, Handle(result, observed)
      PROVE  Clock'
  <2>1. now' = now + 1 /\ stirred' = stirred /\ deeds' = deeds /\ (hitches' = hitches \/ hitches' = hitches + 1)
    BY <1>6 DEF Handle, Hitch
  <2> QED
    BY <2>1
<1>7. CASE PollDrive \/ PollDownloads \/ PollNetwork \/ PollLog
  BY <1>6, <1>7 DEF PollDrive, PollDownloads, PollNetwork, PollLog
<1>8. CASE PollWmi
  BY <1>6, <1>8 DEF PollWmi
<1>9. CASE ReadFails \/ AccessDenied \/ AgentRestarts
  BY <1>9 DEF ReadFails, AccessDenied, AgentRestarts, Hitch
<1> QED
  BY <1>1, <1>3, <1>4, <1>5, <1>7, <1>8, <1>9 DEF SensorsNext

(* What is not done to a drive leaves all of it alone. *)
LEMMA OthersLeaveDrives ==
  ASSUME watched = "drive", [SensorsNext]_sensorVars, ~DriveDeed, ~PollDrive
  PROVE  \/ UNCHANGED <<watched, memory, world, since, told, stirred, now>>
         \/ UNCHANGED <<watched, world>> /\ memory' = NoMemory
BY DEF SensorsNext, sensorVars, WebDeed, TcpDeed, LogDeed, WmiDeed, PollDownloads, PollNetwork, PollLog,
       PollWmi, ReadFails, AccessDenied, AgentRestarts

LEMMA DriveKeeps == DriveInv /\ Clock /\ [SensorsNext]_sensorVars => DriveInv'
<1> SUFFICES ASSUME DriveInv, Clock, [SensorsNext]_sensorVars PROVE DriveInv'
  OBVIOUS
<1>1. CASE DriveDeed
  BY <1>1, DriveDeedKeeps
<1>2. CASE PollDrive
  BY <1>2, PollDriveKeeps
<1>3. CASE watched # "drive"
  <2>1. watched' = watched
    BY OneCollector
  <2> QED
    BY <1>3, <2>1 DEF DriveInv
<1>4. CASE watched = "drive" /\ ~DriveDeed /\ ~PollDrive
  <2>1. CASE UNCHANGED <<watched, memory, world, since, told, stirred, now>>
    BY <2>1 DEF DriveInv, DriveRemembered, DriveWorld, Agrees, SettledFiles, Mounted
  <2>2. CASE UNCHANGED <<watched, world>> /\ memory' = NoMemory
    BY <2>2 DEF DriveInv, DriveWorld
  <2> QED
    BY <1>4, <2>1, <2>2, OthersLeaveDrives
<1> QED
  BY <1>1, <1>2, <1>3, <1>4

LEMMA DriveInvAccounts == DriveInv /\ Clock => DriveAccounted
<1> SUFFICES ASSUME DriveInv, Clock, watched = "drive", alive, memory # NoMemory, Mounted # NoMemory,
                    memory # Watcher
             PROVE  LET settled == DOMAIN memory.last.files \ DOMAIN memory.pending
                        visible == DOMAIN Mounted \ Hidden(world.locked)
                    IN  /\ \A p \in settled : p \in DOMAIN told /\ told[p] = memory.last.files[p]
                        /\ 0 \notin since => DOMAIN told = settled
                        /\ (0 \notin since /\ now >= stirred + 2 /\ "root" \notin world.locked) =>
                              told = Restrict(Mounted, visible)
  BY DEF DriveAccounted
<1>1. DriveRemembered /\ DriveWorld
  BY DEF DriveInv
<1>2. ASSUME 0 \notin since, now >= stirred + 2, "root" \notin world.locked
      PROVE  told = Restrict(Mounted, DOMAIN Mounted \ Hidden(world.locked))
  <2>1. now > stirred /\ now > stirred + 1
    BY <1>2 DEF Clock
  <2>2. /\ memory.last = TakeSnapshot(Mounted, Hidden(world.locked))
        /\ DOMAIN memory.pending = {} /\ ~memory.last.truncated
        /\ DOMAIN told = SettledFiles /\ told = [p \in DOMAIN told |-> told[p]]
        /\ \A p \in SettledFiles : told[p] = memory.last.files[p]
    BY <1>1, <1>2, <2>1 DEF DriveRemembered
  <2>3. Mounted \in FilesIn(DOMAIN Dir)
    BY <1>1 DEF DriveWorld, Mounted
  <2>4. PICK m \in FilesIn(DOMAIN Dir) : m = Mounted
    BY <2>3
  <2>5. PICK h : h = Hidden(world.locked)
    OBVIOUS
  <2>6. PICK s : s = TakeSnapshot(m, h)
    OBVIOUS
  <2>7. memory.last = s
    BY <2>2, <2>4, <2>5, <2>6
  <2>8. DOMAIN s.files = DOMAIN m \ h /\ \A p \in DOMAIN s.files : s.files[p] = m[p]
    BY <2>2, <2>6, <2>7, SnapshotIs, DrivePathsArePaths
  <2>9. DOMAIN told = DOMAIN m \ h /\ \A p \in DOMAIN told : told[p] = m[p]
    BY <2>2, <2>7, <2>8 DEF SettledFiles
  <2>10. told = [p \in DOMAIN m \ h |-> m[p]]
    BY <2>2, <2>9
  <2> QED
    BY <2>4, <2>5, <2>10 DEF Restrict
<1> QED
  BY <1>1, <1>2 DEF DriveRemembered, SettledFiles

(* The first snapshot of a drive and the events after it account for what is *)
(* on it (collectors/removable_files.py, _snapshot.py), whatever is done to  *)
(* it, whichever subfolders are locked away and however many files it has.   *)
THEOREM DrivesAccounted == SensorsSpec => []DriveAccounted
<1>1. SensorsInit => Clock /\ DriveInv
  BY InitDrive
<1>2. Clock /\ DriveInv /\ [SensorsNext]_sensorVars => (Clock /\ DriveInv)'
  BY ClockKeeps, DriveKeeps
<1>3. Clock /\ DriveInv => DriveAccounted
  BY DriveInvAccounts
<1> QED
  BY <1>1, <1>2, <1>3, PTL DEF SensorsSpec

-----------------------------------------------------------------------------
(* The events of a poll and the queue. *)

(* A poll hands all of its raw events on, or ends the collector. *)
LEMMA PollHandled ==
  ASSUME NEW result, NEW observed, Handle(result, observed)
  PROVE  /\ alive /\ now' = now + 1 /\ memory' = result.memory
         /\ UNCHANGED <<watched, world, deeds, stirred>>
         /\ queued \subseteq queued'
         /\ \A e \in queued' \ queued : \E raw \in result.raws : e \in Normalise(raw)
         /\ \A e \in queued' \ queued : \A q \in queued : q.key # e.key
         /\ \/ /\ alive' = alive /\ hitches' = hitches /\ due' = due \cup observed
               /\ \A raw \in result.raws : \A e \in Normalise(raw) : \E q \in queued' : q.key = e.key
            \/ alive' = FALSE /\ hitches' = hitches + 1 /\ due' = due
<1>1. PICK handed \in SUBSET result.raws :
        /\ queued' = queued \cup Enqueued(UNION {Normalise(raw) : raw \in handed})
        /\ IF handed = result.raws
           THEN UNCHANGED <<alive, hitches>> /\ due' = due \cup observed
           ELSE alive' = FALSE /\ Hitch /\ due' = due
  BY DEF Handle
<1>2. queued' = queued \cup {e \in UNION {Normalise(raw) : raw \in handed} : \A q \in queued : q.key # e.key}
  BY <1>1 DEF Enqueued
<1>3. alive /\ now' = now + 1 /\ memory' = result.memory /\ UNCHANGED <<watched, world, deeds, stirred>>
  BY DEF Handle
<1>4. /\ \A e \in queued' \ queued : \E raw \in result.raws : e \in Normalise(raw)
      /\ \A e \in queued' \ queued : \A q \in queued : q.key # e.key
  BY <1>2
<1>5. ASSUME NEW raw \in handed, NEW e \in Normalise(raw)
      PROVE  \E q \in queued' : q.key = e.key
  BY <1>2
<1>6. CASE handed = result.raws
  BY <1>1, <1>2, <1>3, <1>4, <1>5, <1>6
<1>7. CASE handed # result.raws
  BY <1>1, <1>2, <1>3, <1>4, <1>7 DEF Hitch
<1> QED
  BY <1>6, <1>7

-----------------------------------------------------------------------------
(* Who an event is credited to (Normaliser). *)

LEMMA PersonsName ==
  ASSUME NEW name \in Names \cup {NoName}, ~IsServiceAccount(name, "any")
  PROVE  /\ name # NoName /\ name \in Names
         /\ FormatUser(name) = [account |-> name.account, form |-> name.form, case |-> "lower"]
         /\ name.account \notin ServiceAccounts
<1>1. name # NoName /\ name \in Names /\ name.account \notin ServiceAccounts
  BY DEF IsServiceAccount
<1>2. FormatUser(name) = [name EXCEPT !.case = "lower"]
  BY <1>1 DEF FormatUser
<1>3. name = [account |-> name.account, form |-> name.form, case |-> name.case]
  BY <1>1 DEF Names
<1> QED
  BY <1>1, <1>2, <1>3

(* What each identifier of the Security log becomes. *)
LEMMA SecurityKinds ==
  ASSUME NEW raw, raw.source = "windows_security"
  PROVE  /\ raw.id = 4624 => Normalise(raw) = Logon(raw)
         /\ raw.id = 4625 => Normalise(raw) = LogonFailed(raw)
         /\ raw.id \in {4634, 4647} => Normalise(raw) = Logoff(raw)
         /\ raw.id \in {4720, 4722, 4723, 4724, 4725, 4726} => Normalise(raw) = AccountChange(raw)
         /\ raw.id \in MemberAdded \cup MemberRemoved => Normalise(raw) = GroupMembership(raw)
         /\ raw.id \in {4704, 4705} => Normalise(raw) = UserRight(raw)
         /\ raw.id \in {4778, 4779} => Normalise(raw) = Session(raw)
         /\ raw.id \notin Administering \cup {4624, 4625, 4634, 4647, 4778, 4779} => Normalise(raw) = {}
<1>1. Normalise(raw) = FromWindowsSecurity(raw)
  BY DEF Normalise
<1>2. DOMAIN AccountChangeTypes = {4720, 4722, 4723, 4724, 4725, 4726}
  BY DEF AccountChangeTypes
<1> DEFINE id == raw.id
<1>3. FromWindowsSecurity(raw) =
        CASE id = 4624 -> Logon(raw)
          [] id = 4625 -> LogonFailed(raw)
          [] id \in {4634, 4647} -> Logoff(raw)
          [] id \in {4720, 4722, 4723, 4724, 4725, 4726} -> AccountChange(raw)
          [] id \in MemberAdded \cup MemberRemoved -> GroupMembership(raw)
          [] id \in {4704, 4705} -> UserRight(raw)
          [] id \in {4778, 4779} -> Session(raw)
          [] OTHER -> {}
  BY <1>2 DEF FromWindowsSecurity
<1> HIDE DEF id
<1>4. id = 4624 => FromWindowsSecurity(raw) = Logon(raw)
  BY <1>3 DEF MemberAdded, MemberRemoved
<1>5. id = 4625 => FromWindowsSecurity(raw) = LogonFailed(raw)
  BY <1>3 DEF MemberAdded, MemberRemoved
<1>6. id \in {4634, 4647} => FromWindowsSecurity(raw) = Logoff(raw)
  BY <1>3 DEF MemberAdded, MemberRemoved
<1>7. id \in {4720, 4722, 4723, 4724, 4725, 4726} => FromWindowsSecurity(raw) = AccountChange(raw)
  BY <1>3 DEF MemberAdded, MemberRemoved
<1>8. id \in MemberAdded \cup MemberRemoved => FromWindowsSecurity(raw) = GroupMembership(raw)
  BY <1>3 DEF MemberAdded, MemberRemoved
<1>9. id \in {4704, 4705} => FromWindowsSecurity(raw) = UserRight(raw)
  BY <1>3 DEF MemberAdded, MemberRemoved
<1>10. id \in {4778, 4779} => FromWindowsSecurity(raw) = Session(raw)
  BY <1>3 DEF MemberAdded, MemberRemoved
<1>11. id \notin Administering \cup {4624, 4625, 4634, 4647, 4778, 4779} => FromWindowsSecurity(raw) = {}
  BY <1>2, <1>3 DEF Administering
<1> QED
  BY <1>1, <1>4, <1>5, <1>6, <1>7, <1>8, <1>9, <1>10, <1>11 DEF id

(* A record's event says which record it is of. *)
LEMMA RecordsEvent ==
  ASSUME NEW raw, NEW type, NEW user, NEW indicators
  PROVE  /\ \A e \in SecurityEvent(raw, type, user, indicators) :
              e.key = <<"log", raw.id, raw.number>> /\ e.user = user
         /\ \E e \in SecurityEvent(raw, type, user, indicators) :
              e.key = <<"log", raw.id, raw.number>>
BY DEF SecurityEvent, Event

(* An administrative act always makes an event. *)
LEMMA ActsMakeEvents ==
  ASSUME NEW raw, raw.source = "windows_security", raw.id \in Administering
  PROVE  /\ \A e \in Normalise(raw) :
              /\ e.key = <<"log", raw.id, raw.number>>
              /\ raw.actor # NoName => e.user = FormatUser(raw.actor)
         /\ \E e \in Normalise(raw) : e.key = <<"log", raw.id, raw.number>>
<1>1. CASE raw.id \in {4720, 4722, 4723, 4724, 4725, 4726}
  <2> DEFINE target == FormatUser(raw.target)
             actor == IF raw.actor = NoName THEN target ELSE FormatUser(raw.actor)
             indicators == {i \in {"account_created"} : raw.id = 4720}
                           \cup {i \in {"password_reset_of_other_account"} : raw.id = 4724 /\ actor # target}
  <2>1. Normalise(raw) = SecurityEvent(raw, AccountChangeTypes[raw.id], actor, indicators)
    <3>1. Normalise(raw) = AccountChange(raw)
      BY <1>1, SecurityKinds
    <3> QED
      BY <3>1, Zenon DEF AccountChange
  <2>2. raw.actor # NoName => actor = FormatUser(raw.actor)
    OBVIOUS
  <2> HIDE DEF actor, indicators
  <2> QED
    BY <2>1, <2>2, RecordsEvent
<1>2. CASE raw.id \in MemberAdded \cup MemberRemoved
  <2> DEFINE type == IF raw.privileged THEN "privilege_change" ELSE "group_change"
             indicators == {i \in {"privileged_group_member_added"} : raw.privileged /\ raw.id \in MemberAdded}
                           \cup {i \in {"privileged_group_member_removed"} :
                                   raw.privileged /\ raw.id \in MemberRemoved}
  <2>1. Normalise(raw) = SecurityEvent(raw, type, FormatUser(raw.actor), indicators)
    <3>1. Normalise(raw) = GroupMembership(raw)
      BY <1>2, SecurityKinds
    <3> QED
      BY <3>1, Zenon DEF GroupMembership
  <2> HIDE DEF type, indicators
  <2> QED
    BY <2>1, RecordsEvent
<1>3. CASE raw.id \in {4704, 4705}
  <2> DEFINE indicators == {i \in {"sensitive_user_right_assigned"} : raw.id = 4704 /\ raw.privileged}
  <2>1. Normalise(raw) = SecurityEvent(raw, "privilege_change", FormatUser(raw.actor), indicators)
    <3>1. Normalise(raw) = UserRight(raw)
      BY <1>3, SecurityKinds
    <3> QED
      BY <3>1, Zenon DEF UserRight
  <2> HIDE DEF indicators
  <2> QED
    BY <2>1, RecordsEvent
<1> QED
  BY <1>1, <1>2, <1>3 DEF Administering, AccountChangeTypes

(* A record of a session makes an event when it shows a person, or when what *)
(* services do is asked for.                                                 *)
LEMMA SessionsMakeEvents ==
  ASSUME NEW raw, raw.source = "windows_security", raw.id \in {4624, 4625, 4634, 4647, 4778, 4779},
         raw.remote \in BOOLEAN
  PROVE  /\ \A e \in Normalise(raw) :
              /\ e.key = <<"log", raw.id, raw.number>> /\ e.user = FormatUser(raw.name)
              /\ KeepSystem \/ ShowsPerson(raw)
         /\ ShowsPerson(raw) => \E e \in Normalise(raw) : e.key = <<"log", raw.id, raw.number>>
<1>1. CASE raw.id = 4624
  <2>1. Normalise(raw) = IF raw.name = NoName \/ IsNoise(raw.name, raw.sid, raw.logon) THEN {}
                         ELSE SecurityEvent(raw, "logon", FormatUser(raw.name), {})
    BY <1>1, SecurityKinds DEF Logon
  <2>2. ~KeepSystem => (ShowsPerson(raw) <=> ~(raw.name = NoName \/ IsNoise(raw.name, raw.sid, raw.logon)))
    BY <1>1 DEF ShowsPerson, IsNoise, IsServiceAccount, ServiceSids
  <2>3. ShowsPerson(raw) => ~(raw.name = NoName \/ IsNoise(raw.name, raw.sid, raw.logon))
    BY <1>1 DEF ShowsPerson, IsNoise, IsServiceAccount, ServiceSids
  <2> QED
    BY <2>1, <2>2, <2>3, RecordsEvent
<1>2. CASE raw.id = 4625
  <2>1. Normalise(raw) = IF raw.name = NoName \/ (~KeepSystem /\ IsServiceAccount(raw.name, "any")) THEN {}
                         ELSE SecurityEvent(raw, "logon_failed", FormatUser(raw.name), {})
    BY <1>2, SecurityKinds DEF LogonFailed
  <2>2. ~KeepSystem => (ShowsPerson(raw) <=>
            ~(raw.name = NoName \/ (~KeepSystem /\ IsServiceAccount(raw.name, "any"))))
    BY <1>2 DEF ShowsPerson, IsServiceAccount, ServiceSids
  <2>3. ShowsPerson(raw) => ~(raw.name = NoName \/ (~KeepSystem /\ IsServiceAccount(raw.name, "any")))
    BY <1>2 DEF ShowsPerson, IsServiceAccount, ServiceSids
  <2> QED
    BY <2>1, <2>2, <2>3, RecordsEvent
<1>3. CASE raw.id \in {4634, 4647}
  <2> DEFINE logon == IF raw.id = 4634 THEN raw.logon ELSE "none"
  <2>1. Normalise(raw) = IF raw.name = NoName \/ IsNoise(raw.name, raw.sid, logon) THEN {}
                         ELSE SecurityEvent(raw, "logoff", FormatUser(raw.name), {})
    BY <1>3, SecurityKinds DEF Logoff
  <2>2. ~KeepSystem => (ShowsPerson(raw) <=> ~(raw.name = NoName \/ IsNoise(raw.name, raw.sid, logon)))
    BY <1>3 DEF ShowsPerson, IsNoise, IsServiceAccount, ServiceSids, NonHumanLogons
  <2>3. ShowsPerson(raw) => ~(raw.name = NoName \/ IsNoise(raw.name, raw.sid, logon))
    BY <1>3 DEF ShowsPerson, IsNoise, IsServiceAccount, ServiceSids, NonHumanLogons
  <2> HIDE DEF logon
  <2> QED
    BY <2>1, <2>2, <2>3, RecordsEvent
<1>4. CASE raw.id \in {4778, 4779}
  <2> DEFINE type == IF raw.id = 4778 THEN "remote_session_connect" ELSE "remote_session_disconnect"
  <2>1. Normalise(raw) = IF ~raw.remote \/ raw.name = NoName \/ IsNoise(raw.name, "any", "none") THEN {}
                         ELSE SecurityEvent(raw, type, FormatUser(raw.name), {})
    BY <1>4, SecurityKinds DEF Session
  <2>2. ~KeepSystem => (ShowsPerson(raw) <=>
            ~(~raw.remote \/ raw.name = NoName \/ IsNoise(raw.name, "any", "none")))
    BY <1>4 DEF ShowsPerson, IsNoise, IsServiceAccount, ServiceSids, NonHumanLogons
  <2>3. ShowsPerson(raw) => ~(~raw.remote \/ raw.name = NoName \/ IsNoise(raw.name, "any", "none"))
    BY <1>4 DEF ShowsPerson, IsNoise, IsServiceAccount, ServiceSids, NonHumanLogons
  <2> HIDE DEF type
  <2> QED
    BY <2>1, <2>2, <2>3, RecordsEvent
<1> QED
  BY <1>1, <1>2, <1>3, <1>4

(* What a poll of the log hands on of a record shows what the record shows. *)
LEMMA RecordsRaw ==
  ASSUME NEW r \in Records, NEW n
  PROVE  LET raw == SecurityRaw(n, r) IN
         /\ raw.source = "windows_security" /\ raw.number = n /\ raw.id = r.id /\ raw.name = r.name
         /\ raw.actor = r.actor /\ raw.remote \in BOOLEAN
         /\ ShowsPerson(raw) <=> ShowsPerson(r)
<1>1. r.remote \in BOOLEAN
  BY RecordsAssumption
<1> QED
  BY <1>1 DEF SecurityRaw, ShowsPerson

(* A record's event is made of a person's doing or of an administrative act, *)
(* and is credited to the one who did it.                                    *)
LEMMA RecordsEvents ==
  ASSUME NEW r \in Records, NEW n, NEW e \in Normalise(SecurityRaw(n, r))
  PROVE  /\ e.key = <<"log", r.id, n>>
         /\ KeepSystem \/ r.person \/ r.administers
         /\ r.person =>
              /\ e.user.account = r.by
              /\ (IF r.administers THEN r.actor ELSE r.name).form = "domain" =>
                    e.user = [account |-> r.by, form |-> "domain", case |-> "lower"]
<1> DEFINE name == IF r.administers THEN r.actor ELSE r.name
<1>1. /\ {r.name, r.actor, r.target} \subseteq Names \cup {NoName}
      /\ r.administers \in BOOLEAN /\ r.person \in BOOLEAN
      /\ r.administers <=> r.id \in Administering
      /\ ~r.administers => (r.person <=> ShowsPerson(r))
      /\ r.person => ~IsServiceAccount(name, "any") /\ name.account = r.by
  BY RecordsAssumption
<1>2. PICK raw : raw = SecurityRaw(n, r)
  OBVIOUS
<1>3. /\ raw.source = "windows_security" /\ raw.number = n /\ raw.id = r.id /\ raw.name = r.name
      /\ raw.actor = r.actor /\ raw.remote \in BOOLEAN
      /\ ShowsPerson(raw) <=> ShowsPerson(r)
  BY <1>2, RecordsRaw
<1>4. e \in Normalise(raw)
  BY <1>2
<1>5. r.id \in Administering \cup {4624, 4625, 4634, 4647, 4778, 4779}
  BY <1>3, <1>4, SecurityKinds
<1>6. /\ e.key = <<"log", r.id, n>> /\ (KeepSystem \/ r.person \/ r.administers)
      /\ name # NoName => e.user = FormatUser(name)
  <2>1. CASE r.administers
    BY <1>1, <1>3, <1>4, <2>1, ActsMakeEvents
  <2>2. CASE ~r.administers
    BY <1>1, <1>3, <1>4, <1>5, <2>2, SessionsMakeEvents
  <2> QED
    BY <1>1, <2>1, <2>2
<1>7. name \in Names \cup {NoName}
  BY <1>1
<1> HIDE DEF name
<1>8. r.person => /\ e.user.account = r.by
                  /\ name.form = "domain" => e.user = [account |-> r.by, form |-> "domain", case |-> "lower"]
  BY <1>1, <1>6, <1>7, PersonsName
<1> QED
  BY <1>6, <1>8 DEF name

(* A person's record is read, and makes an event. *)
LEMMA PersonsRecord ==
  ASSUME NEW r \in Records, NEW n, r.person
  PROVE  r.id \in WantedEventIds /\ \E e \in Normalise(SecurityRaw(n, r)) : e.key = <<"log", r.id, n>>
<1>1. /\ r.administers \in BOOLEAN /\ r.person \in BOOLEAN
      /\ r.administers <=> r.id \in Administering
      /\ ~r.administers => (r.person <=> ShowsPerson(r))
  BY RecordsAssumption
<1>2. PICK raw : raw = SecurityRaw(n, r)
  OBVIOUS
<1>3. /\ raw.source = "windows_security" /\ raw.number = n /\ raw.id = r.id /\ raw.name = r.name
      /\ raw.actor = r.actor /\ raw.remote \in BOOLEAN
      /\ ShowsPerson(raw) <=> ShowsPerson(r)
  BY <1>2, RecordsRaw
<1>4. CASE r.administers
  <2>1. \E e \in Normalise(raw) : e.key = <<"log", r.id, n>>
    BY <1>1, <1>3, <1>4, ActsMakeEvents
  <2>2. r.id \in WantedEventIds
    BY <1>1, <1>4 DEF Administering, WantedEventIds
  <2> QED
    BY <1>2, <2>1, <2>2
<1>5. CASE ~r.administers
  <2>1. ShowsPerson(r) /\ r.id \in {4624, 4625, 4634, 4647, 4778, 4779}
    BY <1>1, <1>5 DEF ShowsPerson
  <2>2. \E e \in Normalise(raw) : e.key = <<"log", r.id, n>>
    BY <1>3, <2>1, SessionsMakeEvents
  <2> QED
    BY <1>2, <2>1, <2>2 DEF WantedEventIds
<1> QED
  BY <1>1, <1>4, <1>5

-----------------------------------------------------------------------------
(* What was there to report and what is in the queue. *)

LEMMA BeginsAlike ==
  ASSUME NEW e, NEW k, e.key = k, k[1] # "tcp"
  PROVE  Answers(e, k)
BY DEF Answers, Begins

(* A poll that answers what it observes misses nothing. *)
LEMMA PollMissesNothing ==
  ASSUME NEW result, NEW observed, Handle(result, observed), NothingMissed,
         alive' => \A k \in observed : \E e \in queued' : Answers(e, k)
  PROVE  NothingMissed'
<1>1. queued \subseteq queued' /\ (due' = due \/ (due' = due \cup observed /\ alive'))
  BY PollHandled
<1> QED
  BY <1>1 DEF NothingMissed

-----------------------------------------------------------------------------
(* The collector of the Security log. *)

LEMMA LeastOf ==
  ASSUME NEW S, S \subseteq Nat, S # {}
  PROVE  \E n \in S : \A m \in S : n <= m
<1> DEFINE R == OpToRel(<, Nat)
<1>1. IsWellFoundedOn(R, Nat)
  BY NatLessThanWellFounded
<1>2. \A m, k \in Nat : m < k => <<m, k>> \in R
  BY DEF OpToRel
<1> HIDE DEF R
<1>3. PICK n \in S : \A m \in S : ~(<<m, n>> \in R)
  BY <1>1, WFMin
<1>4. \A m \in S : ~(m < n)
  BY <1>2, <1>3
<1> QED
  BY <1>4

LEMMA MaxIs ==
  ASSUME NEW N \in Nat, NEW S, S \subseteq 0..N, S # {}
  PROVE  Max(S) \in S /\ \A n \in S : n <= Max(S)
<1> DEFINE below == {N - n : n \in S}
<1>1. below \subseteq Nat /\ below # {}
  OBVIOUS
<1>2. PICK k \in below : \A m \in below : k <= m
  BY <1>1, LeastOf
<1>3. PICK x \in S : k = N - x
  OBVIOUS
<1>4. ASSUME NEW n \in S
      PROVE  x >= n
  <2>1. N - n \in below
    OBVIOUS
  <2>2. N - x <= N - n
    BY <1>2, <1>3, <2>1
  <2> QED
    BY <2>2
<1>5. \E z \in S : \A n \in S : z >= n
  BY <1>4
<1>6. Max(S) \in S /\ \A n \in S : Max(S) >= n
  BY <1>5 DEF Max
<1> QED
  BY <1>6

\* The bookmark follows the log, what is past it was done since the first poll,
\* and what is not is in the queue.
LogInv ==
    watched = "log" =>
        /\ world = [present |-> world.present, written |-> world.written]
        /\ world.written \in Seq(Records)
        /\ world.present \subseteq 1..Len(world.written)
        /\ memory # NoMemory => memory \in 0..Len(world.written)
        /\ memory = NoMemory => since = {}
        /\ memory # NoMemory => \A n \in world.present : n > memory => n \in since
        /\ alive /\ memory # NoMemory =>
              \A n \in since \cap world.present :
                n <= memory /\ world.written[n].person =>
                    \E e \in queued : e.key = <<"log", world.written[n].id, n>>

(* Every record a poll reads on to the end is behind the bookmark after it. *)
LEMMA PollLogKeeps ==
  ASSUME LogInv, NothingMissed, PollLog
  PROVE  LogInv' /\ NothingMissed'
<1> DEFINE log == [n \in world.present |-> world.written[n]]
<1>1. PICK failed \in BOOLEAN, reach \in 0..Cardinality(world.present) :
        Handle(SecurityPoll(memory, log, failed, reach),
               IF failed THEN {}
               ELSE {<<"log", log[n].id, n>> : n \in {n \in since \cap world.present : log[n].person}})
  BY DEF PollLog
<1>2. PICK result : result = SecurityPoll(memory, log, failed, reach)
  OBVIOUS
<1>3. PICK observed : observed = IF failed THEN {}
               ELSE {<<"log", log[n].id, n>> : n \in {n \in since \cap world.present : log[n].person}}
  OBVIOUS
<1>4. Handle(result, observed)
  BY <1>1, <1>2, <1>3
<1>5. PICK N \in Nat : N = Len(world.written)
  BY DEF LogInv, PollLog
<1>6. /\ watched = "log" /\ watched' = "log" /\ world' = world /\ since' = since /\ alive
      /\ memory' = result.memory /\ queued \subseteq queued'
      /\ alive' => \A raw \in result.raws : \A e \in Normalise(raw) : \E q \in queued' : q.key = e.key
  BY <1>4, PollHandled DEF PollLog
<1>7. /\ world.written \in Seq(Records) /\ world.present \subseteq 1..N
      /\ memory # NoMemory => memory \in 0..N
      /\ memory = NoMemory => since = {}
      /\ memory # NoMemory => \A n \in world.present : n > memory => n \in since
      /\ memory # NoMemory =>
            \A n \in since \cap world.present :
              n <= memory /\ world.written[n].person =>
                  \E e \in queued : e.key = <<"log", world.written[n].id, n>>
  BY <1>5, <1>6 DEF LogInv
<1>8. \A n \in world.present : world.written[n] \in Records /\ log[n] = world.written[n]
  <2>1. \A n \in 1..N : world.written[n] \in Records
    BY <1>5, <1>7
  <2> QED
    BY <1>7, <2>1
<1>9. DOMAIN log = world.present
  OBVIOUS
<1> HIDE DEF log
<1>10. CASE memory = NoMemory
  <2>1. result.memory = IF DOMAIN log = {} \/ failed THEN NoMemory ELSE Max(DOMAIN log)
    BY <1>2, <1>10 DEF SecurityPoll, Poll
  <2>2. world.present # {} => Max(world.present) \in world.present /\ \A n \in world.present : n <= Max(world.present)
    <3>1. world.present \subseteq 0..N
      BY <1>7
    <3> QED
      BY <3>1, MaxIs
  <2>3. memory' # NoMemory => memory' \in 1..N /\ \A n \in world.present : n <= memory'
    BY <1>6, <1>7, <1>9, <2>1, <2>2
  <2>4. since = {}
    BY <1>7, <1>10
  <2>5. \A n \in world.present : memory' # NoMemory => ~(n > memory')
    BY <1>7, <2>3
  <2>6. LogInv'
    BY <1>5, <1>6, <1>7, <2>3, <2>4, <2>5 DEF LogInv
  <2>7. observed = {}
    BY <1>3, <2>4
  <2> QED
    BY <1>4, <2>6, <2>7, PollMissesNothing
<1>11. CASE memory # NoMemory
  <2>1. memory \in 0..N
    BY <1>7, <1>11
  <2>2. result.memory = IF failed THEN memory ELSE Max(world.present \cup {memory})
    BY <1>2, <1>9, <1>11 DEF SecurityPoll, Poll, Bookmark
  <2>3. ASSUME ~failed
        PROVE  memory' \in 0..N /\ memory <= memory' /\ \A n \in world.present : n <= memory'
    <3>1. world.present \cup {memory} \subseteq 0..N
      BY <1>7, <2>1
    <3> QED
      BY <1>6, <2>2, <2>3, <3>1, MaxIs
  <2>4. memory' \in 0..N /\ memory' # NoMemory
    BY <1>6, <2>1, <2>2, <2>3, NothingAssumption
  <2>5. ASSUME ~failed, alive', NEW n \in since \cap world.present, world.written[n].person
        PROVE  \E e \in queued' : e.key = <<"log", world.written[n].id, n>>
    <3>1. CASE n <= memory
      BY <1>6, <1>7, <1>11, <2>5, <3>1
    <3>2. CASE ~(n <= memory)
      <4>1. PICK r \in Records : r = world.written[n] /\ r = log[n] /\ r.person
        BY <1>8, <2>5
      <4>2. r.id \in WantedEventIds /\ \E e \in Normalise(SecurityRaw(n, r)) : e.key = <<"log", r.id, n>>
        BY <4>1, PersonsRecord
      <4>3. n > memory
        BY <1>7, <2>1, <3>2
      <4>4. result.raws = {SecurityRaw(m, log[m]) : m \in {m \in DOMAIN log : m > memory /\ log[m].id \in WantedEventIds}}
        BY <1>2, <1>11, <2>5 DEF SecurityPoll, Poll
      <4>5. SecurityRaw(n, r) \in result.raws
        BY <1>9, <4>1, <4>2, <4>3, <4>4
      <4> QED
        BY <1>6, <2>5, <4>1, <4>2, <4>5
    <3> QED
      BY <3>1, <3>2
  <2>6. \A n \in world.present : n > memory' => n \in since
    <3>1. CASE failed
      BY <1>6, <1>7, <1>11, <2>2, <3>1
    <3>2. CASE ~failed
      BY <1>7, <2>3, <2>4, <3>2
    <3> QED
      BY <3>1, <3>2
  <2>7. ASSUME alive', NEW n \in since \cap world.present, n <= memory', world.written[n].person
        PROVE  \E e \in queued' : e.key = <<"log", world.written[n].id, n>>
    <3>1. CASE failed
      <4>1. n <= memory
        BY <1>6, <2>2, <2>7, <3>1
      <4> QED
        BY <1>6, <1>7, <1>11, <2>7, <4>1
    <3> QED
      BY <2>5, <2>7, <3>1
  <2>8. LogInv'
    BY <1>5, <1>6, <1>7, <2>4, <2>6, <2>7 DEF LogInv
  <2>9. ASSUME alive', NEW k \in observed
        PROVE  \E e \in queued' : Answers(e, k)
    <3>1. ~failed
      BY <1>3, <2>9
    <3>2. PICK n \in since \cap world.present : log[n].person /\ k = <<"log", log[n].id, n>>
      BY <1>3, <2>9
    <3>3. PICK e \in queued' : e.key = k
      BY <1>8, <2>5, <2>9, <3>1, <3>2
    <3>4. k[1] # "tcp"
      BY <3>2
    <3> QED
      BY <3>3, <3>4, BeginsAlike
  <2> QED
    BY <1>4, <2>8, <2>9, PollMissesNothing
<1> QED
  BY <1>10, <1>11

(* What is written to the log, or cleared from it, is yet to be read. *)
LEMMA LogDeedKeeps ==
  ASSUME LogInv, LogDeed
  PROVE  LogInv'
<1>1. PICK N \in Nat : N = Len(world.written)
  BY DEF LogInv, LogDeed
<1>2. /\ world.written \in Seq(Records) /\ world.present \subseteq 1..N
      /\ memory # NoMemory => memory \in 0..N
      /\ memory = NoMemory => since = {}
      /\ memory # NoMemory => \A n \in world.present : n > memory => n \in since
      /\ alive /\ memory # NoMemory =>
            \A n \in since \cap world.present :
              n <= memory /\ world.written[n].person =>
                  \E e \in queued : e.key = <<"log", world.written[n].id, n>>
      /\ watched = "log"
  BY <1>1 DEF LogInv, LogDeed
<1>3. CASE world.present # {} /\ Done([world EXCEPT !.present = {}], since)
  <2>1. /\ world' = [world EXCEPT !.present = {}] /\ since' = since
        /\ UNCHANGED <<watched, alive, memory, queued>>
    BY <1>3 DEF Done
  <2>2. world'.written = world.written /\ world'.present = {} /\ world' = [present |-> {}, written |-> world'.written]
    BY <1>2, <2>1 DEF LogInv
  <2> QED
    BY <1>1, <1>2, <2>1, <2>2 DEF LogInv
<1>4. ASSUME NEW r \in Records,
             Done([present |-> world.present \cup {N + 1}, written |-> Append(world.written, r)],
                  IF memory = NoMemory THEN since ELSE since \cup {N + 1})
      PROVE  LogInv'
  <2>1. /\ world' = [present |-> world.present \cup {N + 1}, written |-> Append(world.written, r)]
        /\ since' = IF memory = NoMemory THEN since ELSE since \cup {N + 1}
        /\ UNCHANGED <<watched, alive, memory, queued>>
    BY <1>4 DEF Done
  <2>2. /\ world'.written \in Seq(Records) /\ Len(world'.written) = N + 1
        /\ \A n \in 1..N : world'.written[n] = world.written[n]
    BY <1>1, <1>2, <2>1
  <2>3. world'.present = world.present \cup {N + 1}
    BY <2>1
  <2>4. world'.present \subseteq 1..(N + 1) /\ (memory # NoMemory => memory \in 0..(N + 1))
    BY <1>2, <2>3
  <2>5. \A n \in world'.present : n \in world.present \/ n = N + 1
    BY <2>3
  <2>6. memory # NoMemory => \A n \in world'.present : n > memory => n \in since'
    BY <1>2, <2>1, <2>5
  <2>7. memory # NoMemory => ~(N + 1 <= memory)
    BY <1>2
  <2>8. ASSUME alive, memory # NoMemory, NEW n \in since' \cap world'.present, n <= memory,
               world'.written[n].person
        PROVE  \E e \in queued : e.key = <<"log", world'.written[n].id, n>>
    <3>1. n # N + 1
      BY <2>7, <2>8
    <3>2. n \in since \cap world.present /\ n \in 1..N
      BY <1>2, <2>1, <2>3, <2>8, <3>1
    <3> QED
      BY <1>2, <2>2, <2>8, <3>2
  <2>9. world' = [present |-> world'.present, written |-> world'.written]
    BY <2>1
  <2> QED
    BY <1>2, <2>1, <2>2, <2>4, <2>6, <2>8, <2>9 DEF LogInv
<1> QED
  BY <1>1, <1>3, <1>4 DEF LogDeed

LEMMA OthersLeaveTheLog ==
  ASSUME watched = "log", [SensorsNext]_sensorVars, ~LogDeed, ~PollLog
  PROVE  /\ UNCHANGED <<watched, world, queued, due>>
         /\ \/ UNCHANGED <<memory, since>> /\ (alive' = alive \/ ~alive')
            \/ memory' = NoMemory /\ since' = {}
BY DEF SensorsNext, sensorVars, DriveDeed, WebDeed, TcpDeed, WmiDeed, PollDrive, PollDownloads, PollNetwork,
       PollWmi, ReadFails, AccessDenied, AgentRestarts

LEMMA LogKeeps == LogInv /\ [SensorsNext]_sensorVars /\ NothingMissed => LogInv'
<1> SUFFICES ASSUME LogInv, [SensorsNext]_sensorVars, NothingMissed PROVE LogInv'
  OBVIOUS
<1>1. watched' = watched
  BY OneCollector
<1>2. CASE watched # "log"
  BY <1>1, <1>2 DEF LogInv
<1>3. CASE watched = "log" /\ ~LogDeed /\ ~PollLog
  BY <1>3, OthersLeaveTheLog DEF LogInv
<1> QED
  BY <1>2, <1>3, LogDeedKeeps, PollLogKeeps

(* An event of the log is of a record past the bookmark. *)
LEMMA PollLogIsNew ==
  ASSUME LogInv, PollLog, NEW e \in queued' \ queued
  PROVE  IsNew(e) /\ Credited(e)
<1> DEFINE log == [n \in world.present |-> world.written[n]]
<1>1. PICK failed \in BOOLEAN, reach \in 0..Cardinality(world.present) :
        \E observed : Handle(SecurityPoll(memory, log, failed, reach), observed)
  BY DEF PollLog
<1>2. PICK result : result = SecurityPoll(memory, log, failed, reach)
  OBVIOUS
<1>3. PICK raw \in result.raws : e \in Normalise(raw)
  BY <1>1, <1>2, PollHandled
<1>4. memory # NoMemory
  <2>1. memory = NoMemory => result.raws = {}
    BY <1>2 DEF SecurityPoll, Poll
  <2> QED
    BY <1>3, <2>1
<1>5. PICK n \in world.present : n > memory /\ raw = SecurityRaw(n, log[n])
  <2>1. DOMAIN log = world.present
    OBVIOUS
  <2> HIDE DEF log
  <2> QED
    BY <1>2, <1>3, <1>4, <2>1 DEF SecurityPoll, Poll
<1>6. n \in since
  BY <1>4, <1>5 DEF LogInv, PollLog
<1>7. PICK r \in Records : r = world.written[n]
  <2>1. world.written \in Seq(Records) /\ n \in 1..Len(world.written)
    BY <1>5 DEF LogInv, PollLog
  <2> QED
    BY <2>1
<1>8. e \in Normalise(SecurityRaw(n, r))
  BY <1>3, <1>5, <1>7
<1>9. /\ e.key = <<"log", r.id, n>>
      /\ KeepSystem \/ r.person \/ r.administers
      /\ r.person =>
           /\ e.user.account = r.by
           /\ (IF r.administers THEN r.actor ELSE r.name).form = "domain" =>
                 e.user = [account |-> r.by, form |-> "domain", case |-> "lower"]
  BY <1>8, RecordsEvents
<1>10. e.key[1] = "log" /\ e.key[3] = n
  BY <1>9
<1>11. IsNew(e)
  BY <1>6, <1>7, <1>9, <1>10 DEF IsNew
<1>12. Credited(e)
  BY <1>7, <1>9, <1>10 DEF Credited
<1> QED
  BY <1>11, <1>12

-----------------------------------------------------------------------------
(* The owner that is found for a process. *)

(* Whoever answers, the name is its own, and so is the identifier if the     *)
(* second question was answered too.                                         *)
LEMMA Resolved ==
  ASSUME NEW process, process.owner \in Accounts, process.parent \in Accounts, NEW reply \in Replies
  PROVE  /\ reply = InFull => ResolvedOwner(process, reply) = process.owner
         /\ reply.of = "own" =>
              /\ ResolvedOwner(process, reply).name = process.owner.name
              /\ ResolvedOwner(process, reply).sid \in {process.owner.sid, "any"}
         /\ reply.of # "own" =>
              ResolvedOwner(process, reply).name \in {process.parent.name, NoName}
<1>1. /\ reply.of \in {"own", "parent", "nobody"}
      /\ reply.of = "nobody" => ~reply.sid
      /\ reply = InFull => reply.of = "own" /\ reply.sid
  BY DEF Replies, InFull
<1> DEFINE owner == CASE reply.of = "own" -> process.owner
                      [] reply.of = "parent" -> process.parent
                      [] OTHER -> [name |-> NoName, sid |-> "any"]
<1>2. /\ reply.of = "own" => owner = process.owner
      /\ reply.of = "parent" => owner = process.parent
      /\ reply.of = "nobody" => owner = [name |-> NoName, sid |-> "any"]
  BY <1>1
<1> HIDE DEF owner
<1>3. PICK name, sid : owner = [name |-> name, sid |-> sid]
  <2>1. CASE reply.of = "nobody"
    BY <1>2, <2>1
  <2>2. CASE reply.of # "nobody"
    <3>1. owner \in Accounts
      BY <1>1, <1>2, <2>2
    <3> QED
      BY <3>1 DEF Accounts
  <2> QED
    BY <2>1, <2>2
<1>4. /\ [owner EXCEPT !.sid = "any"].name = owner.name
      /\ [owner EXCEPT !.sid = "any"].sid = "any"
  BY <1>3
<1>5. ResolvedOwner(process, reply) = IF reply.sid THEN owner ELSE [owner EXCEPT !.sid = "any"]
  BY DEF ResolvedOwner, owner
<1>6. ResolvedOwner(process, reply).name = owner.name /\ ResolvedOwner(process, reply).sid \in {owner.sid, "any"}
  BY <1>4, <1>5
<1>7. reply = InFull => ResolvedOwner(process, reply) = process.owner
  BY <1>1, <1>2, <1>5
<1>8. reply.of = "own" =>
        /\ ResolvedOwner(process, reply).name = process.owner.name
        /\ ResolvedOwner(process, reply).sid \in {process.owner.sid, "any"}
  BY <1>2, <1>6
<1>9. reply.of # "own" => owner.name \in {process.parent.name, NoName}
  <2>1. CASE reply.of = "parent"
    BY <1>2, <2>1
  <2>2. CASE reply.of = "nobody"
    <3>1. owner = [name |-> NoName, sid |-> "any"]
      BY <1>2, <2>2
    <3>2. owner.name = NoName
      BY <3>1
    <3> QED
      BY <3>2
  <2> QED
    BY <1>1, <2>1, <2>2
<1> QED
  BY <1>6, <1>7, <1>8, <1>9

-----------------------------------------------------------------------------
(* The collector of processes and drives that come and go. *)

\* The subscription is read in order.
WmiInv ==
    watched = "wmi" =>
        /\ world \in Seq(Launches)
        /\ memory # NoMemory => memory \in 0..Len(world)

(* A person's process makes an event unless it is taken for a service's, and *)
(* one that is no person's only when that is asked for or its own owner is   *)
(* not to be had in full.                                                    *)
LEMMA ProcessEvents ==
  ASSUME NEW l \in Launches, l.source = "process", NEW n, NEW reply \in Replies,
         NEW raw, raw = ProcessRaw(l, n, reply)
  PROVE  /\ /\ ~TakenForService(l, reply)
            /\ l.session = 0 => ResolvedOwner(l, reply).name # NoName
            => \E e \in Normalise(raw) : e.key = <<"process", l.pid, n>>
         /\ \A e \in Normalise(raw) :
              /\ e.key = <<"process", l.pid, n>>
              /\ reply = InFull => KeepSystem \/ l.person
              /\ reply.of = "own" => e.user = FormatUser(l.owner.name)
              /\ reply.of # "own" => e.user \in {FormatUser(l.parent.name), FormatUser(SessionOwner(l))}
<1> DEFINE owner == ResolvedOwner(l, reply)
<1>1. /\ l.owner \in Accounts /\ l.parent \in Accounts /\ l.owner.name # NoName
      /\ l.person \in BOOLEAN
      /\ l.person <=> ~IsServiceAccount(l.owner.name, l.owner.sid)
  BY LaunchesAssumption
<1>2. /\ reply = InFull => owner = l.owner
      /\ reply.of = "own" => owner.name = l.owner.name
      /\ reply.of # "own" => owner.name \in {l.parent.name, NoName}
  BY <1>1, Resolved
<1>3. /\ raw.source = "process" /\ raw.pid = l.pid /\ raw.created = n /\ raw.session = l.session
      /\ raw.signedIn = l.signedIn /\ raw.owner = owner.name /\ raw.sid = owner.sid
  BY DEF ProcessRaw
<1>4. TakenForService(l, reply) <=> owner.name # NoName /\ IsServiceAccount(owner.name, owner.sid)
  BY DEF TakenForService
<1> HIDE DEF owner
<1>5. Normalise(raw) = FromProcess(raw)
  BY <1>3 DEF Normalise
<1>6. SessionOwner(raw) = SessionOwner(l)
  BY <1>3 DEF SessionOwner
<1> DEFINE user == FormatUser(IF owner.name = NoName THEN SessionOwner(l) ELSE owner.name)
<1>7. Normalise(raw) = IF IsServices(raw) \/ (owner.name = NoName /\ l.session = 0 /\ ~KeepSystem) THEN {}
                       ELSE Event(<<"process", l.pid, n>>, "app_launch", user, {})
  BY <1>3, <1>5, <1>6 DEF FromProcess
<1>8. IsServices(raw) <=> (owner.name # NoName /\ ~KeepSystem /\ IsServiceAccount(owner.name, owner.sid))
  BY <1>3 DEF IsServices
<1> HIDE DEF user
<1>9. /\ \A e \in Normalise(raw) : e.key = <<"process", l.pid, n>> /\ e.user = user
      /\ Normalise(raw) # {} =>
            ~IsServices(raw) /\ ~(owner.name = NoName /\ l.session = 0 /\ ~KeepSystem)
      /\ ~IsServices(raw) /\ ~(owner.name = NoName /\ l.session = 0 /\ ~KeepSystem) =>
            \E e \in Normalise(raw) : e.key = <<"process", l.pid, n>>
  <2>1. CASE IsServices(raw) \/ (owner.name = NoName /\ l.session = 0 /\ ~KeepSystem)
    BY <1>7, <2>1
  <2>2. CASE ~(IsServices(raw) \/ (owner.name = NoName /\ l.session = 0 /\ ~KeepSystem))
    <3>1. Normalise(raw) = Event(<<"process", l.pid, n>>, "app_launch", user, {})
      BY <1>7, <2>2
    <3>2. Normalise(raw) = {[key |-> <<"process", l.pid, n>>, type |-> "app_launch", user |-> user,
                             indicators |-> {}]}
      BY <3>1 DEF Event
    <3> QED
      BY <2>2, <3>2
  <2> QED
    BY <2>1, <2>2
<1>10. ASSUME ~TakenForService(l, reply), l.session = 0 => owner.name # NoName
       PROVE  \E e \in Normalise(raw) : e.key = <<"process", l.pid, n>>
  BY <1>4, <1>8, <1>9, <1>10
<1>11. ASSUME NEW e \in Normalise(raw)
       PROVE  /\ reply = InFull => KeepSystem \/ l.person
              /\ reply.of = "own" => e.user = FormatUser(l.owner.name)
              /\ reply.of # "own" => e.user \in {FormatUser(l.parent.name), FormatUser(SessionOwner(l))}
  <2>1. e.user = user
    BY <1>9
  <2>2. reply = InFull => KeepSystem \/ l.person
    BY <1>1, <1>2, <1>8, <1>9
  <2>3. reply.of = "own" => user = FormatUser(l.owner.name)
    BY <1>1, <1>2 DEF user
  <2>4. reply.of # "own" => user \in {FormatUser(l.parent.name), FormatUser(SessionOwner(l))}
    BY <1>2 DEF user
  <2> QED
    BY <2>1, <2>2, <2>3, <2>4
<1> QED
  BY <1>9, <1>10, <1>11 DEF owner

(* The events of a drive that comes or goes say so. *)
LEMMA UsbEvents ==
  ASSUME NEW l \in Launches, l.source = "usb", NEW raw \in UsbRaws(l, now, Console)
  PROVE  /\ l.removable
         /\ \A e \in Normalise(raw) : e.key = <<"usb", l.kind, l.device, now>>
         /\ \E e \in Normalise(raw) : e.key = <<"usb", l.kind, l.device, now>>
<1>1. l.removable /\ raw.source = "usb" /\ raw.kind = l.kind /\ raw.device = l.device /\ raw.occurred = now
  BY DEF UsbRaws
<1>2. Normalise(raw) = FromUsb(raw)
  BY <1>1 DEF Normalise
<1> QED
  BY <1>1, <1>2 DEF FromUsb, Event

(* An event of the subscription is answered by the one it makes. *)
LEMMA PollWmiKeeps ==
  ASSUME WmiInv, NothingMissed, PollWmi
  PROVE  /\ WmiInv' /\ NothingMissed'
         /\ \A e \in queued' \ queued : IsNew(e) /\ Credited(e)
<1>1. watched = "wmi" /\ world \in Seq(Launches) /\ Len(world) \in Nat
  BY DEF PollWmi, WmiInv
<1>2. CASE memory = NoMemory
  <2>1. Handle(Poll(Len(world), {}), {})
    BY <1>2 DEF PollWmi
  <2>2. PICK result : result = Poll(Len(world), {})
    OBVIOUS
  <2>3. result.memory = Len(world) /\ result.raws = {}
    BY <2>2 DEF Poll
  <2>4. /\ memory' = Len(world) /\ world' = world /\ watched' = watched
        /\ \A e \in queued' \ queued : FALSE
    BY <1>1, <1>2, <2>1, <2>2, <2>3, PollHandled
  <2>5. WmiInv'
    BY <1>1, <2>4 DEF WmiInv
  <2>6. NothingMissed'
    BY <2>1, PollMissesNothing
  <2> QED
    BY <2>4, <2>5, <2>6
<1>3. CASE memory # NoMemory
  <2> DEFINE n == memory + 1
             event == world[n]
  <2>1. PICK reply \in Replies :
          /\ memory < Len(world)
          /\ Handle(Poll(n, IF event.source = "usb" THEN UsbRaws(event, now, Console)
                            ELSE {ProcessRaw(event, n, reply)}),
                    IF event.source = "usb"
                    THEN {<<"usb", event.kind, event.device, now>> :
                            raw \in IF event.source = "usb" THEN UsbRaws(event, now, Console)
                                    ELSE {ProcessRaw(event, n, reply)}}
                    ELSE {k \in {<<"process", event.pid, n>>} :
                            /\ event.person
                            /\ ~TakenForService(event, reply)
                            /\ event.session = 0 => ResolvedOwner(event, reply).name # NoName})
          /\ told' = With(told, n, reply)
    BY <1>3 DEF PollWmi
  <2>2. memory \in 0..Len(world)
    BY <1>1, <1>3 DEF WmiInv
  <2>3. n \in 1..Len(world)
    BY <1>1, <2>1, <2>2
  <2>4. PICK l \in Launches : l = event
    BY <1>1, <2>3
  <2>5. PICK raws : raws = IF l.source = "usb" THEN UsbRaws(l, now, Console)
                           ELSE {ProcessRaw(l, n, reply)}
    OBVIOUS
  <2>6. PICK observed : observed =
                    IF l.source = "usb"
                    THEN {<<"usb", l.kind, l.device, now>> : raw \in raws}
                    ELSE {k \in {<<"process", l.pid, n>>} :
                            /\ l.person
                            /\ ~TakenForService(l, reply)
                            /\ l.session = 0 => ResolvedOwner(l, reply).name # NoName}
    OBVIOUS
  <2> HIDE DEF event
  <2>7. Handle(Poll(n, raws), observed)
    BY <2>1, <2>4, <2>5, <2>6
  <2>8. PICK result : result = Poll(n, raws)
    OBVIOUS
  <2>9. result.memory = n /\ result.raws = raws
    BY <2>8 DEF Poll
  <2>10. /\ memory' = n /\ world' = world /\ watched' = watched
         /\ \A e \in queued' \ queued : \E raw \in raws : e \in Normalise(raw)
         /\ alive' => \A raw \in raws : \A e \in Normalise(raw) : \E q \in queued' : q.key = e.key
    BY <2>7, <2>8, <2>9, PollHandled
  <2>11. told'[n] = reply
    BY <2>1 DEF With
  <2>12. l.source = "usb" \/ l.source = "process"
    BY LaunchesAssumption
  <2>13. WmiInv'
    BY <1>1, <2>3, <2>10 DEF WmiInv
  <2>14. l = world[n]
    BY <2>4 DEF event
  <2> HIDE DEF n
  <2>15. CASE l.source = "usb"
    <3>1. raws = UsbRaws(l, now, Console) /\ observed = {<<"usb", l.kind, l.device, now>> : raw \in raws}
      BY <2>5, <2>6, <2>15
    <3>2. ASSUME alive', NEW k \in observed
          PROVE  \E e \in queued' : Answers(e, k)
      <4>1. PICK raw \in raws : k = <<"usb", l.kind, l.device, now>>
        BY <3>1, <3>2
      <4>2. PICK e \in queued' : e.key = k
        BY <2>10, <2>15, <3>1, <3>2, <4>1, UsbEvents
      <4>3. k[1] # "tcp"
        BY <4>1
      <4> QED
        BY <4>2, <4>3, BeginsAlike
    <3>3. ASSUME NEW e \in queued' \ queued
          PROVE  IsNew(e) /\ Credited(e)
      <4>1. l.removable /\ e.key = <<"usb", l.kind, l.device, now>>
        BY <2>10, <2>15, <3>1, UsbEvents
      <4>2. e.key[1] = "usb"
        BY <4>1
      <4>3. n \in DOMAIN world
        BY <1>1, <2>3
      <4> QED
        BY <2>14, <2>15, <4>1, <4>2, <4>3 DEF IsNew, Credited
    <3> QED
      BY <2>7, <2>13, <3>2, <3>3, PollMissesNothing
  <2>16. CASE l.source = "process"
    <3>1. PICK raw : raw = ProcessRaw(l, n, reply)
      OBVIOUS
    <3>2. /\ /\ ~TakenForService(l, reply)
             /\ l.session = 0 => ResolvedOwner(l, reply).name # NoName
             => \E e \in Normalise(raw) : e.key = <<"process", l.pid, n>>
          /\ \A e \in Normalise(raw) :
               /\ e.key = <<"process", l.pid, n>>
               /\ reply = InFull => KeepSystem \/ l.person
               /\ reply.of = "own" => e.user = FormatUser(l.owner.name)
               /\ reply.of # "own" => e.user \in {FormatUser(l.parent.name), FormatUser(SessionOwner(l))}
      BY <2>16, <3>1, ProcessEvents
    <3>3. raws = {raw}
      BY <2>5, <2>16, <3>1
    <3>4. ASSUME alive', NEW k \in observed
          PROVE  \E e \in queued' : Answers(e, k)
      <4>1. /\ k = <<"process", l.pid, n>>
            /\ ~TakenForService(l, reply)
            /\ l.session = 0 => ResolvedOwner(l, reply).name # NoName
        BY <2>6, <2>16, <3>4
      <4>2. PICK e \in queued' : e.key = k
        BY <2>10, <3>2, <3>3, <3>4, <4>1
      <4>3. k[1] # "tcp"
        BY <4>1
      <4> QED
        BY <4>2, <4>3, BeginsAlike
    <3>5. ASSUME NEW e \in queued' \ queued
          PROVE  IsNew(e) /\ Credited(e)
      <4>1. e \in Normalise(raw)
        BY <2>10, <3>3
      <4>2. e.key[1] = "process" /\ e.key[3] = n
        BY <3>2, <4>1
      <4>3. KeepSystem \/ l.person \/ told'[n] # InFull
        BY <2>11, <3>2, <4>1
      <4>4. IF told'[n].of = "own" THEN e.user = FormatUser(l.owner.name)
            ELSE e.user \in {FormatUser(l.parent.name), FormatUser(SessionOwner(l))}
        BY <2>11, <3>2, <4>1
      <4>5. IsNew(e)
        BY <2>14, <4>2, <4>3 DEF IsNew
      <4>6. Credited(e)
        BY <2>14, <4>2, <4>4 DEF Credited
      <4> QED
        BY <4>5, <4>6
    <3> QED
      BY <2>7, <2>13, <3>4, <3>5, PollMissesNothing
  <2> QED
    BY <2>12, <2>15, <2>16
<1> QED
  BY <1>2, <1>3

LEMMA OthersLeaveWmi ==
  ASSUME watched = "wmi", [SensorsNext]_sensorVars, ~WmiDeed, ~PollWmi
  PROVE  /\ UNCHANGED <<watched, world, queued, due>>
         /\ memory' \in {memory, NoMemory}
BY DEF SensorsNext, sensorVars, DriveDeed, WebDeed, TcpDeed, LogDeed, PollDrive, PollDownloads, PollNetwork,
       PollLog, ReadFails, AccessDenied, AgentRestarts

LEMMA WmiKeeps == WmiInv /\ [SensorsNext]_sensorVars /\ NothingMissed => WmiInv'
<1> SUFFICES ASSUME WmiInv, [SensorsNext]_sensorVars, NothingMissed PROVE WmiInv'
  OBVIOUS
<1>1. CASE watched # "wmi"
  <2>1. watched' = watched
    BY OneCollector
  <2> QED
    BY <1>1, <2>1 DEF WmiInv
<1>2. CASE watched = "wmi" /\ ~WmiDeed /\ ~PollWmi
  BY <1>2, OthersLeaveWmi DEF WmiInv
<1>3. CASE WmiDeed
  <2>1. PICK l \in Launches : Done(Append(world, l), since)
    BY <1>3 DEF WmiDeed
  <2>2. world' = Append(world, l) /\ UNCHANGED <<watched, memory>>
    BY <2>1 DEF Done
  <2>3. world \in Seq(Launches) /\ watched = "wmi" /\ Len(world) \in Nat
    BY <1>3 DEF WmiInv, WmiDeed
  <2>4. world' \in Seq(Launches) /\ Len(world') = Len(world) + 1
    BY <2>2, <2>3
  <2>5. memory # NoMemory => memory \in 0..Len(world) /\ memory \in 0..(Len(world) + 1)
    BY <2>3 DEF WmiInv
  <2> QED
    BY <2>2, <2>3, <2>4, <2>5 DEF WmiInv
<1> QED
  BY <1>1, <1>2, <1>3, PollWmiKeeps

-----------------------------------------------------------------------------
(* The collector of network connections. *)

\* An event of a connection to an endpoint, by its key.
KeyOf(q) == <<q.key[2], q.key[3], q.key[4]>>

\* An endpoint remembered as reported is one the queue has an event of, unless
\* it is not a person's or was taken for a service's.
ReportedIsQueued ==
    \A e \in DOMAIN memory.reported :
        Owners[e[1]].person /\ ~TakenForService(Owners[e[1]], told[e]) =>
            \E q \in queued : Begins(q.key, <<"tcp", e[1], e[2], e[3]>>) /\ q.key[6] = memory.reported[e]

\* Without a hitch, an event of the repeat window is remembered.
QueuedIsReported ==
    \A q \in queued :
        /\ q.key[6] \in Nat /\ q.key[6] <= now
        /\ \/ now - q.key[6] >= RepeatWindow
           \/ KeyOf(q) \in DOMAIN memory.reported /\ q.key[6] <= memory.reported[KeyOf(q)]

NetworkInv ==
    watched = "network" =>
        /\ world \subseteq TableRows
        /\ hitches = 0 /\ memory = NoMemory => queued = {}
        /\ memory # NoMemory =>
            /\ \E E \in SUBSET Endpoints : memory \in [previous : SUBSET TableRows, reported : [E -> Nat]]
            /\ \A e \in DOMAIN memory.reported : memory.reported[e] < now
            /\ since \cap memory.previous = {}
            /\ Established(world) \ memory.previous \subseteq since
            /\ alive => ReportedIsQueued
            /\ hitches = 0 => QueuedIsReported

(* Of the fresh rows of an endpoint, one is reported. *)
LEMMA NewestRow ==
  ASSUME NEW m, NEW rows, rows \subseteq TableRows, NEW t, NEW r \in FreshRows(m, rows, t)
  PROVE  \E s \in NewRows(m, rows, t) : Endpoint(s) = Endpoint(r)
<1> DEFINE fresh == FreshRows(m, rows, t)
           like == {s \in fresh : Endpoint(s) = Endpoint(r)}
           ports == {s.port : s \in like}
<1>1. fresh \subseteq TableRows
  BY DEF FreshRows, Established
<1>2. \A s \in TableRows : s.port \in Nat
  BY OwnersAssumption
<1>3. ports \subseteq Nat /\ ports # {}
  <2>1. r \in like
    OBVIOUS
  <2> QED
    BY <1>1, <1>2, <2>1
<1>4. PICK n \in ports : \A k \in ports : n <= k
  BY <1>3, LeastOf
<1>5. PICK s \in like : n = s.port
  BY <1>4
<1>6. ASSUME NEW z \in fresh, Endpoint(z) = Endpoint(s)
      PROVE  z.port >= s.port
  <2>1. z \in like
    BY <1>5, <1>6
  <2>2. n <= z.port
    BY <1>4, <2>1
  <2> QED
    BY <1>1, <1>2, <1>5, <1>6, <2>2
<1>7. s \in fresh /\ Endpoint(s) = Endpoint(r)
  BY <1>5
<1> HIDE DEF fresh
<1>8. s \in {z \in fresh : \A y \in fresh : Endpoint(y) = Endpoint(z) => y.port >= z.port}
  BY <1>6, <1>7
<1> QED
  BY <1>7, <1>8 DEF NewRows, fresh

LEMMA NewRowsAreFresh ==
  ASSUME NEW m, NEW rows, NEW t
  PROVE  NewRows(m, rows, t) \subseteq FreshRows(m, rows, t)
BY DEF NewRows

\* What an event says of its connection, by who answered for the owner.
SpeaksOf(e, r, reply, t) ==
    /\ e.key = <<"tcp", r.pid, r.remote, r.service, r.port, t>>
    /\ KeepSystem \/ Owners[r.pid].person \/ (r.pid \notin KernelPids /\ reply # InFull)
    /\ r.pid \notin KernelPids =>
          /\ reply.of = "own" => e.user = FormatUser(Owners[r.pid].owner.name)
          /\ reply.of # "own" => e.user \in {FormatUser(Owners[r.pid].parent.name), Unknown}

(* A connection's event names it, is made of a person's unless it is taken   *)
(* for a service's, and of no one else's unless that is asked for or its own *)
(* owner is not to be had in full.                                           *)
LEMMA ConnectionEvents ==
  ASSUME NEW r \in TableRows, NEW rows, NEW t, NEW replies,
         \A pid \in DOMAIN replies : replies[pid] \in Replies,
         r.pid \notin KernelPids => r.pid \in DOMAIN replies,
         NEW owners, owners = [pid \in DOMAIN replies |-> ResolvedOwner(Owners[pid], replies[pid])],
         NEW raw, raw = ConnectionRaw(r, rows, owners, t)
  PROVE  /\ Owners[r.pid].person /\ ~TakenForService(Owners[r.pid], replies[r.pid]) => Normalise(raw) # {}
         /\ \A e \in Normalise(raw) : SpeaksOf(e, r, replies[r.pid], t)
<1> DEFINE owner == Owner(r, owners)
           process == Owners[r.pid]
           reply == replies[r.pid]
<1>1. /\ raw.source = "network" /\ raw.pid = r.pid /\ raw.remote = r.remote /\ raw.port = r.service
      /\ raw.local = r.port /\ raw.occurred = t /\ raw.owner = owner.name /\ raw.sid = owner.sid
  BY DEF ConnectionRaw
<1>2. /\ process.owner \in Accounts /\ process.parent \in Accounts
      /\ process.owner.name # NoName /\ process.person \in BOOLEAN
      /\ process.person <=>
              r.pid \notin KernelPids /\ ~IsServiceAccount(process.owner.name, process.owner.sid)
  BY OwnersAssumption
<1>3. r.pid \in KernelPids => owner.sid = "service" /\ owner.name.account = "SYSTEM"
  BY DEF Owner
<1>4. r.pid \notin KernelPids => owner = ResolvedOwner(process, reply) /\ reply \in Replies
  BY DEF Owner
<1> HIDE DEF owner, process, reply
<1>5. r.pid \notin KernelPids =>
        /\ reply = InFull => owner = process.owner
        /\ reply.of = "own" => owner.name = process.owner.name
        /\ reply.of # "own" => owner.name \in {process.parent.name, NoName}
        /\ TakenForService(process, reply) <=> owner.name # NoName /\ IsServiceAccount(owner.name, owner.sid)
  BY <1>2, <1>4, Resolved DEF TakenForService
<1>6. r.pid \in KernelPids => owner.name # NoName /\ IsServiceAccount(owner.name, owner.sid)
  <2>1. SUFFICES ASSUME r.pid \in KernelPids PROVE owner.name # NoName
    BY <1>3 DEF IsServiceAccount, ServiceSids
  <2>2. owner.name = [account |-> "SYSTEM", form |-> "domain", case |-> "upper"]
    BY <2>1 DEF Owner, owner
  <2> QED
    BY <2>1, <2>2, OwnersAssumption
<1>7. Normalise(raw) = FromNetwork(raw)
  BY <1>1 DEF Normalise
<1>8. IsServices(raw) <=> (owner.name # NoName /\ ~KeepSystem /\ IsServiceAccount(owner.name, owner.sid))
  BY <1>1 DEF IsServices
<1>9. IsServices(raw) => Normalise(raw) = {}
  BY <1>7 DEF FromNetwork
<1>10. ~IsServices(raw) =>
        Normalise(raw) = Event(<<"tcp", r.pid, r.remote, r.service, r.port, t>>, "network_connection",
                               FormatUser(owner.name), {})
  BY <1>1, <1>7 DEF FromNetwork
<1>11. ASSUME ~IsServices(raw)
       PROVE  /\ Normalise(raw) # {}
              /\ \A e \in Normalise(raw) :
                    /\ e.key = <<"tcp", r.pid, r.remote, r.service, r.port, t>>
                    /\ e.user = FormatUser(owner.name)
  <2>1. PICK k : k = <<"tcp", r.pid, r.remote, r.service, r.port, t>>
    OBVIOUS
  <2>2. Normalise(raw) = {[key |-> k, type |-> "network_connection", user |-> FormatUser(owner.name),
                           indicators |-> {}]}
    BY <1>10, <1>11, <2>1 DEF Event
  <2>3. Normalise(raw) # {}
    BY <2>2
  <2>4. \A e \in Normalise(raw) : e.key = k /\ e.user = FormatUser(owner.name)
    BY <2>2
  <2> QED
    BY <2>1, <2>3, <2>4
<1>12. process.person /\ ~TakenForService(process, reply) => ~IsServices(raw)
  BY <1>2, <1>5, <1>8
<1>13. ~IsServices(raw) => KeepSystem \/ process.person \/ (r.pid \notin KernelPids /\ reply # InFull)
  BY <1>2, <1>5, <1>6, <1>8
<1>14. r.pid \notin KernelPids =>
        /\ reply.of = "own" => FormatUser(owner.name) = FormatUser(process.owner.name)
        /\ reply.of # "own" => FormatUser(owner.name) \in {FormatUser(process.parent.name), Unknown}
  <2>1. owner.name = NoName => FormatUser(owner.name) = Unknown
    BY DEF FormatUser
  <2> QED
    BY <1>5, <2>1
<1>15. ASSUME NEW e \in Normalise(raw)
       PROVE  SpeaksOf(e, r, reply, t)
  <2>1. /\ e.key = <<"tcp", r.pid, r.remote, r.service, r.port, t>>
        /\ KeepSystem \/ process.person \/ (r.pid \notin KernelPids /\ reply # InFull)
        /\ r.pid \notin KernelPids =>
              /\ reply.of = "own" => e.user = FormatUser(process.owner.name)
              /\ reply.of # "own" => e.user \in {FormatUser(process.parent.name), Unknown}
    BY <1>9, <1>11, <1>13, <1>14
  <2> QED
    BY <2>1 DEF SpeaksOf, process
<1>16. process.person /\ ~TakenForService(process, reply) => Normalise(raw) # {}
  BY <1>11, <1>12
<1> QED
  BY <1>15, <1>16 DEF process, reply

(* A connection opened is new unless it was there at the last poll. *)
LEMMA TcpDeedKeeps ==
  ASSUME NetworkInv, TcpDeed
  PROVE  NetworkInv'
<1>1. watched = "network" /\ world \subseteq TableRows
  BY DEF NetworkInv, TcpDeed
<1>2. PICK r \in TableRows :
        \/ /\ r \notin world
           /\ Done(world \cup {r},
                   IF memory # NoMemory /\ r \in memory.previous THEN since ELSE since \cup {r})
        \/ r \in world /\ Done(world \ {r}, since \ {r})
  BY DEF TcpDeed
<1>3. UNCHANGED <<watched, alive, memory, queued, told, now, hitches>>
  BY <1>2 DEF Done
<1>4. \/ /\ world' = world \cup {r}
         /\ since' = IF memory # NoMemory /\ r \in memory.previous THEN since ELSE since \cup {r}
      \/ world' = world \ {r} /\ since' = since \ {r}
  BY <1>2 DEF Done
<1>5. world' \subseteq TableRows
  BY <1>1, <1>4
<1>6. ASSUME memory # NoMemory
      PROVE  since' \cap memory.previous = {} /\ Established(world') \ memory.previous \subseteq since'
  <2>1. since \cap memory.previous = {} /\ Established(world) \ memory.previous \subseteq since
    BY <1>1, <1>6 DEF NetworkInv
  <2> QED
    BY <1>4, <1>6, <2>1 DEF Established
<1>7. ReportedIsQueued' <=> ReportedIsQueued
  BY <1>3 DEF ReportedIsQueued
<1>8. QueuedIsReported' <=> QueuedIsReported
  BY <1>3 DEF QueuedIsReported
<1> QED
  BY <1>1, <1>3, <1>5, <1>6, <1>7, <1>8 DEF NetworkInv

(* Every connection that came since the last poll is answered by its own     *)
(* event or by one of the repeat window.                                     *)
LEMMA PollNetworkKeeps ==
  ASSUME NetworkInv, Clock, NothingMissed, PollNetwork
  PROVE  /\ NetworkInv' /\ NothingMissed'
         /\ \A e \in queued' \ queued : IsNew(e) /\ Credited(e)
<1> DEFINE asked == {r.pid : r \in Established(world)} \ KernelPids
           Resolved1(replies) == [pid \in DOMAIN replies |-> ResolvedOwner(Owners[pid], replies[pid])]
           Polled(replies) == NetworkPoll(memory, world, Resolved1(replies), now)
           Answered(replies) ==
               LET reported == Polled(replies).memory.reported IN
               [e \in {e \in DOMAIN reported : e[1] \notin KernelPids} |->
                   IF reported[e] = now THEN replies[e[1]] ELSE told[e]]
           Due(answered) ==
               IF memory = NoMemory THEN {}
               ELSE {<<"tcp", r.pid, r.remote, r.service, now>> :
                       r \in {r \in since \cap Established(world) :
                                /\ Owners[r.pid].person
                                /\ ~TakenForService(Owners[r.pid], answered[Endpoint(r)])}}
<1>1. \E replies \in [asked -> Replies] :
        Handle(Polled(replies), Due(Answered(replies))) /\ told' = Answered(replies)
  BY Zenon DEF PollNetwork
<1> HIDE DEF Polled, Due, Answered
<1>2. PICK replies :
        /\ DOMAIN replies = asked /\ \A pid \in asked : replies[pid] \in Replies
        /\ Handle(Polled(replies), Due(Answered(replies))) /\ told' = Answered(replies)
  BY <1>1
<1>3. /\ \A pid \in DOMAIN replies : replies[pid] \in Replies
      /\ \A r \in Established(world) : r.pid \notin KernelPids => r.pid \in DOMAIN replies
  BY <1>2 DEF asked
<1>4. PICK owners : owners = [pid \in DOMAIN replies |-> ResolvedOwner(Owners[pid], replies[pid])]
  BY Zenon
<1>5. PICK result : result = NetworkPoll(memory, world, owners, now)
  OBVIOUS
<1>6. /\ owners = [pid \in DOMAIN replies |-> ResolvedOwner(Owners[pid], replies[pid])]
      /\ result = NetworkPoll(memory, world, owners, now)
  BY <1>4, <1>5
<1>7. /\ result = Polled(replies)
      /\ told' = [e \in {e \in DOMAIN result.memory.reported : e[1] \notin KernelPids} |->
                     IF result.memory.reported[e] = now THEN replies[e[1]] ELSE told[e]]
  <2>1. result = Polled(replies)
    BY Zenon, <1>6 DEF Polled, Resolved1
  <2>2. told' = Answered(replies)
    BY <1>2
  <2> QED
    BY Zenon, <2>1, <2>2 DEF Answered
<1>8. PICK observed :
        observed = IF memory = NoMemory THEN {}
                   ELSE {<<"tcp", r.pid, r.remote, r.service, now>> :
                           r \in {r \in since \cap Established(world) :
                                    /\ Owners[r.pid].person
                                    /\ ~TakenForService(Owners[r.pid], told'[Endpoint(r)])}}
  OBVIOUS
<1>9. Handle(result, observed)
  <2>1. observed = Due(told')
    BY <1>8 DEF Due
  <2> QED
    BY <1>2, <1>7, <2>1
<1> HIDE DEF asked, Resolved1
<1>10. /\ now' = now + 1 /\ memory' = result.memory /\ world' = world /\ watched' = watched
       /\ queued \subseteq queued' /\ alive
       /\ \A e \in queued' \ queued : \E raw \in result.raws : e \in Normalise(raw)
       /\ \/ hitches' = hitches /\ alive'
          \/ ~alive' /\ hitches' = hitches + 1
       /\ alive' => \A raw \in result.raws : \A e \in Normalise(raw) : \E q \in queued' : q.key = e.key
  BY <1>9, PollHandled
<1>11. watched = "network" /\ since' = {}
  BY Zenon DEF PollNetwork
<1>12. watched = "network" /\ since' = {} /\ world \subseteq TableRows
  BY <1>11 DEF NetworkInv
<1>13. now \in Nat /\ hitches \in Nat
  BY DEF Clock
<1>14. Established(world) \subseteq TableRows
  BY <1>12 DEF Established
<1>15. hitches' = 0 => hitches = 0
  <2>1. hitches' = hitches \/ hitches' = hitches + 1
    BY Zenon, <1>10
  <2> QED
    BY <1>13, <2>1
<1>16. RepeatWindow \in Nat /\ RepeatWindow > 0
  BY BoundsAssumption
<1>17. CASE memory = NoMemory
  <2>1. result.memory = [previous |-> Established(world), reported |-> <<>>] /\ result.raws = {}
    BY <1>6, <1>17 DEF NetworkPoll, Poll
  <2>2. \A e \in queued' \ queued : FALSE
    BY <1>10, <2>1
  <2>3. queued' = queued
    BY <1>10, <2>2
  <2>4. DOMAIN <<>> = {}
    OBVIOUS
  <2>5. memory' \in [previous : SUBSET TableRows, reported : [{} -> Nat]]
    BY <1>10, <1>14, <2>1, <2>4
  <2>6. memory' # NoMemory
    BY <2>5, NothingAssumption
  <2>7. memory'.previous = Established(world) /\ DOMAIN memory'.reported = {}
    BY <1>10, <2>1, <2>4
  <2>8. ReportedIsQueued'
    BY <2>7 DEF ReportedIsQueued
  <2>9. hitches' = 0 => QueuedIsReported'
    <3>1. hitches = 0 => queued = {}
      BY <1>12, <1>17 DEF NetworkInv
    <3> QED
      BY <1>15, <2>3, <3>1 DEF QueuedIsReported
  <2>10. NetworkInv'
    BY <1>10, <1>12, <2>5, <2>6, <2>7, <2>8, <2>9 DEF NetworkInv
  <2>11. observed = {}
    BY <1>8, <1>17
  <2> QED
    BY <1>9, <2>2, <2>10, <2>11, PollMissesNothing
<1>18. CASE memory # NoMemory
  <2> DEFINE new == NewRows(memory, world, now)
             reported == memory.reported
             lately == {e \in DOMAIN reported : now - reported[e] < RepeatWindow}
             named == lately \cup {Endpoint(r) : r \in new}
  <2>1. PICK E \in SUBSET Endpoints : memory \in [previous : SUBSET TableRows, reported : [E -> Nat]]
    BY <1>12, <1>18 DEF NetworkInv
  <2>2. DOMAIN reported \subseteq Endpoints /\ \A e \in DOMAIN reported : reported[e] \in Nat /\ reported[e] < now
    BY <1>12, <1>18, <2>1 DEF NetworkInv
  <2>3. /\ since \cap memory.previous = {} /\ Established(world) \ memory.previous \subseteq since
        /\ ReportedIsQueued /\ (hitches = 0 => QueuedIsReported)
    BY <1>10, <1>12, <1>18 DEF NetworkInv
  <2>4. result.raws = {ConnectionRaw(r, world, owners, now) : r \in new}
    BY <1>6, <1>18 DEF NetworkPoll, Poll
  <2>5. result.memory = [previous |-> Established(world),
                         reported |-> [e \in named |-> IF e \in lately THEN reported[e] ELSE now]]
    BY <1>6, <1>18 DEF NetworkPoll, Poll
  <2>6. new \subseteq FreshRows(memory, world, now) /\ new \subseteq TableRows
    BY <1>14, NewRowsAreFresh DEF FreshRows
  <2>7. lately \subseteq DOMAIN reported
    OBVIOUS
  <2>8. \A e \in DOMAIN reported : e \in lately <=> now - reported[e] < RepeatWindow
    OBVIOUS
  <2>9. ASSUME NEW r \in FreshRows(memory, world, now)
        PROVE  /\ Endpoint(r) \notin lately /\ r \in Established(world) /\ r \in since
               /\ Endpoint(r) \in DOMAIN reported => now - reported[Endpoint(r)] >= RepeatWindow
    <3>1. r \in Established(world) \ memory.previous
      BY DEF FreshRows
    <3>2. Endpoint(r) \in DOMAIN reported => now - reported[Endpoint(r)] >= RepeatWindow
      BY DEF FreshRows
    <3> QED
      BY <1>13, <1>16, <2>2, <2>3, <2>7, <2>8, <3>1, <3>2
  <2> HIDE DEF new, lately
  <2>10. /\ memory'.previous = Established(world) /\ DOMAIN memory'.reported = named
         /\ \A e \in lately : memory'.reported[e] = reported[e]
         /\ \A e \in named \ lately : memory'.reported[e] = now
    BY <1>10, <2>5
  <2>11. named \in SUBSET Endpoints
    BY <2>2, <2>6, <2>7 DEF Endpoints
  <2>12. memory' \in [previous : SUBSET TableRows, reported : [named -> Nat]] /\ memory' # NoMemory
    <3>1. [e \in named |-> IF e \in lately THEN reported[e] ELSE now] \in [named -> Nat]
      BY <1>13, <2>2, <2>7
    <3>2. memory' \in [previous : SUBSET TableRows, reported : [named -> Nat]]
      BY <1>10, <1>14, <2>5, <3>1
    <3> QED
      BY <2>11, <3>2, NothingAssumption
  <2>13. \A e \in DOMAIN memory'.reported : memory'.reported[e] < now'
    BY <1>10, <1>13, <2>2, <2>7, <2>10
  <2>14. ASSUME NEW r \in new, NEW raw, raw = ConnectionRaw(r, world, owners, now)
         PROVE  /\ Owners[r.pid].person /\ ~TakenForService(Owners[r.pid], replies[r.pid]) =>
                      Normalise(raw) # {}
                /\ \A e \in Normalise(raw) : SpeaksOf(e, r, replies[r.pid], now)
    <3>1. r \in TableRows /\ (r.pid \notin KernelPids => r.pid \in DOMAIN replies)
      BY <1>3, <2>6, <2>9
    <3> QED
      BY <1>3, <1>6, <2>14, <3>1, ConnectionEvents
  <2>15. ASSUME alive', NEW r \in new, Owners[r.pid].person,
                ~TakenForService(Owners[r.pid], replies[r.pid])
         PROVE  \E q \in queued' : /\ Begins(q.key, <<"tcp", r.pid, r.remote, r.service>>)
                                   /\ q.key[6] = now
    <3>1. PICK raw : raw = ConnectionRaw(r, world, owners, now)
      OBVIOUS
    <3>2. PICK e \in Normalise(raw) : e.key = <<"tcp", r.pid, r.remote, r.service, r.port, now>>
      BY <2>14, <2>15, <3>1 DEF SpeaksOf
    <3>3. raw \in result.raws
      BY <2>4, <3>1
    <3>4. PICK q \in queued' : q.key = e.key
      BY Zenon, <1>10, <2>15, <3>3
    <3> QED
      BY <3>2, <3>4 DEF Begins
  <2>16. /\ \A e \in lately : e[1] \notin KernelPids => told'[e] = told[e]
         /\ \A e \in named \ lately : e[1] \notin KernelPids => told'[e] = replies[e[1]]
    <3>1. told' = [e \in {e \in named : e[1] \notin KernelPids} |->
                      IF memory'.reported[e] = now THEN replies[e[1]] ELSE told[e]]
      BY <1>10, <1>7, <2>10
    <3>2. \A e \in lately : memory'.reported[e] # now /\ e \in named
      BY <1>13, <2>2, <2>7, <2>10
    <3> HIDE DEF named
    <3> QED
      BY <2>10, <3>1, <3>2
  <2>17. \A r \in TableRows : Owners[r.pid].person => r.pid \notin KernelPids
    BY OwnersAssumption
  <2>18. alive' => ReportedIsQueued'
    <3> SUFFICES ASSUME alive', NEW e \in named, Owners[e[1]].person,
                        ~TakenForService(Owners[e[1]], told'[e])
                 PROVE  \E q \in queued' : /\ Begins(q.key, <<"tcp", e[1], e[2], e[3]>>)
                                           /\ q.key[6] = memory'.reported[e]
      BY <2>10 DEF ReportedIsQueued
    <3>1. CASE e \in lately
      <4>1. PICK r \in TableRows : e = Endpoint(r)
        BY <2>11 DEF Endpoints
      <4>2. e[1] \notin KernelPids
        BY <2>17, <4>1 DEF Endpoint
      <4>3. ~TakenForService(Owners[e[1]], told[e])
        BY <2>16, <3>1, <4>2
      <4> QED
        BY <1>10, <2>3, <2>7, <2>10, <3>1, <4>3 DEF ReportedIsQueued
    <3>2. CASE e \notin lately
      <4>1. PICK r \in new : e = Endpoint(r)
        BY <3>2
      <4>2. e[1] = r.pid /\ e[2] = r.remote /\ e[3] = r.service
        BY <4>1 DEF Endpoint
      <4>3. memory'.reported[e] = now
        BY <2>10, <3>2
      <4>4. told'[e] = replies[r.pid]
        BY <2>6, <2>16, <2>17, <3>2, <4>2
      <4> QED
        BY <2>15, <4>2, <4>3, <4>4
    <3> QED
      BY <3>1, <3>2
  <2>19. ASSUME NEW e \in queued' \ queued
         PROVE  \E r \in new : SpeaksOf(e, r, replies[r.pid], now)
    <3>1. PICK raw \in result.raws : e \in Normalise(raw)
      BY Zenon, <1>10
    <3>2. PICK r \in new : raw = ConnectionRaw(r, world, owners, now)
      BY <2>4
    <3> QED
      BY <2>14, <3>1, <3>2
  <2>20. hitches' = 0 => QueuedIsReported'
    <3> SUFFICES ASSUME hitches' = 0, NEW q \in queued'
                 PROVE  /\ q.key[6] \in Nat /\ q.key[6] <= now'
                        /\ \/ now' - q.key[6] >= RepeatWindow
                           \/ /\ KeyOf(q) \in DOMAIN memory'.reported
                              /\ q.key[6] <= memory'.reported[KeyOf(q)]
      BY DEF QueuedIsReported
    <3>1. now' = now + 1 /\ DOMAIN memory'.reported = named
      BY <1>10, <2>10
    <3>2. /\ q.key[6] \in Nat /\ q.key[6] <= now + 1
          /\ \/ now + 1 - q.key[6] >= RepeatWindow
             \/ KeyOf(q) \in named /\ q.key[6] <= memory'.reported[KeyOf(q)]
      <4>1. CASE q \in queued
        <5>1. /\ q.key[6] \in Nat /\ q.key[6] <= now
              /\ \/ now - q.key[6] >= RepeatWindow
                 \/ KeyOf(q) \in DOMAIN reported /\ q.key[6] <= reported[KeyOf(q)]
          BY <1>15, <2>3, <4>1 DEF QueuedIsReported
        <5>2. CASE now - q.key[6] >= RepeatWindow
          BY <1>13, <1>16, <5>1, <5>2
        <5>3. CASE KeyOf(q) \in DOMAIN reported /\ q.key[6] <= reported[KeyOf(q)]
          <6>1. CASE KeyOf(q) \in lately
            BY <1>13, <2>10, <5>1, <5>3, <6>1
          <6>2. CASE KeyOf(q) \notin lately
            BY <1>13, <1>16, <2>2, <2>8, <5>1, <5>3, <6>2
          <6> QED
            BY <6>1, <6>2
        <5> QED
          BY <5>1, <5>2, <5>3
      <4>2. CASE q \notin queued
        <5>1. PICK r \in new : q.key = <<"tcp", r.pid, r.remote, r.service, r.port, now>>
          BY <2>19, <4>2 DEF SpeaksOf
        <5>2. KeyOf(q) = Endpoint(r) /\ q.key[6] = now
          BY <5>1 DEF KeyOf, Endpoint
        <5>3. Endpoint(r) \in named \ lately
          BY <2>6, <2>9
        <5>4. memory'.reported[KeyOf(q)] = now
          BY <2>10, <5>2, <5>3
        <5> QED
          BY <1>13, <5>2, <5>3, <5>4
      <4> QED
        BY <4>1, <4>2
    <3> QED
      BY <1>13, <3>1, <3>2
  <2>21. Established(world) \ memory'.previous \subseteq since' /\ since' \cap memory'.previous = {}
    BY <1>12, <2>10
  <2>22. NetworkInv'
    BY <1>10, <1>12, <2>11, <2>12, <2>13, <2>18, <2>20, <2>21 DEF NetworkInv
  <2>23. ASSUME alive', NEW k \in observed
         PROVE  \E e \in queued' : Answers(e, k)
    <3>1. PICK r \in since \cap Established(world) :
             /\ Owners[r.pid].person /\ ~TakenForService(Owners[r.pid], told'[Endpoint(r)])
             /\ k = <<"tcp", r.pid, r.remote, r.service, now>>
      BY <1>8, <1>18, <2>23
    <3>2. r.pid \notin KernelPids
      BY <1>14, <2>17, <3>1
    <3>3. SUFFICES \E q \in queued' : /\ Begins(q.key, <<"tcp", r.pid, r.remote, r.service>>)
                                      /\ q.key[6] <= now /\ now - q.key[6] < RepeatWindow
      BY <3>1 DEF Answers
    <3>4. /\ Endpoint(r) = <<r.pid, r.remote, r.service>> /\ Endpoint(r)[1] = r.pid
          /\ Endpoint(r)[2] = r.remote /\ Endpoint(r)[3] = r.service
      BY DEF Endpoint
    <3>5. CASE Endpoint(r) \in lately
      <4>1. PICK q \in queued : /\ Begins(q.key, <<"tcp", r.pid, r.remote, r.service>>)
                                /\ q.key[6] = reported[Endpoint(r)]
        BY <2>3, <2>7, <2>16, <3>1, <3>4, <3>5, <3>2 DEF ReportedIsQueued
      <4>2. q.key[6] <= now /\ now - q.key[6] < RepeatWindow
        BY <1>13, <2>2, <2>7, <2>8, <3>5, <4>1
      <4> QED
        BY <1>10, <4>1, <4>2
    <3>6. CASE Endpoint(r) \notin lately
      <4>1. r \notin memory.previous
        BY <2>3
      <4>2. \A e \in DOMAIN memory.reported : e = Endpoint(r) => now - memory.reported[e] >= RepeatWindow
        BY <1>13, <1>16, <2>2, <2>8, <3>6
      <4>3. r \in FreshRows(memory, world, now)
        BY <3>1, <4>1, <4>2 DEF FreshRows
      <4>4. PICK s \in new : Endpoint(s) = Endpoint(r)
        BY <1>12, <4>3, NewestRow DEF new
      <4>5. s.pid = r.pid /\ s.remote = r.remote /\ s.service = r.service
        BY <4>4 DEF Endpoint
      <4>6. told'[Endpoint(r)] = replies[r.pid]
        BY <2>16, <3>4, <3>6, <3>2, <4>4
      <4>7. PICK q \in queued' : Begins(q.key, <<"tcp", r.pid, r.remote, r.service>>) /\ q.key[6] = now
        BY <2>15, <2>23, <3>1, <4>5, <4>6
      <4>8. q.key[6] <= now /\ now - q.key[6] < RepeatWindow
        BY <1>13, <1>16, <4>7
      <4> QED
        BY <4>7, <4>8
    <3> QED
      BY <3>5, <3>6
  <2>24. ASSUME NEW e \in queued' \ queued
         PROVE  IsNew(e) /\ Credited(e)
    <3>1. PICK r \in new :
             /\ e.key = <<"tcp", r.pid, r.remote, r.service, r.port, now>>
             /\ \/ KeepSystem \/ Owners[r.pid].person
                \/ r.pid \notin KernelPids /\ replies[r.pid] # InFull
             /\ r.pid \notin KernelPids =>
                   /\ replies[r.pid].of = "own" => e.user = FormatUser(Owners[r.pid].owner.name)
                   /\ replies[r.pid].of # "own" =>
                         e.user \in {FormatUser(Owners[r.pid].parent.name), Unknown}
      BY <2>19 DEF SpeaksOf
    <3>2. e.key[1] = "tcp" /\ e.key[2] = r.pid /\ e.key[3] = r.remote /\ e.key[4] = r.service
      BY <3>1
    <3>3. /\ r \in since
          /\ Endpoint(r) \in DOMAIN reported => now - reported[Endpoint(r)] >= RepeatWindow
      BY <2>6, <2>9
    <3>4. Endpoint(r) = <<e.key[2], e.key[3], e.key[4]>>
      BY <3>2 DEF Endpoint
    <3>5. ASSUME NEW q \in queued, Begins(q.key, <<"tcp", e.key[2], e.key[3], e.key[4]>>)
          PROVE  now - q.key[6] >= RepeatWindow \/ hitches > 0
      <4>1. q.key[2] = e.key[2] /\ q.key[3] = e.key[3] /\ q.key[4] = e.key[4]
        BY <3>5 DEF Begins
      <4>2. KeyOf(q) = Endpoint(r)
        BY <3>4, <4>1 DEF KeyOf
      <4>3. CASE hitches = 0
        <5>1. /\ q.key[6] \in Nat /\ q.key[6] <= now
              /\ \/ now - q.key[6] >= RepeatWindow
                 \/ Endpoint(r) \in DOMAIN reported /\ q.key[6] <= reported[Endpoint(r)]
          BY <2>3, <4>2, <4>3 DEF QueuedIsReported
        <5> QED
          BY <1>13, <1>16, <2>2, <3>3, <5>1
      <4> QED
        BY <1>13, <4>3
    <3>6. r.pid \notin KernelPids => told'[Endpoint(r)] = replies[r.pid]
      BY <2>6, <2>9, <2>16, <3>2, <3>4
    <3>7. IsNew(e)
      BY <3>1, <3>2, <3>3, <3>4, <3>5, <3>6 DEF IsNew
    <3>8. Credited(e)
      BY <3>1, <3>2, <3>4, <3>6 DEF Credited
    <3> QED
      BY <3>7, <3>8
  <2> QED
    BY <1>9, <2>22, <2>23, <2>24, PollMissesNothing
<1> QED
  BY <1>17, <1>18

LEMMA OthersLeaveConnections ==
  ASSUME watched = "network", [SensorsNext]_sensorVars, ~TcpDeed, ~PollNetwork
  PROVE  /\ UNCHANGED <<watched, world, queued, due>>
         /\ \/ UNCHANGED <<alive, memory, since, told, now, hitches>>
            \/ UNCHANGED <<alive, memory, since, told>> /\ now' = now + 1 /\ hitches' = hitches + 1
            \/ memory' = NoMemory /\ hitches' = hitches + 1
BY DEF SensorsNext, sensorVars, DriveDeed, WebDeed, LogDeed, WmiDeed, PollDrive, PollDownloads, PollLog,
       PollWmi, ReadFails, AccessDenied, AgentRestarts, Hitch

(* Waiting takes nothing from what is remembered or in the queue. *)
LEMMA WaitingKeeps ==
  ASSUME NetworkInv, Clock, watched = "network",
         UNCHANGED <<watched, world, queued, alive, memory, since, told>>,
         now' = now + 1, hitches' = hitches + 1
  PROVE  NetworkInv'
<1>1. now \in Nat /\ hitches \in Nat /\ hitches' # 0
  BY DEF Clock
<1>2. CASE memory = NoMemory
  BY <1>1, <1>2 DEF NetworkInv
<1>3. CASE memory # NoMemory
  <2>1. PICK E \in SUBSET Endpoints : memory \in [previous : SUBSET TableRows, reported : [E -> Nat]]
    BY <1>3 DEF NetworkInv
  <2>2. \A e \in DOMAIN memory.reported : memory.reported[e] \in Nat /\ memory.reported[e] < now
    BY <1>3, <2>1 DEF NetworkInv
  <2>3. \A e \in DOMAIN memory.reported : memory.reported[e] < now'
    BY <1>1, <2>2
  <2>4. ReportedIsQueued' <=> ReportedIsQueued
    BY DEF ReportedIsQueued
  <2> QED
    BY <1>1, <1>3, <2>1, <2>3, <2>4 DEF NetworkInv
<1> QED
  BY <1>2, <1>3

LEMMA NetworkKeeps == NetworkInv /\ Clock /\ [SensorsNext]_sensorVars /\ NothingMissed => NetworkInv'
<1> SUFFICES ASSUME NetworkInv, Clock, [SensorsNext]_sensorVars, NothingMissed PROVE NetworkInv'
  OBVIOUS
<1>1. CASE watched # "network"
  <2>1. watched' = watched
    BY OneCollector
  <2> QED
    BY <1>1, <2>1 DEF NetworkInv
<1>2. CASE watched = "network" /\ ~TcpDeed /\ ~PollNetwork
  <2>1. CASE UNCHANGED <<watched, world, queued, alive, memory, since, told, now, hitches>>
    BY <2>1 DEF NetworkInv, ReportedIsQueued, QueuedIsReported
  <2>2. CASE UNCHANGED <<watched, world, queued>> /\ memory' = NoMemory /\ hitches' = hitches + 1
    <3>1. hitches' # 0
      BY <2>2 DEF Clock
    <3> QED
      BY <2>2, <3>1 DEF NetworkInv
  <2> QED
    BY <1>2, <2>1, <2>2, WaitingKeeps, OthersLeaveConnections
<1> QED
  BY <1>1, <1>2, TcpDeedKeeps, PollNetworkKeeps

-----------------------------------------------------------------------------
(* The collector of downloads. *)

WebFile == [state : Nat, marked : BOOLEAN, at : Nat]

IsFolder(files) == DOMAIN files \subseteq WebFiles /\ files \in [DOMAIN files -> WebFile]

\* Files that were there before, but for p.
SameBut(p, files, old) == \A x \in DOMAIN files \ {p} : x \in DOMAIN old /\ files[x] = old[x]

\* Files that wait for their mark, by their path.
IsAwaiting(awaiting) ==
    DOMAIN awaiting \subseteq WebFiles /\ awaiting \in [DOMAIN awaiting -> [size : Nat, left : Nat]]

(* A memory of the Downloads folder is one. *)
LEMMA DownloadMemory ==
  ASSUME NEW w \in WatchersOf(WebFiles), NEW a, IsAwaiting(a)
  PROVE  [watcher |-> w, awaiting |-> a] # NoMemory
<1>1. WebFiles \subseteq Paths
  BY DEF Paths
<1>2. PICK P \in SUBSET WebFiles : w.last \in [files : [P -> Nat], truncated : BOOLEAN] \cup {NoSnapshot}
  BY DEF WatchersOf, SnapshotsOf, FilesIn
<1>3. PICK Q \in SUBSET WebFiles : w.pending \in [Q -> Nat]
  BY DEF WatchersOf, FilesIn
<1>4. w = [last |-> w.last, pending |-> w.pending]
  BY DEF WatchersOf
<1>5. w \in [last : [files : [P -> Nat], truncated : BOOLEAN] \cup {NoSnapshot}, pending : [Q -> Nat]]
  BY <1>2, <1>3, <1>4
<1>6. P \in SUBSET Paths /\ Q \in SUBSET Paths /\ DOMAIN a \in SUBSET Paths
  BY <1>1 DEF IsAwaiting
<1>7. [watcher |-> w, awaiting |-> a] \in
        [watcher : [last : [files : [P -> Nat], truncated : BOOLEAN] \cup {NoSnapshot}, pending : [Q -> Nat]],
         awaiting : [DOMAIN a -> [size : Nat, left : Nat]]]
  BY <1>5 DEF IsAwaiting
<1> QED
  BY <1>6, <1>7, NothingAssumption

CreatedIn(watcher, b) == {c \in ScanChanges(watcher, b) : c.kind = "created"}

AwaitingAfter(m, created) ==
    [p \in DOMAIN m.awaiting \cup {c.path : c \in created} |->
        IF \E c \in created : c.path = p
        THEN [size |-> (CHOOSE c \in created : c.path = p).state, left |-> MarkRetries]
        ELSE m.awaiting[p]]

\* The files a poll awaits the mark of, and those of them that bear it.
Awaits(m, b, awaiting) ==
    /\ DOMAIN awaiting = DOMAIN m.awaiting \cup Settled(m.watcher.pending, b)
    /\ \A p \in Settled(m.watcher.pending, b) : awaiting[p] = [size |-> b.files[p], left |-> MarkRetries]
    /\ \A p \in DOMAIN m.awaiting \ Settled(m.watcher.pending, b) : awaiting[p] = m.awaiting[p]

(* The files a poll begins to await are those that have settled. *)
LEMMA Awaited ==
  ASSUME NEW m, NEW b, Tracks(m.watcher),
         NEW awaiting, awaiting = AwaitingAfter(m, CreatedIn(m.watcher, b))
  PROVE  Awaits(m, b, awaiting)
<1> DEFINE settled == Settled(m.watcher.pending, b)
<1> PICK created : created = CreatedIn(m.watcher, b)
  OBVIOUS
<1>0. /\ created = {c \in ScanChanges(m.watcher, b) : c.kind = "created"}
      /\ awaiting = [p \in DOMAIN m.awaiting \cup {c.path : c \in created} |->
                        IF \E c \in created : c.path = p
                        THEN [size |-> (CHOOSE c \in created : c.path = p).state, left |-> MarkRetries]
                        ELSE m.awaiting[p]]
  BY DEF CreatedIn, AwaitingAfter
<1>1. \A c \in created : c.path \in settled /\ c.state = b.files[c.path]
  BY <1>0, ReportsSound
<1>2. ASSUME NEW p \in settled
      PROVE  \E c \in created : c.path = p
  <2>1. Change("created", p, p, b.files[p]) \in ScanChanges(m.watcher, b)
    BY DEF ScanChanges
  <2>2. Change("created", p, p, b.files[p]).kind = "created" /\ Change("created", p, p, b.files[p]).path = p
    BY DEF Change
  <2> QED
    BY <1>0, <2>1, <2>2
<1>3. ASSUME NEW p \in settled
      PROVE  awaiting[p] = [size |-> b.files[p], left |-> MarkRetries]
  <2>1. (CHOOSE c \in created : c.path = p) \in created /\ (CHOOSE c \in created : c.path = p).path = p
    BY <1>2
  <2>2. (CHOOSE c \in created : c.path = p).state = b.files[p]
    BY <1>1, <2>1
  <2>3. p \in {c.path : c \in created}
    BY <1>2
  <2> QED
    BY <1>0, <1>2, <2>2, <2>3
<1>4. {c.path : c \in created} = settled
  BY <1>1, <1>2
<1> QED
  BY <1>0, <1>1, <1>3, <1>4 DEF Awaits

Marked(awaiting, files) == {p \in DOMAIN awaiting \cap DOMAIN files : files[p].marked}

DownloadRaw(p, size, t) == FileRaw("downloads", Change("created", p, p, size), t, Console)

StatesOf(files) == [p \in DOMAIN files |-> files[p].state]

StillAwaited(f, files) ==
    [p \in DOMAIN f \ (Marked(f, files) \cup GivenUp(f, files)) |-> [f[p] EXCEPT !.left = @ - 1]]

RawsMarked(f, files, t) == {DownloadRaw(p, f[p].size, t) : p \in Marked(f, files)}

\* A poll that awaits f.
Polls(m, b, files, t, f) ==
    /\ Awaits(m, b, f)
    /\ DownloadPoll(m, files, t, Console) =
         Poll([watcher |-> Scanned(m.watcher, b), awaiting |-> StillAwaited(f, files)], RawsMarked(f, files, t))

(* What a poll of a folder looked at before comes to. *)
LEMMA DownloadPolled ==
  ASSUME NEW m, m # NoMemory, m.watcher.last # NoSnapshot, Tracks(m.watcher), NEW files, NEW t,
         NEW b, b = TakeSnapshot(StatesOf(files), Temporary)
  PROVE  \E f : Polls(m, b, files, t, f)
<1> DEFINE scan == Scan(IF m = NoMemory THEN Watcher ELSE m.watcher,
                        [p \in DOMAIN files |-> files[p].state], Temporary, TRUE)
           created == {c \in scan.changes : c.kind = "created"}
           awaiting == [p \in DOMAIN m.awaiting \cup {c.path : c \in created} |->
                        IF \E c \in created : c.path = p
                        THEN [size |-> (CHOOSE c \in created : c.path = p).state, left |-> MarkRetries]
                        ELSE m.awaiting[p]]
           marked == {p \in DOMAIN awaiting \cap DOMAIN files : files[p].marked}
<1>1. DownloadPoll(m, files, t, Console) =
        IF m = NoMemory THEN Poll([watcher |-> scan.watcher, awaiting |-> <<>>], {})
        ELSE Poll([watcher |-> scan.watcher,
                   awaiting |-> [p \in DOMAIN awaiting \ (marked \cup GivenUp(awaiting, files)) |->
                                    [awaiting[p] EXCEPT !.left = @ - 1]]],
                  {FileRaw("downloads", Change("created", p, p, awaiting[p].size), t, Console) :
                      p \in marked})
  BY Zenon DEF DownloadPoll
<1>2. scan.watcher = Scanned(m.watcher, b) /\ scan.changes = ScanChanges(m.watcher, b)
  BY DEF Scan, StatesOf
<1>3. created = {c \in ScanChanges(m.watcher, b) : c.kind = "created"}
  BY <1>2
<1> HIDE DEF scan
<1>4. awaiting = AwaitingAfter(m, created) /\ created = CreatedIn(m.watcher, b)
  BY <1>3, Zenon DEF AwaitingAfter, CreatedIn
<1> HIDE DEF created, awaiting
<1>5. Awaits(m, b, awaiting)
  BY <1>4, Awaited, Zenon
<1>6. marked = Marked(awaiting, files)
  BY DEF Marked
<1> HIDE DEF marked
<1>7. DownloadPoll(m, files, t, Console) =
        Poll([watcher |-> scan.watcher,
              awaiting |-> [p \in DOMAIN awaiting \ (marked \cup GivenUp(awaiting, files)) |->
                                [awaiting[p] EXCEPT !.left = @ - 1]]],
             {DownloadRaw(p, awaiting[p].size, t) : p \in marked})
  BY <1>1, Zenon DEF DownloadRaw
<1>8. Polls(m, b, files, t, awaiting)
  BY <1>2, <1>5, <1>6, <1>7, Zenon DEF Polls, StillAwaited, RawsMarked
<1> QED
  BY <1>8

LEMMA DownloadEvents ==
  ASSUME NEW p, NEW size, NEW t, NEW raw, raw = DownloadRaw(p, size, t)
  PROVE  /\ Normalise(raw) # {}
         /\ \A e \in Normalise(raw) : e.key = <<"download", p, size, t>>
<1>1. raw.source = "downloads" /\ raw.path = p /\ raw.state = size /\ raw.occurred = t
  BY DEF DownloadRaw, FileRaw, Change
<1>2. Normalise(raw) = FromDownloads(raw)
  BY <1>1 DEF Normalise
<1>3. PICK k : k = <<"download", p, size, t>>
  OBVIOUS
<1>4. Normalise(raw) = {[key |-> k, type |-> "file_download", user |-> FormatUser(raw.console),
                         indicators |-> {}]}
  BY <1>1, <1>2, <1>3 DEF FromDownloads, Event
<1>5. Normalise(raw) # {}
  BY <1>4
<1>6. \A e \in Normalise(raw) : e.key = k
  BY <1>4
<1> QED
  BY <1>3, <1>5, <1>6

Reports(queue, p, state) == \E e \in queue : Begins(e.key, <<"download", p, state>>)

SettledIn(watcher) == DOMAIN watcher.last.files \ DOMAIN watcher.pending

\* A file that is to be reported is seen settling, or not at all, or has
\* settled and is awaited or reported as it is.
Expected(p, file, m, queue, t, live) ==
    LET last == m.watcher.last.files IN
    /\ p \notin Temporary
    /\ t > file.at => p \in DOMAIN last /\ last[p] = file.state
    /\ p \notin DOMAIN last => \A r \in SettledIn(m.watcher) : last[r] # file.state
    /\ p \in SettledIn(m.watcher) =>
        /\ last[p] = file.state
        /\ live => /\ file.marked => p \in DOMAIN m.awaiting \/ Reports(queue, p, file.state)
                   /\ p \in DOMAIN m.awaiting =>
                        m.awaiting[p].size = file.state \/ Reports(queue, p, file.state)

\* A file that was there at the first poll, and is as it was, is not awaited.
Untouched(p, file, m) ==
    /\ p \in SettledIn(m.watcher) /\ m.watcher.last.files[p] = file.state
    /\ p \notin DOMAIN m.awaiting

DownloadsType ==
    /\ IsFolder(world)
    /\ \A p \in DOMAIN world : world[p].state < deeds /\ world[p].at <= now
    /\ memory # NoMemory =>
        /\ memory.watcher \in WatchersOf(WebFiles) /\ memory.watcher.last # NoSnapshot
        /\ Tracks(memory.watcher) /\ IsAwaiting(memory.awaiting)
        /\ \A p \in DOMAIN memory.watcher.last.files : memory.watcher.last.files[p] < deeds

DownloadsInv ==
    watched = "downloads" =>
        /\ DownloadsType
        /\ memory # NoMemory =>
            /\ \A p \in since \cap DOMAIN world : Expected(p, world[p], memory, queued, now, alive)
            /\ \A p \in DOMAIN told :
                /\ told[p].at \in Nat /\ told[p].at < now
                /\ p \in DOMAIN world /\ world[p] = told[p] => Untouched(p, world[p], memory)

(* What is done to one file leaves what is known of the others alone. *)
LEMMA OneFileDone ==
  ASSUME DownloadsInv, Clock, watched = "downloads", NEW p, NEW files, NEW noticed, Done(files, noticed),
         IsFolder(files), SameBut(p, files, world),
         p \in DOMAIN files => files[p].state <= deeds /\ files[p].at = now,
         noticed \subseteq since \cup {p},
         memory # NoMemory /\ p \in noticed \cap DOMAIN files =>
            Expected(p, files[p], memory, queued, now, alive)
  PROVE  DownloadsInv'
<1>1. /\ UNCHANGED <<watched, alive, memory, queued, told, now>>
      /\ world' = files /\ since' = noticed /\ deeds' = deeds + 1
  BY DEF Done
<1>2. deeds \in Nat /\ now \in Nat
  BY DEF Clock
<1>3. /\ \A x \in DOMAIN world : world[x] \in WebFile /\ world[x].state < deeds /\ world[x].at <= now
      /\ memory # NoMemory =>
          /\ memory.watcher \in WatchersOf(WebFiles) /\ memory.watcher.last # NoSnapshot
          /\ Tracks(memory.watcher) /\ IsAwaiting(memory.awaiting)
          /\ \A x \in DOMAIN memory.watcher.last.files : memory.watcher.last.files[x] < deeds
          /\ \A x \in since \cap DOMAIN world : Expected(x, world[x], memory, queued, now, alive)
          /\ \A x \in DOMAIN told :
              /\ told[x].at \in Nat /\ told[x].at < now
              /\ x \in DOMAIN world /\ world[x] = told[x] => Untouched(x, world[x], memory)
  BY DEF DownloadsInv, DownloadsType, IsFolder
<1>4. ASSUME NEW x \in DOMAIN files
      PROVE  files[x].state < deeds + 1 /\ files[x].at <= now
  <2>1. files[x].state \in Nat /\ files[x].at \in Nat
    BY DEF WebFile, IsFolder
  <2>2. CASE x = p
    BY <1>2, <2>1, <2>2
  <2>3. CASE x # p
    BY <1>2, <1>3, <2>1, <2>3 DEF SameBut
  <2> QED
    BY <2>2, <2>3
<1>5. ASSUME memory # NoMemory, NEW x \in DOMAIN memory.watcher.last.files
      PROVE  memory.watcher.last.files[x] < deeds + 1
  <2>1. memory.watcher.last \in SnapshotsOf(WebFiles)
    BY <1>3, <1>5 DEF WatchersOf
  <2>2. memory.watcher.last.files \in FilesIn(WebFiles)
    BY <2>1 DEF SnapshotsOf
  <2>3. memory.watcher.last.files[x] \in Nat
    BY <1>5, <2>2, FilesInIs
  <2>4. memory.watcher.last.files[x] < deeds
    BY <1>3, <1>5
  <2> QED
    BY <1>2, <2>3, <2>4
<1>6. DownloadsType'
  BY <1>1, <1>3, <1>4, <1>5 DEF DownloadsType
<1>7. ASSUME memory # NoMemory, NEW x \in noticed \cap DOMAIN files
      PROVE  Expected(x, files[x], memory, queued, now, alive)
  <2>1. CASE x = p
    BY <1>7, <2>1
  <2>2. CASE x # p
    <3>1. x \in since \cap DOMAIN world /\ files[x] = world[x]
      BY <1>7, <2>2 DEF SameBut
    <3> QED
      BY <1>3, <1>7, <3>1
  <2> QED
    BY <2>1, <2>2
<1>8. ASSUME memory # NoMemory, NEW x \in DOMAIN told, x \in DOMAIN files, files[x] = told[x]
      PROVE  Untouched(x, files[x], memory)
  <2>1. told[x].at < now
    BY <1>3, <1>8
  <2>2. x # p
    BY <1>2, <1>8, <2>1
  <2> QED
    BY <1>3, <1>8, <2>2 DEF SameBut
<1> QED
  BY <1>1, <1>3, <1>6, <1>7, <1>8 DEF DownloadsInv

(* A file that lands in the folder is expected if it can be told from those  *)
(* dealt with.                                                               *)
LEMMA ArrivedKeeps ==
  ASSUME DownloadsInv, Clock, watched = "downloads", NEW p, NEW files, Arrived(p, files),
         IsFolder(files), SameBut(p, files, world),
         p \in DOMAIN files, files[p].state <= deeds, files[p].at = now, ~Known(files[p].state)
  PROVE  DownloadsInv'
<1> DEFINE noticed == IF p \notin Temporary /\ Settling(p) THEN since \cup {p} ELSE since \ {p}
<1>1. Done(files, noticed)
  BY DEF Arrived
<1>2. ASSUME memory # NoMemory, p \in noticed
      PROVE  Expected(p, files[p], memory, queued, now, alive)
  <2>1. p \notin Temporary /\ (p \notin DOMAIN memory.watcher.last.files \/ p \in DOMAIN memory.watcher.pending)
    BY <1>2 DEF Settling
  <2>2. \A r \in SettledIn(memory.watcher) : memory.watcher.last.files[r] # files[p].state
    BY <1>2 DEF Known, SettledIn
  <2>3. ~(now > files[p].at)
    BY DEF Clock
  <2>4. p \notin SettledIn(memory.watcher)
    BY <2>1 DEF SettledIn
  <2> QED
    BY <2>1, <2>2, <2>3, <2>4 DEF Expected
<1>3. noticed \subseteq since \cup {p}
  OBVIOUS
<1> HIDE DEF noticed
<1> QED
  BY <1>1, <1>2, <1>3, OneFileDone

(* Files of the folder. *)
LEMMA WebFileWritten ==
  ASSUME NEW f, IsFolder(f), NEW p \in WebFiles, NEW v \in WebFile, NEW g, g = With(f, p, v)
  PROVE  IsFolder(g) /\ p \in DOMAIN g /\ g[p] = v /\ SameBut(p, g, f)
<1>1. g = [q \in DOMAIN f \cup {p} |-> IF q = p THEN v ELSE f[q]]
  BY DEF With
<1> QED
  BY <1>1 DEF IsFolder, SameBut

LEMMA WebFileGone ==
  ASSUME NEW f, IsFolder(f), NEW p, NEW g, g = Without(f, p)
  PROVE  IsFolder(g) /\ p \notin DOMAIN g /\ SameBut(p, g, f)
<1>1. g = [q \in DOMAIN f \ {p} |-> f[q]]
  BY DEF Without, Restrict
<1> QED
  BY <1>1 DEF IsFolder, SameBut

(* Whatever is done in the folder, what is expected stays expected. *)
LEMMA WebDeedKeeps ==
  ASSUME DownloadsInv, Clock, WebDeed
  PROVE  DownloadsInv'
<1>1. /\ watched = "downloads" /\ IsFolder(world) /\ \A x \in DOMAIN world : world[x] \in WebFile
      /\ \A x \in DOMAIN world : world[x].state < deeds /\ world[x].at <= now
      /\ deeds \in Nat /\ now \in Nat
  BY DEF WebDeed, DownloadsInv, DownloadsType, Clock, IsFolder
<1>2. ASSUME NEW p \in WebFiles, NEW marked \in BOOLEAN,
             Arrived(p, With(world, p, [state |-> deeds, marked |-> marked, at |-> now]))
      PROVE  DownloadsInv'
  <2>1. PICK v \in WebFile : v = [state |-> deeds, marked |-> marked, at |-> now]
    BY <1>1 DEF WebFile
  <2>2. PICK files : files = With(world, p, v)
    OBVIOUS
  <2>3. Arrived(p, files) /\ v.state = deeds /\ v.at = now
    BY <1>2, <2>1, <2>2
  <2>4. IsFolder(files) /\ p \in DOMAIN files /\ files[p] = v /\ SameBut(p, files, world)
    BY <1>1, <2>2, WebFileWritten
  <2>5. ~Known(deeds)
    BY <1>1 DEF Known, DownloadsInv, DownloadsType
  <2>6. deeds <= deeds
    BY <1>1
  <2> QED
    BY <1>1, <2>3, <2>4, <2>5, <2>6, ArrivedKeeps
<1>3. ASSUME NEW p \in WebFiles, NEW q \in DOMAIN world \ {p}, NEW files,
             files = With(Without(world, q), p, [world[q] EXCEPT !.at = now]),
             IF Known(world[q].state) THEN Done(files, since \ {p}) ELSE Arrived(p, files)
      PROVE  DownloadsInv'
  <2>1. PICK v \in WebFile : v = [world[q] EXCEPT !.at = now]
    BY <1>1 DEF WebFile
  <2>2. v.state = world[q].state /\ v.at = now
    BY <1>1, <2>1 DEF WebFile
  <2>3. PICK rest : rest = Without(world, q)
    OBVIOUS
  <2>4. IsFolder(rest) /\ q \notin DOMAIN rest /\ SameBut(q, rest, world)
    BY <1>1, <2>3, WebFileGone
  <2>5. files = With(rest, p, v)
    BY <1>3, <2>1, <2>3
  <2>6. IsFolder(files) /\ p \in DOMAIN files /\ files[p] = v /\ SameBut(p, files, rest)
    BY <2>4, <2>5, WebFileWritten
  <2>7. SameBut(p, files, world)
    BY <2>4, <2>6 DEF SameBut
  <2>8. files[p].state <= deeds /\ files[p].at = now
    <3>1. world[q].state \in Nat /\ world[q].state < deeds
      BY <1>1 DEF WebFile
    <3> QED
      BY <1>1, <2>2, <2>6, <3>1
  <2>9. CASE Known(world[q].state)
    <3>1. Done(files, since \ {p})
      BY <1>3, <2>9
    <3> QED
      BY <1>1, <2>6, <2>7, <2>8, <3>1, OneFileDone
  <2>10. CASE ~Known(world[q].state)
    <3>1. Arrived(p, files) /\ ~Known(files[p].state)
      BY <1>3, <2>2, <2>6, <2>10
    <3> QED
      BY <1>1, <2>6, <2>7, <2>8, <3>1, ArrivedKeeps
  <2> QED
    BY <2>9, <2>10
<1>4. ASSUME NEW p \in DOMAIN world, ~world[p].marked, NEW files,
             files = With(world, p, [state |-> world[p].state, marked |-> TRUE, at |-> now]),
             Done(files, IF Settling(p) \/ p \in DOMAIN memory.awaiting THEN since ELSE since \ {p})
      PROVE  DownloadsInv'
  <2> DEFINE noticed == IF Settling(p) \/ p \in DOMAIN memory.awaiting THEN since ELSE since \ {p}
  <2>1. PICK v \in WebFile : v = [state |-> world[p].state, marked |-> TRUE, at |-> now]
    BY <1>1, <1>4 DEF WebFile
  <2>2. v.state = world[p].state /\ v.at = now
    BY <2>1
  <2>3. IsFolder(files) /\ files[p] = v /\ SameBut(p, files, world)
    <3>1. p \in WebFiles /\ files = With(world, p, v)
      BY <1>1, <1>4, <2>1 DEF IsFolder
    <3> QED
      BY <1>1, <3>1, WebFileWritten
  <2>4. files[p].state <= deeds /\ files[p].at = now
    <3>1. world[p].state \in Nat /\ world[p].state < deeds
      BY <1>1, <1>4 DEF WebFile
    <3> QED
      BY <1>1, <2>2, <2>3, <3>1
  <2>5. ASSUME memory # NoMemory, p \in noticed
        PROVE  Expected(p, files[p], memory, queued, now, alive)
    <3>1. Expected(p, world[p], memory, queued, now, alive)
      BY <1>1, <1>4, <2>5 DEF DownloadsInv
    <3>2. p \in DOMAIN memory.awaiting \/ p \notin SettledIn(memory.watcher)
      BY <2>5 DEF Settling, SettledIn
    <3>3. ~(now > files[p].at)
      BY <1>1, <2>4
    <3> QED
      BY <2>2, <2>3, <3>1, <3>2, <3>3 DEF Expected
  <2>6. Done(files, noticed) /\ noticed \subseteq since \cup {p}
    BY <1>4
  <2> HIDE DEF noticed
  <2> QED
    BY <1>1, <2>3, <2>4, <2>5, <2>6, OneFileDone
<1>5. ASSUME NEW p \in DOMAIN world, Done(Without(world, p), since \ {p})
      PROVE  DownloadsInv'
  <2>1. PICK files : files = Without(world, p)
    OBVIOUS
  <2>2. IsFolder(files) /\ p \notin DOMAIN files /\ SameBut(p, files, world)
    BY <1>1, <2>1, WebFileGone
  <2>3. Done(files, since \ {p}) /\ p \notin DOMAIN files
    BY <1>5, <2>1, <2>2
  <2> QED
    BY <1>1, <2>2, <2>3, OneFileDone
<1> QED
  BY <1>2, <1>3, <1>4, <1>5 DEF WebDeed

(* What is there and settled had settled, or settles now, or goes by another *)
(* name.                                                                     *)
LEMMA NewlySettled ==
  ASSUME NEW w, Tracks(w), NEW b, NEW p \in SettledIn(Scanned(w, b))
  PROVE  \/ p \in Settled(w.pending, b)
         \/ p \in SettledIn(w)
         \/ /\ p \notin DOMAIN w.last.files
            /\ \E r \in SettledIn(w) : w.last.files[r] = b.files[p]
<1>1. p \in DOMAIN b.files /\ p \notin Young(w, b) /\ p \notin Still(w, b)
  BY ScannedIs DEF SettledIn
<1>2. CASE p \in DOMAIN w.pending
  BY <1>1, <1>2 DEF Still
<1>3. CASE p \in DOMAIN w.last.files /\ p \notin DOMAIN w.pending
  BY <1>3 DEF SettledIn
<1>4. CASE p \notin DOMAIN w.last.files
  <2>1. p \in Appeared(w.last, b)
    BY <1>1, <1>4 DEF Appeared
  <2>2. PICK c \in Diff(w.last, b) : c.kind \in {"created", "renamed"} /\ c.path = p
    BY <2>1, ChangesComplete
  <2>3. ~IsYoung(w.pending, c)
    BY <1>1, <2>2 DEF Young
  <2>4. c.kind = "renamed" /\ c.from \notin DOMAIN w.pending
    BY <2>2, <2>3 DEF IsYoung
  <2>5. c.from \in Gone(w.last, b) /\ c.state = b.files[p] /\ w.last.files[c.from] = c.state
    BY <2>2, <2>4, ChangesSound
  <2>6. c.from \in SettledIn(w)
    BY <2>4, <2>5 DEF Gone, SettledIn
  <2> QED
    BY <1>4, <2>5, <2>6
<1> QED
  BY <1>2, <1>3, <1>4

(* What had settled, and is as it was, is settled still. *)
LEMMA StaysSettled ==
  ASSUME NEW w, Tracks(w), NEW b, NEW p \in SettledIn(w), p \in DOMAIN b.files
  PROVE  p \in SettledIn(Scanned(w, b)) /\ p \notin Settled(w.pending, b)
<1>1. p \notin Young(w, b) /\ p \notin Still(w, b)
  BY ScannedIs DEF SettledIn, Appeared, Still
<1> QED
  BY <1>1, ScannedIs DEF SettledIn, Settled

(* The files still awaited after a poll. *)
LEMMA Waited ==
  ASSUME NEW f, DOMAIN f \subseteq WebFiles, \A p \in DOMAIN f : f[p] \in [size : Nat, left : Nat],
         NEW files, NEW g, g = StillAwaited(f, files)
  PROVE  /\ IsAwaiting(g)
         /\ DOMAIN g \subseteq DOMAIN f \ Marked(f, files)
         /\ \A p \in DOMAIN g : g[p].size = f[p].size
<1>0. g = [p \in DOMAIN f \ (Marked(f, files) \cup GivenUp(f, files)) |-> [f[p] EXCEPT !.left = @ - 1]]
  BY DEF StillAwaited
<1>1. DOMAIN g = DOMAIN f \ (Marked(f, files) \cup GivenUp(f, files))
  BY <1>0
<1>2. ASSUME NEW p \in DOMAIN g
      PROVE  g[p] \in [size : Nat, left : Nat] /\ g[p].size = f[p].size
  <2>1. f[p] \in [size : Nat, left : Nat] /\ ~(f[p].left <= 1)
    BY <1>1 DEF GivenUp
  <2>2. PICK k \in Nat, n \in Nat : f[p] = [size |-> k, left |-> n]
    BY <2>1
  <2>3. ~(n <= 1)
    BY <2>1, <2>2
  <2>4. n - 1 \in Nat
    BY <2>3
  <2>5. g[p] = [f[p] EXCEPT !.left = @ - 1]
    BY <1>0, <1>1
  <2>6. g[p] = [size |-> k, left |-> n - 1]
    BY <2>2, <2>5
  <2> QED
    BY <2>2, <2>4, <2>6
<1>3. g = [p \in DOMAIN g |-> g[p]]
  BY <1>0
<1> QED
  BY <1>1, <1>2, <1>3 DEF IsAwaiting

LEMMA AwaitsType ==
  ASSUME NEW m, NEW b \in SnapshotsOf(WebFiles), IsAwaiting(m.awaiting), Tracks(m.watcher),
         NEW f, Awaits(m, b, f)
  PROVE  DOMAIN f \subseteq WebFiles /\ \A p \in DOMAIN f : f[p] \in [size : Nat, left : Nat]
<1>1. DOMAIN b.files \subseteq WebFiles /\ \A p \in DOMAIN b.files : b.files[p] \in Nat
  <2>1. b.files \in FilesIn(WebFiles)
    BY DEF SnapshotsOf
  <2> QED
    BY <2>1, FilesInIs
<1>2. /\ Settled(m.watcher.pending, b) \subseteq DOMAIN b.files
      /\ DOMAIN f = DOMAIN m.awaiting \cup Settled(m.watcher.pending, b)
      /\ \A p \in Settled(m.watcher.pending, b) : f[p] = [size |-> b.files[p], left |-> MarkRetries]
      /\ \A p \in DOMAIN m.awaiting \ Settled(m.watcher.pending, b) : f[p] = m.awaiting[p]
  BY DEF Awaits, Settled
<1>3. MarkRetries \in Nat
  BY BoundsAssumption
<1>4. DOMAIN f \subseteq WebFiles
  BY <1>1, <1>2 DEF IsAwaiting
<1>5. ASSUME NEW p \in DOMAIN f
      PROVE  f[p] \in [size : Nat, left : Nat]
  <2>1. CASE p \in Settled(m.watcher.pending, b)
    BY <1>1, <1>2, <1>3, <2>1
  <2>2. CASE p \notin Settled(m.watcher.pending, b)
    BY <1>2, <2>2 DEF IsAwaiting
  <2> QED
    BY <2>1, <2>2
<1> QED
  BY <1>4, <1>5

LEMMA FirstDownloadPoll ==
  ASSUME NEW files, NEW t, NEW b, b = TakeSnapshot(StatesOf(files), Temporary)
  PROVE  DownloadPoll(NoMemory, files, t, Console) =
            Poll([watcher |-> [last |-> b, pending |-> <<>>], awaiting |-> <<>>], {})
<1>1. Scan(Watcher, [p \in DOMAIN files |-> files[p].state], Temporary, TRUE).watcher = [last |-> b, pending |-> <<>>]
  BY DEF Scan, Watcher, Baseline, StatesOf
<1>2. DownloadPoll(NoMemory, files, t, Console) =
        Poll([watcher |-> Scan(Watcher, [p \in DOMAIN files |-> files[p].state], Temporary, TRUE).watcher,
              awaiting |-> <<>>], {})
  BY Zenon DEF DownloadPoll
<1> QED
  BY <1>1, <1>2

(* A file that is expected is still so after a poll that reports those that  *)
(* bear their mark.                                                          *)
LEMMA ExpectedKeeps ==
  ASSUME NEW m, Tracks(m.watcher), NEW b, NEW f, Awaits(m, b, f), NEW files, NEW queue, NEW after,
         queue \subseteq after, NEW t \in Nat, NEW live, NEW left, NEW now1, now1 = t + 1,
         NEW p \in DOMAIN files \cap DOMAIN b.files, b.files[p] = files[p].state,
         Expected(p, files[p], m, queue, t, TRUE),
         live => \A x \in Marked(f, files) : Reports(after, x, f[x].size),
         DOMAIN left \subseteq DOMAIN f \ Marked(f, files),
         \A x \in DOMAIN left : left[x].size = f[x].size
  PROVE  Expected(p, files[p], [watcher |-> Scanned(m.watcher, b), awaiting |-> left], after, now1, live)
<1> DEFINE w == m.watcher
           file == files[p]
           next == [watcher |-> Scanned(m.watcher, b), awaiting |-> left]
           settles == Settled(w.pending, b)
<1>1. /\ p \notin Temporary
      /\ p \notin DOMAIN w.last.files => \A r \in SettledIn(w) : w.last.files[r] # file.state
      /\ p \in SettledIn(w) =>
          /\ w.last.files[p] = file.state
          /\ file.marked => p \in DOMAIN m.awaiting \/ Reports(queue, p, file.state)
          /\ p \in DOMAIN m.awaiting =>
                m.awaiting[p].size = file.state \/ Reports(queue, p, file.state)
  BY DEF Expected
<1>2. /\ DOMAIN f = DOMAIN m.awaiting \cup settles
      /\ \A x \in settles : f[x].size = b.files[x]
      /\ \A x \in DOMAIN m.awaiting \ settles : f[x] = m.awaiting[x]
  BY DEF Awaits
<1>3. \A k : Reports(queue, p, k) => Reports(after, p, k)
  BY DEF Reports
<1>4. next.watcher = Scanned(w, b) /\ next.awaiting = left /\ Scanned(w, b).last = b
  BY ScannedIs
<1> HIDE DEF next
<1>5. ASSUME p \in SettledIn(Scanned(w, b)), live
      PROVE  /\ file.marked => p \in DOMAIN left \/ Reports(after, p, file.state)
             /\ p \in DOMAIN left => left[p].size = file.state \/ Reports(after, p, file.state)
  <2>1. p \in settles \/ p \in SettledIn(w)
    <3>1. \/ p \in settles
          \/ p \in SettledIn(w)
          \/ /\ p \notin DOMAIN w.last.files
             /\ \E r \in SettledIn(w) : w.last.files[r] = b.files[p]
      BY <1>5, NewlySettled
    <3> QED
      BY <1>1, <3>1
  <2>2. p \in DOMAIN f => f[p].size = file.state \/ Reports(queue, p, file.state)
    <3>1. CASE p \in settles
      BY <1>2, <3>1
    <3>2. CASE p \in SettledIn(w) /\ p \notin settles
      BY <1>1, <1>2, <3>2
    <3> QED
      BY <2>1, <3>1, <3>2
  <2>3. file.marked => p \in DOMAIN f \/ Reports(queue, p, file.state)
    BY <1>1, <1>2, <2>1
  <2>4. p \in DOMAIN left => left[p].size = file.state \/ Reports(after, p, file.state)
    BY <1>3, <2>2
  <2>5. ASSUME file.marked
        PROVE  Reports(after, p, file.state)
    <3>1. CASE p \in DOMAIN f
      <4>1. p \in Marked(f, files)
        BY <2>5, <3>1 DEF Marked
      <4> QED
        BY <1>3, <1>5, <2>2, <3>1, <4>1
    <3>2. CASE p \notin DOMAIN f
      BY <1>3, <2>3, <2>5, <3>2
    <3> QED
      BY <3>1, <3>2
  <2> QED
    BY <2>4, <2>5
<1>6. next.watcher.last.files = b.files
  BY <1>4
<1> QED
  BY <1>1, <1>4, <1>5, <1>6 DEF Expected, next

(* A file as it was at the first poll stays out of what is awaited. *)
LEMMA UntouchedKeeps ==
  ASSUME NEW m, Tracks(m.watcher), NEW b, NEW f, Awaits(m, b, f), NEW file, NEW left,
         DOMAIN left \subseteq DOMAIN f, NEW p \in DOMAIN b.files, b.files[p] = file.state,
         Untouched(p, file, m)
  PROVE  /\ Untouched(p, file, [watcher |-> Scanned(m.watcher, b), awaiting |-> left])
         /\ p \notin DOMAIN f
<1>1. p \in SettledIn(m.watcher) /\ p \notin DOMAIN m.awaiting
  BY DEF Untouched
<1>2. p \in SettledIn(Scanned(m.watcher, b)) /\ p \notin Settled(m.watcher.pending, b)
  BY <1>1, StaysSettled
<1>3. p \notin DOMAIN f
  BY <1>1, <1>2 DEF Awaits
<1>4. Scanned(m.watcher, b).last = b
  BY ScannedIs
<1> QED
  BY <1>2, <1>3, <1>4 DEF Untouched

(* Every download in view that has settled and bears its mark is answered. *)
LEMMA PollDownloadsKeeps ==
  ASSUME DownloadsInv, Clock, NothingMissed, PollDownloads
  PROVE  /\ DownloadsInv' /\ NothingMissed'
         /\ \A e \in queued' \ queued : IsNew(e) /\ Credited(e)
<1>1. PICK result : result = DownloadPoll(memory, world, now, Console)
  OBVIOUS
<1>2. PICK view : view = DOMAIN result.memory.watcher.last.files
  OBVIOUS
<1>3. PICK observed :
        observed = IF memory = NoMemory THEN {}
                   ELSE {<<"download", p, world[p].state>> :
                            p \in {p \in since \cap view : world[p].marked /\ now > world[p].at}}
  OBVIOUS
<1>4. /\ watched = "downloads" /\ Handle(result, observed)
      /\ since' = IF memory = NoMemory THEN {} ELSE since \cap view
      /\ told' = IF memory = NoMemory THEN Restrict(world, view) ELSE Restrict(told, DOMAIN told \cap view)
  BY <1>1, <1>2, <1>3 DEF PollDownloads
<1>5. /\ now' = now + 1 /\ memory' = result.memory /\ world' = world /\ watched' = watched /\ deeds' = deeds
      /\ queued \subseteq queued' /\ alive
      /\ \A e \in queued' \ queued : \E raw \in result.raws : e \in Normalise(raw)
      /\ alive' => \A raw \in result.raws : \A e \in Normalise(raw) : \E q \in queued' : q.key = e.key
  BY <1>4, PollHandled
<1>6. now \in Nat /\ deeds \in Nat
  BY DEF Clock
<1>7. DownloadsType
  BY <1>4 DEF DownloadsInv
<1>8. /\ IsFolder(world) /\ \A p \in DOMAIN world : world[p] \in WebFile /\ world[p].state \in Nat
      /\ \A p \in DOMAIN world : world[p].at \in Nat /\ world[p].at <= now /\ world[p].state < deeds
  BY <1>7 DEF DownloadsType, IsFolder, WebFile
<1>9. PICK states : states = StatesOf(world)
  OBVIOUS
<1>10. states \in FilesIn(WebFiles) /\ DOMAIN states = DOMAIN world
       /\ \A p \in DOMAIN world : states[p] = world[p].state
  <2>1. DOMAIN states \subseteq WebFiles /\ states \in [DOMAIN states -> Nat]
    BY <1>8, <1>9 DEF IsFolder, StatesOf
  <2> QED
    BY <1>9, <2>1, FilesInIs DEF StatesOf
<1>11. PICK b : b = TakeSnapshot(states, Temporary)
  OBVIOUS
<1>12. IsFiniteSet(WebFiles)
  BY PathsAssumption, FS_Subset DEF Paths
<1>13. /\ b \in SnapshotsOf(WebFiles) /\ DOMAIN b.files \subseteq DOMAIN world \ Temporary
       /\ \A p \in DOMAIN b.files : b.files[p] = world[p].state
  BY <1>10, <1>11, <1>12, SnapshotIs
<1>14. SnapshotsOf(WebFiles) \subseteq SnapshotsOf(Paths)
  <2>1. FilesIn(WebFiles) \subseteq FilesIn(Paths)
    <3> SUFFICES ASSUME NEW g \in FilesIn(WebFiles) PROVE g \in FilesIn(Paths)
      OBVIOUS
    <3>1. DOMAIN g \subseteq Paths /\ g \in [DOMAIN g -> Nat]
      BY FilesInIs DEF Paths
    <3> QED
      BY <3>1, FilesInIs
  <2> QED
    BY <2>1 DEF SnapshotsOf
<1>15. b # NoSnapshot
  BY <1>13, <1>14, SomethingThere
<1>16. b = TakeSnapshot(StatesOf(world), Temporary)
  BY <1>9, <1>11
<1>17. CASE memory = NoMemory
  <2>1. result = Poll([watcher |-> [last |-> b, pending |-> <<>>], awaiting |-> <<>>], {})
    BY <1>1, <1>16, <1>17, FirstDownloadPoll
  <2>2. PICK w : w = [last |-> b, pending |-> <<>>]
    OBVIOUS
  <2>3. result.memory = [watcher |-> w, awaiting |-> <<>>] /\ result.raws = {}
    BY <2>1, <2>2 DEF Poll
  <2>4. DOMAIN <<>> = {}
    OBVIOUS
  <2>5. w.last = b /\ DOMAIN w.pending = {} /\ w \in WatchersOf(WebFiles)
    BY <1>13, <2>2, <2>4, NoFiles DEF WatchersOf
  <2>6. \A a : a = <<>> => IsAwaiting(a)
    <3>1. <<>> \in [{} -> [size : Nat, left : Nat]]
      OBVIOUS
    <3> QED
      BY <2>4, <3>1 DEF IsAwaiting
  <2>7. memory'.watcher = w /\ memory'.awaiting = <<>> /\ memory' # NoMemory
    BY <1>5, <2>3, <2>5, <2>6, DownloadMemory
  <2>8. Tracks(w)
    BY <2>5 DEF Tracks
  <2>9. view = DOMAIN b.files /\ since' = {} /\ told' = Restrict(world, view)
    BY <1>2, <1>4, <1>17, <2>3, <2>5
  <2>10. DownloadsType'
    BY <1>5, <1>6, <1>8, <1>13, <1>15, <2>5, <2>6, <2>7, <2>8 DEF DownloadsType
  <2>11. ASSUME NEW p \in DOMAIN told'
         PROVE  told'[p].at \in Nat /\ told'[p].at < now' /\ Untouched(p, world[p], memory')
    <3>1. p \in view /\ told'[p] = world[p]
      BY <2>9, <2>11 DEF Restrict
    <3>2. p \in DOMAIN world
      BY <1>13, <2>9, <3>1
    <3>3. told'[p].at \in Nat /\ told'[p].at < now'
      BY <1>5, <1>6, <1>8, <3>1, <3>2
    <3>4. p \in SettledIn(w) /\ w.last.files[p] = world[p].state
      BY <1>13, <2>5, <2>9, <3>1 DEF SettledIn
    <3> QED
      BY <2>4, <2>7, <3>3, <3>4 DEF Untouched
  <2>12. DownloadsInv'
    BY <1>4, <1>5, <2>9, <2>10, <2>11 DEF DownloadsInv
  <2>13. \A e \in queued' \ queued : FALSE
    BY <1>5, <2>3
  <2>14. observed = {}
    BY <1>3, <1>17
  <2> QED
    BY <1>4, <2>12, <2>13, <2>14, PollMissesNothing
<1>18. CASE memory # NoMemory
  <2>1. /\ memory.watcher \in WatchersOf(WebFiles) /\ memory.watcher.last # NoSnapshot
        /\ Tracks(memory.watcher) /\ IsAwaiting(memory.awaiting)
        /\ \A p \in since \cap DOMAIN world : Expected(p, world[p], memory, queued, now, alive)
        /\ \A p \in DOMAIN told :
              /\ told[p].at \in Nat /\ told[p].at < now
              /\ p \in DOMAIN world /\ world[p] = told[p] => Untouched(p, world[p], memory)
    BY <1>4, <1>18 DEF DownloadsInv, DownloadsType
  <2>2. PICK m : m = memory
    OBVIOUS
  <2>3. PICK f : Polls(m, b, world, now, f)
    BY <1>16, <1>18, <2>1, <2>2, DownloadPolled
  <2>4. PICK left : left = StillAwaited(f, world)
    OBVIOUS
  <2>5. /\ result.memory = [watcher |-> Scanned(m.watcher, b), awaiting |-> left]
        /\ result.raws = RawsMarked(f, world, now) /\ Awaits(m, b, f)
    BY <1>1, <2>2, <2>3, <2>4 DEF Poll, Polls
  <2>6. DOMAIN f \subseteq WebFiles /\ \A p \in DOMAIN f : f[p] \in [size : Nat, left : Nat]
    BY <1>13, <2>1, <2>2, <2>5, AwaitsType
  <2>7. /\ IsAwaiting(left) /\ DOMAIN left \subseteq DOMAIN f \ Marked(f, world)
        /\ \A p \in DOMAIN left : left[p].size = f[p].size
    BY <2>4, <2>6, Waited
  <2>8. PICK w : w = Scanned(m.watcher, b)
    OBVIOUS
  <2>9. w.last = b /\ Tracks(w) /\ w \in WatchersOf(WebFiles)
    BY <1>13, <2>1, <2>2, <2>8, ScannedIs, ScannedType
  <2>10. memory' = [watcher |-> w, awaiting |-> left] /\ memory' # NoMemory
    BY <1>5, <2>5, <2>7, <2>8, <2>9, DownloadMemory
  <2>11. memory'.watcher = w /\ memory'.awaiting = left
    BY <2>10
  <2>12. view = DOMAIN b.files
    BY <1>2, <2>5, <2>8, <2>9
  <2>13. since' = since \cap view /\ told' = Restrict(told, DOMAIN told \cap view)
    BY <1>4, <1>18
  <2>14. DownloadsType'
    BY <1>5, <1>6, <1>8, <1>13, <1>15, <2>7, <2>9, <2>10, <2>11 DEF DownloadsType
  <2>15. ASSUME NEW x \in Marked(f, world)
         PROVE  /\ \E raw \in result.raws : raw = DownloadRaw(x, f[x].size, now)
                /\ alive' => Reports(queued', x, f[x].size)
    <3>1. PICK raw \in result.raws : raw = DownloadRaw(x, f[x].size, now)
      BY <2>5 DEF RawsMarked
    <3>2. PICK e \in Normalise(raw) : e.key = <<"download", x, f[x].size, now>>
      BY <3>1, DownloadEvents
    <3>3. alive' => \E q \in queued' : q.key = <<"download", x, f[x].size, now>>
      BY <1>5, <3>1, <3>2
    <3>4. \A q : q.key = <<"download", x, f[x].size, now>> => Begins(q.key, <<"download", x, f[x].size>>)
      BY DEF Begins
    <3> QED
      BY <3>1, <3>3, <3>4 DEF Reports
  <2>16. ASSUME NEW p \in since' \cap DOMAIN world
         PROVE  Expected(p, world[p], memory', queued', now', alive')
    <3>1. p \in since \cap DOMAIN world /\ p \in DOMAIN b.files
      BY <2>12, <2>13, <2>16
    <3>2. Expected(p, world[p], m, queued, now, TRUE)
      BY <1>5, <2>1, <2>2, <3>1 DEF Expected
    <3>3. PICK live : live = alive'
      OBVIOUS
    <3>4. PICK after : after = queued'
      OBVIOUS
    <3>5. PICK t : t = now'
      OBVIOUS
    <3>6. Expected(p, world[p], [watcher |-> Scanned(m.watcher, b), awaiting |-> left], after, t, live)
      BY <1>5, <1>6, <1>13, <2>1, <2>2, <2>5, <2>7, <2>15, <3>1, <3>2, <3>3, <3>4, <3>5, ExpectedKeeps
    <3> QED
      BY <2>8, <2>10, <3>3, <3>4, <3>5, <3>6
  <2>17. ASSUME NEW p \in DOMAIN told', p \in DOMAIN world, world[p] = told'[p]
         PROVE  Untouched(p, world[p], memory')
    <3>1. p \in DOMAIN told /\ p \in DOMAIN b.files /\ told'[p] = told[p]
      BY <2>12, <2>13, <2>17 DEF Restrict
    <3>2. Untouched(p, world[p], m)
      BY <2>1, <2>2, <2>17, <3>1
    <3>3. b.files[p] = world[p].state
      BY <1>13, <3>1
    <3>4. Untouched(p, world[p], [watcher |-> Scanned(m.watcher, b), awaiting |-> left])
      BY <2>1, <2>2, <2>5, <2>7, <3>1, <3>2, <3>3, UntouchedKeeps
    <3> QED
      BY <2>8, <2>10, <3>4
  <2>18. ASSUME NEW p \in DOMAIN told'
         PROVE  told'[p].at \in Nat /\ told'[p].at < now'
    <3>1. p \in DOMAIN told /\ told'[p] = told[p]
      BY <2>13, <2>18 DEF Restrict
    <3> QED
      BY <1>5, <1>6, <2>1, <3>1
  <2>19. DownloadsInv'
    BY <1>4, <1>5, <2>14, <2>16, <2>17, <2>18 DEF DownloadsInv
  <2>20. ASSUME alive', NEW k \in observed
         PROVE  \E e \in queued' : Answers(e, k)
    <3>1. PICK p \in since \cap view : /\ world[p].marked /\ now > world[p].at
                                       /\ k = <<"download", p, world[p].state>>
      BY <1>3, <1>18, <2>20
    <3>2. p \in DOMAIN world /\ p \in DOMAIN b.files /\ b.files[p] = world[p].state
      BY <1>13, <2>12, <3>1
    <3>3. Expected(p, world[p], m, queued, now, TRUE)
      BY <1>5, <2>1, <2>2, <3>1, <3>2 DEF Expected
    <3>4. p \in DOMAIN m.watcher.last.files /\ m.watcher.last.files[p] = world[p].state
      BY <3>1, <3>3 DEF Expected
    <3>5. Reports(queued', p, world[p].state)
      <4>1. CASE p \in DOMAIN m.watcher.pending
        <5>1. p \in Settled(m.watcher.pending, b)
          BY <2>1, <2>2, <3>2, <3>4, <4>1 DEF Settled, Tracks
        <5>2. p \in DOMAIN f /\ f[p].size = world[p].state
          BY <2>5, <3>2, <5>1 DEF Awaits
        <5>3. p \in Marked(f, world)
          BY <3>1, <3>2, <5>2 DEF Marked
        <5> QED
          BY <2>15, <2>20, <5>2, <5>3
      <4>2. CASE p \notin DOMAIN m.watcher.pending
        <5>1. p \in SettledIn(m.watcher)
          BY <3>4, <4>2 DEF SettledIn
        <5>2. /\ p \in DOMAIN m.awaiting \/ Reports(queued, p, world[p].state)
              /\ p \in DOMAIN m.awaiting =>
                    m.awaiting[p].size = world[p].state \/ Reports(queued, p, world[p].state)
          BY <3>1, <3>3, <5>1 DEF Expected
        <5>3. CASE Reports(queued, p, world[p].state)
          BY <1>5, <5>3 DEF Reports
        <5>4. CASE p \in DOMAIN m.awaiting /\ m.awaiting[p].size = world[p].state
          <6>1. p \notin Settled(m.watcher.pending, b)
            BY <4>2 DEF Settled
          <6>2. p \in DOMAIN f /\ f[p].size = world[p].state
            BY <2>5, <5>4, <6>1 DEF Awaits
          <6>3. p \in Marked(f, world)
            BY <3>1, <3>2, <6>2 DEF Marked
          <6> QED
            BY <2>15, <2>20, <6>2, <6>3
        <5> QED
          BY <5>2, <5>3, <5>4
      <4> QED
        BY <4>1, <4>2
    <3>6. PICK e \in queued' : Begins(e.key, k)
      BY <3>1, <3>5 DEF Reports
    <3>7. k[1] # "tcp"
      BY <3>1
    <3> QED
      BY <3>6, <3>7 DEF Answers
  <2>21. ASSUME NEW e \in queued' \ queued
         PROVE  IsNew(e) /\ Credited(e)
    <3>1. PICK x \in Marked(f, world) : e \in Normalise(DownloadRaw(x, f[x].size, now))
      BY <1>5, <2>5 DEF RawsMarked
    <3>2. e.key = <<"download", x, f[x].size, now>>
      BY <3>1, DownloadEvents
    <3>3. e.key[1] = "download" /\ e.key[2] = x
      BY <3>2
    <3>4. x \in DOMAIN f /\ x \in DOMAIN world /\ world[x].marked
      BY DEF Marked
    <3>5. x \notin DOMAIN told \/ world[x] # told[x]
      <4> SUFFICES ASSUME x \in DOMAIN told, world[x] = told[x] PROVE FALSE
        OBVIOUS
      <4>1. Untouched(x, world[x], m)
        BY <2>1, <2>2, <3>4
      <4>2. x \in SettledIn(m.watcher) /\ x \notin DOMAIN m.awaiting
        BY <4>1 DEF Untouched
      <4>3. x \notin Settled(m.watcher.pending, b)
        BY <4>2 DEF SettledIn, Settled
      <4> QED
        BY <2>5, <3>4, <4>2, <4>3 DEF Awaits
    <3>6. IsNew(e)
      BY <3>3, <3>4, <3>5 DEF IsNew
    <3>7. Credited(e)
      BY <3>3 DEF Credited
    <3> QED
      BY <3>6, <3>7
  <2> QED
    BY <1>4, <2>19, <2>20, <2>21, PollMissesNothing
<1> QED
  BY <1>17, <1>18

LEMMA OthersLeaveDownloads ==
  ASSUME watched = "downloads", [SensorsNext]_sensorVars, ~WebDeed, ~PollDownloads
  PROVE  /\ UNCHANGED <<watched, world, queued, due, deeds, now>>
         /\ UNCHANGED <<alive, memory, since, told>> \/ memory' = NoMemory
BY DEF SensorsNext, sensorVars, DriveDeed, TcpDeed, LogDeed, WmiDeed, PollDrive, PollNetwork, PollLog,
       PollWmi, ReadFails, AccessDenied, AgentRestarts

LEMMA DownloadsKeeps == DownloadsInv /\ Clock /\ [SensorsNext]_sensorVars /\ NothingMissed => DownloadsInv'
<1> SUFFICES ASSUME DownloadsInv, Clock, [SensorsNext]_sensorVars, NothingMissed PROVE DownloadsInv'
  OBVIOUS
<1>1. CASE watched # "downloads"
  BY <1>1, OneCollector DEF DownloadsInv
<1>2. CASE watched = "downloads" /\ ~WebDeed /\ ~PollDownloads
  BY <1>2, OthersLeaveDownloads DEF DownloadsInv, DownloadsType
<1> QED
  BY <1>1, <1>2, WebDeedKeeps, PollDownloadsKeeps

-----------------------------------------------------------------------------
(* What the drive's collector reports. *)

(* A change that is reported tells of a file that settles or differs. *)
LEMMA ReportsDiffer ==
  ASSUME NEW w, Tracks(w), NEW b, NEW c \in ScanChanges(w, b)
  PROVE  \/ c.path \in DOMAIN w.pending
         \/ c.path \in DOMAIN w.last.files /\ c.path \notin DOMAIN b.files
         \/ c.path \in DOMAIN b.files /\ c.path \notin DOMAIN w.last.files
         \/ c.path \in DOMAIN b.files /\ b.files[c.path] # w.last.files[c.path]
<1>1. CASE c \in {Change("created", p, p, b.files[p]) : p \in Settled(w.pending, b)}
  BY <1>1 DEF Change, Settled
<1>2. CASE c \in Diff(w.last, b)
  BY <1>2, ChangesSound DEF Appeared, Gone
<1> QED
  BY <1>1, <1>2 DEF ScanChanges

LEMMA DriveEvents ==
  ASSUME NEW changes, NEW time, NEW raw \in DriveRaws(changes, time, Console), NEW e \in Normalise(raw)
  PROVE  e.key[1] = "removable" /\ (e.key[3] = 0 \/ \E c \in changes : e.key[3] = c.path)
<1> DEFINE written == Cardinality({c \in changes : c.kind \in {"created", "modified"}})
           total == {Change("data_transfer", 0, 0, n) : n \in {written} \ {0}}
<1>1. PICK c \in changes \cup total : raw = FileRaw("removable_files", c, time, Console)
  BY DEF DriveRaws
<1>2. ASSUME c \in total
      PROVE  c.path = 0
  <2>1. PICK n : c = Change("data_transfer", 0, 0, n)
    BY <1>2
  <2> QED
    BY <2>1 DEF Change
<1> HIDE DEF total
<1>3. raw.source = "removable_files" /\ raw.path = c.path
  BY <1>1 DEF FileRaw
<1>4. e \in FromRemovableFiles(raw)
  BY <1>3 DEF Normalise
<1>5. e.key = <<"removable", raw.kind, raw.path, raw.state, raw.occurred>>
  BY <1>4 DEF FromRemovableFiles, Event
<1> QED
  BY <1>1, <1>2, <1>3, <1>5

(* A file on a drive is reported only if it changed since the first poll, or *)
(* was out of view.                                                          *)
LEMMA PollDriveIsNew ==
  ASSUME DriveInv, Clock, NothingMissed, PollDrive
  PROVE  NothingMissed' /\ \A e \in queued' \ queued : IsNew(e) /\ Credited(e)
<1>1. PICK result : result = DrivePoll(memory, Mounted, world.locked, now, Console)
  OBVIOUS
<1>2. Handle(result, {}) /\ watched = "drive"
  BY <1>1 DEF PollDrive
<1>3. NothingMissed'
  BY <1>2, PollMissesNothing
<1>4. ASSUME NEW e \in queued' \ queued
      PROVE  IsNew(e) /\ Credited(e)
  <2>1. PICK raw \in result.raws : e \in Normalise(raw)
    BY <1>2, PollHandled
  <2>2. Mounted # NoMemory /\ memory # NoMemory
    BY <1>1, <2>1 DEF DrivePoll, Poll
  <2>3. PICK b : b = TakeSnapshot(Mounted, Hidden(world.locked))
    OBVIOUS
  <2>4. PICK scan : scan = Scan(memory, Mounted, Hidden(world.locked), "root" \notin world.locked)
    OBVIOUS
  <2>5. result.raws = DriveRaws(scan.changes, now, Console) /\ result.memory = scan.watcher
    BY <1>1, <2>2, <2>4 DEF DrivePoll, Poll
  <2>6. e.key[1] = "removable" /\ (e.key[3] = 0 \/ \E c \in scan.changes : e.key[3] = c.path)
    BY <2>1, <2>5, DriveEvents
  <2>7. ASSUME NEW c \in scan.changes
        PROVE  c.path \in since'
    <3>1. /\ memory.last # NoSnapshot
          /\ scan.watcher = Scanned(memory, b) /\ scan.changes = ScanChanges(memory, b)
      BY <2>3, <2>4, <2>7 DEF Scan
    <3>2. PICK v : v = memory
      OBVIOUS
    <3>3. DriveRemembered /\ Tracks(v) /\ v \in WatchersOf(DOMAIN Dir) /\ DriveWorld
      BY <1>2, <2>2, <3>1, <3>2 DEF DriveInv, DriveRemembered
    <3>4. result.memory.last = b
      BY <2>5, <3>1, <3>2, ScannedIs
    <3>5. Mounted \in FilesIn(DOMAIN Dir)
      BY <2>2, <3>3 DEF DriveWorld, Mounted
    <3>6. /\ b \in SnapshotsOf(DOMAIN Dir)
          /\ DOMAIN b.files \subseteq DOMAIN Mounted
          /\ \A p \in DOMAIN b.files : b.files[p] = Mounted[p]
      <4>1. PICK m \in FilesIn(DOMAIN Dir) : m = Mounted
        BY <3>5
      <4>2. PICK h : h = Hidden(world.locked)
        OBVIOUS
      <4> QED
        BY <2>3, <4>1, <4>2, SnapshotIs, DrivePathsArePaths
    <3>7. b # NoSnapshot
      BY <3>6, SomethingThere, DrivePathsArePaths
    <3>8. since \subseteq since' /\ DOMAIN Mounted \ DOMAIN b.files \subseteq since'
      BY <1>1, <2>2, <3>1, <3>4, <3>7 DEF PollDrive
    <3>9. DOMAIN v.last.files \subseteq DOMAIN Dir /\ DOMAIN Mounted \subseteq DOMAIN Dir
      <4>1. v.last.files \in FilesIn(DOMAIN Dir)
        BY <3>1, <3>2, <3>3 DEF WatchersOf, SnapshotsOf
      <4> QED
        BY <3>5, <4>1, FilesInIs
    <3>10. \/ c.path \in DOMAIN v.pending
           \/ c.path \in DOMAIN v.last.files /\ c.path \notin DOMAIN b.files
           \/ c.path \in DOMAIN b.files /\ c.path \notin DOMAIN v.last.files
           \/ c.path \in DOMAIN b.files /\ b.files[c.path] # v.last.files[c.path]
      BY <2>7, <3>1, <3>2, <3>3, ReportsDiffer
    <3>11. DOMAIN v.pending \subseteq since /\ Agrees
      BY <2>2, <3>2, <3>3 DEF DriveRemembered
    <3> QED
      BY <3>2, <3>6, <3>8, <3>9, <3>10, <3>11 DEF Agrees
  <2> QED
    BY <2>6, <2>7 DEF IsNew, Credited
<1> QED
  BY <1>3, <1>4

-----------------------------------------------------------------------------
(* The collectors together. *)

\* The inductive invariant: what each collector's memory and the queue tell of
\* the part of the machine it looks at.
SensorsInv == Clock /\ DriveInv /\ LogInv /\ WmiInv /\ NetworkInv /\ DownloadsInv /\ NothingMissed

LEMMA InitSensors == SensorsInit => SensorsInv
<1> SUFFICES ASSUME SensorsInit PROVE SensorsInv
  OBVIOUS
<1>1. /\ watched \in DOMAIN FirstWorld /\ world = FirstWorld[watched] /\ memory = NoMemory
      /\ queued = {} /\ since = {} /\ due = {}
  BY WatchableAssumption DEF SensorsInit, FirstWorld
<1>2. LogInv
  <2>0. <<>> \in Seq(Records)
    OBVIOUS
  <2>1. PICK none \in Seq(Records) : none = <<>>
    BY <2>0, Zenon
  <2>2. watched = "log" => world = [present |-> {}, written |-> none]
    BY <1>1, <2>1 DEF FirstWorld
  <2>3. watched = "log" => world.present = {} /\ world.written = none
    BY <2>2
  <2> QED
    BY <1>1, <2>2, <2>3 DEF LogInv
<1>3. WmiInv
  <2>1. watched = "wmi" => world = <<>>
    BY <1>1 DEF FirstWorld
  <2>2. <<>> \in Seq(Launches)
    OBVIOUS
  <2> QED
    BY <1>1, <2>1, <2>2 DEF WmiInv
<1>4. NetworkInv
  <2>1. watched = "network" => world = {}
    BY <1>1 DEF FirstWorld
  <2> QED
    BY <1>1, <2>1 DEF NetworkInv
<1>5. DownloadsInv
  <2>1. watched = "downloads" => world = <<>>
    BY <1>1 DEF FirstWorld
  <2>2. <<>> \in [{} -> WebFile] /\ DOMAIN <<>> = {}
    OBVIOUS
  <2> QED
    BY <1>1, <2>1, <2>2 DEF DownloadsInv, DownloadsType, IsFolder
<1>6. NothingMissed
  BY <1>1 DEF NothingMissed
<1> QED
  BY <1>2, <1>3, <1>4, <1>5, <1>6, InitDrive DEF SensorsInv

LEMMA OthersQueueNothing ==
  ASSUME [SensorsNext]_sensorVars, ~PollDrive, ~PollDownloads, ~PollNetwork, ~PollLog, ~PollWmi
  PROVE  UNCHANGED <<queued, due>>
<1>1. CASE DriveDeed \/ WebDeed \/ TcpDeed \/ LogDeed \/ WmiDeed
  BY <1>1, Zenon DEF Done, DriveDeed, OnDrive, WebDeed, Arrived, TcpDeed, LogDeed, WmiDeed
<1>2. CASE ReadFails \/ AccessDenied \/ AgentRestarts
  BY <1>2, Zenon DEF ReadFails, AccessDenied, AgentRestarts
<1>3. CASE UNCHANGED sensorVars
  BY <1>3 DEF sensorVars
<1> QED
  BY <1>1, <1>2, <1>3, Zenon DEF SensorsNext

(* No step misses anything, and what it reports is new and credited. *)
LEMMA StepReports ==
  ASSUME SensorsInv, [SensorsNext]_sensorVars
  PROVE  NothingMissed' /\ \A e \in queued' \ queued : IsNew(e) /\ Credited(e)
<1> USE DEF SensorsInv
<1>1. CASE PollDrive
  BY <1>1, PollDriveIsNew
<1>2. CASE PollDownloads
  BY <1>2, PollDownloadsKeeps
<1>3. CASE PollNetwork
  BY <1>3, PollNetworkKeeps
<1>4. CASE PollLog
  BY <1>4, PollLogKeeps, PollLogIsNew
<1>5. CASE PollWmi
  BY <1>5, PollWmiKeeps
<1>6. CASE ~PollDrive /\ ~PollDownloads /\ ~PollNetwork /\ ~PollLog /\ ~PollWmi
  BY <1>6, OthersQueueNothing DEF NothingMissed
<1> QED
  BY <1>1, <1>2, <1>3, <1>4, <1>5, <1>6

LEMMA SensorsKeep == SensorsInv /\ [SensorsNext]_sensorVars => SensorsInv'
BY ClockKeeps, DriveKeeps, LogKeeps, WmiKeeps, NetworkKeeps, DownloadsKeeps, StepReports DEF SensorsInv

LEMMA SensorsInvariant == SensorsSpec => []SensorsInv
BY InitSensors, SensorsKeep, PTL DEF SensorsSpec

(* Once a poll that saw it ends, whatever there was to report is in the      *)
(* queue: no marked download, connection, log record, process or drive of    *)
(* which the collectors' memories would tell that it had been dealt with,    *)
(* but for a process that could not be asked and goes for its parent's, a    *)
(* service's, and the endpoint it used (_resolve_owner).                     *)
THEOREM NothingIsMissed == SensorsSpec => []NothingMissed
<1>1. SensorsInv => NothingMissed
  BY DEF SensorsInv
<1> QED
  BY <1>1, SensorsInvariant, PTL

(* An event never tells of what was there when its collector started, of an  *)
(* endpoint reported in the repeat window, or of a service's doing: unless   *)
(* that is asked for, or the service's process did not give its own owner    *)
(* with the identifier (_resolve_owner, is_service_account).                 *)
THEOREM OnlyNewIsReported == SensorsSpec => OnlyNewActivity
<1>1. SensorsInv /\ [SensorsNext]_sensorVars =>
        [\A e \in queued' \ queued : alive => IsNew(e)]_sensorVars
  BY StepReports
<1> QED
  BY <1>1, SensorsInvariant, PTL DEF SensorsSpec, OnlyNewActivity

(* An event is credited to whoever the record, the process or its parent     *)
(* says, whichever way the name was written.                                 *)
THEOREM EventsAreCredited == SensorsSpec => CreditedToActor
<1>1. SensorsInv /\ [SensorsNext]_sensorVars =>
        [\A e \in queued' \ queued : Credited(e)]_sensorVars
  BY StepReports
<1> QED
  BY <1>1, SensorsInvariant, PTL DEF SensorsSpec, CreditedToActor
=============================================================================
