------------------------------ MODULE RunLock ------------------------------
(***************************************************************************)
(* PipelineCoordinator (ueba/application/detection_pipeline.py): who may   *)
(* run the detection pipeline.  Inside an API process an asyncio lock      *)
(* admits one task; across processes a Redis key does, set with NX and an  *)
(* expiry that nobody renews and removed by a GET and a DELETE.            *)
(*                                                                         *)
(* A task is a place runs start from: the scheduler of a process, or the   *)
(* manual request a process is answering.  The token a run writes into the *)
(* key is the task itself: a key left behind keeps its task from           *)
(* acquiring, as a foreign token would, and no task reads it again.        *)
(***************************************************************************)
EXTENDS Naturals, FiniteSets

CONSTANTS
  Procs,        \* API processes
  Triggers,     \* what starts runs: "schedule", "manual"
  Nobody,       \* no token, no holder
  MaxLapses,    \* bound: times Redis loses a live run's lock
  MaxStops      \* bound: processes that crash and schedulers that are stopped

Tasks == Procs \X Triggers
Home(t) == t[1]
Trigger(t) == t[2]

ASSUME ProcsAssumption == IsFiniteSet(Procs)
ASSUME TriggersAssumption == Triggers \subseteq {"schedule", "manual"}
ASSUME NobodyAssumption == Nobody \notin Tasks
ASSUME BudgetAssumption == MaxLapses \in Nat /\ MaxStops \in Nat

VARIABLES
  phase,        \* per task: where PipelineCoordinator.run is
  held,         \* per task: held_redis, it has a key to release
  local,        \* per process: the task that holds the asyncio lock
  key,          \* the token in Redis
  lapses,       \* history: runs that lost their key, or started without one
  stops

lockVars == <<phase, held, local, key, lapses, stops>>

Phases == {"idle", "acquire", "run", "release", "drop"}

LockTypeOK ==
  /\ phase \in [Tasks -> Phases]
  /\ held \in [Tasks -> BOOLEAN]
  /\ local \in [Procs -> Tasks \union {Nobody}]
  /\ key \in Tasks \union {Nobody}
  /\ lapses \in 0..MaxLapses
  /\ stops \in 0..MaxStops

LockInit ==
  /\ phase = [t \in Tasks |-> "idle"]
  /\ held = [t \in Tasks |-> FALSE]
  /\ local = [p \in Procs |-> Nobody]
  /\ key = Nobody
  /\ lapses = 0
  /\ stops = 0

Running == {t \in Tasks : phase[t] = "run"}
Active == {t \in Tasks : phase[t] \in {"run", "release", "drop"}}

-----------------------------------------------------------------------------
(* One call of PipelineCoordinator.run.                                    *)

Goto(t, next) ==
  /\ phase' = [phase EXCEPT ![t] = next]
  /\ UNCHANGED <<local, stops>>

(* The call returns or raises: `async with self._lock` ends.               *)
Leave(t) ==
  /\ phase' = [phase EXCEPT ![t] = "idle"]
  /\ held' = [held EXCEPT ![t] = FALSE]
  /\ local' = [local EXCEPT ![Home(t)] = Nobody]

(* A taken asyncio lock raises PipelineBusyError, which changes nothing.   *)
Begin(t) ==
  /\ phase[t] = "idle"
  /\ local[Home(t)] = Nobody
  /\ local' = [local EXCEPT ![Home(t)] = t]
  /\ phase' = [phase EXCEPT ![t] = "acquire"]
  /\ UNCHANGED <<held, key, lapses, stops>>

(* Mutant of Acquire: SET without NX. *)
AcquireWithoutNX(t) ==
  /\ phase[t] = "acquire"
  /\ key' = t
  /\ held' = [held EXCEPT ![t] = TRUE]
  /\ Goto(t, "run")
  /\ UNCHANGED lapses

Acquire(t) ==
  /\ phase[t] = "acquire"
  /\ key = Nobody
  /\ key' = t
  /\ held' = [held EXCEPT ![t] = TRUE]
  /\ Goto(t, "run")
  /\ UNCHANGED lapses

Skip(t) ==
  /\ phase[t] = "acquire"
  /\ key # Nobody
  /\ Leave(t)
  /\ UNCHANGED <<key, lapses, stops>>

(* The SET raises, done or not: the run goes ahead and releases nothing.   *)
RunWithoutLock(t) ==
  /\ phase[t] = "acquire"
  /\ lapses < MaxLapses
  /\ \/ UNCHANGED key
     \/ key = Nobody /\ key' = t
  /\ lapses' = lapses + 1
  /\ Goto(t, "run")
  /\ UNCHANGED held

(* run_once returns; it never raises.                                      *)
EndRun(t) ==
  /\ phase[t] = "run"
  /\ \/ held[t] /\ Goto(t, "release") /\ UNCHANGED held
     \/ ~held[t] /\ Leave(t) /\ UNCHANGED stops
  /\ UNCHANGED <<key, lapses>>

(* _release: GET ...                                                       *)
FindOwnKey(t) ==
  /\ phase[t] = "release"
  /\ key = t
  /\ Goto(t, "drop")
  /\ UNCHANGED <<held, key, lapses>>

FindOtherKey(t) ==
  /\ phase[t] = "release"
  /\ key # t
  /\ Leave(t)
  /\ UNCHANGED <<key, lapses, stops>>

(* ... then DELETE, whatever the key holds by now.                         *)
Drop(t) ==
  /\ phase[t] = "drop"
  /\ key' = Nobody
  /\ Leave(t)
  /\ UNCHANGED <<lapses, stops>>

(* Either call may raise: logged, and the expiry is left to free the key.  *)
ReleaseFails(t) ==
  /\ phase[t] \in {"release", "drop"}
  /\ Leave(t)
  /\ UNCHANGED <<key, lapses, stops>>

-----------------------------------------------------------------------------
(* Redis, crashes and shutdown.                                            *)

(* Mutant of Expire: SET without an expiry. *)
NeverExpires ==
  /\ key \in Tasks
  /\ FALSE
  /\ UNCHANGED lockVars

(* The key of a run that is gone expires ...                               *)
Expire ==
  /\ key \in Tasks
  /\ key \notin Active \/ ~held[key]
  /\ key' = Nobody
  /\ UNCHANGED <<phase, held, local, lapses, stops>>

(* ... and so does that of a run longer than lock_ttl_seconds.             *)
Lapse ==
  /\ key \in Active
  /\ held[key]
  /\ lapses < MaxLapses
  /\ key' = Nobody
  /\ lapses' = lapses + 1
  /\ UNCHANGED <<phase, held, local, stops>>

Crash(p) ==
  /\ stops < MaxStops
  /\ \E t \in Tasks : Home(t) = p /\ phase[t] # "idle"
  /\ phase' = [t \in Tasks |-> IF Home(t) = p THEN "idle" ELSE phase[t]]
  /\ held' = [t \in Tasks |-> IF Home(t) = p THEN FALSE ELSE held[t]]
  /\ local' = [local EXCEPT ![p] = Nobody]
  /\ stops' = stops + 1
  /\ UNCHANGED <<key, lapses>>

(* stop() cancels the scheduler's task at whatever it awaits.  A run still *)
(* releases its key; a cancelled SET may have been done, a cancelled       *)
(* _release leaves the key behind.                                         *)
CancelRun(t) ==
  /\ phase[t] = "run"
  /\ stops < MaxStops
  /\ stops' = stops + 1
  /\ phase' = [phase EXCEPT ![t] = IF held[t] THEN "release" ELSE "idle"]
  /\ local' = IF held[t] THEN local ELSE [local EXCEPT ![Home(t)] = Nobody]
  /\ UNCHANGED <<held, key, lapses>>

CancelCall(t) ==
  /\ phase[t] \in {"acquire", "release", "drop"}
  /\ stops < MaxStops
  /\ stops' = stops + 1
  /\ \/ UNCHANGED key
     \/ phase[t] = "acquire" /\ key = Nobody /\ key' = t
     \/ phase[t] = "drop" /\ key' = Nobody
  /\ Leave(t)
  /\ UNCHANGED lapses

-----------------------------------------------------------------------------
Call(t) ==
  \/ Acquire(t)
  \/ Skip(t)
  \/ RunWithoutLock(t)
  \/ FindOwnKey(t)
  \/ FindOtherKey(t)
  \/ Drop(t)
  \/ ReleaseFails(t)

Cancel(t) == Trigger(t) = "schedule" /\ (CancelRun(t) \/ CancelCall(t))

LockNext ==
  \/ \E t \in Tasks : Begin(t) \/ Call(t) \/ EndRun(t) \/ Cancel(t)
  \/ \E p \in Procs : Crash(p)
  \/ Expire
  \/ Lapse

LockSpec == LockInit /\ [][LockNext]_lockVars

-----------------------------------------------------------------------------
(* Properties.                                                             *)

(* Each lost lock lets at most one more run in beside the one the others   *)
(* wait for, although a run whose key lapsed deletes its successor's key   *)
(* when the lapse falls between its GET and its DELETE.  Without a lapse   *)
(* there is one run at a time, over all processes (PipelineCoordinator).   *)
RunsBounded == Cardinality(Running) <= lapses + 1
=============================================================================
