# ITBIS in TLA+

TLA+ models of the Insider Threat Behavioral Intelligence System: the Windows
endpoint agent under `src/agent` and the FastAPI backend under `src/backend`.
Each module is translated from the code; `PROJECT.json` maps every definition to
the lines it stands for. TLC checks the properties on small instances, TLAPS
proves the central ones for every value of the constants.

Run a check with `tlc -workers 2 -config <run>.cfg <MC module>.tla`, a proof with
`tlapm <module>_proofs.tla`.

## 1. The system

| Component | State it keeps | Operations | Talks to |
|---|---|---|---|
| Agent collectors (`collectors/`, `normalizer.py`) | last-seen markers in memory | poll a Windows facility, normalise, enqueue | agent queue |
| Agent queue (`queue.py`) | SQLite table `events`: status, attempts, next_attempt_at; unique idempotency key | enqueue, peek, mark_sent / mark_failed / mark_dead, revive_dead, trim_sent | uploader thread, `--requeue-dead` process |
| Agent uploader and runtime (`uploader.py`, `runtime.py`, `__main__.py`) | one tick's batch, threads, stop event | tick: peek, POST, mark; signals, shutdown, maintenance command | ingest endpoint |
| Ingest endpoint (`activity/presentation/agent_router.py`) | `canonical_events` in MongoDB, a duplicate cache per request | authenticate device, insert event by event, answer per event | devices, employees |
| Bulk ingestion (`activity/application`) | `ingestion_jobs` in PostgreSQL, events in MongoDB | parse a file in chunks, count, finish or fail the job | MongoDB, SQL |
| Features and baselines (`behavioral/`) | `behavioral_features` (MongoDB), `behavioral_baselines` (SQL, one row a person) | generate features, build baseline, profile view | pipeline, anomaly service |
| Anomaly models (`anomaly/`) | model artefact, `anomaly_results` | score feature rows against a baseline, upsert | pipeline, risk |
| Detection rules (`detection/`) | findings, keyed by person, day and rule | run detectors over a timeline, replace a window's findings | pipeline, risk |
| Risk scoring (`risk/`) | one score per person and day | read signals, score, upsert | findings, results, acknowledged alerts |
| Alert generation (`alerts/application/risk_alert_service.py`) | `alerts`, unique idempotency key | upsert, refresh the content of an OPEN alert | pipeline |
| Pipeline, coordinator, scheduler (`ueba/`) | asyncio lock, Redis key, status | run the stages over a trailing window, on an interval or on request | all stages, Redis |
| Alerts lifecycle (`alerts/`) | status, assignee, investigation of an alert | acknowledge, assign, change status, link | analysts, investigations, verdicts |
| Investigations (`investigations/`) | one document per case: status, assignee, linked alerts, notes, timeline | create, change status, assign, add and remove alerts | alerts |
| Analyst feedback (`feedback/`) | `analyst_verdicts` (SQL), one row in force per alert | record, revise, history | alerts |
| Identity (`identity/`) | users, refresh tokens in Redis, device credentials | login, refresh, logout, device enrolment, rotation and revocation | every endpoint |
| User administration, access requests (`users/`) | users and roles, access requests | create, disable, enable, set roles, submit, approve, reject | identity |
| Employee directory (`employees/`) | employees, links of accounts and devices (SQL); a resolver's cache per process | create, update, link, unlink, assign, import, resolve | ingest, detection |
| Dashboards, reporting, frontend | none of their own | read-only aggregation and display | everything |

Processes: an agent has one thread per collector and one uploader thread, and a
maintenance command may open the same SQLite file from another process. The
backend is one or more API processes, each an asyncio event loop in which
requests interleave at every `await`; each has a scheduler task. There are no
multi-document MongoDB transactions; a request has one SQL transaction, which
`get_db` commits after the handler.

### What is hard

- **Delivery** crosses a crash, a timeout that says nothing, a batch answered as a
  whole, and two processes on one queue. Correct: an event ticked off was handled,
  a mark hits the row that was read, dead letters have a cause, duplicates a fault.
- **Alerts and investigations** are read, changed in memory and written back by
  `_id`, with no version check, by requests that overlap, and a link lives in two
  documents. Correct: lifecycles are followed and the two sides of a link agree.
- **Verdicts** combine an SQL transaction, row locks, a partial unique index and a
  MongoDB update that is not in the transaction. Correct: one verdict in force,
  an unbroken history, decisive verdicts close the alert, no deadlock.
- **The pipeline** recomputes a sliding window through five stores without a
  transaction over them, under a lock that expires. Correct: runs do not overlap
  unless a lock was lost, an undisturbed run puts every store right, the stores
  settle, and no day is judged by a baseline built from it.
- **Accounts and sessions** are guarded by checks that another transaction can
  overtake, and spread over SQL and Redis. Correct: an administrator remains, a
  disabled account keeps no session, a disabled account is enabled on purpose, a
  request is decided once.
- **Collectors** keep what they saw last in memory and lose it in a restart; a drive,
  a table or a log changes between two polls and may not be readable. Correct:
  nothing that a poll could see is missed, nothing old is reported as new, and an
  event names who did it.
- **Bulk ingestion and the directory**: a job is a row in SQL and its events are in
  MongoDB, stamped with an employee by a resolver that caches. Correct: the books
  agree, a file is read for what it is, a stamp was true when it was looked up.
- **Detection and scoring** replay a sliding history. Correct: when a run came does
  not change what it finds, scores do not feed on their own alerts, an alert shows
  the day as scored last.
- **Features, results, models**: windows that touch, late events, several datasets
  with the same keys, an artefact replaced under running processes. Correct: a row
  tells its window's events, busy days are judged and empty ones not, a level agrees
  with the verdict, a restart serves the newest model.

`PROJECT.json` lists the hazards line by line, with the property aimed at each or
the reason there is none.

## 2. Modules

| Module | Models | Extends / instantiates |
|---|---|---|
| `ReliableDelivery` | what delivery promises, abstractly: unseen, held, settled, parked | - |
| `EventDelivery` | agent queue, uploader, runtime, `--requeue-dead`, ingest handler | `ReliableDelivery` (refinement mapping `PhaseOf`) |
| `AlertDesk` | the alert document and the steps of one request or pipeline write on it | - |
| `Casework` | investigations and the link between both documents | `AlertDesk` |
| `Casework_proofs` | theorems on it | `Casework` |
| `Verdicts` | analyst verdicts, their transactions, and the alert they move | `AlertDesk` |
| `Verdicts_proofs` | theorems on it | `Verdicts` |
| `RunLock` | `PipelineCoordinator`: asyncio lock, Redis key, stop, crash | - |
| `Pipeline` | the stages of a run and the stores, the world around them | `RunLock` |
| `Pipeline_proofs` | theorems on the lock, on runs and stores, on baselines | `Pipeline` |
| `SqlRows` | rows, transactions, the copy that is read again before it is written | - |
| `Accounts` | users, roles, access requests, registration, own-row saves | `SqlRows` |
| `Sessions` | refresh tokens in Redis | `Accounts` |
| `DeviceKeys` | credentials of agents | `Accounts` |
| `Identity` | the three together | `Sessions`, `DeviceKeys` |
| `Identity_proofs` | theorems on it: rows, locks, the last administrator, decisions, sessions | `Identity` |
| `FolderWatch` | snapshots of a folder and their differences | - |
| `Normaliser` | raw event to queued event: keys, actors, what is dropped | - |
| `Collectors` | one poll of each collector, as a function | `FolderWatch`, `Normaliser` |
| `Sensors` | a machine, a collector that polls it, the queue | `Collectors` |
| `Agent_proofs` | theorems on the queue and its uploader, and on the collectors | `EventDelivery`, `Sensors` |
| `Parsers` | which CSV parser takes a file, what it makes of a row | - |
| `Directory` | employees, links, import, the resolver's caches | `SqlRows` |
| `Intake` | uploads: jobs, chunks, events, errors, while the directory changes | `Directory`, `Parsers` |
| `Intake_proofs` | theorems on it: links, answers and stamps, books, rows | `Intake` |
| `Activity` | a day as a bag of events, the profile learned from days | - |
| `Detectors` | the category detectors | `Activity` |
| `Scoring` | a risk score from signals | - |
| `Screening` | runs over one person's days: findings, scores, alerts | `Detectors`, `Scoring` |
| `Screening_proofs` | theorems on it: replay, scores, alerts | `Screening` |
| `Features` | what the events of a window come to, windows of a range, baselines | - |
| `Forest` | artefact, prepared input, risk of a decision score, explanation | `Features` |
| `Behaviour` | generation, profile, detection, training, export, side by side | `Forest` |
| `Behaviour_proofs` | theorems on it | `Behaviour` |
| `MCEventDelivery`, `MCCasework`, `MCVerdicts`, `MCPipeline`, `MCIdentity`, `MCSensors`, `MCIntake`, `MCScreening`, `MCBehaviour` | instances for TLC | |

`RunLock`, `Pipeline` and `Screening` share the pipeline: `Pipeline` takes a run apart
into its writes and abstracts what is computed to a version; `Screening` takes a run
as one step and computes it.

### EventDelivery

`status`, `attempts`, `waiting` are the columns of a row (`waiting`: the row's
`next_attempt_at` is in the future). `pc`, `batch`, `snapshot`, `current` are the
locals of `Uploader.tick`; they are lost with the process. `handler[s]` is a
request the server still works on, whether or not the agent still waits for it.
`copies` counts documents per event, `refused` the events an answer called
rejected. `failures`, `answer` and `cause` are history variables: transient failures of an
event since it was queued or revived, how the server refused the awaited request, and of a
row marked dead by a refusal which one it was and of which batch.

`Peek`, `Send`, `NoAnswer`, `Answer` and the four marks follow `tick` and
`_send_once`; the retry branch is two steps, `MarkExhausted` then `MarkRetryable`,
because the code does them in two transactions. `Store`, `StoreRaises` and
`Acknowledge` are one insert, one failed insert and the answer. `StopSignal` and
`Exit` follow the shutdown, which closes client and queue under a tick in
progress; `Crash` can fall between any two steps; `ReviveDead` is the other
process. A request may be refused as a whole in two ways (`Refuse`): by the schema, for an
event type it does not know (`Unprocessable`; the handler's own fallback to UNKNOWN,
`agent_router.py:120-125`, comes after pydantic's 422 and is never reached), or with any other 4xx from in front
of the handler, a 404 or a 413 (`AnsweredElsewhere`), which `uploader.py:219-222` takes for permanent and
dead-letters the batch as it does for a 422. A request whose answer the agent no longer awaits still runs to its end
on the server.

`ReliableDelivery` is the promise: an event moves from unseen to held, from held
to settled only when it is stored or declined, or to parked and back.

### AlertDesk, Casework, Verdicts

A request is `ReadAlert` (or `ReadCase`), a change of the copy, and a write, each a
step. The status, assignee and case of the copy are written back whole, as
`MongoAlertRepository.update` does. `stale` holds the workers whose copy is older
than the document; it and `contended` and `disturbed` are history variables that
let a property say "unless handlers overlapped". The pipeline's `RaiseNew` and
`RaiseAgain` / `UpdateContent` write assessments only.

`Casework` adds the investigation documents. Adding and removing an alert write
the investigation first and the alert second, and `HandlerFails` or `CutShort`
may end a request between the two. `Nameable` alerts include one that does not
exist: `add_alert` accepts any id.

`Verdicts` gives every worker a transaction: `LookUp` reads the verdict in force,
`Retire` takes its row lock, `Insert` meets the partial unique index and waits or
raises, `MoveStatus` changes the alert in MongoDB, `Commit` is `get_db`. Rows a
transaction has written are its own until then. Waiting follows PostgreSQL's READ
COMMITTED rules, which the code relies on and does not contain; these two
definitions are marked external.

### RunLock and Pipeline

A task is a place runs start from: the scheduler of a process, or the manual
request it is answering. The asyncio lock is `local`, the Redis key is `key`;
`_release` is a GET (`FindOwnKey`) and a DELETE (`Drop`) with room between them. A
key whose run is gone expires freely; the key of a live run may lapse, which is
counted in `lapses`, and so is a run that starts without a key because the SET
raised. A task's token stands for each of its runs: a key it left behind stops
it as any other would (NX), and no run reads a key again after it ends.

`Pipeline` follows one person. The events of a day are a version number, and every
store holds, per day, the version its content was computed from, so "the stores
agree with the events" is equality. Every awaited write of the stages is a step:
feature rows, anomaly results, findings, scores and alerts one by one, day by day.
The baseline is the moment it reaches up to, in half-days, so that "this baseline
has seen part of day *d*" is an inequality. A scheduled run commits its baseline
when the stages end; a manual run commits in `get_db`, after the lock has been
released (`CommitLate`). A stage that raises rolls the scheduler's session back
and leaves the documents as they are; `run_once` swallows the exception, so a
manual request may still commit. `ViewProfile` is `GET
/behavioral/profile/{user_id}`, which builds and saves a baseline up to now.

Left out of `Pipeline`: several persons (their stages touch disjoint documents;
the loops over them are one longer sequence), the model's own vote for an alert and
the signals of older alerts (each would add a second source to `findings`), and
the two steps of an alert refresh, which `AlertDesk` has. An OPEN alert whose
finding a later run withdraws is not refreshed by `raise_for`; `Fresh` asks for
the alert only where there is a finding, as the code does.

### SqlRows, Accounts, Sessions, DeviceKeys, Identity

`row` holds the committed rows, `dirty[w]` what the transaction of handler `w` has
written, `job[w]` the request it serves: the copies it holds and the steps it has
still to take, an ordered list made when the request begins. A repository gives out
a copy of a row and forgets the row (the session's identity map is weak), so saving
is two steps: `Reread`, then `Write` of the columns in which copy and row differ.
`Count` is `count_active_admins`; `Commit` is `get_db`. `late` and `behind` are history:
handlers whose copy, or whose check, another commit has overtaken.

`Accounts` has one action per method of `UserAdminService` and
`AccessRequestService`, registration, and sign-in and profile editing, which save the
caller's row. A request that is refused before it writes is no step. `Sessions` keeps
Redis as the code does, one key per token and one set per user: `Issue`, `Spend`,
`Revoked`, `ListTokens` / `DropTokens` (`revoke_all_for_user`), `RevokeFails` when Redis is
away. `outlived` marks the tokens a revocation could not know of: issued by a request
that checked the account before it was disabled, or with Redis away.

### FolderWatch, Normaliser, Collectors, Sensors

A poll is an operator from what the collector remembers and what it finds to what it
remembers then and the raw events it makes: `_poll` of each collector. The raw events are a
set; `Precedes` says which of two is handed on first, and an insert that fails (`Handle`)
leaves a set closed under it in the queue. `FolderWatch` is `_snapshot.py`: a path is a number in walking order,
size and time of change one value, and a snapshot may be truncated or miss a folder.
`Normaliser` has one operator per mapping method; an account name keeps whose it is, how it was written
and in which case, because the key and the actor depend on that.

`Sensors` puts a collector on a machine on which things happen (`DriveDeed`, `WebDeed`,
`TcpDeed`, `LogDeed`, `WmiDeed`), with failing reads, a log that may not be read, a
restart of the agent (`AgentRestarts`), and the queue with its unique key. Its failures are counted as
`hitches`. Collectors run in threads of their own and
share only the queue, where the prefix of their keys keeps them apart; a behaviour has
one collector, any of them. `since`, `told`, `due` and `stirred` are history: what was done since the first
poll or kept from view, what a reader of the first snapshot and of the events knows, what was there to report;
`told` of an endpoint or a process is who answered for it.

Who owns a process is asked process by process, in every poll (`Replies`, `ResolvedOwner`, after `_resolve_owner`,
`process.py:140-162`): it answers itself, or its parent does for it, or nobody; the identifier is a second question
that may fail by itself; the kernel's processes are not asked (`network.py:160`, `:238-240`). So a person's connection or process
may be credited to the account of a service that started it, and dropped (`TakenForService`; a dropped connection's endpoint stays
silent for the repeat window), and what a service did may be reported under the name of its parent's person.

A download is taken out of `since` when the collector cannot tell it from a file it has dealt with
(`Known`): `diff_snapshots` pairs a file gone with one come by their size and time, and a file that is
put back, or goes by another name, is no new download to it.

### Parsers, Directory, Intake

`Detected` is `detect_parser`: the first parser in its order whose columns are there. A
row is a function from column names to cells; an activity or an address is a value that may be one of `Uploads`, or contain
the word for an upload or a download (`SaysUpload`, `SaysDownload`). `Directory` has each method of
`DirectoryService` with its transaction, and the resolver as `lookup` (asked, answering)
and `cache` per process; clearing the cache (`forget`) comes before the commit, as in
the code. `Intake` is the uploads, several at a time: `StartUpload`, per chunk `LookUp` and
`Answering`, `InsertChunk`, `CommitUpload` or `UploadFails`. The job row exists for others
only after the commit; the events are in MongoDB at once.

### Activity, Detectors, Scoring, Screening

`Activity` is the daily profile (`DailyActivity`, `ActivityProfile`): averages with an
exponential weight, known machines and hours, in thousandths rounded down. `Detectors`
has one operator per detector, with its thresholds and severities, giving the
severities of its reasons. `Scoring` is `score_employee` in tenths of a point: decay by age
and half-life, combination, weights, priority, bands and the top signals.

In `Screening` a day holds deeds, each a bag of events. `Run` renews the baseline if it
ends before the window (`Refreshed`), has the model judge every day of the window that has events, anew
in each run (`LivePipelineStages.detect`), then comes detection over the window with its history,
scoring of every day of the window, and `raise_for`. The trained model is the constant
`Verdict(deeds, learned)`: any function of what was done on a day and of the days its
baseline was learned from. `ViewProfile` stores a baseline up to now; `DetectAgain` is `POST
/anomaly/detect` for a day, by a feature row made earlier, which may lack later events;
`Generate` is the backfill of `AlertGenerationService`. The world
adds days and late events, acts on alerts, opens investigations and changes the
directory. `stale` holds the days whose causes changed since the last run; a day of the
window that is not stale is `Settled`, and the four properties are about those. The model is not
trained again here (`Behaviour` does that), a stage that fails is in `Pipeline`, and requests
for other datasets or windows are in `Behaviour`.

### Features, Forest, Behaviour

Time is counted in half-days, so that a range may begin inside a day and a window at
midnight. `Features` is the aggregator and the feature calculation, for the features
the detectors and the forest read; a mean and a deviation are kept as count, sum and
sum of squares, so that comparing is exact. `Forest` is everything around
scikit-learn: the checks of `ModelService`, the columns of the input, `risk_scoring` with
its calibrations old and new, the explanation. The forest itself may return any score.

`Behaviour` is five endpoints as steps of workers in processes: `Discover`, `MakeRows`,
`UpsertRow` and `Generated`; `Profile`; `ListUsers`, `ListForUser`, `Refetch`, `Score`, `Store`,
`NextUser` and `Answer`; `ReadTraining` and `Dump`; `Export`. The stores have the keys the
code gives them: a feature row by user, window, start and dataset, a result by user,
window and start. `served` is the artefact a process has cached; only `Restart` empties
it. A dump can be cut short, which leaves a file that is not whole.

## 3. Runs

Each takes between a second and two and a half minutes with two workers. The largest,
`sensors_safety`, visits 2.4 million states; `verdict_safety`, `delivery_safety` and `intake_safety`
visit between one and one and a half million each.

| Run | Checks | Instance |
|---|---|---|
| `delivery_safety` | `TypeOK`, `NoSilentLoss`, `InFlightRowsUntouched`, `DeadOnlyForCause`, `DuplicatesNeedFaults`, `KeepsPromise` | 3 events (the third unparseable), batches of 2, 1 retry, 2 server slots, 3 faults, 1 operator action |
| `delivery_liveness` | `EventuallySettled` | 2 events, batches of 1, 2 slots, 2 faults, 2 operator actions |
| `casework_safety` | `PointsWhereListed`, `LegalUnlessStale`, `CaseLegalUnlessStale` | 2 alert ids (one without a document), 2 investigations, 2 workers, 5 requests, 1 fault |
| `verdict_safety` | `OneInForce`, `LinearHistory`, `VerdictCloses`, `NoCircle` | 1 alert, 3 workers, 4 requests, 1 fault |
| `pipeline_safety` | `RunsBounded`, `CleanRunIsFresh` | 2 processes' schedulers, window of 2 days, 2 batches of events, 1 lost lock, 1 failing stage |
| `pipeline_liveness` | `YardstickUnlessViewed`, `Settles` | 1 process with both triggers, window of 1 day and a day that passes, 2 batches, 1 view, 1 stop or crash, 1 failing stage |
| `identity_safety` | `AdminRemains`, `DisabledHasNoSession`, `EnabledOnPurpose`, `DecidedOnce` | 3 persons, 2 of them administrators, 2 roles, 2 handlers, 2 tokens, 1 device, 3 requests |
| `identity_lockout` (violation) | `LastAdminStays` | 2 persons, 1 administrator, 1 handler, 5 requests |
| `sensors_safety` | `DriveAccounted`, `NothingMissed`, `OnlyNewActivity`, `CreditedToActor` | each of 5 kinds of collector, 3 deeds, 5 polls, 1 hitch, 3 files in view of a drive with 4 paths |
| `intake_safety` | `JobsReconcile`, `RowsRead`, `StampsCurrent`, `OwnChangesSeen`, `LinksMoveByUnlink` | 12 files, chunks of 2, 2 processes, 2 uploaders in one of them, 2 directory handlers, answers that a tick outlives |
| `screening_safety` | `WindowMatchesReplay`, `OpenAlertCurrent`, `CauseRaisesAlert`, `OnlyCausesChangeScores` | 4 days, window of 2 and 1 day of history, a baseline of up to 2 days with 1 active day at least, 4 deeds, 1 change of the world |
| `behaviour_safety` | `RowsTellEvents`, `BusyRowsJudged`, `EmptyDaysSkipped`, `LevelFollowsVerdict`, `RestartServesTrained` | any 3 of 8 requests, 2 processes with a worker each, 3 events, 3 artefacts to start with, scores below, at and above the boundary |

Why the bounds are enough. Two overlapping requests are what a stale copy needs
and two slots what a late answer racing a retry needs. Three events with batches
of two put an unparseable event in a batch with a good one, alone, and behind
one. One retry reaches the retry limit and stays below it. Two investigations are
what a link pointing elsewhere needs. Three analysts make a queue behind one row
lock. A window of two days has a day before the one being written; two batches
let the second withdraw a finding the first gave; a version in `Spiky` is a
finding and one outside it is none. One lost lock gives two overlapping runs, and
the theorem covers the rest. Bounds on faults, requests, views and days limit how
often the environment acts, never what the code does. Three requests
are what it takes to disable an administrator while another acts and a third is
under way; the access request left pending that locks everybody out takes five, one
after the other, and needs one handler. Five polls let a file be seen, settle, change,
settle again and go, and three deeds put two changes between polls and one after. The
twelve files reach each parser, a web log that says upload in its activity or its address, one that says download, a misleading header, a column alias, a row that is not
allowed and a chunk that is full, and one that is all errors. A behaviour
uploads one of them: the logon file once, with two changes of the directory; a file
whose chunks ask for the same account twice, by both uploaders, with one; the others
twice with none, as they are there for their parsers. With `Ttl` 0 and one tick
an answer is young, then too old. Four days
with a window of two and one of history let a day leave both, and let a baseline end before the window twice.
The model of the instance tells of a visit to a colleague's machine that the baseline has not seen, so
a renewed baseline changes results; without `NewYardstick`, or without `Forgotten`, `OnlyCausesChangeScores` is violated. Three requests of
`Behaviour` are a generation, a detection and one that overlaps either. Symmetry is used only in
runs without liveness, over slots, workers, tokens, investigations, assessments or
processes, which no definition tells apart. The minimum days the detectors ask of a
profile are lowered to one, and the weight of a day is the code's.

`CHECK_DEADLOCK FALSE` where the bounds let everything come to rest: all events
settled, all requests answered, no days or events left.

Every passing property is broken by a mutant of the code's own definition
(`PROJECT.json`, "mutants"): a timeout taken for success, a whole-document write, an
unchecked insert, a lock taken without NX, a key without expiry, and so on.

### What the violation shows

`identity_lockout` contradicts "the last active administrator can't be disabled or
demoted" (`users/application/user_admin_service.py:11`). Registration leaves an account
inactive with a pending access request; an administrator may enable and promote that
account without deciding the request; when the request is approved, by the new
administrator too, the requested roles replace his. If he was the last one, none is
left. `approve` (`access_request_service.py:156`) does not count administrators.
`AdminRemains` says that this and overlapping transactions are the only ways.

### What the models say of other promises

These came up while translating the code; the properties that pass name them as their
exceptions, and no run is kept for each.

- An insert that raises is answered "rejected" inside a 200, and the agent marks the
  whole batch sent on any 200 (`NoSilentLoss` has "or the server said so").
- The handler's comments say of an event type it does not know "fall back to UNKNOWN" and "accept but flag"
  (`agent_router.py:120`, `:124`). That branch is never reached: the request's schema types the field as an enumeration
  (`shared/schemas/canonical_event.py:106`), so pydantic answers 422 before the handler runs, and the agent dead-letters the
  whole batch at once, the good events beside the unknown one included (`DeadOnlyForCause` has it as a cause). A newer
  agent before an older server is what it takes.
- `src/agent/README.md:152-154` lists 400 and 422 as the answers that dead-letter a batch at once;
  `uploader.py:219-222` does so for any other 4xx too (`DeadOnlyForCause` has it as a cause).
- A person's process or connection is dropped when it cannot be asked for its owner and its parent is a service's
  (`NothingMissed` leaves these out by name), and a service's is reported, under the name of a person, when its parent is
  a person's (`OnlyNewActivity`).
- The score of a day on which nothing changed may change: the window moves past the baseline, a new
  one is built, and the next run judges the day again by it (`OnlyCausesChangeScores` has `NewYardstick`).
- The duplicate cache is built per request, so a batch sent again after a lost answer
  is stored twice (`DuplicatesNeedFaults`).
- Requests that overlap take an alert out of RESOLVED (`LegalUnlessStale`); adding an
  alert to a second investigation leaves the first listing it (`PointsWhereListed` looks
  from the alert).
- A colleague who closes the alert between a verdict's two reads makes
  `change_status` raise, and the verdict is rolled back.
- A profile view stores a baseline up to now; the pipeline takes it for fresh and judges
  the same days by it (`YardstickUnlessViewed`).
- A save of a row that was read before the account was disabled enables it again
  (`EnabledOnPurpose`).
- "A run of mild days never adds up into an alert by itself" (`risk/application/scoring.py:25`)
  holds of the day's strength and not of the weighted score, which may be the higher
  of the two.
- A high day may come without an alert: five older signals hide a result of the model
  (`CauseRaisesAlert`).
- A cache cleared during a lookup leaves the event of a linked account unstamped, and a
  lookup between clearing and commit caches the old answer again (`StampsCurrent`,
  `OwnChangesSeen`).
- A lookup that answers late puts an answer of its own age over a younger one, and the cache is
  read once more without a look at its age, so an upload can be stamped with an answer
  older than 60 seconds when another one was slow (`StampsCurrent` counts from the oldest
  lookup under way).
- A device log without `file_tree` is read as a logon log (`RowsRead`).
- `POST /anomaly/train` says that the artefact "will be loaded automatically"
  (`anomaly/presentation/router.py:268`); a process that has one cached keeps it until it
  is restarted (`RestartServesTrained`).
- A rolling row sees only the events of the range it was asked for (`RowsTellEvents`); a
  result's key has no dataset, so the row that is judged need not be the one listed, and
  datasets overwrite each other's results (`EmptyDaysSkipped`).
- `max_pending_events` (`config.py:68`) is read nowhere; a `batch_size` above the
  endpoint's 1000 turns every full batch into a 422.

### Fairness

- `delivery_liveness`: weak fairness of the uploader's own steps (its thread loops
  until stopped), of the backoff of each row (time passes), of the server's
  progress on each request, of the shutdown once asked for, and of being started
  again. The last is an assumption on the user's machine, not the code: the agent
  has no service wrapper yet (`src/agent/README.md:229`), and an agent that is never
  started again delivers nothing. Nothing is assumed of collectors, operators or faults.
  `EventuallySettled` asks for a credential that is accepted in the end.
- `pipeline_liveness`: weak fairness of each run's next step, of its commit, of the
  expiry of a dead run's key and of the scheduler's starting a run
  (`PipelineScheduler._loop` does so every interval, whatever the last run did).
  Manual runs, events, views and days need not come. Events, failures, stops and
  lost locks are finitely many by their bounds; what they leave behind is repaired.

## 4. Proofs

Assumptions are the named `ASSUME`s of the modules: finite sets of processes,
natural bounds, `Nobody` not a task, `NoSlot` not a slot, the keys of the three tables apart,
an administrator and no request without an account at the start, moments of events and of
requested ranges that are integers (half-days), a rolling window and lookbacks of natural length, a
window, a history and a baseline of a day at least, chunks of at least one
row, every handler and uploader in a process, links that are somebody's at the start (a foreign
key). That no more than 14 days pass (`FadeAssumption`) is the length of the tables of decay in
`Scoring`; no proof uses it. That an imported file names nobody twice is a limit of `Directory`, which keeps one
copy per row. `Sensors` has more of them, as its constants describe a machine: numbered paths,
finitely many; what stands for "no snapshot", "no memory" and "no name" unlike a snapshot, a memory or a name, the
kernel's too (`NothingAssumption`, `OwnersAssumption`); and, in the records, processes and owners that may turn up, whether a *person* is behind one, which
is by definition what its account, its logon type and its session say (`OwnersAssumption`,
`RecordsAssumption`, `LaunchesAssumption`: a record that shows a person carries that person's name, one account has one SID).
All are checked by TLC in the passing runs.

**Agent_proofs, the queue and the uploader.** For any number of events, slots, faults and retries:
`TypeCorrect`, `NothingLostSilently`, `MarksFindTheirRows`, `DeadLettersHaveCause`,
`RetryBudgetHonest` (a row is charged no more than it failed), `SentForGood` (a sent row
stays sent), `CopiesArePaid` (`DuplicatesNeedFaults`) and `Implements` (`Spec =>
KeepsPromise`). None of the invariants
is inductive. `IInv` adds what ties the three machines together: the
rows of a batch are pending with the attempts that were read (`TickInv`; a tick at
`retrying` has already dead-lettered the exhausted ones); every event
of an awaited batch is handled or still to do, and of an acknowledged one handled
(`LossInv`); attempts are within the failures that happened, and the refusal of an awaited request has its cause:
an event of that request's own batch the schema does not know, or an answer from in front of the handler (`CauseInv`);
the server knows only queued events.
`CopiesArePaid` counts what may become a copy: the documents of an event, the requests
that carry it and have not come to it, one if the agent may still send it and one while it
is stopping are at most the faults that happened plus one (`Paid`); each fault pays for the copy it makes
possible. One lemma per part, `TickStep`, `LossStep`, `CauseStep`, `ServerStep`, goes through
the actions. `Implements` uses `IInv` in each step: `MarkSent` maps to settling because
an acknowledged batch is handled, `Store` to handling because the event is queued.

**Agent_proofs, the collectors.** `DrivesAccounted` (`SensorsSpec => []DriveAccounted`),
`NothingIsMissed` (`SensorsSpec => []NothingMissed`), `OnlyNewIsReported` (`SensorsSpec =>
OnlyNewActivity`) and `EventsAreCredited` (`SensorsSpec => CreditedToActor`), for any folders, files, limits,
repeat windows, table rows, records and launches, and any number of deeds, polls and hitches.
What a poll reports depends on what the collector remembers, and none of the properties speaks of that: the
inductive invariant `SensorsInv` does, a conjunct per collector.

- `DriveInv`: the watcher's last snapshot agrees with the drive on every path not in
  `since` (`Agrees`); what a reader knows are the settled files, in the state of the snapshot. A poll keeps this because a
  scan's changes carry a reader from one snapshot to the next (`ReportedAccounts`), which rests on the lemmas
  about `Diff` (`ChangesSound`, `ChangesComplete`, `OneArrival`: nothing that changed is left out and a path comes by one change
  only) and about what is young, still or settled (`ScannedIs`, `ReportsSound`, `ReportsComplete`).
  After two polls without a deed nothing is pending (`NothingNew`), so the description is complete.
- `DownloadsInv`: each file in `since` is seen settling or not seen yet, or has settled and, if it bears its
  mark, is awaited or in the queue in its present state (`Expected`). A file not in view whose state no settled file
  has is one that cannot be mistaken for a renamed one (`NewlySettled`). The files of the first poll that
  are as they were are never awaited (`Untouched`), which is why none is reported.
- `NetworkInv`: what is established and was not at the last poll is in `since`; each endpoint remembered as reported, if a person's and not
  taken for a service's, has its event in the queue with that time (`ReportedIsQueued`), and, while no hitch has happened, each event still in the repeat window is remembered
  (`QueuedIsReported`). The first gives `NothingMissed`, the second that no endpoint is reported twice.
- `LogInv` and `WmiInv`: the records past the bookmark are those of `since`, and a person's records up to it are in the queue; a
  subscription has delivered what is behind it.

`PollMissesNothing` is what the polls have in common: a poll that ends in a failed insert adds nothing to `due`, one that does not
has put every event into the queue or found its key there. Who an event is credited to (`ActsMakeEvents`, `SessionsMakeEvents`,
`ProcessEvents`, `ConnectionEvents`) follows from the rules of `Normaliser`, what the assumptions on records and processes say a person is,
and who answered for the process (`SpeaksOf`). The exceptions of the two theorems are about answers, not outcomes: an event of a
person's is excused only if whoever answered *is* a service's, an event of a service's only if the process did not
answer for itself in full.

**Casework_proofs.** `LinksAreListed` (`Spec => []PointsWhereListed`), `AlertsStayLegal` and
`CasesStayLegal` (`Spec => LegalUnlessStale`, `CaseLegalUnlessStale`), for any number of
alerts, investigations and handlers. `DeskSound` says what a copy is: one that nobody
made stale is the document but for the change its request asks for, and that change is one the
lifecycle allows. `LinksSound` is about the two documents: while an alert is not contended,
one handler at most is on its way with it, and the copies of the investigation that others hold
say of that alert what the investigation says (`AgreeStep`); so a whole-document write
by a handler of another alert takes no link away. The action properties are read off
`DeskSound` at the two writes, the only steps that change a status.

**Verdicts_proofs.** `OneVerdictInForce`, `HistoryIsALine`, `DecisiveVerdictsClose` and
`NobodyDeadlocks`, for any number of analysts, alerts and verdicts. The first two need what
PostgreSQL makes true of open transactions: a row is retired by one at a time
(`LocksHeldOnce`), a new row of an alert is held by one at a time, and beside it no row of
that alert is in force but the one it retires (`IndexHeldOnce`). The third needs the copy of
the alert (`CopySound`): one that is not stale differs from the alert by a legal move, and no
legal move leaves a closed state. The fourth (`NoCircle`): a handler that waits for a row lock
holds nothing; one that has retired the row in force never waits for the index,
as no other can hold a new row of that alert; so the only wait behind a wait is of a handler that retired
a row no longer in force, and it waits for one that goes on.

**Pipeline_proofs.** `RunsStayBounded` (`Spec => []RunsBounded`), for any number of
processes and triggers, any window and any number of crashes. `RunsBounded` counts
running tasks; the inductive `LockInv` counts *strays*, tasks running or
releasing whose key the Redis key is not. The step that matters is the DELETE of a
run whose key lapsed after its GET: it removes the key of a live run, which becomes
a stray, and the deleting run leaves in the same step, so the number stays. The
cardinality lemmas `NoMore`, `OneMore` and `Exchange` carry the counting.
`RunsAreCoordinated` (`Spec => LockSpec`) shows that no step of the stages starts or
ends a run behind the coordinator's back.

`CleanRunsAreFresh` (`Spec => []CleanRunIsFresh`) is about a run's last stage; it holds
because of what each stage before it has done. `Accurate` says, stage by stage and day by day, which stores a clean run has
brought in step by now: rows of the days its loop has taken (`Covered`), results after the
judging, findings cleared before they are stored, scores from the signals it read back.
`Alone` says that nobody else is running, so nobody's write can undo it, and `Spans` that its
window is an interval and its loop has taken a beginning of it. One lemma per action
(`WriteRowKeeps`, `JudgeKeeps`, `ClearFindingsKeeps`, ...) keeps `RunInv`; ends, crashes and
failures settle or spoil a run (`EndKeeps`, `SpoiltKeeps`), which leaves no claim.

`YardstickStaysHonest` (`Spec => []YardstickUnlessViewed`) adds `YardInv`: as long as no
lock is lost and no profile viewed, every baseline, committed or waiting for its commit,
reaches at most to the first day the next run would look at (`Reached`) and into no day of a run under
way (`NoLater`). A late commit (`CommitLate`) is harmless because the window only moves
forward. Building a baseline needs the theorem on the lock: it is safe because no second run
is under way (`OneAtWork`, from the strays).

**Identity_proofs.** `OneWriter` (no two transactions have written one row) and
`AdministratorRemains` (`Spec => AdminRemains`), for any number of users, roles, devices,
tokens and handlers. `AdminRemains` is about one commit; what makes it true is what the
handler did before. The invariant `IInv` therefore says of every handler that its steps
come in the order count, reread, write, revoke, commit (`JobOK`, from `Ordered`); that a
handler nobody overtook has dirty rows and copies that differ from the committed rows
only where it meant to (`Exact`); and that a handler which takes away an administrator and has passed its
check leaves another active one behind, unless overtaken (`OneLeft`). `RowsLocked`
says why a commit overwrites no one's uncommitted row. The lemmas `SaveInOrder` to
`RefreshInOrder` give the order for each list of steps a request starts with; one lemma per
step (`Begins`, `Counts`, `Rereads`, `Writes`, `Commits`, `RevocationFails`, ...) carries `IInv`;
`LastAdmin` reads the property off it, and `OnlyCommits` says that no other step changes a row.

The decisions are the second part: `RequestsDecidedOnce` (`Spec => DecidedOnce`) and `EnabledDeliberately`
(`Spec => EnabledOnPurpose`). `PInv` adds to `IInv` what a copy still means: it is going to
be written (`SavesAll`), so a commit that changes its row marks the handler; the request it
decides is open (`Decides`) and has an account (`AsksOf`); and if it is active, so was the
row when it was read, is it when it is read again and when it is written
(`KeepsDisabled`). The last is where the columns matter: the flush leaves "active" alone when the
copy agrees with the second reading. That a request never lacks its account is assumed of the
rows at the start (`StoredAssumption`) and kept.

The sessions are the third: `SessionsEnd` (`Spec => []DisabledHasNoSession`). `SInv` says that a live
token is in its user's set or outlived (`Listed`), that a handler which disables an account has
still to list its tokens, or holds all of them, or has removed them (`Sweeps`), and that every
other copy of an active account is active, unless overtaken (`Spares`). `RevokingIs` closes the
gap between listing and commit: a token stored there is stored while somebody is revoking, and
counts as outlived.

**Intake_proofs.** `LinksGoByUnlink` (`Spec => LinksMoveByUnlink`), `OwnChangesAreSeen`
(`Spec => []OwnChangesSeen`), `StampsAreCurrent` (`Spec => []StampsCurrent`), `BooksAgree`
(`Spec => []JobsReconcile`) and `RowsBecomeEvents` (`Spec => []EventsAreRows`), for any staff, files,
imports, processes, handlers and uploads.

`RowsInv` follows the list of steps a handler has left. It is `Planned`: the commit is its last
step and the clearing of the cache, if there is one, comes right before it, for an import
of any length too (`FlattenIs`, `ImportStepsAre`). By `Links` a link is written only where the handler saw
none, and removed only by an unlink; as no two transactions have written one row and a
second insert fails, a commit takes a link away only for an unlink (`CommitMoves`).

`KnownInv` is what the caches and lookups hold: an answer was right at its lookup's beginning or later
(`Told`), and is right still unless something that `OwnChangesSeen` names excuses it. A commit would break
that, but for `Announced`: a handler that can change an answer has still to clear the cache of its process,
or has done so with nothing but the commit left, and then all that its process knows since is
excused (`Sealed`). An answer that a lookup did not miss is still in the cache and young enough, or the
cache was cleared (`Served`), which gives the age of what `Resolve` reads. That an oldest lookup
exists (`OldestIs`) is the least-number principle, which `Least` derives from a theorem of
the library on well-founded relations; `FlattenIs` is proved the same way, by a least counterexample.

`BooksInv` keeps a tally per upload under way: its counters are the cardinalities of the rows
read, good and bad, its errors saved and buffered are the bad ones, its events in MongoDB the
good ones. One lemma per step of an upload carries it, over `OneUpload`, which says that
what touches one job number leaves the books of the others alone.

`ReadInv` adds what the events say: an upload keeps the parser that its file's columns called for, and
each event of its job has the type, the account and the employee that this parser makes of its row
(`SaysItsRow`, `OneReader`). With the tally, a committed job has an event for each row that can be read
and no other (`EventsAreRows`). Whether the parser was the right one for the file, and made of each row what the
row says, is `RowsRead`, which no theorem states: it is a fact about each file, and `intake_safety` shows it for its twelve.

**Behaviour_proofs.** `LevelsAreSound` (`Spec => []LevelFollowsVerdict`) for every forest, every
calibration and every decision score in the integers, and `NewestIsServed` (`Spec =>
[]RestartServesTrained`), in any number of processes and requests. The first rests on
arithmetic: rounding a quotient keeps its bounds (`RoundedWithin`), so a normal day stays
below the floor (`NormalBelow`) and an anomaly at or above it (`AnomalyAbove`), hence
`RiskFollowsDecision` and `LevelOfScore`. The second: a whole artefact on disk is the
newest trained (`FileInv`), no task or process holds one older than its process began with
(`TaskInv`, `ServedInv`), and the counts of trainings only grow (`CountInv`). `ResultInv` carries
the first through the steps in which a score waits to be stored.

A second invariant of that module, `RInv`, follows the rows through generation and detection.
`RowsAreCounts` (`RowsTellEvents`): a row, stored (`RowInv`) or still held by its generation,
counts the events of its window among those its run was given (`Tells`), which rests on the
aggregator as an operator (`RowTells`). `BusyDaysAreJudged` and `EmptyDaysAreSkipped`: of the rows a detection
listed, those its loop has passed have a result (`Detecting`), and a listed row is
in the store as it was unless it was rewritten; a result without activity has a
second row of its window, or a rewritten one, behind it (`KeptInv`).

**Screening_proofs.** `ReplayHolds` (`Spec => []WindowMatchesReplay`), `OpenAlertsAreCurrent`
(`Spec => []OpenAlertCurrent`), `CausesRaiseAlerts` (`Spec => []CauseRaisesAlert`) and `ScoresHaveCauses`
(`Spec => OnlyCausesChangeScores`), for any deeds and bags of events, any directories, any trained model, windows, baselines and
histories of any length, and any order of runs, late events, acts and days. None of them depends on
what a detector or a weight comes to: they are about what a day is computed from.

A replay that starts at the first day and one that starts where the history does learn the same
profile if the days between were idle (`ProfilesAgree`, `ReplayMatches`): two recursive functions
are compared at the least day on which they would differ, and an idle day has no events because the
fold over no deeds is the empty bag (`NoDeeds`). A score has only the signals of its day and those before
(`LiveAgree`), so what happens later cannot change it.

The inductive invariant `IInv` says what a settled day shows: a replay's findings unless the history lost an
active day (`FoundInv`), the result that the model gives of the day as it is now by the baseline of now (`ModelInv`), the
score of the signals there are now (`ScoreInv`), and an alert, current while it is
open, if one is warranted (`AlertInv`). It needs `StaleInv`, that a day is stale if an earlier one of the
window is: without it a settled day could stand on a profile that has changed. A run makes the invariant
true of its window (`RunSettles`): the alerts it writes are open ones, which are no signals, so writing them
does not undo the scores. Every other step leaves alone what the settled days were computed from
(`SparesSettled`, one lemma per step). `ScoresHaveCauses` compares a settled day with what the next run makes of it: its
events and the directory are as they were, so its findings are unless days were forgotten, and by
`ModelInv` its result is unless the baseline was renewed. The rest is counting: a result of the model that raised nothing
has five signals ahead of it, and as the day has no findings all are older or historical (`HiddenByOlder`).

Only model-checked: both liveness properties (fairness is outside the prover), what the parsers make of given
rows (`RowsRead`), and the violation. That two recursive computations agree can be shown by the
least place at which they differ; what the sums of detectors, scores and features come to for every
input is induction over data and stays with TLC.

## 5. Not modelled

- The employee stamp of events an agent sends: the same resolver as for uploads, which
  `Intake` has.
- A power loss that undoes SQLite's last commits (WAL, `queue.py:78`).
- Notes, timeline and evidence of an investigation, the audit log, explanations, texts,
  timestamps that no decision reads.
- Indexes that do not exist: two upserts of one new key at the same time may insert
  twice where no unique index is (`mongo_result_store.py:103`); stores here have one
  document per key.
- In `Behaviour`: the limits of `find_events`, the reading endpoints, the fallback to the
  first row and the error without data, which no request reaches once rows were listed;
  a profile's baseline is built and committed in one step, as it is not read in between.
  `update_baseline` is used by tests only.
- scikit-learn, Windows facilities, PostgreSQL's waiting rules: external, modelled by
  what they may answer.
- Dashboards, reporting and the frontend read and display. Deployment, the evaluation on
  a public data set and the demo scripts are not part of the running system. The
  packages `admin`, `assets`, `notifications` and `response` are empty.

## 6. What could follow

1. An abstract specification of the pipeline's stores (per day: a version the stores
   agree on, moving forward) that `Pipeline` implements when runs do not overlap.
2. The notes and timeline of an investigation, if they come to be edited.
