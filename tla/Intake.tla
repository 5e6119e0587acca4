------------------------------- MODULE Intake -------------------------------
(***************************************************************************)
(* Dataset ingestion: an uploaded CSV becomes a job, events and row errors *)
(* (IngestionService, BatchProcessor), while the directory, which stamps   *)
(* the events with the employee behind their account, changes.             *)
(*                                                                         *)
(* The job and its errors are written in the transaction of the upload's   *)
(* request, so they appear when it commits and only then.  The events go   *)
(* to MongoDB at once.                                                     *)
(***************************************************************************)
EXTENDS Directory, Parsers

CONSTANTS Files,        \* what can be uploaded: columns, rows, and what they hold
          KeyOf,        \* account_key: accounts as written to accounts
          ChunkSize,    \* chunk_size
          Staff0,       \* the directory at the start
          MaxUploads,   \* for each file
          MaxChanges,   \* to the directory, for each file
          MaxClock

VARIABLES shelf,        \* the file that is uploaded, again and again
          upload,       \* the upload each uploader serves
          jobs,         \* ingestion_jobs and ingestion_errors: what is committed
          events,       \* canonical_events
          former,       \* history: the answers that were right once, and until when
          started,      \* uploads so far, which numbers the jobs
          aborted,      \* history: jobs that failed
          changes

vars == <<dirVars, shelf, upload, jobs, events, former, started, aborted, changes>>

Uploaders == DOMAIN ProcessOf \ Workers
NoUpload == [step |-> "none"]

\* r is no row, or makes an account or a device somebody's.
Owned(r) == r = NoRow \/ r.owner \in Employees

ASSUME StaffAssumption ==
    DOMAIN Staff0 = Entities /\ \A x \in Linkable : Owned(Staff0[x])
ASSUME FilesAssumption ==
    \A f \in Files : DOMAIN f.rows = 1..Len(f.rows) /\ Len(f.rows) \in Nat /\ f.sound \subseteq DOMAIN f.rows
ASSUME ChunkAssumption == ChunkSize \in Nat \ {0}

Init ==
    /\ DirectoryInit(Staff0)
    /\ shelf \in Files
    /\ upload = [u \in Uploaders |-> NoUpload]
    /\ jobs = None /\ events = {} /\ former = {}
    /\ started = 0 /\ aborted = {} /\ changes = 0

(***************************************************************************)
(* start_ingestion and _run_job.                                           *)
(***************************************************************************)
Parsed(u, n) == ParseRow(upload[u].parser, upload[u].file.rows[n])

\* iter_chunks: the rows of the next chunk.
Chunk(u) == {n \in DOMAIN upload[u].file.rows : n > upload[u].read /\ n <= upload[u].read + ChunkSize}
Good(u) == {n \in Chunk(u) : Parsed(u, n) # Malformed}
Bad(u) == Chunk(u) \ Good(u)

Steady == UNCHANGED <<rowVars, clock, links, cache>>

\* A file that is empty or that no parser takes is refused before there is a
\* job.  The job is saved PENDING and then RUNNING, for nobody to see.
StartUpload(u, f) ==
    /\ upload[u] = NoUpload /\ started < MaxUploads[shelf]
    /\ f.columns # {} /\ Detected(f.columns) # "unknown"
    /\ upload' = [upload EXCEPT ![u] =
          [step |-> "chunk", id |-> started + 1, file |-> f, parser |-> Detected(f.columns), read |-> 0,
           job |-> [status |-> "RUNNING", total |-> f.lines, processed |-> 0, failed |-> 0, stored |-> 0],
           buffer |-> {}, errors |-> {}]]
    /\ started' = started + 1
    /\ UNCHANGED <<dirVars, shelf, jobs, events, former, aborted, changes>>

LookUp(u) ==
    /\ upload[u].step = "chunk" /\ Good(u) # {}
    /\ Ask(u, {KeyOf[Parsed(u, n).user] : n \in Good(u)} \cap Accounts)
    /\ upload' = [upload EXCEPT ![u].step = "insert"]
    /\ UNCHANGED <<shelf, jobs, events, former, started, aborted, changes>>

\* stamp_employee keeps what the event says itself.
Stamped(own, known) == IF own # "" THEN own ELSE known

\* The document of a row: stamped, with its job.  since and excused (history)
\* are those of the lookup.
Doc(u, n) ==
    LET e == Parsed(u, n)
        a == KeyOf[e.user]
        ref == IF a \in DOMAIN lookup[u].refs THEN lookup[u].refs[a] ELSE NoOne
    IN [job |-> upload[u].id, row |-> n, type |-> e.type, account |-> a, own |-> e.employee,
        employee |-> Stamped(e.employee, ref.employee),
        department |-> IF ref = NoOne THEN e.department ELSE Stamped(e.department, ref.department),
        since |-> lookup[u].since, excused |-> lookup[u].excused]

\* Mutant: the errors of the last, short chunk stay in the buffer.
FlushedWhenFull(buffer, last) == Cardinality(buffer) >= ChunkSize

\* error_buffer goes to PostgreSQL when it is full, and after the last chunk.
Flushed(buffer, last) == Cardinality(buffer) >= ChunkSize \/ last

Completed(j) == [j EXCEPT !.status = IF j.failed > 0 THEN "PARTIAL" ELSE "COMPLETED"]

\* The counters of one chunk, its errors, and the end of the job after the last.
AfterChunk(u, stored) ==
    LET up == upload[u]
        last == up.read + ChunkSize >= Len(up.file.rows)
        full == up.buffer \cup Bad(u)
        counted == [up.job EXCEPT !.processed = @ + Cardinality(Chunk(u)), !.stored = @ + stored,
                                  !.failed = @ + Cardinality(Bad(u))]
    IN [up EXCEPT
          !.step = IF last THEN "commit" ELSE "chunk",
          !.read = @ + ChunkSize,
          !.buffer = IF Flushed(full, last) THEN {} ELSE full,
          !.errors = IF Flushed(full, last) THEN @ \cup full ELSE @,
          !.job = IF last THEN Completed(counted) ELSE counted]

InsertChunk(u) ==
    /\ upload[u].step = "insert" /\ lookup[u].step = "resolved"
    /\ events' = events \cup {Doc(u, n) : n \in Good(u)}
    /\ upload' = [upload EXCEPT ![u] = AfterChunk(u, Cardinality(Good(u)))]
    /\ lookup' = [lookup EXCEPT ![u] = NoLookup]
    /\ Steady
    /\ UNCHANGED <<shelf, jobs, former, started, aborted, changes>>

\* No event in the chunk: nothing is looked up or inserted.
OnlyErrors(u) ==
    /\ upload[u].step = "chunk" /\ Good(u) = {}
    /\ upload' = [upload EXCEPT ![u] = AfterChunk(u, 0)]
    /\ UNCHANGED <<dirVars, shelf, jobs, events, former, started, aborted, changes>>

Answering(u) ==
    /\ Query(u) \/ Resolve(u)
    /\ UNCHANGED <<shelf, upload, jobs, events, former, started, aborted, changes>>

CommitUpload(u) ==
    /\ upload[u].step = "commit"
    /\ jobs' = [j \in DOMAIN jobs \cup {upload[u].id} |->
                  IF j = upload[u].id
                  THEN [file |-> upload[u].file, job |-> upload[u].job, errors |-> upload[u].errors]
                  ELSE jobs[j]]
    /\ upload' = [upload EXCEPT ![u] = NoUpload]
    /\ UNCHANGED <<dirVars, shelf, events, former, started, aborted, changes>>

\* Something fails: mark_failed is saved, the exception is raised again, and
\* get_db rolls both back.  insert_many is unordered, so any of the chunk's
\* events may be in MongoDB by then.
UploadFails(u) ==
    /\ upload[u] # NoUpload
    /\ \E kept \in IF upload[u].step = "insert" /\ lookup[u].step = "resolved"
                   THEN SUBSET Good(u) ELSE {{}} :
          events' = events \cup {Doc(u, n) : n \in kept}
    /\ aborted' = aborted \cup {upload[u].id}
    /\ upload' = [upload EXCEPT ![u] = NoUpload]
    /\ lookup' = [lookup EXCEPT ![u] = NoLookup]
    /\ Steady
    /\ UNCHANGED <<shelf, jobs, former, started, changes>>

(***************************************************************************)
(* The directory meanwhile.                                                *)
(***************************************************************************)
Request(w) ==
    /\ changes < MaxChanges[shelf] /\ changes' = changes + 1
    /\ \/ \E e \in Employees, d \in Departments : CreateEmployee(w, e, d) \/ UpdateEmployee(w, e, d)
       \/ \E e \in Employees, x \in Linkable : LinkTo(w, e, x)
       \/ \E x \in Linkable : Unlink(w, x)
       \/ \E file \in Imports : Import(w, file)
    /\ UNCHANGED <<shelf, upload, jobs, events, former, started, aborted>>

RequestStep(w) ==
    /\ Execute(w) \/ Claim(w) \/ Delete(w) \/ ForgetCache(w) \/ Abandon(w)
    /\ UNCHANGED <<shelf, upload, jobs, events, former, started, aborted, changes>>

Commit(w) ==
    /\ CommitChange(w)
    /\ former' = former \cup {[account |-> a, ref |-> Answer(a), until |-> clock] :
                                 a \in {a \in Accounts : Answer(a) # AnswerIn(After(w), a)}}
    /\ UNCHANGED <<shelf, upload, jobs, events, started, aborted, changes>>

Pass ==
    /\ clock < MaxClock
    /\ Tick
    /\ UNCHANGED <<shelf, upload, jobs, events, former, started, aborted, changes>>

Next ==
    \/ \E u \in Uploaders :
         \/ StartUpload(u, shelf) \/ LookUp(u) \/ Answering(u) \/ InsertChunk(u) \/ OnlyErrors(u)
         \/ CommitUpload(u) \/ UploadFails(u)
    \/ \E w \in Workers : Request(w) \/ RequestStep(w) \/ Commit(w)
    \/ Pass

Spec == Init /\ [][Next]_vars

(***************************************************************************)
(* Properties.                                                             *)
(***************************************************************************)

StoredRows(j) == {e.row : e \in {e \in events : e.job = j}}

\* The books of the ingestion agree across the two databases: in a committed
\* job every row of the file is an event in MongoDB or a saved error, the
\* counters say how many, and PARTIAL says whether there are errors.  Events
\* without a job row belong to an upload under way or to one that failed.
JobsReconcile ==
    /\ \A j \in DOMAIN jobs :
        LET rec == jobs[j] IN
        /\ StoredRows(j) \cap rec.errors = {}
        /\ StoredRows(j) \cup rec.errors = DOMAIN rec.file.rows
        /\ rec.job.processed = Len(rec.file.rows)
        /\ rec.job.stored = Cardinality(StoredRows(j))
        /\ rec.job.failed = Cardinality(rec.errors)
        /\ rec.job.status = IF rec.errors = {} THEN "COMPLETED" ELSE "PARTIAL"
    /\ \A e \in events : \/ e.job \in DOMAIN jobs \cup aborted
                         \/ \E u \in Uploaders : upload[u] # NoUpload /\ upload[u].id = e.job

\* What a row that its log's format allows turns into: an event of a type its
\* log can have.  The rest are errors.  A device log without file_tree is taken
\* for a logon log.
RowsRead ==
    \A j \in DOMAIN jobs :
        /\ StoredRows(j) = jobs[j].file.sound
        /\ ~jobs[j].file.bare =>
              \A e \in events : e.job = j => e.type \in jobs[j].file.types

\* The stamp of an event is what the directory said at some moment since Ttl
\* before its lookup, unless the row names its employee or the cache was
\* cleared during the lookup, which may leave the event of a linked account
\* without a stamp.  Where other lookups of the process were under way by then,
\* the oldest of them counts: its answers come last and replace younger ones.
StampsCurrent ==
    \A e \in events :
        \/ e.own # "" \/ e.account \notin Accounts
        \/ e.excused /\ e.employee = Nobody
        \/ e.employee = Answer(e.account).employee
        \/ \E f \in former : /\ f.account = e.account /\ f.ref.employee = e.employee
                             /\ f.until + Ttl >= e.since

\* "Account links drive event stamping; don't serve stale answers": an answer
\* in a process's cache that is out of date and has not expired is one that
\* another process's request changed, that a lookup brought while a request of
\* this process was between clearing the cache and its commit, or that creating
\* an employee changed who came to exist after the check for a duplicate.
OwnChangesSeen ==
    \A p \in Processes : \A a \in DOMAIN cache[p] :
        Missing(p, a) \/ cache[p][a].excused \/ cache[p][a].ref = Answer(a)

\* An account or a device goes from one employee to another through an unlink:
\* no import and no race of two requests takes it from its owner.
LinksMoveByUnlink ==
    [][\A x \in Linkable :
        row[x] # NoRow /\ row'[x] # row[x] =>
            /\ row'[x] = NoRow
            /\ \E w \in Workers : At(w, "commit") /\ job[w].kind = "unlink"]_vars
=============================================================================
