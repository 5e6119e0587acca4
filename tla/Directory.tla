------------------------------ MODULE Directory ------------------------------
(***************************************************************************)
(* The employee directory (employees/): who owns an account, the requests  *)
(* that change it, and the cache through which ingestion asks.             *)
(*                                                                         *)
(* Employees and the links of accounts and devices are rows of SqlRows.  A *)
(* request is refused before it writes, which is not a step.  Every server *)
(* process has an EmployeeResolver of its own; the request that changes    *)
(* the directory clears the one of its process, and commits after that.    *)
(***************************************************************************)
EXTENDS SqlRows, SequencesExt

CONSTANTS Processes,
          ProcessOf,        \* the process of each handler and uploader
          Employees, Accounts, Devices,
          Departments,
          Imports,          \* CSV files: sequences of [employee, department, links]
          Ttl               \* ttl_seconds

VARIABLES clock,            \* time.monotonic
          links,            \* links made so far, which numbers them
          cache,            \* the resolver's cache in each process
          lookup            \* lookups under way, by uploader

dirVars == <<row, dirty, job, late, behind, clock, links, cache, lookup>>

Linkable == Accounts \cup Devices

ASSUME TtlAssumption == Ttl \in Nat
ASSUME ImportsAssumption ==
    \A file \in Imports :
        /\ DOMAIN file = 1..Len(file) /\ Len(file) \in Nat
        /\ \A n \in DOMAIN file : file[n].employee \in Employees /\ file[n].links \in Seq(Linkable)
        /\ \A n, k \in DOMAIN file : file[n].employee = file[k].employee => n = k
ASSUME EntitiesAssumption ==
    /\ Employees \cap (Accounts \cup Devices) = {} /\ Accounts \cap Devices = {}
    /\ Entities = Employees \cup Accounts \cup Devices
ASSUME ProcessAssumption ==
    /\ Workers \subseteq DOMAIN ProcessOf
    /\ \A u \in DOMAIN ProcessOf : ProcessOf[u] \in Processes

NoLookup == [step |-> "none"]

DirectoryInit(stored) ==
    /\ RowsInit(stored)
    /\ clock = 0 /\ links = 0
    /\ cache = [p \in Processes |-> None]
    /\ lookup = [u \in DOMAIN ProcessOf \ Workers |-> NoLookup]

\* What a transaction sees: the committed rows and its own.
Seen(w, e) == IF e \in DOMAIN dirty[w] THEN dirty[w][e] ELSE row[e]

Link(e, n) == [owner |-> e, id |-> n]
Of(x, r) == [y \in {x} |-> r]

(***************************************************************************)
(* Requests.  _changed, the step "forget", is called by those that can     *)
(* change an answer; assigning a device and creating an employee do not.   *)
(***************************************************************************)
Closing == <<<<"forget", Nobody>>, <<"commit", Nobody>>>>
Quietly == <<<<"commit", Nobody>>>>

Begin(w, kind, copy, base, todo) ==
    /\ job[w] = Idle
    /\ job' = [job EXCEPT ![w] = [Idle EXCEPT !.kind = kind, !.copy = copy,
                                              !.base = base, !.todo = todo]]
    /\ UNCHANGED <<row, dirty, late, behind, clock, cache, lookup>>

CreateEmployee(w, e, d) ==
    /\ row[e] = NoRow
    /\ Begin(w, "create", Of(e, [department |-> d]), None, Save(e) \o Quietly)
    /\ UNCHANGED links

UpdateEmployee(w, e, d) ==
    /\ row[e] # NoRow
    /\ Begin(w, "update", Of(e, [department |-> d]), None, Save(e) \o Closing)
    /\ UNCHANGED links

\* Mutant: the answers cached before are kept.
LinkQuietly(w, e, x) ==
    /\ row[e] # NoRow /\ row[x] = NoRow
    /\ Begin(w, "link", Of(x, Link(e, links + 1)), Of(x, NoRow), <<<<"write", x>>>> \o Quietly)
    /\ links' = links + 1

\* link_account and assign_device look for an owner first; linking what the
\* employee has already writes nothing.
LinkTo(w, e, x) ==
    /\ row[e] # NoRow
    /\ LET closing == IF x \in Accounts THEN Closing ELSE Quietly IN
       \/ /\ row[x] = NoRow
          /\ Begin(w, "link", Of(x, Link(e, links + 1)), Of(x, NoRow), <<<<"write", x>>>> \o closing)
          /\ links' = links + 1
       \/ /\ row[x] # NoRow /\ row[x].owner = e
          /\ Begin(w, "link", None, None, closing)
          /\ UNCHANGED links

Unlink(w, x) ==
    /\ row[x] # NoRow
    /\ Begin(w, "unlink", Of(x, NoRow), Of(x, row[x]),
             <<<<"delete", x>>>> \o IF x \in Accounts THEN Closing ELSE Quietly)
    /\ UNCHANGED links

\* import_csv, row by row: the employee is saved with the fields of the file,
\* then his accounts and devices are linked.
ImportSteps(entry) ==
    Save(entry.employee) \o [n \in 1..Len(entry.links) |-> <<"claim", <<entry.links[n], entry.employee>>>>]

Import(w, file) ==
    /\ Begin(w, "import",
             [e \in {file[n].employee : n \in DOMAIN file} |->
                 [department |-> (CHOOSE entry \in Range(file) : entry.employee = e).department]],
             None, FlattenSeq([n \in DOMAIN file |-> ImportSteps(file[n])]) \o Closing)
    /\ UNCHANGED links

\* What somebody else owns is a line of the report.
Claim(w) ==
    /\ At(w, "claim")
    /\ LET x == Subject(w)[1]
           e == Subject(w)[2] IN
       IF Seen(w, x) = NoRow
       THEN /\ job' = [job EXCEPT ![w].copy = [y \in DOMAIN @ \cup {x} |-> IF y = x THEN Link(e, links + 1) ELSE @[y]],
                                  ![w].base = [y \in DOMAIN @ \cup {x} |-> IF y = x THEN NoRow ELSE @[y]],
                                  ![w].todo = <<<<"write", x>>>> \o Tail(@)]
            /\ links' = links + 1
       ELSE Advance(w) /\ UNCHANGED links
    /\ UNCHANGED <<row, dirty, late, behind, clock, cache, lookup>>

\* DELETE by primary key: a link made since has another.
Delete(w) ==
    /\ At(w, "delete")
    /\ LET x == Subject(w)
       IN /\ ~Locked(w, x)
          /\ dirty' = [dirty EXCEPT ![w] = IF row[x] = job[w].base[x] THEN Of(x, NoRow) ELSE @]
    /\ Advance(w)
    /\ UNCHANGED <<row, late, behind, clock, links, cache, lookup>>

Execute(w) ==
    /\ Reread(w) \/ Write(w)
    /\ UNCHANGED <<clock, links, cache, lookup>>

(***************************************************************************)
(* Answers.                                                                *)
(***************************************************************************)
NoOne == [employee |-> Nobody, department |-> ""]

\* resolve_accounts, on given rows.
AnswerIn(rows, a) ==
    IF rows[a] = NoRow THEN NoOne
    ELSE [employee |-> rows[a].owner, department |-> rows[rows[a].owner].department]

Answer(a) == AnswerIn(row, a)

InProcess(u, p) == ProcessOf[u] = p

\* Mutant: an answer is good for ever.
Everlasting(p, a) == a \notin DOMAIN cache[p]

\* An answer expires Ttl after the lookup that brought it.
Missing(p, a) == a \notin DOMAIN cache[p] \/ clock - cache[p][a].at > Ttl

\* The committed change of w has yet to come, though w has cleared the cache.
Between(w) == job[w].todo = Quietly /\ dirty[w] # None

RefsIn(entries, wanted) ==
    [a \in wanted |-> IF a \in DOMAIN entries THEN entries[a].ref ELSE NoOne]

\* History: when the oldest of the lookups now under way in a process began.
\* Each of them may still put answers of its age into the cache.
Oldest(p) ==
    Min({clock} \cup {lookup[v].at : v \in {v \in DOMAIN lookup : /\ InProcess(v, p)
                                                               /\ lookup[v].step \in {"query", "found"}}})

\* resolve, up to its query; with nothing missing there is none.  excused
\* (history): in this process the cache was cleared during the lookup, or the
\* query ran before the commit of a change that had cleared it.
Ask(u, wanted) ==
    LET p == ProcessOf[u]
        missing == {a \in wanted : Missing(p, a)}
    IN /\ lookup[u] = NoLookup
       /\ lookup' = [lookup EXCEPT ![u] =
             IF missing = {}
             THEN [step |-> "resolved", since |-> clock, excused |-> FALSE, refs |-> RefsIn(cache[p], wanted)]
             ELSE [step |-> "query", at |-> clock, since |-> Oldest(p), excused |-> FALSE,
                   wanted |-> wanted, missing |-> missing]]
       /\ UNCHANGED <<rowVars, clock, links, cache>>

Query(u) ==
    /\ lookup[u].step = "query"
    /\ lookup' = [lookup EXCEPT ![u] =
          [step |-> "found", at |-> @.at, since |-> @.since, wanted |-> @.wanted,
           found |-> [a \in @.missing |-> Answer(a)],
           excused |-> @.excused \/ \E w \in Workers : InProcess(w, ProcessOf[u]) /\ Between(w)]]
    /\ UNCHANGED <<rowVars, clock, links, cache>>

\* resolve, after its query: what was found goes into the cache.
Cached(u) ==
    [a \in DOMAIN cache[ProcessOf[u]] \cup DOMAIN lookup[u].found |->
        IF a \in DOMAIN lookup[u].found
        THEN [at |-> lookup[u].at, ref |-> lookup[u].found[a], excused |-> lookup[u].excused]
        ELSE cache[ProcessOf[u]][a]]

\* The answers are then read from the cache, where a clearing may have removed
\* those that were there at first.
Resolve(u) ==
    /\ lookup[u].step = "found"
    /\ cache' = [cache EXCEPT ![ProcessOf[u]] = Cached(u)]
    /\ lookup' = [lookup EXCEPT ![u] =
          [step |-> "resolved", since |-> @.since, excused |-> @.excused, refs |-> RefsIn(Cached(u), @.wanted)]]
    /\ UNCHANGED <<rowVars, clock, links>>

Excuse(u) == IF lookup[u].step \in {"query", "found"} THEN [lookup[u] EXCEPT !.excused = TRUE] ELSE lookup[u]

ForgetCache(w) ==
    /\ At(w, "forget")
    /\ Advance(w)
    /\ cache' = [cache EXCEPT ![ProcessOf[w]] = None]
    /\ lookup' = [u \in DOMAIN lookup |-> IF InProcess(u, ProcessOf[w]) THEN Excuse(u) ELSE lookup[u]]
    /\ UNCHANGED <<row, dirty, late, behind, clock, links>>

\* The other processes are not told; nor is anybody when create finds that the
\* employee has come to exist and overwrites him.
CommitChange(w) ==
    LET changed == {a \in Accounts : AnswerIn(After(w), a) # Answer(a)}
        Untold(p) == p # ProcessOf[w] \/ job[w].kind = "create"
    IN /\ CommitRows(w)
       /\ cache' = [p \in Processes |-> [a \in DOMAIN cache[p] |->
             IF a \in changed /\ Untold(p) THEN [cache[p][a] EXCEPT !.excused = TRUE] ELSE cache[p][a]]]
       /\ lookup' = [u \in DOMAIN lookup |->
             IF changed # {} /\ Untold(ProcessOf[u]) /\ lookup[u].step = "found"
             THEN [lookup[u] EXCEPT !.excused = TRUE] ELSE lookup[u]]
       /\ UNCHANGED <<late, clock, links>>

\* The handler raises, an insert finds the link taken, or the process dies.
Abandon(w) ==
    /\ Rollback(w)
    /\ UNCHANGED <<clock, links, cache, lookup>>

Tick ==
    /\ clock' = clock + 1
    /\ UNCHANGED <<rowVars, links, cache, lookup>>
=============================================================================
