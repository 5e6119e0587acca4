---------------------------- MODULE Collectors ----------------------------
(***************************************************************************)
(* What one poll of each collector makes of what it finds                  *)
(* (agent/itbis_agent/collectors).  A poll is a function of the            *)
(* collector's memory and of the machine, and returns the memory after it  *)
(* and the raw events, which are handed on one by one (Precedes).          *)
(***************************************************************************)
EXTENDS FolderWatch, Normaliser, SequencesExt

CONSTANTS
    NoMemory,        \* a collector that has not polled yet
    Dir,             \* the subfolder of each path
    Temporary,       \* paths named as browsers name a download under way
    MarkRetries,     \* MARK_OF_THE_WEB_RETRIES
    RepeatWindow,    \* repeat_window_seconds, in polls
    KernelPids,
    Loopback         \* addresses that never leave the host

Poll(memory, raws) == [memory |-> memory, raws |-> raws]

Hidden(locked) == {p \in DOMAIN Dir : Dir[p] \in locked}

FileRaw(source, change, now, console) ==
    [source |-> source, kind |-> change.kind, path |-> change.path, from |-> change.from,
     state |-> change.state, occurred |-> now, console |-> console]

\* A scan's changes on a drive, and a total of what was written to it.
DriveRaws(changes, now, console) ==
    LET written == Cardinality({c \in changes : c.kind \in {"created", "modified"}})
        total == {Change("data_transfer", 0, 0, n) : n \in {written} \ {0}}
    IN  {FileRaw("removable_files", c, now, console) : c \in changes \cup total}

\* files is NoMemory while no drive is mounted.
DrivePoll(memory, files, locked, now, console) ==
    LET known == IF memory = NoMemory THEN Watcher ELSE memory
        scan == Scan(known, files, Hidden(locked), "root" \notin locked)
    IN  IF files = NoMemory THEN Poll(NoMemory, {})
        ELSE IF memory = NoMemory THEN Poll(scan.watcher, {})
        ELSE Poll(scan.watcher, DriveRaws(scan.changes, now, console))

\* Files of which no mark is to be expected any more: put there locally.
GivenUp(awaiting, files) == {p \in DOMAIN awaiting : awaiting[p].left <= 1 \/ p \notin DOMAIN files}

\* files gives each file's state and whether it bears the mark of the web.
DownloadPoll(memory, files, now, console) ==
    LET states == [p \in DOMAIN files |-> files[p].state]
        scan == Scan(IF memory = NoMemory THEN Watcher ELSE memory.watcher,
                     states, Temporary, TRUE)
        created == {c \in scan.changes : c.kind = "created"}
        awaiting == [p \in DOMAIN memory.awaiting \cup {c.path : c \in created} |->
                        IF \E c \in created : c.path = p
                        THEN [size |-> (CHOOSE c \in created : c.path = p).state, left |-> MarkRetries]
                        ELSE memory.awaiting[p]]
        marked == {p \in DOMAIN awaiting \cap DOMAIN files : files[p].marked}
    IN  IF memory = NoMemory THEN Poll([watcher |-> scan.watcher, awaiting |-> <<>>], {})
        ELSE Poll([watcher |-> scan.watcher,
                   awaiting |-> [p \in DOMAIN awaiting \ (marked \cup GivenUp(awaiting, files)) |->
                                    [awaiting[p] EXCEPT !.left = @ - 1]]],
                  {FileRaw("downloads", Change("created", p, p, awaiting[p].size), now, console) :
                      p \in marked})

\* A row of the TCP table: [pid, port, remote, service, open].
Endpoint(row) == <<row.pid, row.remote, row.service>>

Established(rows) == {r \in rows : r.open /\ r.remote \notin Loopback}

\* Mutant: what was open at the last poll is looked at again.
Unprevious(memory, rows, now) ==
    {r \in Established(rows) :
        \A e \in DOMAIN memory.reported :
            e = Endpoint(r) => now - memory.reported[e] >= RepeatWindow}

\* Connections not there before, to endpoints not reported of late.
FreshRows(memory, rows, now) ==
    {r \in Established(rows) \ memory.previous :
        \A e \in DOMAIN memory.reported :
            e = Endpoint(r) => now - memory.reported[e] >= RepeatWindow}

NewRows(memory, rows, now) ==
    LET fresh == FreshRows(memory, rows, now) IN
    {r \in fresh : \A s \in fresh : Endpoint(s) = Endpoint(r) => s.port >= r.port}

\* Who answers when the owner of a process is asked for: the process, else its
\* parent, else nobody.  The identifier is a second question, which may fail.
Replies == [of : {"own", "parent"}, sid : BOOLEAN] \cup {[of |-> "nobody", sid |-> FALSE]}

ResolvedOwner(process, reply) ==
    LET owner == CASE reply.of = "own" -> process.owner
                   [] reply.of = "parent" -> process.parent
                   [] OTHER -> [name |-> NoName, sid |-> "any"]
    IN  IF reply.sid THEN owner ELSE [owner EXCEPT !.sid = "any"]

\* The kernel's processes are not asked.
Owner(row, owners) ==
    IF row.pid \in KernelPids
    THEN [name |-> [account |-> "SYSTEM", form |-> "domain", case |-> "upper"], sid |-> "service"]
    ELSE owners[row.pid]

ConnectionRaw(row, rows, owners, now) ==
    [source |-> "network", pid |-> row.pid, remote |-> row.remote, port |-> row.service, local |-> row.port,
     inbound |-> \E l \in rows : ~l.open /\ l.port = row.port /\ l.pid = row.pid,
     owner |-> Owner(row, owners).name, sid |-> Owner(row, owners).sid, occurred |-> now]

NetworkPoll(memory, rows, owners, now) ==
    LET new == NewRows(memory, rows, now)
        lately == {e \in DOMAIN memory.reported : now - memory.reported[e] < RepeatWindow}
    IN  IF memory = NoMemory
        THEN Poll([previous |-> Established(rows), reported |-> <<>>], {})
        ELSE Poll([previous |-> Established(rows),
                   reported |-> [e \in lately \cup {Endpoint(r) : r \in new} |->
                                    IF e \in lately THEN memory.reported[e] ELSE now]],
                  {ConnectionRaw(r, rows, owners, now) : r \in new})

WantedEventIds ==
    {4624, 4625, 4634, 4647, 4704, 4705, 4778, 4779}
    \cup DOMAIN AccountChangeTypes \cup MemberAdded \cup MemberRemoved

\* Mutant: the bookmark follows the records as they are read.
Hasty(bookmark, log, failed) == Max(DOMAIN log \cup {bookmark})

\* The bookmark moves after a whole pass.
Bookmark(bookmark, log, failed) == IF failed THEN bookmark ELSE Max(DOMAIN log \cup {bookmark})

SecurityRaw(number, record) ==
    [source |-> "windows_security", number |-> number, id |-> record.id, name |-> record.name,
     sid |-> record.sid, logon |-> record.logon, actor |-> record.actor, target |-> record.target,
     privileged |-> record.privileged, remote |-> record.remote]

\* The memory is the bookmark.  The log is read newest first; a read that fails
\* on the way has handed on the first reach of the new records.
SecurityPoll(memory, log, failed, reach) ==
    LET new == {n \in DOMAIN log : n > memory /\ log[n].id \in WantedEventIds}
        read == IF failed THEN {n \in new : Cardinality({m \in new : m > n}) < reach} ELSE new
    IN  IF memory = NoMemory
        THEN Poll(IF DOMAIN log = {} \/ failed THEN NoMemory ELSE Max(DOMAIN log), {})
        ELSE Poll(Bookmark(memory, log, failed), {SecurityRaw(n, log[n]) : n \in read})

ProcessRaw(process, created, reply) ==
    LET owner == ResolvedOwner(process, reply) IN
    [source |-> "process", pid |-> process.pid, created |-> created, session |-> process.session,
     signedIn |-> process.signedIn, owner |-> owner.name, sid |-> owner.sid]

UsbRaws(disk, now, console) ==
    IF ~disk.removable THEN {}
    ELSE {[source |-> "usb", kind |-> disk.kind, device |-> disk.device, occurred |-> now,
           console |-> console]}

(***************************************************************************)
(* Which of two raw events of a poll is handed on first: changes by their  *)
(* path and their total last, connections by process and port, records     *)
(* newest first.  Downloads go in the order they began to wait for their   *)
(* mark, which nothing keeps: any of them may be first.                    *)
(***************************************************************************)
Precedes(a, b) ==
    CASE a.source = "removable_files" ->
            a.kind # "data_transfer" /\ (b.kind = "data_transfer" \/ a.path < b.path)
      [] a.source = "network" -> a.pid < b.pid \/ (a.pid = b.pid /\ a.local < b.local)
      [] a.source = "windows_security" -> a.number > b.number
      [] OTHER -> FALSE
=============================================================================
