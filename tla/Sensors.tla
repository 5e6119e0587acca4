------------------------------ MODULE Sensors ------------------------------
(***************************************************************************)
(* The endpoint agent's collectors at work: a machine on which things      *)
(* happen, a collector that polls it, and the queue its events go into     *)
(* (agent/itbis_agent/runtime.py, collectors/, normalizer.py).             *)
(*                                                                         *)
(* Every collector runs in a thread of its own and shares nothing with the *)
(* others but the queue, where its keys have a prefix of their own.  So a  *)
(* behaviour has one collector, any of them.                               *)
(***************************************************************************)
EXTENDS Collectors

CONSTANTS
    Watchable,     \* the collectors of the instance
    NoVolume,
    FirstVolume,   \* the drive plugged in at the start, or NoVolume
    FirstFiles,    \* the files on each volume at the start
    WebFiles,      \* paths in the Downloads folder
    TableRows,     \* rows the TCP table can have
    Owners,        \* who owns each process of the table, and its parent
    Records,       \* records the Security log can get
    Launches,      \* processes that can start, drives that can come or go
    Console,       \* who is signed in at the console
    MaxDeeds, MaxPolls, MaxHitches

VARIABLES
    watched,       \* the collector
    alive,         \* whether its thread is
    memory,        \* what it remembers of its last poll
    world,         \* the part of the machine it looks at
    queued,        \* the events in the queue
    since,         \* history: what was done, or kept from view, since its first poll
    told,          \* history: the files its first poll and its events speak of, or
                   \* who answered for the owner of what it reported
    due,           \* history: what was there to report, as keys
    stirred,       \* history: when something was last done
    now, deeds, hitches

sensorVars == <<watched, alive, memory, world, queued, since, told, due, stirred, now, deeds, hitches>>

ASSUME WatchableAssumption == Watchable \subseteq {"drive", "downloads", "network", "log", "wmi"}
ASSUME BoundsAssumption == {MaxFiles, MarkRetries, RepeatWindow} \subseteq Nat \ {0}

\* Paths have a number from 1 on; 0 stands for those beyond the limit.
Paths == DOMAIN Dir \cup WebFiles

ASSUME PathsAssumption ==
    /\ Paths \subseteq Nat \ {0} /\ IsFiniteSet(Paths)
    /\ NoVolume \notin DOMAIN FirstFiles /\ FirstVolume \in DOMAIN FirstFiles \cup {NoVolume}
    /\ FirstFiles = [v \in DOMAIN FirstFiles |-> FirstFiles[v]]
    /\ \A v \in DOMAIN FirstFiles :
        DOMAIN FirstFiles[v] \subseteq DOMAIN Dir /\ FirstFiles[v] \in [DOMAIN FirstFiles[v] -> Nat]

Endpoints == {Endpoint(r) : r \in TableRows}

\* What is not there is unlike anything that is.
ASSUME NothingAssumption ==
    /\ NoMemory \notin Nat
    /\ \A P, Q, R \in SUBSET Paths :
        LET snapshots == [files : [P -> Nat], truncated : BOOLEAN]
            watchers == [last : snapshots \cup {NoSnapshot}, pending : [Q -> Nat]]
        IN  /\ NoMemory \notin [P -> Nat] /\ NoSnapshot \notin snapshots
            /\ NoMemory \notin watchers
            /\ NoMemory \notin [watcher : watchers, awaiting : [R -> [size : Nat, left : Nat]]]
    /\ \A E \in SUBSET Endpoints : NoMemory \notin [previous : SUBSET TableRows, reported : [E -> Nat]]

\* What Windows says of an owner, a record or a process tells a person's doing.
Names == [account : STRING, form : {"domain", "bare", "principal"}, case : {"upper", "lower"}]
Accounts == [name : Names \cup {NoName}, sid : STRING]

ASSUME OwnersAssumption ==
    /\ NoName \notin Names /\ NoName # [account |-> "SYSTEM", form |-> "domain", case |-> "upper"]
    /\ \A r \in TableRows : r.port \in Nat /\ r.pid \in DOMAIN Owners
    /\ \A pid \in DOMAIN Owners :
        LET process == Owners[pid] IN
        /\ process.owner \in Accounts /\ process.parent \in Accounts
        /\ process.owner.name # NoName
        /\ process.person \in BOOLEAN
        /\ process.person <=>
              pid \notin KernelPids /\ ~IsServiceAccount(process.owner.name, process.owner.sid)

ShowsPerson(record) ==
    /\ record.id \in {4624, 4625, 4634, 4647, 4778, 4779}
    /\ ~IsServiceAccount(record.name, "any")
    /\ record.id \in {4624, 4634, 4647} => record.sid \notin ServiceSids
    /\ record.id \in {4624, 4634} => record.logon \notin NonHumanLogons
    /\ record.id \in {4778, 4779} => record.remote

Administering == DOMAIN AccountChangeTypes \cup MemberAdded \cup MemberRemoved \cup {4704, 4705}

ASSUME RecordsAssumption ==
    \A r \in Records :
        /\ {r.name, r.actor, r.target} \subseteq Names \cup {NoName}
        /\ {r.person, r.administers, r.remote, r.privileged} \subseteq BOOLEAN
        /\ r.administers <=> r.id \in Administering
        /\ ~r.administers => (r.person <=> ShowsPerson(r))
        /\ r.person => LET name == IF r.administers THEN r.actor ELSE r.name IN
                       ~IsServiceAccount(name, "any") /\ name.account = r.by

ASSUME LaunchesAssumption ==
    \A l \in Launches :
        \/ l.source = "usb" /\ l.removable \in BOOLEAN
        \/ /\ l.source = "process"
           /\ l.owner \in Accounts /\ l.parent \in Accounts
           /\ l.owner.name # NoName /\ l.signedIn \in Names \cup {NoName}
           /\ l.person \in BOOLEAN
           /\ l.person <=> ~IsServiceAccount(l.owner.name, l.owner.sid)

FirstWorld ==
    [drive |-> [volume |-> FirstVolume, disks |-> FirstFiles, locked |-> {}],
     downloads |-> <<>>, network |-> {}, log |-> [present |-> {}, written |-> <<>>], wmi |-> <<>>]

SensorsInit ==
    /\ watched \in Watchable
    /\ alive = TRUE
    /\ memory = NoMemory
    /\ world = FirstWorld[watched]
    /\ queued = {} /\ since = {} /\ told = <<>> /\ due = {}
    /\ stirred = 0 /\ now = 1 /\ deeds = 0 /\ hitches = 0

(***************************************************************************)
(* The machine.  deeds numbers what is done, so it serves as a             *)
(* modification time.                                                      *)
(***************************************************************************)
Done(machine, noticed) ==
    /\ deeds < MaxDeeds /\ deeds' = deeds + 1
    /\ stirred' = now
    /\ world' = machine
    /\ since' = noticed
    /\ UNCHANGED <<watched, alive, memory, queued, told, due, now, hitches>>

\* A drive.  Whoever swaps it between two polls changes every file on it.
Mounted == IF world.volume = NoVolume THEN NoMemory ELSE world.disks[world.volume]

With(files, p, file) == [q \in DOMAIN files \cup {p} |-> IF q = p THEN file ELSE files[q]]

Without(files, p) == Restrict(files, DOMAIN files \ {p})

OnDrive(files, touched) ==
    Done([world EXCEPT !.disks[world.volume] = files], since \cup touched)

DriveDeed ==
    /\ watched = "drive"
    /\ \/ /\ world.volume # NoVolume
          /\ \E p \in DOMAIN Dir :
                \/ OnDrive(With(Mounted, p, deeds), {p})
                \/ p \in DOMAIN Mounted /\ OnDrive(Without(Mounted, p), {p})
                \/ \E q \in DOMAIN Mounted \ {p} :
                    \/ OnDrive(With(Mounted, p, Mounted[q]), {p})
                    \/ OnDrive(With(Without(Mounted, q), p, Mounted[q]), {p, q})
       \/ \E d \in Range(Dir) \cup {"root"} :
            /\ world.volume # NoVolume
            /\ Done([world EXCEPT !.locked = SymDiff(@, {d})], since)
       \/ \E v \in DOMAIN FirstFiles \cup {NoVolume} :
            /\ v # world.volume
            /\ Done([world EXCEPT !.volume = v, !.locked = {}], since \cup DOMAIN Dir)

\* The Downloads folder.  What lands, comes by its final name or gets its mark
\* after the collector has dealt with a file of that name, goes unseen.
Settling(p) ==
    \/ memory = NoMemory
    \/ p \notin DOMAIN memory.watcher.last.files
    \/ p \in DOMAIN memory.watcher.pending

Arrived(p, files) ==
    Done(files, IF p \notin Temporary /\ Settling(p) THEN since \cup {p} ELSE since \ {p})

\* What a file dealt with already held when the folder was last looked at: a
\* file that comes to hold it was renamed, or put back.
Known(state) ==
    /\ memory # NoMemory
    /\ \E p \in DOMAIN memory.watcher.last.files \ DOMAIN memory.watcher.pending :
            memory.watcher.last.files[p] = state

WebDeed ==
    /\ watched = "downloads"
    /\ \E p \in WebFiles :
        \/ \E marked \in BOOLEAN :
             Arrived(p, With(world, p, [state |-> deeds, marked |-> marked, at |-> now]))
        \/ \E q \in DOMAIN world \ {p} :
             LET files == With(Without(world, q), p, [world[q] EXCEPT !.at = now]) IN
             IF Known(world[q].state) THEN Done(files, since \ {p}) ELSE Arrived(p, files)
        \/ /\ p \in DOMAIN world /\ ~world[p].marked
           /\ Done(With(world, p, [state |-> world[p].state, marked |-> TRUE, at |-> now]),
                   IF Settling(p) \/ p \in DOMAIN memory.awaiting THEN since ELSE since \ {p})
        \/ p \in DOMAIN world /\ Done(Without(world, p), since \ {p})

\* The TCP table.  A connection closed and opened again between two polls is
\* the same row.
TcpDeed ==
    /\ watched = "network"
    /\ \E r \in TableRows :
        \/ /\ r \notin world
           /\ Done(world \cup {r},
                   IF memory # NoMemory /\ r \in memory.previous THEN since ELSE since \cup {r})
        \/ r \in world /\ Done(world \ {r}, since \ {r})

\* The Security log numbers its records on when it is cleared.
LogDeed ==
    /\ watched = "log"
    /\ LET next == Len(world.written) + 1 IN
       \/ \E r \in Records :
            Done([present |-> world.present \cup {next}, written |-> Append(world.written, r)],
                 IF memory = NoMemory THEN since ELSE since \cup {next})
       \/ world.present # {} /\ Done([world EXCEPT !.present = {}], since)

WmiDeed ==
    /\ watched = "wmi"
    /\ \E l \in Launches : Done(Append(world, l), since)

(***************************************************************************)
(* The agent.                                                              *)
(***************************************************************************)
\* An event whose key is in the queue is left out of it.
Enqueued(events) == {e \in events : \A q \in queued : q.key # e.key}

Hitch == hitches < MaxHitches /\ hitches' = hitches + 1

\* The events of a poll are normalised and queued one by one; an insert that
\* fails ends the thread with the rest of them unqueued.
Handle(result, observed) ==
    /\ alive /\ now < MaxPolls /\ now' = now + 1
    /\ memory' = result.memory
    /\ \E handed \in SUBSET result.raws :
        /\ \A a \in handed, b \in result.raws : Precedes(b, a) => b \in handed
        /\ queued' = queued \cup Enqueued(UNION {Normalise(raw) : raw \in handed})
        /\ IF handed = result.raws
           THEN UNCHANGED <<alive, hitches>> /\ due' = due \cup observed
           ELSE alive' = FALSE /\ Hitch /\ due' = due
    /\ UNCHANGED <<watched, world, deeds, stirred>>

\* What a reader who knows of some files makes of a poll's events on a drive.
Reported(known, raws) ==
    LET changes == {raw \in raws : raw.kind # "data_transfer"}
        gone == {c.from : c \in {c \in changes : c.kind = "renamed"}}
                \cup {c.path : c \in {c \in changes : c.kind = "deleted"}}
        present == {c \in changes : c.kind # "deleted"}
    IN  [p \in (DOMAIN known \ gone) \cup {c.path : c \in present} |->
            IF \E c \in present : c.path = p
            THEN (CHOOSE c \in present : c.path = p).state ELSE known[p]]

PollDrive ==
    /\ watched = "drive"
    /\ LET result == DrivePoll(memory, Mounted, world.locked, now, Console)
           view == result.memory.last
           first == memory = NoMemory \/ memory.last = NoSnapshot
       IN  /\ Handle(result, {})
           /\ IF Mounted = NoMemory \/ view = NoSnapshot
              THEN told' = <<>> /\ since' = {}
              ELSE /\ told' = IF first THEN view.files ELSE Reported(told, result.raws)
                   /\ since' = (IF first THEN {} ELSE since)
                               \cup (DOMAIN Mounted \ DOMAIN view.files)
                               \cup {0 : t \in {TRUE} \cap {view.truncated}}

PollDownloads ==
    /\ watched = "downloads"
    /\ LET result == DownloadPoll(memory, world, now, Console)
           view == DOMAIN result.memory.watcher.last.files
       IN  /\ Handle(result,
                  IF memory = NoMemory THEN {}
                  ELSE {<<"download", p, world[p].state>> :
                            p \in {p \in since \cap view : world[p].marked /\ now > world[p].at}})
           /\ since' = IF memory = NoMemory THEN {} ELSE since \cap view
           /\ told' = IF memory = NoMemory THEN Restrict(world, view)
                      ELSE Restrict(told, DOMAIN told \cap view)

\* What is asked for its owner is taken for a service: its own or its parent's.
TakenForService(process, reply) ==
    LET owner == ResolvedOwner(process, reply) IN
    owner.name # NoName /\ IsServiceAccount(owner.name, owner.sid)

\* A process is asked once in a poll, whatever it connects to.
PollNetwork ==
    /\ watched = "network"
    /\ \E replies \in [{r.pid : r \in Established(world)} \ KernelPids -> Replies] :
        LET owners == [pid \in DOMAIN replies |-> ResolvedOwner(Owners[pid], replies[pid])]
            result == NetworkPoll(memory, world, owners, now)
            reported == result.memory.reported
            answered == [e \in {e \in DOMAIN reported : e[1] \notin KernelPids} |->
                            IF reported[e] = now THEN replies[e[1]] ELSE told[e]]
        IN  /\ Handle(result,
                  IF memory = NoMemory THEN {}
                  ELSE {<<"tcp", r.pid, r.remote, r.service, now>> :
                           r \in {r \in since \cap Established(world) :
                                    /\ Owners[r.pid].person
                                    /\ ~TakenForService(Owners[r.pid], answered[Endpoint(r)])}})
            /\ told' = answered
    /\ since' = {}

PollLog ==
    /\ watched = "log"
    /\ LET log == [n \in world.present |-> world.written[n]] IN
       \E failed \in BOOLEAN, reach \in 0..Cardinality(world.present) :
            Handle(SecurityPoll(memory, log, failed, reach),
                   IF failed THEN {}
                   ELSE {<<"log", log[n].id, n>> : n \in {n \in since \cap world.present : log[n].person}})
    /\ UNCHANGED <<since, told>>

\* One event of the subscription, and who answers for its process's owner.
PollWmi ==
    /\ watched = "wmi"
    /\ \E reply \in Replies :
        LET n == memory + 1
            event == world[n]
            raws == IF event.source = "usb" THEN UsbRaws(event, now, Console)
                    ELSE {ProcessRaw(event, n, reply)}
        IN  IF memory = NoMemory
            THEN Handle(Poll(Len(world), {}), {}) /\ UNCHANGED told
            ELSE /\ memory < Len(world)
                 /\ Handle(Poll(n, raws),
                        IF event.source = "usb"
                        THEN {<<"usb", event.kind, event.device, now>> : raw \in raws}
                        ELSE {k \in {<<"process", event.pid, n>>} :
                                /\ event.person
                                /\ ~TakenForService(event, reply)
                                /\ event.session = 0 => ResolvedOwner(event, reply).name # NoName})
                 /\ told' = With(told, n, reply)
    /\ UNCHANGED since

\* The table or the subscription can't be read: logged, and tried again.
ReadFails ==
    /\ watched \in {"network", "wmi"} /\ alive
    /\ now < MaxPolls /\ now' = now + 1
    /\ Hitch
    /\ UNCHANGED <<watched, alive, memory, world, queued, since, told, due, stirred, deeds>>

\* The log is no longer to be read: the collector polls no more.
AccessDenied ==
    /\ watched = "log" /\ alive
    /\ alive' = FALSE
    /\ Hitch
    /\ UNCHANGED <<watched, memory, world, queued, since, told, due, stirred, now, deeds>>

\* The agent starts anew: what it remembered is gone, the queue is not.
AgentRestarts ==
    /\ Hitch
    /\ alive' = TRUE /\ memory' = NoMemory
    /\ since' = {} /\ told' = <<>>
    /\ UNCHANGED <<watched, world, queued, due, stirred, now, deeds>>

SensorsNext ==
    \/ DriveDeed \/ WebDeed \/ TcpDeed \/ LogDeed \/ WmiDeed
    \/ PollDrive \/ PollDownloads \/ PollNetwork \/ PollLog \/ PollWmi
    \/ ReadFails \/ AccessDenied \/ AgentRestarts

SensorsSpec == SensorsInit /\ [][SensorsNext]_sensorVars

(***************************************************************************)
(* Properties.                                                             *)
(***************************************************************************)

\* The first snapshot of a drive and the events after it account for what is
\* on it: they give every file that has settled, in its present state, and no
\* other; and a drive left alone for two polls is described as it is.  Once a
\* snapshot stops short, files may be missed leaving, but none coming.
DriveAccounted ==
    (watched = "drive" /\ alive /\ memory # NoMemory /\ Mounted # NoMemory /\ memory # Watcher) =>
        LET settled == DOMAIN memory.last.files \ DOMAIN memory.pending
            visible == DOMAIN Mounted \ Hidden(world.locked)
        IN  /\ \A p \in settled : p \in DOMAIN told /\ told[p] = memory.last.files[p]
            /\ 0 \notin since => DOMAIN told = settled
            /\ (0 \notin since /\ now >= stirred + 2 /\ "root" \notin world.locked) =>
                  told = Restrict(Mounted, visible)

\* Everything that was there to be reported is in the queue once a poll that
\* saw it ends: downloads with their mark, connections (or an event on the same
\* endpoint in the repeat window), log records past the bookmark, processes,
\* drives; each as an event of its own.  One exception: a person's process that
\* could not be asked is dropped as a service's when its parent is one, or, if
\* nobody could be asked, when it runs in session 0; so is its connection, and
\* then any other it makes to that endpoint in the repeat window.
Begins(key, start) == \A i \in DOMAIN start : i \in DOMAIN key /\ key[i] = start[i]

Answers(e, k) ==
    IF k[1] = "tcp"
    THEN /\ Begins(e.key, <<"tcp", k[2], k[3], k[4]>>)
         /\ e.key[6] <= k[5] /\ k[5] - e.key[6] < RepeatWindow
    ELSE Begins(e.key, k)

NothingMissed == \A k \in due : \E e \in queued : Answers(e, k)

\* What was there when a collector started is not reported, nor what a service
\* did (unless that is asked for, or the process could not be asked itself for
\* its owner and identifier), nor an endpoint again in the repeat window.
\* A file on a drive may be, if it was out of view (locked away, beyond the
\* limit, or on another drive under the same letter).
InFull == [of |-> "own", sid |-> TRUE]

IsNew(e) ==
    CASE e.key[1] = "removable" -> e.key[3] \in since' \cup {0}
      [] e.key[1] = "download" ->
            /\ world[e.key[2]].marked
            /\ e.key[2] \notin DOMAIN told \/ world[e.key[2]] # told[e.key[2]]
      [] e.key[1] = "tcp" ->
            /\ \E r \in since : Endpoint(r) = <<e.key[2], e.key[3], e.key[4]>>
            /\ \A q \in queued :
                Begins(q.key, <<"tcp", e.key[2], e.key[3], e.key[4]>>) =>
                    now - q.key[6] >= RepeatWindow \/ hitches > 0
            /\ \/ KeepSystem \/ Owners[e.key[2]].person
               \/ /\ e.key[2] \notin KernelPids
                  /\ told'[<<e.key[2], e.key[3], e.key[4]>>] # InFull
      [] e.key[1] = "log" ->
            LET record == world.written[e.key[3]] IN
            e.key[3] \in since /\ (KeepSystem \/ record.person \/ record.administers)
      [] e.key[1] = "process" ->
            KeepSystem \/ world[e.key[3]].person \/ told'[e.key[3]] # InFull
      [] e.key[1] = "usb" -> \E n \in DOMAIN world : world[n].source = "usb" /\ world[n].removable

OnlyNewActivity == [][\A e \in queued' \ queued : alive => IsNew(e)]_sensorVars

\* An event is credited to whoever did it, under one name however it was
\* written, but for principal names.  A process that could not be asked goes
\* to its parent's owner or to the person signed in to its session, and its
\* connection to its parent's owner or to nobody.
Credited(e) ==
    CASE e.key[1] = "log" ->
            LET record == world.written[e.key[3]]
                written == IF record.administers THEN record.actor ELSE record.name
            IN  record.person =>
                    /\ e.user.account = record.by
                    /\ written.form = "domain" =>
                          e.user = [account |-> record.by, form |-> "domain", case |-> "lower"]
      [] e.key[1] = "process" ->
            LET process == world[e.key[3]] IN
            IF told'[e.key[3]].of = "own" THEN e.user = FormatUser(process.owner.name)
            ELSE e.user \in {FormatUser(process.parent.name), FormatUser(SessionOwner(process))}
      [] e.key[1] = "tcp" /\ e.key[2] \notin KernelPids ->
            LET process == Owners[e.key[2]] IN
            IF told'[<<e.key[2], e.key[3], e.key[4]>>].of = "own"
            THEN e.user = FormatUser(process.owner.name)
            ELSE e.user \in {FormatUser(process.parent.name), Unknown}
      [] OTHER -> TRUE

CreditedToActor == [][\A e \in queued' \ queued : Credited(e)]_sensorVars
=============================================================================
