---------------------------- MODULE FolderWatch ----------------------------
(***************************************************************************)
(* Snapshots of a folder and the changes read off them                     *)
(* (agent/itbis_agent/collectors/_snapshot.py).                            *)
(*                                                                         *)
(* A path is a number, in the order the folder is walked.  A file's size   *)
(* and modification time are one value, its state, because the code only   *)
(* compares the pair.                                                      *)
(***************************************************************************)
EXTENDS Naturals, FiniteSets, Functions

CONSTANTS MaxFiles, NoSnapshot

TakeSnapshot(files, hidden) ==
    LET seen == DOMAIN files \ hidden IN
    [files |-> Restrict(files, {p \in seen : Cardinality({q \in seen : q < p}) < MaxFiles}),
     truncated |-> Cardinality(seen) >= MaxFiles]

Change(kind, path, from, state) == [kind |-> kind, path |-> path, from |-> from, state |-> state]

Appeared(old, new) == DOMAIN new.files \ DOMAIN old.files

Gone(old, new) ==
    IF old.truncated \/ new.truncated THEN {} ELSE DOMAIN old.files \ DOMAIN new.files

\* A file gone and a file come with the same state, and nothing else like them.
Renames(old, new) ==
    {pair \in Gone(old, new) \X Appeared(old, new) :
        /\ old.files[pair[1]] = new.files[pair[2]]
        /\ \A p \in Gone(old, new) \ {pair[1]} : old.files[p] # old.files[pair[1]]
        /\ \A q \in Appeared(old, new) \ {pair[2]} : new.files[q] # new.files[pair[2]]}

Diff(old, new) ==
    LET renames == Renames(old, new) IN
    {Change("modified", p, p, new.files[p]) :
        p \in {p \in DOMAIN old.files \cap DOMAIN new.files : old.files[p] # new.files[p]}}
    \cup {Change("renamed", r[2], r[1], new.files[r[2]]) : r \in renames}
    \cup {Change("created", q, q, new.files[q]) :
            q \in Appeared(old, new) \ {r[2] : r \in renames}}
    \cup {Change("deleted", p, p, old.files[p]) :
            p \in Gone(old, new) \ {r[1] : r \in renames}}

Watcher == [last |-> NoSnapshot, pending |-> <<>>]

Baseline(snapshot) == [Watcher EXCEPT !.last = snapshot]

\* A change that opens or prolongs the settling of a new file.
IsYoung(pending, change) ==
    \/ change.kind = "created"
    \/ change.kind = "renamed" /\ change.from \in DOMAIN pending

\* A change to a file that is still settling, which is not a change by itself.
IsUnsettled(pending, change) ==
    change.kind \in {"modified", "deleted"} /\ change.path \in DOMAIN pending

Settled(pending, snapshot) ==
    {p \in DOMAIN pending \cap DOMAIN snapshot.files : snapshot.files[p] = pending[p]}

\* The changes a scan reports, and the watcher after it.
ScanChanges(watcher, snapshot) ==
    {c \in Diff(watcher.last, snapshot) :
        ~IsYoung(watcher.pending, c) /\ ~IsUnsettled(watcher.pending, c)}
    \cup {Change("created", p, p, snapshot.files[p]) : p \in Settled(watcher.pending, snapshot)}

\* Mutant: the new files replace those still settling.
Restarted(watcher, snapshot) ==
    [last |-> snapshot,
     pending |-> Restrict(snapshot.files,
        {c.path : c \in {c \in Diff(watcher.last, snapshot) : IsYoung(watcher.pending, c)}})]

Scanned(watcher, snapshot) ==
    LET young == {c.path : c \in {c \in Diff(watcher.last, snapshot) : IsYoung(watcher.pending, c)}}
        still == (DOMAIN watcher.pending \cap DOMAIN snapshot.files)
                 \ Settled(watcher.pending, snapshot)
    IN  [last |-> snapshot, pending |-> Restrict(snapshot.files, young \cup still)]

\* One scan of a folder, whose unreadable subfolders hide some files: an
\* unreadable folder changes nothing and the first snapshot is the baseline.
Scan(watcher, files, hidden, readable) ==
    LET snapshot == TakeSnapshot(files, hidden) IN
    CASE ~readable -> [watcher |-> watcher, changes |-> {}]
      [] readable /\ watcher.last = NoSnapshot ->
            [watcher |-> Baseline(snapshot), changes |-> {}]
      [] OTHER -> [watcher |-> Scanned(watcher, snapshot),
                   changes |-> ScanChanges(watcher, snapshot)]
=============================================================================
