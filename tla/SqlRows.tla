------------------------------ MODULE SqlRows ------------------------------
(***************************************************************************)
(* Rows of PostgreSQL tables and the transactions of the requests that     *)
(* read, change and save them.                                             *)
(*                                                                         *)
(* A repository returns a copy of a row and forgets the row: the session's *)
(* identity map holds it weakly.  Saving the copy therefore reads the row  *)
(* again ("reread") and then writes the columns in which the copy differs  *)
(* from that second reading ("write").  What was committed between the two *)
(* readings is undone; what was committed after the second is kept.        *)
(*                                                                         *)
(* A row is a function from columns to values.  job[w] is the request the  *)
(* handler w is serving: the copies it holds, what it has read again, and  *)
(* the steps it still has to take.                                         *)
(***************************************************************************)
EXTENDS Naturals, Sequences, FiniteSets, Functions

CONSTANTS Workers,     \* handlers that can serve a request at one time
          Entities,    \* primary keys
          NoRow, Nobody

VARIABLES row,         \* the committed rows
          dirty,       \* per handler: what its transaction has written
          job,         \* per handler: the request it serves
          late,        \* history: handlers whose second reading was overtaken
          behind       \* history: handlers whose write was

rowVars == <<row, dirty, job, late, behind>>

None == [e \in {} |-> NoRow]

Idle == [kind |-> "idle", copy |-> None, base |-> None,
         counted |-> FALSE, seen |-> {}, todo |-> <<>>]

RowsInit(stored) ==
    /\ row = stored
    /\ dirty = [w \in Workers |-> None]
    /\ job = [w \in Workers |-> Idle]
    /\ late = {}
    /\ behind = {}

\* The steps of save(): a second reading, then the flush.
Save(e) == <<<<"reread", e>>, <<"write", e>>>>

At(w, step) == job[w].todo # <<>> /\ Head(job[w].todo)[1] = step
Subject(w) == Head(job[w].todo)[2]

Start(w, kind, copy, todo) ==
    /\ job[w] = Idle
    /\ job' = [job EXCEPT ![w] = [Idle EXCEPT !.kind = kind,
                                              !.copy = copy, !.todo = todo]]

Advance(w) == job' = [job EXCEPT ![w].todo = Tail(@)]

Reread(w) ==
    /\ At(w, "reread")
    /\ LET e == Subject(w)
       IN job' = [job EXCEPT ![w].base = [x \in DOMAIN @ \cup {e} |-> IF x = e THEN row[e] ELSE @[x]],
                             ![w].todo = Tail(@)]
    /\ UNCHANGED <<row, dirty, late, behind>>

\* A row another transaction has written is locked until that one ends.
Locked(w, e) == \E v \in Workers \ {w} : e \in DOMAIN dirty[v]

\* UPDATE sets the columns that changed, INSERT sets them all.
Written(e, copy, base) ==
    IF base = NoRow
    THEN copy
    ELSE [c \in DOMAIN copy |-> IF copy[c] # base[c] THEN copy[c] ELSE row[e][c]]

\* Mutant: the column has no unique constraint.
Free(w, e) == TRUE

\* An INSERT breaks a unique constraint when the row is there by now.
Unique(w, e) == job[w].base[e] = NoRow => row[e] = NoRow

Write(w) ==
    /\ At(w, "write")
    /\ LET e == Subject(w)
       IN /\ ~Locked(w, e)
          /\ Unique(w, e)
          /\ dirty' = [dirty EXCEPT ![w] =
                [x \in DOMAIN @ \cup {e} |->
                    IF x = e THEN Written(e, job[w].copy[e], job[w].base[e]) ELSE @[x]]]
    /\ Advance(w)
    /\ UNCHANGED <<row, late, behind>>

Forget(w) ==
    /\ dirty' = [dirty EXCEPT ![w] = None]
    /\ job' = [job EXCEPT ![w] = Idle]

\* Handlers that still have to take this step on a row the commit of w changes.
Overtaken(w, step) ==
    {v \in Workers \ {w} :
        \E e \in DOMAIN dirty[w] :
            <<step, e>> \in Range(job[v].todo) /\ dirty[w][e] # row[e]}

After(w) == [e \in Entities |-> IF e \in DOMAIN dirty[w] THEN dirty[w][e] ELSE row[e]]

CommitRows(w) ==
    /\ At(w, "commit")
    /\ row' = After(w)
    /\ behind' = (behind \cup Overtaken(w, "write")) \ {w}
    /\ Forget(w)

\* The handler raises, the flush breaks a unique constraint, or the process
\* dies: the session is rolled back.
Rollback(w) ==
    /\ job[w] # Idle
    /\ Forget(w)
    /\ late' = late \ {w}
    /\ behind' = behind \ {w}
    /\ UNCHANGED row
=============================================================================
