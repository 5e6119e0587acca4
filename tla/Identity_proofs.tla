-------------------------- MODULE Identity_proofs --------------------------
(***************************************************************************)
(* However many handlers serve however many requests: no row is written by *)
(* two transactions at a time, and the last active administrator goes only *)
(* with a handler that was overtaken or with an approval (AdminRemains).   *)
(*                                                                         *)
(* The argument follows one request.  Until it has written a user's row it *)
(* still has a write of that row to take, so a commit that changes the row *)
(* overtakes it (late, behind); from then on the row is locked.  What it   *)
(* commits, unless overtaken, is therefore the copy it held from the       *)
(* start, and if that copy demotes an administrator it has counted another *)
(* one, who is still there, for removing one overtakes those who counted.  *)
(***************************************************************************)
EXTENDS Identity, FiniteSetTheorems, TLAPS

UserRows == [{"active"} \cup Roles -> BOOLEAN]

(* What the handlers' steps are on: rows, tokens, nothing. *)
Names == Entities \cup Tokens \cup {Nobody}
StepNames == {"count", "reread", "write", "commit", "issue", "load", "spend", "list", "drop"}
Steps == StepNames \X Names

(* Which step may come before which other in a request: the commit is the  *)
(* last one, counting the first; a row is read again before it is written, *)
(* and written once; tokens are revoked after the row is written.          *)
Before(a, b) ==
    /\ a[1] # "commit"
    /\ b[1] # "count"
    /\ a[1] = "list" => b[1] \in {"drop", "commit"}
    /\ a[1] = "drop" => b[1] = "commit"
    /\ ~(a[1] = "write" /\ b[1] \in {"reread", "write"} /\ a[2] = b[2])

Ordered(s) == \A i, j \in DOMAIN s : i < j => Before(s[i], s[j])

JobFields == {"kind", "copy", "base", "counted", "seen", "todo"}

Typed ==
    /\ \A u \in Users : row[u] \in UserRows \cup {NoRow}
    /\ DOMAIN row = Entities
    /\ DOMAIN dirty = Workers
    /\ DOMAIN job = Workers /\ \A w \in Workers : DOMAIN job[w] = JobFields
    /\ holder \in [Tokens -> Names]

(* A row is locked by one transaction at a time. *)
RowsLocked == \A v, w \in Workers : v # w => DOMAIN dirty[v] \cap DOMAIN dirty[w] = {}

(* The request of a handler: its copies, what is left of its steps, what   *)
(* its transaction has written.                                            *)
JobOK(w) ==
    /\ job[w].kind = "idle" => job[w].todo = <<>> /\ DOMAIN dirty[w] = {}
    /\ job[w].todo \in Seq(Steps) /\ Ordered(job[w].todo)
    /\ DOMAIN job[w].copy \subseteq Entities
    /\ \A u, v \in Users \cap DOMAIN job[w].copy : u = v
    /\ \A u \in Users \cap DOMAIN job[w].copy : job[w].copy[u] \in UserRows
    /\ \A u \in Users \cap DOMAIN job[w].base : job[w].base[u] # NoRow => row[u] \in UserRows
    /\ \A s \in Range(job[w].todo) :
          s[1] = "write" => s[2] \in DOMAIN job[w].copy \ DOMAIN dirty[w]
    /\ DOMAIN dirty[w] \subseteq DOMAIN job[w].copy
    /\ \A u \in Users \cap DOMAIN dirty[w] : dirty[w][u] \in UserRows
    /\ \A u \in (Users \cap DOMAIN job[w].copy) \ DOMAIN dirty[w] :
          /\ <<"write", u>> \in Range(job[w].todo)
          /\ <<"reread", u>> \in Range(job[w].todo) \/ u \in DOMAIN job[w].base

(* A handler nobody overtook: the row is what it was when it was read      *)
(* again, and what is written is the copy.                                 *)
Exact(w) ==
    w \notin late \cup behind =>
        /\ \A u \in (Users \cap DOMAIN job[w].copy) \ DOMAIN dirty[w] :
              <<"reread", u>> \in Range(job[w].todo) \/ job[w].base[u] = row[u]
        /\ \A u \in Users \cap DOMAIN dirty[w] : dirty[w][u] = job[w].copy[u]

(* r is the row of an active administrator. *)
Admin(u, r) == r # NoRow /\ r["active"] /\ IsAdmin(u, r)

Demotes(w, u) == Admin(u, row[u]) /\ ~Admin(u, job[w].copy[u])

Counting(w, u) == \E s \in Range(job[w].todo) : s[1] = "count"

(* Who demotes an administrator counts the others first, and there is one. *)
OneLeft(w) ==
    w \notin late \cup behind /\ job[w].kind # "approve" =>
        \A u \in Users \cap DOMAIN job[w].copy :
            Demotes(w, u) =>
                \/ Counting(w, u)
                \/ job[w].counted /\ ActiveAdmins \ {u} # {}

HandlerInv(w) == JobOK(w) /\ Exact(w) /\ OneLeft(w)

IInv == Typed /\ RowsLocked /\ \A w \in Workers : HandlerInv(w)

-----------------------------------------------------------------------------
(* Sequences of steps.                                                     *)

(* Taking the first step off leaves the others in their order. *)
LEMMA OneStepLess ==
  ASSUME NEW s \in Seq(Steps), s # <<>>, Ordered(s)
  PROVE  /\ Tail(s) \in Seq(Steps)
         /\ Ordered(Tail(s))
         /\ Head(s) \in Steps
         /\ Range(s) = {Head(s)} \cup Range(Tail(s))
         /\ \A x \in Range(Tail(s)) : Before(Head(s), x)
<1>1. /\ Tail(s) \in Seq(Steps) /\ Len(s) \in Nat /\ Len(s) >= 1
      /\ DOMAIN s = 1..Len(s)
      /\ DOMAIN Tail(s) = 1..(Len(s) - 1)
      /\ \A i \in 1..(Len(s) - 1) : Tail(s)[i] = s[i + 1]
      /\ Head(s) = s[1] /\ Head(s) \in Steps
  OBVIOUS
<1>2. Ordered(Tail(s))
  BY <1>1 DEF Ordered
<1>3. \A x \in Range(Tail(s)) : Before(Head(s), x) /\ x \in Range(s)
  BY <1>1 DEF Ordered, Range
<1>4. \A x \in Range(s) : x = Head(s) \/ x \in Range(Tail(s))
  <2> SUFFICES ASSUME NEW i \in 1..Len(s), i # 1 PROVE s[i] \in Range(Tail(s))
    BY <1>1 DEF Range
  <2>1. i - 1 \in 1..(Len(s) - 1) /\ Tail(s)[i - 1] = s[i]
    BY <1>1
  <2> QED
    BY <2>1, <1>1 DEF Range
<1>5. Head(s) \in Range(s)
  BY <1>1 DEF Range
<1> QED
  BY <1>1, <1>2, <1>3, <1>4, <1>5

(* Two orders are put one after the other. *)
LEMMA OneAfterTheOther ==
  ASSUME NEW s \in Seq(Steps), NEW t \in Seq(Steps), Ordered(s), Ordered(t),
         \A x \in Range(s), y \in Range(t) : Before(x, y)
  PROVE  s \o t \in Seq(Steps) /\ Ordered(s \o t) /\ Range(s \o t) = Range(s) \cup Range(t)
<1>1. /\ s \o t \in Seq(Steps) /\ Len(s) \in Nat /\ Len(t) \in Nat
      /\ DOMAIN s = 1..Len(s) /\ DOMAIN t = 1..Len(t)
      /\ DOMAIN (s \o t) = 1..(Len(s) + Len(t))
      /\ \A i \in 1..(Len(s) + Len(t)) :
            (s \o t)[i] = IF i <= Len(s) THEN s[i] ELSE t[i - Len(s)]
  OBVIOUS
<1>2. Ordered(s \o t)
  <2> SUFFICES ASSUME NEW i \in 1..(Len(s) + Len(t)), NEW j \in 1..(Len(s) + Len(t)), i < j
               PROVE  Before((s \o t)[i], (s \o t)[j])
    BY <1>1 DEF Ordered
  <2>1. CASE j <= Len(s)
    <3>1. i \in DOMAIN s /\ j \in DOMAIN s /\ (s \o t)[i] = s[i] /\ (s \o t)[j] = s[j]
      BY <1>1, <2>1
    <3> QED
      BY <3>1 DEF Ordered
  <2>2. CASE i > Len(s)
    <3>1. /\ i - Len(s) \in DOMAIN t /\ j - Len(s) \in DOMAIN t /\ i - Len(s) < j - Len(s)
          /\ (s \o t)[i] = t[i - Len(s)] /\ (s \o t)[j] = t[j - Len(s)]
      BY <1>1, <2>2
    <3> QED
      BY <3>1 DEF Ordered
  <2>3. CASE i <= Len(s) /\ j > Len(s)
    <3>1. /\ i \in DOMAIN s /\ j - Len(s) \in DOMAIN t
          /\ (s \o t)[i] = s[i] /\ (s \o t)[j] = t[j - Len(s)]
      BY <1>1, <2>3
    <3>2. s[i] \in Range(s) /\ t[j - Len(s)] \in Range(t)
      BY <3>1 DEF Range
    <3> QED
      BY <3>1, <3>2
  <2> QED
    BY <1>1, <2>1, <2>2, <2>3
<1>3. Range(s \o t) \subseteq Range(s) \cup Range(t)
  BY <1>1 DEF Range
<1>4. Range(s) \subseteq Range(s \o t)
  BY <1>1 DEF Range
<1>5. Range(t) \subseteq Range(s \o t)
  <2> SUFFICES ASSUME NEW j \in DOMAIN t PROVE t[j] \in Range(s \o t)
    BY DEF Range
  <2>1. j + Len(s) \in 1..(Len(s) + Len(t)) /\ (s \o t)[j + Len(s)] = t[j]
    BY <1>1
  <2> QED
    BY <2>1, <1>1 DEF Range
<1> QED
  BY <1>1, <1>2, <1>3, <1>4, <1>5

(* Short sequences. *)
LEMMA Ones ==
  ASSUME NEW a \in Steps
  PROVE  <<a>> \in Seq(Steps) /\ Ordered(<<a>>) /\ Range(<<a>>) = {a}
BY DEF Ordered, Range

LEMMA Twos ==
  ASSUME NEW a \in Steps, NEW b \in Steps, Before(a, b)
  PROVE  <<a, b>> \in Seq(Steps) /\ Ordered(<<a, b>>) /\ Range(<<a, b>>) = {a, b}
BY DEF Ordered, Range

LEMMA Threes ==
  ASSUME NEW a \in Steps, NEW b \in Steps, NEW c \in Steps,
         Before(a, b), Before(a, c), Before(b, c)
  PROVE  /\ <<a, b, c>> \in Seq(Steps) /\ Ordered(<<a, b, c>>)
         /\ Range(<<a, b, c>>) = {a, b, c}
BY DEF Ordered, Range

LEMMA NamesAre == Entities \subseteq Names /\ Tokens \subseteq Names /\ Nobody \in Names
BY DEF Names

(* save() and the commit; one step alone. *)
LEMMA SaveInOrder ==
  ASSUME NEW e \in Entities
  PROVE  /\ Save(e) \in Seq(Steps) /\ Ordered(Save(e))
         /\ Range(Save(e)) = {<<"reread", e>>, <<"write", e>>}
<1>1. <<"reread", e>> \in Steps /\ <<"write", e>> \in Steps
  BY NamesAre DEF Steps, StepNames
<1>2. Before(<<"reread", e>>, <<"write", e>>)
  BY DEF Before
<1> QED
  BY <1>1, <1>2, Twos DEF Save

LEMMA DoneInOrder ==
  /\ Done \in Seq(Steps) /\ Ordered(Done) /\ Range(Done) = {<<"commit", Nobody>>}
<1>1. <<"commit", Nobody>> \in Steps
  BY NamesAre DEF Steps, StepNames
<1> QED
  BY <1>1, Ones DEF Done

LEMMA OneInOrder ==
  ASSUME NEW k \in StepNames, NEW e \in Names
  PROVE  /\ <<<<k, e>>>> \in Seq(Steps) /\ Ordered(<<<<k, e>>>>)
         /\ Range(<<<<k, e>>>>) = {<<k, e>>}
BY Ones DEF Steps

LEMMA NoneInOrder ==
  <<>> \in Seq(Steps) /\ Ordered(<<>>) /\ Range(<<>>) = {}
BY DEF Ordered, Range

LEMMA SaveAndDone ==
  ASSUME NEW e \in Entities
  PROVE  /\ Save(e) \o Done \in Seq(Steps) /\ Ordered(Save(e) \o Done)
         /\ Range(Save(e) \o Done) = {<<"reread", e>>, <<"write", e>>, <<"commit", Nobody>>}
<1>1. \A x \in Range(Save(e)), y \in Range(Done) : Before(x, y)
  BY SaveInOrder, DoneInOrder DEF Before
<1> QED
  BY <1>1, SaveInOrder, DoneInOrder, OneAfterTheOther

(* The steps of a request on an account and the request for it. *)
LEMMA SaveBothAndDone ==
  ASSUME NEW d \in Entities, NEW e \in Entities, d # e
  PROVE  /\ Save(d) \o Save(e) \o Done \in Seq(Steps) /\ Ordered(Save(d) \o Save(e) \o Done)
         /\ Range(Save(d) \o Save(e) \o Done) =
                {<<"reread", d>>, <<"write", d>>, <<"reread", e>>, <<"write", e>>, <<"commit", Nobody>>}
<1>1. \A x \in Range(Save(d)), y \in Range(Save(e)) : Before(x, y)
  BY SaveInOrder DEF Before
<1>2. /\ Save(d) \o Save(e) \in Seq(Steps) /\ Ordered(Save(d) \o Save(e))
      /\ Range(Save(d) \o Save(e)) = Range(Save(d)) \cup Range(Save(e))
  BY <1>1, SaveInOrder, OneAfterTheOther
<1>3. \A x \in Range(Save(d) \o Save(e)), y \in Range(Done) : Before(x, y)
  BY <1>2, SaveInOrder, DoneInOrder DEF Before
<1>4. /\ (Save(d) \o Save(e)) \o Done \in Seq(Steps) /\ Ordered((Save(d) \o Save(e)) \o Done)
      /\ Range((Save(d) \o Save(e)) \o Done) = Range(Save(d) \o Save(e)) \cup Range(Done)
  BY <1>2, <1>3, DoneInOrder, OneAfterTheOther
<1> QED
  BY <1>2, <1>4, SaveInOrder, DoneInOrder

LEMMA MaybeCount ==
  ASSUME NEW e \in Entities, NEW c, c = <<>> \/ c = <<<<"count", e>>>>
  PROVE  /\ c \in Seq(Steps) /\ Ordered(c)
         /\ \A x \in Range(c) : x = <<"count", e>>
<1>1. CASE c = <<>>
  BY <1>1, NoneInOrder
<1>2. CASE c = <<<<"count", e>>>>
  <2>1. "count" \in StepNames /\ e \in Names
    BY NamesAre DEF StepNames
  <2> QED
    BY <1>2, <2>1, OneInOrder
<1> QED
  BY <1>1, <1>2

(* Counting the administrators, if at all, then saving. *)
LEMMA CountSaveAndDone ==
  ASSUME NEW e \in Entities, NEW c, c = <<>> \/ c = <<<<"count", e>>>>
  PROVE  /\ c \o Save(e) \o Done \in Seq(Steps) /\ Ordered(c \o Save(e) \o Done)
         /\ Range(c \o Save(e) \o Done) =
                Range(c) \cup {<<"reread", e>>, <<"write", e>>, <<"commit", Nobody>>}
<1>1. /\ c \in Seq(Steps) /\ Ordered(c)
      /\ \A x \in Range(c) : x = <<"count", e>>
  BY MaybeCount
<1>2. \A x \in Range(c), y \in Range(Save(e)) : Before(x, y)
  BY <1>1, SaveInOrder DEF Before
<1>3. /\ c \o Save(e) \in Seq(Steps) /\ Ordered(c \o Save(e))
      /\ Range(c \o Save(e)) = Range(c) \cup Range(Save(e))
  BY <1>1, <1>2, SaveInOrder, OneAfterTheOther
<1>4. \A x \in Range(c \o Save(e)), y \in Range(Done) : Before(x, y)
  BY <1>1, <1>3, SaveInOrder, DoneInOrder DEF Before
<1>5. /\ (c \o Save(e)) \o Done \in Seq(Steps) /\ Ordered((c \o Save(e)) \o Done)
      /\ Range((c \o Save(e)) \o Done) = Range(c \o Save(e)) \cup Range(Done)
  BY <1>3, <1>4, DoneInOrder, OneAfterTheOther
<1> QED
  BY <1>3, <1>5, SaveInOrder, DoneInOrder

(* disable() revokes the tokens between the flush and the commit. *)
LEMMA RevokingInOrder ==
  ASSUME NEW e \in Entities, NEW c, c = <<>> \/ c = <<<<"count", e>>>>
  PROVE  LET t == c \o Save(e) \o <<<<"list", e>>, <<"drop", e>>>> \o Done
         IN /\ t \in Seq(Steps) /\ Ordered(t)
            /\ Range(t) = Range(c) \cup {<<"reread", e>>, <<"write", e>>, <<"list", e>>,
                                         <<"drop", e>>, <<"commit", Nobody>>}
<1> DEFINE r == <<<<"list", e>>, <<"drop", e>>>>
<1>1. r \in Seq(Steps) /\ Ordered(r) /\ Range(r) = {<<"list", e>>, <<"drop", e>>}
  <2>1. <<"list", e>> \in Steps /\ <<"drop", e>> \in Steps
    BY NamesAre DEF Steps, StepNames
  <2>2. Before(<<"list", e>>, <<"drop", e>>)
    BY DEF Before
  <2> QED
    BY <2>1, <2>2, Twos
<1>2. /\ c \in Seq(Steps) /\ Ordered(c)
      /\ \A x \in Range(c) : x = <<"count", e>>
  BY MaybeCount
<1> HIDE DEF r
<1>3. \A x \in Range(c), y \in Range(Save(e)) : Before(x, y)
  BY <1>2, SaveInOrder DEF Before
<1>4. /\ c \o Save(e) \in Seq(Steps) /\ Ordered(c \o Save(e))
      /\ Range(c \o Save(e)) = Range(c) \cup Range(Save(e))
  BY <1>2, <1>3, SaveInOrder, OneAfterTheOther
<1>5. \A x \in Range(c \o Save(e)), y \in Range(r) : Before(x, y)
  BY <1>1, <1>2, <1>4, SaveInOrder DEF Before
<1>6. /\ (c \o Save(e)) \o r \in Seq(Steps) /\ Ordered((c \o Save(e)) \o r)
      /\ Range((c \o Save(e)) \o r) = Range(c \o Save(e)) \cup Range(r)
  BY <1>1, <1>4, <1>5, OneAfterTheOther
<1>7. \A x \in Range((c \o Save(e)) \o r), y \in Range(Done) : Before(x, y)
  BY <1>1, <1>2, <1>4, <1>6, SaveInOrder, DoneInOrder DEF Before
<1>8. /\ ((c \o Save(e)) \o r) \o Done \in Seq(Steps) /\ Ordered(((c \o Save(e)) \o r) \o Done)
      /\ Range(((c \o Save(e)) \o r) \o Done) = Range((c \o Save(e)) \o r) \cup Range(Done)
  BY <1>6, <1>7, DoneInOrder, OneAfterTheOther
<1> QED
  BY <1>1, <1>4, <1>6, <1>8, SaveInOrder, DoneInOrder DEF r

(* Signing in stores a token before the row is saved. *)
LEMMA IssueSaveAndDone ==
  ASSUME NEW e \in Entities
  PROVE  LET t == <<<<"issue", e>>>> \o Save(e) \o Done
         IN /\ t \in Seq(Steps) /\ Ordered(t)
            /\ Range(t) = {<<"issue", e>>, <<"reread", e>>, <<"write", e>>, <<"commit", Nobody>>}
<1> DEFINE r == <<<<"issue", e>>>>
<1>1. r \in Seq(Steps) /\ Ordered(r) /\ Range(r) = {<<"issue", e>>}
  BY OneInOrder, NamesAre DEF StepNames
<1> HIDE DEF r
<1>2. \A x \in Range(r), y \in Range(Save(e)) : Before(x, y)
  BY <1>1, SaveInOrder DEF Before
<1>3. /\ r \o Save(e) \in Seq(Steps) /\ Ordered(r \o Save(e))
      /\ Range(r \o Save(e)) = Range(r) \cup Range(Save(e))
  BY <1>1, <1>2, SaveInOrder, OneAfterTheOther
<1>4. \A x \in Range(r \o Save(e)), y \in Range(Done) : Before(x, y)
  BY <1>1, <1>3, SaveInOrder, DoneInOrder DEF Before
<1>5. /\ (r \o Save(e)) \o Done \in Seq(Steps) /\ Ordered((r \o Save(e)) \o Done)
      /\ Range((r \o Save(e)) \o Done) = Range(r \o Save(e)) \cup Range(Done)
  BY <1>3, <1>4, DoneInOrder, OneAfterTheOther
<1> QED
  BY <1>1, <1>3, <1>5, SaveInOrder, DoneInOrder DEF r

(* Refreshing: the account is loaded, the old token revoked, a new one stored. *)
LEMMA RefreshInOrder ==
  ASSUME NEW h \in Names, NEW k \in Names
  PROVE  LET t == <<<<"load", h>>, <<"spend", k>>, <<"issue", h>>>> \o Done
         IN /\ t \in Seq(Steps) /\ Ordered(t)
            /\ Range(t) = {<<"load", h>>, <<"spend", k>>, <<"issue", h>>, <<"commit", Nobody>>}
<1> DEFINE r == <<<<"load", h>>, <<"spend", k>>, <<"issue", h>>>>
<1>1. r \in Seq(Steps) /\ Ordered(r) /\ Range(r) = {<<"load", h>>, <<"spend", k>>, <<"issue", h>>}
  <2>1. <<"load", h>> \in Steps /\ <<"spend", k>> \in Steps /\ <<"issue", h>> \in Steps
    BY DEF Steps, StepNames
  <2>2. /\ Before(<<"load", h>>, <<"spend", k>>) /\ Before(<<"load", h>>, <<"issue", h>>)
        /\ Before(<<"spend", k>>, <<"issue", h>>)
    BY DEF Before
  <2> QED
    BY <2>1, <2>2, Threes
<1> HIDE DEF r
<1>2. \A x \in Range(r), y \in Range(Done) : Before(x, y)
  BY <1>1, DoneInOrder DEF Before
<1>3. r \o Done \in Seq(Steps) /\ Ordered(r \o Done) /\ Range(r \o Done) = Range(r) \cup Range(Done)
  BY <1>1, <1>2, DoneInOrder, OneAfterTheOther
<1> QED
  BY <1>1, <1>3, DoneInOrder DEF r

-----------------------------------------------------------------------------
(* What a step of one handler leaves alone.                                *)

LEMMA SameAdmins ==
  ASSUME row' = row
  PROVE  ActiveAdmins' = ActiveAdmins
BY DEF ActiveAdmins, IsActive, Exists

LEMMA Bystander ==
  ASSUME NEW v \in Workers, HandlerInv(v), row' = row,
         job'[v] = job[v], dirty'[v] = dirty[v],
         v \in late \cup behind => v \in late' \cup behind'
  PROVE  HandlerInv(v)'
<1>1. JobOK(v)'
  BY DEF HandlerInv, JobOK
<1>2. Exact(v)'
  BY DEF HandlerInv, Exact
<1>3. OneLeft(v)'
  BY SameAdmins DEF HandlerInv, OneLeft, Demotes, Counting
<1> QED
  BY <1>1, <1>2, <1>3 DEF HandlerInv

(* A new request: its copies are of entities, of one user at most, and it  *)
(* is going to read again and write what it holds of a user; if that       *)
(* demotes an administrator, it is going to count, or it is an approval.   *)
Plan(k, c, t) ==
    /\ k # "idle"
    /\ t \in Seq(Steps) /\ Ordered(t)
    /\ DOMAIN c \subseteq Entities
    /\ \A u, v \in Users \cap DOMAIN c : u = v
    /\ \A s \in Range(t) : s[1] = "write" => s[2] \in DOMAIN c
    /\ \A u \in Users \cap DOMAIN c :
          /\ c[u] \in UserRows
          /\ <<"write", u>> \in Range(t) /\ <<"reread", u>> \in Range(t)
          /\ k # "approve" /\ Admin(u, row[u]) /\ ~Admin(u, c[u]) =>
                \E s \in Range(t) : s[1] = "count"

LEMMA Begins ==
  ASSUME IInv, NEW w \in Workers, NEW k, NEW c, NEW t,
         Start(w, k, c, t), Plan(k, c, t), UNCHANGED <<row, dirty, late, behind, holder>>
  PROVE  IInv'
<1>1. /\ DOMAIN job = Workers /\ DOMAIN job[w] = JobFields
      /\ \A v \in Workers : DOMAIN job[v] = JobFields
  BY DEF IInv, Typed
<1>2. /\ DOMAIN job' = Workers /\ \A v \in Workers : DOMAIN job'[v] = JobFields
      /\ job[w] = Idle
      /\ job'[w].kind = k /\ job'[w].copy = c /\ job'[w].todo = t /\ job'[w].base = None
      /\ \A v \in Workers \ {w} : job'[v] = job[v]
  BY <1>1 DEF Start, Idle, JobFields
<1>3. Typed' /\ RowsLocked'
  BY <1>2 DEF IInv, Typed, RowsLocked
<1>4. DOMAIN dirty'[w] = {}
  <2>1. job[w].kind = "idle"
    BY <1>2 DEF Idle
  <2> QED
    BY <2>1 DEF IInv, HandlerInv, JobOK
<1>5. DOMAIN job'[w].base = {}
  BY <1>2 DEF None
<1>6. JobOK(w)'
  BY <1>2, <1>4, <1>5 DEF JobOK, Plan
<1>7. Exact(w)'
  BY <1>2, <1>4 DEF Exact, Plan
<1>8. OneLeft(w)'
  BY <1>2 DEF OneLeft, Plan, Demotes, Counting
<1>9. \A v \in Workers \ {w} : HandlerInv(v)'
  BY <1>2, Bystander DEF IInv
<1> QED
  BY <1>3, <1>6, <1>7, <1>8, <1>9 DEF IInv, HandlerInv

(* A step that writes no row and drops none of the steps on rows. *)
LEMMA Proceeds ==
  ASSUME IInv, NEW w \in Workers, NEW t,
         UNCHANGED <<row, dirty, late, behind>>, holder' \in [Tokens -> Names],
         DOMAIN job' = Workers, \A v \in Workers \ {w} : job'[v] = job[v],
         DOMAIN job'[w] = JobFields,
         job'[w].kind = job[w].kind, job'[w].copy = job[w].copy,
         job'[w].base = job[w].base, job'[w].counted = job[w].counted,
         job[w].kind # "idle", job'[w].todo \in Seq(Steps), Ordered(job'[w].todo),
         \A s \in Range(job'[w].todo) : s[1] # "commit" => s \in Range(job[w].todo),
         \A s \in Range(job[w].todo) :
            s[1] \in {"count", "reread", "write"} => s \in Range(job'[w].todo)
  PROVE  IInv'
<1>1. Typed' /\ RowsLocked'
  BY DEF IInv, Typed, RowsLocked
<1>2. HandlerInv(w)
  BY DEF IInv
<1>3. \A u : <<"write", u>>[1] = "write" /\ <<"reread", u>>[1] = "reread"
  OBVIOUS
<1>4. \A u : /\ <<"write", u>> \in Range(job[w].todo) => <<"write", u>> \in Range(job'[w].todo)
             /\ <<"reread", u>> \in Range(job[w].todo) => <<"reread", u>> \in Range(job'[w].todo)
  BY <1>3
<1>5. JobOK(w)'
  BY <1>2, <1>4 DEF HandlerInv, JobOK
<1>6. Exact(w)'
  BY <1>2, <1>4 DEF HandlerInv, Exact
<1>7. OneLeft(w)'
  BY <1>2, SameAdmins DEF HandlerInv, OneLeft, Demotes, Counting
<1>8. \A v \in Workers \ {w} : HandlerInv(v)'
  BY Bystander DEF IInv
<1> QED
  BY <1>1, <1>5, <1>6, <1>7, <1>8 DEF IInv, HandlerInv

(* The handler is done with its request, one way or the other. *)
LEMMA Ends ==
  ASSUME IInv, NEW w \in Workers, Forget(w), row' = row, holder' = holder,
         late' = late \ {w}, behind' = behind \ {w}
  PROVE  IInv'
<1>1. /\ DOMAIN job = Workers /\ DOMAIN job[w] = JobFields /\ DOMAIN dirty = Workers
      /\ \A v \in Workers : DOMAIN job[v] = JobFields
  BY DEF IInv, Typed
<1>2. /\ DOMAIN job' = Workers /\ \A v \in Workers \ {w} : job'[v] = job[v]
      /\ DOMAIN dirty' = Workers /\ \A v \in Workers \ {w} : dirty'[v] = dirty[v]
      /\ job'[w] = Idle /\ dirty'[w] = None
  BY <1>1 DEF Forget
<1>3. DOMAIN dirty'[w] = {} /\ DOMAIN Idle.copy = {} /\ DOMAIN Idle.base = {} /\ DOMAIN Idle = JobFields
  BY <1>2 DEF None, Idle, JobFields
<1>4. Typed'
  BY <1>1, <1>2, <1>3 DEF IInv, Typed
<1>5. RowsLocked'
  BY <1>2, <1>3 DEF IInv, RowsLocked
<1>6. Idle.kind = "idle" /\ Idle.todo = <<>>
  BY DEF Idle
<1>7. HandlerInv(w)'
  BY <1>2, <1>3, <1>6, NoneInOrder DEF HandlerInv, JobOK, Exact, OneLeft
<1>8. \A v \in Workers \ {w} : HandlerInv(v)'
  BY <1>2, Bystander DEF IInv
<1> QED
  BY <1>4, <1>5, <1>7, <1>8 DEF IInv

(* The step a handler is at, and those that come after it. *)
LEMMA AtStep ==
  ASSUME IInv, NEW w \in Workers, NEW k, At(w, k)
  PROVE  LET t == Tail(job[w].todo)
         IN /\ DOMAIN job = Workers /\ DOMAIN job[w] = JobFields
            /\ job[w].kind # "idle"
            /\ t \in Seq(Steps) /\ Ordered(t)
            /\ Subject(w) \in Names
            /\ <<k, Subject(w)>> \in Range(job[w].todo)
            /\ \A s \in Range(job[w].todo) : s = <<k, Subject(w)>> \/ s \in Range(t)
            /\ \A s \in Range(t) : s \in Range(job[w].todo) /\ Before(<<k, Subject(w)>>, s)
<1>1. /\ DOMAIN job = Workers /\ DOMAIN job[w] = JobFields
      /\ job[w].todo \in Seq(Steps) /\ Ordered(job[w].todo) /\ job[w].todo # <<>>
      /\ job[w].kind # "idle"
  BY DEF IInv, Typed, HandlerInv, JobOK, At
<1> DEFINE h == Head(job[w].todo)
<1>2. h \in Steps /\ h[1] = k /\ h[2] = Subject(w)
  BY <1>1, OneStepLess DEF At, Subject
<1>3. h = <<k, Subject(w)>> /\ Subject(w) \in Names
  BY <1>2 DEF Steps
<1> QED
  BY <1>1, <1>3, OneStepLess

(* Token steps and a count that is refused or not write no row. *)
LEMMA Passes ==
  ASSUME IInv, NEW w \in Workers, NEW k, At(w, k), k \notin {"count", "reread", "write", "commit"},
         UNCHANGED <<row, dirty, late, behind>>, holder' \in [Tokens -> Names],
         \/ Advance(w)
         \/ \E x : job' = [job EXCEPT ![w].seen = x, ![w].todo = Tail(@)]
  PROVE  IInv'
<1>1. /\ DOMAIN job = Workers /\ DOMAIN job[w] = JobFields /\ job[w].kind # "idle"
      /\ Tail(job[w].todo) \in Seq(Steps) /\ Ordered(Tail(job[w].todo))
      /\ \A s \in Range(job[w].todo) : s = <<k, Subject(w)>> \/ s \in Range(Tail(job[w].todo))
      /\ \A s \in Range(Tail(job[w].todo)) : s \in Range(job[w].todo)
  BY AtStep
<1>2. /\ DOMAIN job' = Workers /\ \A v \in Workers \ {w} : job'[v] = job[v]
      /\ DOMAIN job'[w] = JobFields
      /\ job'[w].kind = job[w].kind /\ job'[w].copy = job[w].copy
      /\ job'[w].base = job[w].base /\ job'[w].counted = job[w].counted
      /\ job'[w].todo = Tail(job[w].todo)
  <2>1. CASE Advance(w)
    BY <1>1, <2>1 DEF Advance, JobFields
  <2>2. CASE \E x : job' = [job EXCEPT ![w].seen = x, ![w].todo = Tail(@)]
    <3> PICK x : job' = [job EXCEPT ![w].seen = x, ![w].todo = Tail(@)]
      BY <2>2
    <3> QED
      BY <1>1 DEF JobFields
  <2> QED
    BY <2>1, <2>2
<1>3. \A s \in Range(job[w].todo) :
         s[1] \in {"count", "reread", "write"} => s \in Range(job'[w].todo)
  BY <1>1, <1>2
<1> QED
  BY <1>1, <1>2, <1>3, Proceeds

LEMMA RevocationFails ==
  ASSUME IInv, NEW w \in Workers, RevokeFails(w)
  PROVE  IInv'
<1> PICK k \in {"list", "drop"} : At(w, k)
  BY DEF RevokeFails
<1>1. /\ DOMAIN job = Workers /\ DOMAIN job[w] = JobFields /\ job[w].kind # "idle"
      /\ \A s \in Range(job[w].todo) : s = <<k, Subject(w)>> \/ s \in Range(Tail(job[w].todo))
      /\ \A s \in Range(Tail(job[w].todo)) : Before(<<k, Subject(w)>>, s)
  BY AtStep
<1>2. /\ DOMAIN job' = Workers /\ \A v \in Workers \ {w} : job'[v] = job[v]
      /\ DOMAIN job'[w] = JobFields
      /\ job'[w].kind = job[w].kind /\ job'[w].copy = job[w].copy
      /\ job'[w].base = job[w].base /\ job'[w].counted = job[w].counted
      /\ job'[w].todo = Done
  BY <1>1 DEF RevokeFails, JobFields
<1>3. \A s \in Range(job[w].todo) : s[1] \notin {"count", "reread", "write"}
  BY <1>1 DEF Before
<1>4. \A s \in Range(Done) : s[1] = "commit"
  BY DoneInOrder
<1>5. holder' \in [Tokens -> Names]
  BY DEF RevokeFails, IInv, Typed
<1>6. UNCHANGED <<row, dirty, late, behind>>
  BY DEF RevokeFails
<1> QED
  BY <1>1, <1>2, <1>3, <1>4, <1>5, <1>6, DoneInOrder, Proceeds

(* Of more than one administrator one is left without any one of them. *)
LEMMA AnotherOne ==
  ASSUME Cardinality(ActiveAdmins) > 1, NEW u \in Users
  PROVE  ActiveAdmins \ {u} # {}
<1> SUFFICES ASSUME ActiveAdmins \subseteq {u} PROVE FALSE
  OBVIOUS
<1>1. IsFiniteSet({u}) /\ Cardinality({u}) = 1
  BY FS_Singleton
<1>2. IsFiniteSet(ActiveAdmins) /\ Cardinality(ActiveAdmins) <= 1
  BY <1>1, FS_Subset
<1>3. Cardinality(ActiveAdmins) \in Nat
  BY <1>2, FS_CardinalityType
<1> QED
  BY <1>2, <1>3

LEMMA Counts ==
  ASSUME IInv, NEW w \in Workers, Count(w), UNCHANGED holder
  PROVE  IInv'
<1> At(w, "count")
  BY DEF Count
<1>1. /\ DOMAIN job = Workers /\ DOMAIN job[w] = JobFields /\ job[w].kind # "idle"
      /\ \A v \in Workers : DOMAIN job[v] = JobFields
      /\ Tail(job[w].todo) \in Seq(Steps) /\ Ordered(Tail(job[w].todo))
      /\ \A s \in Range(job[w].todo) : s = <<"count", Subject(w)>> \/ s \in Range(Tail(job[w].todo))
      /\ \A s \in Range(Tail(job[w].todo)) : s \in Range(job[w].todo)
  BY AtStep DEF IInv, Typed
<1>2. /\ DOMAIN job' = Workers /\ \A v \in Workers \ {w} : job'[v] = job[v]
      /\ DOMAIN job'[w] = JobFields
      /\ job'[w].kind = job[w].kind /\ job'[w].copy = job[w].copy
      /\ job'[w].base = job[w].base /\ job'[w].counted = TRUE
      /\ job'[w].todo = Tail(job[w].todo)
      /\ UNCHANGED <<row, dirty, late, behind>>
  BY <1>1 DEF Count, JobFields
<1>3. Typed' /\ RowsLocked'
  BY <1>1, <1>2 DEF IInv, Typed, RowsLocked
<1>4. HandlerInv(w)
  BY DEF IInv
<1>5. \A u : /\ <<"write", u>> \in Range(job[w].todo) => <<"write", u>> \in Range(job'[w].todo)
             /\ <<"reread", u>> \in Range(job[w].todo) => <<"reread", u>> \in Range(job'[w].todo)
  BY <1>1, <1>2
<1>6. JobOK(w)'
  BY <1>1, <1>2, <1>4, <1>5 DEF HandlerInv, JobOK
<1>7. Exact(w)'
  BY <1>2, <1>4, <1>5 DEF HandlerInv, Exact
<1>8. \A u \in Users : ActiveAdmins' \ {u} # {}
  BY <1>2, AnotherOne, SameAdmins DEF Count
<1>9. OneLeft(w)'
  BY <1>2, <1>8 DEF OneLeft
<1>10. \A v \in Workers \ {w} : HandlerInv(v)'
  BY <1>2, Bystander DEF IInv
<1> QED
  BY <1>3, <1>6, <1>7, <1>9, <1>10 DEF IInv, HandlerInv

LEMMA Rereads ==
  ASSUME IInv, NEW w \in Workers, Reread(w), UNCHANGED holder
  PROVE  IInv'
<1> DEFINE e == Subject(w)
<1> At(w, "reread")
  BY DEF Reread
<1>1. /\ DOMAIN job = Workers /\ DOMAIN job[w] = JobFields /\ job[w].kind # "idle"
      /\ \A v \in Workers : DOMAIN job[v] = JobFields
      /\ Tail(job[w].todo) \in Seq(Steps) /\ Ordered(Tail(job[w].todo))
      /\ \A s \in Range(job[w].todo) : s = <<"reread", e>> \/ s \in Range(Tail(job[w].todo))
      /\ \A s \in Range(Tail(job[w].todo)) : s \in Range(job[w].todo)
  BY AtStep DEF IInv, Typed
<1> HIDE DEF e
<1> DEFINE b == [x \in DOMAIN job[w].base \cup {e} |-> IF x = e THEN row[e] ELSE job[w].base[x]]
<1>2. /\ DOMAIN job' = Workers /\ \A v \in Workers \ {w} : job'[v] = job[v]
      /\ DOMAIN job'[w] = JobFields
      /\ job'[w].kind = job[w].kind /\ job'[w].copy = job[w].copy
      /\ job'[w].base = b /\ job'[w].counted = job[w].counted
      /\ job'[w].todo = Tail(job[w].todo)
      /\ UNCHANGED <<row, dirty, late, behind>>
  BY <1>1 DEF Reread, JobFields, e
<1>3. /\ DOMAIN b = DOMAIN job[w].base \cup {e}
      /\ \A x \in DOMAIN b : b[x] = IF x = e THEN row[e] ELSE job[w].base[x]
  OBVIOUS
<1> HIDE DEF b
<1>4. Typed' /\ RowsLocked'
  BY <1>1, <1>2 DEF IInv, Typed, RowsLocked
<1>5. HandlerInv(w)
  BY DEF IInv
<1>6. \A u : /\ <<"write", u>> \in Range(job[w].todo) => <<"write", u>> \in Range(job'[w].todo)
             /\ u # e /\ <<"reread", u>> \in Range(job[w].todo) => <<"reread", u>> \in Range(job'[w].todo)
             /\ <<"count", u>> \in Range(job[w].todo) => <<"count", u>> \in Range(job'[w].todo)
  BY <1>1, <1>2
<1>7. \A u \in Users \cap DOMAIN job'[w].base : job'[w].base[u] # NoRow => row'[u] \in UserRows
  BY <1>2, <1>3, <1>5 DEF IInv, Typed, HandlerInv, JobOK
<1>8. \A u \in (Users \cap DOMAIN job'[w].copy) \ DOMAIN dirty'[w] :
          /\ <<"write", u>> \in Range(job'[w].todo)
          /\ <<"reread", u>> \in Range(job'[w].todo) \/ u \in DOMAIN job'[w].base
  BY <1>2, <1>3, <1>5, <1>6 DEF HandlerInv, JobOK
<1>9. JobOK(w)'
  BY <1>1, <1>2, <1>5, <1>7, <1>8 DEF HandlerInv, JobOK
<1>10. Exact(w)'
  BY <1>2, <1>3, <1>5, <1>6 DEF HandlerInv, JobOK, Exact
<1>11. \A s \in Range(job[w].todo) : s[1] = "count" => s \in Range(job'[w].todo)
  BY <1>1, <1>2
<1>12. OneLeft(w)'
  BY <1>2, <1>5, <1>11, SameAdmins DEF HandlerInv, OneLeft, Demotes, Counting
<1>13. \A v \in Workers \ {w} : HandlerInv(v)'
  BY <1>2, Bystander DEF IInv
<1> QED
  BY <1>4, <1>9, <1>10, <1>12, <1>13 DEF IInv, HandlerInv

(* The flush: unless somebody overtook the handler, what it writes is its  *)
(* copy.                                                                   *)
LEMMA Writes ==
  ASSUME IInv, NEW w \in Workers, Write(w), UNCHANGED holder
  PROVE  IInv'
<1> DEFINE e == Subject(w)
<1> At(w, "write")
  BY DEF Write
<1>1. /\ DOMAIN job = Workers /\ DOMAIN job[w] = JobFields /\ job[w].kind # "idle"
      /\ \A v \in Workers : DOMAIN job[v] = JobFields
      /\ Tail(job[w].todo) \in Seq(Steps) /\ Ordered(Tail(job[w].todo))
      /\ <<"write", e>> \in Range(job[w].todo)
      /\ \A s \in Range(job[w].todo) : s = <<"write", e>> \/ s \in Range(Tail(job[w].todo))
      /\ \A s \in Range(Tail(job[w].todo)) :
            s \in Range(job[w].todo) /\ Before(<<"write", e>>, s)
  BY AtStep DEF IInv, Typed
<1>2. e \in DOMAIN job[w].copy \ DOMAIN dirty[w]
  BY <1>1 DEF IInv, HandlerInv, JobOK
<1>3. DOMAIN dirty = Workers
  BY DEF IInv, Typed
<1> DEFINE new == Written(e, job[w].copy[e], job[w].base[e])
           d == [x \in DOMAIN dirty[w] \cup {e} |-> IF x = e THEN new ELSE dirty[w][x]]
<1>4. /\ DOMAIN job' = Workers /\ \A v \in Workers \ {w} : job'[v] = job[v]
      /\ DOMAIN job'[w] = JobFields
      /\ job'[w].kind = job[w].kind /\ job'[w].copy = job[w].copy
      /\ job'[w].base = job[w].base /\ job'[w].counted = job[w].counted
      /\ job'[w].todo = Tail(job[w].todo)
  BY <1>1 DEF Write, Advance, JobFields
<1>5. /\ UNCHANGED <<row, late, behind>> /\ DOMAIN dirty' = Workers
      /\ dirty'[w] = d /\ \A v \in Workers \ {w} : dirty'[v] = dirty[v]
      /\ ~Locked(w, e)
  BY <1>3 DEF Write
<1>6. HandlerInv(w)
  BY DEF IInv
<1>7. ASSUME e \in Users
      PROVE  /\ new \in UserRows
             /\ w \notin late \cup behind => new = job[w].copy[e]
  <2>1. job[w].copy[e] \in UserRows
    BY <1>2, <1>6, <1>7 DEF HandlerInv, JobOK
  <2>2. <<"reread", e>> \notin Range(job[w].todo)
    BY <1>1 DEF Before
  <2>3. e \in DOMAIN job[w].base
    BY <1>2, <1>6, <1>7, <2>2 DEF HandlerInv, JobOK
  <2>4. w \notin late \cup behind => job[w].base[e] = row[e]
    BY <1>2, <1>6, <1>7, <2>2 DEF HandlerInv, Exact
  <2>5. CASE job[w].base[e] = NoRow
    BY <2>1, <2>5 DEF Written
  <2>6. CASE job[w].base[e] # NoRow
    <3>1. row[e] \in UserRows
      BY <1>6, <1>7, <2>3, <2>6 DEF HandlerInv, JobOK
    <3>2. new \in UserRows
      BY <2>1, <2>6, <3>1 DEF Written, UserRows
    <3>3. job[w].base[e] = row[e] => new = job[w].copy[e]
      BY <2>1, <2>6 DEF Written, UserRows
    <3> QED
      BY <2>4, <3>2, <3>3
  <2> QED
    BY <2>5, <2>6
<1> HIDE DEF e, new
<1>8. /\ DOMAIN d = DOMAIN dirty[w] \cup {e}
      /\ \A x \in DOMAIN d : d[x] = IF x = e THEN new ELSE dirty[w][x]
  OBVIOUS
<1> HIDE DEF d
<1>9. Typed'
  BY <1>1, <1>4, <1>5 DEF IInv, Typed
<1>10. RowsLocked'
  <2>1. \A v \in Workers \ {w} : e \notin DOMAIN dirty[v]
    BY <1>5 DEF Locked
  <2>2. \A v \in Workers \ {w} : DOMAIN dirty'[v] \cap DOMAIN dirty'[w] = {}
    BY <1>5, <1>8, <2>1 DEF IInv, RowsLocked
  <2>3. \A v, x \in Workers \ {w} : v # x => DOMAIN dirty'[v] \cap DOMAIN dirty'[x] = {}
    BY <1>5 DEF IInv, RowsLocked
  <2> QED
    BY <2>2, <2>3 DEF RowsLocked
<1>11. \A u : /\ u # e /\ <<"write", u>> \in Range(job[w].todo) => <<"write", u>> \in Range(job'[w].todo)
              /\ <<"reread", u>> \in Range(job[w].todo) => <<"reread", u>> \in Range(job'[w].todo)
  BY <1>1, <1>4
<1>12. \A s \in Range(job'[w].todo) :
          s[1] = "write" => s[2] \in DOMAIN job'[w].copy \ DOMAIN dirty'[w]
  BY <1>1, <1>4, <1>5, <1>6, <1>8 DEF HandlerInv, JobOK, Before
<1>13. \A u \in Users \cap DOMAIN dirty'[w] : dirty'[w][u] \in UserRows
  BY <1>5, <1>6, <1>7, <1>8 DEF HandlerInv, JobOK
<1>14. \A u \in (Users \cap DOMAIN job'[w].copy) \ DOMAIN dirty'[w] :
          /\ <<"write", u>> \in Range(job'[w].todo)
          /\ <<"reread", u>> \in Range(job'[w].todo) \/ u \in DOMAIN job'[w].base
  BY <1>4, <1>5, <1>6, <1>8, <1>11 DEF HandlerInv, JobOK
<1>15. DOMAIN dirty'[w] \subseteq DOMAIN job'[w].copy
  BY <1>2, <1>4, <1>5, <1>6, <1>8 DEF HandlerInv, JobOK
<1>16. JobOK(w)'
  BY <1>1, <1>4, <1>5, <1>6, <1>12, <1>13, <1>14, <1>15 DEF HandlerInv, JobOK
<1>17. Exact(w)'
  BY <1>4, <1>5, <1>6, <1>7, <1>8, <1>11 DEF HandlerInv, Exact
<1>18. \A s \in Range(job[w].todo) : s[1] = "count" => s \in Range(job'[w].todo)
  BY <1>1, <1>4
<1>19. OneLeft(w)'
  BY <1>4, <1>5, <1>6, <1>18, SameAdmins DEF HandlerInv, OneLeft, Demotes, Counting
<1>20. \A v \in Workers \ {w} : HandlerInv(v)'
  BY <1>4, <1>5, Bystander DEF IInv
<1> QED
  BY <1>9, <1>10, <1>16, <1>17, <1>19, <1>20 DEF IInv, HandlerInv

(* A commit changes the rows its transaction has written and no other. *)
LEMMA RowsAfter ==
  ASSUME IInv, NEW w \in Workers, CommitRows(w)
  PROVE  /\ DOMAIN row' = Entities
         /\ \A u \in Users : u \in DOMAIN dirty[w] => row'[u] = dirty[w][u]
         /\ \A u \in Users : u \notin DOMAIN dirty[w] => row'[u] = row[u]
         /\ \A u \in Users : row'[u] \in UserRows \cup {NoRow}
         /\ \A u \in Users : row[u] \in UserRows => row'[u] \in UserRows
<1>1. Users \subseteq Entities
  BY EntitiesAssumption
<1>2. row' = [e \in Entities |-> IF e \in DOMAIN dirty[w] THEN dirty[w][e] ELSE row[e]]
  BY DEF CommitRows, After
<1>3. \A u \in Users \cap DOMAIN dirty[w] : dirty[w][u] \in UserRows
  BY DEF IInv, HandlerInv, JobOK
<1> QED
  BY <1>1, <1>2, <1>3 DEF IInv, Typed

(* To be the copy of one handler and the change of another is to overtake. *)
LEMMA NotOvertaken ==
  ASSUME IInv, NEW w \in Workers, CommitRows(w), NEW v \in Workers \ {w},
         v \notin behind', NEW u \in Users \cap DOMAIN job[v].copy
  PROVE  row'[u] = row[u]
<1> SUFFICES ASSUME u \in DOMAIN dirty[w], dirty[w][u] # row[u] PROVE FALSE
  BY RowsAfter
<1>1. u \notin DOMAIN dirty[v]
  BY DEF IInv, RowsLocked
<1>2. <<"write", u>> \in Range(job[v].todo)
  BY <1>1 DEF IInv, HandlerInv, JobOK
<1>3. v \in Overtaken(w, "write")
  BY <1>2 DEF Overtaken
<1> QED
  BY <1>3 DEF CommitRows

LEMMA Commits ==
  ASSUME IInv, NEW w \in Workers, Commit(w), UNCHANGED holder
  PROVE  IInv'
<1> At(w, "commit") /\ CommitRows(w)
  BY DEF Commit, CommitRows
<1>1. /\ DOMAIN job = Workers /\ DOMAIN job[w] = JobFields /\ DOMAIN dirty = Workers
      /\ \A v \in Workers : DOMAIN job[v] = JobFields
  BY DEF IInv, Typed
<1>2. /\ DOMAIN job' = Workers /\ \A v \in Workers \ {w} : job'[v] = job[v]
      /\ DOMAIN dirty' = Workers /\ \A v \in Workers \ {w} : dirty'[v] = dirty[v]
      /\ job'[w] = Idle /\ dirty'[w] = None
  BY <1>1 DEF CommitRows, Forget
<1>3. DOMAIN dirty'[w] = {} /\ DOMAIN Idle.copy = {} /\ DOMAIN Idle.base = {} /\ DOMAIN Idle = JobFields
  BY <1>2 DEF None, Idle, JobFields
<1>4. Typed'
  BY <1>1, <1>2, <1>3, RowsAfter DEF IInv, Typed
<1>5. RowsLocked'
  BY <1>2, <1>3 DEF IInv, RowsLocked
<1>6. Idle.kind = "idle" /\ Idle.todo = <<>>
  BY DEF Idle
<1>7. HandlerInv(w)'
  BY <1>2, <1>3, <1>6, NoneInOrder DEF HandlerInv, JobOK, Exact, OneLeft
<1>8. ASSUME NEW v \in Workers \ {w}
      PROVE  HandlerInv(v)'
  <2>1. HandlerInv(v)
    BY DEF IInv
  <2>2. JobOK(v)'
    BY <1>2, <2>1, RowsAfter DEF HandlerInv, JobOK
  <2>3. v \notin late' \cup behind' => v \notin late \cup behind
    BY DEF Commit, CommitRows
  <2>4. v \notin behind' => \A u \in Users \cap DOMAIN job[v].copy : row'[u] = row[u]
    BY NotOvertaken
  <2>5. DOMAIN dirty[v] \subseteq DOMAIN job[v].copy
    BY <2>1 DEF HandlerInv, JobOK
  <2>6. Exact(v)'
    BY <1>2, <2>1, <2>3, <2>4, <2>5 DEF HandlerInv, Exact
  <2>7. ASSUME v \notin late', job[v].counted
        PROVE  ActiveAdmins \subseteq ActiveAdmins'
    <3>1. ~RemovesAdmin(w)
      BY <2>7 DEF Commit, Miscounted
    <3> SUFFICES ASSUME NEW u \in ActiveAdmins PROVE u \in ActiveAdmins'
      OBVIOUS
    <3>2. u \in Users /\ row[u] # NoRow /\ row[u]["active"] /\ IsAdmin(u, row[u])
      BY DEF ActiveAdmins, IsActive, Exists
    <3>3. CASE u \notin DOMAIN dirty[w]
      BY <3>2, <3>3, RowsAfter DEF ActiveAdmins, IsActive, Exists
    <3>4. CASE u \in DOMAIN dirty[w]
      <4>1. dirty[w][u]["active"] /\ IsAdmin(u, dirty[w][u])
        BY <3>1, <3>2, <3>4 DEF RemovesAdmin
      <4>2. dirty[w][u] \in UserRows
        BY <3>2, <3>4 DEF IInv, HandlerInv, JobOK
      <4>3. row'[u] = dirty[w][u] /\ row'[u] # NoRow
        BY <3>2, <3>4, <4>2, RowsAfter, EntitiesAssumption DEF UserRows
      <4> QED
        BY <3>2, <4>1, <4>3 DEF ActiveAdmins, IsActive, Exists
    <3> QED
      BY <3>3, <3>4
  <2>8. OneLeft(v)'
    BY <1>2, <2>1, <2>3, <2>4, <2>7 DEF HandlerInv, OneLeft, Demotes, Counting
  <2> QED
    BY <2>2, <2>6, <2>8 DEF HandlerInv
<1> QED
  BY <1>4, <1>5, <1>7, <1>8 DEF IInv

(* The last administrator is removed by who was overtaken or approves. *)
LEMMA LastAdmin ==
  ASSUME IInv, NEW w \in Workers, CommitRows(w), At(w, "commit"),
         ActiveAdmins # {}, ActiveAdmins' = {},
         job[w].kind # "approve", w \notin late \cup behind
  PROVE  FALSE
<1> PICK u \in ActiveAdmins : TRUE
  OBVIOUS
<1>1. u \in Users /\ row[u] # NoRow /\ row[u]["active"] /\ IsAdmin(u, row[u])
  BY DEF ActiveAdmins, IsActive, Exists
<1>2. \A x \in Users : x \in ActiveAdmins => x \in DOMAIN dirty[w]
  BY RowsAfter DEF ActiveAdmins, IsActive, Exists
<1>3. u \in DOMAIN dirty[w] /\ u \in DOMAIN job[w].copy
  BY <1>1, <1>2 DEF IInv, HandlerInv, JobOK
<1>4. row'[u] = job[w].copy[u]
  BY <1>1, <1>3, RowsAfter DEF IInv, HandlerInv, Exact
<1>5. Demotes(w, u)
  BY <1>1, <1>4 DEF Demotes, Admin, ActiveAdmins, IsActive, Exists
<1>6. ~Counting(w, u)
  <2>1. \A s \in Range(job[w].todo) : s = <<"commit", Subject(w)>>
    BY AtStep DEF Before
  <2> QED
    BY <2>1 DEF Counting
<1>7. ActiveAdmins \ {u} # {}
  BY <1>1, <1>3, <1>5, <1>6 DEF IInv, HandlerInv, OneLeft
<1> PICK x \in ActiveAdmins \ {u} : TRUE
  BY <1>7
<1>8. x \in Users /\ x \in DOMAIN job[w].copy
  BY <1>2 DEF ActiveAdmins, IInv, HandlerInv, JobOK
<1> QED
  BY <1>1, <1>3, <1>8 DEF IInv, HandlerInv, JobOK

-----------------------------------------------------------------------------
(* Every request is such a plan.                                           *)

LEMMA AccountsAre ==
  ASSUME NEW a \in BOOLEAN, NEW roles
  PROVE  /\ Account(a, roles) \in UserRows
         /\ Account(a, roles)["active"] = a
         /\ \A u : u \in Supers \/ "ADMIN" \in roles => IsAdmin(u, Account(a, roles))
<1>1. "active" # "ADMIN" /\ "ADMIN" \in Roles
  BY UsersAssumption
<1>2. Account(a, roles) \in UserRows
  <2>1. ASSUME NEW c \in {"active"} \cup Roles
        PROVE  (IF c = "active" THEN a ELSE c \in roles) \in BOOLEAN
    <3>1. CASE c = "active"
      BY <3>1
    <3>2. CASE c # "active"
      BY <3>2
    <3> QED
      BY <3>1, <3>2
  <2> QED
    BY <2>1, Zenon DEF Account, UserRows
<1>3. Account(a, roles)["active"] = a
  BY DEF Account
<1>4. "ADMIN" \in roles => Account(a, roles)["ADMIN"]
  BY <1>1 DEF Account
<1> QED
  BY <1>2, <1>3, <1>4 DEF IsAdmin

LEMMA OnlyIs ==
  ASSUME NEW e, NEW r
  PROVE  DOMAIN Only(e, r) = {e} /\ Only(e, r)[e] = r
BY DEF Only

LEMMA UsersAre ==
  ASSUME NEW u \in Users
  PROVE  u \in Entities /\ Ask(u) \in Entities /\ Ask(u) \notin Users /\ Ask(u) # u
BY EntitiesAssumption

(* Saving one row. *)
LEMMA SavesOne ==
  ASSUME NEW e \in Entities, NEW r, NEW k, k # "idle", NEW t \in Seq(Steps), Ordered(t),
         <<"reread", e>> \in Range(t), <<"write", e>> \in Range(t),
         \A s \in Range(t) : s[1] = "write" => s[2] = e,
         e \in Users => r \in UserRows,
         e \in Users /\ Admin(e, row[e]) /\ ~Admin(e, r) => <<"count", e>> \in Range(t)
  PROVE  Plan(k, Only(e, r), t)
<1>1. DOMAIN Only(e, r) = {e} /\ Only(e, r)[e] = r
  BY OnlyIs
<1>2. e \in Users /\ Admin(e, row[e]) /\ ~Admin(e, r) => \E s \in Range(t) : s[1] = "count"
  <2>1. <<"count", e>>[1] = "count"
    OBVIOUS
  <2> QED
    BY <2>1
<1> QED
  BY <1>1, <1>2 DEF Plan

LEMMA SavesJustOne ==
  ASSUME NEW e \in Entities, NEW r, NEW k, k # "idle", e \in Users => r \in UserRows,
         e \in Users => ~(Admin(e, row[e]) /\ ~Admin(e, r))
  PROVE  Plan(k, Only(e, r), Save(e) \o Done)
<1>1. \A s \in Range(Save(e) \o Done) : s[1] = "write" => s[2] = e
  BY SaveAndDone
<1> QED
  BY <1>1, SaveAndDone, SavesOne

LEMMA CountsAndSaves ==
  ASSUME NEW e \in Entities, NEW r, NEW k, k # "idle", NEW c, c = <<>> \/ c = <<<<"count", e>>>>,
         e \in Users => r \in UserRows,
         e \in Users /\ Admin(e, row[e]) /\ ~Admin(e, r) => c = <<<<"count", e>>>>
  PROVE  /\ Plan(k, Only(e, r), c \o Save(e) \o Done)
         /\ Plan(k, Only(e, r), c \o Save(e) \o <<<<"list", e>>, <<"drop", e>>>> \o Done)
<1>1. \A s \in Range(c) : s = <<"count", e>>
  BY MaybeCount
<1>2. c = <<<<"count", e>>>> => <<"count", e>> \in Range(c)
  BY NamesAre, OneInOrder DEF StepNames
<1> DEFINE t == c \o Save(e) \o Done
           z == c \o Save(e) \o <<<<"list", e>>, <<"drop", e>>>> \o Done
<1>3. /\ t \in Seq(Steps) /\ Ordered(t)
      /\ Range(t) = Range(c) \cup {<<"reread", e>>, <<"write", e>>, <<"commit", Nobody>>}
  BY CountSaveAndDone
<1>4. /\ z \in Seq(Steps) /\ Ordered(z)
      /\ Range(z) = Range(c) \cup {<<"reread", e>>, <<"write", e>>, <<"list", e>>,
                                   <<"drop", e>>, <<"commit", Nobody>>}
  BY RevokingInOrder
<1> HIDE DEF t, z
<1>5. /\ \A s \in Range(t) : s[1] = "write" => s[2] = e
      /\ \A s \in Range(z) : s[1] = "write" => s[2] = e
  BY <1>1, <1>3, <1>4
<1>6. Plan(k, Only(e, r), t)
  BY <1>2, <1>3, <1>5, SavesOne
<1>7. Plan(k, Only(e, r), z)
  BY <1>2, <1>4, <1>5, SavesOne
<1> QED
  BY <1>6, <1>7 DEF t, z

LEMMA SetsRoles ==
  ASSUME IInv, NEW w \in Workers, NEW a, NEW u \in Users, NEW roles, SetRoles(w, a, u, roles), UNCHANGED holder
  PROVE  IInv'
<1> DEFINE demotes == IsAdmin(u, row[u]) /\ u \notin Supers /\ "ADMIN" \notin roles
           c == IF demotes /\ IsActive(u) THEN <<<<"count", u>>>> ELSE <<>>
           r == Account(row[u]["active"], roles)
<1>1. /\ row[u] # NoRow /\ Start(w, "roles", Only(u, r), c \o Save(u) \o Done)
      /\ UNCHANGED <<row, dirty, late, behind>>
  BY DEF SetRoles, Exists
<1>2. row[u] \in UserRows /\ row[u]["active"] \in BOOLEAN
  BY <1>1 DEF IInv, Typed, UserRows
<1>3. r \in UserRows /\ r["active"] = row[u]["active"] /\ (u \in Supers \/ "ADMIN" \in roles => IsAdmin(u, r))
  BY <1>2, AccountsAre
<1>4. r # NoRow
  BY <1>3, EntitiesAssumption DEF UserRows
<1>5. Admin(u, row[u]) /\ ~Admin(u, r) => c = <<<<"count", u>>>>
  BY <1>1, <1>3, <1>4 DEF Admin, IsActive, Exists
<1>6. c = <<>> \/ c = <<<<"count", u>>>>
  OBVIOUS
<1> HIDE DEF c, r
<1>7. Plan("roles", Only(u, r), c \o Save(u) \o Done)
  BY <1>3, <1>5, <1>6, UsersAre, CountsAndSaves
<1> QED
  BY <1>1, <1>7, Begins

LEMMA Disables ==
  ASSUME IInv, NEW w \in Workers, NEW a, NEW u \in Users, Disable(w, a, u), UNCHANGED holder
  PROVE  IInv'
<1> DEFINE c == IF IsAdmin(u, row[u]) THEN <<<<"count", u>>>> ELSE <<>>
           r == [row[u] EXCEPT !["active"] = FALSE]
           t == c \o Save(u) \o <<<<"list", u>>, <<"drop", u>>>> \o Done
<1>1. /\ row[u] # NoRow /\ Start(w, "disable", Only(u, r), t)
      /\ UNCHANGED <<row, dirty, late, behind>>
  BY DEF Disable, IsActive, Exists
<1>2. r \in UserRows
  BY <1>1 DEF IInv, Typed, UserRows
<1>3. c = <<>> \/ c = <<<<"count", u>>>>
  OBVIOUS
<1>4. Admin(u, row[u]) => c = <<<<"count", u>>>>
  BY DEF Admin
<1> HIDE DEF c, r
<1>5. Plan("disable", Only(u, r), t)
  BY <1>2, <1>3, <1>4, UsersAre, CountsAndSaves
<1> QED
  BY <1>1, <1>5, Begins

LEMMA Enables ==
  ASSUME IInv, NEW w \in Workers, NEW a, NEW u \in Users, Enable(w, a, u), UNCHANGED holder
  PROVE  IInv'
<1> DEFINE r == [row[u] EXCEPT !["active"] = TRUE]
<1>1. /\ row[u] # NoRow /\ ~row[u]["active"] /\ Start(w, "enable", Only(u, r), Save(u) \o Done)
      /\ UNCHANGED <<row, dirty, late, behind>>
  BY DEF Enable, IsActive, Exists
<1>2. r \in UserRows
  BY <1>1 DEF IInv, Typed, UserRows
<1> HIDE DEF r
<1>3. Plan("enable", Only(u, r), Save(u) \o Done)
  BY <1>1, <1>2, UsersAre, SavesJustOne DEF Admin
<1> QED
  BY <1>1, <1>3, Begins

(* create_user and register insert a row. *)
LEMMA Inserts ==
  ASSUME IInv, NEW w \in Workers, NEW u \in Users, NEW roles,
         \/ \E a : CreateUser(w, a, u, roles)
         \/ Register(w, u),
         UNCHANGED holder
  PROVE  IInv'
<1>1. /\ row[u] = NoRow /\ UNCHANGED <<row, dirty, late, behind>>
      /\ \E k \in {"create", "register"} : \E x : Start(w, k, Only(u, Account(TRUE, x)), Save(u) \o Done)
  BY DEF CreateUser, Register, Exists
<1> PICK k \in {"create", "register"} : \E x : Start(w, k, Only(u, Account(TRUE, x)), Save(u) \o Done)
  BY <1>1
<1> PICK x : Start(w, k, Only(u, Account(TRUE, x)), Save(u) \o Done)
  OBVIOUS
<1>2. Plan(k, Only(u, Account(TRUE, x)), Save(u) \o Done)
  BY <1>1, UsersAre, AccountsAre, SavesJustOne DEF Admin
<1> QED
  BY <1>1, <1>2, Begins

(* submit and approve save an account and the request for it. *)
LEMMA SavesTwo ==
  ASSUME IInv, NEW w \in Workers, NEW u \in Users, NEW k \in {"submit", "approve"},
         NEW r \in UserRows, NEW q,
         k = "submit" => row[u] = NoRow,
         Start(w, k, [x \in {u, Ask(u)} |-> IF x = u THEN r ELSE q], Save(u) \o Save(Ask(u)) \o Done),
         UNCHANGED <<row, dirty, late, behind, holder>>
  PROVE  IInv'
<1> DEFINE c == [x \in {u, Ask(u)} |-> IF x = u THEN r ELSE q]
           t == Save(u) \o Save(Ask(u)) \o Done
<1>1. DOMAIN c = {u, Ask(u)} /\ c[u] = r
  OBVIOUS
<1>2. /\ t \in Seq(Steps) /\ Ordered(t)
      /\ Range(t) = {<<"reread", u>>, <<"write", u>>, <<"reread", Ask(u)>>, <<"write", Ask(u)>>,
                     <<"commit", Nobody>>}
  BY UsersAre, SaveBothAndDone
<1>3. Start(w, k, c, t)
  OBVIOUS
<1> HIDE DEF c, t
<1>4. \A s \in Range(t) : s[1] = "write" => s[2] \in DOMAIN c
  BY <1>1, <1>2
<1>5. Users \cap DOMAIN c = {u}
  BY <1>1, UsersAre
<1>6. DOMAIN c \subseteq Entities
  BY <1>1, UsersAre
<1>7. Plan(k, c, t)
  BY <1>1, <1>2, <1>4, <1>5, <1>6 DEF Plan, Admin
<1> QED
  BY <1>3, <1>7, Begins

LEMMA Submits ==
  ASSUME IInv, NEW w \in Workers, NEW u \in Users, Submit(w, u), UNCHANGED holder
  PROVE  IInv'
<1> QED
  BY AccountsAre, SavesTwo DEF Submit, Exists

LEMMA Approves ==
  ASSUME IInv, NEW w \in Workers, NEW a, NEW u \in Users, NEW roles, Approve(w, a, u, roles), UNCHANGED holder
  PROVE  IInv'
<1> QED
  BY AccountsAre, SavesTwo DEF Approve

(* Signing in and editing the profile save the row as it was read. *)
LEMMA SavesAsRead ==
  ASSUME IInv, NEW w \in Workers, NEW u \in Users, Login(w, u) \/ EditProfile(w, u), UNCHANGED holder
  PROVE  IInv'
<1>1. row[u] \in UserRows /\ UNCHANGED <<row, dirty, late, behind>>
  BY DEF Login, EditProfile, IsActive, Exists, IInv, Typed
<1>2. CASE EditProfile(w, u)
  <2>1. Plan("profile", Only(u, row[u]), Save(u) \o Done)
    BY <1>1, UsersAre, SavesJustOne
  <2> QED
    BY <1>1, <1>2, <2>1, Begins DEF EditProfile
<1>3. CASE Login(w, u)
  <2> DEFINE t == <<<<"issue", u>>>> \o Save(u) \o Done
  <2>1. /\ t \in Seq(Steps) /\ Ordered(t)
        /\ Range(t) = {<<"issue", u>>, <<"reread", u>>, <<"write", u>>, <<"commit", Nobody>>}
    BY UsersAre, IssueSaveAndDone
  <2>2. Start(w, "login", Only(u, row[u]), t)
    BY <1>3 DEF Login
  <2> HIDE DEF t
  <2>3. \A s \in Range(t) : s[1] = "write" => s[2] = u
    BY <2>1
  <2>4. Plan("login", Only(u, row[u]), t)
    BY <1>1, <2>1, <2>3, UsersAre, SavesOne
  <2> QED
    BY <1>1, <2>2, <2>4, Begins
<1> QED
  BY <1>2, <1>3

(* A decision to reject and the changes of a device save no account. *)
LEMMA SavesNoAccount ==
  ASSUME IInv, NEW w \in Workers, NEW e \in Entities \ Users, NEW k, k # "idle", NEW r,
         Start(w, k, Only(e, r), Save(e) \o Done),
         UNCHANGED <<row, dirty, late, behind, holder>>
  PROVE  IInv'
<1>1. Plan(k, Only(e, r), Save(e) \o Done)
  BY SavesJustOne
<1> QED
  BY <1>1, Begins

LEMMA Devises ==
  ASSUME IInv, NEW w \in Workers, NEW d \in Devices, NEW a,
         Authenticate(w, d) \/ Enroll(w, a, d) \/ Rotate(w, a, d) \/ Revoke(w, a, d),
         UNCHANGED holder
  PROVE  IInv'
<1>1. d \in Entities \ Users
  BY EntitiesAssumption
<1>2. /\ UNCHANGED <<row, dirty, late, behind>>
      /\ \E k \in {"enroll", "rotate", "revoke", "authenticate"} : \E r :
            Start(w, k, Only(d, r), Save(d) \o Done)
  BY DEF Authenticate, Enroll, Rotate, Revoke, Mint
<1> PICK k \in {"enroll", "rotate", "revoke", "authenticate"} :
            \E r : Start(w, k, Only(d, r), Save(d) \o Done)
  BY <1>2
<1> PICK r : Start(w, k, Only(d, r), Save(d) \o Done)
  OBVIOUS
<1> QED
  BY <1>1, <1>2, SavesNoAccount

LEMMA Refreshes ==
  ASSUME IInv, NEW w \in Workers, NEW k \in Tokens, Refresh(w, k)
  PROVE  IInv'
<1> DEFINE t == <<<<"load", holder[k]>>, <<"spend", k>>, <<"issue", holder[k]>>>> \o Done
<1>1. /\ Start(w, "refresh", None, t)
      /\ UNCHANGED <<row, dirty, late, behind, holder>>
  BY DEF Refresh, tokenVars
<1>2. /\ t \in Seq(Steps) /\ Ordered(t)
      /\ Range(t) = {<<"load", holder[k]>>, <<"spend", k>>, <<"issue", holder[k]>>, <<"commit", Nobody>>}
  BY NamesAre, RefreshInOrder DEF IInv, Typed
<1> HIDE DEF t
<1>3. DOMAIN None = {}
  BY DEF None
<1>4. \A s \in Range(t) : s[1] # "write"
  BY <1>2
<1>5. Plan("refresh", None, t)
  BY <1>2, <1>3, <1>4 DEF Plan
<1> QED
  BY <1>1, <1>5, Begins

-----------------------------------------------------------------------------
(* The specification.                                                      *)

LEMMA Starts == Init => IInv
<1> SUFFICES ASSUME Init PROVE IInv
  OBVIOUS
<1>1. /\ row = Stored /\ holder = [t \in Tokens |-> Nobody]
      /\ dirty = [w \in Workers |-> None] /\ job = [w \in Workers |-> Idle]
  BY DEF Init, RowsInit, TokensInit
<1>2. /\ DOMAIN None = {} /\ DOMAIN Idle = JobFields /\ Idle.kind = "idle" /\ Idle.todo = <<>>
      /\ Idle.copy = None /\ Idle.base = None
  BY DEF None, Idle, JobFields
<1>3. Typed
  BY <1>1, <1>2, StoredAssumption, UsersAre, NamesAre DEF Typed, UserRows
<1>4. RowsLocked
  BY <1>1, <1>2 DEF RowsLocked
<1>5. ASSUME NEW w \in Workers PROVE HandlerInv(w)
  <2>1. job[w] = Idle /\ dirty[w] = None
    BY <1>1
  <2> QED
    BY <1>2, <2>1, NoneInOrder DEF HandlerInv, JobOK, Exact, OneLeft
<1> QED
  BY <1>3, <1>4, <1>5 DEF IInv

LEMMA BeginStep ==
  ASSUME IInv, NEW w \in Workers, Begin(w)
  PROVE  IInv'
<1>1. CASE UNCHANGED tokenVars /\ \E a, u \in Users, roles \in RoleChoices :
              SetRoles(w, a, u, roles) \/ CreateUser(w, a, u, roles) \/ Approve(w, a, u, roles)
  BY <1>1, SetsRoles, Inserts, Approves DEF tokenVars
<1>2. CASE UNCHANGED tokenVars /\ \E a, u \in Users : Disable(w, a, u) \/ Enable(w, a, u)
  BY <1>2, Disables, Enables DEF tokenVars
<1>3. CASE UNCHANGED tokenVars /\ \E a, u \in Users : Reject(w, a, u)
  <2> PICK u \in Users : \E a \in Users : Reject(w, a, u)
    BY <1>3
  <2>1. Ask(u) \in Entities \ Users
    BY UsersAre
  <2> QED
    BY <1>3, <2>1, SavesNoAccount DEF Reject, tokenVars
<1>4. CASE UNCHANGED tokenVars
           /\ \E u \in Users : Register(w, u) \/ Submit(w, u) \/ Login(w, u) \/ EditProfile(w, u)
  BY <1>4, Inserts, Submits, SavesAsRead DEF tokenVars
<1>5. CASE \E t \in Tokens : Refresh(w, t)
  BY <1>5, Refreshes
<1>6. CASE UNCHANGED tokenVars
           /\ \E d \in Devices : \/ Authenticate(w, d)
                                \/ \E a \in Users : Enroll(w, a, d) \/ Rotate(w, a, d) \/ Revoke(w, a, d)
  BY <1>6, Devises DEF tokenVars
<1> QED
  BY <1>1, <1>2, <1>3, <1>4, <1>5, <1>6 DEF Begin

LEMMA RowStepKeeps ==
  ASSUME IInv, NEW w \in Workers, RowStep(w)
  PROVE  IInv'
<1>1. UNCHANGED holder
  BY DEF RowStep, tokenVars
<1>2. CASE Reread(w) \/ Write(w)
  BY <1>1, <1>2, Rereads, Writes
<1>3. CASE Count(w)
  BY <1>1, <1>3, Counts
<1>4. CASE Commit(w)
  BY <1>1, <1>4, Commits
<1>5. CASE Refused(w) \/ Fails(w)
  BY <1>1, <1>5, Ends DEF Refused, Fails, Rollback
<1> QED
  BY <1>2, <1>3, <1>4, <1>5 DEF RowStep

LEMMA TokenStepKeeps ==
  ASSUME IInv, NEW w \in Workers, TokenStep(w)
  PROVE  IInv'
<1>1. holder \in [Tokens -> Names]
  BY DEF IInv, Typed
<1>2. CASE Issue(w)
  <2>1. Subject(w) \in Names
    BY <1>2, AtStep DEF Issue
  <2>2. holder' \in [Tokens -> Names]
    BY <1>1, <1>2, <2>1 DEF Issue
  <2> QED
    BY <1>2, <2>2, Passes DEF Issue
<1>3. CASE Load(w)
  BY <1>1, <1>3, Passes DEF Load, tokenVars
<1>4. CASE Spend(w)
  BY <1>1, <1>4, Passes DEF Spend
<1>5. CASE ListTokens(w)
  BY <1>1, <1>5, Passes DEF ListTokens, tokenVars
<1>6. CASE DropTokens(w)
  BY <1>1, <1>6, Passes DEF DropTokens
<1>7. CASE RevokeFails(w)
  BY <1>7, RevocationFails
<1> QED
  BY <1>2, <1>3, <1>4, <1>5, <1>6, <1>7 DEF TokenStep

(* A step that touches no row and no request. *)
LEMMA NoRequestMoves ==
  ASSUME IInv, UNCHANGED <<row, dirty, job, late, behind, holder>>
  PROVE  IInv'
<1>1. Typed' /\ RowsLocked'
  BY DEF IInv, Typed, RowsLocked
<1>2. \A w \in Workers : HandlerInv(w)'
  BY Bystander DEF IInv
<1> QED
  BY <1>1, <1>2 DEF IInv

LEMMA Inductive == IInv /\ [Next]_vars => IInv'
<1> SUFFICES ASSUME IInv, [Next]_vars PROVE IInv'
  OBVIOUS
<1>1. CASE \E w \in Workers : Begin(w)
  BY <1>1, BeginStep
<1>2. CASE \E w \in Workers : RowStep(w) \/ TokenStep(w)
  BY <1>2, RowStepKeeps, TokenStepKeeps
<1>3. CASE \E t \in Tokens : Logout(t) \/ TokenExpires(t)
  BY <1>3, NoRequestMoves DEF Logout, TokenExpires
<1>4. CASE UNCHANGED vars
  BY <1>4, NoRequestMoves DEF vars
<1> QED
  BY <1>1, <1>2, <1>3, <1>4 DEF Next

(* Nothing but a commit changes a row. *)
LEMMA OnlyCommits ==
  ASSUME [Next]_vars, row' # row
  PROVE  \E w \in Workers : Commit(w)
<1>1. CASE \E w \in Workers : Begin(w)
  <2> PICK w \in Workers : Begin(w)
    BY <1>1
  <2>1. UNCHANGED row
    <3>1. \A a, u, roles : SetRoles(w, a, u, roles) \/ CreateUser(w, a, u, roles)
                          \/ Approve(w, a, u, roles) => UNCHANGED row
      BY DEF SetRoles, CreateUser, Approve
    <3>2. \A a, u : Disable(w, a, u) \/ Enable(w, a, u) \/ Reject(w, a, u) => UNCHANGED row
      BY DEF Disable, Enable, Reject
    <3>3. \A u : Register(w, u) \/ Submit(w, u) \/ Login(w, u) \/ EditProfile(w, u) => UNCHANGED row
      BY DEF Register, Submit, Login, EditProfile
    <3>4. \A t : Refresh(w, t) => UNCHANGED row
      BY DEF Refresh
    <3>5. \A d, a : Authenticate(w, d) \/ Enroll(w, a, d) \/ Rotate(w, a, d) \/ Revoke(w, a, d)
                      => UNCHANGED row
      BY DEF Authenticate, Enroll, Rotate, Revoke, Mint
    <3> QED
      BY <3>1, <3>2, <3>3, <3>4, <3>5 DEF Begin
  <2> QED
    BY <2>1
<1>2. CASE \E w \in Workers : RowStep(w)
  BY <1>2 DEF RowStep, Reread, Write, Count, Refused, Fails, Rollback
<1>3. CASE \E w \in Workers : TokenStep(w)
  BY <1>3 DEF TokenStep, Issue, Load, Spend, ListTokens, DropTokens, RevokeFails
<1>4. CASE \E t \in Tokens : Logout(t) \/ TokenExpires(t)
  BY <1>4 DEF Logout, TokenExpires
<1>5. CASE UNCHANGED vars
  BY <1>5 DEF vars
<1> QED
  BY <1>1, <1>2, <1>3, <1>4, <1>5 DEF Next

(* The inductive invariant: see HandlerInv for what it says of a request. *)
THEOREM Invariance == Spec => []IInv
BY Starts, Inductive, PTL DEF Spec

(* save() of two handlers: a row is written by one transaction at a time, *)
(* and a new value of it is committed before another one writes it.       *)
THEOREM OneWriter == Spec => []RowsLocked
<1>1. IInv => RowsLocked
  BY DEF IInv
<1> QED
  BY <1>1, Invariance, PTL

(* _refuse_if_lockout: the last active administrator is disabled or        *)
(* demoted only by a request that was overtaken, or by an approval.        *)
THEOREM AdministratorRemains == Spec => AdminRemains
<1>1. ASSUME IInv, [Next]_vars
      PROVE  [ActiveAdmins # {} /\ ActiveAdmins' = {} =>
                \E w \in Workers : At(w, "commit") /\ (job[w].kind = "approve" \/ w \in late \cup behind)]_vars
  <2> SUFFICES ASSUME ActiveAdmins # {}, ActiveAdmins' = {}
               PROVE  \E w \in Workers :
                        At(w, "commit") /\ (job[w].kind = "approve" \/ w \in late \cup behind)
    OBVIOUS
  <2>1. row' # row
    BY SameAdmins
  <2>2. \E w \in Workers : Commit(w)
    BY <1>1, <2>1, OnlyCommits
  <2> PICK w \in Workers : Commit(w)
    BY <2>2
  <2>3. CommitRows(w) /\ At(w, "commit")
    BY DEF Commit, CommitRows
  <2> QED
    BY <1>1, <2>3, LastAdmin
<1>2. Spec => []IInv
  BY Invariance
<1> QED
  BY <1>1, <1>2, PTL DEF Spec, AdminRemains

-----------------------------------------------------------------------------
(***************************************************************************)
(* A request for access is decided once (DecidedOnce), and a disabled      *)
(* account is enabled on purpose or by a copy that is too old              *)
(* (EnabledOnPurpose), in any number of handlers.                          *)
(*                                                                         *)
(* Both follow a handler from the copy it starts with to its commit.  What *)
(* a commit changes, it changes under those who have still to write it,    *)
(* who are behind from then on, or to read it again, who are late; nobody  *)
(* else can have written it, since the row is locked.  So what the copy    *)
(* was made of still holds of the row: the request is open, and an account *)
(* whose copy is active is active.                                         *)
(***************************************************************************)

Open(u) == row[Ask(u)] # NoRow => row[Ask(u)].status = "PENDING"

(* Every copy is going to be written. *)
SavesAll(w) ==
    \A e \in DOMAIN job[w].copy \ DOMAIN dirty[w] : <<"write", e>> \in Range(job[w].todo)

(* A request for access is about an account that exists, or is saved with it. *)
AsksOf(w) ==
    \A u \in Users : Ask(u) \in DOMAIN job[w].copy => u \in DOMAIN job[w].copy \/ row[u] # NoRow

Decides(w) ==
    w \notin behind => \A u \in Users : Ask(u) \in DOMAIN job[w].copy => Open(u)

(* r is no row, or that of an active account. *)
NotDisabled(r) == r = NoRow \/ r["active"] = TRUE

(* An active copy: the row was active when the copy was made, is so when   *)
(* it is read again, and when it is written.                               *)
KeepsDisabled(w) ==
    w \notin late /\ job[w].kind \notin {"enable", "approve"} =>
        /\ \A u \in (Users \cap DOMAIN job[w].copy) \ DOMAIN dirty[w] :
              job[w].copy[u]["active"] = TRUE =>
                 IF <<"reread", u>> \in Range(job[w].todo)
                 THEN NotDisabled(row[u])
                 ELSE NotDisabled(job[w].base[u])
        /\ \A u \in Users \cap DOMAIN dirty[w] :
              dirty[w][u]["active"] = TRUE => NotDisabled(row[u])

Purposeful(w) == SavesAll(w) /\ AsksOf(w) /\ Decides(w) /\ KeepsDisabled(w)

AsksHaveAccounts == \A u \in Users : row[u] = NoRow => row[Ask(u)] = NoRow

PInv == AsksHaveAccounts /\ \A w \in Workers : Purposeful(w)

-----------------------------------------------------------------------------
(* Steps.                                                                  *)

LEMMA Unmoved ==
  ASSUME NEW v \in Workers, Purposeful(v), row' = row,
         job'[v] = job[v], dirty'[v] = dirty[v],
         v \in late => v \in late', v \in behind => v \in behind'
  PROVE  Purposeful(v)'
<1>1. SavesAll(v)' /\ AsksOf(v)'
  BY DEF Purposeful, SavesAll, AsksOf
<1>2. Decides(v)'
  BY DEF Purposeful, Decides, Open
<1>3. KeepsDisabled(v)'
  BY DEF Purposeful, KeepsDisabled, NotDisabled
<1> QED
  BY <1>1, <1>2, <1>3 DEF Purposeful

(* A handler without a request. *)
LEMMA IdlePurposeful ==
  ASSUME NEW w \in Workers, job'[w] = Idle, dirty'[w] = None
  PROVE  Purposeful(w)'
<1>1. DOMAIN Idle.copy = {} /\ DOMAIN None = {}
  BY DEF Idle, None
<1> QED
  BY <1>1 DEF Purposeful, SavesAll, AsksOf, Decides, KeepsDisabled

(* What a request needs to start with. *)
Sound(k, c, t) ==
    /\ \A e \in DOMAIN c : <<"write", e>> \in Range(t) /\ <<"reread", e>> \in Range(t)
    /\ \A u \in Users : Ask(u) \in DOMAIN c => Open(u) /\ (u \in DOMAIN c \/ row[u] # NoRow)
    /\ k \notin {"enable", "approve"} =>
          \A u \in Users \cap DOMAIN c : c[u]["active"] = TRUE => NotDisabled(row[u])

LEMMA BeginsSound ==
  ASSUME IInv, PInv, NEW w \in Workers, NEW k, NEW c, NEW t,
         Start(w, k, c, t), Sound(k, c, t), UNCHANGED <<row, dirty, late, behind>>
  PROVE  PInv'
<1>1. /\ DOMAIN job = Workers /\ DOMAIN job[w] = JobFields
      /\ job[w].kind = "idle" => DOMAIN dirty[w] = {}
  BY DEF IInv, Typed, HandlerInv, JobOK
<1>2. /\ job[w] = Idle
      /\ job'[w].kind = k /\ job'[w].copy = c /\ job'[w].todo = t
      /\ \A v \in Workers \ {w} : job'[v] = job[v]
  BY <1>1 DEF Start, Idle, JobFields
<1>3. DOMAIN dirty'[w] = {}
  BY <1>1, <1>2 DEF Idle
<1>4. SavesAll(w)' /\ AsksOf(w)'
  BY <1>2, <1>3 DEF SavesAll, AsksOf, Sound
<1>5. Decides(w)'
  BY <1>2 DEF Decides, Sound, Open
<1>6. KeepsDisabled(w)'
  BY <1>2, <1>3 DEF KeepsDisabled, Sound, NotDisabled
<1>7. Purposeful(w)'
  BY <1>4, <1>5, <1>6 DEF Purposeful
<1>8. \A v \in Workers \ {w} : Purposeful(v)'
  BY <1>2, Unmoved DEF PInv
<1> QED
  BY <1>7, <1>8 DEF PInv, AsksHaveAccounts

(* A step that keeps the copies and what is to be read and written. *)
LEMMA ProceedsSound ==
  ASSUME PInv, NEW w \in Workers,
         UNCHANGED <<row, dirty, late, behind>>,
         \A v \in Workers \ {w} : job'[v] = job[v],
         job'[w].kind = job[w].kind, job'[w].copy = job[w].copy, job'[w].base = job[w].base,
         \A s \in Range(job'[w].todo) : s[1] = "reread" => s \in Range(job[w].todo),
         \A s \in Range(job[w].todo) : s[1] \in {"reread", "write"} => s \in Range(job'[w].todo)
  PROVE  PInv'
<1>1. Purposeful(w)
  BY DEF PInv
<1>2. \A u : <<"write", u>>[1] = "write" /\ <<"reread", u>>[1] = "reread"
  OBVIOUS
<1>3. \A u : /\ <<"write", u>> \in Range(job[w].todo) => <<"write", u>> \in Range(job'[w].todo)
             /\ <<"reread", u>> \in Range(job[w].todo) <=> <<"reread", u>> \in Range(job'[w].todo)
  BY <1>2
<1>4. SavesAll(w)' /\ AsksOf(w)'
  BY <1>1, <1>3 DEF Purposeful, SavesAll, AsksOf
<1>5. Decides(w)'
  BY <1>1 DEF Purposeful, Decides, Open
<1>6. KeepsDisabled(w)'
  BY <1>1, <1>3 DEF Purposeful, KeepsDisabled, NotDisabled
<1>7. Purposeful(w)'
  BY <1>4, <1>5, <1>6 DEF Purposeful
<1>8. \A v \in Workers \ {w} : Purposeful(v)'
  BY Unmoved DEF PInv
<1> QED
  BY <1>7, <1>8 DEF PInv, AsksHaveAccounts

(* Reading the row again: the copy was made of a row that is still what it *)
(* was, or the handler is late.                                            *)
LEMMA RereadsSound ==
  ASSUME IInv, PInv, NEW w \in Workers, Reread(w)
  PROVE  PInv'
<1> DEFINE e == Subject(w)
<1> At(w, "reread")
  BY DEF Reread
<1>1. /\ DOMAIN job = Workers /\ DOMAIN job[w] = JobFields
      /\ <<"reread", e>> \in Range(job[w].todo)
      /\ \A s \in Range(job[w].todo) : s = <<"reread", e>> \/ s \in Range(Tail(job[w].todo))
      /\ \A s \in Range(Tail(job[w].todo)) : s \in Range(job[w].todo)
  BY AtStep
<1> HIDE DEF e
<1> DEFINE b == [x \in DOMAIN job[w].base \cup {e} |-> IF x = e THEN row[e] ELSE job[w].base[x]]
<1>2. /\ \A v \in Workers \ {w} : job'[v] = job[v]
      /\ job'[w].kind = job[w].kind /\ job'[w].copy = job[w].copy
      /\ job'[w].base = b /\ job'[w].todo = Tail(job[w].todo)
      /\ UNCHANGED <<row, dirty, late, behind>>
  BY <1>1 DEF Reread, JobFields, e
<1>3. /\ DOMAIN b = DOMAIN job[w].base \cup {e}
      /\ \A x \in DOMAIN b : b[x] = IF x = e THEN row[e] ELSE job[w].base[x]
  OBVIOUS
<1> HIDE DEF b
<1>4. Purposeful(w) /\ JobOK(w)
  BY DEF PInv, IInv, HandlerInv
<1>5. \A u : /\ <<"write", u>> \in Range(job[w].todo) => <<"write", u>> \in Range(job'[w].todo)
             /\ <<"reread", u>> \in Range(job'[w].todo) => <<"reread", u>> \in Range(job[w].todo)
             /\ u # e /\ <<"reread", u>> \in Range(job[w].todo) => <<"reread", u>> \in Range(job'[w].todo)
  BY <1>1, <1>2
<1>6. SavesAll(w)' /\ AsksOf(w)'
  BY <1>2, <1>4, <1>5 DEF Purposeful, SavesAll, AsksOf
<1>7. Decides(w)'
  BY <1>2, <1>4 DEF Purposeful, Decides, Open
<1>8. ASSUME w \notin late', job'[w].kind \notin {"enable", "approve"},
             NEW u \in (Users \cap DOMAIN job'[w].copy) \ DOMAIN dirty'[w],
             job'[w].copy[u]["active"] = TRUE
      PROVE  IF <<"reread", u>> \in Range(job'[w].todo)
             THEN NotDisabled(row'[u]) ELSE NotDisabled(job'[w].base[u])
  <2>1. IF <<"reread", u>> \in Range(job[w].todo)
        THEN NotDisabled(row[u]) ELSE NotDisabled(job[w].base[u])
    BY <1>2, <1>4, <1>8 DEF Purposeful, KeepsDisabled
  <2>2. CASE u = e
    BY <1>1, <1>2, <1>3, <2>1, <2>2
  <2>3. CASE u # e
    <3>1. <<"reread", u>> \notin Range(job[w].todo) => u \in DOMAIN job[w].base
      BY <1>2, <1>4, <1>8 DEF JobOK
    <3> QED
      BY <1>2, <1>3, <1>5, <2>1, <2>3, <3>1
  <2> QED
    BY <2>2, <2>3
<1>9. KeepsDisabled(w)'
  BY <1>2, <1>4, <1>8 DEF Purposeful, KeepsDisabled, NotDisabled
<1>10. Purposeful(w)'
  BY <1>6, <1>7, <1>9 DEF Purposeful
<1>11. \A v \in Workers \ {w} : Purposeful(v)'
  BY <1>2, Unmoved DEF PInv
<1> QED
  BY <1>2, <1>10, <1>11 DEF PInv, AsksHaveAccounts

(* The flush sets "active" only where the copy differs from the reading. *)
LEMMA WritesSound ==
  ASSUME IInv, PInv, NEW w \in Workers, Write(w)
  PROVE  PInv'
<1> DEFINE e == Subject(w)
<1> At(w, "write")
  BY DEF Write
<1>1. /\ DOMAIN job = Workers /\ DOMAIN job[w] = JobFields
      /\ <<"write", e>> \in Range(job[w].todo)
      /\ \A s \in Range(job[w].todo) : s = <<"write", e>> \/ s \in Range(Tail(job[w].todo))
      /\ \A s \in Range(Tail(job[w].todo)) :
            s \in Range(job[w].todo) /\ Before(<<"write", e>>, s)
  BY AtStep
<1>2. Purposeful(w) /\ HandlerInv(w) /\ JobOK(w) /\ DOMAIN dirty = Workers
  BY DEF PInv, IInv, HandlerInv, Typed
<1>3. e \in DOMAIN job[w].copy \ DOMAIN dirty[w]
  BY <1>1, <1>2 DEF JobOK
<1>4. <<"reread", e>> \notin Range(job[w].todo)
  BY <1>1 DEF Before
<1> DEFINE new == Written(e, job[w].copy[e], job[w].base[e])
           d == [x \in DOMAIN dirty[w] \cup {e} |-> IF x = e THEN new ELSE dirty[w][x]]
<1>5. /\ \A v \in Workers \ {w} : job'[v] = job[v] /\ dirty'[v] = dirty[v]
      /\ job'[w].kind = job[w].kind /\ job'[w].copy = job[w].copy
      /\ job'[w].base = job[w].base /\ job'[w].todo = Tail(job[w].todo)
      /\ UNCHANGED <<row, late, behind>> /\ dirty'[w] = d
      /\ job[w].base[e] = NoRow => row[e] = NoRow
  BY <1>1, <1>2 DEF Write, Unique, Advance, JobFields
<1>6. ASSUME e \in Users, w \notin late, job[w].kind \notin {"enable", "approve"},
             new["active"] = TRUE
      PROVE  NotDisabled(row[e])
  <2>1. job[w].copy[e] \in UserRows /\ e \in DOMAIN job[w].base
    BY <1>2, <1>3, <1>4, <1>6 DEF JobOK
  <2>2. job[w].copy[e]["active"] = TRUE => NotDisabled(job[w].base[e])
    BY <1>2, <1>3, <1>4, <1>6 DEF Purposeful, KeepsDisabled
  <2>3. CASE job[w].base[e] = NoRow
    BY <1>5, <2>3 DEF NotDisabled
  <2>4. CASE job[w].base[e] # NoRow
    <3>1. row[e] \in UserRows
      BY <1>2, <1>6, <2>1, <2>4 DEF JobOK
    <3>2. new["active"] = IF job[w].copy[e]["active"] # job[w].base[e]["active"]
                          THEN job[w].copy[e]["active"] ELSE row[e]["active"]
      BY <2>1, <2>4 DEF Written, UserRows
    <3>3. job[w].copy[e]["active"] \in BOOLEAN
      BY <2>1 DEF UserRows
    <3>4. job[w].copy[e]["active"] = TRUE => job[w].base[e]["active"] = TRUE
      BY <2>2, <2>4 DEF NotDisabled
    <3>5. row[e]["active"] = TRUE
      BY <1>6, <3>2, <3>3, <3>4
    <3> QED
      BY <3>5 DEF NotDisabled
  <2> QED
    BY <2>3, <2>4
<1> HIDE DEF e, new
<1>7. /\ DOMAIN d = DOMAIN dirty[w] \cup {e}
      /\ \A x \in DOMAIN d : d[x] = IF x = e THEN new ELSE dirty[w][x]
  OBVIOUS
<1> HIDE DEF d
<1>8. \A u : /\ u # e /\ <<"write", u>> \in Range(job[w].todo) => <<"write", u>> \in Range(job'[w].todo)
             /\ <<"reread", u>> \in Range(job[w].todo) <=> <<"reread", u>> \in Range(job'[w].todo)
  BY <1>1, <1>5
<1>9. SavesAll(w)'
  <2> SUFFICES ASSUME NEW x \in DOMAIN job'[w].copy \ DOMAIN dirty'[w]
               PROVE  <<"write", x>> \in Range(job'[w].todo)
    BY DEF SavesAll
  <2>1. x \in DOMAIN job[w].copy \ DOMAIN dirty[w] /\ x # e
    BY <1>5, <1>7
  <2>2. <<"write", x>> \in Range(job[w].todo)
    BY <1>2, <2>1 DEF Purposeful, SavesAll
  <2> QED
    BY <1>8, <2>1, <2>2
<1>10. AsksOf(w)' /\ Decides(w)'
  BY <1>2, <1>5 DEF Purposeful, AsksOf, Decides, Open
<1>11. KeepsDisabled(w)'
  <2> SUFFICES ASSUME w \notin late, job[w].kind \notin {"enable", "approve"}
               PROVE  KeepsDisabled(w)'
    BY <1>5 DEF KeepsDisabled
  <2>1. \A u \in (Users \cap DOMAIN job'[w].copy) \ DOMAIN dirty'[w] :
           job'[w].copy[u]["active"] = TRUE =>
              IF <<"reread", u>> \in Range(job'[w].todo)
              THEN NotDisabled(row'[u]) ELSE NotDisabled(job'[w].base[u])
    BY <1>2, <1>5, <1>7, <1>8 DEF Purposeful, KeepsDisabled
  <2>2. \A u \in Users \cap DOMAIN dirty'[w] :
           dirty'[w][u]["active"] = TRUE => NotDisabled(row'[u])
    <3> SUFFICES ASSUME NEW u \in Users \cap DOMAIN dirty'[w], dirty'[w][u]["active"] = TRUE
                 PROVE  NotDisabled(row[u])
      BY <1>5 DEF NotDisabled
    <3>1. CASE u = e
      BY <1>5, <1>6, <1>7, <3>1
    <3>2. CASE u # e
      BY <1>2, <1>5, <1>7, <3>2 DEF Purposeful, KeepsDisabled
    <3> QED
      BY <3>1, <3>2
  <2> QED
    BY <2>1, <2>2 DEF KeepsDisabled, NotDisabled
<1>12. Purposeful(w)'
  BY <1>9, <1>10, <1>11 DEF Purposeful
<1>13. \A v \in Workers \ {w} : Purposeful(v)'
  BY <1>5, Unmoved DEF PInv
<1> QED
  BY <1>5, <1>12, <1>13 DEF PInv, AsksHaveAccounts

(* The session is rolled back. *)
LEMMA EndsSound ==
  ASSUME IInv, PInv, NEW w \in Workers, Forget(w), row' = row,
         late' = late \ {w}, behind' = behind \ {w}
  PROVE  PInv'
<1>1. /\ \A v \in Workers \ {w} : job'[v] = job[v] /\ dirty'[v] = dirty[v]
      /\ job'[w] = Idle /\ dirty'[w] = None
  BY DEF IInv, Typed, Forget
<1>2. Purposeful(w)'
  BY <1>1, IdlePurposeful
<1>3. \A v \in Workers \ {w} : Purposeful(v)'
  BY <1>1, Unmoved DEF PInv
<1> QED
  BY <1>2, <1>3 DEF PInv, AsksHaveAccounts

(* Who has its copy still to write is overtaken by whom changes the row. *)
LEMMA NotChanged ==
  ASSUME IInv, PInv, NEW w \in Workers, CommitRows(w), NEW v \in Workers \ {w},
         v \notin behind', NEW e \in Entities \cap DOMAIN job[v].copy
  PROVE  row'[e] = row[e]
<1> SUFFICES ASSUME e \in DOMAIN dirty[w], dirty[w][e] # row[e] PROVE FALSE
  BY DEF CommitRows, After
<1>1. e \notin DOMAIN dirty[v]
  BY DEF IInv, RowsLocked
<1>2. <<"write", e>> \in Range(job[v].todo)
  BY <1>1 DEF PInv, Purposeful, SavesAll
<1>3. v \in Overtaken(w, "write")
  BY <1>2 DEF Overtaken
<1> QED
  BY <1>3 DEF CommitRows

(* At the commit everything the handler held is written. *)
LEMMA AllSaved ==
  ASSUME IInv, PInv, NEW w \in Workers, At(w, "commit")
  PROVE  DOMAIN dirty[w] = DOMAIN job[w].copy
<1>1. \A s \in Range(job[w].todo) : s = <<"commit", Subject(w)>>
  BY AtStep DEF Before
<1>2. \A e : <<"write", e>> \notin Range(job[w].todo)
  BY <1>1
<1>3. SavesAll(w) /\ JobOK(w)
  BY DEF PInv, Purposeful, IInv, HandlerInv
<1> QED
  BY <1>2, <1>3 DEF SavesAll, JobOK

LEMMA CommitsSound ==
  ASSUME IInv, PInv, NEW w \in Workers, Commit(w)
  PROVE  PInv'
<1> At(w, "commit") /\ CommitRows(w)
  BY DEF Commit, CommitRows
<1>1. /\ \A v \in Workers \ {w} : job'[v] = job[v] /\ dirty'[v] = dirty[v]
      /\ job'[w] = Idle /\ dirty'[w] = None
  BY DEF IInv, Typed, CommitRows, Forget
<1>2. Purposeful(w)'
  BY <1>1, IdlePurposeful
<1>3. \A u \in Users : row[u] # NoRow => row'[u] # NoRow
  BY RowsAfter, EntitiesAssumption DEF IInv, Typed, UserRows
<1>4. AsksHaveAccounts'
  <2> SUFFICES ASSUME NEW u \in Users, row'[Ask(u)] # NoRow PROVE row'[u] # NoRow
    BY DEF AsksHaveAccounts, Ask
  <2>1. CASE Ask(u) \notin DOMAIN dirty[w]
    <3>1. row'[Ask(u)] = row[Ask(u)]
      BY <2>1, UsersAre DEF CommitRows, After
    <3> QED
      BY <1>3, <3>1 DEF PInv, AsksHaveAccounts
  <2>2. CASE Ask(u) \in DOMAIN dirty[w]
    <3>1. u \in DOMAIN dirty[w] \/ row[u] # NoRow
      BY <2>2, AllSaved DEF PInv, Purposeful, AsksOf
    <3>2. u \in DOMAIN dirty[w] => row'[u] \in UserRows
      BY RowsAfter DEF IInv, HandlerInv, JobOK
    <3> QED
      BY <1>3, <3>1, <3>2, EntitiesAssumption DEF UserRows
  <2> QED
    BY <2>1, <2>2
<1>5. ASSUME NEW v \in Workers \ {w}
      PROVE  Purposeful(v)'
  <2>1. Purposeful(v) /\ JobOK(v)
    BY DEF PInv, IInv, HandlerInv
  <2>2. SavesAll(v)' /\ AsksOf(v)'
    BY <1>1, <1>3, <2>1 DEF Purposeful, SavesAll, AsksOf
  <2>3. /\ v \notin behind' => v \notin behind
        /\ v \notin late' => v \notin late
    BY DEF Commit, CommitRows
  <2>4. v \notin behind' => \A u \in Users : Ask(u) \in DOMAIN job[v].copy => row'[Ask(u)] = row[Ask(u)]
    BY NotChanged, UsersAre
  <2>5. Decides(v)'
    BY <1>1, <2>1, <2>3, <2>4 DEF Purposeful, Decides, Open
  <2>6. ASSUME v \notin late', NEW u \in Users, <<"reread", u>> \in Range(job[v].todo)
        PROVE  row'[u] = row[u]
    <3> SUFFICES ASSUME u \in DOMAIN dirty[w], dirty[w][u] # row[u] PROVE FALSE
      BY RowsAfter
    <3>1. v \in Overtaken(w, "reread")
      BY <2>6 DEF Overtaken
    <3> QED
      BY <2>6, <3>1 DEF Commit
  <2>7. \A u \in Users \cap DOMAIN dirty[v] : row'[u] = row[u]
    BY RowsAfter DEF IInv, RowsLocked
  <2>8. KeepsDisabled(v)'
    BY <1>1, <2>1, <2>3, <2>6, <2>7 DEF Purposeful, KeepsDisabled, NotDisabled
  <2> QED
    BY <2>2, <2>5, <2>8 DEF Purposeful
<1> QED
  BY <1>2, <1>4, <1>5 DEF PInv

-----------------------------------------------------------------------------
(* Requests.                                                               *)

(* A request that saves one row. *)
LEMMA OneSound ==
  ASSUME NEW e \in Entities, NEW r, NEW k, NEW t,
         <<"reread", e>> \in Range(t), <<"write", e>> \in Range(t),
         \A u \in Users : e = Ask(u) => Open(u) /\ row[u] # NoRow,
         e \in Users /\ k # "enable" /\ r["active"] = TRUE => NotDisabled(row[e])
  PROVE  Sound(k, Only(e, r), t)
<1>1. DOMAIN Only(e, r) = {e} /\ Only(e, r)[e] = r
  BY OnlyIs
<1> QED
  BY <1>1 DEF Sound

(* One that saves the row of an account. *)
LEMMA AccountSound ==
  ASSUME NEW u \in Users, NEW r, NEW k, NEW t,
         <<"reread", u>> \in Range(t), <<"write", u>> \in Range(t),
         k # "enable" /\ r["active"] = TRUE => NotDisabled(row[u])
  PROVE  Sound(k, Only(u, r), t)
<1>1. u \in Entities /\ \A v \in Users : u # Ask(v)
  BY UsersAre
<1> QED
  BY <1>1, OneSound

(* An account and the request for it. *)
LEMMA TwoSound ==
  ASSUME NEW u \in Users, NEW r, NEW q, NEW k \in {"submit", "approve"}, Open(u),
         k = "submit" /\ r["active"] = TRUE => NotDisabled(row[u])
  PROVE  Sound(k, [x \in {u, Ask(u)} |-> IF x = u THEN r ELSE q], Save(u) \o Save(Ask(u)) \o Done)
<1> DEFINE c == [x \in {u, Ask(u)} |-> IF x = u THEN r ELSE q]
           t == Save(u) \o Save(Ask(u)) \o Done
<1>1. DOMAIN c = {u, Ask(u)} /\ c[u] = r
  OBVIOUS
<1>2. Range(t) = {<<"reread", u>>, <<"write", u>>, <<"reread", Ask(u)>>, <<"write", Ask(u)>>,
                  <<"commit", Nobody>>}
  BY UsersAre, SaveBothAndDone
<1> HIDE DEF c, t
<1>3. \A v \in Users : Ask(v) \in DOMAIN c => v = u
  BY <1>1, UsersAre DEF Ask
<1>4. \A v \in Users \cap DOMAIN c : v = u
  BY <1>1, UsersAre
<1>5. \A v \in Users : Ask(v) \in DOMAIN c => Open(v) /\ (v \in DOMAIN c \/ row[v] # NoRow)
  BY <1>1, <1>3
<1>6. Sound(k, c, t)
  BY <1>1, <1>2, <1>4, <1>5 DEF Sound
<1> QED
  BY <1>6 DEF c, t

LEMMA AsksOpen ==
  ASSUME PInv, NEW u \in Users, Pending(u)
  PROVE  Open(u) /\ row[u] # NoRow
BY DEF Pending, Open, PInv, AsksHaveAccounts

LEMMA AdministersSound ==
  ASSUME IInv, PInv, NEW w \in Workers, NEW a, NEW u \in Users, NEW roles,
         SetRoles(w, a, u, roles) \/ Disable(w, a, u) \/ Enable(w, a, u)
  PROVE  PInv'
<1>1. row[u] # NoRow /\ row[u] \in UserRows /\ UNCHANGED <<row, dirty, late, behind>>
  BY DEF SetRoles, Disable, Enable, IsActive, Exists, IInv, Typed
<1>2. CASE SetRoles(w, a, u, roles)
  <2> DEFINE demotes == IsAdmin(u, row[u]) /\ u \notin Supers /\ "ADMIN" \notin roles
             c == IF demotes /\ IsActive(u) THEN <<<<"count", u>>>> ELSE <<>>
             r == Account(row[u]["active"], roles)
             t == c \o Save(u) \o Done
  <2>1. Start(w, "roles", Only(u, r), t)
    BY <1>2 DEF SetRoles
  <2>2. r["active"] = TRUE => NotDisabled(row[u])
    BY AccountsAre DEF NotDisabled, Account
  <2>3. c = <<>> \/ c = <<<<"count", u>>>>
    OBVIOUS
  <2> HIDE DEF c, r
  <2>4. <<"reread", u>> \in Range(t) /\ <<"write", u>> \in Range(t)
    BY <2>3, UsersAre, CountSaveAndDone
  <2> HIDE DEF t
  <2>5. Sound("roles", Only(u, r), t)
    BY <2>2, <2>4, AccountSound
  <2> QED
    BY <1>1, <2>1, <2>5, BeginsSound
<1>3. CASE Disable(w, a, u)
  <2> DEFINE c == IF IsAdmin(u, row[u]) THEN <<<<"count", u>>>> ELSE <<>>
             r == [row[u] EXCEPT !["active"] = FALSE]
             t == c \o Save(u) \o <<<<"list", u>>, <<"drop", u>>>> \o Done
  <2>1. Start(w, "disable", Only(u, r), t)
    BY <1>3 DEF Disable
  <2>2. r["active"] = FALSE
    BY <1>1 DEF UserRows
  <2>3. c = <<>> \/ c = <<<<"count", u>>>>
    OBVIOUS
  <2> HIDE DEF c, r
  <2>4. <<"reread", u>> \in Range(t) /\ <<"write", u>> \in Range(t)
    BY <2>3, UsersAre, RevokingInOrder
  <2> HIDE DEF t
  <2>5. Sound("disable", Only(u, r), t)
    BY <2>2, <2>4, AccountSound
  <2> QED
    BY <1>1, <2>1, <2>5, BeginsSound
<1>4. CASE Enable(w, a, u)
  <2> DEFINE r == [row[u] EXCEPT !["active"] = TRUE]
  <2>1. Start(w, "enable", Only(u, r), Save(u) \o Done)
    BY <1>4 DEF Enable
  <2> HIDE DEF r
  <2>2. Sound("enable", Only(u, r), Save(u) \o Done)
    BY UsersAre, SaveAndDone, AccountSound
  <2> QED
    BY <1>1, <2>1, <2>2, BeginsSound
<1> QED
  BY <1>2, <1>3, <1>4

(* The requests that insert an account. *)
LEMMA InsertsSound ==
  ASSUME IInv, PInv, NEW w \in Workers, NEW u \in Users, NEW roles,
         (\E a : CreateUser(w, a, u, roles)) \/ Register(w, u) \/ Submit(w, u)
  PROVE  PInv'
<1>1. row[u] = NoRow /\ NotDisabled(row[u]) /\ UNCHANGED <<row, dirty, late, behind>>
  BY DEF CreateUser, Register, Submit, Exists, NotDisabled
<1>2. CASE Submit(w, u)
  <2>1. Open(u)
    BY <1>1 DEF PInv, AsksHaveAccounts, Open
  <2>2. Sound("submit", [x \in {u, Ask(u)} |-> IF x = u THEN Account(FALSE, {}) ELSE [status |-> "PENDING"]],
              Save(u) \o Save(Ask(u)) \o Done)
    BY <1>1, <2>1, TwoSound
  <2> QED
    BY <1>1, <1>2, <2>2, BeginsSound DEF Submit
<1>3. CASE (\E a : CreateUser(w, a, u, roles)) \/ Register(w, u)
  <2> PICK k \in {"create", "register"} : \E x : Start(w, k, Only(u, Account(TRUE, x)), Save(u) \o Done)
    BY <1>3 DEF CreateUser, Register
  <2> PICK x : Start(w, k, Only(u, Account(TRUE, x)), Save(u) \o Done)
    OBVIOUS
  <2>1. Sound(k, Only(u, Account(TRUE, x)), Save(u) \o Done)
    BY <1>1, UsersAre, SaveAndDone, AccountSound
  <2> QED
    BY <1>1, <2>1, BeginsSound
<1> QED
  BY <1>2, <1>3

LEMMA DecisionsSound ==
  ASSUME IInv, PInv, NEW w \in Workers, NEW a, NEW u \in Users, NEW roles,
         Approve(w, a, u, roles) \/ Reject(w, a, u)
  PROVE  PInv'
<1>1. Open(u) /\ row[u] # NoRow /\ UNCHANGED <<row, dirty, late, behind>>
  BY AsksOpen DEF Approve, Reject
<1>2. CASE Approve(w, a, u, roles)
  <2>1. Sound("approve", [x \in {u, Ask(u)} |-> IF x = u THEN Account(TRUE, roles) ELSE [status |-> "APPROVED"]],
              Save(u) \o Save(Ask(u)) \o Done)
    BY <1>1, TwoSound
  <2> QED
    BY <1>1, <1>2, <2>1, BeginsSound DEF Approve
<1>3. CASE Reject(w, a, u)
  <2>1. Ask(u) \in Entities /\ Ask(u) \notin Users /\ \A v \in Users : Ask(u) = Ask(v) => v = u
    BY UsersAre DEF Ask
  <2>2. Sound("reject", Only(Ask(u), [status |-> "REJECTED"]), Save(Ask(u)) \o Done)
    BY <1>1, <2>1, SaveAndDone, OneSound
  <2> QED
    BY <1>1, <1>3, <2>2, BeginsSound DEF Reject
<1> QED
  BY <1>2, <1>3

(* The requests that save a row as it was read, or none. *)
LEMMA OthersSound ==
  ASSUME IInv, PInv, NEW w \in Workers,
         \/ \E u \in Users : Login(w, u) \/ EditProfile(w, u)
         \/ \E t \in Tokens : Refresh(w, t)
         \/ \E d \in Devices : Authenticate(w, d) \/ \E a : Enroll(w, a, d) \/ Rotate(w, a, d) \/ Revoke(w, a, d)
  PROVE  PInv'
<1>1. CASE \E u \in Users : Login(w, u) \/ EditProfile(w, u)
  <2> PICK u \in Users : Login(w, u) \/ EditProfile(w, u)
    BY <1>1
  <2>1. UNCHANGED <<row, dirty, late, behind>> /\ NotDisabled(row[u])
    BY DEF Login, EditProfile, IsActive, NotDisabled, IInv, Typed, UserRows, Exists
  <2> PICK k \in {"login", "profile"}, t \in {<<<<"issue", u>>>> \o Save(u) \o Done, Save(u) \o Done} :
              Start(w, k, Only(u, row[u]), t)
    BY DEF Login, EditProfile
  <2>2. <<"reread", u>> \in Range(t) /\ <<"write", u>> \in Range(t)
    BY UsersAre, IssueSaveAndDone, SaveAndDone
  <2>3. Sound(k, Only(u, row[u]), t)
    BY <2>1, <2>2, AccountSound
  <2> QED
    BY <2>1, <2>3, BeginsSound
<1>2. CASE \E t \in Tokens : Refresh(w, t)
  <2> PICK t : Start(w, "refresh", None, t) /\ UNCHANGED <<row, dirty, late, behind>>
    BY <1>2 DEF Refresh
  <2>1. Sound("refresh", None, t)
    BY DEF Sound, None
  <2> QED
    BY <2>1, BeginsSound
<1>3. CASE \E d \in Devices : Authenticate(w, d) \/ \E a : Enroll(w, a, d) \/ Rotate(w, a, d) \/ Revoke(w, a, d)
  <2> PICK d \in Devices : Authenticate(w, d) \/ \E a : Enroll(w, a, d) \/ Rotate(w, a, d) \/ Revoke(w, a, d)
    BY <1>3
  <2>1. d \in Entities /\ d \notin Users /\ \A u \in Users : d # Ask(u)
    BY EntitiesAssumption
  <2>2. UNCHANGED <<row, dirty, late, behind>> /\ \E k, r : Start(w, k, Only(d, r), Save(d) \o Done)
    BY DEF Authenticate, Enroll, Rotate, Revoke, Mint
  <2> PICK k, r : Start(w, k, Only(d, r), Save(d) \o Done)
    BY <2>2
  <2>3. Sound(k, Only(d, r), Save(d) \o Done)
    BY <2>1, SaveAndDone, OneSound
  <2> QED
    BY <2>2, <2>3, BeginsSound
<1> QED
  BY <1>1, <1>2, <1>3

-----------------------------------------------------------------------------
(* The specification.                                                      *)

LEMMA StartsSound == Init => PInv
<1> SUFFICES ASSUME Init PROVE PInv
  OBVIOUS
<1>1. row = Stored /\ dirty = [w \in Workers |-> None] /\ job = [w \in Workers |-> Idle]
  BY DEF Init, RowsInit
<1>2. AsksHaveAccounts
  BY <1>1, StoredAssumption DEF AsksHaveAccounts
<1>3. DOMAIN Idle.copy = {} /\ DOMAIN None = {}
  BY DEF Idle, None
<1>4. \A w \in Workers : Purposeful(w)
  BY <1>1, <1>3 DEF Purposeful, SavesAll, AsksOf, Decides, KeepsDisabled
<1> QED
  BY <1>2, <1>4 DEF PInv

LEMMA BeginsPurposeful ==
  ASSUME IInv, PInv, NEW w \in Workers, Begin(w)
  PROVE  PInv'
<1>1. CASE \E a, u \in Users, roles \in RoleChoices :
              SetRoles(w, a, u, roles) \/ CreateUser(w, a, u, roles) \/ Approve(w, a, u, roles)
  BY <1>1, AdministersSound, InsertsSound, DecisionsSound
<1>2. CASE \E a, u \in Users : Disable(w, a, u) \/ Enable(w, a, u) \/ Reject(w, a, u)
  BY <1>2, AdministersSound, DecisionsSound
<1>3. CASE \E u \in Users : Register(w, u) \/ Submit(w, u) \/ Login(w, u) \/ EditProfile(w, u)
  BY <1>3, InsertsSound, OthersSound
<1>4. CASE \E t \in Tokens : Refresh(w, t)
  BY <1>4, OthersSound
<1>5. CASE \E d \in Devices : \/ Authenticate(w, d)
                              \/ \E a \in Users : Enroll(w, a, d) \/ Rotate(w, a, d) \/ Revoke(w, a, d)
  BY <1>5, OthersSound
<1> QED
  BY <1>1, <1>2, <1>3, <1>4, <1>5 DEF Begin

(* Counting and the steps on tokens. *)
LEMMA PassesSound ==
  ASSUME IInv, PInv, NEW w \in Workers, Count(w) \/ TokenStep(w)
  PROVE  PInv'
<1>1. UNCHANGED <<row, dirty, late, behind>>
  BY DEF Count, TokenStep, Issue, Load, Spend, ListTokens, DropTokens, RevokeFails
<1> PICK k \in {"count", "issue", "load", "spend", "list", "drop"} : At(w, k)
  BY DEF Count, TokenStep, Issue, Load, Spend, ListTokens, DropTokens, RevokeFails
<1>2. /\ DOMAIN job = Workers /\ DOMAIN job[w] = JobFields
      /\ \A s \in Range(job[w].todo) : s = <<k, Subject(w)>> \/ s \in Range(Tail(job[w].todo))
      /\ \A s \in Range(Tail(job[w].todo)) :
            s \in Range(job[w].todo) /\ Before(<<k, Subject(w)>>, s)
  BY AtStep
<1>3. CASE RevokeFails(w)
  <2>1. k \in {"list", "drop"}
    BY <1>3 DEF RevokeFails, At
  <2>2. \A s \in Range(job[w].todo) : s[1] \notin {"reread", "write"}
    BY <1>2, <2>1 DEF Before
  <2>3. /\ \A v \in Workers \ {w} : job'[v] = job[v]
        /\ job'[w].kind = job[w].kind /\ job'[w].copy = job[w].copy /\ job'[w].base = job[w].base
        /\ job'[w].todo = Done
    BY <1>2, <1>3 DEF RevokeFails, JobFields
  <2>4. \A s \in Range(Done) : s[1] # "reread"
    BY DoneInOrder
  <2> QED
    BY <1>1, <2>2, <2>3, <2>4, ProceedsSound
<1>4. CASE ~RevokeFails(w)
  <2>1. /\ \A v \in Workers \ {w} : job'[v] = job[v]
        /\ job'[w].kind = job[w].kind /\ job'[w].copy = job[w].copy /\ job'[w].base = job[w].base
        /\ job'[w].todo = Tail(job[w].todo)
    <3>1. CASE Advance(w)
      BY <1>2, <3>1 DEF Advance, JobFields
    <3>2. CASE Count(w)
      BY <1>2, <3>2 DEF Count, JobFields
    <3>3. CASE ListTokens(w)
      BY <1>2, <3>3 DEF ListTokens, JobFields
    <3>4. Advance(w) \/ Count(w) \/ ListTokens(w)
      BY <1>4 DEF TokenStep, Issue, Load, Spend, DropTokens
    <3> QED
      BY <3>1, <3>2, <3>3, <3>4
  <2>2. \A s \in Range(job[w].todo) : s[1] \in {"reread", "write"} => s \in Range(Tail(job[w].todo))
    BY <1>2
  <2> QED
    BY <1>1, <1>2, <2>1, <2>2, ProceedsSound
<1> QED
  BY <1>3, <1>4

LEMMA NoRequestSound ==
  ASSUME PInv, UNCHANGED <<row, dirty, job, late, behind>>
  PROVE  PInv'
<1>1. \A w \in Workers : Purposeful(w)'
  BY Unmoved DEF PInv
<1> QED
  BY <1>1 DEF PInv, AsksHaveAccounts

LEMMA StepsSound == IInv /\ PInv /\ [Next]_vars => PInv'
<1> SUFFICES ASSUME IInv, PInv, [Next]_vars PROVE PInv'
  OBVIOUS
<1>1. CASE \E w \in Workers : Begin(w)
  BY <1>1, BeginsPurposeful
<1>2. CASE \E w \in Workers : RowStep(w)
  <2> PICK w \in Workers : RowStep(w)
    BY <1>2
  <2>1. CASE Reread(w) \/ Write(w)
    BY <2>1, RereadsSound, WritesSound
  <2>2. CASE Count(w)
    BY <2>2, PassesSound
  <2>3. CASE Commit(w)
    BY <2>3, CommitsSound
  <2>4. CASE Refused(w) \/ Fails(w)
    BY <2>4, EndsSound DEF Refused, Fails, Rollback
  <2> QED
    BY <2>1, <2>2, <2>3, <2>4 DEF RowStep
<1>3. CASE \E w \in Workers : TokenStep(w)
  BY <1>3, PassesSound
<1>4. CASE \E t \in Tokens : Logout(t) \/ TokenExpires(t)
  BY <1>4, NoRequestSound DEF Logout, TokenExpires
<1>5. CASE UNCHANGED vars
  BY <1>5, NoRequestSound DEF vars
<1> QED
  BY <1>1, <1>2, <1>3, <1>4, <1>5 DEF Next

(* What every request still means of the rows it holds copies of. *)
THEOREM PurposeInvariance == Spec => [](IInv /\ PInv)
BY Starts, Inductive, StartsSound, StepsSound, PTL DEF Spec

(* disable() stays in force until enable() or approve(), or until a save() *)
(* writes back a copy that is older than it.                               *)
THEOREM EnabledDeliberately == Spec => EnabledOnPurpose
<1>1. ASSUME IInv, PInv, [Next]_vars
      PROVE  [\A u \in Users :
                row[u] # NoRow /\ ~row[u]["active"] /\ row'[u]["active"] =>
                    \E w \in Workers : /\ At(w, "commit") /\ u \in DOMAIN dirty[w]
                                       /\ job[w].kind \in {"enable", "approve"} \/ w \in late]_vars
  <2> SUFFICES ASSUME NEW u \in Users, row[u] # NoRow, ~row[u]["active"], row'[u]["active"]
               PROVE  \E w \in Workers : /\ At(w, "commit") /\ u \in DOMAIN dirty[w]
                                         /\ job[w].kind \in {"enable", "approve"} \/ w \in late
    OBVIOUS
  <2>1. row'[u] # row[u]
    OBVIOUS
  <2> PICK w \in Workers : Commit(w)
    BY <1>1, <2>1, OnlyCommits
  <2>2. CommitRows(w) /\ At(w, "commit")
    BY DEF Commit, CommitRows
  <2>3. u \in DOMAIN dirty[w] /\ row'[u] = dirty[w][u]
    BY <1>1, <2>1, <2>2, RowsAfter
  <2>4. dirty[w][u] \in UserRows /\ row[u] \in UserRows
    BY <1>1, <2>3 DEF IInv, Typed, HandlerInv, JobOK
  <2>5. dirty[w][u]["active"] = TRUE /\ row[u]["active"] = FALSE
    BY <2>3, <2>4 DEF UserRows
  <2>6. ~NotDisabled(row[u])
    BY <2>5 DEF NotDisabled
  <2> QED
    BY <1>1, <2>2, <2>3, <2>5, <2>6 DEF PInv, Purposeful, KeepsDisabled
<1>2. Spec => [](IInv /\ PInv)
  BY PurposeInvariance
<1> QED
  BY <1>1, <1>2, PTL DEF Spec, EnabledOnPurpose

(* approve() and reject(): a request that is decided is decided again by   *)
(* nobody but who read it while it was pending and was overtaken.          *)
THEOREM RequestsDecidedOnce == Spec => DecidedOnce
<1>1. ASSUME IInv, PInv, [Next]_vars
      PROVE  [\A u \in Users :
                row[Ask(u)] # NoRow /\ row[Ask(u)].status # "PENDING" /\ row'[Ask(u)] # row[Ask(u)] =>
                    \E w \in behind : At(w, "commit") /\ Ask(u) \in DOMAIN dirty[w]]_vars
  <2> SUFFICES ASSUME NEW u \in Users, row[Ask(u)] # NoRow, row[Ask(u)].status # "PENDING",
                      row'[Ask(u)] # row[Ask(u)]
               PROVE  \E w \in behind : At(w, "commit") /\ Ask(u) \in DOMAIN dirty[w]
    OBVIOUS
  <2>1. row' # row
    OBVIOUS
  <2> PICK w \in Workers : Commit(w)
    BY <1>1, <2>1, OnlyCommits
  <2>2. CommitRows(w) /\ At(w, "commit")
    BY DEF Commit, CommitRows
  <2>3. Ask(u) \in DOMAIN dirty[w]
    BY <2>2, UsersAre DEF CommitRows, After
  <2>4. Ask(u) \in DOMAIN job[w].copy
    BY <1>1, <2>3 DEF IInv, HandlerInv, JobOK
  <2> QED
    BY <1>1, <2>2, <2>3, <2>4 DEF PInv, Purposeful, Decides, Open
<1>2. Spec => [](IInv /\ PInv)
  BY PurposeInvariance
<1> QED
  BY <1>1, <1>2, PTL DEF Spec, DecidedOnce

-----------------------------------------------------------------------------
(***************************************************************************)
(* A disabled account keeps no refresh token but those the revocation      *)
(* could not know of (DisabledHasNoSession), in any number of handlers.    *)
(*                                                                         *)
(* A token is in its user's set from the moment it is stored, or somebody  *)
(* is revoking that set.  So the handler that disables an account has the  *)
(* account's tokens before it in what it lists, has removed them by the    *)
(* commit, and those stored in the meantime count as outlived.  A handler  *)
(* that does not disable, and that nobody overtook, leaves an active       *)
(* account active.                                                         *)
(***************************************************************************)

(* Every token the set of u lacks, or the list does, is outlived. *)
Listed == \A t \in live : holder[t] \in Users /\ (t \in listed[holder[t]] \/ t \in outlived)

Within(u, s) == \A t \in live : holder[t] = u => t \in s \cup outlived

(* The steps on tokens are on those of a user, of the one who is disabled. *)
OnUsers(w) ==
    \A s \in Range(job[w].todo) :
        /\ s[1] = "issue" => s[2] \in Users
        /\ s[1] \in {"list", "drop"} => job[w].kind = "disable" /\ s[2] \in Users \cap DOMAIN job[w].copy

(* disable() has still to list the tokens, or has listed them and has still *)
(* to remove them, or has removed them.                                     *)
Sweeps(w) ==
    job[w].kind = "disable" =>
        \A u \in Users \cap DOMAIN job[w].copy :
            /\ <<"write", u>> \in Range(job[w].todo) => <<"list", u>> \in Range(job[w].todo)
            /\ <<"list", u>> \in Range(job[w].todo) => <<"drop", u>> \in Range(job[w].todo)
            /\ \/ <<"list", u>> \in Range(job[w].todo)
               \/ <<"drop", u>> \in Range(job[w].todo) /\ Within(u, job[w].seen)
               \/ Within(u, {})

(* Nobody else disables an account, unless overtaken. *)
Spares(w) ==
    w \notin late \cup behind /\ job[w].kind # "disable" =>
        \A u \in Users \cap DOMAIN job[w].copy : IsActive(u) => job[w].copy[u]["active"]

Sweeping(w) == OnUsers(w) /\ Sweeps(w) /\ Spares(w)

SInv ==
    /\ live \subseteq Tokens /\ DOMAIN listed = Users
    /\ Listed
    /\ DisabledHasNoSession
    /\ \A w \in Workers : Sweeping(w)

-----------------------------------------------------------------------------
(* What a step leaves alone.                                               *)

(* The step gives u no live token that is not outlived. *)
NoNew(u) == \A t \in live' : holder'[t] = u => t \in outlived' \/ (t \in live /\ holder[t] = u)

LEMMA WithinStays ==
  ASSUME NEW u, NEW s, Within(u, s), NoNew(u), outlived \subseteq outlived'
  PROVE  \A t \in live' : holder'[t] = u => t \in s \cup outlived'
BY DEF Within, NoNew

(* A step that takes neither "list" nor "drop". *)
LEMMA SweepsStill ==
  ASSUME NEW w \in Workers, Sweeps(w), outlived \subseteq outlived',
         job'[w].kind = job[w].kind, job'[w].copy = job[w].copy, job'[w].seen = job[w].seen,
         \A x : /\ <<"list", x>> \in Range(job[w].todo) <=> <<"list", x>> \in Range(job'[w].todo)
                /\ <<"drop", x>> \in Range(job[w].todo) <=> <<"drop", x>> \in Range(job'[w].todo)
                /\ <<"write", x>> \in Range(job'[w].todo) => <<"write", x>> \in Range(job[w].todo),
         \A u \in Users \cap DOMAIN job[w].copy :
            job[w].kind = "disable" /\ <<"list", u>> \notin Range(job[w].todo) => NoNew(u)
  PROVE  Sweeps(w)'
<1> SUFFICES ASSUME job[w].kind = "disable", NEW u \in Users \cap DOMAIN job[w].copy
             PROVE  /\ <<"write", u>> \in Range(job'[w].todo) => <<"list", u>> \in Range(job'[w].todo)
                    /\ <<"list", u>> \in Range(job'[w].todo) => <<"drop", u>> \in Range(job'[w].todo)
                    /\ \/ <<"list", u>> \in Range(job'[w].todo)
                       \/ <<"drop", u>> \in Range(job'[w].todo) /\ Within(u, job[w].seen)'
                       \/ Within(u, {})'
  BY DEF Sweeps
<1>1. /\ <<"write", u>> \in Range(job'[w].todo) => <<"list", u>> \in Range(job'[w].todo)
      /\ <<"list", u>> \in Range(job'[w].todo) => <<"drop", u>> \in Range(job'[w].todo)
  BY DEF Sweeps
<1>2. ASSUME <<"list", u>> \notin Range(job[w].todo)
      PROVE  \/ <<"drop", u>> \in Range(job'[w].todo) /\ Within(u, job[w].seen)'
             \/ Within(u, {})'
  <2>1. NoNew(u)
    BY <1>2
  <2>2. CASE <<"drop", u>> \in Range(job[w].todo) /\ Within(u, job[w].seen)
    <3>1. \A t \in live' : holder'[t] = u => t \in job[w].seen \cup outlived'
      BY <2>1, <2>2, WithinStays
    <3>2. Within(u, job[w].seen)'
      BY <3>1 DEF Within
    <3> QED
      BY <2>2, <3>2
  <2>3. CASE Within(u, {})
    <3>1. \A t \in live' : holder'[t] = u => t \in {} \cup outlived'
      BY <2>1, <2>3, WithinStays
    <3>2. Within(u, {})'
      BY <3>1 DEF Within
    <3> QED
      BY <3>2
  <2> QED
    BY <1>2, <2>2, <2>3 DEF Sweeps
<1> QED
  BY <1>1, <1>2

LEMMA SweepsOn ==
  ASSUME NEW v \in Workers, Sweeping(v), job'[v] = job[v], outlived \subseteq outlived',
         v \in late \cup behind => v \in late' \cup behind',
         v \notin late' \cup behind' => \A u \in Users \cap DOMAIN job[v].copy : row'[u] = row[u],
         \A u \in Users \cap DOMAIN job[v].copy :
            job[v].kind = "disable" /\ <<"list", u>> \notin Range(job[v].todo) => NoNew(u)
  PROVE  Sweeping(v)'
<1>1. OnUsers(v)'
  BY DEF Sweeping, OnUsers
<1>2. Spares(v)'
  BY DEF Sweeping, Spares, IsActive, Exists
<1>3. Sweeps(v)'
  <2> SUFFICES ASSUME job[v].kind = "disable", NEW u \in Users \cap DOMAIN job[v].copy,
                      <<"list", u>> \notin Range(job[v].todo)
               PROVE  \/ <<"drop", u>> \in Range(job[v].todo) /\ Within(u, job[v].seen)'
                      \/ Within(u, {})'
    BY DEF Sweeping, Sweeps
  <2>1. \/ <<"drop", u>> \in Range(job[v].todo) /\ Within(u, job[v].seen)
        \/ Within(u, {})
    BY DEF Sweeping, Sweeps
  <2> QED
    BY <2>1, WithinStays DEF Within
<1> QED
  BY <1>1, <1>2, <1>3 DEF Sweeping

(* No token is stored, no row changed. *)
LEMMA FewerTokens ==
  ASSUME SInv, row' = row, raced' = raced, holder' = holder, live' \subseteq live,
         outlived \subseteq outlived'
  PROVE  DisabledHasNoSession' /\ \A u : NoNew(u)
BY DEF SInv, DisabledHasNoSession, NoNew, IsActive, Exists

(* A handler without a request. *)
LEMMA IdleSweeping ==
  ASSUME NEW w \in Workers, job'[w] = Idle
  PROVE  Sweeping(w)'
<1>1. Idle.kind = "idle" /\ DOMAIN Idle.copy = {} /\ Range(Idle.todo) = {}
  BY NoneInOrder DEF Idle, None
<1> QED
  BY <1>1 DEF Sweeping, OnUsers, Sweeps, Spares

-----------------------------------------------------------------------------
(* Requests.                                                               *)

(* A request disables an account and is going to revoke its tokens, or     *)
(* leaves it active.                                                       *)
Careful(k, c, t) ==
    /\ \A s \in Range(t) : /\ s[1] = "issue" => s[2] \in Users
                           /\ s[1] \in {"list", "drop"} => k = "disable" /\ s[2] \in Users \cap DOMAIN c
    /\ \A u \in Users \cap DOMAIN c :
          IF k = "disable"
          THEN <<"list", u>> \in Range(t) /\ <<"drop", u>> \in Range(t)
          ELSE IsActive(u) => c[u]["active"]

LEMMA BeginsCareful ==
  ASSUME IInv, SInv, NEW w \in Workers, NEW k, NEW c, NEW t,
         Start(w, k, c, t), Careful(k, c, t), UNCHANGED <<row, late, behind, raced, tokenVars>>
  PROVE  SInv'
<1>1. DOMAIN job = Workers /\ DOMAIN job[w] = JobFields
  BY DEF IInv, Typed
<1>2. /\ job'[w].kind = k /\ job'[w].copy = c /\ job'[w].todo = t
      /\ \A v \in Workers \ {w} : job'[v] = job[v]
  BY <1>1 DEF Start, Idle, JobFields
<1>3. UNCHANGED <<row, late, behind, raced, holder, live, listed, outlived>>
  BY DEF tokenVars
<1>4. OnUsers(w)'
  BY <1>2 DEF OnUsers, Careful
<1>5. Sweeps(w)'
  BY <1>2 DEF Sweeps, Careful
<1>6. Spares(w)'
  BY <1>2, <1>3 DEF Spares, Careful, IsActive, Exists
<1>7. DisabledHasNoSession' /\ \A u : NoNew(u)
  BY <1>3, FewerTokens
<1>8. \A v \in Workers \ {w} : Sweeping(v)'
  BY <1>2, <1>3, <1>7, SweepsOn DEF SInv
<1> QED
  BY <1>3, <1>4, <1>5, <1>6, <1>7, <1>8 DEF SInv, Sweeping, Listed

(* A step of a request that has nothing to do with tokens. *)
LEMMA Proceeding ==
  ASSUME IInv, SInv, NEW w \in Workers, NEW k \in {"count", "reread", "write", "load"}, At(w, k),
         UNCHANGED <<row, late, behind, raced, tokenVars>>,
         \A v \in Workers \ {w} : job'[v] = job[v],
         job'[w].kind = job[w].kind, job'[w].copy = job[w].copy, job'[w].seen = job[w].seen,
         job'[w].todo = Tail(job[w].todo)
  PROVE  SInv'
<1>1. /\ \A s \in Range(job[w].todo) : s = <<k, Subject(w)>> \/ s \in Range(Tail(job[w].todo))
      /\ \A s \in Range(Tail(job[w].todo)) : s \in Range(job[w].todo)
  BY AtStep
<1>2. \A u : /\ <<"list", u>> \in Range(job[w].todo) <=> <<"list", u>> \in Range(job'[w].todo)
             /\ <<"drop", u>> \in Range(job[w].todo) <=> <<"drop", u>> \in Range(job'[w].todo)
             /\ <<"write", u>> \in Range(job'[w].todo) => <<"write", u>> \in Range(job[w].todo)
  BY <1>1
<1>3. UNCHANGED <<row, late, behind, raced, holder, live, listed, outlived>>
  BY DEF tokenVars
<1>4. DisabledHasNoSession' /\ \A u : NoNew(u)
  BY <1>3, FewerTokens
<1>5. \A v \in Workers \ {w} : Sweeping(v)'
  BY <1>3, <1>4, SweepsOn DEF SInv
<1>6. Sweeping(w)
  BY DEF SInv
<1>7. OnUsers(w)'
  BY <1>1, <1>6 DEF Sweeping, OnUsers
<1>8. Sweeps(w)'
  BY <1>2, <1>3, <1>4, <1>6, SweepsStill DEF Sweeping
<1>9. Spares(w)'
  BY <1>3, <1>6 DEF Sweeping, Spares, IsActive, Exists
<1> QED
  BY <1>3, <1>4, <1>5, <1>7, <1>8, <1>9 DEF SInv, Sweeping, Listed

LEMMA EndsSweeping ==
  ASSUME IInv, SInv, NEW w \in Workers, Forget(w), UNCHANGED <<row, raced, tokenVars>>,
         late' = late \ {w}, behind' = behind \ {w}
  PROVE  SInv'
<1>1. job'[w] = Idle /\ \A v \in Workers \ {w} : job'[v] = job[v]
  BY DEF IInv, Typed, Forget
<1>2. UNCHANGED <<row, raced, holder, live, listed, outlived>>
  BY DEF tokenVars
<1>3. DisabledHasNoSession' /\ \A u : NoNew(u)
  BY <1>2, FewerTokens
<1>4. \A v \in Workers \ {w} : Sweeping(v)'
  BY <1>1, <1>2, <1>3, SweepsOn DEF SInv
<1> QED
  BY <1>1, <1>2, <1>3, <1>4, IdleSweeping DEF SInv, Listed

(* Who disables an account has removed its tokens by the commit. *)
LEMMA CommitsSweeping ==
  ASSUME IInv, SInv, NEW w \in Workers, Commit(w), UNCHANGED tokenVars
  PROVE  SInv'
<1> At(w, "commit") /\ CommitRows(w)
  BY DEF Commit, CommitRows
<1>1. job'[w] = Idle /\ \A v \in Workers \ {w} : job'[v] = job[v]
  BY DEF IInv, Typed, CommitRows, Forget
<1>2. UNCHANGED <<holder, live, listed, outlived>> /\ \A u : NoNew(u)
  BY DEF tokenVars, NoNew
<1>3. ASSUME NEW v \in Workers \ {w}
      PROVE  Sweeping(v)'
  <2>1. v \in late \cup behind => v \in late' \cup behind'
    BY DEF Commit, CommitRows
  <2>2. v \notin late' \cup behind' => \A u \in Users \cap DOMAIN job[v].copy : row'[u] = row[u]
    BY NotOvertaken
  <2> QED
    BY <1>1, <1>2, <2>1, <2>2, SweepsOn DEF SInv
<1>4. DisabledHasNoSession'
  <2> SUFFICES ASSUME NEW t \in live, ~IsActive(holder[t])', t \notin outlived
               PROVE  holder[t] \in raced'
    BY <1>2 DEF DisabledHasNoSession, IsActive, Exists
  <2> DEFINE u == holder[t]
  <2>1. u \in Users
    BY DEF SInv, Listed
  <2>2. raced \subseteq raced'
    BY DEF Commit
  <2>3. CASE ~IsActive(u)
    BY <2>2, <2>3 DEF SInv, DisabledHasNoSession
  <2>4. CASE IsActive(u)
    <3>1. u \in DOMAIN dirty[w] /\ ~(row'[u] # NoRow /\ row'[u]["active"])
      BY <1>2, <2>1, <2>4, RowsAfter DEF IsActive, Exists
    <3>2. row'[u] = dirty[w][u] /\ dirty[w][u] \in UserRows /\ u \in DOMAIN job[w].copy
      BY <2>1, <3>1, RowsAfter DEF IInv, HandlerInv, JobOK
    <3>3. ~dirty[w][u]["active"]
      BY <3>1, <3>2, EntitiesAssumption DEF UserRows
    <3>4. CASE w \in late \cup behind
      BY <3>1, <3>4 DEF Commit
    <3>5. CASE w \notin late \cup behind
      <4>1. ~job[w].copy[u]["active"]
        BY <2>1, <3>1, <3>3, <3>5 DEF IInv, HandlerInv, Exact
      <4>2. job[w].kind = "disable"
        BY <2>1, <2>4, <3>2, <3>5, <4>1 DEF SInv, Sweeping, Spares
      <4>3. \A s \in Range(job[w].todo) : s = <<"commit", Subject(w)>>
        BY AtStep DEF Before
      <4>4. Within(u, {})
        BY <2>1, <3>2, <4>2, <4>3 DEF SInv, Sweeping, Sweeps
      <4> QED
        BY <4>4 DEF Within
    <3> QED
      BY <3>4, <3>5
  <2> QED
    BY <2>3, <2>4
<1> QED
  BY <1>1, <1>2, <1>3, <1>4, IdleSweeping DEF SInv, Listed

-----------------------------------------------------------------------------
(* The steps on tokens.                                                    *)

(* Who has begun to revoke the tokens of an account has written its row,   *)
(* so that a token stored now is one the revocation could not know of.     *)
LEMMA RevokingIs ==
  ASSUME IInv, SInv, NEW v \in Workers, NEW u \in Users \cap DOMAIN job[v].copy,
         job[v].kind = "disable", <<"list", u>> \notin Range(job[v].todo)
  PROVE  Revoking(u)
<1>1. Sweeping(v) /\ JobOK(v)
  BY DEF SInv, IInv, HandlerInv
<1>2. u \in DOMAIN dirty[v]
  BY <1>1 DEF Sweeping, Sweeps, JobOK
<1>3. ~At(v, "list")
  <2> SUFFICES ASSUME At(v, "list") PROVE FALSE
    OBVIOUS
  <2>1. <<"list", Subject(v)>> \in Range(job[v].todo)
    BY AtStep
  <2>2. <<"list", Subject(v)>>[1] = "list" /\ <<"list", Subject(v)>>[2] = Subject(v)
    OBVIOUS
  <2>3. Subject(v) \in Users \cap DOMAIN job[v].copy
    BY <1>1, <2>1, <2>2 DEF Sweeping, OnUsers
  <2>4. Subject(v) = u
    BY <1>1, <2>3 DEF JobOK
  <2> QED
    BY <2>1, <2>4
<1> QED
  BY <1>2, <1>3 DEF Revoking

(* What is left of a request after a step that is not on its rows. *)
LEMMA AfterStep ==
  ASSUME IInv, NEW w \in Workers, NEW k, At(w, k),
         Advance(w) \/ \E x : job' = [job EXCEPT ![w].seen = x, ![w].todo = Tail(@)]
  PROVE  /\ \A v \in Workers \ {w} : job'[v] = job[v]
         /\ job'[w].kind = job[w].kind /\ job'[w].copy = job[w].copy
         /\ job'[w].todo = Tail(job[w].todo)
         /\ Advance(w) => job'[w].seen = job[w].seen
         /\ \A s \in Range(job[w].todo) : s = <<k, Subject(w)>> \/ s \in Range(job'[w].todo)
         /\ \A s \in Range(job'[w].todo) :
               s \in Range(job[w].todo) /\ Before(<<k, Subject(w)>>, s)
<1>1. /\ DOMAIN job = Workers /\ DOMAIN job[w] = JobFields
      /\ \A s \in Range(job[w].todo) : s = <<k, Subject(w)>> \/ s \in Range(Tail(job[w].todo))
      /\ \A s \in Range(Tail(job[w].todo)) :
            s \in Range(job[w].todo) /\ Before(<<k, Subject(w)>>, s)
  BY AtStep
<1>2. CASE Advance(w)
  BY <1>1, <1>2 DEF Advance, JobFields
<1>3. CASE ~Advance(w)
  <2> PICK x : job' = [job EXCEPT ![w].seen = x, ![w].todo = Tail(@)]
    BY <1>3
  <2> QED
    BY <1>1, <1>3 DEF JobFields
<1> QED
  BY <1>2, <1>3

(* The user a step on tokens is for. *)
LEMMA ForUser ==
  ASSUME IInv, SInv, NEW w \in Workers, NEW k \in {"issue", "list", "drop"}, At(w, k)
  PROVE  /\ Subject(w) \in Users
         /\ k # "issue" => Subject(w) \in DOMAIN job[w].copy /\ job[w].kind = "disable"
<1>1. <<k, Subject(w)>> \in Range(job[w].todo)
  BY AtStep
<1>2. <<k, Subject(w)>>[1] = k /\ <<k, Subject(w)>>[2] = Subject(w)
  OBVIOUS
<1>3. OnUsers(w)
  BY DEF SInv, Sweeping
<1> QED
  BY <1>1, <1>2, <1>3 DEF OnUsers

LEMMA IssuesSweeping ==
  ASSUME IInv, SInv, NEW w \in Workers, Issue(w)
  PROVE  SInv'
<1> DEFINE u == Subject(w)
<1> At(w, "issue")
  BY DEF Issue
<1> PICK t \in Tokens :
       /\ holder[t] = Nobody
       /\ holder' = [holder EXCEPT ![t] = u]
       /\ live' = live \cup {t}
       /\ listed' = [listed EXCEPT ![u] = @ \cup {t}]
       /\ outlived' = IF IsActive(u) /\ ~Revoking(u) THEN outlived ELSE outlived \cup {t}
  BY DEF Issue
<1>1. u \in Users
  BY ForUser
<1>2. UNCHANGED <<row, late, behind, raced>> /\ Advance(w)
  BY DEF Issue
<1>3. /\ \A v \in Workers \ {w} : job'[v] = job[v]
      /\ job'[w].kind = job[w].kind /\ job'[w].copy = job[w].copy /\ job'[w].seen = job[w].seen
      /\ \A s \in Range(job[w].todo) : s = <<"issue", u>> \/ s \in Range(job'[w].todo)
      /\ \A s \in Range(job'[w].todo) : s \in Range(job[w].todo)
  BY <1>2, AfterStep
<1> HIDE DEF u
<1>4. holder'[t] = u /\ \A x \in Tokens \ {t} : holder'[x] = holder[x]
  BY DEF IInv, Typed
<1>5. /\ live' \subseteq Tokens /\ DOMAIN listed' = Users
      /\ t \in listed'[u] /\ \A x \in Users : listed[x] \subseteq listed'[x]
  BY <1>1 DEF SInv
<1>6. Listed'
  BY <1>1, <1>4, <1>5 DEF SInv, Listed
<1>7. DisabledHasNoSession'
  BY <1>2, <1>4 DEF SInv, DisabledHasNoSession, IsActive, Exists
<1>8. \A x \in Users : Revoking(x) => NoNew(x)
  BY <1>4 DEF SInv, NoNew
<1>9. \A v \in Workers \ {w} : Sweeping(v)'
  BY <1>2, <1>3, <1>8, RevokingIs, SweepsOn DEF SInv
<1>10. Sweeping(w) /\ outlived \subseteq outlived'
  BY DEF SInv
<1>11. OnUsers(w)'
  BY <1>3, <1>10 DEF Sweeping, OnUsers
<1>12. Spares(w)'
  BY <1>2, <1>3, <1>10 DEF Sweeping, Spares, IsActive, Exists
<1>13. \A x : /\ <<"list", x>> \in Range(job[w].todo) <=> <<"list", x>> \in Range(job'[w].todo)
              /\ <<"drop", x>> \in Range(job[w].todo) <=> <<"drop", x>> \in Range(job'[w].todo)
              /\ <<"write", x>> \in Range(job'[w].todo) => <<"write", x>> \in Range(job[w].todo)
  BY <1>3
<1>14. \A x \in Users \cap DOMAIN job[w].copy :
          job[w].kind = "disable" /\ <<"list", x>> \notin Range(job[w].todo) => NoNew(x)
  BY <1>8, RevokingIs
<1>15. Sweeps(w)'
  BY <1>3, <1>10, <1>13, <1>14, SweepsStill DEF Sweeping
<1> QED
  BY <1>5, <1>6, <1>7, <1>9, <1>11, <1>12, <1>15 DEF SInv, Sweeping

(* A token that is revoked leaves its user's set, no other one does. *)
LEMMA RevokesSweeping ==
  ASSUME SInv, NEW t, Revoked(t), UNCHANGED <<holder, outlived>>
  PROVE  live' \subseteq live /\ DOMAIN listed' = Users /\ Listed'
BY DEF SInv, Listed, Revoked

LEMMA SpendsSweeping ==
  ASSUME IInv, SInv, NEW w \in Workers, Spend(w)
  PROVE  SInv'
<1> At(w, "spend")
  BY DEF Spend
<1>1. UNCHANGED <<row, late, behind, raced, holder, outlived>> /\ Revoked(Subject(w)) /\ Advance(w)
  BY DEF Spend
<1>2. live' \subseteq live /\ DOMAIN listed' = Users /\ Listed'
  BY <1>1, RevokesSweeping
<1>3. DisabledHasNoSession' /\ \A u : NoNew(u)
  BY <1>1, <1>2, FewerTokens
<1>4. /\ \A v \in Workers \ {w} : job'[v] = job[v]
      /\ job'[w].kind = job[w].kind /\ job'[w].copy = job[w].copy /\ job'[w].seen = job[w].seen
      /\ \A s \in Range(job[w].todo) : s = <<"spend", Subject(w)>> \/ s \in Range(job'[w].todo)
      /\ \A s \in Range(job'[w].todo) : s \in Range(job[w].todo)
  BY <1>1, AfterStep
<1>5. \A v \in Workers \ {w} : Sweeping(v)'
  BY <1>1, <1>3, <1>4, SweepsOn DEF SInv
<1>6. Sweeping(w)
  BY DEF SInv
<1>7. OnUsers(w)' /\ Spares(w)'
  BY <1>1, <1>4, <1>6 DEF Sweeping, OnUsers, Spares, IsActive, Exists
<1>8. \A x : /\ <<"list", x>> \in Range(job[w].todo) <=> <<"list", x>> \in Range(job'[w].todo)
             /\ <<"drop", x>> \in Range(job[w].todo) <=> <<"drop", x>> \in Range(job'[w].todo)
             /\ <<"write", x>> \in Range(job'[w].todo) => <<"write", x>> \in Range(job[w].todo)
  BY <1>4
<1>9. Sweeps(w)'
  BY <1>1, <1>3, <1>4, <1>6, <1>8, SweepsStill DEF Sweeping
<1> QED
  BY <1>2, <1>3, <1>5, <1>7, <1>9 DEF SInv, Sweeping

(* The set of the account is read: what it lacks is outlived. *)
LEMMA ListsSweeping ==
  ASSUME IInv, SInv, NEW w \in Workers, ListTokens(w)
  PROVE  SInv'
<1> DEFINE x == Subject(w)
<1> At(w, "list")
  BY DEF ListTokens
<1>1. /\ UNCHANGED <<row, late, behind, raced, holder, live, listed, outlived>>
      /\ job' = [job EXCEPT ![w].seen = listed[x], ![w].todo = Tail(@)]
  BY DEF ListTokens, tokenVars
<1>2. /\ \A v \in Workers \ {w} : job'[v] = job[v]
      /\ job'[w].kind = job[w].kind /\ job'[w].copy = job[w].copy
      /\ \A s \in Range(job[w].todo) : s = <<"list", x>> \/ s \in Range(job'[w].todo)
      /\ \A s \in Range(job'[w].todo) : s \in Range(job[w].todo) /\ Before(<<"list", x>>, s)
  BY <1>1, AfterStep
<1>3. job'[w].seen = listed[x]
  BY <1>1 DEF IInv, Typed, JobFields
<1>4. x \in Users \cap DOMAIN job[w].copy
  BY ForUser
<1>5. <<"list", x>> \in Range(job[w].todo)
  BY AtStep
<1> HIDE DEF x
<1>6. DisabledHasNoSession' /\ \A u : NoNew(u)
  BY <1>1, FewerTokens
<1>7. \A v \in Workers \ {w} : Sweeping(v)'
  BY <1>1, <1>2, <1>6, SweepsOn DEF SInv
<1>8. Sweeping(w) /\ JobOK(w)
  BY DEF SInv, IInv, HandlerInv
<1>9. OnUsers(w)' /\ Spares(w)'
  BY <1>1, <1>2, <1>8 DEF Sweeping, OnUsers, Spares, IsActive, Exists
<1>10. \A s \in Range(job'[w].todo) : s[1] \in {"drop", "commit"}
  BY <1>2 DEF Before
<1>11. \A u : <<"list", u>> \notin Range(job'[w].todo) /\ <<"write", u>> \notin Range(job'[w].todo)
  BY <1>10
<1>12. ASSUME job[w].kind = "disable", NEW u \in Users \cap DOMAIN job[w].copy
       PROVE  <<"drop", u>> \in Range(job'[w].todo) /\ \A t \in live : holder[t] = u => t \in listed[x] \cup outlived
  <2>1. u = x
    BY <1>4, <1>8 DEF JobOK
  <2>2. <<"drop", x>> \in Range(job[w].todo)
    BY <1>4, <1>5, <1>8, <1>12 DEF Sweeping, Sweeps
  <2> QED
    BY <1>2, <2>1, <2>2 DEF SInv, Listed
<1>13. Sweeps(w)'
  BY <1>1, <1>2, <1>3, <1>11, <1>12 DEF Sweeps, Within
<1> QED
  BY <1>1, <1>6, <1>7, <1>9, <1>13 DEF SInv, Sweeping, Listed

(* The tokens that were listed are removed, the set with them. *)
LEMMA DropsSweeping ==
  ASSUME IInv, SInv, NEW w \in Workers, DropTokens(w)
  PROVE  SInv'
<1> DEFINE x == Subject(w)
<1> At(w, "drop")
  BY DEF DropTokens
<1>1. /\ UNCHANGED <<row, late, behind, raced, holder, outlived>> /\ Advance(w)
      /\ \/ job[w].seen = {} /\ UNCHANGED <<live, listed>>
         \/ live' = live \ job[w].seen /\ listed' = [listed EXCEPT ![x] = {}]
  BY DEF DropTokens
<1>2. /\ \A v \in Workers \ {w} : job'[v] = job[v]
      /\ job'[w].kind = job[w].kind /\ job'[w].copy = job[w].copy
      /\ \A s \in Range(job[w].todo) : s = <<"drop", x>> \/ s \in Range(job'[w].todo)
      /\ \A s \in Range(job'[w].todo) : s \in Range(job[w].todo) /\ Before(<<"drop", x>>, s)
  BY <1>1, AfterStep
<1>3. x \in Users \cap DOMAIN job[w].copy /\ job[w].kind = "disable"
  BY ForUser
<1>4. <<"drop", x>> \in Range(job[w].todo)
  BY AtStep
<1> HIDE DEF x
<1>5. Sweeping(w) /\ JobOK(w)
  BY DEF SInv, IInv, HandlerInv
<1>6. \A s \in Range(job'[w].todo) : s[1] = "commit"
  BY <1>2 DEF Before
<1>7. /\ \A u : <<"list", u>> \notin Range(job'[w].todo) /\ <<"write", u>> \notin Range(job'[w].todo)
      /\ \A u : <<"list", u>> \notin Range(job[w].todo)
  BY <1>2, <1>6
<1>8. live' \subseteq live /\ DOMAIN listed' = Users
  BY <1>1 DEF SInv
<1>9. \A t \in live' : holder[t] = x => t \in outlived
  BY <1>1, <1>3, <1>5, <1>7 DEF Sweeping, Sweeps, Within
<1>10. Listed'
  BY <1>1, <1>8, <1>9 DEF SInv, Listed
<1>11. DisabledHasNoSession' /\ \A u : NoNew(u)
  BY <1>1, <1>8, FewerTokens
<1>12. \A v \in Workers \ {w} : Sweeping(v)'
  BY <1>1, <1>2, <1>11, SweepsOn DEF SInv
<1>13. OnUsers(w)' /\ Spares(w)'
  BY <1>1, <1>2, <1>5 DEF Sweeping, OnUsers, Spares, IsActive, Exists
<1>14. \A u \in Users \cap DOMAIN job[w].copy : u = x
  BY <1>3, <1>5 DEF JobOK
<1>15. Sweeps(w)'
  BY <1>1, <1>2, <1>7, <1>9, <1>14 DEF Sweeps, Within
<1> QED
  BY <1>8, <1>10, <1>11, <1>12, <1>13, <1>15 DEF SInv, Sweeping

(* Redis is away: every token of the account is outlived. *)
LEMMA FailsSweeping ==
  ASSUME IInv, SInv, NEW w \in Workers, RevokeFails(w)
  PROVE  SInv'
<1> DEFINE x == Subject(w)
<1> PICK k \in {"list", "drop"} : At(w, k)
  BY DEF RevokeFails
<1>1. /\ UNCHANGED <<row, late, behind, raced, holder, live, listed>>
      /\ outlived' = outlived \cup {t \in live : holder[t] = x}
  BY DEF RevokeFails
<1>2. /\ \A v \in Workers \ {w} : job'[v] = job[v]
      /\ job'[w].kind = job[w].kind /\ job'[w].copy = job[w].copy /\ job'[w].todo = Done
  BY DEF RevokeFails, IInv, Typed, JobFields
<1>3. x \in Users \cap DOMAIN job[w].copy
  BY ForUser
<1> HIDE DEF x
<1>4. \A s \in Range(Done) : s[1] = "commit"
  BY DoneInOrder
<1>5. Sweeping(w) /\ JobOK(w)
  BY DEF SInv, IInv, HandlerInv
<1>6. DisabledHasNoSession' /\ \A u : NoNew(u)
  BY <1>1, FewerTokens
<1>7. \A v \in Workers \ {w} : Sweeping(v)'
  BY <1>1, <1>2, <1>6, SweepsOn DEF SInv
<1>8. OnUsers(w)' /\ Spares(w)'
  BY <1>1, <1>2, <1>4, <1>5 DEF Sweeping, OnUsers, Spares, IsActive, Exists
<1>9. \A u \in Users \cap DOMAIN job[w].copy : u = x
  BY <1>3, <1>5 DEF JobOK
<1>10. \A u : <<"list", u>> \notin Range(Done) /\ <<"write", u>> \notin Range(Done)
  BY <1>4
<1>11. Sweeps(w)'
  BY <1>1, <1>2, <1>9, <1>10 DEF Sweeps, Within
<1> QED
  BY <1>1, <1>6, <1>7, <1>8, <1>11 DEF SInv, Sweeping, Listed

(* Signing out, and the end of a token. *)
LEMMA TokensEnd ==
  ASSUME IInv, SInv, NEW t \in Tokens, Logout(t) \/ TokenExpires(t)
  PROVE  SInv'
<1>1. UNCHANGED <<row, job, late, behind, raced, holder, outlived>>
  BY DEF Logout, TokenExpires
<1>2. live' \subseteq live /\ DOMAIN listed' = Users /\ Listed'
  <2>1. CASE Logout(t)
    BY <1>1, <2>1, RevokesSweeping DEF Logout
  <2>2. CASE TokenExpires(t)
    BY <1>1, <2>2 DEF TokenExpires, SInv, Listed
  <2> QED
    BY <2>1, <2>2
<1>3. DisabledHasNoSession' /\ \A u : NoNew(u)
  BY <1>1, <1>2, FewerTokens
<1>4. \A v \in Workers : Sweeping(v)'
  BY <1>1, <1>3, SweepsOn DEF SInv
<1> QED
  BY <1>2, <1>3, <1>4 DEF SInv

-----------------------------------------------------------------------------
(* Every request is such a request.                                        *)

(* One that saves one row and has nothing to do with tokens. *)
LEMMA OneCareful ==
  ASSUME NEW e \in Entities, NEW r, NEW k, k # "disable", NEW t,
         \A s \in Range(t) : s[1] \notin {"issue", "list", "drop"},
         e \in Users /\ IsActive(e) => r["active"]
  PROVE  Careful(k, Only(e, r), t)
<1>1. DOMAIN Only(e, r) = {e} /\ Only(e, r)[e] = r
  BY OnlyIs
<1> QED
  BY <1>1 DEF Careful

LEMMA SavesCareful ==
  ASSUME NEW e \in Entities, NEW r, NEW k, k # "disable",
         e \in Users /\ IsActive(e) => r["active"]
  PROVE  Careful(k, Only(e, r), Save(e) \o Done)
<1>1. \A s \in Range(Save(e) \o Done) : s[1] \notin {"issue", "list", "drop"}
  BY SaveAndDone
<1> QED
  BY <1>1, OneCareful

LEMMA TwoCareful ==
  ASSUME NEW u \in Users, NEW r, NEW q, NEW k, k # "disable", IsActive(u) => r["active"]
  PROVE  Careful(k, [x \in {u, Ask(u)} |-> IF x = u THEN r ELSE q], Save(u) \o Save(Ask(u)) \o Done)
<1> DEFINE c == [x \in {u, Ask(u)} |-> IF x = u THEN r ELSE q]
           t == Save(u) \o Save(Ask(u)) \o Done
<1>1. DOMAIN c = {u, Ask(u)} /\ c[u] = r
  OBVIOUS
<1>2. Range(t) = {<<"reread", u>>, <<"write", u>>, <<"reread", Ask(u)>>, <<"write", Ask(u)>>,
                  <<"commit", Nobody>>}
  BY UsersAre, SaveBothAndDone
<1> HIDE DEF c, t
<1>3. \A s \in Range(t) : s[1] \notin {"issue", "list", "drop"}
  BY <1>2
<1>4. \A v \in Users \cap DOMAIN c : v = u
  BY <1>1, UsersAre
<1>5. Careful(k, c, t)
  BY <1>1, <1>3, <1>4 DEF Careful
<1> QED
  BY <1>5 DEF c, t

LEMMA AdministersCareful ==
  ASSUME IInv, SInv, NEW w \in Workers, NEW a, NEW u \in Users, NEW roles,
         SetRoles(w, a, u, roles) \/ Disable(w, a, u) \/ Enable(w, a, u),
         UNCHANGED tokenVars
  PROVE  SInv'
<1>1. row[u] \in UserRows /\ UNCHANGED <<row, late, behind, raced>>
  BY DEF SetRoles, Disable, Enable, IsActive, Exists, IInv, Typed
<1>2. CASE SetRoles(w, a, u, roles)
  <2> DEFINE demotes == IsAdmin(u, row[u]) /\ u \notin Supers /\ "ADMIN" \notin roles
             c == IF demotes /\ IsActive(u) THEN <<<<"count", u>>>> ELSE <<>>
             r == Account(row[u]["active"], roles)
             t == c \o Save(u) \o Done
  <2>1. Start(w, "roles", Only(u, r), t)
    BY <1>2 DEF SetRoles
  <2>2. IsActive(u) => r["active"]
    BY DEF Account, IsActive
  <2>3. c = <<>> \/ c = <<<<"count", u>>>>
    OBVIOUS
  <2> HIDE DEF c, r
  <2>4. \A s \in Range(t) : s[1] \notin {"issue", "list", "drop"}
    BY <2>3, UsersAre, MaybeCount, CountSaveAndDone
  <2> HIDE DEF t
  <2>5. Careful("roles", Only(u, r), t)
    BY <2>2, <2>4, UsersAre, OneCareful
  <2> QED
    BY <1>1, <2>1, <2>5, BeginsCareful
<1>3. CASE Disable(w, a, u)
  <2> DEFINE c == IF IsAdmin(u, row[u]) THEN <<<<"count", u>>>> ELSE <<>>
             r == [row[u] EXCEPT !["active"] = FALSE]
             t == c \o Save(u) \o <<<<"list", u>>, <<"drop", u>>>> \o Done
  <2>1. Start(w, "disable", Only(u, r), t)
    BY <1>3 DEF Disable
  <2>2. c = <<>> \/ c = <<<<"count", u>>>>
    OBVIOUS
  <2> HIDE DEF c, r
  <2>3. Range(t) = Range(c) \cup {<<"reread", u>>, <<"write", u>>, <<"list", u>>, <<"drop", u>>, <<"commit", Nobody>>}
    BY <2>2, UsersAre, RevokingInOrder
  <2>4. \A s \in Range(c) : s = <<"count", u>>
    BY <2>2, UsersAre, MaybeCount
  <2>5. /\ \A s \in Range(t) : s[1] # "issue" /\ (s[1] \in {"list", "drop"} => s[2] = u)
        /\ <<"list", u>> \in Range(t) /\ <<"drop", u>> \in Range(t)
    BY <2>3, <2>4
  <2> HIDE DEF t
  <2>6. DOMAIN Only(u, r) = {u}
    BY OnlyIs
  <2>7. Careful("disable", Only(u, r), t)
    BY <2>5, <2>6 DEF Careful
  <2> QED
    BY <1>1, <2>1, <2>7, BeginsCareful
<1>4. CASE Enable(w, a, u)
  <2> DEFINE r == [row[u] EXCEPT !["active"] = TRUE]
  <2>1. Start(w, "enable", Only(u, r), Save(u) \o Done)
    BY <1>4 DEF Enable
  <2>2. r["active"]
    BY <1>1 DEF UserRows
  <2> HIDE DEF r
  <2>3. Careful("enable", Only(u, r), Save(u) \o Done)
    BY <2>2, UsersAre, SavesCareful
  <2> QED
    BY <1>1, <2>1, <2>3, BeginsCareful
<1> QED
  BY <1>2, <1>3, <1>4

LEMMA InsertsCareful ==
  ASSUME IInv, SInv, NEW w \in Workers, NEW u \in Users, NEW roles,
         (\E a : CreateUser(w, a, u, roles)) \/ Register(w, u) \/ Submit(w, u),
         UNCHANGED tokenVars
  PROVE  SInv'
<1>1. ~IsActive(u) /\ UNCHANGED <<row, late, behind, raced>>
  BY DEF CreateUser, Register, Submit, IsActive
<1>2. CASE Submit(w, u)
  <2>1. Careful("submit", [x \in {u, Ask(u)} |-> IF x = u THEN Account(FALSE, {}) ELSE [status |-> "PENDING"]],
                Save(u) \o Save(Ask(u)) \o Done)
    BY <1>1, TwoCareful
  <2> QED
    BY <1>1, <1>2, <2>1, BeginsCareful DEF Submit
<1>3. CASE (\E a : CreateUser(w, a, u, roles)) \/ Register(w, u)
  <2> PICK k \in {"create", "register"} : \E x : Start(w, k, Only(u, Account(TRUE, x)), Save(u) \o Done)
    BY <1>3 DEF CreateUser, Register
  <2> PICK x : Start(w, k, Only(u, Account(TRUE, x)), Save(u) \o Done)
    OBVIOUS
  <2>1. Careful(k, Only(u, Account(TRUE, x)), Save(u) \o Done)
    BY <1>1, UsersAre, SavesCareful
  <2> QED
    BY <1>1, <2>1, BeginsCareful
<1> QED
  BY <1>2, <1>3

LEMMA DecisionsCareful ==
  ASSUME IInv, SInv, NEW w \in Workers, NEW a, NEW u \in Users, NEW roles,
         Approve(w, a, u, roles) \/ Reject(w, a, u),
         UNCHANGED tokenVars
  PROVE  SInv'
<1>1. CASE Approve(w, a, u, roles)
  <2>1. Account(TRUE, roles)["active"]
    BY AccountsAre
  <2>2. Careful("approve", [x \in {u, Ask(u)} |-> IF x = u THEN Account(TRUE, roles) ELSE [status |-> "APPROVED"]],
                Save(u) \o Save(Ask(u)) \o Done)
    BY <2>1, TwoCareful
  <2> QED
    BY <1>1, <2>2, BeginsCareful DEF Approve
<1>2. CASE Reject(w, a, u)
  <2>1. Careful("reject", Only(Ask(u), [status |-> "REJECTED"]), Save(Ask(u)) \o Done)
    BY UsersAre, SavesCareful
  <2> QED
    BY <1>2, <2>1, BeginsCareful DEF Reject
<1> QED
  BY <1>1, <1>2

LEMMA SignsInCareful ==
  ASSUME IInv, SInv, NEW w \in Workers, NEW u \in Users, Login(w, u) \/ EditProfile(w, u),
         UNCHANGED tokenVars
  PROVE  SInv'
<1>1. UNCHANGED <<row, late, behind, raced>> /\ row[u]["active"]
  BY DEF Login, EditProfile, IsActive
<1>2. CASE EditProfile(w, u)
  <2>1. Careful("profile", Only(u, row[u]), Save(u) \o Done)
    BY <1>1, UsersAre, SavesCareful
  <2> QED
    BY <1>1, <1>2, <2>1, BeginsCareful DEF EditProfile
<1>3. CASE Login(w, u)
  <2> DEFINE t == <<<<"issue", u>>>> \o Save(u) \o Done
  <2>1. Range(t) = {<<"issue", u>>, <<"reread", u>>, <<"write", u>>, <<"commit", Nobody>>}
    BY UsersAre, IssueSaveAndDone
  <2>2. Start(w, "login", Only(u, row[u]), t)
    BY <1>3 DEF Login
  <2> HIDE DEF t
  <2>3. \A s \in Range(t) : s[1] \notin {"list", "drop"} /\ (s[1] = "issue" => s[2] = u)
    BY <2>1
  <2>4. DOMAIN Only(u, row[u]) = {u} /\ Only(u, row[u])[u] = row[u]
    BY OnlyIs
  <2>5. Careful("login", Only(u, row[u]), t)
    BY <1>1, <2>3, <2>4 DEF Careful
  <2> QED
    BY <1>1, <2>2, <2>5, BeginsCareful
<1> QED
  BY <1>2, <1>3

LEMMA RefreshesCareful ==
  ASSUME IInv, SInv, NEW w \in Workers, NEW k \in Tokens, Refresh(w, k)
  PROVE  SInv'
<1> DEFINE t == <<<<"load", holder[k]>>, <<"spend", k>>, <<"issue", holder[k]>>>> \o Done
<1>1. Start(w, "refresh", None, t) /\ UNCHANGED <<row, late, behind, raced, tokenVars>> /\ k \in live
  BY DEF Refresh
<1>2. Range(t) = {<<"load", holder[k]>>, <<"spend", k>>, <<"issue", holder[k]>>, <<"commit", Nobody>>}
  BY NamesAre, RefreshInOrder DEF IInv, Typed
<1>3. holder[k] \in Users
  BY <1>1 DEF SInv, Listed
<1> HIDE DEF t
<1>4. \A s \in Range(t) : s[1] \notin {"list", "drop"} /\ (s[1] = "issue" => s[2] = holder[k])
  BY <1>2
<1>5. DOMAIN None = {}
  BY DEF None
<1>6. Careful("refresh", None, t)
  BY <1>3, <1>4, <1>5 DEF Careful
<1> QED
  BY <1>1, <1>6, BeginsCareful

LEMMA DevicesCareful ==
  ASSUME IInv, SInv, NEW w \in Workers, NEW d \in Devices, NEW a,
         Authenticate(w, d) \/ Enroll(w, a, d) \/ Rotate(w, a, d) \/ Revoke(w, a, d),
         UNCHANGED tokenVars
  PROVE  SInv'
<1>1. d \in Entities \ Users
  BY EntitiesAssumption
<1>2. UNCHANGED <<row, late, behind, raced>>
  BY DEF Authenticate, Enroll, Rotate, Revoke, Mint
<1> PICK k \in {"enroll", "rotate", "revoke", "authenticate"} :
            \E r : Start(w, k, Only(d, r), Save(d) \o Done)
  BY DEF Authenticate, Enroll, Rotate, Revoke, Mint
<1> PICK r : Start(w, k, Only(d, r), Save(d) \o Done)
  OBVIOUS
<1>3. Careful(k, Only(d, r), Save(d) \o Done)
  BY <1>1, SavesCareful
<1> QED
  BY <1>2, <1>3, BeginsCareful

-----------------------------------------------------------------------------
(* The specification.                                                      *)

LEMMA StartsCareful == Init => SInv
<1> SUFFICES ASSUME Init PROVE SInv
  OBVIOUS
<1>1. /\ job = [w \in Workers |-> Idle] /\ live = {} /\ listed = [u \in Users |-> {}]
  BY DEF Init, RowsInit, TokensInit
<1>2. Idle.kind = "idle" /\ DOMAIN Idle.copy = {} /\ Range(Idle.todo) = {}
  BY NoneInOrder DEF Idle, None
<1>3. \A w \in Workers : Sweeping(w)
  BY <1>1, <1>2 DEF Sweeping, OnUsers, Sweeps, Spares
<1> QED
  BY <1>1, <1>3 DEF SInv, Listed, DisabledHasNoSession

LEMMA RequestsCareful ==
  ASSUME IInv, SInv, NEW w \in Workers, Begin(w)
  PROVE  SInv'
<1>1. CASE UNCHANGED tokenVars /\ \E a, u \in Users, roles \in RoleChoices :
              SetRoles(w, a, u, roles) \/ CreateUser(w, a, u, roles) \/ Approve(w, a, u, roles)
  BY <1>1, AdministersCareful, InsertsCareful, DecisionsCareful
<1>2. CASE UNCHANGED tokenVars
           /\ \E a, u \in Users : Disable(w, a, u) \/ Enable(w, a, u) \/ Reject(w, a, u)
  BY <1>2, AdministersCareful, DecisionsCareful
<1>3. CASE UNCHANGED tokenVars
           /\ \E u \in Users : Register(w, u) \/ Submit(w, u) \/ Login(w, u) \/ EditProfile(w, u)
  BY <1>3, InsertsCareful, SignsInCareful
<1>4. CASE \E t \in Tokens : Refresh(w, t)
  BY <1>4, RefreshesCareful
<1>5. CASE UNCHANGED tokenVars
           /\ \E d \in Devices : \/ Authenticate(w, d)
                                \/ \E a \in Users : Enroll(w, a, d) \/ Rotate(w, a, d) \/ Revoke(w, a, d)
  BY <1>5, DevicesCareful
<1> QED
  BY <1>1, <1>2, <1>3, <1>4, <1>5 DEF Begin

LEMMA ProceedsCareful ==
  ASSUME IInv, SInv, NEW w \in Workers,
         (Reread(w) /\ UNCHANGED <<raced, tokenVars>>) \/ (Write(w) /\ UNCHANGED <<raced, tokenVars>>)
         \/ (Count(w) /\ UNCHANGED tokenVars) \/ Load(w)
  PROVE  SInv'
<1>1. UNCHANGED <<row, late, behind, raced, tokenVars>>
  BY DEF Reread, Write, Count, Load
<1>2. DOMAIN job = Workers /\ DOMAIN job[w] = JobFields
  BY DEF IInv, Typed
<1>3. /\ \A v \in Workers \ {w} : job'[v] = job[v]
      /\ job'[w].kind = job[w].kind /\ job'[w].copy = job[w].copy /\ job'[w].seen = job[w].seen
      /\ job'[w].todo = Tail(job[w].todo)
  <2>1. CASE Reread(w)
    <3> PICK b : job' = [job EXCEPT ![w].base = b, ![w].todo = Tail(@)]
      BY <2>1 DEF Reread
    <3> QED
      BY <1>2 DEF JobFields
  <2>2. CASE Write(w) \/ Load(w)
    BY <1>2, <2>2 DEF Write, Load, Advance, JobFields
  <2>3. CASE Count(w)
    BY <1>2, <2>3 DEF Count, JobFields
  <2> QED
    BY <2>1, <2>2, <2>3
<1> PICK k \in {"count", "reread", "write", "load"} : At(w, k)
  BY DEF Reread, Write, Count, Load
<1> QED
  BY <1>1, <1>3, Proceeding

LEMMA StepsCareful == IInv /\ SInv /\ [Next]_vars => SInv'
<1> SUFFICES ASSUME IInv, SInv, [Next]_vars PROVE SInv'
  OBVIOUS
<1>1. CASE \E w \in Workers : Begin(w)
  BY <1>1, RequestsCareful
<1>2. CASE \E w \in Workers : RowStep(w)
  <2> PICK w \in Workers : RowStep(w)
    BY <1>2
  <2>1. CASE Commit(w)
    BY <2>1, CommitsSweeping DEF RowStep
  <2>2. CASE Refused(w) \/ Fails(w)
    BY <2>2, EndsSweeping DEF RowStep, Refused, Fails, Rollback
  <2>3. CASE ~(Commit(w) \/ Refused(w) \/ Fails(w))
    BY <2>3, ProceedsCareful DEF RowStep
  <2> QED
    BY <2>1, <2>2, <2>3
<1>3. CASE \E w \in Workers : TokenStep(w)
  BY <1>3, IssuesSweeping, ProceedsCareful, SpendsSweeping, ListsSweeping, DropsSweeping, FailsSweeping
     DEF TokenStep
<1>4. CASE \E t \in Tokens : Logout(t) \/ TokenExpires(t)
  BY <1>4, TokensEnd
<1>5. CASE UNCHANGED vars
  <2>1. UNCHANGED <<row, job, late, behind, raced, holder, live, listed, outlived>>
    BY <1>5 DEF vars
  <2>2. DisabledHasNoSession' /\ \A u : NoNew(u)
    BY <2>1, FewerTokens
  <2>3. \A v \in Workers : Sweeping(v)'
    BY <2>1, <2>2, SweepsOn DEF SInv
  <2> QED
    BY <2>1, <2>2, <2>3 DEF SInv, Listed
<1> QED
  BY <1>1, <1>2, <1>3, <1>4, <1>5 DEF Next

(* disable() and revoke_all_for_user: what is left of a disabled account's *)
(* sessions is what the revocation could not know of.                      *)
THEOREM SessionsEnd == Spec => []DisabledHasNoSession
<1>1. Spec => [](IInv /\ SInv)
  BY Starts, Inductive, StartsCareful, StepsCareful, PTL DEF Spec
<1>2. SInv => DisabledHasNoSession
  BY DEF SInv
<1> QED
  BY <1>1, <1>2, PTL
=============================================================================
