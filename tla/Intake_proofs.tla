--------------------------- MODULE Intake_proofs ---------------------------
(***************************************************************************)
(* Theorems on uploads and the directory, for any staff, files, imports,   *)
(* processes, handlers and uploads.  Four invariants carry them.           *)
(*                                                                         *)
(* RowsInv: no two transactions have written one row, and the steps a      *)
(* handler has left write a link only where it saw none and remove one     *)
(* only for an unlink.  KnownInv: an answer in a cache, or on its way      *)
(* there, was right when its lookup began or later, and is right still     *)
(* unless excused; Announced makes that last through a commit, which comes *)
(* after the handler has cleared the cache of its process.  BooksInv: the  *)
(* job of an upload counts what the upload has read so far.  ReadInv: the  *)
(* events of a job say what the parser of its file makes of their rows.    *)
(***************************************************************************)
EXTENDS Intake, FiniteSetTheorems, WellFoundedInduction, TLAPS

(* What the handlers' steps are, and those of an import. *)
Steps ==
    ({"reread"} \X Employees) \cup ({"write"} \X Entities) \cup ({"delete"} \X Linkable)
    \cup ({"claim"} \X (Linkable \X Employees)) \cup {<<"forget", Nobody>>, <<"commit", Nobody>>}

ImportOnly == ({"reread", "write"} \X Employees) \cup ({"claim"} \X (Linkable \X Employees))

(* The commit is the last step; the cache is cleared right before it. *)
Planned(s) ==
    /\ s \in Seq(Steps) /\ s # <<>>
    /\ \A i \in 1..Len(s) : s[i][1] = "commit" <=> i = Len(s)
    /\ \A i \in 1..Len(s) : s[i][1] = "forget" => i = Len(s) - 1

Tells(s) == Len(s) >= 2 /\ s[Len(s) - 1][1] = "forget"

JobFields == {"kind", "copy", "base", "counted", "seen", "todo"}

(* A link is written only where there was none, and removed only by unlink. *)
Links(w) ==
    /\ \A s \in Range(job[w].todo) :
        /\ s[1] = "write" /\ s[2] \in Linkable =>
              /\ job[w].kind # "unlink"
              /\ s[2] \in DOMAIN job[w].copy /\ Owned(job[w].copy[s[2]])
              /\ s[2] \in DOMAIN job[w].base /\ job[w].base[s[2]] = NoRow
        /\ s[1] = "delete" => job[w].kind = "unlink"
        /\ s[1] = "claim" => job[w].kind # "unlink"
    /\ \A x \in Linkable \cap DOMAIN dirty[w] :
        /\ Owned(dirty[w][x])
        /\ IF job[w].kind = "unlink" THEN dirty[w][x] = NoRow ELSE row[x] = NoRow

(* Only devices change hands. *)
OnDevices(w) ==
    /\ DOMAIN dirty[w] \subseteq Devices
    /\ \A s \in Range(job[w].todo) :
          s[1] = "commit" \/ (s[1] \in {"write", "delete"} /\ s[2] \in Devices)

HandlerInv(w) ==
    /\ DOMAIN job[w] = JobFields
    /\ DOMAIN dirty[w] \subseteq Entities
    /\ job[w].todo = <<>> => DOMAIN dirty[w] = {}
    /\ job[w].todo # <<>> => Planned(job[w].todo)
    /\ Links(w)

RowsInv ==
    /\ DOMAIN row = Entities /\ \A x \in Linkable : Owned(row[x])
    /\ DOMAIN dirty = Workers /\ DOMAIN job = Workers
    /\ \A v, w \in Workers : v # w => DOMAIN dirty[v] \cap DOMAIN dirty[w] = {}
    /\ \A w \in Workers : HandlerInv(w)

-----------------------------------------------------------------------------
(* r is the answer for a in rows, or one of the old ones: it was right at *)
(* some moment since slack before t.                                      *)
WasRight(rows, old, slack, a, r, t) ==
    \/ r = AnswerIn(rows, a)
    \/ \E f \in old : f.account = a /\ f.ref = r /\ f.until + slack >= t

Told(a, r, t) == WasRight(row, former, 0, a, r, t)
Recent(a, r, t) == WasRight(row, former, Ttl, a, r, t)

Stage(u) == lookup[u].step

(* A lookup that may still put something into the cache. *)
Pending(u) == Stage(u) \in {"query", "found"}

EntryInv(p, a) ==
    LET entry == cache[p][a] IN
    /\ DOMAIN entry = {"at", "ref", "excused"} /\ entry.excused \in BOOLEAN
    /\ entry.at \in Nat /\ entry.at <= clock
    /\ Told(a, entry.ref, entry.at)

CacheInv ==
    /\ DOMAIN cache = Processes
    /\ \A p \in Processes : DOMAIN cache[p] \subseteq Accounts
    /\ \A p \in Processes : \A a \in DOMAIN cache[p] : EntryInv(p, a)

Asking == {"step", "at", "since", "excused", "wanted", "missing"}
Finding == {"step", "at", "since", "excused", "wanted", "found"}

(* An answer that was not missing is still in the cache, and young enough, *)
(* unless the cache has been cleared.                                      *)
Served(u, a) ==
    IF a \in DOMAIN cache[ProcessOf[u]]
    THEN cache[ProcessOf[u]][a].at + Ttl >= lookup[u].since
    ELSE lookup[u].excused

PendingInv(u) ==
    /\ lookup[u].excused \in BOOLEAN /\ lookup[u].wanted \subseteq Accounts
    /\ lookup[u].at \in Nat /\ lookup[u].at <= clock
    /\ lookup[u].since \in Nat /\ lookup[u].since <= lookup[u].at
    /\ \A v \in Uploaders : Pending(v) /\ ProcessOf[v] = ProcessOf[u] => lookup[v].at >= lookup[u].since
    /\ Stage(u) = "query" =>
          /\ DOMAIN lookup[u] = Asking
          /\ lookup[u].missing \subseteq lookup[u].wanted
          /\ \A a \in lookup[u].wanted \ lookup[u].missing : Served(u, a)
    /\ Stage(u) = "found" =>
          /\ DOMAIN lookup[u] = Finding
          /\ DOMAIN lookup[u].found \subseteq lookup[u].wanted
          /\ \A a \in lookup[u].wanted \ DOMAIN lookup[u].found : Served(u, a)
          /\ \A a \in DOMAIN lookup[u].found :
                /\ Told(a, lookup[u].found[a], lookup[u].at)
                /\ lookup[u].excused \/ lookup[u].found[a] = Answer(a)

ResolvedInv(u) ==
    /\ lookup[u].since \in Nat /\ lookup[u].since <= clock /\ lookup[u].excused \in BOOLEAN
    /\ DOMAIN lookup[u].refs \subseteq Accounts
    /\ \A a \in DOMAIN lookup[u].refs :
          \/ lookup[u].refs[a] = NoOne /\ lookup[u].excused
          \/ Recent(a, lookup[u].refs[a], lookup[u].since)

LookupInv ==
    /\ DOMAIN lookup = Uploaders
    /\ \A u \in Uploaders : Stage(u) \in {"none", "query", "found", "resolved"}
    /\ \A u \in Uploaders : Pending(u) => PendingInv(u)
    /\ \A u \in Uploaders : Stage(u) = "resolved" => ResolvedInv(u)

(* All that the process of w knows, or is about to, is excused. *)
Sealed(w) ==
    /\ \A a \in DOMAIN cache[ProcessOf[w]] : cache[ProcessOf[w]][a].excused
    /\ \A u \in Uploaders : Stage(u) = "found" /\ ProcessOf[u] = ProcessOf[w] => lookup[u].excused

(* A commit that can change an answer comes after the cache was cleared. *)
Announced(w) ==
    \/ job[w].todo = <<>>
    \/ job[w].kind = "create"
    \/ OnDevices(w)
    \/ Tells(job[w].todo)
    \/ job[w].todo = Quietly /\ (DOMAIN dirty[w] = {} \/ Sealed(w))

(* What StampsCurrent says of an event. *)
RightStamp(e) ==
    /\ e.since \in Nat /\ e.since <= clock
    /\ \/ e.own # "" \/ e.account \notin Accounts
       \/ e.excused /\ e.employee = Nobody
       \/ e.employee = Answer(e.account).employee
       \/ \E f \in former : /\ f.account = e.account /\ f.ref.employee = e.employee
                            /\ f.until + Ttl >= e.since

StampInv == \A e \in events : RightStamp(e)

ClockInv == clock \in Nat /\ \A f \in former : f.until \in Nat

(* The accounts the good rows of the chunk ask for. *)
Named(u) == {KeyOf[Parsed(u, n).user] : n \in Good(u)} \cap Accounts

(* While a chunk waits, its accounts are what is looked up. *)
Awaited(u) ==
    upload[u].step = "insert" =>
        /\ Pending(u) => lookup[u].wanted = Named(u)
        /\ Stage(u) = "resolved" => DOMAIN lookup[u].refs = Named(u)

UploadFields == {"step", "id", "file", "parser", "read", "job", "buffer", "errors"}

Busy(u) == upload[u] # NoUpload

UploadsInv ==
    /\ DOMAIN upload = Uploaders
    /\ \A u \in Uploaders : Busy(u) => DOMAIN upload[u] = UploadFields
    /\ \A u \in Uploaders : Awaited(u)

KnownInv == ClockInv /\ CacheInv /\ LookupInv /\ StampInv /\ OwnChangesSeen

AnswersInv == RowsInv /\ KnownInv /\ UploadsInv /\ \A w \in Workers : Announced(w)

-----------------------------------------------------------------------------
(* The books.                                                              *)

(* The rows read so far, and those of them that are no events. *)
ReadRows(up) == {n \in DOMAIN up.file.rows : n <= up.read}
BadRows(up) == {n \in ReadRows(up) : ParseRow(up.parser, up.file.rows[n]) = Malformed}

(* The counters of an upload under way, its errors and its events agree. *)
Tally(u) ==
    LET up == upload[u] IN
    /\ up.step \in {"chunk", "insert", "commit"}
    /\ up.file \in Files /\ up.read \in Nat
    /\ up.id \in 1..started /\ up.id \notin aborted /\ up.id \notin DOMAIN jobs
    /\ DOMAIN up.job = {"status", "total", "processed", "failed", "stored"}
    /\ up.errors \cup up.buffer = BadRows(up)
    /\ StoredRows(up.id) = ReadRows(up) \ BadRows(up)
    /\ up.job.processed = Cardinality(ReadRows(up))
    /\ up.job.failed = Cardinality(BadRows(up))
    /\ up.job.stored = Cardinality(ReadRows(up) \ BadRows(up))
    /\ up.step = "commit" =>
          /\ up.buffer = {} /\ ReadRows(up) = DOMAIN up.file.rows
          /\ up.job.status = IF up.job.failed > 0 THEN "PARTIAL" ELSE "COMPLETED"

BooksInv ==
    /\ started \in Nat /\ shelf \in Files
    /\ aborted \subseteq 1..started /\ DOMAIN jobs \subseteq 1..started
    /\ aborted \cap DOMAIN jobs = {}
    /\ \A e \in events : e.job \in 1..started
    /\ \A u \in Uploaders : Busy(u) => Tally(u)
    /\ \A u, v \in Uploaders : u # v /\ Busy(u) /\ Busy(v) => upload[u].id # upload[v].id
    /\ JobsReconcile

-----------------------------------------------------------------------------
(* Induction, and sequences put one after the other. *)

(* A set of natural numbers that is not empty has a least element. *)
LEMMA Least ==
  ASSUME NEW S, S \subseteq Nat, S # {}
  PROVE  \E n \in S : \A m \in S : n <= m
<1> DEFINE R == OpToRel(<, Nat)
<1>1. IsWellFoundedOn(R, Nat)
  BY NatLessThanWellFounded
<1>2. \A m, k \in Nat : m < k => <<m, k>> \in R
  BY DEF OpToRel
<1> HIDE DEF R
<1>3. PICK n \in S : \A m \in S : ~(<<m, n>> \in R)
  BY <1>1, WFMin
<1>4. \A m \in S : ~(m < n)
  BY <1>2, <1>3
<1> QED
  BY <1>4

(* f puts the first n sequences of s one after the other. *)
Joins(f, s, n) ==
    f = [i \in 1..n |-> IF i = 1 THEN s[i] ELSE f[i - 1] \o s[i]]

LEMMA JoinsExist ==
  ASSUME NEW s, NEW n \in Nat
  PROVE  \E f : Joins(f, s, n)
<1> DEFINE Without == {k \in Nat : ~ \E f : Joins(f, s, k)}
<1> SUFFICES ASSUME Without # {} PROVE FALSE
  OBVIOUS
<1>1. PICK k \in Without : \A m \in Without : k <= m
  BY Least
<1>2. CASE k = 0
  <2>1. Joins([i \in 1..0 |-> s[i]], s, 0)
    BY DEF Joins
  <2> QED
    BY <1>2, <2>1
<1>3. CASE k # 0
  <2>1. k - 1 \in Nat /\ k - 1 \notin Without
    BY <1>1, <1>3
  <2>2. PICK f : Joins(f, s, k - 1)
    BY <2>1
  <2> DEFINE g == [i \in 1..k |-> IF i = 1 THEN s[i] ELSE f[i - 1] \o s[i]]
  <2>3. ASSUME NEW i \in 1..k, i # 1 PROVE g[i - 1] = f[i - 1]
    <3>1. i - 1 \in 1..k /\ i - 1 \in 1..(k - 1)
      BY <2>1, <2>3
    <3>2. g[i - 1] = IF i - 1 = 1 THEN s[i - 1] ELSE f[i - 1 - 1] \o s[i - 1]
      BY <3>1
    <3>3. f[i - 1] = IF i - 1 = 1 THEN s[i - 1] ELSE f[i - 1 - 1] \o s[i - 1]
      BY <2>2, <3>1 DEF Joins
    <3> QED
      BY <3>2, <3>3
  <2>5. Joins(g, s, k)
    BY <2>3, Zenon DEF Joins
  <2> QED
    BY <2>5
<1> QED
  BY <1>2, <1>3

(* Sequences put one after the other are a sequence of what they hold. *)
LEMMA FlattenIs ==
  ASSUME NEW S, NEW s, Len(s) \in Nat, DOMAIN s = 1..Len(s), \A i \in 1..Len(s) : s[i] \in Seq(S)
  PROVE  FlattenSeq(s) \in Seq(S)
<1>1. CASE Len(s) = 0
  <2>1. s = <<>>
    BY <1>1
  <2> QED
    BY <1>1, <2>1 DEF FlattenSeq
<1>2. CASE Len(s) # 0
  <2> DEFINE f == CHOOSE g : Joins(g, s, Len(s))
  <2>1. Joins(f, s, Len(s))
    BY JoinsExist
  <2>2. FlattenSeq(s) = f[Len(s)]
    BY <1>2 DEF FlattenSeq, Joins
  <2> HIDE DEF f
  <2> DEFINE Others == {i \in 1..Len(s) : f[i] \notin Seq(S)}
  <2>3. ASSUME Others # {} PROVE FALSE
    <3>0. Others \subseteq Nat
      OBVIOUS
    <3>1. PICK k \in Others : \A m \in Others : k <= m
      <4> HIDE DEF Others
      <4> QED
        BY <2>3, <3>0, Least
    <3>2. f[k] = IF k = 1 THEN s[k] ELSE f[k - 1] \o s[k]
      BY <2>1, <3>1 DEF Joins
    <3>3. k # 1 => k - 1 \in 1..Len(s) /\ k - 1 \notin Others
      BY <3>1
    <3>4. s[k] \in Seq(S) /\ (k # 1 => f[k - 1] \in Seq(S))
      BY <3>1, <3>3
    <3>5. f[k] \in Seq(S)
      BY <3>2, <3>4
    <3> QED
      BY <3>1, <3>5
  <2> QED
    BY <1>2, <2>2, <2>3
<1> QED
  BY <1>1, <1>2

-----------------------------------------------------------------------------
(* Plans.                                                                  *)

BodySteps == {s \in Steps : s[1] \notin {"forget", "commit"}}

LEMMA StepsAre ==
  ASSUME NEW s \in Steps
  PROVE  /\ s = <<s[1], s[2]>>
         /\ s[1] \in {"reread", "write", "delete", "claim", "forget", "commit"}
         /\ s[1] = "reread" => s[2] \in Employees
         /\ s[1] = "write" => s[2] \in Entities
         /\ s[1] = "delete" => s[2] \in Linkable
         /\ s[1] = "claim" => s[2] \in Linkable \X Employees
         /\ s[1] \in {"forget", "commit"} => s[2] = Nobody
BY DEF Steps

LEMMA EndsAreSteps == <<"forget", Nobody>> \in Steps /\ <<"commit", Nobody>> \in Steps
BY DEF Steps

LEMMA Single ==
  ASSUME NEW S, NEW s \in Seq(S), Len(s) = 1
  PROVE  s = <<s[1]>>
OBVIOUS

LEMMA NumberedIsSeq ==
  ASSUME NEW S, NEW m \in Nat, NEW f \in [1..m -> S]
  PROVE  f \in Seq(S)
OBVIOUS

LEMMA PlannedAt ==
  ASSUME NEW s, Planned(s), NEW i \in 1..Len(s)
  PROVE  (s[i][1] = "commit" <=> i = Len(s)) /\ (s[i][1] = "forget" => i = Len(s) - 1)
BY DEF Planned

LEMMA PlannedIs ==
  ASSUME NEW s, Planned(s)
  PROVE  /\ s \in Seq(Steps) /\ Len(s) \in Nat /\ Len(s) >= 1
         /\ DOMAIN s = 1..Len(s) /\ Head(s) = s[1] /\ 1 \in 1..Len(s)
         /\ \A i \in 1..Len(s) : s[i] \in Steps
BY DEF Planned

(* The first step is taken. *)
LEMMA OneStepLess ==
  ASSUME NEW s, Planned(s), Head(s)[1] # "commit"
  PROVE  /\ Planned(Tail(s))
         /\ Head(s) \in Steps /\ Head(s) \in Range(s) /\ Range(Tail(s)) \subseteq Range(s)
         /\ Head(s)[1] # "forget" /\ Tells(s) => Tells(Tail(s))
         /\ Head(s)[1] = "forget" => Tail(s) = Quietly
<1>1. /\ s \in Seq(Steps) /\ Len(s) \in Nat /\ Len(s) >= 1 /\ 1 \in 1..Len(s)
      /\ DOMAIN s = 1..Len(s) /\ Head(s) = s[1] /\ Head(s) \in Steps
  BY PlannedIs
<1>0. Len(s) \in Nat /\ Len(s) >= 1
  BY <1>1
<1>2. Len(s) # 1
  BY <1>1, PlannedAt
<1> DEFINE t == Tail(s)
<1>3. /\ t \in Seq(Steps) /\ Len(t) = Len(s) - 1
      /\ DOMAIN t = 1..(Len(s) - 1)
      /\ \A i \in 1..(Len(s) - 1) : t[i] = s[i + 1]
  BY <1>1, <1>2
<1> HIDE DEF t
<1>4. Planned(t)
  <2>1. t # <<>>
    BY <1>1, <1>2, <1>3
  <2>2. ASSUME NEW i \in 1..Len(t)
        PROVE  /\ t[i][1] = "commit" <=> i = Len(t)
               /\ t[i][1] = "forget" => i = Len(t) - 1
    <3>1. i + 1 \in 1..Len(s) /\ t[i] = s[i + 1] /\ Len(t) = Len(s) - 1 /\ i \in Nat
      BY <1>1, <1>3, <2>2
    <3>2. /\ s[i + 1][1] = "commit" <=> i + 1 = Len(s)
          /\ s[i + 1][1] = "forget" => i + 1 = Len(s) - 1
      BY <3>1, PlannedAt
    <3>3. /\ i + 1 = Len(s) <=> i = Len(t)
          /\ i + 1 = Len(s) - 1 => i = Len(t) - 1
      BY <1>0, <3>1
    <3>4. s[i + 1][1] = t[i][1]
      BY <3>1
    <3> QED
      BY <3>2, <3>3, <3>4, Zenon
  <2> QED
    BY <1>3, <2>1, <2>2 DEF Planned
<1>5. Head(s) \in Range(s) /\ Range(t) \subseteq Range(s)
  BY <1>1, <1>3 DEF Range
<1>6. ASSUME Head(s)[1] # "forget", Tells(s) PROVE Tells(t)
  <2>1. Len(s) >= 2 /\ s[Len(s) - 1][1] = "forget"
    BY <1>6 DEF Tells
  <2>2. Len(s) - 1 # 1
    BY <1>1, <1>6, <2>1
  <2>3. Len(t) >= 2 /\ Len(t) - 1 \in 1..(Len(s) - 1) /\ Len(t) - 1 + 1 = Len(s) - 1
    BY <1>1, <1>3, <2>1, <2>2
  <2>4. t[Len(t) - 1] = s[Len(s) - 1]
    BY <1>3, <2>3
  <2> QED
    BY <2>1, <2>3, <2>4 DEF Tells
<1>7. ASSUME Head(s)[1] = "forget" PROVE t = Quietly
  <2>1. 1 = Len(s) - 1
    BY <1>1, <1>7, PlannedAt
  <2>2. Len(s) = 2 /\ 2 \in 1..Len(s) /\ 1 \in 1..(Len(s) - 1)
    BY <1>0, <2>1
  <2>3. s[2][1] = "commit"
    BY <2>2, PlannedAt
  <2>4. s[2] = <<"commit", Nobody>>
    BY <1>1, <2>2, <2>3, StepsAre, PlannedIs
  <2>5. t[1] = <<"commit", Nobody>> /\ Len(t) = 1
    BY <1>3, <2>2, <2>4
  <2>6. t \in Seq(Steps)
    BY <1>3
  <2> QED
    BY <2>5, <2>6, Single DEF Quietly
<1> QED
  BY <1>1, <1>4, <1>5, <1>6, <1>7 DEF t

LEMMA OnlyTheCommit ==
  ASSUME NEW s, Planned(s), Head(s)[1] = "commit"
  PROVE  s = Quietly /\ ~Tells(s)
<1>1. /\ s \in Seq(Steps) /\ Len(s) \in Nat /\ 1 \in 1..Len(s) /\ Head(s) = s[1] /\ s[1] \in Steps
  BY PlannedIs
<1>2. Len(s) = 1
  BY <1>1, PlannedAt
<1>3. s[1] = <<"commit", Nobody>>
  BY <1>1, StepsAre
<1>4. s = Quietly
  BY <1>1, <1>2, <1>3 DEF Quietly
<1> QED
  BY <1>2, <1>4 DEF Tells

LEMMA OneAfterTheOther ==
  ASSUME NEW S, NEW f \in Seq(S), NEW g \in Seq(S)
  PROVE  /\ f \o g \in Seq(S) /\ Len(f) \in Nat /\ Len(g) \in Nat
         /\ Len(f \o g) = Len(f) + Len(g)
         /\ DOMAIN f = 1..Len(f) /\ DOMAIN g = 1..Len(g)
         /\ DOMAIN (f \o g) = 1..(Len(f) + Len(g))
         /\ \A i \in 1..Len(f) : (f \o g)[i] = f[i]
         /\ \A i \in 1..Len(g) : (f \o g)[Len(f) + i] = g[i]
OBVIOUS

(* Steps on rows, then the end of the request, with or without clearing. *)
LEMMA QuietPlan ==
  ASSUME NEW f \in Seq(BodySteps)
  PROVE  /\ Planned(f \o Quietly)
         /\ Range(f \o Quietly) = Range(f) \cup {<<"commit", Nobody>>}
<1> DEFINE s == f \o Quietly
<1>1. f \in Seq(Steps) /\ Quietly \in Seq(Steps) /\ Len(Quietly) = 1 /\ Quietly[1] = <<"commit", Nobody>>
  BY EndsAreSteps DEF BodySteps, Quietly
<1>2. /\ s \in Seq(Steps) /\ Len(f) \in Nat /\ Len(s) = Len(f) + 1
      /\ DOMAIN f = 1..Len(f) /\ DOMAIN s = 1..(Len(f) + 1)
      /\ \A i \in 1..Len(f) : s[i] = f[i] /\ s[i] \in BodySteps
      /\ s[Len(f) + 1] = <<"commit", Nobody>>
  <2>1. \A i \in 1..Len(f) : f[i] \in BodySteps
    OBVIOUS
  <2>2. /\ s \in Seq(Steps) /\ Len(f) \in Nat
        /\ Len(s) = Len(f) + Len(Quietly)
        /\ DOMAIN f = 1..Len(f) /\ DOMAIN s = 1..(Len(f) + Len(Quietly))
        /\ \A i \in 1..Len(f) : s[i] = f[i]
        /\ \A i \in 1..Len(Quietly) : s[Len(f) + i] = Quietly[i]
    <3>1. f \in Seq(Steps) /\ Quietly \in Seq(Steps)
      BY <1>1
    <3> QED
      BY <3>1, OneAfterTheOther
  <2>3. s[Len(f) + 1] = Quietly[1]
    BY <1>1, <2>2
  <2> QED
    BY <1>1, <2>1, <2>2, <2>3
<1> HIDE DEF s
<1>3. Planned(s)
  <2>1. s # <<>>
    BY <1>2
  <2>2. ASSUME NEW i \in 1..Len(s)
        PROVE  (s[i][1] = "commit" <=> i = Len(s)) /\ s[i][1] # "forget"
    <3>1. CASE i = Len(f) + 1
      BY <1>2, <3>1
    <3>2. CASE i # Len(f) + 1
      <4>1. i \in 1..Len(f) /\ i # Len(s)
        BY <1>2, <2>2, <3>2
      <4>2. s[i] \in BodySteps
        BY <1>2, <4>1
      <4> QED
        BY <4>1, <4>2 DEF BodySteps
    <3> QED
      BY <3>1, <3>2
  <2> QED
    BY <1>2, <2>1, <2>2 DEF Planned
<1>4. Range(s) = Range(f) \cup {<<"commit", Nobody>>}
  <2>1. ASSUME NEW i \in DOMAIN s PROVE s[i] \in Range(f) \cup {<<"commit", Nobody>>}
    <3>1. CASE i \in DOMAIN f
      BY <1>2, <3>1 DEF Range
    <3>2. CASE i \notin DOMAIN f
      <4>1. i = Len(f) + 1
        BY <1>2, <2>1, <3>2
      <4> QED
        BY <1>2, <4>1
    <3> QED
      BY <3>1, <3>2
  <2>2. ASSUME NEW i \in DOMAIN f PROVE f[i] \in Range(s)
    <3>1. i \in DOMAIN s /\ s[i] = f[i]
      BY <1>2, <2>2
    <3> QED
      BY <3>1 DEF Range
  <2>3. s[Len(f) + 1] \in Range(s)
    BY <1>2 DEF Range
  <2> QED
    BY <1>2, <2>1, <2>2, <2>3 DEF Range
<1> QED
  BY <1>3, <1>4 DEF s

LEMMA ClosingPlan ==
  ASSUME NEW f \in Seq(BodySteps)
  PROVE  /\ Planned(f \o Closing) /\ Tells(f \o Closing)
         /\ Range(f \o Closing) = Range(f) \cup {<<"forget", Nobody>>, <<"commit", Nobody>>}
<1> DEFINE s == f \o Closing
<1>1. /\ f \in Seq(Steps) /\ Closing \in Seq(Steps) /\ Len(Closing) = 2
      /\ Closing[1] = <<"forget", Nobody>> /\ Closing[2] = <<"commit", Nobody>>
  BY EndsAreSteps DEF BodySteps, Closing
<1>2. /\ s \in Seq(Steps) /\ Len(f) \in Nat /\ Len(s) = Len(f) + 2
      /\ DOMAIN f = 1..Len(f) /\ DOMAIN s = 1..(Len(f) + 2)
      /\ \A i \in 1..Len(f) : s[i] = f[i] /\ s[i] \in BodySteps
      /\ s[Len(f) + 1] = <<"forget", Nobody>>
      /\ s[Len(f) + 2] = <<"commit", Nobody>>
  <2>1. \A i \in 1..Len(f) : f[i] \in BodySteps
    OBVIOUS
  <2>2. /\ s \in Seq(Steps) /\ Len(f) \in Nat
        /\ Len(s) = Len(f) + Len(Closing)
        /\ DOMAIN f = 1..Len(f) /\ DOMAIN s = 1..(Len(f) + Len(Closing))
        /\ \A i \in 1..Len(f) : s[i] = f[i]
        /\ \A i \in 1..Len(Closing) : s[Len(f) + i] = Closing[i]
    <3>1. f \in Seq(Steps) /\ Closing \in Seq(Steps)
      BY <1>1
    <3> QED
      BY <3>1, OneAfterTheOther
  <2>3. s[Len(f) + 1] = Closing[1] /\ s[Len(f) + 2] = Closing[2]
    BY <1>1, <2>2
  <2> QED
    BY <1>1, <2>1, <2>2, <2>3
<1> HIDE DEF s
<1>3. Planned(s)
  <2>1. s # <<>>
    BY <1>2
  <2>2. ASSUME NEW i \in 1..Len(s)
        PROVE  (s[i][1] = "commit" <=> i = Len(s)) /\ (s[i][1] = "forget" => i = Len(s) - 1)
    <3>1. CASE i = Len(f) + 2
      BY <1>2, <3>1
    <3>2. CASE i = Len(f) + 1
      BY <1>2, <3>2
    <3>3. CASE i # Len(f) + 1 /\ i # Len(f) + 2
      <4>1. i \in 1..Len(f) /\ i # Len(s)
        BY <1>2, <2>2, <3>3
      <4>2. s[i] \in BodySteps
        BY <1>2, <4>1
      <4> QED
        BY <4>1, <4>2 DEF BodySteps
    <3> QED
      BY <3>1, <3>2, <3>3
  <2> QED
    BY <1>2, <2>1, <2>2 DEF Planned
<1>5. Tells(s)
  <2>1. Len(s) >= 2 /\ Len(s) - 1 = Len(f) + 1
    BY <1>2
  <2> QED
    BY <1>2, <2>1 DEF Tells
<1>4. Range(s) = Range(f) \cup {<<"forget", Nobody>>, <<"commit", Nobody>>}
  <2>1. ASSUME NEW i \in DOMAIN s PROVE s[i] \in Range(f) \cup {<<"forget", Nobody>>, <<"commit", Nobody>>}
    <3>1. CASE i \in DOMAIN f
      BY <1>2, <3>1 DEF Range
    <3>2. CASE i \notin DOMAIN f
      <4>1. i = Len(f) + 1 \/ i = Len(f) + 2
        BY <1>2, <2>1, <3>2
      <4> QED
        BY <1>2, <4>1
    <3> QED
      BY <3>1, <3>2
  <2>2. ASSUME NEW i \in DOMAIN f PROVE f[i] \in Range(s)
    <3>1. i \in DOMAIN s /\ s[i] = f[i]
      BY <1>2, <2>2
    <3> QED
      BY <3>1 DEF Range
  <2>3. s[Len(f) + 1] \in Range(s) /\ s[Len(f) + 2] \in Range(s)
    <3>1. Len(f) + 1 \in DOMAIN s /\ Len(f) + 2 \in DOMAIN s
      BY <1>2
    <3> QED
      BY <3>1, Zenon DEF Range
  <2> QED
    BY <1>2, <2>1, <2>2, <2>3 DEF Range
<1> QED
  BY <1>3, <1>4, <1>5 DEF s

(* A step is put first. *)
LEMMA OneStepMore ==
  ASSUME NEW s, Planned(s), NEW a \in BodySteps
  PROVE  /\ Planned(<<a>> \o s) /\ Range(<<a>> \o s) = Range(s) \cup {a}
         /\ Tells(s) => Tells(<<a>> \o s)
<1> DEFINE t == <<a>> \o s
<1>1. /\ s \in Seq(Steps) /\ <<a>> \in Seq(Steps) /\ Len(<<a>>) = 1 /\ <<a>>[1] = a
  BY PlannedIs DEF BodySteps
<1>2. /\ t \in Seq(Steps) /\ Len(<<a>>) = 1 /\ Len(t) = Len(<<a>>) + Len(s)
      /\ DOMAIN t = 1..(Len(<<a>>) + Len(s)) /\ DOMAIN s = 1..Len(s) /\ DOMAIN <<a>> = 1..Len(<<a>>)
      /\ \A i \in 1..Len(<<a>>) : t[i] = <<a>>[i]
      /\ \A i \in 1..Len(s) : t[Len(<<a>>) + i] = s[i]
  BY <1>1, OneAfterTheOther
<1>3. /\ DOMAIN t = 1..(1 + Len(s)) /\ Len(t) = 1 + Len(s) /\ DOMAIN s = 1..Len(s)
      /\ t[1] = a /\ \A i \in 1..Len(s) : t[1 + i] = s[i]
  BY <1>1, <1>2
<1>4. Len(s) \in Nat /\ Len(s) >= 1
  BY PlannedIs
<1>10. Len(t) = 1 + Len(s)
  BY <1>3
<1>5. a[1] # "commit" /\ a[1] # "forget"
  BY DEF BodySteps
<1> HIDE DEF t
<1>6. ASSUME NEW i \in 1..Len(t)
      PROVE  (t[i][1] = "commit" <=> i = Len(t)) /\ (t[i][1] = "forget" => i = Len(t) - 1)
  <2>1. CASE i = 1
    BY <1>3, <1>4, <1>5, <2>1
  <2>2. CASE i # 1
    <3>1. i - 1 \in 1..Len(s) /\ 1 + (i - 1) = i
      BY <1>3, <1>4, <1>6, <2>2
    <3>2. t[i] = s[i - 1]
      BY <1>3, <3>1
    <3>3. (s[i - 1][1] = "commit" <=> i - 1 = Len(s)) /\ (s[i - 1][1] = "forget" => i - 1 = Len(s) - 1)
      BY <3>1, PlannedAt
    <3>4. (i - 1 = Len(s) <=> i = Len(t)) /\ (i - 1 = Len(s) - 1 => i = Len(t) - 1)
      BY <1>4, <1>10, <3>1
    <3> QED
      BY <3>2, <3>3, <3>4, Zenon
  <2> QED
    BY <2>1, <2>2
<1>7. Planned(t)
  <2>1. t \in Seq(Steps) /\ t # <<>>
    BY <1>2, <1>3, <1>4
  <2> QED
    BY <1>6, <2>1 DEF Planned
<1>8. Range(t) = Range(s) \cup {a}
  <2>1. ASSUME NEW i \in DOMAIN t PROVE t[i] \in Range(s) \cup {a}
    <3>1. CASE i = 1
      BY <1>3, <3>1
    <3>2. CASE i # 1
      <4>1. i - 1 \in DOMAIN s /\ 1 + (i - 1) = i
        BY <1>3, <1>4, <2>1, <3>2
      <4> QED
        BY <1>3, <4>1 DEF Range
    <3> QED
      BY <3>1, <3>2
  <2>2. ASSUME NEW i \in DOMAIN s PROVE s[i] \in Range(t)
    <3>1. 1 + i \in DOMAIN t /\ t[1 + i] = s[i]
      BY <1>3, <1>4, <2>2
    <3> QED
      BY <3>1 DEF Range
  <2>3. 1 \in DOMAIN t
    BY <1>3, <1>4
  <2>4. a \in Range(t)
    BY <1>3, <2>3 DEF Range
  <2> QED
    BY <2>1, <2>2, <2>4 DEF Range
<1>9. Tells(s) => Tells(t)
  <2> SUFFICES ASSUME Tells(s) PROVE Tells(t)
    OBVIOUS
  <2>1. Len(s) - 1 \in 1..Len(s) /\ 1 + (Len(s) - 1) = Len(t) - 1 /\ Len(t) >= 2
    BY <1>3, <1>4 DEF Tells
  <2>2. t[Len(t) - 1] = s[Len(s) - 1]
    BY <1>3, <2>1
  <2> QED
    BY <2>1, <2>2 DEF Tells
<1> QED
  BY <1>7, <1>8, <1>9 DEF t

(* A request that has nothing to write. *)
LEMMA NothingPlanned ==
  /\ Planned(Quietly) /\ Range(Quietly) = {<<"commit", Nobody>>}
  /\ Planned(Closing) /\ Tells(Closing)
  /\ Range(Closing) = {<<"forget", Nobody>>, <<"commit", Nobody>>}
<1>1. Quietly = <<>> \o Quietly /\ Closing = <<>> \o Closing
  BY DEF Quietly, Closing
<1>2. <<>> \in Seq(BodySteps) /\ Range(<<>>) = {}
  BY DEF Range
<1> QED
  BY <1>1, <1>2, QuietPlan, ClosingPlan

-----------------------------------------------------------------------------
(* The requests.                                                           *)

LEMMA EntitiesAre ==
  /\ Employees \subseteq Entities /\ Linkable \subseteq Entities
  /\ Employees \cap Linkable = {} /\ Accounts \cap Devices = {}
  /\ Accounts \subseteq Linkable /\ Devices \subseteq Linkable
BY EntitiesAssumption DEF Linkable

(* What Links says of the steps of a request, of its copies. *)
Founded(kind, copy, base, s) ==
    /\ s[1] = "write" /\ s[2] \in Linkable =>
          /\ kind # "unlink"
          /\ s[2] \in DOMAIN copy /\ Owned(copy[s[2]])
          /\ s[2] \in DOMAIN base /\ base[s[2]] = NoRow
    /\ s[1] = "delete" => kind = "unlink"
    /\ s[1] = "claim" => kind # "unlink"

(* A request begins. *)
Begins(w, kind, copy, base, todo) ==
    /\ Begin(w, kind, copy, base, todo)
    /\ Planned(todo) /\ \A s \in Range(todo) : Founded(kind, copy, base, s)

(* No answer changes before it is announced. *)
Fair(kind, todo) ==
    \/ kind = "create" \/ Tells(todo) \/ todo = Quietly
    \/ \A s \in Range(todo) : s[1] = "commit" \/ (s[1] \in {"write", "delete"} /\ s[2] \in Devices)

Asked(w) ==
    \E kind, copy, base, todo : Begins(w, kind, copy, base, todo) /\ Fair(kind, todo)

LEMMA SavesAre ==
  ASSUME NEW e \in Employees
  PROVE  /\ Save(e) \in Seq(BodySteps) /\ Len(Save(e)) = 2
         /\ Range(Save(e)) = {<<"reread", e>>, <<"write", e>>}
         /\ Save(e) \in Seq(ImportOnly)
<1>1. <<"reread", e>> \in BodySteps /\ <<"write", e>> \in BodySteps
  BY EntitiesAre DEF BodySteps, Steps
<1>2. <<"reread", e>> \in ImportOnly /\ <<"write", e>> \in ImportOnly
  BY DEF ImportOnly
<1> QED
  BY <1>1, <1>2 DEF Save, Range

LEMMA EndsFounded ==
  ASSUME NEW kind, NEW copy, NEW base
  PROVE  /\ Founded(kind, copy, base, <<"commit", Nobody>>)
         /\ Founded(kind, copy, base, <<"forget", Nobody>>)
         /\ \A e \in Employees : /\ Founded(kind, copy, base, <<"reread", e>>)
                                 /\ Founded(kind, copy, base, <<"write", e>>)
BY EntitiesAre DEF Founded

LEMMA CreateAsks ==
  ASSUME NEW w \in Workers, NEW e \in Employees, NEW d, CreateEmployee(w, e, d)
  PROVE  Asked(w)
<1> DEFINE copy == Of(e, [department |-> d])
           todo == Save(e) \o Quietly
<1>1. Planned(todo) /\ Range(todo) = {<<"reread", e>>, <<"write", e>>, <<"commit", Nobody>>}
  BY SavesAre, QuietPlan
<1>2. Begin(w, "create", copy, None, todo)
  BY DEF CreateEmployee
<1> HIDE DEF todo, copy
<1>3. \A s \in Range(todo) : Founded("create", copy, None, s)
  BY <1>1, EndsFounded
<1> QED
  BY <1>1, <1>2, <1>3 DEF Asked, Begins, Fair

LEMMA UpdateAsks ==
  ASSUME NEW w \in Workers, NEW e \in Employees, NEW d, UpdateEmployee(w, e, d)
  PROVE  Asked(w)
<1> DEFINE copy == Of(e, [department |-> d])
           todo == Save(e) \o Closing
<1>1. /\ Planned(todo) /\ Tells(todo)
      /\ Range(todo) = {<<"reread", e>>, <<"write", e>>, <<"forget", Nobody>>, <<"commit", Nobody>>}
  BY SavesAre, ClosingPlan
<1>2. Begin(w, "update", copy, None, todo)
  BY DEF UpdateEmployee
<1> HIDE DEF todo, copy
<1>3. \A s \in Range(todo) : Founded("update", copy, None, s)
  BY <1>1, EndsFounded
<1> QED
  BY <1>1, <1>2, <1>3 DEF Asked, Begins, Fair

(* One step on a link, then the end. *)
LEMMA LinkPlan ==
  ASSUME NEW k \in {"write", "delete"}, NEW x \in Linkable, NEW closing,
         closing = IF x \in Accounts THEN Closing ELSE Quietly
  PROVE  LET todo == <<<<k, x>>>> \o closing IN
         /\ Planned(todo) /\ Fair("link", todo) /\ Fair("unlink", todo)
         /\ Range(todo) \subseteq {<<k, x>>, <<"forget", Nobody>>, <<"commit", Nobody>>}
<1> DEFINE front == <<<<k, x>>>>
<1>1. <<k, x>> \in BodySteps
  BY EntitiesAre DEF BodySteps, Steps
<1>2. front \in Seq(BodySteps) /\ Range(front) = {<<k, x>>}
  BY <1>1 DEF Range
<1> HIDE DEF front
<1>3. CASE x \in Accounts
  BY <1>2, <1>3, ClosingPlan DEF Fair, front
<1>4. CASE x \notin Accounts
  <2>1. x \in Devices /\ closing = Quietly
    BY <1>4 DEF Linkable
  <2>2. Planned(front \o Quietly) /\ Range(front \o Quietly) = {<<k, x>>, <<"commit", Nobody>>}
    BY <1>2, QuietPlan
  <2> QED
    BY <2>1, <2>2 DEF Fair, front
<1> QED
  BY <1>3, <1>4

LEMMA LinkAsks ==
  ASSUME NEW w \in Workers, NEW e \in Employees, NEW x \in Linkable, LinkTo(w, e, x)
  PROVE  Asked(w)
<1> DEFINE closing == IF x \in Accounts THEN Closing ELSE Quietly
           copy == Of(x, Link(e, links + 1))
           base == Of(x, NoRow)
           todo == <<<<"write", x>>>> \o closing
<1>1. CASE Begin(w, "link", copy, base, todo)
  <2>1. /\ Planned(todo) /\ Fair("link", todo)
        /\ Range(todo) \subseteq {<<"write", x>>, <<"forget", Nobody>>, <<"commit", Nobody>>}
    BY LinkPlan
  <2>2. Founded("link", copy, base, <<"write", x>>)
    BY DEF Founded, Of, Link, Owned
  <2> HIDE DEF todo, copy, base
  <2>3. \A s \in Range(todo) : Founded("link", copy, base, s)
    BY <2>1, <2>2, EndsFounded
  <2> QED
    BY <1>1, <2>1, <2>3 DEF Asked, Begins
<1>2. CASE Begin(w, "link", None, None, closing)
  <2>1. /\ Planned(closing) /\ Fair("link", closing)
        /\ Range(closing) \subseteq {<<"forget", Nobody>>, <<"commit", Nobody>>}
    BY NothingPlanned DEF Fair
  <2> HIDE DEF closing
  <2>2. \A s \in Range(closing) : Founded("link", None, None, s)
    BY <2>1, EndsFounded
  <2> QED
    BY <1>2, <2>1, <2>2 DEF Asked, Begins
<1> QED
  BY <1>1, <1>2 DEF LinkTo

LEMMA UnlinkAsks ==
  ASSUME NEW w \in Workers, NEW x \in Linkable, Unlink(w, x)
  PROVE  Asked(w)
<1> DEFINE closing == IF x \in Accounts THEN Closing ELSE Quietly
           copy == Of(x, NoRow)
           base == Of(x, row[x])
           todo == <<<<"delete", x>>>> \o closing
<1>1. Begin(w, "unlink", copy, base, todo)
  BY DEF Unlink
<1>2. /\ Planned(todo) /\ Fair("unlink", todo)
      /\ Range(todo) \subseteq {<<"delete", x>>, <<"forget", Nobody>>, <<"commit", Nobody>>}
  BY LinkPlan
<1> HIDE DEF todo, copy, base
<1>3. Founded("unlink", copy, base, <<"delete", x>>)
  BY DEF Founded
<1>4. \A s \in Range(todo) : Founded("unlink", copy, base, s)
  BY <1>2, <1>3, EndsFounded
<1> QED
  BY <1>1, <1>2, <1>4 DEF Asked, Begins

(* An import saves employees and claims links. *)
LEMMA ImportStepsAre ==
  ASSUME NEW entry, entry.employee \in Employees, entry.links \in Seq(Linkable)
  PROVE  ImportSteps(entry) \in Seq(ImportOnly)
<1> DEFINE claims == [n \in 1..Len(entry.links) |-> <<"claim", <<entry.links[n], entry.employee>>>>]
<1>1. \A n \in 1..Len(entry.links) : <<"claim", <<entry.links[n], entry.employee>>>> \in ImportOnly
  BY DEF ImportOnly
<1>2. Len(entry.links) \in Nat
  OBVIOUS
<1>3. claims \in [1..Len(entry.links) -> ImportOnly]
  BY <1>1
<1> HIDE DEF claims
<1>5. claims \in Seq(ImportOnly)
  BY <1>2, <1>3, NumberedIsSeq
<1>4. Save(entry.employee) \o claims \in Seq(ImportOnly)
  BY <1>5, SavesAre
<1> QED
  BY <1>4 DEF ImportSteps, claims

LEMMA ImportAsks ==
  ASSUME NEW w \in Workers, NEW file \in Imports, Import(w, file)
  PROVE  Asked(w)
<1> DEFINE copy == [e \in {file[n].employee : n \in DOMAIN file} |->
                     [department |-> (CHOOSE entry \in Range(file) : entry.employee = e).department]]
           parts == [n \in DOMAIN file |-> ImportSteps(file[n])]
           front == FlattenSeq(parts)
           todo == front \o Closing
<1>1. Begin(w, "import", copy, None, todo)
  BY DEF Import
<1>2. /\ DOMAIN file = 1..Len(file) /\ Len(file) \in Nat
      /\ \A n \in DOMAIN file : file[n].employee \in Employees /\ file[n].links \in Seq(Linkable)
  BY ImportsAssumption
<1>3. \A n \in 1..Len(file) : parts[n] \in Seq(ImportOnly)
  BY <1>2, ImportStepsAre
<1>4. Len(parts) = Len(file) /\ DOMAIN parts = 1..Len(file)
  BY <1>2
<1> HIDE DEF copy, parts
<1>5. front \in Seq(ImportOnly)
  BY <1>2, <1>3, <1>4, FlattenIs
<1> HIDE DEF front
<1>6. ImportOnly \subseteq BodySteps
  BY EntitiesAre DEF ImportOnly, BodySteps, Steps
<1>7. front \in Seq(BodySteps) /\ Range(front) \subseteq ImportOnly
  BY <1>5, <1>6 DEF Range
<1>8. /\ Planned(todo) /\ Tells(todo)
      /\ Range(todo) = Range(front) \cup {<<"forget", Nobody>>, <<"commit", Nobody>>}
  BY <1>7, ClosingPlan
<1> HIDE DEF todo
<1>9. \A s \in ImportOnly : Founded("import", copy, None, s)
  BY EntitiesAre DEF ImportOnly, Founded
<1>10. \A s \in Range(todo) : Founded("import", copy, None, s)
  BY <1>7, <1>8, <1>9, EndsFounded
<1> QED
  BY <1>1, <1>8, <1>10 DEF Asked, Begins, Fair

LEMMA RequestAsks ==
  ASSUME NEW w \in Workers, Request(w)
  PROVE  Asked(w) /\ UNCHANGED <<shelf, upload, jobs, events, former, started, aborted>>
BY CreateAsks, UpdateAsks, LinkAsks, UnlinkAsks, ImportAsks DEF Request

-----------------------------------------------------------------------------
(* Rows, locks and what the handlers are about to write.                   *)

(* The handler and what it has written stay. *)
LEMMA HandlerStays ==
  ASSUME NEW w, HandlerInv(w), job'[w] = job[w], dirty'[w] = dirty[w],
         \A x \in DOMAIN dirty[w] : row'[x] = row[x]
  PROVE  HandlerInv(w)'
BY DEF HandlerInv, Links

LEMMA RowsInvStays ==
  ASSUME RowsInv, UNCHANGED <<row, dirty, job>>
  PROVE  RowsInv'
<1>1. \A w \in Workers : HandlerInv(w)'
  BY HandlerStays DEF RowsInv
<1> QED
  BY <1>1 DEF RowsInv

(* The step w takes, and what is left to it. *)
LEMMA StepsLeft ==
  ASSUME RowsInv, NEW w \in Workers, NEW k, At(w, k), k # "commit"
  PROVE  LET todo == job[w].todo IN
         /\ Planned(todo) /\ Planned(Tail(todo))
         /\ Head(todo) \in Steps /\ Head(todo) \in Range(todo) /\ Range(Tail(todo)) \subseteq Range(todo)
         /\ Head(todo)[1] = k /\ Head(todo)[2] = Subject(w)
         /\ k # "forget" /\ Tells(todo) => Tells(Tail(todo))
         /\ k = "forget" => Tail(todo) = Quietly
<1>1. job[w].todo # <<>> /\ Head(job[w].todo)[1] = k
  BY DEF At
<1>2. Planned(job[w].todo)
  BY <1>1 DEF RowsInv, HandlerInv
<1> QED
  BY <1>1, <1>2, OneStepLess DEF Subject

(* w has other steps left, and may hold another copy and base. *)
Gets(w, copy, base, todo) ==
    /\ DOMAIN job' = Workers /\ DOMAIN job'[w] = JobFields
    /\ \A v \in Workers : v # w => job'[v] = job[v]
    /\ job'[w].kind = job[w].kind /\ job'[w].copy = copy /\ job'[w].base = base
    /\ job'[w].todo = todo

(* mine is what w has written now. *)
Keeps(w, mine) ==
    /\ DOMAIN dirty' = Workers /\ dirty'[w] = mine
    /\ \A v \in Workers : v # w => dirty'[v] = dirty[v]

LEMMA HandlerAdvances ==
  ASSUME RowsInv, NEW w \in Workers, NEW copy, NEW base, NEW todo, NEW mine,
         Gets(w, copy, base, todo), Keeps(w, mine), row' = row,
         Planned(todo), DOMAIN mine \subseteq Entities,
         \A s \in Range(todo) : Founded(job[w].kind, copy, base, s),
         \A x \in Linkable \cap DOMAIN mine :
            Owned(mine[x]) /\ IF job[w].kind = "unlink" THEN mine[x] = NoRow ELSE row[x] = NoRow,
         \A v \in Workers \ {w} : DOMAIN dirty[v] \cap DOMAIN mine = {}
  PROVE  RowsInv'
<1>1. /\ DOMAIN dirty' = Workers /\ dirty'[w] = mine
      /\ \A v \in Workers : v # w => job'[v] = job[v] /\ dirty'[v] = dirty[v]
  BY DEF Keeps, Gets
<1>2. ASSUME NEW v \in Workers, v # w PROVE HandlerInv(v)'
  BY <1>1, <1>2, HandlerStays DEF RowsInv
<1>3. todo # <<>>
  BY DEF Planned
<1>4. Links(w)'
  BY <1>1 DEF Links, Founded, Gets
<1>5. HandlerInv(w)'
  BY <1>1, <1>3, <1>4 DEF HandlerInv, Gets
<1>6. \A u, v \in Workers : u # v => DOMAIN dirty'[u] \cap DOMAIN dirty'[v] = {}
  BY <1>1 DEF RowsInv
<1> QED
  BY <1>1, <1>2, <1>5, <1>6 DEF RowsInv, Gets

LEMMA LinksFounded ==
  ASSUME NEW w, Links(w), NEW s \in Range(job[w].todo)
  PROVE  Founded(job[w].kind, job[w].copy, job[w].base, s)
BY DEF Links, Founded

(* What w has written keeps to the rules if it writes nothing more. *)
LEMMA HandlerSteps ==
  ASSUME RowsInv, NEW w \in Workers, NEW copy, NEW base, NEW todo,
         Gets(w, copy, base, todo), dirty' = dirty, row' = row,
         Planned(todo), \A s \in Range(todo) : Founded(job[w].kind, copy, base, s)
  PROVE  RowsInv'
<1>1. Keeps(w, dirty[w]) /\ Links(w) /\ DOMAIN dirty[w] \subseteq Entities
  BY DEF RowsInv, Keeps, HandlerInv
<1>2. \A v \in Workers \ {w} : DOMAIN dirty[v] \cap DOMAIN dirty[w] = {}
  BY DEF RowsInv
<1> QED
  BY <1>1, <1>2, HandlerAdvances DEF Links

LEMMA AdvanceGets ==
  ASSUME RowsInv, NEW w \in Workers, Advance(w)
  PROVE  Gets(w, job[w].copy, job[w].base, Tail(job[w].todo))
BY DEF RowsInv, HandlerInv, JobFields, Advance, Gets

LEMMA RereadKeeps ==
  ASSUME RowsInv, NEW w \in Workers, Reread(w)
  PROVE  RowsInv'
<1> DEFINE e == Subject(w)
           base == [x \in DOMAIN job[w].base \cup {e} |-> IF x = e THEN row[e] ELSE job[w].base[x]]
<1>1. Gets(w, job[w].copy, base, Tail(job[w].todo)) /\ UNCHANGED <<row, dirty>>
  BY DEF RowsInv, HandlerInv, JobFields, Reread, Gets
<1>2. /\ Planned(Tail(job[w].todo)) /\ Range(Tail(job[w].todo)) \subseteq Range(job[w].todo)
      /\ e \in Employees
  BY StepsLeft, StepsAre DEF Reread
<1>3. ASSUME NEW s \in Range(job[w].todo) PROVE Founded(job[w].kind, job[w].copy, base, s)
  <2>1. Founded(job[w].kind, job[w].copy, job[w].base, s)
    BY LinksFounded DEF RowsInv, HandlerInv
  <2>2. e \notin Linkable
    BY <1>2, EntitiesAre
  <2> QED
    BY <2>1, <2>2 DEF Founded
<1> HIDE DEF e, base
<1> QED
  BY <1>1, <1>2, <1>3, HandlerSteps

LEMMA WriteKeeps ==
  ASSUME RowsInv, NEW w \in Workers, Write(w)
  PROVE  RowsInv'
<1> DEFINE e == Subject(w)
           new == Written(e, job[w].copy[e], job[w].base[e])
           mine == [x \in DOMAIN dirty[w] \cup {e} |-> IF x = e THEN new ELSE dirty[w][x]]
<1>1. /\ Gets(w, job[w].copy, job[w].base, Tail(job[w].todo)) /\ row' = row
      /\ Keeps(w, mine) /\ ~Locked(w, e) /\ Unique(w, e)
  BY AdvanceGets DEF Write, RowsInv, Keeps
<1>2. /\ Planned(Tail(job[w].todo)) /\ Range(Tail(job[w].todo)) \subseteq Range(job[w].todo)
      /\ e \in Entities /\ <<"write", e>> \in Range(job[w].todo)
  BY StepsLeft, StepsAre DEF Write
<1>3. Links(w) /\ DOMAIN dirty[w] \subseteq Entities
  BY DEF RowsInv, HandlerInv
<1>4. e \in Linkable => Owned(new) /\ job[w].kind # "unlink" /\ row[e] = NoRow
  BY <1>1, <1>2, <1>3, LinksFounded DEF Founded, Written, Unique
<1>5. \A v \in Workers \ {w} : e \notin DOMAIN dirty[v]
  BY <1>1 DEF Locked
<1> HIDE DEF new, e
<1>6. \A x \in Linkable \cap DOMAIN mine :
        Owned(mine[x]) /\ IF job[w].kind = "unlink" THEN mine[x] = NoRow ELSE row[x] = NoRow
  BY <1>3, <1>4 DEF Links
<1>7. DOMAIN mine \subseteq Entities /\ \A v \in Workers \ {w} : DOMAIN dirty[v] \cap DOMAIN mine = {}
  BY <1>2, <1>3, <1>5 DEF RowsInv
<1> HIDE DEF mine
<1>8. \A s \in Range(Tail(job[w].todo)) : Founded(job[w].kind, job[w].copy, job[w].base, s)
  BY <1>2, <1>3, LinksFounded
<1> QED
  BY <1>1, <1>2, <1>6, <1>7, <1>8, HandlerAdvances

LEMMA ClaimKeeps ==
  ASSUME RowsInv, NEW w \in Workers, Claim(w)
  PROVE  RowsInv'
<1> DEFINE x == Subject(w)[1]
           e == Subject(w)[2]
           rest == Tail(job[w].todo)
<1>1. /\ Planned(rest) /\ Range(rest) \subseteq Range(job[w].todo) /\ Planned(job[w].todo)
      /\ x \in Linkable /\ e \in Employees /\ UNCHANGED <<row, dirty>>
      /\ Head(job[w].todo) \in Range(job[w].todo) /\ Head(job[w].todo)[1] = "claim"
  BY StepsLeft, StepsAre DEF Claim
<1>2. \A s \in Range(job[w].todo) : Founded(job[w].kind, job[w].copy, job[w].base, s)
  BY LinksFounded DEF RowsInv, HandlerInv
<1>3. CASE Advance(w)
  <2>1. Gets(w, job[w].copy, job[w].base, rest)
    BY <1>3, AdvanceGets
  <2> QED
    BY <1>1, <1>2, <2>1, HandlerSteps
<1>4. CASE ~Advance(w)
  <2> DEFINE copy == [y \in DOMAIN job[w].copy \cup {x} |-> IF y = x THEN Link(e, links + 1) ELSE job[w].copy[y]]
             base == [y \in DOMAIN job[w].base \cup {x} |-> IF y = x THEN NoRow ELSE job[w].base[y]]
             todo == <<<<"write", x>>>> \o rest
  <2>0. job' = [job EXCEPT ![w].copy = [y \in DOMAIN @ \cup {x} |-> IF y = x THEN Link(e, links + 1) ELSE @[y]],
                           ![w].base = [y \in DOMAIN @ \cup {x} |-> IF y = x THEN NoRow ELSE @[y]],
                           ![w].todo = <<<<"write", x>>>> \o Tail(@)]
    BY <1>4 DEF Claim
  <2>1. Gets(w, copy, base, todo)
    <3> HIDE DEF x, e
    <3> QED
      BY <2>0 DEF RowsInv, HandlerInv, JobFields, Gets
  <2>2. Planned(todo) /\ Range(todo) = Range(rest) \cup {<<"write", x>>}
    <3>1. <<"write", x>> \in BodySteps
      BY <1>1, EntitiesAre DEF BodySteps, Steps
    <3> QED
      BY <1>1, <3>1, OneStepMore
  <2>3. job[w].kind # "unlink"
    BY <1>1, <1>2 DEF Founded
  <2> HIDE DEF x, e, rest
  <2>4. Founded(job[w].kind, copy, base, <<"write", x>>)
    BY <1>1, <2>3 DEF Founded, Link, Owned
  <2>5. ASSUME NEW s \in Range(rest) PROVE Founded(job[w].kind, copy, base, s)
    <3>1. Founded(job[w].kind, job[w].copy, job[w].base, s)
      BY <1>1, <1>2
    <3> QED
      BY <1>1, <3>1, <2>4 DEF Founded, Link, Owned
  <2> HIDE DEF copy, base, todo
  <2> QED
    BY <1>1, <2>1, <2>2, <2>4, <2>5, HandlerSteps
<1> QED
  BY <1>3, <1>4

LEMMA DeleteKeeps ==
  ASSUME RowsInv, NEW w \in Workers, Delete(w)
  PROVE  RowsInv'
<1> DEFINE x == Subject(w)
           mine == IF row[x] = job[w].base[x] THEN Of(x, NoRow) ELSE dirty[w]
<1>1. /\ Gets(w, job[w].copy, job[w].base, Tail(job[w].todo)) /\ row' = row
      /\ Keeps(w, mine) /\ ~Locked(w, x)
  BY AdvanceGets DEF Delete, RowsInv, Keeps
<1>2. /\ Planned(Tail(job[w].todo)) /\ Range(Tail(job[w].todo)) \subseteq Range(job[w].todo)
      /\ x \in Linkable /\ <<"delete", x>> \in Range(job[w].todo)
  BY StepsLeft, StepsAre DEF Delete
<1>3. Links(w) /\ DOMAIN dirty[w] \subseteq Entities
  BY DEF RowsInv, HandlerInv
<1>4. job[w].kind = "unlink"
  BY <1>2, <1>3, LinksFounded DEF Founded
<1>5. \A v \in Workers \ {w} : x \notin DOMAIN dirty[v]
  BY <1>1 DEF Locked
<1> HIDE DEF x
<1>6. /\ DOMAIN mine \subseteq Entities
      /\ \A y \in Linkable \cap DOMAIN mine :
            Owned(mine[y]) /\ IF job[w].kind = "unlink" THEN mine[y] = NoRow ELSE row[y] = NoRow
      /\ \A v \in Workers \ {w} : DOMAIN dirty[v] \cap DOMAIN mine = {}
  <2>1. CASE row[x] = job[w].base[x]
    BY <1>2, <1>4, <1>5, <2>1, EntitiesAre DEF Of, Owned
  <2>2. CASE row[x] # job[w].base[x]
    BY <1>3, <2>2 DEF Links, RowsInv
  <2> QED
    BY <2>1, <2>2
<1> HIDE DEF mine
<1>7. \A s \in Range(Tail(job[w].todo)) : Founded(job[w].kind, job[w].copy, job[w].base, s)
  BY <1>2, <1>3, LinksFounded
<1> QED
  BY <1>1, <1>2, <1>6, <1>7, HandlerAdvances

LEMMA ForgettingKeeps ==
  ASSUME RowsInv, NEW w \in Workers, At(w, "forget"), Advance(w), UNCHANGED <<row, dirty>>
  PROVE  RowsInv'
<1>1. Gets(w, job[w].copy, job[w].base, Tail(job[w].todo))
  BY AdvanceGets
<1>2. Planned(Tail(job[w].todo)) /\ Range(Tail(job[w].todo)) \subseteq Range(job[w].todo)
  BY StepsLeft
<1>3. \A s \in Range(Tail(job[w].todo)) : Founded(job[w].kind, job[w].copy, job[w].base, s)
  BY <1>2, LinksFounded DEF RowsInv, HandlerInv
<1> QED
  BY <1>1, <1>2, <1>3, HandlerSteps

LEMMA BeginKeeps ==
  ASSUME RowsInv, NEW w \in Workers, NEW kind, NEW copy, NEW base, NEW todo,
         Begins(w, kind, copy, base, todo)
  PROVE  /\ RowsInv' /\ UNCHANGED <<row, dirty>> /\ DOMAIN dirty[w] = {}
         /\ job'[w].kind = kind /\ job'[w].todo = todo
         /\ \A v \in Workers \ {w} : job'[v] = job[v]
<1>1. /\ UNCHANGED <<row, dirty>>
      /\ \A v \in Workers \ {w} : job'[v] = job[v]
      /\ DOMAIN job' = Workers /\ DOMAIN job'[w] = JobFields
      /\ job'[w].kind = kind /\ job'[w].copy = copy /\ job'[w].base = base /\ job'[w].todo = todo
  BY DEF Begins, Begin, RowsInv, Idle, JobFields
<1>2. DOMAIN dirty[w] = {}
  BY DEF Begins, Begin, Idle, RowsInv, HandlerInv
<1>3. todo # <<>> /\ Planned(todo)
  BY DEF Planned, Begins
<1>4. HandlerInv(w)'
  BY <1>1, <1>2, <1>3 DEF HandlerInv, Links, Begins, Founded
<1>5. ASSUME NEW v \in Workers, v # w PROVE HandlerInv(v)'
  BY <1>1, <1>5, HandlerStays DEF RowsInv
<1> QED
  BY <1>1, <1>2, <1>4, <1>5 DEF RowsInv

(* Once the transaction has ended the handler is idle. *)
LEMMA ForgetIdles ==
  ASSUME RowsInv, NEW w \in Workers, Forget(w)
  PROVE  /\ DOMAIN dirty' = Workers /\ DOMAIN job' = Workers
         /\ job'[w].todo = <<>> /\ HandlerInv(w)'
         /\ \A v \in Workers \ {w} : job'[v] = job[v] /\ dirty'[v] = dirty[v]
         /\ DOMAIN dirty'[w] = {}
<1>1. /\ DOMAIN dirty' = Workers /\ DOMAIN job' = Workers
      /\ \A v \in Workers \ {w} : job'[v] = job[v] /\ dirty'[v] = dirty[v]
      /\ job'[w] = Idle /\ dirty'[w] = None
  BY DEF Forget, RowsInv
<1>2. DOMAIN dirty'[w] = {} /\ job'[w].todo = <<>> /\ DOMAIN job'[w] = JobFields
  BY <1>1 DEF None, Idle, JobFields
<1>3. HandlerInv(w)'
  BY <1>2 DEF HandlerInv, Links, Range
<1> QED
  BY <1>1, <1>2, <1>3

LEMMA AbandonKeeps ==
  ASSUME RowsInv, NEW w \in Workers, Rollback(w)
  PROVE  RowsInv'
<1>1. ASSUME NEW v \in Workers, v # w PROVE HandlerInv(v)'
  BY <1>1, ForgetIdles, HandlerStays DEF Rollback, RowsInv
<1> QED
  BY <1>1, ForgetIdles DEF Rollback, RowsInv

(* The rows of a commit, and that the others' rows are not among them. *)
LEMMA CommitKeeps ==
  ASSUME RowsInv, NEW w \in Workers, CommitRows(w)
  PROVE  /\ RowsInv'
         /\ DOMAIN row' = Entities
         /\ \A e \in Entities : row'[e] = IF e \in DOMAIN dirty[w] THEN dirty[w][e] ELSE row[e]
<1>1. row' = After(w) /\ Forget(w)
  BY DEF CommitRows
<1>2. DOMAIN row' = Entities /\ \A e \in Entities : row'[e] = IF e \in DOMAIN dirty[w] THEN dirty[w][e] ELSE row[e]
  BY <1>1 DEF After
<1>3. \A x \in Linkable : Owned(row'[x])
  BY <1>2, EntitiesAre DEF RowsInv, HandlerInv, Links
<1>4. ASSUME NEW v \in Workers, v # w PROVE HandlerInv(v)'
  <2>1. \A x \in DOMAIN dirty[v] : row'[x] = row[x]
    BY <1>2, <1>4 DEF RowsInv, HandlerInv
  <2> QED
    BY <1>1, <1>4, <2>1, ForgetIdles, HandlerStays DEF RowsInv
<1> QED
  BY <1>1, <1>2, <1>3, <1>4, ForgetIdles DEF RowsInv

(* LinksMoveByUnlink, of one commit. *)
LEMMA CommitMoves ==
  ASSUME RowsInv, NEW w \in Workers, CommitRows(w), NEW x \in Linkable,
         row[x] # NoRow, row'[x] # row[x]
  PROVE  row'[x] = NoRow /\ At(w, "commit") /\ job[w].kind = "unlink"
<1>1. row'[x] = IF x \in DOMAIN dirty[w] THEN dirty[w][x] ELSE row[x]
  BY CommitKeeps, EntitiesAre
<1> QED
  BY <1>1 DEF RowsInv, HandlerInv, Links, CommitRows

LEMMA RowsStart ==
  ASSUME Init
  PROVE  RowsInv
<1>1. /\ row = Staff0 /\ DOMAIN dirty = Workers /\ DOMAIN job = Workers
      /\ \A w \in Workers : dirty[w] = None /\ job[w] = Idle
  BY DEF Init, DirectoryInit, RowsInit
<1>2. ASSUME NEW w \in Workers PROVE HandlerInv(w) /\ DOMAIN dirty[w] = {}
  BY <1>1 DEF HandlerInv, Links, None, Idle, JobFields, Range
<1> QED
  BY <1>1, <1>2, StaffAssumption DEF RowsInv

LEMMA RowsStay ==
  ASSUME RowsInv, [Next]_vars
  PROVE  RowsInv'
<1>1. ASSUME NEW u \in Uploaders,
             \/ StartUpload(u, shelf) \/ LookUp(u) \/ Answering(u) \/ InsertChunk(u) \/ OnlyErrors(u)
             \/ CommitUpload(u) \/ UploadFails(u)
      PROVE  UNCHANGED <<row, dirty, job>>
  BY <1>1 DEF StartUpload, LookUp, Answering, InsertChunk, OnlyErrors, CommitUpload, UploadFails,
              Ask, Query, Resolve, Steady, dirVars, rowVars
<1>2. ASSUME NEW w \in Workers, Request(w) PROVE RowsInv'
  BY <1>2, RequestAsks, BeginKeeps DEF Asked
<1>3. ASSUME NEW w \in Workers, RequestStep(w) PROVE RowsInv'
  BY <1>3, RereadKeeps, WriteKeeps, ClaimKeeps, DeleteKeeps, ForgettingKeeps, AbandonKeeps
     DEF RequestStep, Execute, ForgetCache, Abandon
<1>4. ASSUME NEW w \in Workers, Commit(w) PROVE RowsInv'
  BY <1>4, CommitKeeps DEF Commit, CommitChange
<1>5. Pass \/ UNCHANGED vars => UNCHANGED <<row, dirty, job>>
  BY DEF Pass, Tick, vars, dirVars, rowVars
<1> QED
  BY <1>1, <1>2, <1>3, <1>4, <1>5, RowsInvStays DEF Next

(* Only a commit changes the rows. *)
LEMMA OnlyCommitsWrite ==
  ASSUME [Next]_vars
  PROVE  row' = row \/ \E w \in Workers : Commit(w)
<1>1. ASSUME NEW u \in Uploaders,
             \/ StartUpload(u, shelf) \/ LookUp(u) \/ Answering(u) \/ InsertChunk(u) \/ OnlyErrors(u)
             \/ CommitUpload(u) \/ UploadFails(u)
      PROVE  row' = row
  BY <1>1 DEF StartUpload, LookUp, Answering, InsertChunk, OnlyErrors, CommitUpload, UploadFails,
              Ask, Query, Resolve, Steady, dirVars, rowVars
<1>2. ASSUME NEW w \in Workers, Request(w) PROVE row' = row
  BY <1>2, RequestAsks DEF Asked, Begins, Begin
<1>3. ASSUME NEW w \in Workers, RequestStep(w) PROVE row' = row
  BY <1>3 DEF RequestStep, Execute, Reread, Write, Claim, Delete, ForgetCache, Abandon, Rollback
<1>4. Pass \/ UNCHANGED vars => row' = row
  BY DEF Pass, Tick, vars, dirVars, rowVars
<1> QED
  BY <1>1, <1>2, <1>3, <1>4 DEF Next

(* An account or a device that is somebody's becomes nobody's, and that by the *)
(* commit of an unlink: no other request takes it (directory_service.py,       *)
(* link_account, assign_device and import_csv).                                *)
THEOREM LinksGoByUnlink == Spec => LinksMoveByUnlink
<1>1. Init => RowsInv
  BY RowsStart
<1>2. RowsInv /\ [Next]_vars => RowsInv'
  BY RowsStay
<1>3. RowsInv /\ [Next]_vars =>
        [\A x \in Linkable :
            row[x] # NoRow /\ row'[x] # row[x] =>
                /\ row'[x] = NoRow
                /\ \E w \in Workers : At(w, "commit") /\ job[w].kind = "unlink"]_vars
  BY OnlyCommitsWrite, CommitMoves DEF Commit, CommitChange
<1> QED
  BY <1>1, <1>2, <1>3, PTL DEF Spec, LinksMoveByUnlink

-----------------------------------------------------------------------------
(* What is known of the answers.                                           *)

LEMMA TtlIs == Ttl \in Nat
BY TtlAssumption

LEMMA ProcessesAre ==
  /\ \A u \in Uploaders : ProcessOf[u] \in Processes
  /\ \A w \in Workers : ProcessOf[w] \in Processes
BY ProcessAssumption DEF Uploaders

(* Time passes: nothing becomes less true of the cache and the events. *)
LEMMA CacheStays ==
  ASSUME ClockInv, CacheInv, UNCHANGED <<row, former, cache>>, clock' \in Nat, clock' >= clock
  PROVE  CacheInv'
<1>1. ASSUME NEW p \in Processes, NEW a \in DOMAIN cache[p] PROVE EntryInv(p, a)'
  BY DEF CacheInv, EntryInv, Told, ClockInv
<1> QED
  BY <1>1 DEF CacheInv

LEMMA SeenStays ==
  ASSUME ClockInv, CacheInv, OwnChangesSeen, UNCHANGED <<row, cache>>, clock' \in Nat, clock' >= clock
  PROVE  OwnChangesSeen'
<1>1. ASSUME NEW p \in Processes, NEW a \in DOMAIN cache[p], Missing(p, a) PROVE Missing(p, a)'
  <2>1. cache[p][a].at \in Nat /\ clock - cache[p][a].at > Ttl
    BY <1>1 DEF Missing, CacheInv, EntryInv
  <2> QED
    BY <2>1, TtlIs DEF Missing, ClockInv
<1> QED
  BY <1>1 DEF OwnChangesSeen, Answer, CacheInv

LEMMA StampsStay ==
  ASSUME ClockInv, StampInv, UNCHANGED <<row, former, events>>, clock' \in Nat, clock' >= clock
  PROVE  StampInv'
<1>1. ASSUME NEW e \in events PROVE RightStamp(e)'
  <2>1. RightStamp(e)
    BY DEF StampInv
  <2>3. e.since \in Nat /\ e.since <= clock
    BY <2>1 DEF RightStamp
  <2>2. e.since \in Nat /\ e.since <= clock'
    BY <2>3 DEF ClockInv
  <2> QED
    BY <2>1, <2>2 DEF RightStamp, Answer
<1> QED
  BY <1>1 DEF StampInv

(* A lookup goes on. *)
Waits(u) == (Pending(u) => PendingInv(u)) /\ (Stage(u) = "resolved" => ResolvedInv(u))

LEMMA LookupWaits ==
  ASSUME ClockInv, LookupInv, UNCHANGED <<row, former>>, clock' \in Nat, clock' >= clock,
         NEW u \in Uploaders, lookup'[u] = lookup[u],
         Pending(u) => \A a : Served(u, a) => Served(u, a)',
         \A v \in Uploaders : Pending(v)' => lookup'[v].at = clock \/ (Pending(v) /\ lookup'[v].at = lookup[v].at)
  PROVE  Waits(u)'
<1>1. ASSUME Pending(u)' PROVE PendingInv(u)'
  <2>1. Pending(u) /\ PendingInv(u)
    BY <1>1 DEF Pending, Stage, LookupInv
  <2>2. lookup[u].at \in Nat /\ lookup[u].at <= clock' /\ lookup[u].since \in Nat /\ lookup[u].since <= lookup[u].at
    BY <2>1 DEF PendingInv, ClockInv
  <2>3. ASSUME NEW v \in Uploaders, Pending(v)', ProcessOf[v] = ProcessOf[u]
        PROVE  lookup'[v].at >= lookup[u].since
    <3>1. CASE lookup'[v].at = clock
      <4>1. Pending(v)' => lookup[u].since <= clock
        BY <2>1 DEF PendingInv, ClockInv
      <4> QED
        BY <2>3, <3>1, <4>1
    <3>2. CASE Pending(v) /\ lookup'[v].at = lookup[v].at
      BY <2>1, <2>3, <3>2 DEF PendingInv
    <3> QED
      BY <2>3, <3>1, <3>2
  <2> QED
    BY <2>1, <2>2, <2>3 DEF PendingInv, Stage, Told, Answer
<1>2. ASSUME Stage(u)' = "resolved" PROVE ResolvedInv(u)'
  <2>1. ResolvedInv(u)
    BY <1>2 DEF Stage, LookupInv
  <2> QED
    BY <2>1 DEF ResolvedInv, Recent, ClockInv
<1> QED
  BY <1>1, <1>2 DEF Waits

(* Only the lookup of u is touched, and not the cache. *)
LEMMA OneLookup ==
  ASSUME KnownInv, UNCHANGED <<row, former, clock, cache>>, NEW u \in Uploaders,
         DOMAIN lookup' = Uploaders, \A v \in Uploaders \ {u} : lookup'[v] = lookup[v],
         Stage(u)' \in {"none", "query", "found", "resolved"}, Waits(u)',
         Pending(u)' => lookup'[u].at = clock \/ (Pending(u) /\ lookup'[u].at = lookup[u].at)
  PROVE  ClockInv' /\ CacheInv' /\ LookupInv' /\ OwnChangesSeen'
<1>0. ClockInv /\ CacheInv /\ LookupInv /\ OwnChangesSeen /\ clock \in Nat
  BY DEF KnownInv, ClockInv
<1>1. ClockInv' /\ CacheInv' /\ OwnChangesSeen'
  BY <1>0, CacheStays, SeenStays DEF ClockInv
<1>2. ASSUME NEW v \in Uploaders, v # u PROVE Waits(v)' /\ Stage(v)' \in {"none", "query", "found", "resolved"}
  <2>1. lookup'[v] = lookup[v]
    BY <1>2
  <2>2. \A a : Served(v, a) => Served(v, a)'
    BY <2>1 DEF Served
  <2>3. \A x \in Uploaders : Pending(x)' => lookup'[x].at = clock \/ (Pending(x) /\ lookup'[x].at = lookup[x].at)
    BY DEF Pending, Stage
  <2>4. clock' \in Nat /\ clock' >= clock
    BY <1>0
  <2>5. Waits(v)'
    BY <1>0, <2>1, <2>2, <2>3, <2>4, LookupWaits
  <2> QED
    BY <1>0, <2>1, <2>5 DEF LookupInv, Stage
<1>3. LookupInv'
  BY <1>2 DEF LookupInv, Waits
<1> QED
  BY <1>1, <1>3

(* Nothing that the answers depend on changes. *)
LEMMA KnownStays ==
  ASSUME KnownInv, UNCHANGED <<row, former, clock, cache, lookup, events>>
  PROVE  KnownInv'
<1>0. ClockInv /\ CacheInv /\ LookupInv /\ OwnChangesSeen /\ StampInv /\ clock \in Nat
  BY DEF KnownInv, ClockInv
<1>1. ClockInv' /\ CacheInv' /\ OwnChangesSeen' /\ StampInv'
  BY <1>0, CacheStays, SeenStays, StampsStay DEF ClockInv
<1>2. ASSUME NEW v \in Uploaders PROVE Waits(v)'
  <2>1. \A a : Served(v, a) => Served(v, a)'
    BY DEF Served
  <2>2. \A x \in Uploaders : Pending(x)' => Pending(x) /\ lookup'[x].at = lookup[x].at
    BY DEF Pending, Stage
  <2> QED
    BY <1>0, <2>1, <2>2, LookupWaits
<1>3. LookupInv'
  BY <1>0, <1>2 DEF LookupInv, Waits, Stage
<1> QED
  BY <1>1, <1>3 DEF KnownInv

LEMMA PassKeeps ==
  ASSUME KnownInv, Pass
  PROVE  KnownInv'
<1>0. ClockInv /\ CacheInv /\ LookupInv /\ OwnChangesSeen /\ StampInv /\ clock' \in Nat /\ clock' >= clock
  BY DEF KnownInv, ClockInv, Pass, Tick
<1>1. UNCHANGED <<row, former, cache, lookup, events>>
  BY DEF Pass, Tick, rowVars
<1>2. ClockInv' /\ CacheInv' /\ OwnChangesSeen' /\ StampInv'
  BY <1>0, <1>1, CacheStays, SeenStays, StampsStay DEF ClockInv
<1>3. ASSUME NEW v \in Uploaders PROVE Waits(v)'
  <2>1. \A a : Served(v, a) => Served(v, a)'
    BY <1>1 DEF Served
  <2>2. \A x \in Uploaders : Pending(x)' => Pending(x) /\ lookup'[x].at = lookup[x].at
    BY <1>1 DEF Pending, Stage
  <2> QED
    BY <1>0, <1>1, <2>1, <2>2, LookupWaits
<1>4. LookupInv'
  BY <1>0, <1>1, <1>3 DEF LookupInv, Waits, Stage
<1> QED
  BY <1>2, <1>4 DEF KnownInv

(* The oldest lookup of a process exists: Min is among those it is taken of. *)
LEMMA OldestIs ==
  ASSUME ClockInv, LookupInv, NEW p
  PROVE  /\ Oldest(p) \in Nat /\ Oldest(p) <= clock
         /\ \A v \in Uploaders : Pending(v) /\ ProcessOf[v] = p => Oldest(p) <= lookup[v].at
<1> DEFINE S == {clock} \cup {lookup[v].at : v \in {v \in DOMAIN lookup : /\ InProcess(v, p)
                                                                       /\ lookup[v].step \in {"query", "found"}}}
<1>1. S \subseteq Nat /\ clock \in S
  BY DEF ClockInv, LookupInv, Pending, Stage, PendingInv
<1>2. \A v \in Uploaders : Pending(v) /\ ProcessOf[v] = p => lookup[v].at \in S
  BY DEF LookupInv, Pending, Stage, InProcess
<1>3. Oldest(p) = Min(S)
  BY DEF Oldest
<1> HIDE DEF S
<1>4. \E n \in S : \A m \in S : n <= m
  BY <1>1, Least
<1>5. Min(S) \in S /\ \A m \in S : Min(S) <= m
  BY <1>4 DEF Min
<1> QED
  BY <1>1, <1>2, <1>3, <1>5

(* Ask: what is in the cache is young enough, and the oldest lookup under way *)
(* is no younger than this one.                                              *)
LEMMA AskKeeps ==
  ASSUME KnownInv, NEW u \in Uploaders, NEW wanted, wanted \subseteq Accounts, Ask(u, wanted), former' = former
  PROVE  /\ ClockInv' /\ CacheInv' /\ LookupInv' /\ OwnChangesSeen'
         /\ Pending(u)' => lookup'[u].wanted = wanted
         /\ Stage(u)' = "resolved" => DOMAIN lookup'[u].refs = wanted
<1> DEFINE p == ProcessOf[u]
           missing == {a \in wanted : Missing(p, a)}
<1>0. ClockInv /\ CacheInv /\ LookupInv /\ clock \in Nat /\ p \in Processes
  BY ProcessesAre DEF KnownInv, ClockInv
<1>1. /\ UNCHANGED <<row, former, clock, cache>> /\ DOMAIN lookup' = Uploaders
      /\ \A v \in Uploaders \ {u} : lookup'[v] = lookup[v]
      /\ lookup'[u] = IF missing = {}
             THEN [step |-> "resolved", since |-> clock, excused |-> FALSE, refs |-> RefsIn(cache[p], wanted)]
             ELSE [step |-> "query", at |-> clock, since |-> Oldest(p), excused |-> FALSE,
                   wanted |-> wanted, missing |-> missing]
  BY <1>0 DEF Ask, rowVars, LookupInv
<1>2. ASSUME NEW a \in wanted, a \notin missing
      PROVE  /\ a \in DOMAIN cache[p] /\ cache[p][a].at \in Nat /\ cache[p][a].at + Ttl >= clock
             /\ Told(a, cache[p][a].ref, cache[p][a].at)
  <2>1. a \in DOMAIN cache[p] /\ ~(clock - cache[p][a].at > Ttl)
    BY <1>2 DEF Missing
  <2>2. cache[p][a].at \in Nat /\ Told(a, cache[p][a].ref, cache[p][a].at)
    BY <1>0, <2>1 DEF CacheInv, EntryInv
  <2> QED
    BY <1>0, <2>1, <2>2, TtlIs
<1>3. CASE missing = {}
  <2>1. ASSUME NEW a \in wanted PROVE Recent(a, cache[p][a].ref, clock)
    <3>1. /\ cache[p][a].at \in Nat /\ cache[p][a].at + Ttl >= clock
          /\ Told(a, cache[p][a].ref, cache[p][a].at)
      BY <1>2, <1>3
    <3> QED
      BY <1>0, <3>1, TtlIs DEF Told, Recent, WasRight, ClockInv
  <2>2. \A a \in wanted : RefsIn(cache[p], wanted)[a] = cache[p][a].ref
    BY <1>2, <1>3 DEF RefsIn
  <2>3. /\ lookup'[u].step = "resolved" /\ lookup'[u].since = clock /\ lookup'[u].excused = FALSE
        /\ lookup'[u].refs = RefsIn(cache[p], wanted) /\ DOMAIN RefsIn(cache[p], wanted) = wanted
    BY <1>1, <1>3 DEF RefsIn
  <2> HIDE DEF p, missing
  <2>4. ResolvedInv(u)'
    BY <1>0, <1>1, <2>1, <2>2, <2>3 DEF ResolvedInv, Recent
  <2> QED
    BY <1>1, <2>3, <2>4, OneLookup DEF Stage, Waits, Pending
<1>4. CASE missing # {}
  <2>1. /\ DOMAIN lookup'[u] = Asking /\ lookup'[u].step = "query" /\ lookup'[u].at = clock
        /\ lookup'[u].since = Oldest(p) /\ lookup'[u].excused = FALSE
        /\ lookup'[u].wanted = wanted /\ lookup'[u].missing = missing
    BY <1>1, <1>4 DEF Asking
  <2>2. /\ Oldest(p) \in Nat /\ Oldest(p) <= clock
        /\ \A v \in Uploaders : Pending(v) /\ ProcessOf[v] = p => Oldest(p) <= lookup[v].at
    BY <1>0, OldestIs
  <2>3. ASSUME NEW v \in Uploaders, Pending(v)', ProcessOf[v] = p
        PROVE  lookup'[v].at >= lookup'[u].since
    <3>1. CASE v = u
      BY <1>0, <2>1, <2>2, <3>1
    <3>2. CASE v # u
      <4>1. lookup'[v] = lookup[v] /\ Pending(v)
        BY <1>1, <2>3, <3>2 DEF Pending, Stage
      <4>2. lookup[v].at \in Nat
        BY <1>0, <4>1 DEF LookupInv, PendingInv
      <4> QED
        BY <2>1, <2>2, <2>3, <4>1, <4>2
    <3> QED
      BY <3>1, <3>2
  <2>4. ASSUME NEW a \in wanted \ missing PROVE Served(u, a)'
    <3>1. a \in DOMAIN cache[p] /\ cache[p][a].at \in Nat /\ cache[p][a].at + Ttl >= clock
      BY <1>2, <2>4
    <3>2. cache[p][a].at + Ttl >= Oldest(p)
      BY <1>0, <2>2, <3>1, TtlIs
    <3> QED
      BY <1>1, <2>1, <3>1, <3>2 DEF Served
  <2>5. missing \subseteq wanted
    OBVIOUS
  <2> HIDE DEF p, missing
  <2>6. PendingInv(u)'
    BY <1>0, <1>1, <2>1, <2>2, <2>3, <2>4, <2>5 DEF PendingInv, Stage, p
  <2> QED
    BY <1>1, <2>1, <2>6, OneLookup DEF Stage, Waits, Pending
<1> QED
  BY <1>3, <1>4

(* Query: what is found is right, and is right still until a commit. *)
LEMMA QueryKeeps ==
  ASSUME KnownInv, NEW u \in Uploaders, Query(u), former' = former
  PROVE  /\ ClockInv' /\ CacheInv' /\ LookupInv' /\ OwnChangesSeen'
         /\ Pending(u) /\ Pending(u)' /\ lookup'[u].wanted = lookup[u].wanted
<1> DEFINE missing == lookup[u].missing
           found == [a \in missing |-> Answer(a)]
           overtaken == lookup[u].excused \/ \E w \in Workers : InProcess(w, ProcessOf[u]) /\ Between(w)
<1>0. ClockInv /\ LookupInv /\ clock \in Nat /\ Stage(u) = "query" /\ Pending(u) /\ PendingInv(u)
  BY DEF KnownInv, ClockInv, Query, Stage, Pending, LookupInv
<1>1. /\ UNCHANGED <<row, former, clock, cache>> /\ DOMAIN lookup' = Uploaders
      /\ \A v \in Uploaders \ {u} : lookup'[v] = lookup[v]
      /\ lookup'[u] = [step |-> "found", at |-> lookup[u].at, since |-> lookup[u].since,
                       wanted |-> lookup[u].wanted, found |-> found, excused |-> overtaken]
  BY <1>0 DEF Query, rowVars, LookupInv
<1>2. /\ DOMAIN lookup'[u] = Finding /\ lookup'[u].step = "found" /\ lookup'[u].at = lookup[u].at
      /\ lookup'[u].since = lookup[u].since /\ lookup'[u].wanted = lookup[u].wanted
      /\ lookup'[u].found = found /\ lookup'[u].excused = overtaken /\ DOMAIN found = missing
  BY <1>1 DEF Finding
<1>3. ASSUME NEW v \in Uploaders, Pending(v)', ProcessOf[v] = ProcessOf[u]
      PROVE  lookup'[v].at >= lookup'[u].since
  <2>1. CASE v = u
    BY <1>0, <1>2, <2>1 DEF PendingInv
  <2>2. CASE v # u
    <3>1. lookup'[v] = lookup[v] /\ Pending(v)
      BY <1>1, <1>3, <2>2 DEF Pending, Stage
    <3> QED
      BY <1>0, <1>2, <1>3, <3>1 DEF PendingInv
  <2> QED
    BY <2>1, <2>2
<1>4. ASSUME NEW a \in lookup[u].wanted \ missing PROVE Served(u, a)'
  BY <1>0, <1>1, <1>2, <1>4 DEF PendingInv, Served
<1>5. \A a \in missing : found[a] = Answer(a) /\ Told(a, Answer(a), lookup[u].at)
  BY DEF Told, WasRight, Answer
<1>6. /\ missing \subseteq lookup[u].wanted /\ lookup[u].wanted \subseteq Accounts
      /\ lookup[u].at \in Nat /\ lookup[u].at <= clock /\ overtaken \in BOOLEAN
      /\ lookup[u].since \in Nat /\ lookup[u].since <= lookup[u].at
  BY <1>0 DEF PendingInv
<1> HIDE DEF missing, found, overtaken
<1>7. PendingInv(u)'
  BY <1>1, <1>2, <1>3, <1>4, <1>5, <1>6 DEF PendingInv, Stage, Told, Answer
<1> QED
  BY <1>0, <1>1, <1>2, <1>7, OneLookup DEF Stage, Waits, Pending

(* Resolve: what was found is as old as the lookup, and no older than the     *)
(* oldest of the lookups of the process that wait.                            *)
LEMMA ResolveKeeps ==
  ASSUME KnownInv, NEW u \in Uploaders, Resolve(u), former' = former
  PROVE  /\ ClockInv' /\ CacheInv' /\ LookupInv' /\ OwnChangesSeen'
         /\ Pending(u) /\ Stage(u)' = "resolved" /\ DOMAIN lookup'[u].refs = lookup[u].wanted
<1> DEFINE p == ProcessOf[u]
           found == lookup[u].found
           refs == RefsIn(Cached(u), lookup[u].wanted)
<1>0. /\ ClockInv /\ LookupInv /\ CacheInv /\ clock \in Nat /\ p \in Processes
      /\ Stage(u) = "found" /\ Pending(u) /\ PendingInv(u)
  BY ProcessesAre DEF KnownInv, ClockInv, Resolve, Stage, Pending, LookupInv
<1>1. /\ UNCHANGED <<row, former, clock>> /\ DOMAIN lookup' = Uploaders
      /\ \A v \in Uploaders \ {u} : lookup'[v] = lookup[v]
      /\ lookup'[u] = [step |-> "resolved", since |-> lookup[u].since, excused |-> lookup[u].excused, refs |-> refs]
      /\ DOMAIN cache' = Processes /\ cache'[p] = Cached(u)
      /\ \A q \in Processes \ {p} : cache'[q] = cache[q]
  BY <1>0 DEF Resolve, rowVars, LookupInv, CacheInv
<1>2. /\ lookup[u].at \in Nat /\ lookup[u].at <= clock /\ lookup[u].excused \in BOOLEAN
      /\ lookup[u].since \in Nat /\ lookup[u].since <= lookup[u].at
      /\ DOMAIN found \subseteq lookup[u].wanted /\ lookup[u].wanted \subseteq Accounts
      /\ \A a \in DOMAIN found : Told(a, found[a], lookup[u].at) /\ (lookup[u].excused \/ found[a] = Answer(a))
  BY <1>0 DEF PendingInv
<1>3. /\ DOMAIN cache'[p] = DOMAIN cache[p] \cup DOMAIN found
      /\ \A a \in DOMAIN found :
            cache'[p][a] = [at |-> lookup[u].at, ref |-> found[a], excused |-> lookup[u].excused]
      /\ \A a \in DOMAIN cache[p] \ DOMAIN found : cache'[p][a] = cache[p][a]
  BY <1>1 DEF Cached
<1>4. ASSUME NEW a \in DOMAIN found
      PROVE  /\ DOMAIN cache'[p][a] = {"at", "ref", "excused"}
             /\ cache'[p][a].at = lookup[u].at /\ cache'[p][a].ref = found[a]
             /\ cache'[p][a].excused = lookup[u].excused
  <2>1. cache'[p][a] = [at |-> lookup[u].at, ref |-> found[a], excused |-> lookup[u].excused]
    BY <1>3, <1>4
  <2> HIDE DEF found, p
  <2> QED
    BY <2>1
<1> HIDE DEF found, refs, p
<1>5. CacheInv'
  <2>1. ASSUME NEW q \in Processes, NEW a \in DOMAIN cache'[q] PROVE EntryInv(q, a)'
    <3>1. CASE q = p /\ a \in DOMAIN found
      BY <1>1, <1>2, <1>4, <3>1 DEF EntryInv, Told
    <3>2. CASE ~(q = p /\ a \in DOMAIN found)
      <4>1. a \in DOMAIN cache[q] /\ cache'[q][a] = cache[q][a]
        BY <1>1, <1>3, <2>1, <3>2
      <4>2. EntryInv(q, a)
        BY <1>0, <4>1 DEF CacheInv
      <4> QED
        BY <1>1, <4>1, <4>2 DEF EntryInv, Told
    <3> QED
      BY <3>1, <3>2
  <2> QED
    BY <1>0, <1>1, <1>2, <1>3, <2>1 DEF CacheInv
<1>6. OwnChangesSeen'
  <2>1. ASSUME NEW q \in Processes, NEW a \in DOMAIN cache'[q]
        PROVE  Missing(q, a)' \/ cache'[q][a].excused \/ cache'[q][a].ref = Answer(a)'
    <3>1. CASE q = p /\ a \in DOMAIN found
      BY <1>1, <1>2, <1>4, <3>1 DEF Answer
    <3>2. CASE ~(q = p /\ a \in DOMAIN found)
      <4>1. a \in DOMAIN cache[q] /\ cache'[q][a] = cache[q][a]
        BY <1>1, <1>3, <2>1, <3>2
      <4>2. Missing(q, a) \/ cache[q][a].excused \/ cache[q][a].ref = Answer(a)
        BY <4>1 DEF KnownInv, OwnChangesSeen
      <4> QED
        BY <1>1, <4>1, <4>2 DEF Missing, Answer
    <3> QED
      BY <3>1, <3>2
  <2> QED
    BY <2>1 DEF OwnChangesSeen
<1>7. ASSUME NEW v \in Uploaders, v # u PROVE Waits(v)' /\ Stage(v)' \in {"none", "query", "found", "resolved"}
  <2>1. lookup'[v] = lookup[v] /\ ProcessOf[v] \in Processes
    BY <1>1, <1>7, ProcessesAre
  <2>2. ASSUME NEW a, Pending(v), Served(v, a) PROVE Served(v, a)'
    <3>1. CASE ProcessOf[v] = p /\ a \in DOMAIN found
      <4>1. lookup[u].at >= lookup[v].since
        BY <1>0, <2>2, <3>1 DEF LookupInv, PendingInv, p
      <4>2. lookup[u].at + Ttl >= lookup[v].since
        BY <1>0, <1>2, <2>2, <4>1, TtlIs DEF LookupInv, PendingInv
      <4> QED
        BY <1>3, <1>4, <2>1, <3>1, <4>2 DEF Served
    <3>2. CASE ~(ProcessOf[v] = p /\ a \in DOMAIN found)
      <4>1. /\ a \in DOMAIN cache'[ProcessOf[v]] <=> a \in DOMAIN cache[ProcessOf[v]]
            /\ a \in DOMAIN cache[ProcessOf[v]] => cache'[ProcessOf[v]][a] = cache[ProcessOf[v]][a]
        BY <1>1, <1>3, <2>1, <3>2
      <4> QED
        BY <2>1, <2>2, <4>1 DEF Served
    <3> QED
      BY <3>1, <3>2
  <2>3. \A x \in Uploaders : Pending(x)' => Pending(x) /\ lookup'[x].at = lookup[x].at
    BY <1>1 DEF Pending, Stage
  <2>4. Waits(v)'
    BY <1>0, <1>1, <2>1, <2>2, <2>3, LookupWaits
  <2> QED
    BY <1>0, <2>1, <2>4 DEF LookupInv, Stage
<1>8. DOMAIN refs = lookup[u].wanted
  BY DEF refs, RefsIn
<1>9. ASSUME NEW a \in lookup[u].wanted
      PROVE  \/ refs[a] = NoOne /\ lookup[u].excused
             \/ Recent(a, refs[a], lookup[u].since)
  <2>1. refs[a] = IF a \in DOMAIN cache'[p] THEN cache'[p][a].ref ELSE NoOne
    BY <1>1, <1>9 DEF refs, RefsIn
  <2>2. CASE a \in DOMAIN found
    <3>1. refs[a] = found[a] /\ Told(a, found[a], lookup[u].at)
      BY <1>2, <1>3, <1>4, <2>1, <2>2
    <3> QED
      BY <1>0, <1>2, <3>1, TtlIs DEF Told, Recent, WasRight, ClockInv
  <2>3. CASE a \notin DOMAIN found /\ a \in DOMAIN cache[p]
    <3>1. Served(u, a)
      BY <1>0, <1>9, <2>3 DEF PendingInv, found
    <3>2. refs[a] = cache[p][a].ref /\ cache[p][a].at + Ttl >= lookup[u].since
      BY <1>3, <2>1, <2>3, <3>1 DEF Served, p
    <3>3. Told(a, cache[p][a].ref, cache[p][a].at) /\ cache[p][a].at \in Nat
      BY <1>0, <2>3 DEF CacheInv, EntryInv
    <3> QED
      BY <1>0, <1>2, <3>2, <3>3, TtlIs DEF Told, Recent, WasRight, ClockInv
  <2>4. CASE a \notin DOMAIN found /\ a \notin DOMAIN cache[p]
    <3>1. Served(u, a)
      BY <1>0, <1>9, <2>4 DEF PendingInv, found
    <3> QED
      BY <1>3, <2>1, <2>4, <3>1 DEF Served, p
  <2> QED
    BY <2>2, <2>3, <2>4
<1>10. lookup'[u].step = "resolved" /\ lookup'[u].since = lookup[u].since
       /\ lookup'[u].excused = lookup[u].excused /\ lookup'[u].refs = refs
  BY <1>1
<1>11. ResolvedInv(u)'
  BY <1>0, <1>1, <1>2, <1>8, <1>9, <1>10 DEF ResolvedInv, Recent
<1>12. LookupInv'
  BY <1>1, <1>7, <1>10, <1>11 DEF LookupInv, Waits, Stage, Pending
<1>13. ClockInv'
  BY <1>0, <1>1 DEF ClockInv
<1> QED
  BY <1>0, <1>5, <1>6, <1>8, <1>10, <1>12, <1>13 DEF Stage

(* The chunk is done, or the upload: its answers are forgotten. *)
LEMMA DropKeeps ==
  ASSUME KnownInv, NEW u \in Uploaders, Steady, former' = former, lookup' = [lookup EXCEPT ![u] = NoLookup]
  PROVE  ClockInv' /\ CacheInv' /\ LookupInv' /\ OwnChangesSeen'
<1>1. /\ UNCHANGED <<row, former, clock, cache>> /\ DOMAIN lookup' = Uploaders
      /\ \A v \in Uploaders \ {u} : lookup'[v] = lookup[v]
      /\ lookup'[u].step = "none"
  BY DEF Steady, rowVars, KnownInv, LookupInv, NoLookup
<1> QED
  BY <1>1, OneLookup DEF Stage, Pending, Waits

(* InsertChunk: a good row is stamped with the answer for its account. *)
LEMMA DocIsRight ==
  ASSUME KnownInv, NEW u \in Uploaders, Awaited(u), upload[u].step = "insert", Stage(u) = "resolved",
         NEW n \in Good(u)
  PROVE  RightStamp(Doc(u, n))
<1> DEFINE e == Doc(u, n)
           own == Parsed(u, n).employee
           a == KeyOf[Parsed(u, n).user]
           ref == IF a \in DOMAIN lookup[u].refs THEN lookup[u].refs[a] ELSE NoOne
<1>1. /\ e.own = own /\ e.account = a /\ e.since = lookup[u].since /\ e.excused = lookup[u].excused
      /\ e.employee = Stamped(own, ref.employee)
  BY DEF Doc
<1>2. ResolvedInv(u)
  BY DEF KnownInv, LookupInv
<1>3. a \in Accounts => a \in DOMAIN lookup[u].refs
  BY DEF Awaited, Named
<1> HIDE DEF e, a, own
<1>4. ASSUME own = "", a \in Accounts
      PROVE  \/ e.excused /\ e.employee = Nobody
             \/ e.employee = Answer(e.account).employee
             \/ \E f \in former : /\ f.account = e.account /\ f.ref.employee = e.employee
                                  /\ f.until + Ttl >= e.since
  <2>1. e.employee = lookup[u].refs[a].employee
    BY <1>1, <1>3, <1>4 DEF Stamped
  <2>2. (lookup[u].refs[a] = NoOne /\ lookup[u].excused) \/ Recent(a, lookup[u].refs[a], lookup[u].since)
    BY <1>2, <1>3, <1>4 DEF ResolvedInv
  <2>3. CASE lookup[u].refs[a] = NoOne /\ lookup[u].excused
    <3>4. lookup[u].refs[a] = NoOne /\ NoOne.employee = Nobody
      BY <2>3 DEF NoOne
    <3>1. e.employee = Nobody
      BY <2>1, <3>4
    <3>2. lookup[u].excused = TRUE
      BY <1>2, <2>3 DEF ResolvedInv
    <3>3. e.excused = TRUE
      BY <1>1, <3>2
    <3> QED
      BY <3>1, <3>3
  <2>4. CASE Recent(a, lookup[u].refs[a], lookup[u].since)
    BY <1>1, <2>1, <2>4 DEF Recent, WasRight, Answer
  <2> QED
    BY <2>2, <2>3, <2>4
<1> QED
  BY <1>1, <1>2, <1>4 DEF ResolvedInv, RightStamp, e

LEMMA StampsKeep ==
  ASSUME KnownInv, NEW u \in Uploaders, Awaited(u), UNCHANGED <<row, former, clock>>,
         NEW kept, kept \subseteq Good(u), events' = events \cup {Doc(u, n) : n \in kept},
         kept # {} => upload[u].step = "insert" /\ Stage(u) = "resolved"
  PROVE  StampInv'
<1>1. \A e \in events : RightStamp(e)
  BY DEF KnownInv, StampInv
<1>2. \A n \in kept : RightStamp(Doc(u, n))
  BY DocIsRight
<1>3. \A e \in events' : RightStamp(e)
  BY <1>1, <1>2
<1>4. \A e : RightStamp(e) => RightStamp(e)'
  BY DEF RightStamp, Answer
<1> QED
  BY <1>3, <1>4 DEF StampInv

(* _changed: the process knows nothing, and its lookups are excused. *)
LEMMA ForgetCacheKeeps ==
  ASSUME KnownInv, NEW w \in Workers, ForgetCache(w), former' = former
  PROVE  /\ ClockInv' /\ CacheInv' /\ LookupInv' /\ OwnChangesSeen' /\ Sealed(w)'
         /\ \A u \in Uploaders : /\ Stage(u)' = Stage(u)
                                 /\ Pending(u) => lookup'[u].wanted = lookup[u].wanted
                                 /\ Stage(u) = "resolved" => lookup'[u] = lookup[u]
<1> DEFINE p == ProcessOf[w]
<1>0. ClockInv /\ CacheInv /\ LookupInv /\ OwnChangesSeen /\ clock \in Nat /\ p \in Processes
  BY ProcessesAre DEF KnownInv, ClockInv
<1>1. /\ UNCHANGED <<row, former, clock>> /\ DOMAIN lookup' = Uploaders
      /\ \A u \in Uploaders : lookup'[u] = IF ProcessOf[u] = p THEN Excuse(u) ELSE lookup[u]
      /\ DOMAIN cache' = Processes /\ cache'[p] = None
      /\ \A q \in Processes \ {p} : cache'[q] = cache[q]
  BY <1>0 DEF ForgetCache, InProcess, CacheInv, LookupInv
<1> HIDE DEF p
<1>2. DOMAIN cache'[p] = {}
  BY <1>1 DEF None
<1>3. CacheInv'
  <2>1. ASSUME NEW q \in Processes, NEW a \in DOMAIN cache'[q] PROVE EntryInv(q, a)' /\ a \in Accounts
    <3>1. cache'[q] = cache[q] /\ EntryInv(q, a) /\ a \in Accounts
      BY <1>0, <1>1, <1>2, <2>1 DEF CacheInv
    <3> QED
      BY <1>1, <3>1 DEF EntryInv, Told
  <2> QED
    BY <1>1, <2>1 DEF CacheInv
<1>4. OwnChangesSeen'
  <2>1. ASSUME NEW q \in Processes, NEW a \in DOMAIN cache'[q]
        PROVE  Missing(q, a)' \/ cache'[q][a].excused \/ cache'[q][a].ref = Answer(a)'
    <3>1. cache'[q] = cache[q]
      BY <1>1, <1>2, <2>1
    <3> QED
      BY <1>0, <1>1, <2>1, <3>1 DEF OwnChangesSeen, Missing, Answer
  <2> QED
    BY <2>1 DEF OwnChangesSeen
<1>5. ASSUME NEW u \in Uploaders, ~(ProcessOf[u] = p /\ Pending(u))
      PROVE  lookup'[u] = lookup[u]
  BY <1>1, <1>5 DEF Excuse, Pending, Stage
<1>6. ASSUME NEW u \in Uploaders, ProcessOf[u] = p, Pending(u)
      PROVE  /\ DOMAIN lookup'[u] = DOMAIN lookup[u] /\ lookup'[u].excused = TRUE
             /\ lookup'[u].step = lookup[u].step /\ lookup'[u].at = lookup[u].at
             /\ lookup'[u].since = lookup[u].since /\ lookup'[u].wanted = lookup[u].wanted
             /\ Stage(u) = "query" => lookup'[u].missing = lookup[u].missing
             /\ Stage(u) = "found" => lookup'[u].found = lookup[u].found
  <2>1. lookup'[u] = [lookup[u] EXCEPT !.excused = TRUE]
    BY <1>1, <1>6 DEF Excuse, Pending, Stage
  <2>2. DOMAIN lookup[u] = Asking \/ DOMAIN lookup[u] = Finding
    BY <1>0, <1>6 DEF LookupInv, PendingInv, Pending
  <2> QED
    BY <2>1, <2>2 DEF Asking, Finding
<1>7. ASSUME NEW v \in Uploaders
      PROVE  /\ Stage(v)' = Stage(v)
             /\ Pending(v) => lookup'[v].wanted = lookup[v].wanted /\ lookup'[v].at = lookup[v].at
             /\ Stage(v) = "resolved" => lookup'[v] = lookup[v]
  <2>1. CASE ProcessOf[v] = p /\ Pending(v)
    BY <1>6, <2>1 DEF Stage, Pending
  <2>2. CASE ~(ProcessOf[v] = p /\ Pending(v))
    BY <1>5, <2>2 DEF Stage
  <2> QED
    BY <2>1, <2>2
<1>8. ASSUME NEW u \in Uploaders PROVE Waits(u)'
  <2>1. CASE ProcessOf[u] = p /\ Pending(u)
    <3>1. \A a : Served(u, a)'
      BY <1>2, <1>6, <2>1 DEF Served
    <3>2. PendingInv(u)
      BY <1>0, <2>1 DEF LookupInv
    <3>3. \A v \in Uploaders : Pending(v)' => Pending(v) /\ lookup'[v].at = lookup[v].at
      BY <1>7 DEF Pending
    <3>6. lookup'[u].excused = TRUE /\ UNCHANGED <<row, former, clock>>
      BY <1>1, <1>6, <2>1
    <3>7. /\ lookup'[u].at = lookup[u].at /\ lookup'[u].since = lookup[u].since
          /\ lookup'[u].wanted = lookup[u].wanted /\ DOMAIN lookup'[u] = DOMAIN lookup[u]
          /\ Stage(u)' = Stage(u)
          /\ Stage(u) = "query" => lookup'[u].missing = lookup[u].missing
          /\ Stage(u) = "found" => lookup'[u].found = lookup[u].found
      BY <1>6, <1>7, <2>1
    <3>4. PendingInv(u)'
      BY <2>1, <3>1, <3>2, <3>3, <3>6, <3>7 DEF PendingInv, Told
    <3>5. Stage(u)' # "resolved"
      BY <1>7, <2>1 DEF Pending
    <3> QED
      BY <3>4, <3>5 DEF Waits
  <2>2. CASE ProcessOf[u] = p /\ ~Pending(u)
    BY <1>0, <1>1, <1>5, <1>7, <2>2, LookupWaits DEF Pending
  <2>3. CASE ProcessOf[u] # p
    <3>1. \A a : Served(u, a) => Served(u, a)'
      BY <1>1, <1>5, <2>3, ProcessesAre DEF Served
    <3>2. \A v \in Uploaders : Pending(v)' => Pending(v) /\ lookup'[v].at = lookup[v].at
      BY <1>7 DEF Pending
    <3> QED
      BY <1>0, <1>1, <1>5, <2>3, <3>1, <3>2, LookupWaits
  <2> QED
    BY <2>1, <2>2, <2>3
<1>9. LookupInv'
  BY <1>0, <1>1, <1>7, <1>8 DEF LookupInv, Waits
<1>10. Sealed(w)'
  BY <1>2, <1>6, <1>7 DEF Sealed, p, Pending
<1>11. ClockInv'
  BY <1>0, <1>1 DEF ClockInv
<1> QED
  BY <1>3, <1>4, <1>7, <1>9, <1>10, <1>11

(* The answers that the commit of w changes, and the processes not told. *)
Changed(w) == {a \in Accounts : AnswerIn(After(w), a) # Answer(a)}
Untold(w, p) == p # ProcessOf[w] \/ job[w].kind = "create"

(* A commit of which its process is told changes no answer it still has. *)
LEMMA CommitsAreAnnounced ==
  ASSUME RowsInv, NEW w \in Workers, Announced(w), At(w, "commit"), job[w].kind # "create"
  PROVE  Changed(w) = {} \/ Sealed(w)
<1>1. job[w].todo # <<>> /\ Head(job[w].todo)[1] = "commit"
  BY DEF At
<1>2. Planned(job[w].todo)
  BY <1>1 DEF RowsInv, HandlerInv
<1>3. ~Tells(job[w].todo)
  BY <1>1, <1>2, OnlyTheCommit
<1>4. ASSUME DOMAIN dirty[w] \subseteq Devices PROVE Changed(w) = {}
  <2>1. ASSUME NEW a \in Accounts PROVE AnswerIn(After(w), a) = Answer(a)
    <3>1. a \in Entities /\ a \in Linkable /\ After(w)[a] = row[a]
      BY <1>4, EntitiesAre DEF After
    <3>2. ASSUME row[a] # NoRow PROVE After(w)[row[a].owner] = row[row[a].owner]
      <4>1. row[a].owner \in Employees
        BY <3>1, <3>2 DEF RowsInv, Owned
      <4>2. row[a].owner \in Entities /\ row[a].owner \notin Devices
        BY <4>1, EntitiesAre
      <4> QED
        BY <1>4, <4>2 DEF After
    <3> QED
      BY <3>1, <3>2 DEF AnswerIn, Answer
  <2> QED
    BY <2>1 DEF Changed
<1> QED
  BY <1>1, <1>3, <1>4 DEF Announced, OnDevices

LEMMA CommitIs ==
  ASSUME RowsInv, KnownInv, NEW w \in Workers, Announced(w), Commit(w)
  PROVE  /\ RowsInv' /\ clock' = clock /\ events' = events
         /\ \A a \in Accounts : a \notin Changed(w) => Answer(a)' = Answer(a)
         /\ former \subseteq former'
         /\ \A a \in Changed(w) : [account |-> a, ref |-> Answer(a), until |-> clock] \in former'
         /\ \A f \in former' : f.until \in Nat
         /\ DOMAIN cache' = Processes
         /\ \A p \in Processes : DOMAIN cache'[p] = DOMAIN cache[p]
         /\ \A p \in Processes : \A a \in DOMAIN cache[p] :
               /\ DOMAIN cache'[p][a] = DOMAIN cache[p][a]
               /\ cache'[p][a].at = cache[p][a].at /\ cache'[p][a].ref = cache[p][a].ref
               /\ cache'[p][a].excused = IF a \in Changed(w) /\ Untold(w, p) THEN TRUE ELSE cache[p][a].excused
         /\ DOMAIN lookup' = Uploaders
         /\ \A u \in Uploaders :
               lookup'[u] = IF Changed(w) # {} /\ Untold(w, ProcessOf[u]) /\ Stage(u) = "found"
                            THEN [lookup[u] EXCEPT !.excused = TRUE] ELSE lookup[u]
<1>1. CommitRows(w) /\ clock' = clock /\ events' = events
  BY DEF Commit, CommitChange
<1>2. row' = After(w)
  BY <1>1 DEF CommitRows
<1>3. \A a \in Accounts : a \notin Changed(w) => Answer(a)' = Answer(a)
  BY <1>2 DEF Changed, Answer
<1>4. former' = former \cup {[account |-> a, ref |-> Answer(a), until |-> clock] : a \in Changed(w)}
  <2>1. {a \in Accounts : Answer(a) # AnswerIn(After(w), a)} = Changed(w)
    BY DEF Changed
  <2> QED
    BY <2>1 DEF Commit
<1>5. \A f \in former' : f.until \in Nat
  BY <1>4 DEF KnownInv, ClockInv
<1>6. /\ DOMAIN cache' = Processes
      /\ \A p \in Processes : cache'[p] = [a \in DOMAIN cache[p] |->
            IF a \in Changed(w) /\ Untold(w, p) THEN [cache[p][a] EXCEPT !.excused = TRUE] ELSE cache[p][a]]
  BY DEF Commit, CommitChange, Changed, Untold
<1>7. \A p \in Processes : DOMAIN cache'[p] = DOMAIN cache[p]
  BY <1>6
<1>8. ASSUME NEW p \in Processes, NEW a \in DOMAIN cache[p]
      PROVE  /\ DOMAIN cache'[p][a] = DOMAIN cache[p][a]
             /\ cache'[p][a].at = cache[p][a].at /\ cache'[p][a].ref = cache[p][a].ref
             /\ cache'[p][a].excused = IF a \in Changed(w) /\ Untold(w, p) THEN TRUE ELSE cache[p][a].excused
  <2>1. DOMAIN cache[p][a] = {"at", "ref", "excused"}
    BY <1>8 DEF KnownInv, CacheInv, EntryInv
  <2>2. cache'[p][a] = IF a \in Changed(w) /\ Untold(w, p)
                       THEN [cache[p][a] EXCEPT !.excused = TRUE] ELSE cache[p][a]
    BY <1>6, <1>8
  <2> QED
    BY <2>1, <2>2
<1>9. /\ DOMAIN lookup' = Uploaders
      /\ \A u \in Uploaders :
            lookup'[u] = IF Changed(w) # {} /\ Untold(w, ProcessOf[u]) /\ Stage(u) = "found"
                         THEN [lookup[u] EXCEPT !.excused = TRUE] ELSE lookup[u]
  BY DEF Commit, CommitChange, Changed, Untold, Stage, KnownInv, LookupInv
<1>10. RowsInv'
  BY <1>1, CommitKeeps
<1> QED
  BY <1>1, <1>3, <1>4, <1>5, <1>6, <1>7, <1>8, <1>9, <1>10

(* What was right before the commit stays so: it is what held until now. *)
LEMMA RightStays ==
  ASSUME RowsInv, KnownInv, NEW w \in Workers, Announced(w), Commit(w),
         NEW a \in Accounts, NEW r, NEW t \in Nat, t <= clock, NEW slack \in Nat,
         WasRight(row, former, slack, a, r, t)
  PROVE  WasRight(row', former', slack, a, r, t)
<1>0. clock \in Nat
  BY DEF KnownInv, ClockInv
<1>1. CASE r = AnswerIn(row, a) /\ a \notin Changed(w)
  BY <1>1, CommitIs DEF WasRight, Answer
<1>2. CASE r = AnswerIn(row, a) /\ a \in Changed(w)
  <2> DEFINE f == [account |-> a, ref |-> Answer(a), until |-> clock]
  <2>1. f \in former'
    BY <1>2, CommitIs
  <2>2. f.account = a /\ f.ref = r /\ f.until + slack >= t
    BY <1>0, <1>2 DEF Answer
  <2> HIDE DEF f
  <2> QED
    BY <2>1, <2>2 DEF WasRight
<1>3. CASE \E f \in former : f.account = a /\ f.ref = r /\ f.until + slack >= t
  BY <1>3, CommitIs DEF WasRight
<1> QED
  BY <1>1, <1>2, <1>3 DEF WasRight

LEMMA CommitKeepsCache ==
  ASSUME RowsInv, KnownInv, NEW w \in Workers, Announced(w), Commit(w)
  PROVE  CacheInv' /\ OwnChangesSeen'
<1>0. /\ CacheInv /\ OwnChangesSeen /\ clock' = clock
      /\ DOMAIN cache' = Processes
      /\ \A p \in Processes : DOMAIN cache'[p] = DOMAIN cache[p]
  BY CommitIs DEF KnownInv
<1>1. ASSUME NEW p \in Processes, NEW a \in DOMAIN cache[p]
      PROVE  /\ EntryInv(p, a)' /\ a \in Accounts
             /\ Missing(p, a)' \/ cache'[p][a].excused \/ cache'[p][a].ref = Answer(a)'
  <2>1. /\ DOMAIN cache'[p][a] = DOMAIN cache[p][a]
        /\ cache'[p][a].at = cache[p][a].at /\ cache'[p][a].ref = cache[p][a].ref
        /\ cache'[p][a].excused = IF a \in Changed(w) /\ Untold(w, p) THEN TRUE ELSE cache[p][a].excused
    BY <1>1, CommitIs
  <2>2. EntryInv(p, a) /\ a \in Accounts
    BY <1>0, <1>1 DEF CacheInv
  <2>3. /\ cache[p][a].at \in Nat /\ cache[p][a].at <= clock /\ cache[p][a].excused \in BOOLEAN
        /\ WasRight(row, former, 0, a, cache[p][a].ref, cache[p][a].at)
        /\ DOMAIN cache[p][a] = {"at", "ref", "excused"}
    BY <2>2 DEF EntryInv, Told
  <2>4. WasRight(row', former', 0, a, cache[p][a].ref, cache[p][a].at)
    BY <2>2, <2>3, RightStays
  <2>5. cache'[p][a].excused \in BOOLEAN
    BY <2>1, <2>3
  <2>6. EntryInv(p, a)'
    BY <1>0, <2>1, <2>3, <2>4, <2>5 DEF EntryInv, Told
  <2>7. Missing(p, a) => Missing(p, a)'
    BY <1>0, <1>1, <2>1 DEF Missing
  <2>8. ASSUME ~Missing(p, a), cache[p][a].excused # TRUE, cache'[p][a].excused # TRUE
        PROVE  cache'[p][a].ref = Answer(a)'
    <3>1. cache[p][a].ref = Answer(a)
      BY <1>0, <1>1, <2>3, <2>8 DEF OwnChangesSeen
    <3>2. a \in Changed(w) => p = ProcessOf[w] /\ job[w].kind # "create"
      BY <2>1, <2>8 DEF Untold
    <3>3. At(w, "commit")
      BY DEF Commit, CommitChange, CommitRows
    <3>4. a \notin Changed(w)
      BY <1>1, <2>8, <3>2, <3>3, CommitsAreAnnounced DEF Sealed
    <3>5. Answer(a)' = Answer(a)
      BY <2>2, <3>4, CommitIs
    <3> QED
      BY <2>1, <3>1, <3>5
  <2>9. cache[p][a].excused = TRUE => cache'[p][a].excused = TRUE
    BY <2>1
  <2> QED
    BY <2>2, <2>6, <2>7, <2>8, <2>9
<1>2. CacheInv'
  BY <1>0, <1>1 DEF CacheInv
<1>3. OwnChangesSeen'
  BY <1>0, <1>1 DEF OwnChangesSeen
<1> QED
  BY <1>2, <1>3

LEMMA CommitKeepsLookups ==
  ASSUME RowsInv, KnownInv, NEW w \in Workers, Announced(w), Commit(w)
  PROVE  /\ LookupInv'
         /\ \A u \in Uploaders : /\ Stage(u)' = Stage(u)
                                 /\ Pending(u) => lookup'[u].wanted = lookup[u].wanted
                                 /\ Stage(u) = "resolved" => lookup'[u] = lookup[u]
<1>0. /\ CacheInv /\ LookupInv /\ clock' = clock /\ clock \in Nat
      /\ DOMAIN cache' = Processes
      /\ \A p \in Processes : DOMAIN cache'[p] = DOMAIN cache[p]
      /\ \A p \in Processes : \A a \in DOMAIN cache[p] : cache'[p][a].at = cache[p][a].at
      /\ DOMAIN lookup' = Uploaders
  BY CommitIs DEF KnownInv, ClockInv
<1>1. ASSUME NEW u \in Uploaders
      PROVE  /\ Stage(u)' = Stage(u)
             /\ Pending(u) => /\ lookup'[u].wanted = lookup[u].wanted /\ lookup'[u].at = lookup[u].at
                              /\ lookup'[u].since = lookup[u].since /\ DOMAIN lookup'[u] = DOMAIN lookup[u]
                              /\ lookup'[u].excused \in BOOLEAN
                              /\ lookup[u].excused = TRUE => lookup'[u].excused = TRUE
             /\ Stage(u) = "query" => lookup'[u].missing = lookup[u].missing
             /\ Stage(u) = "found" => lookup'[u].found = lookup[u].found
             /\ Stage(u) = "resolved" => lookup'[u] = lookup[u]
             /\ Stage(u) = "found" /\ lookup'[u].excused # TRUE =>
                   lookup[u].excused # TRUE /\ (Changed(w) = {} \/ ~Untold(w, ProcessOf[u]))
  <2>1. CASE Changed(w) # {} /\ Untold(w, ProcessOf[u]) /\ Stage(u) = "found"
    <3>1. lookup'[u] = [lookup[u] EXCEPT !.excused = TRUE]
      BY <2>1, CommitIs
    <3>2. DOMAIN lookup[u] = Finding
      BY <1>0, <2>1 DEF LookupInv, PendingInv, Pending
    <3> QED
      BY <2>1, <3>1, <3>2 DEF Finding, Stage, Pending
  <2>2. CASE ~(Changed(w) # {} /\ Untold(w, ProcessOf[u]) /\ Stage(u) = "found")
    <3>1. lookup'[u] = lookup[u]
      BY <2>2, CommitIs
    <3>2. Pending(u) => lookup[u].excused \in BOOLEAN
      BY <1>0 DEF LookupInv, PendingInv
    <3> QED
      BY <2>2, <3>1, <3>2 DEF Stage, Pending
  <2> QED
    BY <2>1, <2>2
<1>2. \A v \in Uploaders : Pending(v)' => Pending(v) /\ lookup'[v].at = lookup[v].at
  BY <1>1 DEF Pending
<1>3. ASSUME NEW u \in Uploaders, Pending(u) PROVE PendingInv(u)'
  <2>0. PendingInv(u) /\ ProcessOf[u] \in Processes
    BY <1>0, <1>3, ProcessesAre DEF LookupInv
  <2>1. /\ lookup[u].excused \in BOOLEAN /\ lookup[u].wanted \subseteq Accounts
        /\ lookup[u].at \in Nat /\ lookup[u].at <= clock
        /\ lookup[u].since \in Nat /\ lookup[u].since <= lookup[u].at
        /\ \A v \in Uploaders : Pending(v) /\ ProcessOf[v] = ProcessOf[u] => lookup[v].at >= lookup[u].since
    BY <2>0 DEF PendingInv
  <2>2. ASSUME NEW a, Served(u, a) PROVE Served(u, a)'
    BY <1>0, <1>1, <1>3, <2>0, <2>1, <2>2 DEF Served
  <2>3. ASSUME Stage(u) = "found", NEW a \in DOMAIN lookup[u].found
        PROVE  /\ WasRight(row', former', 0, a, lookup[u].found[a], lookup[u].at)
               /\ lookup'[u].excused = TRUE \/ lookup[u].found[a] = Answer(a)'
    <3>1. /\ a \in Accounts /\ WasRight(row, former, 0, a, lookup[u].found[a], lookup[u].at)
          /\ lookup[u].excused = TRUE \/ lookup[u].found[a] = Answer(a)
      BY <2>0, <2>3 DEF PendingInv, Told
    <3>2. WasRight(row', former', 0, a, lookup[u].found[a], lookup[u].at)
      BY <2>1, <3>1, RightStays
    <3>3. ASSUME lookup'[u].excused # TRUE PROVE lookup[u].found[a] = Answer(a)'
      <4>1. lookup[u].excused # TRUE /\ (Changed(w) = {} \/ ~Untold(w, ProcessOf[u]))
        BY <1>1, <2>3, <3>3
      <4>2. At(w, "commit")
        BY DEF Commit, CommitChange, CommitRows
      <4>3. Changed(w) = {}
        BY <2>1, <2>3, <4>1, <4>2, CommitsAreAnnounced DEF Sealed, Untold
      <4> QED
        BY <3>1, <4>1, <4>3, CommitIs
    <3> QED
      BY <3>2, <3>3
  <2>4. /\ \A v \in Uploaders : Pending(v)' /\ ProcessOf[v] = ProcessOf[u] => lookup'[v].at >= lookup[u].since
    BY <1>2, <2>1
  <2>5. Stage(u) = "query" =>
          /\ DOMAIN lookup'[u] = Asking
          /\ lookup'[u].missing \subseteq lookup'[u].wanted
          /\ \A a \in lookup'[u].wanted \ lookup'[u].missing : Served(u, a)'
    BY <1>1, <1>3, <2>0, <2>2 DEF PendingInv
  <2>6. Stage(u) = "found" =>
          /\ DOMAIN lookup'[u] = Finding
          /\ DOMAIN lookup'[u].found \subseteq lookup'[u].wanted
          /\ \A a \in lookup'[u].wanted \ DOMAIN lookup'[u].found : Served(u, a)'
    BY <1>1, <1>3, <2>0, <2>2 DEF PendingInv
  <2> QED
    BY <1>0, <1>1, <1>3, <2>1, <2>3, <2>4, <2>5, <2>6 DEF PendingInv, Told
<1>4. ASSUME NEW u \in Uploaders, Stage(u) = "resolved" PROVE ResolvedInv(u)'
  <2>1. ResolvedInv(u) /\ lookup'[u] = lookup[u]
    BY <1>0, <1>1, <1>4 DEF LookupInv
  <2>2. ASSUME NEW a \in DOMAIN lookup[u].refs, Recent(a, lookup[u].refs[a], lookup[u].since), a \in Accounts
        PROVE  WasRight(row', former', Ttl, a, lookup[u].refs[a], lookup[u].since)
    BY <2>1, <2>2, RightStays, TtlIs DEF ResolvedInv, Recent
  <2>3. DOMAIN lookup[u].refs \subseteq Accounts
    BY <2>1 DEF ResolvedInv
  <2> QED
    BY <1>0, <2>1, <2>2, <2>3 DEF ResolvedInv, Recent
<1>5. LookupInv'
  BY <1>0, <1>1, <1>3, <1>4 DEF LookupInv, Pending
<1> QED
  BY <1>1, <1>5

LEMMA CommitKeepsStamps ==
  ASSUME RowsInv, KnownInv, NEW w \in Workers, Announced(w), Commit(w)
  PROVE  StampInv'
<1>1. ASSUME NEW e \in events PROVE RightStamp(e)'
  <2>1. RightStamp(e) /\ clock' = clock /\ clock \in Nat
    BY CommitIs DEF KnownInv, StampInv, ClockInv
  <2>2. ASSUME e.account \in Accounts,
               \/ e.employee = Answer(e.account).employee
               \/ \E f \in former : /\ f.account = e.account /\ f.ref.employee = e.employee
                                    /\ f.until + Ttl >= e.since
        PROVE  \/ e.employee = (Answer(e.account)').employee
               \/ \E f \in former' : /\ f.account = e.account /\ f.ref.employee = e.employee
                                     /\ f.until + Ttl >= e.since
    <3>1. CASE \E f \in former : /\ f.account = e.account /\ f.ref.employee = e.employee
                                 /\ f.until + Ttl >= e.since
      BY <3>1, CommitIs
    <3>2. CASE e.employee = Answer(e.account).employee /\ e.account \notin Changed(w)
      BY <2>2, <3>2, CommitIs
    <3>3. CASE e.employee = Answer(e.account).employee /\ e.account \in Changed(w)
      <4> DEFINE f == [account |-> e.account, ref |-> Answer(e.account), until |-> clock]
      <4>1. f \in former'
        BY <3>3, CommitIs
      <4>2. f.account = e.account /\ f.ref = Answer(e.account) /\ f.until = clock
        OBVIOUS
      <4> HIDE DEF f
      <4>4. e.since \in Nat /\ e.since <= clock
        BY <2>1 DEF RightStamp
      <4>3. f.until + Ttl >= e.since
        BY <2>1, <4>2, <4>4, TtlIs
      <4> QED
        BY <3>3, <4>1, <4>2, <4>3
    <3> QED
      BY <2>2, <3>1, <3>2, <3>3
  <2> QED
    BY <2>1, <2>2 DEF RightStamp
<1> QED
  BY <1>1, CommitIs DEF StampInv

LEMMA CommitKeepsKnown ==
  ASSUME RowsInv, KnownInv, NEW w \in Workers, Announced(w), Commit(w)
  PROVE  KnownInv'
<1>1. ClockInv'
  BY CommitIs DEF KnownInv, ClockInv
<1> QED
  BY <1>1, CommitKeepsCache, CommitKeepsLookups, CommitKeepsStamps DEF KnownInv

-----------------------------------------------------------------------------
(* Changes are announced.                                                  *)

LEMMA SealedIf ==
  ASSUME NEW w \in Workers, Sealed(w),
         \A a \in DOMAIN cache'[ProcessOf[w]] :
            \/ cache'[ProcessOf[w]][a].excused
            \/ a \in DOMAIN cache[ProcessOf[w]] /\ cache'[ProcessOf[w]][a] = cache[ProcessOf[w]][a],
         \A u \in Uploaders : Stage(u)' = "found" /\ ProcessOf[u] = ProcessOf[w] =>
            lookup'[u].excused \/ lookup'[u] = lookup[u]
  PROVE  Sealed(w)'
BY DEF Sealed, Stage

(* The uploaders' steps: a lookup that asks before the commit is excused. *)
LEMMA LookupsStaySealed ==
  ASSUME KnownInv, NEW w \in Workers, Between(w), Sealed(w), NEW u \in Uploaders,
         \/ \E wanted : Ask(u, wanted)
         \/ Query(u) \/ Resolve(u)
         \/ Steady /\ lookup' = [lookup EXCEPT ![u] = NoLookup]
  PROVE  Sealed(w)'
<1> DEFINE p == ProcessOf[w]
<1>0. DOMAIN lookup = Uploaders /\ DOMAIN cache = Processes /\ p \in Processes
  BY ProcessesAre DEF KnownInv, LookupInv, CacheInv
<1>1. CASE cache' = cache /\ \E r : lookup' = [lookup EXCEPT ![u] = r] /\ r.step # "found"
  <2>1. PICK r : lookup' = [lookup EXCEPT ![u] = r] /\ r.step # "found"
    BY <1>1
  <2>2. \A v \in Uploaders : Stage(v)' = "found" => lookup'[v] = lookup[v]
    BY <1>0, <2>1 DEF Stage
  <2> QED
    BY <1>1, <2>2, SealedIf
<1>2. ASSUME NEW wanted, Ask(u, wanted) PROVE Sealed(w)'
  <2> DEFINE missing == {a \in wanted : Missing(ProcessOf[u], a)}
             r == IF missing = {}
                  THEN [step |-> "resolved", since |-> clock, excused |-> FALSE, refs |-> RefsIn(cache[ProcessOf[u]], wanted)]
                  ELSE [step |-> "query", at |-> clock, since |-> Oldest(ProcessOf[u]), excused |-> FALSE,
                        wanted |-> wanted, missing |-> missing]
  <2>1. cache' = cache /\ lookup' = [lookup EXCEPT ![u] = r]
    BY <1>2 DEF Ask
  <2>2. r.step # "found"
    OBVIOUS
  <2> HIDE DEF r
  <2> QED
    BY <1>1, <2>1, <2>2
<1>3. CASE Steady /\ lookup' = [lookup EXCEPT ![u] = NoLookup]
  <2>1. NoLookup.step # "found"
    BY DEF NoLookup
  <2> QED
    BY <1>1, <1>3, <2>1 DEF Steady
<1>4. CASE Query(u)
  <2>1. cache' = cache /\ \A v \in Uploaders \ {u} : lookup'[v] = lookup[v]
    BY <1>0, <1>4 DEF Query
  <2>2. lookup'[u].excused = (lookup[u].excused \/ \E x \in Workers : InProcess(x, ProcessOf[u]) /\ Between(x))
    BY <1>0, <1>4 DEF Query
  <2>3. ProcessOf[u] = p => lookup'[u].excused
    BY <2>2 DEF InProcess
  <2> QED
    BY <2>1, <2>3, SealedIf
<1>5. CASE Resolve(u)
  <2>1. /\ \A v \in Uploaders \ {u} : lookup'[v] = lookup[v]
        /\ lookup'[u].step = "resolved" /\ lookup[u].step = "found"
        /\ cache'[p] = IF ProcessOf[u] = p THEN Cached(u) ELSE cache[p]
    BY <1>0, <1>5 DEF Resolve
  <2>2. ASSUME NEW a \in DOMAIN cache'[p]
        PROVE  cache'[p][a].excused \/ (a \in DOMAIN cache[p] /\ cache'[p][a] = cache[p][a])
    <3>1. CASE ProcessOf[u] = p /\ a \in DOMAIN lookup[u].found
      <4>1. cache'[p][a] = [at |-> lookup[u].at, ref |-> lookup[u].found[a], excused |-> lookup[u].excused]
        BY <2>1, <2>2, <3>1 DEF Cached
      <4>2. lookup[u].excused
        BY <2>1, <3>1 DEF Sealed, Stage
      <4> QED
        BY <4>1, <4>2
    <3>2. CASE ~(ProcessOf[u] = p /\ a \in DOMAIN lookup[u].found)
      BY <2>1, <2>2, <3>2 DEF Cached
    <3> QED
      BY <3>1, <3>2
  <2>3. \A v \in Uploaders : Stage(v)' = "found" => lookup'[v] = lookup[v]
    BY <2>1 DEF Stage
  <2> QED
    BY <2>2, <2>3, SealedIf
<1> QED
  BY <1>2, <1>3, <1>4, <1>5

(* The other handlers' steps. *)
LEMMA ForgettingStaysSealed ==
  ASSUME KnownInv, NEW w \in Workers, Sealed(w), NEW v \in Workers, ForgetCache(v)
  PROVE  Sealed(w)'
<1> DEFINE p == ProcessOf[w]
<1>1. /\ p \in Processes /\ ProcessOf[v] \in Processes
      /\ \A u \in Uploaders : lookup'[u] = IF ProcessOf[u] = ProcessOf[v] THEN Excuse(u) ELSE lookup[u]
      /\ cache'[p] = IF ProcessOf[v] = p THEN None ELSE cache[p]
  BY ProcessesAre DEF KnownInv, ForgetCache, InProcess, CacheInv, LookupInv
<1>2. \A a \in DOMAIN cache'[p] : a \in DOMAIN cache[p] /\ cache'[p][a] = cache[p][a]
  BY <1>1 DEF None
<1>3. ASSUME NEW u \in Uploaders, Stage(u)' = "found" PROVE lookup'[u].excused \/ lookup'[u] = lookup[u]
  <2>1. CASE lookup'[u] = [lookup[u] EXCEPT !.excused = TRUE] /\ Pending(u)
    <3>1. "excused" \in DOMAIN lookup[u]
      BY <2>1 DEF KnownInv, LookupInv, PendingInv, Pending, Asking, Finding
    <3> QED
      BY <2>1, <3>1
  <2> QED
    BY <1>1, <2>1 DEF Excuse, Pending, Stage
<1> QED
  BY <1>2, <1>3, SealedIf

LEMMA CommitsStaySealed ==
  ASSUME RowsInv, KnownInv, NEW w \in Workers, Sealed(w), NEW v \in Workers, Announced(v), Commit(v)
  PROVE  Sealed(w)'
<1> DEFINE p == ProcessOf[w]
<1>0. p \in Processes /\ DOMAIN cache'[p] = DOMAIN cache[p]
  BY ProcessesAre, CommitIs
<1>1. ASSUME NEW a \in DOMAIN cache'[p] PROVE cache'[p][a].excused
  <2>0. cache[p][a].excused /\ EntryInv(p, a)
    BY <1>0, <1>1 DEF Sealed, KnownInv, CacheInv
  <2>1. cache[p][a].excused = TRUE
    BY <2>0 DEF EntryInv
  <2>3. \A q \in Processes : \A b \in DOMAIN cache[q] :
          cache'[q][b].excused = IF b \in Changed(v) /\ Untold(v, q) THEN TRUE ELSE cache[q][b].excused
    BY CommitIs
  <2> HIDE DEF p
  <2>2. cache'[p][a].excused = IF a \in Changed(v) /\ Untold(v, p) THEN TRUE ELSE cache[p][a].excused
    BY <1>0, <1>1, <2>3
  <2> QED
    BY <2>1, <2>2
<1>2. ASSUME NEW u \in Uploaders, Stage(u)' = "found" PROVE lookup'[u].excused \/ lookup'[u] = lookup[u]
  <2>1. CASE lookup'[u] = [lookup[u] EXCEPT !.excused = TRUE] /\ Stage(u) = "found"
    <3>1. "excused" \in DOMAIN lookup[u]
      BY <2>1 DEF KnownInv, LookupInv, PendingInv, Pending, Finding
    <3> QED
      BY <2>1, <3>1
  <2> QED
    BY <2>1, CommitIs
<1> QED
  BY <1>1, <1>2, SealedIf

LEMMA AnnouncedStays ==
  ASSUME NEW w \in Workers, Announced(w), job'[w] = job[w], dirty'[w] = dirty[w],
         Between(w) /\ Sealed(w) => Sealed(w)'
  PROVE  Announced(w)'
<1>1. DOMAIN dirty[w] # {} => dirty[w] # None
  BY DEF None
<1>2. OnDevices(w) => OnDevices(w)'
  BY DEF OnDevices
<1> QED
  BY <1>1, <1>2 DEF Announced, Between

LEMMA OneHandler ==
  ASSUME RowsInv, NEW w \in Workers, Request(w) \/ RequestStep(w) \/ Commit(w), NEW v \in Workers, v # w
  PROVE  job'[v] = job[v] /\ dirty'[v] = dirty[v]
<1>1. CASE Request(w)
  BY <1>1, RequestAsks, BeginKeeps DEF Asked
<1>2. CASE RequestStep(w)
  <2>0. DOMAIN job = Workers /\ DOMAIN dirty = Workers
    BY DEF RowsInv
  <2>1. CASE Reread(w)
    BY <2>0, <2>1 DEF Reread
  <2>2. CASE Write(w)
    BY <2>0, <2>2 DEF Write, Advance
  <2>3. CASE Claim(w)
    BY <2>0, <2>3 DEF Claim, Advance
  <2>4. CASE Delete(w)
    BY <2>0, <2>4 DEF Delete, Advance
  <2>5. CASE ForgetCache(w)
    BY <2>0, <2>5 DEF ForgetCache, Advance
  <2>6. CASE Abandon(w)
    BY <2>6, ForgetIdles DEF Abandon, Rollback
  <2> QED
    BY <1>2, <2>1, <2>2, <2>3, <2>4, <2>5, <2>6 DEF RequestStep, Execute
<1>3. CASE Commit(w)
  BY <1>3, ForgetIdles DEF Commit, CommitChange, CommitRows
<1> QED
  BY <1>1, <1>2, <1>3

(* A handler before its last step announces what it said it would. *)
LEMMA StepAnnounces ==
  ASSUME RowsInv, NEW w \in Workers, Announced(w), NEW k, At(w, k), k # "commit",
         job'[w].kind = job[w].kind,
         \/ job'[w].todo = Tail(job[w].todo)
         \/ k = "claim" /\ \E x \in Linkable : job'[w].todo = <<<<"write", x>>>> \o Tail(job[w].todo),
         DOMAIN dirty'[w] \subseteq DOMAIN dirty[w] \cup (IF k \in {"write", "delete"} THEN {Subject(w)} ELSE {}),
         k = "forget" => Sealed(w)'
  PROVE  Announced(w)'
<1> DEFINE todo == job[w].todo
<1>1. /\ Planned(todo) /\ Planned(Tail(todo)) /\ Head(todo) \in Range(todo) /\ Range(Tail(todo)) \subseteq Range(todo)
      /\ Head(todo)[1] = k /\ Head(todo)[2] = Subject(w) /\ todo # <<>>
      /\ k # "forget" /\ Tells(todo) => Tells(Tail(todo))
      /\ k = "forget" => Tail(todo) = Quietly
  BY StepsLeft DEF At
<1> HIDE DEF todo
<1>2. todo # Quietly
  <2>1. Head(Quietly)[1] = "commit"
    BY DEF Quietly
  <2> QED
    BY <1>1, <2>1
<1>3. job[w].kind = "create" \/ OnDevices(w) \/ Tells(todo)
  BY <1>1, <1>2 DEF Announced, todo
<1>4. CASE job[w].kind = "create"
  BY <1>4 DEF Announced
<1>5. CASE OnDevices(w)
  <2>1. k \in {"write", "delete"} /\ Subject(w) \in Devices
    BY <1>1, <1>5 DEF OnDevices, todo
  <2>2. job'[w].todo = Tail(todo)
    BY <2>1 DEF todo
  <2> QED
    BY <1>1, <1>5, <2>1, <2>2 DEF OnDevices, Announced, todo
<1>6. CASE Tells(todo) /\ k # "forget"
  <2>1. Tells(Tail(todo))
    BY <1>1, <1>6
  <2>2. ASSUME NEW x \in Linkable PROVE Tells(<<<<"write", x>>>> \o Tail(todo))
    <3>1. <<"write", x>> \in BodySteps
      BY EntitiesAre DEF BodySteps, Steps
    <3> QED
      BY <1>1, <2>1, <3>1, OneStepMore
  <2>3. Tells(job'[w].todo)
    BY <2>1, <2>2 DEF todo
  <2> QED
    BY <2>3 DEF Announced
<1>7. CASE k = "forget"
  <2>1. job'[w].todo = Quietly
    BY <1>1, <1>7 DEF todo
  <2> QED
    BY <1>7, <2>1 DEF Announced
<1> QED
  BY <1>3, <1>4, <1>5, <1>6, <1>7

LEMMA HandlerAnnounces ==
  ASSUME RowsInv, KnownInv, NEW w \in Workers, Announced(w), Request(w) \/ RequestStep(w) \/ Commit(w)
  PROVE  Announced(w)'
<1>0. DOMAIN job = Workers /\ DOMAIN dirty = Workers /\ DOMAIN job[w] = JobFields
  BY DEF RowsInv, HandlerInv
<1>1. CASE Request(w)
  <2>1. PICK kind, copy, base, todo : Begins(w, kind, copy, base, todo) /\ Fair(kind, todo)
    BY <1>1, RequestAsks DEF Asked
  <2>2. DOMAIN dirty'[w] = {} /\ job'[w].kind = kind /\ job'[w].todo = todo
    BY <2>1, BeginKeeps
  <2> QED
    BY <2>1, <2>2 DEF Fair, Announced, OnDevices
<1>2. CASE Reread(w)
  <2>1. /\ At(w, "reread") /\ job'[w].kind = job[w].kind /\ job'[w].todo = Tail(job[w].todo) /\ dirty' = dirty
    BY <1>0, <1>2 DEF Reread, JobFields
  <2> QED
    BY <2>1, StepAnnounces
<1>3. CASE Write(w)
  <2>1. /\ At(w, "write") /\ job'[w].kind = job[w].kind /\ job'[w].todo = Tail(job[w].todo)
        /\ DOMAIN dirty'[w] = DOMAIN dirty[w] \cup {Subject(w)}
    BY <1>0, <1>3 DEF Write, Advance, JobFields
  <2> QED
    BY <2>1, StepAnnounces
<1>4. CASE Claim(w)
  <2>2. At(w, "claim") /\ dirty' = dirty
    BY <1>4 DEF Claim
  <2>1. Subject(w) \in Linkable \X Employees
    <3>1. Head(job[w].todo) \in Steps /\ Head(job[w].todo)[1] = "claim" /\ Head(job[w].todo)[2] = Subject(w)
      BY <2>2, StepsLeft
    <3> QED
      BY <3>1, StepsAre
  <2>3. CASE Advance(w)
    <3>1. job'[w].kind = job[w].kind /\ job'[w].todo = Tail(job[w].todo)
      BY <1>0, <2>3 DEF Advance, JobFields
    <3> QED
      BY <2>2, <3>1, StepAnnounces
  <2>4. CASE ~Advance(w)
    <3> DEFINE x == Subject(w)[1]
               e == Subject(w)[2]
    <3>1. job' = [job EXCEPT ![w].copy = [y \in DOMAIN @ \cup {x} |-> IF y = x THEN Link(e, links + 1) ELSE @[y]],
                             ![w].base = [y \in DOMAIN @ \cup {x} |-> IF y = x THEN NoRow ELSE @[y]],
                             ![w].todo = <<<<"write", x>>>> \o Tail(@)]
      BY <1>4, <2>4 DEF Claim
    <3>2. x \in Linkable
      BY <2>1
    <3> HIDE DEF x, e
    <3>3. job'[w].kind = job[w].kind /\ job'[w].todo = <<<<"write", x>>>> \o Tail(job[w].todo)
      BY <1>0, <3>1 DEF JobFields
    <3> QED
      BY <2>2, <3>2, <3>3, StepAnnounces
  <2> QED
    BY <2>3, <2>4
<1>5. CASE Delete(w)
  <2>1. /\ At(w, "delete") /\ job'[w].kind = job[w].kind /\ job'[w].todo = Tail(job[w].todo)
        /\ DOMAIN dirty'[w] \subseteq DOMAIN dirty[w] \cup {Subject(w)}
    BY <1>0, <1>5 DEF Delete, Advance, JobFields, Of
  <2> QED
    BY <2>1, StepAnnounces
<1>6. CASE ForgetCache(w) /\ former' = former
  <2>1. /\ At(w, "forget") /\ job'[w].kind = job[w].kind /\ job'[w].todo = Tail(job[w].todo) /\ dirty' = dirty
    BY <1>0, <1>6 DEF ForgetCache, Advance, JobFields
  <2>2. Sealed(w)'
    BY <1>6, ForgetCacheKeeps
  <2> QED
    BY <2>1, <2>2, StepAnnounces
<1>7. CASE Abandon(w) \/ Commit(w)
  BY <1>7, ForgetIdles DEF Abandon, Rollback, Commit, CommitChange, CommitRows, Announced
<1> QED
  BY <1>1, <1>2, <1>3, <1>4, <1>5, <1>6, <1>7 DEF RequestStep, Execute

-----------------------------------------------------------------------------
(* The uploads' chunks and the lookups they wait for.                      *)

(* The upload of u keeps its chunk, and its lookup what it asks for. *)
LEMMA AwaitsStill ==
  ASSUME NEW u \in Uploaders, Awaited(u), upload'[u] = upload[u], Stage(u)' = Stage(u),
         Pending(u) => lookup'[u].wanted = lookup[u].wanted,
         Stage(u) = "resolved" => lookup'[u] = lookup[u]
  PROVE  Awaited(u)'
BY DEF Awaited, Pending, Named, Good, Chunk, Parsed

LEMMA StartKeepsUploads ==
  ASSUME UploadsInv, NEW u \in Uploaders, NEW f, StartUpload(u, f)
  PROVE  UploadsInv'
<1>1. /\ DOMAIN upload' = Uploaders /\ lookup' = lookup
      /\ \A v \in Uploaders \ {u} : upload'[v] = upload[v]
      /\ DOMAIN upload'[u] = UploadFields /\ upload'[u].step = "chunk"
  BY DEF StartUpload, UploadsInv, UploadFields, dirVars
<1>2. Awaited(u)'
  BY <1>1 DEF Awaited
<1>3. \A v \in Uploaders \ {u} : Awaited(v)'
  BY <1>1, AwaitsStill DEF UploadsInv, Stage
<1> QED
  BY <1>1, <1>2, <1>3 DEF UploadsInv, Busy

(* What AfterChunk leaves of an upload. *)
LEMMA AfterChunkIs ==
  ASSUME UploadsInv, NEW u \in Uploaders, Busy(u), NEW stored
  PROVE  /\ DOMAIN AfterChunk(u, stored) = UploadFields
         /\ AfterChunk(u, stored).step \in {"chunk", "commit"}
BY DEF UploadsInv, AfterChunk, UploadFields

LEMMA BusyWith ==
  ASSUME NEW u, upload[u].step # "none"
  PROVE  Busy(u)
BY DEF Busy, NoUpload

LEMMA DoneKeepsUploads ==
  ASSUME UploadsInv, NEW u \in Uploaders,
         \E next : /\ upload' = [upload EXCEPT ![u] = next] /\ next.step # "insert"
                   /\ next = NoUpload \/ DOMAIN next = UploadFields,
         \A v \in Uploaders \ {u} : lookup'[v] = lookup[v]
  PROVE  UploadsInv'
<1>1. /\ DOMAIN upload' = Uploaders
      /\ \A v \in Uploaders \ {u} : upload'[v] = upload[v]
      /\ upload'[u] = NoUpload \/ DOMAIN upload'[u] = UploadFields
      /\ upload'[u].step # "insert"
  BY DEF UploadsInv
<1>2. Awaited(u)'
  BY <1>1 DEF Awaited
<1>3. \A v \in Uploaders \ {u} : Awaited(v)'
  BY <1>1, AwaitsStill DEF UploadsInv, Stage
<1> QED
  BY <1>1, <1>2, <1>3 DEF UploadsInv, Busy

LEMMA LookUpKeepsUploads ==
  ASSUME KnownInv, UploadsInv, NEW u \in Uploaders, LookUp(u)
  PROVE  UploadsInv' /\ ClockInv' /\ CacheInv' /\ LookupInv' /\ OwnChangesSeen'
<1>1. upload[u].step = "chunk" /\ Ask(u, Named(u)) /\ upload' = [upload EXCEPT ![u].step = "insert"] /\ former' = former
  BY DEF LookUp, Named
<1>2. Busy(u) /\ DOMAIN upload = Uploaders /\ DOMAIN upload[u] = UploadFields
  BY <1>1, BusyWith DEF UploadsInv
<1>3. /\ ClockInv' /\ CacheInv' /\ LookupInv' /\ OwnChangesSeen'
      /\ Pending(u)' => lookup'[u].wanted = Named(u)
      /\ Stage(u)' = "resolved" => DOMAIN lookup'[u].refs = Named(u)
  <2>1. Named(u) \subseteq Accounts
    BY DEF Named
  <2> QED
    BY <1>1, <2>1, AskKeeps
<1>4. /\ DOMAIN upload' = Uploaders /\ DOMAIN upload'[u] = UploadFields
      /\ \A v \in Uploaders \ {u} : upload'[v] = upload[v] /\ lookup'[v] = lookup[v]
      /\ upload'[u].file = upload[u].file /\ upload'[u].parser = upload[u].parser /\ upload'[u].read = upload[u].read
  BY <1>1, <1>2 DEF UploadFields, Ask, KnownInv, LookupInv
<1>5. Named(u)' = Named(u)
  BY <1>4 DEF Named, Good, Chunk, Parsed
<1>6. Awaited(u)'
  BY <1>3, <1>5 DEF Awaited
<1>7. \A v \in Uploaders \ {u} : Awaited(v)'
  BY <1>4, AwaitsStill DEF UploadsInv, Stage
<1> QED
  BY <1>3, <1>4, <1>6, <1>7 DEF UploadsInv, Busy

LEMMA AnsweringKeepsUploads ==
  ASSUME KnownInv, UploadsInv, NEW u \in Uploaders, Answering(u)
  PROVE  UploadsInv' /\ ClockInv' /\ CacheInv' /\ LookupInv' /\ OwnChangesSeen'
<1>1. upload' = upload /\ former' = former
  BY DEF Answering
<1>2. \A v \in Uploaders \ {u} : lookup'[v] = lookup[v]
  BY DEF Answering, Query, Resolve, KnownInv, LookupInv
<1>3. /\ ClockInv' /\ CacheInv' /\ LookupInv' /\ OwnChangesSeen'
      /\ Pending(u)
      /\ Pending(u)' => lookup'[u].wanted = lookup[u].wanted
      /\ Stage(u)' = "resolved" => DOMAIN lookup'[u].refs = lookup[u].wanted
  BY <1>1, QueryKeeps, ResolveKeeps DEF Answering, Pending
<1>4. Named(u)' = Named(u)
  BY <1>1 DEF Named, Good, Chunk, Parsed
<1>5. Awaited(u)'
  BY <1>1, <1>3, <1>4 DEF Awaited, UploadsInv
<1>6. \A v \in Uploaders \ {u} : Awaited(v)'
  BY <1>1, <1>2, AwaitsStill DEF UploadsInv, Stage
<1> QED
  BY <1>1, <1>3, <1>5, <1>6 DEF UploadsInv, Busy

-----------------------------------------------------------------------------
(* The answers, over the whole of a step.                                  *)

LEMMA UploadStepKeeps ==
  ASSUME AnswersInv, NEW u \in Uploaders,
         \/ StartUpload(u, shelf) \/ LookUp(u) \/ Answering(u) \/ InsertChunk(u) \/ OnlyErrors(u)
         \/ CommitUpload(u) \/ UploadFails(u)
  PROVE  KnownInv' /\ UploadsInv'
<1>0. KnownInv /\ UploadsInv /\ ClockInv /\ StampInv /\ clock \in Nat
  BY DEF AnswersInv, KnownInv, ClockInv
<1>1. CASE StartUpload(u, shelf)
  <2>1. UNCHANGED <<row, former, clock, cache, lookup, events>>
    BY <1>1 DEF StartUpload, dirVars
  <2> QED
    BY <1>0, <1>1, <2>1, StartKeepsUploads, KnownStays
<1>2. CASE LookUp(u) \/ Answering(u)
  <2>1. UNCHANGED <<row, former, clock, events>>
    BY <1>2 DEF LookUp, Answering, Ask, Query, Resolve, rowVars
  <2>2. StampInv'
    BY <1>0, <2>1, StampsStay
  <2> QED
    BY <1>0, <1>2, <2>2, LookUpKeepsUploads, AnsweringKeepsUploads DEF KnownInv
<1>3. CASE InsertChunk(u)
  <2>1. /\ upload[u].step = "insert" /\ Stage(u) = "resolved" /\ Steady /\ former' = former
        /\ events' = events \cup {Doc(u, n) : n \in Good(u)}
        /\ upload' = [upload EXCEPT ![u] = AfterChunk(u, Cardinality(Good(u)))]
        /\ lookup' = [lookup EXCEPT ![u] = NoLookup]
    BY <1>3 DEF InsertChunk, Stage
  <2>2. UNCHANGED <<row, former, clock>> /\ Awaited(u) /\ Busy(u)
    BY <1>0, <2>1, BusyWith DEF Steady, rowVars, UploadsInv
  <2>3. StampInv'
    BY <1>0, <2>1, <2>2, StampsKeep
  <2>4. \A v \in Uploaders \ {u} : lookup'[v] = lookup[v]
    BY <1>0, <2>1 DEF KnownInv, LookupInv
  <2>5. UploadsInv'
    <3> DEFINE next == AfterChunk(u, Cardinality(Good(u)))
    <3>1. DOMAIN next = UploadFields /\ next.step # "insert"
      BY <1>0, <2>2, AfterChunkIs
    <3>2. upload' = [upload EXCEPT ![u] = next]
      BY <2>1
    <3> HIDE DEF next
    <3> QED
      BY <1>0, <2>4, <3>1, <3>2, DoneKeepsUploads
  <2> QED
    BY <1>0, <2>1, <2>3, <2>5, DropKeeps DEF KnownInv
<1>4. CASE OnlyErrors(u)
  <2>1. /\ UNCHANGED <<row, former, clock, cache, lookup, events>> /\ upload[u].step = "chunk"
        /\ upload' = [upload EXCEPT ![u] = AfterChunk(u, 0)]
    BY <1>4 DEF OnlyErrors, dirVars
  <2>2. Busy(u)
    BY <2>1, BusyWith
  <2>3. UploadsInv'
    <3> DEFINE next == AfterChunk(u, 0)
    <3>1. DOMAIN next = UploadFields /\ next.step # "insert"
      BY <1>0, <2>2, AfterChunkIs
    <3>2. upload' = [upload EXCEPT ![u] = next]
      BY <2>1
    <3> HIDE DEF next
    <3> QED
      BY <1>0, <2>1, <3>1, <3>2, DoneKeepsUploads
  <2> QED
    BY <1>0, <2>1, <2>3, KnownStays
<1>5. CASE CommitUpload(u)
  <2>1. /\ UNCHANGED <<row, former, clock, cache, lookup, events>>
        /\ upload' = [upload EXCEPT ![u] = NoUpload] /\ NoUpload.step # "insert"
    BY <1>5 DEF CommitUpload, dirVars, NoUpload
  <2> QED
    BY <1>0, <2>1, KnownStays, DoneKeepsUploads
<1>6. CASE UploadFails(u)
  <2>1. PICK kept \in IF upload[u].step = "insert" /\ lookup[u].step = "resolved" THEN SUBSET Good(u) ELSE {{}} :
           events' = events \cup {Doc(u, n) : n \in kept}
    BY <1>6 DEF UploadFails
  <2>2. /\ kept \subseteq Good(u) /\ kept # {} => upload[u].step = "insert" /\ Stage(u) = "resolved"
        /\ Steady /\ former' = former /\ lookup' = [lookup EXCEPT ![u] = NoLookup]
        /\ upload' = [upload EXCEPT ![u] = NoUpload] /\ NoUpload.step # "insert"
    BY <1>6, <2>1 DEF UploadFails, Stage, NoUpload
  <2>3. UNCHANGED <<row, former, clock>> /\ Awaited(u)
    BY <1>0, <2>2 DEF Steady, rowVars, UploadsInv
  <2>4. StampInv'
    BY <1>0, <2>1, <2>2, <2>3, StampsKeep
  <2>5. \A v \in Uploaders \ {u} : lookup'[v] = lookup[v]
    BY <1>0, <2>2 DEF KnownInv, LookupInv
  <2> QED
    BY <1>0, <2>2, <2>4, <2>5, DropKeeps, DoneKeepsUploads DEF KnownInv
<1> QED
  BY <1>1, <1>2, <1>3, <1>4, <1>5, <1>6

LEMMA UploadStepStaysSealed ==
  ASSUME AnswersInv, NEW u \in Uploaders,
         \/ StartUpload(u, shelf) \/ LookUp(u) \/ Answering(u) \/ InsertChunk(u) \/ OnlyErrors(u)
         \/ CommitUpload(u) \/ UploadFails(u),
         NEW w \in Workers
  PROVE  Announced(w)'
<1>1. job' = job /\ dirty' = dirty
  BY DEF StartUpload, LookUp, Answering, InsertChunk, OnlyErrors, CommitUpload, UploadFails,
         Ask, Query, Resolve, Steady, dirVars, rowVars
<1>2. \/ cache' = cache /\ lookup' = lookup
      \/ \E wanted : Ask(u, wanted)
      \/ Query(u) \/ Resolve(u)
      \/ Steady /\ lookup' = [lookup EXCEPT ![u] = NoLookup]
  BY DEF StartUpload, LookUp, Answering, InsertChunk, OnlyErrors, CommitUpload, UploadFails, dirVars
<1>3. ASSUME Between(w), Sealed(w) PROVE Sealed(w)'
  <2>1. CASE cache' = cache /\ lookup' = lookup
    BY <1>3, <2>1, SealedIf
  <2> QED
    BY <1>2, <1>3, <2>1, LookupsStaySealed DEF AnswersInv
<1> QED
  BY <1>1, <1>3, AnnouncedStays DEF AnswersInv

LEMMA HandlerStepKeeps ==
  ASSUME AnswersInv, NEW w \in Workers, Request(w) \/ RequestStep(w) \/ Commit(w)
  PROVE  KnownInv' /\ UploadsInv' /\ \A v \in Workers : Announced(v)'
<1>0. RowsInv /\ KnownInv /\ UploadsInv /\ StampInv /\ ClockInv /\ Announced(w)
  BY DEF AnswersInv, KnownInv
<1>1. upload' = upload
  BY RequestAsks DEF RequestStep, Commit
<1>2. CASE Commit(w)
  <2>1. KnownInv'
    BY <1>0, <1>2, CommitKeepsKnown
  <2>2. \A u \in Uploaders : /\ Stage(u)' = Stage(u)
                             /\ Pending(u) => lookup'[u].wanted = lookup[u].wanted
                             /\ Stage(u) = "resolved" => lookup'[u] = lookup[u]
    BY <1>0, <1>2, CommitKeepsLookups
  <2>3. \A v \in Workers : Sealed(v) => Sealed(v)'
    BY <1>0, <1>2, CommitsStaySealed
  <2> QED
    BY <1>0, <1>1, <1>2, <2>1, <2>2, <2>3, AwaitsStill, OneHandler, HandlerAnnounces, AnnouncedStays
       DEF UploadsInv, AnswersInv, Busy
<1>3. CASE ForgetCache(w) /\ RequestStep(w)
  <2>0. UNCHANGED <<row, former, clock, events>>
    BY <1>3 DEF ForgetCache, RequestStep
  <2>1. /\ ClockInv' /\ CacheInv' /\ LookupInv' /\ OwnChangesSeen'
        /\ \A u \in Uploaders : /\ Stage(u)' = Stage(u)
                                /\ Pending(u) => lookup'[u].wanted = lookup[u].wanted
                                /\ Stage(u) = "resolved" => lookup'[u] = lookup[u]
    BY <1>0, <1>3, <2>0, ForgetCacheKeeps
  <2>2. StampInv'
    BY <1>0, <2>0, StampsStay DEF ClockInv
  <2>3. \A v \in Workers : Sealed(v) => Sealed(v)'
    BY <1>0, <1>3, ForgettingStaysSealed
  <2> QED
    BY <1>0, <1>1, <1>3, <2>1, <2>2, <2>3, AwaitsStill, OneHandler, HandlerAnnounces, AnnouncedStays
       DEF UploadsInv, AnswersInv, Busy, KnownInv
<1>4. CASE Request(w) \/ (RequestStep(w) /\ ~ForgetCache(w))
  <2>1. UNCHANGED <<row, former, clock, cache, lookup, events>>
    <3>1. CASE Request(w)
      BY <3>1, RequestAsks DEF Asked, Begins, Begin
    <3>2. CASE RequestStep(w) /\ ~ForgetCache(w)
      BY <3>2 DEF RequestStep, Execute, Reread, Write, Claim, Delete, Abandon, Rollback
    <3> QED
      BY <1>4, <3>1, <3>2
  <2>2. KnownInv'
    BY <1>0, <2>1, KnownStays
  <2>3. \A u \in Uploaders : Awaited(u)'
    BY <1>0, <1>1, <2>1, AwaitsStill DEF UploadsInv, Stage
  <2>4. \A v \in Workers : Sealed(v) => Sealed(v)'
    BY <2>1, SealedIf
  <2> QED
    BY <1>0, <1>1, <1>4, <2>2, <2>3, <2>4, OneHandler, HandlerAnnounces, AnnouncedStays
       DEF UploadsInv, AnswersInv, Busy
<1> QED
  BY <1>2, <1>3, <1>4

LEMMA AnswersStart ==
  ASSUME Init
  PROVE  AnswersInv
<1>1. /\ clock = 0 /\ former = {} /\ events = {}
      /\ DOMAIN cache = Processes /\ \A p \in Processes : DOMAIN cache[p] = {}
      /\ DOMAIN lookup = Uploaders /\ \A u \in Uploaders : lookup[u].step = "none"
      /\ DOMAIN upload = Uploaders /\ \A u \in Uploaders : upload[u] = NoUpload
      /\ \A w \in Workers : job[w].todo = <<>>
  BY DEF Init, DirectoryInit, RowsInit, None, NoLookup, Uploaders, Idle
<1>2. KnownInv
  BY <1>1 DEF KnownInv, ClockInv, CacheInv, LookupInv, StampInv, OwnChangesSeen, Stage, Pending
<1>3. UploadsInv
  BY <1>1 DEF UploadsInv, Awaited, Busy, NoUpload
<1> QED
  BY <1>1, <1>2, <1>3, RowsStart DEF AnswersInv, Announced

LEMMA AnswersStay ==
  ASSUME AnswersInv, [Next]_vars
  PROVE  AnswersInv'
<1>0. RowsInv'
  BY RowsStay DEF AnswersInv
<1>1. CASE \E u \in Uploaders :
              \/ StartUpload(u, shelf) \/ LookUp(u) \/ Answering(u) \/ InsertChunk(u) \/ OnlyErrors(u)
              \/ CommitUpload(u) \/ UploadFails(u)
  BY <1>0, <1>1, UploadStepKeeps, UploadStepStaysSealed DEF AnswersInv
<1>2. CASE \E w \in Workers : Request(w) \/ RequestStep(w) \/ Commit(w)
  BY <1>0, <1>2, HandlerStepKeeps DEF AnswersInv
<1>3. CASE Pass \/ UNCHANGED vars
  <2>1. UNCHANGED <<upload, lookup, cache, job, dirty>>
    BY <1>3 DEF Pass, Tick, vars, dirVars, rowVars
  <2>2. KnownInv'
    <3>1. CASE Pass
      BY <3>1, PassKeeps DEF AnswersInv
    <3>2. CASE UNCHANGED vars
      BY <3>2, KnownStays DEF AnswersInv, vars, dirVars
    <3> QED
      BY <1>3, <3>1, <3>2
  <2>3. UploadsInv'
    BY <2>1, AwaitsStill DEF AnswersInv, UploadsInv, Stage, Busy
  <2>4. \A w \in Workers : Announced(w)'
    BY <2>1, SealedIf, AnnouncedStays DEF AnswersInv
  <2> QED
    BY <1>0, <2>2, <2>3, <2>4 DEF AnswersInv
<1> QED
  BY <1>1, <1>2, <1>3 DEF Next

(* "Account links drive event stamping; don't serve stale answers": an answer *)
(* that has not expired is out of date only for what OwnChangesSeen excuses   *)
(* (directory_service.py, EmployeeResolver and _changed).                     *)
THEOREM OwnChangesAreSeen == Spec => []OwnChangesSeen
<1>1. Init => AnswersInv
  BY AnswersStart
<1>2. AnswersInv /\ [Next]_vars => AnswersInv'
  BY AnswersStay
<1>3. AnswersInv => OwnChangesSeen
  BY DEF AnswersInv, KnownInv
<1> QED
  BY <1>1, <1>2, <1>3, PTL DEF Spec

(* The employee on an event was right at some moment since Ttl before the     *)
(* oldest lookup its answers may come from (ingestion_service.py,             *)
(* stamp_employee over EmployeeResolver.resolve).                             *)
THEOREM StampsAreCurrent == Spec => []StampsCurrent
<1>1. Init => AnswersInv
  BY AnswersStart
<1>2. AnswersInv /\ [Next]_vars => AnswersInv'
  BY AnswersStay
<1>3. AnswersInv => StampsCurrent
  BY DEF AnswersInv, KnownInv, StampInv, RightStamp, StampsCurrent
<1> QED
  BY <1>1, <1>2, <1>3, PTL DEF Spec

-----------------------------------------------------------------------------
(* The books.                                                              *)

LEMMA RowsAreFinite ==
  ASSUME NEW f \in Files
  PROVE  /\ DOMAIN f.rows = 1..Len(f.rows) /\ Len(f.rows) \in Nat
         /\ IsFiniteSet(DOMAIN f.rows) /\ Cardinality(DOMAIN f.rows) = Len(f.rows)
<1>1. DOMAIN f.rows = 1..Len(f.rows) /\ Len(f.rows) \in Nat
  BY FilesAssumption
<1> DEFINE n == Len(f.rows)
<1>2. IsFiniteSet(1..n) /\ Cardinality(1..n) = n
  <2>1. n \in Nat
    BY <1>1
  <2> HIDE DEF n
  <2>2. n \in Int /\ 1 \in Int /\ (1 > n => n = 0)
    BY <2>1
  <2> QED
    BY <2>1, <2>2, FS_Interval
<1> QED
  BY <1>1, <1>2

(* Two sets of rows, of which none is in both, are as many as both together. *)
LEMMA Together ==
  ASSUME NEW D, IsFiniteSet(D), NEW S, S \subseteq D, NEW T, T \subseteq D, S \cap T = {}
  PROVE  /\ Cardinality(S \cup T) = Cardinality(S) + Cardinality(T)
         /\ Cardinality(S) \in Nat /\ Cardinality(T) \in Nat
<1>1. IsFiniteSet(S) /\ IsFiniteSet(T)
  BY FS_Subset
<1>2. Cardinality(S \cup T) = Cardinality(S) + Cardinality(T) - Cardinality(S \cap T)
  BY <1>1, FS_Union
<1>3. Cardinality(S \cap T) = 0 /\ Cardinality(S) \in Nat /\ Cardinality(T) \in Nat
  BY <1>1, FS_EmptySet, FS_CardinalityType
<1> QED
  BY <1>2, <1>3

(* The next chunk: its rows come after those read. *)
LEMMA ChunkIs ==
  ASSUME NEW u \in Uploaders, Tally(u)
  PROVE  LET up == upload[u]
             next == [up EXCEPT !.read = up.read + ChunkSize]
             all == DOMAIN up.file.rows IN
         /\ up.read + ChunkSize \in Nat /\ IsFiniteSet(all)
         /\ ReadRows(up) \subseteq all /\ BadRows(up) \subseteq ReadRows(up)
         /\ Chunk(u) \subseteq all /\ Chunk(u) = Good(u) \cup Bad(u) /\ Good(u) \cap Bad(u) = {}
         /\ ReadRows(up) \cap Chunk(u) = {}
         /\ {n \in all : n <= up.read + ChunkSize} = ReadRows(up) \cup Chunk(u)
         /\ \A n \in Chunk(u) : n \in Bad(u) <=> ParseRow(up.parser, up.file.rows[n]) = Malformed
<1> DEFINE all == DOMAIN upload[u].file.rows
           read == upload[u].read
<1>1. /\ upload[u].file \in Files /\ read \in Nat /\ ChunkSize \in Nat
  BY ChunkAssumption DEF Tally
<1>2. IsFiniteSet(all) /\ all \subseteq Nat
  BY <1>1, RowsAreFinite
<1>3. /\ ReadRows(upload[u]) = {n \in all : n <= read}
      /\ Chunk(u) = {n \in all : n > read /\ n <= read + ChunkSize}
      /\ BadRows(upload[u]) \subseteq ReadRows(upload[u])
  BY DEF ReadRows, Chunk, BadRows
<1>4. /\ Good(u) = {n \in Chunk(u) : ParseRow(upload[u].parser, upload[u].file.rows[n]) # Malformed}
      /\ Bad(u) = Chunk(u) \ Good(u)
  BY DEF Good, Bad, Parsed
<1> HIDE DEF all, read
<1>8. \A n \in all : /\ n <= read + ChunkSize <=> n <= read \/ (n > read /\ n <= read + ChunkSize)
                     /\ ~(n <= read /\ n > read)
  <2>1. read \in Nat /\ ChunkSize \in Nat /\ \A n \in all : n \in Nat
    BY <1>1, <1>2
  <2> QED
    BY <2>1
<1>5. {n \in all : n <= read + ChunkSize} = ReadRows(upload[u]) \cup Chunk(u)
  BY <1>3, <1>8
<1>6. ReadRows(upload[u]) \cap Chunk(u) = {}
  BY <1>3, <1>8
<1>7. read + ChunkSize \in Nat
  BY <1>1
<1> QED
  BY <1>2, <1>3, <1>4, <1>5, <1>6, <1>7 DEF all, read

(* JobsReconcile, of one job and of one event. *)
Agrees(j) ==
    LET rec == jobs[j] IN
    /\ StoredRows(j) \cap rec.errors = {}
    /\ StoredRows(j) \cup rec.errors = DOMAIN rec.file.rows
    /\ rec.job.processed = Len(rec.file.rows)
    /\ rec.job.stored = Cardinality(StoredRows(j))
    /\ rec.job.failed = Cardinality(rec.errors)
    /\ rec.job.status = IF rec.errors = {} THEN "COMPLETED" ELSE "PARTIAL"

Owed(e) ==
    \/ e.job \in DOMAIN jobs \cup aborted
    \/ \E u \in Uploaders : Busy(u) /\ upload[u].id = e.job

LEMMA JobsReconcileIs ==
  JobsReconcile <=> (\A j \in DOMAIN jobs : Agrees(j)) /\ (\A e \in events : Owed(e))
BY DEF JobsReconcile, Agrees, Owed, Busy

(* A step of the upload of u touches only the events, the job and the books *)
(* of its own number.                                                       *)
LEMMA OneUpload ==
  ASSUME BooksInv, NEW u \in Uploaders, NEW id,
         id \in 1..started', id \notin DOMAIN jobs,
         \A v \in Uploaders \ {u} : upload'[v] = upload[v] /\ (Busy(v) => upload[v].id # id),
         Busy(u) => upload[u].id = id,
         shelf' = shelf, started' \in Nat, started' >= started,
         events \subseteq events', \A e \in events' : e \in events \/ e.job = id,
         aborted \subseteq aborted', aborted' \subseteq aborted \cup {id},
         DOMAIN jobs \subseteq DOMAIN jobs', DOMAIN jobs' \subseteq DOMAIN jobs \cup {id},
         \A j \in DOMAIN jobs : jobs'[j] = jobs[j],
         aborted' \cap DOMAIN jobs' = {},
         Busy(u)' => upload'[u].id = id /\ Tally(u)',
         Busy(u)' \/ id \in DOMAIN jobs' \cup aborted',
         id \in DOMAIN jobs' => Agrees(id)'
  PROVE  BooksInv'
<1>0. /\ started \in Nat /\ aborted \subseteq 1..started /\ DOMAIN jobs \subseteq 1..started
      /\ \A e \in events : e.job \in 1..started
      /\ \A v \in Uploaders : Busy(v) => Tally(v)
      /\ \A v, w \in Uploaders : v # w /\ Busy(v) /\ Busy(w) => upload[v].id # upload[w].id
  BY DEF BooksInv
<1>1. 1..started \subseteq 1..started'
  BY <1>0
<1>2. ASSUME NEW j, j # id PROVE StoredRows(j)' = StoredRows(j)
  <2>1. {e \in events' : e.job = j} = {e \in events : e.job = j}
    BY <1>2
  <2> QED
    BY <2>1 DEF StoredRows
<1>3. ASSUME NEW v \in Uploaders \ {u}, Busy(v)' PROVE Tally(v)' /\ Busy(v) /\ upload'[v].id # id
  <2>1. upload'[v] = upload[v] /\ Busy(v) /\ Tally(v) /\ upload[v].id # id
    BY <1>0, <1>3 DEF Busy
  <2>2. StoredRows(upload[v].id)' = StoredRows(upload[v].id)
    <3> DEFINE j == upload[v].id
    <3>1. {e \in events' : e.job = j} = {e \in events : e.job = j}
      BY <2>1
    <3> QED
      BY <2>1, <3>1 DEF StoredRows
  <2>3. upload[v].id \in 1..started' /\ upload[v].id \notin aborted' /\ upload[v].id \notin DOMAIN jobs'
    BY <1>1, <2>1 DEF Tally
  <2> QED
    BY <2>1, <2>2, <2>3 DEF Tally
<1>4. ASSUME NEW j \in DOMAIN jobs' PROVE Agrees(j)'
  <2>1. CASE j # id
    <3>1. j \in DOMAIN jobs /\ jobs'[j] = jobs[j] /\ Agrees(j)
      BY <1>4, <2>1, JobsReconcileIs DEF BooksInv
    <3> QED
      BY <1>2, <2>1, <3>1 DEF Agrees
  <2> QED
    BY <1>4, <2>1
<1>5. ASSUME NEW e \in events' PROVE Owed(e)' /\ e.job \in 1..started'
  <2>1. CASE e.job = id
    BY <2>1 DEF Owed
  <2>2. CASE e.job # id
    <3>1. e \in events /\ Owed(e) /\ e.job \in 1..started
      BY <1>0, <1>5, <2>2, JobsReconcileIs DEF BooksInv
    <3>2. \A v \in Uploaders : Busy(v) /\ upload[v].id = e.job => Busy(v)' /\ upload'[v].id = e.job
      BY <2>2 DEF Busy
    <3> QED
      BY <1>1, <3>1, <3>2 DEF Owed
  <2> QED
    BY <2>1, <2>2
<1>6. ASSUME NEW v \in Uploaders, NEW w \in Uploaders, v # w, Busy(v)', Busy(w)'
      PROVE  upload'[v].id # upload'[w].id
  BY <1>0, <1>3, <1>6 DEF Busy
<1>7. /\ started' \in Nat /\ shelf' \in Files
      /\ aborted' \subseteq 1..started' /\ DOMAIN jobs' \subseteq 1..started'
  BY <1>0, <1>1 DEF BooksInv
<1>8. JobsReconcile'
  <2>1. (\A j \in DOMAIN jobs' : Agrees(j)') /\ (\A e \in events' : Owed(e)')
    BY <1>4, <1>5
  <2> QED
    BY <2>1 DEF JobsReconcile, Agrees, Owed, Busy
<1>9. \A v \in Uploaders : Busy(v)' => Tally(v)'
  BY <1>3
<1> QED
  BY <1>5, <1>6, <1>7, <1>8, <1>9 DEF BooksInv

LEMMA StartKeepsBooks ==
  ASSUME UploadsInv, BooksInv, NEW u \in Uploaders, StartUpload(u, shelf)
  PROVE  BooksInv'
<1> PICK id : id = started + 1
  OBVIOUS
<1>0. started \in Nat /\ started' = started + 1 /\ id \in 1..started' /\ id \notin 1..started /\ shelf \in Files
  BY DEF BooksInv, StartUpload
<1>1. /\ \A v \in Uploaders \ {u} : upload'[v] = upload[v]
      /\ ~Busy(u) /\ UNCHANGED <<shelf, jobs, events, aborted>>
      /\ upload'[u] = [step |-> "chunk", id |-> id, file |-> shelf, parser |-> Detected(shelf.columns), read |-> 0,
           job |-> [status |-> "RUNNING", total |-> shelf.lines, processed |-> 0, failed |-> 0, stored |-> 0],
           buffer |-> {}, errors |-> {}]
  BY DEF StartUpload, UploadsInv, Busy, dirVars
<1>2. /\ \A e \in events : e.job # id
      /\ id \notin DOMAIN jobs /\ id \notin aborted
      /\ \A v \in Uploaders : Busy(v) => upload[v].id # id
  BY <1>0 DEF BooksInv, Tally
<1> DEFINE next == upload'[u]
<1>3. /\ next.step = "chunk" /\ next.id = id /\ next.file = shelf /\ next.read = 0
      /\ next.buffer = {} /\ next.errors = {}
      /\ next.job = [status |-> "RUNNING", total |-> shelf.lines, processed |-> 0, failed |-> 0, stored |-> 0]
  BY <1>1
<1>4. ReadRows(next) = {} /\ BadRows(next) = {}
  <2>1. DOMAIN shelf.rows = 1..Len(shelf.rows) /\ Len(shelf.rows) \in Nat
    BY <1>0, RowsAreFinite
  <2>2. \A n \in DOMAIN shelf.rows : ~(n <= 0)
    BY <2>1
  <2> HIDE DEF next
  <2>3. ReadRows(next) = {}
    BY <1>3, <2>2 DEF ReadRows
  <2> QED
    BY <2>3 DEF BadRows
<1>5. StoredRows(id)' = {}
  <2>1. {e \in events' : e.job = id} = {}
    BY <1>1, <1>2
  <2> QED
    BY <2>1 DEF StoredRows
<1>6. Tally(u)'
  <2>1. /\ DOMAIN next.job = {"status", "total", "processed", "failed", "stored"}
        /\ next.job.processed = 0 /\ next.job.failed = 0 /\ next.job.stored = 0
    BY <1>3
  <2>2. next.step # "commit" /\ Cardinality({}) = 0 /\ next.errors \cup next.buffer = {} /\ {} \ {} = {}
    BY <1>3, FS_EmptySet
  <2>3. /\ shelf \in Files /\ id \in 1..started' /\ id \notin aborted' /\ id \notin DOMAIN jobs'
        /\ next.read \in Nat
    BY <1>0, <1>1, <1>2, <1>3
  <2> HIDE DEF next
  <2>4. /\ next.step \in {"chunk", "insert", "commit"}
        /\ next.file \in Files /\ next.id \in 1..started' /\ next.id \notin aborted' /\ next.id \notin DOMAIN jobs'
        /\ next.errors \cup next.buffer = BadRows(next)
        /\ StoredRows(id)' = ReadRows(next) \ BadRows(next)
        /\ next.job.processed = Cardinality(ReadRows(next))
        /\ next.job.failed = Cardinality(BadRows(next))
        /\ next.job.stored = Cardinality(ReadRows(next) \ BadRows(next))
    BY <1>3, <1>4, <1>5, <2>1, <2>2, <2>3
  <2>5. StoredRows(upload[u].id)' = StoredRows(id)'
    BY <1>3 DEF StoredRows, next
  <2> QED
    BY <2>1, <2>2, <2>3, <2>4, <2>5 DEF Tally, next
<1>7. Busy(u)'
  BY <1>3 DEF Busy, NoUpload
<1>8. aborted' \cap DOMAIN jobs' = {}
  BY <1>1 DEF BooksInv
<1> QED
  BY <1>0, <1>1, <1>2, <1>3, <1>6, <1>7, <1>8, OneUpload

Counters == {"status", "total", "processed", "failed", "stored"}

LEMMA AfterChunkCounts ==
  ASSUME NEW u \in Uploaders, DOMAIN upload[u] = UploadFields, DOMAIN upload[u].job = Counters, NEW stored
  PROVE  LET up == upload[u]
             next == AfterChunk(u, stored)
             last == up.read + ChunkSize >= Len(up.file.rows) IN
         /\ next.id = up.id /\ next.file = up.file /\ next.parser = up.parser
         /\ next.read = up.read + ChunkSize
         /\ next.errors \cup next.buffer = up.errors \cup up.buffer \cup Bad(u)
         /\ DOMAIN next.job = Counters
         /\ next.job.processed = up.job.processed + Cardinality(Chunk(u))
         /\ next.job.stored = up.job.stored + stored
         /\ next.job.failed = up.job.failed + Cardinality(Bad(u))
         /\ next.step = IF last THEN "commit" ELSE "chunk"
         /\ last => /\ next.buffer = {}
                    /\ next.job.status = IF next.job.failed > 0 THEN "PARTIAL" ELSE "COMPLETED"
<1> DEFINE up == upload[u]
           next == AfterChunk(u, stored)
           last == up.read + ChunkSize >= Len(up.file.rows)
           full == up.buffer \cup Bad(u)
           counted == [up.job EXCEPT !.processed = @ + Cardinality(Chunk(u)), !.stored = @ + stored,
                                     !.failed = @ + Cardinality(Bad(u))]
           job2 == IF last THEN Completed(counted) ELSE counted
           buffer2 == IF Flushed(full, last) THEN {} ELSE full
           errors2 == IF Flushed(full, last) THEN up.errors \cup full ELSE up.errors
<1>1. /\ DOMAIN counted = Counters
      /\ counted.processed = up.job.processed + Cardinality(Chunk(u))
      /\ counted.stored = up.job.stored + stored
      /\ counted.failed = up.job.failed + Cardinality(Bad(u))
  BY DEF Counters
<1> HIDE DEF counted
<1>2. /\ DOMAIN job2 = Counters
      /\ job2.processed = counted.processed /\ job2.stored = counted.stored /\ job2.failed = counted.failed
      /\ last => job2.status = IF job2.failed > 0 THEN "PARTIAL" ELSE "COMPLETED"
  <2>1. CASE last
    <3>1. job2 = [counted EXCEPT !.status = IF counted.failed > 0 THEN "PARTIAL" ELSE "COMPLETED"]
      BY <2>1 DEF Completed
    <3> HIDE DEF job2
    <3> QED
      BY <1>1, <3>1 DEF Counters
  <2>2. CASE ~last
    BY <1>1, <2>2
  <2> QED
    BY <2>1, <2>2
<1>3. errors2 \cup buffer2 = up.errors \cup up.buffer \cup Bad(u)
  OBVIOUS
<1>4. last => buffer2 = {}
  BY DEF Flushed
<1>5. next = [up EXCEPT !.step = IF last THEN "commit" ELSE "chunk", !.read = up.read + ChunkSize,
                        !.buffer = buffer2, !.errors = errors2, !.job = job2]
  BY DEF AfterChunk, UploadFields, counted
<1> HIDE DEF job2, buffer2, errors2
<1>6. /\ next.id = up.id /\ next.file = up.file /\ next.parser = up.parser
      /\ next.read = up.read + ChunkSize
      /\ next.buffer = buffer2 /\ next.errors = errors2 /\ next.job = job2
      /\ next.step = IF last THEN "commit" ELSE "chunk"
  <2> HIDE DEF next, last
  <2> QED
    BY <1>5 DEF UploadFields
<1> HIDE DEF next
<1> QED
  BY <1>1, <1>2, <1>3, <1>4, <1>6 DEF next

(* After InsertChunk, and after a chunk without events. *)
LEMMA ChunkKeepsBooks ==
  ASSUME UploadsInv, BooksInv, NEW u \in Uploaders, Busy(u),
         upload' = [upload EXCEPT ![u] = AfterChunk(u, Cardinality(Good(u)))],
         events' = events \cup {Doc(u, n) : n \in Good(u)},
         UNCHANGED <<shelf, jobs, started, aborted>>
  PROVE  BooksInv'
<1> DEFINE up == upload[u]
           next == AfterChunk(u, Cardinality(Good(u)))
           all == DOMAIN up.file.rows
<1> PICK id : id = up.id
  OBVIOUS
<1>0. Tally(u) /\ DOMAIN upload = Uploaders /\ DOMAIN up = UploadFields
  BY DEF UploadsInv, BooksInv
<1>1. /\ up.file \in Files /\ id \in 1..started /\ id \notin aborted /\ id \notin DOMAIN jobs
      /\ DOMAIN up.job = Counters /\ up.errors \cup up.buffer = BadRows(up)
      /\ StoredRows(id) = ReadRows(up) \ BadRows(up)
      /\ up.job.processed = Cardinality(ReadRows(up)) /\ up.job.failed = Cardinality(BadRows(up))
      /\ up.job.stored = Cardinality(ReadRows(up) \ BadRows(up))
  BY <1>0 DEF Tally, Counters
<1>2. /\ next.id = id /\ next.file = up.file /\ next.parser = up.parser
      /\ next.read = up.read + ChunkSize
      /\ next.errors \cup next.buffer = up.errors \cup up.buffer \cup Bad(u)
      /\ DOMAIN next.job = Counters
      /\ next.job.processed = up.job.processed + Cardinality(Chunk(u))
      /\ next.job.stored = up.job.stored + Cardinality(Good(u))
      /\ next.job.failed = up.job.failed + Cardinality(Bad(u))
      /\ next.step = IF next.read >= Len(up.file.rows) THEN "commit" ELSE "chunk"
      /\ next.step = "commit" => /\ next.buffer = {}
                                 /\ next.job.status = IF next.job.failed > 0 THEN "PARTIAL" ELSE "COMPLETED"
  BY <1>0, <1>1, AfterChunkCounts
<1>3. /\ up.read + ChunkSize \in Nat /\ IsFiniteSet(all)
      /\ ReadRows(up) \subseteq all /\ BadRows(up) \subseteq ReadRows(up)
      /\ Chunk(u) \subseteq all /\ Chunk(u) = Good(u) \cup Bad(u) /\ Good(u) \cap Bad(u) = {}
      /\ ReadRows(up) \cap Chunk(u) = {}
      /\ {n \in all : n <= up.read + ChunkSize} = ReadRows(up) \cup Chunk(u)
      /\ \A n \in Chunk(u) : n \in Bad(u) <=> ParseRow(up.parser, up.file.rows[n]) = Malformed
  BY <1>0, ChunkIs
<1>4. upload'[u] = next /\ \A v \in Uploaders \ {u} : upload'[v] = upload[v]
  BY <1>0
<1> HIDE DEF next
<1>5. ReadRows(next) = ReadRows(up) \cup Chunk(u)
  BY <1>2, <1>3 DEF ReadRows
<1>6. BadRows(next) = BadRows(up) \cup Bad(u)
  <2>1. BadRows(next) = {n \in ReadRows(up) \cup Chunk(u) : ParseRow(up.parser, up.file.rows[n]) = Malformed}
    BY <1>2, <1>5 DEF BadRows
  <2>2. BadRows(up) = {n \in ReadRows(up) : ParseRow(up.parser, up.file.rows[n]) = Malformed}
    BY DEF BadRows
  <2>3. Bad(u) = {n \in Chunk(u) : ParseRow(up.parser, up.file.rows[n]) = Malformed}
    BY <1>3
  <2> HIDE DEF up
  <2> QED
    BY <2>1, <2>2, <2>3
<1>7. ReadRows(next) \ BadRows(next) = (ReadRows(up) \ BadRows(up)) \cup Good(u)
  BY <1>3, <1>5, <1>6
<1>8. StoredRows(id)' = ReadRows(next) \ BadRows(next)
  <2>1. \A n \in Good(u) : Doc(u, n).job = id /\ Doc(u, n).row = n
    BY DEF Doc
  <2>2. {e \in events' : e.job = id} = {e \in events : e.job = id} \cup {Doc(u, n) : n \in Good(u)}
    BY <2>1
  <2>3. {e.row : e \in {Doc(u, n) : n \in Good(u)}} = Good(u)
    BY <2>1
  <2>4. StoredRows(id)' = StoredRows(id) \cup Good(u)
    BY <2>2, <2>3 DEF StoredRows
  <2> QED
    BY <1>1, <1>7, <2>4
<1>9. /\ next.job.processed = Cardinality(ReadRows(next))
      /\ next.job.failed = Cardinality(BadRows(next))
      /\ next.job.stored = Cardinality(ReadRows(next) \ BadRows(next))
  <2>0. /\ IsFiniteSet(all)
        /\ ReadRows(up) \subseteq all /\ Chunk(u) \subseteq all /\ ReadRows(up) \cap Chunk(u) = {}
        /\ BadRows(up) \subseteq all /\ Bad(u) \subseteq all /\ BadRows(up) \cap Bad(u) = {}
    BY <1>3
  <2> HIDE DEF up, all
  <2>1. Cardinality(ReadRows(up) \cup Chunk(u)) = Cardinality(ReadRows(up)) + Cardinality(Chunk(u))
    BY <2>0, Together
  <2>2. Cardinality(BadRows(up) \cup Bad(u)) = Cardinality(BadRows(up)) + Cardinality(Bad(u))
    BY <2>0, Together
  <2>3. Cardinality((ReadRows(up) \ BadRows(up)) \cup Good(u)) = Cardinality(ReadRows(up) \ BadRows(up)) + Cardinality(Good(u))
    <3> DEFINE S == ReadRows(up) \ BadRows(up)
    <3>1. S \subseteq all /\ Good(u) \subseteq all /\ S \cap Good(u) = {}
      BY <1>3
    <3> HIDE DEF S
    <3>2. Cardinality(S \cup Good(u)) = Cardinality(S) + Cardinality(Good(u))
      BY <2>0, <3>1, Together
    <3> QED
      BY <3>2 DEF S
  <2> QED
    BY <1>1, <1>2, <1>5, <1>6, <1>7, <2>1, <2>2, <2>3
<1>10. next.step = "commit" => ReadRows(next) = DOMAIN next.file.rows
  <2>1. /\ DOMAIN up.file.rows = 1..Len(up.file.rows) /\ Len(up.file.rows) \in Nat
    BY <1>1, RowsAreFinite
  <2>2. ASSUME next.step = "commit" PROVE \A n \in all : n <= next.read
    <3>1. next.read >= Len(up.file.rows) /\ next.read \in Nat
      BY <1>2, <1>3, <2>2
    <3> QED
      BY <2>1, <3>1
  <2> QED
    BY <1>2, <2>2 DEF ReadRows
<1>11. Tally(u)'
  <2>1. /\ next.step \in {"chunk", "insert", "commit"} /\ next.file \in Files /\ next.read \in Nat
        /\ next.errors \cup next.buffer = BadRows(next)
    BY <1>1, <1>2, <1>3, <1>6
  <2>2. upload'[u].id = id /\ StoredRows(upload[u].id)' = StoredRows(id)'
    <3>1. upload'[u].id = id
      BY <1>2, <1>4
    <3> QED
      BY <3>1 DEF StoredRows
  <2>3. /\ next.id \in 1..started' /\ next.id \notin aborted' /\ next.id \notin DOMAIN jobs'
        /\ DOMAIN next.job = Counters
        /\ StoredRows(upload[u].id)' = ReadRows(next) \ BadRows(next)
        /\ next.step = "commit" =>
              /\ next.buffer = {} /\ ReadRows(next) = DOMAIN next.file.rows
              /\ next.job.status = IF next.job.failed > 0 THEN "PARTIAL" ELSE "COMPLETED"
    BY <1>1, <1>2, <1>8, <1>10, <2>2
  <2>4. upload'[u] = next
    BY <1>4
  <2> HIDE DEF up
  <2> QED
    BY <1>9, <2>1, <2>3, <2>4 DEF Tally, Counters
<1>12. Busy(u)'
  <2>1. next.step # "none"
    BY <1>2
  <2> QED
    BY <1>4, <2>1 DEF Busy, NoUpload
<1>13. \A e \in events' : e \in events \/ e.job = id
  <2>1. \A n \in Good(u) : Doc(u, n).job = id
    BY DEF Doc
  <2>2. events' = events \cup {Doc(u, n) : n \in Good(u)}
    OBVIOUS
  <2> HIDE DEF up
  <2> QED
    BY <2>1, <2>2
<1>14. \A v \in Uploaders \ {u} : Busy(v) => upload[v].id # id
  BY DEF BooksInv
<1>15. started \in Nat /\ aborted' \cap DOMAIN jobs' = {}
  BY DEF BooksInv
<1> QED
  BY <1>1, <1>2, <1>4, <1>11, <1>12, <1>13, <1>14, <1>15, OneUpload

LEMMA LookUpKeepsBooks ==
  ASSUME UploadsInv, BooksInv, NEW u \in Uploaders, LookUp(u)
  PROVE  BooksInv'
<1> DEFINE up == upload[u]
<1>0. up.step = "chunk" /\ upload' = [upload EXCEPT ![u].step = "insert"]
  BY DEF LookUp
<1> PICK id : id = up.id
  OBVIOUS
<1>1. Busy(u) /\ Tally(u) /\ DOMAIN upload = Uploaders /\ DOMAIN up = UploadFields
  BY <1>0, BusyWith DEF UploadsInv, BooksInv
<1>2. /\ UNCHANGED <<shelf, jobs, events, started, aborted>>
      /\ \A v \in Uploaders \ {u} : upload'[v] = upload[v]
      /\ upload'[u] = [up EXCEPT !.step = "insert"]
  BY <1>0, <1>1 DEF LookUp
<1> DEFINE next == upload'[u]
<1>3. /\ next.step = "insert" /\ next.id = up.id /\ next.file = up.file /\ next.parser = up.parser
      /\ next.read = up.read /\ next.job = up.job /\ next.buffer = up.buffer /\ next.errors = up.errors
  BY <1>1, <1>2 DEF UploadFields
<1>4. ReadRows(next) = ReadRows(up) /\ BadRows(next) = BadRows(up)
  BY <1>3 DEF ReadRows, BadRows
<1>5. StoredRows(upload[u].id)' = StoredRows(up.id)
  BY <1>2, <1>3 DEF StoredRows
<1>6. Tally(u)'
  BY <1>1, <1>2, <1>3, <1>4, <1>5 DEF Tally
<1>7. Busy(u)'
  BY <1>3 DEF Busy, NoUpload
<1>8. /\ \A v \in Uploaders \ {u} : Busy(v) => upload[v].id # id
      /\ started \in Nat /\ aborted \cap DOMAIN jobs = {}
  BY <1>1 DEF BooksInv
<1>9. id \in 1..started /\ id \notin DOMAIN jobs
  BY <1>1 DEF Tally
<1>10. upload[u].id = id /\ upload'[u].id = id
  BY <1>3
<1>11. /\ id \in 1..started' /\ shelf' = shelf /\ started' = started /\ events' = events
       /\ aborted' = aborted /\ jobs' = jobs /\ started' \in Nat /\ started' >= started
  BY <1>2, <1>8, <1>9
<1> HIDE DEF up, next
<1> QED
  BY <1>2, <1>6, <1>7, <1>8, <1>9, <1>10, <1>11, OneUpload

(* The last chunk is in: all rows are read, and the errors are saved. *)
LEMMA CommitKeepsBooks ==
  ASSUME UploadsInv, BooksInv, NEW u \in Uploaders, CommitUpload(u)
  PROVE  BooksInv'
<1> DEFINE up == upload[u]
<1>0. up.step = "commit" /\ upload' = [upload EXCEPT ![u] = NoUpload]
  BY DEF CommitUpload
<1> PICK id : id = up.id
  OBVIOUS
<1>1. Busy(u) /\ Tally(u) /\ DOMAIN upload = Uploaders
  BY <1>0, BusyWith DEF UploadsInv, BooksInv
<1>2. /\ UNCHANGED <<shelf, events, started, aborted>>
      /\ \A v \in Uploaders \ {u} : upload'[v] = upload[v]
      /\ upload'[u] = NoUpload
      /\ DOMAIN jobs' = DOMAIN jobs \cup {id}
      /\ \A j \in DOMAIN jobs : j # id => jobs'[j] = jobs[j]
      /\ jobs'[id] = [file |-> up.file, job |-> up.job, errors |-> up.errors]
  BY <1>0, <1>1 DEF CommitUpload
<1>3. /\ id \in 1..started /\ id \notin DOMAIN jobs /\ id \notin aborted /\ up.file \in Files
      /\ up.errors = BadRows(up)
      /\ StoredRows(id) = ReadRows(up) \ BadRows(up) /\ ReadRows(up) = DOMAIN up.file.rows
      /\ up.job.processed = Cardinality(ReadRows(up)) /\ up.job.failed = Cardinality(BadRows(up))
      /\ up.job.stored = Cardinality(ReadRows(up) \ BadRows(up))
      /\ up.job.status = IF up.job.failed > 0 THEN "PARTIAL" ELSE "COMPLETED"
  BY <1>0, <1>1 DEF Tally
<1>4. /\ IsFiniteSet(DOMAIN up.file.rows) /\ Cardinality(DOMAIN up.file.rows) = Len(up.file.rows)
  BY <1>3, RowsAreFinite
<1>5. BadRows(up) \subseteq ReadRows(up)
  BY DEF BadRows
<1>6. up.job.failed > 0 <=> up.errors # {}
  <2>1. IsFiniteSet(BadRows(up))
    BY <1>3, <1>4, <1>5, FS_Subset
  <2>2. Cardinality(BadRows(up)) \in Nat /\ (Cardinality(BadRows(up)) = 0 <=> BadRows(up) = {})
    BY <2>1, FS_EmptySet, FS_CardinalityType
  <2>3. up.job.failed \in Nat /\ (up.job.failed = 0 <=> up.errors = {})
    BY <1>3, <2>2
  <2> QED
    BY <2>3
<1>7. /\ jobs'[id].file = up.file /\ jobs'[id].job = up.job /\ jobs'[id].errors = up.errors
      /\ StoredRows(id)' = StoredRows(id)
  BY <1>2 DEF StoredRows
<1>8. Agrees(id)'
  BY <1>3, <1>4, <1>5, <1>6, <1>7 DEF Agrees
<1>9. ~Busy(u)'
  BY <1>2 DEF Busy
<1>10. /\ \A v \in Uploaders \ {u} : Busy(v) => upload[v].id # id
       /\ started \in Nat /\ aborted \cap DOMAIN jobs = {}
  BY <1>1 DEF BooksInv
<1> QED
  BY <1>2, <1>3, <1>8, <1>9, <1>10, OneUpload

(* The request fails: its job is nowhere, and its events are an aborted job's. *)
LEMMA FailureKeepsBooks ==
  ASSUME UploadsInv, BooksInv, NEW u \in Uploaders, UploadFails(u)
  PROVE  BooksInv'
<1> PICK id : id = upload[u].id
  OBVIOUS
<1>1. Busy(u) /\ Tally(u) /\ DOMAIN upload = Uploaders
  BY DEF UploadFails, Busy, UploadsInv, BooksInv
<1>2. /\ UNCHANGED <<shelf, jobs, started>> /\ aborted' = aborted \cup {id}
      /\ \A v \in Uploaders \ {u} : upload'[v] = upload[v]
      /\ upload'[u] = NoUpload
  BY <1>1 DEF UploadFails
<1>3. events \subseteq events' /\ \A e \in events' : e \in events \/ e.job = id
  <2>1. PICK kept : events' = events \cup {Doc(u, n) : n \in kept}
    BY DEF UploadFails
  <2> QED
    BY <2>1 DEF Doc
<1>4. id \in 1..started /\ id \notin DOMAIN jobs
  BY <1>1 DEF Tally
<1>5. ~Busy(u)'
  BY <1>2 DEF Busy
<1>6. /\ \A v \in Uploaders \ {u} : Busy(v) => upload[v].id # id
      /\ started \in Nat /\ aborted' \cap DOMAIN jobs' = {}
  BY <1>1, <1>2, <1>4 DEF BooksInv
<1> QED
  BY <1>1, <1>2, <1>3, <1>4, <1>5, <1>6, OneUpload

LEMMA BooksStart ==
  ASSUME Init
  PROVE  BooksInv
<1>1. /\ started = 0 /\ aborted = {} /\ DOMAIN jobs = {} /\ events = {} /\ shelf \in Files
      /\ \A u \in Uploaders : ~Busy(u)
  BY DEF Init, Busy, None
<1> QED
  BY <1>1 DEF BooksInv, JobsReconcile

LEMMA BooksStay ==
  ASSUME AnswersInv, BooksInv, [Next]_vars
  PROVE  BooksInv'
<1>0. UploadsInv
  BY DEF AnswersInv
<1>1. ASSUME NEW u \in Uploaders,
             \/ StartUpload(u, shelf) \/ LookUp(u) \/ CommitUpload(u) \/ UploadFails(u)
      PROVE  BooksInv'
  BY <1>0, <1>1, StartKeepsBooks, LookUpKeepsBooks, CommitKeepsBooks, FailureKeepsBooks
<1>2. ASSUME NEW u \in Uploaders, InsertChunk(u) PROVE BooksInv'
  <2>1. upload[u].step = "insert"
    BY <1>2 DEF InsertChunk
  <2> QED
    BY <1>0, <1>2, <2>1, BusyWith, ChunkKeepsBooks DEF InsertChunk
<1>3. ASSUME NEW u \in Uploaders, OnlyErrors(u) PROVE BooksInv'
  <2>1. upload[u].step = "chunk" /\ Good(u) = {}
    BY <1>3 DEF OnlyErrors
  <2>2. Cardinality(Good(u)) = 0 /\ {Doc(u, n) : n \in Good(u)} = {}
    BY <2>1, FS_EmptySet
  <2>3. /\ upload' = [upload EXCEPT ![u] = AfterChunk(u, Cardinality(Good(u)))]
        /\ events' = events \cup {Doc(u, n) : n \in Good(u)}
    BY <1>3, <2>2 DEF OnlyErrors
  <2> QED
    BY <1>0, <1>3, <2>1, <2>3, BusyWith, ChunkKeepsBooks DEF OnlyErrors
<1>4. CASE UNCHANGED <<shelf, upload, jobs, events, started, aborted>>
  <2>1. \A u \in Uploaders : (Busy(u)' <=> Busy(u)) /\ (Tally(u) => Tally(u)')
    BY <1>4 DEF Busy, Tally, StoredRows
  <2>2. JobsReconcile'
    BY <1>4 DEF BooksInv, JobsReconcile, StoredRows
  <2> QED
    BY <1>4, <2>1, <2>2 DEF BooksInv
<1>5. ASSUME \/ \E u \in Uploaders : Answering(u)
             \/ \E w \in Workers : Request(w) \/ RequestStep(w) \/ Commit(w)
             \/ Pass \/ UNCHANGED vars
      PROVE  UNCHANGED <<shelf, upload, jobs, events, started, aborted>>
  BY <1>5, RequestAsks DEF Answering, RequestStep, Commit, Pass, vars
<1> QED
  BY <1>1, <1>2, <1>3, <1>4, <1>5 DEF Next

(* In a committed job every row is an event or a saved error and the counters *)
(* say how many; no event is without a job, an upload or a failure            *)
(* (ingestion_service.py, _run_job; batch_processor.py).                      *)
THEOREM BooksAgree == Spec => []JobsReconcile
<1>1. Init => AnswersInv /\ BooksInv
  BY AnswersStart, BooksStart
<1>2. AnswersInv /\ BooksInv /\ [Next]_vars => AnswersInv' /\ BooksInv'
  BY AnswersStay, BooksStay
<1>3. BooksInv => JobsReconcile
  BY DEF BooksInv
<1> QED
  BY <1>1, <1>2, <1>3, PTL DEF Spec

-----------------------------------------------------------------------------
(* What the events are made of.                                            *)

FromFile(f, n) == ParseRow(Detected(f.columns), f.rows[n])

(* The rows of f that the parser of its columns can read. *)
GoodRows(f) == {n \in DOMAIN f.rows : FromFile(f, n) # Malformed}

(* A file that start_ingestion takes. *)
Taken(f) == f.columns # {} /\ Detected(f.columns) # "unknown"

Kept(own, employee) == own = "" \/ employee = own

(* An event says what that parser makes of its row, and keeps the employee *)
(* the row names.                                                          *)
SaysItsRow(e, f) ==
    LET told == FromFile(f, e.row) IN
    /\ e.type = told.type /\ e.account = KeyOf[told.user]
    /\ e.own = told.employee /\ Kept(told.employee, e.employee)

EventsSay(id, f) == \A e \in events : e.job = id => SaysItsRow(e, f)

(* A committed job has an event for each row that can be read, and no other. *)
EventsAreRows ==
    \A j \in DOMAIN jobs : StoredRows(j) = GoodRows(jobs[j].file) /\ EventsSay(j, jobs[j].file)

ReadInv ==
    /\ \A u \in Uploaders : Busy(u) =>
          /\ Taken(upload[u].file) /\ upload[u].parser = Detected(upload[u].file.columns)
          /\ EventsSay(upload[u].id, upload[u].file)
    /\ \A j \in DOMAIN jobs : jobs[j].file \in Files /\ Taken(jobs[j].file)
    /\ EventsAreRows

(* Kept compares with a string that SMT has no name for: Zenon proves these. *)
LEMMA KeptStays ==
  ASSUME NEW CONSTANT own, NEW CONSTANT employee, Kept(own, employee)
  PROVE  Kept(own, employee)'
BY Zenon DEF Kept

LEMMA StampedKeeps ==
  ASSUME NEW own, NEW known
  PROVE  Kept(own, Stamped(own, known))
BY Zenon DEF Kept, Stamped

LEMMA SaysStays ==
  ASSUME NEW CONSTANT e, NEW CONSTANT f, SaysItsRow(e, f)
  PROVE  SaysItsRow(e, f)'
BY KeptStays, Zenon DEF SaysItsRow, FromFile

LEMMA TakenStays ==
  ASSUME NEW CONSTANT f
  PROVE  (Taken(f) => Taken(f)') /\ GoodRows(f)' = GoodRows(f)
BY Zenon DEF Taken, GoodRows, FromFile

(* An uploader's step concerns its own job, id, and brings events of that job. *)
LEMMA OneReader ==
  ASSUME BooksInv, ReadInv, NEW u \in Uploaders, NEW CONSTANT id, NEW CONSTANT f,
         id \notin DOMAIN jobs, Busy(u) => upload[u].id = id /\ upload[u].file = f,
         ~Busy(u) => \A e \in events : e.job # id,
         \A v \in Uploaders \ {u} : upload'[v] = upload[v] /\ (Busy(v) => upload[v].id # id),
         \A e \in events' : e \in events \/ (e.job = id /\ SaysItsRow(e, f)),
         events \subseteq events', Taken(f),
         Busy(u)' => upload'[u].id = id /\ upload'[u].file = f /\ upload'[u].parser = Detected(f.columns),
         DOMAIN jobs' \subseteq DOMAIN jobs \cup {id}, \A j \in DOMAIN jobs : jobs'[j] = jobs[j],
         id \in DOMAIN jobs' => jobs'[id].file = f /\ f \in Files /\ StoredRows(id)' = GoodRows(f)
  PROVE  ReadInv'
<1>1. ASSUME NEW CONSTANT j, j # id PROVE StoredRows(j)' = StoredRows(j)
  <2>1. {e \in events' : e.job = j} = {e \in events : e.job = j}
    BY <1>1
  <2> QED
    BY <2>1 DEF StoredRows
<1>2. ASSUME NEW CONSTANT j, NEW CONSTANT g, EventsSay(j, g), j # id PROVE EventsSay(j, g)'
  <2>1. \A e \in events' : e.job = j => e \in events /\ SaysItsRow(e, g)
    BY <1>2 DEF EventsSay
  <2> QED
    BY <2>1, SaysStays DEF EventsSay
<1>3. EventsSay(id, f)'
  <2>1. \A e \in events : e.job = id => SaysItsRow(e, f)
    BY DEF ReadInv, EventsSay
  <2>2. \A e \in events' : e.job = id => SaysItsRow(e, f)
    BY <2>1
  <2> QED
    BY <2>2, SaysStays DEF EventsSay
<1>4. ASSUME NEW v \in Uploaders, Busy(v)'
      PROVE  /\ Taken(upload[v].file)' /\ upload'[v].parser = Detected(upload'[v].file.columns)
             /\ EventsSay(upload[v].id, upload[v].file)'
  <2>1. CASE v = u
    <3>1. upload'[v].id = id /\ upload'[v].file = f /\ upload'[v].parser = Detected(f.columns)
      BY <1>4, <2>1
    <3>2. Taken(f)'
      BY TakenStays
    <3> QED
      BY <1>3, <3>1, <3>2 DEF EventsSay, Taken
  <2>2. CASE v # u
    <3> PICK j, g : j = upload[v].id /\ g = upload[v].file
      OBVIOUS
    <3>1. upload'[v] = upload[v] /\ Busy(v) /\ j # id
      BY <1>4, <2>2 DEF Busy
    <3>2. Taken(g) /\ upload[v].parser = Detected(g.columns) /\ EventsSay(j, g)
      BY <3>1 DEF ReadInv
    <3>3. Taken(g)' /\ EventsSay(j, g)'
      BY <1>2, <3>1, <3>2, TakenStays
    <3>4. upload'[v].id = j /\ upload'[v].file = g /\ upload'[v].parser = Detected(g.columns)
      BY <3>1, <3>2
    <3> QED
      BY <3>3, <3>4 DEF EventsSay, Taken
  <2> QED
    BY <2>1, <2>2
<1>5. ASSUME NEW CONSTANT j \in DOMAIN jobs'
      PROVE  /\ jobs'[j].file \in Files /\ Taken(jobs[j].file)'
             /\ StoredRows(j)' = GoodRows(jobs[j].file)' /\ EventsSay(j, jobs[j].file)'
  <2> PICK g : g = jobs'[j].file
    OBVIOUS
  <2>1. g \in Files /\ Taken(g) /\ StoredRows(j)' = GoodRows(g) /\ EventsSay(j, g)'
    <3>1. CASE j = id
      BY <1>3, <1>5, <3>1
    <3>2. CASE j # id
      <4>1. j \in DOMAIN jobs /\ jobs[j].file = g
        BY <1>5, <3>2
      <4>2. g \in Files /\ Taken(g) /\ StoredRows(j) = GoodRows(g) /\ EventsSay(j, g)
        BY <4>1 DEF ReadInv, EventsAreRows
      <4> QED
        BY <1>1, <1>2, <3>2, <4>2
    <3> QED
      BY <3>1, <3>2
  <2>2. Taken(g)' /\ GoodRows(g)' = GoodRows(g)
    BY <2>1, TakenStays
  <2> QED
    BY <2>1, <2>2 DEF EventsSay, Taken, GoodRows, FromFile
<1> QED
  BY <1>4, <1>5 DEF ReadInv, EventsAreRows

LEMMA DocSaysItsRow ==
  ASSUME NEW u, upload[u].parser = Detected(upload[u].file.columns), NEW n
  PROVE  Doc(u, n).job = upload[u].id /\ SaysItsRow(Doc(u, n), upload[u].file)
<1> DEFINE e == Doc(u, n)
<1>1. /\ e.job = upload[u].id /\ e.row = n /\ e.type = Parsed(u, n).type
      /\ e.account = KeyOf[Parsed(u, n).user] /\ e.own = Parsed(u, n).employee
      /\ \E known : e.employee = Stamped(Parsed(u, n).employee, known)
  BY DEF Doc
<1>2. Parsed(u, n) = FromFile(upload[u].file, n)
  BY DEF Parsed, FromFile
<1> HIDE DEF e
<1>3. Kept(e.own, e.employee)
  BY <1>1, StampedKeeps
<1> QED
  BY <1>1, <1>2, <1>3 DEF SaysItsRow, e

LEMMA ReadStart ==
  ASSUME Init
  PROVE  ReadInv
<1>1. DOMAIN jobs = {} /\ \A u \in Uploaders : ~Busy(u)
  BY DEF Init, Busy, None
<1> QED
  BY <1>1 DEF ReadInv, EventsAreRows

(* All uploaders' steps, but for StartUpload and CommitUpload. *)
LEMMA BusyKeepsReading ==
  ASSUME UploadsInv, BooksInv, ReadInv, NEW u \in Uploaders, Busy(u), jobs' = jobs,
         \A v \in Uploaders \ {u} : upload'[v] = upload[v],
         Busy(u)' => /\ upload'[u].id = upload[u].id /\ upload'[u].file = upload[u].file
                     /\ upload'[u].parser = upload[u].parser,
         \E kept : events' = events \cup {Doc(u, n) : n \in kept}
  PROVE  ReadInv'
<1> PICK id, f : id = upload[u].id /\ f = upload[u].file
  OBVIOUS
<1>1. Taken(f) /\ upload[u].parser = Detected(f.columns) /\ Tally(u)
  BY DEF ReadInv, BooksInv
<1>2. PICK kept : events' = events \cup {Doc(u, n) : n \in kept}
  OBVIOUS
<1>3. events \subseteq events' /\ \A e \in events' : e \in events \/ (e.job = id /\ SaysItsRow(e, f))
  BY <1>1, <1>2, DocSaysItsRow
<1>4. id \notin DOMAIN jobs /\ \A v \in Uploaders \ {u} : Busy(v) => upload[v].id # id
  BY <1>1 DEF Tally, BooksInv
<1> QED
  BY <1>1, <1>3, <1>4, OneReader

LEMMA ReadStays ==
  ASSUME AnswersInv, BooksInv, ReadInv, [Next]_vars
  PROVE  ReadInv'
<1>0. UploadsInv /\ DOMAIN upload = Uploaders
  BY DEF AnswersInv, UploadsInv
<1>1. ASSUME NEW u \in Uploaders, StartUpload(u, shelf) PROVE ReadInv'
  <2> PICK id, f : id = started + 1 /\ f = shelf
    OBVIOUS
  <2>1. /\ ~Busy(u) /\ events' = events /\ jobs' = jobs /\ Taken(f)
        /\ \A v \in Uploaders \ {u} : upload'[v] = upload[v]
        /\ upload'[u].id = id /\ upload'[u].file = f /\ upload'[u].parser = Detected(f.columns)
    BY <1>0, <1>1 DEF StartUpload, Busy, Taken
  <2>2. started \in Nat /\ id \notin 1..started
    BY DEF BooksInv
  <2>3. /\ \A e \in events : e.job # id
        /\ id \notin DOMAIN jobs
        /\ \A v \in Uploaders : Busy(v) => upload[v].id # id
    BY <2>2 DEF BooksInv, Tally
  <2> QED
    BY <2>1, <2>3, OneReader
<1>2. ASSUME NEW u \in Uploaders, LookUp(u) PROVE ReadInv'
  <2>1. /\ Busy(u) /\ jobs' = jobs /\ events' = events
        /\ upload' = [upload EXCEPT ![u].step = "insert"]
    BY <1>2, BusyWith DEF LookUp
  <2>2. DOMAIN upload[u] = UploadFields
    BY <1>0, <2>1 DEF UploadsInv
  <2>3. /\ upload'[u].id = upload[u].id /\ upload'[u].file = upload[u].file
        /\ upload'[u].parser = upload[u].parser
        /\ \A v \in Uploaders \ {u} : upload'[v] = upload[v]
    BY <1>0, <2>1, <2>2 DEF UploadFields
  <2>4. events' = events \cup {Doc(u, n) : n \in {}}
    BY <2>1
  <2> QED
    BY <1>0, <2>1, <2>3, <2>4, BusyKeepsReading
<1>3. ASSUME NEW u \in Uploaders, NEW stored \in Nat, upload[u].step \in {"chunk", "insert"}, jobs' = jobs,
             upload' = [upload EXCEPT ![u] = AfterChunk(u, stored)],
             \E kept : events' = events \cup {Doc(u, n) : n \in kept}
      PROVE  ReadInv'
  <2>1. Busy(u) /\ DOMAIN upload[u] = UploadFields
    BY <1>0, <1>3, BusyWith DEF UploadsInv
  <2>2. /\ upload'[u] = AfterChunk(u, stored)
        /\ \A v \in Uploaders \ {u} : upload'[v] = upload[v]
    BY <1>0, <1>3
  <2>3. /\ AfterChunk(u, stored).id = upload[u].id /\ AfterChunk(u, stored).file = upload[u].file
        /\ AfterChunk(u, stored).parser = upload[u].parser
    BY <2>1 DEF AfterChunk, UploadFields
  <2> QED
    BY <1>0, <1>3, <2>1, <2>2, <2>3, BusyKeepsReading
<1>4. ASSUME NEW u \in Uploaders, InsertChunk(u) PROVE ReadInv'
  <2>1. IsFiniteSet(Good(u))
    <3>1. Tally(u)
      BY <1>4, BusyWith DEF InsertChunk, BooksInv
    <3> QED
      BY <3>1, ChunkIs, FS_Subset
  <2>2. Cardinality(Good(u)) \in Nat
    BY <2>1, FS_CardinalityType
  <2> QED
    BY <1>3, <1>4, <2>2 DEF InsertChunk
<1>5. ASSUME NEW u \in Uploaders, OnlyErrors(u) PROVE ReadInv'
  <2>1. events' = events \cup {Doc(u, n) : n \in {}}
    BY <1>5 DEF OnlyErrors
  <2> QED
    BY <1>3, <1>5, <2>1 DEF OnlyErrors
<1>6. ASSUME NEW u \in Uploaders, CommitUpload(u) PROVE ReadInv'
  <2> PICK id, f : id = upload[u].id /\ f = upload[u].file
    OBVIOUS
  <2>0. upload[u].step = "commit" /\ upload' = [upload EXCEPT ![u] = NoUpload]
    BY <1>6 DEF CommitUpload
  <2>1. Busy(u) /\ Tally(u) /\ Taken(f) /\ upload[u].parser = Detected(f.columns)
    BY <2>0, BusyWith DEF BooksInv, ReadInv
  <2>2. /\ events' = events /\ ~Busy(u)'
        /\ \A v \in Uploaders \ {u} : upload'[v] = upload[v]
        /\ DOMAIN jobs' = DOMAIN jobs \cup {id}
        /\ \A j \in DOMAIN jobs : j # id => jobs'[j] = jobs[j]
        /\ jobs'[id].file = f
    BY <1>0, <1>6, <2>0 DEF CommitUpload, Busy
  <2>3. /\ f \in Files /\ id \notin DOMAIN jobs
        /\ StoredRows(id) = ReadRows(upload[u]) \ BadRows(upload[u]) /\ ReadRows(upload[u]) = DOMAIN f.rows
    BY <2>0, <2>1 DEF Tally
  <2>4. ReadRows(upload[u]) \ BadRows(upload[u]) = GoodRows(f)
    BY <2>1, <2>3 DEF BadRows, GoodRows, FromFile
  <2>5. StoredRows(id)' = GoodRows(f)
    BY <2>2, <2>3, <2>4 DEF StoredRows
  <2>6. \A v \in Uploaders \ {u} : Busy(v) => upload[v].id # id
    BY <2>1 DEF BooksInv
  <2> QED
    BY <2>1, <2>2, <2>3, <2>5, <2>6, OneReader
<1>7. ASSUME NEW u \in Uploaders, UploadFails(u) PROVE ReadInv'
  <2>1. /\ Busy(u) /\ jobs' = jobs /\ upload'[u] = NoUpload
        /\ \A v \in Uploaders \ {u} : upload'[v] = upload[v]
    BY <1>0, <1>7 DEF UploadFails, Busy
  <2>2. \E kept : events' = events \cup {Doc(u, n) : n \in kept}
    BY <1>7 DEF UploadFails
  <2>3. ~Busy(u)'
    BY <2>1 DEF Busy
  <2> QED
    BY <1>0, <2>1, <2>2, <2>3, BusyKeepsReading
<1>8. CASE UNCHANGED <<upload, jobs, events>>
  <2>1. ASSUME NEW CONSTANT j, NEW CONSTANT g, EventsSay(j, g) PROVE EventsSay(j, g)'
    BY <1>8, <2>1, SaysStays DEF EventsSay
  <2>2. ASSUME NEW u \in Uploaders, Busy(u)'
        PROVE  /\ Taken(upload[u].file)' /\ upload'[u].parser = Detected(upload'[u].file.columns)
               /\ EventsSay(upload[u].id, upload[u].file)'
    <3> PICK j, g : j = upload[u].id /\ g = upload[u].file
      OBVIOUS
    <3>1. Taken(g) /\ upload[u].parser = Detected(g.columns) /\ EventsSay(j, g)
      BY <1>8, <2>2 DEF ReadInv, Busy
    <3>2. Taken(g)' /\ EventsSay(j, g)'
      BY <2>1, <3>1, TakenStays
    <3> QED
      BY <1>8, <3>1, <3>2 DEF EventsSay, Taken
  <2>3. ASSUME NEW CONSTANT j \in DOMAIN jobs'
        PROVE  /\ jobs'[j].file \in Files /\ Taken(jobs[j].file)'
               /\ StoredRows(j)' = GoodRows(jobs[j].file)' /\ EventsSay(j, jobs[j].file)'
    <3> PICK g : g = jobs[j].file
      OBVIOUS
    <3>1. g \in Files /\ Taken(g) /\ StoredRows(j) = GoodRows(g) /\ EventsSay(j, g)
      BY <1>8, <2>3 DEF ReadInv, EventsAreRows
    <3>2. Taken(g)' /\ EventsSay(j, g)' /\ GoodRows(g)' = GoodRows(g) /\ StoredRows(j)' = StoredRows(j)
      BY <1>8, <2>1, <3>1, TakenStays DEF StoredRows
    <3> QED
      BY <1>8, <3>1, <3>2 DEF EventsSay, Taken, GoodRows, FromFile
  <2> QED
    BY <2>2, <2>3 DEF ReadInv, EventsAreRows
<1>9. ASSUME \/ \E u \in Uploaders : Answering(u)
             \/ \E w \in Workers : Request(w) \/ RequestStep(w) \/ Commit(w)
             \/ Pass \/ UNCHANGED vars
      PROVE  UNCHANGED <<upload, jobs, events>>
  BY <1>9, RequestAsks DEF Answering, RequestStep, Commit, Pass, vars
<1> QED
  BY <1>1, <1>2, <1>4, <1>5, <1>6, <1>7, <1>8, <1>9 DEF Next

(* The events of a committed job are what the parser of its file's columns  *)
(* makes of the file's rows, one for each row it can read, whatever other   *)
(* uploads and requests do meanwhile (ingestion_service.py, _run_job).      *)
THEOREM RowsBecomeEvents == Spec => []EventsAreRows
<1>1. Init => AnswersInv /\ BooksInv /\ ReadInv
  BY AnswersStart, BooksStart, ReadStart
<1>2. AnswersInv /\ BooksInv /\ ReadInv /\ [Next]_vars => AnswersInv' /\ BooksInv' /\ ReadInv'
  BY AnswersStay, BooksStay, ReadStays
<1>3. ReadInv => EventsAreRows
  BY DEF ReadInv
<1> QED
  BY <1>1, <1>2, <1>3, PTL DEF Spec
=============================================================================
