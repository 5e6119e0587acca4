------------------------- MODULE Screening_proofs -------------------------
(***************************************************************************)
(* Theorems on the days of one person, for any deeds, directories, trained *)
(* models, windows and histories, and however runs, late events, analysts, *)
(* profile views and days follow each other.                               *)
(*                                                                         *)
(* IInv says what a settled day shows: findings that a replay from the     *)
(* first day gives (FoundInv), what the model says of the day by its       *)
(* baseline of now (ModelInv), the score of the signals there are now      *)
(* (ScoreInv), an alert if one is warranted, with today's content while it *)
(* is open (AlertInv).  A run makes it so for its window (RunSettles); any *)
(* other step makes stale every day whose causes it touches, and spares    *)
(* the others (SparesSettled).  The lemmas before it are about what a day  *)
(* depends on: its profile on the deeds of earlier days (ProfilesAgree),   *)
(* its score on signals up to it (LiveAgree).                              *)
(***************************************************************************)
EXTENDS Screening, FiniteSetTheorems, WellFoundedInduction, TLAPS

-----------------------------------------------------------------------------
(* A set of natural numbers that is not empty has a least element. *)
LEMMA Least ==
  ASSUME NEW S, S \subseteq Nat, S # {}
  PROVE  \E n \in S : \A m \in S : n <= m
<1> DEFINE R == OpToRel(<, Nat)
<1>1. IsWellFoundedOn(R, Nat)
  BY NatLessThanWellFounded
<1>2. \A m, k \in Nat : m < k => <<m, k>> \in R
  BY DEF OpToRel
<1> HIDE DEF R
<1>3. PICK n \in S : \A m \in S : ~(<<m, n>> \in R)
  BY <1>1, WFMin
<1>4. \A m \in S : ~(m < n)
  BY <1>2, <1>3
<1> QED
  BY <1>4

-----------------------------------------------------------------------------
(* Profiles. *)

(* The events of the deeds done. *)
Bag(done) == FoldSet(LAMBDA deed, day : day (+) Deeds[deed], EmptyBag, done)

Sums(iter, done) ==
    iter = [s \in SUBSET done |->
              IF s = {} THEN EmptyBag
              ELSE LET x == CHOOSE x \in s : TRUE IN iter[s \ {x}] (+) Deeds[x]]

LEMMA EventsAre == \A d : Events(d) = Bag(deeds[d])
BY DEF Events, Bag

LEMMA NoDeeds == ~Active(Bag({}))
<1> DEFINE iter == CHOOSE f : Sums(f, {})
<1>1. Bag({}) = iter[{}]
  BY DEF Bag, FoldSet, MapThenFoldSet, Sums
<1>2. Sums([s \in SUBSET {} |-> EmptyBag], {})
  BY DEF Sums
<1>3. Sums(iter, {})
  BY <1>2
<1> HIDE DEF iter
<1>4. iter[{}] = EmptyBag
  BY <1>3 DEF Sums
<1> QED
  BY <1>1, <1>4 DEF Active, EmptyBag, SetToBag

Follows(f, done, owners, first, d) ==
    f = [n \in (first - 1)..(d - 1) |->
           IF n < first THEN Unknown ELSE Learn(f[n - 1], Bag(done[n]), owners)]

Profile(done, owners, first, d) == (CHOOSE f : Follows(f, done, owners, first, d))[d - 1]

LEMMA ProfileIs == \A first, d : ProfileOf(first, d) = Profile(deeds, org.owners, first, d)
BY DEF ProfileOf, Profile, Follows, Events, Bag

LEMMA FollowersExist ==
  ASSUME NEW done, NEW owners, NEW first \in Nat \ {0}, NEW d \in Nat
  PROVE  \E f : Follows(f, done, owners, first, d)
<1> DEFINE Without == {k \in Nat : ~ \E f : Follows(f, done, owners, first, k)}
<1> SUFFICES ASSUME Without # {} PROVE FALSE
  OBVIOUS
<1>1. PICK k \in Without : \A m \in Without : k <= m
  BY Least
<1>2. CASE k <= first
  <2>0. \A n \in (first - 1)..(k - 1) : n < first
    BY <1>1, <1>2
  <2>1. Follows([n \in (first - 1)..(k - 1) |-> Unknown], done, owners, first, k)
    BY <2>0, Zenon DEF Follows
  <2> QED
    BY <2>1
<1>3. CASE k > first
  <2>1. k - 1 \in Nat /\ k - 1 \notin Without
    BY <1>1, <1>3
  <2>2. PICK f : Follows(f, done, owners, first, k - 1)
    BY <2>1
  <2> DEFINE g == [n \in (first - 1)..(k - 1) |->
                     IF n < first THEN Unknown ELSE Learn(f[n - 1], Bag(done[n]), owners)]
  <2>3. ASSUME NEW n \in (first - 1)..(k - 1), ~(n < first) PROVE g[n - 1] = f[n - 1]
    <3>1. n - 1 \in (first - 1)..(k - 1) /\ n - 1 \in (first - 1)..(k - 1 - 1)
      BY <2>1, <2>3
    <3>2. g[n - 1] = IF n - 1 < first THEN Unknown ELSE Learn(f[n - 1 - 1], Bag(done[n - 1]), owners)
      BY <3>1
    <3>3. f[n - 1] = IF n - 1 < first THEN Unknown ELSE Learn(f[n - 1 - 1], Bag(done[n - 1]), owners)
      BY <2>2, <3>1 DEF Follows
    <3> QED
      BY <3>2, <3>3
  <2>4. Follows(g, done, owners, first, k)
    BY <2>3, Zenon DEF Follows
  <2> QED
    BY <2>4
<1> QED
  BY <1>2, <1>3

(* Two profiles are the same if the one that begins earlier has nothing to *)
(* learn until the other begins, and both see the same days from then on.  *)
LEMMA ProfilesAgree ==
  ASSUME NEW done, NEW done2, NEW owners, NEW first \in Nat \ {0}, NEW later \in Nat \ {0}, NEW d \in Nat,
         first <= later, later <= d,
         \A n \in first..(later - 1) : done[n] = {},
         \A n \in later..(d - 1) : done2[n] = done[n]
  PROVE  Profile(done2, owners, later, d) = Profile(done, owners, first, d)
<1> DEFINE f == CHOOSE h : Follows(h, done, owners, first, d)
           g == CHOOSE h : Follows(h, done2, owners, later, d)
<1>1. Follows(f, done, owners, first, d) /\ Follows(g, done2, owners, later, d)
  BY FollowersExist
<1>2. Profile(done, owners, first, d) = f[d - 1] /\ Profile(done2, owners, later, d) = g[d - 1]
  BY DEF Profile
<1> HIDE DEF f, g
<1>3. ASSUME NEW n \in (first - 1)..(d - 1)
      PROVE  f[n] = IF n < first THEN Unknown ELSE Learn(f[n - 1], Bag(done[n]), owners)
  BY <1>1 DEF Follows
<1>4. ASSUME NEW n \in (later - 1)..(d - 1)
      PROVE  g[n] = IF n < later THEN Unknown ELSE Learn(g[n - 1], Bag(done2[n]), owners)
  BY <1>1 DEF Follows
<1>5. \A n \in (first - 1)..(later - 1) : f[n] = Unknown
  <2> DEFINE Others == {n \in (first - 1)..(later - 1) : f[n] # Unknown}
  <2> SUFFICES ASSUME Others # {} PROVE FALSE
    OBVIOUS
  <2>1. Others \subseteq Nat
    OBVIOUS
  <2>2. PICK n \in Others : \A m \in Others : n <= m
    <3> HIDE DEF Others
    <3> QED
      BY <2>1, Least
  <2>3. n \in (first - 1)..(later - 1) /\ n \in (first - 1)..(d - 1) /\ n \in Int /\ f[n] # Unknown
    BY <2>2
  <2>4. n >= first
    BY <1>3, <2>3
  <2>5. n - 1 \in (first - 1)..(later - 1) /\ ~(n <= n - 1)
    BY <2>3, <2>4
  <2>6. f[n - 1] = Unknown
    BY <2>2, <2>5
  <2>7. n \in first..(later - 1) /\ ~(n < first)
    BY <2>3, <2>4
  <2>8. f[n] = Learn(Unknown, Bag({}), owners)
    BY <1>3, <2>3, <2>6, <2>7
  <2> QED
    BY <2>3, <2>8, NoDeeds DEF Learn
<1>6. \A n \in (later - 1)..(d - 1) : g[n] = f[n]
  <2> DEFINE Others == {n \in (later - 1)..(d - 1) : g[n] # f[n]}
  <2> SUFFICES ASSUME Others # {} PROVE FALSE
    OBVIOUS
  <2>1. Others \subseteq Nat
    OBVIOUS
  <2>2. PICK n \in Others : \A m \in Others : n <= m
    <3> HIDE DEF Others
    <3> QED
      BY <2>1, Least
  <2>3. n \in (later - 1)..(d - 1) /\ n \in (first - 1)..(d - 1) /\ n \in Int /\ g[n] # f[n]
    BY <2>2
  <2>4. n >= later
    <3> SUFFICES ASSUME n < later PROVE FALSE
      BY <2>3
    <3>1. n \in (first - 1)..(later - 1)
      BY <2>3
    <3> QED
      BY <1>4, <1>5, <2>3, <3>1
  <2>5. n - 1 \in (later - 1)..(d - 1) /\ ~(n <= n - 1)
    BY <2>3, <2>4
  <2>6. g[n - 1] = f[n - 1]
    BY <2>2, <2>5
  <2>7. n \in later..(d - 1) /\ ~(n < later) /\ ~(n < first)
    BY <2>3, <2>4
  <2> QED
    BY <1>3, <1>4, <2>3, <2>6, <2>7
<1>7. d - 1 \in (later - 1)..(d - 1)
  OBVIOUS
<1> QED
  BY <1>2, <1>6, <1>7

-----------------------------------------------------------------------------
(* The window. *)

LEMMA ConstantsAre ==
  /\ MaxDays \in Nat /\ WindowDays \in Nat \ {0} /\ HistoryDays \in Nat \ {0}
  /\ LookbackDays \in Nat /\ HistoricalLookbackDays \in Nat
BY ScreeningAssumption, LookbackAssumption

WindowAt(t) == {d \in 1..t : d > t - WindowDays}

LEMMA WindowIs ==
  ASSUME NEW t \in Nat \ {0}
  PROVE  /\ Min(WindowAt(t)) \in 1..t /\ WindowAt(t) = Min(WindowAt(t))..t
         /\ (Min(WindowAt(t)) = 1 \/ Min(WindowAt(t)) = t - WindowDays + 1)
         /\ Min(WindowAt(t)) >= t - WindowDays + 1
<1> DEFINE first == IF t - WindowDays + 1 < 1 THEN 1 ELSE t - WindowDays + 1
<1>1. first \in 1..t /\ WindowAt(t) = first..t
  BY ConstantsAre DEF WindowAt
<1>2. first \in WindowAt(t) /\ \A d \in WindowAt(t) : first <= d
  BY <1>1
<1>3. Min(WindowAt(t)) = first
  BY <1>1, <1>2 DEF Min
<1> QED
  BY <1>1, <1>3, ConstantsAre

LEMMA WindowMoves ==
  ASSUME NEW t \in Nat \ {0}, NEW u \in Nat \ {0}, t <= u
  PROVE  Min(WindowAt(t)) <= Min(WindowAt(u))
<1>1. PICK m : m = Min(WindowAt(t))
  OBVIOUS
<1>2. PICK n : n = Min(WindowAt(u))
  OBVIOUS
<1>3. m \in 1..t /\ (m = 1 \/ m = t - WindowDays + 1)
  BY <1>1, WindowIs
<1>4. n \in 1..u /\ n >= u - WindowDays + 1
  BY <1>2, WindowIs
<1>5. m <= n
  BY <1>3, <1>4, ConstantsAre
<1> QED
  BY <1>1, <1>2, <1>5

LEMMA TodaysWindow == Window = WindowAt(today)
BY DEF Window, WindowAt

LEMMA HistoryStartIs ==
  ASSUME today \in Nat \ {0}
  PROVE  /\ HistoryStart \in 1..Min(Window)
         /\ (HistoryStart = 1 \/ HistoryStart = Min(Window) - HistoryDays)
<1> DEFINE first == IF Min(Window) - HistoryDays < 1 THEN 1 ELSE Min(Window) - HistoryDays
           S == {1, Min(Window) - HistoryDays}
<1>1. Min(Window) \in Nat \ {0}
  BY WindowIs, TodaysWindow
<1>2. first \in S /\ \A x \in S : first >= x
  BY <1>1, ConstantsAre
<1>3. S \subseteq Int
  BY <1>1, ConstantsAre
<1>4. \A x \in S : (\A y \in S : x >= y) => x = first
  BY <1>2, <1>3
<1>5. HistoryStart = CHOOSE x \in S : \A y \in S : x >= y
  BY DEF HistoryStart, Max
<1> HIDE DEF first, S
<1>6. HistoryStart = first
  BY <1>2, <1>4, <1>5
<1> QED
  BY <1>1, <1>6, ConstantsAre DEF first

(* Days the history has left behind do not come back. *)
LEMMA ForgottenStays ==
  ASSUME today \in Nat \ {0}, today' \in Nat, today' >= today,
         \A d \in 1..today : deeds[d] # {} => deeds'[d] # {},
         Forgotten
  PROVE  Forgotten'
<1>1. PICK d \in 1..today : d < Min(Window) - HistoryDays /\ deeds[d] # {}
  BY DEF Forgotten
<1>2. PICK m : m = Min(WindowAt(today))
  OBVIOUS
<1>3. PICK n : n = Min(WindowAt(today'))
  OBVIOUS
<1>4. today' \in Nat \ {0}
  OBVIOUS
<1>5. m \in 1..today /\ n \in 1..today' /\ m <= n
  BY <1>2, <1>3, <1>4, WindowIs, WindowMoves
<1>6. d < m - HistoryDays
  BY <1>1, <1>2, TodaysWindow
<1>7. d \in 1..today' /\ d < n - HistoryDays
  BY <1>5, <1>6, ConstantsAre
<1>8. Window' = WindowAt(today')
  BY DEF Window, WindowAt
<1> QED
  BY <1>1, <1>3, <1>7, <1>8 DEF Forgotten

(* What is found on a day, by the deeds done and the directory. *)
JudgedBy(done, directory, first, d) ==
    Detect(Bag(done[d]), Profile(done, directory.owners, first, d), directory)

LEMMA JudgedIs == \A first, d : Judged(first, d) = JudgedBy(deeds, org, first, d)
BY ProfileIs, EventsAre DEF Judged, JudgedBy

(* "Results match a full dataset replay": the days before the history, if *)
(* nothing happened on them, have taught nothing.                         *)
LEMMA ReplayMatches ==
  ASSUME today \in Nat \ {0}, ~Forgotten, NEW d \in Window
  PROVE  Judged(HistoryStart, d) = Judged(1, d)
<1>1. /\ Min(Window) \in 1..today /\ d \in Nat /\ d >= Min(Window)
      /\ HistoryStart \in 1..Min(Window)
      /\ HistoryStart = 1 \/ HistoryStart = Min(Window) - HistoryDays
  BY WindowIs, TodaysWindow, HistoryStartIs
<1>2. ASSUME NEW n \in 1..(HistoryStart - 1) PROVE deeds[n] = {}
  <2>1. n \in 1..today /\ n < Min(Window) - HistoryDays
    BY <1>1, ConstantsAre
  <2> QED
    BY <2>1 DEF Forgotten
<1>3. /\ HistoryStart \in Nat \ {0} /\ 1 \in Nat \ {0} /\ 1 <= HistoryStart /\ HistoryStart <= d
  BY <1>1
<1>4. Profile(deeds, org.owners, HistoryStart, d) = Profile(deeds, org.owners, 1, d)
  BY <1>1, <1>2, <1>3, ProfilesAgree
<1> QED
  BY <1>4, JudgedIs DEF JudgedBy

(* A day is judged as before if nothing has changed on it or earlier. *)
LEMMA JudgedAgree ==
  ASSUME NEW done, NEW done2, NEW directory, NEW d \in Nat \ {0}, \A n \in 1..d : done2[n] = done[n]
  PROVE  JudgedBy(done2, directory, 1, d) = JudgedBy(done, directory, 1, d)
<1>1. /\ 1 \in Nat \ {0} /\ d \in Nat /\ 1 <= 1 /\ 1 <= d /\ d \in 1..d
      /\ \A n \in 1..(1 - 1) : done[n] = {}
      /\ \A n \in 1..(d - 1) : done2[n] = done[n]
  OBVIOUS
<1>2. Profile(done2, directory.owners, 1, d) = Profile(done, directory.owners, 1, d)
  BY <1>1, ProfilesAgree
<1> QED
  BY <1>1, <1>2 DEF JudgedBy

-----------------------------------------------------------------------------
(* Signals. *)

EngagedIn(raised, k) == raised[k] # NoAlert /\ raised[k].status = "ACKNOWLEDGED"

FoundOn(found, d) == {Signal(d, f.component, f.severity, <<"finding", d, f.detector>>) : f \in found[d]}

OfFindings(t, found) == UNION {FoundOn(found, d) : d \in 1..t}
OfModel(t, results) ==
    {Signal(d, "behavioral", results[d], <<"model", d>>) : d \in {e \in 1..t : results[e] > 0}}
OfAlerts(raised) ==
    {Signal(k[2], "historical", SeverityWeight[raised[k].severity], <<"alert", k>>) :
        k \in {j \in DOMAIN raised : EngagedIn(raised, j)}}
OfCases(t, opened) ==
    {Signal(d, "historical", opened[d], <<"case", d>>) : d \in {e \in 1..t : opened[e] > 0}}

(* SignalsFor, of what the stores hold. *)
SignalsFrom(t, results, raised, opened, found) ==
    OfFindings(t, found) \cup OfModel(t, results) \cup OfAlerts(raised) \cup OfCases(t, opened)

LEMMA SignalsAre ==
  ASSUME NEW found, NEW results
  PROVE  SignalsFor(found, results) = SignalsFrom(today, results, alerts, cases, found)
<1>1. UNION {{Signal(d, f.component, f.severity, <<"finding", d, f.detector>>) : f \in found[d]} : d \in 1..today}
        = OfFindings(today, found)
  BY DEF OfFindings, FoundOn
<1>2. {Signal(d, "behavioral", results[d], <<"model", d>>) : d \in {e \in 1..today : results[e] > 0}}
        = OfModel(today, results)
  BY DEF OfModel
<1>3. {Signal(k[2], "historical", SeverityWeight[alerts[k].severity], <<"alert", k>>) :
          k \in {j \in DOMAIN alerts : Engaged(j)}}
        = OfAlerts(alerts)
  BY DEF OfAlerts, Engaged, EngagedIn
<1>4. {Signal(d, "historical", cases[d], <<"case", d>>) : d \in {e \in 1..today : cases[e] > 0}}
        = OfCases(today, cases)
  BY DEF OfCases
<1> QED
  BY <1>1, <1>2, <1>3, <1>4, Zenon DEF SignalsFor, SignalsFrom

SameUntil(store, store2, d) == \A e \in 1..d : store2[e] = store[e]

Counts(raised, raised2, k) ==
    /\ EngagedIn(raised2, k) <=> EngagedIn(raised, k)
    /\ EngagedIn(raised, k) => raised2[k].severity = raised[k].severity

CountUntil(raised, raised2, d) ==
    /\ DOMAIN raised = Sources \X Days /\ DOMAIN raised2 = Sources \X Days
    /\ \A k \in Sources \X Days : k[2] <= d => Counts(raised, raised2, k)

(* "Future signals never leak into the past": the score of a day has its *)
(* signals from that day and those before.                               *)
LEMMA LiveAgree ==
  ASSUME NEW t \in Nat, NEW t2 \in Nat, NEW d \in 1..t, d <= t2,
         NEW results, NEW results2, NEW raised, NEW raised2, NEW opened, NEW opened2, NEW found, NEW found2,
         SameUntil(results, results2, d), SameUntil(opened, opened2, d), SameUntil(found, found2, d),
         CountUntil(raised, raised2, d)
  PROVE  Live(d, SignalsFrom(t2, results2, raised2, opened2, found2))
            = Live(d, SignalsFrom(t, results, raised, opened, found))
<1>1. ASSUME NEW u \in Nat, NEW v \in Nat, d <= u, d <= v,
             NEW r, NEW q, NEW a, NEW b, NEW o, NEW p, NEW f, NEW g,
             DOMAIN a = Sources \X Days, DOMAIN b = Sources \X Days,
             \A e \in 1..d : g[e] = f[e] /\ q[e] = r[e] /\ p[e] = o[e],
             \A k \in Sources \X Days : k[2] <= d /\ EngagedIn(a, k) =>
                 (EngagedIn(b, k) /\ b[k].severity = a[k].severity),
             NEW s \in SignalsFrom(u, r, a, o, f), s.day <= d
      PROVE  s \in SignalsFrom(v, q, b, p, g)
  <2>1. CASE s \in OfFindings(u, f)
    <3>1. PICK e \in 1..u : s \in FoundOn(f, e)
      BY <2>1 DEF OfFindings
    <3>2. s.day = e
      BY <3>1 DEF FoundOn, Signal
    <3>3. e \in 1..d /\ e \in 1..v
      BY <1>1, <3>2
    <3>4. s \in FoundOn(g, e)
      BY <1>1, <3>1, <3>3 DEF FoundOn
    <3> QED
      BY <3>3, <3>4 DEF OfFindings, SignalsFrom
  <2>2. CASE s \in OfModel(u, r)
    <3>1. PICK e \in 1..u : r[e] > 0 /\ s = Signal(e, "behavioral", r[e], <<"model", e>>)
      BY <2>2 DEF OfModel
    <3>2. s.day = e
      BY <3>1 DEF Signal
    <3>3. e \in 1..d /\ e \in 1..v
      BY <1>1, <3>2
    <3>4. q[e] = r[e]
      BY <1>1, <3>3
    <3>5. s \in OfModel(v, q)
      BY <3>1, <3>3, <3>4 DEF OfModel
    <3> QED
      BY <3>5 DEF SignalsFrom
  <2>3. CASE s \in OfAlerts(a)
    <3>1. PICK k \in DOMAIN a :
             EngagedIn(a, k) /\ s = Signal(k[2], "historical", SeverityWeight[a[k].severity], <<"alert", k>>)
      BY <2>3 DEF OfAlerts
    <3>2. s.day = k[2]
      BY <3>1 DEF Signal
    <3>3. k \in DOMAIN b /\ EngagedIn(b, k) /\ b[k].severity = a[k].severity
      BY <1>1, <3>1, <3>2
    <3>4. s \in OfAlerts(b)
      BY <3>1, <3>3 DEF OfAlerts
    <3> QED
      BY <3>4 DEF SignalsFrom
  <2>4. CASE s \in OfCases(u, o)
    <3>1. PICK e \in 1..u : o[e] > 0 /\ s = Signal(e, "historical", o[e], <<"case", e>>)
      BY <2>4 DEF OfCases
    <3>2. s.day = e
      BY <3>1 DEF Signal
    <3>3. e \in 1..d /\ e \in 1..v
      BY <1>1, <3>2
    <3>4. p[e] = o[e]
      BY <1>1, <3>3
    <3>5. s \in OfCases(v, p)
      BY <3>1, <3>3, <3>4 DEF OfCases
    <3> QED
      BY <3>5 DEF SignalsFrom
  <2> QED
    BY <1>1, <2>1, <2>2, <2>3, <2>4 DEF SignalsFrom
<1>2. /\ d <= t /\ DOMAIN raised = Sources \X Days /\ DOMAIN raised2 = Sources \X Days
      /\ \A e \in 1..d : found2[e] = found[e] /\ results2[e] = results[e] /\ opened2[e] = opened[e]
      /\ \A e \in 1..d : found[e] = found2[e] /\ results[e] = results2[e] /\ opened[e] = opened2[e]
      /\ \A k \in Sources \X Days : k[2] <= d /\ EngagedIn(raised, k) =>
            (EngagedIn(raised2, k) /\ raised2[k].severity = raised[k].severity)
      /\ \A k \in Sources \X Days : k[2] <= d /\ EngagedIn(raised2, k) =>
            (EngagedIn(raised, k) /\ raised[k].severity = raised2[k].severity)
  BY DEF SameUntil, CountUntil, Counts
<1>3. \A s \in SignalsFrom(t, results, raised, opened, found) :
         s.day <= d => s \in SignalsFrom(t2, results2, raised2, opened2, found2)
  BY <1>1, <1>2
<1>4. \A s \in SignalsFrom(t2, results2, raised2, opened2, found2) :
         s.day <= d => s \in SignalsFrom(t, results, raised, opened, found)
  BY <1>1, <1>2
<1> QED
  BY <1>3, <1>4 DEF Live

-----------------------------------------------------------------------------
(* The stores. *)

AlertFields == {"status", "severity", "priority", "findings"}

AlertOk(alert) ==
    \/ alert = NoAlert
    \/ DOMAIN alert = AlertFields /\ alert.status \in {"OPEN", "ACKNOWLEDGED", "FALSE_POSITIVE"}

StoresInv ==
    /\ today \in 0..MaxDays
    /\ DOMAIN deeds = Days /\ DOMAIN model = Days /\ DOMAIN cases = Days
    /\ DOMAIN alerts = Sources \X Days
    /\ \A d \in Days : IsFiniteSet(findings[d])
    /\ \A d \in Days : model[d] # 0 => d <= today
    /\ \A k \in Sources \X Days : AlertOk(alerts[k]) /\ (alerts[k] # NoAlert => k[2] <= today)

\* An alert as a run or the model's results raise it.
Fresh(severity, priority, found) ==
    [status |-> "OPEN", severity |-> severity, priority |-> priority, findings |-> found]

LEMMA FreshIsOpen ==
  ASSUME NEW severity, NEW priority, NEW found
  PROVE  /\ AlertOk(Fresh(severity, priority, found)) /\ Fresh(severity, priority, found) # NoAlert
         /\ Fresh(severity, priority, found).status = "OPEN"
         /\ Fresh(severity, priority, found).priority = priority
         /\ Fresh(severity, priority, found).findings = found
BY DEF Fresh, AlertOk, AlertFields, NoAlert

\* What raise_for makes of an alert.
LEMMA RaisedIs ==
  ASSUME NEW alert, NEW d, NEW found, NEW live
  PROVE  \/ /\ Warranted(d, found, live) /\ (alert = NoAlert \/ alert.status = "OPEN")
            /\ Raised(alert, d, found, live)
                 = Fresh(Level(Priority(d, live)), Priority(d, live), found)
         \/ /\ ~(Warranted(d, found, live) /\ (alert = NoAlert \/ alert.status = "OPEN"))
            /\ Raised(alert, d, found, live) = alert
BY DEF Raised, Fresh

\* What the results of the model make of an alert.
LEMMA ModelAlertIs ==
  ASSUME NEW alert, NEW result
  PROVE  \/ ModelAlert(alert, result) = alert
         \/ /\ alert = NoAlert /\ Level(10 * result) \in {"HIGH", "CRITICAL"}
            /\ ModelAlert(alert, result) = Fresh(Level(10 * result), 10 * result, {})
BY DEF ModelAlert, Fresh

LEMMA NoResultNoAlert == \A alert : ModelAlert(alert, 0) = alert
BY DEF ModelAlert, Level

LEMMA DetectIsFinite ==
  ASSUME NEW day, NEW profile, NEW directory
  PROVE  IsFiniteSet(Detect(day, profile, directory))
<1>1. ASSUME NEW detector, NEW component, NEW reasons PROVE IsFiniteSet(Found(detector, component, reasons))
  BY FS_EmptySet, FS_Singleton DEF Found
<1>2. \A S, T : IsFiniteSet(S) /\ IsFiniteSet(T) => IsFiniteSet(S \cup T)
  BY FS_Union
<1> QED
  BY <1>1, <1>2, FS_EmptySet DEF Detect

\* What a run finds and what the model says in it.
FoundInRun == [d \in Days |-> IF d \in Window THEN Judged(HistoryStart, d) ELSE findings[d]]
ResultsOfRun ==
    [d \in Days |-> IF d \in Window /\ deeds[d] # {} THEN Verdict(deeds[d], Refreshed.learned) ELSE model[d]]
LiveInRun(d) == Live(d, SignalsFor(FoundInRun, ResultsOfRun))

LEMMA RunIs ==
  ASSUME Run
  PROVE  /\ findings' = FoundInRun /\ model' = ResultsOfRun /\ baseline' = Refreshed
         /\ scores' = [d \in Days |-> IF d \in Window THEN Scored(d, LiveInRun(d)) ELSE scores[d]]
         /\ alerts' = [k \in DOMAIN alerts |->
               IF k[1] = "risk" /\ k[2] \in Window
               THEN Raised(alerts[k], k[2], FoundInRun[k[2]], LiveInRun(k[2])) ELSE alerts[k]]
         /\ stale' = stale \ Window
         /\ UNCHANGED <<today, deeds, org, cases>>
BY Zenon DEF Run, FoundInRun, ResultsOfRun, LiveInRun

LEMMA StoresInit == Init => StoresInv
BY ConstantsAre, FS_EmptySet DEF Init, StoresInv, AlertOk, Days

LEMMA StoresNext ==
  ASSUME StoresInv, [Next]_vars
  PROVE  StoresInv' /\ today' \in Nat /\ today' >= today
<1> USE DEF StoresInv
<1>0. today \in Nat /\ today <= MaxDays /\ MaxDays \in Nat
  BY ConstantsAre
<1>1. CASE Run
  <2> DEFINE results == ResultsOfRun
             found == FoundInRun
             live(d) == LiveInRun(d)
  <2>1. /\ findings' = found /\ model' = results
        /\ alerts' = [k \in DOMAIN alerts |->
             IF k[1] = "risk" /\ k[2] \in Window
             THEN Raised(alerts[k], k[2], found[k[2]], live(k[2])) ELSE alerts[k]]
        /\ UNCHANGED <<today, deeds, cases>>
    BY <1>1, RunIs
  <2>2. \A d \in Days : IsFiniteSet(found[d])
    BY DetectIsFinite DEF Judged, FoundInRun
  <2>3. DOMAIN results = Days /\ \A d \in Days : results[d] # 0 => d <= today
    BY <1>0 DEF ResultsOfRun, Window
  <2> HIDE DEF found, live, results
  <2>4. ASSUME NEW k \in Sources \X Days
        PROVE  AlertOk(alerts'[k]) /\ (alerts'[k] # NoAlert => k[2] <= today)
    <3>1. CASE k[1] = "risk" /\ k[2] \in Window
      <4>1. alerts'[k] = Raised(alerts[k], k[2], found[k[2]], live(k[2]))
        BY <2>1, <3>1
      <4>2. AlertOk(alerts'[k])
        BY <4>1, RaisedIs, FreshIsOpen
      <4> QED
        BY <4>2, <3>1, <1>0 DEF Window
    <3>2. CASE ~(k[1] = "risk" /\ k[2] \in Window)
      BY <2>1, <3>2
    <3> QED
      BY <3>1, <3>2
  <2>5. DOMAIN alerts' = Sources \X Days
    BY <2>1
  <2> QED
    BY <1>0, <2>1, <2>2, <2>3, <2>4, <2>5
<1>2. CASE Generate
  <2>1. /\ alerts' = [k \in DOMAIN alerts |->
            IF k[1] = "model" THEN ModelAlert(alerts[k], model[k[2]]) ELSE alerts[k]]
        /\ UNCHANGED <<today, deeds, model, findings, cases>>
    BY <1>2 DEF Generate
  <2>2. ASSUME NEW k \in Sources \X Days
        PROVE  AlertOk(alerts'[k]) /\ (alerts'[k] # NoAlert => k[2] <= today)
    <3>1. CASE alerts'[k] = alerts[k]
      BY <3>1
    <3>2. CASE alerts'[k] # alerts[k]
      <4>1. alerts'[k] = ModelAlert(alerts[k], model[k[2]])
        BY <2>1, <3>2
      <4>2. model[k[2]] # 0
        BY <3>2, <4>1, NoResultNoAlert
      <4> QED
        BY <3>2, <4>1, <4>2, ModelAlertIs, FreshIsOpen
    <3> QED
      BY <3>1, <3>2
  <2>3. DOMAIN alerts' = Sources \X Days
    BY <2>1
  <2> QED
    BY <1>0, <2>1, <2>2, <2>3
<1>3. ASSUME NEW choice \in DayChoices, NewDay(choice) PROVE StoresInv' /\ today' \in Nat /\ today' >= today
  <2>1. today' = today + 1 /\ today' \in Days
    BY <1>0, <1>3 DEF NewDay, Days
  <2>2. \A k \in Sources \X Days : k[2] <= today => k[2] <= today'
    BY <1>0, <2>1 DEF Days
  <2>3. \A d \in Days : d <= today => d <= today'
    BY <1>0, <2>1 DEF Days
  <2> QED
    BY <1>0, <1>3, <2>1, <2>2, <2>3 DEF NewDay
<1>4. ASSUME NEW d \in Days, NEW deed, LateEvents(d, deed) PROVE StoresInv' /\ today' \in Nat /\ today' >= today
  BY <1>0, <1>4 DEF LateEvents, Change
<1>5. ASSUME NEW k \in Sources \X Days, NEW status \in {"ACKNOWLEDGED", "FALSE_POSITIVE"}, Act(k, status)
      PROVE  StoresInv' /\ today' \in Nat /\ today' >= today
  <2>1. /\ alerts' = [alerts EXCEPT ![k] = [alerts[k] EXCEPT !.status = status]]
        /\ alerts[k] # NoAlert
        /\ UNCHANGED <<today, deeds, model, findings, cases>>
    BY <1>5 DEF Act, Change
  <2>2. DOMAIN alerts[k] = AlertFields
    BY <2>1 DEF AlertOk
  <2>3. AlertOk([alerts[k] EXCEPT !.status = status])
    BY <2>2 DEF AlertOk, AlertFields
  <2> QED
    BY <1>0, <2>1, <2>3
<1>6. ASSUME NEW d \in Days, NEW severity, StartCase(d, severity) PROVE StoresInv' /\ today' \in Nat /\ today' >= today
  BY <1>0, <1>6 DEF StartCase, Change
<1>7. ASSUME NEW new, DirectoryChanges(new) PROVE StoresInv' /\ today' \in Nat /\ today' >= today
  BY <1>0, <1>7 DEF DirectoryChanges, Change
<1>8. CASE ViewProfile
  BY <1>0, <1>8 DEF ViewProfile, Change
<1>9. ASSUME NEW d \in Days, NEW row, DetectAgain(d, row) PROVE StoresInv' /\ today' \in Nat /\ today' >= today
  <2>1. /\ model' = [model EXCEPT ![d] = Verdict(row, baseline.learned)]
        /\ alerts' = [alerts EXCEPT ![<<"model", d>>] =
                          ModelAlert(alerts[<<"model", d>>], Verdict(row, baseline.learned))]
        /\ d <= today /\ UNCHANGED <<today, deeds, findings, cases>>
    BY <1>9 DEF DetectAgain, Change
  <2>2. <<"model", d>> \in Sources \X Days
    BY DEF Sources
  <2>3. AlertOk(ModelAlert(alerts[<<"model", d>>], Verdict(row, baseline.learned)))
    BY <2>2, ModelAlertIs, FreshIsOpen
  <2>4. ASSUME NEW k \in Sources \X Days
        PROVE  AlertOk(alerts'[k]) /\ (alerts'[k] # NoAlert => k[2] <= today)
    <3>1. CASE k = <<"model", d>>
      BY <2>1, <2>3, <3>1
    <3>2. CASE k # <<"model", d>>
      BY <2>1, <3>2
    <3> QED
      BY <3>1, <3>2
  <2>5. DOMAIN alerts' = Sources \X Days /\ DOMAIN model' = Days
    BY <2>1
  <2>6. \A e \in Days : model'[e] # 0 => e <= today
    BY <2>1
  <2> QED
    BY <1>0, <2>1, <2>4, <2>5, <2>6
<1>10. CASE UNCHANGED vars
  BY <1>0, <1>10 DEF vars
<1> QED
  BY <1>0, <1>1, <1>2, <1>3, <1>4, <1>5, <1>6, <1>7, <1>8, <1>9, <1>10 DEF Next

-----------------------------------------------------------------------------
(* Days that are settled. *)

\* A change makes every day from its own on stale.
StaleInv == \A d, e \in Window : d \in stale /\ d <= e => e \in stale

\* What a step leaves alone on a day it does not make stale.
Spared(d) ==
    /\ d \in Settled /\ org' = org /\ baseline' = baseline
    /\ \A e \in 1..d : deeds'[e] = deeds[e] /\ model'[e] = model[e] /\ cases'[e] = cases[e]
    /\ \A k \in Sources \X Days : k[2] <= d => Counts(alerts, alerts', k)
    /\ alerts'[<<"risk", d>>] = alerts[<<"risk", d>>]

SparesSettled ==
    /\ findings' = findings /\ scores' = scores
    /\ \A d \in 1..today : deeds[d] # {} => deeds'[d] # {}
    /\ \A d \in Settled' : Spared(d)

LEMMA SettledAre ==
  ASSUME StoresInv, NEW d \in Settled
  PROVE  d \in 1..today /\ d \in Days /\ d \in Nat /\ today \in Nat \ {0} /\ d > today - WindowDays /\ d \notin stale
<1>1. d \in 1..today /\ d > today - WindowDays /\ d \notin stale
  BY DEF Settled, Window
<1>2. today \in Nat /\ today <= MaxDays
  BY ConstantsAre DEF StoresInv
<1> QED
  BY <1>1, <1>2, ConstantsAre DEF Days

LEMMA SameCounts == \A k : Counts(alerts, alerts, k)
BY DEF Counts

\* Events, acts and cases of a day, and changes of the directory.
LEMMA ChangeIs ==
  ASSUME StoresInv, NEW from \in Days \cup {1}, Change(from)
  PROVE  /\ today' = today /\ Window' = Window
         /\ \A d \in Settled' : d \in Settled /\ d < from
         /\ StaleInv => StaleInv'
<1>1. today' = today /\ stale' = stale \cup (from..today)
  BY DEF Change
<1>2. Window' = Window
  BY <1>1 DEF Window
<1>3. today \in Nat
  BY ConstantsAre DEF StoresInv
<1>4. Window \subseteq 1..today
  BY DEF Window
<1>5. from \in Nat
  BY ConstantsAre DEF Days
<1>6. \A d \in Settled' : d \in Settled /\ d < from
  BY <1>1, <1>2, <1>3, <1>4, <1>5 DEF Settled
<1>7. StaleInv => StaleInv'
  BY <1>1, <1>2, <1>3, <1>4, <1>5 DEF StaleInv
<1> QED
  BY <1>1, <1>2, <1>6, <1>7

LEMMA NewDaySpares ==
  ASSUME StoresInv, StaleInv, NEW choice \in DayChoices, NewDay(choice)
  PROVE  SparesSettled /\ StaleInv'
<1>1. /\ today' = today + 1 /\ stale' = stale \cup {today + 1}
      /\ deeds' = [deeds EXCEPT ![today + 1] = choice]
      /\ UNCHANGED <<baseline, model, org, findings, scores, alerts, cases>>
  BY DEF NewDay
<1>2. today \in Nat /\ today < MaxDays /\ MaxDays \in Nat /\ WindowDays \in Nat
  BY ConstantsAre DEF StoresInv, NewDay
<1>3. \A e \in 1..today : e \in Days /\ e # today + 1
  BY <1>2 DEF Days
<1>4. \A e \in 1..today : deeds'[e] = deeds[e] /\ model'[e] = model[e] /\ cases'[e] = cases[e]
  BY <1>1, <1>3 DEF StoresInv
<1>5. \A d : d \in Window' /\ d # today + 1 => d \in Window
  BY <1>1, <1>2 DEF Window
<1>6. Window \subseteq 1..today /\ Window' \subseteq 1..(today + 1)
  BY <1>1 DEF Window
<1>7. ASSUME NEW d \in Settled' PROVE Spared(d)
  <2>1. d \in Settled
    BY <1>1, <1>5, <1>7 DEF Settled
  <2>2. d \in 1..today
    BY <2>1, SettledAre
  <2>3. 1..d \subseteq 1..today
    BY <1>2, <2>2
  <2>4. \A e \in 1..d : deeds'[e] = deeds[e] /\ model'[e] = model[e] /\ cases'[e] = cases[e]
    BY <1>4, <2>3
  <2> QED
    BY <1>1, <2>1, <2>4, SameCounts DEF Spared
<1>8. StaleInv'
  <2> SUFFICES ASSUME NEW d \in Window', NEW e \in Window', d \in stale', d <= e
               PROVE  e \in stale'
    BY DEF StaleInv
  <2>1. CASE e = today + 1
    BY <1>1, <2>1
  <2>2. CASE e # today + 1
    <3>1. d \in Window /\ e \in Window /\ d # today + 1
      BY <1>2, <1>5, <1>6, <2>2
    <3> QED
      BY <1>1, <3>1 DEF StaleInv
  <2> QED
    BY <2>1, <2>2
<1> QED
  BY <1>1, <1>4, <1>7, <1>8 DEF SparesSettled

LEMMA LateEventsSpares ==
  ASSUME StoresInv, StaleInv, NEW from \in Days, NEW deed, LateEvents(from, deed)
  PROVE  SparesSettled /\ StaleInv'
<1>1. /\ Change(from) /\ deeds' = [deeds EXCEPT ![from] = deeds[from] \cup {deed}]
      /\ UNCHANGED <<baseline, model, org, findings, scores, alerts, cases>>
  BY DEF LateEvents
<1>2. ASSUME NEW d \in Settled' PROVE Spared(d)
  <2>1. d \in Settled /\ d < from
    BY <1>1, <1>2, ChangeIs
  <2>2. d \in Days
    BY <2>1, SettledAre
  <2>3. \A e \in 1..d : e \in Days /\ e # from
    BY <2>1, <2>2, ConstantsAre DEF Days
  <2>4. \A e \in 1..d : deeds'[e] = deeds[e] /\ model'[e] = model[e] /\ cases'[e] = cases[e]
    BY <1>1, <2>3 DEF StoresInv
  <2> QED
    BY <1>1, <2>1, <2>4, SameCounts DEF Spared
<1>3. \A d \in Days : deeds[d] # {} => deeds'[d] # {}
  BY <1>1 DEF StoresInv
<1>4. 1..today \subseteq Days
  BY ConstantsAre DEF StoresInv, Days
<1> QED
  BY <1>1, <1>2, <1>3, <1>4, ChangeIs DEF SparesSettled

LEMMA ActSpares ==
  ASSUME StoresInv, StaleInv, NEW k \in Sources \X Days, NEW status, Act(k, status)
  PROVE  SparesSettled /\ StaleInv'
<1>1. /\ Change(k[2]) /\ alerts' = [alerts EXCEPT ![k] = [alerts[k] EXCEPT !.status = status]]
      /\ UNCHANGED <<deeds, baseline, model, org, findings, scores, cases>>
  BY DEF Act
<1>2. k[2] \in Days
  OBVIOUS
<1>3. ASSUME NEW d \in Settled' PROVE Spared(d)
  <2>1. d \in Settled /\ d < k[2]
    BY <1>1, <1>2, <1>3, ChangeIs
  <2>2. d \in Days
    BY <2>1, SettledAre
  <2>3. ASSUME NEW j \in Sources \X Days, j[2] <= d PROVE alerts'[j] = alerts[j]
    <3>1. j # k
      BY <1>2, <2>1, <2>2, <2>3, ConstantsAre DEF Days
    <3> QED
      BY <1>1, <3>1 DEF StoresInv
  <2>4. \A j \in Sources \X Days : j[2] <= d => Counts(alerts, alerts', j)
    BY <2>3 DEF Counts, EngagedIn
  <2>5. <<"risk", d>> \in Sources \X Days /\ <<"risk", d>>[2] <= d
    BY <2>2, ConstantsAre DEF Sources, Days
  <2>6. alerts'[<<"risk", d>>] = alerts[<<"risk", d>>]
    BY <2>3, <2>5
  <2> QED
    BY <1>1, <2>1, <2>4, <2>6 DEF Spared
<1> QED
  BY <1>1, <1>2, <1>3, ChangeIs DEF SparesSettled

LEMMA StartCaseSpares ==
  ASSUME StoresInv, StaleInv, NEW from \in Days, NEW severity, StartCase(from, severity)
  PROVE  SparesSettled /\ StaleInv'
<1>1. /\ Change(from) /\ cases' = [cases EXCEPT ![from] = severity]
      /\ UNCHANGED <<deeds, baseline, model, org, findings, scores, alerts>>
  BY DEF StartCase
<1>2. ASSUME NEW d \in Settled' PROVE Spared(d)
  <2>1. d \in Settled /\ d < from
    BY <1>1, <1>2, ChangeIs
  <2>2. d \in Days
    BY <2>1, SettledAre
  <2>3. \A e \in 1..d : e \in Days /\ e # from
    BY <2>1, <2>2, ConstantsAre DEF Days
  <2>4. \A e \in 1..d : deeds'[e] = deeds[e] /\ model'[e] = model[e] /\ cases'[e] = cases[e]
    BY <1>1, <2>3 DEF StoresInv
  <2> QED
    BY <1>1, <2>1, <2>4, SameCounts DEF Spared
<1> QED
  BY <1>1, <1>2, ChangeIs DEF SparesSettled

LEMMA DirectoryChangesSpares ==
  ASSUME StoresInv, StaleInv, NEW new, DirectoryChanges(new)
  PROVE  SparesSettled /\ StaleInv'
<1>1. Change(1) /\ UNCHANGED <<deeds, baseline, model, findings, scores, alerts, cases>>
  BY DEF DirectoryChanges
<1>2. ASSUME NEW d \in Settled' PROVE FALSE
  <2>1. d \in Settled /\ d < 1
    BY <1>1, <1>2, ChangeIs
  <2> QED
    BY <2>1, SettledAre
<1> QED
  BY <1>1, <1>2, ChangeIs DEF SparesSettled

(* The model's results raise no alert that counts yet, and change none there is. *)
LEMMA ModelAlertsDoNotCount ==
  ASSUME NEW k, NEW result, alerts'[k] \in {alerts[k], ModelAlert(alerts[k], result)}
  PROVE  Counts(alerts, alerts', k)
<1>1. CASE alerts'[k] = alerts[k]
  BY <1>1 DEF Counts, EngagedIn
<1>2. CASE alerts'[k] # alerts[k]
  BY <1>2, ModelAlertIs, FreshIsOpen DEF Counts, EngagedIn
<1> QED
  BY <1>1, <1>2

LEMMA GenerateSpares ==
  ASSUME StoresInv, StaleInv, Generate
  PROVE  SparesSettled /\ StaleInv'
<1>1. /\ alerts' = [k \in DOMAIN alerts |->
            IF k[1] = "model" THEN ModelAlert(alerts[k], model[k[2]]) ELSE alerts[k]]
      /\ UNCHANGED <<today, deeds, baseline, model, org, findings, scores, cases, stale>>
  BY DEF Generate
<1>2. Settled' = Settled /\ (StaleInv => StaleInv')
  BY <1>1 DEF Settled, Window, StaleInv
<1>3. ASSUME NEW k \in Sources \X Days
      PROVE  /\ k[1] = "risk" => alerts'[k] = alerts[k]
             /\ Counts(alerts, alerts', k)
  <2>1. k[1] = "risk" => alerts'[k] = alerts[k]
    BY <1>1 DEF StoresInv
  <2>2. alerts'[k] \in {alerts[k], ModelAlert(alerts[k], model[k[2]])}
    BY <1>1 DEF StoresInv
  <2> QED
    BY <2>1, <2>2, ModelAlertsDoNotCount
<1>4. ASSUME NEW d \in Settled PROVE Spared(d)
  <2>1. d \in Days
    BY SettledAre
  <2>2. <<"risk", d>> \in Sources \X Days /\ <<"risk", d>>[1] = "risk"
    BY <2>1 DEF Sources
  <2> QED
    BY <1>1, <1>3, <2>2 DEF Spared
<1> QED
  BY <1>1, <1>2, <1>4 DEF SparesSettled

LEMMA ViewProfileSpares ==
  ASSUME StoresInv, StaleInv, ViewProfile
  PROVE  SparesSettled /\ StaleInv'
<1>1. Change(Min(Window)) /\ UNCHANGED <<deeds, model, org, findings, scores, alerts, cases>>
  BY DEF ViewProfile
<1>2. today \in Nat \ {0} /\ today <= MaxDays /\ MaxDays \in Nat
  BY <1>1, ConstantsAre DEF StoresInv, Change
<1>3. Min(Window) \in 1..today /\ Window = Min(Window)..today
  BY <1>2, WindowIs, TodaysWindow
<1>4. PICK first : first = Min(Window)
  OBVIOUS
<1>5. first \in Days
  BY <1>2, <1>3, <1>4 DEF Days
<1>6. /\ today' = today /\ \A d \in Settled' : d \in Settled /\ d < first
      /\ StaleInv'
  BY <1>1, <1>4, <1>5, ChangeIs
<1>7. ASSUME NEW d \in Settled' PROVE FALSE
  <2>1. d \in first..today /\ d < first
    BY <1>3, <1>4, <1>6, <1>7 DEF Settled
  <2> QED
    BY <1>2, <1>3, <1>4, <2>1
<1> QED
  BY <1>1, <1>6, <1>7 DEF SparesSettled

LEMMA DetectAgainSpares ==
  ASSUME StoresInv, StaleInv, NEW from \in Days, NEW row, DetectAgain(from, row)
  PROVE  SparesSettled /\ StaleInv'
<1>1. /\ Change(from) /\ model' = [model EXCEPT ![from] = Verdict(row, baseline.learned)]
      /\ alerts' = [alerts EXCEPT ![<<"model", from>>] =
                        ModelAlert(alerts[<<"model", from>>], Verdict(row, baseline.learned))]
      /\ UNCHANGED <<deeds, baseline, org, findings, scores, cases>>
  BY DEF DetectAgain
<1>2. ASSUME NEW d \in Settled' PROVE Spared(d)
  <2>1. d \in Settled /\ d < from
    BY <1>1, <1>2, ChangeIs
  <2>2. d \in Days
    BY <2>1, SettledAre
  <2>3. \A e \in 1..d : e \in Days /\ e # from
    BY <2>1, <2>2, ConstantsAre DEF Days
  <2>4. \A e \in 1..d : deeds'[e] = deeds[e] /\ model'[e] = model[e] /\ cases'[e] = cases[e]
    BY <1>1, <2>3 DEF StoresInv
  <2>5. ASSUME NEW k \in Sources \X Days PROVE Counts(alerts, alerts', k)
    <3>1. alerts'[k] \in {alerts[k], ModelAlert(alerts[k], Verdict(row, baseline.learned))}
      BY <1>1 DEF StoresInv
    <3> QED
      BY <3>1, ModelAlertsDoNotCount
  <2>6. <<"risk", d>> \in Sources \X Days /\ <<"risk", d>> # <<"model", from>>
    BY <2>2 DEF Sources
  <2>7. alerts'[<<"risk", d>>] = alerts[<<"risk", d>>]
    BY <1>1, <2>6 DEF StoresInv
  <2> QED
    BY <1>1, <2>1, <2>4, <2>5, <2>7 DEF Spared
<1> QED
  BY <1>1, <1>2, ChangeIs DEF SparesSettled

-----------------------------------------------------------------------------
(* What a settled day shows. *)

LiveOn(d) == Live(d, SignalsFrom(today, model, alerts, cases, findings))

LEMMA LiveOnIs == \A d : LiveOn(d) = Live(d, SignalsFor(findings, model))
BY SignalsAre DEF LiveOn

FoundInv == \A d \in Settled : findings[d] = JudgedBy(deeds, org, 1, d) \/ Forgotten

\* The model has judged the day by what it is now and by the baseline of now.
ModelInv == \A d \in Settled : deeds[d] # {} => model[d] = Verdict(deeds[d], baseline.learned)

ScoreInv == \A d \in Settled : scores[d] = Scored(d, LiveOn(d))

Shown(d) ==
    Warranted(d, findings[d], LiveOn(d)) =>
        /\ alerts[<<"risk", d>>] # NoAlert
        /\ alerts[<<"risk", d>>].status = "OPEN" =>
             /\ alerts[<<"risk", d>>].priority = scores[d].priority
             /\ alerts[<<"risk", d>>].findings = findings[d]

AlertInv == \A d \in Settled : Shown(d)

IInv == StoresInv /\ StaleInv /\ FoundInv /\ ModelInv /\ ScoreInv /\ AlertInv

LEMMA InitIInv == Init => IInv
<1> SUFFICES ASSUME Init PROVE IInv
  OBVIOUS
<1>1. Window = {}
  BY DEF Init, Window
<1> QED
  BY <1>1, StoresInit DEF IInv, StaleInv, FoundInv, ModelInv, ScoreInv, AlertInv, Settled

LEMMA SparedLive ==
  ASSUME StoresInv, StoresInv', today' \in Nat, today' >= today, findings' = findings,
         NEW d \in Settled, Spared(d)
  PROVE  LiveOn(d)' = LiveOn(d)
<1>1. today \in Nat /\ d \in 1..today /\ d <= today'
  BY SettledAre, ConstantsAre DEF StoresInv
<1>2. /\ SameUntil(model, model', d) /\ SameUntil(cases, cases', d) /\ SameUntil(findings, findings', d)
      /\ CountUntil(alerts, alerts', d)
  BY DEF Spared, StoresInv, SameUntil, CountUntil
<1>3. Live(d, SignalsFrom(today', model', alerts', cases', findings'))
         = Live(d, SignalsFrom(today, model, alerts, cases, findings))
  BY <1>1, <1>2, LiveAgree
<1> QED
  BY <1>3 DEF LiveOn

LEMMA SparesKeep ==
  ASSUME IInv, StoresInv', today' \in Nat, today' >= today, SparesSettled
  PROVE  FoundInv' /\ ModelInv' /\ ScoreInv' /\ AlertInv'
<1> USE DEF IInv
<1>1. ASSUME NEW d \in Settled' PROVE Spared(d) /\ d \in Settled /\ LiveOn(d)' = LiveOn(d)
  <2>1. Spared(d) /\ d \in Settled
    BY <1>1 DEF SparesSettled, Spared
  <2> QED
    BY <2>1, SparedLive DEF SparesSettled
<1>2. ASSUME NEW d \in Settled' PROVE findings'[d] = JudgedBy(deeds', org', 1, d) \/ Forgotten'
  <2>1. Spared(d) /\ d \in Settled
    BY <1>1, <1>2
  <2>2. CASE Forgotten
    <3>1. today \in Nat \ {0}
      BY <2>1, SettledAre
    <3> QED
      BY <2>2, <3>1, ForgottenStays DEF SparesSettled
  <2>3. CASE ~Forgotten
    <3>1. findings'[d] = JudgedBy(deeds, org, 1, d)
      BY <2>1, <2>3 DEF FoundInv, SparesSettled
    <3>2. d \in Nat \ {0}
      BY <2>1, SettledAre
    <3>3. JudgedBy(deeds', org, 1, d) = JudgedBy(deeds, org, 1, d)
      BY <2>1, <3>2, JudgedAgree DEF Spared
    <3> QED
      BY <2>1, <3>1, <3>3 DEF Spared
  <2> QED
    BY <2>2, <2>3
<1>3. ASSUME NEW d \in Settled' PROVE scores'[d] = Scored(d, LiveOn(d)')
  BY <1>1, <1>3 DEF ScoreInv, SparesSettled
<1>4. ASSUME NEW d \in Settled' PROVE Shown(d)'
  <2>1. Shown(d) /\ Spared(d) /\ LiveOn(d)' = LiveOn(d)
    BY <1>1, <1>4 DEF AlertInv
  <2> QED
    BY <2>1 DEF Shown, Spared, SparesSettled
<1>5. ASSUME NEW d \in Settled', deeds'[d] # {} PROVE model'[d] = Verdict(deeds'[d], baseline'.learned)
  <2>1. Spared(d) /\ d \in Settled /\ d \in 1..d
    BY <1>1, <1>5, SettledAre
  <2>2. deeds'[d] = deeds[d] /\ model'[d] = model[d] /\ baseline' = baseline
    BY <2>1 DEF Spared
  <2> QED
    BY <1>5, <2>1, <2>2 DEF ModelInv
<1> QED
  BY <1>2, <1>3, <1>4, <1>5 DEF FoundInv, ModelInv, ScoreInv, AlertInv

LEMMA RunSettles ==
  ASSUME IInv, StoresInv', Run
  PROVE  StaleInv' /\ FoundInv' /\ ModelInv' /\ ScoreInv' /\ AlertInv'
<1> DEFINE found == FoundInRun
           results == ResultsOfRun
           live(d) == LiveInRun(d)
<1>1. /\ findings' = found /\ model' = results /\ baseline' = Refreshed
      /\ scores' = [d \in Days |-> IF d \in Window THEN Scored(d, live(d)) ELSE scores[d]]
      /\ alerts' = [k \in DOMAIN alerts |->
            IF k[1] = "risk" /\ k[2] \in Window
            THEN Raised(alerts[k], k[2], found[k[2]], live(k[2])) ELSE alerts[k]]
      /\ stale' = stale \ Window
      /\ UNCHANGED <<today, deeds, org, cases>>
  BY RunIs
<1>2. \A d \in Window :
         /\ d \in Days /\ found[d] = Judged(HistoryStart, d)
         /\ deeds[d] # {} => results[d] = Verdict(deeds[d], Refreshed.learned)
  BY ConstantsAre DEF IInv, StoresInv, Window, Days, FoundInRun, ResultsOfRun
<1>3. \A d : live(d) = Live(d, SignalsFrom(today, results, alerts, cases, found))
  BY SignalsAre DEF LiveInRun
<1> HIDE DEF found, results, live
<1>4. Window' = Window /\ Settled' \subseteq Window /\ (Forgotten' <=> Forgotten)
  BY <1>1 DEF Window, Settled, Forgotten
<1>5. today \in Nat /\ Window \subseteq 1..today
  BY ConstantsAre DEF IInv, StoresInv, Window
<1>6. ASSUME NEW k \in Sources \X Days
      PROVE  Counts(alerts, alerts', k)
  <2>1. CASE k[1] = "risk" /\ k[2] \in Window
    <3>1. alerts'[k] = Raised(alerts[k], k[2], found[k[2]], live(k[2]))
      BY <1>1, <2>1 DEF IInv, StoresInv
    <3>2. \/ alerts'[k] = alerts[k]
          \/ /\ alerts'[k] # NoAlert /\ alerts'[k].status = "OPEN"
             /\ alerts[k] = NoAlert \/ alerts[k].status = "OPEN"
      BY <3>1, RaisedIs, FreshIsOpen
    <3> QED
      BY <3>2 DEF Counts, EngagedIn
  <2>2. CASE ~(k[1] = "risk" /\ k[2] \in Window)
    <3>1. alerts'[k] = alerts[k]
      BY <1>1, <2>2 DEF IInv, StoresInv
    <3> QED
      BY <3>1 DEF Counts, EngagedIn
  <2> QED
    BY <2>1, <2>2
<1>7. ASSUME NEW d \in Window PROVE LiveOn(d)' = live(d)
  <2>1. d \in 1..today
    BY <1>5
  <2>2. /\ SameUntil(results, results, d) /\ SameUntil(cases, cases, d) /\ SameUntil(found, found, d)
        /\ CountUntil(alerts, alerts', d)
    BY <1>6 DEF IInv, StoresInv, SameUntil, CountUntil
  <2>3. d <= today
    BY <1>5
  <2>4. Live(d, SignalsFrom(today, results, alerts', cases, found))
           = Live(d, SignalsFrom(today, results, alerts, cases, found))
    BY <1>5, <2>1, <2>2, <2>3, LiveAgree
  <2> QED
    BY <1>1, <1>3, <2>4 DEF LiveOn
<1>8. StaleInv'
  BY <1>1, <1>4 DEF StaleInv
<1>9. ASSUME NEW d \in Settled' PROVE findings'[d] = JudgedBy(deeds', org', 1, d) \/ Forgotten'
  <2>1. d \in Window /\ findings'[d] = Judged(HistoryStart, d)
    BY <1>1, <1>2, <1>4, <1>9
  <2>2. today \in Nat \ {0}
    BY <1>5, <2>1
  <2>3. Judged(HistoryStart, d) = Judged(1, d) \/ Forgotten
    BY <2>1, <2>2, ReplayMatches
  <2> QED
    BY <1>1, <1>4, <2>1, <2>3, JudgedIs
<1>10. ASSUME NEW d \in Settled' PROVE scores'[d] = Scored(d, LiveOn(d)')
  <2>1. d \in Window /\ d \in Days
    BY <1>2, <1>4, <1>10
  <2> QED
    BY <1>1, <1>7, <2>1
<1>11. ASSUME NEW d \in Settled' PROVE Shown(d)'
  <2>1. d \in Window /\ d \in Days
    BY <1>2, <1>4, <1>11
  <2>2. <<"risk", d>> \in Sources \X Days
    BY <2>1 DEF Sources
  <2>3. alerts'[<<"risk", d>>] = Raised(alerts[<<"risk", d>>], d, found[d], live(d))
    BY <1>1, <2>1, <2>2 DEF IInv, StoresInv
  <2>4. scores'[d].priority = Priority(d, live(d))
    BY <1>1, <2>1 DEF Scored
  <2>5. findings'[d] = found[d] /\ LiveOn(d)' = live(d)
    BY <1>1, <1>7, <2>1
  <2>6. ASSUME Warranted(d, found[d], live(d))
        PROVE  /\ alerts'[<<"risk", d>>] # NoAlert
               /\ alerts'[<<"risk", d>>].status = "OPEN" =>
                     /\ alerts'[<<"risk", d>>].priority = Priority(d, live(d))
                     /\ alerts'[<<"risk", d>>].findings = found[d]
    BY <2>3, <2>6, RaisedIs, FreshIsOpen
  <2> QED
    BY <2>4, <2>5, <2>6 DEF Shown
<1>12. ASSUME NEW d \in Settled', deeds'[d] # {} PROVE model'[d] = Verdict(deeds'[d], baseline'.learned)
  BY <1>1, <1>2, <1>4, <1>12
<1> QED
  BY <1>8, <1>9, <1>10, <1>11, <1>12 DEF FoundInv, ModelInv, ScoreInv, AlertInv

LEMMA NextIInv ==
  ASSUME IInv, [Next]_vars
  PROVE  IInv'
<1>1. StoresInv' /\ today' \in Nat /\ today' >= today
  BY StoresNext DEF IInv
<1>2. CASE Run
  BY <1>1, <1>2, RunSettles DEF IInv
<1>3. ASSUME SparesSettled, StaleInv' PROVE IInv'
  BY <1>1, <1>3, SparesKeep DEF IInv
<1>4. CASE Generate
  BY <1>3, <1>4, GenerateSpares DEF IInv
<1>5. CASE \E choice \in DayChoices : NewDay(choice)
  BY <1>3, <1>5, NewDaySpares DEF IInv
<1>6. CASE \E d \in Days, deed \in DOMAIN Deeds : LateEvents(d, deed)
  BY <1>3, <1>6, LateEventsSpares DEF IInv
<1>7. CASE \E k \in DOMAIN alerts, status \in {"ACKNOWLEDGED", "FALSE_POSITIVE"} : Act(k, status)
  BY <1>3, <1>7, ActSpares DEF IInv, StoresInv
<1>8. CASE \E d \in Days, severity \in CaseSeverities : StartCase(d, severity)
  BY <1>3, <1>8, StartCaseSpares DEF IInv
<1>9. CASE \E new \in Orgs : DirectoryChanges(new)
  BY <1>3, <1>9, DirectoryChangesSpares DEF IInv
<1>10. CASE ViewProfile
  BY <1>3, <1>10, ViewProfileSpares DEF IInv
<1>11. CASE \E d \in Days, row \in SUBSET DOMAIN Deeds : DetectAgain(d, row)
  BY <1>3, <1>11, DetectAgainSpares DEF IInv
<1>12. CASE UNCHANGED vars
  <2>1. Settled' = Settled /\ (Forgotten' <=> Forgotten) /\ StaleInv'
    BY <1>12 DEF vars, Settled, Window, Forgotten, IInv, StaleInv
  <2>2. \A d : LiveOn(d)' = LiveOn(d)
    BY <1>12 DEF vars, LiveOn
  <2> QED
    BY <1>1, <1>12, <2>1, <2>2 DEF vars, IInv, FoundInv, ModelInv, ScoreInv, AlertInv, Shown
<1> QED
  BY <1>2, <1>4, <1>5, <1>6, <1>7, <1>8, <1>9, <1>10, <1>11, <1>12 DEF Next

LEMMA AlwaysIInv == Spec => []IInv
BY InitIInv, NextIInv, PTL DEF Spec

-----------------------------------------------------------------------------
(* The theorems. *)

(* "Results match a full dataset replay of the same days": the findings of a *)
(* settled day are those of judging it with every day there ever was.        *)
THEOREM ReplayHolds == Spec => []WindowMatchesReplay
<1>1. IInv => WindowMatchesReplay
  BY JudgedIs DEF IInv, FoundInv, WindowMatchesReplay
<1> QED
  BY <1>1, AlwaysIInv, PTL

(* An alert nobody has picked up shows the priority and the findings of its *)
(* day as they were computed last, however late its events arrived.         *)
THEOREM OpenAlertsAreCurrent == Spec => []OpenAlertCurrent
<1>1. IInv => OpenAlertCurrent
  BY LiveOnIs DEF IInv, AlertInv, Shown, OpenAlertCurrent
<1> QED
  BY <1>1, AlwaysIInv, PTL

LEMMA ImageIsFinite ==
  ASSUME NEW S, IsFiniteSet(S), NEW f
  PROVE  IsFiniteSet({f[x] : x \in S})
<1> DEFINE T == {f[x] : x \in S}
           g == [x \in S |-> f[x]]
<1>1. g \in Surjection(S, T)
  BY DEF Surjection
<1> QED
  BY <1>1, FS_Surjection

LEMMA SignalsAreFinite ==
  ASSUME StoresInv
  PROVE  IsFiniteSet(SignalsFrom(today, model, alerts, cases, findings))
<1>1. today \in Nat /\ today <= MaxDays /\ MaxDays \in Nat
  BY ConstantsAre DEF StoresInv
<1>2. IsFiniteSet(1..today) /\ IsFiniteSet(Days)
  BY <1>1, FS_Interval DEF Days
<1>3. IsFiniteSet(OfFindings(today, findings))
  <2> DEFINE Sets == {FoundOn(findings, d) : d \in 1..today}
  <2>1. IsFiniteSet(Sets)
    <3> DEFINE g == [d \in 1..today |-> FoundOn(findings, d)]
    <3>1. Sets = {g[d] : d \in 1..today}
      OBVIOUS
    <3> HIDE DEF g, Sets
    <3> QED
      BY <1>2, <3>1, ImageIsFinite
  <2>2. ASSUME NEW d \in 1..today PROVE IsFiniteSet(FoundOn(findings, d))
    <3>1. IsFiniteSet(findings[d])
      BY <1>1 DEF StoresInv, Days
    <3> DEFINE g == [f \in findings[d] |->
                       Signal(d, f.component, f.severity, <<"finding", d, f.detector>>)]
    <3>2. FoundOn(findings, d) = {g[f] : f \in findings[d]}
      BY DEF FoundOn
    <3> HIDE DEF g
    <3> QED
      BY <3>1, <3>2, ImageIsFinite
  <2>3. \A T \in Sets : IsFiniteSet(T)
    BY <2>2
  <2>4. OfFindings(today, findings) = UNION Sets
    BY DEF OfFindings
  <2> HIDE DEF Sets
  <2> QED
    BY <2>1, <2>3, <2>4, FS_UNION
<1>4. IsFiniteSet(OfModel(today, model))
  <2>1. IsFiniteSet({e \in 1..today : model[e] > 0})
    BY <1>2, FS_Subset
  <2> DEFINE S == {e \in 1..today : model[e] > 0}
             g == [e \in S |-> Signal(e, "behavioral", model[e], <<"model", e>>)]
  <2>4. OfModel(today, model) = {g[e] : e \in S}
    BY DEF OfModel
  <2> HIDE DEF g
  <2> QED
    BY <2>1, <2>4, ImageIsFinite
<1>5. IsFiniteSet(OfAlerts(alerts))
  <2>1. IsFiniteSet(Sources)
    <3>1. IsFiniteSet({"risk"}) /\ IsFiniteSet({"model"})
      BY FS_Singleton
    <3>2. Sources = {"risk"} \cup {"model"}
      BY DEF Sources
    <3> QED
      BY <3>1, <3>2, FS_Union
  <2>2. IsFiniteSet(DOMAIN alerts)
    BY <1>2, <2>1, FS_Product DEF StoresInv
  <2>3. IsFiniteSet({k \in DOMAIN alerts : EngagedIn(alerts, k)})
    <3>1. {k \in DOMAIN alerts : EngagedIn(alerts, k)} \subseteq DOMAIN alerts
      OBVIOUS
    <3> QED
      BY <2>2, <3>1, FS_Subset
  <2> DEFINE S == {k \in DOMAIN alerts : EngagedIn(alerts, k)}
             g == [k \in S |-> Signal(k[2], "historical", SeverityWeight[alerts[k].severity], <<"alert", k>>)]
  <2>4. OfAlerts(alerts) = {g[k] : k \in S}
    <3>1. \A k \in S : g[k] = Signal(k[2], "historical", SeverityWeight[alerts[k].severity], <<"alert", k>>)
      OBVIOUS
    <3>2. OfAlerts(alerts) =
            {Signal(k[2], "historical", SeverityWeight[alerts[k].severity], <<"alert", k>>) : k \in S}
      BY DEF OfAlerts
    <3> HIDE DEF g, S
    <3> QED
      BY <3>1, <3>2
  <2> HIDE DEF g
  <2> QED
    BY <2>3, <2>4, ImageIsFinite
<1>6. IsFiniteSet(OfCases(today, cases))
  <2>1. IsFiniteSet({e \in 1..today : cases[e] > 0})
    BY <1>2, FS_Subset
  <2> DEFINE S == {e \in 1..today : cases[e] > 0}
             g == [e \in S |-> Signal(e, "historical", cases[e], <<"case", e>>)]
  <2>4. OfCases(today, cases) = {g[e] : e \in S}
    BY DEF OfCases
  <2> HIDE DEF g
  <2> QED
    BY <2>1, <2>4, ImageIsFinite
<1> QED
  BY <1>3, <1>4, <1>5, <1>6, FS_Union DEF SignalsFrom

(* The model's result of a settled day that raised no alert was pushed out of *)
(* the five signals by heavier ones, all older or historical.                 *)
LEMMA HiddenByOlder ==
  ASSUME StoresInv, NEW d \in Settled, findings[d] = {}, model[d] > 0,
         ~ModelToday(d, LiveOn(d))
  PROVE  Cardinality({s \in LiveOn(d) : s.day < d \/ Historical(s)}) >= 5
<1> DEFINE live == LiveOn(d)
           older == {t \in live : t.day < d \/ Historical(t)}
           s == Signal(d, "behavioral", model[d], <<"model", d>>)
<1>1. d \in 1..today /\ d \in Nat /\ d \in Days
  BY SettledAre
<1>2. model[d] > 0
  OBVIOUS
<1>3. s \in SignalsFrom(today, model, alerts, cases, findings)
  BY <1>1, <1>2 DEF OfModel, SignalsFrom
<1>4. /\ s.day = d /\ s.ref[1] = "model" /\ ~Historical(s)
  BY DEF Signal, Historical
<1>5. s \in live
  BY <1>1, <1>3, <1>4, ConstantsAre DEF LiveOn, Live
<1>6. s \in Today(d, live)
  BY <1>4, <1>5 DEF Today
<1>7. ~(Cardinality(Ahead(d, s, live)) < 5)
  BY <1>4, <1>6 DEF ModelToday
<1>8. live \subseteq SignalsFrom(today, model, alerts, cases, findings)
  BY DEF LiveOn, Live
<1>9. IsFiniteSet(live) /\ IsFiniteSet(older)
  <2>1. IsFiniteSet(live)
    BY <1>8, SignalsAreFinite, FS_Subset
  <2> QED
    BY <2>1, FS_Subset
<1>10. ASSUME NEW t \in Ahead(d, s, live) PROVE t \in older
  <2>1. t \in live /\ t # s
    BY <1>10 DEF Ahead
  <2>2. t \in SignalsFrom(today, model, alerts, cases, findings) /\ t.day <= d
    BY <2>1 DEF LiveOn, Live
  <2>3. CASE t \in OfFindings(today, findings)
    <3>1. PICK e \in 1..today : t \in FoundOn(findings, e)
      BY <2>3 DEF OfFindings
    <3>2. t.day = e /\ e # d
      BY <3>1 DEF FoundOn, Signal
    <3> QED
      BY <1>1, <2>1, <2>2, <3>2
  <2>4. CASE t \in OfModel(today, model)
    <3>1. PICK e \in 1..today : t = Signal(e, "behavioral", model[e], <<"model", e>>)
      BY <2>4 DEF OfModel
    <3>2. t.day = e /\ e # d
      BY <2>1, <3>1 DEF Signal
    <3> QED
      BY <1>1, <2>1, <2>2, <3>2
  <2>5. CASE t \in OfAlerts(alerts) \/ t \in OfCases(today, cases)
    <3>1. t.component = "historical"
      BY <2>5 DEF OfAlerts, OfCases, Signal
    <3> QED
      BY <2>1, <3>1 DEF Historical
  <2> QED
    BY <2>2, <2>3, <2>4, <2>5 DEF SignalsFrom
<1>11. Cardinality(Ahead(d, s, live)) <= Cardinality(older)
  <2>1. Ahead(d, s, live) \subseteq older
    BY <1>10
  <2> HIDE DEF s, live, older
  <2> QED
    BY <1>9, <2>1, FS_Subset
<1>12. Cardinality(older) \in Nat /\ Cardinality(Ahead(d, s, live)) \in Nat
  <2>1. Ahead(d, s, live) \subseteq older
    BY <1>10
  <2> HIDE DEF s, live, older
  <2> QED
    BY <1>9, <2>1, FS_Subset, FS_CardinalityType
<1> HIDE DEF s, live
<1>13. Cardinality(older) >= 5
  BY <1>7, <1>11, <1>12
<1> QED
  BY <1>13 DEF live

(* A settled day of high priority on which something happened has an alert, *)
(* unless it was the model alone and five heavier signals hide its result.  *)
THEOREM CausesRaiseAlerts == Spec => []CauseRaisesAlert
<1>1. ASSUME IInv PROVE CauseRaisesAlert
  <2> SUFFICES ASSUME NEW d \in Settled, scores[d].priority >= MinPriority,
                      alerts[<<"risk", d>>] = NoAlert, ~(findings[d] = {} /\ ~(model[d] > 0))
               PROVE  /\ findings[d] = {}
                      /\ Cardinality({s \in Live(d, SignalsFor(findings, model)) : s.day < d \/ Historical(s)}) >= 5
    BY DEF CauseRaisesAlert
  <2>0. Shown(d) /\ scores[d] = Scored(d, LiveOn(d))
    BY <1>1 DEF IInv, AlertInv, ScoreInv
  <2>1. ~Warranted(d, findings[d], LiveOn(d)) /\ scores[d].priority = Priority(d, LiveOn(d))
    BY <2>0 DEF Shown, Scored
  <2>2. findings[d] = {} /\ ~ModelToday(d, LiveOn(d)) /\ model[d] > 0
    BY <2>0, <2>1 DEF Warranted, Scored
  <2>3. Cardinality({s \in LiveOn(d) : s.day < d \/ Historical(s)}) >= 5
    BY <1>1, <2>2, HiddenByOlder DEF IInv
  <2> QED
    BY <2>2, <2>3, LiveOnIs
<1> QED
  BY <1>1, AlwaysIInv, PTL

(* A run gives a day that is settled the score it had: nothing of tomorrow, *)
(* and no alert that waits for an analyst, raises it.  The model judges the *)
(* days of the window anew each time (detection_pipeline.py, detect), and   *)
(* says the same of them until a baseline that is renewed says otherwise.   *)
THEOREM ScoresHaveCauses == Spec => OnlyCausesChangeScores
<1>1. ASSUME IInv, Run, NEW d \in Settled, ~Forgotten, ~NewYardstick(d) PROVE scores'[d] = scores[d]
  <2> DEFINE found == FoundInRun
             results == ResultsOfRun
  <2>1. /\ scores' = [e \in Days |-> IF e \in Window THEN Scored(e, LiveInRun(e)) ELSE scores[e]]
        /\ model' = results /\ baseline' = Refreshed
    BY <1>1, RunIs
  <2>2. d \in 1..today /\ d \in Days /\ today \in Nat \ {0} /\ today \in Nat /\ d \in Window /\ d \in Nat
    BY <1>1, SettledAre DEF IInv, Settled
  <2>3. 1..d \subseteq Days /\ today \in Int /\ today <= MaxDays
    <3>1. today \in Int /\ today <= MaxDays /\ MaxDays \in Int
      BY <1>1, ConstantsAre DEF IInv, StoresInv
    <3> QED
      BY <2>2, <3>1 DEF Days
  <2>4. ASSUME NEW e \in 1..d, e \in Window PROVE e \in Settled
    <3>1. e <= d /\ d \notin stale
      BY <1>1, <2>2 DEF Settled
    <3> QED
      BY <1>1, <2>2, <2>4, <3>1 DEF IInv, StaleInv, Settled
  <2>5. ASSUME NEW e \in 1..d PROVE found[e] = findings[e]
    <3>1. e \in Days
      BY <2>3
    <3>2. CASE e \in Window
      <4>1. findings[e] = JudgedBy(deeds, org, 1, e)
        BY <1>1, <2>4, <3>2 DEF IInv, FoundInv
      <4>2. Judged(HistoryStart, e) = Judged(1, e)
        BY <1>1, <2>2, <3>2, ReplayMatches
      <4> QED
        BY <3>1, <3>2, <4>1, <4>2, JudgedIs DEF FoundInRun
    <3>3. CASE e \notin Window
      BY <3>1, <3>3 DEF FoundInRun
    <3> QED
      BY <3>2, <3>3
  <2>6. ASSUME NEW e \in 1..d PROVE results[e] = model[e]
    <3>1. e \in Days
      BY <2>3
    <3>2. CASE e \in Window /\ deeds[e] # {} /\ baseline' = baseline
      <4>1. model[e] = Verdict(deeds[e], baseline.learned)
        BY <1>1, <2>4, <3>2 DEF IInv, ModelInv
      <4> QED
        BY <2>1, <3>1, <3>2, <4>1 DEF ResultsOfRun
    <3>3. CASE e \in Window /\ baseline' # baseline
      <4>1. e <= d
        BY <2>2
      <4> QED
        BY <1>1, <2>1, <3>3, <4>1 DEF NewYardstick
    <3>4. CASE ~(e \in Window /\ deeds[e] # {})
      BY <3>1, <3>4 DEF ResultsOfRun
    <3> QED
      BY <3>2, <3>3, <3>4
  <2>7. LiveInRun(d) = Live(d, SignalsFrom(today, results, alerts, cases, found))
    BY SignalsAre DEF LiveInRun
  <2> HIDE DEF found, results
  <2>8. /\ SameUntil(model, results, d) /\ SameUntil(cases, cases, d) /\ SameUntil(findings, found, d)
        /\ CountUntil(alerts, alerts, d)
    BY <1>1, <2>5, <2>6 DEF IInv, StoresInv, SameUntil, CountUntil, Counts
  <2>9. d <= today
    BY <2>2
  <2>10. Live(d, SignalsFrom(today, results, alerts, cases, found)) = LiveOn(d)
    BY <2>2, <2>8, <2>9, LiveAgree DEF LiveOn
  <2>11. scores'[d] = Scored(d, LiveOn(d))
    BY <2>1, <2>2, <2>7, <2>10
  <2> QED
    BY <1>1, <2>11 DEF IInv, ScoreInv
<1>2. IInv /\ [Next]_vars =>
        [Run => \A d \in Settled :
            scores[d] = NoScore \/ scores'[d] = scores[d] \/ Forgotten \/ NewYardstick(d)]_vars
  BY <1>1
<1> QED
  BY <1>2, AlwaysIInv, PTL DEF Spec, OnlyCausesChangeScores
=============================================================================
