-------------------------- MODULE XpLedgerProofs --------------------------
(***************************************************************************)
(* For any catalogs that only grow, any number of requests, builds and     *)
(* days: what a user has earned is recorded, and what is recorded was      *)
(* earned.                                                                 *)
(*                                                                         *)
(* The user's lock makes reading what is pending and inserting it one step *)
(* as far as units and awards go; only the entry of a skill check changes  *)
(* meanwhile, which no award asks for.                                     *)
(***************************************************************************)
EXTENDS XpLedger, FiniteSetTheorems, WellFoundedInduction, TLAPS

Entries == [Keys -> Row \cup {Nil}]
Attempt == [kind : {"none", "served", "legacy"}, finished : BOOLEAN, grade : Grades \cup {Nil}]
Request == [op : {"idle", "complete", "sync", "submit"},
            at : {"idle", "lock", "decide", "commit", "save", "pay"},
            unit : Units \cup Attempts \cup {Nil}, build : Builds, day : 1..LastDay,
            rows : SUBSET Awards, grade : Grades \cup {Nil}]

Typed ==
  /\ entry \in Entries
  /\ progress \in [Lessons -> {"none", "in-progress", "completed"}]
  /\ running \in (SUBSET Builds) \ {{}} /\ today \in 1..LastDay
  /\ attempt \in [Attempts -> Attempt]
  /\ req \in [Requests -> Request]

(* What a request may rely on. *)
Good(q) ==
  /\ req[q].at \in {"lock", "decide", "commit"} =>
       \/ req[q].op = "complete" /\ req[q].unit \in Units
       \/ req[q].op = "sync" /\ req[q].unit = Nil
  /\ req[q].at \in {"save", "pay"} =>
       req[q].op = "submit" /\ req[q].unit \in Attempts /\ req[q].grade \in Grades
  /\ req[q].at = "idle" => req[q].op = "idle"
  /\ req[q].op \in {"complete", "sync"} => req[q].build \in running
  /\ req[q].at = "pay" => attempt[req[q].unit].kind = "served" /\ attempt[req[q].unit].finished

(* The lock has one holder, and what it decided still stands. *)
OneHolder == \A p, q \in Requests : Holds(p) /\ Holds(q) => p = q
Decided == \A q \in Requests : req[q].at = "commit" => req[q].rows = Pending(req[q].build, Own(q))

Requested == Typed /\ (\A q \in Requests : Good(q)) /\ OneHolder /\ Decided
Inv == Requested /\ EarnedIsRecorded /\ AwardsMakeNoActivity /\ CompletedHasXp /\ PaidForServed

-----------------------------------------------------------------------------
(* Maxima of bounded sets of numbers. *)
LEMMA MaxExists ==
  ASSUME NEW N \in Nat, NEW S \in SUBSET (0..N), S # {}
  PROVE  Max(S) \in S /\ \A y \in S : Max(S) >= y
<1> DEFINE U == 0..N
           T == {x..N : x \in S}
<1>1. IsFiniteSet(U)
  BY FS_Interval
<1>2. IsWellFoundedOn(StrictSubsetOrdering(U), FiniteSubsetsOf(U))
  BY <1>1, FS_StrictSubsetOrderingWellFounded
<1>3. T \subseteq SUBSET U /\ T # {}
  <2>1. PICK s \in S : s \in 0..N
    OBVIOUS
  <2>2. s..N \in T
    BY <2>1
  <2>3. \A x \in S : x..N \subseteq U
    OBVIOUS
  <2> QED
    BY <2>2, <2>3
<1>4. T \subseteq FiniteSubsetsOf(U)
  BY <1>1, <1>3, FS_Subset DEF FiniteSubsetsOf
<1>5. PICK m \in T : \A t \in T : ~ (<<t, m>> \in StrictSubsetOrdering(U))
  BY <1>2, <1>3, <1>4, WFMin
<1>6. PICK x \in S : m = x..N
  BY <1>5
<1>7. \A y \in S : x >= y
  <2> SUFFICES ASSUME NEW y \in S, x < y PROVE FALSE
    OBVIOUS
  <2>1. y..N \in T /\ y..N \subseteq x..N /\ x \in x..N /\ x \notin y..N
    OBVIOUS
  <2>2. <<y..N, m>> \in StrictSubsetOrdering(U)
    BY <1>3, <1>5, <1>6, <2>1 DEF StrictSubsetOrdering
  <2> QED
    BY <1>5, <2>1, <2>2
<1> QED
  BY <1>7 DEF Max

LEMMA MaxIs ==
  ASSUME NEW N \in Nat, NEW S \in SUBSET (0..N), NEW x \in S, \A y \in S : x >= y
  PROVE  Max(S) = x
<1>1. Max(S) \in S /\ Max(S) >= x
  BY MaxExists
<1>2. x >= Max(S) /\ Max(S) \in 0..N
  BY <1>1
<1> QED
  BY <1>1, <1>2

(* The newest of the builds that run. *)
LEMMA Newest ==
  ASSUME running \in (SUBSET Builds) \ {{}}
  PROVE  Max(running) \in running /\ Max(running) \in Builds /\ \A v \in running : v <= Max(running)
<1>1. LastBuild \in Nat /\ running \in SUBSET (0..LastBuild) /\ running # {}
  BY SizesAssumption DEF Builds
<1>2. Max(running) \in running /\ \A v \in running : Max(running) >= v
  BY <1>1, MaxExists
<1> QED
  BY <1>1, <1>2 DEF Builds

-----------------------------------------------------------------------------
(* Catalogs. *)
LEMMA UnitsFacts ==
  ASSUME NEW v \in Builds, NEW a \in Awards
  PROVE  UnitsOf(v, a) \subseteq Units /\ Units \subseteq Keys /\ a \in Keys /\ a \notin Units
  BY CatalogsAssumption, KeysAssumption DEF UnitsOf, Awards, Keys

LEMMA OfferedFacts ==
  ASSUME NEW v \in Builds
  PROVE  Offered(v) \subseteq Awards
  BY CatalogsAssumption DEF Offered, Badges, Awards

LEMMA UnitsGrow ==
  ASSUME NEW v \in Builds, NEW w \in Builds, v <= w, NEW a \in Awards
  PROVE  UnitsOf(v, a) \subseteq UnitsOf(w, a)
  BY CatalogsGrow, CatalogsAssumption DEF UnitsOf, Awards

LEMMA WorthFacts ==
  ASSUME NEW v \in Builds, NEW a \in Awards
  PROVE  Worth(v, a) \in Nat
<1>1. CASE a \in Sessions
  <2>1. SessionUnits[v][a] \subseteq Units
    BY <1>1, CatalogsAssumption
  <2>2. Cardinality(SessionUnits[v][a]) \in Nat
    BY <2>1, SizesAssumption, FS_Subset, FS_CardinalityType
  <2> QED
    BY <1>1, <2>2 DEF Worth
<1>2. CASE a \notin Sessions
  <2>1. SessionsOf[a] \subseteq Sessions
    BY <1>2, CatalogsAssumption DEF Awards
  <2>2. Cardinality(SessionsOf[a]) \in Nat
    BY <2>1, SizesAssumption, FS_Subset, FS_CardinalityType
  <2> DEFINE n == Cardinality(SessionsOf[a])
             S == {1, n}
  <2>3. S \in SUBSET (0..(n + 1)) /\ S # {} /\ n + 1 \in Nat
    BY <2>2
  <2>4. Max(S) \in S
    BY <2>3, MaxExists
  <2>5. Max(S) \in Nat
    BY <2>2, <2>4
  <2> QED
    BY <1>2, <2>5 DEF Worth
<1> QED
  BY <1>1, <1>2

(* An award that is complete carries the day of one of its units. *)
LEMMA CompletedOnFacts ==
  ASSUME NEW v \in Builds, NEW a \in Awards, NEW e \in Entries, Complete(v, a, e)
  PROVE  \E u \in UnitsOf(v, a) : e[u] \in Row /\ CompletedOn(v, a, e) = e[u].day
<1> DEFINE D == {e[u].day : u \in UnitsOf(v, a) \cap Recorded(e)}
           S == {0} \cup D
<1>1. \A u \in UnitsOf(v, a) : u \in Recorded(e) /\ e[u] \in Row
  BY UnitsFacts DEF Complete, Recorded, Entries
<1>2. \A u \in UnitsOf(v, a) : e[u].day \in 1..LastDay
  BY <1>1 DEF Row
<1>3. D \subseteq 1..LastDay /\ D # {}
  BY <1>1, <1>2 DEF Complete
<1>4. LastDay \in Nat /\ S \in SUBSET (0..LastDay) /\ S # {}
  BY <1>3, SizesAssumption
<1>5. Max(S) \in S /\ \A y \in S : Max(S) >= y
  BY <1>4, MaxExists
<1>6. PICK d \in D : d \in S /\ d \in 1..LastDay
  BY <1>3
<1>7. Max(S) >= d /\ Max(S) \in 0..LastDay
  BY <1>4, <1>5, <1>6
<1>8. Max(S) # 0
  BY <1>6, <1>7
<1>9. Max(S) \in D
  BY <1>5, <1>8
<1> QED
  BY <1>1, <1>9 DEF CompletedOn

-----------------------------------------------------------------------------
(* The rows inserted. *)
LEMMA InsertFacts ==
  ASSUME NEW e \in Entries, NEW K \in SUBSET Keys, NEW rows \in [K -> Row]
  PROVE  LET f == InsertOnce(e, rows) IN
         /\ f \in Entries
         /\ \A k \in Keys : e[k] # Nil => f[k] = e[k]
         /\ \A k \in Keys \ K : f[k] = e[k]
         /\ \A k \in K : f[k] # Nil /\ (e[k] = Nil => f[k] = rows[k])
  BY KeysAssumption DEF InsertOnce, Entries

LEMMA WithUnitFacts ==
  ASSUME NEW e \in Entries, NEW u \in Units, NEW d \in 1..LastDay
  PROVE  LET f == WithUnit(e, u, d) IN
         /\ f \in Entries
         /\ \A k \in Keys : e[k] # Nil => f[k] = e[k]
         /\ \A k \in Keys \ {u} : f[k] = e[k]
         /\ f[u] # Nil
<1> DEFINE rows == [k \in {u} |-> [exp |-> 10, day |-> d]]
<1>1. {u} \in SUBSET Keys /\ rows \in [{u} -> Row]
  BY DEF Keys, Row
<1> HIDE DEF rows
<1>2. LET f == InsertOnce(e, rows) IN
      /\ f \in Entries
      /\ \A k \in Keys : e[k] # Nil => f[k] = e[k]
      /\ \A k \in Keys \ {u} : f[k] = e[k]
      /\ \A k \in {u} : f[k] # Nil /\ (e[k] = Nil => f[k] = rows[k])
  BY <1>1, InsertFacts
<1> QED
  BY <1>2 DEF WithUnit, rows

LEMMA WithAwardsFacts ==
  ASSUME NEW e \in Entries, NEW v \in Builds, NEW as, as = Pending(v, e)
  PROVE  LET f == WithAwards(e, v, as) IN
         /\ f \in Entries /\ as \subseteq Awards
         /\ \A k \in Keys : e[k] # Nil => f[k] = e[k]
         /\ \A k \in Keys \ as : f[k] = e[k]
         /\ \A a \in as : /\ f[a] # Nil /\ f[a].exp = Worth(v, a)
                          /\ \E u \in UnitsOf(v, a) : e[u] \in Row /\ f[a].day = e[u].day
<1> DEFINE rows == [a \in as |-> [exp |-> Worth(v, a), day |-> CompletedOn(v, a, e)]]
<1>1. as \subseteq Awards /\ \A a \in as : Complete(v, a, e) /\ e[a] = Nil
  BY OfferedFacts DEF Pending, Recorded, Awards, Keys
<1>2. \A a \in as : \E u \in UnitsOf(v, a) : e[u] \in Row /\ CompletedOn(v, a, e) = e[u].day
  BY <1>1, CompletedOnFacts
<1>3. \A a \in as : Worth(v, a) \in Nat /\ CompletedOn(v, a, e) \in 1..LastDay
  BY <1>1, <1>2, WorthFacts DEF Row
<1>4. as \in SUBSET Keys /\ rows \in [as -> Row]
  BY <1>1, <1>3 DEF Row, Keys
<1>5. \A a \in as : rows[a].exp = Worth(v, a) /\ rows[a].day = CompletedOn(v, a, e)
  OBVIOUS
<1> HIDE DEF rows
<1>6. LET f == InsertOnce(e, rows) IN
      /\ f \in Entries
      /\ \A k \in Keys : e[k] # Nil => f[k] = e[k]
      /\ \A k \in Keys \ as : f[k] = e[k]
      /\ \A k \in as : f[k] # Nil /\ (e[k] = Nil => f[k] = rows[k])
  BY <1>4, InsertFacts
<1>7. WithAwards(e, v, as) = InsertOnce(e, rows)
  BY DEF WithAwards, rows
<1> QED
  BY <1>1, <1>2, <1>5, <1>6, <1>7

-----------------------------------------------------------------------------
(* The shape of the state, and what one step does to what others rely on. *)
LEMMA OwnFacts ==
  ASSUME Typed, NEW q \in Requests, Good(q), req[q].at \in {"lock", "decide", "commit"}
  PROVE  /\ Own(q) \in Entries
         /\ \A k \in Keys : entry[k] # Nil => Own(q)[k] = entry[k]
         /\ \A k \in Keys \ Units : Own(q)[k] = entry[k]
         /\ req[q].unit # Nil => req[q].unit \in Units /\ Own(q)[req[q].unit] # Nil
<1>1. req[q].day \in 1..LastDay /\ entry \in Entries
  BY DEF Typed, Request
<1>2. CASE req[q].op = "complete"
  <2>1. req[q].unit \in Units
    BY <1>2 DEF Good
  <2>2. LET f == WithUnit(entry, req[q].unit, req[q].day) IN
        /\ f \in Entries
        /\ \A k \in Keys : entry[k] # Nil => f[k] = entry[k]
        /\ \A k \in Keys \ {req[q].unit} : f[k] = entry[k]
        /\ f[req[q].unit] # Nil
    BY <1>1, <2>1, WithUnitFacts
  <2>3. Own(q) = WithUnit(entry, req[q].unit, req[q].day)
    BY <1>2 DEF Own
  <2> QED
    BY <2>1, <2>2, <2>3
<1>3. CASE req[q].op = "sync"
  BY <1>1, <1>3 DEF Good, Own
<1> QED
  BY <1>2, <1>3 DEF Good

(* What is pending depends on which units and awards are recorded alone. *)
LEMMA PendingDepends ==
  ASSUME NEW v \in Builds, NEW e, NEW f, \A k \in Units \cup Awards : e[k] = Nil <=> f[k] = Nil
  PROVE  Pending(v, e) = Pending(v, f)
<1>1. \A k \in Units \cup Awards : k \in Recorded(e) <=> k \in Recorded(f)
  BY DEF Recorded, Keys
<1>2. \A a \in Offered(v) : UnitsOf(v, a) \subseteq Units /\ a \in Awards
  BY UnitsFacts, OfferedFacts
<1>3. \A a \in Offered(v) : Complete(v, a, e) <=> Complete(v, a, f)
  BY <1>1, <1>2 DEF Complete
<1> QED
  BY <1>1, <1>2, <1>3 DEF Pending

(* What a commit leaves in the ledger. *)
LEMMA CommitFacts ==
  ASSUME Requested, NEW q \in Requests, Commit(q)
  PROVE  LET b == req[q].build  as == req[q].rows IN
         /\ b \in Builds /\ as = Pending(b, Own(q)) /\ Own(q) \in Entries /\ entry' \in Entries
         /\ \A k \in Keys : entry[k] # Nil => entry'[k] = entry[k]
         /\ \A k \in Keys \ as : entry'[k] = Own(q)[k]
         /\ \A k \in Keys \ (Units \cup as) : entry'[k] = entry[k]
         /\ as \subseteq Awards
         /\ \A a \in as : /\ entry'[a] # Nil /\ entry'[a].exp = Worth(b, a)
                          /\ \E u \in UnitsOf(b, a) : Own(q)[u] \in Row /\ entry'[a].day = Own(q)[u].day
         /\ req[q].unit # Nil => req[q].unit \in Units /\ entry'[req[q].unit] # Nil
<1> DEFINE b == req[q].build
           as == req[q].rows
           o == Own(q)
<1>1. Typed /\ Good(q) /\ req[q].at = "commit" /\ b \in Builds
  BY DEF Requested, Commit, At, Typed, Request
<1>2. /\ o \in Entries
      /\ \A k \in Keys : entry[k] # Nil => o[k] = entry[k]
      /\ \A k \in Keys \ Units : o[k] = entry[k]
      /\ req[q].unit # Nil => req[q].unit \in Units /\ o[req[q].unit] # Nil
  BY <1>1, OwnFacts
<1>3. as = Pending(b, o)
  BY <1>1 DEF Requested, Decided
<1>4. LET f == WithAwards(o, b, as) IN
      /\ f \in Entries /\ as \subseteq Awards
      /\ \A k \in Keys : o[k] # Nil => f[k] = o[k]
      /\ \A k \in Keys \ as : f[k] = o[k]
      /\ \A a \in as : /\ f[a] # Nil /\ f[a].exp = Worth(b, a)
                       /\ \E u \in UnitsOf(b, a) : o[u] \in Row /\ f[a].day = o[u].day
  BY <1>1, <1>2, <1>3, WithAwardsFacts
<1>5. entry' = WithAwards(o, b, as)
  BY DEF Commit
<1>6. Units \subseteq Keys
  BY DEF Keys
<1> HIDE DEF o, as, b
<1>7. /\ entry' \in Entries /\ as \subseteq Awards
      /\ \A k \in Keys : o[k] # Nil => entry'[k] = o[k]
      /\ \A k \in Keys \ as : entry'[k] = o[k]
      /\ \A a \in as : /\ entry'[a] # Nil /\ entry'[a].exp = Worth(b, a)
                       /\ \E u \in UnitsOf(b, a) : o[u] \in Row /\ entry'[a].day = o[u].day
  BY <1>4, <1>5
<1>8. \A k \in Keys : entry[k] # Nil => entry'[k] = entry[k]
  BY <1>2, <1>7
<1>9. \A k \in Keys \ (Units \cup as) : entry'[k] = entry[k]
  BY <1>2, <1>7
<1>10. req[q].unit # Nil => req[q].unit \in Units /\ entry'[req[q].unit] # Nil
  BY <1>2, <1>6, <1>7
<1> USE DEF o, as, b
<1> QED
  BY <1>1, <1>2, <1>3, <1>7, <1>8, <1>9, <1>10

(* A skill check pays between 0 and 50. *)
LEMMA SkillXpFacts ==
  ASSUME NEW g \in Grades
  PROVE  SkillXp(g) \in 0..50
<1>1. g[1] \in Nat /\ g[2] \in Nat /\ g[1] <= g[2]
  BY GradesAssumption
<1> DEFINE a == 100 * g[1] + g[2]
           n == 2 * g[2]
<1>2. CASE g[2] = 0
  BY <1>2 DEF SkillXp
<1>3. CASE g[2] > 0
  <2>1. a \in Nat /\ n \in Nat /\ n > 0 /\ a < 51 * n
    BY <1>1, <1>3
  <2> HIDE DEF a, n
  <2>2. a \div n \in 0..50
    BY <2>1
  <2> QED
    BY <1>3, <2>2 DEF SkillXp, a, n
<1> QED
  BY <1>1, <1>2, <1>3

-----------------------------------------------------------------------------
(* Requests. *)
LEMMA NextTyped == Requested /\ [Next]_vars => Typed'
<1> SUFFICES ASSUME Requested, [Next]_vars PROVE Typed'
  OBVIOUS
<1> USE DEF Requested
<1>1. Idle \in Request
  BY SizesAssumption DEF Idle, Request, Builds
<1>2. ASSUME UNCHANGED vars PROVE Typed'
  BY <1>2 DEF vars, ledger, Typed
<1>3. ASSUME NEW q \in Requests, NEW o \in {"complete", "sync"}, NEW u \in Units \cup {Nil}, Begin(q, o, u)
      PROVE  Typed'
  <2>1. PICK v \in running : req' = [req EXCEPT ![q] =
          [Idle EXCEPT !.op = o, !.at = "lock", !.unit = u, !.build = v, !.day = today]]
    BY <1>3 DEF Begin
  <2>2. [Idle EXCEPT !.op = o, !.at = "lock", !.unit = u, !.build = v, !.day = today] \in Request
    BY DEF Idle, Request, Typed
  <2> QED
    BY <1>3, <2>1, <2>2 DEF Begin, ledger, Typed
<1>4. ASSUME NEW q \in Requests, Acquire(q) PROVE Typed'
  BY <1>4 DEF Acquire, ledger, Typed, Request
<1>5. ASSUME NEW q \in Requests, Decide(q) PROVE Typed'
  <2>1. Pending(req[q].build, Own(q)) \subseteq Awards
    BY OfferedFacts DEF Pending, Typed, Request
  <2> DEFINE as == Pending(req[q].build, Own(q))
  <2>2. req' = [req EXCEPT ![q].at = "commit", ![q].rows = as]
    BY <1>5 DEF Decide
  <2> HIDE DEF as
  <2>3. as \subseteq Awards
    BY <2>1 DEF as
  <2>4. [req[q] EXCEPT !.at = "commit", !.rows = as] \in Request
    <3>1. req[q] \in Request
      BY DEF Typed
    <3> QED
      BY <2>3, <3>1 DEF Request
  <2>5. req' = [req EXCEPT ![q] = [req[q] EXCEPT !.at = "commit", !.rows = as]]
    BY <2>2
  <2>6. req' \in [Requests -> Request]
    BY <2>4, <2>5 DEF Typed
  <2> QED
    BY <1>5, <2>6 DEF Decide, ledger, Typed
<1>6. ASSUME NEW q \in Requests, Commit(q) PROVE Typed'
  <2>1. entry' \in Entries
    BY <1>6, CommitFacts
  <2> QED
    BY <1>1, <1>6, <2>1 DEF Commit, End, Typed
<1>7. ASSUME NEW q \in Requests, NEW a \in Attempts, NEW g \in Grades, ReadAttempt(q, a, g) PROVE Typed'
  <2>1. [Idle EXCEPT !.op = "submit", !.at = "save", !.unit = a, !.grade = g] \in Request
    BY <1>1 DEF Idle, Request
  <2> QED
    BY <1>7, <2>1 DEF ReadAttempt, ledger, Typed
<1>8. ASSUME NEW q \in Requests, SaveAttempt(q) PROVE Typed'
  <2>1. req[q] \in Request /\ req[q].unit \in Attempts /\ req[q].grade \in Grades
    BY <1>8 DEF SaveAttempt, At, Good, Typed
  <2>2. attempt' \in [Attempts -> Attempt]
    BY <1>8, <2>1 DEF SaveAttempt, Typed, Attempt
  <2>3. req' \in [Requests -> Request]
    BY <1>1, <1>8, <2>1 DEF SaveAttempt, End, Typed, Request
  <2> QED
    BY <1>8, <2>2, <2>3 DEF SaveAttempt, ledger, Typed
<1>9. ASSUME NEW q \in Requests, PaySkillCheck(q) PROVE Typed'
  <2>1. req[q].grade \in Grades
    BY <1>9 DEF PaySkillCheck, At, Good
  <2>2. [exp |-> SkillXp(req[q].grade), day |-> today] \in Row
    BY <2>1, SkillXpFacts DEF Row, Typed
  <2>3. entry' \in Entries
    BY <1>9, <2>2 DEF PaySkillCheck, Typed, Entries
  <2> QED
    BY <1>1, <1>9, <2>3 DEF PaySkillCheck, End, Typed
<1>10. ASSUME NEW q \in Requests, Fail(q) PROVE Typed'
  BY <1>1, <1>10 DEF Fail, End, ledger, Typed
<1>11. ASSUME NEW l \in Lessons, SetProgress(l) PROVE Typed'
  BY <1>11 DEF SetProgress, Typed
<1>12. ASSUME NEW a \in Attempts, NEW kind \in {"served", "legacy"}, StartAttempt(a, kind) PROVE Typed'
  BY <1>12 DEF StartAttempt, ledger, Typed, Attempt
<1>13. ASSUME Deploy PROVE Typed'
  <2>1. Max(running) \in Builds /\ Max(running) < LastBuild
    BY <1>13, Newest DEF Deploy, Typed
  <2>2. Max(running) + 1 \in Builds
    BY <2>1, SizesAssumption DEF Builds
  <2> QED
    BY <1>13, <2>2 DEF Deploy, ledger, Typed
<1>14. ASSUME StopOld PROVE Typed'
  <2>1. Max(running) \in Builds
    BY Newest DEF Typed
  <2> QED
    BY <1>1, <1>14, <2>1 DEF StopOld, ledger, Typed
<1>15. ASSUME NextDay PROVE Typed'
  BY <1>15, SizesAssumption DEF NextDay, ledger, Typed
<1> QED
  BY <1>2, <1>3, <1>4, <1>5, <1>6, <1>7, <1>8, <1>9, <1>10, <1>11, <1>12, <1>13, <1>14, <1>15 DEF Next, StepOf

LEMMA NextGood == Requested /\ [Next]_vars => \A p \in Requests : Good(p)'
<1> SUFFICES ASSUME Requested, [Next]_vars, NEW p \in Requests PROVE Good(p)'
  OBVIOUS
<1> USE DEF Requested
<1>0. Typed /\ Good(p)
  OBVIOUS
<1>1. ASSUME UNCHANGED vars PROVE Good(p)'
  BY <1>0, <1>1 DEF vars, Good
<1>2. ASSUME NEW q \in Requests,
             (\E u \in Units : Begin(q, "complete", u)) \/ Begin(q, "sync", Nil)
      PROVE  Good(p)'
  <2>1. ASSUME NEW u \in Units, Begin(q, "complete", u) PROVE Good(p)'
    BY <1>0, <2>1 DEF Begin, ledger, Good, Typed, Idle
  <2>2. CASE Begin(q, "sync", Nil)
    BY <1>0, <2>2 DEF Begin, ledger, Good, Typed, Idle
  <2> QED
    BY <1>2, <2>1, <2>2
<1>3. ASSUME NEW q \in Requests, Acquire(q) PROVE Good(p)'
  BY <1>0, <1>3 DEF Acquire, At, ledger, Good, Typed, Request
<1>4. ASSUME NEW q \in Requests, Decide(q) PROVE Good(p)'
  BY <1>0, <1>4 DEF Decide, At, ledger, Good, Typed, Request
<1>5. ASSUME NEW q \in Requests, Commit(q) \/ Fail(q) \/ PaySkillCheck(q) PROVE Good(p)'
  BY <1>0, <1>5 DEF Commit, Fail, PaySkillCheck, End, ledger, Good, Typed, Idle
<1>6. ASSUME NEW q \in Requests, NEW a \in Attempts, NEW g \in Grades, ReadAttempt(q, a, g) PROVE Good(p)'
  BY <1>0, <1>6 DEF ReadAttempt, ledger, Good, Typed, Idle
<1>7. ASSUME NEW q \in Requests, SaveAttempt(q) PROVE Good(p)'
  <2>1. Good(q) /\ req[q].at = "save" /\ req[q].unit \in Attempts
    BY <1>7 DEF SaveAttempt, At, Good
  <2>2. attempt'[req[q].unit].finished
    BY <1>7, <2>1 DEF SaveAttempt, Typed, Attempt
  <2>3. \A a \in Attempts : attempt'[a].kind = attempt[a].kind /\ (attempt[a].finished => attempt'[a].finished)
    BY <1>7, <2>1 DEF SaveAttempt, Typed, Attempt
  <2>4. CASE Pays(req[q].unit) /\ p = q
    <3>1. req'[q] = [req[q] EXCEPT !.at = "pay"]
      BY <1>7, <2>4 DEF SaveAttempt, Typed
    <3>2. req'[q].at = "pay" /\ req'[q].unit = req[q].unit /\ req'[q].op = req[q].op /\ req'[q].grade = req[q].grade
      BY <3>1 DEF Typed, Request
    <3>3. attempt'[req[q].unit].kind = "served"
      BY <2>1, <2>3, <2>4 DEF Pays
    <3> QED
      BY <2>1, <2>2, <2>4, <3>2, <3>3 DEF Good
  <2>5. CASE ~Pays(req[q].unit) /\ p = q
    BY <1>7, <2>5 DEF SaveAttempt, End, Good, Typed, Idle
  <2>6. CASE p # q
    <3>1. req'[p] = req[p] /\ running' = running
      BY <1>7, <2>6 DEF SaveAttempt, End, Typed
    <3> QED
      BY <1>0, <2>3, <3>1 DEF Good
  <2> QED
    BY <2>4, <2>5, <2>6
<1>8. ASSUME NEW l \in Lessons, SetProgress(l) PROVE Good(p)'
  BY <1>0, <1>8 DEF SetProgress, Good
<1>9. ASSUME NEW a \in Attempts, NEW kind \in {"served", "legacy"}, StartAttempt(a, kind) PROVE Good(p)'
  <2>1. \A b \in Attempts : b # a => attempt'[b] = attempt[b]
    BY <1>9 DEF StartAttempt, Typed
  <2>2. attempt[a].kind = "none" /\ req' = req /\ running' = running
    BY <1>9 DEF StartAttempt
  <2> QED
    BY <1>0, <2>1, <2>2 DEF Good
<1>10. ASSUME Deploy PROVE Good(p)'
  BY <1>0, <1>10 DEF Deploy, ledger, Good
<1>11. ASSUME StopOld PROVE Good(p)'
  BY <1>0, <1>11 DEF StopOld, ledger, Good, Idle
<1>12. ASSUME NextDay PROVE Good(p)'
  BY <1>0, <1>12 DEF NextDay, ledger, Good
<1>13. ASSUME NEW q \in Requests, StepOf(q) PROVE Good(p)'
  <2>1. CASE (\E u \in Units : Begin(q, "complete", u)) \/ Begin(q, "sync", Nil)
    BY <1>2, <2>1
  <2>2. CASE Acquire(q) \/ Decide(q) \/ SaveAttempt(q)
    BY <1>3, <1>4, <1>7, <2>2
  <2>3. ASSUME NEW a \in Attempts, NEW g \in Grades, ReadAttempt(q, a, g) PROVE Good(p)'
    BY <1>6, <2>3
  <2>4. CASE Commit(q) \/ Fail(q) \/ PaySkillCheck(q)
    BY <1>5, <2>4
  <2> QED
    BY <1>13, <2>1, <2>2, <2>3, <2>4 DEF StepOf
<1>14. CASE Next
  <2>1. CASE \E q \in Requests : StepOf(q)
    BY <1>13, <2>1
  <2>2. CASE \E l \in Lessons : SetProgress(l)
    BY <1>8, <2>2
  <2>3. CASE \E a \in Attempts, kind \in {"served", "legacy"} : StartAttempt(a, kind)
    BY <1>9, <2>3
  <2> QED
    BY <1>10, <1>11, <1>12, <1>14, <2>1, <2>2, <2>3 DEF Next
<1> QED
  BY <1>1, <1>14

(* A request reaches its commit by deciding, and takes the lock when free. *)
LEMMA CommitsDecided ==
  ASSUME Requested, [Next]_vars, NEW p \in Requests, ~Decide(p), req'[p].at = "commit"
  PROVE  req'[p] = req[p]
<1> USE DEF Requested
<1>0. req \in [Requests -> Request]
  BY DEF Typed
<1>1. CASE UNCHANGED vars
  BY <1>1 DEF vars
<1>2. ASSUME NEW q \in Requests, StepOf(q) PROVE req'[p] = req[p]
  <2>1. ASSUME NEW u \in Units, Begin(q, "complete", u) PROVE req'[p] = req[p]
    BY <1>0, <2>1 DEF Begin, Idle
  <2>2. CASE Begin(q, "sync", Nil)
    BY <1>0, <2>2 DEF Begin, Idle
  <2>3. CASE Acquire(q)
    BY <1>0, <2>3 DEF Acquire, Request
  <2>4. CASE Decide(q)
    BY <1>0, <2>4 DEF Decide
  <2>5. CASE Commit(q) \/ PaySkillCheck(q) \/ Fail(q)
    BY <1>0, <2>5 DEF Commit, PaySkillCheck, Fail, End, Idle
  <2>6. ASSUME NEW a \in Attempts, NEW g \in Grades, ReadAttempt(q, a, g) PROVE req'[p] = req[p]
    BY <1>0, <2>6 DEF ReadAttempt, Idle
  <2>7. CASE SaveAttempt(q)
    <3>1. CASE Pays(req[q].unit)
      BY <1>0, <2>7, <3>1 DEF SaveAttempt, Request
    <3>2. CASE ~Pays(req[q].unit)
      BY <1>0, <2>7, <3>2 DEF SaveAttempt, End, Idle
    <3> QED
      BY <3>1, <3>2
  <2> QED
    BY <1>2, <2>1, <2>2, <2>3, <2>4, <2>5, <2>6, <2>7 DEF StepOf
<1>3. CASE StopOld
  BY <1>0, <1>3 DEF StopOld, Idle
<1>4. CASE \/ \E l \in Lessons : SetProgress(l)
           \/ \E a \in Attempts, kind \in {"served", "legacy"} : StartAttempt(a, kind)
           \/ Deploy \/ NextDay
  BY <1>4 DEF SetProgress, StartAttempt, Deploy, NextDay
<1> QED
  BY <1>1, <1>2, <1>3, <1>4 DEF Next

LEMMA HoldersMove ==
  ASSUME Requested, [Next]_vars, NEW p \in Requests, Holds(p)'
  PROVE  Holds(p) \/ (~Locked /\ req' = [req EXCEPT ![p].at = "decide"])
<1> USE DEF Requested
<1>0. req \in [Requests -> Request]
  BY DEF Typed
<1>1. CASE UNCHANGED vars
  BY <1>1 DEF vars, Holds
<1>2. ASSUME NEW q \in Requests, StepOf(q) PROVE Holds(p) \/ (~Locked /\ req' = [req EXCEPT ![p].at = "decide"])
  <2>1. ASSUME NEW u \in Units, Begin(q, "complete", u) PROVE Holds(p)
    BY <1>0, <2>1 DEF Begin, Holds, Idle
  <2>2. CASE Begin(q, "sync", Nil)
    BY <1>0, <2>2 DEF Begin, Holds, Idle
  <2>3. CASE Acquire(q)
    BY <1>0, <2>3 DEF Acquire, Holds
  <2>4. CASE Decide(q)
    BY <1>0, <2>4 DEF Decide, At, Holds, Request
  <2>5. CASE Commit(q) \/ PaySkillCheck(q) \/ Fail(q)
    BY <1>0, <2>5 DEF Commit, PaySkillCheck, Fail, End, Holds, Idle
  <2>6. ASSUME NEW a \in Attempts, NEW g \in Grades, ReadAttempt(q, a, g) PROVE Holds(p)
    BY <1>0, <2>6 DEF ReadAttempt, Holds, Idle
  <2>7. CASE SaveAttempt(q)
    BY <1>0, <2>7 DEF SaveAttempt, End, Holds, Idle, Request
  <2> QED
    BY <1>2, <2>1, <2>2, <2>3, <2>4, <2>5, <2>6, <2>7 DEF StepOf
<1>3. CASE StopOld
  BY <1>0, <1>3 DEF StopOld, Holds, Idle
<1>4. CASE \/ \E l \in Lessons : SetProgress(l)
           \/ \E a \in Attempts, kind \in {"served", "legacy"} : StartAttempt(a, kind)
           \/ Deploy \/ NextDay
  <2>1. req' = req
    BY <1>4 DEF SetProgress, StartAttempt, Deploy, NextDay
  <2> QED
    BY <2>1 DEF Holds
<1> QED
  BY <1>1, <1>2, <1>3, <1>4 DEF Next

LEMMA NextOneHolder ==
  ASSUME Requested, [Next]_vars
  PROVE  OneHolder'
<1> SUFFICES ASSUME NEW p \in Requests, NEW r \in Requests, Holds(p)', Holds(r)', p # r PROVE FALSE
  BY DEF OneHolder
<1> USE DEF Requested
<1>0. req \in [Requests -> Request]
  BY DEF Typed
<1>1. Holds(p) \/ (~Locked /\ req' = [req EXCEPT ![p].at = "decide"])
  BY HoldersMove
<1>2. Holds(r) \/ (~Locked /\ req' = [req EXCEPT ![r].at = "decide"])
  BY HoldersMove
<1>3. CASE Holds(p) /\ Holds(r)
  BY <1>3 DEF OneHolder
<1>4. CASE ~Locked
  <2>1. ~Holds(p) /\ ~Holds(r)
    BY <1>4 DEF Locked
  <2>2. req'[r] = req[r]
    BY <1>0, <1>1, <2>1
  <2> QED
    BY <2>1, <2>2 DEF Holds
<1> QED
  BY <1>1, <1>2, <1>3, <1>4

LEMMA EntryMoves ==
  ASSUME Requested, [Next]_vars
  PROVE  \/ entry' = entry
         \/ \E q \in Requests : Commit(q) \/ PaySkillCheck(q)
<1>1. ASSUME NEW q \in Requests, StepOf(q), ~Commit(q), ~PaySkillCheck(q) PROVE entry' = entry
  BY <1>1 DEF StepOf, Begin, Acquire, Decide, ReadAttempt, SaveAttempt, Fail, ledger
<1>2. CASE UNCHANGED vars
  BY <1>2 DEF vars, ledger
<1> QED
  BY <1>1, <1>2 DEF Next, SetProgress, StartAttempt, Deploy, StopOld, NextDay, ledger

LEMMA NextDecided ==
  ASSUME Requested, [Next]_vars
  PROVE  Decided'
<1> SUFFICES ASSUME NEW p \in Requests, req'[p].at = "commit"
             PROVE  req'[p].rows = Pending(req'[p].build, Own(p)')
  BY DEF Decided
<1> USE DEF Requested
<1>0. req \in [Requests -> Request] /\ Good(p)
  BY DEF Typed
<1>1. CASE Decide(p)
  <2>1. req'[p] = [req[p] EXCEPT !.at = "commit", !.rows = Pending(req[p].build, Own(p))] /\ req[p] \in Request
    BY <1>0, <1>1 DEF Decide
  <2> DEFINE as == Pending(req[p].build, Own(p))
  <2> HIDE DEF as
  <2>2. req'[p] = [req[p] EXCEPT !.at = "commit", !.rows = as] /\ req[p] \in Request
    BY <2>1 DEF as
  <2>3. req'[p].op = req[p].op /\ req'[p].unit = req[p].unit /\ req'[p].day = req[p].day
        /\ req'[p].build = req[p].build /\ req'[p].rows = as
    BY <2>2 DEF Request
  <2>4. Own(p)' = Own(p)
    BY <1>1, <2>3 DEF Decide, ledger, Own
  <2> QED
    BY <2>3, <2>4 DEF as
<1>2. CASE ~Decide(p)
  <2>1. req[p].at = "commit" /\ req'[p] = req[p]
    BY <1>2, CommitsDecided
  <2>2. ASSUME NEW q \in Requests, Commit(q) PROVE FALSE
    <3>1. q # p
      BY <1>0, <2>2 DEF Commit, End, Idle
    <3>2. Holds(p) /\ Holds(q)
      BY <1>0, <2>1, <2>2 DEF Good, Commit, At, Holds
    <3> QED
      BY <3>1, <3>2 DEF OneHolder
  <2>3. \A k \in Units \cup Awards : entry'[k] = entry[k]
    <3>1. ASSUME NEW q \in Requests, PaySkillCheck(q) PROVE \A k \in Units \cup Awards : entry'[k] = entry[k]
      BY <3>1, KeysAssumption DEF PaySkillCheck, Typed, Entries, Keys
    <3> QED
      BY <2>2, <3>1, EntryMoves
  <2>4. \A k \in Units \cup Awards : Own(p)'[k] = Own(p)[k]
    BY <2>1, <2>3 DEF Own, WithUnit, InsertOnce, Keys
  <2>5. req[p].build \in Builds
    BY <1>0 DEF Request
  <2>6. req[p].rows = Pending(req[p].build, Own(p))
    BY <2>1 DEF Decided
  <2>7. Pending(req[p].build, Own(p)) = Pending(req[p].build, Own(p)')
    BY <2>4, <2>5, PendingDepends
  <2> QED
    BY <2>1, <2>6, <2>7
<1> QED
  BY <1>1, <1>2

-----------------------------------------------------------------------------
(* What one step does to the ledger. *)
LEMMA LedgerMoves ==
  ASSUME Requested, [Next]_vars
  PROVE  /\ \A k \in Keys \ {Exam} : entry[k] # Nil => entry'[k] = entry[k]
         /\ \/ \E q \in Requests : Commit(q)
            \/ \A k \in Keys \ {Exam} : entry'[k] = entry[k]
<1>1. ASSUME NEW q \in Requests, Commit(q) PROVE \A k \in Keys : entry[k] # Nil => entry'[k] = entry[k]
  BY <1>1, CommitFacts
<1>2. ASSUME NEW q \in Requests, PaySkillCheck(q) PROVE \A k \in Keys \ {Exam} : entry'[k] = entry[k]
  BY <1>2 DEF PaySkillCheck, Requested, Typed, Entries
<1> QED
  BY <1>1, <1>2, EntryMoves

LEMMA NextEarned ==
  ASSUME Requested, EarnedIsRecorded, [Next]_vars
  PROVE  EarnedIsRecorded'
<1> DEFINE v == Max(running)
<1>0. /\ v \in Builds /\ v \in running /\ running \in (SUBSET Builds) \ {{}}
      /\ \A w \in running : w \in Builds /\ w <= v
      /\ LastBuild \in Nat /\ Builds = 1..LastBuild
  BY Newest, SizesAssumption DEF Requested, Typed, Builds
<1> SUFFICES ASSUME NEW a \in Awards,
                    \A w \in 1..Max(running') : a \in Offered(w) /\ UnitsOf(w, a) # {},
                    Complete(Max(running'), a, entry')
             PROVE  entry'[a] # Nil
  BY DEF EarnedIsRecorded
<1>1. a \in Keys \ {Exam} /\ Units \subseteq Keys \ {Exam} /\ a \notin Units
  BY KeysAssumption DEF Keys, Awards
<1>2. ASSUME NEW q \in Requests, Commit(q) PROVE entry'[a] # Nil
  <2> DEFINE b == req[q].build
             as == req[q].rows
  <2>1. running' = running /\ b \in running
    BY <1>2 DEF Commit, At, Requested, Good
  <2>2. b \in Builds /\ b <= v /\ b \in 1..v
    BY <1>0, <2>1
  <2>3. /\ as = Pending(b, Own(q)) /\ as \subseteq Awards
        /\ \A k \in Keys \ as : entry'[k] = Own(q)[k]
        /\ \A c \in as : entry'[c] # Nil
    BY <1>2, CommitFacts
  <2>4. a \in Offered(b) /\ UnitsOf(b, a) # {}
    BY <2>1, <2>2
  <2>5. UnitsOf(b, a) \subseteq UnitsOf(v, a) /\ UnitsOf(v, a) \subseteq Units
    BY <1>0, <2>2, UnitsGrow, UnitsFacts
  <2>6. \A u \in Units : entry'[u] = Own(q)[u]
    BY <1>1, <2>3, KeysAssumption
  <2>7. UnitsOf(b, a) \subseteq Recorded(Own(q))
    BY <1>1, <2>1, <2>5, <2>6 DEF Complete, Recorded
  <2>8. CASE a \in as
    BY <2>3, <2>8
  <2>9. CASE a \notin as
    <3>1. a \in Recorded(Own(q))
      BY <2>3, <2>4, <2>7, <2>9 DEF Pending, Complete
    <3> QED
      BY <1>1, <2>3, <2>9, <3>1 DEF Recorded
  <2> QED
    BY <2>8, <2>9
<1>3. CASE \A k \in Keys \ {Exam} : entry'[k] = entry[k]
  <2>1. Max(running') \in Builds /\ v <= Max(running')
    <3>1. CASE running' = running
      BY <1>0, <3>1
    <3>2. CASE Deploy
      <4> DEFINE n == v + 1
      <4>1. n \in Builds /\ running' = running \cup {n}
        BY <1>0, <3>2 DEF Deploy
      <4> HIDE DEF v
      <4>2. running' \in SUBSET (0..LastBuild) /\ n \in running'
        BY <1>0, <4>1
      <4>3. \A w \in running' : n >= w
        <5> SUFFICES ASSUME NEW w \in running \cup {n} PROVE n >= w
          BY <4>1
        <5>1. CASE w \in running
          BY <1>0, <5>1
        <5>2. CASE w = n
          BY <1>0, <5>2
        <5> QED
          BY <5>1, <5>2
      <4>4. Max(running') = n
        BY <1>0, <4>2, <4>3, MaxIs
      <4> QED
        BY <1>0, <4>1, <4>4
    <3>3. CASE StopOld
      <4>1. running' = {v}
        BY <3>3 DEF StopOld
      <4>2. {v} \in SUBSET (0..LastBuild) /\ v >= v
        BY <1>0
      <4>3. Max({v}) = v
        BY <1>0, <4>2, MaxIs
      <4> QED
        BY <1>0, <4>1, <4>3
    <3>4. running' = running \/ Deploy \/ StopOld
      BY DEF Next, vars, StepOf, Begin, Acquire, Decide, Commit, ReadAttempt, SaveAttempt, PaySkillCheck, Fail,
             SetProgress, StartAttempt, NextDay
    <3> QED
      BY <3>1, <3>2, <3>3, <3>4
  <2>2. UnitsOf(v, a) \subseteq UnitsOf(Max(running'), a) /\ UnitsOf(Max(running'), a) \subseteq Units
    BY <1>0, <2>1, UnitsGrow, UnitsFacts
  <2>3. \A w \in 1..v : w \in 1..Max(running')
    BY <1>0, <2>1
  <2>4. v \in 1..v
    BY <1>0
  <2>5. UnitsOf(v, a) # {} /\ UnitsOf(v, a) \subseteq Recorded(entry)
    BY <1>1, <1>3, <2>2, <2>3, <2>4 DEF Complete, Recorded
  <2>6. entry[a] # Nil
    BY <2>3, <2>5 DEF EarnedIsRecorded, Complete
  <2> QED
    BY <1>1, <1>3, <2>6
<1> QED
  BY <1>2, <1>3, LedgerMoves

LEMMA NextActivity ==
  ASSUME Requested, AwardsMakeNoActivity, [Next]_vars
  PROVE  AwardsMakeNoActivity'
<1>0. /\ Awards \subseteq Keys \ {Exam} /\ Units \subseteq Keys \ {Exam}
      /\ Units \cap Awards = {}
  BY KeysAssumption DEF Keys
<1> SUFFICES ASSUME NEW a \in Awards, entry'[a] # Nil
             PROVE  \E u \in Units : entry'[u] # Nil /\ entry'[u].day = entry'[a].day
  BY DEF AwardsMakeNoActivity
<1>1. CASE entry'[a] = entry[a]
  <2>1. PICK u \in Units : entry[u] # Nil /\ entry[u].day = entry[a].day
    BY <1>1 DEF AwardsMakeNoActivity
  <2>2. entry'[u] = entry[u]
    BY <1>0, <2>1, LedgerMoves
  <2> QED
    BY <1>1, <2>1, <2>2
<1>2. ASSUME NEW q \in Requests, Commit(q), entry'[a] # entry[a]
      PROVE  \E u \in Units : entry'[u] # Nil /\ entry'[u].day = entry'[a].day
  <2> DEFINE as == req[q].rows
  <2>1. /\ req[q].build \in Builds /\ as \subseteq Awards
        /\ \A k \in Keys \ as : entry'[k] = Own(q)[k]
        /\ \A k \in Keys \ (Units \cup as) : entry'[k] = entry[k]
        /\ \A c \in as : \E u \in UnitsOf(req[q].build, c) : Own(q)[u] \in Row /\ entry'[c].day = Own(q)[u].day
    BY <1>2, CommitFacts
  <2>2. a \in as
    BY <1>0, <1>2, <2>1
  <2>3. PICK u \in UnitsOf(req[q].build, a) : Own(q)[u] \in Row /\ entry'[a].day = Own(q)[u].day
    BY <2>1, <2>2
  <2>4. u \in Units /\ entry'[u] = Own(q)[u]
    BY <1>0, <2>1, UnitsFacts
  <2> QED
    BY <2>3, <2>4, KeysAssumption
<1> QED
  BY <1>0, <1>1, <1>2, LedgerMoves

LEMMA NextCompleted ==
  ASSUME Requested, CompletedHasXp, [Next]_vars
  PROVE  CompletedHasXp'
<1> SUFFICES ASSUME NEW l \in Lessons, progress'[l] = "completed" PROVE entry'[l] # Nil
  BY DEF CompletedHasXp
<1>0. l \in Keys \ {Exam} /\ progress \in [Lessons -> {"none", "in-progress", "completed"}] /\ l # Nil
  BY KeysAssumption DEF Keys, Requested, Typed
<1>1. CASE progress[l] = "completed"
  BY <1>0, <1>1, LedgerMoves DEF CompletedHasXp
<1>2. ASSUME NEW q \in Requests, Commit(q), progress[l] # "completed" PROVE entry'[l] # Nil
  <2>1. req[q].unit = l
    BY <1>2 DEF Commit
  <2> QED
    BY <1>0, <1>2, <2>1, CommitFacts
<1>3. ASSUME NEW k \in Lessons, SetProgress(k), progress[l] # "completed" PROVE FALSE
  BY <1>0, <1>3 DEF SetProgress
<1>4. CASE progress' = progress
  BY <1>1, <1>4
<1>5. \/ progress' = progress
      \/ \E q \in Requests : Commit(q)
      \/ \E k \in Lessons : SetProgress(k)
  BY DEF Next, vars, ledger, StepOf, Begin, Acquire, Decide, ReadAttempt, SaveAttempt, PaySkillCheck, Fail,
         StartAttempt, Deploy, StopOld, NextDay
<1> QED
  BY <1>1, <1>2, <1>3, <1>4, <1>5

LEMMA NextPaid ==
  ASSUME Requested, PaidForServed, [Next]_vars
  PROVE  PaidForServed'
<1>0. Typed /\ \A q \in Requests : Good(q)
  BY DEF Requested
<1>1. ASSUME NEW a \in Attempts, attempt[a].kind = "served", attempt[a].finished
      PROVE  attempt'[a].kind = "served" /\ attempt'[a].finished
  <2>1. CASE attempt' = attempt
    BY <1>1, <2>1
  <2>2. ASSUME NEW b \in Attempts, NEW kind \in {"served", "legacy"}, StartAttempt(b, kind)
        PROVE  attempt'[a].kind = "served" /\ attempt'[a].finished
    BY <1>0, <1>1, <2>2 DEF StartAttempt, Typed
  <2>3. ASSUME NEW q \in Requests, SaveAttempt(q)
        PROVE  attempt'[a].kind = "served" /\ attempt'[a].finished
    BY <1>0, <1>1, <2>3 DEF SaveAttempt, Typed, Attempt
  <2>4. \/ attempt' = attempt
        \/ \E b \in Attempts, kind \in {"served", "legacy"} : StartAttempt(b, kind)
        \/ \E q \in Requests : SaveAttempt(q)
    BY DEF Next, vars, StepOf, Begin, Acquire, Decide, Commit, ReadAttempt, PaySkillCheck, Fail,
           SetProgress, Deploy, StopOld, NextDay
  <2> QED
    BY <2>1, <2>2, <2>3, <2>4
<1>2. ASSUME NEW q \in Requests, PaySkillCheck(q) PROVE PaidForServed'
  <2>1. /\ req[q].grade \in Grades /\ req[q].unit \in Attempts
        /\ attempt[req[q].unit].kind = "served" /\ attempt[req[q].unit].finished
    BY <1>0, <1>2 DEF PaySkillCheck, At, Good
  <2>2. attempt' = attempt
    BY <1>2 DEF PaySkillCheck
  <2>3. entry'[Exam].exp = SkillXp(req[q].grade)
    BY <1>0, <1>2 DEF PaySkillCheck, Typed, Entries, Keys
  <2> QED
    BY <2>1, <2>2, <2>3, SkillXpFacts DEF PaidForServed
<1>3. CASE entry'[Exam] = entry[Exam]
  BY <1>1, <1>3 DEF PaidForServed
<1>4. ASSUME NEW q \in Requests, Commit(q) PROVE entry'[Exam] = entry[Exam]
  BY <1>4, CommitFacts, KeysAssumption DEF Keys
<1> QED
  BY <1>2, <1>3, <1>4, EntryMoves

-----------------------------------------------------------------------------
LEMMA InitInv == Init => Inv
<1> SUFFICES ASSUME Init PROVE Inv
  OBVIOUS
<1> USE DEF Init
<1>1. Idle \in Request /\ 1 \in Builds /\ 1 \in 1..LastDay
  BY SizesAssumption DEF Idle, Request, Builds
<1>2. Typed
  BY <1>1 DEF Typed, Entries, Attempt
<1>3. \A q \in Requests : req[q].op = "idle" /\ req[q].at = "idle"
  BY DEF Idle
<1>4. Requested
  BY <1>2, <1>3 DEF Requested, Good, OneHolder, Decided, Holds
<1>5. \A k \in Keys : entry[k] = Nil
  OBVIOUS
<1>6. EarnedIsRecorded
  <2>1. Recorded(entry) = {}
    BY <1>5 DEF Recorded
  <2> QED
    BY <2>1 DEF EarnedIsRecorded, Complete
<1>7. AwardsMakeNoActivity /\ CompletedHasXp /\ PaidForServed
  BY <1>5 DEF AwardsMakeNoActivity, CompletedHasXp, PaidForServed, Keys
<1> QED
  BY <1>4, <1>6, <1>7 DEF Inv

LEMMA NextInv == Inv /\ [Next]_vars => Inv'
<1> SUFFICES ASSUME Inv, [Next]_vars PROVE Inv'
  OBVIOUS
<1>1. Requested /\ EarnedIsRecorded /\ AwardsMakeNoActivity /\ CompletedHasXp /\ PaidForServed
  BY DEF Inv
<1>2. Requested'
  BY <1>1, NextTyped, NextGood, NextOneHolder, NextDecided DEF Requested
<1> QED
  BY <1>1, <1>2, NextEarned, NextActivity, NextCompleted, NextPaid DEF Inv

(* Every reachable ledger and every request in it is as the invariant says. *)
THEOREM InvHolds == Spec => []Inv
  BY InitInv, NextInv, PTL DEF Spec

(* Every table and every request has its shape, whatever the catalogs are. *)
THEOREM TypeCorrect == Spec => []TypeOK
<1>1. Inv => TypeOK
  BY DEF Inv, Requested, Typed, TypeOK, Entries, Attempt, Request
<1> QED
  BY <1>1, InvHolds, PTL

(* The user's lock: what a user has earned is recorded, in whatever order    *)
(* and however many at once the units are completed, and during deployments. *)
THEOREM EarnedHolds == Spec => []EarnedIsRecorded
  BY InvHolds, PTL DEF Inv

(* Awards never add a day of activity to the streak. *)
THEOREM ActivityHolds == Spec => []AwardsMakeNoActivity
  BY InvHolds, PTL DEF Inv

(* A lesson reads as completed only with its XP recorded. *)
THEOREM CompletedHolds == Spec => []CompletedHasXp
  BY InvHolds, PTL DEF Inv

(* A skill check is paid for a served and graded attempt, and at most 50. *)
THEOREM PaidHolds == Spec => []PaidForServed
  BY InvHolds, PTL DEF Inv

(* A trophy is inserted with every unit its build asks for recorded. *)
THEOREM AwardsEarned == Spec => AwardsAreEarned
<1> DEFINE Earn ==
      \A a \in Awards : entry[a] = Nil /\ entry'[a] # Nil =>
        \E q \in Requests :
          UnitsOf(req[q].build, a) \subseteq Recorded(entry') /\ entry'[a].exp = Worth(req[q].build, a)
<1>1. Inv /\ [Next]_vars => [Earn]_vars
  <2> SUFFICES ASSUME Requested, [Next]_vars, NEW a \in Awards, entry[a] = Nil, entry'[a] # Nil
               PROVE  \E q \in Requests :
                        UnitsOf(req[q].build, a) \subseteq Recorded(entry') /\ entry'[a].exp = Worth(req[q].build, a)
    BY DEF Inv
  <2>1. a \in Keys \ {Exam} /\ a \notin Units
    BY KeysAssumption DEF Keys
  <2>2. PICK q \in Requests : Commit(q)
    BY <2>1, LedgerMoves
  <2> DEFINE b == req[q].build
             as == req[q].rows
  <2>3. /\ b \in Builds /\ as = Pending(b, Own(q)) /\ as \subseteq Awards
        /\ \A k \in Keys \ as : entry'[k] = Own(q)[k]
        /\ \A k \in Keys \ (Units \cup as) : entry'[k] = entry[k]
        /\ \A c \in as : entry'[c].exp = Worth(b, c)
    BY <2>2, CommitFacts
  <2>4. a \in as
    BY <2>1, <2>3
  <2>5. UnitsOf(b, a) \subseteq Recorded(Own(q)) /\ UnitsOf(b, a) \subseteq Units
    BY <2>3, <2>4, UnitsFacts DEF Pending, Complete
  <2>6. UnitsOf(b, a) \subseteq Recorded(entry')
    BY <2>3, <2>5, KeysAssumption DEF Recorded
  <2> QED
    BY <2>3, <2>4, <2>6
<1> QED
  BY <1>1, InvHolds, PTL DEF Spec, AwardsAreEarned
=============================================================================
