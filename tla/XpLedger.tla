----------------------------- MODULE XpLedger -----------------------------
(***************************************************************************)
(* The XP ledger of one user (backend/src/xp, achievements, progress) and  *)
(* the exam attempts that pay into it (backend/src/exam).  Every row, lock *)
(* and unique key of the ledger carries the user's id, so users do not     *)
(* meet in it.                                                             *)
(*                                                                         *)
(* Completing a unit and syncing awards run in a transaction that holds    *)
(* the user's advisory lock; everything else is single statements.  The    *)
(* catalog of awards is part of the build, and during a deployment         *)
(* replicas of two builds serve the same user.                             *)
(***************************************************************************)
EXTENDS Integers, FiniteSets, FiniteSetsExt

CONSTANTS
  Units, Lessons,     \* what can be completed, and which of it keeps a progress row
  Sessions, Tracks, SessionsOf,
  SessionUnits, DirectUnits, \* the units of each session, and of a track without sessions, in each build
  Active,             \* the tracks each build offers
  LastBuild, LastDay, \* bounds: builds deployed, days that pass
  Exam, Attempts, Grades, \* <<score, total>> a submission can be graded with
  Requests, Nil

Builds == 1..LastBuild
Awards == Sessions \cup Tracks
Keys == Units \cup Awards \cup {Exam}
Row == [exp : Nat, day : 1..LastDay]

ASSUME KeysAssumption ==
  /\ Units \cap Awards = {} /\ Exam \notin Units \cup Awards /\ Lessons \subseteq Units
  /\ Nil \notin Keys \cup Row
ASSUME CatalogsAssumption ==
  /\ SessionsOf \in [Tracks -> SUBSET Sessions]
  /\ \A v \in Builds :
       /\ SessionUnits[v] \in [Sessions -> SUBSET Units]
       /\ DirectUnits[v] \in [Tracks -> SUBSET Units]
       /\ Active[v] \subseteq Tracks
ASSUME SizesAssumption ==
  /\ IsFiniteSet(Units) /\ IsFiniteSet(Sessions)
  /\ {LastBuild, LastDay} \subseteq Nat \ {0}
ASSUME GradesAssumption == Grades \subseteq Nat \X Nat /\ \A g \in Grades : g[1] <= g[2]

(* achievements/catalog.ts compatProblems, checked before a build ships: a   *)
(* published session or track only ever gains units, or is retired.          *)
ASSUME CatalogsGrow == \A v, w \in Builds : v <= w =>
  /\ \A s \in Sessions : SessionUnits[v][s] \subseteq SessionUnits[w][s]
  /\ \A t \in Tracks : DirectUnits[v][t] \subseteq DirectUnits[w][t]

VARIABLES
  entry,    \* user_xp_entry: [exp, day] under each key, or Nil
  progress, \* user_lesson_progress
  running,  \* the builds being served
  today,
  attempt,  \* exam_attempt
  req

ledger == <<entry, progress>>
vars == <<ledger, running, today, attempt, req>>

-----------------------------------------------------------------------------
(* The catalog of a build: what awards ask for and pay. *)
Badges(v) == UNION {SessionsOf[t] : t \in {t \in Active[v] : Cardinality(SessionsOf[t]) >= 2}}
Offered(v) == Badges(v) \cup Active[v]
UnitsOf(v, a) ==
  IF a \in Sessions THEN SessionUnits[v][a]
  ELSE DirectUnits[v][a] \cup UNION {SessionUnits[v][s] : s \in SessionsOf[a]}
Worth(v, a) ==
  IF a \in Sessions THEN 2 * Cardinality(SessionUnits[v][a])
  ELSE 5 * Max({1, Cardinality(SessionsOf[a])})

Recorded(e) == {k \in Keys : e[k] # Nil}
Complete(v, a, e) == UnitsOf(v, a) # {} /\ UnitsOf(v, a) \subseteq Recorded(e)

PendingByBadges(v, e) ==  \* mutant: a track's badges stand in for its units
  {a \in Offered(v) :
     /\ a \notin Recorded(e)
     /\ Complete(v, a, e) \/ (a \in Tracks /\ SessionsOf[a] # {} /\ SessionsOf[a] \subseteq Recorded(e))}

(* evaluateAwards over the rows e, and the rows it asks to insert. *)
Pending(v, e) == {a \in Offered(v) : Complete(v, a, e) /\ a \notin Recorded(e)}
CompletedOn(v, a, e) == Max({0} \cup {e[u].day : u \in UnitsOf(v, a) \cap Recorded(e)})

(* INSERT .. ON CONFLICT DO NOTHING. *)
InsertOnce(e, rows) == [k \in Keys |-> IF k \in DOMAIN rows /\ e[k] = Nil THEN rows[k] ELSE e[k]]

WithUnit(e, u, d) == InsertOnce(e, [k \in {u} |-> [exp |-> 10, day |-> d]])
WithAwards(e, v, as) ==
  InsertOnce(e, [a \in as |-> [exp |-> Worth(v, a), day |-> CompletedOn(v, a, e)]])

-----------------------------------------------------------------------------
Idle == [op |-> "idle", at |-> "idle", unit |-> Nil, build |-> 1, day |-> 1, rows |-> {}, grade |-> Nil]
Free(q) == req[q] = Idle
At(q, at) == req[q].at = at
End(q) == req' = [req EXCEPT ![q] = Idle]

(* The transactions that hold pg_advisory_xact_lock(userId). *)
Holds(q) == req[q].op \in {"complete", "sync"} /\ req[q].at \in {"decide", "commit"}
Locked == \E q \in Requests : Holds(q)

Init ==
  /\ entry = [k \in Keys |-> Nil]
  /\ progress = [l \in Lessons |-> "none"]
  /\ running = {1}
  /\ today = 1
  /\ attempt = [a \in Attempts |-> [kind |-> "none", finished |-> FALSE, grade |-> Nil]]
  /\ req = [q \in Requests |-> Idle]

BeginWithProgress(q, o, u) ==  \* mutant: the progress row is written before the transaction
  /\ Free(q)
  /\ \E v \in running :
       req' = [req EXCEPT ![q] =
         [Idle EXCEPT !.op = o, !.at = "lock", !.unit = u, !.build = v, !.day = today]]
  /\ progress' = [l \in Lessons |-> IF l = u THEN "completed" ELSE progress[l]]
  /\ UNCHANGED <<entry, running, today, attempt>>

(* now() is the time the transaction began, before it waits for the lock. *)
Begin(q, o, u) ==
  /\ Free(q)
  /\ \E v \in running :
       req' = [req EXCEPT ![q] =
         [Idle EXCEPT !.op = o, !.at = "lock", !.unit = u, !.build = v, !.day = today]]
  /\ UNCHANGED <<ledger, running, today, attempt>>

AcquireAnyway(q) ==  \* mutant: no lock
  /\ At(q, "lock")
  /\ req' = [req EXCEPT ![q].at = "decide"]
  /\ UNCHANGED <<ledger, running, today, attempt>>

Acquire(q) ==
  /\ At(q, "lock") /\ ~Locked
  /\ req' = [req EXCEPT ![q].at = "decide"]
  /\ UNCHANGED <<ledger, running, today, attempt>>

(* The unit's own row, seen by this transaction before it commits. *)
Own(q) == IF req[q].op = "sync" THEN entry ELSE WithUnit(entry, req[q].unit, req[q].day)

(* pendingAwards reads the awards and the units, this one included. *)
Decide(q) ==
  /\ At(q, "decide")
  /\ req' = [req EXCEPT ![q].at = "commit", ![q].rows = Pending(req[q].build, Own(q))]
  /\ UNCHANGED <<ledger, running, today, attempt>>

(* The rows inserted become visible to everyone at once. *)
Commit(q) ==
  /\ At(q, "commit")
  /\ entry' = WithAwards(Own(q), req[q].build, req[q].rows)
  /\ progress' = [l \in Lessons |-> IF l = req[q].unit THEN "completed" ELSE progress[l]]
  /\ End(q)
  /\ UNCHANGED <<running, today, attempt>>

(* Any other status of a lesson is one statement, outside the lock. *)
SetProgress(l) ==
  /\ progress' = [progress EXCEPT ![l] = "in-progress"]
  /\ UNCHANGED <<entry, running, today, attempt, req>>

-----------------------------------------------------------------------------
(* startAttempt, with the server's questions or, older clients, without. *)
StartAttempt(a, kind) ==
  /\ attempt[a].kind = "none"
  /\ attempt' = [attempt EXCEPT ![a].kind = kind]
  /\ UNCHANGED <<ledger, running, today, req>>

ReadAttempt(q, a, g) ==
  /\ Free(q) /\ attempt[a].kind # "none" /\ ~attempt[a].finished
  /\ req' = [req EXCEPT ![q] = [Idle EXCEPT !.op = "submit", !.at = "save", !.unit = a, !.grade = g]]
  /\ UNCHANGED <<ledger, running, today, attempt>>

PaysAny(a) == attempt[a].kind # "none"  \* mutant: a list the client picked pays too
Pays(a) == attempt[a].kind = "served"

SaveAttempt(q) ==
  LET a == req[q].unit IN
  /\ At(q, "save")
  /\ attempt' = [attempt EXCEPT ![a].finished = TRUE, ![a].grade = req[q].grade]
  /\ IF Pays(a) THEN req' = [req EXCEPT ![q].at = "pay"] ELSE End(q)
  /\ UNCHANGED <<ledger, running, today>>

(* Math.round((score / total) * 50): halves round up. *)
SkillXp(g) == IF g[2] > 0 THEN (100 * g[1] + g[2]) \div (2 * g[2]) ELSE 0

(* INSERT .. ON CONFLICT DO UPDATE: the last submission counts. *)
PaySkillCheck(q) ==
  /\ At(q, "pay")
  /\ entry' = [entry EXCEPT ![Exam] = [exp |-> SkillXp(req[q].grade), day |-> today]]
  /\ End(q)
  /\ UNCHANGED <<progress, running, today, attempt>>

-----------------------------------------------------------------------------
(* A refusal, an error or a crash: an open transaction is rolled back. *)
Fail(q) ==
  /\ ~Free(q)
  /\ End(q)
  /\ UNCHANGED <<ledger, running, today, attempt>>

(* The next build starts beside the one running; then the old one stops, *)
(* and with it the requests it was serving.                              *)
Deploy ==
  /\ Cardinality(running) = 1 /\ Max(running) < LastBuild
  /\ running' = running \cup {Max(running) + 1}
  /\ UNCHANGED <<ledger, today, attempt, req>>

StopOld ==
  /\ Cardinality(running) = 2
  /\ running' = {Max(running)}
  /\ req' = [q \in Requests |->
       IF req[q].op \in {"complete", "sync"} /\ req[q].build # Max(running) THEN Idle ELSE req[q]]
  /\ UNCHANGED <<ledger, today, attempt>>

NextDay ==
  /\ today < LastDay
  /\ today' = today + 1
  /\ UNCHANGED <<ledger, running, attempt, req>>

StepOf(q) ==
  \/ \E u \in Units : Begin(q, "complete", u)
  \/ Begin(q, "sync", Nil)
  \/ Acquire(q) \/ Decide(q) \/ Commit(q)
  \/ \E a \in Attempts, g \in Grades : ReadAttempt(q, a, g)
  \/ SaveAttempt(q) \/ PaySkillCheck(q)
  \/ Fail(q)

Next ==
  \/ \E q \in Requests : StepOf(q)
  \/ \E l \in Lessons : SetProgress(l)
  \/ \E a \in Attempts, kind \in {"served", "legacy"} : StartAttempt(a, kind)
  \/ Deploy \/ StopOld \/ NextDay

Spec == Init /\ [][Next]_vars

-----------------------------------------------------------------------------
(* Every table and every request has its shape. *)
TypeOK ==
  /\ entry \in [Keys -> Row \cup {Nil}]
  /\ progress \in [Lessons -> {"none", "in-progress", "completed"}]
  /\ running \in (SUBSET Builds) \ {{}} /\ today \in 1..LastDay
  /\ \A a \in Attempts : attempt[a].grade \in Grades \cup {Nil}
  /\ \A q \in Requests : req[q].build \in Builds /\ req[q].day \in 1..LastDay

(* The user's lock: whatever order units are completed in and however many
   at once, an award every build so far has offered is recorded with the
   last of its units. *)
EarnedIsRecorded ==
  LET v == Max(running) IN
  \A a \in Awards :
    Complete(v, a, entry) /\ (\A w \in 1..v : a \in Offered(w) /\ UnitsOf(w, a) # {}) => entry[a] # Nil

(* An award is dated by the unit that completed it, so it adds no day of
   activity of its own to the streak. *)
AwardsMakeNoActivity ==
  \A a \in Awards : entry[a] # Nil => \E u \in Units : entry[u] # Nil /\ entry[u].day = entry[a].day

(* A lesson reads as completed only with its XP recorded: an error anywhere
   undoes the unit, the progress and the awards together. *)
CompletedHasXp == \A l \in Lessons : progress[l] = "completed" => entry[l] # Nil

(* Only a served and graded attempt pays a skill check, and never beyond 50. *)
PaidForServed ==
  entry[Exam] # Nil =>
    /\ entry[Exam].exp \in 0..50
    /\ \E a \in Attempts : attempt[a].kind = "served" /\ attempt[a].finished

(* A trophy needs every unit its build asks for: badges of an older build
   do not stand in for units added later. *)
AwardsAreEarned ==
  [][\A a \in Awards : entry[a] = Nil /\ entry'[a] # Nil =>
       \E q \in Requests :
         UnitsOf(req[q].build, a) \subseteq Recorded(entry') /\ entry'[a].exp = Worth(req[q].build, a)]_vars
=============================================================================
