--------------------------- MODULE SearchRebuild ---------------------------
(***************************************************************************)
(* Rebuilding the search index on boot (backend/src/search).  Every        *)
(* replica that boots rebuilds the whole index into a staging index of its *)
(* own and swaps it in, unless the recorded fingerprint says that the live *)
(* index already holds this build's pages.  Meilisearch runs the tasks it  *)
(* is sent one at a time, in order, whether their sender still waits for   *)
(* them or not.                                                            *)
(***************************************************************************)
EXTENDS Naturals, FiniteSets, Sequences

CONSTANTS
  Replicas,
  LastBuild, Content, Settings, \* what each build indexes: page -> text or Nil; index settings
  Pages, Nil,
  Boots, Faults  \* bounds: boots of all replicas, errors and crashes

Builds == 1..LastBuild
Stagings == 1..Boots  \* Date.now(): no two boots rebuild in the same millisecond
Live == 0

(* The sha256 of a build's settings and documents stands for the two. *)
Generation(b) == [settings |-> Settings[b], pages |-> Content[b]]
Generations == {Generation(b) : b \in Builds}
Empty == [settings |-> Nil, pages |-> [p \in Pages |-> Nil]]

ASSUME ContentAssumption == \A b \in Builds : Content[b] = [p \in Pages |-> Content[b][p]]
ASSUME NilAssumption == Nil \notin Generations \cup Replicas
ASSUME SizesAssumption == IsFiniteSet(Replicas) /\ LastBuild \in Nat \ {0} /\ {Boots, Faults} \subseteq Nat

VARIABLES
  index,   \* Meilisearch's indexes: [settings, pages], or Nil
  meta,    \* content_meta: the fingerprint of the live index, or Nil
  queue,   \* the tasks Meilisearch has not run; sender is Nil when nobody waits
  rep,     \* each replica's rebuild
  current, rolling, \* the build deployed, and whether the next one runs beside it
  boots,
  cut,     \* how many requests and rebuilds an error, a timeout or a stop cut short
  served   \* what the live index has held

engine == <<index, meta, served>>
world == <<current, rolling, boots>>
vars == <<engine, queue, rep, world, cut>>

Held(i) == Cardinality({p \in Pages : i.pages[p] # Nil})

Off == [at |-> "off", build |-> 1, staging |-> Live, waits |-> FALSE]
At(r, at) == rep[r].at = at

Init ==
  /\ index = [i \in {Live} \cup Stagings |-> Nil]
  /\ meta = Nil /\ served = {}
  /\ queue = <<>>
  /\ rep = [r \in Replicas |-> Off]
  /\ current = 1 /\ rolling = FALSE /\ boots = 0 /\ cut = 0

-----------------------------------------------------------------------------
(* The steps of a rebuild and where each leads, done or failed.  A failure *)
(* after the staging index exists discards it; a failed deletion is only   *)
(* logged.                                                                 *)
Tasks == {"create", "stage", "settings", "documents", "swap", "delete", "discard", "record"}
DoneHastily == [create |-> "stage", stage |-> "settings", settings |-> "swap", swap |-> "documents",
                documents |-> "delete", delete |-> "record", discard |-> "off", record |-> "off"]  \* mutant
Done == [create |-> "stage", stage |-> "settings", settings |-> "documents", documents |-> "swap",
         swap |-> "delete", delete |-> "record", discard |-> "off", record |-> "off"]

FailedAnyhow == [create |-> "off", stage |-> "off", settings |-> "discard", documents |-> "discard",
                 swap |-> "record", delete |-> "record", discard |-> "off", record |-> "off"]  \* mutant
Failed == [create |-> "off", stage |-> "off", settings |-> "discard", documents |-> "discard",
           swap |-> "discard", delete |-> "record", discard |-> "off", record |-> "off"]

To(x, at) ==
  IF at = "off" THEN Off ELSE [at |-> at, build |-> x.build, staging |-> x.staging, waits |-> FALSE]

Serving == current..(IF rolling THEN current + 1 ELSE current)

(* A replica boots with a build that is being served; the rebuild runs in *)
(* the background.                                                        *)
Boot(r) ==
  /\ At(r, "off") /\ boots < Boots
  /\ \E b \in Serving : rep' = [rep EXCEPT ![r] =
       [at |-> "check", build |-> b, staging |-> boots + 1, waits |-> FALSE]]
  /\ boots' = boots + 1
  /\ UNCHANGED <<engine, queue, current, rolling, cut>>

Rebuild(r) == rep' = [rep EXCEPT ![r].at = "create"]

(* isCurrent: the fingerprint, then the document count.  An error in either *)
(* request means a rebuild.                                                 *)
ReadFingerprint(r) ==
  /\ At(r, "check")
  /\ \/ meta = Generation(rep[r].build) /\ rep' = [rep EXCEPT ![r].at = "count"]
     \/ Rebuild(r)
  /\ UNCHANGED <<engine, queue, world, cut>>

Counts(r) == index[Live] # Nil /\ Held(index[Live]) = Held(Generation(rep[r].build))

ReadCount(r) ==
  /\ At(r, "count")
  /\ \/ Counts(r) /\ rep' = [rep EXCEPT ![r] = Off]
     \/ Rebuild(r)
  /\ UNCHANGED <<engine, queue, world, cut>>

(* enqueue: the task is registered and the replica waits for it. *)
Send(r) ==
  /\ rep[r].at \in Tasks /\ ~rep[r].waits
  /\ queue' = Append(queue, [op |-> rep[r].at, build |-> rep[r].build, staging |-> rep[r].staging, sender |-> r])
  /\ rep' = [rep EXCEPT ![r].waits = TRUE]
  /\ UNCHANGED <<engine, world, cut>>

Forget(rs) == queue' = [i \in DOMAIN queue |->
  IF queue[i].sender \in rs THEN [queue[i] EXCEPT !.sender = Nil] ELSE queue[i]]

(* A request that is refused, or a task not done before the deadline: the *)
(* task itself stays in Meilisearch's queue.                              *)
GiveUp(r) ==
  /\ rep[r].at \in Tasks /\ cut < Faults
  /\ rep' = [rep EXCEPT ![r] = To(rep[r], Failed[rep[r].at])]
  /\ Forget({r}) /\ cut' = cut + 1
  /\ UNCHANGED <<engine, world>>

Crash(r) ==
  /\ ~At(r, "off") /\ cut < Faults
  /\ rep' = [rep EXCEPT ![r] = Off]
  /\ Forget({r}) /\ cut' = cut + 1
  /\ UNCHANGED <<engine, world>>

-----------------------------------------------------------------------------
(* Meilisearch. *)
Put(i, b) == [i EXCEPT !.pages = [p \in Pages |-> IF Content[b][p] # Nil THEN Content[b][p] ELSE i.pages[p]]]

Recreate(i) == Empty  \* mutant: the live index is created anew

Create(i) == IF i = Nil THEN Empty ELSE i

(* The indexes once t has run: "swap" exchanges two of them at once. *)
After(t) ==
  LET s == t.staging IN
  CASE t.op = "create" -> [index EXCEPT ![Live] = Create(@)]
    [] t.op = "stage" -> [index EXCEPT ![s] = Empty]
    [] t.op = "settings" -> [index EXCEPT ![s].settings = Settings[t.build]]
    [] t.op = "documents" -> [index EXCEPT ![s] = Put(@, t.build)]
    [] t.op = "swap" -> [index EXCEPT ![Live] = index[s], ![s] = index[Live]]
    [] t.op \in {"delete", "discard"} -> [index EXCEPT ![s] = Nil]
    [] t.op = "record" -> index

Reply(t, next) ==
  rep' = IF t.sender = Nil THEN rep ELSE [rep EXCEPT ![t.sender] = To(rep[t.sender], next)]

OutcomeStrict(t) == IF t.op = "create" /\ index[Live] # Nil THEN Failed[t.op] ELSE Done[t.op]  \* mutant

(* ensureIndex takes "index already exists" for success. *)
Outcome(t) == Done[t.op]

NextTask ==
  LET t == Head(queue) IN
  /\ queue # <<>>
  /\ index' = After(t) /\ Reply(t, Outcome(t))
  /\ meta' = IF t.op = "record" THEN Generation(t.build) ELSE meta
  /\ served' = IF t.op = "swap" THEN served \cup {After(t)[Live]} ELSE served
  /\ queue' = Tail(queue)
  /\ UNCHANGED <<world, cut>>

TaskFails ==
  LET t == Head(queue) IN
  /\ queue # <<>> /\ cut < Faults
  /\ Reply(t, Failed[t.op])
  /\ queue' = Tail(queue) /\ cut' = cut + 1
  /\ UNCHANGED <<engine, world>>

-----------------------------------------------------------------------------
(* The next build starts beside the one running; later the old one stops, *)
(* and with it its replicas and their rebuilds.                           *)
Deploy ==
  /\ ~rolling /\ current < LastBuild
  /\ rolling' = TRUE
  /\ UNCHANGED <<engine, queue, rep, current, boots, cut>>

Old == {r \in Replicas : ~At(r, "off") /\ rep[r].build = current}

StopOld ==
  /\ rolling
  /\ rolling' = FALSE /\ current' = current + 1
  /\ rep' = [r \in Replicas |-> IF r \in Old THEN Off ELSE rep[r]]
  /\ Forget(Old) /\ cut' = cut + Cardinality(Old)
  /\ UNCHANGED <<engine, boots>>

StepOf(r) == ReadFingerprint(r) \/ ReadCount(r) \/ Send(r)

Next ==
  \/ \E r \in Replicas : Boot(r) \/ StepOf(r) \/ GiveUp(r) \/ Crash(r)
  \/ NextTask \/ TaskFails
  \/ Deploy \/ StopOld

Spec == Init /\ [][Next]_vars

(* Meilisearch works off its queue and a replica goes on while it runs; *)
(* nothing has to boot, fail or be deployed.                            *)
FairSpec == Spec /\ WF_vars(NextTask) /\ \A r \in Replicas : WF_vars(StepOf(r))

-----------------------------------------------------------------------------
Indexes == [settings : {Settings[b] : b \in Builds} \cup {Nil},
            pages : [Pages -> {Content[b][p] : b \in Builds, p \in Pages} \cup {Nil}]]
Task == [op : Tasks, build : Builds, staging : Stagings, sender : Replicas \cup {Nil}]
Rebuilds == [at : {"off", "check", "count"} \cup Tasks, build : Builds, staging : Stagings \cup {Live},
             waits : BOOLEAN]

(* The engine, its queue and the replicas keep their shape. *)
TypeOK ==
  /\ index \in [{Live} \cup Stagings -> Indexes \cup {Nil}]
  /\ meta \in Generations \cup {Nil} /\ served \in SUBSET (Indexes \cup {Nil})
  /\ queue \in Seq(Task) /\ rep \in [Replicas -> Rebuilds]
  /\ Serving \subseteq Builds /\ current \in Builds /\ rolling \in BOOLEAN
  /\ boots \in 0..Boots /\ cut \in Nat

(* Search never answers from a partial build: whatever is cut short and
   however rebuilds and builds overlap, the live index holds one generation,
   all its pages and no page of another, once it holds anything. *)
LiveIsWhole == index[Live] \in {Nil, Empty} \cup Generations

(* Search keeps answering from the old index until the new one is complete. *)
KeepsAnswering == [][index[Live] \in Generations => index'[Live] \in Generations]_vars

(* A fingerprint is recorded only for what the live index has really held:
   a rebuild cut short before its swap never makes a later boot skip. *)
RecordedWasServed == meta # Nil => meta \in served

(* A rebuild that is not cut short ends with the site searchable, also when
   another has created the index before it. *)
SearchComesUp ==
  \A n \in 0..(Faults + Cardinality(Replicas)) :
    cut = n /\ (\E r \in Replicas : At(r, "create")) ~> index[Live] \in Generations \/ cut > n
=============================================================================
