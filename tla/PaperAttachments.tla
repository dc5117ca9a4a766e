-------------------------- MODULE PaperAttachments --------------------------
(***************************************************************************)
(* A reader's private PDF for a paper (backend/src/paper-attachments).     *)
(* PostgreSQL keeps the attachment, its versions and the queue of objects  *)
(* to delete; object storage keeps the bytes; several replicas of the API  *)
(* serve the requests and drain the queue.                                 *)
(*                                                                         *)
(* An upload is a chain of awaits, so it is a process with a program       *)
(* counter: one action per statement or transaction it awaits.  An upload  *)
(* attempt u is also the identity of the version row it inserts and of the *)
(* object key it draws (a fresh UUID), which are never reused.             *)
(***************************************************************************)
EXTENDS Integers, FiniteSets, FiniteSetsExt

CONSTANTS
  Replicas,       \* processes of the API
  Uploads,        \* upload requests
  Downloads,      \* download requests
  Readers,
  Papers,
  PrivatePapers,  \* papers that are rows owned by one reader; the rest are files
  Owner,          \* the owner of each private paper
  Sizes,          \* sizes an accepted PDF may have (1 .. maxBytes in the code)
  Quota,          \* quotaBytes
  Batch,          \* DELETE_BATCH
  NoUpload

ASSUME PapersAssumption ==
  /\ PrivatePapers \subseteq Papers
  /\ Owner \in [PrivatePapers -> Readers]
ASSUME LimitsAssumption ==
  /\ Sizes \subseteq Nat \ {0}
  /\ Quota \in Nat
  /\ Batch \in Nat \ {0}
ASSUME NoUploadAssumption == NoUpload \notin Uploads

Slots == Readers \X Papers            \* UNIQUE (paper, owner)
Entries == Uploads \X {"row", "late"} \* who queued the key: its row, or a late upload
States == {"none", "pending", "approved", "rejected", "superseded"}
Active == {"checking", "admitted", "putting", "stored", "failed", "late", "settled"}

VARIABLES
  at, slot, size, \* what each attempt asks: replica, (reader, paper), bytes
  pc,             \* where each upload request stands
  uploading,      \* per replica: readers with an upload running there
  paperRows,      \* private papers that exist
  attached,       \* rows of paper_attachment
  row, version,   \* rows of paper_attachment_version: state and number
  queuedAs,       \* rows of storage_deletion: the id of each entry, 0 if absent
  serial,         \* next id of storage_deletion
  store,          \* objects in the bucket
  put,            \* the PutObject request of each attempt
  claimed, done, failed, \* per replica: rows its drain locked, deleted, could not delete
  dl, dlKey       \* download requests: stage and the key they read

inputs == <<at, slot, size>>
requests == <<pc, uploading>>
tables == <<paperRows, attached, row, version>>
queue == <<queuedAs, serial>>
bucket == <<store, put>>
drains == <<claimed, done, failed>>
downloads == <<dl, dlKey>>
vars == <<inputs, requests, tables, queue, bucket, drains, downloads>>

-----------------------------------------------------------------------------
(* Helpers *)

HoldsKey(u) == row[u] \in {"pending", "approved"}   \* CHECK: state <=> "objectKey" IS NOT NULL
Queued == {e \in Entries : queuedAs[e] # 0}
RowsOf(a) == {u \in Uploads : row[u] # "none" /\ slot[u] = a}
MayAttach(a) == a[2] \in PrivatePapers => a[2] \in paperRows /\ Owner[a[2]] = a[1]

(* INSERT INTO storage_deletion.  Keys queued by one statement share an id: *)
(* their order is not determined.                                           *)
Enqueue(E) ==
  /\ queuedAs' = [e \in Entries |-> IF e \in E THEN serial ELSE queuedAs[e]]
  /\ serial' = IF E = {} THEN serial ELSE serial + 1

(* DELETE of version rows: the trigger queues the keys they still held. *)
Erase(S) ==
  /\ row' = [u \in Uploads |-> IF u \in S THEN "none" ELSE row[u]]
  /\ Enqueue({<<u, "row">> : u \in {w \in S : HoldsKey(w)}})

UsedBytesApprovedOnly(a) ==  \* mutant: a version waiting for its scan is free
  MapThenSumSet(LAMBDA u : size[u],
    {u \in Uploads : slot[u][1] = a[1] /\ row[u] = "approved" /\ slot[u] # a})

(* usedBytes: pending and approved bytes, less the file this upload would replace. *)
UsedBytes(a) ==
  MapThenSumSet(LAMBDA u : size[u],
    {u \in Uploads : /\ slot[u][1] = a[1]
                     /\ HoldsKey(u)
                     /\ ~ (slot[u] = a /\ row[u] = "approved")})

(* The request ends; the finally block gives the reader's turn back. *)
Leave(u) ==
  /\ pc' = [pc EXCEPT ![u] = "done"]
  /\ uploading' = [uploading EXCEPT ![at[u]] = @ \ {slot[u][1]}]

Goto(u, to) == pc' = [pc EXCEPT ![u] = to] /\ UNCHANGED uploading

-----------------------------------------------------------------------------
Init ==
  /\ at \in [Uploads -> Replicas]
  /\ slot \in [Uploads -> Slots]
  /\ size \in [Uploads -> Sizes]
  /\ pc = [u \in Uploads |-> "idle"]
  /\ uploading = [r \in Replicas |-> {}]
  /\ paperRows = PrivatePapers
  /\ attached = {}
  /\ row = [u \in Uploads |-> "none"]
  /\ version = [u \in Uploads |-> 0]
  /\ queuedAs = [e \in Entries |-> 0]
  /\ serial = 1
  /\ store = {}
  /\ put = [u \in Uploads |-> "unsent"]
  /\ claimed = [r \in Replicas |-> {}]
  /\ done = [r \in Replicas |-> {}]
  /\ failed = [r \in Replicas |-> {}]
  /\ dl = [d \in Downloads |-> "idle"]
  /\ dlKey = [d \in Downloads |-> NoUpload]

-----------------------------------------------------------------------------
(* The upload request *)

(* Up to the paper lookup.  A refusal here leaves no trace. *)
Begin(u) ==
  /\ pc[u] = "idle"
  /\ slot[u][1] \notin uploading[at[u]]
  /\ MayAttach(slot[u])
  /\ pc' = [pc EXCEPT ![u] = "checking"]
  /\ uploading' = [uploading EXCEPT ![at[u]] = @ \cup {slot[u][1]}]
  /\ UNCHANGED <<inputs, tables, queue, bucket, drains, downloads>>

FitsQuota(u) == UsedBytes(slot[u]) + size[u] <= Quota

CheckQuota(u) ==
  /\ pc[u] = "checking"
  /\ \/ FitsQuota(u) /\ Goto(u, "admitted")
     \/ ~ FitsQuota(u) /\ Leave(u)
  /\ UNCHANGED <<inputs, tables, queue, bucket, drains, downloads>>

CanStartBeside(u) == MayAttach(slot[u])  \* mutant: no unique index on pending versions

(* The unique index on one pending version per attachment, the foreign key to the paper. *)
CanStart(u) ==
  /\ MayAttach(slot[u])
  /\ \A w \in RowsOf(slot[u]) : row[w] # "pending"

(* COALESCE(MAX(version), 0) + 1, the one element of this set. *)
NextVersion(a) ==
  {n \in {1} \cup {version[w] + 1 : w \in RowsOf(a)} : \A w \in RowsOf(a) : version[w] < n}

(* startVersion commits, and put sends the bytes. *)
StartVersion(u) ==
  /\ pc[u] = "admitted"
  /\ CanStart(u)
  /\ attached' = attached \cup {slot[u]}
  /\ row' = [row EXCEPT ![u] = "pending"]
  /\ \E n \in NextVersion(slot[u]) : version' = [version EXCEPT ![u] = n]
  /\ put' = [put EXCEPT ![u] = "sent"]
  /\ Goto(u, "putting")
  /\ UNCHANGED <<inputs, paperRows, queue, store, drains, downloads>>

(* startVersion rolls back: 429 on the index, 500 on the foreign key. *)
RefuseVersion(u) ==
  /\ pc[u] = "admitted"
  /\ ~ CanStart(u)
  /\ Leave(u)
  /\ UNCHANGED <<inputs, tables, queue, bucket, drains, downloads>>

(* storage.put resolves: storage answered that the object is stored. *)
PutSucceeds(u) ==
  /\ pc[u] = "putting"
  /\ put[u] = "landed"
  /\ Goto(u, "stored")
  /\ UNCHANGED <<inputs, tables, queue, bucket, drains, downloads>>

(* storage.put rejects, whatever became or will become of the object. *)
PutFails(u) ==
  /\ pc[u] = "putting"
  /\ Goto(u, "failed")
  /\ UNCHANGED <<inputs, tables, queue, bucket, drains, downloads>>

DropVersion(u) ==
  /\ pc[u] = "failed"
  /\ Erase({u})
  /\ Leave(u)
  /\ UNCHANGED <<inputs, paperRows, attached, version, bucket, drains, downloads>>

Served(a) == {w \in RowsOf(a) : row[w] = "approved"}

StillThere(u) == row[u] # "none"  \* mutant: the state is not looked at

StillPending(u) == row[u] = "pending"

(* The scan passed. *)
Approve(u) ==
  /\ pc[u] = "stored"
  /\ StillPending(u)
  /\ row' = [w \in Uploads |-> IF w = u THEN "approved"
                               ELSE IF w \in Served(slot[u]) THEN "superseded" ELSE row[w]]
  /\ Enqueue(Served(slot[u]) \X {"row"})
  /\ Goto(u, "settled")
  /\ UNCHANGED <<inputs, paperRows, attached, version, bucket, drains, downloads>>

(* The scan refused the bytes: only this refusal is kept. *)
Reject(u) ==
  /\ pc[u] = "stored"
  /\ StillPending(u)
  /\ row' = [w \in Uploads |-> IF w = u THEN "rejected"
                               ELSE IF w \in RowsOf(slot[u]) /\ row[w] = "rejected" THEN "none"
                               ELSE row[w]]
  /\ Enqueue({<<u, "row">>})
  /\ Goto(u, "settled")
  /\ UNCHANGED <<inputs, paperRows, attached, version, bucket, drains, downloads>>

SettleLateIfRetired(u) ==  \* mutant: a version whose row is gone is not expected
  /\ pc[u] = "stored"
  /\ row[u] = "rejected"
  /\ Goto(u, "late")
  /\ UNCHANGED <<inputs, tables, queue, bucket, drains, downloads>>

(* Retired or removed while it uploaded. *)
SettleLate(u) ==
  /\ pc[u] = "stored"
  /\ ~ StillPending(u)
  /\ Goto(u, "late")
  /\ UNCHANGED <<inputs, tables, queue, bucket, drains, downloads>>

QueueLate(u) ==
  /\ pc[u] = "late"
  /\ Enqueue({<<u, "late">>})
  /\ Leave(u)
  /\ UNCHANGED <<inputs, tables, bucket, drains, downloads>>

(* Audit, the answer, and finally. *)
Finish(u) ==
  /\ pc[u] = "settled"
  /\ Leave(u)
  /\ UNCHANGED <<inputs, tables, queue, bucket, drains, downloads>>

(* A statement throws and its transaction rolls back: the request ends with a 500. *)
DbError(u) ==
  /\ pc[u] \in {"checking", "admitted", "stored", "failed", "late"}
  /\ Leave(u)
  /\ UNCHANGED <<inputs, tables, queue, bucket, drains, downloads>>

-----------------------------------------------------------------------------
(* Removal of an attachment, and of a paper with what hangs on it *)

Remove(a) ==
  /\ a \in attached
  /\ attached' = attached \ {a}
  /\ Erase(RowsOf(a))
  /\ UNCHANGED <<inputs, requests, paperRows, version, bucket, drains, downloads>>

DeletePaper(p) ==
  /\ p \in paperRows
  /\ paperRows' = paperRows \ {p}
  /\ attached' = {a \in attached : a[2] # p}
  /\ Erase(UNION {RowsOf(a) : a \in Readers \X {p}})
  /\ UNCHANGED <<inputs, requests, version, bucket, drains, downloads>>

-----------------------------------------------------------------------------
(* Background work: retiring stale uploads, draining the queue *)

(* One statement retires the versions pending for ten minutes, which may be any. *)
RetireStale(S) ==
  /\ S # {}
  /\ \A u \in S : row[u] = "pending"
  /\ row' = [u \in Uploads |-> IF u \in S THEN "rejected" ELSE row[u]]
  /\ Enqueue(S \X {"row"})
  /\ UNCHANGED <<inputs, requests, paperRows, attached, version, bucket, drains, downloads>>

Locked == UNION {claimed[r] : r \in Replicas}

(* SELECT ... ORDER BY id LIMIT batch FOR UPDATE SKIP LOCKED *)
Oldest(S) ==
  /\ S \subseteq Queued \ Locked
  /\ IF Cardinality(Queued \ Locked) <= Batch THEN S = Queued \ Locked
                                              ELSE Cardinality(S) = Batch
  /\ \A e \in S, f \in (Queued \ Locked) \ S : queuedAs[e] <= queuedAs[f]

DrainSelect(r, S) ==
  /\ claimed[r] = {}
  /\ S # {}
  /\ Oldest(S)
  /\ claimed' = [claimed EXCEPT ![r] = S]
  /\ UNCHANGED <<inputs, requests, tables, queue, bucket, done, failed, downloads>>

ToDo(r) == claimed[r] \ (done[r] \cup failed[r])

DrainDeletePresent(r, e) ==  \* mutant: deleting a key that is already gone does not count
  /\ e \in ToDo(r)
  /\ e[1] \in store
  /\ store' = store \ {e[1]}
  /\ done' = [done EXCEPT ![r] = @ \cup {e}]
  /\ UNCHANGED <<inputs, requests, tables, queue, put, claimed, failed, downloads>>

DrainDelete(r, e) ==
  /\ e \in ToDo(r)
  /\ store' = store \ {e[1]}
  /\ done' = [done EXCEPT ![r] = @ \cup {e}]
  /\ UNCHANGED <<inputs, requests, tables, queue, put, claimed, failed, downloads>>

(* The delete is answered with an error, before or after it took effect. *)
DrainDeleteFails(r, e) ==
  /\ e \in ToDo(r)
  /\ \/ store' = store
     \/ store' = store \ {e[1]}
  /\ failed' = [failed EXCEPT ![r] = @ \cup {e}]
  /\ UNCHANGED <<inputs, requests, tables, queue, put, claimed, done, downloads>>

Release(r) ==
  /\ claimed' = [claimed EXCEPT ![r] = {}]
  /\ done' = [done EXCEPT ![r] = {}]
  /\ failed' = [failed EXCEPT ![r] = {}]

DrainCommitAll(r) ==  \* mutant: the whole batch leaves the queue
  /\ claimed[r] # {}
  /\ ToDo(r) = {}
  /\ queuedAs' = [e \in Entries |-> IF e \in claimed[r] THEN 0 ELSE queuedAs[e]]
  /\ Release(r)
  /\ UNCHANGED <<inputs, requests, tables, serial, bucket, downloads>>

DrainCommit(r) ==
  /\ claimed[r] # {}
  /\ ToDo(r) = {}
  /\ queuedAs' = [e \in Entries |-> IF e \in done[r] THEN 0 ELSE queuedAs[e]]
  /\ Release(r)
  /\ UNCHANGED <<inputs, requests, tables, serial, bucket, downloads>>

(* The transaction fails: the locks go, the rows stay. *)
DrainAbort(r) ==
  /\ claimed[r] # {}
  /\ Release(r)
  /\ UNCHANGED <<inputs, requests, tables, queue, bucket, downloads>>

-----------------------------------------------------------------------------
(* The download request *)

OpenSelect(d, a) ==
  /\ dl[d] = "idle"
  /\ \E u \in Served(a) : dlKey' = [dlKey EXCEPT ![d] = u]
  /\ dl' = [dl EXCEPT ![d] = "fetching"]
  /\ UNCHANGED <<inputs, requests, tables, queue, bucket, drains>>

OpenFetch(d) ==
  /\ dl[d] = "fetching"
  /\ dl' = [dl EXCEPT ![d] = IF dlKey[d] \in store THEN "served" ELSE "file_missing"]
  /\ UNCHANGED <<inputs, requests, tables, queue, bucket, drains, dlKey>>

-----------------------------------------------------------------------------
(* The environment: object storage, and crashes of a replica *)

PutLands(u) ==
  /\ put[u] = "sent"
  /\ put' = [put EXCEPT ![u] = "landed"]
  /\ store' = store \cup {u}
  /\ UNCHANGED <<inputs, requests, tables, queue, drains, downloads>>

PutLost(u) ==
  /\ put[u] = "sent"
  /\ put' = [put EXCEPT ![u] = "lost"]
  /\ UNCHANGED <<inputs, requests, tables, queue, store, drains, downloads>>

Running(r) == {u \in Uploads : at[u] = r /\ pc[u] \in Active}

(* The replica restarts: its requests and its open transaction are gone. *)
Crash(r) ==
  /\ Running(r) # {} \/ claimed[r] # {}
  /\ pc' = [u \in Uploads |-> IF u \in Running(r) THEN "done" ELSE pc[u]]
  /\ uploading' = [uploading EXCEPT ![r] = {}]
  /\ Release(r)
  /\ UNCHANGED <<inputs, tables, queue, bucket, downloads>>

-----------------------------------------------------------------------------
(* What a request does by itself: every step but the answer of storage.put. *)
Advance(u) ==
  \/ CheckQuota(u) \/ StartVersion(u) \/ RefuseVersion(u) \/ DropVersion(u)
  \/ Approve(u) \/ Reject(u) \/ SettleLate(u) \/ QueueLate(u)
  \/ Finish(u)

Proceed(u) == Advance(u) \/ PutSucceeds(u) \/ PutFails(u)

Upload(u) == Begin(u) \/ Proceed(u) \/ DbError(u)

Drain(r) ==
  \/ \E S \in SUBSET (Queued \ Locked) : DrainSelect(r, S)
  \/ \E e \in claimed[r] : DrainDelete(r, e) \/ DrainDeleteFails(r, e)
  \/ DrainCommit(r)
  \/ DrainAbort(r)

Next ==
  \/ \E u \in Uploads : Upload(u) \/ PutLands(u) \/ PutLost(u)
  \/ \E a \in Slots : Remove(a)
  \/ \E p \in Papers : DeletePaper(p)
  \/ \E S \in SUBSET Uploads : RetireStale(S)
  \/ \E r \in Replicas : Drain(r) \/ Crash(r)
  \/ \E d \in Downloads : (\E a \in Slots : OpenSelect(d, a)) \/ OpenFetch(d)

Spec == Init /\ [][Next]_vars

(* What may go wrong in the background, one step each *)
Fault == \E r \in Replicas :
  \/ Crash(r)
  \/ DrainAbort(r)
  \/ \E e \in claimed[r] : DrainDeleteFails(r, e)

(* A request that runs is carried on, the timer keeps calling maintain, and  *)
(* database, replicas and the deletes of a drain are sooner or later well    *)
(* for long enough.  storage.put owes no answer: its client has no timeout.  *)
Fairness ==
  /\ \A u \in Uploads :
       /\ WF_vars(Advance(u))
       /\ WF_vars(RetireStale({u}))
  /\ \A r \in Replicas :
       /\ WF_vars(\E S \in SUBSET (Queued \ Locked) : DrainSelect(r, S))
       /\ WF_vars(\E e \in claimed[r] : DrainDelete(r, e))
       /\ WF_vars(DrainCommit(r))
  /\ <>[][~ Fault]_vars

FairSpec == Spec /\ Fairness

-----------------------------------------------------------------------------
(* Properties *)

(* Every variable stays in its type. *)
TypeOK ==
  /\ at \in [Uploads -> Replicas]
  /\ slot \in [Uploads -> Slots]
  /\ size \in [Uploads -> Sizes]
  /\ pc \in [Uploads -> {"idle", "done"} \cup Active]
  /\ uploading \in [Replicas -> SUBSET Readers]
  /\ paperRows \subseteq PrivatePapers
  /\ attached \subseteq Slots
  /\ row \in [Uploads -> States]
  /\ version \in [Uploads -> Nat]
  /\ queuedAs \in [Entries -> Nat]
  /\ serial \in Nat \ {0}
  /\ store \subseteq Uploads
  /\ put \in [Uploads -> {"unsent", "sent", "landed", "lost"}]
  /\ claimed \in [Replicas -> SUBSET Entries]
  /\ done \in [Replicas -> SUBSET Entries]
  /\ failed \in [Replicas -> SUBSET Entries]
  /\ dl \in [Downloads -> {"idle", "fetching", "served", "file_missing"}]
  /\ dlKey \in [Downloads -> Uploads \cup {NoUpload}]

(* An attachment serves one file and no two of its versions share a number: *)
(* approve never trips over the unique indexes, whatever was deleted before. *)
OneServedFile ==
  /\ \A u, w \in Uploads :
       row[u] = "approved" /\ row[w] = "approved" /\ slot[u] = slot[w] => u = w
  /\ \A u, w \in Uploads :
       row[u] # "none" /\ row[w] # "none" /\ slot[u] = slot[w] /\ version[u] = version[w]
         => u = w

(* The file of an approved version is in storage: no drain, late queueing or *)
(* retirement ever deletes the object a reader is being served.              *)
ServedHasObject == \A u \in Uploads : row[u] = "approved" => u \in store

(* A download answers file_missing only when the version it read was replaced *)
(* or removed while it ran.                                                   *)
MissingOnlyIfReplaced ==
  \A d \in Downloads : dl[d] = "file_missing" => row[dlKey[d]] # "approved"

(* The in-memory turn is taken exactly by the requests that run: every way out *)
(* of an upload gives it back, and no two uploads of a reader share a replica. *)
TurnsAreExact ==
  /\ \A r \in Replicas : uploading[r] = {slot[u][1] : u \in Running(r)}
  /\ \A u, w \in Uploads :
       {pc[u], pc[w]} \subseteq Active /\ at[u] = at[w] /\ slot[u][1] = slot[w][1] => u = w

(* An object is accounted for while a version holds its key or the queue still *)
(* owes it a delete.                                                           *)
Accounted(u) ==
  \/ HoldsKey(u)
  \/ \E e \in Queued : e[1] = u /\ \A r \in Replicas : e \notin done[r]

(* Once an object in storage is accounted for it stays so until it is deleted: *)
(* no deletion path, retirement, failed delete or crash forgets it.            *)
NeverForgotten ==
  [][\A u \in store \cap store' : Accounted(u) => Accounted(u)']_vars

(* While an attachment stays, the version number it serves only grows. *)
ServedVersionAdvances ==
  [][\A u, w \in Uploads :
       u \in Served(slot[u]) /\ w \in Served(slot[w])' /\ slot[u] = slot[w] /\ u # w
         => version'[w] > version[u]]_vars

(* What a reader ends up holding, whichever way the uploads in flight end. *)
HeldBytes(rd) ==
  MapThenSumSet(
    LAMBDA a : Max({size[u] : u \in {w \in RowsOf(a) : HoldsKey(w)}} \cup {0}),
    {rd} \X Papers)

(* "Bytes of PDFs one reader may hold (waiting for a scan, or approved). The file *)
(* a replacement removes does not count" (README.md:76): so on one replica, where *)
(* a reader's turn makes check and insert one step; on two it does not hold.      *)
HeldWithinQuota == \A rd \in Readers : HeldBytes(rd) <= Quota

(* An upload is answered, or storage never answers its put and it waits there *)
(* for ever, the reader's turn on that replica with it; whatever crashed,     *)
(* failed or was late on the way, nothing else keeps it.  A version does not  *)
(* wait even then: maintain retires what is pending.                          *)
UploadsSettle ==
  \A u \in Uploads :
    /\ pc[u] \in Active ~> (pc[u] = "done" \/ [](pc[u] = "putting"))
    /\ row[u] = "pending" ~> row[u] # "pending"

(* Every queued object is deleted in the end. *)
QueueDrains == \A e \in Entries : queuedAs[e] # 0 ~> queuedAs[e] = 0

-----------------------------------------------------------------------------
(* The promise of PdfShelf, read off the tables. *)
AnyOf(S) == CHOOSE u \in S : TRUE
ServedFile(a) == IF Served(a) = {} THEN NoUpload ELSE AnyOf(Served(a))

Shelf == INSTANCE PdfShelf WITH
  Files <- Uploads,
  NoFile <- NoUpload,
  served <- [a \in Slots |-> ServedFile(a)],
  present <- store,
  spent <- {u \in Uploads : pc[u] \in {"settled", "done"}}

(* The attachments implement the shelf: what is served is in storage, and no *)
(* file comes back once it was replaced, refused or deleted.                 *)
KeepsTheShelf == Shelf!Spec
=============================================================================
