----------------------- MODULE PaperAttachmentsProofs -----------------------
(***************************************************************************)
(* What PaperAttachments guarantees for any number of replicas, readers,   *)
(* papers and uploads.  The inductive invariant Inv relates the three      *)
(* places that know an object: the row that holds its key, the queue that  *)
(* owes it a delete, and the bucket.                                       *)
(***************************************************************************)
EXTENDS PaperAttachments, FiniteSetTheorems, WellFoundedInduction, TLAPS

(* Before its version row exists, an upload has left no trace. *)
Fresh ==
  \A u \in Uploads : pc[u] \in {"idle", "checking", "admitted"} =>
    /\ row[u] = "none"
    /\ put[u] = "unsent"
    /\ u \notin store
    /\ \A e \in Entries : e[1] = u => queuedAs[e] = 0

(* A key is never both held by a row and queued for deletion. *)
HeldNotQueued ==
  \A e \in Entries : HoldsKey(e[1]) => queuedAs[e] = 0

(* A drain works on rows of the queue that it alone has locked. *)
ClaimsAreQueued ==
  \A r \in Replicas :
    /\ claimed[r] \subseteq Queued
    /\ done[r] \subseteq claimed[r]
    /\ failed[r] \subseteq claimed[r]
    /\ \A q \in Replicas \ {r} : claimed[q] \cap claimed[r] = {}

(* A stored object stays as long as a row holds its key. *)
HeldIsStored == \A u \in Uploads : put[u] = "landed" /\ HoldsKey(u) => u \in store

(* Only an upload whose bytes storage confirmed gets approved, and only it. *)
Settlement ==
  \A u \in Uploads :
    /\ pc[u] = "stored" => put[u] = "landed"
    /\ row[u] = "approved" => put[u] = "landed" /\ pc[u] \in {"settled", "done"}
    /\ pc[u] = "late" => ~ HoldsKey(u)

(* A download reads the key of a version that is settled for good. *)
DownloadsAreSettled ==
  \A d \in Downloads : dl[d] # "idle" =>
    dlKey[d] \in Uploads /\ pc[dlKey[d]] \in {"settled", "done"}

Inv ==
  /\ TypeOK
  /\ Fresh
  /\ HeldNotQueued
  /\ ClaimsAreQueued
  /\ HeldIsStored
  /\ Settlement
  /\ DownloadsAreSettled

-----------------------------------------------------------------------------
(* Type correctness: every action keeps every variable in its type. *)
LEMMA TypingInit == Init => TypeOK
BY LimitsAssumption DEF Init, TypeOK, Active, States

LEMMA TypingStep == TypeOK /\ [Next]_vars => TypeOK'
<1> SUFFICES ASSUME TypeOK, [Next]_vars PROVE TypeOK'
  OBVIOUS
<1> USE DEF TypeOK, Active, inputs, requests, tables, queue, bucket, drains, downloads
<1>1. ASSUME NEW u \in Uploads, Upload(u) PROVE TypeOK'
  <2>1. CASE Begin(u)
    BY <2>1 DEF Begin, Slots
  <2>2. CASE CheckQuota(u)
    BY <2>2 DEF CheckQuota, Goto, Leave
  <2>3. CASE StartVersion(u)
    BY <2>3 DEF StartVersion, Goto, NextVersion, States, RowsOf
  <2>4. CASE RefuseVersion(u)
    BY <2>4 DEF RefuseVersion, Leave
  <2>5. CASE PutSucceeds(u)
    BY <2>5 DEF PutSucceeds, Goto
  <2>6. CASE PutFails(u)
    BY <2>6 DEF PutFails, Goto
  <2>7. CASE DropVersion(u)
    BY <2>7 DEF DropVersion, Erase, Enqueue, Leave, States
  <2>8. CASE Approve(u)
    BY <2>8 DEF Approve, Enqueue, Goto, States
  <2>9. CASE Reject(u)
    BY <2>9 DEF Reject, Enqueue, Goto, States
  <2>10. CASE SettleLate(u)
    BY <2>10 DEF SettleLate, Goto
  <2>11. CASE QueueLate(u)
    BY <2>11 DEF QueueLate, Enqueue, Leave
  <2>12. CASE Finish(u)
    BY <2>12 DEF Finish, Leave
  <2>13. CASE DbError(u)
    BY <2>13 DEF DbError, Leave
  <2> QED BY <1>1, <2>1, <2>2, <2>3, <2>4, <2>5, <2>6, <2>7, <2>8, <2>9, <2>10, <2>11, <2>12, <2>13 DEF Upload, Proceed, Advance
<1>2. ASSUME NEW u \in Uploads, PutLands(u) \/ PutLost(u) PROVE TypeOK'
  BY <1>2 DEF PutLands, PutLost
<1>3. ASSUME NEW a \in Slots, Remove(a) PROVE TypeOK'
  BY <1>3 DEF Remove, Erase, Enqueue, States
<1>4. ASSUME NEW p \in Papers, DeletePaper(p) PROVE TypeOK'
  BY <1>4 DEF DeletePaper, Erase, Enqueue, States
<1>5. ASSUME NEW S \in SUBSET Uploads, RetireStale(S) PROVE TypeOK'
  BY <1>5 DEF RetireStale, Enqueue, States
<1>6. ASSUME NEW r \in Replicas, Drain(r) PROVE TypeOK'
  <2>1. ASSUME NEW S \in SUBSET (Queued \ Locked), DrainSelect(r, S) PROVE TypeOK'
    BY <2>1 DEF DrainSelect, Queued
  <2>2. ASSUME NEW e \in claimed[r], DrainDelete(r, e) PROVE TypeOK'
    BY <2>2 DEF DrainDelete, ToDo
  <2>3. ASSUME NEW e \in claimed[r], DrainDeleteFails(r, e) PROVE TypeOK'
    BY <2>3 DEF DrainDeleteFails, ToDo
  <2>4. CASE DrainCommit(r)
    BY <2>4 DEF DrainCommit, Release
  <2>5. CASE DrainAbort(r)
    BY <2>5 DEF DrainAbort, Release
  <2> QED BY <1>6, <2>1, <2>2, <2>3, <2>4, <2>5 DEF Drain
<1>7. ASSUME NEW r \in Replicas, Crash(r) PROVE TypeOK'
  BY <1>7 DEF Crash, Release
<1>8. ASSUME NEW d \in Downloads, NEW a \in Slots, OpenSelect(d, a) PROVE TypeOK'
  BY <1>8 DEF OpenSelect, Served, RowsOf
<1>9. ASSUME NEW d \in Downloads, OpenFetch(d) PROVE TypeOK'
  BY <1>9 DEF OpenFetch
<1>10. CASE UNCHANGED vars
  BY <1>10 DEF vars
<1> QED BY <1>1, <1>2, <1>3, <1>4, <1>5, <1>6, <1>7, <1>8, <1>9, <1>10 DEF Next

-----------------------------------------------------------------------------
(* The invariant *)
LEMMA InvInit == Init => Inv
<1> SUFFICES ASSUME Init PROVE Inv
  OBVIOUS
<1>1. TypeOK
  BY TypingInit
<1> QED BY <1>1 DEF Init, Inv, Fresh, HeldNotQueued, ClaimsAreQueued, HeldIsStored,
  Settlement, DownloadsAreSettled, HoldsKey

LEMMA InvStep == Inv /\ [Next]_vars => Inv'
<1> SUFFICES ASSUME Inv, [Next]_vars PROVE Inv'
  OBVIOUS
<1>0. TypeOK'
  BY TypingStep DEF Inv
<1> USE DEF Inv, TypeOK, Active, Entries, HoldsKey, Queued, Fresh, HeldNotQueued,
      ClaimsAreQueued, HeldIsStored, Settlement, DownloadsAreSettled,
      inputs, requests, tables, queue, bucket, drains, downloads
<1>1. ASSUME NEW u \in Uploads, Upload(u) PROVE Inv'
  <2>1. CASE Begin(u)
    BY <1>0, <2>1 DEF Begin
  <2>2. CASE CheckQuota(u)
    <3>1. CASE Goto(u, "admitted")
      BY <1>0, <2>2, <3>1 DEF CheckQuota, Goto
    <3>2. CASE Leave(u)
      BY <1>0, <2>2, <3>2 DEF CheckQuota, Leave
    <3> QED BY <2>2, <3>1, <3>2 DEF CheckQuota
  <2>3. CASE StartVersion(u)
    BY <1>0, <2>3 DEF StartVersion, Goto
  <2>4. CASE RefuseVersion(u)
    BY <1>0, <2>4 DEF RefuseVersion, Leave
  <2>5. CASE PutSucceeds(u)
    BY <1>0, <2>5 DEF PutSucceeds, Goto
  <2>6. CASE PutFails(u)
    BY <1>0, <2>6 DEF PutFails, Goto
  <2>7. CASE DropVersion(u)
    BY <1>0, <2>7 DEF DropVersion, Erase, Enqueue, Leave
  <2>8. CASE Approve(u)
    BY <1>0, <2>8 DEF Approve, Enqueue, Goto, StillPending, Served, RowsOf
  <2>9. CASE Reject(u)
    BY <1>0, <2>9 DEF Reject, Enqueue, Goto, StillPending, RowsOf
  <2>10. CASE SettleLate(u)
    BY <1>0, <2>10 DEF SettleLate, Goto, StillPending
  <2>11. CASE QueueLate(u)
    BY <1>0, <2>11 DEF QueueLate, Enqueue, Leave
  <2>12. CASE Finish(u)
    BY <1>0, <2>12 DEF Finish, Leave
  <2>13. CASE DbError(u)
    BY <1>0, <2>13 DEF DbError, Leave
  <2> QED BY <1>1, <2>1, <2>2, <2>3, <2>4, <2>5, <2>6, <2>7, <2>8, <2>9, <2>10, <2>11, <2>12, <2>13 DEF Upload, Proceed, Advance
<1>2. ASSUME NEW u \in Uploads, PutLands(u) \/ PutLost(u) PROVE Inv'
  BY <1>0, <1>2 DEF PutLands, PutLost
<1>3. ASSUME NEW a \in Slots, Remove(a) PROVE Inv'
  BY <1>0, <1>3 DEF Remove, Erase, Enqueue, RowsOf
<1>4. ASSUME NEW p \in Papers, DeletePaper(p) PROVE Inv'
  <2> DEFINE S == UNION {RowsOf(a) : a \in Readers \X {p}}
  <2>1. S \subseteq {u \in Uploads : row[u] # "none"}
    BY DEF RowsOf
  <2>2. Erase(S) /\ UNCHANGED <<inputs, pc, put, store, drains, downloads>>
    BY <1>4 DEF DeletePaper
  <2> HIDE DEF S
  <2> QED BY <1>0, <2>1, <2>2 DEF Erase, Enqueue
<1>5. ASSUME NEW S \in SUBSET Uploads, RetireStale(S) PROVE Inv'
  BY <1>0, <1>5 DEF RetireStale, Enqueue
<1>6. ASSUME NEW r \in Replicas, Drain(r) PROVE Inv'
  <2>1. ASSUME NEW S \in SUBSET (Queued \ Locked), DrainSelect(r, S) PROVE Inv'
    BY <1>0, <2>1 DEF DrainSelect, Locked
  <2>2. ASSUME NEW e \in claimed[r], DrainDelete(r, e) PROVE Inv'
    BY <1>0, <2>2 DEF DrainDelete, ToDo
  <2>3. ASSUME NEW e \in claimed[r], DrainDeleteFails(r, e) PROVE Inv'
    BY <1>0, <2>3 DEF DrainDeleteFails, ToDo
  <2>4. CASE DrainCommit(r)
    BY <1>0, <2>4 DEF DrainCommit, Release
  <2>5. CASE DrainAbort(r)
    BY <1>0, <2>5 DEF DrainAbort, Release
  <2> QED BY <1>6, <2>1, <2>2, <2>3, <2>4, <2>5 DEF Drain
<1>7. ASSUME NEW r \in Replicas, Crash(r) PROVE Inv'
  BY <1>0, <1>7 DEF Crash, Release, Running
<1>8. ASSUME NEW d \in Downloads, NEW a \in Slots, OpenSelect(d, a) PROVE Inv'
  BY <1>0, <1>8 DEF OpenSelect, Served, RowsOf
<1>9. ASSUME NEW d \in Downloads, OpenFetch(d) PROVE Inv'
  BY <1>0, <1>9 DEF OpenFetch
<1>10. CASE UNCHANGED vars
  BY <1>0, <1>10 DEF vars
<1> QED BY <1>1, <1>2, <1>3, <1>4, <1>5, <1>6, <1>7, <1>8, <1>9, <1>10 DEF Next

-----------------------------------------------------------------------------
(* What a step can do to the rows *)

(* Drains and crashes leave the tables alone. *)
LEMMA BackgroundKeepsRows ==
  ASSUME NEW r \in Replicas, Drain(r) \/ Crash(r)
  PROVE  UNCHANGED <<slot, row, version>>
<1> USE DEF inputs, tables
<1>1. ASSUME NEW S \in SUBSET (Queued \ Locked), DrainSelect(r, S)
      PROVE  UNCHANGED <<slot, row, version>>
  BY <1>1 DEF DrainSelect
<1>2. ASSUME NEW e \in claimed[r], DrainDelete(r, e) \/ DrainDeleteFails(r, e)
      PROVE  UNCHANGED <<slot, row, version>>
  BY <1>2 DEF DrainDelete, DrainDeleteFails
<1>3. CASE DrainCommit(r) \/ DrainAbort(r) \/ Crash(r)
  BY <1>3 DEF DrainCommit, DrainAbort, Crash
<1> QED BY <1>1, <1>2, <1>3 DEF Drain

(* Nothing but approve makes a version served; the inputs never change. *)
LEMMA OnlyApproveServes ==
  ASSUME TypeOK, [Next]_vars
  PROVE  /\ slot' = slot
         /\ \A w \in Uploads :
              row'[w] = "approved" => row[w] = "approved" \/ Approve(w)
<1> USE DEF TypeOK, Active, States, inputs, requests, tables
<1> DEFINE Goal == /\ slot' = slot
                   /\ \A w \in Uploads :
                        row'[w] = "approved" => row[w] = "approved" \/ Approve(w)
<1>1. ASSUME NEW u \in Uploads, Upload(u) PROVE Goal
  <2>1. CASE StartVersion(u)
    BY <2>1 DEF StartVersion
  <2>2. CASE Approve(u)
    <3>1. slot' = slot
      BY <2>2 DEF Approve
    <3>2. ASSUME NEW w \in Uploads, row'[w] = "approved" PROVE row[w] = "approved" \/ w = u
      BY <2>2, <3>2 DEF Approve
    <3> QED BY <2>2, <3>1, <3>2
  <2>3. CASE DropVersion(u)
    BY <2>3 DEF DropVersion, Erase
  <2>4. CASE Reject(u)
    BY <2>4 DEF Reject
  <2>5. CASE UNCHANGED <<slot, row>>
    BY <2>5
  <2> QED BY <1>1, <2>1, <2>2, <2>3, <2>4, <2>5 DEF Upload, Proceed, Advance, Begin, CheckQuota,
    RefuseVersion, PutSucceeds, PutFails, SettleLate, QueueLate, Finish, DbError
<1>2. ASSUME NEW u \in Uploads, PutLands(u) \/ PutLost(u) PROVE Goal
  BY <1>2 DEF PutLands, PutLost
<1>3. ASSUME NEW a \in Slots, Remove(a) PROVE Goal
  BY <1>3 DEF Remove, Erase
<1>4. ASSUME NEW p \in Papers, DeletePaper(p) PROVE Goal
  BY <1>4 DEF DeletePaper, Erase
<1>5. ASSUME NEW S \in SUBSET Uploads, RetireStale(S) PROVE Goal
  BY <1>5 DEF RetireStale
<1>6. ASSUME NEW r \in Replicas, Drain(r) \/ Crash(r) PROVE Goal
  BY <1>6, BackgroundKeepsRows
<1>7. ASSUME NEW d \in Downloads, (\E a \in Slots : OpenSelect(d, a)) \/ OpenFetch(d) PROVE Goal
  BY <1>7 DEF OpenSelect, OpenFetch
<1>8. CASE UNCHANGED vars
  BY <1>8 DEF vars
<1> QED BY <1>1, <1>2, <1>3, <1>4, <1>5, <1>6, <1>7, <1>8 DEF Next

(* Rows and version numbers appear nowhere but in startVersion. *)
LEMMA OnlyStartInserts ==
  ASSUME TypeOK, [Next]_vars
  PROVE  \/ \E u \in Uploads : StartVersion(u)
         \/ /\ version' = version
            /\ \A w \in Uploads : row'[w] # "none" => row[w] # "none"
<1> USE DEF TypeOK, Active, States, inputs, requests, tables
<1> DEFINE Goal == \/ \E u \in Uploads : StartVersion(u)
                   \/ /\ version' = version
                      /\ \A w \in Uploads : row'[w] # "none" => row[w] # "none"
<1>1. ASSUME NEW u \in Uploads, Upload(u) PROVE Goal
  <2>1. CASE StartVersion(u)
    BY <2>1
  <2>2. CASE Approve(u)
    BY <2>2 DEF Approve, StillPending, Served, RowsOf
  <2>3. CASE DropVersion(u)
    BY <2>3 DEF DropVersion, Erase
  <2>4. CASE Reject(u)
    BY <2>4 DEF Reject, StillPending
  <2>5. CASE UNCHANGED <<version, row>>
    BY <2>5
  <2> QED BY <1>1, <2>1, <2>2, <2>3, <2>4, <2>5 DEF Upload, Proceed, Advance, Begin, CheckQuota,
    RefuseVersion, PutSucceeds, PutFails, SettleLate, QueueLate, Finish, DbError
<1>2. ASSUME NEW u \in Uploads, PutLands(u) \/ PutLost(u) PROVE Goal
  BY <1>2 DEF PutLands, PutLost
<1>3. ASSUME NEW a \in Slots, Remove(a) PROVE Goal
  BY <1>3 DEF Remove, Erase
<1>4. ASSUME NEW p \in Papers, DeletePaper(p) PROVE Goal
  BY <1>4 DEF DeletePaper, Erase
<1>5. ASSUME NEW S \in SUBSET Uploads, RetireStale(S) PROVE Goal
  BY <1>5 DEF RetireStale
<1>6. ASSUME NEW r \in Replicas, Drain(r) \/ Crash(r) PROVE Goal
  BY <1>6, BackgroundKeepsRows
<1>7. ASSUME NEW d \in Downloads, (\E a \in Slots : OpenSelect(d, a)) \/ OpenFetch(d) PROVE Goal
  BY <1>7 DEF OpenSelect, OpenFetch
<1>8. CASE UNCHANGED vars
  BY <1>8 DEF vars
<1> QED BY <1>1, <1>2, <1>3, <1>4, <1>5, <1>6, <1>7, <1>8 DEF Next

-----------------------------------------------------------------------------
(* Every variable stays in its type. *)
THEOREM TypeCorrect == Spec => []TypeOK
<1>1. Init => TypeOK
  BY TypingInit
<1>2. TypeOK /\ [Next]_vars => TypeOK'
  BY TypingStep
<1> QED BY <1>1, <1>2, PTL DEF Spec

(* Inv holds in every reachable state. *)
THEOREM InvHolds == Spec => []Inv
<1>1. Init => Inv
  BY InvInit
<1>2. Inv /\ [Next]_vars => Inv'
  BY InvStep
<1> QED BY <1>1, <1>2, PTL DEF Spec

(* The file being served is in storage, whatever is drained, retired, removed, *)
(* retried or crashes around it.                                               *)
THEOREM ServedIsStored == Spec => []ServedHasObject
<1>1. Inv => ServedHasObject
  BY DEF Inv, HeldIsStored, Settlement, HoldsKey, ServedHasObject
<1> QED BY <1>1, InvHolds, PTL

(* approve and startVersion never trip over the unique indexes. *)
THEOREM OneFileServed == Spec => []OneServedFile
<1>1. Init => OneServedFile
  BY DEF Init, OneServedFile
<1>2. TypeOK /\ OneServedFile /\ [Next]_vars => OneServedFile'
  <2> SUFFICES ASSUME TypeOK, OneServedFile, [Next]_vars PROVE OneServedFile'
    OBVIOUS
  <2>1. slot' = slot
    BY OnlyApproveServes
  <2>2. ASSUME NEW u \in Uploads, NEW w \in Uploads,
               row'[u] = "approved", row'[w] = "approved", slot[u] = slot[w]
        PROVE  u = w
    <3>1. CASE row[u] = "approved" /\ row[w] = "approved"
      BY <2>2, <3>1 DEF OneServedFile
    <3>2. ASSUME NEW x \in Uploads, Approve(x), x \in {u, w} PROVE u = w
      BY <2>2, <3>2 DEF Approve, Served, RowsOf, TypeOK
    <3> QED BY <2>2, <3>1, <3>2, OnlyApproveServes
  <2>3. ASSUME NEW u \in Uploads, NEW w \in Uploads, row'[u] # "none", row'[w] # "none",
               slot[u] = slot[w], version'[u] = version'[w]
        PROVE  u = w
    <3>1. ASSUME NEW x \in Uploads, StartVersion(x) PROVE u = w
      <4>1. PICK n \in NextVersion(slot[x]) : version' = [version EXCEPT ![x] = n]
        BY <3>1 DEF StartVersion
      <4>2. \A y \in RowsOf(slot[x]) : version[y] < n /\ version[y] \in Nat
        BY <4>1 DEF NextVersion, TypeOK, RowsOf
      <4>3. \A y \in Uploads \ {x} :
              row'[y] = row[y] /\ version'[y] = version[y]
        BY <3>1, <4>1 DEF StartVersion, TypeOK
      <4>4. version'[x] = n /\ n \in Nat
        BY <4>1 DEF TypeOK, NextVersion, RowsOf
      <4>5. ASSUME NEW y \in Uploads \ {x}, row'[y] # "none", slot[y] = slot[x]
            PROVE  version'[y] # version'[x]
        BY <4>2, <4>3, <4>4, <4>5 DEF RowsOf
      <4> QED BY <2>3, <4>3, <4>5 DEF OneServedFile
    <3> QED BY <2>3, <3>1, OnlyStartInserts DEF OneServedFile
  <2> QED BY <2>1, <2>2, <2>3 DEF OneServedFile
<1> QED BY <1>1, <1>2, TypeCorrect, PTL DEF Spec

(* file_missing is answered only when the version that was read has been *)
(* replaced or removed meanwhile.                                        *)
THEOREM MissingIsReplaced == Spec => []MissingOnlyIfReplaced
<1>1. Init => MissingOnlyIfReplaced
  BY DEF Init, MissingOnlyIfReplaced
<1>2. Inv /\ MissingOnlyIfReplaced /\ [Next]_vars => MissingOnlyIfReplaced'
  <2> SUFFICES ASSUME Inv, MissingOnlyIfReplaced, [Next]_vars,
                      NEW d \in Downloads, dl'[d] = "file_missing",
                      row'[dlKey'[d]] = "approved"
               PROVE  FALSE
    BY DEF MissingOnlyIfReplaced
  <2>t. TypeOK
    BY DEF Inv
  <2>1. \/ dl'[d] = dl[d] /\ dlKey'[d] = dlKey[d]
        \/ OpenFetch(d)
    <3>1. ASSUME NEW x \in Downloads, NEW a \in Slots, OpenSelect(x, a)
          PROVE  dl'[d] = dl[d] /\ dlKey'[d] = dlKey[d]
      BY <2>t, <3>1 DEF OpenSelect, TypeOK
    <3>2. ASSUME NEW x \in Downloads, x # d, OpenFetch(x)
          PROVE  dl'[d] = dl[d] /\ dlKey'[d] = dlKey[d]
      BY <2>t, <3>2 DEF OpenFetch, TypeOK
    <3>3. CASE UNCHANGED downloads
      BY <3>3 DEF downloads
    <3> QED
      BY <3>1, <3>2, <3>3 DEF Next, vars, Upload, Proceed, Advance, Begin, CheckQuota,
        StartVersion, RefuseVersion, PutSucceeds, PutFails, DropVersion, Approve, Reject,
        SettleLate, QueueLate, Finish, DbError, PutLands, PutLost, Remove, DeletePaper,
        RetireStale, Drain, DrainSelect, DrainDelete, DrainDeleteFails, DrainCommit,
        DrainAbort, Crash
  <2>2. CASE dl'[d] = dl[d] /\ dlKey'[d] = dlKey[d]
    <3>1. dlKey[d] \in Uploads /\ pc[dlKey[d]] \in {"settled", "done"}
      BY <2>2 DEF Inv, DownloadsAreSettled
    <3>2. ~ Approve(dlKey[d])
      BY <3>1 DEF Approve
    <3>3. row[dlKey[d]] = "approved"
      BY <2>2, <2>t, <3>1, <3>2, OnlyApproveServes
    <3> QED BY <2>2, <3>3 DEF MissingOnlyIfReplaced
  <2>3. CASE OpenFetch(d)
    <3>1. dl[d] = "fetching" /\ dlKey[d] \notin store /\ row' = row /\ dlKey' = dlKey
      BY <2>3, <2>t DEF OpenFetch, TypeOK, tables
    <3>2. dlKey[d] \in Uploads
      BY <3>1 DEF Inv, DownloadsAreSettled
    <3> QED BY <3>1, <3>2 DEF Inv, HeldIsStored, Settlement, HoldsKey
  <2> QED BY <2>1, <2>2, <2>3
<1> QED BY <1>1, <1>2, InvHolds, PTL DEF Spec

-----------------------------------------------------------------------------
(* Queueing keys keeps an object accounted for if its own key is queued *)
(* whenever its row lets go of it.                                      *)
LEMMA EnqueueKeepsAccounts ==
  ASSUME Inv, NEW E \in SUBSET Entries, Enqueue(E), done' = done,
         NEW x \in Uploads, Accounted(x),
         HoldsKey(x)' \/ ~ HoldsKey(x) \/ <<x, "row">> \in E
  PROVE  Accounted(x)'
<1> USE DEF Inv, TypeOK
<1>1. CASE HoldsKey(x)'
  BY <1>1 DEF Accounted
<1>2. CASE HoldsKey(x) /\ <<x, "row">> \in E
  <2> DEFINE e == <<x, "row">>
  <2>1. e \in Entries /\ e[1] = x
    BY DEF Entries
  <2>2. queuedAs[e] = 0
    BY <1>2, <2>1 DEF HeldNotQueued
  <2>3. \A r \in Replicas : e \notin done[r]
    BY <2>2 DEF ClaimsAreQueued, Queued
  <2>4. queuedAs'[e] # 0
    BY <1>2, <2>1 DEF Enqueue
  <2>5. e \in Queued'
    BY <2>1, <2>4 DEF Queued
  <2> HIDE DEF e
  <2> QED BY <2>1, <2>3, <2>5 DEF Accounted
<1>3. CASE ~ HoldsKey(x)
  <2>1. PICK e \in Queued : e[1] = x /\ \A r \in Replicas : e \notin done[r]
    BY <1>3 DEF Accounted
  <2>2. e \in Queued'
    BY <2>1 DEF Queued, Enqueue
  <2> QED BY <2>1, <2>2 DEF Accounted
<1> QED BY <1>1, <1>2, <1>3

(* No step forgets an object that is accounted for and still stored. *)
LEMMA StepForgetsNothing ==
  ASSUME Inv, [Next]_vars, NEW x \in store \cap store', Accounted(x)
  PROVE  Accounted(x)'
<1> USE DEF inputs, requests, tables, queue, drains
<1>0. TypeOK /\ x \in Uploads
  BY DEF Inv, TypeOK
<1>u. ASSUME UNCHANGED <<row, queuedAs, done>> PROVE Accounted(x)'
  BY <1>u DEF Accounted, Queued, HoldsKey
<1>e. ASSUME NEW S \in SUBSET Uploads, Erase(S), done' = done PROVE Accounted(x)'
  <2> DEFINE E == {<<w, "row">> : w \in {v \in S : HoldsKey(v)}}
  <2>1. E \in SUBSET Entries /\ Enqueue(E)
    BY <1>e DEF Erase, Entries
  <2>2. HoldsKey(x)' \/ ~ HoldsKey(x) \/ <<x, "row">> \in E
    BY <1>0, <1>e DEF Erase, HoldsKey, TypeOK
  <2> HIDE DEF E
  <2> QED BY <1>0, <1>e, <2>1, <2>2, EnqueueKeepsAccounts
<1>1. ASSUME NEW u \in Uploads, Upload(u) PROVE Accounted(x)'
  <2>1. CASE StartVersion(u)
    BY <1>0, <2>1 DEF StartVersion, Accounted, HoldsKey, Queued, TypeOK
  <2>2. CASE DropVersion(u)
    BY <1>e, <2>2 DEF DropVersion
  <2>3. CASE Approve(u)
    <3>1. Served(slot[u]) \X {"row"} \in SUBSET Entries /\ done' = done
      BY <2>3 DEF Approve, Served, RowsOf, Entries
    <3>2. HoldsKey(x)' \/ ~ HoldsKey(x) \/ <<x, "row">> \in Served(slot[u]) \X {"row"}
      BY <1>0, <2>3 DEF Approve, HoldsKey, TypeOK
    <3> QED BY <1>0, <2>3, <3>1, <3>2, EnqueueKeepsAccounts DEF Approve
  <2>4. CASE Reject(u)
    <3>1. HoldsKey(x)' \/ ~ HoldsKey(x) \/ <<x, "row">> \in {<<u, "row">>}
      BY <1>0, <2>4 DEF Reject, HoldsKey, TypeOK
    <3>2. {<<u, "row">>} \in SUBSET Entries
      BY DEF Entries
    <3> QED BY <1>0, <2>4, <3>1, <3>2, EnqueueKeepsAccounts DEF Reject
  <2>5. CASE QueueLate(u)
    <3>1. {<<u, "late">>} \in SUBSET Entries /\ done' = done /\ (HoldsKey(x)' <=> HoldsKey(x))
      BY <2>5 DEF QueueLate, Entries, HoldsKey
    <3> QED BY <1>0, <2>5, <3>1, EnqueueKeepsAccounts DEF QueueLate
  <2>6. CASE UNCHANGED <<row, queuedAs, done>>
    BY <1>u, <2>6
  <2> QED BY <1>1, <2>1, <2>2, <2>3, <2>4, <2>5, <2>6 DEF Upload, Proceed, Advance, Begin, CheckQuota,
    RefuseVersion, PutSucceeds, PutFails, SettleLate, Finish, DbError
<1>2. ASSUME NEW u \in Uploads, PutLands(u) \/ PutLost(u) PROVE Accounted(x)'
  BY <1>u, <1>2 DEF PutLands, PutLost
<1>4. ASSUME NEW a \in Slots, Remove(a) PROVE Accounted(x)'
  BY <1>e, <1>4 DEF Remove, RowsOf
<1>5. ASSUME NEW p \in Papers, DeletePaper(p) PROVE Accounted(x)'
  <2>1. UNION {RowsOf(a) : a \in Readers \X {p}} \in SUBSET Uploads
    BY DEF RowsOf
  <2> QED BY <1>e, <1>5, <2>1 DEF DeletePaper
<1>6. ASSUME NEW S \in SUBSET Uploads, RetireStale(S) PROVE Accounted(x)'
  <2>1. S \X {"row"} \in SUBSET Entries /\ done' = done
    BY <1>6 DEF RetireStale, Entries
  <2>2. HoldsKey(x)' \/ ~ HoldsKey(x) \/ <<x, "row">> \in S \X {"row"}
    BY <1>0, <1>6 DEF RetireStale, HoldsKey, TypeOK
  <2> QED BY <1>0, <1>6, <2>1, <2>2, EnqueueKeepsAccounts DEF RetireStale
<1>7. ASSUME NEW r \in Replicas, Drain(r) PROVE Accounted(x)'
  <2>1. ASSUME NEW S \in SUBSET (Queued \ Locked), DrainSelect(r, S) PROVE Accounted(x)'
    BY <1>u, <2>1 DEF DrainSelect
  <2>2. ASSUME NEW e \in claimed[r], DrainDelete(r, e) PROVE Accounted(x)'
    BY <1>0, <2>2 DEF DrainDelete, Accounted, HoldsKey, Queued, TypeOK
  <2>3. ASSUME NEW e \in claimed[r], DrainDeleteFails(r, e) PROVE Accounted(x)'
    BY <1>u, <2>3 DEF DrainDeleteFails
  <2>4. CASE DrainCommit(r)
    BY <1>0, <2>4 DEF DrainCommit, Release, Accounted, HoldsKey, Queued, Entries, TypeOK
  <2>5. CASE DrainAbort(r)
    BY <1>0, <2>5 DEF DrainAbort, Release, Accounted, HoldsKey, Queued, Entries, TypeOK
  <2> QED BY <1>7, <2>1, <2>2, <2>3, <2>4, <2>5 DEF Drain
<1>8. ASSUME NEW r \in Replicas, Crash(r) PROVE Accounted(x)'
  BY <1>0, <1>8 DEF Crash, Release, Accounted, HoldsKey, Queued, TypeOK
<1>9. ASSUME NEW d \in Downloads, (\E a \in Slots : OpenSelect(d, a)) \/ OpenFetch(d)
      PROVE  Accounted(x)'
  BY <1>u, <1>9 DEF OpenSelect, OpenFetch
<1>10. CASE UNCHANGED vars
  BY <1>u, <1>10 DEF vars
<1> QED BY <1>1, <1>2, <1>4, <1>5, <1>6, <1>7, <1>8, <1>9, <1>10 DEF Next

(* A stored object that is accounted for stays so until storage deletes it. *)
THEOREM NothingForgotten == Spec => NeverForgotten
<1>1. Inv /\ [Next]_vars =>
        [\A u \in store \cap store' : Accounted(u) => Accounted(u)']_vars
  BY StepForgetsNothing
<1> QED BY <1>1, InvHolds, PTL DEF Spec, NeverForgotten

-----------------------------------------------------------------------------
(* Turns *)
LEMMA TurnsStep == TypeOK /\ TurnsAreExact /\ [Next]_vars => TurnsAreExact'
<1> SUFFICES ASSUME TypeOK, TurnsAreExact, [Next]_vars PROVE TurnsAreExact'
  OBVIOUS
<1> USE DEF TypeOK, TurnsAreExact, Running, Active, inputs, requests
<1>1. ASSUME NEW u \in Uploads, Upload(u) PROVE TurnsAreExact'
  <2>1. CASE Begin(u)
    BY <2>1 DEF Begin, Slots
  <2>2. ASSUME pc[u] \in Active, Leave(u), UNCHANGED inputs PROVE TurnsAreExact'
    <3>1. ASSUME NEW r \in Replicas PROVE uploading'[r] = {slot[w][1] : w \in Running(r)'}
      <4>1. CASE r # at[u]
        <5>1. Running(r)' = Running(r) /\ uploading'[r] = uploading[r]
          BY <2>2, <4>1 DEF Leave
        <5> QED BY <5>1
      <4>2. CASE r = at[u]
        <5>1. Running(r)' = Running(r) \ {u} /\ u \in Running(r)
          BY <2>2, <4>2 DEF Leave
        <5>2. \A w \in Running(r) \ {u} : slot[w][1] # slot[u][1]
          BY <2>2, <4>2
        <5>3. uploading'[r] = uploading[r] \ {slot[u][1]}
          BY <2>2, <4>2 DEF Leave
        <5> QED BY <5>1, <5>2, <5>3
      <4> QED BY <4>1, <4>2
    <3>2. \A w \in Uploads : pc'[w] \in Active => pc[w] \in Active
      BY <2>2 DEF Leave
    <3> QED BY <2>2, <3>1, <3>2
  <2>3. ASSUME NEW to \in Active, pc[u] \in Active, Goto(u, to), UNCHANGED inputs
        PROVE  TurnsAreExact'
    <3>1. \A w \in Uploads : pc'[w] \in Active <=> pc[w] \in Active
      BY <2>3 DEF Goto
    <3>2. \A r \in Replicas : Running(r)' = Running(r)
      BY <2>3, <3>1
    <3> QED BY <2>3, <3>1, <3>2 DEF Goto
  <2> QED BY <1>1, <2>1, <2>2, <2>3 DEF Upload, Proceed, Advance, CheckQuota, StartVersion,
    RefuseVersion, PutSucceeds, PutFails, DropVersion, Approve, Reject, SettleLate, QueueLate,
    Finish, DbError
<1>2. ASSUME NEW r \in Replicas, Crash(r) PROVE TurnsAreExact'
  <2>1. \A q \in Replicas : Running(q)' = IF q = r THEN {} ELSE Running(q)
    BY <1>2 DEF Crash
  <2>2. \A q \in Replicas : uploading'[q] = IF q = r THEN {} ELSE uploading[q]
    BY <1>2 DEF Crash
  <2>3. \A w \in Uploads : pc'[w] \in Active => pc[w] \in Active
    BY <1>2 DEF Crash
  <2>4. UNCHANGED inputs
    BY <1>2 DEF Crash
  <2>5. \A q \in Replicas : uploading'[q] = {slot'[w][1] : w \in Running(q)'}
    BY <2>1, <2>2, <2>4
  <2> HIDE DEF Running
  <2> QED BY <2>3, <2>4, <2>5
<1>3. CASE UNCHANGED <<inputs, requests>>
  BY <1>3
<1> QED BY <1>1, <1>2, <1>3 DEF Next, vars, PutLands, PutLost, Remove, DeletePaper,
  RetireStale, Drain, DrainSelect, DrainDelete, DrainDeleteFails, DrainCommit, DrainAbort,
  OpenSelect, OpenFetch

(* On one replica a reader has at most one upload running, and a request that *)
(* ends, however it ends, leaves no turn behind.                              *)
THEOREM TurnsHold == Spec => []TurnsAreExact
<1>1. Init => TurnsAreExact
  BY DEF Init, TurnsAreExact, Running, Active
<1>2. TypeOK /\ TurnsAreExact /\ [Next]_vars => TurnsAreExact'
  BY TurnsStep
<1> QED BY <1>1, <1>2, TypeCorrect, PTL DEF Spec

-----------------------------------------------------------------------------
(* The refinement of PdfShelf *)

ServedMap == [a \in Slots |-> ServedFile(a)]
SpentFiles == {u \in Uploads : pc[u] \in {"settled", "done"}}

(* Slots whose served rows do not change serve the same file. *)
LEMMA SameServed ==
  ASSUME \A a \in Slots : Served(a)' = Served(a)
  PROVE  ServedMap' = ServedMap
BY DEF ServedMap, ServedFile

(* Rows that neither become nor cease to be approved change nothing served. *)
LEMMA SameApproved ==
  ASSUME slot' = slot,
         \A w \in Uploads : row'[w] = "approved" <=> row[w] = "approved"
  PROVE  ServedMap' = ServedMap
<1>1. \A a \in Slots : Served(a)' = Served(a)
  BY DEF Served, RowsOf
<1> QED BY <1>1, SameServed

(* Deleting every version of the slots in A withdraws them. *)
LEMMA ErasedSlots ==
  ASSUME TypeOK, NEW A \in SUBSET Slots, slot' = slot,
         row' = [u \in Uploads |-> IF u \in UNION {RowsOf(a) : a \in A} THEN "none" ELSE row[u]]
  PROVE  ServedMap' = [a \in Slots |-> IF a \in A THEN NoUpload ELSE ServedMap[a]]
<1>1. ASSUME NEW a \in A PROVE Served(a)' = {}
  BY <1>1 DEF Served, RowsOf
<1>2. ASSUME NEW a \in Slots \ A PROVE Served(a)' = Served(a)
  BY <1>2 DEF Served, RowsOf
<1>3. ASSUME NEW a \in Slots PROVE ServedFile(a)' = IF a \in A THEN NoUpload ELSE ServedFile(a)
  BY <1>1, <1>2, <1>3 DEF ServedFile
<1> QED BY <1>3 DEF ServedMap

(* approve makes its version the one file of the slot. *)
LEMMA ApprovedSlot ==
  ASSUME TypeOK, NEW u \in Uploads, Approve(u)
  PROVE  ServedMap' = [ServedMap EXCEPT ![slot[u]] = u]
<1>0. slot' = slot /\ slot[u] \in Slots
  BY DEF Approve, TypeOK, inputs
<1>1. Served(slot[u])' = {u}
  BY <1>0 DEF Approve, Served, RowsOf, TypeOK, StillPending
<1>2. ASSUME NEW a \in Slots, a # slot[u] PROVE Served(a)' = Served(a)
  BY <1>0, <1>2 DEF Approve, Served, RowsOf, TypeOK, StillPending
<1>3. ServedFile(slot[u])' = u
  <2>1. AnyOf({u}) = u
    BY DEF AnyOf
  <2> QED BY <1>0, <1>1, <2>1 DEF ServedFile
<1>4. ASSUME NEW a \in Slots, a # slot[u] PROVE ServedFile(a)' = ServedFile(a)
  BY <1>2, <1>4 DEF ServedFile
<1> QED BY <1>0, <1>3, <1>4 DEF ServedMap

(* The file a slot serves belongs to an approved version. *)
LEMMA ServedIsApproved ==
  ASSUME TypeOK, NEW a \in Slots, ServedMap[a] # NoUpload
  PROVE  ServedMap[a] \in Uploads /\ row[ServedMap[a]] = "approved"
<1>1. ServedMap[a] \in Served(a)
  BY DEF ServedMap, ServedFile, AnyOf
<1> QED BY <1>1 DEF Served, RowsOf

(* The map of the INSTANCE, by name. *)
LEMMA ShelfStep ==
  ASSUME \/ \E f \in Uploads : /\ store' = store \cup {f}
                               /\ UNCHANGED <<ServedMap, SpentFiles>>
         \/ \E f \in Uploads : /\ \A a \in Slots : ServedMap[a] # f
                               /\ store' = store \ {f}
                               /\ UNCHANGED <<ServedMap, SpentFiles>>
         \/ \E a \in Slots, f \in Uploads :
              /\ f \in store \ SpentFiles
              /\ ServedMap' = [ServedMap EXCEPT ![a] = f]
              /\ SpentFiles' = SpentFiles \cup {f}
              /\ UNCHANGED store
         \/ \E A \in SUBSET Slots :
              /\ ServedMap' = [a \in Slots |-> IF a \in A THEN NoUpload ELSE ServedMap[a]]
              /\ UNCHANGED <<store, SpentFiles>>
         \/ \E F \in SUBSET Uploads :
              /\ SpentFiles' = SpentFiles \cup F
              /\ UNCHANGED <<ServedMap, store>>
         \/ UNCHANGED <<ServedMap, store, SpentFiles>>
  PROVE  Shelf!Next \/ UNCHANGED Shelf!shelf
BY DEF Shelf!Next, Shelf!shelf, Shelf!Arrive, Shelf!Discard, Shelf!Publish, Shelf!Withdraw,
  Shelf!GiveUp, ServedMap, SpentFiles

LEMMA StepsImplementShelf ==
  ASSUME Inv, [Next]_vars
  PROVE  Shelf!Next \/ UNCHANGED Shelf!shelf
<1> USE DEF inputs, requests, tables, queue, bucket, drains, downloads
<1>0. TypeOK
  BY DEF Inv
<1>same. ASSUME UNCHANGED <<slot, row, pc, store>>
         PROVE  UNCHANGED <<ServedMap, store, SpentFiles>>
  BY <1>same, SameApproved DEF SpentFiles
<1>go. ASSUME NEW u \in Uploads, NEW to \in Active \ {"settled"}, Goto(u, to),
              pc[u] \in Active \ {"settled"}
       PROVE  UNCHANGED SpentFiles
  BY <1>0, <1>go DEF Goto, SpentFiles, TypeOK, Active
<1>leave. ASSUME NEW u \in Uploads, Leave(u) PROVE SpentFiles' = SpentFiles \cup {u}
  BY <1>0, <1>leave DEF Leave, SpentFiles, TypeOK
<1>1. ASSUME NEW u \in Uploads, Upload(u)
      PROVE  Shelf!Next \/ UNCHANGED Shelf!shelf
  <2>1. CASE Begin(u)
    <3>1. UNCHANGED SpentFiles
      BY <1>0, <2>1 DEF Begin, SpentFiles, TypeOK
    <3> QED BY <2>1, <3>1, SameApproved, ShelfStep DEF Begin
  <2>2. CASE StartVersion(u)
    <3>1. UNCHANGED SpentFiles
      BY <1>go, <2>2 DEF StartVersion, Active
    <3>2. row[u] = "none"
      BY <2>2 DEF StartVersion, Inv, Fresh
    <3>3. ServedMap' = ServedMap
      BY <1>0, <2>2, <3>2, SameApproved DEF StartVersion, TypeOK
    <3> QED BY <2>2, <3>1, <3>3, ShelfStep DEF StartVersion
  <2>3. CASE Approve(u)
    <3>1. u \in store
      BY <2>3 DEF Approve, StillPending, Inv, Settlement, HeldIsStored, HoldsKey
    <3>2. u \notin SpentFiles /\ SpentFiles' = SpentFiles \cup {u}
      BY <1>0, <2>3 DEF Approve, Goto, SpentFiles, TypeOK
    <3>3. ServedMap' = [ServedMap EXCEPT ![slot[u]] = u] /\ slot[u] \in Slots
      BY <1>0, <2>3, ApprovedSlot DEF TypeOK
    <3> QED BY <2>3, <3>1, <3>2, <3>3, ShelfStep DEF Approve
  <2>4. CASE Reject(u)
    <3>1. SpentFiles' = SpentFiles \cup {u}
      BY <1>0, <2>4 DEF Reject, Goto, SpentFiles, TypeOK
    <3>2. ServedMap' = ServedMap
      BY <1>0, <2>4, SameApproved DEF Reject, StillPending, TypeOK
    <3> QED BY <2>4, <3>1, <3>2, ShelfStep DEF Reject
  <2>5. CASE DropVersion(u)
    <3>1. row[u] # "approved"
      BY <2>5 DEF DropVersion, Inv, Settlement
    <3>2. ServedMap' = ServedMap
      BY <1>0, <2>5, <3>1, SameApproved DEF DropVersion, Erase, TypeOK
    <3> QED BY <1>leave, <2>5, <3>2, ShelfStep DEF DropVersion
  <2>6. ASSUME NEW to \in Active \ {"settled"}, Goto(u, to), pc[u] \in Active \ {"settled"},
               UNCHANGED <<slot, row, store>>
        PROVE  Shelf!Next \/ UNCHANGED Shelf!shelf
    BY <1>go, <2>6, SameApproved, ShelfStep
  <2>7. ASSUME Leave(u), UNCHANGED <<slot, row, store>>
        PROVE  Shelf!Next \/ UNCHANGED Shelf!shelf
    <3>1. ServedMap' = ServedMap
      BY <2>7, SameApproved
    <3>2. SpentFiles' = SpentFiles \cup {u}
      BY <1>leave, <2>7
    <3> QED BY <2>7, <3>1, <3>2, ShelfStep
  <2> QED BY <1>1, <2>1, <2>2, <2>3, <2>4, <2>5, <2>6, <2>7 DEF Upload, Proceed, Advance, CheckQuota,
    RefuseVersion, PutSucceeds, PutFails, SettleLate, QueueLate, Finish, DbError, Active
<1>2. ASSUME NEW u \in Uploads, PutLands(u)
      PROVE  Shelf!Next \/ UNCHANGED Shelf!shelf
  <2>1. UNCHANGED <<ServedMap, SpentFiles>>
    BY <1>2, SameApproved DEF PutLands, SpentFiles
  <2> QED BY <1>2, <2>1, ShelfStep DEF PutLands
<1>3. ASSUME NEW a \in Slots, Remove(a)
      PROVE  Shelf!Next \/ UNCHANGED Shelf!shelf
  <2>1. RowsOf(a) = UNION {RowsOf(b) : b \in {a}}
    OBVIOUS
  <2>2. ServedMap' = [b \in Slots |-> IF b \in {a} THEN NoUpload ELSE ServedMap[b]]
    BY <1>0, <1>3, <2>1, ErasedSlots DEF Remove, Erase
  <2>3. UNCHANGED <<store, SpentFiles>>
    BY <1>3 DEF Remove, SpentFiles
  <2> QED BY <2>2, <2>3, ShelfStep
<1>4. ASSUME NEW p \in Papers, DeletePaper(p)
      PROVE  Shelf!Next \/ UNCHANGED Shelf!shelf
  <2> DEFINE A == Readers \X {p}
  <2>1. A \in SUBSET Slots
    BY DEF Slots
  <2>2. ServedMap' = [b \in Slots |-> IF b \in A THEN NoUpload ELSE ServedMap[b]]
    BY <1>0, <1>4, <2>1, ErasedSlots DEF DeletePaper, Erase
  <2>3. UNCHANGED <<store, SpentFiles>>
    BY <1>4 DEF DeletePaper, SpentFiles
  <2> HIDE DEF A
  <2> QED BY <2>1, <2>2, <2>3, ShelfStep
<1>5. ASSUME NEW S \in SUBSET Uploads, RetireStale(S)
      PROVE  Shelf!Next \/ UNCHANGED Shelf!shelf
  <2>1. UNCHANGED <<ServedMap, store, SpentFiles>>
    BY <1>0, <1>5, SameApproved DEF RetireStale, SpentFiles, TypeOK
  <2> QED BY <2>1, ShelfStep
<1>del. ASSUME NEW e \in Queued, store' = store \ {e[1]}, UNCHANGED <<slot, row, pc>>
        PROVE  Shelf!Next \/ UNCHANGED Shelf!shelf
  <2>1. e[1] \in Uploads /\ e[1] # NoUpload
    BY NoUploadAssumption DEF Queued, Entries
  <2>2. row[e[1]] # "approved"
    BY DEF Inv, HeldNotQueued, HoldsKey, Queued
  <2>3. \A a \in Slots : ServedMap[a] # e[1]
    BY <1>0, <2>1, <2>2, ServedIsApproved
  <2>4. UNCHANGED <<ServedMap, SpentFiles>>
    BY <1>del, SameApproved DEF SpentFiles
  <2> QED BY <1>del, <2>1, <2>3, <2>4, ShelfStep
<1>6. ASSUME NEW r \in Replicas, Drain(r)
      PROVE  Shelf!Next \/ UNCHANGED Shelf!shelf
  <2>1. ASSUME NEW e \in claimed[r], DrainDelete(r, e)
        PROVE  Shelf!Next \/ UNCHANGED Shelf!shelf
    <3>1. e \in Queued
      BY DEF Inv, ClaimsAreQueued
    <3> QED BY <1>del, <2>1, <3>1 DEF DrainDelete
  <2>2. ASSUME NEW e \in claimed[r], DrainDeleteFails(r, e)
        PROVE  Shelf!Next \/ UNCHANGED Shelf!shelf
    <3>1. e \in Queued
      BY DEF Inv, ClaimsAreQueued
    <3> QED BY <1>del, <1>same, <2>2, <3>1, ShelfStep DEF DrainDeleteFails
  <2>3. ASSUME UNCHANGED <<slot, row, pc, store>>
        PROVE  Shelf!Next \/ UNCHANGED Shelf!shelf
    BY <1>same, <2>3, ShelfStep
  <2> QED BY <1>6, <2>1, <2>2, <2>3 DEF Drain, DrainSelect, DrainCommit, DrainAbort
<1>7. ASSUME NEW r \in Replicas, Crash(r)
      PROVE  Shelf!Next \/ UNCHANGED Shelf!shelf
  <2>1. SpentFiles' = SpentFiles \cup Running(r) /\ Running(r) \in SUBSET Uploads
    BY <1>0, <1>7 DEF Crash, Running, SpentFiles, TypeOK, Active
  <2>2. UNCHANGED <<ServedMap, store>>
    BY <1>7, SameApproved DEF Crash
  <2> QED BY <2>1, <2>2, ShelfStep
<1>8. ASSUME UNCHANGED <<slot, row, pc, store>>
      PROVE  Shelf!Next \/ UNCHANGED Shelf!shelf
  BY <1>same, <1>8, ShelfStep
<1> QED BY <1>1, <1>2, <1>3, <1>4, <1>5, <1>6, <1>7, <1>8 DEF Next, vars, PutLost, OpenSelect,
  OpenFetch

LEMMA InitImplementsShelf == Init => Shelf!Init
<1> SUFFICES ASSUME Init PROVE Shelf!Init
  OBVIOUS
<1>1. \A a \in Slots : Served(a) = {}
  BY DEF Init, Served, RowsOf
<1> QED BY <1>1 DEF Init, Shelf!Init, ServedFile

(* Replicas, rows, queue and bucket together keep the promise of PdfShelf. *)
THEOREM ImplementsShelf == Spec => KeepsTheShelf
<1>1. Init => Shelf!Init
  BY InitImplementsShelf
<1>2. Inv /\ [Next]_vars => [Shelf!Next]_(Shelf!shelf)
  BY StepsImplementShelf
<1> QED BY <1>1, <1>2, InvHolds, PTL DEF Spec, KeepsTheShelf, Shelf!Spec

-----------------------------------------------------------------------------
(* Sums.  What the fold of the library computes is shown by induction over *)
(* the size of a set: of the sets that go wrong there is a smallest.         *)

(* The bytes f gives to the elements of S, added up. *)
Sum(f, S) == MapThenSumSet(LAMBDA x : f[x], S)

(* g adds up f over the subsets of T, one element after the other. *)
Partial(f, g, s) == IF s = {} THEN 0 ELSE f[AnyOf(s)] + g[s \ {AnyOf(s)}]
AddsUp(f, T, g) == g = [s \in SUBSET T |-> Partial(f, g, s)]

(* Induction: a set of numbers that is not empty has a least one. *)
LEMMA LeastNumber ==
  ASSUME NEW B \in SUBSET Nat, B # {}
  PROVE  \E n \in B : \A m \in B : n <= m
<1> DEFINE Less == {ss \in Nat \X Nat : ss[1] < ss[2]}
<1>1. IsWellFoundedOn(Less, Nat)
  BY NatLessThanWellFounded, Zenon DEF OpToRel
<1>2. PICK n \in B : \A m \in B : <<m, n>> \notin Less
  <2> HIDE DEF Less
  <2> QED BY <1>1, WFMin, Zenon
<1>3. ASSUME NEW m \in B PROVE n <= m
  <2>1. m < n => <<m, n>> \in Less
    OBVIOUS
  <2> QED BY <1>2, <2>1
<1> QED BY <1>3

LEMMA SmallestSet ==
  ASSUME NEW B, B # {}, \A s \in B : IsFiniteSet(s)
  PROVE  \E s \in B : \A t \in B : Cardinality(s) <= Cardinality(t)
<1> DEFINE Numbers == {Cardinality(s) : s \in B}
<1>1. Numbers \in SUBSET Nat /\ Numbers # {}
  BY FS_CardinalityType
<1>2. PICK n \in Numbers : \A m \in Numbers : n <= m
  <2> HIDE DEF Numbers
  <2> QED BY <1>1, LeastNumber
<1> QED BY <1>2

LEMMA AnyOfIn == ASSUME NEW S, S # {} PROVE AnyOf(S) \in S
BY DEF AnyOf

LEMMA Fewer ==
  ASSUME NEW S, IsFiniteSet(S), NEW x \in S
  PROVE  /\ IsFiniteSet(S \ {x})
         /\ Cardinality(S) \in Nat
         /\ Cardinality(S \ {x}) = Cardinality(S) - 1
         /\ Cardinality(S \ {x}) \in Nat
BY FS_RemoveElement, FS_CardinalityType

(* There is such a function: by induction over the size of the subsets. *)
LEMMA SumExists ==
  ASSUME NEW f, NEW T, IsFiniteSet(T)
  PROVE  \E g : AddsUp(f, T, g)
<1> DEFINE Upto(n) == {s \in SUBSET T : Cardinality(s) <= n}
           Ok(n) == \E g : g = [s \in Upto(n) |-> Partial(f, g, s)]
           Bad == {n \in Nat : ~ Ok(n)}
<1>0. \A s \in SUBSET T : IsFiniteSet(s) /\ Cardinality(s) \in Nat
  BY FS_Subset, FS_CardinalityType
<1>1. ASSUME NEW n \in Nat, \A m \in Nat : m < n => Ok(m) PROVE Ok(n)
  <2>1. CASE n = 0
    <3> DEFINE g == [s \in Upto(n) |-> 0]
    <3>1. \A s \in Upto(n) : s = {}
      BY <1>0, <2>1, FS_EmptySet
    <3>2. g = [s \in Upto(n) |-> Partial(f, g, s)]
      BY <3>1 DEF Partial
    <3> QED BY <3>2
  <2>2. CASE n # 0
    <3>1. PICK h : h = [s \in Upto(n - 1) |-> Partial(f, h, s)]
      <4>1. n - 1 \in Nat /\ n - 1 < n
        BY <2>2
      <4> HIDE DEF Ok
      <4>2. Ok(n - 1)
        BY <1>1, <4>1
      <4> QED BY <4>2 DEF Ok
    <3> DEFINE g == [s \in Upto(n) |-> Partial(f, h, s)]
    <3>2. ASSUME NEW s \in Upto(n), s # {}
          PROVE  LET t == s \ {AnyOf(s)} IN t \in Upto(n - 1) /\ t \in Upto(n) /\ g[t] = h[t]
      <4>1. AnyOf(s) \in s
        BY <3>2, AnyOfIn
      <4> DEFINE t == s \ {AnyOf(s)}
      <4>2. t \in SUBSET T /\ Cardinality(t) <= n - 1
        BY <1>0, <3>2, <4>1, Fewer
      <4>3. t \in Upto(n - 1) /\ t \in Upto(n)
        BY <1>0, <4>2
      <4> HIDE DEF t
      <4>4. g[t] = h[t]
        BY <3>1, <4>3
      <4> QED BY <4>3, <4>4 DEF t
    <3>3. \A s \in Upto(n) : Partial(f, g, s) = Partial(f, h, s)
      BY <3>2 DEF Partial
    <3>4. g = [s \in Upto(n) |-> Partial(f, g, s)]
      BY <3>3
    <3> QED BY <3>4
  <2> QED BY <2>1, <2>2
<1>2. ASSUME Bad # {} PROVE FALSE
  <2> HIDE DEF Ok
  <2>1. PICK n \in Bad : \A m \in Bad : n <= m
    BY <1>2, LeastNumber
  <2> QED BY <2>1, <1>1
<1>3. Cardinality(T) \in Nat /\ Upto(Cardinality(T)) = SUBSET T
  BY FS_Subset, FS_CardinalityType
<1> HIDE DEF Upto
<1>4. Ok(Cardinality(T))
  BY <1>2, <1>3
<1> QED BY <1>3, <1>4 DEF AddsUp

(* Any two such functions agree wherever both add up. *)
LEMMA SumAgrees ==
  ASSUME NEW f, NEW T, NEW U, NEW g, NEW h, IsFiniteSet(T), IsFiniteSet(U),
         AddsUp(f, T, g), AddsUp(f, U, h), NEW V \in SUBSET T, V \subseteq U
  PROVE  g[V] = h[V]
<1> DEFINE Bad == {s \in SUBSET V : g[s] # h[s]}
<1>0. \A s \in SUBSET V : IsFiniteSet(s)
  BY FS_Subset
<1>1. ASSUME Bad # {} PROVE FALSE
  <2>1. PICK s \in Bad : \A t \in Bad : Cardinality(s) <= Cardinality(t)
    <3>1. \A s \in Bad : IsFiniteSet(s)
      BY <1>0
    <3> HIDE DEF Bad
    <3> QED BY <1>1, <3>1, SmallestSet
  <2>2. g[s] = Partial(f, g, s) /\ h[s] = Partial(f, h, s)
    BY DEF AddsUp
  <2>3. s # {}
    BY <2>2 DEF Partial
  <2> DEFINE t == s \ {AnyOf(s)}
  <2>4. t \in SUBSET V /\ Cardinality(t) < Cardinality(s)
    <3>1. IsFiniteSet(s) /\ AnyOf(s) \in s
      BY <1>0, <2>3, AnyOfIn
    <3>2. Cardinality(t) < Cardinality(s)
      BY <3>1, Fewer
    <3> QED BY <3>1, <3>2
  <2>5. Cardinality(s) \in Nat /\ Cardinality(t) \in Nat
    BY <1>0, <2>4, FS_CardinalityType
  <2>6. g[t] = h[t]
    <3> HIDE DEF t
    <3> QED BY <2>1, <2>4, <2>5
  <2> QED BY <2>2, <2>3, <2>6 DEF Partial
<1> QED BY <1>1

(* What the library computes is such a function. *)
LEMMA SumOf ==
  ASSUME NEW f, NEW T, IsFiniteSet(T), NEW g, AddsUp(f, T, g)
  PROVE  Sum(f, T) = g[T]
<1> DEFINE h == CHOOSE h : AddsUp(f, T, h)
<1>1. AddsUp(f, T, h)
  BY SumExists
<1>2. Sum(f, T) = h[T]
  BY DEF Sum, MapThenSumSet, MapThenFoldSet, AddsUp, Partial, AnyOf
<1> HIDE DEF h
<1> QED BY <1>1, <1>2, SumAgrees

LEMMA SumOfNone == ASSUME NEW f PROVE Sum(f, {}) = 0
<1>1. PICK g : AddsUp(f, {}, g)
  BY SumExists, FS_EmptySet
<1>2. g[{}] = Partial(f, g, {})
  BY <1>1 DEF AddsUp
<1> QED BY <1>1, <1>2, SumOf, FS_EmptySet DEF Partial

LEMMA SumStep ==
  ASSUME NEW f, NEW T, IsFiniteSet(T), T # {}
  PROVE  Sum(f, T) = f[AnyOf(T)] + Sum(f, T \ {AnyOf(T)})
<1> DEFINE U == T \ {AnyOf(T)}
<1>0. IsFiniteSet(U) /\ U \in SUBSET T
  BY FS_Subset
<1>1. PICK g : AddsUp(f, T, g)
  BY SumExists
<1>2. PICK h : AddsUp(f, U, h)
  BY <1>0, SumExists
<1> HIDE DEF U
<1>3. g[U] = h[U]
  BY <1>0, <1>1, <1>2, SumAgrees
<1>4. Sum(f, T) = g[T] /\ Sum(f, U) = h[U]
  BY <1>0, <1>1, <1>2, SumOf
<1>5. g[T] = f[AnyOf(T)] + g[U]
  BY <1>1 DEF AddsUp, Partial, U
<1> QED BY <1>3, <1>4, <1>5 DEF U

(* Sums of natural numbers are natural numbers. *)
LEMMA SumInNat ==
  ASSUME NEW f, NEW T, IsFiniteSet(T), \A x \in T : f[x] \in Nat
  PROVE  Sum(f, T) \in Nat
<1> DEFINE Bad == {s \in SUBSET T : Sum(f, s) \notin Nat}
<1>0. \A s \in SUBSET T : IsFiniteSet(s) /\ Cardinality(s) \in Nat
  BY FS_Subset, FS_CardinalityType
<1>1. ASSUME Bad # {} PROVE FALSE
  <2>1. PICK s \in Bad : \A t \in Bad : Cardinality(s) <= Cardinality(t)
    <3>1. \A s \in Bad : IsFiniteSet(s)
      BY <1>0
    <3> HIDE DEF Bad
    <3> QED BY <1>1, <3>1, SmallestSet
  <2>2. s # {}
    BY SumOfNone
  <2> DEFINE t == s \ {AnyOf(s)}
  <2>3. t \in SUBSET T /\ Cardinality(t) < Cardinality(s) /\ f[AnyOf(s)] \in Nat
    <3>1. IsFiniteSet(s) /\ AnyOf(s) \in s
      BY <1>0, <2>2, AnyOfIn
    <3>2. Cardinality(t) < Cardinality(s)
      BY <3>1, Fewer
    <3> QED BY <3>1, <3>2
  <2>4. Sum(f, t) \in Nat
    <3> HIDE DEF t
    <3> QED BY <1>0, <2>1, <2>3
  <2>5. Sum(f, s) = f[AnyOf(s)] + Sum(f, t)
    BY <1>0, <2>2, SumStep
  <2> HIDE DEF t
  <2> QED BY <2>3, <2>4, <2>5
<1> QED BY <1>1

(* The order of adding up does not matter. *)
LEMMA SumAdd ==
  ASSUME NEW f, NEW T, IsFiniteSet(T), NEW x, x \notin T, \A y \in T \cup {x} : f[y] \in Nat
  PROVE  Sum(f, T \cup {x}) = f[x] + Sum(f, T)
<1> DEFINE Ok(s, y) == Sum(f, s \cup {y}) = f[y] + Sum(f, s)
           Bad == {s \in SUBSET (T \cup {x}) : \E y \in (T \cup {x}) \ s : ~ Ok(s, y)}
<1>0. \A s \in SUBSET (T \cup {x}) : IsFiniteSet(s) /\ Cardinality(s) \in Nat /\ Sum(f, s) \in Nat
  BY FS_AddElement, FS_Subset, FS_CardinalityType, SumInNat
<1>1. ASSUME Bad # {} PROVE FALSE
  <2>1. PICK s \in Bad : \A t \in Bad : Cardinality(s) <= Cardinality(t)
    <3>1. \A s \in Bad : IsFiniteSet(s)
      BY <1>0
    <3> HIDE DEF Bad
    <3> QED BY <1>1, <3>1, SmallestSet
  <2>2. PICK y \in (T \cup {x}) \ s : ~ Ok(s, y)
    OBVIOUS
  <2> DEFINE all == s \cup {y}
             z == AnyOf(all)
             t == s \ {z}
  <2>3. z \in all /\ all \in SUBSET (T \cup {x})
    BY AnyOfIn
  <2> HIDE DEF z, Ok
  <2>4. Sum(f, all) = f[z] + Sum(f, all \ {z})
    BY <1>0, <2>3, SumStep DEF z
  <2>5. CASE z = y
    <3>1. all \ {z} = s
      BY <2>5
    <3> QED BY <2>2, <2>4, <2>5, <3>1 DEF Ok
  <2>6. CASE z # y
    <3>1. z \in s /\ t \in SUBSET (T \cup {x}) /\ Cardinality(t) < Cardinality(s)
      BY <1>0, <2>3, <2>6, Fewer
    <3>2. t \notin Bad
      <4>1. Cardinality(t) \in Nat /\ Cardinality(s) \in Nat
        BY <1>0, <3>1
      <4> HIDE DEF t, Bad
      <4> QED BY <2>1, <3>1, <4>1
    <3>3. Ok(t, y) /\ Ok(t, z)
      BY <3>1, <3>2, <2>6
    <3>4. all \ {z} = t \cup {y} /\ t \cup {z} = s
      BY <2>6, <3>1
    <3>5. Sum(f, all) = f[z] + (f[y] + Sum(f, t)) /\ Sum(f, s) = f[z] + Sum(f, t)
      BY <2>4, <3>3, <3>4 DEF Ok
    <3>6. f[z] \in Nat /\ f[y] \in Nat /\ Sum(f, t) \in Nat
      BY <1>0, <2>3, <3>1
    <3>7. Sum(f, all) = f[y] + Sum(f, s)
      <4> HIDE DEF all, t
      <4> QED BY <3>5, <3>6
    <3> QED BY <2>2, <3>7 DEF Ok
  <2> QED BY <2>5, <2>6
<1>2. T \notin Bad
  BY <1>1
<1> QED BY <1>2 DEF Ok

(* Larger summands over a larger set add up to more. *)
LEMMA SumGrows ==
  ASSUME NEW f, NEW g, NEW S, NEW T, IsFiniteSet(T), S \subseteq T,
         \A x \in T : g[x] \in Nat, \A x \in S : f[x] \in Nat /\ f[x] <= g[x]
  PROVE  Sum(f, S) <= Sum(g, T)
<1> DEFINE Bad == {t \in SUBSET T : ~ (Sum(f, t \cap S) <= Sum(g, t))}
<1>0. \A t \in SUBSET T : /\ IsFiniteSet(t) /\ Cardinality(t) \in Nat /\ Sum(g, t) \in Nat
                          /\ IsFiniteSet(t \cap S) /\ Sum(f, t \cap S) \in Nat
  BY FS_Subset, FS_CardinalityType, SumInNat
<1>1. ASSUME Bad # {} PROVE FALSE
  <2>1. PICK t \in Bad : \A s \in Bad : Cardinality(t) <= Cardinality(s)
    <3>1. \A s \in Bad : IsFiniteSet(s)
      BY <1>0
    <3> HIDE DEF Bad
    <3> QED BY <1>1, <3>1, SmallestSet
  <2>2. t # {}
    BY SumOfNone
  <2>3. PICK x \in t : TRUE
    BY <2>2
  <2> DEFINE s == t \ {x}
  <2>4. s \in SUBSET T /\ Cardinality(s) < Cardinality(t) /\ x \notin s /\ t = s \cup {x}
    <3>1. IsFiniteSet(t)
      BY <1>0
    <3>2. Cardinality(s) < Cardinality(t)
      BY <2>3, <3>1, Fewer
    <3> QED BY <2>3, <3>2
  <2>5. Sum(f, s \cap S) <= Sum(g, s)
    <3> HIDE DEF s
    <3> QED BY <1>0, <2>1, <2>4
  <2>6. Sum(g, t) = g[x] + Sum(g, s)
    <3> HIDE DEF s
    <3> QED BY <1>0, <2>4, SumAdd
  <2>7. CASE x \in S
    <3>1. t \cap S = (s \cap S) \cup {x} /\ x \notin s \cap S
      BY <2>4, <2>7
    <3>2. Sum(f, t \cap S) = f[x] + Sum(f, s \cap S)
      <4> HIDE DEF s
      <4> QED BY <1>0, <2>4, <2>7, <3>1, SumAdd
    <3>3. Sum(f, s \cap S) \in Nat /\ Sum(g, s) \in Nat /\ f[x] \in Nat /\ g[x] \in Nat /\ f[x] <= g[x]
      BY <1>0, <2>4, <2>7
    <3> HIDE DEF s
    <3> QED BY <2>5, <2>6, <3>2, <3>3
  <2>8. CASE x \notin S
    <3>1. t \cap S = s \cap S
      BY <2>4, <2>8
    <3>2. Sum(f, s \cap S) \in Nat /\ Sum(g, s) \in Nat /\ g[x] \in Nat
      BY <1>0, <2>4
    <3> HIDE DEF s
    <3> QED BY <2>5, <2>6, <3>1, <3>2
  <2> QED BY <2>7, <2>8
<1>2. T \cap S = S /\ T \notin Bad
  BY <1>1
<1> QED BY <1>2

-----------------------------------------------------------------------------
(* The quota *)

(* A finite set of numbers has a largest one. *)
LEMMA MaxIsLargest ==
  ASSUME NEW S \in SUBSET Nat, IsFiniteSet(S), S # {}
  PROVE  Max(S) \in S /\ \A y \in S : y <= Max(S)
<1> DEFINE Has(s) == \E x \in s : \A y \in s : y <= x
           Bad == {s \in SUBSET S : s # {} /\ ~ Has(s)}
<1>0. \A s \in SUBSET S : IsFiniteSet(s) /\ Cardinality(s) \in Nat
  BY FS_Subset, FS_CardinalityType
<1>1. ASSUME Bad # {} PROVE FALSE
  <2>1. PICK s \in Bad : \A t \in Bad : Cardinality(s) <= Cardinality(t)
    <3>1. \A s \in Bad : IsFiniteSet(s)
      BY <1>0
    <3> HIDE DEF Bad
    <3> QED BY <1>1, <3>1, SmallestSet
  <2>2. PICK x \in s : TRUE
    OBVIOUS
  <2> DEFINE t == s \ {x}
  <2>3. t \in SUBSET S /\ Cardinality(t) < Cardinality(s)
    <3>1. IsFiniteSet(s)
      BY <1>0
    <3>2. Cardinality(t) < Cardinality(s)
      BY <2>2, <3>1, Fewer
    <3> QED BY <3>2
  <2>4. t = {} \/ Has(t)
    <3>1. Cardinality(t) \in Nat /\ Cardinality(s) \in Nat
      BY <1>0, <2>3
    <3>2. t \notin Bad
      <4> HIDE DEF t, Bad
      <4> QED BY <2>1, <2>3, <3>1
    <3> QED BY <2>3, <3>2
  <2>5. CASE t = {}
    BY <2>2, <2>5
  <2>6. CASE Has(t)
    <3>1. PICK m \in t : \A y \in t : y <= m
      BY <2>6
    <3>2. CASE x <= m
      BY <3>1, <3>2
    <3>3. CASE ~ (x <= m)
      BY <2>2, <3>1, <3>3
    <3> QED BY <3>2, <3>3
  <2> QED BY <2>4, <2>5, <2>6
<1>2. PICK x \in S : \A y \in S : x >= y
  BY <1>1
<1> QED BY <1>2 DEF Max

(* The largest of the files a slot holds. *)
Held(a) == {w \in RowsOf(a) : HoldsKey(w)}
Largest == [a \in Slots |-> Max({size[u] : u \in Held(a)} \cup {0})]

LEMMA LargestIs ==
  ASSUME TypeOK, IsFiniteSet(Uploads), NEW a \in Slots
  PROVE  /\ Largest[a] \in Nat
         /\ \A u \in Held(a) : size[u] <= Largest[a]
         /\ Largest[a] # 0 => \E u \in Held(a) : size[u] = Largest[a]
<1> DEFINE S == {size[u] : u \in Held(a)} \cup {0}
<1>1. Held(a) \subseteq Uploads /\ IsFiniteSet(Held(a))
  BY FS_Subset DEF Held, RowsOf
<1>2. S \in SUBSET Nat
  <2>1. \A u \in Uploads : size[u] \in Nat
    BY LimitsAssumption DEF TypeOK
  <2> QED BY <1>1, <2>1
<1>3. IsFiniteSet(S)
  <2> DEFINE sizes == {size[u] : u \in Held(a)}
  <2>1. [u \in Held(a) |-> size[u]] \in Surjection(Held(a), sizes)
    BY DEF Surjection
  <2>2. IsFiniteSet(sizes)
    <3> HIDE DEF sizes
    <3> QED BY <1>1, <2>1, FS_Surjection
  <2> HIDE DEF sizes
  <2>3. IsFiniteSet(sizes \cup {0})
    BY <2>2, FS_AddElement
  <2> QED BY <2>3 DEF sizes
<1>4. Max(S) \in S /\ \A y \in S : y <= Max(S)
  <2> HIDE DEF S
  <2>1. S # {}
    BY DEF S
  <2> QED BY <1>2, <1>3, <2>1, MaxIsLargest
<1>5. Largest[a] = Max(S)
  BY DEF Largest
<1> QED BY <1>2, <1>4, <1>5

(* What a reader holds is the sum of the largest files. *)
LEMMA HeldIsSum ==
  ASSUME TypeOK, IsFiniteSet(Papers), NEW rd \in Readers
  PROVE  HeldBytes(rd) = Sum(Largest, {rd} \X Papers)
<1> DEFINE T == {rd} \X Papers
           Body(g, s) == IF s = {} THEN 0
                         ELSE Max({size[u] : u \in {w \in RowsOf(AnyOf(s)) : HoldsKey(w)}} \cup {0})
                                + g[s \ {AnyOf(s)}]
           h == CHOOSE g : g = [s \in SUBSET T |-> Body(g, s)]
<1>0. IsFiniteSet(T) /\ T \subseteq Slots
  BY FS_Product, FS_Singleton DEF Slots
<1>1. ASSUME NEW g, NEW s \in SUBSET T PROVE Body(g, s) = Partial(Largest, g, s)
  <2>1. s # {} => AnyOf(s) \in Slots
    BY <1>0, AnyOfIn
  <2> QED BY <2>1 DEF Partial, Largest, Held
<1>2. HeldBytes(rd) = h[T]
  BY DEF HeldBytes, MapThenSumSet, MapThenFoldSet, AnyOf
<1>3. h = [s \in SUBSET T |-> Body(h, s)]
  <2>1. PICK g : AddsUp(Largest, T, g)
    BY <1>0, SumExists
  <2>2. g = [s \in SUBSET T |-> Body(g, s)]
    <3> HIDE DEF Body, T
    <3> QED BY <1>1, <2>1 DEF AddsUp
  <2> HIDE DEF Body
  <2> QED BY <2>2
<1>4. AddsUp(Largest, T, h)
  <2> HIDE DEF Body, h, T
  <2> QED BY <1>1, <1>3 DEF AddsUp
<1> HIDE DEF h, T
<1> QED BY <1>0, <1>2, <1>4, SumOf DEF T

(* The largest files of some slots are no more than all their files. *)
LEMMA LargestAreSome ==
  ASSUME NEW g, NEW K, IsFiniteSet(K), NEW R, IsFiniteSet(R), NEW f, NEW where,
         \A u \in R : f[u] \in Nat,
         \A a \in K : g[a] \in Nat /\ (g[a] # 0 => \E u \in R : where[u] = a /\ f[u] = g[a])
  PROVE  Sum(g, K) <= Sum(f, {u \in R : where[u] \in K})
<1> DEFINE In(k) == {u \in R : where[u] \in k}
           Bad == {k \in SUBSET K : ~ (Sum(g, k) <= Sum(f, In(k)))}
<1>0. \A k \in SUBSET K : IsFiniteSet(k) /\ Cardinality(k) \in Nat /\ Sum(g, k) \in Nat
  BY FS_Subset, FS_CardinalityType, SumInNat
<1>1. ASSUME NEW S \in SUBSET R PROVE IsFiniteSet(S) /\ Sum(f, S) \in Nat
  BY FS_Subset, SumInNat
<1>2. ASSUME Bad # {} PROVE FALSE
  <2>1. PICK k \in Bad : \A t \in Bad : Cardinality(k) <= Cardinality(t)
    <3>1. \A s \in Bad : IsFiniteSet(s)
      BY <1>0
    <3> HIDE DEF Bad
    <3> QED BY <1>2, <3>1, SmallestSet
  <2>2. k # {}
    <3>1. Sum(f, In(k)) \in Nat
      BY <1>1
    <3> QED BY <3>1, SumOfNone
  <2>3. PICK a \in k : TRUE
    BY <2>2
  <2> DEFINE t == k \ {a}
  <2>4. t \in SUBSET K /\ Cardinality(t) < Cardinality(k) /\ a \notin t /\ k = t \cup {a}
    <3>1. IsFiniteSet(k)
      BY <1>0
    <3>2. Cardinality(t) < Cardinality(k)
      <4> HIDE DEF Bad
      <4>1. Cardinality(k) \in Nat /\ Cardinality(t) = Cardinality(k) - 1
        BY ONLY <2>3, <3>1, Fewer
      <4> QED BY <4>1
    <3> QED BY <2>3, <3>2
  <2>5. Sum(g, t) <= Sum(f, In(t))
    <3> HIDE DEF t, In
    <3> QED BY <1>0, <2>1, <2>4
  <2>6. Sum(g, k) = g[a] + Sum(g, t)
    <3>1. IsFiniteSet(t) /\ \A y \in t \cup {a} : g[y] \in Nat
      BY <1>0, <2>4
    <3> HIDE DEF t
    <3> QED BY <2>4, <3>1, SumAdd
  <2>7. /\ Sum(g, t) \in Nat /\ Sum(f, In(t)) \in Nat /\ Sum(f, In(k)) \in Nat
        /\ g[a] \in Nat /\ IsFiniteSet(In(t)) /\ IsFiniteSet(In(k))
    BY <1>0, <1>1, <2>4
  <2>8. CASE g[a] = 0
    <3>1. Sum(f, In(t)) <= Sum(f, In(k))
      BY <2>7, SumGrows
    <3> HIDE DEF t, In
    <3> QED BY <2>5, <2>6, <2>7, <2>8, <3>1
  <2>9. CASE g[a] # 0
    <3>1. PICK u \in R : where[u] = a /\ f[u] = g[a]
      BY <2>9
    <3>2. u \notin In(t) /\ In(t) \cup {u} \subseteq In(k)
      BY <2>4, <3>1
    <3>3. Sum(f, In(t) \cup {u}) = f[u] + Sum(f, In(t))
      <4>1. \A y \in In(t) \cup {u} : f[y] \in Nat
        OBVIOUS
      <4> HIDE DEF In, t
      <4> QED BY <2>7, <3>2, <4>1, SumAdd
    <3>4. Sum(f, In(t) \cup {u}) <= Sum(f, In(k))
      <4>1. \A y \in In(k) : f[y] \in Nat /\ f[y] <= f[y]
        OBVIOUS
      <4> HIDE DEF In, t
      <4> QED BY <2>7, <3>2, <4>1, SumGrows
    <3> HIDE DEF t, In
    <3> QED BY <2>5, <2>6, <2>7, <3>1, <3>3, <3>4
  <2> QED BY <2>8, <2>9
<1>3. K \notin Bad
  BY <1>2
<1> QED BY <1>3

-----------------------------------------------------------------------------

(* A version comes to hold a key only in startVersion. *)
LEMMA OnlyStartHolds ==
  ASSUME TypeOK, [Next]_vars
  PROVE  /\ slot' = slot /\ size' = size
         /\ \A w \in Uploads :
              \/ StartVersion(w)
              \/ row'[w] = row[w]
              \/ row[w] = "pending" /\ row'[w] = "approved"
              \/ row'[w] \notin {"pending", "approved"}
<1> USE DEF TypeOK, Active, States, inputs, requests, tables
<1> DEFINE Goal == /\ slot' = slot /\ size' = size
                   /\ \A w \in Uploads :
                        \/ StartVersion(w)
                        \/ row'[w] = row[w]
                        \/ row[w] = "pending" /\ row'[w] = "approved"
                        \/ row'[w] \notin {"pending", "approved"}
<1>1. ASSUME NEW u \in Uploads, Upload(u) PROVE Goal
  <2>1. CASE StartVersion(u)
    <3>1. \A w \in Uploads : w # u => row'[w] = row[w]
      BY <2>1 DEF StartVersion
    <3>2. UNCHANGED <<slot, size>>
      BY <2>1 DEF StartVersion
    <3>3. ASSUME NEW w \in Uploads, w = u PROVE StartVersion(w)
      BY ONLY <2>1, <3>3
    <3> HIDE DEF TypeOK
    <3> QED BY <3>1, <3>2, <3>3
  <2>2. CASE Approve(u)
    BY <2>2 DEF Approve, StillPending
  <2>3. CASE DropVersion(u)
    BY <2>3 DEF DropVersion, Erase
  <2>4. CASE Reject(u)
    BY <2>4 DEF Reject
  <2>5. CASE UNCHANGED <<slot, size, row>>
    BY <2>5
  <2> QED BY <1>1, <2>1, <2>2, <2>3, <2>4, <2>5 DEF Upload, Proceed, Advance, Begin, CheckQuota,
    RefuseVersion, PutSucceeds, PutFails, SettleLate, QueueLate, Finish, DbError
<1>2. ASSUME NEW u \in Uploads, PutLands(u) \/ PutLost(u) PROVE Goal
  BY <1>2 DEF PutLands, PutLost
<1>3. ASSUME NEW a \in Slots, Remove(a) PROVE Goal
  BY <1>3 DEF Remove, Erase
<1>4. ASSUME NEW p \in Papers, DeletePaper(p) PROVE Goal
  BY <1>4 DEF DeletePaper, Erase
<1>5. ASSUME NEW S \in SUBSET Uploads, RetireStale(S) PROVE Goal
  BY <1>5 DEF RetireStale
<1>6. ASSUME NEW r \in Replicas, Drain(r) \/ Crash(r) PROVE Goal
  BY <1>6 DEF Drain, DrainSelect, DrainDelete, DrainDeleteFails, DrainCommit, DrainAbort, Crash
<1>7. ASSUME NEW d \in Downloads, (\E a \in Slots : OpenSelect(d, a)) \/ OpenFetch(d) PROVE Goal
  BY <1>7 DEF OpenSelect, OpenFetch
<1>8. CASE UNCHANGED vars
  BY <1>8 DEF vars
<1> QED BY <1>1, <1>2, <1>3, <1>4, <1>5, <1>6, <1>7, <1>8 DEF Next

(* Only the check of the quota admits an upload. *)
LEMMA OnlyCheckAdmits ==
  ASSUME TypeOK, [Next]_vars, NEW u \in Uploads, pc'[u] = "admitted", pc[u] # "admitted"
  PROVE  CheckQuota(u) /\ FitsQuota(u)
<1> USE DEF TypeOK, Active, inputs, requests
<1>1. ASSUME NEW w \in Uploads, Upload(w) PROVE CheckQuota(u) /\ FitsQuota(u)
  <2>1. CASE CheckQuota(w)
    <3>1. w = u /\ ~ Leave(w)
      BY <2>1 DEF CheckQuota, Goto, Leave
    <3> QED BY <2>1, <3>1 DEF CheckQuota
  <2>2. ASSUME NEW to \in {"done", "checking", "putting", "stored", "failed", "settled", "late"},
               pc' = [pc EXCEPT ![w] = to]
        PROVE  FALSE
    BY <2>2
  <2> QED BY <1>1, <2>1, <2>2 DEF Upload, Proceed, Advance, Begin, StartVersion, RefuseVersion, PutSucceeds,
    PutFails, DropVersion, Approve, Reject, SettleLate, QueueLate, Finish, DbError, Goto, Leave
<1>2. ASSUME NEW r \in Replicas, Crash(r) PROVE FALSE
  BY <1>2 DEF Crash
<1>3. CASE UNCHANGED pc
  BY <1>3
<1> QED BY <1>1, <1>2, <1>3 DEF Next, vars, PutLands, PutLost, Remove, DeletePaper,
  RetireStale, Drain, DrainSelect, DrainDelete, DrainDeleteFails, DrainCommit, DrainAbort,
  OpenSelect, OpenFetch

OneReplica == \A r, s \in Replicas : r = s

(* What an upload was admitted for still fits when its version starts. *)
Admitted == \A u \in Uploads : pc[u] = "admitted" => UsedBytes(slot[u]) + size[u] <= Quota

Counted(a) == {w \in Uploads : /\ slot[w][1] = a[1]
                               /\ HoldsKey(w)
                               /\ ~ (slot[w] = a /\ row[w] = "approved")}

LEMMA UsedIsSum ==
  ASSUME NEW a
  PROVE  UsedBytes(a) = Sum(size, Counted(a))
BY DEF UsedBytes, Sum, Counted

LEMMA UsedAfter == \A a : UsedBytes(a)' = Sum(size', Counted(a)')
<1>1. \A a : UsedBytes(a) = Sum(size, Counted(a))
  BY UsedIsSum
<1>2. (\A a : UsedBytes(a) = Sum(size, Counted(a)))'
  BY <1>1, PTL
<1> QED BY <1>2

(* Both sums, before and after a step. *)
LEMMA SumsAfter ==
  ASSUME IsFiniteSet(Papers), IsFiniteSet(Uploads)
  PROVE  /\ TypeOK' => \A rd \in Readers : HeldBytes(rd)' = Sum(Largest', {rd} \X Papers)
         /\ \A a : UsedBytes(a)' = Sum(size', Counted(a)')
         /\ TypeOK' => \A a \in Slots :
              /\ Largest'[a] \in Nat
              /\ \A u \in Held(a)' : size'[u] <= Largest'[a]
              /\ Largest'[a] # 0 => \E u \in Held(a)' : size'[u] = Largest'[a]
<1>1. /\ TypeOK => \A rd \in Readers : HeldBytes(rd) = Sum(Largest, {rd} \X Papers)
      /\ \A a : UsedBytes(a) = Sum(size, Counted(a))
      /\ TypeOK => \A a \in Slots :
           /\ Largest[a] \in Nat
           /\ \A u \in Held(a) : size[u] <= Largest[a]
           /\ Largest[a] # 0 => \E u \in Held(a) : size[u] = Largest[a]
  BY HeldIsSum, UsedIsSum, LargestIs
<1>2. (/\ TypeOK => \A rd \in Readers : HeldBytes(rd) = Sum(Largest, {rd} \X Papers)
       /\ \A a : UsedBytes(a) = Sum(size, Counted(a))
       /\ TypeOK => \A a \in Slots :
            /\ Largest[a] \in Nat
            /\ \A u \in Held(a) : size[u] <= Largest[a]
            /\ Largest[a] # 0 => \E u \in Held(a) : size[u] = Largest[a])'
  BY <1>1, PTL
<1> QED BY <1>2

(* As long as no version comes to hold a key, no slot holds more. *)
LEMMA LargestShrinks ==
  ASSUME IsFiniteSet(Papers), IsFiniteSet(Uploads), TypeOK, TypeOK', slot' = slot, size' = size,
         NEW a \in Slots, \A w \in Held(a)' : w \in Held(a)
  PROVE  Largest'[a] <= Largest[a]
<1>1. Largest[a] \in Nat /\ \A u \in Held(a) : size[u] <= Largest[a]
  BY LargestIs
<1>2. Largest'[a] \in Nat /\ (Largest'[a] # 0 => \E u \in Held(a)' : size'[u] = Largest'[a])
  BY SumsAfter
<1>3. CASE Largest'[a] = 0
  BY <1>1, <1>3
<1>4. ASSUME NEW u \in Held(a)', size'[u] = Largest'[a] PROVE Largest'[a] <= Largest[a]
  BY <1>1, <1>4
<1> QED BY <1>2, <1>3, <1>4

(* The slots of a reader, and sums over them. *)
LEMMA SlotsOf ==
  ASSUME IsFiniteSet(Papers), NEW rd \in Readers
  PROVE  IsFiniteSet({rd} \X Papers) /\ {rd} \X Papers \subseteq Slots
BY FS_Product, FS_Singleton DEF Slots

LEMMA HeldShrinks ==
  ASSUME IsFiniteSet(Papers), IsFiniteSet(Uploads), TypeOK, TypeOK', slot' = slot, size' = size,
         NEW rd \in Readers, \A a \in {rd} \X Papers : Largest'[a] <= Largest[a]
  PROVE  HeldBytes(rd)' <= HeldBytes(rd)
<1> DEFINE K == {rd} \X Papers
<1>1. IsFiniteSet(K) /\ K \subseteq Slots
  BY SlotsOf
<1>2. HeldBytes(rd)' = Sum(Largest', K) /\ HeldBytes(rd) = Sum(Largest, K)
  BY SumsAfter, HeldIsSum
<1>3. \A a \in K : Largest[a] \in Nat /\ Largest'[a] \in Nat
  BY <1>1, LargestIs, SumsAfter
<1> HIDE DEF K
<1>4. Sum(Largest', K) <= Sum(Largest, K)
  BY <1>1, <1>3, SumGrows DEF K
<1> QED BY <1>2, <1>4

(* The version that starts was counted with everything its reader holds   *)
(* elsewhere, and a larger file in its slot was counted before it.        *)
LEMMA StartFits ==
  ASSUME IsFiniteSet(Papers), IsFiniteSet(Uploads), TypeOK, TypeOK', Fresh, Admitted,
         HeldWithinQuota, NEW u \in Uploads, StartVersion(u), NEW rd \in Readers
  PROVE  HeldBytes(rd)' <= Quota
<1> DEFINE here == slot[u]
           K == {rd} \X Papers
           R == {w \in Uploads : HoldsKey(w)}
<1> USE DEF inputs
<1>0. /\ slot' = slot /\ size' = size /\ here \in Slots /\ size[u] \in Nat
      /\ \A w \in Uploads : size[w] \in Nat
      /\ row[u] = "none" /\ Quota \in Nat /\ HeldBytes(rd) <= Quota
  BY LimitsAssumption DEF StartVersion, TypeOK, Fresh, HeldWithinQuota
<1>1. IsFiniteSet(K) /\ K \subseteq Slots
  BY SlotsOf
<1>2. HeldBytes(rd)' = Sum(Largest', K) /\ HeldBytes(rd) = Sum(Largest, K)
  BY SumsAfter, HeldIsSum
<1>3. \A a \in Slots : a # here => Held(a)' \subseteq Held(a)
  BY <1>0 DEF StartVersion, Held, RowsOf, HoldsKey, TypeOK
<1>4. Held(here)' \subseteq Held(here) \cup {u}
  BY <1>0 DEF StartVersion, Held, RowsOf, HoldsKey, TypeOK
<1>5. \A a \in Slots : a # here => Largest'[a] <= Largest[a]
  BY <1>0, <1>3, LargestShrinks
<1>6. \A a \in K : Largest[a] \in Nat /\ Largest'[a] \in Nat
  BY <1>1, LargestIs, SumsAfter
<1>7. HeldBytes(rd) \in Nat /\ HeldBytes(rd)' \in Nat
  BY <1>1, <1>2, <1>6, SumInNat
<1>8. ASSUME \A a \in K : Largest'[a] <= Largest[a] PROVE HeldBytes(rd)' <= Quota
  <2>1. HeldBytes(rd)' <= HeldBytes(rd)
    BY <1>0, <1>8, HeldShrinks
  <2> QED BY <1>0, <1>7, <2>1
<1>9. CASE here \notin K \/ Largest'[here] <= Largest[here]
  BY <1>1, <1>5, <1>8, <1>9
<1>10. ASSUME here \in K, ~ (Largest'[here] <= Largest[here]) PROVE HeldBytes(rd)' <= Quota
  <2> DEFINE L == K \ {here}
  <2>1. Largest'[here] = size[u]
    <3>1. PICK w \in Held(here)' : size'[w] = Largest'[here]
      BY <1>0, <1>6, <1>10, SumsAfter
    <3>2. \A v \in Held(here) : size[v] <= Largest[here]
      BY <1>0, LargestIs
    <3> QED BY <1>0, <1>4, <1>10, <3>1, <3>2
  <2>2. Sum(Largest', K) = Largest'[here] + Sum(Largest', L)
    <3>1. IsFiniteSet(L) /\ here \notin L /\ K = L \cup {here}
      BY <1>1, <1>10, FS_Subset
    <3> HIDE DEF L, K, here
    <3> QED BY <1>6, <3>1, SumAdd
  <2>3. Sum(Largest', L) <= Sum(Largest, L)
    <3>1. /\ IsFiniteSet(L) /\ \A a \in L : Largest[a] \in Nat
          /\ \A a \in L : Largest'[a] \in Nat /\ Largest'[a] <= Largest[a]
      BY <1>1, <1>5, <1>6, FS_Subset
    <3> HIDE DEF L
    <3> QED BY <3>1, SumGrows
  <2>4. Sum(Largest, L) <= Sum(size, {w \in R : slot[w] \in L})
    <3>1. IsFiniteSet(L) /\ IsFiniteSet(R) /\ \A w \in R : size[w] \in Nat
      BY <1>0, <1>1, FS_Subset
    <3>2. \A a \in L : Largest[a] \in Nat /\ (Largest[a] # 0 => \E w \in R : slot[w] = a /\ size[w] = Largest[a])
      BY <1>1, LargestIs DEF Held, RowsOf
    <3> HIDE DEF L, R
    <3> QED BY <3>1, <3>2, LargestAreSome
  <2>5. Sum(size, {w \in R : slot[w] \in L}) <= Sum(size, Counted(here))
    <3>1. {w \in R : slot[w] \in L} \subseteq Counted(here)
      BY <1>10 DEF Counted
    <3>2. IsFiniteSet(Counted(here)) /\ Counted(here) \subseteq Uploads
      BY FS_Subset DEF Counted
    <3>3. \A w \in Counted(here) : size[w] \in Nat /\ size[w] <= size[w]
      BY <1>0, <3>2
    <3> HIDE DEF here, L, R
    <3> QED BY <3>1, <3>2, <3>3, SumGrows
  <2>6. Sum(size, Counted(here)) + size[u] <= Quota
    BY UsedIsSum DEF Admitted, StartVersion
  <2>7. /\ Sum(Largest', L) \in Nat /\ Sum(Largest, L) \in Nat /\ Sum(size, Counted(here)) \in Nat
        /\ Sum(size, {w \in R : slot[w] \in L}) \in Nat
    <3>1. IsFiniteSet(L) /\ \A a \in L : Largest[a] \in Nat /\ Largest'[a] \in Nat
      BY <1>1, <1>6, FS_Subset
    <3>2. IsFiniteSet(Counted(here)) /\ Counted(here) \subseteq Uploads
      BY FS_Subset DEF Counted
    <3>3. IsFiniteSet({w \in R : slot[w] \in L}) /\ {w \in R : slot[w] \in L} \subseteq Uploads
      BY FS_Subset
    <3> HIDE DEF here, L, R
    <3> QED BY <1>0, <3>1, <3>2, <3>3, SumInNat
  <2> HIDE DEF here, K, L, R
  <2> QED BY <1>0, <1>2, <2>1, <2>2, <2>3, <2>4, <2>5, <2>6, <2>7
<1> QED BY <1>9, <1>10

(* The check still holds while the upload is admitted: on one replica no  *)
(* other upload of its reader runs, and rows come to hold a key only then. *)
LEMMA AdmittedStep ==
  ASSUME OneReplica, IsFiniteSet(Uploads), Inv, TypeOK', TurnsAreExact, Admitted, [Next]_vars
  PROVE  Admitted'
<1> USE DEF Inv
<1>0. slot' = slot /\ size' = size
  BY OnlyStartHolds
<1>1. ASSUME NEW u \in Uploads, pc'[u] = "admitted" PROVE (UsedBytes(slot[u]) + size[u] <= Quota)'
  <2> PICK here : here = slot[u]
    OBVIOUS
  <2>0. /\ UsedBytes(here)' = Sum(size, Counted(here)') /\ UsedBytes(here) = Sum(size, Counted(here))
        /\ size[u] \in Nat /\ \A w \in Uploads : size[w] \in Nat /\ Quota \in Nat
        /\ IsFiniteSet(Counted(here)) /\ IsFiniteSet(Counted(here)')
        /\ Counted(here) \subseteq Uploads /\ Counted(here)' \subseteq Uploads
    <3>1. \A a : UsedBytes(a)' = Sum(size', Counted(a)')
      BY UsedAfter
    <3>2. Counted(here) \subseteq Uploads /\ Counted(here)' \subseteq Uploads
      BY DEF Counted
    <3>3. \A w \in Uploads : size[w] \in Nat
      BY LimitsAssumption DEF TypeOK
    <3> QED BY <1>0, <3>1, <3>2, <3>3, UsedIsSum, FS_Subset, LimitsAssumption
  <2>1. Counted(here)' \subseteq Counted(here)
    <3>1. ASSUME NEW w \in Counted(here)' PROVE ~ StartVersion(w)
      <4>1. ASSUME StartVersion(w) PROVE FALSE
        <5>1. w \in Uploads /\ slot[w][1] = slot[u][1] /\ w # u
          BY <1>0, <1>1, <4>1 DEF Counted, StartVersion, Goto, TypeOK
        <5>2. pc[w] \in Active /\ pc[u] \in Active
          BY <1>1, <4>1, <5>1 DEF StartVersion, Goto, TypeOK, Active
        <5>3. at[w] = at[u]
          BY <5>1 DEF OneReplica, TypeOK
        <5> QED BY <5>1, <5>2, <5>3 DEF TurnsAreExact
      <4> QED BY <4>1
    <3>2. ASSUME NEW w \in Counted(here)' PROVE w \in Counted(here)
      <4>1. w \in Uploads /\ slot[w][1] = here[1] /\ row'[w] \in {"pending", "approved"}
            /\ ~ (slot[w] = here /\ row'[w] = "approved")
        BY <1>0 DEF Counted, HoldsKey
      <4>2. row'[w] = row[w] \/ (row[w] = "pending" /\ row'[w] = "approved")
        BY <3>1, <4>1, OnlyStartHolds
      <4> QED BY <4>1, <4>2 DEF Counted, HoldsKey
    <3> QED BY <3>2
  <2>2. Sum(size, Counted(here)') <= Sum(size, Counted(here))
    <3>1. \A w \in Counted(here) : size[w] \in Nat
      BY <2>0
    <3>2. \A w \in Counted(here)' : size[w] \in Nat /\ size[w] <= size[w]
      BY <2>0
    <3> QED BY <2>0, <2>1, <3>1, <3>2, SumGrows
  <2>3. Sum(size, Counted(here)) \in Nat /\ Sum(size, Counted(here)') \in Nat
    <3> QED BY <2>0, SumInNat
  <2>4. CASE pc[u] = "admitted"
    <3>1. UsedBytes(here) + size[u] <= Quota
      BY <2>4 DEF Admitted
    <3>2. UsedBytes(here)' + size[u] <= Quota
      BY <2>0, <2>2, <2>3, <3>1
    <3> QED BY <1>0, <3>2
  <2>5. CASE pc[u] # "admitted"
    <3>1. CheckQuota(u) /\ FitsQuota(u)
      BY <1>1, <2>5, OnlyCheckAdmits
    <3>2. UsedBytes(here) + size[u] <= Quota
      BY <3>1 DEF FitsQuota
    <3>3. UsedBytes(here)' + size[u] <= Quota
      BY <2>0, <2>2, <2>3, <3>2
    <3> QED BY <1>0, <3>3
  <2> QED BY <2>4, <2>5
<1> QED BY <1>1 DEF Admitted

LEMMA HeldStep ==
  ASSUME IsFiniteSet(Papers), IsFiniteSet(Uploads), Inv, TypeOK', Admitted, HeldWithinQuota,
         [Next]_vars
  PROVE  HeldWithinQuota'
<1> USE DEF Inv
<1>1. ASSUME NEW u \in Uploads, StartVersion(u) PROVE HeldWithinQuota'
  BY <1>1, StartFits DEF HeldWithinQuota
<1>2. ASSUME \A u \in Uploads : ~ StartVersion(u), NEW rd \in Readers
      PROVE  HeldBytes(rd)' <= Quota
  <2>1. slot' = slot /\ size' = size
    BY OnlyStartHolds
  <2>2. \A a \in Slots : Held(a)' \subseteq Held(a)
    <3>1. \A w \in Uploads : row'[w] \in {"pending", "approved"} => row[w] \in {"pending", "approved"}
      BY <1>2, OnlyStartHolds
    <3> QED BY <2>1, <3>1 DEF Held, RowsOf, HoldsKey
  <2>3. IsFiniteSet({rd} \X Papers) /\ {rd} \X Papers \subseteq Slots
    BY SlotsOf
  <2>4. \A a \in Slots : Largest'[a] <= Largest[a]
    BY <2>1, <2>2, LargestShrinks
  <2>5. HeldBytes(rd)' <= HeldBytes(rd)
    BY <2>1, <2>3, <2>4, HeldShrinks
  <2>6. HeldBytes(rd) \in Nat /\ HeldBytes(rd)' \in Nat /\ Quota \in Nat
    <3>1. \A a \in {rd} \X Papers : Largest[a] \in Nat /\ Largest'[a] \in Nat
      BY <2>3, LargestIs, SumsAfter
    <3> QED BY <2>3, <3>1, HeldIsSum, SumsAfter, SumInNat, LimitsAssumption
  <2> QED BY <2>5, <2>6 DEF HeldWithinQuota
<1> QED BY <1>1, <1>2 DEF HeldWithinQuota

(* On one replica no reader ever holds more than the quota, ...            *)
THEOREM QuotaHolds ==
  ASSUME OneReplica, IsFiniteSet(Papers), IsFiniteSet(Uploads)
  PROVE  Spec => []HeldWithinQuota
<1>1. Init => Admitted /\ HeldWithinQuota
  <2> SUFFICES ASSUME Init PROVE Admitted /\ HeldWithinQuota
    OBVIOUS
  <2>1. TypeOK
    BY TypingInit
  <2>2. ASSUME NEW rd \in Readers PROVE HeldBytes(rd) <= Quota
    <3> DEFINE K == {rd} \X Papers
               none == [w \in Uploads |-> 0]
    <3>1. IsFiniteSet(K) /\ K \subseteq Slots
      BY SlotsOf
    <3>2. \A a \in K : Largest[a] \in Nat /\ Largest[a] = 0
      BY <2>1, <3>1, LargestIs DEF Init, Held, RowsOf
    <3>3. Sum(Largest, K) <= Sum(none, {w \in {} : slot[w] \in K})
      <4> HIDE DEF K
      <4> QED BY <3>1, <3>2, LargestAreSome, FS_EmptySet
    <3>4. Sum(none, {w \in {} : slot[w] \in K}) = 0
      BY SumOfNone
    <3>5. HeldBytes(rd) = Sum(Largest, K) /\ Sum(Largest, K) \in Nat
      BY <2>1, <3>1, <3>2, HeldIsSum, SumInNat
    <3> QED BY <3>3, <3>4, <3>5, LimitsAssumption
  <2> QED BY <2>2 DEF Init, Admitted, HeldWithinQuota
<1>2. /\ Inv /\ Inv' /\ TurnsAreExact /\ Admitted /\ HeldWithinQuota /\ [Next]_vars
      => Admitted' /\ HeldWithinQuota'
  BY AdmittedStep, HeldStep DEF Inv
<1> QED BY <1>1, <1>2, InvHolds, TurnsHold, PTL DEF Spec

-----------------------------------------------------------------------------
(* Version numbers *)

(* A version that waits for its scan has the highest number of its slot, so *)
(* approving it never serves an older one.                                  *)
PendingIsNewest ==
  \A u, w \in Uploads :
    row[u] = "pending" /\ row[w] # "none" /\ slot[u] = slot[w] /\ u # w => version[w] < version[u]

LEMMA PendingStep == TypeOK /\ PendingIsNewest /\ [Next]_vars => PendingIsNewest'
<1> SUFFICES ASSUME TypeOK, PendingIsNewest, [Next]_vars,
                    NEW u \in Uploads, NEW w \in Uploads, row'[u] = "pending", row'[w] # "none",
                    slot'[u] = slot'[w], u # w
             PROVE  version'[w] < version'[u]
  BY DEF PendingIsNewest
<1>0. slot' = slot
  BY OnlyApproveServes
<1>1. ASSUME NEW x \in Uploads, StartVersion(x) PROVE version'[w] < version'[u]
  <2>1. PICK n \in NextVersion(slot[x]) : version' = [version EXCEPT ![x] = n]
    BY <1>1 DEF StartVersion
  <2>2. \A y \in RowsOf(slot[x]) : version[y] < n
    BY <2>1 DEF NextVersion
  <2>3. \A y \in Uploads \ {x} : row'[y] = row[y] /\ version'[y] = version[y]
    BY <1>1, <2>1 DEF StartVersion, TypeOK
  <2>4. version'[x] = n
    BY <2>1 DEF TypeOK
  <2>5. \A y \in RowsOf(slot[x]) : row[y] # "pending"
    BY <1>1 DEF StartVersion, CanStart
  <2>6. CASE u = x
    BY <1>0, <2>2, <2>3, <2>4, <2>6 DEF RowsOf
  <2>7. CASE u # x /\ w = x
    BY <1>0, <2>3, <2>5, <2>7 DEF RowsOf
  <2>8. CASE u # x /\ w # x
    BY <1>0, <2>3, <2>8 DEF PendingIsNewest
  <2> QED BY <2>6, <2>7, <2>8
<1>2. ASSUME \A x \in Uploads : ~ StartVersion(x) PROVE version'[w] < version'[u]
  <2>1. version' = version /\ row[w] # "none"
    BY <1>2, OnlyStartInserts
  <2>2. row[u] = "pending"
    BY <1>2, OnlyStartHolds
  <2> QED BY <1>0, <2>1, <2>2 DEF PendingIsNewest
<1> QED BY <1>1, <1>2

(* While an attachment stays, a replacement has a higher version number than *)
(* the file it replaces.                                                     *)
THEOREM VersionsAdvance == Spec => ServedVersionAdvances
<1>1. Init => PendingIsNewest
  BY DEF Init, PendingIsNewest
<1>2. TypeOK /\ PendingIsNewest /\ [Next]_vars => PendingIsNewest'
  BY PendingStep
<1>3. TypeOK /\ PendingIsNewest /\ OneServedFile /\ OneServedFile' /\ [Next]_vars =>
        [\A u, w \in Uploads :
           u \in Served(slot[u]) /\ w \in Served(slot[w])' /\ slot[u] = slot[w] /\ u # w
             => version'[w] > version[u]]_vars
  <2> SUFFICES ASSUME TypeOK, PendingIsNewest, OneServedFile, OneServedFile', [Next]_vars,
                      NEW u \in Uploads, NEW w \in Uploads, u \in Served(slot[u]),
                      w \in Served(slot[w])', slot[u] = slot[w], u # w
               PROVE  version'[w] > version[u]
    OBVIOUS
  <2>1. row[u] = "approved" /\ row'[w] = "approved"
    BY DEF Served, RowsOf
  <2>2. row[w] # "approved"
    BY <2>1 DEF OneServedFile
  <2>3. Approve(w)
    BY <2>1, <2>2, OnlyApproveServes
  <2>4. row[w] = "pending" /\ version' = version
    BY <2>3 DEF Approve, StillPending
  <2> QED BY <2>1, <2>4 DEF PendingIsNewest, TypeOK
<1> QED BY <1>1, <1>2, <1>3, TypeCorrect, OneFileServed, PTL DEF Spec, ServedVersionAdvances
=============================================================================
