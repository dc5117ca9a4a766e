-------------------------- MODULE PaperLibraryProofs --------------------------
(***************************************************************************)
(* For any number of tabs, papers and limits, four invariants.             *)
(*                                                                         *)
(* 1. OvershootsByOne.  A call that has counted and not yet inserted is as *)
(* good as a paper: the two together never pass the limit less one by more *)
(* than the calls there are.  Counting adds a waiting call only below the  *)
(* limit, inserting turns one into a paper, and nothing else makes either. *)
(* 2. LibraryHolds.  An entry never changes its paper, and all calls that  *)
(* have read it agree on which that is, so a late save of the whole row    *)
(* cannot list a paper twice.                                              *)
(* 3. AddedOnce.  Rows are numbered as they are made and never change: a   *)
(* new one is compared with every row there is, under the lock.            *)
(* 4. OwnPapersAreListed.  Whoever takes an entry off the list, or has not *)
(* put it there yet, still holds the paper's name.                         *)
(***************************************************************************)
EXTENDS PaperLibrary, TLAPS, FiniteSetTheorems

Waiting(at) == {c \in Calls : call[c].at = at}

Shapes ==
  /\ DOMAIN call = Calls /\ \A c \in Calls : "at" \in DOMAIN call[c]
  /\ DOMAIN papers = Ids /\ DOMAIN collections = CollectionIds

PapersBounded == Cardinality(Own) + Cardinality(Waiting("insert")) <= OwnLimit - 1 + Cardinality(Calls)
CollectionsBounded ==
  Cardinality(Collected) + Cardinality(Waiting("begin")) <= CollectionLimit - 1 + Cardinality(Calls)

Inv == Shapes /\ PapersBounded /\ CollectionsBounded

(* A step of call c, which it leaves at a place other than these. *)
Moves(c) ==
  /\ DOMAIN call' = Calls /\ "at" \in DOMAIN call'[c]
  /\ \A d \in Calls \ {c} : call'[d] = call[d]
SettlesAway(c) == Moves(c) /\ call'[c].at \notin {"insert", "begin"}

NoNewPaper == DOMAIN papers' = Ids /\ Own' \subseteq Own
NoNewCollection == DOMAIN collections' = CollectionIds /\ Collected' \subseteq Collected

Quiet(c) == SettlesAway(c) /\ NoNewPaper /\ NoNewCollection

-----------------------------------------------------------------------------
(* Counting *)

LEMMA Finite ==
  /\ IsFiniteSet(Calls) /\ Cardinality(Calls) \in Nat
  /\ \A S \in SUBSET Calls : IsFiniteSet(S) /\ Cardinality(S) \in Nat /\ Cardinality(S) <= Cardinality(Calls)
  /\ \A S \in SUBSET Ids : IsFiniteSet(S) /\ Cardinality(S) \in Nat
  /\ \A S \in SUBSET CollectionIds : IsFiniteSet(S) /\ Cardinality(S) \in Nat
<1>1. IsFiniteSet(Calls) /\ MaxPapers \in Nat /\ MaxCollections \in Nat
  BY LimitsAssumption
<1>2. IsFiniteSet(Ids) /\ IsFiniteSet(CollectionIds)
  BY <1>1, FS_Interval DEF Ids, CollectionIds
<1> QED
  BY <1>1, <1>2, FS_Subset, FS_CardinalityType

(* One element more is one more at most. *)
LEMMA OneMore ==
  ASSUME NEW S, NEW T, NEW x, IsFiniteSet(S), T \subseteq S \cup {x}
  PROVE  Cardinality(T) <= Cardinality(S) + 1
<1>1. IsFiniteSet(S \cup {x}) /\ Cardinality(S \cup {x}) \in {Cardinality(S), Cardinality(S) + 1}
  BY FS_AddElement
<1>2. Cardinality(T) <= Cardinality(S \cup {x}) /\ IsFiniteSet(T)
  BY <1>1, FS_Subset
<1> QED
  BY <1>1, <1>2, FS_CardinalityType

(* One element fewer is one less. *)
LEMMA OneLess ==
  ASSUME NEW S, NEW T, NEW x \in S, IsFiniteSet(S), T \subseteq S \ {x}
  PROVE  Cardinality(T) <= Cardinality(S) - 1
<1>1. IsFiniteSet(S \ {x}) /\ Cardinality(S \ {x}) = Cardinality(S) - 1
  BY FS_RemoveElement
<1> QED
  BY <1>1, FS_Subset

LEMMA Subsets ==
  /\ Own \subseteq Ids /\ Collected \subseteq CollectionIds
  /\ Own' \subseteq Ids /\ Collected' \subseteq CollectionIds
  /\ \A at : Waiting(at) \subseteq Calls
  /\ \A at : Waiting(at)' \subseteq Calls
  BY DEF Own, Collected, Waiting

-----------------------------------------------------------------------------
(* The kinds of step *)

LEMMA StaysShaped ==
  ASSUME Shapes, NEW c \in Calls, Moves(c), DOMAIN papers' = Ids, DOMAIN collections' = CollectionIds
  PROVE  Shapes'
  BY DEF Shapes, Moves

(* A call that settles elsewhere leaves no more of them waiting. *)
LEMMA FewerWait ==
  ASSUME NEW c \in Calls, Moves(c), NEW at, call'[c].at # at
  PROVE  Waiting(at)' \subseteq Waiting(at) \ {c}
  BY DEF Moves, Waiting

LEMMA PapersStay ==
  ASSUME PapersBounded, Own' \subseteq Own, Waiting("insert")' \subseteq Waiting("insert")
  PROVE  PapersBounded'
<1>1. Cardinality(Own') <= Cardinality(Own) /\ Cardinality(Own') \in Nat /\ Cardinality(Own) \in Nat
  BY Finite, Subsets, FS_Subset
<1>2. /\ Cardinality(Waiting("insert")') <= Cardinality(Waiting("insert"))
      /\ Cardinality(Waiting("insert")') \in Nat /\ Cardinality(Waiting("insert")) \in Nat
  BY Finite, Subsets, FS_Subset
<1> QED
  BY <1>1, <1>2, Finite, LimitsAssumption DEF PapersBounded

LEMMA CollectionsStay ==
  ASSUME CollectionsBounded, Collected' \subseteq Collected, Waiting("begin")' \subseteq Waiting("begin")
  PROVE  CollectionsBounded'
<1>1. Cardinality(Collected') <= Cardinality(Collected) /\ Cardinality(Collected') \in Nat /\ Cardinality(Collected) \in Nat
  BY Finite, Subsets, FS_Subset
<1>2. /\ Cardinality(Waiting("begin")') <= Cardinality(Waiting("begin"))
      /\ Cardinality(Waiting("begin")') \in Nat /\ Cardinality(Waiting("begin")) \in Nat
  BY Finite, Subsets, FS_Subset
<1> QED
  BY <1>1, <1>2, Finite, LimitsAssumption DEF CollectionsBounded

LEMMA QuietKeeps ==
  ASSUME Inv, NEW c \in Calls, Quiet(c)
  PROVE  Inv'
<1>1. Shapes'
  BY StaysShaped DEF Inv, Quiet, SettlesAway, NoNewPaper, NoNewCollection
<1>2. Waiting("insert")' \subseteq Waiting("insert") /\ Waiting("begin")' \subseteq Waiting("begin")
  BY FewerWait DEF Quiet, SettlesAway
<1>3. PapersBounded' /\ CollectionsBounded'
  BY <1>2, PapersStay, CollectionsStay DEF Inv, Quiet, NoNewPaper, NoNewCollection
<1> QED
  BY <1>1, <1>3 DEF Inv

-----------------------------------------------------------------------------
(* The steps that count and those that insert *)

LEMMA CountKeeps ==
  ASSUME Inv, NEW c \in Calls, Count(c)
  PROVE  Inv'
<1>1. UNCHANGED db
  BY DEF Count
<1>2. NoNewPaper /\ NoNewCollection
  BY <1>1 DEF db, NoNewPaper, NoNewCollection, Own, Collected, Inv, Shapes
<1>3. CASE AtLimit(Cardinality(Own), OwnLimit)
  <2>1. SettlesAway(c)
    BY <1>3 DEF Count, Ends, Free, SettlesAway, Moves, Inv, Shapes
  <2> QED
    BY <1>2, <2>1, QuietKeeps DEF Quiet
<1>4. CASE ~AtLimit(Cardinality(Own), OwnLimit)
  <2>1. Moves(c) /\ call'[c].at = "insert"
    BY <1>4 DEF Count, Goes, Moves, Inv, Shapes
  <2>2. Shapes'
    BY <1>2, <2>1, StaysShaped DEF Inv, NoNewPaper, NoNewCollection
  <2>3. Cardinality(Own) < OwnLimit /\ Own' = Own
    BY <1>1, <1>4, Finite, Subsets, LimitsAssumption DEF AtLimit, db, Own
  <2>4. Cardinality(Waiting("insert")') \in Nat /\ Cardinality(Waiting("insert")') <= Cardinality(Calls)
    BY Finite, Subsets
  <2>5. PapersBounded'
    BY <2>3, <2>4, Finite, Subsets, LimitsAssumption DEF PapersBounded
  <2>6. Waiting("begin")' \subseteq Waiting("begin")
    BY <2>1, FewerWait
  <2> QED
    BY <1>2, <2>2, <2>5, <2>6, CollectionsStay DEF Inv, NoNewCollection
<1> QED
  BY <1>3, <1>4

LEMMA CountCollectionsKeeps ==
  ASSUME Inv, NEW c \in Calls, CountCollections(c)
  PROVE  Inv'
<1>1. UNCHANGED db
  BY DEF CountCollections
<1>2. NoNewPaper /\ NoNewCollection
  BY <1>1 DEF db, NoNewPaper, NoNewCollection, Own, Collected, Inv, Shapes
<1>3. CASE AtLimit(Cardinality(Collected), CollectionLimit)
  <2>1. SettlesAway(c)
    BY <1>3 DEF CountCollections, Ends, Free, SettlesAway, Moves, Inv, Shapes
  <2> QED
    BY <1>2, <2>1, QuietKeeps DEF Quiet
<1>4. CASE ~AtLimit(Cardinality(Collected), CollectionLimit)
  <2>1. Moves(c) /\ call'[c].at = "begin"
    BY <1>4 DEF CountCollections, Goes, Moves, Inv, Shapes
  <2>2. Shapes'
    BY <1>2, <2>1, StaysShaped DEF Inv, NoNewPaper, NoNewCollection
  <2>3. Cardinality(Collected) < CollectionLimit /\ Collected' = Collected
    BY <1>1, <1>4, Finite, Subsets, LimitsAssumption DEF AtLimit, db, Collected
  <2>4. Cardinality(Waiting("begin")') \in Nat /\ Cardinality(Waiting("begin")') <= Cardinality(Calls)
    BY Finite, Subsets
  <2>5. CollectionsBounded'
    BY <2>3, <2>4, Finite, Subsets, LimitsAssumption DEF CollectionsBounded
  <2>6. Waiting("insert")' \subseteq Waiting("insert")
    BY <2>1, FewerWait
  <2> QED
    BY <1>2, <2>2, <2>5, <2>6, PapersStay DEF Inv, NoNewPaper
<1> QED
  BY <1>3, <1>4

(* One paper more, one waiting call fewer. *)
LEMMA InsertKeeps ==
  ASSUME Inv, NEW c \in Calls, call[c].at = "insert", SettlesAway(c), InsertPaper(c), NoNewCollection
  PROVE  Inv'
<1>1. DOMAIN papers' = Ids /\ Own' \subseteq Own \cup {made + 1}
  BY DEF InsertPaper, Own, Inv, Shapes
<1>2. Shapes'
  BY <1>1, StaysShaped DEF Inv, SettlesAway, NoNewCollection
<1>3. Waiting("insert")' \subseteq Waiting("insert") \ {c} /\ Waiting("begin")' \subseteq Waiting("begin")
  BY FewerWait DEF SettlesAway
<1>4. c \in Waiting("insert")
  BY DEF Waiting
<1>5. Cardinality(Waiting("insert")') <= Cardinality(Waiting("insert")) - 1
  BY <1>3, <1>4, OneLess, Finite, Subsets
<1>6. Cardinality(Own') <= Cardinality(Own) + 1
  BY <1>1, OneMore, Finite, Subsets
<1>7. PapersBounded'
  BY <1>5, <1>6, Finite, Subsets, LimitsAssumption DEF PapersBounded, Inv
<1>8. CollectionsBounded'
  BY <1>3, CollectionsStay DEF Inv, NoNewCollection
<1> QED
  BY <1>2, <1>7, <1>8 DEF Inv

LEMMA InsertCollectionKeeps ==
  ASSUME Inv, NEW c \in Calls, InsertCollection(c)
  PROVE  Inv'
<1>1. SettlesAway(c)
  BY DEF InsertCollection, Ends, Free, SettlesAway, Moves, Inv, Shapes
<1>2. NoNewPaper
  BY DEF InsertCollection, KeepLibrary, NoNewPaper, Own, Inv, Shapes
<1>3. DOMAIN collections' = CollectionIds /\ Collected' \subseteq Collected \cup {begun + 1}
  BY DEF InsertCollection, Collected, Inv, Shapes
<1>4. Shapes'
  BY <1>1, <1>2, <1>3, StaysShaped DEF Inv, SettlesAway, NoNewPaper
<1>5. Waiting("begin")' \subseteq Waiting("begin") \ {c} /\ Waiting("insert")' \subseteq Waiting("insert")
  BY <1>1, FewerWait DEF SettlesAway
<1>6. c \in Waiting("begin")
  BY DEF Waiting, InsertCollection
<1>7. Cardinality(Waiting("begin")') <= Cardinality(Waiting("begin")) - 1
  BY <1>5, <1>6, OneLess, Finite, Subsets
<1>8. Cardinality(Collected') <= Cardinality(Collected) + 1
  BY <1>3, OneMore, Finite, Subsets
<1>9. CollectionsBounded'
  BY <1>7, <1>8, Finite, Subsets, LimitsAssumption DEF CollectionsBounded, Inv
<1>10. PapersBounded'
  BY <1>2, <1>5, PapersStay DEF Inv, NoNewPaper
<1> QED
  BY <1>4, <1>9, <1>10 DEF Inv

-----------------------------------------------------------------------------
(* Everything else is quiet *)

(* A statement that touches neither table and then goes on elsewhere. *)
LEMMA ReadingIsQuiet ==
  ASSUME Inv, NEW c \in Calls, SettlesAway(c), UNCHANGED <<papers, collections>>
  PROVE  Inv'
<1>1. NoNewPaper /\ NoNewCollection
  BY DEF NoNewPaper, NoNewCollection, Own, Collected, Inv, Shapes
<1> QED
  BY <1>1, QuietKeeps DEF Quiet

(* A request starts by counting, or by something else that inserts no row. *)
LEMMA RequestSettles ==
  ASSUME Inv, NEW c \in Calls, NEW first, "at" \in DOMAIN first,
         first.at \notin {"insert", "begin"}, Request(c, first)
  PROVE  Inv'
<1>1. SettlesAway(c) /\ UNCHANGED <<papers, collections>>
  BY DEF Request, SettlesAway, Moves, Inv, Shapes, db
<1> QED
  BY <1>1, ReadingIsQuiet

LEMMA AsksKeeps ==
  ASSUME Inv, NEW c \in Calls, Asks(c)
  PROVE  Inv'
<1>1. ASSUME NEW slug \in Public, NEW status \in Statuses, AddPublic(c, slug, status) PROVE Inv'
  BY <1>1, RequestSettles DEF AddPublic, Place
<1>2. ASSUME NEW w \in Works, Drop(c, w) PROVE Inv'
  BY <1>2, RequestSettles DEF Drop
<1>3. ASSUME NEW w \in Works, Import(c, w) PROVE Inv'
  BY <1>3, RequestSettles DEF Import, Place
<1>4. ASSUME NEW w \in Works, CreateManual(c, w) PROVE Inv'
  BY <1>4, RequestSettles DEF CreateManual, Place
<1>5. ASSUME NEW ref \in Refs, Remove(c, ref) PROVE Inv'
  BY <1>5, RequestSettles DEF Remove
<1>6. ASSUME NEW ref \in Refs, NEW change \in Changes, Update(c, ref, change) PROVE Inv'
  BY <1>6, RequestSettles DEF Update
<1>7. ASSUME NEW ref \in Refs, NEW k \in CollectionIds, Collect(c, ref, k) \/ Take(c, ref, k) PROVE Inv'
  BY <1>7, RequestSettles DEF Collect, Take
<1>8. ASSUME NEW name \in Names, CreateCollection(c, name) PROVE Inv'
  BY <1>8, RequestSettles DEF CreateCollection
<1>9. ASSUME NEW name \in Names, NEW k \in CollectionIds, Rename(c, k, name) PROVE Inv'
  BY <1>9, RequestSettles DEF Rename
<1>10. ASSUME NEW k \in CollectionIds, RemoveCollection(c, k) PROVE Inv'
  BY <1>10, RequestSettles DEF RemoveCollection
<1> QED
  BY <1>1, <1>2, <1>3, <1>4, <1>5, <1>6, <1>7, <1>8, <1>9, <1>10 DEF Asks

LEMMA DeletingIsQuiet ==
  ASSUME Inv, NEW c \in Calls, NEW ref, SettlesAway(c), DeletePaper(ref)
  PROVE  Inv'
<1>1. NoNewPaper /\ NoNewCollection
  BY DEF DeletePaper, NoNewPaper, NoNewCollection, Own, Collected, Inv, Shapes
<1> QED
  BY <1>1, QuietKeeps DEF Quiet

LEMMA AddsKeeps ==
  ASSUME Inv, NEW c \in Calls, Adds(c)
  PROVE  Inv'
<1>1. CASE Known(c)
  <2>1. SettlesAway(c) /\ UNCHANGED <<papers, collections>>
    BY <1>1 DEF Known, Goes, Place, SettlesAway, Moves, Inv, Shapes, db
  <2> QED
    BY <2>1, ReadingIsQuiet
<1>2. CASE Count(c)
  BY <1>2, CountKeeps
<1>3. CASE SaveDropped(c)
  <2>1. SettlesAway(c) /\ NoNewCollection
    BY <1>3 DEF SaveDropped, KeepCollections, SettlesAway, Moves, NoNewCollection, Collected, Inv, Shapes
  <2> QED
    BY <1>3, <2>1, InsertKeeps DEF SaveDropped
<1>4. CASE AddPrivate(c)
  <2>1. SettlesAway(c)
    BY <1>4 DEF AddPrivate, Ends, Free, Place, SettlesAway, Moves, Inv, Shapes
  <2>2. CASE Found(call[c].work) = {}
    <3>1. call[c].at = "insert" /\ InsertPaper(c)
      BY <1>4, <2>2 DEF AddPrivate
    <3>2. NoNewCollection
      BY <1>4 DEF AddPrivate, KeepCollections, NoNewCollection, Collected, Inv, Shapes
    <3> QED
      BY <2>1, <3>1, <3>2, InsertKeeps
  <2>3. CASE Found(call[c].work) # {}
    <3>1. UNCHANGED <<papers, collections>>
      BY <1>4, <2>3 DEF AddPrivate, KeepCollections
    <3> QED
      BY <2>1, <3>1, ReadingIsQuiet
  <2> QED
    BY <2>2, <2>3
<1>5. CASE Uploaded(c) \/ Refused(c)
  <2>1. SettlesAway(c) /\ UNCHANGED <<papers, collections>>
    BY <1>5 DEF Uploaded, Refused, Ends, Free, Goes, Place, SettlesAway, Moves, Inv, Shapes, db
  <2> QED
    BY <2>1, ReadingIsQuiet
<1>6. CASE Undo(c)
  <2>1. SettlesAway(c)
    BY <1>6 DEF Undo, Ends, Free, SettlesAway, Moves, Inv, Shapes
  <2> QED
    BY <1>6, <2>1, DeletingIsQuiet DEF Undo
<1>7. CASE AddRef(c)
  <2>1. SettlesAway(c) /\ UNCHANGED <<papers, collections>>
    BY <1>7 DEF AddRef, KeepCollections, Ends, Free, SettlesAway, Moves, Inv, Shapes
  <2> QED
    BY <2>1, ReadingIsQuiet
<1> QED
  BY <1>1, <1>2, <1>3, <1>4, <1>5, <1>6, <1>7 DEF Adds

LEMMA EditsKeeps ==
  ASSUME Inv, NEW c \in Calls, Edits(c)
  PROVE  Inv'
<1>1. CASE ReadEntry(c)
  <2>1. SettlesAway(c) /\ UNCHANGED <<papers, collections>>
    BY <1>1 DEF ReadEntry, Ends, Free, SettlesAway, Moves, Inv, Shapes, db
  <2> QED
    BY <2>1, ReadingIsQuiet
<1>2. CASE Compare(c)
  <2>1. SettlesAway(c) /\ UNCHANGED <<papers, collections>>
    BY <1>2 DEF Compare, SettlesAway, Moves, Inv, Shapes, db
  <2> QED
    BY <2>1, ReadingIsQuiet
<1>3. CASE Save(c)
  <2>1. SettlesAway(c) /\ UNCHANGED <<papers, collections>>
    BY <1>3 DEF Save, KeepCollections, Ends, Free, SettlesAway, Moves, Inv, Shapes
  <2> QED
    BY <2>1, ReadingIsQuiet
<1>4. CASE Unlist(c)
  <2>1. SettlesAway(c) /\ UNCHANGED <<papers, collections>>
    BY <1>4 DEF Unlist, Ends, Free, Goes, SettlesAway, Moves, Inv, Shapes
  <2> QED
    BY <2>1, ReadingIsQuiet
<1>5. CASE DeleteOwn(c)
  <2>1. SettlesAway(c)
    BY <1>5 DEF DeleteOwn, Ends, Free, SettlesAway, Moves, Inv, Shapes
  <2> QED
    BY <1>5, <2>1, DeletingIsQuiet DEF DeleteOwn
<1> QED
  BY <1>1, <1>2, <1>3, <1>4, <1>5 DEF Edits

LEMMA CollectsKeeps ==
  ASSUME Inv, NEW c \in Calls, Collects(c)
  PROVE  Inv'
<1>1. CASE CountCollections(c)
  BY <1>1, CountCollectionsKeeps
<1>2. CASE InsertCollection(c)
  BY <1>2, InsertCollectionKeeps
<1>3. CASE SaveName(c) \/ DeleteCollection(c)
  <2>1. SettlesAway(c)
    BY <1>3 DEF SaveName, DeleteCollection, Ends, Free, SettlesAway, Moves, Inv, Shapes
  <2>2. NoNewPaper
    BY <1>3 DEF SaveName, DeleteCollection, KeepLibrary, NoNewPaper, Own, Inv, Shapes
  <2>3. NoNewCollection
    BY <1>3 DEF SaveName, DeleteCollection, NoNewCollection, Collected, Inv, Shapes
  <2> QED
    BY <2>1, <2>2, <2>3, QuietKeeps DEF Quiet
<1>4. CASE FindEntry(c)
  <2>1. SettlesAway(c) /\ UNCHANGED <<papers, collections>>
    BY <1>4 DEF FindEntry, Ends, Free, SettlesAway, Moves, Inv, Shapes, db
  <2> QED
    BY <2>1, ReadingIsQuiet
<1>5. CASE PutItem(c) \/ TakeItem(c)
  <2>1. SettlesAway(c) /\ UNCHANGED <<papers, collections>>
    BY <1>5 DEF PutItem, TakeItem, KeepLibrary, Ends, Free, SettlesAway, Moves, Inv, Shapes
  <2> QED
    BY <2>1, ReadingIsQuiet
<1> QED
  BY <1>1, <1>2, <1>3, <1>4, <1>5 DEF Collects

LEMMA CutOffKeeps ==
  ASSUME Inv, NEW c \in Calls, CutOff(c)
  PROVE  Inv'
<1>1. SettlesAway(c) /\ UNCHANGED <<papers, collections>>
  BY DEF CutOff, Ends, Free, SettlesAway, Moves, Inv, Shapes, db
<1> QED
  BY <1>1, ReadingIsQuiet

-----------------------------------------------------------------------------

LEMMA InitHolds == Init => Inv
<1> SUFFICES ASSUME Init PROVE Inv
  OBVIOUS
<1>1. Shapes
  BY DEF Init, Shapes, Free
<1>2. Own = {} /\ Collected = {} /\ Waiting("insert") = {} /\ Waiting("begin") = {}
  BY DEF Init, Own, Collected, Waiting, Free
<1>3. Cardinality({}) = 0
  BY FS_EmptySet
<1>4. Cardinality(Calls) \in Nat
  BY Finite
<1>5. /\ Cardinality(Own) = 0 /\ Cardinality(Collected) = 0
      /\ Cardinality(Waiting("insert")) = 0 /\ Cardinality(Waiting("begin")) = 0
  BY <1>2, <1>3, Zenon
<1> QED
  BY <1>1, <1>4, <1>5, LimitsAssumption DEF Inv, PapersBounded, CollectionsBounded

LEMMA NextKeeps ==
  ASSUME Inv, [Next]_vars
  PROVE  Inv'
<1>1. ASSUME NEW c \in Calls, Asks(c) \/ Adds(c) \/ Edits(c) \/ Collects(c) \/ CutOff(c)
      PROVE  Inv'
  BY <1>1, AsksKeeps, AddsKeeps, EditsKeeps, CollectsKeeps, CutOffKeeps
<1>2. CASE UNCHANGED vars
  BY <1>2 DEF vars, db, Inv, Shapes, PapersBounded, CollectionsBounded, Own, Collected, Waiting
<1> QED
  BY <1>1, <1>2 DEF Next

(* The inductive invariant: papers and calls about to insert one together  *)
(* stay within the limit less one plus the calls, and so do collections.   *)
THEOREM InvHolds == Spec => []Inv
<1>1. Inv /\ [Next]_vars => Inv'
  BY NextKeeps
<1> QED
  BY InitHolds, <1>1, PTL DEF Spec

(* The comment of the code is right: the limits are overshot by no more    *)
(* than one for each call made at once, crashes included.                  *)
THEOREM OvershootsHolds == Spec => []OvershootsByOne
<1>1. Inv => OvershootsByOne
  <2> SUFFICES ASSUME Inv PROVE OvershootsByOne
    OBVIOUS
  <2>1. Cardinality(Own) \in Nat /\ Cardinality(Waiting("insert")) \in Nat
    BY Finite, Subsets
  <2>2. Cardinality(Collected) \in Nat /\ Cardinality(Waiting("begin")) \in Nat
    BY Finite, Subsets
  <2> QED
    BY <2>1, <2>2, Finite, LimitsAssumption DEF Inv, PapersBounded, CollectionsBounded, OvershootsByOne
<1> QED
  BY <1>1, InvHolds, PTL

-----------------------------------------------------------------------------
(* Rows, entries and the calls that change them *)

Editing(q) == q.at \in {"compare", "save"}

(* What a call has read and still relies on. *)
GoodCall(q) ==
  /\ q.at = "place" => q.status \in Statuses
  /\ q.at \in {"countNames", "begin", "rename"} => "name" \in DOMAIN q /\ q.name \in Names
  /\ q.at \in {"find", "put"} => q.into \in CollectionIds
  /\ q.at = "put" => q.entry \in EntryIds
  /\ q.at = "read" => q.change \in Changes
  /\ Editing(q) => q.entry \in EntryIds /\ q.row \in Row /\ Checked(q.row)

(* The paper an entry is for never changes, whoever saves it. *)
RefKept(q, table, last) ==
  Editing(q) => q.entry <= last /\ (table[q.entry] # Nil => table[q.entry].ref = q.row.ref)
Agree(p, q) == Editing(p) /\ Editing(q) /\ p.entry = q.entry => p.row.ref = q.row.ref

CallsGood ==
  /\ DOMAIN call = Calls
  /\ \A c \in Calls : "at" \in DOMAIN call[c] /\ GoodCall(call[c]) /\ RefKept(call[c], entries, added)
  /\ \A c, d \in Calls : Agree(call[c], call[d])

RowsTyped == entries \in [EntryIds -> Row \cup {Nil}] /\ added \in Nat
RowsHold ==
  /\ \A e \in EntryIds : e > added => entries[e] = Nil
  /\ \A e \in EntryIds : entries[e] # Nil => Checked(entries[e])
  /\ \A e, g \in EntryIds : entries[e] # Nil /\ entries[g] # Nil /\ entries[e].ref = entries[g].ref => e = g

Shelves ==
  /\ DOMAIN collections = CollectionIds
  /\ items \subseteq CollectionIds \X EntryIds
  /\ \A i \in items : collections[i[1]] # Nil /\ entries[i[2]] # Nil

Kept == CallsGood /\ RowsTyped /\ RowsHold /\ Shelves

-----------------------------------------------------------------------------
(* Parts of a step *)

(* Entries only disappear. *)
Shrinks ==
  /\ DOMAIN entries' = EntryIds /\ added' = added
  /\ entries' \in [EntryIds -> Row \cup {Nil}]
  /\ \A e \in EntryIds : entries'[e] \in {entries[e], Nil}

(* What the others rely on stays true. *)
RefsStay == \A d \in Calls : RefKept(call[d], entries', added')

(* A call goes on with something other than an entry's row. *)
Leaves(c) == Moves(c) /\ GoodCall(call'[c]) /\ ~Editing(call'[c])

LEMMA ShrinksRows ==
  ASSUME RowsTyped, RowsHold, Shrinks
  PROVE  RowsTyped' /\ RowsHold'
<1>1. RowsTyped'
  BY DEF RowsTyped, Shrinks
<1>2. \A e \in EntryIds : entries'[e] # Nil => entries'[e] = entries[e]
  BY DEF Shrinks
<1>3. \A e \in EntryIds : e > added' => entries'[e] = Nil
  BY <1>2 DEF RowsHold, Shrinks
<1>4. \A e \in EntryIds : entries'[e] # Nil => Checked(entries'[e])
  BY <1>2 DEF RowsHold
<1>5. \A e, g \in EntryIds : entries'[e] # Nil /\ entries'[g] # Nil /\ entries'[e].ref = entries'[g].ref => e = g
  BY <1>2 DEF RowsHold
<1> QED
  BY <1>1, <1>3, <1>4, <1>5 DEF RowsHold, Checked

LEMMA ShrinksRefs ==
  ASSUME CallsGood, Shrinks
  PROVE  RefsStay
  BY DEF CallsGood, Shrinks, RefsStay, RefKept, GoodCall, Editing

LEMMA LeavesCalls ==
  ASSUME CallsGood, NEW c \in Calls, Leaves(c), RefsStay
  PROVE  CallsGood'
<1>1. \A d \in Calls : "at" \in DOMAIN call'[d] /\ GoodCall(call'[d])
  BY DEF CallsGood, Leaves, Moves
<1>2. \A d \in Calls : RefKept(call'[d], entries', added')
  BY DEF Leaves, Moves, RefsStay, RefKept
<1>3. \A d, e \in Calls : Agree(call'[d], call'[e])
  BY DEF CallsGood, Leaves, Moves, Agree
<1> QED
  BY <1>1, <1>2, <1>3 DEF CallsGood, Leaves, Moves, GoodCall, RefKept, Agree, Editing, Checked

(* A step that leaves the tables of the library alone. *)
LEMMA LibraryStays ==
  ASSUME Kept, NEW c \in Calls, Leaves(c), UNCHANGED <<entries, added>>, Shelves'
  PROVE  Kept'
<1>1. RefsStay
  BY DEF Kept, CallsGood, RefsStay
<1>2. CallsGood'
  BY <1>1, LeavesCalls DEF Kept
<1>3. RowsTyped' /\ RowsHold'
  BY DEF Kept, RowsTyped, RowsHold, Checked
<1> QED
  BY <1>2, <1>3 DEF Kept

LEMMA NothingStored ==
  ASSUME Kept, NEW c \in Calls, Leaves(c), UNCHANGED <<entries, added, collections, items>>
  PROVE  Kept'
<1>1. Shelves'
  BY DEF Kept, Shelves
<1> QED
  BY <1>1, LibraryStays

(* Entries disappear together with their places in collections. *)
LEMMA ListingShrinks ==
  ASSUME Kept, NEW c \in Calls, Leaves(c), NEW ref, UNCHANGED <<added, collections>>,
         entries' = [e \in EntryIds |-> IF e \in Held(ref) THEN Nil ELSE entries[e]],
         items' = {i \in items : i[2] \notin Held(ref)}
  PROVE  Kept'
<1>1. Shrinks
  BY DEF Kept, RowsTyped, Shrinks
<1>2. RowsTyped' /\ RowsHold'
  BY <1>1, ShrinksRows DEF Kept
<1>3. CallsGood'
  BY <1>1, ShrinksRefs, LeavesCalls DEF Kept
<1>4. Shelves'
  <2>1. items' \subseteq items /\ \A i \in items' : entries'[i[2]] = entries[i[2]]
    BY DEF Kept, Shelves
  <2> QED
    BY <2>1 DEF Kept, Shelves
<1> QED
  BY <1>2, <1>3, <1>4 DEF Kept

(* A call goes on with an entry's row. *)
LEMMA EntersCalls ==
  ASSUME Kept, NEW c \in Calls, Moves(c), GoodCall(call'[c]), UNCHANGED <<entries, added, collections, items>>,
         RefKept(call'[c], entries, added), \A d \in Calls \ {c} : Agree(call'[c], call[d])
  PROVE  Kept'
<1>1. \A d \in Calls : "at" \in DOMAIN call'[d] /\ GoodCall(call'[d])
  BY DEF Kept, CallsGood, Moves
<1>2. \A d \in Calls : RefKept(call'[d], entries', added')
  BY DEF Kept, CallsGood, Moves, RefKept
<1>3. \A d, e \in Calls : Agree(call'[d], call'[e])
  BY DEF Kept, CallsGood, Moves, Agree
<1>4. CallsGood'
  BY <1>1, <1>2, <1>3 DEF CallsGood, Moves, GoodCall, RefKept, Agree, Editing, Checked
<1>5. RowsTyped' /\ RowsHold' /\ Shelves'
  BY DEF Kept, RowsTyped, RowsHold, Checked, Shelves
<1> QED
  BY <1>4, <1>5 DEF Kept

(* Row r is written to entry e, which was for the same paper or, like      *)
(* every other entry, for none.                                            *)
LEMMA Stores ==
  ASSUME Kept, NEW c \in Calls, Leaves(c), UNCHANGED <<collections, items>>,
         NEW e \in EntryIds, NEW r \in Row, Checked(r),
         added' \in Nat, added' >= added, e <= added',
         entries' = [entries EXCEPT ![e] = r],
         entries[e] # Nil => r.ref = entries[e].ref,
         entries[e] = Nil => Held(r.ref) = {},
         \A d \in Calls : Editing(call[d]) /\ call[d].entry = e => call[d].row.ref = r.ref
  PROVE  Kept'
<1>0. r # Nil
  BY ValuesAssumption
<1>1. RowsTyped'
  BY DEF Kept, RowsTyped
<1>2. entries'[e] = r /\ \A g \in EntryIds \ {e} : entries'[g] = entries[g]
  BY DEF Kept, RowsTyped
<1>3. \A g \in EntryIds : g > added' => entries'[g] = Nil
  BY <1>2 DEF Kept, RowsTyped, RowsHold, EntryIds
<1>4. \A g \in EntryIds : entries'[g] # Nil => Checked(entries'[g])
  BY <1>2 DEF Kept, RowsHold
<1>5. \A g \in EntryIds \ {e} : entries[g] # Nil => entries[g].ref # r.ref
  BY DEF Kept, RowsHold, Held
<1>6. \A g, h \in EntryIds : entries'[g] # Nil /\ entries'[h] # Nil /\ entries'[g].ref = entries'[h].ref => g = h
  BY <1>2, <1>5 DEF Kept, RowsHold
<1>7. RowsHold'
  BY <1>3, <1>4, <1>6 DEF RowsHold, Checked
<1>8. RefsStay
  <2> SUFFICES ASSUME NEW d \in Calls, Editing(call[d])
               PROVE  /\ call[d].entry <= added'
                      /\ entries'[call[d].entry] # Nil => entries'[call[d].entry].ref = call[d].row.ref
    BY DEF RefsStay, RefKept
  <2>1. call[d].entry \in EntryIds /\ call[d].entry <= added
    BY DEF Kept, CallsGood, GoodCall, RefKept
  <2>2. entries[call[d].entry] # Nil => entries[call[d].entry].ref = call[d].row.ref
    BY DEF Kept, CallsGood, RefKept
  <2> QED
    BY <1>2, <2>1, <2>2 DEF Kept, RowsTyped, EntryIds
<1>9. CallsGood'
  BY <1>8, LeavesCalls DEF Kept
<1>10. Shelves'
  BY <1>0, <1>2 DEF Kept, Shelves
<1> QED
  BY <1>1, <1>7, <1>9, <1>10 DEF Kept

(* What a PATCH makes of a row is a row of the same paper, with a day of   *)
(* completion only if it is read.                                          *)
LEMMA ChangedRow ==
  ASSUME NEW row \in Row, NEW change \in Changes
  PROVE  Changed(row, change) \in Row /\ Changed(row, change).ref = row.ref /\ Checked(Changed(row, change))
<1> DEFINE status == IF change.status = Same THEN row.status ELSE change.status
           tags == IF change.tags = Same THEN row.tags ELSE change.tags
<1>1. /\ change.status \in Statuses \cup {Same} /\ change.completedAt \in Days \cup {Nil, Same}
      /\ change.tags \in BOOLEAN \cup {Same}
  BY ValuesAssumption
<1>2. row = [ref |-> row.ref, status |-> row.status, completedAt |-> row.completedAt, tags |-> row.tags]
      /\ row.ref \in Refs /\ row.status \in Statuses /\ row.completedAt \in Days \cup {Nil} /\ row.tags \in BOOLEAN
  BY DEF Row
<1>3. status \in Statuses /\ tags \in BOOLEAN
  BY <1>1, <1>2
<1>4. Completed(row, status, change) \in Days \cup {Nil} /\ (status # "read" => Completed(row, status, change) = Nil)
  BY <1>1, <1>2, ValuesAssumption DEF Completed
<1>a. Changed(row, change) =
        [row EXCEPT !.status = status, !.completedAt = Completed(row, status, change), !.tags = tags]
  BY Zenon DEF Changed
<1> HIDE DEF status, tags
<1>5. Changed(row, change) =
        [ref |-> row.ref, status |-> status, completedAt |-> Completed(row, status, change), tags |-> tags]
  BY <1>a, <1>2
<1> QED
  BY <1>2, <1>3, <1>4, <1>5 DEF Row, Checked

-----------------------------------------------------------------------------
(* The actions *)

LEMMA RequestKept ==
  ASSUME Kept, NEW c \in Calls, NEW first, "at" \in DOMAIN first, GoodCall(first), ~Editing(first), Request(c, first)
  PROVE  Kept'
<1>1. Leaves(c) /\ UNCHANGED <<entries, added, collections, items>>
  BY DEF Request, Leaves, Moves, Kept, CallsGood, db
<1> QED
  BY <1>1, NothingStored

LEMMA PlaceIsGood ==
  ASSUME NEW ref, NEW status \in Statuses
  PROVE  LET q == [Place(ref) EXCEPT !.status = status]
         IN  "at" \in DOMAIN q /\ GoodCall(q) /\ ~Editing(q) /\ GoodCall(Place(ref)) /\ ~Editing(Place(ref))
  BY DEF Place, GoodCall, Editing, Statuses

LEMMA AsksKept ==
  ASSUME Kept, NEW c \in Calls, Asks(c)
  PROVE  Kept'
<1>1. ASSUME NEW slug \in Public, NEW status \in Statuses, AddPublic(c, slug, status) PROVE Kept'
  BY <1>1, PlaceIsGood, RequestKept DEF AddPublic
<1>2. ASSUME NEW w \in Works, Drop(c, w) PROVE Kept'
  BY <1>2, RequestKept DEF Drop, GoodCall, Editing
<1>3. ASSUME NEW w \in Works, Import(c, w) \/ CreateManual(c, w) PROVE Kept'
  BY <1>3, RequestKept DEF Import, CreateManual, Place, GoodCall, Editing, Statuses
<1>4. ASSUME NEW ref \in Refs, Remove(c, ref) PROVE Kept'
  BY <1>4, RequestKept DEF Remove, GoodCall, Editing
<1>5. ASSUME NEW ref \in Refs, NEW change \in Changes, Update(c, ref, change) PROVE Kept'
  BY <1>5, RequestKept DEF Update, GoodCall, Editing
<1>6. ASSUME NEW ref \in Refs, NEW k \in CollectionIds, Collect(c, ref, k) \/ Take(c, ref, k) PROVE Kept'
  BY <1>6, RequestKept DEF Collect, Take, GoodCall, Editing
<1>7. ASSUME NEW name \in Names, CreateCollection(c, name) PROVE Kept'
  BY <1>7, RequestKept DEF CreateCollection, GoodCall, Editing
<1>8. ASSUME NEW name \in Names, NEW k \in CollectionIds, Rename(c, k, name) PROVE Kept'
  BY <1>8, RequestKept DEF Rename, GoodCall, Editing
<1>9. ASSUME NEW k \in CollectionIds, RemoveCollection(c, k) PROVE Kept'
  BY <1>9, RequestKept DEF RemoveCollection, GoodCall, Editing
<1> QED
  BY <1>1, <1>2, <1>3, <1>4, <1>5, <1>6, <1>7, <1>8, <1>9 DEF Asks

(* An entry is made for a paper that has none, and nobody edits it yet. *)
LEMMA AddRefKept ==
  ASSUME Kept, NEW c \in Calls, AddRef(c)
  PROVE  Kept'
<1>1. Leaves(c) /\ UNCHANGED <<collections, items>>
  BY DEF AddRef, Ends, Free, KeepCollections, Leaves, Moves, GoodCall, Editing, Kept, CallsGood
<1>2. CASE Held(call[c].ref) = {} /\ Reachable(call[c].ref)
  <2> DEFINE r == [ref |-> call[c].ref, status |-> call[c].status, tags |-> FALSE,
                   completedAt |-> IF call[c].status = "read" THEN Today ELSE Nil]
  <2>1. added' = added + 1 /\ added < MaxEntries /\ entries' = [entries EXCEPT ![added + 1] = r]
    BY <1>2 DEF AddRef
  <2>2. call[c].status \in Statuses /\ call[c].ref \in Refs
    BY <1>2 DEF AddRef, Kept, CallsGood, GoodCall, Reachable, Refs, Own
  <2>3. r \in Row
    <3>1. (IF call[c].status = "read" THEN Today ELSE Nil) \in Days \cup {Nil} /\ FALSE \in BOOLEAN
      BY ValuesAssumption
    <3> QED
      BY <2>2, <3>1 DEF Row
  <2>4. Checked(r)
    BY DEF Checked
  <2>5. r.ref = call[c].ref
    OBVIOUS
  <2> HIDE DEF r
  <2>6. added \in Nat /\ MaxEntries \in Nat
    BY LimitsAssumption DEF Kept, RowsTyped
  <2>7. added + 1 \in EntryIds /\ entries[added + 1] = Nil
    BY <2>1, <2>6 DEF Kept, RowsHold, EntryIds
  <2>8. \A d \in Calls : Editing(call[d]) => call[d].entry # added + 1
    BY <2>6 DEF Kept, CallsGood, GoodCall, RefKept, EntryIds
  <2>9. /\ added' \in Nat /\ added' >= added /\ added + 1 <= added'
        /\ entries' = [entries EXCEPT ![added + 1] = r]
    BY <2>1, <2>6
  <2>10. Held(r.ref) = {}
    BY <1>2, <2>5
  <2> QED
    BY <1>1, <2>3, <2>4, <2>7, <2>8, <2>9, <2>10, Stores
<1>3. CASE ~(Held(call[c].ref) = {} /\ Reachable(call[c].ref))
  <2>1. UNCHANGED <<entries, added>>
    BY <1>3 DEF AddRef
  <2> QED
    BY <1>1, <2>1, NothingStored
<1> QED
  BY <1>2, <1>3

LEMMA DeletingKept ==
  ASSUME Kept, NEW c \in Calls, NEW ref, Leaves(c), DeletePaper(ref)
  PROVE  Kept'
  BY ListingShrinks DEF DeletePaper

LEMMA AddsKept ==
  ASSUME Kept, NEW c \in Calls, Adds(c)
  PROVE  Kept'
<1>1. CASE Known(c) \/ Count(c) \/ Uploaded(c) \/ Refused(c)
  <2>1. Leaves(c)
    BY <1>1 DEF Known, Count, Uploaded, Refused, Goes, Ends, Free, Place, Leaves, Moves, GoodCall, Editing,
       Statuses, Kept, CallsGood
  <2>2. UNCHANGED <<entries, added, collections, items>>
    BY <1>1 DEF Known, Count, Uploaded, Refused, db
  <2> QED
    BY <2>1, <2>2, NothingStored
<1>2. CASE SaveDropped(c) \/ AddPrivate(c)
  <2>1. Leaves(c)
    BY <1>2 DEF SaveDropped, AddPrivate, Ends, Free, Place, Leaves, Moves, GoodCall, Editing, Statuses, Kept, CallsGood
  <2>2. UNCHANGED <<entries, added, collections, items>>
    BY <1>2 DEF SaveDropped, AddPrivate, KeepCollections
  <2> QED
    BY <2>1, <2>2, NothingStored
<1>3. CASE Undo(c)
  <2>1. Leaves(c)
    BY <1>3 DEF Undo, Ends, Free, Leaves, Moves, GoodCall, Editing, Kept, CallsGood
  <2> QED
    BY <1>3, <2>1, DeletingKept DEF Undo
<1>4. CASE AddRef(c)
  BY <1>4, AddRefKept
<1> QED
  BY <1>1, <1>2, <1>3, <1>4 DEF Adds

LEMMA ReadEntryKept ==
  ASSUME Kept, NEW c \in Calls, ReadEntry(c)
  PROVE  Kept'
<1>1. UNCHANGED <<entries, added, collections, items>>
  BY DEF ReadEntry, db
<1>2. CASE Ends(c)
  <2>1. Leaves(c)
    BY <1>2 DEF Ends, Free, Leaves, Moves, GoodCall, Editing, Kept, CallsGood
  <2> QED
    BY <1>1, <2>1, NothingStored
<1>3. CASE ~Ends(c)
  <2>1. PICK e \in Held(call[c].ref) :
          call' = [call EXCEPT ![c] = [at |-> "compare", entry |-> e, row |-> Changed(entries[e], call[c].change)]]
    BY <1>3 DEF ReadEntry
  <2>2. e \in EntryIds /\ entries[e] # Nil /\ entries[e] \in Row /\ call[c].change \in Changes
    BY DEF Held, ReadEntry, Kept, RowsTyped, CallsGood, GoodCall
  <2> DEFINE r == Changed(entries[e], call[c].change)
  <2>3. r \in Row /\ r.ref = entries[e].ref /\ Checked(r)
    BY <2>2, ChangedRow
  <2> HIDE DEF r
  <2>4. call' = [call EXCEPT ![c] = [at |-> "compare", entry |-> e, row |-> r]]
    BY <2>1 DEF r
  <2>5. Moves(c) /\ GoodCall(call'[c]) /\ call'[c].entry = e /\ call'[c].row = r
    BY <2>2, <2>3, <2>4 DEF Moves, GoodCall, Editing, Kept, CallsGood
  <2>6. e <= added
    BY <2>2 DEF Kept, RowsTyped, RowsHold, EntryIds
  <2>7. RefKept(call'[c], entries, added)
    BY <2>3, <2>5, <2>6 DEF RefKept
  <2>8. \A d \in Calls \ {c} : Agree(call'[c], call[d])
    BY <2>2, <2>3, <2>5 DEF Agree, Kept, CallsGood, RefKept
  <2> QED
    BY <1>1, <2>5, <2>7, <2>8, EntersCalls
<1> QED
  BY <1>2, <1>3

LEMMA CompareKept ==
  ASSUME Kept, NEW c \in Calls, Compare(c)
  PROVE  Kept'
<1>1. UNCHANGED <<entries, added, collections, items>>
  BY DEF Compare, db
<1>2. Editing(call[c]) /\ Editing(call'[c]) /\ call'[c].entry = call[c].entry /\ call'[c].row = call[c].row
  BY DEF Compare, Editing, Kept, CallsGood
<1>3. Moves(c)
  BY DEF Compare, Moves, Kept, CallsGood
<1>4. call'[c].at = "save"
  BY DEF Compare, Kept, CallsGood
<1>5. GoodCall(call'[c])
  BY <1>2, <1>4 DEF GoodCall, Kept, CallsGood
<1>6. RefKept(call'[c], entries, added) /\ \A d \in Calls \ {c} : Agree(call'[c], call[d])
  BY <1>2 DEF RefKept, Agree, Kept, CallsGood
<1> QED
  BY <1>1, <1>3, <1>5, <1>6, EntersCalls

(* What is saved of a row: the columns that differed. *)
Merged(row, now, differs) == [f \in DOMAIN row |-> IF f \in differs THEN row[f] ELSE now[f]]

(* Columns of two rows of one paper make a row of that paper. *)
LEMMA MergedRow ==
  ASSUME NEW row \in Row, NEW now \in Row, now.ref = row.ref, NEW differs
  PROVE  Merged(row, now, differs) \in Row /\ Merged(row, now, differs).ref = row.ref
<1> DEFINE merged == Merged(row, now, differs)
<1>1. DOMAIN row = {"ref", "status", "completedAt", "tags"}
  BY DEF Row
<1>2. /\ merged.ref \in {row.ref, now.ref} /\ merged.status \in {row.status, now.status}
      /\ merged.completedAt \in {row.completedAt, now.completedAt} /\ merged.tags \in {row.tags, now.tags}
      /\ merged = [ref |-> merged.ref, status |-> merged.status, completedAt |-> merged.completedAt, tags |-> merged.tags]
  BY <1>1 DEF Merged
<1>3. /\ row.ref \in Refs /\ row.status \in Statuses /\ row.completedAt \in Days \cup {Nil} /\ row.tags \in BOOLEAN
      /\ now.ref \in Refs /\ now.status \in Statuses /\ now.completedAt \in Days \cup {Nil} /\ now.tags \in BOOLEAN
  BY DEF Row
<1> HIDE DEF merged
<1>4. merged \in Row /\ merged.ref = row.ref
  BY <1>2, <1>3 DEF Row
<1> QED
  BY <1>4 DEF merged

LEMMA SaveKept ==
  ASSUME Kept, NEW c \in Calls, Save(c)
  PROVE  Kept'
<1> DEFINE e == call[c].entry
           row == call[c].row
           merged == Merged(row, entries[e], call[c].differs)
<1>1. Leaves(c) /\ UNCHANGED <<collections, items>> /\ added' = added
  BY DEF Save, Ends, Free, KeepCollections, Leaves, Moves, GoodCall, Editing, Kept, CallsGood
<1>2. Editing(call[c]) /\ e \in EntryIds /\ row \in Row /\ Checked(row) /\ e <= added /\ added \in Nat
  BY DEF Save, Editing, Kept, CallsGood, GoodCall, RefKept, RowsTyped
<1>3. \A d \in Calls : Editing(call[d]) /\ call[d].entry = e => call[d].row.ref = row.ref
  BY <1>2 DEF Kept, CallsGood, Agree
<1>4. \/ entries' = entries
      \/ entries' = [entries EXCEPT ![e] = row] /\ entries[e] = Nil /\ Held(row.ref) = {}
      \/ entries' = [entries EXCEPT ![e] = merged] /\ entries[e] # Nil /\ Checked(merged)
  BY DEF Save, Merged
<1>5. CASE entries' = entries
  BY <1>1, <1>5, NothingStored
<1>6. CASE entries' = [entries EXCEPT ![e] = row] /\ entries[e] = Nil /\ Held(row.ref) = {}
  <2> HIDE DEF e, row
  <2>1. added' \in Nat /\ added' >= added /\ e <= added'
    BY <1>1, <1>2
  <2> QED
    BY <1>1, <1>2, <1>3, <1>6, <2>1, Stores
<1>7. CASE entries' = [entries EXCEPT ![e] = merged] /\ entries[e] # Nil /\ Checked(merged)
  <2>1. entries[e] \in Row /\ entries[e].ref = row.ref
    BY <1>2, <1>7 DEF Kept, RowsTyped, CallsGood, RefKept
  <2>4. merged \in Row /\ merged.ref = row.ref
    BY <1>2, <2>1, MergedRow
  <2> HIDE DEF merged, row, e
  <2>5. added' \in Nat /\ added' >= added /\ e <= added'
    BY <1>1, <1>2
  <2>6. /\ entries[e] # Nil => merged.ref = entries[e].ref
        /\ \A d \in Calls : Editing(call[d]) /\ call[d].entry = e => call[d].row.ref = merged.ref
    BY <1>3, <2>1, <2>4
  <2> QED
    BY <1>1, <1>2, <1>7, <2>4, <2>5, <2>6, Stores
<1> QED
  BY <1>4, <1>5, <1>6, <1>7

LEMMA EditsKept ==
  ASSUME Kept, NEW c \in Calls, Edits(c)
  PROVE  Kept'
<1>1. CASE Unlist(c)
  <2>1. Leaves(c)
    BY <1>1 DEF Unlist, Ends, Goes, Free, Leaves, Moves, GoodCall, Editing, Kept, CallsGood
  <2> QED
    BY <1>1, <2>1, ListingShrinks DEF Unlist
<1>2. CASE DeleteOwn(c)
  <2>1. Leaves(c)
    BY <1>2 DEF DeleteOwn, Ends, Free, Leaves, Moves, GoodCall, Editing, Kept, CallsGood
  <2> QED
    BY <1>2, <2>1, DeletingKept DEF DeleteOwn
<1> QED
  BY <1>1, <1>2, ReadEntryKept, CompareKept, SaveKept DEF Edits

LEMMA CollectsKept ==
  ASSUME Kept, NEW c \in Calls, Collects(c)
  PROVE  Kept'
<1>0. \A name \in Names : name # Nil
  BY ValuesAssumption
<1>1. CASE CountCollections(c)
  <2>1. Leaves(c)
    BY <1>1 DEF CountCollections, Ends, Goes, Free, Leaves, Moves, GoodCall, Editing, Kept, CallsGood
  <2>2. UNCHANGED <<entries, added, collections, items>>
    BY <1>1 DEF CountCollections, db
  <2> QED
    BY <2>1, <2>2, NothingStored
<1>2. CASE FindEntry(c)
  <2>1. Leaves(c)
    BY <1>2 DEF FindEntry, Ends, Free, Leaves, Moves, GoodCall, Editing, Held, Kept, CallsGood
  <2>2. UNCHANGED <<entries, added, collections, items>>
    BY <1>2 DEF FindEntry, db
  <2> QED
    BY <2>1, <2>2, NothingStored
<1>3. CASE InsertCollection(c) \/ SaveName(c) \/ DeleteCollection(c) \/ PutItem(c) \/ TakeItem(c)
  <2>1. Leaves(c) /\ UNCHANGED <<entries, added>>
    BY <1>3 DEF InsertCollection, SaveName, DeleteCollection, PutItem, TakeItem, KeepLibrary, Ends, Free, Leaves, Moves,
       GoodCall, Editing, Kept, CallsGood
  <2>2. CASE InsertCollection(c)
    <3>1. call[c].name \in Names /\ items' = items
      BY <2>2 DEF InsertCollection, Kept, CallsGood, GoodCall
    <3>2. DOMAIN collections' = CollectionIds /\ \A k \in CollectionIds : collections[k] # Nil => collections'[k] # Nil
      BY <1>0, <2>2, <3>1 DEF InsertCollection, Kept, Shelves
    <3>3. Shelves'
      BY <2>1, <3>1, <3>2 DEF Kept, Shelves
    <3> QED
      BY <2>1, <3>3, LibraryStays
  <2>3. CASE SaveName(c)
    <3>1. call[c].name \in Names /\ items' = items
      BY <2>3 DEF SaveName, Kept, CallsGood, GoodCall
    <3>2. DOMAIN collections' = CollectionIds /\ \A k \in CollectionIds : collections[k] # Nil => collections'[k] # Nil
      BY <1>0, <2>3, <3>1 DEF SaveName, Kept, Shelves
    <3>3. Shelves'
      BY <2>1, <3>1, <3>2 DEF Kept, Shelves
    <3> QED
      BY <2>1, <3>3, LibraryStays
  <2>4. CASE DeleteCollection(c)
    <3>1. Shelves'
      BY <2>1, <2>4 DEF DeleteCollection, Kept, Shelves
    <3> QED
      BY <2>1, <3>1, LibraryStays
  <2>5. CASE PutItem(c)
    <3>1. call[c].into \in CollectionIds /\ call[c].entry \in EntryIds /\ collections' = collections
      BY <2>5 DEF PutItem, Kept, CallsGood, GoodCall
    <3>2. \/ items' = items
          \/ items' = items \cup {<<call[c].into, call[c].entry>>} /\ Fits(call[c].into, call[c].entry)
      BY <2>5 DEF PutItem
    <3>3. Shelves'
      BY <2>1, <3>1, <3>2 DEF Fits, Kept, Shelves
    <3> QED
      BY <2>1, <3>3, LibraryStays
  <2>6. CASE TakeItem(c)
    <3>1. items' \subseteq items /\ collections' = collections
      BY <2>6 DEF TakeItem
    <3>2. Shelves'
      BY <2>1, <3>1 DEF Kept, Shelves
    <3> QED
      BY <2>1, <3>2, LibraryStays
  <2> QED
    BY <1>3, <2>2, <2>3, <2>4, <2>5, <2>6
<1> QED
  BY <1>1, <1>2, <1>3 DEF Collects

LEMMA CutOffKept ==
  ASSUME Kept, NEW c \in Calls, CutOff(c)
  PROVE  Kept'
<1>1. Leaves(c) /\ UNCHANGED <<entries, added, collections, items>>
  BY DEF CutOff, Ends, Free, Leaves, Moves, GoodCall, Editing, Kept, CallsGood, db
<1> QED
  BY <1>1, NothingStored

LEMMA NextKept ==
  ASSUME Kept, [Next]_vars
  PROVE  Kept'
<1>1. ASSUME NEW c \in Calls, Asks(c) \/ Adds(c) \/ Edits(c) \/ Collects(c) \/ CutOff(c)
      PROVE  Kept'
  BY <1>1, AsksKept, AddsKept, EditsKept, CollectsKept, CutOffKept
<1>2. CASE UNCHANGED vars
  <2>1. RowsTyped' /\ RowsHold' /\ Shelves'
    BY <1>2 DEF vars, db, Kept, RowsTyped, RowsHold, Shelves, Checked
  <2>2. CallsGood'
    BY <1>2 DEF vars, db, Kept, CallsGood, GoodCall, RefKept, Agree, Editing, Checked
  <2> QED
    BY <2>1, <2>2 DEF Kept
<1> QED
  BY <1>1, <1>2 DEF Next

LEMMA InitKept == Init => Kept
<1> SUFFICES ASSUME Init PROVE Kept
  OBVIOUS
<1>1. CallsGood
  BY DEF Init, CallsGood, GoodCall, RefKept, Agree, Editing, Free
<1>2. RowsTyped /\ RowsHold
  BY DEF Init, RowsTyped, RowsHold
<1>3. Shelves
  BY DEF Init, Shelves
<1> QED
  BY <1>1, <1>2, <1>3 DEF Kept

(* The inductive invariant: rows keep their paper, whoever read them       *)
(* before, and every call that will save one agrees on which that is.      *)
THEOREM KeptHolds == Spec => []Kept
<1>1. Kept /\ [Next]_vars => Kept'
  BY NextKept
<1> QED
  BY InitKept, <1>1, PTL DEF Spec

(* However changes, removals and additions overlap, a paper is listed      *)
(* once, a day of completion goes with "read" and collections hold what is *)
(* in the library.                                                         *)
THEOREM LibraryStaysWhole == Spec => []LibraryHolds
<1>1. Kept => LibraryHolds
  BY DEF Kept, RowsHold, Checked, Shelves, LibraryHolds
<1> QED
  BY <1>1, KeptHolds, PTL

-----------------------------------------------------------------------------
(* No paper is made twice *)

PapersMade ==
  /\ DOMAIN papers = Ids /\ made \in Nat
  /\ \A p \in Ids : p > made => papers[p] = Nil
  /\ AddedOnce

LEMMA PapersOnlyGo ==
  ASSUME PapersMade, made' = made, DOMAIN papers' = Ids, \A p \in Ids : papers'[p] \in {papers[p], Nil}
  PROVE  PapersMade'
  BY DEF PapersMade, AddedOnce, Own

(* The last row is the only one an insert can make a second of, and the    *)
(* lock has just found none like it.                                       *)
LEMMA InsertOnce ==
  ASSUME PapersMade, NEW c \in Calls, InsertPaper(c),
         call[c].how # "drop" => Found(call[c].work) = {}
  PROVE  PapersMade'
<1> DEFINE w == call[c].work
           new == [doi |-> w.doi, print |-> w.print, how |-> call[c].how]
<1>1. made \in Nat /\ made' = made + 1 /\ papers' = [papers EXCEPT ![made + 1] = new] /\ DOMAIN papers = Ids
  BY DEF InsertPaper, PapersMade
<1>2. made + 1 \in Ids
  BY <1>1, LimitsAssumption DEF InsertPaper, Ids
<1>3. papers'[made + 1] = new /\ \A p \in Ids \ {made + 1} : papers'[p] = papers[p]
  BY <1>1, <1>2
<1>4. \A p \in Ids : p > made' => papers'[p] = Nil
  BY <1>1, <1>3 DEF PapersMade, Ids
<1>5. \A p \in Own : p <= made
  BY <1>1 DEF Own, PapersMade, Ids
<1>6. ASSUME NEW p \in Own, call[c].how # "drop", papers[p].doi = w.doi
      PROVE  papers[p].doi = Nil /\ papers[p].print # w.print
  BY <1>6 DEF Found, Duplicates
<1>7. ASSUME NEW p \in Own', NEW r \in Own', p < r, papers'[r].how # "drop", papers'[p].doi = papers'[r].doi
      PROVE  papers'[p].doi = Nil /\ papers'[p].print # papers'[r].print
  <2>1. p \in Ids /\ r \in Ids /\ p \in Int /\ r \in Int
    BY DEF Own, Ids
  <2>2. r <= made + 1
    BY <1>1, <1>4, <2>1 DEF Own
  <2>3. p # made + 1 /\ p \in Own /\ papers'[p] = papers[p]
    BY <1>1, <1>3, <1>7, <2>1, <2>2 DEF Own
  <2>4. CASE r = made + 1
    BY <1>3, <1>6, <1>7, <2>3, <2>4
  <2>5. CASE r # made + 1
    BY <1>3, <1>7, <2>1, <2>3, <2>5 DEF Own, PapersMade, AddedOnce
  <2> QED
    BY <2>4, <2>5
<1> QED
  BY <1>1, <1>4, <1>7 DEF PapersMade, AddedOnce

LEMMA PapersMadeKept ==
  ASSUME PapersMade, [Next]_vars
  PROVE  PapersMade'
<1>1. CASE UNCHANGED <<papers, made>>
  BY <1>1, PapersOnlyGo DEF PapersMade
<1>2. ASSUME NEW ref, DeletePaper(ref) PROVE PapersMade'
  BY <1>2, PapersOnlyGo DEF DeletePaper, PapersMade
<1>3. ASSUME NEW c \in Calls, Asks(c) PROVE UNCHANGED <<papers, made>>
  BY <1>3 DEF Asks, AddPublic, Drop, Import, CreateManual, Remove, Update, Collect, Take, CreateCollection, Rename,
     RemoveCollection, Request, db
<1>4. ASSUME NEW c \in Calls, Collects(c) \/ CutOff(c) PROVE UNCHANGED <<papers, made>>
  BY <1>4 DEF Collects, CountCollections, InsertCollection, SaveName, DeleteCollection, FindEntry, PutItem, TakeItem,
     KeepLibrary, CutOff, db
<1>5. ASSUME NEW c \in Calls, Edits(c) PROVE PapersMade'
  <2>1. CASE DeleteOwn(c)
    BY <1>2, <2>1 DEF DeleteOwn
  <2>2. CASE ReadEntry(c) \/ Compare(c) \/ Save(c) \/ Unlist(c)
    BY <1>1, <2>2 DEF ReadEntry, Compare, Save, Unlist, db
  <2> QED
    BY <1>5, <2>1, <2>2 DEF Edits
<1>6. ASSUME NEW c \in Calls, Adds(c) PROVE PapersMade'
  <2>1. CASE Undo(c)
    BY <1>2, <2>1 DEF Undo
  <2>2. CASE SaveDropped(c)
    BY <2>2, InsertOnce DEF SaveDropped
  <2>3. CASE AddPrivate(c)
    <3>1. CASE Found(call[c].work) = {}
      BY <2>3, <3>1, InsertOnce DEF AddPrivate
    <3>2. CASE Found(call[c].work) # {}
      BY <1>1, <2>3, <3>2 DEF AddPrivate
    <3> QED
      BY <3>1, <3>2
  <2>4. CASE Known(c) \/ Count(c) \/ Uploaded(c) \/ Refused(c) \/ AddRef(c)
    BY <1>1, <2>4 DEF Known, Count, Uploaded, Refused, AddRef, db
  <2> QED
    BY <1>6, <2>1, <2>2, <2>3, <2>4 DEF Adds
<1>7. CASE UNCHANGED vars
  BY <1>1, <1>7 DEF vars, db
<1> QED
  BY <1>1, <1>3, <1>4, <1>5, <1>6, <1>7 DEF Next

(* Under the lock of a reader's adds two imports of a paper, or two        *)
(* entries by hand, never make it twice; only a dropped PDF may.           *)
THEOREM AddedOnceHolds == Spec => []AddedOnce
<1>1. Init => PapersMade
  BY DEF Init, PapersMade, AddedOnce, Own
<1>2. PapersMade /\ [Next]_vars => PapersMade'
  BY PapersMadeKept
<1>3. PapersMade => AddedOnce
  BY DEF PapersMade
<1> QED
  BY <1>1, <1>2, <1>3, PTL DEF Spec

-----------------------------------------------------------------------------
(* No paper is hidden from its owner *)

(* The call is about to list or to delete p. *)
Cares(q, p) == q.at \in {"upload", "undo", "place", "delete"} /\ q.ref = p
Seen(p) == Held(p) # {} \/ \E c \in Calls : Cares(call[c], p)

(* Only a call that was cut off forgets a paper. *)
Listed ==
  /\ crashes \in Nat
  /\ \A c \in Calls : call[c].at \in {"upload", "unlist"} => "ref" \in DOMAIN call[c]
  /\ crashes = 0 => \A p \in Own : Seen(p)

(* Of the papers there are after a step of call c, each that was listed or *)
(* that c cared for is listed, or c cares for it.                          *)
Carries(c) ==
  /\ Moves(c) /\ crashes' = crashes
  /\ call'[c].at \in {"upload", "unlist"} => "ref" \in DOMAIN call'[c]
  /\ \A p \in Own' :
       \/ p \in Own /\ Held(p) = {} /\ ~Cares(call[c], p)
       \/ Held(p)' # {}
       \/ Cares(call'[c], p)

LEMMA CarriesListed ==
  ASSUME Listed, NEW c \in Calls, Carries(c)
  PROVE  Listed'
<1>1. \A d \in Calls : call'[d].at \in {"upload", "unlist"} => "ref" \in DOMAIN call'[d]
  BY DEF Listed, Carries, Moves
<1>2. ASSUME crashes' = 0, NEW p \in Own', Held(p)' = {}
      PROVE  \E d \in Calls : Cares(call'[d], p)
  <2>1. CASE Cares(call'[c], p)
    BY <2>1
  <2>2. CASE p \in Own /\ Held(p) = {} /\ ~Cares(call[c], p)
    <3>1. PICK d \in Calls : Cares(call[d], p)
      BY <1>2, <2>2 DEF Listed, Seen, Carries
    <3>2. call'[d] = call[d]
      BY <2>2, <3>1 DEF Carries, Moves
    <3> QED
      BY <3>1, <3>2
  <2> QED
    BY <1>2, <2>1, <2>2 DEF Carries
<1>3. crashes' = 0 => \A p \in Own' : Seen(p)'
  BY <1>2 DEF Seen, Cares
<1> QED
  BY <1>1, <1>3 DEF Listed, Carries

(* A step of a call that cares for nothing, and stores nothing. *)
LEMMA Careless ==
  ASSUME Listed, NEW c \in Calls, Moves(c), UNCHANGED <<papers, entries, crashes>>,
         call[c].at \notin {"upload", "undo", "place", "delete"},
         call'[c].at \in {"upload", "unlist"} => "ref" \in DOMAIN call'[c]
  PROVE  Listed'
<1>1. Own' = Own /\ \A p : Held(p)' = Held(p)
  BY DEF Own, Held
<1>2. Carries(c)
  BY <1>1 DEF Carries, Cares
<1> QED
  BY <1>2, CarriesListed

LEMMA RequestListed ==
  ASSUME Kept, Listed, NEW c \in Calls, NEW first, "at" \in DOMAIN first, Request(c, first),
         first.at \in {"upload", "unlist"} => "ref" \in DOMAIN first
  PROVE  Listed'
<1>1. Moves(c) /\ UNCHANGED <<papers, entries, crashes>> /\ call[c].at = "free" /\ call'[c] = first
  BY DEF Request, Moves, Kept, CallsGood, db
<1> QED
  BY <1>1, Careless

LEMMA AsksListed ==
  ASSUME Kept, Listed, NEW c \in Calls, Asks(c)
  PROVE  Listed'
<1>1. ASSUME NEW slug \in Public, NEW status \in Statuses, AddPublic(c, slug, status) PROVE Listed'
  BY <1>1, RequestListed DEF AddPublic, Place
<1>2. ASSUME NEW w \in Works, Drop(c, w) PROVE Listed'
  BY <1>2, RequestListed DEF Drop
<1>3. ASSUME NEW w \in Works, Import(c, w) \/ CreateManual(c, w) PROVE Listed'
  BY <1>3, RequestListed DEF Import, CreateManual, Place
<1>4. ASSUME NEW ref \in Refs, Remove(c, ref) PROVE Listed'
  BY <1>4, RequestListed DEF Remove
<1>5. ASSUME NEW ref \in Refs, NEW change \in Changes, Update(c, ref, change) PROVE Listed'
  BY <1>5, RequestListed DEF Update
<1>6. ASSUME NEW ref \in Refs, NEW k \in CollectionIds, Collect(c, ref, k) \/ Take(c, ref, k) PROVE Listed'
  BY <1>6, RequestListed DEF Collect, Take
<1>7. ASSUME NEW name \in Names, CreateCollection(c, name) PROVE Listed'
  BY <1>7, RequestListed DEF CreateCollection
<1>8. ASSUME NEW name \in Names, NEW k \in CollectionIds, Rename(c, k, name) PROVE Listed'
  BY <1>8, RequestListed DEF Rename
<1>9. ASSUME NEW k \in CollectionIds, RemoveCollection(c, k) PROVE Listed'
  BY <1>9, RequestListed DEF RemoveCollection
<1> QED
  BY <1>1, <1>2, <1>3, <1>4, <1>5, <1>6, <1>7, <1>8, <1>9 DEF Asks

(* Deleting a paper takes nothing but that paper off the list. *)
LEMMA DeletingListed ==
  ASSUME Kept, Shapes, Listed, NEW c \in Calls, call[c].at \in {"undo", "delete"}, Ends(c),
         DeletePaper(call[c].ref), crashes' = crashes
  PROVE  Listed'
<1>1. Moves(c) /\ call'[c] = Free
  BY DEF Ends, Free, Moves, Kept, CallsGood
<1>2. \A p \in Own' : p \in Own /\ p # call[c].ref
  BY DEF DeletePaper, Own, Shapes
<1>3. \A p \in Own' : Held(p)' = Held(p)
  BY <1>2 DEF DeletePaper, Held
<1>4. Carries(c)
  BY <1>1, <1>2, <1>3 DEF Carries, Cares, Free
<1> QED
  BY <1>4, CarriesListed

LEMMA AddRefListed ==
  ASSUME Kept, Listed, NEW c \in Calls, AddRef(c)
  PROVE  Listed'
<1>1. Moves(c) /\ call'[c] = Free /\ crashes' = crashes /\ Own' = Own
  BY DEF AddRef, Ends, Free, Moves, Kept, CallsGood, Own
<1>2. CASE Held(call[c].ref) = {} /\ Reachable(call[c].ref)
  <2> DEFINE r == [ref |-> call[c].ref, status |-> call[c].status, tags |-> FALSE,
                   completedAt |-> IF call[c].status = "read" THEN Today ELSE Nil]
  <2>1. added < MaxEntries /\ entries' = [entries EXCEPT ![added + 1] = r]
    BY <1>2 DEF AddRef
  <2>2. call[c].status \in Statuses /\ call[c].ref \in Refs
    BY <1>2 DEF AddRef, Kept, CallsGood, GoodCall, Reachable, Refs, Own
  <2>3. r \in Row /\ r.ref = call[c].ref
    <3>1. (IF call[c].status = "read" THEN Today ELSE Nil) \in Days \cup {Nil} /\ FALSE \in BOOLEAN
      BY ValuesAssumption
    <3> QED
      BY <2>2, <3>1 DEF Row
  <2> HIDE DEF r
  <2>4. r # Nil
    BY <2>3, ValuesAssumption
  <2>5. added + 1 \in EntryIds /\ entries[added + 1] = Nil
    BY <2>1, LimitsAssumption DEF Kept, RowsTyped, RowsHold, EntryIds
  <2>6. entries'[added + 1] = r /\ \A e \in EntryIds \ {added + 1} : entries'[e] = entries[e]
    BY <2>1, <2>5 DEF Kept, RowsTyped
  <2>7. \A p : Held(p) \subseteq Held(p)' /\ (p = call[c].ref => Held(p)' # {})
    <3> SUFFICES ASSUME NEW p
                 PROVE  Held(p) \subseteq Held(p)' /\ (p = call[c].ref => added + 1 \in Held(p)')
      OBVIOUS
    <3> QED
      BY <2>3, <2>4, <2>5, <2>6 DEF Held
  <2>8. Carries(c)
    BY <1>1, <2>7 DEF Carries, Cares, Free
  <2> QED
    BY <2>8, CarriesListed
<1>3. CASE ~(Held(call[c].ref) = {} /\ Reachable(call[c].ref))
  <2>1. entries' = entries
    BY <1>3 DEF AddRef
  <2>2. \A p : Held(p)' = Held(p)
    BY <2>1 DEF Held
  <2>3. \A p \in Own : p = call[c].ref => Held(p) # {}
    BY <1>3 DEF Reachable
  <2>4. Carries(c)
    BY <1>1, <2>2, <2>3 DEF Carries, Cares, Free
  <2> QED
    BY <2>4, CarriesListed
<1> QED
  BY <1>2, <1>3

LEMMA AddsListed ==
  ASSUME Kept, Shapes, PapersMade, Listed, NEW c \in Calls, Adds(c)
  PROVE  Listed'
<1>1. CASE Known(c) \/ Count(c)
  <2>1. Moves(c) /\ call[c].at \in {"known", "count"} /\ call'[c].at \notin {"upload", "unlist"}
    BY <1>1 DEF Known, Count, Goes, Ends, Free, Place, Moves, Kept, CallsGood
  <2>2. UNCHANGED <<papers, entries, crashes>>
    BY <1>1 DEF Known, Count, db
  <2> QED
    BY <2>1, <2>2, Careless
<1>2. CASE SaveDropped(c)
  <2>1. Moves(c) /\ call'[c].at = "upload" /\ call'[c].ref = made + 1 /\ "ref" \in DOMAIN call'[c]
    BY <1>2 DEF SaveDropped, Moves, Kept, CallsGood
  <2>2. Own' \subseteq Own \cup {made + 1} /\ UNCHANGED <<entries, crashes>> /\ call[c].at = "insert"
    BY <1>2 DEF SaveDropped, InsertPaper, Own, Shapes
  <2>3. \A p : Held(p)' = Held(p)
    BY <2>2 DEF Held
  <2>4. Carries(c)
    BY <2>1, <2>2, <2>3 DEF Carries, Cares
  <2> QED
    BY <2>4, CarriesListed
<1>3. CASE AddPrivate(c)
  <2>1. Moves(c) /\ call'[c].at \in {"place", "free"}
    BY <1>3 DEF AddPrivate, Ends, Free, Place, Moves, Kept, CallsGood
  <2>2. UNCHANGED <<entries, crashes>> /\ call[c].at = "insert"
    BY <1>3 DEF AddPrivate
  <2>3. CASE Found(call[c].work) = {}
    <3>1. call'[c].at = "place" /\ call'[c].ref = made + 1
      BY <1>3, <2>3 DEF AddPrivate, Place, Kept, CallsGood
    <3>2. Own' \subseteq Own \cup {made + 1}
      BY <1>3, <2>3 DEF AddPrivate, InsertPaper, Own, Shapes
    <3>3. \A p : Held(p)' = Held(p)
      BY <2>2 DEF Held
    <3>4. Carries(c)
      BY <2>1, <2>2, <3>1, <3>2, <3>3 DEF Carries, Cares
    <3> QED
      BY <3>4, CarriesListed
  <2>4. CASE Found(call[c].work) # {}
    <3>1. papers' = papers
      BY <1>3, <2>4 DEF AddPrivate
    <3> QED
      BY <2>1, <2>2, <3>1, Careless
  <2> QED
    BY <2>3, <2>4
<1>4. CASE Uploaded(c) \/ Refused(c)
  <2>1. Moves(c) /\ call'[c].at \in {"place", "undo", "free"} /\ call[c].at = "upload"
    BY <1>4 DEF Uploaded, Refused, Goes, Ends, Free, Place, Moves, Kept, CallsGood
  <2>2. UNCHANGED <<papers, entries, crashes>>
    BY <1>4 DEF Uploaded, Refused, db
  <2>3. call[c].ref \in Public \/ (call'[c].at \in {"place", "undo"} /\ call'[c].ref = call[c].ref)
    BY <1>4 DEF Uploaded, Refused, Goes, Place, Listed, Kept, CallsGood
  <2>4. \A p \in Own : p \notin Public
    BY ValuesAssumption DEF Own
  <2>5. Own' = Own /\ \A p : Held(p)' = Held(p)
    BY <2>2 DEF Own, Held
  <2>6. Carries(c)
    BY <2>1, <2>2, <2>3, <2>4, <2>5 DEF Carries, Cares
  <2> QED
    BY <2>6, CarriesListed
<1>5. CASE Undo(c)
  BY <1>5, DeletingListed DEF Undo
<1>6. CASE AddRef(c)
  BY <1>6, AddRefListed
<1> QED
  BY <1>1, <1>2, <1>3, <1>4, <1>5, <1>6 DEF Adds

LEMMA SaveListed ==
  ASSUME Kept, Listed, NEW c \in Calls, Save(c)
  PROVE  Listed'
<1> DEFINE e == call[c].entry
           row == call[c].row
           merged == Merged(row, entries[e], call[c].differs)
<1>1. Moves(c) /\ call'[c] = Free /\ call[c].at = "save" /\ UNCHANGED <<papers, crashes>>
  BY DEF Save, Ends, Free, Moves, Kept, CallsGood
<1>2. e \in EntryIds /\ row \in Row
  BY <1>1 DEF Editing, Kept, CallsGood, GoodCall
<1>3. \/ entries' = entries
      \/ entries' = [entries EXCEPT ![e] = row] /\ entries[e] = Nil
      \/ entries' = [entries EXCEPT ![e] = merged] /\ entries[e] # Nil
  BY DEF Save, Merged
<1>4. entries[e] # Nil => merged \in Row /\ merged.ref = entries[e].ref /\ merged # Nil
  <2>1. entries[e] # Nil => entries[e] \in Row /\ entries[e].ref = row.ref
    BY <1>1, <1>2 DEF Editing, Kept, RowsTyped, CallsGood, RefKept
  <2> QED
    BY <1>2, <2>1, MergedRow, ValuesAssumption
<1> HIDE DEF e, row, merged
<1>5. \A p : Held(p) \subseteq Held(p)'
  <2> SUFFICES ASSUME NEW p, NEW g \in EntryIds, entries[g] # Nil, entries[g].ref = p
               PROVE  entries'[g] # Nil /\ entries'[g].ref = p
    BY DEF Held
  <2>1. CASE g = e
    BY <1>2, <1>3, <1>4, <2>1 DEF Kept, RowsTyped
  <2>2. CASE g # e
    BY <1>2, <1>3, <2>2 DEF Kept, RowsTyped
  <2> QED
    BY <2>1, <2>2
<1>6. Own' = Own
  BY <1>1 DEF Own
<1>7. Carries(c)
  BY <1>1, <1>5, <1>6 DEF Carries, Cares, Free
<1> QED
  BY <1>7, CarriesListed

LEMMA EditsListed ==
  ASSUME Kept, Shapes, Listed, NEW c \in Calls, Edits(c)
  PROVE  Listed'
<1>1. CASE ReadEntry(c) \/ Compare(c)
  <2>1. Moves(c) /\ call[c].at \in {"read", "compare"} /\ call'[c].at \notin {"upload", "unlist"}
    BY <1>1 DEF ReadEntry, Compare, Ends, Free, Moves, Kept, CallsGood
  <2>2. UNCHANGED <<papers, entries, crashes>>
    BY <1>1 DEF ReadEntry, Compare, db
  <2> QED
    BY <2>1, <2>2, Careless
<1>2. CASE Save(c)
  BY <1>2, SaveListed
<1>3. CASE Unlist(c)
  <2>1. Moves(c) /\ call'[c].at \in {"free", "delete"} /\ call[c].at = "unlist" /\ UNCHANGED <<papers, crashes>>
    BY <1>3 DEF Unlist, Ends, Goes, Free, Moves, Kept, CallsGood
  <2>2. call[c].ref \in Public \/ (call'[c].at = "delete" /\ call'[c].ref = call[c].ref)
    BY <1>3 DEF Unlist, Goes, Listed, Kept, CallsGood
  <2>3. \A p \in Own : p \notin Public
    BY ValuesAssumption DEF Own
  <2>4. \A p : p # call[c].ref => Held(p)' = Held(p)
    BY <1>3 DEF Unlist, Held
  <2>5. Own' = Own
    BY <2>1 DEF Own
  <2>6. Carries(c)
    BY <2>1, <2>2, <2>3, <2>4, <2>5 DEF Carries, Cares
  <2> QED
    BY <2>6, CarriesListed
<1>4. CASE DeleteOwn(c)
  BY <1>4, DeletingListed DEF DeleteOwn
<1> QED
  BY <1>1, <1>2, <1>3, <1>4 DEF Edits

LEMMA CollectsListed ==
  ASSUME Kept, Listed, NEW c \in Calls, Collects(c)
  PROVE  Listed'
<1>1. /\ Moves(c) /\ call'[c].at \notin {"upload", "unlist"}
      /\ call[c].at \notin {"upload", "undo", "place", "delete"}
  BY DEF Collects, CountCollections, InsertCollection, SaveName, DeleteCollection, FindEntry, PutItem, TakeItem, Ends,
     Goes, Free, Moves, Kept, CallsGood
<1>2. UNCHANGED <<papers, entries, crashes>>
  BY DEF Collects, CountCollections, InsertCollection, SaveName, DeleteCollection, FindEntry, PutItem, TakeItem,
     KeepLibrary, db
<1> QED
  BY <1>1, <1>2, Careless

LEMMA CutOffListed ==
  ASSUME Kept, Listed, NEW c \in Calls, CutOff(c)
  PROVE  Listed'
<1>1. crashes' = crashes + 1 /\ crashes' \in Nat /\ crashes' # 0
  BY DEF CutOff, Listed
<1>2. \A d \in Calls : call'[d].at \in {"upload", "unlist"} => "ref" \in DOMAIN call'[d]
  BY DEF CutOff, Ends, Free, Listed, Kept, CallsGood
<1> QED
  BY <1>1, <1>2 DEF Listed

LEMMA NextListed ==
  ASSUME Kept, Shapes, PapersMade, Listed, [Next]_vars
  PROVE  Listed'
<1>1. ASSUME NEW c \in Calls, Asks(c) \/ Adds(c) \/ Edits(c) \/ Collects(c) \/ CutOff(c)
      PROVE  Listed'
  BY <1>1, AsksListed, AddsListed, EditsListed, CollectsListed, CutOffListed
<1>2. CASE UNCHANGED vars
  BY <1>2 DEF vars, db, Listed, Seen, Own, Held, Cares
<1> QED
  BY <1>1, <1>2 DEF Next

(* As long as no call is cut off, a reader's own paper is in their library *)
(* or a call is about to list it or to delete it.                          *)
THEOREM ListedHolds == Spec => []OwnPapersAreListed
<1>1. Init => Listed
  BY DEF Init, Listed, Own, Free
<1>2. Kept /\ Inv /\ PapersMade /\ Listed /\ [Next]_vars => Listed'
  BY NextListed DEF Inv
<1>3. Init => PapersMade
  BY DEF Init, PapersMade, AddedOnce, Own
<1>4. PapersMade /\ [Next]_vars => PapersMade'
  BY PapersMadeKept
<1>5. Listed => OwnPapersAreListed
  BY DEF Listed, Seen, Cares, OwnPapersAreListed
<1> QED
  BY <1>1, <1>2, <1>3, <1>4, <1>5, KeptHolds, InvHolds, PTL DEF Spec
=============================================================================
