----------------------------- MODULE PaperLibrary -----------------------------
(***************************************************************************)
(* One reader's library: entries for public papers and for papers of their *)
(* own, the three ways a paper of their own comes in (a PDF dropped, a DOI *)
(* looked up, typed by hand) and the collections entries are put in.       *)
(* paper-library.service.ts, private-papers.service.ts,                    *)
(* paper-import.service.ts, paper-collections.service.ts.                  *)
(*                                                                         *)
(* A call is one HTTP request: a row of statements, each on its own,       *)
(* between which the calls of the reader's other tabs run.  A replica may  *)
(* stop anywhere, leaving a call where it was.                             *)
(***************************************************************************)
EXTENDS Integers, FiniteSets

CONSTANTS
  Public,       \* slugs of public papers
  Dois, Prints, \* what tells papers apart: a DOI and the fingerprint of the rest
  Days,         \* days a paper may be finished on
  Names,        \* names of collections
  Calls,
  MaxPapers,    \* bound: papers of their own ever made
  MaxEntries,   \* bound: entries ever made
  MaxCollections, \* bound: collections ever made
  MaxSent,      \* bound: requests
  MaxCrashes,   \* bound: calls cut off
  OwnLimit,     \* maxPrivatePapers()
  CollectionLimit, \* maxPerUser()
  SlugOf,       \* slugOfDoi: the public paper with a DOI
  Works,        \* the papers added, each a DOI or Nil and a fingerprint
  Changes,      \* the bodies of PATCH
  Today, Same, Nil

ASSUME LimitsAssumption ==
  /\ MaxPapers \in Nat /\ MaxEntries \in Nat /\ MaxCollections \in Nat
  /\ OwnLimit \in Nat \ {0} /\ CollectionLimit \in Nat \ {0}
  /\ IsFiniteSet(Calls) /\ Calls # {}
  /\ Works \subseteq [doi : Dois \cup {Nil}, print : Prints]
  /\ SlugOf \in [Dois -> Public \cup {Nil}]

VARIABLES
  papers,       \* paper
  made,         \* how many rows it ever had
  entries,      \* paper_library_entry
  added,        \* its sequence
  collections,  \* paper_collection: their names
  begun,        \* how many collections were ever made
  items,        \* paper_collection_item
  call,
  sent, crashes

db == <<papers, made, entries, added, collections, begun, items>>
vars == <<db, call, sent, crashes>>

Ids == 1 .. MaxPapers
Refs == Public \cup Ids
EntryIds == 1 .. MaxEntries
CollectionIds == 1 .. MaxCollections
Statuses == {"to-read", "reading", "read"}
Row == [ref : Refs, status : Statuses, completedAt : Days \cup {Nil}, tags : BOOLEAN]

(* Nil and Same are no values of a row; a slug is not the id of an own paper. *)
ASSUME ValuesAssumption ==
  /\ Today \in Days
  /\ Nil \notin Row \cup Names
  /\ Public \cap Ids = {}
  /\ Changes \subseteq [status : Statuses \cup {Same}, completedAt : Days \cup {Nil, Same}, tags : BOOLEAN \cup {Same}]

Free == [at |-> "free"]
Own == {p \in Ids : papers[p] # Nil}
Held(ref) == {e \in EntryIds : entries[e] # Nil /\ entries[e].ref = ref}
Collected == {k \in CollectionIds : collections[k] # Nil}

Init ==
  /\ papers = [p \in Ids |-> Nil] /\ made = 0
  /\ entries = [e \in EntryIds |-> Nil] /\ added = 0
  /\ collections = [k \in CollectionIds |-> Nil] /\ begun = 0
  /\ items = {}
  /\ call = [c \in Calls |-> Free]
  /\ sent = 0 /\ crashes = 0

-----------------------------------------------------------------------------
(* A request and what its handler does before its first statement *)

Request(c, first) ==
  /\ call[c].at = "free"
  /\ sent < MaxSent
  /\ sent' = sent + 1
  /\ call' = [call EXCEPT ![c] = first]
  /\ UNCHANGED <<db, crashes>>

Ends(c) == call' = [call EXCEPT ![c] = Free]
Goes(c, at) == call' = [call EXCEPT ![c].at = at]

Place(ref) == [at |-> "place", ref |-> ref, status |-> "to-read"]

(* POST /library *)
AddPublic(c, slug, status) == Request(c, [Place(slug) EXCEPT !.status = status])

(* A PDF is dropped; its upload comes first when the paper is public. *)
Drop(c, w) ==
  LET slug == IF w.doi = Nil THEN Nil ELSE SlugOf[w.doi] IN
  Request(c, IF slug # Nil THEN [at |-> "upload", ref |-> slug, work |-> w]
             ELSE [at |-> "count", how |-> "drop", work |-> w])

Import(c, w) ==
  /\ w.doi # Nil
  /\ Request(c, IF SlugOf[w.doi] # Nil THEN Place(SlugOf[w.doi])
                ELSE [at |-> "known", how |-> "import", work |-> w])

CreateManual(c, w) ==
  Request(c, IF w.doi # Nil /\ SlugOf[w.doi] # Nil THEN Place(SlugOf[w.doi])
             ELSE [at |-> "count", how |-> "manual", work |-> w])

(* The controller has turned the id into the paper it means. *)
Reachable(ref) == ref \in Public \/ ref \in Own

Update(c, ref, change) ==
  Reachable(ref) /\ Request(c, [at |-> "read", ref |-> ref, change |-> change])
Remove(c, ref) == Reachable(ref) /\ Request(c, [at |-> "unlist", ref |-> ref])

Collect(c, ref, k) ==
  Reachable(ref) /\ k \in Collected /\ Request(c, [at |-> "find", ref |-> ref, into |-> k])
Take(c, ref, k) ==
  Reachable(ref) /\ k \in Collected /\ Request(c, [at |-> "take", ref |-> ref, into |-> k])

CreateCollection(c, name) == Request(c, [at |-> "countNames", name |-> name])
Rename(c, k, name) == k \in Collected /\ Request(c, [at |-> "rename", into |-> k, name |-> name])
RemoveCollection(c, k) == k \in Collected /\ Request(c, [at |-> "uncollect", into |-> k])

-----------------------------------------------------------------------------
(* Adding *)

KeepCollections == UNCHANGED <<collections, begun, items>>

\* mutant: the limit itself may be passed by one
PastLimit(n, limit) == n > limit
AtLimit(n, limit) == n >= limit

(* known: the reader's own paper with this DOI, if they have one. *)
Known(c) ==
  LET same == {p \in Own : papers[p].doi = call[c].work.doi} IN
  /\ call[c].at = "known"
  /\ IF same = {} THEN Goes(c, "count")
     ELSE \E p \in same : call' = [call EXCEPT ![c] = Place(p)]
  /\ UNCHANGED <<db, sent, crashes>>

Count(c) ==
  /\ call[c].at = "count"
  /\ IF AtLimit(Cardinality(Own), OwnLimit) THEN Ends(c) ELSE Goes(c, "insert")
  /\ UNCHANGED <<db, sent, crashes>>

(* findDuplicate: the DOI, then the fingerprint of one without a DOI; for  *)
(* a paper without a DOI the fingerprint alone.                            *)
Duplicates(w) ==
  LET byDoi == {p \in Own : w.doi # Nil /\ papers[p].doi = w.doi}
      byPrint == {p \in Own : papers[p].print = w.print /\ w.doi \in {Nil} \cup (IF papers[p].doi = Nil THEN Dois ELSE {})} IN
  IF byDoi # {} THEN byDoi ELSE byPrint

InsertPaper(c) ==
  /\ made < MaxPapers
  /\ made' = made + 1
  /\ papers' = [papers EXCEPT ![made + 1] = [doi |-> call[c].work.doi, print |-> call[c].work.print, how |-> call[c].how]]

(* A dropped PDF: save, which looks for no duplicate. *)
SaveDropped(c) ==
  /\ call[c].at = "insert" /\ call[c].how = "drop"
  /\ InsertPaper(c)
  /\ call' = [call EXCEPT ![c] = [at |-> "upload", ref |-> made + 1, work |-> call[c].work]]
  /\ UNCHANGED <<entries, added, sent, crashes>> /\ KeepCollections

\* mutant: what is there already is only looked for before the lock
NoneFound(w) == {}
Found(w) == Duplicates(w)

(* addPrivate, one transaction under the lock of the reader's adds.  By    *)
(* hand, a paper the reader has already is refused.                        *)
AddPrivate(c) ==
  LET w == call[c].work IN
  /\ call[c].at = "insert" /\ call[c].how # "drop"
  /\ IF Found(w) = {}
     THEN InsertPaper(c) /\ call' = [call EXCEPT ![c] = Place(made + 1)]
     ELSE /\ IF call[c].how = "manual" THEN Ends(c)
             ELSE \E p \in Found(w) : call' = [call EXCEPT ![c] = Place(p)]
          /\ UNCHANGED <<papers, made>>
  /\ UNCHANGED <<entries, added, sent, crashes>> /\ KeepCollections

(* The PDF is stored, or refused. *)
Uploaded(c) ==
  /\ call[c].at = "upload"
  /\ call' = [call EXCEPT ![c] = Place(call[c].ref)]
  /\ UNCHANGED <<db, sent, crashes>>

Refused(c) ==
  /\ call[c].at = "upload"
  /\ IF call[c].ref \in Public THEN Ends(c) ELSE Goes(c, "undo")
  /\ UNCHANGED <<db, sent, crashes>>

(* Deleting a paper takes its entry, and its place in collections, along. *)
DeletePaper(ref) ==
  /\ papers' = [papers EXCEPT ![ref] = Nil]
  /\ entries' = [e \in EntryIds |-> IF e \in Held(ref) THEN Nil ELSE entries[e]]
  /\ items' = {i \in items : i[2] \notin Held(ref)}
  /\ UNCHANGED <<made, added, collections, begun>>

\* mutant: a refused upload leaves the paper it was for
UndoNothing(c) ==
  /\ call[c].at = "undo"
  /\ Ends(c)
  /\ UNCHANGED <<db, sent, crashes>>
Undo(c) ==
  /\ call[c].at = "undo"
  /\ DeletePaper(call[c].ref)
  /\ Ends(c)
  /\ UNCHANGED <<sent, crashes>>

(* addRef: nothing changes when the entry is there; the foreign key        *)
(* refuses one whose paper is gone.                                        *)
AddRef(c) ==
  LET ref == call[c].ref IN
  /\ call[c].at = "place"
  /\ IF Held(ref) = {} /\ Reachable(ref)
     THEN /\ added < MaxEntries
          /\ added' = added + 1
          /\ entries' = [entries EXCEPT ![added + 1] =
               [ref |-> ref, status |-> call[c].status, tags |-> FALSE,
                completedAt |-> IF call[c].status = "read" THEN Today ELSE Nil]]
     ELSE UNCHANGED <<entries, added>>
  /\ Ends(c)
  /\ UNCHANGED <<papers, made, sent, crashes>> /\ KeepCollections

-----------------------------------------------------------------------------
(* Changing an entry *)

Completed(row, status, change) ==
  CASE status # "read" -> Nil
    [] status = "read" /\ change.completedAt # Same -> change.completedAt
    [] status = "read" /\ change.completedAt = Same /\ row.status # "read" -> Today
    [] OTHER -> row.completedAt

Changed(row, change) ==
  LET status == IF change.status = Same THEN row.status ELSE change.status IN
  [row EXCEPT !.status = status, !.completedAt = Completed(row, status, change),
              !.tags = IF change.tags = Same THEN @ ELSE change.tags]

(* A day without the status "read" is refused. *)
ReadEntry(c) ==
  LET ch == call[c].change IN
  /\ call[c].at = "read"
  /\ IF Held(call[c].ref) = {} THEN Ends(c)
     ELSE \E e \in Held(call[c].ref) :
            LET row == Changed(entries[e], ch) IN
            IF row.status # "read" /\ ch.completedAt \in Days THEN Ends(c)
            ELSE call' = [call EXCEPT ![c] = [at |-> "compare", entry |-> e, row |-> row]]
  /\ UNCHANGED <<db, sent, crashes>>

(* TypeORM's save reads the row again to see which columns differ. *)
Compare(c) ==
  LET e == call[c].entry
      now == entries[e] IN
  /\ call[c].at = "compare"
  /\ call' = [call EXCEPT ![c] = [at |-> "save", entry |-> e, row |-> call[c].row,
       differs |-> IF now = Nil THEN {"id"} ELSE {f \in DOMAIN now : now[f] # call[c].row[f]}]]
  /\ UNCHANGED <<db, sent, crashes>>

\* mutant: the table does not check the day against the status
CheckedNothing(row) == TRUE
(* CHK_paper_library_completed *)
Checked(row) == row.completedAt # Nil => row.status = "read"

(* ... and writes those, or inserts the row if it was gone by then.  The   *)
(* table refuses an insert of an entry whose paper is gone, or is listed   *)
(* again.                                                                  *)
Save(c) ==
  LET e == call[c].entry
      row == call[c].row
      merged == [f \in DOMAIN row |-> IF f \in call[c].differs THEN row[f] ELSE entries[e][f]] IN
  /\ call[c].at = "save"
  /\ CASE call[c].differs = {"id"} ->
            entries' = IF entries[e] = Nil /\ Held(row.ref) = {} /\ Reachable(row.ref)
                       THEN [entries EXCEPT ![e] = row] ELSE entries
       [] OTHER ->
            entries' = IF entries[e] # Nil /\ Checked(merged)
                       THEN [entries EXCEPT ![e] = merged] ELSE entries
  /\ Ends(c)
  /\ UNCHANGED <<papers, made, added, sent, crashes>> /\ KeepCollections

(* remove: the entry, and then a paper of the reader's own. *)
Unlist(c) ==
  LET ref == call[c].ref IN
  /\ call[c].at = "unlist"
  /\ entries' = [e \in EntryIds |-> IF e \in Held(ref) THEN Nil ELSE entries[e]]
  /\ items' = {i \in items : i[2] \notin Held(ref)}
  /\ IF ref \in Public THEN Ends(c) ELSE Goes(c, "delete")
  /\ UNCHANGED <<papers, made, added, collections, begun, sent, crashes>>

DeleteOwn(c) ==
  /\ call[c].at = "delete"
  /\ DeletePaper(call[c].ref)
  /\ Ends(c)
  /\ UNCHANGED <<sent, crashes>>

-----------------------------------------------------------------------------
(* Collections *)

KeepLibrary == UNCHANGED <<papers, made, entries, added, sent, crashes>>

Taken(name) == \E k \in Collected : collections[k] = name

CountCollections(c) ==
  /\ call[c].at = "countNames"
  /\ IF AtLimit(Cardinality(Collected), CollectionLimit) THEN Ends(c) ELSE Goes(c, "begin")
  /\ UNCHANGED <<db, sent, crashes>>

InsertCollection(c) ==
  /\ call[c].at = "begin"
  /\ Ends(c)
  /\ IF Taken(call[c].name) THEN UNCHANGED <<collections, begun>>
     ELSE /\ begun < MaxCollections
          /\ begun' = begun + 1
          /\ collections' = [collections EXCEPT ![begun + 1] = call[c].name]
  /\ UNCHANGED items /\ KeepLibrary

(* An UPDATE of what is gone by now changes nothing. *)
SaveName(c) ==
  LET k == call[c].into IN
  /\ call[c].at = "rename"
  /\ Ends(c)
  /\ collections' = IF collections[k] = Nil \/ Taken(call[c].name) THEN collections
                    ELSE [collections EXCEPT ![k] = call[c].name]
  /\ UNCHANGED <<begun, items>> /\ KeepLibrary

DeleteCollection(c) ==
  LET k == call[c].into IN
  /\ call[c].at = "uncollect"
  /\ Ends(c)
  /\ collections' = [collections EXCEPT ![k] = Nil]
  /\ items' = {i \in items : i[1] # k}
  /\ UNCHANGED begun /\ KeepLibrary

(* The entry is looked up ... *)
FindEntry(c) ==
  /\ call[c].at = "find"
  /\ IF Held(call[c].ref) = {} THEN Ends(c)
     ELSE \E e \in Held(call[c].ref) :
            call' = [call EXCEPT ![c] = [at |-> "put", into |-> call[c].into, entry |-> e]]
  /\ UNCHANGED <<db, sent, crashes>>

Fits(k, e) == collections[k] # Nil /\ entries[e] # Nil

(* ... and put in, unless it or the collection is gone by now. *)
PutItem(c) ==
  /\ call[c].at = "put"
  /\ Ends(c)
  /\ items' = items \cup (IF Fits(call[c].into, call[c].entry) THEN {<<call[c].into, call[c].entry>>} ELSE {})
  /\ UNCHANGED <<collections, begun>> /\ KeepLibrary

TakeItem(c) ==
  /\ call[c].at = "take"
  /\ Ends(c)
  /\ items' = {i \in items : i[1] # call[c].into \/ i[2] \notin Held(call[c].ref)}
  /\ UNCHANGED <<collections, begun>> /\ KeepLibrary

-----------------------------------------------------------------------------

(* The replica stops, or a statement fails: what is committed stays. *)
CutOff(c) ==
  /\ call[c].at # "free"
  /\ crashes < MaxCrashes
  /\ crashes' = crashes + 1
  /\ Ends(c)
  /\ UNCHANGED <<db, sent>>

Asks(c) ==
  \/ \E slug \in Public, status \in Statuses : AddPublic(c, slug, status)
  \/ \E w \in Works : Drop(c, w) \/ Import(c, w) \/ CreateManual(c, w)
  \/ \E ref \in Refs :
       \/ Remove(c, ref)
       \/ \E change \in Changes : Update(c, ref, change)
       \/ \E k \in CollectionIds : Collect(c, ref, k) \/ Take(c, ref, k)
  \/ \E name \in Names : CreateCollection(c, name) \/ \E k \in CollectionIds : Rename(c, k, name)
  \/ \E k \in CollectionIds : RemoveCollection(c, k)

Adds(c) == Known(c) \/ Count(c) \/ SaveDropped(c) \/ AddPrivate(c) \/ Uploaded(c) \/ Refused(c) \/ Undo(c) \/ AddRef(c)
Edits(c) == ReadEntry(c) \/ Compare(c) \/ Save(c) \/ Unlist(c) \/ DeleteOwn(c)
Collects(c) ==
  \/ CountCollections(c) \/ InsertCollection(c) \/ SaveName(c) \/ DeleteCollection(c)
  \/ FindEntry(c) \/ PutItem(c) \/ TakeItem(c)

Next == \E c \in Calls : Asks(c) \/ Adds(c) \/ Edits(c) \/ Collects(c) \/ CutOff(c)

Spec == Init /\ [][Next]_vars

-----------------------------------------------------------------------------
(* Properties *)

PaperRow == [doi : Dois \cup {Nil}, print : Prints, how : {"drop", "import", "manual"}]

TypeOK ==
  /\ papers \in [Ids -> PaperRow \cup {Nil}] /\ made \in 0 .. MaxPapers
  /\ entries \in [EntryIds -> Row \cup {Nil}] /\ added \in 0 .. MaxEntries
  /\ collections \in [CollectionIds -> Names \cup {Nil}] /\ begun \in 0 .. MaxCollections
  /\ items \subseteq CollectionIds \X EntryIds

(* A paper of the reader's own is in their library, where they can reach   *)
(* and remove it, or a call is about to list or to delete it.  Only a call *)
(* that was cut off leaves one that still counts and that nobody sees.     *)
OwnPapersAreListed ==
  crashes = 0 => \A p \in Own :
    Held(p) # {} \/ \E c \in Calls : call[c].at \in {"upload", "undo", "place", "delete"} /\ call[c].ref = p

(* "two parallel drops can overshoot the cap by one" (private-papers       *)
(* .service.ts:96, paper-import.service.ts:147): whatever the calls, no    *)
(* reader gets further past it than by one for each call at once.          *)
OvershootsByOne ==
  /\ Cardinality(Own) <= OwnLimit + Cardinality(Calls) - 1
  /\ Cardinality(Collected) <= CollectionLimit + Cardinality(Calls) - 1

(* Two adds by DOI or by hand never make the same paper twice: "two at     *)
(* once cannot both miss the other" (papers.service.ts:83).                *)
AddedOnce ==
  \A p, r \in Own :
    p < r /\ papers[r].how # "drop" /\ papers[p].doi = papers[r].doi =>
      papers[p].doi = Nil /\ papers[p].print # papers[r].print

(* However two changes of an entry overlap, a day of completion is kept    *)
(* only by a paper that is read, and a collection holds only entries that  *)
(* are in the library.                                                     *)
LibraryHolds ==
  /\ \A e \in EntryIds : entries[e] # Nil /\ entries[e].completedAt # Nil => entries[e].status = "read"
  /\ \A i \in items : collections[i[1]] # Nil /\ entries[i[2]] # Nil
  /\ \A e, g \in EntryIds : entries[e] # Nil /\ entries[g] # Nil /\ entries[e].ref = entries[g].ref => e = g
=============================================================================
