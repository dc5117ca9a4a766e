--------------------------- MODULE PaperAnnotations ---------------------------
(***************************************************************************)
(* The reader's own marks on the PDFs of their library, as the server      *)
(* keeps them (paper-annotations.service.ts): a mark is anchored to the    *)
(* file it was made on, and is stale while the paper serves another.       *)
(*                                                                         *)
(* A call is one HTTP request.  It reads the row and the served version    *)
(* and saves afterwards, so other calls and a replacement of the PDF run   *)
(* in between.  What a mark says is left out; a mark without an anchor is  *)
(* a note.                                                                 *)
(***************************************************************************)
EXTENDS Integers, FiniteSets

CONSTANTS
  Papers, Files,
  Calls,         \* the requests
  MaxMarks,      \* bound: marks ever made, numbered in that order
  MaxPerEntry,   \* maxPerEntry(), the marks one paper may have
  MaxVersion,    \* bound: versions of one attachment
  Nil

ASSUME LimitsAssumption ==
  MaxMarks \in Nat /\ MaxPerEntry \in Nat \ {0} /\ MaxVersion \in Nat \ {0}

VARIABLES
  current,   \* the approved version and its file, of the PDF of each paper
  rows,      \* paper_annotation
  made,      \* how many marks were ever made
  call       \* the requests

server == <<current, rows, made, call>>

Marks == 1 .. MaxMarks
Versions == [version : 1 .. MaxVersion, file : Files]
NoCall == [at |-> "free"]

(* madeOn is history: the file the reader had on the screen. *)
RowType == [paper : Papers, anchor : Versions \cup {Nil}, madeOn : Files \cup {Nil}]

ASSUME NilAssumption == Nil \notin RowType

RowsOf(p) == {m \in Marks : rows[m] # Nil /\ rows[m].paper = p}

ServerInit ==
  /\ current \in [Papers -> {Nil} \cup {[version |-> 1, file |-> f] : f \in Files}]
  /\ rows = [m \in Marks |-> Nil]
  /\ made = 0
  /\ call = [c \in Calls |-> NoCall]

-----------------------------------------------------------------------------
(* The PDF of a paper, as its attachment serves it *)

(* A removed attachment takes its versions along: the next one starts at 1. *)
Attach(p, f) ==
  /\ current[p] = Nil
  /\ current' = [current EXCEPT ![p] = [version |-> 1, file |-> f]]
  /\ UNCHANGED <<rows, made, call>>

Replace(p, f) ==
  /\ current[p] # Nil
  /\ current[p].version < MaxVersion
  /\ current' = [current EXCEPT ![p] = [version |-> @.version + 1, file |-> f]]
  /\ UNCHANGED <<rows, made, call>>

RemovePdf(p) ==
  /\ current[p] # Nil
  /\ current' = [current EXCEPT ![p] = Nil]
  /\ UNCHANGED <<rows, made, call>>

-----------------------------------------------------------------------------
(* Calls *)

Stale(row, cur) == row.anchor # Nil /\ (cur = Nil \/ row.anchor.file # cur.file)

View(m, row, cur) == [id |-> m, anchor |-> row.anchor, stale |-> Stale(row, cur)]

List(p) == {View(m, rows[m], current[p]) : m \in RowsOf(p)}

(* "ok": the server has done it, and what it answers is under way. *)
Answer(c, view) == call' = [call EXCEPT ![c].at = "ok", ![c].view = view]
Refuse(c) == call' = [call EXCEPT ![c].at = "refused"]

(* create, up to the insert; a note sits on no file *)
CheckCreate(c) ==
  LET p == call[c].paper
      note == call[c].op = "note" IN
  /\ call[c].at = "sent" /\ call[c].op \in {"create", "note"}
  /\ IF \/ Cardinality(RowsOf(p)) >= MaxPerEntry
        \/ ~note /\ (current[p] = Nil \/ current[p].version # call[c].version)
     THEN Refuse(c)
     ELSE call' = [call EXCEPT ![c].at = "checked", ![c].cur = IF note THEN Nil ELSE current[p]]
  /\ UNCHANGED <<current, rows, made>>

(* The anchor is the version that was read, whatever is served by now. *)
Insert(c) ==
  LET row == [paper |-> call[c].paper, anchor |-> call[c].cur, madeOn |-> call[c].madeOn] IN
  /\ call[c].at = "checked"
  /\ made < MaxMarks
  /\ made' = made + 1
  /\ rows' = [rows EXCEPT ![made + 1] = row]
  /\ Answer(c, View(made + 1, row, call[c].cur))
  /\ UNCHANGED current

\* mutant: keeping a mark as a note anchors it to the file served now
KeepReanchored(row, cur) == [row EXCEPT !.anchor = IF cur = Nil THEN Nil ELSE cur]
KeptAsNote(row, cur) == [row EXCEPT !.anchor = Nil]

(* update, up to the save *)
ReadMark(c) ==
  LET row == rows[call[c].mark]
      cur == current[call[c].paper] IN
  /\ call[c].at = "sent" /\ call[c].op \in {"edit", "keep"}
  /\ IF \/ row = Nil
        \/ call[c].op = "keep" /\ ~Stale(row, cur)
     THEN Refuse(c)
     ELSE call' = [call EXCEPT ![c].at = "read", ![c].cur = cur,
            ![c].row = IF call[c].op = "keep" THEN KeptAsNote(row, cur) ELSE row]
  /\ UNCHANGED <<current, rows, made>>

(* TypeORM's save writes the whole entity that was read over the row, and  *)
(* inserts it if the row is gone.  update reads the shares of the mark     *)
(* before it answers; if that fails, the answer is lost.                   *)
SaveMark(c) ==
  /\ call[c].at = "read"
  /\ rows' = [rows EXCEPT ![call[c].mark] = call[c].row]
  /\ Answer(c, View(call[c].mark, call[c].row, call[c].cur))
  /\ UNCHANGED <<current, made>>

RemoveMark(c) ==
  LET m == call[c].mark IN
  /\ call[c].at = "sent" /\ call[c].op = "remove"
  /\ IF rows[m] = Nil THEN Refuse(c) ELSE Answer(c, Nil)
  /\ rows' = [rows EXCEPT ![m] = Nil]
  /\ UNCHANGED <<current, made>>

(* The request or its statement fails before anything was saved; what      *)
(* fails later is AnswerLost.                                              *)
CallFails(c) ==
  /\ call[c].at \in {"sent", "checked", "read"}
  /\ Refuse(c)
  /\ UNCHANGED <<current, rows, made>>

(* The page hears an error of a call that was saved, or may yet be: its    *)
(* connection breaks, or update fails after its save.  The server goes on. *)
AnswerLost(c) ==
  /\ call[c].at \notin {"free", "refused"} /\ call[c].mine
  /\ call' = [call EXCEPT ![c].mine = FALSE]
  /\ UNCHANGED <<current, rows, made>>

ServerStep(c) == CheckCreate(c) \/ Insert(c) \/ ReadMark(c) \/ SaveMark(c) \/ RemoveMark(c)

-----------------------------------------------------------------------------
(* Properties *)

ServerTypeOK ==
  /\ current \in [Papers -> Versions \cup {Nil}]
  /\ rows \in [Marks -> RowType \cup {Nil}]
  /\ made \in 0 .. MaxMarks

(* "An annotation is never moved onto a new file" (README.md:54): its      *)
(* anchor is dropped or, by an edit that read it before, put back, but it  *)
(* never names another file or version than the one it was saved with.     *)
AnchorNeverMoves ==
  [][\A m \in Marks :
       /\ rows[m] # Nil /\ rows'[m] # Nil
       /\ rows[m].anchor # Nil /\ rows'[m].anchor # Nil
       => rows'[m].anchor = rows[m].anchor]_server

(* README.md:41: "a mark is never saved on a file other than the one it    *)
(* was made on".                                                           *)
MarksSitOnTheirFile ==
  \A m \in Marks : rows[m] # Nil /\ rows[m].anchor # Nil => rows[m].anchor.file = rows[m].madeOn
=============================================================================
