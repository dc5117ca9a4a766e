-------------------------- MODULE PaperReaderProofs --------------------------
(***************************************************************************)
(* For any number of papers, files, marks, calls and pages, the invariants *)
(* of the reader's page and the action property of the marks.              *)
(*                                                                         *)
(* 1. Marks.  A mark has one paper and at most one anchor in its life: the *)
(* row, and every copy of it that an update has read and may still save,   *)
(* agree on both (OneAnchor), so a late save never moves a mark.           *)
(* 2. The paper on the screen.  The load with the latest token is of the   *)
(* paper asked for and nothing of another paper is taken from it; any      *)
(* other load that gets as far as an await without a token is in crossed.  *)
(* The list of a load and the marks of the panel are of that paper, and    *)
(* what is not shown as stale sits on the file that is served, as long as  *)
(* the PDF is not changed.                                                 *)
(* 3. The panel.  At most one call is about a mark.  The panel is right    *)
(* about it, or the answer that will put it right is under way: this is    *)
(* kept by every step of the server and made good when the answer arrives. *)
(* A lost answer ends this (Calm) until the paper is opened again.         *)
(* 4. The pages.  While the pump works and is not to go round again, each  *)
(* page near the screen is drawn, broken, queued or in hand, and each page *)
(* with a canvas is near; whoever changes what is near asks for another    *)
(* round (Good).  That the pump never mistakes a new document for its own  *)
(* needs FreshInv: the load of a document opened before is over.  A round  *)
(* queues the pages it wants, nearest first; that there is such an order   *)
(* (OrderExists) is proved from the smallest set without one.              *)
(* 5. The search.  A search that still counts has the term of the field,   *)
(* and it and the cache have text of the open document only, for as long   *)
(* as no other is written there; nothing counts while a load is waited for *)
(* (SearchInv).                                                            *)
(***************************************************************************)
EXTENDS PaperReader, TLAPS, FiniteSetTheorems, NaturalsInduction, WellFoundedInduction

-----------------------------------------------------------------------------
(* Types *)

Ops == {"create", "note", "edit", "keep", "remove"}
Anchors == Versions \cup {Nil}
Item == [id : Marks, anchor : Anchors, stale : BOOLEAN]
VersionNumbers == 1 .. MaxVersion \cup {Nil}
Steps == {"sent", "checked", "read", "ok", "refused"}
Asked == [at : Steps, op : Ops, paper : Papers, mark : Marks \cup {Nil},
  version : VersionNumbers, madeOn : Files \cup {Nil}, mine : BOOLEAN, cur : Anchors,
  row : RowType \cup {Nil}, view : Item \cup {Nil}]
Document == [load : 1 .. MaxLoads, paper : Papers, file : Files]
LoadSteps == {"record", "file", "open", "list", "listed", "first"}
Load == [at : LoadSteps, paper : Papers, file : Files \cup {Nil},
  list : SUBSET Item, version : VersionNumbers]

CallsTyped == call \in [Calls -> Asked \cup {NoCall}]
LoadsTyped ==
  /\ loads \in [1 .. MaxLoads -> Load \cup {NoLoad}]
  /\ \A l \in 1 .. MaxLoads : loads[l].at \in {"open", "list", "listed", "first"} => loads[l].file \in Files
PageTyped ==
  /\ items \subseteq Item
  /\ doc \in Document \cup {None}
  /\ header \in Papers \cup {Nil}
  /\ state = "ready" => paperId \in Papers
  /\ paperId \in Papers \cup {Nil}
  /\ state \in {"loading", "ready", "noFile", "failed"}
  /\ token \in 0 .. MaxLoads
  /\ pdfVersion \in VersionNumbers
  /\ busyId \in Marks \cup {New, Nil}

Shape == ServerTypeOK /\ CallsTyped /\ LoadsTyped /\ PageTyped

-----------------------------------------------------------------------------
(* Marks *)

(* What a mark is a mark of: the row, and every copy of it an update has   *)
(* read and will save, is of the paper p and sits on a or on nothing.      *)
Of(row, p, a) == row \in RowType /\ row.paper = p /\ row.anchor \in {a, Nil}
Sits(m, p, a) ==
  /\ m \in 1 .. made
  /\ rows[m] # Nil => Of(rows[m], p, a)
  /\ \A c \in Calls : call[c].at = "read" /\ call[c].mark = m => Of(call[c].row, p, a)
Belongs(m, p) == \E a \in Anchors : Sits(m, p, a)

OneAnchor == \A m \in 1 .. made : \E p \in Papers : Belongs(m, p)

Sound(c) ==
  call[c].at # "free" =>
    /\ call[c].op \in {"edit", "keep", "remove"} => call[c].mark \in 1 .. made
    /\ call[c].at = "checked" => call[c].op \in {"create", "note"}
    /\ call[c].at = "read" => call[c].op \in {"edit", "keep"} /\ call[c].row \in RowType
    /\ call[c].mine => call[c].op # "note"
    /\ call[c].at = "ok" /\ call[c].op # "remove" =>
         /\ call[c].view \in Item /\ call[c].view.id \in 1 .. made
         /\ call[c].op \in {"edit", "keep"} => call[c].view.id = call[c].mark
         /\ call[c].op = "create" => Belongs(call[c].view.id, call[c].paper)
CallsAreSound == \A c \in Calls : Sound(c)

Numbered == \A m \in Marks : rows[m] # Nil => m <= made

(* The marks the page has heard of. *)
Heard ==
  /\ \A i \in items : i.id \in 1 .. made
  /\ \A l \in 1 .. MaxLoads : loads[l].at # "none" => \A i \in loads[l].list : i.id \in 1 .. made

MarksInv == OneAnchor /\ CallsAreSound /\ Numbered /\ Heard

-----------------------------------------------------------------------------
(* Loads *)

Past == {"file", "open", "list", "listed", "first"}
WithFile == {"open", "list", "listed", "first"}

LoadsInv ==
  /\ \A l \in 1 .. MaxLoads : loads[l].at # "none" => l <= token
  /\ \A l \in 1 .. MaxLoads : loads[l].at = "first" /\ l # token => "first" \in crossed
  /\ \A l \in 1 .. MaxLoads : loads[l].at = "record" /\ l # token => "record" \in crossed
  /\ token > 0 /\ loads[token].at # "none" => loads[token].paper = paperId /\ state = "loading"
  /\ state = "ready" => token > 0
  /\ token > 0 /\ "record" \notin crossed /\ (state = "ready" \/ loads[token].at \in Past)
     => header = paperId
  /\ state = "ready" /\ "first" \notin crossed => doc \in Document /\ doc.paper = paperId
     /\ doc.load = token

(* The file of the load and the document on the screen, while the PDF has  *)
(* not been changed.                                                       *)
Served(f) == current[paperId] # Nil /\ current[paperId].file = f
FileInv ==
  paperId \notin replaced =>
    /\ token > 0 /\ loads[token].at \in WithFile => Served(loads[token].file)
    /\ state = "ready" /\ "first" \notin crossed => Served(doc.file)

-----------------------------------------------------------------------------
(* The panel *)

Mine(c) == call[c].at # "free" /\ call[c].mine

(* The marks a load lists are of its paper.  Unless a call was overtaken,  *)
(* so are those in the panel, and the calls of the reader are about marks  *)
(* of the paper on the screen.                                             *)
PapersInv ==
  /\ \A l \in 1 .. MaxLoads : loads[l].at = "listed"
     => \A i \in loads[l].list : Belongs(i.id, loads[l].paper)
  /\ "call" \notin crossed =>
       /\ \A i \in items : Belongs(i.id, paperId)
       /\ \A c \in Calls : Mine(c) =>
            /\ state = "ready" /\ call[c].paper = paperId
            /\ call[c].op # "create" => Belongs(call[c].mark, paperId)

(* A mark that is not shown as stale sits on the file that is served.      *)
Honest(i) == i.anchor # Nil /\ ~i.stale => Served(i.anchor.file)
HonestInv ==
  paperId \in Papers \ replaced =>
    /\ token > 0 /\ loads[token].at = "listed" => \A i \in loads[token].list : Honest(i)
    /\ "call" \notin crossed =>
         /\ \A i \in items : Honest(i)
         /\ \A c \in Calls : Mine(c) =>
              /\ call[c].at \in {"checked", "read"} => call[c].cur \in {current[paperId], Nil}
              /\ call[c].at = "ok" /\ call[c].op # "remove" => Honest(call[c].view)

(* No call was overtaken, no other tab acted and no two calls on one mark  *)
(* overlapped, and no answer was lost.                                     *)
Calm == crossed \cap {"call", "tab", "again", "lost"} = {}

(* The mark a call is about; a mark that is being made has no number yet.  *)
About(c, m) ==
  /\ call[c].at # "free"
  /\ IF call[c].op = "create" THEN call[c].at = "ok" /\ call[c].view.id = m ELSE call[c].mark = m

Shows(set, m) ==
  /\ m \in RowsOf(paperId) <=> \E i \in set : i.id = m
  /\ \A i \in set : i.id = m => i.anchor = rows[m].anchor

(* What the answer of a call on m says is so, and the panel has yet to     *)
(* hear it.                                                                *)
Tells(c, m) ==
  /\ call[c].at = "read" => rows[m] # Nil
  /\ call[c].at = "ok" =>
       /\ rows[m] = Nil <=> call[c].op = "remove"
       /\ call[c].op # "remove" => call[c].view.anchor = rows[m].anchor
       /\ call[c].op = "create" => \A i \in items : i.id # m
       /\ call[c].op \in {"edit", "keep"} => \E i \in items : i.id = m

OneCallEach == \A c, d \in Calls, m \in Marks : About(c, m) /\ About(d, m) => c = d
Told(m) == Shows(items, m) \/ \E c \in Calls : About(c, m) /\ call[c].at = "ok"
Telling == \A c \in Calls, m \in Marks : About(c, m) => Tells(c, m)
Current == OneCallEach /\ (\A m \in Marks : Told(m)) /\ Telling

PanelInv ==
  Calm =>
    /\ \A c \in Calls : call[c].at # "free" => call[c].mine
    /\ token > 0 /\ loads[token].at = "listed" => \A m \in Marks : Shows(loads[token].list, m)
    /\ pdfVersion # Nil => Current

ReaderInv == Shape /\ MarksInv /\ LoadsInv /\ FileInv /\ PapersInv /\ HonestInv /\ PanelInv
-----------------------------------------------------------------------------
(* Records *)

LEMMA NewCallTyped ==
  ASSUME paperId \in Papers, NEW op \in Ops, NEW m \in Marks \cup {Nil}, NEW v \in VersionNumbers,
         NEW f \in Files \cup {Nil}
  PROVE  NewCall(op, m, v, f) \in Asked
BY DEF NewCall, Asked, Anchors, Steps

LEMMA ViewTyped ==
  ASSUME NEW m \in Marks, NEW row \in RowType, NEW cur \in Anchors
  PROVE  View(m, row, cur) \in Item
<1>1. Stale(row, cur) \in BOOLEAN
  BY DEF Stale
<1> QED BY <1>1 DEF View, Item, RowType, Anchors

-----------------------------------------------------------------------------
(* Steps *)

(* What the steps on the pages leave alone. *)
Quiet == UNCHANGED <<server, doc, paperId, state, loads, token, header, panel, crossed, replaced>>

LEMMA PagesAreQuiet == Reading \/ Drawing \/ Breaking \/ UNCHANGED vars => Quiet
<1>1. ASSUME Reading PROVE Quiet
  BY <1>1 DEF Reading, Beside, GoTo, TrackCurrent, Look, Zoom, OnSearch, Quiet
<1>2. ASSUME Drawing PROVE Quiet
  BY <1>2 DEF Drawing, Beside, history, Pumping, Searching, PageFetched, PageDrawn, PageCancelled,
     TextArrives, Quiet
<1>3. ASSUME Breaking PROVE Quiet
  BY <1>3 DEF Breaking, Beside, PageBreaks, TextFails, Quiet
<1>4. ASSUME UNCHANGED vars PROVE Quiet
  BY <1>4 DEF vars, pages, history, Quiet
<1> QED BY <1>1, <1>2, <1>3, <1>4

(* What happens to marks: a call comes or goes, or takes one of its steps. *)
Comes(c) ==
  /\ UNCHANGED <<rows, made>>
  /\ call'[c].at \in {"sent", "free"}
  /\ \A d \in Calls \ {c} : call'[d] = call[d]
MarksMove ==
  \/ UNCHANGED <<rows, made, call>>
  \/ \E c \in Calls : ServerStep(c) \/ CallFails(c) \/ AnswerLost(c) \/ Comes(c)

LEMMA NextMovesMarks == Shape /\ [Next]_vars => MarksMove
<1> SUFFICES ASSUME Shape, [Next]_vars PROVE MarksMove
  OBVIOUS
<1> USE DEF MarksMove, Shape, CallsTyped
<1>1. ASSUME NEW p \in Papers, Request(p) \/ ChangePdf(p) PROVE MarksMove
  BY <1>1 DEF Request, ChangePdf, RemovePdf, Attach, Replace, server
<1>2. ASSUME NEW l \in 1 .. MaxLoads, Loading(l) \/ ListFails(l) \/ LoadFails(l) PROVE MarksMove
  BY <1>2 DEF Loading, RecordArrives, FileArrives, Opened, ListRead, ListArrives, FirstPage, ListFails,
     LoadFails, server
<1>3. ASSUME NEW c \in Calls, Serving(c) \/ Failing(c) \/ Losing(c) PROVE MarksMove
  BY <1>3 DEF Serving, Failing, Losing
<1>4. ASSUME NEW c \in Calls, Add(c) PROVE MarksMove
  <2>1. Comes(c)
    BY <1>4 DEF Add, Send, NewCall, Comes
  <2> QED BY <2>1
<1>5. ASSUME NEW c \in Calls, AnswerArrives(c) PROVE MarksMove
  <2>1. Comes(c)
    BY <1>5 DEF AnswerArrives, NoCall, Comes
  <2> QED BY <2>1
<1>6. ASSUME NEW c \in Calls, NEW i \in items, NEW op, Touch(c, i, op) PROVE MarksMove
  <2>1. Comes(c)
    BY <1>6 DEF Touch, Send, NewCall, Comes
  <2> QED BY <2>1
<1>7. ASSUME NEW c \in Calls, NEW p \in Papers, NoteElsewhere(c, p) PROVE MarksMove
  <2>1. Comes(c)
    BY <1>7 DEF NoteElsewhere, Send, NewCall, Comes
  <2> QED BY <2>1
<1>8. ASSUME NEW c \in Calls, NEW m \in Marks, NEW op, TouchElsewhere(c, m, op) PROVE MarksMove
  <2>1. Comes(c)
    BY <1>8 DEF TouchElsewhere, Send, NewCall, Comes
  <2> QED BY <2>1
<1>9. ASSUME Reading \/ Drawing \/ Breaking \/ UNCHANGED vars PROVE MarksMove
  BY <1>9, PagesAreQuiet DEF Quiet, server
<1> QED BY <1>1, <1>2, <1>3, <1>4, <1>5, <1>6, <1>7, <1>8, <1>9 DEF Next

(* A mark stays a mark of its paper and its anchor. *)
LEMMA SitsStays ==
  ASSUME Shape, MarksInv, MarksMove, NEW m, NEW p, NEW a \in Anchors, Sits(m, p, a)
  PROVE  Sits(m, p, a)'
<1> USE LimitsAssumption DEF Shape, CallsTyped, ServerTypeOK, Sits, Of, Marks
<1>1. CASE UNCHANGED <<rows, made, call>>
  BY <1>1
<1>2. ASSUME NEW c \in Calls, Comes(c) PROVE Sits(m, p, a)'
  BY <1>2 DEF Comes
<1>3. ASSUME NEW c \in Calls, CallFails(c) PROVE Sits(m, p, a)'
  BY <1>3 DEF CallFails, Refuse, Asked, Steps, NoCall
<1>4. ASSUME NEW c \in Calls, CheckCreate(c) PROVE Sits(m, p, a)'
  BY <1>4 DEF CheckCreate, Refuse, Asked, Steps, NoCall
<1>5. ASSUME NEW c \in Calls, Insert(c) PROVE Sits(m, p, a)'
  BY <1>5 DEF Insert, Answer, Asked, Steps, NoCall
<1>6. ASSUME NEW c \in Calls, ReadMark(c) PROVE Sits(m, p, a)'
  <2>1. KeptAsNote(rows[m], current[call[c].paper]) = [rows[m] EXCEPT !.anchor = Nil]
    BY DEF KeptAsNote
  <2>2. rows[m] # Nil => Of(KeptAsNote(rows[m], current[call[c].paper]), p, a)
    BY <2>1 DEF RowType
  <2>3. UNCHANGED <<rows, made>>
    BY <1>6 DEF ReadMark
  <2>4. ASSUME NEW d \in Calls, call'[d].at = "read", call'[d].mark = m PROVE Of(call'[d].row, p, a)
    <3>1. CASE d # c
      BY <1>6, <2>4, <3>1 DEF ReadMark, Refuse, Asked, Steps, NoCall
    <3>2. CASE d = c
      <4>1. call[c] \in Asked
        BY <1>6 DEF ReadMark, NoCall
      <4>2. call'[c].at = "read" /\ call'[c].mark = m
        BY <2>4, <3>2
      <4>3. call[c].mark = m /\ rows[m] # Nil /\ call'[c].row \in {rows[m], KeptAsNote(rows[m], current[call[c].paper])}
        BY <1>6, <4>1, <4>2 DEF ReadMark, Refuse, Asked, Steps
      <4> QED BY <2>2, <3>2, <4>3
    <3> QED BY <3>1, <3>2
  <2> QED BY <2>3, <2>4
<1>7. ASSUME NEW c \in Calls, SaveMark(c) PROVE Sits(m, p, a)'
  BY <1>7 DEF SaveMark, Answer, Asked, Steps, NoCall
<1>8. ASSUME NEW c \in Calls, RemoveMark(c) PROVE Sits(m, p, a)'
  <2>1. \A d \in Calls : call'[d].at = "read" => d # c /\ call'[d] = call[d]
    BY <1>8 DEF RemoveMark, Answer, Refuse, Asked, Steps, NoCall
  <2>2. made' = made /\ rows' = [rows EXCEPT ![call[c].mark] = Nil]
    BY <1>8 DEF RemoveMark
  <2>3. rows'[m] # Nil => rows'[m] = rows[m]
    BY <2>2
  <2> QED BY <2>1, <2>2, <2>3
<1>9. ASSUME NEW c \in Calls, AnswerLost(c) PROVE Sits(m, p, a)'
  BY <1>9 DEF AnswerLost, Asked, NoCall
<1> QED BY <1>1, <1>2, <1>3, <1>4, <1>5, <1>6, <1>7, <1>8, <1>9 DEF MarksMove, ServerStep

LEMMA BelongsStays ==
  ASSUME Shape, MarksInv, MarksMove, NEW m, NEW p, Belongs(m, p)
  PROVE  Belongs(m, p)'
<1>1. PICK a \in Anchors : Sits(m, p, a)
  BY DEF Belongs
<1>2. Sits(m, p, a)'
  BY <1>1, SitsStays
<1> QED BY <1>2 DEF Belongs

Rest == UNCHANGED <<doc, paperId, state, loads, token, header, panel, crossed, replaced>>

LEMMA StepCases ==
  [Next]_vars =>
    \/ Quiet
    \/ \E p \in Papers : Request(p) \/ ChangePdf(p)
    \/ \E l \in 1 .. MaxLoads : Loading(l) \/ ListFails(l) \/ LoadFails(l)
    \/ \E c \in Calls : Add(c) \/ AnswerArrives(c) \/ Losing(c)
         \/ (Rest /\ (ServerStep(c) \/ CallFails(c)))
    \/ \E c \in Calls, i \in items, op \in {"edit", "keep", "remove"} : Touch(c, i, op)
    \/ \E c \in Calls, p \in Papers : NoteElsewhere(c, p)
    \/ \E c \in Calls, m \in Marks, op \in {"edit", "keep", "remove"} : TouchElsewhere(c, m, op)
<1>1. \A c \in Calls : Serving(c) => Rest /\ ServerStep(c)
  BY DEF Serving, Elsewhere, history, pages, Rest
<1>2. \A c \in Calls : Failing(c) => Rest /\ CallFails(c)
  BY DEF Failing, Elsewhere, pages, Rest
<1>3. ASSUME NEW c \in Calls, Add(c) \/ Serving(c) \/ Failing(c) \/ Losing(c) \/ AnswerArrives(c)
      PROVE  Add(c) \/ AnswerArrives(c) \/ Losing(c) \/ (Rest /\ (ServerStep(c) \/ CallFails(c)))
  <2>1. CASE Serving(c)
    BY <1>1, <2>1
  <2>2. CASE Failing(c)
    BY <1>2, <2>2
  <2>3. CASE Add(c) \/ AnswerArrives(c) \/ Losing(c)
    BY <2>3
  <2> QED BY <1>3, <2>1, <2>2, <2>3
<1>4. CASE Reading \/ Drawing \/ Breaking \/ UNCHANGED vars
  BY <1>4, PagesAreQuiet
<1>5. [Next]_vars =>
        \/ \E p \in Papers : Request(p) \/ ChangePdf(p)
        \/ \E l \in 1 .. MaxLoads : Loading(l) \/ ListFails(l) \/ LoadFails(l)
        \/ \E c \in Calls : Add(c) \/ Serving(c) \/ Failing(c) \/ Losing(c) \/ AnswerArrives(c)
        \/ \E c \in Calls, i \in items, op \in {"edit", "keep", "remove"} : Touch(c, i, op)
        \/ \E c \in Calls, p \in Papers : NoteElsewhere(c, p)
        \/ \E c \in Calls, m \in Marks, op \in {"edit", "keep", "remove"} : TouchElsewhere(c, m, op)
        \/ Reading \/ Drawing \/ Breaking \/ UNCHANGED vars
  BY Zenon DEF Next
<1> QED BY <1>3, <1>4, <1>5, Zenon

(* When an answer is lost, the page lets go of its call and of no more. *)
LEMMA Lost ==
  ASSUME Shape, NEW c \in Calls, Losing(c)
  PROVE  /\ UNCHANGED <<current, rows, made, doc, paperId, state, loads, token, header, items, pdfVersion,
                        replaced>>
         /\ busyId' = Nil /\ crossed' = crossed \cup {"lost"}
         /\ \A k \in Calls \ {c} : call'[k] = call[k]
         /\ call[c] \in Asked /\ call'[c] = [call[c] EXCEPT !.mine = FALSE] /\ ~Mine(c)'
         /\ call' = [call EXCEPT ![c] = call'[c]]
<1>1. call[c].at # "free" /\ call' = [call EXCEPT ![c].mine = FALSE]
  BY DEF Losing, AnswerLost
<1>2. call[c] \in Asked
  BY <1>1 DEF Shape, CallsTyped, NoCall
<1>3. UNCHANGED <<current, rows, made, doc, paperId, state, loads, token, header, items, pdfVersion,
                  replaced>>
  BY DEF Losing, AnswerLost, pages
<1>4. call'[c] = [call[c] EXCEPT !.mine = FALSE]
  BY <1>1 DEF Shape, CallsTyped
<1>5. ~Mine(c)'
  BY ONLY <1>2, <1>4 DEF Mine, Asked
<1> QED BY <1>1, <1>2, <1>3, <1>4, <1>5 DEF Losing, Shape, CallsTyped

LEMMA CallsTypedStep ==
  ASSUME Shape, CallsAreSound, [Next]_vars
  PROVE  CallsTyped'
<1> USE LimitsAssumption, BoundsAssumption DEF Shape, CallsTyped, Rest
<1>1. ASSUME NEW p \in Papers, Request(p) PROVE CallsTyped'
  BY <1>1 DEF Request, Close, server, Quiet
<1>2. ASSUME NEW p \in Papers, ChangePdf(p) PROVE CallsTyped'
  BY <1>2 DEF ChangePdf, RemovePdf, Attach, Replace, Elsewhere
<1>3. ASSUME NEW l \in 1 .. MaxLoads, RecordArrives(l) PROVE CallsTyped'
  BY <1>3 DEF RecordArrives, Reaches, server, Quiet
<1>4. ASSUME NEW l \in 1 .. MaxLoads, FileArrives(l) PROVE CallsTyped'
  BY <1>4 DEF FileArrives, Ends, server, Quiet
<1>5. ASSUME NEW l \in 1 .. MaxLoads, Opened(l) PROVE CallsTyped'
  BY <1>5 DEF Opened, Reaches, Ends, IsCurrent, server, Quiet
<1>6. ASSUME NEW l \in 1 .. MaxLoads, ListRead(l) PROVE CallsTyped'
  BY <1>6 DEF ListRead, server, Quiet
<1>7. ASSUME NEW l \in 1 .. MaxLoads, ListArrives(l) PROVE CallsTyped'
  BY <1>7 DEF ListArrives, Reaches, Ends, IsCurrent, server, Quiet
<1>8. ASSUME NEW l \in 1 .. MaxLoads, ListFails(l) PROVE CallsTyped'
  BY <1>8 DEF ListFails, Reaches, Ends, IsCurrent, server, Quiet
<1>9. ASSUME NEW l \in 1 .. MaxLoads, FirstPage(l) PROVE CallsTyped'
  BY <1>9 DEF FirstPage, Ends, Open, Overwrite, server, Quiet
<1>10. ASSUME NEW l \in 1 .. MaxLoads, LoadFails(l) PROVE CallsTyped'
  BY <1>10 DEF LoadFails, Ends, server, Quiet
<1>11. ASSUME NEW c \in Calls, Add(c) PROVE CallsTyped'
  <2>1. call' = [call EXCEPT ![c] = NewCall("create", Nil, pdfVersion, doc.file)]
    BY <1>11 DEF Add, Send, Ready
  <2>2. paperId \in Papers /\ pdfVersion \in VersionNumbers /\ doc.file \in Files \cup {Nil}
        /\ "create" \in Ops /\ Nil \in Marks \cup {Nil}
    BY <1>11 DEF Add, Send, Ready, PageTyped, VersionNumbers, Document, Item, Ops
  <2>3. NewCall("create", Nil, pdfVersion, doc.file) \in Asked
    BY <2>2, NewCallTyped
  <2> QED BY <2>1, <2>3
<1>12. ASSUME NEW c \in Calls, NEW i \in items, NEW op \in {"edit", "keep", "remove"}, Touch(c, i, op)
       PROVE CallsTyped'
  <2>1. call' = [call EXCEPT ![c] = NewCall(op, i.id, Nil, doc.file)]
    BY <1>12 DEF Touch, Send, Ready
  <2>2. paperId \in Papers /\ Nil \in VersionNumbers /\ doc.file \in Files \cup {Nil} /\ op \in Ops
        /\ i.id \in Marks \cup {Nil}
    BY <1>12 DEF Touch, Send, Ready, PageTyped, VersionNumbers, Document, Item, Ops
  <2>3. NewCall(op, i.id, Nil, doc.file) \in Asked
    BY <2>2, NewCallTyped
  <2> QED BY <2>1, <2>3
<1>13. ASSUME NEW c \in Calls, NEW p \in Papers, NoteElsewhere(c, p) PROVE CallsTyped'
  <2>1. call' = [call EXCEPT ![c] = [NewCall("note", Nil, Nil, Nil) EXCEPT !.paper = p, !.mine = FALSE]]
    BY <1>13 DEF NoteElsewhere, Send
  <2>2. p \in Papers /\ Nil \in Marks \cup {Nil} /\ "note" \in Ops
    BY <1>13 DEF NoteElsewhere, ServerTypeOK, RowType, Ops
  <2>3. [NewCall("note", Nil, Nil, Nil) EXCEPT !.paper = p, !.mine = FALSE] \in Asked
    BY ONLY <2>2 DEF NewCall, Asked, VersionNumbers, Anchors, Steps
  <2> QED BY <2>1, <2>3
<1>14. ASSUME NEW c \in Calls, NEW m \in Marks, NEW op \in {"edit", "keep", "remove"},
              TouchElsewhere(c, m, op) PROVE CallsTyped'
  <2>1. call' = [call EXCEPT ![c] = [NewCall(op, m, Nil, Nil) EXCEPT !.paper = rows[m].paper, !.mine = FALSE]]
    BY <1>14 DEF TouchElsewhere, Send
  <2>2. rows[m].paper \in Papers /\ m \in Marks \cup {Nil} /\ op \in Ops
    BY <1>14 DEF TouchElsewhere, ServerTypeOK, RowType, Ops
  <2>3. [NewCall(op, m, Nil, Nil) EXCEPT !.paper = rows[m].paper, !.mine = FALSE] \in Asked
    BY ONLY <2>2 DEF NewCall, Asked, VersionNumbers, Anchors, Steps
  <2> QED BY <2>1, <2>3
<1>15. ASSUME NEW c \in Calls, Rest, CheckCreate(c) PROVE CallsTyped'
  <2>1. call[c] \in Asked
    BY <1>15 DEF CheckCreate, Refuse, NoCall
  <2>2. \/ call'[c] = [call[c] EXCEPT !.at = "refused"]
        \/ call'[c] = [call[c] EXCEPT !.at = "checked", !.cur = IF call[c].op = "note" THEN Nil ELSE current[call[c].paper]]
    BY <1>15, <2>1 DEF CheckCreate, Refuse
  <2>3. (IF call[c].op = "note" THEN Nil ELSE current[call[c].paper]) \in Anchors
    BY <1>15, <2>1 DEF CheckCreate, Refuse, Asked, Steps, ServerTypeOK, RowType, Anchors, Marks,
       CallsAreSound, Sound
  <2>4. call'[c] \in Asked
    BY ONLY <2>1, <2>2, <2>3 DEF Asked, Steps
  <2> QED BY <1>15, <2>4 DEF CheckCreate, Refuse
<1>16. ASSUME NEW c \in Calls, Rest, Insert(c) PROVE CallsTyped'
  <2>1. call[c] \in Asked
    BY <1>16 DEF Insert, Answer, View, NoCall
  <2>2. call'[c] = [call[c] EXCEPT !.at = "ok", !.view = View(made + 1, [paper |-> call[c].paper, anchor |-> call[c].cur, madeOn |-> call[c].madeOn], call[c].cur)]
    BY <1>16, <2>1 DEF Insert, Answer, View
  <2>3. made + 1 \in Marks /\ call[c].cur \in Anchors
        /\ [paper |-> call[c].paper, anchor |-> call[c].cur, madeOn |-> call[c].madeOn] \in RowType
    BY <1>16, <2>1 DEF Insert, Answer, View, Asked, Steps, ServerTypeOK, RowType, Anchors, Marks,
       CallsAreSound, Sound
  <2>5. View(made + 1, [paper |-> call[c].paper, anchor |-> call[c].cur, madeOn |-> call[c].madeOn], call[c].cur) \in Item
    BY ONLY <2>3, ViewTyped
  <2>4. call'[c] \in Asked
    BY ONLY <2>1, <2>2, <2>5 DEF Asked, Steps
  <2> QED BY <1>16, <2>4 DEF Insert, Answer, View
<1>17. ASSUME NEW c \in Calls, Rest, ReadMark(c) PROVE CallsTyped'
  <2>1. call[c] \in Asked
    BY <1>17 DEF ReadMark, Refuse, KeptAsNote, NoCall
  <2>2. \/ call'[c] = [call[c] EXCEPT !.at = "refused"]
        \/ call'[c] = [call[c] EXCEPT !.at = "read", !.cur = current[call[c].paper],
              !.row = IF call[c].op = "keep" THEN KeptAsNote(rows[call[c].mark], current[call[c].paper]) ELSE rows[call[c].mark]]
    BY <1>17, <2>1 DEF ReadMark, Refuse, KeptAsNote
  <2>3. call'[c].at = "read" => /\ current[call[c].paper] \in Anchors
                               /\ rows[call[c].mark] \in RowType
                               /\ KeptAsNote(rows[call[c].mark], current[call[c].paper]) \in RowType
    <3>1. call'[c].at = "read" => rows[call[c].mark] # Nil /\ call[c].mark \in Marks
          /\ call[c].paper \in Papers
      BY <1>17, <2>1 DEF ReadMark, Refuse, Asked, Marks, CallsAreSound, Sound, ServerTypeOK
    <3>2. \A cur : \A row \in RowType : KeptAsNote(row, cur) \in RowType
      BY DEF KeptAsNote, RowType
    <3> QED BY <3>1, <3>2 DEF ServerTypeOK, Anchors
  <2>4. call'[c] \in Asked
    BY ONLY <2>1, <2>2, <2>3 DEF Asked, Steps
  <2> QED BY <1>17, <2>4 DEF ReadMark, Refuse, KeptAsNote
<1>18. ASSUME NEW c \in Calls, Rest, SaveMark(c) PROVE CallsTyped'
  <2>1. call[c] \in Asked
    BY <1>18 DEF SaveMark, Answer, View, NoCall
  <2>2. call'[c] = [call[c] EXCEPT !.at = "ok", !.view = View(call[c].mark, call[c].row, call[c].cur)]
    BY <1>18, <2>1 DEF SaveMark, Answer, View
  <2>3. call[c].mark \in Marks /\ call[c].cur \in Anchors /\ call[c].row \in RowType
    BY <1>18, <2>1 DEF SaveMark, Answer, View, Asked, Steps, ServerTypeOK, RowType, Anchors, Marks,
       CallsAreSound, Sound
  <2>5. View(call[c].mark, call[c].row, call[c].cur) \in Item
    BY ONLY <2>3, ViewTyped
  <2>4. call'[c] \in Asked
    BY ONLY <2>1, <2>2, <2>5 DEF Asked, Steps
  <2> QED BY <1>18, <2>4 DEF SaveMark, Answer, View
<1>19. ASSUME NEW c \in Calls, Rest, RemoveMark(c) PROVE CallsTyped'
  <2>1. call[c] \in Asked
    BY <1>19 DEF RemoveMark, Answer, Refuse, NoCall
  <2>2. \/ call'[c] = [call[c] EXCEPT !.at = "refused"]
        \/ call'[c] = [call[c] EXCEPT !.at = "ok", !.view = Nil]
    BY <1>19, <2>1 DEF RemoveMark, Answer, Refuse
  <2>4. call'[c] \in Asked
    BY ONLY <2>1, <2>2 DEF Asked, Steps
  <2> QED BY <1>19, <2>4 DEF RemoveMark, Answer, Refuse
<1>20. ASSUME NEW c \in Calls, Rest, CallFails(c) PROVE CallsTyped'
  <2>1. call[c] \in Asked
    BY <1>20 DEF CallFails, Refuse, NoCall
  <2>2. call'[c] = [call[c] EXCEPT !.at = "refused"]
    BY <1>20, <2>1 DEF CallFails, Refuse
  <2>4. call'[c] \in Asked
    BY ONLY <2>1, <2>2 DEF Asked, Steps
  <2> QED BY <1>20, <2>4 DEF CallFails, Refuse
<1>21. ASSUME NEW c \in Calls, AnswerArrives(c) PROVE CallsTyped'
  BY <1>21 DEF AnswerArrives, PanelAfter
<1>22. ASSUME Quiet PROVE CallsTyped'
  BY <1>22 DEF Quiet, server, Quiet
<1>23. ASSUME NEW c \in Calls, Losing(c) PROVE CallsTyped'
  <2>1. call[c] \in Asked /\ call'[c] = [call[c] EXCEPT !.mine = FALSE]
    BY <1>23, Lost
  <2>2. call'[c] \in Asked
    BY ONLY <2>1 DEF Asked
  <2> QED BY <1>23, <2>2, Lost
<1> QED BY <1>1, <1>2, <1>3, <1>4, <1>5, <1>6, <1>7, <1>8, <1>9, <1>10, <1>11, <1>12, <1>13, <1>14, <1>15,
      <1>16, <1>17, <1>18, <1>19, <1>20, <1>21, <1>22, <1>23, StepCases, Zenon DEF Loading, ServerStep

LEMMA ServerTypedStep ==
  ASSUME Shape, CallsAreSound, [Next]_vars
  PROVE  ServerTypeOK'
<1> USE LimitsAssumption, BoundsAssumption DEF Shape
<1>1. ASSUME NEW p \in Papers, Request(p) PROVE ServerTypeOK'
  BY <1>1 DEF Request, Close, server, ServerTypeOK
<1>2. ASSUME NEW p \in Papers, ChangePdf(p) PROVE ServerTypeOK'
  <2>1. rows' = rows /\ made' = made
    BY <1>2 DEF ChangePdf, RemovePdf, Attach, Replace, Elsewhere
  <2>2. current' \in [Papers -> Versions \cup {Nil}]
    BY <1>2 DEF ChangePdf, RemovePdf, Attach, Replace, Elsewhere, ServerTypeOK, Versions
  <2> QED BY <2>1, <2>2 DEF ServerTypeOK
<1>3. ASSUME NEW l \in 1 .. MaxLoads, RecordArrives(l) PROVE ServerTypeOK'
  BY <1>3 DEF RecordArrives, Reaches, server, ServerTypeOK
<1>4. ASSUME NEW l \in 1 .. MaxLoads, FileArrives(l) PROVE ServerTypeOK'
  BY <1>4 DEF FileArrives, Ends, server, ServerTypeOK
<1>5. ASSUME NEW l \in 1 .. MaxLoads, Opened(l) PROVE ServerTypeOK'
  BY <1>5 DEF Opened, Reaches, Ends, IsCurrent, server, ServerTypeOK
<1>6. ASSUME NEW l \in 1 .. MaxLoads, ListRead(l) PROVE ServerTypeOK'
  BY <1>6 DEF ListRead, server, ServerTypeOK
<1>7. ASSUME NEW l \in 1 .. MaxLoads, ListArrives(l) PROVE ServerTypeOK'
  BY <1>7 DEF ListArrives, Reaches, Ends, IsCurrent, server, ServerTypeOK
<1>8. ASSUME NEW l \in 1 .. MaxLoads, ListFails(l) PROVE ServerTypeOK'
  BY <1>8 DEF ListFails, Reaches, Ends, IsCurrent, server, ServerTypeOK
<1>9. ASSUME NEW l \in 1 .. MaxLoads, FirstPage(l) PROVE ServerTypeOK'
  BY <1>9 DEF FirstPage, Ends, Open, Overwrite, server, ServerTypeOK
<1>10. ASSUME NEW l \in 1 .. MaxLoads, LoadFails(l) PROVE ServerTypeOK'
  BY <1>10 DEF LoadFails, Ends, server, ServerTypeOK
<1>11. ASSUME NEW c \in Calls, Add(c) PROVE ServerTypeOK'
  BY <1>11 DEF Add, Send, NewCall, Ready, server, ServerTypeOK
<1>12. ASSUME NEW c \in Calls, NEW i \in items, NEW op \in {"edit", "keep", "remove"}, Touch(c, i, op)
       PROVE ServerTypeOK'
  BY <1>12 DEF Touch, Send, NewCall, Ready, server, ServerTypeOK
<1>13. ASSUME NEW c \in Calls, NEW p \in Papers, NoteElsewhere(c, p) PROVE ServerTypeOK'
  BY <1>13 DEF NoteElsewhere, Send, NewCall, Elsewhere, server, ServerTypeOK
<1>14. ASSUME NEW c \in Calls, NEW m \in Marks, NEW op \in {"edit", "keep", "remove"},
              TouchElsewhere(c, m, op) PROVE ServerTypeOK'
  BY <1>14 DEF TouchElsewhere, Send, NewCall, Elsewhere, server, ServerTypeOK
<1>15. ASSUME NEW c \in Calls, Rest, CheckCreate(c) PROVE ServerTypeOK'
  BY <1>15 DEF CheckCreate, Refuse, server, ServerTypeOK
<1>16. ASSUME NEW c \in Calls, Rest, Insert(c) PROVE ServerTypeOK'
  <2>1. call[c] \in Asked
    BY <1>16 DEF Insert, Answer, View, NoCall, CallsTyped
  <2>2. made' \in 0 .. MaxMarks /\ current' = current
    BY <1>16 DEF Insert, Answer, View, ServerTypeOK
  <2>3. rows' \in [Marks -> RowType \cup {Nil}]
    BY <1>16, <2>1 DEF Insert, Answer, View, ServerTypeOK, RowType, Asked, Anchors, CallsAreSound, Sound
  <2> QED BY <2>2, <2>3 DEF ServerTypeOK
<1>17. ASSUME NEW c \in Calls, Rest, ReadMark(c) PROVE ServerTypeOK'
  BY <1>17 DEF ReadMark, Refuse, KeptAsNote, server, ServerTypeOK
<1>18. ASSUME NEW c \in Calls, Rest, SaveMark(c) PROVE ServerTypeOK'
  <2>1. call[c] \in Asked
    BY <1>18 DEF SaveMark, Answer, View, NoCall, CallsTyped
  <2>2. made' \in 0 .. MaxMarks /\ current' = current
    BY <1>18 DEF SaveMark, Answer, View, ServerTypeOK
  <2>3. rows' \in [Marks -> RowType \cup {Nil}]
    BY <1>18, <2>1 DEF SaveMark, Answer, View, ServerTypeOK, RowType, Asked, Anchors, CallsAreSound, Sound
  <2> QED BY <2>2, <2>3 DEF ServerTypeOK
<1>19. ASSUME NEW c \in Calls, Rest, RemoveMark(c) PROVE ServerTypeOK'
  BY <1>19 DEF RemoveMark, Answer, Refuse, server, ServerTypeOK
<1>20. ASSUME NEW c \in Calls, Rest, CallFails(c) PROVE ServerTypeOK'
  BY <1>20 DEF CallFails, Refuse, server, ServerTypeOK
<1>21. ASSUME NEW c \in Calls, AnswerArrives(c) PROVE ServerTypeOK'
  BY <1>21 DEF AnswerArrives, PanelAfter, server, ServerTypeOK
<1>22. ASSUME Quiet PROVE ServerTypeOK'
  BY <1>22 DEF Quiet, server, ServerTypeOK
<1>23. ASSUME NEW c \in Calls, Losing(c) PROVE ServerTypeOK'
  BY <1>23, Lost DEF ServerTypeOK
<1> QED BY <1>1, <1>2, <1>3, <1>4, <1>5, <1>6, <1>7, <1>8, <1>9, <1>10, <1>11, <1>12, <1>13, <1>14, <1>15,
      <1>16, <1>17, <1>18, <1>19, <1>20, <1>21, <1>22, <1>23, StepCases, Zenon DEF Loading, ServerStep

LEMMA LoadsTypedStep ==
  ASSUME Shape, [Next]_vars
  PROVE  LoadsTyped'
<1> USE LimitsAssumption, BoundsAssumption DEF Shape, LoadsTyped
<1>1. ASSUME NEW p \in Papers, Request(p) PROVE LoadsTyped'
  <2>1. token + 1 \in 1 .. MaxLoads
    BY <1>1 DEF Request, Close, PageTyped
  <2>2. loads'[token + 1] \in Load /\ loads'[token + 1].at = "record"
    BY <1>1, <2>1 DEF Request, Load, LoadSteps, VersionNumbers
  <2> QED BY <1>1, <2>1, <2>2 DEF Request, Close
<1>2. ASSUME NEW p \in Papers, ChangePdf(p) PROVE LoadsTyped'
  BY <1>2 DEF ChangePdf, RemovePdf, Attach, Replace, Elsewhere, Rest
<1>3. ASSUME NEW l \in 1 .. MaxLoads, RecordArrives(l) PROVE LoadsTyped'
  <2>0. loads[l] \in Load
    BY <1>3 DEF RecordArrives, Reaches, NoLoad
  <2>1. loads'[l] = NoLoad \/ loads'[l] = [loads[l] EXCEPT !.at = "file"]
    BY <1>3, <2>0 DEF RecordArrives, Reaches
  <2>2. loads'[l] \in Load \cup {NoLoad}
    BY ONLY <2>0, <2>1 DEF Load, LoadSteps
  <2>3. loads'[l].at \in {"open", "list", "listed", "first"} => loads'[l].file \in Files
    BY <1>3, <2>0, <2>1 DEF Load, NoLoad, ServerTypeOK, Versions, RecordArrives, Reaches
  <2> QED BY <1>3, <2>2, <2>3 DEF RecordArrives, Reaches
<1>4. ASSUME NEW l \in 1 .. MaxLoads, FileArrives(l) PROVE LoadsTyped'
  <2>0. loads[l] \in Load
    BY <1>4 DEF FileArrives, Ends, NoLoad
  <2>1. \/ loads'[l] = NoLoad
        \/ /\ loads'[l] = [loads[l] EXCEPT !.at = "open", !.file = current[loads[l].paper].file]
           /\ current[loads[l].paper] # Nil
    <3>1. CASE current[loads[l].paper] = Nil
      <4>1. loads' = [loads EXCEPT ![l] = NoLoad]
        BY <1>4, <3>1 DEF FileArrives, Ends
      <4>2. loads'[l] = NoLoad
        BY <4>1
      <4> QED BY <4>2
    <3>2. CASE current[loads[l].paper] # Nil
      BY <1>4, <2>0, <3>2 DEF FileArrives
    <3> QED BY <3>1, <3>2
  <2>2. loads'[l] \in Load \cup {NoLoad}
    BY ONLY <2>0, <2>1, ServerTypeOK DEF Load, LoadSteps, ServerTypeOK, Versions
  <2>3. loads'[l].at \in {"open", "list", "listed", "first"} => loads'[l].file \in Files
    BY <1>4, <2>0, <2>1 DEF Load, NoLoad, ServerTypeOK, Versions, FileArrives, Ends
  <2> QED BY <1>4, <2>2, <2>3 DEF FileArrives, Ends
<1>5. ASSUME NEW l \in 1 .. MaxLoads, Opened(l) PROVE LoadsTyped'
  <2>0. loads[l] \in Load
    BY <1>5 DEF Opened, Reaches, Ends, IsCurrent, NoLoad
  <2>1. loads'[l] = NoLoad \/ loads'[l] = [loads[l] EXCEPT !.at = "list"]
    BY <1>5, <2>0 DEF Opened, Reaches, Ends, IsCurrent
  <2>2. loads'[l] \in Load \cup {NoLoad}
    BY ONLY <2>0, <2>1 DEF Load, LoadSteps
  <2>3. loads'[l].at \in {"open", "list", "listed", "first"} => loads'[l].file \in Files
    <3>1. loads[l].file \in Files
      BY <1>5 DEF Opened
    <3>2. loads'[l] # NoLoad => loads'[l].file = loads[l].file
      BY ONLY <2>0, <2>1 DEF Load
    <3> QED BY <3>1, <3>2 DEF NoLoad
  <2> QED BY <1>5, <2>2, <2>3 DEF Opened, Reaches, Ends, IsCurrent
<1>6. ASSUME NEW l \in 1 .. MaxLoads, ListRead(l) PROVE LoadsTyped'
  <2>0. loads[l] \in Load /\ loads[l].file \in Files
    BY <1>6 DEF ListRead, NoLoad
  <2>1. List(loads[l].paper) \in SUBSET Item
    <3>1. \A m \in RowsOf(loads[l].paper) : m \in Marks /\ rows[m] \in RowType
          /\ current[loads[l].paper] \in Anchors
      BY <2>0 DEF RowsOf, ServerTypeOK, Anchors, Load
    <3> QED BY <3>1, ViewTyped DEF List
  <2>2. (IF current[loads[l].paper] = Nil THEN Nil ELSE current[loads[l].paper].version) \in VersionNumbers
    BY <2>0 DEF VersionNumbers, ServerTypeOK, Versions, Load
  <2>3. loads'[l] \in Load /\ loads'[l].file = loads[l].file
    <3>1. loads'[l] = [loads[l] EXCEPT !.at = "listed", !.list = List(loads[l].paper),
            !.version = IF current[loads[l].paper] = Nil THEN Nil ELSE current[loads[l].paper].version]
      BY <1>6 DEF ListRead
    <3> QED BY ONLY <2>0, <2>1, <2>2, <3>1 DEF Load, LoadSteps
  <2> QED BY <1>6, <2>0, <2>3 DEF ListRead
<1>7. ASSUME NEW l \in 1 .. MaxLoads, ListArrives(l) PROVE LoadsTyped'
  <2>0. loads[l] \in Load
    BY <1>7 DEF ListArrives, Reaches, Ends, IsCurrent, NoLoad
  <2>1. loads'[l] = NoLoad \/ loads'[l] = [loads[l] EXCEPT !.at = "first"]
    BY <1>7, <2>0 DEF ListArrives, Reaches, Ends, IsCurrent
  <2>2. loads'[l] \in Load \cup {NoLoad}
    BY ONLY <2>0, <2>1 DEF Load, LoadSteps
  <2>3. loads'[l].at \in {"open", "list", "listed", "first"} => loads'[l].file \in Files
    <3>1. loads[l].file \in Files
      BY <1>7 DEF ListArrives
    <3>2. loads'[l] # NoLoad => loads'[l].file = loads[l].file
      BY ONLY <2>0, <2>1 DEF Load
    <3> QED BY <3>1, <3>2 DEF NoLoad
  <2> QED BY <1>7, <2>2, <2>3 DEF ListArrives, Reaches, Ends, IsCurrent
<1>8. ASSUME NEW l \in 1 .. MaxLoads, ListFails(l) PROVE LoadsTyped'
  <2>0. loads[l] \in Load
    BY <1>8 DEF ListFails, Reaches, Ends, IsCurrent, NoLoad
  <2>1. loads'[l] = NoLoad \/ loads'[l] = [loads[l] EXCEPT !.at = "first"]
    BY <1>8, <2>0 DEF ListFails, Reaches, Ends, IsCurrent
  <2>2. loads'[l] \in Load \cup {NoLoad}
    BY ONLY <2>0, <2>1 DEF Load, LoadSteps
  <2>3. loads'[l].at \in {"open", "list", "listed", "first"} => loads'[l].file \in Files
    BY <1>8, <2>0, <2>1 DEF Load, NoLoad, ServerTypeOK, Versions, ListFails, Reaches, Ends, IsCurrent
  <2> QED BY <1>8, <2>2, <2>3 DEF ListFails, Reaches, Ends, IsCurrent
<1>9. ASSUME NEW l \in 1 .. MaxLoads, FirstPage(l) PROVE LoadsTyped'
  BY <1>9 DEF FirstPage, Ends, Open, Overwrite, NoLoad
<1>10. ASSUME NEW l \in 1 .. MaxLoads, LoadFails(l) PROVE LoadsTyped'
  BY <1>10 DEF LoadFails, Ends, NoLoad
<1>11. ASSUME NEW c \in Calls, Add(c) PROVE LoadsTyped'
  BY <1>11 DEF Add, Send, NewCall, Ready, Rest
<1>12. ASSUME NEW c \in Calls, NEW i \in items, NEW op \in {"edit", "keep", "remove"}, Touch(c, i, op)
       PROVE LoadsTyped'
  BY <1>12 DEF Touch, Send, NewCall, Ready, Rest
<1>13. ASSUME NEW c \in Calls, NEW p \in Papers, NoteElsewhere(c, p) PROVE LoadsTyped'
  BY <1>13 DEF NoteElsewhere, Send, NewCall, Elsewhere, Rest
<1>14. ASSUME NEW c \in Calls, NEW m \in Marks, NEW op \in {"edit", "keep", "remove"},
              TouchElsewhere(c, m, op) PROVE LoadsTyped'
  BY <1>14 DEF TouchElsewhere, Send, NewCall, Elsewhere, Rest
<1>15. ASSUME NEW c \in Calls, Rest, CheckCreate(c) PROVE LoadsTyped'
  BY <1>15 DEF CheckCreate, Refuse, Rest
<1>16. ASSUME NEW c \in Calls, Rest, Insert(c) PROVE LoadsTyped'
  BY <1>16 DEF Insert, Answer, View, Rest
<1>17. ASSUME NEW c \in Calls, Rest, ReadMark(c) PROVE LoadsTyped'
  BY <1>17 DEF ReadMark, Refuse, KeptAsNote, Rest
<1>18. ASSUME NEW c \in Calls, Rest, SaveMark(c) PROVE LoadsTyped'
  BY <1>18 DEF SaveMark, Answer, View, Rest
<1>19. ASSUME NEW c \in Calls, Rest, RemoveMark(c) PROVE LoadsTyped'
  BY <1>19 DEF RemoveMark, Answer, Refuse, Rest
<1>20. ASSUME NEW c \in Calls, Rest, CallFails(c) PROVE LoadsTyped'
  BY <1>20 DEF CallFails, Refuse, Rest
<1>21. ASSUME NEW c \in Calls, AnswerArrives(c) PROVE LoadsTyped'
  BY <1>21 DEF AnswerArrives, PanelAfter, Rest
<1>22. ASSUME Quiet PROVE LoadsTyped'
  BY <1>22 DEF Quiet, Rest
<1>23. ASSUME NEW c \in Calls, Losing(c) PROVE LoadsTyped'
  BY <1>23, Lost
<1> QED BY <1>1, <1>2, <1>3, <1>4, <1>5, <1>6, <1>7, <1>8, <1>9, <1>10, <1>11, <1>12, <1>13, <1>14, <1>15,
      <1>16, <1>17, <1>18, <1>19, <1>20, <1>21, <1>22, <1>23, StepCases, Zenon DEF Loading, ServerStep

LEMMA PageTypedStep ==
  ASSUME Shape, CallsAreSound, LoadsInv, [Next]_vars
  PROVE  PageTyped'
<1> USE LimitsAssumption, BoundsAssumption DEF Shape, PageTyped
<1>1. ASSUME NEW p \in Papers, Request(p) PROVE PageTyped'
  BY <1>1 DEF Request, Close, panel, pages, Rest, LoadsInv, VersionNumbers
<1>2. ASSUME NEW p \in Papers, ChangePdf(p) PROVE PageTyped'
  BY <1>2 DEF ChangePdf, RemovePdf, Attach, Replace, Elsewhere, panel, pages, Rest, LoadsInv, VersionNumbers
<1>3. ASSUME NEW l \in 1 .. MaxLoads, RecordArrives(l) PROVE PageTyped'
  BY <1>3 DEF RecordArrives, Reaches, NoLoad, LoadsTyped, Load, panel, pages
<1>4. ASSUME NEW l \in 1 .. MaxLoads, FileArrives(l) PROVE PageTyped'
  BY <1>4 DEF FileArrives, Ends, panel, pages, Rest, LoadsInv, VersionNumbers
<1>5. ASSUME NEW l \in 1 .. MaxLoads, Opened(l) PROVE PageTyped'
  BY <1>5 DEF Opened, Reaches, Ends, IsCurrent, panel, pages, Rest, LoadsInv, VersionNumbers
<1>6. ASSUME NEW l \in 1 .. MaxLoads, ListRead(l) PROVE PageTyped'
  BY <1>6 DEF ListRead, panel, pages, Rest, LoadsInv, VersionNumbers
<1>7. ASSUME NEW l \in 1 .. MaxLoads, ListArrives(l) PROVE PageTyped'
  <2>1. loads[l] \in Load
    BY <1>7 DEF ListArrives, Reaches, Ends, IsCurrent, NoLoad, LoadsTyped
  <2> QED BY <1>7, <2>1 DEF ListArrives, Reaches, Ends, IsCurrent, Load, pages, search
<1>8. ASSUME NEW l \in 1 .. MaxLoads, ListFails(l) PROVE PageTyped'
  BY <1>8 DEF ListFails, Reaches, Ends, IsCurrent, panel, pages, Rest, LoadsInv, VersionNumbers
<1>9. ASSUME NEW l \in 1 .. MaxLoads, FirstPage(l) PROVE PageTyped'
  <2>1. loads[l] \in Load /\ loads[l].file \in Files
    BY <1>9 DEF FirstPage, Ends, Open, Overwrite, NoLoad, LoadsTyped
  <2>2. doc' \in Document
    BY <1>9, <2>1 DEF FirstPage, Ends, Open, Overwrite, Document, Load
  <2> QED BY <1>9, <2>1, <2>2 DEF FirstPage, Ends, Open, Overwrite, LoadsInv, Load, panel, Document
<1>10. ASSUME NEW l \in 1 .. MaxLoads, LoadFails(l) PROVE PageTyped'
  BY <1>10 DEF LoadFails, Ends, panel, pages, Rest, LoadsInv, VersionNumbers
<1>11. ASSUME NEW c \in Calls, Add(c) PROVE PageTyped'
  BY <1>11 DEF Add, Send, NewCall, Ready, panel, pages, Rest, LoadsInv, VersionNumbers
<1>12. ASSUME NEW c \in Calls, NEW i \in items, NEW op \in {"edit", "keep", "remove"}, Touch(c, i, op)
       PROVE PageTyped'
  BY <1>12 DEF Touch, Send, panel, pages, Item
<1>13. ASSUME NEW c \in Calls, NEW p \in Papers, NoteElsewhere(c, p) PROVE PageTyped'
  BY <1>13 DEF NoteElsewhere, Send, NewCall, Elsewhere, panel, pages, Rest, LoadsInv, VersionNumbers
<1>14. ASSUME NEW c \in Calls, NEW m \in Marks, NEW op \in {"edit", "keep", "remove"},
              TouchElsewhere(c, m, op) PROVE PageTyped'
  BY <1>14 DEF TouchElsewhere, Send, NewCall, Elsewhere, panel, pages, Rest, LoadsInv, VersionNumbers
<1>15. ASSUME NEW c \in Calls, Rest, CheckCreate(c) PROVE PageTyped'
  BY <1>15 DEF CheckCreate, Refuse, panel, pages, Rest, LoadsInv, VersionNumbers
<1>16. ASSUME NEW c \in Calls, Rest, Insert(c) PROVE PageTyped'
  BY <1>16 DEF Insert, Answer, View, panel, pages, Rest, LoadsInv, VersionNumbers
<1>17. ASSUME NEW c \in Calls, Rest, ReadMark(c) PROVE PageTyped'
  BY <1>17 DEF ReadMark, Refuse, KeptAsNote, panel, pages, Rest, LoadsInv, VersionNumbers
<1>18. ASSUME NEW c \in Calls, Rest, SaveMark(c) PROVE PageTyped'
  BY <1>18 DEF SaveMark, Answer, View, panel, pages, Rest, LoadsInv, VersionNumbers
<1>19. ASSUME NEW c \in Calls, Rest, RemoveMark(c) PROVE PageTyped'
  BY <1>19 DEF RemoveMark, Answer, Refuse, panel, pages, Rest, LoadsInv, VersionNumbers
<1>20. ASSUME NEW c \in Calls, Rest, CallFails(c) PROVE PageTyped'
  BY <1>20 DEF CallFails, Refuse, panel, pages, Rest, LoadsInv, VersionNumbers
<1>21. ASSUME NEW c \in Calls, AnswerArrives(c) PROVE PageTyped'
  <2>1. call[c].at = "ok" /\ call[c].mine => PanelAfter(c) \subseteq Item
    BY <1>21 DEF PanelAfter, CallsAreSound, Sound, CallsTyped, Asked, NoCall, Ops
  <2> QED BY <1>21, <2>1 DEF AnswerArrives, pages, search
<1>22. ASSUME Quiet PROVE PageTyped'
  BY <1>22 DEF Quiet, panel, pages, Rest, LoadsInv, VersionNumbers
<1>23. ASSUME NEW c \in Calls, Losing(c) PROVE PageTyped'
  BY <1>23, Lost
<1> QED BY <1>1, <1>2, <1>3, <1>4, <1>5, <1>6, <1>7, <1>8, <1>9, <1>10, <1>11, <1>12, <1>13, <1>14, <1>15,
      <1>16, <1>17, <1>18, <1>19, <1>20, <1>21, <1>22, <1>23, StepCases, Zenon DEF Loading, ServerStep

LEMMA ShapeStep ==
  ASSUME Shape, CallsAreSound, LoadsInv, [Next]_vars
  PROVE  Shape'
BY CallsTypedStep, ServerTypedStep, LoadsTypedStep, PageTypedStep DEF Shape

-----------------------------------------------------------------------------
(* Marks, step by step *)

LEMMA Inserted ==
  ASSUME Shape, MarksInv, NEW c \in Calls, Insert(c)
  PROVE  Belongs(made, call[c].paper)' /\ call'[c].paper \in Papers /\ made' \in Marks
<1> USE LimitsAssumption DEF Shape, CallsTyped, ServerTypeOK, Marks
<1>1. call[c] \in Asked
  BY DEF Insert, NoCall
<1>2. call[c].paper \in Papers /\ call[c].cur \in Anchors /\ call[c].madeOn \in Files \cup {Nil}
      /\ made + 1 \in Marks
  BY <1>1 DEF Insert, Asked
<1>3. rows'[made'] = [paper |-> call[c].paper, anchor |-> call[c].cur, madeOn |-> call[c].madeOn]
      /\ made' = made + 1
  BY <1>2 DEF Insert
<1>4. Of(rows'[made'], call[c].paper, call[c].cur)
  BY <1>2, <1>3 DEF Of, RowType, Anchors
<1>5. \A d \in Calls : call'[d].at = "read" => call'[d] = call[d] /\ d # c
  BY <1>1 DEF Insert, Answer, Asked
<1>6. \A d \in Calls : call[d].at = "read" => call[d].mark # made + 1
  BY DEF MarksInv, CallsAreSound, Sound
<1>7. call'[c].paper = call[c].paper /\ call'[c].cur = call[c].cur
  BY <1>1 DEF Insert, Answer, Asked
<1>8. Sits(made, call[c].paper, call[c].cur)'
  BY <1>2, <1>3, <1>4, <1>5, <1>6, <1>7 DEF Sits
<1> QED BY <1>2, <1>3, <1>7, <1>8 DEF Belongs

LEMMA MadeGrows ==
  ASSUME Shape, MarksMove
  PROVE  made' \in made .. made + 1 /\ made \in Nat /\ (made' # made => \E c \in Calls : Insert(c))
<1>1. made \in Nat
  BY LimitsAssumption DEF Shape, ServerTypeOK
<1>2. made' = made \/ \E c \in Calls : Insert(c)
  BY DEF MarksMove, Comes, ServerStep, CheckCreate, ReadMark, SaveMark, RemoveMark, CallFails,
     AnswerLost
<1>3. ASSUME NEW c \in Calls, Insert(c) PROVE made' = made + 1
  BY <1>3 DEF Insert
<1> QED BY <1>1, <1>2, <1>3

LEMMA LineageStep ==
  ASSUME Shape, MarksInv, MarksMove
  PROVE  OneAnchor' /\ Numbered'
<1>1. OneAnchor'
  <2> SUFFICES ASSUME NEW m \in 1 .. made' PROVE \E p \in Papers : Belongs(m, p)'
    BY DEF OneAnchor
  <2>1. CASE m \in 1 .. made
    <3>1. PICK p \in Papers : Belongs(m, p)
      BY <2>1 DEF MarksInv, OneAnchor
    <3>2. Belongs(m, p)'
      BY <3>1, BelongsStays
    <3> QED BY <3>2
  <2>2. CASE m \notin 1 .. made
    <3>1. PICK c \in Calls : Insert(c)
      BY <2>2, MadeGrows
    <3>2. m = made'
      BY <2>2, MadeGrows
    <3> QED BY <3>1, <3>2, Inserted
  <2> QED BY <2>1, <2>2
<1>2. Numbered'
  <2> USE LimitsAssumption DEF Shape, ServerTypeOK, MarksInv, Numbered, Marks
  <2>1. ASSUME NEW c \in Calls, SaveMark(c) PROVE Numbered'
    <3>1. call[c].mark \in 1 .. made
      BY <2>1 DEF SaveMark, CallsAreSound, Sound
    <3> QED BY <2>1, <3>1 DEF SaveMark
  <2>2. ASSUME NEW c \in Calls, Insert(c) PROVE Numbered'
    BY <2>2 DEF Insert
  <2>3. ASSUME NEW c \in Calls, RemoveMark(c) PROVE Numbered'
    BY <2>3 DEF RemoveMark
  <2>4. ASSUME NEW c \in Calls,
               Comes(c) \/ CallFails(c) \/ AnswerLost(c) \/ CheckCreate(c) \/ ReadMark(c) PROVE Numbered'
    BY <2>4 DEF Comes, CallFails, AnswerLost, CheckCreate, ReadMark
  <2>5. CASE UNCHANGED <<rows, made, call>>
    BY <2>5
  <2> QED BY <2>1, <2>2, <2>3, <2>4, <2>5, Zenon DEF MarksMove, ServerStep
<1> QED BY <1>1, <1>2

LEMMA OthersStaySound ==
  ASSUME Shape, MarksInv, MarksMove, NEW c \in Calls, call'[c] = call[c]
  PROVE  Sound(c)'
<1>1. made' >= made /\ made \in Nat /\ made' \in Nat
  BY MadeGrows
<1>2. call[c].at = "ok" /\ call[c].op = "create" => Belongs(call[c].view.id, call[c].paper)'
  <2> SUFFICES ASSUME call[c].at = "ok", call[c].op = "create"
               PROVE Belongs(call[c].view.id, call[c].paper)'
    OBVIOUS
  <2>1. Belongs(call[c].view.id, call[c].paper) /\ call[c].paper \in Papers
    BY DEF MarksInv, CallsAreSound, Sound, Shape, CallsTyped, Asked, NoCall
  <2>2. \A m : \A p \in Papers : Belongs(m, p) => Belongs(m, p)'
    BY BelongsStays
  <2>3. PICK m, p : m = call[c].view.id /\ p = call[c].paper
    OBVIOUS
  <2>4. Belongs(m, p)'
    BY <2>1, <2>2, <2>3
  <2> QED BY <2>3, <2>4
<1> QED BY <1>1, <1>2 DEF MarksInv, CallsAreSound, Sound

LEMMA CallsMove ==
  ASSUME Shape, MarksInv, [Next]_vars
  PROVE  \A d \in Calls : call'[d] = call[d] \/ Sound(d)'
<1> USE LimitsAssumption DEF Shape, CallsTyped, MarksInv, Rest
<1>1. ASSUME NEW p \in Papers, Request(p) PROVE \A d \in Calls : call'[d] = call[d] \/ Sound(d)'
  BY <1>1 DEF Request, Close, server
<1>2. ASSUME NEW p \in Papers, ChangePdf(p) PROVE \A d \in Calls : call'[d] = call[d] \/ Sound(d)'
  BY <1>2 DEF ChangePdf, RemovePdf, Attach, Replace, Elsewhere, server
<1>3. ASSUME NEW l \in 1 .. MaxLoads, RecordArrives(l) PROVE \A d \in Calls : call'[d] = call[d]
             \/ Sound(d)'
  BY <1>3 DEF RecordArrives, Reaches, server
<1>4. ASSUME NEW l \in 1 .. MaxLoads, FileArrives(l) PROVE \A d \in Calls : call'[d] = call[d] \/ Sound(d)'
  BY <1>4 DEF FileArrives, Ends, server
<1>5. ASSUME NEW l \in 1 .. MaxLoads, Opened(l) PROVE \A d \in Calls : call'[d] = call[d] \/ Sound(d)'
  BY <1>5 DEF Opened, Reaches, Ends, IsCurrent, server
<1>6. ASSUME NEW l \in 1 .. MaxLoads, ListRead(l) PROVE \A d \in Calls : call'[d] = call[d] \/ Sound(d)'
  BY <1>6 DEF ListRead, server
<1>7. ASSUME NEW l \in 1 .. MaxLoads, ListArrives(l) PROVE \A d \in Calls : call'[d] = call[d] \/ Sound(d)'
  BY <1>7 DEF ListArrives, Reaches, Ends, IsCurrent, server
<1>8. ASSUME NEW l \in 1 .. MaxLoads, ListFails(l) PROVE \A d \in Calls : call'[d] = call[d] \/ Sound(d)'
  BY <1>8 DEF ListFails, Reaches, Ends, IsCurrent, server
<1>9. ASSUME NEW l \in 1 .. MaxLoads, FirstPage(l) PROVE \A d \in Calls : call'[d] = call[d] \/ Sound(d)'
  BY <1>9 DEF FirstPage, Ends, Open, Overwrite, server
<1>10. ASSUME NEW l \in 1 .. MaxLoads, LoadFails(l) PROVE \A d \in Calls : call'[d] = call[d] \/ Sound(d)'
  BY <1>10 DEF LoadFails, Ends, server
<1>11. ASSUME NEW c \in Calls, Add(c) PROVE \A d \in Calls : call'[d] = call[d] \/ Sound(d)'
  <2>1. \A d \in Calls \ {c} : call'[d] = call[d]
    BY <1>11 DEF Add, Send, NewCall, Ready
  <2>2. call'[c].at = "sent" /\ call'[c].op = "create"
    BY <1>11 DEF Add, Send, NewCall, Ready
  <2>3. made' = made
    BY <1>11 DEF Add, Send, NewCall, Ready
  <2>4. Sound(c)'
    BY <1>11, <2>2, <2>3 DEF Sound, Numbered, Heard, Add
  <2> QED BY <2>1, <2>4
<1>12. ASSUME NEW c \in Calls, NEW i \in items, NEW op \in {"edit", "keep", "remove"}, Touch(c, i, op)
       PROVE \A d \in Calls : call'[d] = call[d] \/ Sound(d)'
  <2>1. \A d \in Calls \ {c} : call'[d] = call[d]
    BY <1>12 DEF Touch, Send, NewCall, Ready
  <2>2. call'[c].at = "sent" /\ call'[c].op = op /\ call'[c].mark = i.id
    BY <1>12 DEF Touch, Send, NewCall, Ready
  <2>3. made' = made
    BY <1>12 DEF Touch, Send, NewCall, Ready
  <2>4. Sound(c)'
    BY <1>12, <2>2, <2>3 DEF Sound, Numbered, Heard, Touch
  <2> QED BY <2>1, <2>4
<1>13. ASSUME NEW c \in Calls, NEW p \in Papers, NoteElsewhere(c, p)
       PROVE \A d \in Calls : call'[d] = call[d] \/ Sound(d)'
  <2>1. \A d \in Calls \ {c} : call'[d] = call[d]
    BY <1>13 DEF NoteElsewhere, Send, NewCall, Elsewhere
  <2>2. call'[c].at = "sent" /\ call'[c].op = "note" /\ ~call'[c].mine
    BY <1>13 DEF NoteElsewhere, Send, NewCall, Elsewhere
  <2>3. made' = made
    BY <1>13 DEF NoteElsewhere, Send, NewCall, Elsewhere
  <2>4. Sound(c)'
    BY <1>13, <2>2, <2>3 DEF Sound, Numbered, Heard, Add
  <2> QED BY <2>1, <2>4
<1>14. ASSUME NEW c \in Calls, NEW m \in Marks, NEW op \in {"edit", "keep", "remove"},
              TouchElsewhere(c, m, op) PROVE \A d \in Calls : call'[d] = call[d] \/ Sound(d)'
  <2>1. \A d \in Calls \ {c} : call'[d] = call[d]
    BY <1>14 DEF TouchElsewhere, Send, NewCall, Elsewhere
  <2>2. call'[c].at = "sent" /\ call'[c].op = op /\ call'[c].mark = m
    BY <1>14 DEF TouchElsewhere, Send, NewCall, Elsewhere
  <2>3. made' = made
    BY <1>14 DEF TouchElsewhere, Send, NewCall, Elsewhere
  <2>4. Sound(c)'
    BY <1>14, <2>2, <2>3 DEF Sound, Numbered, Heard, TouchElsewhere, Marks, ServerTypeOK
  <2> QED BY <2>1, <2>4
<1>15. ASSUME NEW c \in Calls, Rest, CheckCreate(c) PROVE \A d \in Calls : call'[d] = call[d] \/ Sound(d)'
  <2>1. \A d \in Calls \ {c} : call'[d] = call[d]
    BY <1>15 DEF CheckCreate, Refuse
  <2>2. call[c] \in Asked /\ Sound(c)
    BY <1>15 DEF CheckCreate, Refuse, NoCall, CallsAreSound
  <2>4. Sound(c)'
    BY <1>15, <2>2 DEF CheckCreate, Refuse, Sound, Asked
  <2> QED BY <2>1, <2>4
<1>16. ASSUME NEW c \in Calls, Rest, Insert(c) PROVE \A d \in Calls : call'[d] = call[d] \/ Sound(d)'
  <2>1. \A d \in Calls \ {c} : call'[d] = call[d]
    BY <1>16 DEF Insert, Answer, View
  <2>2. call[c] \in Asked /\ Sound(c)
    BY <1>16 DEF Insert, Answer, View, NoCall, CallsAreSound
  <2>3. Belongs(made, call[c].paper)' /\ call'[c].paper = call[c].paper /\ made' = made + 1
        /\ made + 1 \in Marks
    BY <1>16, <2>2, Inserted DEF Insert, Answer, View, Asked, ServerTypeOK, Marks, MarksInv
  <2>5. View(made + 1, [paper |-> call[c].paper, anchor |-> call[c].cur, madeOn |-> call[c].madeOn], call[c].cur) \in Item
    <3>1. call[c].cur \in Anchors /\ [paper |-> call[c].paper, anchor |-> call[c].cur, madeOn |-> call[c].madeOn] \in RowType
      BY <2>2 DEF Asked, RowType, Anchors
    <3> QED BY <2>3, <3>1, ViewTyped
  <2>6. call'[c].at = "ok" /\ call'[c].op \in {"create", "note"} /\ call'[c].view \in Item
        /\ call'[c].view.id = made'
    BY <1>16, <2>2, <2>3, <2>5 DEF Insert, Answer, View, Asked, Sound
  <2>7. call'[c].mine => call'[c].op # "note"
    BY <1>16, <2>2 DEF Insert, Answer, View, Asked, Sound
  <2>8. made' \in 1 .. made'
    BY <2>3 DEF Marks
  <2>4. Sound(c)'
    BY <2>3, <2>6, <2>7, <2>8 DEF Sound
  <2> QED BY <2>1, <2>4
<1>17. ASSUME NEW c \in Calls, Rest, ReadMark(c) PROVE \A d \in Calls : call'[d] = call[d] \/ Sound(d)'
  <2>1. \A d \in Calls \ {c} : call'[d] = call[d]
    BY <1>17 DEF ReadMark, Refuse, KeptAsNote
  <2>2. call[c] \in Asked /\ Sound(c)
    BY <1>17 DEF ReadMark, Refuse, KeptAsNote, NoCall, CallsAreSound
  <2>3. call'[c].at \in {"read", "refused"} /\ call'[c].op = call[c].op /\ call'[c].mark = call[c].mark
        /\ call'[c].mine = call[c].mine /\ made' = made
    BY <1>17, <2>2 DEF ReadMark, Refuse, KeptAsNote, Asked
  <2>5. call'[c].at = "read" => call'[c].row \in RowType
    <3>1. call[c].mark \in Marks
      BY <1>17, <2>2 DEF ReadMark, Refuse, KeptAsNote, Sound, ServerTypeOK, Marks
    <3>2. call'[c].at = "read" => rows[call[c].mark] \in RowType
      BY <1>17, <2>2, <3>1 DEF ReadMark, Refuse, KeptAsNote, Asked, ServerTypeOK
    <3>3. \A row \in RowType : [row EXCEPT !.anchor = Nil] \in RowType
      BY DEF RowType
    <3> QED BY <1>17, <2>2, <3>2, <3>3 DEF ReadMark, Refuse, KeptAsNote, Asked
  <2>4. Sound(c)'
    BY <1>17, <2>2, <2>3, <2>5 DEF Sound, ReadMark
  <2> QED BY <2>1, <2>4
<1>18. ASSUME NEW c \in Calls, Rest, SaveMark(c) PROVE \A d \in Calls : call'[d] = call[d] \/ Sound(d)'
  <2>1. \A d \in Calls \ {c} : call'[d] = call[d]
    BY <1>18 DEF SaveMark, Answer, View
  <2>2. call[c] \in Asked /\ Sound(c)
    BY <1>18 DEF SaveMark, Answer, View, NoCall, CallsAreSound
  <2>3. call[c].mark \in 1 .. made /\ call[c].row \in RowType /\ call[c].cur \in Anchors
        /\ 1 .. made \subseteq Marks
    BY <1>18, <2>2 DEF SaveMark, Answer, View, Asked, Sound, ServerTypeOK, Marks
  <2>5. View(call[c].mark, call[c].row, call[c].cur) \in Item
    BY <2>3, ViewTyped
  <2>6. call'[c].view = View(call[c].mark, call[c].row, call[c].cur) /\ call'[c].view.id = call[c].mark
    BY <1>18, <2>2 DEF SaveMark, Answer, View, Asked
  <2>4. Sound(c)'
    BY <1>18, <2>2, <2>3, <2>5, <2>6 DEF SaveMark, Answer, Asked, Sound
  <2> QED BY <2>1, <2>4
<1>19. ASSUME NEW c \in Calls, Rest, RemoveMark(c) PROVE \A d \in Calls : call'[d] = call[d] \/ Sound(d)'
  <2>1. \A d \in Calls \ {c} : call'[d] = call[d]
    BY <1>19 DEF RemoveMark, Answer, Refuse
  <2>2. call[c] \in Asked /\ Sound(c)
    BY <1>19 DEF RemoveMark, Answer, Refuse, NoCall, CallsAreSound
  <2>4. Sound(c)'
    BY <1>19, <2>2 DEF RemoveMark, Answer, Refuse, Asked, Sound
  <2> QED BY <2>1, <2>4
<1>20. ASSUME NEW c \in Calls, Rest, CallFails(c) PROVE \A d \in Calls : call'[d] = call[d] \/ Sound(d)'
  <2>1. \A d \in Calls \ {c} : call'[d] = call[d]
    BY <1>20 DEF CallFails, Refuse
  <2>2. call[c] \in Asked /\ Sound(c)
    BY <1>20 DEF CallFails, Refuse, NoCall, CallsAreSound
  <2>4. Sound(c)'
    BY <1>20, <2>2 DEF CallFails, Refuse, Sound, Asked
  <2> QED BY <2>1, <2>4
<1>21. ASSUME NEW c \in Calls, AnswerArrives(c) PROVE \A d \in Calls : call'[d] = call[d] \/ Sound(d)'
  <2>1. \A d \in Calls \ {c} : call'[d] = call[d]
    BY <1>21 DEF AnswerArrives, PanelAfter
  <2>2. Sound(c)'
    BY <1>21 DEF AnswerArrives, PanelAfter, Sound, NoCall
  <2> QED BY <2>1, <2>2
<1>22. ASSUME Quiet PROVE \A d \in Calls : call'[d] = call[d] \/ Sound(d)'
  BY <1>22 DEF Quiet, server
<1>23. ASSUME NEW c \in Calls, Losing(c) PROVE \A d \in Calls : call'[d] = call[d] \/ Sound(d)'
  <2>1. Sound(c) /\ call[c] \in Asked /\ call'[c] = [call[c] EXCEPT !.mine = FALSE] /\ made' = made
    BY <1>23, Lost DEF CallsAreSound
  <2>2. \A m, p : Belongs(m, p) => Belongs(m, p)'
    BY NextMovesMarks, BelongsStays DEF MarksInv
  <2>3. PICK m, p : m = call[c].view.id /\ p = call[c].paper
    OBVIOUS
  <2>4. Belongs(m, p) => Belongs(m, p)'
    BY <2>2
  <2>5. Sound(c)'
    BY ONLY <2>1, <2>3, <2>4 DEF Sound, Asked
  <2> QED BY <1>23, <2>5, Lost
<1> QED BY <1>1, <1>2, <1>3, <1>4, <1>5, <1>6, <1>7, <1>8, <1>9, <1>10, <1>11, <1>12, <1>13, <1>14, <1>15,
      <1>16, <1>17, <1>18, <1>19, <1>20, <1>21, <1>22, <1>23, StepCases, Zenon DEF Loading, ServerStep

LEMMA HeardStep ==
  ASSUME Shape, MarksInv, [Next]_vars
  PROVE  Heard'
<1> USE LimitsAssumption, BoundsAssumption DEF Shape, CallsTyped, LoadsTyped, MarksInv, Heard, Rest
<1>1. ASSUME NEW p \in Papers, Request(p) PROVE Heard'
  BY <1>1 DEF Request, Close, server, PageTyped
<1>2. ASSUME NEW p \in Papers, ChangePdf(p) PROVE Heard'
  BY <1>2 DEF ChangePdf, RemovePdf, Attach, Replace, Elsewhere, panel, server
<1>3. ASSUME NEW l \in 1 .. MaxLoads, RecordArrives(l) PROVE Heard'
  BY <1>3 DEF RecordArrives, Reaches, server, panel, NoLoad, Load
<1>4. ASSUME NEW l \in 1 .. MaxLoads, FileArrives(l) PROVE Heard'
  <2>1. loads[l] \in Load
    BY <1>4 DEF FileArrives, Ends, NoLoad
  <2>2. loads'[l] = NoLoad \/ loads'[l].list = loads[l].list
    BY <1>4, <2>1 DEF FileArrives, Ends, Load
  <2>3. \A k \in 1 .. MaxLoads : k # l => loads'[k] = loads[k]
    BY <1>4 DEF FileArrives, Ends
  <2>4. made' = made /\ loads[l].at # "none"
    BY <1>4 DEF FileArrives, Ends, server
  <2>5. \A i \in items' : i.id \in 1 .. made
    BY <1>4, <2>4 DEF FileArrives, Ends, panel
  <2>6. \A k \in 1 .. MaxLoads : loads'[k].at # "none" => \A i \in loads'[k].list : i.id \in 1 .. made
    BY <2>2, <2>3, <2>4 DEF NoLoad
  <2> QED BY ONLY <2>4, <2>5, <2>6 DEF Heard
<1>5. ASSUME NEW l \in 1 .. MaxLoads, Opened(l) PROVE Heard'
  <2>1. loads[l] \in Load
    BY <1>5 DEF Opened, Reaches, Ends, IsCurrent, NoLoad
  <2>2. loads'[l] = NoLoad \/ loads'[l].list = loads[l].list
    BY <1>5, <2>1 DEF Opened, Reaches, Ends, IsCurrent, Load
  <2>3. \A k \in 1 .. MaxLoads : k # l => loads'[k] = loads[k]
    BY <1>5 DEF Opened, Reaches, Ends, IsCurrent
  <2>4. made' = made /\ loads[l].at # "none"
    BY <1>5 DEF Opened, Reaches, Ends, IsCurrent, server
  <2>5. \A i \in items' : i.id \in 1 .. made
    BY <1>5, <2>4 DEF Opened, Reaches, Ends, IsCurrent, panel
  <2>6. \A k \in 1 .. MaxLoads : loads'[k].at # "none" => \A i \in loads'[k].list : i.id \in 1 .. made
    BY <2>2, <2>3, <2>4 DEF NoLoad
  <2> QED BY ONLY <2>4, <2>5, <2>6 DEF Heard
<1>6. ASSUME NEW l \in 1 .. MaxLoads, ListRead(l) PROVE Heard'
  <2>1. \A i \in List(loads[l].paper) : i.id \in 1 .. made
    BY DEF List, View, RowsOf, Numbered, Marks, ServerTypeOK
  <2> QED BY <1>6, <2>1 DEF ListRead, server, panel, Load, NoLoad
<1>7. ASSUME NEW l \in 1 .. MaxLoads, ListArrives(l) PROVE Heard'
  <2>1. loads[l] \in Load
    BY <1>7 DEF ListArrives, Reaches, Ends, IsCurrent, NoLoad
  <2>2. loads'[l] = NoLoad \/ loads'[l].list = loads[l].list
    BY <1>7, <2>1 DEF ListArrives, Reaches, Ends, IsCurrent, Load
  <2>3. \A k \in 1 .. MaxLoads : k # l => loads'[k] = loads[k]
    BY <1>7 DEF ListArrives, Reaches, Ends, IsCurrent
  <2>4. made' = made /\ loads[l].at # "none"
    BY <1>7 DEF ListArrives, Reaches, Ends, IsCurrent, server
  <2>5. \A i \in items' : i.id \in 1 .. made
    BY <1>7, <2>4 DEF ListArrives, Reaches, Ends, IsCurrent, panel
  <2>6. \A k \in 1 .. MaxLoads : loads'[k].at # "none" => \A i \in loads'[k].list : i.id \in 1 .. made
    BY <2>2, <2>3, <2>4 DEF NoLoad
  <2> QED BY ONLY <2>4, <2>5, <2>6 DEF Heard
<1>8. ASSUME NEW l \in 1 .. MaxLoads, ListFails(l) PROVE Heard'
  <2>1. loads[l] \in Load
    BY <1>8 DEF ListFails, Reaches, Ends, IsCurrent, NoLoad
  <2>2. loads'[l] = NoLoad \/ loads'[l].list = loads[l].list
    BY <1>8, <2>1 DEF ListFails, Reaches, Ends, IsCurrent, Load
  <2>3. \A k \in 1 .. MaxLoads : k # l => loads'[k] = loads[k]
    BY <1>8 DEF ListFails, Reaches, Ends, IsCurrent
  <2>4. made' = made /\ loads[l].at # "none"
    BY <1>8 DEF ListFails, Reaches, Ends, IsCurrent, server
  <2>5. \A i \in items' : i.id \in 1 .. made
    BY <1>8, <2>4 DEF ListFails, Reaches, Ends, IsCurrent, panel
  <2>6. \A k \in 1 .. MaxLoads : loads'[k].at # "none" => \A i \in loads'[k].list : i.id \in 1 .. made
    BY <2>2, <2>3, <2>4 DEF NoLoad
  <2> QED BY ONLY <2>4, <2>5, <2>6 DEF Heard
<1>9. ASSUME NEW l \in 1 .. MaxLoads, FirstPage(l) PROVE Heard'
  BY <1>9 DEF FirstPage, Ends, Open, Overwrite, server, panel, NoLoad, Load
<1>10. ASSUME NEW l \in 1 .. MaxLoads, LoadFails(l) PROVE Heard'
  BY <1>10 DEF LoadFails, Ends, server, panel, NoLoad, Load
<1>11. ASSUME NEW c \in Calls, Add(c) PROVE Heard'
  BY <1>11 DEF Add, Send, NewCall, Ready, panel, server
<1>12. ASSUME NEW c \in Calls, NEW i \in items, NEW op \in {"edit", "keep", "remove"}, Touch(c, i, op)
       PROVE Heard'
  BY <1>12 DEF Touch, Send, NewCall, Ready, panel, server
<1>13. ASSUME NEW c \in Calls, NEW p \in Papers, NoteElsewhere(c, p) PROVE Heard'
  BY <1>13 DEF NoteElsewhere, Send, NewCall, Elsewhere, panel, server
<1>14. ASSUME NEW c \in Calls, NEW m \in Marks, NEW op \in {"edit", "keep", "remove"},
              TouchElsewhere(c, m, op) PROVE Heard'
  BY <1>14 DEF TouchElsewhere, Send, NewCall, Elsewhere, panel, server
<1>15. ASSUME NEW c \in Calls, Rest, CheckCreate(c) PROVE Heard'
  <2>1. made' >= made /\ made \in Nat /\ made' \in Nat
    BY <1>15, MadeGrows, NextMovesMarks
  <2> QED BY <2>1, <1>15 DEF panel
<1>16. ASSUME NEW c \in Calls, Rest, Insert(c) PROVE Heard'
  <2>1. made' >= made /\ made \in Nat /\ made' \in Nat
    BY <1>16, MadeGrows, NextMovesMarks
  <2> QED BY <2>1, <1>16 DEF panel
<1>17. ASSUME NEW c \in Calls, Rest, ReadMark(c) PROVE Heard'
  <2>1. made' >= made /\ made \in Nat /\ made' \in Nat
    BY <1>17, MadeGrows, NextMovesMarks
  <2> QED BY <2>1, <1>17 DEF panel
<1>18. ASSUME NEW c \in Calls, Rest, SaveMark(c) PROVE Heard'
  <2>1. made' >= made /\ made \in Nat /\ made' \in Nat
    BY <1>18, MadeGrows, NextMovesMarks
  <2> QED BY <2>1, <1>18 DEF panel
<1>19. ASSUME NEW c \in Calls, Rest, RemoveMark(c) PROVE Heard'
  <2>1. made' >= made /\ made \in Nat /\ made' \in Nat
    BY <1>19, MadeGrows, NextMovesMarks
  <2> QED BY <2>1, <1>19 DEF panel
<1>20. ASSUME NEW c \in Calls, Rest, CallFails(c) PROVE Heard'
  <2>1. made' >= made /\ made \in Nat /\ made' \in Nat
    BY <1>20, MadeGrows, NextMovesMarks
  <2> QED BY <2>1, <1>20 DEF panel
<1>21. ASSUME NEW c \in Calls, AnswerArrives(c) PROVE Heard'
  <2>1. call[c].at = "ok" /\ call[c].op # "remove" => call[c].view.id \in 1 .. made
    BY <1>21 DEF CallsAreSound, Sound
  <2>2. call[c].at = "ok" => \A i \in PanelAfter(c) : i.id \in 1 .. made
    BY <1>21, <2>1 DEF PanelAfter, Asked, Ops, NoCall
  <2>3. \A i \in items' : i.id \in 1 .. made'
    BY <1>21, <2>2 DEF AnswerArrives
  <2> QED BY <1>21, <2>3 DEF AnswerArrives
<1>22. ASSUME Quiet PROVE Heard'
  BY <1>22 DEF Quiet, panel, server
<1>23. ASSUME NEW c \in Calls, Losing(c) PROVE Heard'
  <2>1. UNCHANGED <<made, items, loads>>
    BY <1>23, Lost
  <2> QED BY <2>1
<1> QED BY <1>1, <1>2, <1>3, <1>4, <1>5, <1>6, <1>7, <1>8, <1>9, <1>10, <1>11, <1>12, <1>13, <1>14, <1>15,
      <1>16, <1>17, <1>18, <1>19, <1>20, <1>21, <1>22, <1>23, StepCases, Zenon DEF Loading, ServerStep

LEMMA MarksStep ==
  ASSUME Shape, MarksInv, [Next]_vars
  PROVE  MarksInv'
<1>1. MarksMove
  BY NextMovesMarks
<1>2. CallsAreSound'
  <2>1. \A c \in Calls : call'[c] = call[c] \/ Sound(c)'
    BY CallsMove
  <2> QED BY <1>1, <2>1, OthersStaySound DEF CallsAreSound
<1> QED BY <1>1, <1>2, LineageStep, HeardStep DEF MarksInv

LEMMA LoadsInvStep ==
  ASSUME Shape, LoadsInv, [Next]_vars
  PROVE  LoadsInv'
<1> USE LimitsAssumption, BoundsAssumption DEF Shape, LoadsTyped, PageTyped, LoadsInv
<1>1. ASSUME NEW p \in Papers, Request(p) PROVE LoadsInv'
  <2>1. token' = token + 1 /\ token' \in 1 .. MaxLoads /\ state' = "loading" /\ paperId' = p
    BY <1>1 DEF Request, Close
  <2>2. loads'[token'].at = "record" /\ loads'[token'].paper = p
    BY <1>1, <2>1 DEF Request, Close
  <2>3. \A l \in 1 .. MaxLoads : l # token' => loads'[l] = loads[l]
    BY <1>1, <2>1 DEF Request, Close
  <2>4. \A l \in 1 .. MaxLoads : loads[l].at \in {"first", "record"} => loads[l].at \in crossed'
    BY <1>1 DEF Request, Close, Waiting
  <2>5. crossed \ {"lost"} \subseteq crossed' /\ token \in Nat /\ 1 .. token \subseteq 1 .. MaxLoads
    BY <1>1 DEF Request, Close
  <2>6. \A l \in 1 .. MaxLoads : loads'[l].at # "none" => l <= token'
    BY <2>1, <2>3, <2>5
  <2>7. \A l \in 1 .. MaxLoads : l # token' /\ loads'[l].at \in {"first", "record"}
        => loads'[l].at \in crossed'
    BY <2>3, <2>4
  <2> QED BY <2>1, <2>2, <2>6, <2>7 DEF Past
<1>2. ASSUME NEW p \in Papers, ChangePdf(p) PROVE LoadsInv'
  BY <1>2 DEF ChangePdf, RemovePdf, Attach, Replace, Elsewhere, pages, panel
<1>3. ASSUME NEW l \in 1 .. MaxLoads, RecordArrives(l) PROVE LoadsInv'
  <2>1. loads[l] \in Load
    BY <1>3 DEF RecordArrives, Reaches, NoLoad
  <2>2. (loads'[l].at = "none" /\ (l = token => state' # "ready" /\ state' # "loading"))
        \/ ((loads'[l].at = "file" /\ loads'[l].paper = loads[l].paper) /\ state' = state)
    BY <1>3, <2>1 DEF RecordArrives, Reaches, Load, NoLoad
  <2>3. \A k \in 1 .. MaxLoads : k # l => loads'[k] = loads[k]
    BY <1>3 DEF RecordArrives, Reaches
  <2>4. (l # token => state' = state) /\ UNCHANGED <<doc, paperId, token, crossed>>
        /\ (header' = loads[l].paper)
    BY <1>3 DEF RecordArrives, Reaches, pages, history, panel
  <2>5. loads[l].at \in {"record"} /\ l <= token
    BY <1>3 DEF RecordArrives, Reaches, Past
  <2> QED BY <2>2, <2>3, <2>4, <2>5 DEF Past
<1>4. ASSUME NEW l \in 1 .. MaxLoads, FileArrives(l) PROVE LoadsInv'
  <2>1. loads[l] \in Load
    BY <1>4 DEF FileArrives, Ends, NoLoad
  <2>2. (loads'[l].at = "none" /\ (l = token => state' # "ready" /\ state' # "loading"))
        \/ ((loads'[l].at = "open" /\ loads'[l].paper = loads[l].paper) /\ state' = state)
    BY <1>4, <2>1 DEF FileArrives, Ends, Load, NoLoad
  <2>3. \A k \in 1 .. MaxLoads : k # l => loads'[k] = loads[k]
    BY <1>4 DEF FileArrives, Ends
  <2>4. (l # token => state' = state) /\ UNCHANGED <<doc, paperId, token, crossed>> /\ (header' = header)
    BY <1>4 DEF FileArrives, Ends, pages, history, panel
  <2>5. loads[l].at \in {"file"} /\ l <= token
    BY <1>4 DEF FileArrives, Ends, Past
  <2> QED BY <2>2, <2>3, <2>4, <2>5 DEF Past
<1>5. ASSUME NEW l \in 1 .. MaxLoads, Opened(l) PROVE LoadsInv'
  <2>1. loads[l] \in Load
    BY <1>5 DEF Opened, Reaches, Ends, IsCurrent, NoLoad
  <2>2. (loads'[l].at = "none" /\ (l = token => state' # "ready" /\ state' # "loading"))
        \/ ((l = token /\ loads'[l].at = "list" /\ loads'[l].paper = loads[l].paper) /\ state' = state)
    BY <1>5, <2>1 DEF Opened, Reaches, Ends, IsCurrent, Load, NoLoad
  <2>3. \A k \in 1 .. MaxLoads : k # l => loads'[k] = loads[k]
    BY <1>5 DEF Opened, Reaches, Ends, IsCurrent
  <2>4. (l # token => state' = state) /\ UNCHANGED <<doc, paperId, token, crossed>> /\ (header' = header)
    BY <1>5 DEF Opened, Reaches, Ends, IsCurrent, pages, history, panel
  <2>5. loads[l].at \in Past /\ l <= token
    BY <1>5 DEF Opened, Reaches, Ends, IsCurrent, Past
  <2> QED BY <2>2, <2>3, <2>4, <2>5 DEF Past
<1>6. ASSUME NEW l \in 1 .. MaxLoads, ListRead(l) PROVE LoadsInv'
  <2>1. loads[l] \in Load
    BY <1>6 DEF ListRead, NoLoad
  <2>2. (loads'[l].at = "none" /\ (l = token => state' # "ready" /\ state' # "loading"))
        \/ ((loads'[l].at = "listed" /\ loads'[l].paper = loads[l].paper) /\ state' = state)
    BY <1>6, <2>1 DEF ListRead, Load, NoLoad
  <2>3. \A k \in 1 .. MaxLoads : k # l => loads'[k] = loads[k]
    BY <1>6 DEF ListRead
  <2>4. (l # token => state' = state) /\ UNCHANGED <<doc, paperId, token, crossed>> /\ (header' = header)
    BY <1>6 DEF ListRead, pages, history, panel
  <2>5. loads[l].at \in Past /\ l <= token
    BY <1>6 DEF ListRead, Past
  <2> QED BY <2>2, <2>3, <2>4, <2>5 DEF Past
<1>7. ASSUME NEW l \in 1 .. MaxLoads, ListArrives(l) PROVE LoadsInv'
  <2>1. loads[l] \in Load
    BY <1>7 DEF ListArrives, Reaches, Ends, IsCurrent, NoLoad
  <2>2. (loads'[l].at = "none" /\ (l = token => state' # "ready" /\ state' # "loading"))
        \/ ((l = token /\ loads'[l].at = "first" /\ loads'[l].paper = loads[l].paper) /\ state' = state)
    BY <1>7, <2>1 DEF ListArrives, Reaches, Ends, IsCurrent, Load, NoLoad
  <2>3. \A k \in 1 .. MaxLoads : k # l => loads'[k] = loads[k]
    BY <1>7 DEF ListArrives, Reaches, Ends, IsCurrent
  <2>4. (l # token => state' = state) /\ UNCHANGED <<doc, paperId, token, crossed>> /\ (header' = header)
    BY <1>7 DEF ListArrives, Reaches, Ends, IsCurrent, pages, history, panel
  <2>5. loads[l].at \in Past /\ l <= token
    BY <1>7 DEF ListArrives, Reaches, Ends, IsCurrent, Past
  <2> QED BY <2>2, <2>3, <2>4, <2>5 DEF Past
<1>8. ASSUME NEW l \in 1 .. MaxLoads, ListFails(l) PROVE LoadsInv'
  <2>1. loads[l] \in Load
    BY <1>8 DEF ListFails, Reaches, Ends, IsCurrent, NoLoad
  <2>2. (loads'[l].at = "none" /\ (l = token => state' # "ready" /\ state' # "loading"))
        \/ ((l = token /\ loads'[l].at = "first" /\ loads'[l].paper = loads[l].paper) /\ state' = state)
    BY <1>8, <2>1 DEF ListFails, Reaches, Ends, IsCurrent, Load, NoLoad
  <2>3. \A k \in 1 .. MaxLoads : k # l => loads'[k] = loads[k]
    BY <1>8 DEF ListFails, Reaches, Ends, IsCurrent
  <2>4. (l # token => state' = state) /\ UNCHANGED <<doc, paperId, token, crossed>> /\ (header' = header)
    BY <1>8 DEF ListFails, Reaches, Ends, IsCurrent, pages, history, panel
  <2>5. loads[l].at \in Past /\ l <= token
    BY <1>8 DEF ListFails, Reaches, Ends, IsCurrent, Past
  <2> QED BY <2>2, <2>3, <2>4, <2>5 DEF Past
<1>9. ASSUME NEW l \in 1 .. MaxLoads, FirstPage(l) PROVE LoadsInv'
  <2>1. \A k \in 1 .. MaxLoads : k # l => loads'[k] = loads[k]
    BY <1>9 DEF FirstPage, Ends, Open, Overwrite
  <2>2. loads'[l].at = "none"
    BY <1>9 DEF FirstPage, Ends, Open, Overwrite, NoLoad
  <2>3. UNCHANGED <<paperId, token, crossed, header>> /\ state' = IF l = token THEN "ready" ELSE state
    BY <1>9 DEF FirstPage, Ends, Open, Overwrite, history
  <2>4. loads[l].at = "first" /\ loads[l] \in Load /\ loads[l].file \in Files
    BY <1>9 DEF FirstPage, Ends, Open, Overwrite, NoLoad
  <2>5. doc' = [load |-> l, paper |-> loads[l].paper, file |-> loads[l].file]
    BY <1>9 DEF FirstPage, Ends, Open, Overwrite
  <2>6. l = token => doc' \in Document /\ doc'.paper = paperId /\ doc'.load = token
    BY <2>4, <2>5 DEF Document, Load
  <2>7. CASE l = token
    <3>1. state' = "ready" /\ token > 0 /\ token' = token /\ loads'[token].at = "none"
      BY <2>2, <2>3, <2>7
    <3>2. \A k \in 1 .. MaxLoads : loads'[k].at # "none" => k # l /\ loads'[k] = loads[k]
      BY <2>1, <2>2
    <3>3. header' = header /\ crossed' = crossed /\ paperId' = paperId
      BY <2>3
    <3>4. "record" \notin crossed => header = paperId
      BY <2>4, <2>7, <3>1 DEF Past
    <3> QED BY <2>6, <2>7, <3>1, <3>2, <3>3, <3>4
  <2>8. CASE l # token
    <3>1. "first" \in crossed /\ state' = state
      BY <2>3, <2>4, <2>8
    <3> QED BY <2>1, <2>2, <2>3, <2>8, <3>1
  <2> QED BY <2>7, <2>8
<1>10. ASSUME NEW l \in 1 .. MaxLoads, LoadFails(l) PROVE LoadsInv'
  <2>1. \A k \in 1 .. MaxLoads : k # l => loads'[k] = loads[k]
    BY <1>10 DEF LoadFails, Ends
  <2>2. loads'[l].at = "none"
    BY <1>10 DEF LoadFails, Ends, NoLoad
  <2>3. UNCHANGED <<doc, paperId, token, crossed, header>> /\ state' = IF l = token THEN "failed" ELSE state
    BY <1>10 DEF LoadFails, Ends, pages
  <2> QED BY <2>1, <2>2, <2>3 DEF Past
<1>11. ASSUME NEW c \in Calls, Add(c) PROVE LoadsInv'
  BY <1>11 DEF Add, Send, NewCall, Ready, pages, search, history
<1>12. ASSUME NEW c \in Calls, NEW i \in items, NEW op \in {"edit", "keep", "remove"}, Touch(c, i, op)
       PROVE LoadsInv'
  BY <1>12 DEF Touch, Send, NewCall, Ready, pages, search, history
<1>13. ASSUME NEW c \in Calls, NEW p \in Papers, NoteElsewhere(c, p) PROVE LoadsInv'
  BY <1>13 DEF NoteElsewhere, Send, NewCall, Elsewhere, pages, search, history
<1>14. ASSUME NEW c \in Calls, NEW m \in Marks, NEW op \in {"edit", "keep", "remove"},
              TouchElsewhere(c, m, op) PROVE LoadsInv'
  BY <1>14 DEF TouchElsewhere, Send, NewCall, Elsewhere, pages, search, history
<1>15. ASSUME NEW c \in Calls, Rest, CheckCreate(c) PROVE LoadsInv'
  BY <1>15 DEF Rest
<1>16. ASSUME NEW c \in Calls, Rest, Insert(c) PROVE LoadsInv'
  BY <1>16 DEF Rest
<1>17. ASSUME NEW c \in Calls, Rest, ReadMark(c) PROVE LoadsInv'
  BY <1>17 DEF Rest
<1>18. ASSUME NEW c \in Calls, Rest, SaveMark(c) PROVE LoadsInv'
  BY <1>18 DEF Rest
<1>19. ASSUME NEW c \in Calls, Rest, RemoveMark(c) PROVE LoadsInv'
  BY <1>19 DEF Rest
<1>20. ASSUME NEW c \in Calls, Rest, CallFails(c) PROVE LoadsInv'
  BY <1>20 DEF Rest
<1>21. ASSUME NEW c \in Calls, AnswerArrives(c) PROVE LoadsInv'
  BY <1>21 DEF AnswerArrives, PanelAfter, pages, search, history
<1>22. ASSUME Quiet PROVE LoadsInv'
  BY <1>22 DEF Quiet, panel
<1>23. ASSUME NEW c \in Calls, Losing(c) PROVE LoadsInv'
  BY <1>23, Lost
<1> QED BY <1>1, <1>2, <1>3, <1>4, <1>5, <1>6, <1>7, <1>8, <1>9, <1>10, <1>11, <1>12, <1>13, <1>14, <1>15,
      <1>16, <1>17, <1>18, <1>19, <1>20, <1>21, <1>22, <1>23, StepCases, Zenon DEF Loading, ServerStep

LEMMA FileStep ==
  ASSUME Shape, LoadsInv, FileInv, [Next]_vars
  PROVE  FileInv'
<1> USE LimitsAssumption, BoundsAssumption DEF Shape, LoadsTyped, PageTyped, FileInv, Served
<1>1. ASSUME NEW p \in Papers, Request(p) PROVE FileInv'
  <2>1. loads'[token'].at = "record" /\ state' = "loading"
    BY <1>1 DEF Request, Close
  <2> QED BY <2>1 DEF WithFile
<1>2. ASSUME NEW p \in Papers, ChangePdf(p) PROVE FileInv'
  <2>1. paperId \in Papers /\ paperId \notin replaced' => current'[paperId] = current[paperId]
        /\ paperId \notin replaced
    BY <1>2 DEF ChangePdf, RemovePdf, Attach, Replace, Elsewhere, ServerTypeOK
  <2>2. UNCHANGED <<doc, paperId, state, loads, token, crossed>>
    BY <1>2 DEF ChangePdf, Elsewhere, pages
  <2>3. (token > 0 /\ loads[token].at \in WithFile) \/ state = "ready" => paperId \in Papers
    BY DEF LoadsInv, WithFile, Load, NoLoad
  <2> QED BY <2>1, <2>2, <2>3
<1>3. ASSUME NEW l \in 1 .. MaxLoads, RecordArrives(l) PROVE FileInv'
  <2>1. loads[l] \in Load
    BY <1>3 DEF RecordArrives, Reaches, NoLoad
  <2>2. loads'[l].at \notin WithFile
    BY <1>3, <2>1 DEF RecordArrives, Reaches, Load, NoLoad, WithFile
  <2>3. \A k \in 1 .. MaxLoads : k # l => loads'[k] = loads[k]
    BY <1>3 DEF RecordArrives, Reaches
  <2>4. UNCHANGED <<current, doc, paperId, token, crossed, replaced>>
        /\ (state' = "ready" => state = "ready")
    BY <1>3 DEF RecordArrives, Reaches, server, pages, history
  <2>5. l = token => loads[l].at # "none" /\ loads[l].paper = paperId
    BY <1>3 DEF RecordArrives, Reaches, LoadsInv, WithFile
  <2>6. CASE l = token
    BY <2>2, <2>4, <2>5, <2>6 DEF WithFile
  <2>7. CASE l # token
    BY <2>3, <2>4, <2>7 DEF WithFile
  <2> QED BY <2>6, <2>7
<1>4. ASSUME NEW l \in 1 .. MaxLoads, FileArrives(l) PROVE FileInv'
  <2>1. loads[l] \in Load
    BY <1>4 DEF FileArrives, Ends, NoLoad
  <2>2. loads'[l].at \notin WithFile \/ (loads'[l].file = current[loads[l].paper].file
        /\ current[loads[l].paper] # Nil)
    BY <1>4, <2>1 DEF FileArrives, Ends, Load, NoLoad, WithFile
  <2>3. \A k \in 1 .. MaxLoads : k # l => loads'[k] = loads[k]
    BY <1>4 DEF FileArrives, Ends
  <2>4. UNCHANGED <<current, doc, paperId, token, crossed, replaced>>
        /\ (state' = "ready" => state = "ready")
    BY <1>4 DEF FileArrives, Ends, server, pages, history
  <2>5. l = token => loads[l].at # "none" /\ loads[l].paper = paperId
    BY <1>4 DEF FileArrives, Ends, LoadsInv, WithFile
  <2>6. CASE l = token
    BY <2>2, <2>4, <2>5, <2>6 DEF WithFile
  <2>7. CASE l # token
    BY <2>3, <2>4, <2>7 DEF WithFile
  <2> QED BY <2>6, <2>7
<1>5. ASSUME NEW l \in 1 .. MaxLoads, Opened(l) PROVE FileInv'
  <2>1. loads[l] \in Load
    BY <1>5 DEF Opened, Reaches, Ends, IsCurrent, NoLoad
  <2>2. loads'[l].at \notin WithFile \/ (loads'[l].file = loads[l].file)
    BY <1>5, <2>1 DEF Opened, Reaches, Ends, IsCurrent, Load, NoLoad, WithFile
  <2>3. \A k \in 1 .. MaxLoads : k # l => loads'[k] = loads[k]
    BY <1>5 DEF Opened, Reaches, Ends, IsCurrent
  <2>4. UNCHANGED <<current, doc, paperId, token, crossed, replaced>>
        /\ (state' = "ready" => state = "ready")
    BY <1>5 DEF Opened, Reaches, Ends, IsCurrent, server, pages, history
  <2>5. l = token => loads[l].at # "none" /\ loads[l].paper = paperId /\ loads[l].at \in WithFile
    BY <1>5 DEF Opened, Reaches, Ends, IsCurrent, LoadsInv, WithFile
  <2>6. CASE l = token
    BY <2>2, <2>4, <2>5, <2>6 DEF WithFile
  <2>7. CASE l # token
    BY <2>3, <2>4, <2>7 DEF WithFile
  <2> QED BY <2>6, <2>7
<1>6. ASSUME NEW l \in 1 .. MaxLoads, ListRead(l) PROVE FileInv'
  <2>1. loads[l] \in Load
    BY <1>6 DEF ListRead, NoLoad
  <2>2. loads'[l].at \notin WithFile \/ (loads'[l].file = loads[l].file)
    BY <1>6, <2>1 DEF ListRead, Load, NoLoad, WithFile
  <2>3. \A k \in 1 .. MaxLoads : k # l => loads'[k] = loads[k]
    BY <1>6 DEF ListRead
  <2>4. UNCHANGED <<current, doc, paperId, token, crossed, replaced>>
        /\ (state' = "ready" => state = "ready")
    BY <1>6 DEF ListRead, server, pages, history
  <2>5. l = token => loads[l].at # "none" /\ loads[l].paper = paperId /\ loads[l].at \in WithFile
    BY <1>6 DEF ListRead, LoadsInv, WithFile
  <2>6. CASE l = token
    BY <2>2, <2>4, <2>5, <2>6 DEF WithFile
  <2>7. CASE l # token
    BY <2>3, <2>4, <2>7 DEF WithFile
  <2> QED BY <2>6, <2>7
<1>7. ASSUME NEW l \in 1 .. MaxLoads, ListArrives(l) PROVE FileInv'
  <2>1. loads[l] \in Load
    BY <1>7 DEF ListArrives, Reaches, Ends, IsCurrent, NoLoad
  <2>2. loads'[l].at \notin WithFile \/ (loads'[l].file = loads[l].file)
    BY <1>7, <2>1 DEF ListArrives, Reaches, Ends, IsCurrent, Load, NoLoad, WithFile
  <2>3. \A k \in 1 .. MaxLoads : k # l => loads'[k] = loads[k]
    BY <1>7 DEF ListArrives, Reaches, Ends, IsCurrent
  <2>4. UNCHANGED <<current, doc, paperId, token, crossed, replaced>>
        /\ (state' = "ready" => state = "ready")
    BY <1>7 DEF ListArrives, Reaches, Ends, IsCurrent, server, pages, history
  <2>5. l = token => loads[l].at # "none" /\ loads[l].paper = paperId /\ loads[l].at \in WithFile
    BY <1>7 DEF ListArrives, Reaches, Ends, IsCurrent, LoadsInv, WithFile
  <2>6. CASE l = token
    BY <2>2, <2>4, <2>5, <2>6 DEF WithFile
  <2>7. CASE l # token
    BY <2>3, <2>4, <2>7 DEF WithFile
  <2> QED BY <2>6, <2>7
<1>8. ASSUME NEW l \in 1 .. MaxLoads, ListFails(l) PROVE FileInv'
  <2>1. loads[l] \in Load
    BY <1>8 DEF ListFails, Reaches, Ends, IsCurrent, NoLoad
  <2>2. loads'[l].at \notin WithFile \/ (loads'[l].file = loads[l].file)
    BY <1>8, <2>1 DEF ListFails, Reaches, Ends, IsCurrent, Load, NoLoad, WithFile
  <2>3. \A k \in 1 .. MaxLoads : k # l => loads'[k] = loads[k]
    BY <1>8 DEF ListFails, Reaches, Ends, IsCurrent
  <2>4. UNCHANGED <<current, doc, paperId, token, crossed, replaced>>
        /\ (state' = "ready" => state = "ready")
    BY <1>8 DEF ListFails, Reaches, Ends, IsCurrent, server, pages, history
  <2>5. l = token => loads[l].at # "none" /\ loads[l].paper = paperId /\ loads[l].at \in WithFile
    BY <1>8 DEF ListFails, Reaches, Ends, IsCurrent, LoadsInv, WithFile
  <2>6. CASE l = token
    BY <2>2, <2>4, <2>5, <2>6 DEF WithFile
  <2>7. CASE l # token
    BY <2>3, <2>4, <2>7 DEF WithFile
  <2> QED BY <2>6, <2>7
<1>9. ASSUME NEW l \in 1 .. MaxLoads, FirstPage(l) PROVE FileInv'
  <2>1. \A k \in 1 .. MaxLoads : loads'[k].at \in WithFile => loads'[k] = loads[k]
    BY <1>9 DEF FirstPage, Ends, Open, Overwrite, NoLoad, WithFile
  <2>2. UNCHANGED <<current, paperId, token, crossed, replaced>>
    BY <1>9 DEF FirstPage, Ends, Open, Overwrite, server, history
  <2>3. loads[l].at = "first" /\ doc'.file = loads[l].file
    BY <1>9 DEF FirstPage, Ends, Open, Overwrite
  <2>4. l # token => state' = state /\ "first" \in crossed
    BY <1>9 DEF FirstPage, Ends, Open, Overwrite, LoadsInv
  <2> QED BY <2>1, <2>2, <2>3, <2>4 DEF WithFile
<1>10. ASSUME NEW l \in 1 .. MaxLoads, LoadFails(l) PROVE FileInv'
  <2>1. \A k \in 1 .. MaxLoads : loads'[k].at \in WithFile => loads'[k] = loads[k]
    BY <1>10 DEF LoadFails, Ends, NoLoad, WithFile
  <2>3. UNCHANGED <<current, doc, paperId, token, crossed, replaced>>
        /\ (state' = "ready" => state = "ready")
    BY <1>10 DEF LoadFails, Ends, server, pages
  <2> QED BY <2>1, <2>3
<1>11. ASSUME NEW c \in Calls, Add(c) PROVE FileInv'
  BY <1>11 DEF Add, Send, NewCall, Ready, pages, search, history
<1>12. ASSUME NEW c \in Calls, NEW i \in items, NEW op \in {"edit", "keep", "remove"}, Touch(c, i, op)
       PROVE FileInv'
  BY <1>12 DEF Touch, Send, NewCall, Ready, pages, search, history
<1>13. ASSUME NEW c \in Calls, NEW p \in Papers, NoteElsewhere(c, p) PROVE FileInv'
  BY <1>13 DEF NoteElsewhere, Send, NewCall, Elsewhere, pages, search, history
<1>14. ASSUME NEW c \in Calls, NEW m \in Marks, NEW op \in {"edit", "keep", "remove"},
              TouchElsewhere(c, m, op) PROVE FileInv'
  BY <1>14 DEF TouchElsewhere, Send, NewCall, Elsewhere, pages, search, history
<1>15. ASSUME NEW c \in Calls, Rest, CheckCreate(c) PROVE FileInv'
  BY <1>15 DEF Rest, CheckCreate, Refuse
<1>16. ASSUME NEW c \in Calls, Rest, Insert(c) PROVE FileInv'
  BY <1>16 DEF Rest, Insert, Answer, View
<1>17. ASSUME NEW c \in Calls, Rest, ReadMark(c) PROVE FileInv'
  BY <1>17 DEF Rest, ReadMark, Refuse, KeptAsNote
<1>18. ASSUME NEW c \in Calls, Rest, SaveMark(c) PROVE FileInv'
  BY <1>18 DEF Rest, SaveMark, Answer, View
<1>19. ASSUME NEW c \in Calls, Rest, RemoveMark(c) PROVE FileInv'
  BY <1>19 DEF Rest, RemoveMark, Answer, Refuse
<1>20. ASSUME NEW c \in Calls, Rest, CallFails(c) PROVE FileInv'
  BY <1>20 DEF Rest, CallFails, Refuse
<1>21. ASSUME NEW c \in Calls, AnswerArrives(c) PROVE FileInv'
  BY <1>21 DEF AnswerArrives, PanelAfter, pages, search, history
<1>22. ASSUME Quiet PROVE FileInv'
  BY <1>22 DEF Quiet, panel, server
<1>23. ASSUME NEW c \in Calls, Losing(c) PROVE FileInv'
  <2>1. UNCHANGED <<current, doc, paperId, state, loads, token, replaced>> /\ crossed \subseteq crossed'
    BY <1>23, Lost
  <2> QED BY <2>1
<1> QED BY <1>1, <1>2, <1>3, <1>4, <1>5, <1>6, <1>7, <1>8, <1>9, <1>10, <1>11, <1>12, <1>13, <1>14, <1>15,
      <1>16, <1>17, <1>18, <1>19, <1>20, <1>21, <1>22, <1>23, StepCases, Zenon DEF Loading, ServerStep

-----------------------------------------------------------------------------
(* Marks on the page, step by step *)

(* What a step of a load does to the marks that are shown. *)
LoadMoves(l) ==
  /\ loads[l] \in Load
  /\ UNCHANGED <<current, rows, made, call, paperId, token, crossed, replaced>>
  /\ state = "ready" => state' = "ready"
  /\ \A k \in 1 .. MaxLoads : k # l => loads'[k] = loads[k]
  /\ \/ loads'[l].at # "listed" /\ UNCHANGED <<items, pdfVersion>>
     \/ /\ loads'[l].at = "listed" /\ UNCHANGED <<items, pdfVersion>>
        /\ loads'[l].paper = loads[l].paper /\ loads'[l].list = List(loads[l].paper)
     \/ /\ l = token /\ loads[l].at = "listed" /\ loads'[l].at # "listed"
        /\ items' = loads[l].list /\ pdfVersion' = loads[l].version

LEMMA LoadsMove ==
  ASSUME Shape, LoadsInv, NEW l \in 1 .. MaxLoads, Loading(l) \/ ListFails(l) \/ LoadFails(l)
  PROVE  LoadMoves(l)
<1> USE DEF Shape, LoadsTyped, LoadMoves, NoLoad, server, panel, history
<1>1. CASE RecordArrives(l)
  BY <1>1 DEF RecordArrives, Reaches
<1>2. CASE FileArrives(l)
  <2>1. loads[l] \in Load /\ loads[l].at # "none"
    BY <1>2 DEF FileArrives
  <2>2. loads'[l].at = "none" \/ (loads'[l].at = "open" /\ loads'[l].paper = loads[l].paper)
    BY <1>2, <2>1, LimitsAssumption, BoundsAssumption DEF PageTyped, FileArrives, Ends, Load
  <2>3. \A k \in 1 .. MaxLoads : k # l => loads'[k] = loads[k]
    BY <1>2 DEF FileArrives, Ends
  <2>4. state = "ready" => state' = "ready"
    BY <1>2, <2>1 DEF FileArrives, Ends, LoadsInv
  <2>5. UNCHANGED <<current, rows, made, call, paperId, token, crossed, replaced, items, pdfVersion>>
    BY <1>2 DEF FileArrives
  <2> QED BY <2>1, <2>2, <2>3, <2>4, <2>5
<1>3. CASE Opened(l)
  <2>1. loads[l] \in Load /\ loads[l].at # "none"
    BY <1>3 DEF Opened
  <2>2. loads'[l].at = "none" \/ (loads'[l].at = "list" /\ loads'[l].paper = loads[l].paper)
    BY <1>3, <2>1, LimitsAssumption, BoundsAssumption DEF PageTyped, Opened, Ends, Reaches, IsCurrent, Load
  <2>3. \A k \in 1 .. MaxLoads : k # l => loads'[k] = loads[k]
    BY <1>3 DEF Opened, Ends, Reaches, IsCurrent
  <2>4. state = "ready" => state' = "ready"
    BY <1>3, <2>1 DEF Opened, Ends, Reaches, IsCurrent, LoadsInv
  <2>5. UNCHANGED <<current, rows, made, call, paperId, token, crossed, replaced, items, pdfVersion>>
    BY <1>3 DEF Opened
  <2> QED BY <2>1, <2>2, <2>3, <2>4, <2>5
<1>4. CASE ListRead(l)
  <2>1. loads[l] \in Load
    BY <1>4 DEF ListRead
  <2>2. loads'[l].at = "listed" /\ loads'[l].paper = loads[l].paper /\ loads'[l].list = List(loads[l].paper)
    BY <1>4, <2>1, LimitsAssumption, BoundsAssumption DEF PageTyped, ListRead, Load
  <2>3. \A k \in 1 .. MaxLoads : k # l => loads'[k] = loads[k]
    BY <1>4 DEF ListRead
  <2>4. UNCHANGED <<current, rows, made, call, paperId, token, crossed, replaced, items, pdfVersion, state>>
    BY <1>4 DEF ListRead
  <2> QED BY <2>1, <2>2, <2>3, <2>4
<1>5. CASE ListArrives(l)
  <2>1. loads[l] \in Load /\ loads[l].at = "listed"
    BY <1>5 DEF ListArrives
  <2>2. loads'[l].at = "none" \/ (loads'[l].at = "first" /\ loads'[l].paper = loads[l].paper)
    BY <1>5, <2>1, LimitsAssumption, BoundsAssumption DEF PageTyped, ListArrives, Ends, Reaches, IsCurrent,
       Load
  <2>3. \A k \in 1 .. MaxLoads : k # l => loads'[k] = loads[k]
    BY <1>5 DEF ListArrives, Ends, Reaches
  <2>4. state = "ready" => state' = "ready"
    BY <1>5, <2>1 DEF ListArrives, Ends, IsCurrent, LoadsInv
  <2>5. UNCHANGED <<current, rows, made, call, paperId, token, crossed, replaced>>
    BY <1>5 DEF ListArrives
  <2>6. UNCHANGED <<items, pdfVersion>> \/ (l = token /\ items' = loads[l].list
        /\ pdfVersion' = loads[l].version)
    BY <1>5 DEF ListArrives, IsCurrent
  <2> QED BY <2>1, <2>2, <2>3, <2>4, <2>5, <2>6
<1>6. CASE FirstPage(l)
  <2>1. loads[l] \in Load /\ loads[l].at # "none"
    BY <1>6 DEF FirstPage
  <2>2. loads'[l].at # "listed"
    BY <1>6, <2>1, LimitsAssumption, BoundsAssumption DEF PageTyped, FirstPage, Ends, Load
  <2>3. \A k \in 1 .. MaxLoads : k # l => loads'[k] = loads[k]
    BY <1>6 DEF FirstPage, Ends
  <2>4. state = "ready" => state' = "ready"
    BY <1>6, <2>1 DEF FirstPage, Ends, LoadsInv
  <2>5. UNCHANGED <<current, rows, made, call, paperId, token, crossed, replaced, items, pdfVersion>>
    BY <1>6 DEF FirstPage
  <2> QED BY <2>1, <2>2, <2>3, <2>4, <2>5
<1>7. CASE ListFails(l)
  <2>1. loads[l] \in Load /\ loads[l].at # "none"
    BY <1>7 DEF ListFails
  <2>2. loads'[l].at = "none" \/ (loads'[l].at = "first" /\ loads'[l].paper = loads[l].paper)
    BY <1>7, <2>1, LimitsAssumption, BoundsAssumption DEF PageTyped, ListFails, Ends, Reaches, IsCurrent,
       Load
  <2>3. \A k \in 1 .. MaxLoads : k # l => loads'[k] = loads[k]
    BY <1>7 DEF ListFails, Ends, Reaches, IsCurrent
  <2>4. state = "ready" => state' = "ready"
    BY <1>7, <2>1 DEF ListFails, Ends, Reaches, IsCurrent, LoadsInv
  <2>5. UNCHANGED <<current, rows, made, call, paperId, token, crossed, replaced, items, pdfVersion>>
    BY <1>7 DEF ListFails
  <2> QED BY <2>1, <2>2, <2>3, <2>4, <2>5
<1>8. CASE LoadFails(l)
  <2>1. loads[l] \in Load /\ loads[l].at # "none"
    BY <1>8 DEF LoadFails
  <2>2. loads'[l].at # "listed"
    BY <1>8, <2>1, LimitsAssumption, BoundsAssumption DEF PageTyped, LoadFails, Ends, Load
  <2>3. \A k \in 1 .. MaxLoads : k # l => loads'[k] = loads[k]
    BY <1>8 DEF LoadFails, Ends
  <2>4. state = "ready" => state' = "ready"
    BY <1>8, <2>1 DEF LoadFails, Ends, LoadsInv
  <2>5. UNCHANGED <<current, rows, made, call, paperId, token, crossed, replaced, items, pdfVersion>>
    BY <1>8 DEF LoadFails
  <2> QED BY <2>1, <2>2, <2>3, <2>4, <2>5
<1> QED BY <1>1, <1>2, <1>3, <1>4, <1>5, <1>6, <1>7, <1>8 DEF Loading

LEMMA PapersStep ==
  ASSUME Shape, MarksInv, LoadsInv, PapersInv, [Next]_vars
  PROVE  PapersInv'
<1> USE DEF PapersInv
<1>Z. \A m, p : Belongs(m, p) => Belongs(m, p)'
  BY NextMovesMarks, BelongsStays
<1>W. ASSUME \A k \in 1 .. MaxLoads : loads'[k].at = "listed" => loads'[k] = loads[k]
      PROVE  (\A k \in 1 .. MaxLoads : loads[k].at = "listed"
            => \A i \in loads[k].list : Belongs(i.id, loads[k].paper))'
  <2> SUFFICES ASSUME NEW k \in 1 .. MaxLoads, loads'[k].at = "listed", NEW i \in loads'[k].list
               PROVE Belongs(i.id, loads[k].paper)'
    OBVIOUS
  <2>1. loads'[k] = loads[k] /\ loads[k].paper \in Papers
    BY <1>W DEF Shape, LoadsTyped, Load, NoLoad
  <2>2. PICK p \in Papers : p = loads[k].paper
    BY <2>1
  <2>3. Belongs(i.id, p)'
    BY <1>Z, <2>1, <2>2
  <2> QED BY <2>1, <2>2, <2>3
<1>X. ASSUME paperId' = paperId, state = "ready" => state' = "ready", "call" \notin crossed,
        \A k \in Calls : Mine(k)' => Mine(k) /\ call'[k].paper = call[k].paper /\ call'[k].op = call[k].op
              /\ call'[k].mark = call[k].mark
      PROVE  \A k \in Calls : Mine(k)' => (state = "ready" /\ call[k].paper = paperId
            /\ (call[k].op # "create" => Belongs(call[k].mark, paperId)))'
  <2> SUFFICES ASSUME NEW k \in Calls, Mine(k)'
               PROVE  (state = "ready" /\ call[k].paper = paperId
                     /\ (call[k].op # "create" => Belongs(call[k].mark, paperId)))'
    OBVIOUS
  <2>1. Mine(k) /\ call'[k].paper = call[k].paper /\ call'[k].op = call[k].op
        /\ call'[k].mark = call[k].mark
    BY <1>X
  <2>2. state = "ready" /\ call[k].paper = paperId
        /\ (call[k].op # "create" => Belongs(call[k].mark, paperId))
    BY <1>X, <2>1
  <2>3. PICK m : m = call[k].mark
    OBVIOUS
  <2>4. call[k].op # "create" => Belongs(m, paperId)'
    BY <1>X, <1>Z, <2>2, <2>3
  <2> QED BY <1>X, <2>1, <2>2, <2>3, <2>4
<1>Y. ASSUME paperId' = paperId, items' = items, "call" \notin crossed
      PROVE  \A i \in items' : Belongs(i.id, paperId)'
  BY <1>Z, <1>Y
<1>1. ASSUME NEW p \in Papers, Request(p) PROVE PapersInv'
  <2>1. \A k \in 1 .. MaxLoads : loads'[k].at = "listed" => loads'[k] = loads[k]
    BY <1>1, BoundsAssumption DEF Request, Close, Shape, PageTyped, LoadsTyped
  <2>2. call' = call /\ items' = {}
    BY <1>1 DEF Request, Close, server
  <2>3. "call" \notin crossed' => \A c \in Calls : ~Mine(c)
    BY <1>1 DEF Request, Sent, Mine
  <2>4. \A c \in Calls : Mine(c)' <=> Mine(c)
    BY <2>2 DEF Mine
  <2> QED BY <1>W, <2>1, <2>2, <2>3, <2>4
<1>2. ASSUME NEW p \in Papers, ChangePdf(p) PROVE PapersInv'
  <2>1. UNCHANGED <<call, paperId, crossed, state, loads, items>>
    BY <1>2 DEF ChangePdf, RemovePdf, Attach, Replace, Elsewhere, panel
  <2>2. \A k \in Calls : Mine(k)' <=> Mine(k)
    BY <2>1 DEF Mine
  <2> QED BY <1>W, <1>X, <1>Y, <2>1, <2>2
<1>3. ASSUME NEW l \in 1 .. MaxLoads, LoadMoves(l) PROVE PapersInv'
  <2>2. UNCHANGED <<call, paperId, crossed>> /\ (state = "ready" => state' = "ready")
    BY <1>3 DEF LoadMoves
  <2>6. loads'[l].at = "listed" => loads'[l].paper = loads[l].paper /\ loads'[l].list = List(loads[l].paper)
    BY <1>3 DEF LoadMoves
  <2>8. loads[l].paper \in Papers
    BY <1>3 DEF Load, LoadMoves
  <2>9. \A i \in List(loads[l].paper) : i.id \in 1 .. made /\ rows[i.id] # Nil
        /\ rows[i.id].paper = loads[l].paper
    BY DEF List, View, RowsOf, MarksInv, Numbered, Marks, Shape, ServerTypeOK
  <2>7. \A i \in List(loads[l].paper) : Belongs(i.id, loads[l].paper)
    <3> SUFFICES ASSUME NEW i \in List(loads[l].paper) PROVE Belongs(i.id, loads[l].paper)
      OBVIOUS
    <3>1. PICK p \in Papers, a \in Anchors : Sits(i.id, p, a)
      BY <2>9 DEF MarksInv, OneAnchor, Belongs
    <3>2. p = loads[l].paper
      BY <2>9, <3>1 DEF Sits, Of
    <3> QED BY <3>1, <3>2 DEF Belongs
  <2>11. \A k \in 1 .. MaxLoads : loads[k].at = "listed" => loads[k].paper \in Papers
    BY DEF Shape, LoadsTyped, Load, NoLoad
  <2>12. (\A k \in 1 .. MaxLoads : loads[k].at = "listed"
        => \A i \in loads[k].list : Belongs(i.id, loads[k].paper))'
    <3> SUFFICES ASSUME NEW k \in 1 .. MaxLoads, loads'[k].at = "listed", NEW i \in loads'[k].list
                 PROVE Belongs(i.id, loads[k].paper)'
      OBVIOUS
    <3>1. CASE k = l
      <4>1. PICK p \in Papers : p = loads[l].paper
        BY <2>8
      <4>2. Belongs(i.id, p) /\ loads'[k].paper = p
        BY <2>6, <2>7, <3>1, <4>1
      <4> QED BY <1>Z, <4>2
    <3>2. CASE k # l
      <4>1. loads'[k] = loads[k] /\ loads[k].paper \in Papers
        BY <1>3, <2>11, <3>2 DEF LoadMoves
      <4>2. Belongs(i.id, loads[k].paper)
        BY <4>1
      <4>3. PICK p \in Papers : p = loads[k].paper
        BY <4>1
      <4>4. Belongs(i.id, p)' /\ loads'[k].paper = p
        BY <1>Z, <4>1, <4>2, <4>3
      <4> QED BY <4>4
    <3> QED BY <3>1, <3>2
  <2>13. "call" \notin crossed => \A i \in items' : Belongs(i.id, paperId)'
    <3>1. CASE items' = items
      BY <1>Y, <2>2, <3>1
    <3>2. CASE l = token /\ loads[l].at = "listed" /\ items' = loads[l].list
      <4>1. loads[l].paper = paperId /\ paperId \in Papers
        BY <2>8, <3>2, BoundsAssumption DEF LoadsInv
      <4>2. \A i \in items' : Belongs(i.id, paperId)
        BY <3>2, <4>1
      <4> QED BY <1>Z, <2>2, <4>1, <4>2
    <3> QED BY <1>3, <3>1, <3>2 DEF LoadMoves
  <2>14. \A k \in Calls : Mine(k)' <=> Mine(k)
    BY <2>2 DEF Mine
  <2> QED BY <1>X, <2>2, <2>12, <2>13, <2>14
<1>11. ASSUME NEW c \in Calls, Add(c) PROVE PapersInv'
  <2>1. UNCHANGED <<paperId, state, loads, token, current>> /\ crossed \subseteq crossed'
        /\ replaced' = replaced
    BY <1>11 DEF Add, Send, NewCall, Ready, Rest, history, panel
  <2>2. \A k \in Calls \ {c} : call'[k] = call[k]
    BY <1>11 DEF Add, Send, NewCall, Ready, Shape, CallsTyped
  <2>3. items' = items /\ state = "ready" /\ paperId \in Papers
    BY <1>11 DEF Add, Send, NewCall, Ready, Shape, PageTyped
  <2>4. call'[c].op = "create" /\ call'[c].paper = paperId
    BY <1>11 DEF Add, Send, NewCall, Ready, Shape, CallsTyped
  <2>5. ASSUME "call" \notin crossed' PROVE (call[c].op # "create" => Belongs(call[c].mark, paperId))'
    BY <2>4
  <2>6. ASSUME "call" \notin crossed', NEW k \in Calls, Mine(k)'
        PROVE (state = "ready" /\ call[k].paper = paperId
              /\ (call[k].op # "create" => Belongs(call[k].mark, paperId)))'
    <3>1. CASE k # c
      <4>1. call'[k] = call[k] /\ Mine(k) /\ "call" \notin crossed
        BY <2>1, <2>2, <2>6, <3>1 DEF Mine
      <4>2. call[k].paper = paperId /\ (call[k].op # "create" => Belongs(call[k].mark, paperId))
        BY <4>1
      <4>3. PICK m : m = call[k].mark
        OBVIOUS
      <4>4. call[k].op # "create" => Belongs(m, paperId)'
        BY <1>Z, <2>1, <2>3, <4>2, <4>3
      <4> QED BY <2>1, <2>3, <4>1, <4>2, <4>3, <4>4
    <3>2. CASE k = c
      BY <2>1, <2>3, <2>4, <2>5, <2>6, <3>2
    <3> QED BY <3>1, <3>2
  <2>7. "call" \notin crossed' => \A i2 \in items' : Belongs(i2.id, paperId)'
    BY <1>Y, <2>1, <2>3
  <2> QED BY <1>W, <2>1, <2>6, <2>7
<1>12. ASSUME NEW c \in Calls, NEW i \in items, NEW op \in {"edit", "keep", "remove"}, Touch(c, i, op)
       PROVE PapersInv'
  <2>1. UNCHANGED <<paperId, state, loads, token, current>> /\ crossed \subseteq crossed'
        /\ replaced' = replaced
    BY <1>12 DEF Touch, Send, NewCall, Ready, Rest, history, panel
  <2>2. \A k \in Calls \ {c} : call'[k] = call[k]
    BY <1>12 DEF Touch, Send, NewCall, Ready, Shape, CallsTyped
  <2>3. items' = items /\ state = "ready" /\ paperId \in Papers
    BY <1>12 DEF Touch, Send, NewCall, Ready, Shape, PageTyped
  <2>4. call'[c].mark = i.id /\ call'[c].paper = paperId
    BY <1>12 DEF Touch, Send, NewCall, Ready, Shape, CallsTyped
  <2>5. ASSUME "call" \notin crossed' PROVE (call[c].op # "create" => Belongs(call[c].mark, paperId))'
    <3>1. Belongs(i.id, paperId)'
      BY <1>12, <1>Y, <2>1, <2>3, <2>5
    <3>2. call'[c].mark = i.id
      BY <2>4
    <3> QED BY <3>1, <3>2
  <2>6. ASSUME "call" \notin crossed', NEW k \in Calls, Mine(k)'
        PROVE (state = "ready" /\ call[k].paper = paperId
              /\ (call[k].op # "create" => Belongs(call[k].mark, paperId)))'
    <3>1. CASE k # c
      <4>1. call'[k] = call[k] /\ Mine(k) /\ "call" \notin crossed
        BY <2>1, <2>2, <2>6, <3>1 DEF Mine
      <4>2. call[k].paper = paperId /\ (call[k].op # "create" => Belongs(call[k].mark, paperId))
        BY <4>1
      <4>3. PICK m : m = call[k].mark
        OBVIOUS
      <4>4. call[k].op # "create" => Belongs(m, paperId)'
        BY <1>Z, <2>1, <2>3, <4>2, <4>3
      <4> QED BY <2>1, <2>3, <4>1, <4>2, <4>3, <4>4
    <3>2. CASE k = c
      BY <2>1, <2>3, <2>4, <2>5, <2>6, <3>2
    <3> QED BY <3>1, <3>2
  <2>7. "call" \notin crossed' => \A i2 \in items' : Belongs(i2.id, paperId)'
    BY <1>Y, <2>1, <2>3
  <2> QED BY <1>W, <2>1, <2>6, <2>7
<1>13. ASSUME NEW c \in Calls, NEW p \in Papers, NoteElsewhere(c, p) PROVE PapersInv'
  <2>1. UNCHANGED <<paperId, state, loads, token, current>> /\ crossed \subseteq crossed'
        /\ replaced' = replaced
    BY <1>13 DEF NoteElsewhere, Send, NewCall, Elsewhere, Rest, history, panel
  <2>2. \A k \in Calls \ {c} : call'[k] = call[k]
    BY <1>13 DEF NoteElsewhere, Send, NewCall, Elsewhere, Shape, CallsTyped
  <2>3. items' = items
    BY <1>13 DEF NoteElsewhere, Send, NewCall, Elsewhere, panel
  <2>4. ~call'[c].mine
    BY <1>13 DEF NoteElsewhere, Send, NewCall, Elsewhere, Shape, CallsTyped
  <2>5. \A k \in Calls : Mine(k)' => Mine(k) /\ call'[k] = call[k]
    BY <2>2, <2>4 DEF Mine
  <2> QED BY <1>W, <1>X, <1>Y, <2>1, <2>3, <2>5
<1>14. ASSUME NEW c \in Calls, NEW m \in Marks, NEW op \in {"edit", "keep", "remove"},
              TouchElsewhere(c, m, op) PROVE PapersInv'
  <2>1. UNCHANGED <<paperId, state, loads, token, current>> /\ crossed \subseteq crossed'
        /\ replaced' = replaced
    BY <1>14 DEF TouchElsewhere, Send, NewCall, Elsewhere, Rest, history, panel
  <2>2. \A k \in Calls \ {c} : call'[k] = call[k]
    BY <1>14 DEF TouchElsewhere, Send, NewCall, Elsewhere, Shape, CallsTyped
  <2>3. items' = items
    BY <1>14 DEF TouchElsewhere, Send, NewCall, Elsewhere, panel
  <2>4. ~call'[c].mine
    BY <1>14 DEF TouchElsewhere, Send, NewCall, Elsewhere, Shape, CallsTyped
  <2>5. \A k \in Calls : Mine(k)' => Mine(k) /\ call'[k] = call[k]
    BY <2>2, <2>4 DEF Mine
  <2> QED BY <1>W, <1>X, <1>Y, <2>1, <2>3, <2>5
<1>15. ASSUME NEW c \in Calls, Rest, CheckCreate(c) PROVE PapersInv'
  <2>1. UNCHANGED <<paperId, state, loads, token, current>> /\ crossed \subseteq crossed'
        /\ replaced' = replaced
    BY <1>15 DEF CheckCreate, Refuse, Rest, history, panel
  <2>2. \A k \in Calls \ {c} : call'[k] = call[k]
    BY <1>15 DEF CheckCreate, Refuse, Shape, CallsTyped
  <2>3. items' = items
    BY <1>15 DEF Rest, panel
  <2>4. call'[c].paper = call[c].paper /\ call'[c].op = call[c].op /\ call'[c].mark = call[c].mark
        /\ call'[c].mine = call[c].mine /\ call[c].at # "free"
    BY <1>15 DEF CheckCreate, Refuse, NoCall, Shape, CallsTyped, Asked
  <2>5. \A k \in Calls : Mine(k)' => Mine(k) /\ call'[k].paper = call[k].paper /\ call'[k].op = call[k].op
        /\ call'[k].mark = call[k].mark
    BY <2>2, <2>4 DEF Mine
  <2> QED BY <1>W, <1>X, <1>Y, <2>1, <2>3, <2>5
<1>16. ASSUME NEW c \in Calls, Rest, Insert(c) PROVE PapersInv'
  <2>1. UNCHANGED <<paperId, state, loads, token, current>> /\ crossed \subseteq crossed'
        /\ replaced' = replaced
    BY <1>16 DEF Insert, Answer, View, Rest, history, panel
  <2>2. \A k \in Calls \ {c} : call'[k] = call[k]
    BY <1>16 DEF Insert, Answer, View, Shape, CallsTyped
  <2>3. items' = items
    BY <1>16 DEF Rest, panel
  <2>4. call'[c].paper = call[c].paper /\ call'[c].op = call[c].op /\ call'[c].mark = call[c].mark
        /\ call'[c].mine = call[c].mine /\ call[c].at # "free"
    BY <1>16 DEF Insert, Answer, View, NoCall, Shape, CallsTyped, Asked
  <2>5. \A k \in Calls : Mine(k)' => Mine(k) /\ call'[k].paper = call[k].paper /\ call'[k].op = call[k].op
        /\ call'[k].mark = call[k].mark
    BY <2>2, <2>4 DEF Mine
  <2> QED BY <1>W, <1>X, <1>Y, <2>1, <2>3, <2>5
<1>17. ASSUME NEW c \in Calls, Rest, ReadMark(c) PROVE PapersInv'
  <2>1. UNCHANGED <<paperId, state, loads, token, current>> /\ crossed \subseteq crossed'
        /\ replaced' = replaced
    BY <1>17 DEF ReadMark, Refuse, KeptAsNote, Rest, history, panel
  <2>2. \A k \in Calls \ {c} : call'[k] = call[k]
    BY <1>17 DEF ReadMark, Refuse, KeptAsNote, Shape, CallsTyped
  <2>3. items' = items
    BY <1>17 DEF Rest, panel
  <2>4. call'[c].paper = call[c].paper /\ call'[c].op = call[c].op /\ call'[c].mark = call[c].mark
        /\ call'[c].mine = call[c].mine /\ call[c].at # "free"
    BY <1>17 DEF ReadMark, Refuse, KeptAsNote, NoCall, Shape, CallsTyped, Asked
  <2>5. \A k \in Calls : Mine(k)' => Mine(k) /\ call'[k].paper = call[k].paper /\ call'[k].op = call[k].op
        /\ call'[k].mark = call[k].mark
    BY <2>2, <2>4 DEF Mine
  <2> QED BY <1>W, <1>X, <1>Y, <2>1, <2>3, <2>5
<1>18. ASSUME NEW c \in Calls, Rest, SaveMark(c) PROVE PapersInv'
  <2>1. UNCHANGED <<paperId, state, loads, token, current>> /\ crossed \subseteq crossed'
        /\ replaced' = replaced
    BY <1>18 DEF SaveMark, Answer, View, Rest, history, panel
  <2>2. \A k \in Calls \ {c} : call'[k] = call[k]
    BY <1>18 DEF SaveMark, Answer, View, Shape, CallsTyped
  <2>3. items' = items
    BY <1>18 DEF Rest, panel
  <2>4. call'[c].paper = call[c].paper /\ call'[c].op = call[c].op /\ call'[c].mark = call[c].mark
        /\ call'[c].mine = call[c].mine /\ call[c].at # "free"
    BY <1>18 DEF SaveMark, Answer, View, NoCall, Shape, CallsTyped, Asked
  <2>5. \A k \in Calls : Mine(k)' => Mine(k) /\ call'[k].paper = call[k].paper /\ call'[k].op = call[k].op
        /\ call'[k].mark = call[k].mark
    BY <2>2, <2>4 DEF Mine
  <2> QED BY <1>W, <1>X, <1>Y, <2>1, <2>3, <2>5
<1>19. ASSUME NEW c \in Calls, Rest, RemoveMark(c) PROVE PapersInv'
  <2>1. UNCHANGED <<paperId, state, loads, token, current>> /\ crossed \subseteq crossed'
        /\ replaced' = replaced
    BY <1>19 DEF RemoveMark, Answer, Refuse, Rest, history, panel
  <2>2. \A k \in Calls \ {c} : call'[k] = call[k]
    BY <1>19 DEF RemoveMark, Answer, Refuse, Shape, CallsTyped
  <2>3. items' = items
    BY <1>19 DEF Rest, panel
  <2>4. call'[c].paper = call[c].paper /\ call'[c].op = call[c].op /\ call'[c].mark = call[c].mark
        /\ call'[c].mine = call[c].mine /\ call[c].at # "free"
    BY <1>19 DEF RemoveMark, Answer, Refuse, NoCall, Shape, CallsTyped, Asked
  <2>5. \A k \in Calls : Mine(k)' => Mine(k) /\ call'[k].paper = call[k].paper /\ call'[k].op = call[k].op
        /\ call'[k].mark = call[k].mark
    BY <2>2, <2>4 DEF Mine
  <2> QED BY <1>W, <1>X, <1>Y, <2>1, <2>3, <2>5
<1>20. ASSUME NEW c \in Calls, Rest, CallFails(c) PROVE PapersInv'
  <2>1. UNCHANGED <<paperId, state, loads, token, current>> /\ crossed \subseteq crossed'
        /\ replaced' = replaced
    BY <1>20 DEF CallFails, Refuse, Rest, history, panel
  <2>2. \A k \in Calls \ {c} : call'[k] = call[k]
    BY <1>20 DEF CallFails, Refuse, Shape, CallsTyped
  <2>3. items' = items
    BY <1>20 DEF Rest, panel
  <2>4. call'[c].paper = call[c].paper /\ call'[c].op = call[c].op /\ call'[c].mark = call[c].mark
        /\ call'[c].mine = call[c].mine /\ call[c].at # "free"
    BY <1>20 DEF CallFails, Refuse, NoCall, Shape, CallsTyped, Asked
  <2>5. \A k \in Calls : Mine(k)' => Mine(k) /\ call'[k].paper = call[k].paper /\ call'[k].op = call[k].op
        /\ call'[k].mark = call[k].mark
    BY <2>2, <2>4 DEF Mine
  <2> QED BY <1>W, <1>X, <1>Y, <2>1, <2>3, <2>5
<1>21. ASSUME NEW c \in Calls, AnswerArrives(c) PROVE PapersInv'
  <2>1. UNCHANGED <<paperId, state, loads, token, current>> /\ crossed \subseteq crossed'
        /\ replaced' = replaced
    BY <1>21 DEF AnswerArrives, PanelAfter, Rest, history, panel
  <2>2. \A k \in Calls \ {c} : call'[k] = call[k]
    BY <1>21 DEF AnswerArrives, PanelAfter, Shape, CallsTyped
  <2>3. ~Mine(c)'
    BY <1>21 DEF AnswerArrives, PanelAfter, NoCall, Mine, Shape, CallsTyped
  <2>4. \A k \in Calls : Mine(k)' => Mine(k) /\ call'[k] = call[k]
    BY <2>2, <2>3 DEF Mine
  <2>5. ASSUME "call" \notin crossed', NEW i \in items' PROVE Belongs(i.id, paperId)'
    <3>0. crossed' = crossed
      BY <1>21 DEF AnswerArrives, PanelAfter, history
    <3>1. CASE i \in items
      <4>1. Belongs(i.id, paperId)
        BY <2>5, <3>0, <3>1
      <4> QED BY <1>Z, <2>1, <4>1
    <3>2. CASE i \notin items
      <4>1. i = call[c].view /\ call[c].at = "ok" /\ call[c].op # "remove" /\ call[c].mine
        BY <1>21, <2>5, <3>2 DEF AnswerArrives, PanelAfter
      <4>2. call[c].op \in {"create", "edit", "keep"} /\ call[c].paper \in Papers
        BY <4>1, <1>21 DEF MarksInv, CallsAreSound, Sound, Shape, CallsTyped, Asked, Ops, NoCall
      <4>3. call[c].paper = paperId /\ (call[c].op # "create" => Belongs(call[c].mark, paperId))
        BY <1>21, <3>0, <2>5, <4>1 DEF AnswerArrives, PanelAfter, Mine
      <4>4. Belongs(i.id, paperId)
        BY <1>21, <4>1, <4>2, <4>3 DEF MarksInv, CallsAreSound, Sound, AnswerArrives
      <4> QED BY <1>Z, <2>1, <4>2, <4>3, <4>4
    <3> QED BY <3>1, <3>2
  <2> QED BY <1>W, <1>X, <2>1, <2>4, <2>5
<1>22. ASSUME Quiet PROVE PapersInv'
  <2>1. UNCHANGED <<call, paperId, crossed, state, loads, items>>
    BY <1>22 DEF Quiet, panel, server
  <2>2. \A k \in Calls : Mine(k)' <=> Mine(k)
    BY <2>1 DEF Mine
  <2> QED BY <1>W, <1>X, <1>Y, <2>1, <2>2
<1>23. ASSUME NEW c \in Calls, Losing(c) PROVE PapersInv'
  <2>1. UNCHANGED <<paperId, state, loads, items>> /\ crossed \subseteq crossed'
    BY <1>23, Lost
  <2>2. \A k \in Calls : Mine(k)' => Mine(k) /\ call'[k] = call[k]
    BY <1>23, Lost DEF Mine
  <2> QED BY <1>W, <1>X, <1>Y, <2>1, <2>2
<1>L. ASSUME NEW l \in 1 .. MaxLoads, Loading(l) \/ ListFails(l) \/ LoadFails(l) PROVE PapersInv'
  BY <1>3, <1>L, LoadsMove
<1> QED BY <1>L, <1>1, <1>2, <1>3, <1>11, <1>12, <1>13, <1>14, <1>15, <1>16, <1>17, <1>18, <1>19, <1>20,
      <1>21, <1>22, <1>23, StepCases, Zenon DEF ServerStep

LEMMA ViewHonest ==
  ASSUME NEW m, NEW row, NEW cur \in {current[paperId], Nil}
  PROVE  Honest(View(m, row, cur))
BY DEF Honest, View, Stale, Served

LEMMA HonestStep ==
  ASSUME Shape, LoadsInv, PapersInv, HonestInv, [Next]_vars
  PROVE  HonestInv'
<1> USE DEF HonestInv
<1>H. ASSUME paperId' = paperId, current'[paperId] = current[paperId]
      PROVE  \A i : Honest(i) => Honest(i)'
  BY <1>H DEF Honest, Served
<1>K. ASSUME paperId' = paperId, current'[paperId] = current[paperId], items' = items,
        crossed \subseteq crossed', replaced \subseteq replaced',
        token > 0 /\ loads'[token].at = "listed" => loads'[token] = loads[token], token' = token,
        "call" \notin crossed' => \A c \in Calls : Mine(c)' =>
          \/ call'[c] = call[c]
          \/ call'[c].at \in {"sent", "refused"}
          \/ (call'[c].at = "ok" /\ call'[c].op = "remove")
      PROVE  HonestInv'
  <2> SUFFICES ASSUME paperId \in Papers, paperId \notin replaced'
               PROVE  HonestInv'
    BY <1>K
  <2>1. token > 0 /\ loads'[token].at = "listed" => \A i \in loads'[token].list : Honest(i)'
    BY <1>H, <1>K
  <2>2. ASSUME "call" \notin crossed', NEW i \in items' PROVE Honest(i)'
    BY <1>H, <1>K, <2>2
  <2>3. ASSUME "call" \notin crossed', NEW c \in Calls, Mine(c)', call'[c] = call[c]
        PROVE  (/\ call[c].at \in {"checked", "read"} => call[c].cur \in {current[paperId], Nil}
                /\ call[c].at = "ok" /\ call[c].op # "remove" => Honest(call[c].view))'
    <3>1. Mine(c)
      BY <2>3 DEF Mine
    <3>2. PICK v : v = call[c].view
      OBVIOUS
    <3>3. call[c].at = "ok" /\ call[c].op # "remove" => Honest(v)
      BY <1>K, <2>3, <3>1, <3>2
    <3>4. call[c].at = "ok" /\ call[c].op # "remove" => Honest(v)'
      BY <1>H, <1>K, <3>3
    <3>5. call[c].at \in {"checked", "read"} => call[c].cur \in {current[paperId], Nil}
      BY <1>K, <2>3, <3>1
    <3> QED BY <1>K, <2>3, <3>2, <3>4, <3>5
  <2>4. ASSUME "call" \notin crossed', NEW c \in Calls, Mine(c)'
        PROVE  (/\ call[c].at \in {"checked", "read"} => call[c].cur \in {current[paperId], Nil}
                /\ call[c].at = "ok" /\ call[c].op # "remove" => Honest(call[c].view))'
    <3>1. CASE call'[c] = call[c]
      BY <2>3, <2>4, <3>1
    <3>2. CASE call'[c] # call[c]
      BY <1>K, <2>4, <3>2
    <3> QED BY <3>1, <3>2
  <2> QED BY <1>K, <2>1, <2>2, <2>4
<1>1. ASSUME NEW p \in Papers, Request(p) PROVE HonestInv'
  <2>1. loads'[token'].at = "record"
    BY <1>1, BoundsAssumption DEF Request, Close, Shape, PageTyped, LoadsTyped
  <2>2. call' = call /\ items' = {}
    BY <1>1 DEF Request, Close, server
  <2>3. "call" \notin crossed' => \A c \in Calls : ~Mine(c)
    BY <1>1 DEF Request, Sent, Mine
  <2>4. \A c \in Calls : Mine(c)' <=> Mine(c)
    BY <2>2 DEF Mine
  <2> QED BY <2>1, <2>2, <2>3, <2>4
<1>2. ASSUME NEW p \in Papers, ChangePdf(p) PROVE HonestInv'
  <2>1. UNCHANGED <<call, paperId, crossed, loads, items, token>> /\ replaced' = replaced \cup {p}
    BY <1>2 DEF ChangePdf, RemovePdf, Attach, Replace, Elsewhere, panel
  <2>2. paperId \in Papers /\ paperId \notin replaced' => current'[paperId] = current[paperId]
    BY <1>2, <2>1 DEF ChangePdf, RemovePdf, Attach, Replace, Elsewhere, Shape, ServerTypeOK
  <2>3. CASE paperId \in Papers /\ paperId \notin replaced'
    BY ONLY <1>K, <2>1, <2>2, <2>3
  <2>4. CASE ~(paperId \in Papers /\ paperId \notin replaced')
    BY <2>1, <2>4
  <2> QED BY <2>3, <2>4
<1>3. ASSUME NEW l \in 1 .. MaxLoads, LoadMoves(l) PROVE HonestInv'
  <2>1. UNCHANGED <<call, paperId, crossed, token, current, replaced>>
    BY <1>3 DEF LoadMoves
  <2>2. token > 0 /\ loads[token].at = "listed" => loads[token].paper = paperId /\ token \in 1 .. MaxLoads
    BY BoundsAssumption DEF LoadsInv, Shape, PageTyped
  <2>3. CASE items' = items /\ (token > 0 /\ loads'[token].at = "listed" => loads'[token] = loads[token])
    BY <1>K, <2>1, <2>3
  <2>4. CASE l = token /\ loads[l].at = "listed" /\ loads'[l].at # "listed" /\ items' = loads[l].list
    <3>1. \A i \in items' : paperId \in Papers \ replaced => Honest(i)
      BY <2>2, <2>4, BoundsAssumption
    <3>2. \A i \in items' : paperId \in Papers \ replaced => Honest(i)'
      BY <1>H, <2>1, <3>1
    <3>3. "call" \notin crossed => \A c \in Calls : ~Mine(c)
      BY <2>4, BoundsAssumption DEF PapersInv, LoadsInv
    <3>4. \A c \in Calls : Mine(c)' <=> Mine(c)
      BY <2>1 DEF Mine
    <3> QED BY <2>1, <2>4, <3>2, <3>3, <3>4
  <2>5. CASE l = token /\ loads'[l].at = "listed" /\ items' = items /\ loads'[l].paper = loads[l].paper
        /\ loads'[l].list = List(loads[l].paper)
    <3>1. loads[l].paper = paperId /\ token > 0
      BY <1>3, <2>5, BoundsAssumption DEF LoadsInv, LoadMoves, Load, LoadSteps
    <3>2. \A i \in List(paperId) : Honest(i)
      BY ViewHonest DEF List
    <3>3. \A i \in loads'[token].list : Honest(i)'
      BY <1>H, <2>1, <2>5, <3>1, <3>2
    <3>4. ("call" \notin crossed /\ paperId \in Papers \ replaced) => \A i \in items' : Honest(i)'
      BY <1>H, <2>1, <2>5
    <3>5. "call" \notin crossed => \A c \in Calls : ~Mine(c)
      BY <1>3, <2>5, <3>1, BoundsAssumption DEF PapersInv, LoadsInv, LoadMoves, Load, LoadSteps
    <3>6. \A c \in Calls : Mine(c)' <=> Mine(c)
      BY <2>1 DEF Mine
    <3> QED BY <2>1, <3>3, <3>4, <3>5, <3>6
  <2>6. l # token => (token > 0 => loads'[token] = loads[token])
    BY <1>3, BoundsAssumption DEF LoadMoves, Shape, PageTyped
  <2>7. CASE l # token /\ loads[l].at = "listed" /\ l = token
    BY <2>7
  <2> QED BY <1>3, <2>3, <2>4, <2>5, <2>6 DEF LoadMoves
<1>11. ASSUME NEW c \in Calls, Add(c) PROVE HonestInv'
  <2>1. UNCHANGED <<paperId, state, loads, token, current>> /\ crossed \subseteq crossed'
        /\ replaced' = replaced
    BY <1>11 DEF Add, Send, NewCall, Ready, Rest, history, panel
  <2>2. \A k \in Calls \ {c} : call'[k] = call[k]
    BY <1>11 DEF Add, Send, NewCall, Ready, Shape, CallsTyped
  <2>3. items' = items
    BY <1>11 DEF Add, Send, NewCall, Ready, panel
  <2>4. call'[c].at = "sent"
    BY <1>11 DEF Add, Send, NewCall, Ready, Shape, CallsTyped
  <2>5. \A k \in Calls : call'[k] = call[k] \/ call'[k].at \in {"sent", "refused"}
        \/ (call'[k].at = "ok" /\ call'[k].op = "remove")
    BY <2>2, <2>4
  <2>6. token > 0 /\ loads'[token].at = "listed" => loads'[token] = loads[token]
    BY <2>1
  <2> QED BY ONLY <1>K, <2>1, <2>3, <2>5, <2>6
<1>12. ASSUME NEW c \in Calls, NEW i \in items, NEW op \in {"edit", "keep", "remove"}, Touch(c, i, op)
       PROVE HonestInv'
  <2>1. UNCHANGED <<paperId, state, loads, token, current>> /\ crossed \subseteq crossed'
        /\ replaced' = replaced
    BY <1>12 DEF Touch, Send, NewCall, Ready, Rest, history, panel
  <2>2. \A k \in Calls \ {c} : call'[k] = call[k]
    BY <1>12 DEF Touch, Send, NewCall, Ready, Shape, CallsTyped
  <2>3. items' = items
    BY <1>12 DEF Touch, Send, NewCall, Ready, panel
  <2>4. call'[c].at = "sent"
    BY <1>12 DEF Touch, Send, NewCall, Ready, Shape, CallsTyped
  <2>5. \A k \in Calls : call'[k] = call[k] \/ call'[k].at \in {"sent", "refused"}
        \/ (call'[k].at = "ok" /\ call'[k].op = "remove")
    BY <2>2, <2>4
  <2>6. token > 0 /\ loads'[token].at = "listed" => loads'[token] = loads[token]
    BY <2>1
  <2> QED BY ONLY <1>K, <2>1, <2>3, <2>5, <2>6
<1>13. ASSUME NEW c \in Calls, NEW p \in Papers, NoteElsewhere(c, p) PROVE HonestInv'
  <2>1. UNCHANGED <<paperId, state, loads, token, current>> /\ crossed \subseteq crossed'
        /\ replaced' = replaced
    BY <1>13 DEF NoteElsewhere, Send, NewCall, Elsewhere, Rest, history, panel
  <2>2. \A k \in Calls \ {c} : call'[k] = call[k]
    BY <1>13 DEF NoteElsewhere, Send, NewCall, Elsewhere, Shape, CallsTyped
  <2>3. items' = items
    BY <1>13 DEF NoteElsewhere, Send, NewCall, Elsewhere, panel
  <2>4. call'[c].at = "sent"
    BY <1>13 DEF NoteElsewhere, Send, NewCall, Elsewhere, Shape, CallsTyped
  <2>5. \A k \in Calls : call'[k] = call[k] \/ call'[k].at \in {"sent", "refused"}
        \/ (call'[k].at = "ok" /\ call'[k].op = "remove")
    BY <2>2, <2>4
  <2>6. token > 0 /\ loads'[token].at = "listed" => loads'[token] = loads[token]
    BY <2>1
  <2> QED BY ONLY <1>K, <2>1, <2>3, <2>5, <2>6
<1>14. ASSUME NEW c \in Calls, NEW m \in Marks, NEW op \in {"edit", "keep", "remove"},
              TouchElsewhere(c, m, op) PROVE HonestInv'
  <2>1. UNCHANGED <<paperId, state, loads, token, current>> /\ crossed \subseteq crossed'
        /\ replaced' = replaced
    BY <1>14 DEF TouchElsewhere, Send, NewCall, Elsewhere, Rest, history, panel
  <2>2. \A k \in Calls \ {c} : call'[k] = call[k]
    BY <1>14 DEF TouchElsewhere, Send, NewCall, Elsewhere, Shape, CallsTyped
  <2>3. items' = items
    BY <1>14 DEF TouchElsewhere, Send, NewCall, Elsewhere, panel
  <2>4. call'[c].at = "sent"
    BY <1>14 DEF TouchElsewhere, Send, NewCall, Elsewhere, Shape, CallsTyped
  <2>5. \A k \in Calls : call'[k] = call[k] \/ call'[k].at \in {"sent", "refused"}
        \/ (call'[k].at = "ok" /\ call'[k].op = "remove")
    BY <2>2, <2>4
  <2>6. token > 0 /\ loads'[token].at = "listed" => loads'[token] = loads[token]
    BY <2>1
  <2> QED BY ONLY <1>K, <2>1, <2>3, <2>5, <2>6
<1>15. ASSUME NEW c \in Calls, Rest, CheckCreate(c) PROVE HonestInv'
  <2>1. UNCHANGED <<paperId, state, loads, token, current>> /\ crossed \subseteq crossed'
        /\ replaced' = replaced
    BY <1>15 DEF CheckCreate, Refuse, Rest, history, panel
  <2>2. \A k \in Calls \ {c} : call'[k] = call[k]
    BY <1>15 DEF CheckCreate, Refuse, Shape, CallsTyped
  <2>3. items' = items
    BY <1>15 DEF Rest, panel
  <2>4. call[c] \in Asked
    BY <1>15 DEF CheckCreate, Refuse, NoCall, Shape, CallsTyped
  <2>5. "call" \notin crossed /\ call[c].mine => call[c].paper = paperId
    BY <1>15 DEF CheckCreate, Refuse, Mine, PapersInv
  <2>6. call'[c].at # "refused" => call'[c].at \in {"checked", "read"}
        /\ call'[c].cur \in {current[call[c].paper], Nil} /\ call'[c].mine = call[c].mine
    BY <1>15, <2>4 DEF CheckCreate, Refuse, Asked, Shape, CallsTyped
  <2>7. "call" \notin crossed /\ Mine(c)' /\ call'[c].at # "refused"
        => call'[c].cur \in {current'[paperId'], Nil}
    BY <2>1, <2>5, <2>6 DEF Mine
  <2>8. call'[c].at # "refused" => call'[c].at # "ok"
    BY <2>6
  <2>12. crossed' = crossed
    BY <1>15 DEF Rest
  <2>13. ASSUME "call" \notin crossed, paperId \in Papers \ replaced, NEW k \in Calls, Mine(k)'
        PROVE  (/\ call[k].at \in {"checked", "read"} => call[k].cur \in {current[paperId], Nil}
                /\ call[k].at = "ok" /\ call[k].op # "remove" => Honest(call[k].view))'
    <3>1. CASE k # c
      <4>1. call'[k] = call[k] /\ Mine(k)
        BY <2>2, <2>13, <3>1 DEF Mine
      <4>2. PICK w : w = call[k].view
        OBVIOUS
      <4>3. call[k].at = "ok" /\ call[k].op # "remove" => Honest(w)'
        BY <1>H, <2>1, <2>13, <4>1, <4>2
      <4> QED BY <2>1, <2>13, <4>1, <4>2, <4>3
    <3>2. CASE k = c
      BY <2>6, <2>7, <2>8, <2>13, <3>2
    <3> QED BY <3>1, <3>2
  <2>14. ASSUME paperId \in Papers \ replaced PROVE (token > 0 /\ loads[token].at = "listed"
                => \A i \in loads[token].list : Honest(i))'
    BY <1>H, <2>1, <2>14
  <2>15. ASSUME paperId \in Papers \ replaced, "call" \notin crossed PROVE \A i \in items' : Honest(i)'
    BY <1>H, <2>1, <2>3, <2>15
  <2> QED BY <2>1, <2>12, <2>13, <2>14, <2>15
<1>16. ASSUME NEW c \in Calls, Rest, Insert(c) PROVE HonestInv'
  <2>1. UNCHANGED <<paperId, state, loads, token, current>> /\ crossed \subseteq crossed'
        /\ replaced' = replaced
    BY <1>16 DEF Insert, Answer, View, Rest, history, panel
  <2>2. \A k \in Calls \ {c} : call'[k] = call[k]
    BY <1>16 DEF Insert, Answer, View, Shape, CallsTyped
  <2>3. items' = items
    BY <1>16 DEF Rest, panel
  <2>4. call[c] \in Asked
    BY <1>16 DEF Insert, Answer, View, NoCall, Shape, CallsTyped
  <2>5. "call" \notin crossed /\ call[c].mine => call[c].paper = paperId
    BY <1>16 DEF Insert, Answer, View, Mine, PapersInv
  <2>6. call'[c].at = "ok" /\ call'[c].mine = call[c].mine /\ call[c].at # "free"
    BY <1>16, <2>4 DEF Insert, Answer, View, Asked, Shape, CallsTyped
  <2>9. PICK m, row : call'[c].view = View(m, row, call[c].cur)
    BY <1>16, <2>4 DEF Insert, Answer, Asked, Shape, CallsTyped
  <2>10. "call" \notin crossed /\ paperId \in Papers \ replaced /\ Mine(c)'
        => Honest(View(m, row, call[c].cur))
    <3>1. Mine(c)' => Mine(c)
      BY <2>6 DEF Mine
    <3>2. "call" \notin crossed /\ paperId \in Papers \ replaced /\ Mine(c)
          => call[c].cur \in {current[paperId], Nil}
      BY <1>16 DEF Insert
    <3> QED BY <3>1, <3>2, ViewHonest
  <2>11. PICK v : v = View(m, row, call[c].cur)
    OBVIOUS
  <2>7. "call" \notin crossed /\ paperId \in Papers \ replaced /\ Mine(c)' => Honest(v)'
    BY <1>H, <2>1, <2>10, <2>11
  <2>8. call'[c].view = v
    BY <2>9, <2>11
  <2>12. crossed' = crossed
    BY <1>16 DEF Rest
  <2>13. ASSUME "call" \notin crossed, paperId \in Papers \ replaced, NEW k \in Calls, Mine(k)'
        PROVE  (/\ call[k].at \in {"checked", "read"} => call[k].cur \in {current[paperId], Nil}
                /\ call[k].at = "ok" /\ call[k].op # "remove" => Honest(call[k].view))'
    <3>1. CASE k # c
      <4>1. call'[k] = call[k] /\ Mine(k)
        BY <2>2, <2>13, <3>1 DEF Mine
      <4>2. PICK w : w = call[k].view
        OBVIOUS
      <4>3. call[k].at = "ok" /\ call[k].op # "remove" => Honest(w)'
        BY <1>H, <2>1, <2>13, <4>1, <4>2
      <4> QED BY <2>1, <2>13, <4>1, <4>2, <4>3
    <3>2. CASE k = c
      BY <2>6, <2>7, <2>8, <2>13, <3>2
    <3> QED BY <3>1, <3>2
  <2>14. ASSUME paperId \in Papers \ replaced PROVE (token > 0 /\ loads[token].at = "listed"
                => \A i \in loads[token].list : Honest(i))'
    BY <1>H, <2>1, <2>14
  <2>15. ASSUME paperId \in Papers \ replaced, "call" \notin crossed PROVE \A i \in items' : Honest(i)'
    BY <1>H, <2>1, <2>3, <2>15
  <2> QED BY <2>1, <2>12, <2>13, <2>14, <2>15
<1>17. ASSUME NEW c \in Calls, Rest, ReadMark(c) PROVE HonestInv'
  <2>1. UNCHANGED <<paperId, state, loads, token, current>> /\ crossed \subseteq crossed'
        /\ replaced' = replaced
    BY <1>17 DEF ReadMark, Refuse, KeptAsNote, Rest, history, panel
  <2>2. \A k \in Calls \ {c} : call'[k] = call[k]
    BY <1>17 DEF ReadMark, Refuse, KeptAsNote, Shape, CallsTyped
  <2>3. items' = items
    BY <1>17 DEF Rest, panel
  <2>4. call[c] \in Asked
    BY <1>17 DEF ReadMark, Refuse, KeptAsNote, NoCall, Shape, CallsTyped
  <2>5. "call" \notin crossed /\ call[c].mine => call[c].paper = paperId
    BY <1>17 DEF ReadMark, Refuse, KeptAsNote, Mine, PapersInv
  <2>6. call'[c].at # "refused" => call'[c].at \in {"checked", "read"}
        /\ call'[c].cur \in {current[call[c].paper], Nil} /\ call'[c].mine = call[c].mine
    BY <1>17, <2>4 DEF ReadMark, Refuse, KeptAsNote, Asked, Shape, CallsTyped
  <2>7. "call" \notin crossed /\ Mine(c)' /\ call'[c].at # "refused"
        => call'[c].cur \in {current'[paperId'], Nil}
    BY <2>1, <2>5, <2>6 DEF Mine
  <2>8. call'[c].at # "refused" => call'[c].at # "ok"
    BY <2>6
  <2>12. crossed' = crossed
    BY <1>17 DEF Rest
  <2>13. ASSUME "call" \notin crossed, paperId \in Papers \ replaced, NEW k \in Calls, Mine(k)'
        PROVE  (/\ call[k].at \in {"checked", "read"} => call[k].cur \in {current[paperId], Nil}
                /\ call[k].at = "ok" /\ call[k].op # "remove" => Honest(call[k].view))'
    <3>1. CASE k # c
      <4>1. call'[k] = call[k] /\ Mine(k)
        BY <2>2, <2>13, <3>1 DEF Mine
      <4>2. PICK w : w = call[k].view
        OBVIOUS
      <4>3. call[k].at = "ok" /\ call[k].op # "remove" => Honest(w)'
        BY <1>H, <2>1, <2>13, <4>1, <4>2
      <4> QED BY <2>1, <2>13, <4>1, <4>2, <4>3
    <3>2. CASE k = c
      BY <2>6, <2>7, <2>8, <2>13, <3>2
    <3> QED BY <3>1, <3>2
  <2>14. ASSUME paperId \in Papers \ replaced PROVE (token > 0 /\ loads[token].at = "listed"
                => \A i \in loads[token].list : Honest(i))'
    BY <1>H, <2>1, <2>14
  <2>15. ASSUME paperId \in Papers \ replaced, "call" \notin crossed PROVE \A i \in items' : Honest(i)'
    BY <1>H, <2>1, <2>3, <2>15
  <2> QED BY <2>1, <2>12, <2>13, <2>14, <2>15
<1>18. ASSUME NEW c \in Calls, Rest, SaveMark(c) PROVE HonestInv'
  <2>1. UNCHANGED <<paperId, state, loads, token, current>> /\ crossed \subseteq crossed'
        /\ replaced' = replaced
    BY <1>18 DEF SaveMark, Answer, View, Rest, history, panel
  <2>2. \A k \in Calls \ {c} : call'[k] = call[k]
    BY <1>18 DEF SaveMark, Answer, View, Shape, CallsTyped
  <2>3. items' = items
    BY <1>18 DEF Rest, panel
  <2>4. call[c] \in Asked
    BY <1>18 DEF SaveMark, Answer, View, NoCall, Shape, CallsTyped
  <2>5. "call" \notin crossed /\ call[c].mine => call[c].paper = paperId
    BY <1>18 DEF SaveMark, Answer, View, Mine, PapersInv
  <2>6. call'[c].at = "ok" /\ call'[c].mine = call[c].mine /\ call[c].at # "free"
    BY <1>18, <2>4 DEF SaveMark, Answer, View, Asked, Shape, CallsTyped
  <2>9. PICK m, row : call'[c].view = View(m, row, call[c].cur)
    BY <1>18, <2>4 DEF SaveMark, Answer, Asked, Shape, CallsTyped
  <2>10. "call" \notin crossed /\ paperId \in Papers \ replaced /\ Mine(c)'
        => Honest(View(m, row, call[c].cur))
    <3>1. Mine(c)' => Mine(c)
      BY <2>6 DEF Mine
    <3>2. "call" \notin crossed /\ paperId \in Papers \ replaced /\ Mine(c)
          => call[c].cur \in {current[paperId], Nil}
      BY <1>18 DEF SaveMark
    <3> QED BY <3>1, <3>2, ViewHonest
  <2>11. PICK v : v = View(m, row, call[c].cur)
    OBVIOUS
  <2>7. "call" \notin crossed /\ paperId \in Papers \ replaced /\ Mine(c)' => Honest(v)'
    BY <1>H, <2>1, <2>10, <2>11
  <2>8. call'[c].view = v
    BY <2>9, <2>11
  <2>12. crossed' = crossed
    BY <1>18 DEF Rest
  <2>13. ASSUME "call" \notin crossed, paperId \in Papers \ replaced, NEW k \in Calls, Mine(k)'
        PROVE  (/\ call[k].at \in {"checked", "read"} => call[k].cur \in {current[paperId], Nil}
                /\ call[k].at = "ok" /\ call[k].op # "remove" => Honest(call[k].view))'
    <3>1. CASE k # c
      <4>1. call'[k] = call[k] /\ Mine(k)
        BY <2>2, <2>13, <3>1 DEF Mine
      <4>2. PICK w : w = call[k].view
        OBVIOUS
      <4>3. call[k].at = "ok" /\ call[k].op # "remove" => Honest(w)'
        BY <1>H, <2>1, <2>13, <4>1, <4>2
      <4> QED BY <2>1, <2>13, <4>1, <4>2, <4>3
    <3>2. CASE k = c
      BY <2>6, <2>7, <2>8, <2>13, <3>2
    <3> QED BY <3>1, <3>2
  <2>14. ASSUME paperId \in Papers \ replaced PROVE (token > 0 /\ loads[token].at = "listed"
                => \A i \in loads[token].list : Honest(i))'
    BY <1>H, <2>1, <2>14
  <2>15. ASSUME paperId \in Papers \ replaced, "call" \notin crossed PROVE \A i \in items' : Honest(i)'
    BY <1>H, <2>1, <2>3, <2>15
  <2> QED BY <2>1, <2>12, <2>13, <2>14, <2>15
<1>19. ASSUME NEW c \in Calls, Rest, RemoveMark(c) PROVE HonestInv'
  <2>1. UNCHANGED <<paperId, state, loads, token, current>> /\ crossed \subseteq crossed'
        /\ replaced' = replaced
    BY <1>19 DEF RemoveMark, Answer, Refuse, Rest, history, panel
  <2>2. \A k \in Calls \ {c} : call'[k] = call[k]
    BY <1>19 DEF RemoveMark, Answer, Refuse, Shape, CallsTyped
  <2>3. items' = items
    BY <1>19 DEF Rest, panel
  <2>4. call'[c].at = "refused" \/ (call'[c].at = "ok" /\ call'[c].op = "remove")
    BY <1>19 DEF RemoveMark, Answer, Refuse, NoCall, Shape, CallsTyped, Asked
  <2>5. \A k \in Calls : call'[k] = call[k] \/ call'[k].at \in {"sent", "refused"}
        \/ (call'[k].at = "ok" /\ call'[k].op = "remove")
    BY <2>2, <2>4
  <2>6. token > 0 /\ loads'[token].at = "listed" => loads'[token] = loads[token]
    BY <2>1
  <2> QED BY ONLY <1>K, <2>1, <2>3, <2>5, <2>6
<1>20. ASSUME NEW c \in Calls, Rest, CallFails(c) PROVE HonestInv'
  <2>1. UNCHANGED <<paperId, state, loads, token, current>> /\ crossed \subseteq crossed'
        /\ replaced' = replaced
    BY <1>20 DEF CallFails, Refuse, Rest, history, panel
  <2>2. \A k \in Calls \ {c} : call'[k] = call[k]
    BY <1>20 DEF CallFails, Refuse, Shape, CallsTyped
  <2>3. items' = items
    BY <1>20 DEF Rest, panel
  <2>4. call'[c].at = "refused" \/ (call'[c].at = "ok" /\ call'[c].op = "remove")
    BY <1>20 DEF CallFails, Refuse, NoCall, Shape, CallsTyped, Asked
  <2>5. \A k \in Calls : call'[k] = call[k] \/ call'[k].at \in {"sent", "refused"}
        \/ (call'[k].at = "ok" /\ call'[k].op = "remove")
    BY <2>2, <2>4
  <2>6. token > 0 /\ loads'[token].at = "listed" => loads'[token] = loads[token]
    BY <2>1
  <2> QED BY ONLY <1>K, <2>1, <2>3, <2>5, <2>6
<1>21. ASSUME NEW c \in Calls, AnswerArrives(c) PROVE HonestInv'
  <2>1. UNCHANGED <<paperId, state, loads, token, current>> /\ crossed \subseteq crossed'
        /\ replaced' = replaced
    BY <1>21 DEF AnswerArrives, PanelAfter, Rest, history, panel
  <2>2. \A k \in Calls \ {c} : call'[k] = call[k]
    BY <1>21 DEF AnswerArrives, PanelAfter, Shape, CallsTyped
  <2>3. ~Mine(c)'
    BY <1>21 DEF AnswerArrives, PanelAfter, NoCall, Mine, Shape, CallsTyped
  <2>4. crossed' = crossed
    BY <1>21 DEF AnswerArrives, PanelAfter, history
  <2>5. ASSUME "call" \notin crossed, paperId \in Papers \ replaced, NEW i \in items' PROVE Honest(i)'
    <3>1. Honest(i)
      <4>1. CASE i \in items
        BY <2>5, <4>1
      <4>2. CASE i \notin items
        <5>1. i = call[c].view /\ call[c].at = "ok" /\ call[c].op # "remove" /\ call[c].mine
          BY <1>21, <2>5, <4>2 DEF AnswerArrives, PanelAfter
        <5> QED BY <2>5, <5>1 DEF Mine
      <4> QED BY <4>1, <4>2
    <3> QED BY <1>H, <2>1, <3>1
  <2>6. CASE items' = items
    BY <1>K, <2>1, <2>2, <2>3, <2>6
  <2>7. CASE items' # items
    <3> DEFINE J == (\A k \in Calls : Mine(k) =>
              /\ call[k].at \in {"checked", "read"} => call[k].cur \in {current[paperId], Nil}
              /\ call[k].at = "ok" /\ call[k].op # "remove" => Honest(call[k].view))'
    <3>1. ASSUME "call" \notin crossed, paperId \in Papers \ replaced PROVE J
      <4> SUFFICES ASSUME NEW k \in Calls, Mine(k)'
                   PROVE  (/\ call[k].at \in {"checked", "read"} => call[k].cur \in {current[paperId], Nil}
                           /\ call[k].at = "ok" /\ call[k].op # "remove" => Honest(call[k].view))'
        OBVIOUS
      <4>1. call'[k] = call[k] /\ Mine(k)
        BY <2>2, <2>3 DEF Mine
      <4>2. PICK v : v = call[k].view
        OBVIOUS
      <4>3. call[k].at = "ok" /\ call[k].op # "remove" => Honest(v)'
        BY <1>H, <2>1, <3>1, <4>1, <4>2
      <4> QED BY <2>1, <3>1, <4>1, <4>2, <4>3
    <3>2. (token > 0 /\ loads[token].at = "listed" => \A i \in loads[token].list : Honest(i))'
          \/ paperId \notin Papers \ replaced
      BY <1>H, <2>1
    <3> QED BY <2>1, <2>4, <2>5, <3>1, <3>2
  <2> QED BY <2>6, <2>7
<1>22. ASSUME Quiet PROVE HonestInv'
  <2>1. UNCHANGED <<call, paperId, crossed, loads, items, token, current, replaced>>
    BY <1>22 DEF Quiet, panel, server
  <2> QED BY <1>K, <2>1
<1>23. ASSUME NEW c \in Calls, Losing(c) PROVE HonestInv'
  <2>1. UNCHANGED <<paperId, loads, token, current, items, replaced>> /\ crossed \subseteq crossed'
    BY <1>23, Lost
  <2>2. \A k \in Calls : Mine(k)' => call'[k] = call[k]
    BY <1>23, Lost DEF Mine
  <2> QED BY <1>K, <2>1, <2>2
<1>L. ASSUME NEW l \in 1 .. MaxLoads, Loading(l) \/ ListFails(l) \/ LoadFails(l) PROVE HonestInv'
  BY <1>3, <1>L, LoadsMove
<1> QED BY <1>L, <1>1, <1>2, <1>3, <1>11, <1>12, <1>13, <1>14, <1>15, <1>16, <1>17, <1>18, <1>19, <1>20,
      <1>21, <1>22, <1>23, StepCases, Zenon DEF ServerStep

-----------------------------------------------------------------------------
(* The panel and the server, step by step *)

(* A step of one call that changes one mark leaves the others as they are. *)
LEMMA OneMark ==
  ASSUME Current, paperId' = paperId, NEW c \in Calls, NEW n,
         \A d \in Calls \ {c} : call'[d] = call[d],
         \A m \in Marks \ {n} : rows'[m] = rows[m] /\ \A i : i.id = m => (i \in items' <=> i \in items),
         \A m \in Marks \ {n} : ~About(c, m) /\ ~About(c, m)',
         n \in Marks =>
           /\ \A d \in Calls \ {c} : ~About(d, n)
           /\ Told(n)'
           /\ About(c, n)' => Tells(c, n)'
  PROVE  Current'
<1>1. \A d \in Calls \ {c} : \A m : About(d, m)' <=> About(d, m)
  BY DEF About
<1>2. OneCallEach'
  <2> SUFFICES ASSUME NEW d \in Calls, NEW e \in Calls, NEW m \in Marks, About(d, m)', About(e, m)'
               PROVE d = e
    BY DEF OneCallEach
  <2> QED BY <1>1 DEF Current, OneCallEach
<1>3. ASSUME NEW m \in Marks PROVE Told(m)'
  <2>1. CASE m = n
    BY <2>1
  <2>2. CASE m # n /\ Shows(items, m)
    BY <2>2 DEF Told, Shows, RowsOf
  <2>3. CASE m # n /\ ~Shows(items, m)
    <3>1. PICK d \in Calls : About(d, m) /\ call[d].at = "ok"
      BY <2>3 DEF Current, Told
    <3>2. d # c
      BY <2>3, <3>1
    <3> QED BY <1>1, <3>1, <3>2 DEF Told
  <2> QED BY <2>1, <2>2, <2>3
<1>4. Telling'
  <2> SUFFICES ASSUME NEW d \in Calls, NEW m \in Marks, About(d, m)' PROVE Tells(d, m)'
    BY DEF Telling
  <2>1. CASE d = c
    BY <2>1
  <2>2. CASE d # c
    <3>1. m # n /\ Tells(d, m)
      BY <1>1, <2>2 DEF Current, Telling
    <3>2. call'[d] = call[d] /\ rows'[m] = rows[m] /\ \A i : i.id = m => (i \in items' <=> i \in items)
      BY <2>2, <3>1
    <3> QED BY <3>1, <3>2 DEF Tells
  <2> QED BY <2>1, <2>2
<1> QED BY <1>2, <1>3, <1>4 DEF Current

LEMMA NothingMoves ==
  ASSUME UNCHANGED <<call, rows, items, paperId>>
  PROVE  (Current => Current') /\ \A set, m : Shows(set, m) => Shows(set, m)'
<1>1. \A c \in Calls : \A m : (About(c, m)' <=> About(c, m)) /\ (Tells(c, m)' <=> Tells(c, m))
  BY DEF About, Tells
<1>2. \A set, m : Shows(set, m)' <=> Shows(set, m)
  BY DEF Shows, RowsOf
<1>3. \A m \in Marks : Told(m) => Told(m)'
  BY <1>1, <1>2 DEF Told
<1> QED BY <1>1, <1>2, <1>3 DEF Current, OneCallEach, Telling

(* A call on a mark of the paper: what it may find. *)
LEMMA MarkOfPaper ==
  ASSUME NEW m, NEW p, Belongs(m, p), m \in Marks, rows[m] # Nil
  PROVE  rows[m].paper = p
BY DEF Belongs, Sits, Of

LEMMA PanelStep ==
  ASSUME Shape, MarksInv, LoadsInv, PapersInv, PanelInv, [Next]_vars
  PROVE  PanelInv'
<1> USE DEF PanelInv
<1>1. ASSUME NEW p \in Papers, Request(p) PROVE PanelInv'
  <2>1. loads'[token'].at = "record" /\ pdfVersion' = Nil /\ call' = call
    BY <1>1, BoundsAssumption DEF Request, Close, Shape, PageTyped, LoadsTyped, server
  <2>2. crossed \subseteq crossed' \/ \A c \in Calls : call[c].at = "free"
    BY <1>1 DEF Request
  <2> QED BY <2>1, <2>2 DEF Calm
<1>2. ASSUME NEW p \in Papers, ChangePdf(p) PROVE PanelInv'
  <2>1. UNCHANGED <<call, rows, items, paperId, crossed, loads, token, pdfVersion>>
    BY <1>2 DEF ChangePdf, RemovePdf, Attach, Replace, Elsewhere, panel
  <2>2. (Current => Current') /\ \A set, m : Shows(set, m) => Shows(set, m)'
    BY <2>1, NothingMoves
  <2> QED BY <2>1, <2>2 DEF Calm
<1>3. ASSUME NEW l \in 1 .. MaxLoads, LoadMoves(l) PROVE PanelInv'
  <2>1. UNCHANGED <<call, rows, paperId, crossed, token>>
    BY <1>3 DEF LoadMoves
  <2>2. token > 0 /\ loads[token].at # "none" => token \in 1 .. MaxLoads /\ loads[token].paper = paperId
        /\ state = "loading"
    BY BoundsAssumption DEF LoadsInv, Shape, PageTyped
  <2>0. \A set, m : Shows(set, m) => Shows(set, m)'
    BY <2>1 DEF Shows, RowsOf
  <2>3. loads[l].at # "none"
    BY <1>3 DEF LoadMoves, Load, LoadSteps
  <2>4. l # token => (token > 0 => loads'[token] = loads[token])
    BY <1>3, BoundsAssumption DEF LoadMoves, Shape, PageTyped
  <2>5. CASE items' = items /\ pdfVersion' = pdfVersion
        /\ (token > 0 /\ loads'[token].at = "listed" => loads'[token] = loads[token])
    <3>1. Current => Current'
      BY <2>1, <2>5, NothingMoves
    <3> QED BY <2>0, <2>1, <2>5, <3>1 DEF Calm
  <2>6. CASE l = token /\ items' = items /\ pdfVersion' = pdfVersion
        /\ loads'[l].list = List(loads[l].paper)
    <3>1. Current => Current'
      BY <2>1, <2>6, NothingMoves
    <3>2. loads[l].paper = paperId
      BY <2>2, <2>3, <2>6, BoundsAssumption
    <3>3. \A m \in Marks : Shows(List(paperId), m)
      <4>1. \A i \in List(paperId) : i.id \in RowsOf(paperId) /\ i.anchor = rows[i.id].anchor
        BY DEF List, View
      <4>2. \A m \in RowsOf(paperId) : View(m, rows[m], current[paperId]) \in List(paperId)
            /\ View(m, rows[m], current[paperId]).id = m
        BY DEF List, View
      <4> QED BY <4>1, <4>2 DEF Shows
    <3>4. (\A m \in Marks : Shows(loads[token].list, m))'
      <4>1. loads'[token].list = List(paperId)
        BY <2>6, <3>2
      <4>2. PICK set : set = List(paperId)
        OBVIOUS
      <4>3. \A m \in Marks : Shows(set, m)'
        BY <2>0, <3>3, <4>2
      <4> QED BY <2>1, <4>1, <4>2, <4>3
    <3> QED BY <2>1, <2>6, <3>1, <3>4 DEF Calm
  <2>7. CASE l = token /\ loads[l].at = "listed" /\ loads'[l].at # "listed" /\ items' = loads[l].list
    <3> SUFFICES ASSUME Calm PROVE PanelInv'
      BY <2>1 DEF Calm
    <3>1. "call" \notin crossed
      BY DEF Calm
    <3>2. \A c \in Calls : call[c].at = "free"
      BY <2>2, <2>3, <2>7, <3>1, BoundsAssumption DEF PapersInv, Mine
    <3>3. \A c \in Calls : \A m : ~About(c, m)'
      BY <2>1, <3>2 DEF About
    <3>4. \A m \in Marks : Shows(items, m)'
      BY <2>0, <2>2, <2>3, <2>7, BoundsAssumption
    <3>5. Current'
      BY <3>3, <3>4 DEF Current, OneCallEach, Told, Telling
    <3> QED BY <2>1, <2>7, <3>2, <3>5 DEF Calm
  <2> QED BY <1>3, <2>4, <2>5, <2>6, <2>7 DEF LoadMoves
<1>11. ASSUME NEW c \in Calls, Add(c) PROVE PanelInv'
  <2>0. UNCHANGED <<paperId, loads, token, pdfVersion>> /\ crossed \subseteq crossed'
    BY <1>11 DEF Add, Send, NewCall, Ready, Rest, history, panel
  <2>1. \A k \in Calls \ {c} : call'[k] = call[k]
    BY <1>11 DEF Add, Send, NewCall, Ready, Shape, CallsTyped
  <2> SUFFICES ASSUME Calm, Calm' PROVE PanelInv'
    BY <2>0 DEF Calm
  <2>2. "call" \notin crossed /\ crossed' = crossed
    BY <1>11 DEF Add, Send, NewCall, Ready, Rest, history, Calm
  <2>3. (\A k \in Calls : call[k].at # "free" => call[k].mine)'
    BY <1>11, <2>1 DEF Add, Send, NewCall, Ready, Shape, CallsTyped, Asked, NoCall
  <2>4. ~(token > 0 /\ loads[token].at = "listed")
    BY <1>11 DEF Add, Send, NewCall, Ready, LoadsInv
  <2>5. UNCHANGED <<rows, items>>
    BY <1>11 DEF Add, Send, NewCall, Ready, Rest, panel
  <2>6. call'[c].op = "create" /\ call'[c].at # "ok"
        /\ (call[c].at = "free" \/ (call[c].op = "create" /\ call[c].at # "ok"))
    BY <1>11, <2>2 DEF Add, Send, NewCall, Ready, Shape, CallsTyped, Asked, NoCall, MarksInv,
       CallsAreSound, Sound
  <2>7. \A m : ~About(c, m) /\ ~About(c, m)'
    BY <2>6 DEF About
  <2>9. ASSUME Current PROVE Current'
    <3>1. 0 \notin Marks
      BY DEF Marks
    <3>2. \A m \in Marks \ {0} : rows'[m] = rows[m] /\ \A i : i.id = m => (i \in items' <=> i \in items)
      BY <2>5
    <3> QED BY ONLY <2>0, <2>1, <2>7, <2>9, <3>1, <3>2, OneMark
  <2> QED BY <2>0, <2>3, <2>4, <2>9
<1>12. ASSUME NEW c \in Calls, NEW i \in items, NEW op \in {"edit", "keep", "remove"}, Touch(c, i, op)
       PROVE PanelInv'
  <2>0. UNCHANGED <<paperId, loads, token, pdfVersion>> /\ crossed \subseteq crossed'
    BY <1>12 DEF Touch, Send, NewCall, Ready, Rest, history, panel
  <2>1. \A k \in Calls \ {c} : call'[k] = call[k]
    BY <1>12 DEF Touch, Send, NewCall, Ready, Shape, CallsTyped
  <2> SUFFICES ASSUME Calm, Calm' PROVE PanelInv'
    BY <2>0 DEF Calm
  <2>2. "call" \notin crossed /\ crossed' = crossed
    BY <1>12 DEF Touch, Send, NewCall, Ready, Rest, history, Calm
  <2>3. (\A k \in Calls : call[k].at # "free" => call[k].mine)'
    BY <1>12, <2>1 DEF Touch, Send, NewCall, Ready, Shape, CallsTyped, Asked, NoCall
  <2>4. ~(token > 0 /\ loads[token].at = "listed")
    BY <1>12 DEF Touch, Send, NewCall, Ready, LoadsInv
  <2>5. UNCHANGED <<rows, items>> /\ i.id \in Marks /\ call[c].at = "free"
    BY <1>12 DEF Touch, Send, Shape, PageTyped, Item
  <2>6. call'[c].op \in {"edit", "keep", "remove"} /\ call'[c].at = "sent" /\ call'[c].mark = i.id
    BY <1>12 DEF Touch, Send, NewCall, Shape, CallsTyped
  <2>7. \A m : m # i.id => ~About(c, m) /\ ~About(c, m)'
    BY <2>5, <2>6 DEF About
  <2>8. About(c, i.id)' => Tells(c, i.id)'
    BY <2>6 DEF Tells
  <2>9. ASSUME Current PROVE Current'
    <3>1. ASSUME NEW k \in Calls \ {c}, About(k, i.id) PROVE FALSE
      <4>1. call[k].mine /\ call[k].at # "free"
        BY <3>1 DEF About
      <4>2. call[k].mark # i.id
        BY <1>12, <4>1 DEF Touch, Sent, Calm
      <4>3. call[k].op = "create" /\ call[k].at = "ok" /\ call[k].view.id = i.id
        BY <3>1, <4>2 DEF About
      <4>4. \A j \in items : j.id # i.id
        BY <2>5, <2>9, <3>1, <4>3 DEF Current, Telling, Tells
      <4> QED BY <1>12, <4>4
    <3>2. Told(i.id)'
      <4>1. Shows(items, i.id)
        BY <2>5, <2>9, <3>1 DEF Current, Told, About
      <4> QED BY <2>0, <2>5, <4>1 DEF Told, Shows, RowsOf
    <3>3. \A m \in Marks \ {i.id} : rows'[m] = rows[m] /\ \A j : j.id = m => (j \in items' <=> j \in items)
      BY <2>5
    <3>4. PICK n : n = i.id
      OBVIOUS
    <3> QED BY ONLY <2>0, <2>1, <2>7, <2>8, <2>9, <3>1, <3>2, <3>3, <3>4, OneMark
  <2> QED BY <2>0, <2>3, <2>4, <2>9
<1>13. ASSUME NEW c \in Calls, NEW p \in Papers, NoteElsewhere(c, p) PROVE PanelInv'
  <2> QED BY <1>13 DEF NoteElsewhere, Send, NewCall, Elsewhere, Calm
<1>14. ASSUME NEW c \in Calls, NEW m \in Marks, NEW op \in {"edit", "keep", "remove"},
              TouchElsewhere(c, m, op) PROVE PanelInv'
  <2> QED BY <1>14 DEF TouchElsewhere, Send, NewCall, Elsewhere, Calm
<1>15. ASSUME NEW c \in Calls, Rest, CheckCreate(c) PROVE PanelInv'
  <2>0. UNCHANGED <<paperId, loads, token, pdfVersion>> /\ crossed \subseteq crossed'
    BY <1>15 DEF CheckCreate, Refuse, Rest, history, panel
  <2>1. \A k \in Calls \ {c} : call'[k] = call[k]
    BY <1>15 DEF CheckCreate, Refuse, Shape, CallsTyped
  <2> SUFFICES ASSUME Calm, Calm' PROVE PanelInv'
    BY <2>0 DEF Calm
  <2>2. "call" \notin crossed /\ crossed' = crossed
    BY <1>15 DEF CheckCreate, Refuse, Rest, history, Calm
  <2>3. (\A k \in Calls : call[k].at # "free" => call[k].mine)'
    BY <1>15, <2>1 DEF CheckCreate, Refuse, Shape, CallsTyped, Asked, NoCall
  <2>4. ~(token > 0 /\ loads[token].at = "listed")
    <3>1. Mine(c)
      BY <1>15 DEF CheckCreate, Refuse, Mine
    <3> QED BY <2>2, <3>1 DEF PapersInv, LoadsInv
  <2>5. UNCHANGED <<rows, items>>
    BY <1>15 DEF CheckCreate, Refuse, Rest, panel
  <2>6. call'[c].op = "create" /\ call'[c].at # "ok"
        /\ (call[c].at = "free" \/ (call[c].op = "create" /\ call[c].at # "ok"))
    BY <1>15, <2>2 DEF CheckCreate, Refuse, Shape, CallsTyped, Asked, NoCall, MarksInv, CallsAreSound, Sound
  <2>7. \A m : ~About(c, m) /\ ~About(c, m)'
    BY <2>6 DEF About
  <2>9. ASSUME Current PROVE Current'
    <3>1. 0 \notin Marks
      BY DEF Marks
    <3>2. \A m \in Marks \ {0} : rows'[m] = rows[m] /\ \A i : i.id = m => (i \in items' <=> i \in items)
      BY <2>5
    <3> QED BY ONLY <2>0, <2>1, <2>7, <2>9, <3>1, <3>2, OneMark
  <2> QED BY <2>0, <2>3, <2>4, <2>9
<1>16. ASSUME NEW c \in Calls, Rest, Insert(c) PROVE PanelInv'
  <2>0. UNCHANGED <<paperId, loads, token, pdfVersion>> /\ crossed \subseteq crossed'
    BY <1>16 DEF Insert, Answer, View, Rest, history, panel
  <2>1. \A k \in Calls \ {c} : call'[k] = call[k]
    BY <1>16 DEF Insert, Answer, View, Shape, CallsTyped
  <2> SUFFICES ASSUME Calm, Calm' PROVE PanelInv'
    BY <2>0 DEF Calm
  <2>2. "call" \notin crossed /\ crossed' = crossed
    BY <1>16 DEF Insert, Answer, View, Rest, history, Calm
  <2>3. (\A k \in Calls : call[k].at # "free" => call[k].mine)'
    BY <1>16, <2>1 DEF Insert, Answer, View, Shape, CallsTyped, Asked, NoCall
  <2>4. ~(token > 0 /\ loads[token].at = "listed")
    <3>1. Mine(c)
      BY <1>16 DEF Insert, Answer, View, Mine
    <3> QED BY <2>2, <3>1 DEF PapersInv, LoadsInv
  <2>5. items' = items /\ made + 1 \in Marks /\ made \in Nat
    BY <1>16, LimitsAssumption DEF Insert, Rest, panel, Marks, Shape, ServerTypeOK
  <2>6. call[c].op = "create" /\ call[c].at = "checked" /\ call[c] \in Asked
    BY <1>16 DEF Insert, MarksInv, CallsAreSound, Sound, Shape, CallsTyped, NoCall
  <2>7. call'[c].op = "create" /\ call'[c].at = "ok" /\ call'[c].view.id = made + 1
        /\ call'[c].view.anchor = rows'[made + 1].anchor /\ rows'[made + 1] # Nil
    <3>1. PICK row : row = [paper |-> call[c].paper, anchor |-> call[c].cur, madeOn |-> call[c].madeOn]
      OBVIOUS
    <3>2. rows'[made + 1] = row
      BY <1>16, <2>5, <3>1 DEF Insert, Shape, ServerTypeOK
    <3>3. row \in RowType
      BY <2>6, <3>1 DEF Asked, RowType, Anchors
    <3>4. call'[c].op = "create" /\ call'[c].at = "ok" /\ call'[c].view = View(made + 1, row, call[c].cur)
      BY <1>16, <2>6, <3>1 DEF Insert, Answer, Shape, CallsTyped, Asked
    <3>5. View(made + 1, row, call[c].cur).id = made + 1
          /\ View(made + 1, row, call[c].cur).anchor = row.anchor
      BY DEF View
    <3> QED BY <3>2, <3>3, <3>4, <3>5, NilAssumption
  <2>8. \A m \in Marks \ {made + 1} : rows'[m] = rows[m]
    BY <1>16 DEF Insert, Shape, ServerTypeOK
  <2>9. ASSUME Current PROVE Current'
    <3>1. ASSUME NEW k \in Calls \ {c}, About(k, made + 1) PROVE FALSE
      <4>1. call[k].op # "note" /\ call[k].at # "free" /\ Sound(k) /\ call[k].op \in Ops
        BY <3>1 DEF About, MarksInv, CallsAreSound, Sound, Shape, CallsTyped, Asked, NoCall
      <4>2. CASE call[k].op = "create"
        BY <2>5, <3>1, <4>1, <4>2 DEF About, Sound
      <4>3. CASE call[k].op # "create"
        BY <2>5, <3>1, <4>1, <4>3 DEF About, Sound, Ops
      <4> QED BY <4>2, <4>3
    <3>2. \A m : m # made + 1 => ~About(c, m) /\ ~About(c, m)'
      BY <2>6, <2>7 DEF About
    <3>4. \A j \in items' : j.id # made + 1
      BY <2>5 DEF MarksInv, Heard
    <3>5. PICK n : n = made + 1
      OBVIOUS
    <3>6. Told(n)'
      BY <2>7, <3>5 DEF Told, About
    <3>7. Tells(c, n)'
      BY <2>7, <3>4, <3>5 DEF Tells
    <3>8. \A m \in Marks \ {n} : rows'[m] = rows[m] /\ \A j : j.id = m => (j \in items' <=> j \in items)
      BY <2>5, <2>8, <3>5
    <3> QED BY ONLY <2>0, <2>1, <2>9, <3>1, <3>2, <3>5, <3>6, <3>7, <3>8, OneMark
  <2> QED BY <2>0, <2>3, <2>4, <2>9
<1>17. ASSUME NEW c \in Calls, Rest, ReadMark(c) PROVE PanelInv'
  <2>0. UNCHANGED <<paperId, loads, token, pdfVersion>> /\ crossed \subseteq crossed'
    BY <1>17 DEF ReadMark, Refuse, KeptAsNote, Rest, history, panel
  <2>1. \A k \in Calls \ {c} : call'[k] = call[k]
    BY <1>17 DEF ReadMark, Refuse, KeptAsNote, Shape, CallsTyped
  <2> SUFFICES ASSUME Calm, Calm' PROVE PanelInv'
    BY <2>0 DEF Calm
  <2>2. "call" \notin crossed /\ crossed' = crossed
    BY <1>17 DEF ReadMark, Refuse, KeptAsNote, Rest, history, Calm
  <2>3. (\A k \in Calls : call[k].at # "free" => call[k].mine)'
    BY <1>17, <2>1 DEF ReadMark, Refuse, KeptAsNote, Shape, CallsTyped, Asked, NoCall
  <2>4. ~(token > 0 /\ loads[token].at = "listed")
    <3>1. Mine(c)
      BY <1>17 DEF ReadMark, Refuse, KeptAsNote, Mine
    <3> QED BY <2>2, <3>1 DEF PapersInv, LoadsInv
  <2>5. items' = items /\ call[c] \in Asked
    BY <1>17 DEF ReadMark, Refuse, KeptAsNote, Rest, panel, NoCall, Shape, CallsTyped
  <2>6. call[c].at \notin {"free", "ok"} /\ call'[c].op = call[c].op /\ call'[c].mark = call[c].mark
    BY <1>17, <2>5 DEF ReadMark, Refuse, KeptAsNote, Shape, CallsTyped, Asked
  <2>7. PICK n : n = IF call[c].op = "create" THEN 0 ELSE call[c].mark
    OBVIOUS
  <2>8. n = call[c].mark /\ call[c].op \in {"edit", "keep"} /\ n \in 1 .. made /\ n \in Marks
    BY <1>17, <2>7, LimitsAssumption DEF ReadMark, Refuse, KeptAsNote, MarksInv, CallsAreSound, Sound,
       Marks, Shape, ServerTypeOK
  <2>10. rows' = rows
    BY <1>17 DEF ReadMark, Refuse, KeptAsNote
  <2>11. call'[c].at # "ok"
    BY <1>17, <2>5 DEF ReadMark, Refuse, KeptAsNote, Shape, CallsTyped, Asked
  <2>9. ASSUME Current PROVE Current'
    <3>1. \A m \in Marks \ {n} : ~About(c, m) /\ ~About(c, m)'
      BY <2>5, <2>6, <2>7, <2>8 DEF About
    <3>2. \A m \in Marks \ {n} : rows'[m] = rows[m] /\ \A j : j.id = m => (j \in items' <=> j \in items)
      BY <2>5, <2>10 DEF Shape, ServerTypeOK
    <3>3. ASSUME n \in Marks PROVE About(c, n) /\ \A k \in Calls \ {c} : ~About(k, n)
      <4>1. About(c, n)
        BY <2>6, <2>7, <3>3 DEF About, Marks
      <4> QED BY <2>9, <3>3, <4>1 DEF Current, OneCallEach
    <3>4. ASSUME n \in Marks PROVE Shows(items, n)
      BY <2>6, <2>9, <3>3, <3>4 DEF Current, Told
    <3>5. ASSUME n \in Marks PROVE Told(n)'
      BY <2>0, <2>5, <2>10, <3>4, <3>5 DEF Told, Shows, RowsOf
    <3>6. ASSUME n \in Marks, About(c, n)' PROVE Tells(c, n)'
      <4>1. call'[c].at = "read" => rows'[n] # Nil
        BY <1>17, <2>5, <2>8, <2>10 DEF ReadMark, Refuse, Shape, CallsTyped, Asked
      <4> QED BY <2>11, <4>1 DEF Tells
    <3> QED BY ONLY <2>0, <2>1, <2>9, <3>1, <3>2, <3>3, <3>5, <3>6, OneMark
  <2> QED BY <2>0, <2>3, <2>4, <2>9
<1>18. ASSUME NEW c \in Calls, Rest, SaveMark(c) PROVE PanelInv'
  <2>0. UNCHANGED <<paperId, loads, token, pdfVersion>> /\ crossed \subseteq crossed'
    BY <1>18 DEF SaveMark, Answer, View, Rest, history, panel
  <2>1. \A k \in Calls \ {c} : call'[k] = call[k]
    BY <1>18 DEF SaveMark, Answer, View, Shape, CallsTyped
  <2> SUFFICES ASSUME Calm, Calm' PROVE PanelInv'
    BY <2>0 DEF Calm
  <2>2. "call" \notin crossed /\ crossed' = crossed
    BY <1>18 DEF SaveMark, Answer, View, Rest, history, Calm
  <2>3. (\A k \in Calls : call[k].at # "free" => call[k].mine)'
    BY <1>18, <2>1 DEF SaveMark, Answer, View, Shape, CallsTyped, Asked, NoCall
  <2>4. ~(token > 0 /\ loads[token].at = "listed")
    <3>1. Mine(c)
      BY <1>18 DEF SaveMark, Answer, View, Mine
    <3> QED BY <2>2, <3>1 DEF PapersInv, LoadsInv
  <2>5. items' = items /\ call[c] \in Asked
    BY <1>18 DEF SaveMark, Answer, View, Rest, panel, NoCall, Shape, CallsTyped
  <2>6. call[c].at \notin {"free", "ok"} /\ call'[c].op = call[c].op /\ call'[c].mark = call[c].mark
    BY <1>18, <2>5 DEF SaveMark, Answer, View, Shape, CallsTyped, Asked
  <2>7. PICK n : n = IF call[c].op = "create" THEN 0 ELSE call[c].mark
    OBVIOUS
  <2>8. n = call[c].mark /\ call[c].op \in {"edit", "keep"} /\ n \in 1 .. made /\ n \in Marks
    BY <1>18, <2>7, LimitsAssumption DEF SaveMark, Answer, View, MarksInv, CallsAreSound, Sound, Marks,
       Shape, ServerTypeOK
  <2>10. rows' = [rows EXCEPT ![n] = call[c].row]
    BY <1>18, <2>8 DEF SaveMark, Answer, View
  <2>11. call'[c].at = "ok" /\ call'[c].view.anchor = call[c].row.anchor
    BY <1>18, <2>5, <2>8 DEF SaveMark, Answer, View, Shape, CallsTyped, Asked, View
  <2>9. ASSUME Current PROVE Current'
    <3>1. \A m \in Marks \ {n} : ~About(c, m) /\ ~About(c, m)'
      BY <2>5, <2>6, <2>7, <2>8 DEF About
    <3>2. \A m \in Marks \ {n} : rows'[m] = rows[m] /\ \A j : j.id = m => (j \in items' <=> j \in items)
      BY <2>5, <2>10 DEF Shape, ServerTypeOK
    <3>3. ASSUME n \in Marks PROVE About(c, n) /\ \A k \in Calls \ {c} : ~About(k, n)
      <4>1. About(c, n)
        BY <2>6, <2>7, <3>3 DEF About, Marks
      <4> QED BY <2>9, <3>3, <4>1 DEF Current, OneCallEach
    <3>4. ASSUME n \in Marks PROVE Shows(items, n)
      BY <2>6, <2>9, <3>3, <3>4 DEF Current, Told
    <3>7. rows[n] # Nil /\ call[c].row \in RowType
      BY <1>18, <2>8, <2>9, <3>3 DEF Current, Telling, Tells, SaveMark, MarksInv, CallsAreSound, Sound
    <3>8. \E j \in items : j.id = n
      <4>1. Belongs(n, paperId)
        BY <1>18, <2>2, <2>8 DEF PapersInv, Mine, SaveMark
      <4>2. n \in RowsOf(paperId)
        BY <2>8, <3>7, <4>1, MarkOfPaper DEF RowsOf
      <4> QED BY <2>8, <3>4, <4>2 DEF Shows
    <3>9. rows'[n] = call[c].row /\ rows'[n] # Nil
      BY <2>8, <2>10, <3>7, NilAssumption DEF Shape, ServerTypeOK
    <3>5. Told(n)'
      BY <2>6, <2>8, <2>11 DEF Told, About
    <3>6. Tells(c, n)'
      BY <2>5, <2>6, <2>8, <2>11, <3>8, <3>9 DEF Tells
    <3> QED BY ONLY <2>0, <2>1, <2>9, <3>1, <3>2, <3>3, <3>5, <3>6, OneMark
  <2> QED BY <2>0, <2>3, <2>4, <2>9
<1>19. ASSUME NEW c \in Calls, Rest, RemoveMark(c) PROVE PanelInv'
  <2>0. UNCHANGED <<paperId, loads, token, pdfVersion>> /\ crossed \subseteq crossed'
    BY <1>19 DEF RemoveMark, Answer, Refuse, Rest, history, panel
  <2>1. \A k \in Calls \ {c} : call'[k] = call[k]
    BY <1>19 DEF RemoveMark, Answer, Refuse, Shape, CallsTyped
  <2> SUFFICES ASSUME Calm, Calm' PROVE PanelInv'
    BY <2>0 DEF Calm
  <2>2. "call" \notin crossed /\ crossed' = crossed
    BY <1>19 DEF RemoveMark, Answer, Refuse, Rest, history, Calm
  <2>3. (\A k \in Calls : call[k].at # "free" => call[k].mine)'
    BY <1>19, <2>1 DEF RemoveMark, Answer, Refuse, Shape, CallsTyped, Asked, NoCall
  <2>4. ~(token > 0 /\ loads[token].at = "listed")
    <3>1. Mine(c)
      BY <1>19 DEF RemoveMark, Answer, Refuse, Mine
    <3> QED BY <2>2, <3>1 DEF PapersInv, LoadsInv
  <2>5. items' = items /\ call[c] \in Asked
    BY <1>19 DEF RemoveMark, Answer, Refuse, Rest, panel, NoCall, Shape, CallsTyped
  <2>6. call[c].at \notin {"free", "ok"} /\ call'[c].op = call[c].op /\ call'[c].mark = call[c].mark
    BY <1>19, <2>5 DEF RemoveMark, Answer, Refuse, Shape, CallsTyped, Asked
  <2>7. PICK n : n = IF call[c].op = "create" THEN 0 ELSE call[c].mark
    OBVIOUS
  <2>8. n = call[c].mark /\ call[c].op \in {"remove"} /\ n \in 1 .. made /\ n \in Marks
    BY <1>19, <2>7, LimitsAssumption DEF RemoveMark, Answer, Refuse, MarksInv, CallsAreSound, Sound, Marks,
       Shape, ServerTypeOK
  <2>10. rows' = [rows EXCEPT ![n] = Nil]
    BY <1>19, <2>8 DEF RemoveMark, Answer, Refuse
  <2>11. call'[c].at = "ok" \/ (call'[c].at = "refused" /\ rows[n] = Nil)
    BY <1>19, <2>5, <2>8 DEF RemoveMark, Answer, Refuse, Shape, CallsTyped, Asked
  <2>9. ASSUME Current PROVE Current'
    <3>1. \A m \in Marks \ {n} : ~About(c, m) /\ ~About(c, m)'
      BY <2>5, <2>6, <2>7, <2>8 DEF About
    <3>2. \A m \in Marks \ {n} : rows'[m] = rows[m] /\ \A j : j.id = m => (j \in items' <=> j \in items)
      BY <2>5, <2>10 DEF Shape, ServerTypeOK
    <3>3. ASSUME n \in Marks PROVE About(c, n) /\ \A k \in Calls \ {c} : ~About(k, n)
      <4>1. About(c, n)
        BY <2>6, <2>7, <3>3 DEF About, Marks
      <4> QED BY <2>9, <3>3, <4>1 DEF Current, OneCallEach
    <3>4. ASSUME n \in Marks PROVE Shows(items, n)
      BY <2>6, <2>9, <3>3, <3>4 DEF Current, Told
    <3>9. rows'[n] = Nil
      BY <2>8, <2>10 DEF Shape, ServerTypeOK
    <3>5. Told(n)'
      <4>1. CASE call'[c].at = "ok"
        BY <2>6, <2>8, <4>1 DEF Told, About
      <4>2. CASE rows[n] = Nil
        BY <2>0, <2>5, <2>8, <3>4, <3>9, <4>2 DEF Told, Shows, RowsOf
      <4> QED BY <2>11, <4>1, <4>2
    <3>6. Tells(c, n)'
      BY <2>6, <2>8, <2>11, <3>9 DEF Tells
    <3> QED BY ONLY <2>0, <2>1, <2>9, <3>1, <3>2, <3>3, <3>5, <3>6, OneMark
  <2> QED BY <2>0, <2>3, <2>4, <2>9
<1>20. ASSUME NEW c \in Calls, Rest, CallFails(c) PROVE PanelInv'
  <2>0. UNCHANGED <<paperId, loads, token, pdfVersion>> /\ crossed \subseteq crossed'
    BY <1>20 DEF CallFails, Refuse, Rest, history, panel
  <2>1. \A k \in Calls \ {c} : call'[k] = call[k]
    BY <1>20 DEF CallFails, Refuse, Shape, CallsTyped
  <2> SUFFICES ASSUME Calm, Calm' PROVE PanelInv'
    BY <2>0 DEF Calm
  <2>2. "call" \notin crossed /\ crossed' = crossed
    BY <1>20 DEF CallFails, Refuse, Rest, history, Calm
  <2>3. (\A k \in Calls : call[k].at # "free" => call[k].mine)'
    BY <1>20, <2>1 DEF CallFails, Refuse, Shape, CallsTyped, Asked, NoCall
  <2>4. ~(token > 0 /\ loads[token].at = "listed")
    <3>1. Mine(c)
      BY <1>20 DEF CallFails, Refuse, Mine
    <3> QED BY <2>2, <3>1 DEF PapersInv, LoadsInv
  <2>5. items' = items /\ call[c] \in Asked
    BY <1>20 DEF CallFails, Refuse, Rest, panel, NoCall, Shape, CallsTyped
  <2>6. call[c].at \notin {"free", "ok"} /\ call'[c].op = call[c].op /\ call'[c].mark = call[c].mark
    BY <1>20, <2>5 DEF CallFails, Refuse, Shape, CallsTyped, Asked
  <2>7. PICK n : n = IF call[c].op = "create" THEN 0 ELSE call[c].mark
    OBVIOUS
  <2>10. rows' = rows
    BY <1>20 DEF CallFails, Refuse
  <2>11. call'[c].at # "ok"
    BY <1>20, <2>5 DEF CallFails, Refuse, Shape, CallsTyped, Asked
  <2>9. ASSUME Current PROVE Current'
    <3>1. \A m \in Marks \ {n} : ~About(c, m) /\ ~About(c, m)'
      BY <2>5, <2>6, <2>7, <2>11 DEF About
    <3>2. \A m \in Marks \ {n} : rows'[m] = rows[m] /\ \A j : j.id = m => (j \in items' <=> j \in items)
      BY <2>5, <2>10 DEF Shape, ServerTypeOK
    <3>3. ASSUME n \in Marks PROVE About(c, n) /\ \A k \in Calls \ {c} : ~About(k, n)
      <4>1. About(c, n)
        BY <2>6, <2>7, <3>3 DEF About, Marks
      <4> QED BY <2>9, <3>3, <4>1 DEF Current, OneCallEach
    <3>4. ASSUME n \in Marks PROVE Shows(items, n)
      BY <2>6, <2>9, <3>3, <3>4 DEF Current, Told
    <3>5. ASSUME n \in Marks PROVE Told(n)'
      BY <2>0, <2>5, <2>10, <3>4, <3>5 DEF Told, Shows, RowsOf
    <3>6. ASSUME n \in Marks, About(c, n)' PROVE Tells(c, n)'
      <4>1. call'[c].at = "read" => rows'[n] # Nil
        BY <1>20 DEF CallFails, Refuse, Shape, CallsTyped, Asked
      <4> QED BY <2>11, <4>1 DEF Tells
    <3> QED BY ONLY <2>0, <2>1, <2>9, <3>1, <3>2, <3>3, <3>5, <3>6, OneMark
  <2> QED BY <2>0, <2>3, <2>4, <2>9
<1>21. ASSUME NEW c \in Calls, AnswerArrives(c) PROVE PanelInv'
  <2>0. UNCHANGED <<paperId, loads, token, pdfVersion>> /\ crossed \subseteq crossed'
    BY <1>21 DEF AnswerArrives, PanelAfter, Rest, history, panel
  <2>1. \A k \in Calls \ {c} : call'[k] = call[k]
    BY <1>21 DEF AnswerArrives, PanelAfter, Shape, CallsTyped
  <2> SUFFICES ASSUME Calm, Calm' PROVE PanelInv'
    BY <2>0 DEF Calm
  <2>2. "call" \notin crossed /\ crossed' = crossed
    BY <1>21 DEF AnswerArrives, PanelAfter, Rest, history, Calm
  <2>3. (\A k \in Calls : call[k].at # "free" => call[k].mine)'
    BY <1>21, <2>1 DEF AnswerArrives, PanelAfter, Shape, CallsTyped, Asked, NoCall
  <2>4. ~(token > 0 /\ loads[token].at = "listed")
    <3>1. Mine(c)
      BY <1>21 DEF AnswerArrives, PanelAfter, Mine
    <3> QED BY <2>2, <3>1 DEF PapersInv, LoadsInv
  <2>5. rows' = rows /\ items' = (IF call[c].at = "ok" THEN PanelAfter(c) ELSE items)
        /\ call'[c].at = "free" /\ call[c] \in Asked /\ call[c].at # "free"
    BY <1>21 DEF AnswerArrives, Shape, CallsTyped, NoCall, Mine
  <2>6. \A m : ~About(c, m)'
    BY <2>5 DEF About
  <2>7. PICK n : n = IF call[c].op # "create" THEN call[c].mark ELSE IF call[c].at = "ok" THEN call[c].view.id ELSE 0
    OBVIOUS
  <2>8. \A m \in Marks \ {n} : ~About(c, m)
    BY <2>7 DEF About
  <2>10. call[c].op \in {"create", "edit", "keep", "remove"} /\ call[c].at \in {"ok", "refused"}
    BY <1>21, <2>5 DEF AnswerArrives, MarksInv, CallsAreSound, Sound, Asked, Ops
  <2>11. call[c].at = "ok" /\ call[c].op \in {"edit", "keep"} => call[c].view.id = n
    BY <2>5, <2>7 DEF MarksInv, CallsAreSound, Sound
  <2>9. ASSUME Current PROVE Current'
    <3>1. ASSUME NEW m \in Marks \ {n}, NEW j, j.id = m PROVE j \in items' <=> j \in items
      <4>1. CASE call[c].at # "ok"
        BY <2>5, <4>1
      <4>2. CASE call[c].at = "ok" /\ call[c].op = "create"
        BY <2>5, <2>7, <3>1, <4>2 DEF PanelAfter
      <4>3. CASE call[c].at = "ok" /\ call[c].op = "remove"
        BY <2>5, <2>7, <3>1, <4>3 DEF PanelAfter
      <4>4. CASE call[c].at = "ok" /\ call[c].op \in {"edit", "keep"}
        BY <2>5, <2>7, <2>11, <3>1, <4>4 DEF PanelAfter
      <4> QED BY <2>10, <4>1, <4>2, <4>3, <4>4
    <3>2. ASSUME n \in Marks PROVE About(c, n) /\ \A k \in Calls \ {c} : ~About(k, n)
      <4>1. About(c, n)
        BY <2>5, <2>7, <3>2 DEF About, Marks
      <4> QED BY <2>9, <3>2, <4>1 DEF Current, OneCallEach
    <3>3. ASSUME n \in Marks PROVE Shows(items', n)
      <4>0. Tells(c, n)
        BY <2>9, <3>2, <3>3 DEF Current, Telling
      <4>1. CASE call[c].at # "ok"
        BY <2>5, <2>9, <3>2, <3>3, <4>1 DEF Current, Told
      <4>2. CASE call[c].at = "ok" /\ call[c].op = "remove"
        BY <2>5, <2>7, <4>0, <4>2 DEF PanelAfter, Tells, Shows, RowsOf
      <4>3. CASE call[c].at = "ok" /\ call[c].op \in {"create", "edit", "keep"}
        <5>1. Belongs(n, paperId)
          BY <2>2, <2>5, <2>7, <4>3, <1>21 DEF PapersInv, Mine, MarksInv, CallsAreSound, Sound
        <5>2. rows[n] # Nil /\ call[c].view.anchor = rows[n].anchor /\ call[c].view.id = n
          BY <2>7, <2>11, <4>0, <4>3 DEF Tells
        <5>3. n \in RowsOf(paperId)
          BY <3>3, <5>1, <5>2, MarkOfPaper DEF RowsOf
        <5>4. CASE call[c].op = "create"
          BY <2>5, <4>0, <4>3, <5>2, <5>3, <5>4 DEF PanelAfter, Tells, Shows
        <5>5. CASE call[c].op \in {"edit", "keep"}
          <6>1. PICK i \in items : i.id = n
            BY <4>0, <4>3, <5>5 DEF Tells
          <6>2. call[c].view \in items' /\ \A j \in items' : j.id = n => j = call[c].view
            BY <2>5, <2>7, <4>3, <5>5, <6>1 DEF PanelAfter
          <6> QED BY <5>2, <5>3, <6>2 DEF Shows
        <5> QED BY <4>3, <5>4, <5>5
      <4> QED BY <2>10, <4>1, <4>2, <4>3
    <3>4. n \in Marks => Told(n)'
      BY <2>0, <2>5, <3>3 DEF Told, Shows, RowsOf
    <3>5. \A m \in Marks \ {n} : rows'[m] = rows[m] /\ \A j : j.id = m => (j \in items' <=> j \in items)
      BY <2>5, <3>1
    <3> QED BY ONLY <2>0, <2>1, <2>6, <2>8, <2>9, <3>2, <3>4, <3>5, OneMark
  <2> QED BY <2>0, <2>3, <2>4, <2>9
<1>22. ASSUME Quiet PROVE PanelInv'
  <2>1. UNCHANGED <<call, rows, items, paperId, crossed, loads, token, pdfVersion>>
    BY <1>22 DEF Quiet, panel, server
  <2>2. (Current => Current') /\ \A set, m : Shows(set, m) => Shows(set, m)'
    BY <2>1, NothingMoves
  <2> QED BY <2>1, <2>2 DEF Calm
<1>23. ASSUME NEW c \in Calls, Losing(c) PROVE PanelInv'
  BY <1>23, Lost DEF Calm
<1>L. ASSUME NEW l \in 1 .. MaxLoads, Loading(l) \/ ListFails(l) \/ LoadFails(l) PROVE PanelInv'
  BY <1>3, <1>L, LoadsMove
<1> QED BY <1>L, <1>1, <1>2, <1>3, <1>11, <1>12, <1>13, <1>14, <1>15, <1>16, <1>17, <1>18, <1>19, <1>20,
      <1>21, <1>22, <1>23, StepCases, Zenon DEF ServerStep

-----------------------------------------------------------------------------
(* The invariant *)

LEMMA ReaderStarts == Init => ReaderInv
<1> SUFFICES ASSUME Init PROVE ReaderInv
  OBVIOUS
<1> USE LimitsAssumption, BoundsAssumption DEF Init, ServerInit, PagesInit
<1>1. Shape
  <2>1. ServerTypeOK
    <3>1. \A f \in Files : [version |-> 1, file |-> f] \in Versions
      BY DEF Versions
    <3> QED BY <3>1 DEF ServerTypeOK
  <2>2. CallsTyped /\ LoadsTyped
    BY DEF CallsTyped, LoadsTyped, NoLoad
  <2>3. PageTyped
    BY DEF PageTyped, VersionNumbers
  <2> QED BY <2>1, <2>2, <2>3 DEF Shape
<1>2. MarksInv
  BY DEF MarksInv, OneAnchor, CallsAreSound, Sound, Numbered, Heard, NoCall, NoLoad
<1>3. LoadsInv
  BY DEF LoadsInv, NoLoad
<1>4. FileInv
  BY DEF FileInv
<1>5. PapersInv
  BY DEF PapersInv, NoLoad, Mine, NoCall
<1>6. HonestInv
  BY DEF HonestInv, Mine, NoCall
<1>7. PanelInv
  BY DEF PanelInv, NoCall
<1> QED BY <1>1, <1>2, <1>3, <1>4, <1>5, <1>6, <1>7 DEF ReaderInv

LEMMA ReaderSteps == ReaderInv /\ [Next]_vars => ReaderInv'
<1> SUFFICES ASSUME ReaderInv, [Next]_vars PROVE ReaderInv'
  OBVIOUS
<1> USE DEF ReaderInv
<1>1. CallsAreSound
  BY DEF MarksInv
<1> QED BY <1>1, ShapeStep, MarksStep, LoadsInvStep, FileStep, PapersStep, HonestStep, PanelStep

(* In every execution, for any papers, files, marks and requests, the      *)
(* loads, the calls under way, the panel and the document on the screen    *)
(* fit together as ReaderInv says; about the panel it says nothing once    *)
(* calls on one mark overlapped, another tab wrote or an answer was lost.  *)
THEOREM ReaderHolds == Spec => []ReaderInv
BY ReaderStarts, ReaderSteps, PTL DEF Spec

(* The type invariant of the reader's page and of the server's marks.      *)
THEOREM ReaderTyped == Spec => []TypeOK
<1>1. ReaderInv => TypeOK
  BY DEF ReaderInv, Shape, PageTyped, TypeOK, VersionNumbers
<1> QED BY <1>1, ReaderHolds, PTL

(* README.md:54, "An annotation is never moved onto a new file": whatever  *)
(* an update read before another call saved, the anchor a mark has and the *)
(* one it had a step before are the same, if it has any.                   *)
THEOREM AnchorsStay == Spec => AnchorNeverMoves
<1>1. ASSUME ReaderInv, [Next]_vars, NEW m \in Marks,
             rows[m] # Nil, rows'[m] # Nil, rows[m].anchor # Nil, rows'[m].anchor # Nil
      PROVE  rows'[m].anchor = rows[m].anchor
  <2>1. Shape /\ MarksInv /\ MarksMove
    BY <1>1, NextMovesMarks DEF ReaderInv
  <2>2. m \in 1 .. made
    BY <1>1, <2>1 DEF MarksInv, Numbered, Marks, Shape, ServerTypeOK
  <2>3. PICK p \in Papers, a \in Anchors : Sits(m, p, a)
    BY <2>1, <2>2 DEF MarksInv, OneAnchor, Belongs
  <2>4. Sits(m, p, a)'
    BY <2>1, <2>3, SitsStays
  <2> QED BY <1>1, <2>3, <2>4 DEF Sits, Of
<1>2. ReaderInv /\ [Next]_vars =>
        [\A m \in Marks :
           /\ rows[m] # Nil /\ rows'[m] # Nil
           /\ rows[m].anchor # Nil /\ rows'[m].anchor # Nil
           => rows'[m].anchor = rows[m].anchor]_server
  BY <1>1
<1> QED BY <1>2, ReaderHolds, PTL DEF Spec, AnchorNeverMoves

(* Whatever is opened over what, the file, the title and the marks on the  *)
(* screen are of the paper asked for last, and no mark that is not shown   *)
(* as stale is drawn on a file it was not made for (paper-reader.ts:101),  *)
(* but for the overtaken calls the property names.                         *)
THEOREM ShowsThePaper == Spec => []ShowsThePaperAskedFor
<1>1. ReaderInv => ShowsThePaperAskedFor
  <2> SUFFICES ASSUME ReaderInv, state = "ready" PROVE ShowsThePaperAskedFor
    BY DEF ShowsThePaperAskedFor
  <2>1. paperId \in Papers /\ token > 0
    BY DEF ReaderInv, Shape, PageTyped, LoadsInv
  <2>2. "first" \notin crossed => doc.paper = paperId /\ doc.load = token
    BY DEF ReaderInv, LoadsInv
  <2>3. "record" \notin crossed => header = paperId
    BY <2>1 DEF ReaderInv, LoadsInv
  <2>4. ASSUME "call" \notin crossed, NEW i \in items, rows[i.id] # Nil PROVE rows[i.id].paper = paperId
    BY <2>4 DEF ReaderInv, PapersInv, Belongs, Sits, Of
  <2>5. ASSUME crossed \cap {"first", "call"} = {}, paperId \notin replaced,
               NEW i \in items, i.anchor # Nil /\ ~i.stale
        PROVE  i.anchor.file = doc.file
    <3>1. Served(i.anchor.file)
      BY <2>1, <2>5 DEF ReaderInv, HonestInv, Honest
    <3>2. Served(doc.file)
      BY <2>5 DEF ReaderInv, FileInv
    <3> QED BY <3>1, <3>2 DEF Served
  <2> QED BY <2>2, <2>3, <2>4, <2>5 DEF ShowsThePaperAskedFor
<1> QED BY <1>1, ReaderHolds, PTL

(* Once everything is answered the panel has the marks of the paper that   *)
(* the server has, with their anchors, in whatever order the server        *)
(* handled the calls and the answers came back, unless two calls on one    *)
(* mark overlapped, another tab wrote, a new paper overtook a call or an   *)
(* answer was lost since the paper was opened.                             *)
THEOREM PanelCatchesUp == Spec => []PanelIsTheServers
<1>1. ReaderInv => PanelIsTheServers
  <2> SUFFICES ASSUME ReaderInv, state = "ready", pdfVersion # Nil, Calm,
                      \A c \in Calls : call[c].at = "free"
               PROVE  {<<i.id, i.anchor>> : i \in items} = {<<m, rows[m].anchor>> : m \in RowsOf(paperId)}
    BY DEF PanelIsTheServers, Calm
  <2>1. \A m \in Marks : Shows(items, m)
    BY DEF ReaderInv, PanelInv, Current, Told, About
  <2>2. \A i \in items : i.id \in Marks
    BY DEF ReaderInv, Shape, PageTyped, Item
  <2>3. \A i \in items : i.id \in RowsOf(paperId) /\ i.anchor = rows[i.id].anchor
    BY <2>1, <2>2 DEF Shows
  <2>4. \A m \in RowsOf(paperId) : \E i \in items : i.id = m /\ i.anchor = rows[m].anchor
    BY <2>1 DEF Shows, RowsOf
  <2> QED BY <2>3, <2>4
<1> QED BY <1>1, ReaderHolds, PTL

-----------------------------------------------------------------------------
(* The order in which pages are drawn *)

LEMMA LeastNumber ==
  ASSUME NEW B \in SUBSET Nat, B # {}
  PROVE  \E n \in B : \A m \in B : n <= m
<1> DEFINE Less == {ss \in Nat \X Nat : ss[1] < ss[2]}
<1>1. IsWellFoundedOn(Less, Nat)
  BY NatLessThanWellFounded, Zenon DEF OpToRel
<1>2. PICK n \in B : \A m \in B : <<m, n>> \notin Less
  <2> HIDE DEF Less
  <2> QED BY <1>1, WFMin, Zenon
<1>3. ASSUME NEW m \in B PROVE n <= m
  <2>1. m < n => <<m, n>> \in Less
    OBVIOUS
  <2> QED BY <1>2, <2>1
<1> QED BY <1>3

NoFarther(m, n, p) == Distance(m, p) <= Distance(n, p)

LEMMA NearestExists ==
  ASSUME NEW W \in SUBSET Nat, W # {}, NEW p \in Nat
  PROVE  \E m \in W : \A n \in W \ {m} : NoFarther(m, n, p)
<1>1. PICK B : B = {Distance(m, p) : m \in W}
  OBVIOUS
<1>2. B \in SUBSET Nat /\ B # {}
  <2>1. \A m \in W : Distance(m, p) \in Nat
    BY DEF Distance
  <2> QED BY <1>1, <2>1
<1>3. PICK r \in B : \A s \in B : r <= s
  BY <1>2, LeastNumber
<1> QED BY <1>1, <1>3 DEF NoFarther

InOrder(q, W, p) ==
  /\ \A n \in W : \E i \in DOMAIN q : q[i] = n
  /\ \A i, j \in DOMAIN q : i < j => NoFarther(q[i], q[j], p)
HasOrder(W, p) == \E q \in [1 .. Cardinality(W) -> W] : InOrder(q, W, p)

(* One more page in front. *)
LEMMA OrderGrows ==
  ASSUME NEW W \in SUBSET Nat, NEW p \in Nat, IsFiniteSet(W),
         NEW m \in W, \A n \in W \ {m} : NoFarther(m, n, p), HasOrder(W \ {m}, p)
  PROVE  HasOrder(W, p)
<1>1. PICK k \in Nat : Cardinality(W) = k + 1 /\ Cardinality(W \ {m}) = k
  <2>1. Cardinality(W) \in Nat /\ Cardinality(W \ {m}) \in Nat /\ Cardinality(W \ {m}) = Cardinality(W) - 1
    BY FS_RemoveElement, FS_CardinalityType
  <2> QED BY <2>1
<1>2. PICK q \in [1 .. k -> W \ {m}] : InOrder(q, W \ {m}, p)
  BY <1>1 DEF HasOrder
<1>3. PICK r : r = [i \in 1 .. k + 1 |-> IF i = 1 THEN m ELSE q[i - 1]]
  OBVIOUS
<1>4. r[1] = m /\ \A i \in 1 .. k : i + 1 \in 1 .. k + 1 /\ r[i + 1] = q[i]
  BY <1>3
<1>5. \A i \in 1 .. k + 1 : i = 1 \/ (i - 1 \in 1 .. k /\ r[i] = q[i - 1])
  BY <1>3
<1>6. r \in [1 .. k + 1 -> W]
  BY <1>2, <1>3
<1>7. ASSUME NEW n \in W PROVE \E i \in 1 .. k + 1 : r[i] = n
  <2>1. CASE n = m
    BY <1>4, <2>1
  <2>2. CASE n # m
    <3>1. PICK i \in 1 .. k : q[i] = n
      BY <1>2, <2>2 DEF InOrder
    <3> QED BY <1>4, <3>1
  <2> QED BY <2>1, <2>2
<1>8. ASSUME NEW i \in 1 .. k + 1, NEW j \in 1 .. k + 1, i < j PROVE NoFarther(r[i], r[j], p)
  <2>1. j - 1 \in 1 .. k /\ r[j] = q[j - 1] /\ q[j - 1] \in W \ {m}
    BY <1>2, <1>5, <1>8
  <2>2. CASE i = 1
    BY <1>4, <2>1, <2>2
  <2>3. CASE i # 1
    <3>1. i - 1 \in 1 .. k /\ r[i] = q[i - 1] /\ i - 1 < j - 1
      BY <1>5, <1>8, <2>3
    <3> QED BY <1>2, <2>1, <3>1 DEF InOrder
  <2> QED BY <2>2, <2>3
<1>9. DOMAIN r = 1 .. k + 1
  BY <1>3
<1>10. InOrder(r, W, p)
  BY <1>7, <1>8, <1>9 DEF InOrder
<1> QED BY <1>1, <1>6, <1>10 DEF HasOrder

(* Every set of pages has its order: by induction over its size, as a      *)
(* smallest set without one would be one page larger than one with it.     *)
LEMMA OrderExists ==
  ASSUME NEW W \in SUBSET Pages, NEW p \in Nat
  PROVE  HasOrder(W, p)
<1>0. IsFiniteSet(Pages) /\ Pages \subseteq Nat
  BY FS_Interval, PagesAssumption DEF Pages
<1> DEFINE Bad == {V \in SUBSET Pages : ~HasOrder(V, p)}
           Sizes == {Cardinality(V) : V \in Bad}
<1>1. \A V \in SUBSET Pages : IsFiniteSet(V) /\ Cardinality(V) \in Nat
  BY <1>0, FS_Subset, FS_CardinalityType
<1>2. SUFFICES ASSUME Bad # {} PROVE FALSE
  OBVIOUS
<1>3. Sizes \in SUBSET Nat /\ Sizes # {}
  BY <1>1, <1>2
<1>4. PICK s \in Sizes : \A t \in Sizes : s <= t
  <2> HIDE DEF Sizes
  <2> QED BY <1>3, LeastNumber
<1>5. PICK V \in Bad : s = Cardinality(V)
  BY <1>4
<1>6. V # {}
  <2>1. SUFFICES ASSUME V = {} PROVE HasOrder(V, p)
    BY <1>5
  <2>2. Cardinality(V) = 0
    BY <2>1, FS_EmptySet
  <2>3. PICK q : q = [i \in 1 .. 0 |-> 0]
    OBVIOUS
  <2>4. q \in [1 .. Cardinality(V) -> V] /\ DOMAIN q = {}
    BY <2>2, <2>3
  <2> QED BY <2>1, <2>4 DEF HasOrder, InOrder
<1>7. PICK m \in V : \A n \in V \ {m} : NoFarther(m, n, p)
  BY <1>0, <1>6, NearestExists
<1>8. IsFiniteSet(V) /\ Cardinality(V) \in Nat /\ Cardinality(V \ {m}) = Cardinality(V) - 1
  BY <1>1, FS_RemoveElement
<1>9. V \ {m} \notin Bad
  BY <1>4, <1>5, <1>8
<1>10. HasOrder(V, p)
  BY <1>0, <1>7, <1>8, <1>9, OrderGrows
<1> QED BY <1>5, <1>10

QueueOf(q) == {q[i] : i \in 1 .. Len(q)}

LEMMA NearestFirstOrders ==
  ASSUME NEW W \in SUBSET Pages, NEW p \in Pages
  PROVE  NearestFirst(W, p) \in Seq(Pages) /\ QueueOf(NearestFirst(W, p)) = W
<1>1. HasOrder(W, p)
  BY OrderExists DEF Pages
<1>2. PICK q : q = NearestFirst(W, p)
  OBVIOUS
<1>3. q \in [1 .. Cardinality(W) -> W] /\ InOrder(q, W, p)
  BY <1>1, <1>2 DEF HasOrder, InOrder, NoFarther, NearestFirst
<1>4. Cardinality(W) \in Nat
  <2>1. IsFiniteSet(Pages)
    BY FS_Interval, PagesAssumption DEF Pages
  <2> QED BY <2>1, FS_Subset, FS_CardinalityType
<1>5. q \in Seq(Pages) /\ Len(q) = Cardinality(W)
  BY <1>3, <1>4
<1>6. DOMAIN q = 1 .. Cardinality(W)
  BY <1>3
<1> QED BY <1>2, <1>3, <1>5, <1>6 DEF QueueOf, InOrder

-----------------------------------------------------------------------------
(* The pages and the pump *)

Pump == [at : {"page", "draw"}, page : Pages, queue : Seq(Pages), doc : Document,
  scale : Scales, overtaken : BOOLEAN, closed : BOOLEAN]
Canvas == [rendered : [Pages -> Scales \cup {None}], pump : Pump \cup {Idle}, again : BOOLEAN,
  from : Pages, late : SUBSET Pages, left : SUBSET Pages, broken : SUBSET Pages]

LEMMA PumpAt ==
  /\ Idle.at = "idle" /\ Idle \notin Pump
  /\ \A w \in Pump : w # Idle /\ w.at \in {"page", "draw"}
BY DEF Idle, Pump

LEMMA Released ==
  ASSUME NEW d \in Canvas, NEW far
  PROVE  LET r == Release(d, far) IN
         /\ r \in Canvas
         /\ \A n \in Pages : r.rendered[n] = IF n \in far THEN None ELSE d.rendered[n]
         /\ r.pump = d.pump /\ r.again = d.again /\ r.from = d.from /\ r.broken = d.broken
         /\ r.late = d.late \ far /\ r.left = d.left \ far
<1>1. PICK f : f = [n \in Pages |-> IF n \in far THEN None ELSE d.rendered[n]]
  OBVIOUS
<1>2. f \in [Pages -> Scales \cup {None}]
  BY <1>1 DEF Canvas
<1>3. PICK r : r = [d EXCEPT !.rendered = f, !.late = @ \ far, !.left = @ \ far]
  OBVIOUS
<1>4. r \in Canvas /\ r.rendered = f /\ r.pump = d.pump /\ r.again = d.again /\ r.from = d.from
      /\ r.broken = d.broken
       /\ r.late = d.late \ far /\ r.left = d.left \ far
  BY <1>2, <1>3 DEF Canvas
<1>5. Release(d, far) = r
  BY <1>1, <1>3 DEF Release
<1> QED BY <1>1, <1>4, <1>5

LEMMA FirstOfQueue ==
  ASSUME NEW queue \in Seq(Pages), queue # <<>>
  PROVE  /\ Head(queue) \in Pages /\ Tail(queue) \in Seq(Pages)
         /\ QueueOf(queue) = {Head(queue)} \cup QueueOf(Tail(queue))
<1>1. Head(queue) \in Pages /\ Tail(queue) \in Seq(Pages) /\ Len(Tail(queue)) = Len(queue) - 1
      /\ Len(queue) \in Nat \ {0} /\ Head(queue) = queue[1]
  OBVIOUS
<1>2. \A i \in 1 .. Len(Tail(queue)) : Tail(queue)[i] = queue[i + 1]
  OBVIOUS
<1>3. ASSUME NEW i \in 1 .. Len(queue) PROVE queue[i] \in {Head(queue)} \cup QueueOf(Tail(queue))
  <2>1. i # 1 => i - 1 \in 1 .. Len(Tail(queue)) /\ Tail(queue)[i - 1] = queue[i]
    BY <1>1, <1>2
  <2> QED BY <1>1, <2>1 DEF QueueOf
<1>4. ASSUME NEW i \in 1 .. Len(Tail(queue)) PROVE i + 1 \in 1 .. Len(queue)
             /\ Tail(queue)[i] = queue[i + 1]
  BY <1>1, <1>2
<1>5. 1 \in 1 .. Len(queue)
  BY <1>1
<1>6. ASSUME NEW x \in {Head(queue)} \cup QueueOf(Tail(queue)) PROVE x \in QueueOf(queue)
  <2>1. CASE x = Head(queue)
    BY <1>1, <1>5, <2>1 DEF QueueOf
  <2>2. CASE x \in QueueOf(Tail(queue))
    <3>1. PICK i \in 1 .. Len(Tail(queue)) : x = Tail(queue)[i]
      BY <2>2 DEF QueueOf
    <3>2. i + 1 \in 1 .. Len(queue) /\ x = queue[i + 1]
      BY <1>4, <3>1
    <3> QED BY <3>2 DEF QueueOf
  <2> QED BY <1>6, <2>1, <2>2
<1>7. QueueOf(queue) \subseteq {Head(queue)} \cup QueueOf(Tail(queue))
  BY <1>3 DEF QueueOf
<1> QED BY <1>1, <1>6, <1>7

(* What DrawFirst and a round of the pump leave behind. *)
StartsOn(d, queue, open, s, r) ==
  /\ r \in Canvas
  /\ r.rendered = d.rendered /\ r.again = d.again /\ r.from = d.from /\ r.broken = d.broken
  /\ r.late = d.late /\ r.left = d.left
  /\ \/ r.pump = Idle /\ (open = None \/ QueueOf(queue) = {})
     \/ /\ r.pump \in Pump /\ r.pump.at = "page"
        /\ QueueOf(queue) = {r.pump.page} \cup QueueOf(r.pump.queue)
        /\ r.pump.doc = open /\ r.pump.scale = s /\ ~r.pump.overtaken /\ ~r.pump.closed
Begins(d, open, vis, p, s, r) ==
  /\ r \in Canvas /\ ~r.again /\ r.from = p /\ r.broken = {}
  /\ r.late \subseteq d.late /\ r.left \subseteq d.left
  /\ \A n \in Pages : r.rendered[n] # None => r.rendered[n] = d.rendered[n]
     /\ (n \in vis \/ Distance(n, p) <= KeepPages)
  /\ \A n \in Pages : (n \in d.late \ r.late) \/ (n \in d.left \ r.left) => r.rendered[n] = None
  /\ \/ r.pump = Idle /\ (open = None \/ \A n \in vis : r.rendered[n] # None)
     \/ /\ r.pump \in Pump /\ r.pump.at = "page"
        /\ {r.pump.page} \cup QueueOf(r.pump.queue) = {n \in vis : r.rendered[n] = None}
        /\ r.pump.doc = open /\ r.pump.scale = s /\ ~r.pump.overtaken /\ ~r.pump.closed

LEMMA FirstDrawn ==
  ASSUME NEW d \in Canvas, NEW queue \in Seq(Pages), NEW open \in Document \cup {None}, NEW s \in Scales,
         NEW r, r = DrawFirst(d, queue, open, s)
  PROVE  StartsOn(d, queue, open, s, r)
<1>1. PICK w : w = IF open = None \/ queue = <<>> THEN Idle
                   ELSE [at |-> "page", page |-> Head(queue), queue |-> Tail(queue),
                         doc |-> open, scale |-> s, overtaken |-> FALSE, closed |-> FALSE]
  OBVIOUS
<1>2. r = [d EXCEPT !.pump = w]
  BY <1>1 DEF DrawFirst
<1>4. w = Idle \/ w \in Pump
  BY <1>1, FirstOfQueue DEF Pump
<1>5. r \in Canvas /\ r.pump = w /\ r.rendered = d.rendered /\ r.again = d.again /\ r.from = d.from
      /\ r.broken = d.broken
       /\ r.late = d.late /\ r.left = d.left
  BY <1>2, <1>4 DEF Canvas
<1>6. CASE open = None \/ queue = <<>>
  <2>1. queue = <<>> => QueueOf(queue) = {}
    BY DEF QueueOf
  <2> QED BY <1>1, <1>5, <1>6, <2>1 DEF StartsOn
<1>7. CASE open # None /\ queue # <<>>
  <2>1. w \in Pump /\ w.at = "page" /\ w.page = Head(queue) /\ w.queue = Tail(queue) /\ w.doc = open
        /\ w.scale = s /\ ~w.overtaken /\ ~w.closed
    BY <1>1, <1>7, FirstOfQueue DEF Pump
  <2> QED BY <1>5, <1>7, <2>1, FirstOfQueue DEF StartsOn
<1> QED BY <1>6, <1>7

(* A round: what it starts from and what is left to draw. *)
LEMMA RoundBegins ==
  ASSUME NEW d \in Canvas, NEW open \in Document \cup {None}, NEW vis \in SUBSET Pages,
         NEW p \in Pages, NEW s \in Scales, NEW r, r = Round(d, open, vis, p, s)
  PROVE  Begins(d, open, vis, p, s, r)
<1>1. PICK far : far = {n \in Pages \ vis : Distance(n, p) > KeepPages}
  OBVIOUS
<1>2. PICK near : near = Release(d, far)
  OBVIOUS
<1>3. /\ near \in Canvas
      /\ \A n \in Pages : near.rendered[n] = IF n \in far THEN None ELSE d.rendered[n]
      /\ near.late = d.late \ far /\ near.left = d.left \ far
  BY <1>2, Released
<1>4. PICK e : e = [near EXCEPT !.again = FALSE, !.from = p, !.broken = {}]
  OBVIOUS
<1>5. e \in Canvas /\ ~e.again /\ e.from = p /\ e.broken = {} /\ e.rendered = near.rendered
      /\ e.late = near.late /\ e.left = near.left
  BY <1>3, <1>4 DEF Canvas
<1> e \in Canvas
  BY <1>5
<1>6. PICK wanted : wanted = {n \in vis : near.rendered[n] = None}
  OBVIOUS
<1>7. PICK queue : queue = NearestFirst(wanted, p)
  OBVIOUS
<1>8. queue \in Seq(Pages) /\ QueueOf(queue) = wanted
  BY <1>6, <1>7, NearestFirstOrders
<1>9. queue \in Seq(Pages)
  BY <1>8
<1>10. r = DrawFirst(e, queue, open, s)
  BY <1>1, <1>2, <1>4, <1>6, <1>7 DEF Round
<1>11. /\ r \in Canvas
       /\ r.rendered = e.rendered /\ r.again = e.again /\ r.from = e.from /\ r.broken = e.broken
       /\ r.late = e.late /\ r.left = e.left
       /\ \/ r.pump = Idle /\ (open = None \/ QueueOf(queue) = {})
          \/ /\ r.pump \in Pump /\ r.pump.at = "page"
             /\ QueueOf(queue) = {r.pump.page} \cup QueueOf(r.pump.queue)
             /\ r.pump.doc = open /\ r.pump.scale = s /\ ~r.pump.overtaken /\ ~r.pump.closed
  <2>1. StartsOn(e, queue, open, s, r)
    BY <1>9, <1>10, FirstDrawn
  <2> QED BY <2>1 DEF StartsOn
<1>12. \A n \in Pages : r.rendered[n] # None => r.rendered[n] = d.rendered[n]
      /\ (n \in vis \/ Distance(n, p) <= KeepPages)
  <2>1. \A n \in Pages : n \notin vis /\ n \notin far => Distance(n, p) <= KeepPages
    BY <1>1, PagesAssumption DEF Pages, Distance
  <2> QED BY <1>3, <1>5, <1>11, <2>1
<1>13. \A n \in Pages : n \in far => r.rendered[n] = None
  BY <1>3, <1>5, <1>11
<1>14. wanted = {n \in vis : r.rendered[n] = None}
  BY <1>5, <1>6, <1>11
<1>15. r.late \subseteq d.late /\ r.left \subseteq d.left /\ \A n \in Pages : (n \in d.late \ r.late)
      \/ (n \in d.left \ r.left) => r.rendered[n] = None
  BY <1>3, <1>5, <1>11, <1>13
<1>16. /\ r \in Canvas /\ ~r.again /\ r.from = p /\ r.broken = {}
       /\ \/ r.pump = Idle /\ (open = None \/ \A n \in vis : r.rendered[n] # None)
          \/ /\ r.pump \in Pump /\ r.pump.at = "page"
             /\ {r.pump.page} \cup QueueOf(r.pump.queue) = {n \in vis : r.rendered[n] = None}
             /\ r.pump.doc = open /\ r.pump.scale = s /\ ~r.pump.overtaken /\ ~r.pump.closed
  BY <1>5, <1>8, <1>11, <1>14
<1> QED BY <1>12, <1>15, <1>16 DEF Begins

(* What the reader may expect of the pages once the pump stops, and what   *)
(* holds meanwhile: whoever changes what is near the screen while the pump *)
(* runs makes it go round again.                                           *)
CloseBy(n, vis, p) == n \in vis \/ Distance(n, p) <= KeepPages
Scaled(d, s) == \A n \in Pages \ d.late : d.rendered[n] \in {s, None}
Aimed(d, s) == d.pump.at = "page" /\ ~d.pump.overtaken => d.pump.scale = s
Covers(d, vis) ==
  \A n \in vis :
    \/ d.rendered[n] # None
    \/ n \in d.broken
    \/ d.pump # Idle /\ n \in QueueOf(d.pump.queue)
    \/ d.pump.at = "page" /\ ~d.pump.closed /\ n = d.pump.page
Keeps(d, open, vis) ==
  /\ \A n \in Pages \ d.left : d.rendered[n] # None => CloseBy(n, vis, d.from)
  /\ d.pump # Idle =>
       /\ \A n \in QueueOf(d.pump.queue) : CloseBy(n, vis, d.from)
       /\ d.pump.at = "page" /\ ~d.pump.closed /\ d.pump.doc = open => CloseBy(d.pump.page, vis, d.from)
       /\ d.pump.closed => vis = {}
Good(d, open, vis, s) ==
  /\ d \in Canvas /\ Scaled(d, s) /\ Aimed(d, s)
  /\ d.pump = Idle => ~d.again
  /\ ~d.again => Covers(d, vis) /\ Keeps(d, open, vis)

(* A page that is drawn and not being drawn again. *)
Shown(d, n) == d.rendered[n] # None /\ (d.pump.at = "draw" => d.pump.page # n)

(* The pump works for the open document, or for the one it did before. *)
WorksFor(r, d, open) ==
  r.pump # Idle => r.pump.doc = open \/ (d.pump # Idle /\ r.pump.doc = d.pump.doc)

(* What calling the pump gives: no page is shown that was not. *)
Follows(r, d, open, vis, s) ==
  Good(r, open, vis, s) /\ WorksFor(r, d, open) /\ \A n \in Pages : Shown(r, n) => Shown(d, n)

LEMMA RoundGood ==
  ASSUME NEW d \in Canvas, NEW open \in Document \cup {None}, NEW vis \in SUBSET Pages,
         NEW p \in Pages, NEW s \in Scales, Scaled(d, s), open = None => vis = {},
         NEW r, r = Round(d, open, vis, p, s)
  PROVE  /\ Good(r, open, vis, s) /\ WorksFor(r, d, open)
         /\ r.pump.at # "draw" /\ \A n \in Pages : Shown(r, n) => d.rendered[n] # None
<1>2. /\ r \in Canvas /\ ~r.again /\ r.from = p /\ r.broken = {}
      /\ r.late \subseteq d.late /\ r.left \subseteq d.left
      /\ \A n \in Pages : r.rendered[n] # None => r.rendered[n] = d.rendered[n]
         /\ (n \in vis \/ Distance(n, p) <= KeepPages)
      /\ \A n \in Pages : (n \in d.late \ r.late) \/ (n \in d.left \ r.left) => r.rendered[n] = None
      /\ \/ r.pump = Idle /\ (open = None \/ \A n \in vis : r.rendered[n] # None)
         \/ /\ r.pump \in Pump /\ r.pump.at = "page"
            /\ {r.pump.page} \cup QueueOf(r.pump.queue) = {n \in vis : r.rendered[n] = None}
            /\ r.pump.doc = open /\ r.pump.scale = s /\ ~r.pump.overtaken /\ ~r.pump.closed
  <2>1. Begins(d, open, vis, p, s, r)
    BY RoundBegins
  <2> QED BY <2>1 DEF Begins
<1>3. Scaled(r, s)
  BY <1>2 DEF Scaled
<1>4. r.pump.at # "draw" /\ Aimed(r, s)
  BY <1>2 DEF Aimed, Idle
<1>5. Covers(r, vis)
  BY <1>2, PumpAt DEF Covers
<1>6. Keeps(r, open, vis)
  <2>1. \A n \in Pages \ r.left : r.rendered[n] # None => CloseBy(n, vis, r.from)
    BY <1>2 DEF CloseBy
  <2>2. r.pump # Idle => {r.pump.page} \cup QueueOf(r.pump.queue) \subseteq vis /\ ~r.pump.closed
    BY <1>2
  <2> QED BY <2>1, <2>2 DEF Keeps, CloseBy
<1>7. Good(r, open, vis, s)
  BY <1>2, <1>3, <1>4, <1>5, <1>6 DEF Good
<1> QED BY <1>2, <1>4, <1>7 DEF Shown, WorksFor

LEMMA CallGood ==
  ASSUME NEW d \in Canvas, NEW open \in Document \cup {None}, NEW vis \in SUBSET Pages,
         NEW p \in Pages, NEW s \in Scales, Scaled(d, s), Aimed(d, s), open # None,
         NEW r, r = Call(d, open, vis, p, s)
  PROVE  Follows(r, d, open, vis, s)
<1>1. CASE d.pump = Idle
  <2>1. r = Round(d, open, vis, p, s)
    BY <1>1 DEF Call
  <2>2. d.pump.at # "draw"
    BY <1>1, PumpAt
  <2>3. Good(r, open, vis, s) /\ WorksFor(r, d, open) /\ \A n \in Pages : Shown(r, n)
        => d.rendered[n] # None
    BY <2>1, RoundGood
  <2> QED BY <2>2, <2>3 DEF Shown, Follows
<1>2. CASE d.pump # Idle
  <2>1. r = [d EXCEPT !.again = TRUE]
    BY <1>2 DEF Call
  <2>2. r \in Canvas /\ r.again /\ r.pump = d.pump /\ r.rendered = d.rendered /\ r.late = d.late
    BY <2>1 DEF Canvas
  <2>3. Good(r, open, vis, s)
    BY <1>2, <2>2 DEF Good, Scaled, Aimed
  <2> QED BY <1>2, <2>2, <2>3 DEF Shown, Follows, WorksFor
<1> QED BY <1>1, <1>2

LEMMA Overtaken ==
  ASSUME NEW d \in Canvas, NEW s \in Scales, NEW r, r = Overtake(d, s)
  PROVE  r \in Canvas /\ r.rendered = d.rendered /\ Aimed(r, s) 
         /\ (r.pump # Idle => d.pump # Idle /\ r.pump.doc = d.pump.doc)
<1>1. CASE d.pump.at = "page"
  <2>1. d.pump \in Pump
    BY <1>1, PumpAt DEF Canvas
  <2>2. PICK w : w = [d.pump EXCEPT !.overtaken = @ \/ s # d.pump.scale]
    OBVIOUS
  <2>3. w \in Pump /\ w.doc = d.pump.doc /\ w.scale = d.pump.scale /\ (~w.overtaken => w.scale = s)
    BY <2>1, <2>2 DEF Pump
  <2>4. r = [d EXCEPT !.pump = w]
    BY <1>1, <2>2 DEF Overtake
  <2>5. r \in Canvas /\ r.pump = w /\ r.rendered = d.rendered
    BY <2>3, <2>4 DEF Canvas
  <2>6. d.pump # Idle
    BY <1>1, PumpAt
  <2> QED BY <2>3, <2>5, <2>6 DEF Aimed
<1>2. CASE d.pump.at # "page"
  BY <1>2 DEF Overtake, Aimed
<1> QED BY <1>1, <1>2

LEMMA RescaledGood ==
  ASSUME NEW d \in Canvas, NEW open \in Document \cup {None}, NEW vis \in SUBSET Pages,
         NEW p \in Pages, NEW s \in Scales, open # None,
         NEW r, r = Rescaled(d, open, vis, p, s)
  PROVE  Good(r, open, vis, s) /\ WorksFor(r, d, open) /\ \A n \in Pages : ~Shown(r, n)
<1>1. PICK e : e = Overtake(d, s)
  OBVIOUS
<1>2. e \in Canvas /\ Aimed(e, s) /\ (e.pump # Idle => d.pump # Idle /\ e.pump.doc = d.pump.doc)
  BY <1>1, Overtaken
<1>3. PICK f : f = Release(e, Pages)
  OBVIOUS
<1>4. f \in Canvas /\ (\A n \in Pages : f.rendered[n] = None) /\ f.pump = e.pump
  BY <1>2, <1>3, Released
<1>5. Scaled(f, s) /\ Aimed(f, s)
  BY <1>2, <1>4 DEF Scaled, Aimed
<1>6. r = Call(f, open, vis, p, s)
  BY <1>1, <1>3 DEF Rescaled
<1>7. Follows(r, f, open, vis, s)
  BY <1>4, <1>5, <1>6, CallGood
<1> QED BY <1>2, <1>4, <1>7 DEF Shown, Follows, WorksFor

(* After a page: what has to hold of the pages without the one that was    *)
(* drawn or given up.                                                      *)
LEMMA GoOnGood ==
  ASSUME NEW d \in Canvas, d.pump \in Pump, doc \in Document \cup {None}, visible \in SUBSET Pages,
         here \in Pages, scale \in Scales, Scaled(d, scale), doc = None => visible = {},
         ~d.again => /\ \A n \in visible : d.rendered[n] # None \/ n \in d.broken
                        \/ n \in QueueOf(d.pump.queue)
                     /\ \A n \in Pages \ d.left : d.rendered[n] # None => CloseBy(n, visible, d.from)
                     /\ \A n \in QueueOf(d.pump.queue) : CloseBy(n, visible, d.from),
         NEW r, r = GoOn(d)
  PROVE  /\ Good(r, doc, visible, scale) /\ WorksFor(r, d, doc)
         /\ r.pump.at # "draw" /\ \A n \in Pages : Shown(r, n) => d.rendered[n] # None
<1>1. CASE d.again
  BY <1>1, RoundGood DEF GoOn
<1>2. CASE ~d.again
  <2>1. r = DrawFirst(d, d.pump.queue, doc, scale)
    BY <1>2 DEF GoOn
  <2>3. PICK queue : queue = d.pump.queue /\ queue \in Seq(Pages)
    BY DEF Pump
  <2>4. /\ r \in Canvas
        /\ r.rendered = d.rendered /\ r.again = d.again /\ r.from = d.from /\ r.broken = d.broken
        /\ r.late = d.late /\ r.left = d.left
        /\ \/ r.pump = Idle /\ (doc = None \/ QueueOf(queue) = {})
           \/ /\ r.pump \in Pump /\ r.pump.at = "page"
              /\ QueueOf(queue) = {r.pump.page} \cup QueueOf(r.pump.queue)
              /\ r.pump.doc = doc /\ r.pump.scale = scale /\ ~r.pump.overtaken /\ ~r.pump.closed
    <3>1. StartsOn(d, queue, doc, scale, r)
      BY <2>1, <2>3, FirstDrawn
    <3> QED BY <3>1 DEF StartsOn
  <2>5. r.pump.at # "draw" /\ Aimed(r, scale) /\ Scaled(r, scale)
    BY <2>4, PumpAt DEF Aimed, Scaled
  <2>6. Covers(r, visible)
    BY <1>2, <2>3, <2>4, PumpAt DEF Covers
  <2>7. Keeps(r, doc, visible)
    <3>1. \A n \in Pages \ r.left : r.rendered[n] # None => CloseBy(n, visible, r.from)
      BY <1>2, <2>4
    <3>2. r.pump # Idle => r.pump.page \in QueueOf(queue) /\ QueueOf(r.pump.queue) \subseteq QueueOf(queue)
          /\ ~r.pump.closed
      BY <2>4
    <3>3. \A n \in QueueOf(queue) : CloseBy(n, visible, r.from)
      BY <1>2, <2>3, <2>4
    <3> QED BY <3>1, <3>2, <3>3 DEF Keeps
  <2>8. Good(r, doc, visible, scale)
    BY <1>2, <2>4, <2>5, <2>6, <2>7 DEF Good
  <2> QED BY <2>4, <2>5, <2>8 DEF Shown, WorksFor
<1> QED BY <1>1, <1>2

-----------------------------------------------------------------------------
(* The invariant of the pages *)

DrawInv ==
  /\ visible \in SUBSET Pages /\ here \in Pages /\ scale \in Scales
  /\ doc = None => visible = {}
  /\ Good(drawing, doc, visible, scale)

(* A document that was opened is that of a load that is over, so that no   *)
(* later one is the same.                                                  *)
Taken(d) == d.load <= token /\ loads[d.load].at = "none"
FreshInv ==
  /\ doc # None => Taken(doc)
  /\ drawing.pump # Idle => Taken(drawing.pump.doc)

Found == [term : Terms \cup {None}, docs : SUBSET Document]
Running == [doc : Document, term : Terms \cup {None}, live : BOOLEAN, next : Pages, docs : SUBSET Document]
SearchTyped ==
  /\ term \in Terms \cup {None}
  /\ hits \in Found \cup {None}
  /\ text \in [Pages -> Document \cup {None}]
  /\ marked \in [Pages -> Terms \cup {None}]
  /\ searches \subseteq Running
  /\ strayText \in BOOLEAN

(* While the cache has text of the open document only, so have the         *)
(* searches that still count, and while a load is waited for there is      *)
(* nothing to search in.                                                   *)
OfTheScreen ==
  /\ \A k \in Pages : text[k] \in {doc, None}
  /\ \A s \in searches : s.live => s.doc = doc /\ s.docs \subseteq {doc}
  /\ hits # None => hits.docs \subseteq {doc}
NothingSearched ==
  /\ doc = None /\ hits = None
  /\ \A k \in Pages : text[k] = None
  /\ \A s \in searches : ~s.live
SearchInv ==
  /\ \A s \in searches : s.live => s.term = term
  /\ hits # None => hits.term = term
  /\ ~strayText => OfTheScreen
  /\ ~strayText /\ token > 0 /\ loads[token].at # "none" => NothingSearched
  /\ \A n \in Pages : Shown(drawing, n) => marked[n] = term

PagesInv == DrawInv /\ FreshInv /\ SearchTyped /\ SearchInv
-----------------------------------------------------------------------------
(* The drawing, step by step *)

(* What every step but the end of a drawing leaves behind. *)
Steady ==
  /\ DrawInv' /\ WorksFor(drawing', drawing, doc')
  /\ \A n \in Pages : Shown(drawing', n) => Shown(drawing, n)

LEMMA CallSteady ==
  ASSUME DrawInv, doc \in Document \cup {None}, visible' \in SUBSET Pages, doc' = doc, scale' = scale,
         visible' # visible => doc # None, here' \in Pages, NEW p \in Pages,
         drawing' = Call(drawing, doc, visible', p, scale)
  PROVE  Steady
<1>1. CASE doc # None
  <2>1. Follows(drawing', drawing, doc, visible', scale)
    BY <1>1, CallGood DEF DrawInv, Good
  <2> QED BY <1>1, <2>1 DEF DrawInv, Steady, Follows
<1>2. CASE doc = None
  <2>1. drawing' = drawing /\ visible' = visible
    BY <1>2 DEF Call
  <2> QED BY <2>1 DEF Steady, WorksFor, DrawInv
<1> QED BY <1>1, <1>2

LEMMA GoToSteady ==
  ASSUME DrawInv, doc \in Document \cup {None}, NEW n \in Pages, GoTo(n)
  PROVE  Steady
BY CallSteady DEF GoTo, DrawInv

LEMMA LookSteady ==
  ASSUME DrawInv, doc \in Document \cup {None}, NEW vis \in SUBSET Pages, NEW n \in Pages, Look(vis, n)
  PROVE  Steady
BY CallSteady DEF Look, DrawInv

LEMMA TrackSteady ==
  ASSUME DrawInv, NEW n \in Pages, TrackCurrent(n)
  PROVE  Steady
BY DEF TrackCurrent, DrawInv, Steady, WorksFor

LEMMA ZoomSteady ==
  ASSUME DrawInv, doc \in Document \cup {None}, NEW s \in Scales, Zoom(s)
  PROVE  Steady
<1>1. drawing' = Rescaled(drawing, doc, visible, here, s) /\ doc # None /\ UNCHANGED <<doc, visible, here>>
      /\ scale' = s
  BY DEF Zoom
<1>2. Good(drawing', doc, visible, s) /\ WorksFor(drawing', drawing, doc)
      /\ \A n \in Pages : ~Shown(drawing', n)
  BY <1>1, RescaledGood DEF DrawInv, Good
<1> QED BY <1>1, <1>2 DEF DrawInv, Steady

LEMMA OpenHidesAll ==
  ASSUME DrawInv, NEW d \in Document, Open(d)
  PROVE  \A n \in Pages : ~Shown(drawing', n)
<1>1. drawing' = Rescaled(drawing, d, visible, 1, scale)
  BY DEF Open
<1>2. d # None /\ 1 \in Pages
  BY DocumentAssumption, PagesAssumption DEF Document, Pages
<1> QED BY <1>1, <1>2, RescaledGood DEF DrawInv, Good

LEMMA OpenSteady ==
  ASSUME DrawInv, NEW d \in Document, Open(d)
  PROVE  Steady
<1>1. drawing' = Rescaled(drawing, d, visible, 1, scale) /\ doc' = d /\ UNCHANGED <<visible, scale>>
      /\ here' = 1
  BY DEF Open
<1>2. d # None /\ 1 \in Pages
  BY DocumentAssumption, PagesAssumption DEF Document, Pages
<1>3. Good(drawing', d, visible, scale) /\ WorksFor(drawing', drawing, d)
      /\ \A n \in Pages : ~Shown(drawing', n)
  BY <1>1, <1>2, RescaledGood DEF DrawInv, Good
<1> QED BY <1>1, <1>2, <1>3 DEF DrawInv, Steady

(* The document is not the one the pump works for. *)
LEMMA OverwriteSteady ==
  ASSUME DrawInv, NEW d \in Document, Overwrite(d), drawing.pump # Idle => drawing.pump.doc # d
  PROVE  Steady
<1>1. doc' = d /\ here' = 1 /\ UNCHANGED <<visible, scale, drawing>>
  BY DEF Overwrite
<1>2. d # None /\ 1 \in Pages
  BY DocumentAssumption, PagesAssumption DEF Document, Pages
<1>3. Good(drawing, d, visible, scale)
  <2>1. ~drawing.again => Keeps(drawing, d, visible)
    BY DEF DrawInv, Good, Keeps
  <2> QED BY <2>1 DEF DrawInv, Good
<1> QED BY <1>1, <1>2, <1>3 DEF DrawInv, Steady, WorksFor

LEMMA ShutTyped ==
  ASSUME NEW d \in Canvas, NEW e, e = Shut(d)
  PROVE  /\ e \in Canvas /\ e.again = d.again
         /\ e.pump = Idle <=> d.pump = Idle
         /\ e.pump # Idle => /\ e.pump.queue = <<>> /\ e.pump.doc = d.pump.doc /\ e.pump.at = d.pump.at
                             /\ e.pump.scale = d.pump.scale /\ e.pump.overtaken = d.pump.overtaken
<1>1. CASE d.pump = Idle
  BY <1>1 DEF Shut
<1>2. CASE d.pump # Idle
  <2>1. d.pump \in Pump
    BY <1>2 DEF Canvas
  <2>2. PICK w : w = [d.pump EXCEPT !.queue = <<>>, !.closed = @ \/ d.pump.doc = doc]
    OBVIOUS
  <2>3. PICK b \in BOOLEAN : b <=> (d.pump.closed \/ d.pump.doc = doc)
    OBVIOUS
  <2>4. w \in Pump /\ w.queue = <<>> /\ w.doc = d.pump.doc /\ w.at = d.pump.at
        /\ w.scale = d.pump.scale /\ w.overtaken = d.pump.overtaken
    <3>1. w = [d.pump EXCEPT !.queue = <<>>, !.closed = b]
      BY <2>1, <2>2, <2>3 DEF Pump
    <3>2. <<>> \in Seq(Pages)
      OBVIOUS
    <3>3. PICK q \in Seq(Pages) : q = <<>>
      BY <3>2
    <3>4. w = [d.pump EXCEPT !.queue = q, !.closed = b]
      BY <3>1, <3>3
    <3>5. w \in Pump /\ w.queue = q /\ w.doc = d.pump.doc /\ w.at = d.pump.at
          /\ w.scale = d.pump.scale /\ w.overtaken = d.pump.overtaken
      BY ONLY <2>1, <3>4, b \in BOOLEAN, q \in Seq(Pages) DEF Pump
    <3> QED BY <3>3, <3>5
  <2>5. e = [d EXCEPT !.pump = w]
    BY <1>2, <2>2 DEF Shut
  <2>6. e \in Canvas /\ e.pump = w /\ e.again = d.again
    BY <2>4, <2>5 DEF Canvas
  <2> QED BY <1>2, <2>4, <2>6, PumpAt
<1> QED BY <1>1, <1>2

LEMMA CloseSteady ==
  ASSUME DrawInv, Close
  PROVE  Steady
<1>1. drawing \in Canvas
  BY DEF DrawInv, Good
<1>2. PICK e : e = Shut(drawing)
  OBVIOUS
<1>3. /\ e \in Canvas /\ e.again = drawing.again
      /\ e.pump = Idle <=> drawing.pump = Idle
      /\ e.pump # Idle => /\ e.pump.queue = <<>> /\ e.pump.doc = drawing.pump.doc
                             /\ e.pump.at = drawing.pump.at
                          /\ e.pump.scale = drawing.pump.scale /\ e.pump.overtaken = drawing.pump.overtaken
  BY <1>1, <1>2, ShutTyped
<1>4. drawing' = Release(e, Pages) /\ doc' = None /\ visible' = {} /\ UNCHANGED <<here, scale>>
  BY <1>2 DEF Close
<1>5. drawing' \in Canvas /\ drawing'.pump = e.pump /\ drawing'.again = e.again
      /\ \A n \in Pages : drawing'.rendered[n] = None
  BY <1>3, <1>4, Released
<1>6. Scaled(drawing', scale) /\ Aimed(drawing', scale) /\ (drawing'.pump = Idle => ~drawing'.again)
  <2>1. e.pump.at = "page" => e.pump # Idle
    BY PumpAt
  <2> QED BY <1>3, <1>5, <2>1 DEF DrawInv, Good, Scaled, Aimed
<1>7. Covers(drawing', {}) /\ Keeps(drawing', None, {})
  <2>1. drawing'.pump # Idle => drawing'.pump.doc # None /\ QueueOf(drawing'.pump.queue) = {}
    BY <1>3, <1>5, DocumentAssumption DEF Canvas, Pump, QueueOf, Document
  <2>2. drawing'.pump.at = "page" => drawing'.pump # Idle
    BY PumpAt
  <2> QED BY <1>5, <2>1, <2>2 DEF Covers, Keeps
<1>8. Good(drawing', None, {}, scale)
  BY <1>5, <1>6, <1>7 DEF Good
<1> QED BY <1>3, <1>4, <1>5, <1>8 DEF DrawInv, Steady, WorksFor, Shown

LEMMA FetchedSteady ==
  ASSUME DrawInv, PageFetched
  PROVE  Steady
<1>1. PICK d : d = drawing
  OBVIOUS
<1>2. PICK w : w = d.pump
  OBVIOUS
<1>3. d \in Canvas /\ w \in Pump /\ w.at = "page" /\ ~w.closed
  BY <1>1, <1>2, PumpAt DEF DrawInv, Good, Canvas, PageFetched
<1>4. PICK late, left : /\ late = IF w.overtaken THEN d.late \cup {w.page} ELSE d.late
                        /\ left = IF w.doc # doc THEN d.left \cup {w.page} ELSE d.left
  OBVIOUS
<1>5. late \in SUBSET Pages /\ left \in SUBSET Pages /\ w.page \in Pages /\ w.scale \in Scales
  BY <1>3, <1>4 DEF Canvas, Pump
<1>6. PICK v : v = [w EXCEPT !.at = "draw"]
  OBVIOUS
<1>7. v \in Pump /\ v.at = "draw" /\ v.page = w.page /\ v.queue = w.queue /\ v.doc = w.doc
      /\ v.closed = w.closed
  BY <1>3, <1>6 DEF Pump
<1>8. PICK r : r = [d.rendered EXCEPT ![w.page] = w.scale]
  OBVIOUS
<1>9. /\ r \in [Pages -> Scales \cup {None}] /\ r[w.page] = w.scale /\ w.scale # None
      /\ \A n \in Pages \ {w.page} : r[n] = d.rendered[n]
  BY <1>3, <1>5, <1>8, PagesAssumption DEF Canvas
<1>10. drawing' = [d EXCEPT !.rendered = r, !.pump = v, !.late = late, !.left = left]
  BY <1>1, <1>2, <1>3, <1>4, <1>6, <1>8 DEF PageFetched, Canvas
<1>11. PICK e : e = drawing'
  OBVIOUS
<1>12. /\ e \in Canvas /\ e.rendered = r /\ e.pump = v /\ e.again = d.again /\ e.from = d.from
       /\ e.late = late /\ e.left = left /\ e.broken = d.broken
  BY <1>3, <1>5, <1>7, <1>9, <1>10, <1>11 DEF Canvas
<1>13. UNCHANGED <<doc, visible, here, scale>>
  BY DEF PageFetched
<1>14. Good(d, doc, visible, scale) /\ visible \in SUBSET Pages
  BY <1>1 DEF DrawInv
<1>15. Scaled(e, scale)
  <2>1. w.page \notin late => w.scale = scale
    BY <1>2, <1>3, <1>4, <1>14 DEF Good, Aimed
  <2> QED BY <1>4, <1>5, <1>9, <1>12, <1>14, <2>1 DEF Scaled, Good
<1>16. Aimed(e, scale) /\ e.pump # Idle /\ d.pump # Idle
  BY <1>2, <1>3, <1>7, <1>12, PumpAt DEF Aimed
<1>17. ~d.again => Covers(e, visible)
  <2>1. \A n \in Pages : d.rendered[n] # None => r[n] # None
    BY <1>9
  <2> QED BY <1>2, <1>5, <1>7, <1>9, <1>12, <1>14, <1>16, <2>1 DEF Covers, Good
<1>18. ~d.again => Keeps(e, doc, visible)
  <2> SUFFICES ASSUME ~d.again PROVE Keeps(e, doc, visible)
    OBVIOUS
  <2>1. Keeps(d, doc, visible)
    BY <1>14 DEF Good
  <2>2. w.doc = doc => CloseBy(w.page, visible, d.from)
    BY <1>2, <1>3, <1>16, <2>1 DEF Keeps
  <2>3. \A n \in Pages \ left : r[n] # None => CloseBy(n, visible, d.from)
    <3>1. w.page \notin left => w.doc = doc
      BY <1>4
    <3>2. d.left \subseteq left
      BY <1>4
    <3> QED BY <1>9, <2>1, <2>2, <3>1, <3>2 DEF Keeps
  <2> QED BY <1>2, <1>3, <1>7, <1>12, <1>16, <2>1, <2>3 DEF Keeps
<1>19. Good(e, doc, visible, scale)
  BY <1>12, <1>15, <1>16, <1>17, <1>18 DEF Good
<1>20. \A n \in Pages : Shown(e, n) => Shown(d, n)
  BY <1>2, <1>3, <1>7, <1>9, <1>12 DEF Shown
<1> QED BY <1>1, <1>2, <1>7, <1>11, <1>12, <1>13, <1>16, <1>19, <1>20 DEF DrawInv, Steady, WorksFor

LEMMA DrawnSteady ==
  ASSUME DrawInv, doc \in Document \cup {None}, PageDrawn
  PROVE  /\ DrawInv' /\ WorksFor(drawing', drawing, doc')
         /\ \A n \in Pages : Shown(drawing', n) => Shown(drawing, n) \/ n = drawing.pump.page
<1>1. drawing \in Canvas /\ drawing.pump \in Pump /\ drawing.pump.at = "draw"
      /\ drawing.rendered[drawing.pump.page] # None
  BY PumpAt DEF DrawInv, Good, Canvas, PageDrawn
<1>2. drawing' = GoOn(drawing) /\ UNCHANGED <<doc, visible, here, scale>>
  BY DEF PageDrawn
<1>3. ~drawing.again => /\ \A n \in visible : drawing.rendered[n] # None \/ n \in drawing.broken
                           \/ n \in QueueOf(drawing.pump.queue)
                        /\ \A n \in Pages \ drawing.left : drawing.rendered[n] # None
                           => CloseBy(n, visible, drawing.from)
                        /\ \A n \in QueueOf(drawing.pump.queue) : CloseBy(n, visible, drawing.from)
  BY <1>1, PumpAt DEF DrawInv, Good, Covers, Keeps
<1>4. Good(drawing', doc, visible, scale) /\ WorksFor(drawing', drawing, doc)
      /\ \A n \in Pages : Shown(drawing', n) => drawing.rendered[n] # None
  BY <1>1, <1>2, <1>3, GoOnGood DEF DrawInv, Good
<1> QED BY <1>2, <1>4 DEF DrawInv, Shown

(* The page that is given up is released before the pump goes on. *)
LEMMA GivenUp ==
  ASSUME DrawInv, drawing.pump \in Pump, NEW e, e = Release(drawing, {drawing.pump.page}),
         drawing.pump.at \in {"page", "draw"}
  PROVE  /\ e \in Canvas /\ e.pump = drawing.pump /\ e.again = drawing.again /\ Scaled(e, scale)
         /\ e.broken = drawing.broken /\ e.from = drawing.from
         /\ \A n \in Pages : e.rendered[n] = IF n = drawing.pump.page THEN None ELSE drawing.rendered[n]
         /\ ~drawing.again =>
              /\ \A n \in visible \ {drawing.pump.page} :
                   e.rendered[n] # None \/ n \in e.broken \/ n \in QueueOf(e.pump.queue)
              /\ \A n \in Pages \ e.left : e.rendered[n] # None => CloseBy(n, visible, e.from)
              /\ \A n \in QueueOf(e.pump.queue) : CloseBy(n, visible, e.from)
<1>1. PICK d, w : d = drawing /\ w = d.pump
  OBVIOUS
<1>2. d \in Canvas /\ w \in Pump /\ w.page \in Pages /\ d.pump # Idle
  BY <1>1, PumpAt DEF DrawInv, Good, Pump
<1>3. /\ e \in Canvas
      /\ \A n \in Pages : e.rendered[n] = IF n = w.page THEN None ELSE d.rendered[n]
      /\ e.pump = w /\ e.again = d.again /\ e.from = d.from /\ e.broken = d.broken
      /\ e.late = d.late \ {w.page} /\ e.left = d.left \ {w.page}
  BY <1>1, <1>2, Released
<1>4. Scaled(e, scale)
  BY <1>1, <1>3 DEF DrawInv, Good, Scaled
<1>5. ASSUME ~d.again
      PROVE  /\ \A n \in visible \ {w.page} : e.rendered[n] # None \/ n \in e.broken
                \/ n \in QueueOf(w.queue)
             /\ \A n \in Pages \ e.left : e.rendered[n] # None => CloseBy(n, visible, e.from)
             /\ \A n \in QueueOf(w.queue) : CloseBy(n, visible, e.from)
  <2>1. Covers(d, visible) /\ Keeps(d, doc, visible) /\ visible \in SUBSET Pages
    BY <1>1, <1>5 DEF DrawInv, Good
  <2>2. \A n \in visible \ {w.page} : e.rendered[n] # None \/ n \in e.broken \/ n \in QueueOf(w.queue)
    BY <1>1, <1>3, <2>1 DEF Covers
  <2>3. \A n \in Pages \ e.left : e.rendered[n] # None => n \notin d.left /\ d.rendered[n] # None
    BY <1>3
  <2> QED BY <1>1, <1>2, <1>3, <2>1, <2>2, <2>3 DEF Keeps
<1> QED BY <1>1, <1>3, <1>4, <1>5

LEMMA CancelledSteady ==
  ASSUME DrawInv, doc \in Document \cup {None}, PageCancelled
  PROVE  Steady
<1>1. PICK e : e = Release(drawing, {drawing.pump.page})
  OBVIOUS
<1>2. drawing.pump \in Pump /\ drawing.pump.at \in {"page", "draw"} /\ drawing.pump # Idle
      /\ drawing.pump.page \in Pages
  <2>1. drawing.pump.at \in {"page", "draw"}
    BY DEF PageCancelled
  <2> QED BY <2>1, PumpAt DEF DrawInv, Good, Canvas, Pump
<1>3. /\ e \in Canvas /\ e.pump = drawing.pump /\ e.again = drawing.again /\ Scaled(e, scale)
      /\ e.broken = drawing.broken /\ e.from = drawing.from
      /\ \A n \in Pages : e.rendered[n] = IF n = drawing.pump.page THEN None ELSE drawing.rendered[n]
      /\ ~drawing.again =>
           /\ \A n \in visible \ {drawing.pump.page} : e.rendered[n] # None \/ n \in e.broken
              \/ n \in QueueOf(e.pump.queue)
           /\ \A n \in Pages \ e.left : e.rendered[n] # None => CloseBy(n, visible, e.from)
           /\ \A n \in QueueOf(e.pump.queue) : CloseBy(n, visible, e.from)
  BY <1>1, <1>2, GivenUp
<1>4. drawing' = GoOn(e) /\ UNCHANGED <<doc, visible, here, scale>>
  BY <1>1, <1>3 DEF PageCancelled, Discard
<1>5. ~e.again /\ drawing.pump.page \in visible =>
        drawing.pump.page \in e.broken \/ drawing.pump.page \in QueueOf(e.pump.queue)
  <2> SUFFICES ASSUME ~e.again, drawing.pump.page \in visible
               PROVE  drawing.pump.page \in e.broken \/ drawing.pump.page \in QueueOf(e.pump.queue)
    OBVIOUS
  <2>1. Covers(drawing, visible) /\ Keeps(drawing, doc, visible)
    BY <1>3 DEF DrawInv, Good
  <2>2. ~drawing.pump.closed
    BY <1>2, <2>1 DEF Keeps
  <2>3. drawing.pump.at = "draw" /\ drawing.rendered[drawing.pump.page] = None
    BY <2>2 DEF PageCancelled
  <2> QED BY <1>3, <2>1, <2>3 DEF Covers
<1>6. ~e.again => \A n \in visible : e.rendered[n] # None \/ n \in e.broken \/ n \in QueueOf(e.pump.queue)
  BY <1>3, <1>5
<1>7. e.pump \in Pump /\ visible \in SUBSET Pages /\ here \in Pages /\ scale \in Scales
      /\ (doc = None => visible = {})
  BY <1>2, <1>3 DEF DrawInv
<1>8. Good(drawing', doc, visible, scale) /\ WorksFor(drawing', e, doc)
      /\ drawing'.pump.at # "draw" /\ \A n \in Pages : Shown(drawing', n) => e.rendered[n] # None
  BY <1>3, <1>4, <1>6, <1>7, GoOnGood
<1>9. \A n \in Pages : e.rendered[n] # None => Shown(drawing, n)
  BY <1>3 DEF Shown
<1> QED BY <1>3, <1>4, <1>7, <1>8, <1>9 DEF DrawInv, Steady, WorksFor

(* A page that cannot be drawn is broken in the round that goes on. *)
LEMMA BreaksSteady ==
  ASSUME DrawInv, doc \in Document \cup {None}, PageBreaks
  PROVE  Steady
<1>1. PICK e : e = Release(drawing, {drawing.pump.page})
  OBVIOUS
<1>2. drawing.pump \in Pump /\ drawing.pump.at \in {"page", "draw"} /\ drawing.pump # Idle
      /\ drawing.pump.page \in Pages
  <2>1. drawing.pump.at \in {"page", "draw"}
    BY DEF PageBreaks
  <2> QED BY <2>1, PumpAt DEF DrawInv, Good, Canvas, Pump
<1>3. /\ e \in Canvas /\ e.pump = drawing.pump /\ e.again = drawing.again /\ Scaled(e, scale)
      /\ e.broken = drawing.broken /\ e.from = drawing.from
      /\ \A n \in Pages : e.rendered[n] = IF n = drawing.pump.page THEN None ELSE drawing.rendered[n]
      /\ ~drawing.again =>
           /\ \A n \in visible \ {drawing.pump.page} : e.rendered[n] # None \/ n \in e.broken
              \/ n \in QueueOf(e.pump.queue)
           /\ \A n \in Pages \ e.left : e.rendered[n] # None => CloseBy(n, visible, e.from)
           /\ \A n \in QueueOf(e.pump.queue) : CloseBy(n, visible, e.from)
  BY <1>1, <1>2, GivenUp
<1>4. UNCHANGED <<doc, visible, here, scale>>
  BY DEF PageBreaks
<1>5. PICK f : f = IF drawing.again THEN e ELSE [e EXCEPT !.broken = @ \cup {drawing.pump.page}]
  OBVIOUS
<1>6. /\ f \in Canvas /\ f.pump = e.pump /\ f.again = e.again /\ f.rendered = e.rendered /\ f.late = e.late
         /\ f.left = e.left
      /\ f.from = e.from /\ (~f.again => f.broken = e.broken \cup {drawing.pump.page})
  BY <1>2, <1>3, <1>5 DEF Canvas
<1>7. drawing' = GoOn(f)
  <2>1. drawing.again => drawing' = GoOn(f)
    BY <1>1, <1>5 DEF PageBreaks, Discard
  <2>2. ASSUME ~drawing.again PROVE drawing' = GoOn(f)
    <3>1. PICK w : w = IF doc = None \/ e.pump.queue = <<>> THEN Idle
                       ELSE [at |-> "page", page |-> Head(e.pump.queue), queue |-> Tail(e.pump.queue),
                             doc |-> doc, scale |-> scale, overtaken |-> FALSE, closed |-> FALSE]
      OBVIOUS
    <3>2. GoOn(e) = [e EXCEPT !.pump = w] /\ GoOn(f) = [f EXCEPT !.pump = w]
      BY <1>3, <1>6, <2>2, <3>1 DEF GoOn, DrawFirst
    <3>3. drawing' = [GoOn(e) EXCEPT !.broken = @ \cup {drawing.pump.page}]
      BY <1>1, <2>2 DEF PageBreaks, Discard
    <3>4. f = [e EXCEPT !.broken = @ \cup {drawing.pump.page}]
      BY <1>5, <2>2
    <3> QED BY <1>3, <3>2, <3>3, <3>4 DEF Canvas
  <2> QED BY <2>1, <2>2
<1>8. f.pump \in Pump /\ visible \in SUBSET Pages /\ here \in Pages /\ scale \in Scales
      /\ (doc = None => visible = {})
  BY <1>2, <1>3, <1>6 DEF DrawInv
<1>9. ~f.again => \A n \in visible : f.rendered[n] # None \/ n \in f.broken \/ n \in QueueOf(f.pump.queue)
  BY <1>3, <1>6
<1>10. ~f.again => /\ \A n \in Pages \ f.left : f.rendered[n] # None => CloseBy(n, visible, f.from)
                   /\ \A n \in QueueOf(f.pump.queue) : CloseBy(n, visible, f.from)
  BY <1>3, <1>6
<1>11. Scaled(f, scale)
  BY <1>3, <1>6 DEF Scaled
<1>12. Good(drawing', doc, visible, scale) /\ WorksFor(drawing', f, doc)
       /\ drawing'.pump.at # "draw" /\ \A n \in Pages : Shown(drawing', n) => f.rendered[n] # None
  BY <1>6, <1>7, <1>8, <1>9, <1>10, <1>11, GoOnGood
<1>13. \A n \in Pages : f.rendered[n] # None => Shown(drawing, n)
  BY <1>3, <1>6 DEF Shown
<1> QED BY <1>3, <1>4, <1>6, <1>8, <1>12, <1>13 DEF DrawInv, Steady, WorksFor

-----------------------------------------------------------------------------
(* The search, step by step *)

LEMMA NextUnreadIs ==
  ASSUME NEW n \in Pages, NEW txt, NEW r, r = NextUnread(n, txt)
  PROVE  /\ r \in n .. PageCount + 1 /\ (\A k \in n .. r - 1 : k \in Pages /\ txt[k] # None)
         /\ r <= PageCount => r \in Pages
<1> USE PagesAssumption DEF Pages
<1>1. PICK B : B = {k \in n .. PageCount : txt[k] = None} \cup {PageCount + 1}
  OBVIOUS
<1>2. B \in SUBSET Nat /\ B # {}
  BY <1>1
<1>3. \E x \in B : \A y \in B : x <= y
  BY <1>2, LeastNumber
<1>4. r \in B /\ \A y \in B : r <= y
  BY <1>1, <1>3 DEF NextUnread, Min
<1>5. r \in n .. PageCount + 1
  BY <1>1, <1>4
<1>6. ASSUME NEW k \in n .. r - 1 PROVE k \in Pages /\ txt[k] # None
  <2>1. k \in n .. PageCount
    BY <1>5, <1>6
  <2>2. k \notin B
    BY <1>2, <1>4, <1>5, <1>6
  <2> QED BY <1>1, <2>1, <2>2
<1> QED BY <1>5, <1>6

LEMMA Highlighted ==
  ASSUME SearchTyped, NEW t \in Terms \cup {None}, NEW m, m = HighlightAll(drawing.rendered, t)
  PROVE  m \in [Pages -> Terms \cup {None}] /\ \A n \in Pages : drawing.rendered[n] # None => m[n] = t
BY DEF HighlightAll, SearchTyped

(* The drawing of a step of the search. *)
LEMMA SearchSteady ==
  ASSUME DrawInv, doc \in Document \cup {None}, UNCHANGED <<doc, visible, scale>>,
         \/ \E n \in Pages : here' = n /\ drawing' = Call(drawing, doc, visible, n, scale)
         \/ UNCHANGED <<here, drawing>>
  PROVE  Steady
<1>1. CASE UNCHANGED <<here, drawing>>
  BY <1>1 DEF DrawInv, Steady, WorksFor
<1>2. ASSUME NEW n \in Pages, here' = n, drawing' = Call(drawing, doc, visible, n, scale) PROVE Steady
  BY <1>2, CallSteady DEF DrawInv
<1> QED BY <1>1, <1>2

(* Where no load is waited for. *)
AllLoaded == token > 0 => loads[token].at = "none"

(* A search is answered, or none is: what hits and marked are then. *)
Answered(t) ==
  /\ hits' # None => hits' \in Found /\ hits'.term = t /\ (~strayText' => hits'.docs \subseteq {doc})
  /\ marked' \in [Pages -> Terms \cup {None}]
  /\ \A n \in Pages : drawing.rendered[n] # None => marked'[n] = t

LEMMA FinishAnswers ==
  ASSUME SearchTyped, NEW t \in Terms \cup {None}, NEW s, s.term = t, NEW docs \in SUBSET Document,
         ~strayText' => docs \subseteq {doc}, Finish(s, docs)
  PROVE  /\ Answered(t)
         /\ \/ \E n \in Pages : here' = n /\ drawing' = Call(drawing, doc, visible, n, scale)
            \/ UNCHANGED <<here, drawing>>
<1>1. hits' = [term |-> t, docs |-> docs] /\ hits' \in Found
  BY DEF Finish, Found
<1>2. marked' = HighlightAll(drawing.rendered, t)
  BY DEF Finish
<1>3. \/ \E n \in Pages : here' = n /\ drawing' = Call(drawing, doc, visible, n, scale)
      \/ UNCHANGED <<here, drawing>>
  BY DEF Finish
<1> QED BY <1>1, <1>2, <1>3, Highlighted DEF Answered

LEMMA OnSearchKeeps ==
  ASSUME Shape, DrawInv, SearchTyped, SearchInv, AllLoaded, UNCHANGED <<token, loads>>,
         NEW t \in Terms \cup {None}, OnSearch(t)
  PROVE  Steady /\ SearchTyped' /\ SearchInv'
<1>1. PICK next : next = NextUnread(1, text)
  OBVIOUS
<1>2. PICK docs : docs = {text[k] : k \in 1 .. next - 1}
  OBVIOUS
<1>3. PICK s : s = [doc |-> doc, term |-> t, live |-> TRUE, next |-> next, docs |-> docs]
  OBVIOUS
<1>4. /\ doc # None /\ term' = t
      /\ searches' = Superseded \cup (IF t # None /\ next <= PageCount THEN {s} ELSE {})
      /\ IF t # None /\ next > PageCount THEN Finish(s, s.docs)
         ELSE hits' = None /\ marked' = HighlightAll(drawing.rendered, t) /\ UNCHANGED <<here, drawing>>
      /\ UNCHANGED <<doc, visible, scale, text, strayText>>
  <2>1. 1 \in Pages
    BY PagesAssumption DEF Pages
  <2>2. next \in Int /\ PageCount \in Int
    BY <1>1, <2>1, NextUnreadIs, PagesAssumption
  <2> QED BY <1>1, <1>2, <1>3, <2>2 DEF OnSearch, Earlier
<1>5. doc \in Document
  BY <1>4 DEF Shape, PageTyped
<1>6. next <= PageCount => next \in Pages
  <2>1. 1 \in Pages
    BY PagesAssumption DEF Pages
  <2> QED BY <1>1, <2>1, NextUnreadIs
<1>7. \A k \in 1 .. next - 1 : k \in Pages /\ text[k] # None
  <2>1. 1 \in Pages
    BY PagesAssumption DEF Pages
  <2> QED BY <1>1, <2>1, NextUnreadIs
<1>8. docs \in SUBSET Document /\ (~strayText => docs \subseteq {doc})
  <2>1. \A k \in 1 .. next - 1 : text[k] \in Document
    BY <1>7 DEF SearchTyped
  <2>2. ~strayText => \A k \in 1 .. next - 1 : text[k] = doc
    BY <1>7 DEF SearchInv, OfTheScreen
  <2> QED BY <1>2, <2>1, <2>2
<1>9. s.term = t /\ s.docs = docs /\ s.doc = doc /\ (next <= PageCount => s \in Running)
  BY <1>3, <1>5, <1>6, <1>8 DEF Running
<1>10. Answered(t) /\ (\/ \E n \in Pages : here' = n /\ drawing' = Call(drawing, doc, visible, n, scale)
                       \/ UNCHANGED <<here, drawing>>)
  <2>1. CASE t # None /\ next > PageCount
    BY <1>4, <1>8, <1>9, <2>1, FinishAnswers
  <2>2. CASE ~(t # None /\ next > PageCount)
    <3>1. hits' = None /\ marked' = HighlightAll(drawing.rendered, t) /\ UNCHANGED <<here, drawing>>
      BY <1>4, <2>2
    <3> QED BY <3>1, Highlighted DEF Answered
  <2> QED BY <2>1, <2>2
<1>11. Steady
  BY <1>4, <1>5, <1>10, SearchSteady
<1>12. \A z \in searches' : z \in Running /\ (z.live => z = s)
  <2>1. \A z \in Superseded : z \in Running /\ ~z.live
    BY DEF Superseded, SearchTyped, Running
  <2> QED BY <1>4, <1>9, <2>1
<1>13. SearchTyped'
  BY <1>4, <1>10, <1>12 DEF SearchTyped, Answered
<1>14. SearchInv'
  <2>1. \A z \in searches' : z.live => z.term = term'
    BY <1>4, <1>9, <1>12
  <2>2. hits' # None => hits'.term = term'
    BY <1>4, <1>10 DEF Answered
  <2>3. ~strayText' => OfTheScreen'
    BY <1>4, <1>8, <1>9, <1>10, <1>12 DEF SearchInv, OfTheScreen, Answered
  <2>4. ~(token' > 0 /\ loads'[token'].at # "none")
    BY DEF AllLoaded
  <2>5. \A n \in Pages : Shown(drawing', n) => marked'[n] = term'
    BY <1>4, <1>10, <1>11 DEF Steady, Shown, Answered
  <2> QED BY <2>1, <2>2, <2>3, <2>4, <2>5 DEF SearchInv
<1> QED BY <1>11, <1>13, <1>14

(* A search that still counts is about the open document. *)
LEMMA LiveSearch ==
  ASSUME SearchTyped, SearchInv, Shape, NEW s \in searches, s.live
  PROVE  /\ s \in Running /\ s.term = term
         /\ ~strayText => s.doc = doc /\ s.docs \subseteq {doc} /\ AllLoaded
BY DEF SearchTyped, SearchInv, OfTheScreen, NothingSearched, AllLoaded

(* What every step of a search that is not the first keeps. *)
LEMMA SearchGoesOn ==
  ASSUME Shape, DrawInv, SearchTyped, SearchInv, UNCHANGED <<token, loads, doc, visible, scale, term>>,
         strayText' \in BOOLEAN, strayText => strayText', text' \in [Pages -> Document \cup {None}],
         \/ Answered(term) /\ \/ \E n \in Pages : here' = n
                                 /\ drawing' = Call(drawing, doc, visible, n, scale)
                              \/ UNCHANGED <<here, drawing>>
         \/ UNCHANGED <<hits, here, drawing, marked>>,
         ~strayText' => \A k \in Pages : text'[k] \in {text[k], doc},
         ~strayText' /\ text' # text => AllLoaded,
         ~strayText' /\ hits' # hits => AllLoaded,
         \A z \in searches' : z \in searches \/
           (z \in Running /\ z.live /\ z.term = term
                 /\ (~strayText' => z.doc = doc /\ z.docs \subseteq {doc} /\ AllLoaded))
  PROVE  Steady /\ SearchTyped' /\ SearchInv'
<1>1. doc \in Document \cup {None}
  BY DEF Shape, PageTyped
<1>2. Steady
  BY <1>1, SearchSteady
<1>3. SearchTyped'
  <2>1. searches' \subseteq Running
    BY DEF SearchTyped
  <2>2. hits' \in Found \cup {None} /\ marked' \in [Pages -> Terms \cup {None}]
    BY DEF SearchTyped, Answered
  <2> QED BY <2>1, <2>2 DEF SearchTyped
<1>4. \A z \in searches' : z.live => z.term = term'
  BY DEF SearchInv
<1>5. hits' # None => hits'.term = term'
  BY DEF SearchInv, Answered
<1>6. ~strayText' => OfTheScreen'
  <2> SUFFICES ASSUME ~strayText' PROVE OfTheScreen'
    OBVIOUS
  <2>1. OfTheScreen
    BY DEF SearchInv
  <2>2. \A k \in Pages : text'[k] \in {doc', None}
    BY <2>1 DEF OfTheScreen
  <2>3. \A z \in searches' : z.live => z.doc = doc' /\ z.docs \subseteq {doc'}
    BY <2>1 DEF OfTheScreen
  <2>4. hits' # None => hits'.docs \subseteq {doc'}
    BY <2>1 DEF OfTheScreen, Answered
  <2> QED BY <2>2, <2>3, <2>4 DEF OfTheScreen
<1>7. ~strayText' /\ token' > 0 /\ loads'[token'].at # "none" => NothingSearched'
  <2> SUFFICES ASSUME ~strayText', token > 0, loads[token].at # "none" PROVE NothingSearched'
    OBVIOUS
  <2>1. NothingSearched /\ ~AllLoaded
    BY DEF SearchInv, AllLoaded
  <2>2. text' = text /\ hits' = hits
    BY <2>1
  <2>3. \A z \in searches' : ~z.live
    BY <2>1 DEF NothingSearched
  <2> QED BY <2>1, <2>2, <2>3 DEF NothingSearched
<1>8. \A n \in Pages : Shown(drawing', n) => marked'[n] = term'
  BY <1>2 DEF SearchInv, Steady, Shown, Answered
<1> QED BY <1>2, <1>3, <1>4, <1>5, <1>6, <1>7, <1>8 DEF SearchInv

LEMMA ArrivesKeeps ==
  ASSUME Shape, DrawInv, SearchTyped, SearchInv, UNCHANGED <<token, loads>>, NEW s \in searches,
         TextArrives(s)
  PROVE  Steady /\ SearchTyped' /\ SearchInv'
<1>1. s \in Running /\ s.doc \in Document /\ s.next \in Pages /\ s.doc # None /\ s.docs \in SUBSET Document
  BY DocumentAssumption DEF SearchTyped, Running, Document
<1>2. /\ text' = [text EXCEPT ![s.next] = s.doc] /\ (strayText' <=> (strayText \/ s.doc # doc))
         /\ strayText' \in BOOLEAN
      /\ UNCHANGED <<doc, visible, scale, term>>
  BY DEF TextArrives, SearchTyped
<1>3. text' \in [Pages -> Document \cup {None}] /\ text'[s.next] = s.doc
      /\ \A k \in Pages \ {s.next} : text'[k] = text[k]
  BY <1>1, <1>2 DEF SearchTyped
<1>4. ~strayText' => ~strayText /\ s.doc = doc /\ \A k \in Pages : text'[k] \in {text[k], doc}
  BY <1>2, <1>3
<1>5. ~strayText' => AllLoaded
  BY <1>1, <1>4 DEF SearchInv, NothingSearched, AllLoaded
<1>6. CASE s.live
  <2>1. s.term = term /\ term \in Terms \cup {None} /\ (~strayText' => s.docs \subseteq {doc})
    BY <1>4, <1>6, LiveSearch DEF SearchTyped
  <2>2. PICK next : next = NextUnread(s.next, text')
    OBVIOUS
  <2>3. PICK read : read = s.docs \cup {text'[k] : k \in s.next .. next - 1}
    OBVIOUS
  <2>4. (\A k \in s.next .. next - 1 : k \in Pages /\ text'[k] # None)
        /\ (next <= PageCount => next \in Pages)
        /\ next \in Int /\ PageCount \in Int
    <3>1. s.next \in Int /\ PageCount \in Int
      BY <1>1, PagesAssumption DEF Pages
    <3> QED BY <1>1, <2>2, <3>1, NextUnreadIs
  <2>5. read \in SUBSET Document /\ (~strayText' => read \subseteq {doc})
    <3>1. \A k \in s.next .. next - 1 : text'[k] \in Document
      BY <1>3, <2>4
    <3>2. ~strayText' => \A k \in s.next .. next - 1 : text'[k] = doc
      <4>1. ~strayText' => \A k \in Pages : text[k] \in {doc, None}
        BY <1>4 DEF SearchInv, OfTheScreen
      <4> QED BY <1>4, <2>4, <4>1
    <3> QED BY <1>1, <2>1, <2>3, <3>1, <3>2
  <2>6. Continue(s, text')
    BY <1>2, <1>6 DEF TextArrives
  <2>7. CASE next > PageCount
    <3>1. Finish(s, read) /\ searches' = searches \ {s}
      BY <2>2, <2>3, <2>6, <2>7 DEF Continue
    <3>2. Answered(term) /\ (\/ \E n \in Pages : here' = n
                                /\ drawing' = Call(drawing, doc, visible, n, scale)
                             \/ UNCHANGED <<here, drawing>>)
      BY <2>1, <2>5, <3>1, FinishAnswers
    <3> QED BY <1>2, <1>3, <1>4, <1>5, <3>1, <3>2, SearchGoesOn
  <2>8. CASE ~(next > PageCount)
    <3>1. PICK z : z = [s EXCEPT !.next = next, !.docs = read]
      OBVIOUS
    <3>2. searches' = (searches \ {s}) \cup {z} /\ UNCHANGED <<hits, here, drawing, marked>>
      BY <2>2, <2>3, <2>6, <2>8, <3>1 DEF Continue
    <3>3. next \in Pages
      BY <2>4, <2>8
    <3>4. z \in Running /\ z.live /\ z.term = term /\ z.doc = s.doc /\ z.docs = read
      BY <1>1, <1>6, <2>1, <2>5, <3>1, <3>3 DEF Running
    <3> QED BY <1>2, <1>3, <1>4, <1>5, <2>5, <3>2, <3>4, SearchGoesOn
  <2> QED BY <2>7, <2>8
<1>7. CASE ~s.live
  <2>1. searches' = searches \ {s} /\ UNCHANGED <<hits, here, drawing, marked>>
    BY <1>7 DEF TextArrives
  <2> QED BY <1>2, <1>3, <1>4, <1>5, <2>1, SearchGoesOn
<1> QED BY <1>6, <1>7

LEMMA FailsKeeps ==
  ASSUME Shape, DrawInv, SearchTyped, SearchInv, UNCHANGED <<token, loads>>, NEW s \in searches,
         TextFails(s)
  PROVE  Steady /\ SearchTyped' /\ SearchInv'
<1>1. searches' = searches \ {s} /\ UNCHANGED <<doc, visible, scale, term, text, strayText>>
  BY DEF TextFails
<1>2. s \in Running /\ s.docs \in SUBSET Document /\ term \in Terms \cup {None} /\ strayText \in BOOLEAN
      /\ text \in [Pages -> Document \cup {None}]
  BY DEF SearchTyped, Running
<1>3. CASE s.live
  <2>1. s.term = term /\ (~strayText => s.docs \subseteq {doc} /\ AllLoaded)
    BY <1>3, LiveSearch
  <2>2. Answered(term) /\ (\/ \E n \in Pages : here' = n /\ drawing' = Call(drawing, doc, visible, n, scale)
                           \/ UNCHANGED <<here, drawing>>)
    BY <1>1, <1>2, <1>3, <2>1, FinishAnswers DEF TextFails
  <2> QED BY <1>1, <1>2, <2>1, <2>2, SearchGoesOn
<1>4. CASE ~s.live
  <2>1. UNCHANGED <<hits, here, drawing, marked>>
    BY <1>4 DEF TextFails
  <2> QED BY <1>1, <1>2, <2>1, SearchGoesOn
<1> QED BY <1>3, <1>4

(* The steps that are not of the search. *)
LoadsOn == token' = token /\ \A l \in 1 .. MaxLoads : loads'[l].at # "none" => loads[l].at # "none"

LEMMA SearchKept ==
  ASSUME Shape, SearchTyped, SearchInv, LoadsOn, UNCHANGED <<doc, marked, term, hits, text, searches, strayText>>,
         \A n \in Pages : Shown(drawing', n) => Shown(drawing, n)
  PROVE  SearchTyped' /\ SearchInv'
<1>1. SearchTyped'
  BY DEF SearchTyped
<1>2. token' > 0 /\ loads'[token'].at # "none" => token > 0 /\ loads[token].at # "none"
  BY BoundsAssumption DEF LoadsOn, Shape, PageTyped
<1>3. OfTheScreen' = OfTheScreen /\ NothingSearched' = NothingSearched
  BY DEF OfTheScreen, NothingSearched
<1> QED BY <1>1, <1>2, <1>3 DEF SearchInv

LEMMA DrawnKeeps ==
  ASSUME Shape, DrawInv, SearchTyped, SearchInv, UNCHANGED <<token, loads>>, PageDrawn
  PROVE  SearchTyped' /\ SearchInv'
<1>1. /\ marked' = [marked EXCEPT ![drawing.pump.page] = term]
      /\ UNCHANGED <<doc, term, hits, text, searches, strayText>>
  BY DEF PageDrawn, search
<1>2. drawing.pump.page \in Pages
  BY PumpAt DEF DrawInv, Good, Canvas, Pump, PageDrawn
<1>3. \A n \in Pages : Shown(drawing', n) => Shown(drawing, n) \/ n = drawing.pump.page
  BY DrawnSteady DEF Shape, PageTyped
<1>4. marked' \in [Pages -> Terms \cup {None}] /\ \A n \in Pages : marked'[n] = IF n = drawing.pump.page THEN term ELSE marked[n]
  BY <1>1, <1>2 DEF SearchTyped
<1>5. SearchTyped'
  BY <1>1, <1>4 DEF SearchTyped
<1>6. OfTheScreen' = OfTheScreen /\ NothingSearched' = NothingSearched
  BY <1>1 DEF OfTheScreen, NothingSearched
<1>7. \A n \in Pages : Shown(drawing', n) => marked'[n] = term'
  BY <1>1, <1>3, <1>4 DEF SearchInv
<1> QED BY <1>1, <1>5, <1>6, <1>7 DEF SearchInv

LEMMA CloseKeeps ==
  ASSUME DrawInv, SearchTyped, Close
  PROVE  SearchTyped' /\ SearchInv'
<1>1. /\ doc' = None /\ term' = None /\ hits' = None /\ text' = [n \in Pages |-> None]
      /\ searches' = Superseded /\ strayText' = FALSE /\ marked' = marked
  BY DEF Close
<1>2. \A z \in searches' : z \in Running /\ ~z.live
  <2>1. \A z \in Superseded : z \in Running /\ ~z.live
    BY DEF Superseded, SearchTyped, Running
  <2> QED BY <1>1, <2>1
<1>3. \A n \in Pages : ~Shown(drawing', n)
  <2>1. drawing' = Release(Shut(drawing), Pages)
    BY DEF Close
  <2>2. Shut(drawing) \in Canvas
    BY ShutTyped DEF DrawInv, Good
  <2> QED BY <2>1, <2>2, Released DEF Shown
<1>4. SearchTyped'
  BY <1>1, <1>2 DEF SearchTyped
<1> QED BY <1>1, <1>2, <1>3, <1>4 DEF SearchInv, OfTheScreen, NothingSearched

LEMMA OverwriteKeeps ==
  ASSUME SearchTyped, SearchInv, NEW d, Overwrite(d)
  PROVE  SearchTyped' /\ SearchInv'
<1>1. UNCHANGED <<drawing, marked, term, hits, text, searches>> /\ strayText' = TRUE
  BY DEF Overwrite
<1> QED BY <1>1 DEF SearchTyped, SearchInv

(* The document of the load that was waited for: there was none before. *)
LEMMA OpenKeeps ==
  ASSUME SearchTyped, SearchInv, NEW d \in Document, Open(d), token > 0, loads[token].at # "none",
         token' = token, loads'[token].at = "none", \A n \in Pages : ~Shown(drawing', n)
  PROVE  SearchTyped' /\ SearchInv'
<1>1. UNCHANGED <<marked, term, hits, text, searches, strayText>> /\ doc' = d
  BY DEF Open, search
<1>2. ~strayText => NothingSearched
  BY DEF SearchInv
<1>3. ~strayText' => OfTheScreen'
  BY <1>1, <1>2 DEF NothingSearched, OfTheScreen
<1> QED BY <1>1, <1>3 DEF SearchTyped, SearchInv

-----------------------------------------------------------------------------
(* The pages, step by step *)

TakenNext(d) == d.load <= token' /\ loads'[d.load].at = "none"

(* A document that differs from every later one stays so. *)
LEMMA FreshStep ==
  ASSUME Shape, DrawInv, FreshInv, DrawInv', WorksFor(drawing', drawing, doc'),
         doc' \in Document \cup {None},
         token' \in Nat, token <= token',
         \A l \in 1 .. MaxLoads : l <= token /\ loads[l].at = "none" => loads'[l].at = "none",
         doc' = doc \/ doc' = None \/ TakenNext(doc')
  PROVE  FreshInv'
<1>1. token \in Nat /\ doc \in Document \cup {None}
  BY BoundsAssumption DEF Shape, PageTyped
<1>2. ASSUME NEW d \in Document, Taken(d) PROVE TakenNext(d)
  <2>1. d.load \in 1 .. MaxLoads
    BY DEF Document
  <2> QED BY <1>1, <1>2, <2>1, BoundsAssumption DEF Taken, TakenNext
<1>3. doc' # None => TakenNext(doc')
  <2>1. doc # None => TakenNext(doc)
    BY <1>1, <1>2 DEF FreshInv
  <2> QED BY <2>1
<1>4. drawing.pump # Idle => drawing.pump.doc \in Document /\ Taken(drawing.pump.doc)
  BY DEF DrawInv, Good, Canvas, Pump, FreshInv
<1>5. drawing'.pump # Idle => drawing'.pump.doc \in Document
  BY DEF DrawInv, Good, Canvas, Pump
<1>6. drawing'.pump # Idle => TakenNext(drawing'.pump.doc)
  <2>1. drawing'.pump # Idle /\ drawing'.pump.doc = doc' => doc' # None
    BY <1>5, DocumentAssumption DEF Document
  <2>2. drawing.pump # Idle => TakenNext(drawing.pump.doc)
    BY <1>2, <1>4
  <2> QED BY <1>3, <2>1, <2>2 DEF WorksFor
<1> QED BY <1>3, <1>6 DEF FreshInv, Taken, TakenNext

(* What a step of the reader, the engine or the cache does. *)
PageMove ==
  \/ \E n \in Pages : GoTo(n) \/ TrackCurrent(n)
  \/ \E vis \in SUBSET Pages, n \in Pages : Look(vis, n)
  \/ \E s \in Scales : Zoom(s)
  \/ state = "ready" /\ \E t \in Terms \cup {None} : OnSearch(t)
  \/ PageFetched \/ PageDrawn \/ PageCancelled \/ PageBreaks
  \/ \E s \in searches : TextArrives(s) \/ TextFails(s)

Still == UNCHANGED pages /\ LoadsOn

LEMMA PageCases ==
  ASSUME Shape, LoadsInv, [Next]_vars
  PROVE  \/ PageMove /\ UNCHANGED <<token, loads>>
         \/ Still
         \/ \E p \in Papers : Request(p)
         \/ \E l \in 1 .. MaxLoads : FirstPage(l)
<1>1. ASSUME Reading \/ Drawing \/ Breaking PROVE PageMove /\ UNCHANGED <<token, loads>>
  BY <1>1 DEF Reading, Drawing, Breaking, Pumping, Searching, Beside, PageMove
<1>2. ASSUME UNCHANGED vars PROVE Still
  BY <1>2 DEF vars, Still, LoadsOn
<1>3. ASSUME NEW l \in 1 .. MaxLoads, Loading(l) \/ ListFails(l) \/ LoadFails(l), ~FirstPage(l) PROVE Still
  <2>1. LoadMoves(l)
    BY <1>3, LoadsMove
  <2>2. LoadsOn
    BY <2>1 DEF LoadMoves, Load, LoadSteps, LoadsOn
  <2>3. UNCHANGED pages
    BY <1>3 DEF Loading, RecordArrives, FileArrives, Opened, ListRead, ListArrives, ListFails, LoadFails
  <2> QED BY <2>2, <2>3 DEF Still
<1>4. ASSUME NEW c \in Calls, Add(c) \/ Serving(c) \/ Failing(c) \/ Losing(c) \/ AnswerArrives(c)
      PROVE  Still
  BY <1>4 DEF Add, Serving, Failing, Losing, AnswerArrives, Elsewhere, Still, LoadsOn
<1>5. ASSUME NEW c \in Calls, NEW i \in items, NEW op, Touch(c, i, op) PROVE Still
  BY <1>5 DEF Touch, Still, LoadsOn
<1>6. ASSUME NEW c \in Calls, NEW p \in Papers, NoteElsewhere(c, p) PROVE Still
  BY <1>6 DEF NoteElsewhere, Elsewhere, Still, LoadsOn
<1>7. ASSUME NEW c \in Calls, NEW m, NEW op, TouchElsewhere(c, m, op) PROVE Still
  BY <1>7 DEF TouchElsewhere, Elsewhere, Still, LoadsOn
<1>8. ASSUME NEW p \in Papers, ChangePdf(p) PROVE Still
  BY <1>8 DEF ChangePdf, Elsewhere, Still, LoadsOn
<1>9. [Next]_vars =>
        \/ \E p \in Papers : Request(p) \/ ChangePdf(p)
        \/ \E l \in 1 .. MaxLoads : Loading(l) \/ ListFails(l) \/ LoadFails(l)
        \/ \E c \in Calls : Add(c) \/ Serving(c) \/ Failing(c) \/ Losing(c) \/ AnswerArrives(c)
        \/ \E c \in Calls, i \in items, op \in {"edit", "keep", "remove"} : Touch(c, i, op)
        \/ \E c \in Calls, p \in Papers : NoteElsewhere(c, p)
        \/ \E c \in Calls, m \in Marks, op \in {"edit", "keep", "remove"} : TouchElsewhere(c, m, op)
        \/ Reading \/ Drawing \/ Breaking \/ UNCHANGED vars
  BY Zenon DEF Next
<1> QED BY <1>1, <1>2, <1>3, <1>4, <1>5, <1>6, <1>7, <1>8, <1>9, Zenon

LEMMA MovesKeepPages ==
  ASSUME Shape, LoadsInv, PagesInv, PageMove, UNCHANGED <<token, loads>>
  PROVE  PagesInv'
<1>1. DrawInv /\ FreshInv /\ SearchTyped /\ SearchInv /\ doc \in Document \cup {None} /\ LoadsOn
  BY DEF PagesInv, Shape, PageTyped, LoadsOn
<1>2. doc' = doc
  BY DEF PageMove, GoTo, TrackCurrent, Look, Zoom, OnSearch, PageFetched, PageDrawn, PageCancelled,
     PageBreaks,
         TextArrives, TextFails
<1>3. ASSUME DrawInv', WorksFor(drawing', drawing, doc') PROVE FreshInv'
  <2>1. token' \in Nat /\ token <= token'
    BY BoundsAssumption DEF Shape, PageTyped
  <2> QED BY <1>1, <1>2, <1>3, <2>1, FreshStep
<1>4. ASSUME Steady, UNCHANGED <<marked, search>> PROVE PagesInv'
  <2>1. SearchTyped' /\ SearchInv'
    BY <1>1, <1>2, <1>4, SearchKept DEF Steady, search
  <2> QED BY <1>3, <1>4, <2>1 DEF Steady, PagesInv
<1>5. ASSUME Steady, SearchTyped', SearchInv' PROVE PagesInv'
  BY <1>3, <1>5 DEF Steady, PagesInv
<1>6. ASSUME NEW n \in Pages, GoTo(n) \/ TrackCurrent(n) PROVE PagesInv'
  <2>1. Steady
    BY <1>1, <1>6, GoToSteady, TrackSteady
  <2>2. UNCHANGED <<marked, search>>
    BY <1>6 DEF GoTo, TrackCurrent
  <2> QED BY <1>4, <2>1, <2>2
<1>7. ASSUME NEW vis \in SUBSET Pages, NEW n \in Pages, Look(vis, n) PROVE PagesInv'
  <2>1. Steady
    BY <1>1, <1>7, LookSteady
  <2>2. UNCHANGED <<marked, search>>
    BY <1>7 DEF Look
  <2> QED BY <1>4, <2>1, <2>2
<1>8. ASSUME NEW s \in Scales, Zoom(s) PROVE PagesInv'
  <2>1. Steady
    BY <1>1, <1>8, ZoomSteady
  <2>2. UNCHANGED <<marked, search>>
    BY <1>8 DEF Zoom
  <2> QED BY <1>4, <2>1, <2>2
<1>9. CASE PageFetched \/ PageCancelled \/ PageBreaks
  <2>1. Steady
    BY <1>1, <1>9, FetchedSteady, CancelledSteady, BreaksSteady
  <2>2. UNCHANGED <<marked, search>>
    BY <1>9 DEF PageFetched, PageCancelled, PageBreaks
  <2> QED BY <1>4, <2>1, <2>2
<1>10. CASE PageDrawn
  <2>1. DrawInv' /\ WorksFor(drawing', drawing, doc')
    BY <1>1, <1>10, DrawnSteady
  <2>2. SearchTyped' /\ SearchInv'
    BY <1>1, <1>10, DrawnKeeps
  <2> QED BY <1>3, <2>1, <2>2 DEF PagesInv
<1>11. ASSUME state = "ready", NEW t \in Terms \cup {None}, OnSearch(t) PROVE PagesInv'
  <2>1. AllLoaded
    BY <1>11 DEF LoadsInv, AllLoaded
  <2> QED BY <1>1, <1>5, <1>11, <2>1, OnSearchKeeps
<1>12. ASSUME NEW s \in searches, TextArrives(s) \/ TextFails(s) PROVE PagesInv'
  BY <1>1, <1>5, <1>12, ArrivesKeeps, FailsKeeps
<1> QED BY <1>6, <1>7, <1>8, <1>9, <1>10, <1>11, <1>12 DEF PageMove

LEMMA PagesStep ==
  ASSUME Shape, LoadsInv, PagesInv, [Next]_vars
  PROVE  PagesInv'
<1>1. DrawInv /\ FreshInv /\ SearchTyped /\ SearchInv /\ doc \in Document \cup {None} /\ token \in Nat
  BY BoundsAssumption DEF PagesInv, Shape, PageTyped
<1>2. CASE PageMove /\ UNCHANGED <<token, loads>>
  BY <1>2, MovesKeepPages
<1>3. CASE Still
  <2>1. UNCHANGED <<doc, visible, here, scale, drawing, marked, term, hits, text, searches, strayText>>
    BY <1>3 DEF Still, pages, search
  <2>2. Steady
    BY <1>1, <2>1 DEF Steady, DrawInv, WorksFor
  <2>3. SearchTyped' /\ SearchInv'
    BY <1>1, <1>3, <2>1, SearchKept DEF Still
  <2>4. \A l \in 1 .. MaxLoads : loads[l].at = "none" => loads'[l].at = "none"
    BY <1>3 DEF Still, LoadsOn
  <2>5. FreshInv'
    BY <1>1, <1>3, <2>1, <2>2, <2>4, FreshStep DEF Still, LoadsOn, Steady
  <2> QED BY <2>2, <2>3, <2>5 DEF Steady, PagesInv
<1>4. ASSUME NEW p \in Papers, Request(p) PROVE PagesInv'
  <2>1. Close /\ doc' = None /\ token' = token + 1
    BY <1>4 DEF Request, Close
  <2>2. Steady /\ SearchTyped' /\ SearchInv'
    BY <1>1, <2>1, CloseSteady, CloseKeeps
  <2>3. \A l \in 1 .. MaxLoads : l <= token => loads'[l] = loads[l]
    BY <1>1, <1>4 DEF Request, Shape, LoadsTyped
  <2>4. FreshInv'
    BY <1>1, <2>1, <2>2, <2>3, FreshStep DEF Steady
  <2> QED BY <2>2, <2>4 DEF Steady, PagesInv
<1>5. ASSUME NEW l \in 1 .. MaxLoads, FirstPage(l) PROVE PagesInv'
  <2>1. PICK d : d = [load |-> l, paper |-> loads[l].paper, file |-> loads[l].file]
    OBVIOUS
  <2>2. d \in Document /\ d.load = l
    <3>1. loads[l] \in Load /\ loads[l].file \in Files
      BY <1>5 DEF FirstPage, Shape, LoadsTyped, NoLoad
    <3> QED BY <2>1, <3>1 DEF Document, Load
  <2>3. loads[l].at = "first" /\ l <= token /\ token' = token
    BY <1>5 DEF FirstPage, LoadsInv
  <2>4. loads'[l].at = "none" /\ \A k \in 1 .. MaxLoads \ {l} : loads'[k] = loads[k]
    BY <1>5 DEF FirstPage, Ends, NoLoad, Shape, LoadsTyped
  <2>5. IF l = token THEN Open(d) ELSE Overwrite(d)
    BY <1>5, <2>1 DEF FirstPage
  <2>6. doc' = d
    BY <2>5 DEF Open, Overwrite
  <2>7. Steady
    <3>1. drawing.pump # Idle => drawing.pump.doc # d
      BY <1>1, <2>2, <2>3 DEF FreshInv, Taken
    <3> QED BY <1>1, <2>2, <2>5, <3>1, OpenSteady, OverwriteSteady
  <2>8. SearchTyped' /\ SearchInv'
    <3>1. CASE l = token
      <4>1. token > 0 /\ loads[token].at # "none" /\ loads'[token].at = "none"
        BY <2>3, <2>4, <3>1, BoundsAssumption
      <4>2. \A n \in Pages : ~Shown(drawing', n)
        BY <1>1, <2>2, <2>5, <3>1, OpenHidesAll
      <4> QED BY <1>1, <2>2, <2>3, <2>5, <3>1, <4>1, <4>2, OpenKeeps
    <3>2. CASE l # token
      BY <1>1, <2>5, <3>2, OverwriteKeeps
    <3> QED BY <3>1, <3>2
  <2>9. TakenNext(doc')
    BY <2>2, <2>3, <2>4, <2>6 DEF TakenNext
  <2>10. FreshInv'
    <3>1. \A k \in 1 .. MaxLoads : loads[k].at = "none" => loads'[k].at = "none"
      BY <2>4
    <3> QED BY <1>1, <2>2, <2>3, <2>6, <2>7, <2>9, <3>1, FreshStep DEF Steady
  <2> QED BY <2>7, <2>8, <2>10 DEF Steady, PagesInv
<1> QED BY <1>2, <1>3, <1>4, <1>5, PageCases

LEMMA PagesStart == Init => PagesInv
<1> SUFFICES ASSUME Init PROVE PagesInv
  OBVIOUS
<1>1. /\ doc = None /\ visible = {} /\ here = 1 /\ scale = 1 /\ marked = [n \in Pages |-> None]
      /\ term = None /\ hits = None /\ text = [n \in Pages |-> None] /\ searches = {} /\ strayText = FALSE
      /\ token = 0
      /\ drawing = [rendered |-> [n \in Pages |-> None], pump |-> Idle, again |-> FALSE,
                    from |-> 1, late |-> {}, left |-> {}, broken |-> {}]
  BY DEF Init, PagesInit
<1>2. 1 \in Pages /\ 1 \in Scales /\ None \notin Scales
  BY PagesAssumption DEF Pages
<1>3. drawing \in Canvas
  BY <1>1, <1>2 DEF Canvas
<1>4. drawing.pump = Idle /\ ~drawing.again /\ \A n \in Pages : drawing.rendered[n] = None
  BY <1>1
<1>5. Good(drawing, doc, visible, scale)
  BY <1>1, <1>3, <1>4, PumpAt DEF Good, Scaled, Aimed, Covers, Keeps
<1>6. DrawInv
  BY <1>1, <1>2, <1>5 DEF DrawInv
<1>7. FreshInv
  BY <1>1, <1>4 DEF FreshInv
<1>8. SearchTyped
  BY <1>1 DEF SearchTyped
<1>9. SearchInv
  BY <1>1, <1>4 DEF SearchInv, OfTheScreen, Shown
<1> QED BY <1>6, <1>7, <1>8, <1>9 DEF PagesInv

(* In every execution, for any number of pages, scales and searches, what  *)
(* is drawn, what the pump has yet to draw and what the searches have read *)
(* fit together as PagesInv says.                                          *)
THEOREM PagesHold == Spec => [](ReaderInv /\ PagesInv)
<1>1. Init => ReaderInv /\ PagesInv
  BY ReaderStarts, PagesStart
<1>2. ReaderInv /\ PagesInv /\ [Next]_vars => (ReaderInv /\ PagesInv)'
  <2>1. ReaderInv => Shape /\ LoadsInv
    BY DEF ReaderInv
  <2> QED BY <2>1, ReaderSteps, PagesStep
<1> QED BY <1>1, <1>2, PTL DEF Spec

(* However the reader scrolls and zooms while the pump waits for a page:   *)
(* when it stops, every page near the screen is drawn or cannot be, only   *)
(* pages near the reader keep their canvas, and every page has the scale   *)
(* of the reader, but for those the property names.                        *)
THEOREM ReaderIsFollowed == Spec => []PagesFollowTheReader
<1>1. PagesInv => PagesFollowTheReader
  <2> SUFFICES ASSUME PagesInv PROVE PagesFollowTheReader
    OBVIOUS
  <2>1. Good(drawing, doc, visible, scale) /\ visible \in SUBSET Pages
    BY DEF PagesInv, DrawInv
  <2>2. ASSUME AtRest PROVE Covers(drawing, visible) /\ Keeps(drawing, doc, visible) /\ drawing.pump = Idle
               /\ drawing.pump.at = "idle"
    BY <2>1, <2>2, PumpAt DEF AtRest, Good
  <2>3. AtRest => \A n \in visible : drawing.rendered[n] # None \/ n \in drawing.broken
    BY <2>2 DEF Covers
  <2>4. AtRest => \A n \in Pages \ drawing.left :
          drawing.rendered[n] # None => n \in visible \/ Distance(n, drawing.from) <= KeepPages
    BY <2>2 DEF Keeps, CloseBy
  <2>5. \A n \in Pages \ drawing.late : drawing.rendered[n] \in {scale, None}
    BY <2>1 DEF Good, Scaled
  <2> QED BY <2>3, <2>4, <2>5 DEF PagesFollowTheReader
<1> QED BY <1>1, PagesHold, PTL

(* Whichever superseded searches still run, and whatever text they leave   *)
(* in the cache, the matches are those of the term in the search field     *)
(* and, while the cache has no text of another document, of the document   *)
(* on the screen; every page drawn highlights that term.                   *)
THEOREM SearchIsAnswered == Spec => []SearchAnswersTheReader
<1>1. PagesInv => SearchAnswersTheReader
  <2>1. \A n \in Pages : Drawn(n) <=> Shown(drawing, n)
    BY DEF Drawn, Shown
  <2> QED BY <2>1 DEF PagesInv, SearchInv, OfTheScreen, SearchAnswersTheReader
<1> QED BY <1>1, PagesHold, PTL
====
