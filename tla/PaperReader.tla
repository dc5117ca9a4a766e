----------------------------- MODULE PaperReader -----------------------------
(***************************************************************************)
(* The page on which a reader reads and marks their PDFs (paper-reader.ts):*)
(* it loads a paper, its file and its marks, draws the pages (PdfPages)    *)
(* and sends what the reader marks to the server (PaperAnnotations), while *)
(* the reader moves on to another paper and another tab changes the PDFs.  *)
(*                                                                         *)
(* switchMap drops the outcome of a load that was superseded, but not the  *)
(* load, which runs on; a token tells it, at some of its awaits, to stop.  *)
(* Load numbers stand for tokens and for the documents loads open.         *)
(***************************************************************************)
EXTENDS PaperAnnotations, PdfPages

CONSTANTS
  MaxLoads,   \* bound: papers opened, one after the other
  New,        \* what busyId is while a mark is being added
  Budget      \* bound: how often papers are opened, the reader scrolls, zooms
              \* and searches, marks, another tab acts and something fails

ActKinds == {"loads", "pages", "marks", "others", "faults"}

ASSUME BoundsAssumption == MaxLoads \in Nat /\ Budget \subseteq [ActKinds -> Nat]
ASSUME DocumentAssumption == None \notin [load : 1 .. MaxLoads, paper : Papers, file : Files]

VARIABLES
  paperId, state,
  loads, token,       \* the loads begun, and the number of the latest
  header,             \* the paper whose title is shown
  items, pdfVersion,  \* the marks in the panel, and the version they were listed for
  busyId,             \* the mark whose buttons wait, or New
  acts,
  crossed,            \* history: awaits not guarded by a token that a new load overtook,
                      \* calls of another tab, two at once on one mark ("again"), and
                      \* an answer lost since the paper was opened ("lost")
  replaced            \* history: papers whose PDF changed since the latest load began

panel == <<items, pdfVersion, busyId>>
history == <<acts, crossed, replaced>>
vars == <<server, pages, paperId, state, loads, token, header, panel, history>>

NoLoad == [at |-> "none"]
Acting(kind) ==
  /\ \E b \in Budget : acts[kind] < b[kind] /\ \A k \in ActKinds : acts[k] <= b[k]
  /\ acts' = [acts EXCEPT ![kind] = @ + 1]

Init ==
  /\ ServerInit
  /\ PagesInit
  /\ paperId = Nil /\ state = "loading"
  /\ loads = [l \in 1 .. MaxLoads |-> NoLoad] /\ token = 0
  /\ header = Nil
  /\ items = {} /\ pdfVersion = Nil /\ busyId = Nil
  /\ acts = [kind \in ActKinds |-> 0] /\ crossed = {} /\ replaced = {}

-----------------------------------------------------------------------------
(* Loading a paper *)

Waiting(at) == \E l \in DOMAIN loads : loads[l].at = at
Sent(c) == call[c].at # "free" /\ call[c].mine

(* A route or a retry: everything of the paper before is dropped. *)
Request(p) ==
  /\ token < MaxLoads
  /\ Acting("loads")
  /\ Close
  /\ paperId' = p
  /\ state' = "loading"
  /\ token' = token + 1
  /\ loads' = [loads EXCEPT ![token + 1] = [at |-> "record", paper |-> p, file |-> Nil, list |-> {}, version |-> Nil]]
  /\ items' = {} /\ pdfVersion' = Nil
  /\ crossed' = (IF \A c \in Calls : call[c].at = "free" THEN crossed \ {"lost"} ELSE crossed)
       \cup (IF Waiting("record") THEN {"record"} ELSE {})
       \cup (IF Waiting("first") THEN {"first"} ELSE {})
       \cup (IF \E c \in Calls : Sent(c) THEN {"call"} ELSE {})
  /\ replaced' = {}
  /\ UNCHANGED <<server, header, busyId>>

(* The outcome of a load reaches the page only if no newer one was asked for. *)
Ends(l, outcome) ==
  /\ loads' = [loads EXCEPT ![l] = NoLoad]
  /\ state' = IF l = token THEN outcome ELSE state

Reaches(l, at) == loads' = [loads EXCEPT ![l].at = at]

\* mutant: a superseded load is not stopped by its token
CurrentAny(l) == TRUE
\* mutant: a load takes its token before the page is cleared for it
CurrentBehind(l) == l + 1 = token
IsCurrent(l) == l = token

RecordArrives(l) ==
  /\ loads[l].at = "record"
  /\ Reaches(l, "file")
  /\ header' = loads[l].paper
  /\ UNCHANGED <<server, pages, paperId, state, token, panel, history>>

FileArrives(l) ==
  LET p == loads[l].paper IN
  /\ loads[l].at = "file"
  /\ IF current[p] = Nil THEN Ends(l, "noFile")
     ELSE /\ loads' = [loads EXCEPT ![l].at = "open", ![l].file = current[p].file]
          /\ UNCHANGED state
  /\ UNCHANGED <<server, pages, paperId, token, header, panel, history>>

(* openPdf is done: the first look at the token. *)
Opened(l) ==
  /\ loads[l].at = "open"
  /\ IF IsCurrent(l) THEN Reaches(l, "list") /\ UNCHANGED state ELSE Ends(l, "loading")
  /\ UNCHANGED <<server, pages, paperId, token, header, panel, history>>

(* The server answers list. *)
ListRead(l) ==
  LET p == loads[l].paper IN
  /\ loads[l].at = "list"
  /\ loads' = [loads EXCEPT ![l].at = "listed", ![l].list = List(p),
                 ![l].version = IF current[p] = Nil THEN Nil ELSE current[p].version]
  /\ UNCHANGED <<server, pages, paperId, state, token, header, panel, history>>

ListArrives(l) ==
  /\ loads[l].at = "listed"
  /\ IF IsCurrent(l)
     THEN /\ items' = loads[l].list
          /\ pdfVersion' = loads[l].version
          /\ Reaches(l, "first")
          /\ UNCHANGED state
     ELSE Ends(l, "loading") /\ UNCHANGED <<items, pdfVersion>>
  /\ UNCHANGED <<server, pages, paperId, token, header, busyId, history>>

(* Without its list the PDF can still be read. *)
ListFails(l) ==
  /\ loads[l].at = "list"
  /\ Acting("faults")
  /\ IF IsCurrent(l) THEN Reaches(l, "first") /\ UNCHANGED state ELSE Ends(l, "loading")
  /\ UNCHANGED <<server, pages, paperId, token, header, panel, crossed, replaced>>

(* The document becomes the reader's; no token is looked at here.  Only    *)
(* the load that is waited for brings the pages up.                        *)
FirstPage(l) ==
  LET opened == [load |-> l, paper |-> loads[l].paper, file |-> loads[l].file] IN
  /\ loads[l].at = "first"
  /\ Ends(l, "ready")
  /\ IF l = token THEN Open(opened) ELSE Overwrite(opened)
  /\ UNCHANGED <<server, paperId, token, header, panel, history>>

LoadFails(l) ==
  /\ loads[l].at \in {"record", "file", "open", "first"}
  /\ Acting("faults")
  /\ Ends(l, "failed")
  /\ UNCHANGED <<server, pages, paperId, token, header, panel, crossed, replaced>>

-----------------------------------------------------------------------------
(* The reader's marks *)

Send(c, request) ==
  /\ call[c].at = "free"
  /\ call' = [call EXCEPT ![c] = request]
  /\ UNCHANGED <<current, rows, made>>

NewCall(op, m, version, on) ==
  [at |-> "sent", op |-> op, paper |-> paperId, mark |-> m, version |-> version, madeOn |-> on,
   mine |-> TRUE, cur |-> Nil, row |-> Nil, view |-> Nil]

Ready == state = "ready" /\ doc # None

(* add: a mark on the page the reader sees. *)
Add(c) ==
  /\ Ready
  /\ Acting("marks")
  /\ busyId = Nil
  /\ pdfVersion # Nil
  /\ busyId' = New
  /\ Send(c, NewCall("create", Nil, pdfVersion, doc.file))
  /\ UNCHANGED <<pages, paperId, state, loads, token, header, items, pdfVersion, crossed, replaced>>

(* drop and change; only a mark shown as stale can be kept as a note.  Any *)
(* answer clears busyId, so a second call for a mark can be sent before    *)
(* the first is answered.                                                  *)
Touch(c, i, op) ==
  /\ Ready
  /\ Acting("marks")
  /\ i \in items
  /\ busyId # i.id
  /\ op = "keep" => i.stale
  /\ busyId' = i.id
  /\ Send(c, NewCall(op, i.id, Nil, doc.file))
  /\ crossed' = crossed \cup (IF \E d \in Calls : Sent(d) /\ call[d].mark = i.id THEN {"again"} ELSE {})
  /\ UNCHANGED <<pages, paperId, state, loads, token, header, items, pdfVersion, replaced>>

\* mutant: the answer of a change replaces every item
PanelUnfiltered(c) ==
  CASE call[c].op = "create" -> items \cup {call[c].view}
    [] call[c].op = "remove" -> items
    [] OTHER -> {IF i.id = call[c].mark THEN call[c].view ELSE i : i \in items}
PanelAfter(c) ==
  CASE call[c].op = "create" -> items \cup {call[c].view}
    [] call[c].op = "remove" -> {i \in items : i.id # call[c].mark}
    [] OTHER -> {IF i.id = call[c].mark THEN call[c].view ELSE i : i \in items}

AnswerArrives(c) ==
  /\ call[c].at \in {"ok", "refused"}
  /\ call' = [call EXCEPT ![c] = NoCall]
  /\ IF call[c].mine
     THEN /\ busyId' = Nil
          /\ items' = IF call[c].at = "ok" THEN PanelAfter(c) ELSE items
     ELSE UNCHANGED <<busyId, items>>
  /\ UNCHANGED <<current, rows, made, pages, paperId, state, loads, token, header, pdfVersion, history>>

Elsewhere == <<pages, paperId, state, loads, token, header, panel>>

Serving(c) == ServerStep(c) /\ UNCHANGED <<Elsewhere, history>>
Failing(c) == CallFails(c) /\ Acting("faults") /\ UNCHANGED <<Elsewhere, crossed, replaced>>

(* The catch of drop, change and add leaves the panel as it was. *)
Losing(c) ==
  /\ AnswerLost(c)
  /\ Acting("faults")
  /\ busyId' = Nil
  /\ crossed' = crossed \cup {"lost"}
  /\ UNCHANGED <<pages, paperId, state, loads, token, header, items, pdfVersion, replaced>>

(* Another tab: the PDF of a paper, and the same marks. *)
ChangePdf(p) ==
  /\ \/ RemovePdf(p)
     \/ \E f \in Files : Attach(p, f) \/ Replace(p, f)
  /\ Acting("others")
  /\ replaced' = replaced \cup {p}
  /\ UNCHANGED <<Elsewhere, crossed>>

NoteElsewhere(c, p) ==
  /\ Acting("others")
  /\ Send(c, [NewCall("note", Nil, Nil, Nil) EXCEPT !.paper = p, !.mine = FALSE])
  /\ crossed' = crossed \cup {"tab"}
  /\ UNCHANGED <<Elsewhere, replaced>>

TouchElsewhere(c, m, op) ==
  /\ Acting("others")
  /\ rows[m] # Nil
  /\ Send(c, [NewCall(op, m, Nil, Nil) EXCEPT !.paper = rows[m].paper, !.mine = FALSE])
  /\ crossed' = crossed \cup {"tab"}
  /\ UNCHANGED <<Elsewhere, replaced>>

-----------------------------------------------------------------------------
(* The reader's pages *)

Beside == <<server, paperId, state, loads, token, header, panel>>

Reading ==
  /\ state = "ready"
  /\ Acting("pages")
  /\ \/ \E n \in Pages : GoTo(n) \/ TrackCurrent(n)
     \/ \E vis \in SUBSET Pages, n \in Pages : Look(vis, n)
     \/ \E s \in Scales : Zoom(s)
     \/ \E t \in Terms \cup {None} : OnSearch(t)
  /\ UNCHANGED <<Beside, crossed, replaced>>

Drawing == (Pumping \/ Searching) /\ UNCHANGED <<Beside, history>>

Breaking ==
  /\ PageBreaks \/ \E s \in searches : TextFails(s)
  /\ Acting("faults")
  /\ UNCHANGED <<Beside, crossed, replaced>>

-----------------------------------------------------------------------------

Loading(l) ==
  \/ RecordArrives(l) \/ FileArrives(l) \/ Opened(l)
  \/ ListRead(l) \/ ListArrives(l) \/ FirstPage(l)

Next ==
  \/ \E p \in Papers : Request(p) \/ ChangePdf(p)
  \/ \E l \in 1 .. MaxLoads : Loading(l) \/ ListFails(l) \/ LoadFails(l)
  \/ \E c \in Calls : Add(c) \/ Serving(c) \/ Failing(c) \/ Losing(c) \/ AnswerArrives(c)
  \/ \E c \in Calls, i \in items, op \in {"edit", "keep", "remove"} : Touch(c, i, op)
  \/ \E c \in Calls, p \in Papers : NoteElsewhere(c, p)
  \/ \E c \in Calls, m \in Marks, op \in {"edit", "keep", "remove"} : TouchElsewhere(c, m, op)
  \/ Reading \/ Drawing \/ Breaking

Spec == Init /\ [][Next]_vars

(* The responses a load waits for arrive, and the engine answers. *)
Fairness ==
  /\ \A l \in 1 .. MaxLoads : WF_<<loads, state>>(Loading(l))
  /\ WF_<<drawing, searches>>(Drawing)

FairSpec == Spec /\ Fairness

-----------------------------------------------------------------------------
(* Properties *)

TypeOK ==
  /\ ServerTypeOK
  /\ paperId \in Papers \cup {Nil}
  /\ state \in {"loading", "ready", "noFile", "failed"}
  /\ token \in 0 .. MaxLoads
  /\ pdfVersion \in 1 .. MaxVersion \cup {Nil}
  /\ busyId \in Marks \cup {New, Nil}

(* However papers are opened one over the other, the file, the title and   *)
(* the marks shown are of the paper asked for last.  A load or a call that *)
(* is overtaken where no token is looked at is the exception.  "A stale    *)
(* annotation is never drawn on a file it was not made for"                *)
(* (paper-reader.ts:101), as long as the PDF is not replaced meanwhile.    *)
ShowsThePaperAskedFor ==
  state = "ready" =>
    /\ "first" \notin crossed => doc.paper = paperId /\ doc.load = token
    /\ "record" \notin crossed => header = paperId
    /\ "call" \notin crossed => \A i \in items : rows[i.id] # Nil => rows[i.id].paper = paperId
    /\ crossed \cap {"first", "call"} = {} /\ paperId \notin replaced =>
         \A i \in items : i.anchor # Nil /\ ~i.stale => i.anchor.file = doc.file

(* When everything is answered the panel shows the marks the server has,   *)
(* whatever was added, edited, kept and removed at once.  The exceptions:  *)
(* two calls on one mark overlapped, and the save of the one may bring     *)
(* back what the other removed; and an answer was lost, so that the panel  *)
(* took for failed what was done, until the paper is opened again.         *)
PanelIsTheServers ==
  /\ state = "ready" /\ pdfVersion # Nil
  /\ crossed \cap {"call", "tab", "again", "lost"} = {}
  /\ \A c \in Calls : call[c].at = "free"
  => {<<i.id, i.anchor>> : i \in items} = {<<m, rows[m].anchor>> : m \in RowsOf(paperId)}

(* The paper asked for comes up or fails, whichever loads are given up on  *)
(* the way, and the pump, however often it is sent round again, stops.     *)
ComesToRest ==
  /\ (state = "loading" /\ paperId # Nil) ~> (state # "loading")
  /\ (drawing.pump # Idle) ~> AtRest
=============================================================================
