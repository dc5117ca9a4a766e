------------------------------- MODULE PdfPages -------------------------------
(***************************************************************************)
(* The pages of the PDF in the reader (paper-reader.ts): which are drawn,  *)
(* at what scale, and the search over their text.                          *)
(*                                                                         *)
(* Pages are drawn by one asynchronous loop, the pump, which anything that *)
(* scrolls or zooms asks to go round again.  It waits twice for a page:    *)
(* for the engine to hand it over and for the drawing, and the reader acts *)
(* meanwhile.  A superseded search also goes on until its next await.      *)
(***************************************************************************)
EXTENDS Integers, FiniteSets, Sequences, FiniteSetsExt

CONSTANTS
  PageCount,
  KeepPages,   \* KEEP_PAGES: pages this far away give their canvas back
  Scales, Terms,
  None

ASSUME PagesAssumption ==
  PageCount \in Nat \ {0} /\ KeepPages \in Nat /\ 1 \in Scales /\ None \notin Scales

VARIABLES
  doc,          \* the open document
  visible,      \* the pages near the screen
  here,         \* current: the page the reader is on
  scale,
  drawing,      \* the pages drawn and the pump
  marked,       \* the term highlighted in each page drawn
  term, hits,   \* the search of the reader, and its answer
  text,         \* the cache: the document whose text it has for each page
  searches,     \* loops of onSearch still running
  strayText     \* history: the cache may have text of another document than the open one

search == <<term, hits, text, searches, strayText>>
pages == <<doc, visible, here, scale, drawing, marked, search>>

Pages == 1 .. PageCount
Idle == [at |-> "idle"]

PagesInit ==
  /\ doc = None
  /\ visible = {} /\ here = 1
  /\ scale = 1
  /\ drawing = [rendered |-> [n \in Pages |-> None], pump |-> Idle, again |-> FALSE,
                from |-> 1, late |-> {}, left |-> {}, broken |-> {}]
  /\ marked = [n \in Pages |-> None]
  /\ term = None /\ hits = None
  /\ text = [n \in Pages |-> None]
  /\ searches = {}
  /\ strayText = FALSE

-----------------------------------------------------------------------------
(* The pump.  "from" is where the reader was when its round began, "late"  *)
(* has the pages a zoom overtook while they were fetched, "left" those of  *)
(* a document that was put aside without being closed, "broken" those that *)
(* failed in this round; the last three are history.                       *)

Distance(m, n) == IF m > n THEN m - n ELSE n - m

(* Which of two equally near pages comes first depends on the order they   *)
(* came near in, which nothing here can tell.                              *)
NearestFirst(wanted, p) ==
  CHOOSE q \in [1 .. Cardinality(wanted) -> wanted] :
    /\ \A n \in wanted : \E i \in DOMAIN q : q[i] = n
    /\ \A i, j \in DOMAIN q : i < j => Distance(q[i], p) <= Distance(q[j], p)

Release(d, far) ==
  [d EXCEPT !.rendered = [n \in Pages |-> IF n \in far THEN None ELSE @[n]],
            !.late = @ \ far, !.left = @ \ far]

(* draw returns at once when no document is open: the queue runs dry. *)
DrawFirst(d, queue, open, s) ==
  [d EXCEPT !.pump = IF open = None \/ queue = <<>> THEN Idle
                     ELSE [at |-> "page", page |-> Head(queue), queue |-> Tail(queue),
                           doc |-> open, scale |-> s, overtaken |-> FALSE, closed |-> FALSE]]

Round(d, open, vis, p, s) ==
  LET near == Release(d, {n \in Pages \ vis : Distance(n, p) > KeepPages})
      wanted == {n \in vis : near.rendered[n] = None} IN
  DrawFirst([near EXCEPT !.again = FALSE, !.from = p, !.broken = {}], NearestFirst(wanted, p), open, s)

\* mutant: a call that finds the pump running is not remembered
CallIfIdle(d, open, vis, p, s) ==
  IF open = None \/ d.pump # Idle THEN d ELSE Round(d, open, vis, p, s)
(* pump() *)
Call(d, open, vis, p, s) ==
  CASE open = None -> d
    [] open # None /\ d.pump # Idle -> [d EXCEPT !.again = TRUE]
    [] OTHER -> Round(d, open, vis, p, s)

(* After a page: another round if one was asked for, or the next page. *)
GoOn(d) ==
  IF d.again THEN Round(d, doc, visible, here, scale)
  ELSE DrawFirst(d, d.pump.queue, doc, scale)

HighlightAll(r, t) == [n \in Pages |-> IF r[n] = None THEN marked[n] ELSE t]

(* goTo: scrolling is left to the observer. *)
GoTo(n) ==
  /\ doc # None
  /\ here' = n
  /\ drawing' = Call(drawing, doc, visible, n, scale)
  /\ UNCHANGED <<doc, visible, scale, marked, search>>

(* The observer reports what is near the screen: the pump is called first  *)
(* and the page the reader is on found afterwards.                         *)
Look(vis, n) ==
  /\ doc # None
  /\ vis # visible
  /\ n \in vis \cup {here}
  /\ visible' = vis
  /\ here' = n
  /\ drawing' = Call(drawing, doc, vis, here, scale)
  /\ UNCHANGED <<doc, scale, marked, search>>

(* A scroll that brings no page in or out. *)
TrackCurrent(n) ==
  /\ n \in visible \ {here}
  /\ here' = n
  /\ UNCHANGED <<doc, visible, scale, drawing, marked, search>>

Overtake(d, s) ==
  IF d.pump.at = "page" THEN [d EXCEPT !.pump.overtaken = @ \/ s # d.pump.scale] ELSE d

(* applyScale, which ends in goTo(here) *)
Rescaled(d, open, vis, p, s) == Call(Release(Overtake(d, s), Pages), open, vis, p, s)

Zoom(s) ==
  /\ doc # None
  /\ s # scale
  /\ scale' = s
  /\ drawing' = Rescaled(drawing, doc, visible, here, s)
  /\ UNCHANGED <<doc, visible, here, marked, search>>

(* The engine hands the page over: its drawing starts, at the scale read   *)
(* before.                                                                 *)
PageFetched ==
  LET w == drawing.pump IN
  /\ w.at = "page"
  /\ ~w.closed
  /\ drawing' = [drawing EXCEPT !.rendered[w.page] = w.scale, !.pump.at = "draw",
                   !.late = IF w.overtaken THEN @ \cup {w.page} ELSE @,
                   !.left = IF w.doc # doc THEN @ \cup {w.page} ELSE @]
  /\ UNCHANGED <<doc, visible, here, scale, marked, search>>

PageDrawn ==
  LET n == drawing.pump.page IN
  /\ drawing.pump.at = "draw"
  /\ drawing.rendered[n] # None
  /\ marked' = [marked EXCEPT ![n] = term]
  /\ drawing' = GoOn(drawing)
  /\ UNCHANGED <<doc, visible, here, scale, search>>

(* The catch of draw: the page was released while it was drawn, its        *)
(* document closed, or, the second case, it cannot be drawn.               *)
Discard(d) == GoOn(Release(d, {d.pump.page}))

PageCancelled ==
  LET w == drawing.pump IN
  /\ \/ w.at = "draw" /\ drawing.rendered[w.page] = None
     \/ w.at = "page" /\ w.closed
  /\ drawing' = Discard(drawing)
  /\ UNCHANGED <<doc, visible, here, scale, marked, search>>

PageBreaks ==
  LET w == drawing.pump IN
  /\ \/ w.at = "page" /\ ~w.closed
     \/ w.at = "draw" /\ drawing.rendered[w.page] # None
  /\ drawing' = LET d == Discard(drawing) IN
       IF drawing.again THEN d ELSE [d EXCEPT !.broken = @ \cup {w.page}]
  /\ UNCHANGED <<doc, visible, here, scale, marked, search>>

-----------------------------------------------------------------------------
(* Search *)

NextUnread(n, txt) == Min({k \in n .. PageCount : txt[k] = None} \cup {PageCount + 1})

Superseded == {[s EXCEPT !.live = FALSE] : s \in searches}

(* The matches are known: they are highlighted and the reader is taken to  *)
(* the first, if there is one.                                             *)
Finish(s, docs) ==
  /\ hits' = [term |-> s.term, docs |-> docs]
  /\ marked' = HighlightAll(drawing.rendered, s.term)
  /\ \/ /\ \E n \in Pages :
             /\ here' = n
             /\ drawing' = Call(drawing, doc, visible, n, scale)
        /\ docs # {}
     \/ UNCHANGED <<here, drawing>>

(* Pages in the cache are searched at once, up to the first that is not. *)
Continue(s, txt) ==
  LET next == NextUnread(s.next, txt)
      read == s.docs \cup {txt[k] : k \in s.next .. next - 1} IN
  IF next > PageCount
  THEN Finish(s, read) /\ searches' = searches \ {s}
  ELSE /\ searches' = (searches \ {s}) \cup {[s EXCEPT !.next = next, !.docs = read]}
       /\ UNCHANGED <<hits, here, drawing, marked>>

\* mutant: an earlier search is not superseded by the next
StillLive == searches
Earlier == Superseded

(* onSearch, up to its first await; t is None when the field is empty. *)
OnSearch(t) ==
  LET next == NextUnread(1, text)
      s == [doc |-> doc, term |-> t, live |-> TRUE, next |-> next, docs |-> {text[k] : k \in 1 .. next - 1}]
      waits == t # None /\ next <= PageCount IN
  /\ doc # None
  /\ term' = t
  /\ searches' = Earlier \cup (IF waits THEN {s} ELSE {})
  /\ IF t # None /\ ~waits THEN Finish(s, s.docs)
     ELSE /\ hits' = None
          /\ marked' = HighlightAll(drawing.rendered, t)
          /\ UNCHANGED <<here, drawing>>
  /\ UNCHANGED <<doc, visible, scale, text, strayText>>

(* The text of a page arrives and is cached before the token is looked at. *)
TextArrives(s) ==
  LET txt == [text EXCEPT ![s.next] = s.doc] IN
  /\ s \in searches
  /\ text' = txt
  /\ strayText' = (strayText \/ s.doc # doc)
  /\ IF s.live THEN Continue(s, txt)
     ELSE searches' = searches \ {s} /\ UNCHANGED <<hits, here, drawing, marked>>
  /\ UNCHANGED <<doc, visible, scale, term>>

(* The catch ends the whole loop, with the matches found so far. *)
TextFails(s) ==
  /\ s \in searches
  /\ searches' = searches \ {s}
  /\ IF s.live THEN Finish(s, s.docs) ELSE UNCHANGED <<hits, here, drawing, marked>>
  /\ UNCHANGED <<doc, visible, scale, term, text, strayText>>

-----------------------------------------------------------------------------
(* The document *)

(* A document is open and its pages are on the screen: attach. *)
Open(d) ==
  /\ doc' = d
  /\ here' = 1
  /\ drawing' = Rescaled(drawing, d, visible, 1, scale)
  /\ UNCHANGED <<visible, scale, marked, search>>

(* A superseded load puts its document in the place of the open one. *)
Overwrite(d) ==
  /\ doc' = d
  /\ here' = 1
  /\ strayText' = TRUE
  /\ UNCHANGED <<visible, scale, drawing, marked, term, hits, text, searches>>

(* dispose.  The pump goes on with the page it waits for, and there is no  *)
(* element for those after it; a document that was replaced without being  *)
(* closed still hands its pages over.                                      *)
Shut(d) ==
  IF d.pump = Idle THEN d
  ELSE [d EXCEPT !.pump.queue = <<>>, !.pump.closed = @ \/ d.pump.doc = doc]

Close ==
  /\ doc' = None
  /\ visible' = {}
  /\ drawing' = Release(Shut(drawing), Pages)
  /\ term' = None /\ hits' = None
  /\ text' = [n \in Pages |-> None]
  /\ searches' = Superseded
  /\ strayText' = FALSE
  /\ UNCHANGED <<here, scale, marked>>

Pumping == PageFetched \/ PageDrawn \/ PageCancelled
Searching == \E s \in searches : TextArrives(s)

-----------------------------------------------------------------------------
(* Properties *)

AtRest == drawing.pump = Idle
Drawn(n) ==
  /\ drawing.rendered[n] # None
  /\ drawing.pump.at = "draw" => drawing.pump.page # n

(* However the reader scrolls and zooms while the pump waits: when it      *)
(* stops, every page near the screen is drawn, save those that cannot be,  *)
(* and no canvas is kept that is neither there nor near where its last     *)
(* round began, save one of a document that was never closed; and what is  *)
(* drawn has the scale of the reader, unless the zoom came while that page *)
(* was being fetched.                                                      *)
PagesFollowTheReader ==
  /\ AtRest /\ doc # None =>
       \A n \in visible : drawing.rendered[n] # None \/ n \in drawing.broken
  /\ AtRest => \A n \in Pages \ drawing.left :
       drawing.rendered[n] # None => n \in visible \/ Distance(n, drawing.from) <= KeepPages
  /\ \A n \in Pages \ drawing.late : drawing.rendered[n] \in {scale, None}

(* The matches and the highlights are those of the term and the document   *)
(* on the screen, whichever searches still run.                            *)
SearchAnswersTheReader ==
  /\ hits # None => hits.term = term /\ (~strayText => hits.docs \subseteq {doc})
  /\ \A n \in Pages : Drawn(n) => marked[n] = term
=============================================================================
