----------------------------- MODULE SearchPalette -----------------------------
(***************************************************************************)
(* The search of the whole site (search-palette.ts).  What is typed is     *)
(* searched when the reader pauses, a filter at once; results stay on the  *)
(* screen until the next ones arrive, and more of them are asked for a     *)
(* page at a time.  Every new request drops the one before it.             *)
(*                                                                         *)
(* A page of results is named by the search it answers and its place in    *)
(* that search's answers.  A text too short to be searched is Short.       *)
(***************************************************************************)
EXTENDS Integers, Sequences, FiniteSets

CONSTANTS
  Queries, Types,
  Total,     \* pages of results a search has
  MaxActs,   \* bound: what the reader does
  Short, None

ASSUME TotalAssumption == Total \in Nat /\ MaxActs \in Nat
ASSUME NoneAssumption == None \notin Queries

VARIABLES
  open,      \* the palette is shown
  query, type,
  results,   \* the pages shown
  more,      \* hasMore
  settled,   \* settledQuery
  flags,     \* loading, loadingMore and error
  timer,     \* what the debounce will search, or None
  requests,  \* subscriptions to searches that are not answered
  acts,
  dropped    \* history: a search or a request for more was dropped by the other and
             \* not answered since, or a search by closing before it began

shown == <<results, more, settled>>
palette == <<open, query, type, shown, flags, timer, requests, acts, dropped>>

Asked == [query : Queries, type : Types, offset : 0 .. Total, to : {"show", "append"}]

PaletteInit ==
  /\ open = FALSE
  /\ query = Short /\ type \in Types
  /\ results = <<>> /\ more = FALSE /\ settled = Short
  /\ flags = [loading |-> FALSE, loadingMore |-> FALSE, error |-> FALSE]
  /\ timer = None
  /\ requests = {}
  /\ acts = 0 /\ dropped = {}

Acts == acts < MaxActs /\ acts' = acts + 1

-----------------------------------------------------------------------------
(* Searching *)

\* mutant: a request goes on when the next is sent
KeptSubscribed == requests
Unsubscribed == {}

Dropped(to) == IF \E r \in requests : r.to = to THEN {to} ELSE {}

(* run: the search of q, under the filter chosen by now. *)
Run(q, t) ==
  /\ requests' = Unsubscribed \cup {[query |-> q, type |-> t, offset |-> 0, to |-> "show"]}
  /\ dropped' = (dropped \ {"closed"}) \cup Dropped("append")

(* onInput *)
OnInput(q) ==
  /\ open /\ Acts
  /\ query' = q
  /\ IF q = Short
     THEN /\ requests' = Unsubscribed
          /\ results' = <<>> /\ more' = FALSE /\ settled' = Short
          /\ flags' = [flags EXCEPT !.loading = FALSE, !.error = FALSE]
          /\ timer' = None
          /\ dropped' = (dropped \ {"show", "closed"}) \cup Dropped("append")
     ELSE /\ flags' = [flags EXCEPT !.loading = TRUE]
          /\ timer' = q
          /\ UNCHANGED <<requests, shown, dropped>>
  /\ UNCHANGED <<open, type>>

DebounceEnds ==
  /\ timer # None
  /\ timer' = None
  /\ Run(timer, type)
  /\ flags' = [flags EXCEPT !.error = FALSE]
  /\ UNCHANGED <<open, query, type, shown, acts>>

(* setType, which does not wait: a pause still running searches again.  The *)
(* filters are there once something was found, so there is a query.        *)
SetType(t) ==
  /\ open /\ Acts
  /\ settled # Short
  /\ t # type
  /\ type' = t
  /\ Run(query, t)
  /\ flags' = [flags EXCEPT !.loading = TRUE, !.error = FALSE]
  /\ UNCHANGED <<open, query, shown, timer>>

(* Recent searches are offered while nothing is typed. *)
UseRecent(q) ==
  /\ open /\ Acts
  /\ query = Short
  /\ query' = q
  /\ timer' = None
  /\ Run(q, type)
  /\ flags' = [flags EXCEPT !.loading = TRUE, !.error = FALSE]
  /\ UNCHANGED <<open, type, shown>>

(* The button is there while there is more and nothing went wrong. *)
LoadMore ==
  /\ open /\ Acts
  /\ query # Short /\ ~flags.error
  /\ more /\ settled # Short
  /\ ~flags.loadingMore
  /\ requests' = Unsubscribed \cup
       {[query |-> settled, type |-> type, offset |-> Len(results), to |-> "append"]}
  /\ dropped' = dropped \cup Dropped("show")
  /\ flags' = [flags EXCEPT !.loadingMore = TRUE]
  /\ UNCHANGED <<open, query, type, shown, timer>>

-----------------------------------------------------------------------------
(* Answers *)

Page(r) == IF r.offset < Total THEN <<[query |-> r.query, type |-> r.type, place |-> r.offset + 1]>> ELSE <<>>

Answer(r) ==
  LET list == IF r.to = "show" THEN Page(r) ELSE results \o Page(r) IN
  /\ results' = list
  /\ more' = (Len(list) < Total)
  /\ settled' = IF r.to = "show" THEN r.query ELSE settled
  /\ flags' = IF r.to = "show" THEN [flags EXCEPT !.loading = FALSE] ELSE [flags EXCEPT !.loadingMore = FALSE]
  /\ dropped' = IF r.to = "show" THEN dropped \ {"show"} ELSE dropped \ {"append"}

\* mutant: only an answer ends the wait
ErrorOnly(r) == [flags EXCEPT !.error = TRUE]
AfterError(r) ==
  IF r.to = "show" THEN [flags EXCEPT !.loading = FALSE, !.error = TRUE]
  ELSE [flags EXCEPT !.loadingMore = FALSE, !.error = TRUE]

Arrives(r) ==
  /\ r \in requests
  /\ requests' = requests \ {r}
  /\ \/ Answer(r)
     \/ flags' = AfterError(r) /\ UNCHANGED <<shown, dropped>>
  /\ UNCHANGED <<open, query, type, timer, acts>>

-----------------------------------------------------------------------------
(* Opening and closing: a search that was sent goes on, a pause does not. *)

Open == ~open /\ open' = TRUE /\ UNCHANGED <<query, type, shown, flags, timer, requests, acts, dropped>>

Close ==
  /\ open /\ Acts
  /\ open' = FALSE
  /\ timer' = None
  /\ dropped' = dropped \cup (IF timer # None THEN {"closed"} ELSE {})
  /\ UNCHANGED <<query, type, shown, flags, requests>>

PaletteNext ==
  \/ \E q \in Queries \cup {Short} : OnInput(q)
  \/ \E q \in Queries : UseRecent(q)
  \/ \E t \in Types : SetType(t)
  \/ LoadMore \/ DebounceEnds \/ Open \/ Close
  \/ \E r \in requests : Arrives(r)

Arriving == \E r \in requests : Arrives(r)

PaletteSpec == PaletteInit /\ [][PaletteNext]_palette /\ WF_palette(DebounceEnds) /\ WF_palette(Arriving)

-----------------------------------------------------------------------------
(* Properties *)

PaletteTypeOK ==
  /\ open \in BOOLEAN
  /\ query \in Queries \cup {Short} /\ settled \in Queries \cup {Short}
  /\ type \in Types
  /\ timer \in Queries \cup {None}
  /\ requests \subseteq Asked

(* "The query the shown results belong to" (search-palette.ts:102): all    *)
(* pages shown are of that query and, unless more of them were asked for   *)
(* while a filter was loading, of one filter, in their order, none left    *)
(* out and none twice.                                                     *)
ResultsAreOfOneSearch ==
  /\ \A i \in DOMAIN results : results[i].query = settled
  /\ "show" \notin dropped => \A i \in DOMAIN results : results[i].place = i /\ results[i].type = results[1].type

(* Once nothing is under way what is shown answers what is asked, however  *)
(* the reader typed, filtered and paged: the exceptions are a search cut   *)
(* off by a request for more and one typed just before closing.            *)
RestAnswersTheQuestion ==
  /\ timer = None /\ requests = {}
  /\ ~flags.error /\ dropped \cap {"show", "closed"} = {}
  => /\ settled = query
     /\ ~flags.loading
     /\ "append" \notin dropped => ~flags.loadingMore
     /\ query # Short => \A i \in DOMAIN results : results[i].type = type

(* The reader is not left waiting, with the same exceptions. *)
WaitingEnds ==
  /\ flags.loading ~> (~flags.loading \/ dropped \cap {"show", "closed"} # {})
  /\ flags.loadingMore ~> (~flags.loadingMore \/ "append" \in dropped)
=============================================================================
