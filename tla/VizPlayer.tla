------------------------------ MODULE VizPlayer ------------------------------
(***************************************************************************)
(* An animated figure on a concept page: the page's directive that mounts  *)
(* and cleans it up, the playback control (Stepper) and the renderers that *)
(* turn the step shown into moving elements (engine.ts, tree-render.ts,    *)
(* btree-render.ts) of a script (VizScenes).                               *)
(*                                                                         *)
(* Every step replays the script and animates the difference between what  *)
(* it implies and what is on the screen.  The animations outlive the click *)
(* that started them, so the next step may find them half done: an element *)
(* still fading in or out, one on its way, or one waiting for its first    *)
(* animation frame, which a page in a background tab gets only once it is  *)
(* looked at.  On one element the newest transition replaces the others.   *)
(***************************************************************************)
EXTENDS VizScenes

VARIABLES
  life, stepIndex, isPlaying, playTimer, pending, doneTimer, caption, buttons,
  page, chunk,    \* the page around the figure, the engine's code it loads
  scene,          \* the script of the figure
  fade,           \* what is seen of each element that fades in and out
  tokenEl,        \* a row's element of each token, kept in rowTokenEls
  ghosts,         \* tokens of a row with an element that no step removes any more
  active, lit,    \* activeHighlights, and the classes on the elements
  hurried         \* history: a step came while another was still moving

S == INSTANCE Stepper

control == <<life, stepIndex, isPlaying, playTimer, pending, doneTimer, caption, buttons>>
pageVars == <<page, chunk>>
picture == <<fade, tokenEl, ghosts, active, lit, hurried>>
vars == <<control, pageVars, scene, picture>>

Elements ==
  {<<"token", s, t>> : s \in Slots, t \in Tokens} \cup {<<"node", n>> : n \in Nodes}
  \cup {<<"edge", n>> : n \in Nodes}

(* Where a row's element is drawn: a slot, or neither of these. *)
Entry == 0      \* at its slot, small and transparent
Between == -1   \* on its way

NoElement == [live |-> FALSE, frame |-> Nil, style |-> Entry, goal |-> Nil]

-----------------------------------------------------------------------------
(* What step i implies *)

IsRow == scene.kind = "row"
At(i) == TokensAt(scene.steps, i)

TreeElements(in, up) == {<<"node", n>> : n \in in} \cup {<<"edge", n>> : n \in {m \in in : up[m] \in in}}

Drawn(i) ==
  CASE scene.kind = "grid" -> {e \in Elements : e[1] = "token" /\ At(i)[e[3]] = e[2]}
    [] scene.kind = "tree" -> LET t == TreeAt(scene.steps, i) IN TreeElements(TreeDrawn(t), t.up)
    [] scene.kind = "btree" -> LET b == BTreeAt(scene.steps, i) IN TreeElements(BTreeDrawn(b), b.up)
    [] OTHER -> {}

Step(i) == IF i < 0 THEN [op |-> "none"] ELSE scene.steps[i + 1]

(* The latest mark at or before step i. *)
Pivots(i) ==
  {scene.steps[k].slot : k \in {j \in 1 .. i + 1 :
     /\ scene.steps[j].op = "mark"
     /\ \A l \in j + 1 .. i + 1 : scene.steps[l].op # "mark"}}

(* The first token tokenSlot has in the marked slot. *)
Pivot(i) ==
  LET order == TokenOrder(scene.steps, i)
      k == SelectInSeq(order, LAMBDA t : At(i)[t] \in Pivots(i)) IN
  IF k = 0 THEN {} ELSE {order[k]}

Highlights(i) ==
  LET swapped == IF Step(i).op = "swap" THEN {Step(i).a, Step(i).b} ELSE {} IN
  IF IsRow THEN {<<t, "pointer">> : t \in swapped} \cup {<<t, "flash">> : t \in Pivot(i) \ swapped}
  ELSE {}

-----------------------------------------------------------------------------
(* Rendering *)

(* An element that stays: a grid leaves it alone, a tree slides it, which  *)
(* replaces the transition that was fading it in or out.                   *)
Stays(f) == IF scene.kind # "grid" /\ f \in {"entering", "leaving"} THEN "dim" ELSE f

\* mutant: a join without its exit part
JoinWithoutExit(drawn) ==
  fade' = [e \in Elements |-> IF e \notin drawn THEN fade[e]
                              ELSE IF fade[e] = "gone" THEN "entering" ELSE Stays(fade[e])]
(* The D3 join: elements are matched by their key as long as they are in   *)
(* the page, those still fading out included.                              *)
Join(drawn) ==
  fade' = [e \in Elements |->
    IF e \in drawn THEN IF fade[e] = "gone" THEN "entering" ELSE Stays(fade[e])
    ELSE IF fade[e] = "gone" THEN "gone" ELSE "leaving"]

(* renderRowTokens: an element whose style already names its slot is left  *)
(* as it is, even if a transition it is waiting for will move it.          *)
RowElement(el, slot) ==
  CASE slot = Nil -> NoElement
    [] slot # Nil /\ ~el.live -> [live |-> TRUE, frame |-> slot, style |-> Entry, goal |-> Nil]
    [] OTHER -> IF el.style = slot THEN el ELSE [el EXCEPT !.goal = slot]

(* The first frame of an element that was taken out meanwhile replaces its *)
(* fading out, whose end would have removed it.                            *)
RowJoin(at) ==
  /\ tokenEl' = [t \in Tokens |-> RowElement(tokenEl[t], at[t])]
  /\ ghosts' = ghosts \cup {t \in Tokens : at[t] = Nil /\ tokenEl[t].frame # Nil}

(* A token a swap names may have no entry in rowTokenEls. *)
HasElement(els, token) == token \in DOMAIN els /\ els[token].live

(* syncHighlights *)
Sync(next) ==
  /\ lit' = {p \in (lit \ active) \cup next : HasElement(tokenEl', p[1])}
  /\ active' = next

AtRest ==
  /\ \A e \in Elements : fade[e] \notin {"entering", "leaving"}
  /\ \A t \in Tokens : tokenEl[t].frame = Nil /\ tokenEl[t].goal = Nil

(* onStep of the three renderers. *)
OnStep(i) ==
  /\ IF IsRow THEN RowJoin(At(i)) /\ UNCHANGED fade
     ELSE Join(Drawn(i)) /\ UNCHANGED <<tokenEl, ghosts>>
  /\ Sync(Highlights(i))
  /\ hurried' = (hurried \/ ~AtRest)

-----------------------------------------------------------------------------
(* The browser's animations *)

(* A fade that is left alone ends: the element is there, or removed. *)
FadeEnds(e) ==
  /\ fade[e] \in {"entering", "leaving"}
  /\ fade' = [fade EXCEPT ![e] = IF @ = "entering" THEN "shown" ELSE "gone"]
  /\ UNCHANGED <<control, pageVars, scene, tokenEl, ghosts, active, lit, hurried>>

\* mutant: the first frame only fades the element in
FrameInPlace(el) == IF el.frame = Nil THEN el ELSE [el EXCEPT !.frame = Nil]
(* The element's first frame starts the transition it was created for. *)
FirstFrame(el) == IF el.frame = Nil THEN el ELSE [el EXCEPT !.frame = Nil, !.goal = el.frame]

Frame ==
  /\ \E t \in Tokens : tokenEl[t].frame # Nil
  /\ tokenEl' = [t \in Tokens |-> FirstFrame(tokenEl[t])]
  /\ UNCHANGED <<control, pageVars, scene, fade, ghosts, active, lit, hurried>>

(* A transition starts, and ends at the slot it was started for. *)
Slid(el) ==
  IF el.style = Between THEN [el EXCEPT !.style = el.goal, !.goal = Nil]
  ELSE [el EXCEPT !.style = Between]

Slide(t) ==
  /\ tokenEl[t].goal # Nil
  /\ tokenEl' = [tokenEl EXCEPT ![t] = Slid(tokenEl[t])]
  /\ UNCHANGED <<control, pageVars, scene, fade, ghosts, active, lit, hurried>>

-----------------------------------------------------------------------------
(* The directive *)

Init ==
  /\ S!Init
  /\ page = "here" /\ chunk = "loading"
  /\ scene \in Scenes
  /\ fade = [e \in Elements |-> "gone"]
  /\ tokenEl = [t \in Tokens |-> NoElement]
  /\ ghosts = {} /\ active = {} /\ lit = {} /\ hurried = FALSE

(* The page may have been left while the chunk was in flight. *)
ChunkArrives ==
  /\ chunk = "loading"
  /\ chunk' = "loaded"
  /\ IF page = "here" THEN S!Start ELSE UNCHANGED control
  /\ UNCHANGED <<page, scene, picture>>

ChunkFails ==
  /\ chunk = "loading"
  /\ chunk' = "failed"
  /\ UNCHANGED <<control, page, scene, picture>>

(* The elements go with the page. *)
Leave ==
  /\ page = "here"
  /\ page' = "left"
  /\ IF S!Mounted THEN S!Destroy ELSE UNCHANGED control
  /\ fade' = [e \in Elements |-> "gone"]
  /\ tokenEl' = [t \in Tokens |-> NoElement]
  /\ ghosts' = {} /\ active' = {} /\ lit' = {} /\ hurried' = FALSE
  /\ UNCHANGED <<chunk, scene>>

Rendering == S!Renders /\ OnStep(stepIndex') /\ UNCHANGED <<pageVars, scene>>
Control == (S!PlayPauseClick \/ S!DoneFires) /\ UNCHANGED <<pageVars, scene, picture>>

Next ==
  \/ ChunkArrives \/ ChunkFails \/ Leave
  \/ Rendering \/ Control
  \/ Frame
  \/ \E e \in Elements : FadeEnds(e)
  \/ \E t \in Tokens : Slide(t)

Spec == Init /\ [][Next]_vars

(* setTimeout fires; frames are not promised to a tab nobody looks at. *)
Timers == WF_control(S!Tick) /\ WF_control(S!DoneFires)
FairSpec == Spec /\ Timers

-----------------------------------------------------------------------------
(* Properties *)

(* A playing figure has one callback due and it can be cancelled; one that *)
(* is paused or whose page was left, even before its code came, has none.  *)
(* The caption is of the step shown and the buttons say what a click does. *)
ControlsMatch ==
  /\ S!OneTimer /\ (page = "left" => pending = 0 /\ ~doneTimer)
  /\ S!CaptionIsOfStep /\ S!ButtonsMatch

(* From whatever step and however fast the reader came, what the step does  *)
(* not imply is at least on its way out, and the classes are those the step *)
(* asks for.  The ghosts are the exception: nothing takes them out, and     *)
(* only a reader faster than the animations gets to see one.                *)
OnlyGhostsStay ==
  /\ IF IsRow THEN \A t \in Tokens : tokenEl[t].live => At(stepIndex)[t] # Nil
     ELSE \A e \in Elements \ Drawn(stepIndex) : fade[e] \in {"gone", "leaving"}
  /\ page = "here" => lit = {p \in Highlights(stepIndex) : HasElement(tokenEl, p[1])}
  /\ ghosts # {} => IsRow /\ hurried

ShowsStep ==
  IF IsRow
  THEN /\ ghosts = {}
       /\ \A t \in Tokens : IF At(stepIndex)[t] = Nil THEN ~tokenEl[t].live
                            ELSE tokenEl[t].live /\ tokenEl[t].style = At(stepIndex)[t]
  ELSE fade = [e \in Elements |-> IF e \in Drawn(stepIndex) THEN "shown" ELSE "gone"]

(* A reader who lets every animation end before the next step comes sees   *)
(* exactly the figure the steps so far imply, forwards and backwards.      *)
PatientReaderSeesTheStep == page = "here" /\ AtRest /\ ~hurried => ShowsStep

(* What the scripts make of their scenes is right at every step.  The      *)
(* links of a drawn tree agree in both directions and every node is found  *)
(* from the root; a rotation keeps the order of the keys.  A swap exchanges *)
(* the tokens at the positions its command names, as long as no move or    *)
(* remove came before it.                                                  *)
TreeIsTree ==
  LET t == TreeAt(scene.steps, stepIndex)
      before == TreeAt(scene.steps, stepIndex - 1) IN
  /\ TreeDrawn(t) = t.in
  /\ \A p, c \in t.in : t.up[c] = p <=> \E s \in Sides : t.kid[s][p] = c
  /\ Step(stepIndex).op = "rotate" => InOrder(t) = InOrder(before)

SwapHitsItsPositions ==
  LET k == stepIndex + 1 - Len(Items)
      before == At(stepIndex - 1) IN
  k > 0 /\ (\A j \in 1 .. k : scene.cmds[j].op \in {"swap", "mark"}) /\ Step(stepIndex).op = "swap" =>
    <<before[Step(stepIndex).a], before[Step(stepIndex).b]>> = <<scene.cmds[k].i, scene.cmds[k].j>>

ScriptsAreRight ==
  /\ scene.kind = "tree" => TreeIsTree
  /\ IsRow => SwapHitsItsPositions

(* A figure that plays comes to its end or is stopped, unless the reader   *)
(* restarts it for ever.                                                   *)
PlaysToTheEnd == []<><<S!ReplayClick>>_control \/ (isPlaying ~> ~isPlaying)
=============================================================================
