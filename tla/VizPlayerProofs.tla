--------------------------- MODULE VizPlayerProofs ---------------------------
(***************************************************************************)
(* For figures of any length and scenes of any kind, tokens and nodes.     *)
(*                                                                         *)
(* The controls: a playing figure has exactly one callback due and can     *)
(* cancel it, one that is paused or whose page was left has none, and its  *)
(* caption and buttons are its step's.  Every action but five leaves the   *)
(* controls alone.  Of those five each first cancels what is due (Pause)   *)
(* or is itself the one callback due.                                      *)
(*                                                                         *)
(* The picture: nothing stays that the step does not imply, and who lets   *)
(* the animations end sees what it does.  What is yet to move on the       *)
(* screen leads there, unless a step came meanwhile (hurried).             *)
(*                                                                         *)
(* The scripts: replaying a row's script follows the array that wrote it,  *)
(* and every step of a tree's script leaves a tree.  Both are folds, which *)
(* are reasoned about by the results they pass through (Runs).             *)
(***************************************************************************)
EXTENDS VizPlayer, TLAPS, NaturalsInduction, WellFoundedInduction

Numbers == stepIndex \in -1 .. LastIndex /\ pending \in Int
Flags == isPlaying \in BOOLEAN /\ playTimer \in BOOLEAN /\ doneTimer \in BOOLEAN
Typed == Numbers /\ Flags

LeftIsOff == page = "left" => life # "mounted"

Inv == Typed /\ LeftIsOff /\ ControlsMatch

(* What the invariant says of the controls alone. *)
Timed ==
  /\ pending = (IF isPlaying THEN 1 ELSE 0)
  /\ playTimer = isPlaying
  /\ isPlaying => life = "mounted" /\ stepIndex < LastIndex
  /\ doneTimer => life = "mounted" /\ stepIndex = LastIndex
Told ==
  /\ caption = stepIndex \/ (caption = LastIndex + 1 /\ stepIndex = LastIndex)
  /\ life = "mounted" => buttons = S!ButtonsFor(stepIndex, isPlaying)
Controls == Typed /\ Timed /\ Told

LEMMA InvIsControls == Inv <=> Controls /\ LeftIsOff
  BY DEF Inv, Controls, Typed, Numbers, Flags, Timed, Told, LeftIsOff, ControlsMatch, S!OneTimer, S!CaptionIsOfStep,
     S!ButtonsMatch, S!Mounted, S!Done

LEMMA InitControls == Init => Inv
<1> SUFFICES ASSUME Init PROVE Controls /\ LeftIsOff
  BY InvIsControls
<1>a. Numbers /\ LeftIsOff
  BY LastIndexAssumption DEF Init, S!Init, Numbers, LeftIsOff
<1>b. Flags
  BY Zenon DEF Init, S!Init, Flags
<1>1. Typed /\ LeftIsOff
  BY <1>a, <1>b DEF Typed
<1>2. Timed
  <2>1. isPlaying = FALSE /\ playTimer = FALSE /\ doneTimer = FALSE /\ pending = 0
    BY DEF Init, S!Init
  <2> QED
    BY <2>1 DEF Timed
<1>3. Told
  BY DEF Init, S!Init, Told
<1> QED
  BY <1>1, <1>2, <1>3 DEF Controls

-----------------------------------------------------------------------------
(* The actions of the controls *)

(* Whatever is due can be cancelled. *)
LEMMA AllReachable ==
  ASSUME Controls
  PROVE  pending = S!Cancelled /\ pending \in {0, 1} /\ (pending = 1 <=> playTimer = TRUE)
<1>1. isPlaying = playTimer /\ playTimer \in BOOLEAN /\ pending = (IF isPlaying THEN 1 ELSE 0)
  BY DEF Controls, Typed, Numbers, Flags, Timed
<1>2. CASE playTimer = TRUE
  BY <1>1, <1>2 DEF S!Cancelled, S!Reachable
<1>3. CASE playTimer = FALSE
  BY <1>1, <1>3 DEF S!Cancelled, S!Reachable
<1> QED
  BY <1>1, <1>2, <1>3

(* Showing step i arms the closing caption at the last step only. *)
LEMMA RenderArms ==
  ASSUME NEW i, S!RenderAt(i)
  PROVE  doneTimer' \in BOOLEAN /\ (doneTimer' => i = LastIndex)
<1>1. doneTimer' = (i = LastIndex)
  BY DEF S!RenderAt, S!DoneTimerAt
<1> QED
  BY <1>1

LEMMA PlayKeeps ==
  ASSUME Controls, S!PlayFromStart, life' = "mounted"
  PROVE  Controls'
<1> DEFINE plays == LastIndex > -1
<1>0. /\ isPlaying' = plays /\ playTimer' = plays
      /\ pending' = pending - S!Cancelled + (IF plays THEN 1 ELSE 0)
      /\ S!RenderAt(-1)
  BY DEF S!PlayFromStart
<1>a. stepIndex' = -1 /\ doneTimer' \in BOOLEAN /\ (doneTimer' => stepIndex' = LastIndex)
  BY <1>0, RenderArms DEF S!RenderAt
<1>b. ASSUME plays PROVE Typed' /\ Timed'
  <2>1. isPlaying' = TRUE /\ playTimer' = TRUE
    BY <1>0, <1>b, Zenon
  <2>2. pending' = 1
    BY <1>0, <1>b, AllReachable, SMT
  <2> HIDE DEF plays
  <2>3. stepIndex' < LastIndex
    BY <1>a, <1>b DEF plays
  <2>4. Numbers'
    BY <1>a, <2>2, LastIndexAssumption DEF Numbers
  <2>5. Flags'
    BY <1>a, <2>1, Zenon DEF Flags
  <2>6. Timed'
    BY <1>a, <2>1, <2>2, <2>3 DEF Timed
  <2> QED
    BY <2>4, <2>5, <2>6 DEF Typed
<1>c. ASSUME ~plays PROVE Typed' /\ Timed'
  <2>1. plays \in BOOLEAN
    OBVIOUS
  <2>2. pending' = 0
    BY <1>0, <1>c, AllReachable, SMT
  <2> HIDE DEF plays
  <2>3. isPlaying' = FALSE /\ playTimer' = FALSE
    BY <1>0, <1>c, <2>1, Zenon
  <2>4. Numbers'
    BY <1>a, <2>2, LastIndexAssumption DEF Numbers
  <2>5. Flags'
    BY <1>a, <2>3, Zenon DEF Flags
  <2>6. Timed'
    BY <1>a, <2>3, <2>2 DEF Timed
  <2> QED
    BY <2>4, <2>5, <2>6 DEF Typed
<1>1. Typed' /\ Timed'
  BY <1>b, <1>c
<1>2. Told'
  BY LastIndexAssumption DEF Controls, Typed, Numbers, Flags, Told, S!PlayFromStart, S!RenderAt, S!ButtonsFor
<1> QED
  BY <1>1, <1>2 DEF Controls

LEMMA PauseAtKeeps ==
  ASSUME Controls, NEW i \in -1 .. LastIndex, S!PauseAt(i), life = "mounted", life' = life
  PROVE  Controls'
<1>0. stepIndex' = i /\ doneTimer' \in BOOLEAN /\ (doneTimer' => stepIndex' = LastIndex)
  BY RenderArms DEF S!PauseAt, S!RenderAt
<1>a. isPlaying' = FALSE /\ playTimer' = FALSE /\ pending' = 0
  BY AllReachable DEF S!PauseAt, S!Pause
<1>b. Numbers'
  BY <1>0, <1>a DEF Numbers
<1>c. Flags'
  BY <1>0, <1>a, Zenon DEF Flags
<1>d. Timed'
  BY <1>0, <1>a DEF Timed
<1>1. Typed' /\ Timed'
  BY <1>b, <1>c, <1>d DEF Typed
<1>2. Told'
  BY LastIndexAssumption DEF Controls, Typed, Numbers, Flags, Told, S!PauseAt, S!Pause, S!RenderAt, S!ButtonsFor
<1> QED
  BY <1>1, <1>2 DEF Controls

(* There is no stray callback, so the one that fires is the one due. *)
LEMMA TickKeeps ==
  ASSUME Controls, S!Tick
  PROVE  Controls' /\ life' = life
<1>1. PICK own \in BOOLEAN :
        /\ IF own THEN playTimer ELSE pending > S!Reachable
        /\ S!RenderAt(stepIndex + 1)
        /\ isPlaying' = S!StillPlaying(stepIndex + 1 >= LastIndex)
        /\ playTimer' = (~(stepIndex + 1 >= LastIndex) \/ (playTimer /\ ~own))
        /\ pending' = (IF stepIndex + 1 >= LastIndex THEN pending - 1 ELSE pending)
        /\ buttons' = S!ButtonsAfter(stepIndex + 1)
        /\ UNCHANGED life
  BY DEF S!Tick
<1>2. own = TRUE
  BY <1>1 DEF Controls, Typed, Numbers, Flags, Timed, S!Reachable
<1>3. isPlaying = TRUE /\ life = "mounted" /\ stepIndex < LastIndex /\ pending = 1
  BY <1>1, <1>2 DEF Controls, Typed, Numbers, Flags, Timed
<1>4. stepIndex' = stepIndex + 1 /\ caption' = stepIndex + 1 /\ doneTimer' = (stepIndex + 1 = LastIndex)
  BY <1>1 DEF S!RenderAt, S!DoneTimerAt
<1>5. isPlaying' = (stepIndex + 1 < LastIndex)
  BY <1>1, <1>3, LastIndexAssumption DEF S!StillPlaying, Controls, Typed, Numbers, Flags
<1>a. stepIndex \in -1 .. LastIndex
  BY DEF Controls, Typed, Numbers, Flags
<1>b. doneTimer' \in BOOLEAN /\ (doneTimer' => stepIndex' = LastIndex)
  BY <1>1, <1>4, RenderArms
<1>6. Typed' /\ Timed'
  <2>1. CASE stepIndex + 1 >= LastIndex
    <3>1. isPlaying' = FALSE
      BY <1>1, <1>3, <2>1, Zenon DEF S!StillPlaying
    <3>2. playTimer' = FALSE
      BY <1>1, <1>2, <2>1, Zenon
    <3>3. pending' = 0
      BY <1>1, <1>3, <2>1
    <3>4. Numbers'
      BY <1>3, <1>4, <1>a, <3>3, LastIndexAssumption DEF Numbers
    <3>5. Flags'
      BY <1>b, <3>1, <3>2, Zenon DEF Flags
    <3>6. Timed'
      BY <1>1, <1>3, <1>b, <3>1, <3>2, <3>3 DEF Timed
    <3> QED
      BY <3>4, <3>5, <3>6 DEF Typed
  <2>2. CASE ~(stepIndex + 1 >= LastIndex)
    <3>1. isPlaying' = TRUE
      BY <1>1, <1>3, <2>2, Zenon DEF S!StillPlaying
    <3>2. playTimer' = TRUE
      BY <1>1, <2>2, Zenon
    <3>3. pending' = 1
      BY <1>1, <1>3, <2>2
    <3>4. Numbers'
      BY <1>3, <1>4, <1>a, <3>3, LastIndexAssumption DEF Numbers
    <3>5. Flags'
      BY <1>b, <3>1, <3>2, Zenon DEF Flags
    <3>6. Timed'
      <4>1. stepIndex' < LastIndex
        BY <1>4, <1>a, <2>2, LastIndexAssumption
      <4> QED
        BY <1>1, <1>3, <1>b, <4>1, <3>1, <3>2, <3>3 DEF Timed
    <3> QED
      BY <3>4, <3>5, <3>6 DEF Typed
  <2> QED
    BY <2>1, <2>2
<1>7. Told'
  <2>1. buttons' = S!ButtonsFor(stepIndex', isPlaying /\ stepIndex' < LastIndex)
    BY <1>1, <1>4 DEF S!ButtonsAfter
  <2>2. (isPlaying /\ stepIndex' < LastIndex) = isPlaying'
    BY <1>3, <1>4, <1>5
  <2> QED
    BY <1>4, <2>1, <2>2, Zenon DEF Told, S!ButtonsFor
<1> QED
  BY <1>1, <1>6, <1>7 DEF Controls

LEMMA RendersKeep ==
  ASSUME Controls, S!Renders
  PROVE  Controls' /\ life' = life
<1>1. CASE S!PrevClick
  <2>1. stepIndex - 1 \in -1 .. LastIndex
    BY <1>1, LastIndexAssumption DEF S!PrevClick, Controls, Typed, Numbers, Flags
  <2> QED
    BY <1>1, <2>1, PauseAtKeeps DEF S!PrevClick, S!Mounted
<1>2. CASE S!NextClick
  <2>1. stepIndex + 1 \in -1 .. LastIndex
    BY <1>2, LastIndexAssumption DEF S!NextClick, Controls, Typed, Numbers, Flags
  <2> QED
    BY <1>2, <2>1, PauseAtKeeps DEF S!NextClick, S!Mounted
<1>3. CASE S!ReplayClick
  BY <1>3, PlayKeeps DEF S!ReplayClick, S!Mounted
<1>4. CASE S!Tick
  BY <1>4, TickKeeps
<1> QED
  BY <1>1, <1>2, <1>3, <1>4 DEF S!Renders

LEMMA ControlKeeps ==
  ASSUME Controls, Control
  PROVE  Controls' /\ life' = life
<1>1. CASE S!PlayPauseClick
  <2>1. Typed' /\ Timed'
    <3>0. /\ stepIndex' = stepIndex /\ doneTimer' = doneTimer /\ life' = "mounted" /\ life = "mounted"
          /\ stepIndex \in -1 .. LastIndex /\ doneTimer \in BOOLEAN
          /\ doneTimer => stepIndex = LastIndex
      BY <1>1 DEF S!PlayPauseClick, S!Mounted, Controls, Typed, Numbers, Flags, Timed
    <3>1. CASE isPlaying = TRUE
      <4>1. isPlaying' = FALSE /\ playTimer' = FALSE /\ pending' = 0
        BY <1>1, <3>1, AllReachable DEF S!PlayPauseClick, S!Pause
      <4>2. Numbers'
        BY <3>0, <4>1 DEF Numbers
      <4>3. Flags'
        BY <3>0, <4>1, Zenon DEF Flags
      <4>4. Timed'
        BY <3>0, <4>1 DEF Timed
      <4> QED
        BY <4>2, <4>3, <4>4 DEF Typed
    <3>2. CASE isPlaying = FALSE
      <4>1. isPlaying' = TRUE /\ playTimer' = TRUE /\ pending' = 1 /\ stepIndex < LastIndex
        BY <1>1, <3>2, AllReachable DEF S!PlayPauseClick, Controls, Timed
      <4>2. Numbers'
        BY <3>0, <4>1 DEF Numbers
      <4>3. Flags'
        BY <3>0, <4>1, Zenon DEF Flags
      <4>4. Timed'
        BY <3>0, <4>1 DEF Timed
      <4> QED
        BY <4>2, <4>3, <4>4 DEF Typed
    <3> QED
      BY <3>1, <3>2 DEF Controls, Typed, Numbers, Flags
  <2>2. Told'
    BY <1>1 DEF Controls, Told, S!PlayPauseClick, S!ButtonsFor
  <2> QED
    BY <1>1, <2>1, <2>2 DEF Controls, S!PlayPauseClick
<1>2. CASE S!DoneFires
  <2>1. Typed' /\ Timed' /\ life' = life
    BY <1>2 DEF Controls, Typed, Numbers, Flags, Timed, S!DoneFires
  <2>2. Told'
    BY <1>2 DEF Controls, Typed, Numbers, Flags, Timed, Told, S!DoneFires, S!Done, S!ButtonsFor
  <2> QED
    BY <2>1, <2>2 DEF Controls
<1> QED
  BY <1>1, <1>2 DEF Control

(* A figure that goes with its page takes both its timers along. *)
LEMMA DestroyKeeps ==
  ASSUME Controls, S!Destroy
  PROVE  Controls' /\ life' = "destroyed"
<1>0. /\ isPlaying' = FALSE /\ playTimer' = FALSE /\ doneTimer' = FALSE /\ pending' = 0
      /\ stepIndex' = stepIndex /\ life' = "destroyed"
  BY AllReachable DEF S!Destroy, S!Pause
<1>a. Numbers'
  BY <1>0 DEF Controls, Typed, Numbers
<1>b. Flags'
  BY <1>0, Zenon DEF Flags
<1>c. Timed'
  BY <1>0 DEF Timed
<1>1. Typed' /\ Timed' /\ life' = "destroyed"
  BY <1>0, <1>a, <1>b, <1>c DEF Typed
<1>2. Told'
  BY <1>1 DEF Controls, Told, S!Destroy
<1> QED
  BY <1>1, <1>2 DEF Controls

-----------------------------------------------------------------------------

LEMMA SameControls ==
  ASSUME Controls, UNCHANGED control
  PROVE  Controls' /\ life' = life
  BY DEF Controls, Typed, Numbers, Flags, Timed, Told, control, S!ButtonsFor

LEMMA NextKeeps ==
  ASSUME Controls /\ LeftIsOff, [Next]_vars
  PROVE  Controls' /\ LeftIsOff'
<1>1. CASE ChunkArrives
  <2>1. CASE page = "here"
    <3>1. life' = "mounted" /\ page' = "here" /\ S!PlayFromStart
      BY <1>1, <2>1 DEF ChunkArrives, S!Start
    <3> QED
      BY <3>1, PlayKeeps DEF LeftIsOff
  <2>2. CASE page # "here"
    BY <1>1, <2>2, SameControls DEF ChunkArrives, LeftIsOff
  <2> QED
    BY <2>1, <2>2
<1>2. CASE ChunkFails
  BY <1>2, SameControls DEF ChunkFails, LeftIsOff
<1>3. CASE Leave
  <2>1. CASE S!Mounted
    BY <1>3, <2>1, DestroyKeeps DEF Leave, LeftIsOff
  <2>2. CASE ~S!Mounted
    BY <1>3, <2>2, SameControls DEF Leave, LeftIsOff, S!Mounted
  <2> QED
    BY <2>1, <2>2
<1>4. CASE Rendering
  BY <1>4, RendersKeep DEF Rendering, pageVars, LeftIsOff
<1>5. CASE Control
  BY <1>5, ControlKeeps DEF Control, pageVars, LeftIsOff
<1>6. CASE Frame
  BY <1>6, SameControls DEF Frame, pageVars, LeftIsOff
<1>7. ASSUME NEW e \in Elements, FadeEnds(e)
      PROVE  Controls' /\ LeftIsOff'
  BY <1>7, SameControls DEF FadeEnds, pageVars, LeftIsOff
<1>8. ASSUME NEW t \in Tokens, Slide(t)
      PROVE  Controls' /\ LeftIsOff'
  BY <1>8, SameControls DEF Slide, pageVars, LeftIsOff
<1>9. CASE UNCHANGED vars
  BY <1>9, SameControls DEF vars, pageVars, LeftIsOff
<1> QED
  BY <1>1, <1>2, <1>3, <1>4, <1>5, <1>6, <1>7, <1>8, <1>9 DEF Next

(* The inductive invariant: the controls agree with one another, and a     *)
(* figure whose page was left is not mounted.                              *)
THEOREM InvHolds == Spec => []Inv
<1>1. Init => Inv
  BY InitControls
<1>2. Inv /\ [Next]_vars => Inv'
  <2> SUFFICES ASSUME Inv, [Next]_vars PROVE Inv'
    OBVIOUS
  <2>1. Controls' /\ LeftIsOff'
    BY InvIsControls, NextKeeps
  <2> QED
    BY <2>1 DEF Inv, Controls, Typed, Numbers, Flags, Timed, Told, LeftIsOff, ControlsMatch, S!OneTimer, S!CaptionIsOfStep,
       S!ButtonsMatch, S!Mounted, S!Done
<1> QED
  BY <1>1, <1>2, PTL DEF Spec

(* Whatever is clicked, however the timers fire and whenever the page is   *)
(* left: one callback is due or none, caption and buttons are the step's.  *)
THEOREM ControlsHold == Spec => []ControlsMatch
<1>1. Inv => ControlsMatch
  BY DEF Inv
<1> QED
  BY <1>1, InvHolds, PTL

-----------------------------------------------------------------------------
(* The picture *)

Whole(el) == el = [live |-> el.live, frame |-> el.frame, style |-> el.style, goal |-> el.goal]

Pictured ==
  /\ fade = [e \in Elements |-> fade[e]]
  /\ tokenEl = [t \in Tokens |-> tokenEl[t]]
  /\ \A t \in Tokens : Whole(tokenEl[t])

EmptyUntilMounted == life = "unmounted" => stepIndex = -1
LitIsActive == lit \subseteq active

(* An element that was never disturbed is at its slot, on its way there or *)
(* waits for the frame that will send it there.                            *)
Toward(el, slot) ==
  IF slot = Nil THEN el = NoElement
  ELSE /\ el.live
       /\ \/ el.frame = slot /\ el.goal = Nil
          \/ el.frame = Nil /\ el.goal = slot
          \/ el.frame = Nil /\ el.goal = Nil /\ el.style = slot

Undisturbed ==
  page = "here" /\ ~hurried =>
    IF IsRow THEN \A t \in Tokens : Toward(tokenEl[t], At(stepIndex)[t])
    ELSE \A e \in Elements : IF e \in Drawn(stepIndex) THEN fade[e] \in {"entering", "shown"}
                             ELSE fade[e] \in {"leaving", "gone"}

PictureInv == Pictured /\ EmptyUntilMounted /\ LitIsActive /\ OnlyGhostsStay /\ Undisturbed

(* Before its first step a figure is empty: nothing is replayed. *)
LEMMA NothingReplayed ==
  ASSUME NEW Op(_, _), NEW base, NEW steps
  PROVE  FoldLeft(Op, base, Prefix(steps, -1)) = base
<1> DEFINE Body(g, s) == IF s = {} THEN base ELSE Op(g[s \ {Max(s)}], Prefix(steps, -1)[Max(s)])
           h == CHOOSE g : g = [s \in SUBSET {} |-> Body(g, s)]
<1>1. DOMAIN Prefix(steps, -1) = {}
  BY DEF Prefix
<1>2. FoldLeft(Op, base, Prefix(steps, -1)) = h[{}]
  BY <1>1 DEF FoldLeft, MapThenFoldSet
<1>3. h = [s \in SUBSET {} |-> Body(h, s)]
  <2> DEFINE g == [s \in SUBSET {} |-> base]
  <2>1. g = [s \in SUBSET {} |-> Body(g, s)]
    OBVIOUS
  <2> HIDE DEF g, Body
  <2> QED BY <2>1
<1> HIDE DEF h
<1> QED BY <1>2, <1>3

LEMMA EmptyFigure ==
  /\ \A t \in Tokens : At(-1)[t] = Nil
  /\ Drawn(-1) = {}
<1>1. \A t \in Tokens : At(-1)[t] = Nil
  BY NothingReplayed DEF At, TokensAt
<1>2. TreeDrawn(TreeAt(scene.steps, -1)) = {}
  <2>1. TreeAt(scene.steps, -1) = EmptyTree
    BY NothingReplayed DEF TreeAt
  <2> DEFINE kid(side, n) == EmptyTree.kid[side][n]
             Body(g, n) == IF n = Nil THEN <<>> ELSE g[kid("left", n)] \o <<n>> \o g[kid("right", n)]
             h == CHOOSE g : g = [n \in Nodes \cup {Nil} |-> Body(g, n)]
  <2>2. InOrder(EmptyTree) = h[Nil]
    BY DEF InOrder, EmptyTree
  <2>3. h = [n \in Nodes \cup {Nil} |-> Body(h, n)]
    <3> DEFINE g == [n \in Nodes \cup {Nil} |-> IF n = Nil THEN <<>> ELSE <<>> \o <<n>> \o <<>>]
    <3>1. g[Nil] = <<>> /\ \A n \in Nodes : kid("left", n) = Nil /\ kid("right", n) = Nil
      BY DEF EmptyTree, Sides
    <3>2. g = [n \in Nodes \cup {Nil} |-> Body(g, n)]
      <4> HIDE DEF kid
      <4> QED BY <3>1
    <3> HIDE DEF g, Body
    <3> QED BY <3>2
  <2> HIDE DEF h
  <2>4. InOrder(EmptyTree) = <<>>
    BY <2>2, <2>3
  <2> QED BY <2>1, <2>4 DEF TreeDrawn, ToSet
<1>3. BTreeDrawn(BTreeAt(scene.steps, -1)) = {}
  <2>1. BTreeAt(scene.steps, -1) = EmptyBTree
    BY NothingReplayed DEF BTreeAt
  <2>2. FirstRoot(EmptyBTree) = 0
    <3>1. 1 .. Len(EmptyBTree.order) = {}
      BY DEF EmptyBTree
    <3> QED BY <3>1 DEF FirstRoot, SelectInSeq
  <2> QED BY <2>1, <2>2 DEF BTreeDrawn
<1>4. Drawn(-1) = {}
  <2>1. CASE scene.kind = "grid"
    <3>1. \A s \in Slots : s # Nil
      BY NilAssumption DEF Slots
    <3>2. \A e \in Elements : ~ (e[1] = "token" /\ At(-1)[e[3]] = e[2])
      BY <1>1, <3>1 DEF Elements
    <3> QED BY <2>1, <3>2 DEF Drawn
  <2>2. CASE scene.kind = "tree"
    BY <1>2, <2>2 DEF Drawn, TreeElements
  <2>3. CASE scene.kind = "btree"
    BY <1>3, <2>3 DEF Drawn, TreeElements
  <2>4. CASE scene.kind \notin {"grid", "tree", "btree"}
    BY <2>4 DEF Drawn
  <2> QED BY <2>1, <2>2, <2>3, <2>4
<1> QED BY <1>1, <1>4

(* The script never changes. *)
LEMMA SameScene ==
  ASSUME UNCHANGED scene
  PROVE  /\ IsRow' = IsRow
         /\ At(stepIndex)' = At(stepIndex')
         /\ Drawn(stepIndex)' = Drawn(stepIndex')
         /\ Highlights(stepIndex)' = Highlights(stepIndex')
<1>1. IsRow' = IsRow
  BY DEF IsRow
<1>2. At(stepIndex)' = At(stepIndex')
  BY DEF At
<1>3. Drawn(stepIndex)' = Drawn(stepIndex')
  BY <1>2 DEF Drawn, At
<1>4. Step(stepIndex)' = Step(stepIndex') /\ Pivots(stepIndex)' = Pivots(stepIndex')
  BY DEF Step, Pivots
<1>5. Pivot(stepIndex)' = Pivot(stepIndex')
  BY <1>2, <1>4 DEF Pivot, SelectInSeq, At
<1>6. Highlights(stepIndex)' = Highlights(stepIndex')
  BY <1>1, <1>4, <1>5 DEF Highlights
<1> QED BY <1>1, <1>2, <1>3, <1>6

LEMMA InitPicture == Init => PictureInv
<1> SUFFICES ASSUME Init PROVE PictureInv
  OBVIOUS
<1>1. /\ fade = [e \in Elements |-> "gone"] /\ tokenEl = [t \in Tokens |-> NoElement]
      /\ ghosts = {} /\ active = {} /\ lit = {} /\ stepIndex = -1
  BY DEF Init, S!Init
<1>2. Pictured
  BY <1>1 DEF Pictured, Whole, NoElement
<1>3. EmptyUntilMounted /\ LitIsActive
  BY <1>1 DEF EmptyUntilMounted, LitIsActive
<1>4. \A x : ~HasElement(tokenEl, x)
  BY <1>1 DEF HasElement, NoElement
<1>5. OnlyGhostsStay
  BY <1>1, <1>4 DEF OnlyGhostsStay, NoElement
<1>6. Undisturbed
  BY <1>1, EmptyFigure DEF Undisturbed, Toward
<1> QED BY <1>2, <1>3, <1>5, <1>6 DEF PictureInv

(* At rest, an undisturbed figure is the one the step implies. *)
LEMMA RestShows ==
  ASSUME PictureInv, page = "here", AtRest, ~hurried
  PROVE  ShowsStep
<1>1. CASE IsRow
  <2>1. ghosts = {} /\ \A t \in Tokens : Toward(tokenEl[t], At(stepIndex)[t])
    BY <1>1 DEF PictureInv, Undisturbed, OnlyGhostsStay
  <2>2. ASSUME NEW t \in Tokens
        PROVE  IF At(stepIndex)[t] = Nil THEN ~tokenEl[t].live
               ELSE tokenEl[t].live /\ tokenEl[t].style = At(stepIndex)[t]
    <3>1. tokenEl[t].frame = Nil /\ tokenEl[t].goal = Nil
      BY DEF AtRest
    <3> QED BY <2>1, <3>1 DEF Toward, NoElement
  <2> QED BY <1>1, <2>1, <2>2 DEF ShowsStep
<1>2. CASE ~IsRow
  <2>1. ASSUME NEW e \in Elements
        PROVE  fade[e] = IF e \in Drawn(stepIndex) THEN "shown" ELSE "gone"
    BY <1>2 DEF PictureInv, Undisturbed, AtRest
  <2>2. fade = [e \in Elements |-> fade[e]]
    BY DEF PictureInv, Pictured
  <2>3. fade = [e \in Elements |-> IF e \in Drawn(stepIndex) THEN "shown" ELSE "gone"]
    BY <2>1, <2>2
  <2> QED BY <1>2, <2>3 DEF ShowsStep
<1> QED BY <1>1, <1>2

(* An element that is sent to a slot from rest goes there. *)
LEMMA RowElementGoes ==
  ASSUME NEW el, NEW slot, Whole(el)
  PROVE  /\ Whole(RowElement(el, slot))
         /\ slot = Nil => ~RowElement(el, slot).live
         /\ (IF el.live THEN el.frame = Nil /\ el.goal = Nil ELSE TRUE) => Toward(RowElement(el, slot), slot)
<1>1. CASE slot = Nil
  BY <1>1 DEF RowElement, Whole, NoElement, Toward
<1>2. CASE slot # Nil /\ ~el.live
  BY <1>2 DEF RowElement, Whole, NoElement, Toward
<1>3. CASE slot # Nil /\ el.live
  <2>1. RowElement(el, slot) = IF el.style = slot THEN el ELSE [el EXCEPT !.goal = slot]
    BY <1>3 DEF RowElement
  <2>2. [el EXCEPT !.goal = slot] = [live |-> el.live, frame |-> el.frame, style |-> el.style, goal |-> slot]
    BY DEF Whole
  <2> QED BY <1>3, <2>1, <2>2 DEF Whole, Toward
<1> QED BY <1>1, <1>2, <1>3

LEMMA RenderKeeps ==
  ASSUME PictureInv, OnStep(stepIndex'), UNCHANGED <<page, scene>>, EmptyUntilMounted'
  PROVE  PictureInv'
<1>0. /\ IsRow' = IsRow
      /\ At(stepIndex)' = At(stepIndex') /\ Drawn(stepIndex)' = Drawn(stepIndex')
      /\ Highlights(stepIndex)' = Highlights(stepIndex')
  BY SameScene
<1>1. IF IsRow THEN RowJoin(At(stepIndex')) /\ UNCHANGED fade
      ELSE Join(Drawn(stepIndex')) /\ UNCHANGED <<tokenEl, ghosts>>
  BY DEF OnStep
<1>2. Sync(Highlights(stepIndex')) /\ hurried' = (hurried \/ ~AtRest)
  BY DEF OnStep
<1>3. \A t \in Tokens : Whole(tokenEl[t])
  BY DEF PictureInv, Pictured
<1>4. IsRow => \A t \in Tokens : tokenEl'[t] = RowElement(tokenEl[t], At(stepIndex')[t])
  BY <1>1 DEF RowJoin
<1>5. ~IsRow => \A e \in Elements :
        fade'[e] = IF e \in Drawn(stepIndex') THEN IF fade[e] = "gone" THEN "entering" ELSE Stays(fade[e])
                   ELSE IF fade[e] = "gone" THEN "gone" ELSE "leaving"
  BY <1>1 DEF Join
<1>6. Pictured'
  <2>1. CASE IsRow
    <3>1. tokenEl' = [t \in Tokens |-> RowElement(tokenEl[t], At(stepIndex')[t])] /\ fade' = fade
      BY <1>1, <2>1 DEF RowJoin
    <3>2. \A t \in Tokens : Whole(tokenEl'[t])
      BY <1>3, <1>4, <2>1, RowElementGoes
    <3> QED BY <3>1, <3>2 DEF PictureInv, Pictured
  <2>2. CASE ~IsRow
    BY <1>1, <2>2 DEF PictureInv, Pictured, Join, Whole
  <2> QED BY <2>1, <2>2
<1>7. LitIsActive'
  BY <1>2 DEF PictureInv, LitIsActive, Sync
<1>8. OnlyGhostsStay'
  <2>1. IF IsRow THEN \A t \in Tokens : tokenEl'[t].live => At(stepIndex')[t] # Nil
        ELSE \A e \in Elements \ Drawn(stepIndex') : fade'[e] \in {"gone", "leaving"}
    BY <1>3, <1>4, <1>5, RowElementGoes
  <2>2. lit' = {p \in Highlights(stepIndex') : HasElement(tokenEl', p[1])}
    BY <1>2 DEF PictureInv, LitIsActive, Sync
  <2>3. ghosts' # {} => IsRow /\ hurried'
    <3>1. CASE UNCHANGED ghosts
      BY <1>2, <3>1 DEF PictureInv, OnlyGhostsStay
    <3>2. CASE IsRow
      <4>1. ghosts' = ghosts \cup {t \in Tokens : At(stepIndex')[t] = Nil /\ tokenEl[t].frame # Nil}
        BY <1>1, <3>2 DEF RowJoin
      <4>2. ghosts = {} /\ AtRest => ghosts' = {}
        BY <4>1 DEF AtRest
      <4> QED BY <1>2, <3>2, <4>2, Zenon DEF PictureInv, OnlyGhostsStay
    <3> QED BY <1>1, <3>1, <3>2
  <2> QED BY <1>0, <2>1, <2>2, <2>3 DEF OnlyGhostsStay, HasElement
<1>9. Undisturbed'
  <2> SUFFICES ASSUME page = "here", ~hurried'
               PROVE  IF IsRow THEN \A t \in Tokens : Toward(tokenEl'[t], At(stepIndex')[t])
                      ELSE \A e \in Elements : IF e \in Drawn(stepIndex') THEN fade'[e] \in {"entering", "shown"}
                                               ELSE fade'[e] \in {"leaving", "gone"}
    BY <1>0 DEF Undisturbed, Toward, NoElement
  <2>1. AtRest /\ ~hurried
    BY <1>2, Zenon
  <2>2. ShowsStep
    BY <2>1, RestShows
  <2>3. CASE IsRow
    <3>1. \A t \in Tokens : tokenEl[t].frame = Nil /\ tokenEl[t].goal = Nil
      BY <2>1 DEF AtRest
    <3>2. \A t \in Tokens : Toward(tokenEl'[t], At(stepIndex')[t])
      BY <1>3, <1>4, <2>2, <2>3, <3>1, RowElementGoes DEF ShowsStep
    <3> QED BY <2>3, <3>2
  <2>4. CASE ~IsRow
    <3>1. \A e \in Elements : fade[e] \in {"shown", "gone"}
      BY <2>2, <2>4 DEF ShowsStep
    <3>2. Stays("shown") = "shown"
      BY DEF Stays
    <3> QED BY <1>5, <2>4, <3>1, <3>2
  <2> QED BY <2>3, <2>4
<1> QED BY <1>6, <1>7, <1>8, <1>9 DEF PictureInv

(* Nothing is rendered once the figure has gone, or before it came. *)
LEMMA RendersMounted ==
  ASSUME Controls, S!Renders
  PROVE  life = "mounted"
BY DEF Controls, Typed, Numbers, Timed, S!Renders, S!PrevClick, S!NextClick, S!ReplayClick, S!Mounted,
       S!Tick, S!Reachable

(* While the figure stays as it is, so do the elements it implies. *)
LEMMA SamePicture ==
  ASSUME PictureInv, UNCHANGED <<page, scene, picture>>, stepIndex' = stepIndex, EmptyUntilMounted'
  PROVE  PictureInv'
<1>1. /\ IsRow' = IsRow /\ At(stepIndex)' = At(stepIndex) /\ Drawn(stepIndex)' = Drawn(stepIndex)
      /\ Highlights(stepIndex)' = Highlights(stepIndex)
  BY SameScene
<1>2. Pictured' /\ LitIsActive'
  BY DEF PictureInv, Pictured, LitIsActive, Whole, picture
<1>3. OnlyGhostsStay'
  BY <1>1 DEF PictureInv, OnlyGhostsStay, HasElement, picture
<1>4. Undisturbed'
  BY <1>1 DEF PictureInv, Undisturbed, Toward, NoElement, picture
<1> QED BY <1>2, <1>3, <1>4 DEF PictureInv

LEMMA SameControl ==
  ASSUME UNCHANGED control, EmptyUntilMounted
  PROVE  EmptyUntilMounted' /\ stepIndex' = stepIndex
BY DEF control, EmptyUntilMounted

(* Frames and transitions change neither which elements there are nor      *)
(* where each of them is bound.                                            *)
LEMMA MovesKeep ==
  ASSUME PictureInv, UNCHANGED <<control, page, scene, fade, ghosts, active, lit, hurried>>,
         tokenEl' = [t \in Tokens |-> tokenEl'[t]],
         \A t \in Tokens : /\ Whole(tokenEl'[t]) /\ tokenEl'[t].live = tokenEl[t].live
                           /\ \A slot : Toward(tokenEl[t], slot) => Toward(tokenEl'[t], slot)
  PROVE  PictureInv'
<1>0. EmptyUntilMounted' /\ stepIndex' = stepIndex
  BY SameControl DEF PictureInv
<1>1. /\ IsRow' = IsRow /\ At(stepIndex)' = At(stepIndex) /\ Drawn(stepIndex)' = Drawn(stepIndex)
      /\ Highlights(stepIndex)' = Highlights(stepIndex)
  BY <1>0, SameScene
<1>2. Pictured' /\ LitIsActive'
  BY DEF PictureInv, Pictured, LitIsActive, Whole
<1>3. \A x : HasElement(tokenEl', x) <=> HasElement(tokenEl, x)
  <2>1. DOMAIN tokenEl' = Tokens /\ DOMAIN tokenEl = Tokens
    BY DEF PictureInv, Pictured
  <2> QED BY <2>1 DEF HasElement
<1>4. OnlyGhostsStay'
  BY <1>1, <1>3 DEF PictureInv, OnlyGhostsStay, HasElement
<1>5. Undisturbed'
  <2> SUFFICES ASSUME page = "here", ~hurried
               PROVE  IF IsRow THEN \A t \in Tokens : Toward(tokenEl'[t], At(stepIndex)[t])
                      ELSE \A e \in Elements : IF e \in Drawn(stepIndex) THEN fade[e] \in {"entering", "shown"}
                                               ELSE fade[e] \in {"leaving", "gone"}
    BY <1>1 DEF Undisturbed, Toward, NoElement
  <2> QED BY DEF PictureInv, Undisturbed
<1> QED BY <1>0, <1>2, <1>4, <1>5 DEF PictureInv

LEMMA Replaced ==
  ASSUME NEW el, Whole(el), NEW x, NEW y
  PROVE  /\ [el EXCEPT !.frame = x, !.goal = y] = [live |-> el.live, frame |-> x, style |-> el.style, goal |-> y]
         /\ [el EXCEPT !.style = x, !.goal = y] = [live |-> el.live, frame |-> el.frame, style |-> x, goal |-> y]
         /\ [el EXCEPT !.style = x] = [live |-> el.live, frame |-> el.frame, style |-> x, goal |-> el.goal]
<1> DEFINE framed == [el EXCEPT !.frame = x]
           styled == [el EXCEPT !.style = x]
<1>1. framed = [live |-> el.live, frame |-> x, style |-> el.style, goal |-> el.goal]
  BY DEF Whole
<1>2. styled = [live |-> el.live, frame |-> el.frame, style |-> x, goal |-> el.goal]
  <2>1. DOMAIN el = {"live", "frame", "style", "goal"}
    BY DEF Whole
  <2>2. styled = [f \in {"live", "frame", "style", "goal"} |-> IF f = "style" THEN x ELSE el[f]]
    BY <2>1 DEF Whole
  <2>3. [live |-> el.live, frame |-> el.frame, style |-> x, goal |-> el.goal]
          = [f \in {"live", "frame", "style", "goal"} |-> IF f = "style" THEN x ELSE el[f]]
    OBVIOUS
  <2> QED BY <2>2, <2>3
<1>3. ASSUME NEW e, Whole(e)
      PROVE  [e EXCEPT !.goal = y] = [live |-> e.live, frame |-> e.frame, style |-> e.style, goal |-> y]
  BY <1>3 DEF Whole
<1>4. /\ [el EXCEPT !.frame = x, !.goal = y] = [framed EXCEPT !.goal = y]
      /\ [el EXCEPT !.style = x, !.goal = y] = [styled EXCEPT !.goal = y]
  OBVIOUS
<1>5. /\ [framed EXCEPT !.goal = y] = [live |-> el.live, frame |-> x, style |-> el.style, goal |-> y]
      /\ [styled EXCEPT !.goal = y] = [live |-> el.live, frame |-> el.frame, style |-> x, goal |-> y]
  <2> HIDE DEF framed, styled
  <2>1. Whole(framed) /\ Whole(styled)
    BY <1>1, <1>2 DEF Whole
  <2> QED BY <1>1, <1>2, <1>3, <2>1
<1> QED BY <1>2, <1>4, <1>5

LEMMA FrameKeeps == ASSUME PictureInv, Frame PROVE PictureInv'
<1>1. tokenEl' = [t \in Tokens |-> FirstFrame(tokenEl[t])]
  BY DEF Frame
<1>2. ASSUME NEW el, Whole(el)
      PROVE  /\ Whole(FirstFrame(el)) /\ FirstFrame(el).live = el.live
             /\ \A slot : Toward(el, slot) => Toward(FirstFrame(el), slot)
  <2>1. FirstFrame(el) = IF el.frame = Nil THEN el
                         ELSE [live |-> el.live, frame |-> Nil, style |-> el.style, goal |-> el.frame]
    BY <1>2, Replaced, ZenonT(30) DEF FirstFrame, Whole
  <2>2. CASE el.frame = Nil
    BY <1>2, <2>1, <2>2
  <2>3. CASE el.frame # Nil
    BY <2>1, <2>3 DEF Whole, Toward, NoElement
  <2> QED BY <2>2, <2>3
<1>3. \A t \in Tokens : Whole(tokenEl[t])
  BY DEF PictureInv, Pictured
<1> QED BY <1>1, <1>2, <1>3, MovesKeep DEF Frame, pageVars

LEMMA SlideKeeps == ASSUME PictureInv, NEW t \in Tokens, Slide(t) PROVE PictureInv'
<1>1. tokenEl' = [tokenEl EXCEPT ![t] = Slid(tokenEl[t])] /\ tokenEl[t].goal # Nil
  BY DEF Slide
<1>2. tokenEl = [u \in Tokens |-> tokenEl[u]] /\ \A u \in Tokens : Whole(tokenEl[u])
  BY DEF PictureInv, Pictured
<1>3. ASSUME NEW el, Whole(el), el.goal # Nil
      PROVE  /\ Whole(Slid(el)) /\ Slid(el).live = el.live
             /\ \A slot : Toward(el, slot) => Toward(Slid(el), slot)
  <2>1. Slid(el) = IF el.style = Between
                   THEN [live |-> el.live, frame |-> el.frame, style |-> el.goal, goal |-> Nil]
                   ELSE [live |-> el.live, frame |-> el.frame, style |-> Between, goal |-> el.goal]
    BY <1>3, Replaced, Zenon DEF Slid, Whole
  <2> QED BY <1>3, <2>1 DEF Whole, Toward, NoElement
<1>4. tokenEl' = [u \in Tokens |-> tokenEl'[u]]
  BY <1>1, <1>2
<1>5. \A u \in Tokens : tokenEl'[u] = IF u = t THEN Slid(tokenEl[t]) ELSE tokenEl[u]
  BY <1>1, <1>2
<1> QED BY <1>1, <1>2, <1>3, <1>4, <1>5, MovesKeep DEF Slide, pageVars

LEMMA FadeKeeps == ASSUME PictureInv, NEW e \in Elements, FadeEnds(e) PROVE PictureInv'
<1>0. EmptyUntilMounted' /\ stepIndex' = stepIndex
  BY SameControl DEF PictureInv, FadeEnds
<1>1. /\ IsRow' = IsRow /\ At(stepIndex)' = At(stepIndex) /\ Drawn(stepIndex)' = Drawn(stepIndex)
      /\ Highlights(stepIndex)' = Highlights(stepIndex)
  BY <1>0, SameScene DEF FadeEnds
<1>2. /\ fade = [d \in Elements |-> fade[d]] /\ fade[e] \in {"entering", "leaving"}
      /\ fade' = [fade EXCEPT ![e] = IF @ = "entering" THEN "shown" ELSE "gone"]
  BY DEF PictureInv, Pictured, FadeEnds
<1>3. \A d \in Elements : fade'[d] = IF d = e THEN IF fade[e] = "entering" THEN "shown" ELSE "gone" ELSE fade[d]
  BY <1>2
<1>4. UNCHANGED <<page, scene, tokenEl, ghosts, active, lit, hurried>>
  BY DEF FadeEnds, pageVars
<1>5. Pictured' /\ LitIsActive'
  BY <1>2, <1>4 DEF PictureInv, Pictured, LitIsActive, Whole
<1>6. OnlyGhostsStay'
  BY <1>1, <1>2, <1>3, <1>4 DEF PictureInv, OnlyGhostsStay, HasElement
<1>7. Undisturbed'
  BY <1>1, <1>2, <1>3, <1>4 DEF PictureInv, Undisturbed, Toward, NoElement
<1> QED BY <1>0, <1>5, <1>6, <1>7 DEF PictureInv

LEMMA LeaveKeeps == ASSUME PictureInv, Leave PROVE PictureInv'
<1>1. /\ fade' = [e \in Elements |-> "gone"] /\ tokenEl' = [t \in Tokens |-> NoElement]
      /\ ghosts' = {} /\ active' = {} /\ lit' = {} /\ page' = "left"
  BY DEF Leave
<1>2. EmptyUntilMounted'
  BY SameControl DEF PictureInv, Leave, S!Destroy, EmptyUntilMounted
<1>3. Pictured' /\ LitIsActive' /\ Undisturbed'
  BY <1>1 DEF Pictured, LitIsActive, Undisturbed, Whole, NoElement
<1>4. OnlyGhostsStay'
  BY <1>1 DEF OnlyGhostsStay, NoElement
<1> QED BY <1>2, <1>3, <1>4 DEF PictureInv

LEMMA PictureKept ==
  ASSUME Controls, PictureInv, [Next]_vars
  PROVE  PictureInv'
<1>1. CASE ChunkArrives
  <2>1. CASE page = "here"
    <3>1. life = "unmounted" /\ life' = "mounted" /\ stepIndex' = -1
      BY <1>1, <2>1 DEF ChunkArrives, S!Start, S!PlayFromStart, S!RenderAt
    <3>2. stepIndex = -1
      BY <3>1 DEF PictureInv, EmptyUntilMounted
    <3> QED BY <1>1, <3>1, <3>2, SamePicture DEF ChunkArrives, EmptyUntilMounted
  <2>2. CASE page # "here"
    BY <1>1, <2>2, SamePicture, SameControl DEF ChunkArrives, PictureInv
  <2> QED BY <2>1, <2>2
<1>2. CASE ChunkFails
  BY <1>2, SamePicture, SameControl DEF ChunkFails, PictureInv
<1>3. CASE Leave
  BY <1>3, LeaveKeeps
<1>4. CASE Rendering
  <2>1. life' = "mounted"
    BY <1>4, RendersKeep, RendersMounted DEF Rendering
  <2> QED BY <1>4, <2>1, RenderKeeps DEF Rendering, pageVars, EmptyUntilMounted
<1>5. CASE Control
  <2>1. stepIndex' = stepIndex /\ life' = life
    BY <1>5 DEF Control, S!PlayPauseClick, S!DoneFires
  <2> QED BY <1>5, <2>1, SamePicture DEF Control, pageVars, PictureInv, EmptyUntilMounted
<1>6. CASE Frame
  BY <1>6, FrameKeeps
<1>7. ASSUME NEW e \in Elements, FadeEnds(e) PROVE PictureInv'
  BY <1>7, FadeKeeps
<1>8. ASSUME NEW t \in Tokens, Slide(t) PROVE PictureInv'
  BY <1>8, SlideKeeps
<1>9. CASE UNCHANGED vars
  BY <1>9, SamePicture, SameControl DEF vars, pageVars, PictureInv
<1> QED BY <1>1, <1>2, <1>3, <1>4, <1>5, <1>6, <1>7, <1>8, <1>9 DEF Next

(* The inductive invariant of what is drawn: an element outlives the step  *)
(* that implied it only on its way out, and one that was never disturbed   *)
(* is on its way to where the step has it.                                 *)
THEOREM PictureHolds == Spec => [](Inv /\ PictureInv)
<1>1. Init => Inv /\ PictureInv
  BY InitControls, InitPicture
<1>2. Inv /\ PictureInv /\ [Next]_vars => PictureInv'
  BY InvIsControls, PictureKept
<1> QED BY <1>1, <1>2, InvHolds, PTL DEF Spec

(* From whatever step and however fast the reader comes to a step, what it *)
(* does not imply is on its way out and the highlights are those it asks   *)
(* for.  An element nothing takes out is a ghost: a row's, and only where  *)
(* a step came before the animations of another were over.                 *)
THEOREM GhostsAlone == Spec => []OnlyGhostsStay
<1>1. PictureInv => OnlyGhostsStay
  BY DEF PictureInv
<1> QED BY <1>1, PictureHolds, PTL

(* A reader who lets every animation end before the next step comes sees   *)
(* exactly the figure the steps so far imply.                              *)
THEOREM PatienceIsRewarded == Spec => []PatientReaderSeesTheStep
<1>1. PictureInv => PatientReaderSeesTheStep
  BY RestShows DEF PatientReaderSeesTheStep
<1> QED BY <1>1, PictureHolds, PTL

-----------------------------------------------------------------------------
(* Numbers *)

LEMMA LeastNumber ==
  ASSUME NEW B \in SUBSET Nat, B # {}
  PROVE  \E n \in B : \A m \in B : n <= m
<1> DEFINE Less == {ss \in Nat \X Nat : ss[1] < ss[2]}
<1>1. IsWellFoundedOn(Less, Nat)
  BY NatLessThanWellFounded, Zenon DEF OpToRel
<1>2. PICK n \in B : \A m \in B : <<m, n>> \notin Less
  <2> HIDE DEF Less
  <2> QED BY <1>1, WFMin, Zenon
<1>3. ASSUME NEW m \in B PROVE n <= m
  <2>1. m < n => <<m, n>> \in Less
    OBVIOUS
  <2> QED BY <1>2, <2>1
<1> QED BY <1>3

(* Induction up to n: the numbers for which something holds. *)
LEMMA UpTo ==
  ASSUME NEW n \in Nat, NEW Good, 0 \in Good, \A k \in 1 .. n : k - 1 \in Good => k \in Good
  PROVE  0 .. n \subseteq Good
<1> SUFFICES ASSUME ~(0 .. n \subseteq Good) PROVE FALSE
  OBVIOUS
<1> DEFINE Bad == {k \in 0 .. n : k \notin Good}
<1>1. Bad \in SUBSET Nat /\ Bad # {}
  OBVIOUS
<1>2. PICK k \in Bad : \A m \in Bad : k <= m
  <2> HIDE DEF Bad
  <2> QED BY <1>1, LeastNumber
<1>3. k \in 1 .. n /\ k - 1 \in 0 .. n /\ k - 1 \notin Bad
  BY <1>2
<1> QED BY <1>2, <1>3

(* The folds that write and replay a script. *)
Apply(which, x, y) ==
  CASE which = "compile" -> Compile(x, y)
    [] which = "replay" -> ApplyStep(x, y)
    [] OTHER -> ApplyTree(x, y)

Partial(which, base, s, g, T) == IF T = {} THEN base ELSE Apply(which, g[T \ {Max(T)}], s[Max(T)])
Folds(which, base, s, n, g) == g = [T \in SUBSET (1 .. n) |-> Partial(which, base, s, g, T)]

(* The results f a fold passes through, one per element. *)
Runs(which, base, s, n, f) ==
  /\ f[0] = base
  /\ \A k \in 1 .. n : f[k] = Apply(which, f[k - 1], s[k])
  /\ which = "compile" => FoldLeft(Compile, base, s) = f[n]
  /\ which = "replay" => FoldLeft(ApplyStep, base, s) = f[n]
  /\ which = "tree" => FoldLeft(ApplyTree, base, s) = f[n]

(* The library's fold: what it makes of a set of indices. *)
LEMMA FoldExists ==
  ASSUME NEW which, NEW base, NEW s, NEW n \in Nat
  PROVE  \E g : Folds(which, base, s, n, g)
<1> DEFINE Body(g, T) == Partial(which, base, s, g, T)
           Good == {k \in 0 .. n : \E g : Folds(which, base, s, k, g)}
<1>1. 0 \in Good
  <2> DEFINE g == [T \in SUBSET (1 .. 0) |-> base]
  <2>1. \A T \in SUBSET (1 .. 0) : Body(g, T) = base
    BY DEF Partial
  <2>2. g = [T \in SUBSET (1 .. 0) |-> Body(g, T)]
    BY <2>1
  <2> HIDE DEF g
  <2> QED BY <2>2 DEF Folds
<1>2. ASSUME NEW k \in 1 .. n, k - 1 \in Good PROVE k \in Good
  <2>1. PICK g : g = [T \in SUBSET (1 .. k - 1) |-> Body(g, T)]
    BY <1>2 DEF Folds
  <2> DEFINE h == [T \in SUBSET (1 .. k) |-> Body(g, T)]
  <2>2. ASSUME NEW T \in SUBSET (1 .. k), T # {} PROVE h[T \ {Max(T)}] = g[T \ {Max(T)}]
    <3>1. T \ {Max(T)} \in SUBSET (1 .. k - 1)
      <4>1. CASE k \in T
        <5>1. Max(T) = k
          <6>1. k \in T /\ \A y \in T : k >= y
            BY <2>2, <4>1
          <6>2. \A x \in T : (\A y \in T : x >= y) => x = k
            BY <2>2, <4>1
          <6> QED BY <6>1, <6>2 DEF Max
        <5> QED BY <2>2, <5>1
      <4>2. CASE k \notin T
        <5>1. \A x \in T : x \in 1 .. k /\ x # k
          BY <4>2
        <5>2. \A x \in T : x \in 1 .. k - 1
          BY <5>1
        <5> QED BY <5>2
      <4> QED BY <4>1, <4>2
    <3> DEFINE U == T \ {Max(T)}
    <3>2. U \in SUBSET (1 .. k)
      BY <2>2
    <3> HIDE DEF U, Body
    <3>3. h[U] = Body(g, U)
      BY <3>2
    <3>4. g[U] = Body(g, U)
      BY <2>1, <3>1 DEF U
    <3> QED BY <3>3, <3>4 DEF U
  <2>3. \A T \in SUBSET (1 .. k) : Body(g, T) = Body(h, T)
    <3> HIDE DEF h
    <3> QED BY <2>2 DEF Partial
  <2>4. h = [T \in SUBSET (1 .. k) |-> Body(h, T)]
    <3> HIDE DEF Body
    <3> QED BY <2>3
  <2> HIDE DEF h
  <2> QED BY <2>4 DEF Folds
<1>3. n \in Good
  <2> HIDE DEF Good
  <2> QED BY <1>1, <1>2, UpTo
<1> QED BY <1>3

(* A fold is the last of the results it passes through, one per element. *)
LEMMA FoldRuns ==
  ASSUME NEW which, NEW base, NEW s, NEW n \in Nat, DOMAIN s = 1 .. n
  PROVE  \E f : Runs(which, base, s, n, f)
<1> DEFINE Body(g, T) == Partial(which, base, s, g, T)
           h == CHOOSE g : Folds(which, base, s, n, g)
           f == [k \in 0 .. n |-> h[1 .. k]]
<1>1. /\ which = "compile" => FoldLeft(Compile, base, s) = h[1 .. n]
      /\ which = "replay" => FoldLeft(ApplyStep, base, s) = h[1 .. n]
      /\ which = "tree" => FoldLeft(ApplyTree, base, s) = h[1 .. n]
  BY DEF Apply, FoldLeft, MapThenFoldSet, Folds, Partial
<1>2. h = [T \in SUBSET (1 .. n) |-> Body(h, T)]
  BY FoldExists DEF Folds
<1> HIDE DEF h
<1>3. f[0] = base
  <2>1. 1 .. 0 = {} /\ h[{}] = base
    BY <1>2 DEF Partial
  <2> QED BY <2>1
<1>4. ASSUME NEW k \in 1 .. n PROVE f[k] = Apply(which, f[k - 1], s[k])
  <2>1. Max(1 .. k) = k
    <3>1. k \in 1 .. k /\ \A y \in 1 .. k : k >= y
      OBVIOUS
    <3>2. \A x \in 1 .. k : (\A y \in 1 .. k : x >= y) => x = k
      OBVIOUS
    <3> QED BY <3>1, <3>2 DEF Max
  <2>2. (1 .. k) \ {k} = 1 .. k - 1 /\ 1 .. k # {} /\ 1 .. k \in SUBSET (1 .. n)
    OBVIOUS
  <2>3. h[1 .. k] = Body(h, 1 .. k)
    <3> HIDE DEF Body
    <3> QED BY <1>2, <2>2
  <2>4. h[1 .. k] = Apply(which, h[1 .. k - 1], s[k])
    BY <2>1, <2>2, <2>3 DEF Partial
  <2> QED BY <2>4
<1> HIDE DEF f
<1>5. Runs(which, base, s, n, f)
  <2>1. f[n] = h[1 .. n]
    BY DEF f
  <2> QED BY <1>1, <1>3, <1>4, <2>1 DEF Runs
<1> QED BY <1>5

-----------------------------------------------------------------------------
(* The script of a row *)

Size == Len(Items)

Steps ==
  [op : {"place"}, token : Range(Items), slot : Slots]
  \cup [op : {"swap"}, a : Range(Items), b : Range(Items)]
  \cup [op : {"mark"}, slot : Slots]
  \cup Commands

StepOf(a, cmd) ==
  CASE cmd.op = "swap" -> [op |-> "swap", a |-> a[cmd.i], b |-> a[cmd.j]]
    [] cmd.op = "mark" -> [op |-> "mark", slot |-> cmd.i]
    [] OTHER -> cmd

Permuted(a, cmd) == IF cmd.op = "swap" THEN [a EXCEPT ![cmd.i] = a[cmd.j], ![cmd.j] = a[cmd.i]] ELSE a

(* The items in some order, and a script. *)
Array(a) == a \in [Slots -> Range(Items)] /\ IsInjective(a)
Compiled(c) == c = [a |-> c.a, steps |-> c.steps] /\ Array(c.a) /\ c.steps \in Seq(Steps)

LEMMA SlotsAre == Size \in Nat /\ Slots = 1 .. Size /\ Array(Items) /\ Nil \notin Slots /\ Range(Items) \subseteq Tokens
BY ItemsAssumption, NilAssumption DEF Size, Slots, Array, Range, Tokens

LEMMA CommandsAre ==
  ASSUME NEW cmd \in Commands
  PROVE  /\ cmd.op \in {"swap", "mark", "move", "remove"}
         /\ cmd.op = "swap" => cmd.i \in Slots /\ cmd.j \in Slots
         /\ cmd.op = "mark" => cmd.i \in Slots
BY DEF Commands

(* Every command adds one step and a swap exchanges two of the items.      *)
LEMMA CompileOne ==
  ASSUME NEW c, Compiled(c), NEW cmd \in Commands, cmd.op = "swap" => cmd.i < cmd.j
  PROVE  /\ Compiled(Compile(c, cmd))
         /\ Compile(c, cmd).a = Permuted(c.a, cmd)
         /\ Compile(c, cmd).steps = Append(c.steps, StepOf(c.a, cmd))
<1>0. c = [a |-> c.a, steps |-> c.steps] /\ Array(c.a) /\ c.steps \in Seq(Steps)
  BY DEF Compiled
<1>1. Compile(c, cmd) = [a |-> Permuted(c.a, cmd), steps |-> Append(c.steps, StepOf(c.a, cmd))]
  <2>1. CASE cmd.op = "swap"
    <3>1. cmd.i # cmd.j
      <4>1. cmd.i \in Slots /\ cmd.j \in Slots /\ cmd.i < cmd.j
        BY <2>1, CommandsAre
      <4>2. Size \in Nat /\ Slots = 1 .. Size
        BY SlotsAre
      <4> QED BY <4>1, <4>2
    <3>2. Compile(c, cmd) = Swap(c, cmd.i, cmd.j)
      BY <2>1, <3>1 DEF Compile
    <3>3. Permuted(c.a, cmd) = [c.a EXCEPT ![cmd.i] = c.a[cmd.j], ![cmd.j] = c.a[cmd.i]]
      BY <2>1 DEF Permuted
    <3>4. StepOf(c.a, cmd) = [op |-> "swap", a |-> c.a[cmd.i], b |-> c.a[cmd.j]]
      BY <2>1 DEF StepOf
    <3> QED BY <3>2, <3>3, <3>4, Zenon DEF Swap
  <2>2. CASE cmd.op # "swap"
    <3>1. \A e : [c EXCEPT !.steps = Append(@, e)] = [a |-> c.a, steps |-> Append(c.steps, e)]
      BY <1>0
    <3>2. Permuted(c.a, cmd) = c.a
      BY <2>2 DEF Permuted
    <3>3. CASE cmd.op = "mark"
      <4>1. StepOf(c.a, cmd) = [op |-> "mark", slot |-> cmd.i]
        BY <3>3 DEF StepOf
      <4>2. Compile(c, cmd) = [c EXCEPT !.steps = Append(@, [op |-> "mark", slot |-> cmd.i])]
        BY <3>3 DEF Compile
      <4> QED BY <3>1, <3>2, <4>1, <4>2, Zenon
    <3>4. CASE cmd.op # "mark"
      <4>1. StepOf(c.a, cmd) = cmd
        BY <2>2, <3>4 DEF StepOf
      <4>2. Compile(c, cmd) = [c EXCEPT !.steps = Append(@, cmd)]
        BY <2>2, <3>4 DEF Compile
      <4> QED BY <3>1, <3>2, <4>1, <4>2, Zenon
    <3> QED BY <3>3, <3>4
  <2> QED BY <2>1, <2>2
<1>2. StepOf(c.a, cmd) \in Steps
  <2>1. CASE cmd.op = "swap"
    <3>1. c.a[cmd.i] \in Range(Items) /\ c.a[cmd.j] \in Range(Items)
      BY <1>0, <2>1, CommandsAre DEF Array
    <3> QED BY <2>1, <3>1 DEF StepOf, Steps
  <2>2. CASE cmd.op = "mark"
    BY <2>2, CommandsAre DEF StepOf, Steps
  <2>3. CASE cmd.op \notin {"swap", "mark"}
    BY <2>3 DEF StepOf, Steps
  <2> QED BY <2>1, <2>2, <2>3
<1>3. Array(Permuted(c.a, cmd))
  <2>1. CASE cmd.op = "swap"
    <3>1. cmd.i \in Slots /\ cmd.j \in Slots
      BY <2>1, CommandsAre
    <3> QED BY <1>0, <2>1, <3>1 DEF Array, IsInjective, Permuted
  <2>2. CASE cmd.op # "swap"
    BY <1>0, <2>2 DEF Permuted
  <2> QED BY <2>1, <2>2
<1>4. Append(c.steps, StepOf(c.a, cmd)) \in Seq(Steps)
  BY <1>0, <1>2
<1> QED BY <1>1, <1>3, <1>4 DEF Compiled

(* The script of a row: its items placed, then a step for each command, of *)
(* the array as the commands before it leave it.                           *)
Written(cmds, f, q) ==
  /\ Compiled(f[q])
  /\ Len(f[q].steps) = Size + q
  /\ \A i \in 1 .. Size : f[q].steps[i] = Placed[i]
  /\ \A j \in 1 .. q : f[q].steps[Size + j] = StepOf(f[j - 1].a, cmds[j])

(* All the commands are compiled so. *)
Writes(cmds, n, f) ==
  /\ cmds \in [1 .. n -> Commands]
  /\ f[0].a = Items
  /\ \A q \in 0 .. n : Written(cmds, f, q)
  /\ \A q \in 1 .. n : f[q].a = Permuted(f[q - 1].a, cmds[q])

LEMMA PlacedIs == Placed \in Seq(Steps) /\ Len(Placed) = Size
<1>1. \A i \in Slots : Placed[i] \in Steps
  BY ItemsAssumption DEF Placed, Steps, Range, Slots
<1>2. DOMAIN Placed = 1 .. Size
  BY SlotsAre DEF Placed
<1> QED BY <1>1, <1>2, SlotsAre DEF Placed

LEMMA ScriptIsWritten ==
  ASSUME NEW n \in Nat, NEW cmds, cmds \in [1 .. n -> Commands],
         \A k \in 1 .. n : cmds[k].op = "swap" => cmds[k].i < cmds[k].j,
         NEW f, Runs("compile", [a |-> Items, steps |-> Placed], cmds, n, f)
  PROVE  Writes(cmds, n, f) /\ CompileMoves(cmds) = f[n]
<1> DEFINE Good == {q \in 0 .. n : Written(cmds, f, q)}
<1>0. /\ f[0] = [a |-> Items, steps |-> Placed]
      /\ \A q \in 1 .. n : f[q] = Compile(f[q - 1], cmds[q])
      /\ FoldLeft(Compile, [a |-> Items, steps |-> Placed], cmds) = f[n]
  BY DEF Runs, Apply
<1>1. 0 \in Good
  <2>1. Compiled(f[0])
    BY <1>0, SlotsAre, PlacedIs DEF Compiled
  <2>2. f[0].steps = Placed
    BY <1>0
  <2> QED BY <2>1, <2>2, PlacedIs, SlotsAre DEF Written
<1>2. ASSUME NEW q \in 1 .. n, q - 1 \in Good PROVE q \in Good
  <2>1. /\ Compiled(f[q - 1]) /\ Len(f[q - 1].steps) = Size + (q - 1) /\ f[q - 1].steps \in Seq(Steps)
        /\ \A i \in 1 .. Size : f[q - 1].steps[i] = Placed[i]
        /\ \A j \in 1 .. q - 1 : f[q - 1].steps[Size + j] = StepOf(f[j - 1].a, cmds[j])
    BY <1>2 DEF Written, Compiled
  <2>2. /\ Compiled(f[q])
        /\ f[q].steps = Append(f[q - 1].steps, StepOf(f[q - 1].a, cmds[q]))
    <3>1. f[q] = Compile(f[q - 1], cmds[q]) /\ cmds[q] \in Commands /\ (cmds[q].op = "swap" => cmds[q].i < cmds[q].j)
      BY <1>0
    <3> QED BY <2>1, <3>1, CompileOne
  <2>a. f[q - 1].steps \in Seq(Steps) /\ Len(f[q - 1].steps) = Size + (q - 1) /\ Size \in Nat
    BY <2>1, SlotsAre
  <2>b. f[q].steps = Append(f[q - 1].steps, StepOf(f[q - 1].a, cmds[q]))
    BY <2>2
  <2>3. Len(f[q].steps) = Size + q
    BY <2>a, <2>b
  <2>4. \A r \in 1 .. Size + (q - 1) : f[q].steps[r] = f[q - 1].steps[r]
    BY <2>a, <2>b
  <2>5. f[q].steps[Size + q] = StepOf(f[q - 1].a, cmds[q])
    BY <2>a, <2>b
  <2>6. \A i \in 1 .. Size : f[q].steps[i] = Placed[i]
    BY <2>1, <2>4, SlotsAre
  <2>7. \A j \in 1 .. q : f[q].steps[Size + j] = StepOf(f[j - 1].a, cmds[j])
    <3> SUFFICES ASSUME NEW j \in 1 .. q PROVE f[q].steps[Size + j] = StepOf(f[j - 1].a, cmds[j])
      OBVIOUS
    <3>1. CASE j = q
      BY <2>5, <3>1
    <3>2. CASE j # q
      BY <2>1, <2>4, <3>2, SlotsAre
    <3> QED BY <3>1, <3>2
  <2>8. Written(cmds, f, q)
    BY <2>2, <2>3, <2>6, <2>7 DEF Written
  <2> QED BY <2>8
<1>3. \A q \in 0 .. n : Written(cmds, f, q)
  <2>1. 0 .. n \subseteq Good
    <3> HIDE DEF Good
    <3> QED BY <1>1, <1>2, UpTo
  <2> QED BY <2>1
<1>4. ASSUME NEW q \in 1 .. n PROVE f[q].a = Permuted(f[q - 1].a, cmds[q])
  <2>1. Compiled(f[q - 1])
    BY <1>3 DEF Written
  <2> QED BY <1>0, <2>1, CompileOne
<1>5. f[0].a = Items
  BY <1>0
<1>6. Writes(cmds, n, f)
  <2> HIDE DEF Good
  <2> QED BY <1>3, <1>4, <1>5 DEF Writes
<1> QED BY <1>0, <1>6 DEF CompileMoves

(* Where a row's tokens are. *)
Layout(at) == at \in [Tokens -> Slots \cup {Nil}]

LEMMA ReplayOne ==
  ASSUME NEW at, Layout(at), NEW a, Array(a), \A i \in Slots : at[a[i]] = i,
         NEW cmd \in Commands, cmd.op \in {"swap", "mark"}
  PROVE  LET next == ApplyStep(at, StepOf(a, cmd)) IN
         Layout(next) /\ \A i \in Slots : next[Permuted(a, cmd)[i]] = i
<1>1. CASE cmd.op = "swap"
  <2>1. cmd.i \in Slots /\ cmd.j \in Slots /\ a[cmd.i] \in Tokens /\ a[cmd.j] \in Tokens
    BY <1>1, CommandsAre, SlotsAre DEF Array
  <2>2. at[a[cmd.i]] = cmd.i /\ at[a[cmd.j]] = cmd.j
    BY <2>1
  <2>3. Nil \notin {at[a[cmd.i]], at[a[cmd.j]]}
    BY <2>1, <2>2, SlotsAre
  <2> DEFINE next == [at EXCEPT ![a[cmd.i]] = at[a[cmd.j]], ![a[cmd.j]] = at[a[cmd.i]]]
             b == [a EXCEPT ![cmd.i] = a[cmd.j], ![cmd.j] = a[cmd.i]]
  <2>4. ApplyStep(at, StepOf(a, cmd)) = next /\ Permuted(a, cmd) = b
    BY <1>1, <2>3 DEF ApplyStep, StepOf, Permuted
  <2>5. Layout(next)
    BY <2>1, <2>2 DEF Layout
  <2>6. ASSUME NEW i \in Slots PROVE next[b[i]] = i
    <3>1. CASE i = cmd.i
      BY <2>1, <2>2, <3>1 DEF Layout, Array, IsInjective
    <3>2. CASE i = cmd.j
      BY <2>1, <2>2, <3>2 DEF Layout, Array, IsInjective
    <3>3. CASE i # cmd.i /\ i # cmd.j
      <4>1. b[i] = a[i] /\ a[i] # a[cmd.i] /\ a[i] # a[cmd.j] /\ a[i] \in Tokens
        BY <2>1, <3>3, SlotsAre DEF Array, IsInjective
      <4> QED BY <2>1, <4>1 DEF Layout
    <3> QED BY <3>1, <3>2, <3>3
  <2> QED BY <2>4, <2>5, <2>6
<1>2. CASE cmd.op = "mark"
  BY <1>2 DEF ApplyStep, StepOf, Permuted
<1> QED BY <1>1, <1>2

LEMMA PlaceOne ==
  ASSUME NEW at, Layout(at), NEW i \in Slots
  PROVE  /\ Layout(ApplyStep(at, Placed[i]))
         /\ ApplyStep(at, Placed[i])[Items[i]] = i
         /\ \A j \in Slots \ {i} : ApplyStep(at, Placed[i])[Items[j]] = at[Items[j]]
<1>1. Placed[i] = [op |-> "place", token |-> Items[i], slot |-> i]
  BY DEF Placed
<1>2. Items[i] \in Tokens /\ \A j \in Slots \ {i} : Items[j] \in Tokens /\ Items[j] # Items[i]
  BY SlotsAre DEF Array, IsInjective
<1>3. ApplyStep(at, Placed[i]) = [at EXCEPT ![Items[i]] = i]
  BY <1>1 DEF ApplyStep
<1> QED BY <1>2, <1>3 DEF Layout

(* Replayed as far as it holds only swaps and marks, the script has every  *)
(* item where the array that wrote it has it.                              *)
LEMMA ReplayAgrees ==
  ASSUME NEW n \in Nat, NEW cmds, NEW f, Writes(cmds, n, f),
         NEW k \in 0 .. n, \A j \in 1 .. k : cmds[j].op \in {"swap", "mark"},
         NEW steps, \A r \in 1 .. Size + k : steps[r] = f[n].steps[r],
         NEW g, Runs("replay", [t \in Tokens |-> Nil], steps, Size + k, g)
  PROVE  \A i \in Slots : g[Size + k][f[k].a[i]] = i
<1>0. g[0] = [t \in Tokens |-> Nil] /\ \A q \in 1 .. Size + k : g[q] = ApplyStep(g[q - 1], steps[q])
  BY DEF Runs, Apply
<1>c. /\ cmds \in [1 .. n -> Commands] /\ f[0].a = Items
      /\ \A q \in 0 .. n : Written(cmds, f, q)
      /\ \A q \in 1 .. n : f[q].a = Permuted(f[q - 1].a, cmds[q])
  BY DEF Writes
<1>a. Size \in Nat /\ Slots = 1 .. Size
  BY SlotsAre
<1>b. /\ \A i \in 1 .. Size : steps[i] = Placed[i]
      /\ \A j \in 1 .. k : steps[Size + j] = StepOf(f[j - 1].a, cmds[j])
  <2>1. Written(cmds, f, n)
    BY <1>c
  <2>2. /\ \A i \in 1 .. Size : f[n].steps[i] = Placed[i]
        /\ \A j \in 1 .. n : f[n].steps[Size + j] = StepOf(f[j - 1].a, cmds[j])
    BY <2>1 DEF Written
  <2>3. (\A i \in 1 .. Size : i \in 1 .. Size + k) /\ (\A j \in 1 .. k : j \in 1 .. n /\ Size + j \in 1 .. Size + k)
    BY <1>a
  <2> QED BY <2>2, <2>3
<1> DEFINE Here == {q \in 0 .. Size : Layout(g[q]) /\ \A i \in 1 .. q : g[q][Items[i]] = i}
<1>1. 0 \in Here
  BY <1>0, <1>a DEF Layout
<1>2. ASSUME NEW q \in 1 .. Size, q - 1 \in Here PROVE q \in Here
  <2>1. g[q] = ApplyStep(g[q - 1], Placed[q])
    BY <1>0, <1>a, <1>b
  <2>2. Layout(g[q - 1]) /\ \A i \in 1 .. q - 1 : g[q - 1][Items[i]] = i
    BY <1>2
  <2>3. Layout(g[q]) /\ g[q][Items[q]] = q /\ \A j \in Slots \ {q} : g[q][Items[j]] = g[q - 1][Items[j]]
    BY <1>a, <2>1, <2>2, PlaceOne
  <2> QED BY <1>a, <2>2, <2>3
<1>3. Layout(g[Size]) /\ \A i \in Slots : g[Size][Items[i]] = i
  <2>1. 0 .. Size \subseteq Here
    <3> HIDE DEF Here
    <3> QED BY <1>1, <1>2, <1>a, UpTo
  <2>2. Size \in Here
    BY <1>a, <2>1
  <2> QED BY <1>a, <2>2
<1> DEFINE There == {p \in 0 .. k : Layout(g[Size + p]) /\ \A i \in Slots : g[Size + p][f[p].a[i]] = i}
<1>4. 0 \in There
  BY <1>a, <1>c, <1>3
<1>5. ASSUME NEW p \in 1 .. k, p - 1 \in There PROVE p \in There
  <2>1. g[Size + p] = ApplyStep(g[Size + (p - 1)], StepOf(f[p - 1].a, cmds[p]))
    <3>1. Size + p \in 1 .. Size + k /\ (Size + p) - 1 = Size + (p - 1)
      BY <1>a
    <3> QED BY <1>0, <1>b, <3>1
  <2>2. Array(f[p - 1].a)
    <3>1. Written(cmds, f, p - 1)
      BY <1>c
    <3> QED BY <3>1 DEF Written, Compiled
  <2>3. f[p].a = Permuted(f[p - 1].a, cmds[p]) /\ cmds[p] \in Commands /\ cmds[p].op \in {"swap", "mark"}
    BY <1>c
  <2>4. Layout(g[Size + (p - 1)]) /\ \A i \in Slots : g[Size + (p - 1)][f[p - 1].a[i]] = i
    BY <1>5
  <2>5. Layout(g[Size + p]) /\ \A i \in Slots : g[Size + p][f[p].a[i]] = i
    BY <2>1, <2>2, <2>3, <2>4, ReplayOne
  <2> QED BY <2>5
<1>6. k \in There
  <2>1. 0 .. k \subseteq There
    <3>1. k \in Nat
      OBVIOUS
    <3> HIDE DEF There
    <3> QED BY <1>4, <1>5, <3>1, UpTo
  <2> QED BY <2>1
<1> QED BY <1>6

LEMMA RowScene ==
  ASSUME scene \in Scenes, IsRow
  PROVE  scene.cmds \in MoveScripts /\ scene.steps = CompileMoves(scene.cmds).steps
BY DEF Scenes, Scene, IsRow

LEMMA SwapsHit ==
  ASSUME scene \in Scenes, IsRow, Numbers
  PROVE  SwapHitsItsPositions
<1> DEFINE k == stepIndex + 1 - Size
           cmds == scene.cmds
           n == Length - Size
<1> SUFFICES ASSUME k > 0, \A j \in 1 .. k : cmds[j].op \in {"swap", "mark"}, Step(stepIndex).op = "swap"
             PROVE  /\ At(stepIndex - 1)[Step(stepIndex).a] = cmds[k].i
                    /\ At(stepIndex - 1)[Step(stepIndex).b] = cmds[k].j
  BY DEF SwapHitsItsPositions, Size
<1>0. Size \in Nat /\ Slots = 1 .. Size
  BY SlotsAre
<1>1. k \in 1 .. n /\ n \in Nat /\ stepIndex \in Nat /\ stepIndex = Size + (k - 1)
  BY <1>0, LastIndexAssumption DEF Numbers, Length
<1> HIDE DEF k, n
<1>2. /\ cmds \in [1 .. n -> Commands]
      /\ \A q \in 1 .. n : cmds[q].op = "swap" => cmds[q].i < cmds[q].j
      /\ scene.steps = CompileMoves(cmds).steps
  BY RowScene DEF MoveScripts, Size, n
<1> HIDE DEF cmds
<1>3. PICK f : Runs("compile", [a |-> Items, steps |-> Placed], cmds, n, f)
  <2>1. DOMAIN cmds = 1 .. n
    BY <1>2
  <2> QED BY <1>1, <2>1, FoldRuns
<1>4. Writes(cmds, n, f) /\ CompileMoves(cmds) = f[n]
  BY <1>1, <1>2, <1>3, ScriptIsWritten, Zenon
<1>5. scene.steps \in Seq(Steps) /\ Len(scene.steps) = Size + n /\ scene.steps = f[n].steps
  <2>1. Written(cmds, f, n)
    BY <1>1, <1>4 DEF Writes
  <2> QED BY <1>2, <1>4, <2>1 DEF Written, Compiled
<1> DEFINE before == Prefix(scene.steps, stepIndex - 1)
<1>6. DOMAIN before = 1 .. stepIndex /\ \A r \in 1 .. stepIndex : before[r] = f[n].steps[r]
  <2>1. before = SubSeq(scene.steps, 1, stepIndex)
    BY <1>1 DEF Prefix
  <2> QED BY <1>0, <1>1, <1>5, <2>1
<1>7. PICK g : Runs("replay", [t \in Tokens |-> Nil], before, stepIndex, g)
  <2> HIDE DEF before
  <2> QED BY <1>1, <1>6, FoldRuns
<1>8. At(stepIndex - 1) = g[stepIndex]
  BY <1>7 DEF Runs, At, TokensAt
<1>9. \A i \in Slots : g[stepIndex][f[k - 1].a[i]] = i
  <2> HIDE DEF before
  <2> DEFINE p == k - 1
  <2>1. p \in 0 .. n /\ \A j \in 1 .. p : cmds[j].op \in {"swap", "mark"}
    BY <1>1
  <2> HIDE DEF before
  <2>2. \A r \in 1 .. Size + p : before[r] = f[n].steps[r]
    BY <1>1, <1>6
  <2>3. Runs("replay", [t \in Tokens |-> Nil], before, Size + p, g)
    BY <1>1, <1>7
  <2>4. \A i \in Slots : g[Size + p][f[p].a[i]] = i
    <3> HIDE DEF p
    <3> QED BY <1>1, <1>4, <2>1, <2>2, <2>3, ReplayAgrees, SMTT(60)
  <2> QED BY <1>1, <2>4
<1>10. Step(stepIndex) = StepOf(f[k - 1].a, cmds[k])
  <2>1. Written(cmds, f, n)
    BY <1>1, <1>4 DEF Writes
  <2>2. f[n].steps[Size + k] = StepOf(f[k - 1].a, cmds[k])
    BY <1>1, <2>1 DEF Written
  <2>3. Step(stepIndex) = scene.steps[stepIndex + 1] /\ stepIndex + 1 = Size + k
    BY <1>0, <1>1 DEF Step
  <2> QED BY <1>5, <2>2, <2>3
<1>11. cmds[k] \in Commands /\ cmds[k].op = "swap"
  <2>1. cmds[k] \in Commands /\ cmds[k].op \in {"swap", "mark"}
    BY <1>1, <1>2
  <2> QED BY <1>10, <2>1 DEF StepOf
<1>12. Step(stepIndex).a = f[k - 1].a[cmds[k].i] /\ Step(stepIndex).b = f[k - 1].a[cmds[k].j]
  BY <1>10, <1>11 DEF StepOf
<1> QED BY <1>8, <1>9, <1>11, <1>12, CommandsAre

(* Two prefixes of a script are replayed alike as far as both go. *)
LEMMA RunsAgree ==
  ASSUME NEW which, NEW base, NEW n \in Nat, NEW m \in 0 .. n,
         NEW s, NEW u, \A k \in 1 .. m : s[k] = u[k],
         NEW f, Runs(which, base, s, n, f), NEW g, Runs(which, base, u, m, g)
  PROVE  f[m] = g[m]
<1> DEFINE Good == {k \in 0 .. m : f[k] = g[k]}
<1>1. /\ f[0] = base /\ \A k \in 1 .. n : f[k] = Apply(which, f[k - 1], s[k])
      /\ g[0] = base /\ \A k \in 1 .. m : g[k] = Apply(which, g[k - 1], u[k])
  BY DEF Runs
<1>2. m \in Nat /\ 0 \in Good /\ \A k \in 1 .. m : k - 1 \in Good => k \in Good
  BY <1>1
<1>3. 0 .. m \subseteq Good
  <2> HIDE DEF Good
  <2> QED BY <1>2, UpTo
<1> QED BY <1>3

-----------------------------------------------------------------------------
(* Binary trees *)

Ends == Nodes \cup {Nil}

Linked(t) ==
  /\ t = [in |-> t.in, root |-> t.root, up |-> t.up, kid |-> t.kid]
  /\ t.in \subseteq Nodes
  /\ t.up \in [Nodes -> Ends] /\ t.kid \in [Sides -> [Nodes -> Ends]]

Rooted(t) ==
  /\ IF t.root = Nil THEN t.in = {} ELSE t.root \in t.in
  /\ \A m \in t.in : t.up[m] \in t.in \cup {Nil} /\ (t.up[m] = Nil <=> m = t.root)

Agreeing(t) ==
  /\ \A m \in t.in, s \in Sides : t.kid[s][m] \in t.in \cup {Nil}
  /\ \A p, c \in t.in : t.up[c] = p <=> \E s \in Sides : t.kid[s][p] = c
  /\ \A m \in t.in : t.kid["left"][m] = t.kid["right"][m] => t.kid["left"][m] = Nil

(* There is no way down back to where it began, not even from a node that  *)
(* was removed, and from every node of the tree the way up is to its root. *)
Ranked(t, rank, b) ==
  /\ rank \in [Nodes -> 0 .. b]
  /\ \A m \in Nodes, s \in Sides : t.kid[s][m] # Nil => rank[t.kid[s][m]] < rank[m]
  /\ \A m \in t.in : m # t.root => rank[m] < rank[t.root]

Tree(t) == Linked(t) /\ Rooted(t) /\ Agreeing(t) /\ \E b \in Nat : \E rank : Ranked(t, rank, b)

LEMMA ByRank ==
  ASSUME NEW b \in Nat, NEW rank \in [Nodes -> 0 .. b], NEW Good,
         \A n \in Nodes : (\A m \in Nodes : rank[m] < rank[n] => m \in Good) => n \in Good
  PROVE  Nodes \subseteq Good
<1> SUFFICES ASSUME ~(Nodes \subseteq Good) PROVE FALSE
  OBVIOUS
<1> DEFINE Bad == {rank[n] : n \in Nodes \ Good}
<1>1. Bad \in SUBSET Nat /\ Bad # {}
  OBVIOUS
<1>2. PICK k \in Bad : \A m \in Bad : k <= m
  <2> HIDE DEF Bad
  <2> QED BY <1>1, LeastNumber
<1>3. PICK n \in Nodes \ Good : k = rank[n]
  BY <1>2
<1>4. ASSUME NEW m \in Nodes, rank[m] < rank[n] PROVE m \in Good
  <2>1. rank[m] \in 0 .. b /\ rank[n] \in 0 .. b
    BY <1>3
  <2>2. rank[m] \notin Bad
    <3> HIDE DEF Bad
    <3> QED BY <1>2, <1>3, <1>4, <2>1
  <2> QED BY <2>2
<1> QED BY <1>3, <1>4

Joined(a, n, b) == a \o <<n>> \o b
OrderAt(t, O, n) == IF n = Nil THEN <<>> ELSE Joined(O[t.kid["left"][n]], n, O[t.kid["right"][n]])
Orders(t, O) == O \in [Ends -> Seq(Nodes)] /\ O = [n \in Ends |-> OrderAt(t, O, n)]

LEMMA OrderExists ==
  ASSUME NEW t, Linked(t), NEW b \in Nat, NEW rank, Ranked(t, rank, b)
  PROVE  \E O : Orders(t, O)
<1> DEFINE Upto(k, O) == /\ O \in [Ends -> Seq(Nodes)]
                         /\ \A n \in Ends : (n # Nil => rank[n] < k) => O[n] = OrderAt(t, O, n)
           Good == {k \in 0 .. b + 1 : \E O : Upto(k, O)}
<1>0. /\ \A n \in Nodes : rank[n] \in 0 .. b
      /\ \A n \in Nodes, s \in Sides :
           t.kid[s][n] \in Ends /\ (t.kid[s][n] # Nil => t.kid[s][n] \in Nodes /\ rank[t.kid[s][n]] < rank[n])
      /\ "left" \in Sides /\ "right" \in Sides
  BY DEF Ranked, Linked, Ends, Sides
<1>1. 0 \in Good
  <2> DEFINE O == [n \in Ends |-> <<>>]
  <2>1. O \in [Ends -> Seq(Nodes)]
    OBVIOUS
  <2>2. \A n \in Ends : (n # Nil => rank[n] < 0) => O[n] = OrderAt(t, O, n)
    <3> SUFFICES ASSUME NEW n \in Ends, n # Nil => rank[n] < 0 PROVE O[n] = <<>> /\ n = Nil
      BY DEF OrderAt
    <3> QED BY <1>0 DEF Ends
  <2>3. Upto(0, O)
    BY <2>1, <2>2
  <2> HIDE DEF Upto, O
  <2> QED BY <2>3
<1>2. ASSUME NEW k \in 1 .. b + 1, k - 1 \in Good PROVE k \in Good
  <2>1. PICK O : Upto(k - 1, O)
    BY <1>2
  <2> DEFINE P == [n \in Ends |-> IF n # Nil /\ rank[n] = k - 1 THEN OrderAt(t, O, n) ELSE O[n]]
  <2>2. ASSUME NEW n \in Nodes PROVE OrderAt(t, O, n) \in Seq(Nodes)
    <3>1. O[t.kid["left"][n]] \in Seq(Nodes) /\ O[t.kid["right"][n]] \in Seq(Nodes) /\ <<n>> \in Seq(Nodes)
      BY <1>0, <2>1
    <3>2. O[t.kid["left"][n]] \o <<n>> \o O[t.kid["right"][n]] \in Seq(Nodes)
      BY <3>1
    <3> QED BY <3>2, NilAssumption DEF OrderAt, Joined
  <2>3. P \in [Ends -> Seq(Nodes)]
    BY <2>1, <2>2 DEF Ends
  <2>4. ASSUME NEW n \in Ends, n # Nil => rank[n] < k PROVE P[n] = OrderAt(t, P, n)
    <3>1. CASE n = Nil
      BY <2>1, <3>1 DEF OrderAt
    <3>2. CASE n # Nil
      <4>0. n \in Nodes /\ rank[n] \in 0 .. b
        BY <1>0, <3>2 DEF Ends
      <4>1. \A s \in Sides : P[t.kid[s][n]] = O[t.kid[s][n]]
        BY <1>0, <2>4, <3>2, <4>0
      <4>2. OrderAt(t, P, n) = OrderAt(t, O, n)
        <5> HIDE DEF P
        <5> QED BY <1>0, <4>1 DEF OrderAt
      <4>3. P[n] = OrderAt(t, O, n)
        BY <2>1, <2>4, <3>2, <4>0 DEF Ends
      <4> QED BY <4>2, <4>3
    <3> QED BY <3>1, <3>2
  <2>5. Upto(k, P)
    <3> HIDE DEF P
    <3> QED BY <2>3, <2>4
  <2> HIDE DEF Upto, P
  <2> QED BY <2>5
<1>3. b + 1 \in Good
  <2> HIDE DEF Good
  <2> QED BY <1>1, <1>2, UpTo
<1>4. PICK O : Upto(b + 1, O)
  BY <1>3
<1>5. \A n \in Ends : O[n] = OrderAt(t, O, n)
  BY <1>0, <1>4 DEF Ends
<1>6. O = [n \in Ends |-> OrderAt(t, O, n)]
  BY <1>4, <1>5
<1> QED BY <1>4, <1>6 DEF Orders

(* There is one order only. *)
LEMMA OrderIsUnique ==
  ASSUME NEW t, Linked(t), NEW b \in Nat, NEW rank, Ranked(t, rank, b),
         NEW O, Orders(t, O), NEW P, P = [n \in Ends |-> OrderAt(t, P, n)]
  PROVE  \A n \in Ends : P[n] = O[n]
<1> DEFINE Good == {n \in Nodes : P[n] = O[n]}
<1>0. /\ \A n \in Ends : P[n] = OrderAt(t, P, n) /\ O[n] = OrderAt(t, O, n)
      /\ P[Nil] = <<>> /\ O[Nil] = <<>>
  BY DEF Orders, OrderAt, Ends
<1>1. ASSUME NEW n \in Nodes, \A m \in Nodes : rank[m] < rank[n] => m \in Good
      PROVE  n \in Good
  <2>1. \A s \in Sides : t.kid[s][n] = Nil \/ (t.kid[s][n] \in Nodes /\ rank[t.kid[s][n]] < rank[n])
    BY DEF Linked, Ranked, Ends
  <2>2. \A s \in Sides : P[t.kid[s][n]] = O[t.kid[s][n]]
    BY <1>0, <1>1, <2>1
  <2>3. OrderAt(t, P, n) = OrderAt(t, O, n)
    BY <2>2 DEF OrderAt, Sides
  <2> QED BY <1>0, <2>3 DEF Ends
<1>2. Nodes \subseteq Good
  <2>1. rank \in [Nodes -> 0 .. b]
    BY DEF Ranked
  <2> HIDE DEF Good
  <2> QED BY <1>1, <2>1, ByRank
<1> QED BY <1>0, <1>2 DEF Ends

(* So that is the one that computeLayout finds. *)
LEMMA InOrderIs ==
  ASSUME NEW t, Tree(t)
  PROVE  \E O : Orders(t, O) /\ InOrder(t) = O[t.root]
<1> DEFINE h == CHOOSE O : O = [n \in Ends |-> OrderAt(t, O, n)]
<1>1. InOrder(t) = h[t.root]
  BY DEF InOrder, OrderAt, Joined, Ends
<1>2. PICK b \in Nat : \E rank : Ranked(t, rank, b)
  BY DEF Tree
<1>3. PICK rank : Ranked(t, rank, b)
  BY <1>2
<1>4. PICK O : Orders(t, O)
  BY <1>3, OrderExists DEF Tree
<1>5. h = [n \in Ends |-> OrderAt(t, h, n)]
  BY <1>4 DEF Orders
<1> HIDE DEF h
<1>6. h[t.root] = O[t.root]
  <2>1. t.root \in Ends
    BY DEF Tree, Linked, Rooted, Ends
  <2> QED BY <1>3, <1>4, <1>5, <2>1, OrderIsUnique DEF Tree
<1> QED BY <1>1, <1>4, <1>6

LEMMA ToSetOfOrder ==
  ASSUME NEW a \in Seq(Nodes), NEW b \in Seq(Nodes), NEW n \in Nodes
  PROVE  ToSet(Joined(a, n, b)) = ToSet(a) \cup {n} \cup ToSet(b)
<1> DEFINE s == a \o <<n>> \o b
<1>1. Len(s) = Len(a) + 1 + Len(b) /\ DOMAIN s = 1 .. Len(s) /\ Len(a) \in Nat /\ Len(b) \in Nat
  OBVIOUS
<1>2. \A i \in 1 .. Len(a) : s[i] = a[i]
  OBVIOUS
<1>3. s[Len(a) + 1] = n
  OBVIOUS
<1>4. \A i \in 1 .. Len(b) : s[Len(a) + 1 + i] = b[i]
  OBVIOUS
<1> HIDE DEF s
<1>5. \A i \in DOMAIN s : \/ i \in 1 .. Len(a) \/ i = Len(a) + 1
                          \/ \E j \in 1 .. Len(b) : i = Len(a) + 1 + j
  <2> SUFFICES ASSUME NEW i \in DOMAIN s, i \notin 1 .. Len(a), i # Len(a) + 1
               PROVE  \E j \in 1 .. Len(b) : i = Len(a) + 1 + j
    OBVIOUS
  <2>1. i - (Len(a) + 1) \in 1 .. Len(b) /\ i = Len(a) + 1 + (i - (Len(a) + 1))
    BY <1>1
  <2> QED BY <2>1
<1>6. ToSet(s) \subseteq ToSet(a) \cup {n} \cup ToSet(b)
  <2> SUFFICES ASSUME NEW i \in DOMAIN s PROVE s[i] \in ToSet(a) \cup {n} \cup ToSet(b)
    BY DEF ToSet
  <2>1. CASE i \in 1 .. Len(a)
    BY <1>2, <2>1 DEF ToSet
  <2>2. CASE i = Len(a) + 1
    BY <1>3, <2>2
  <2>3. ASSUME NEW j \in 1 .. Len(b), i = Len(a) + 1 + j PROVE s[i] \in ToSet(b)
    BY <1>4, <2>3 DEF ToSet
  <2> QED BY <1>5, <2>1, <2>2, <2>3
<1>7. ToSet(a) \subseteq ToSet(s) /\ n \in ToSet(s) /\ ToSet(b) \subseteq ToSet(s)
  <2>1. ToSet(a) \subseteq ToSet(s)
    BY <1>1, <1>2 DEF ToSet
  <2>2. n \in ToSet(s)
    BY <1>1, <1>3 DEF ToSet
  <2>3. \A j \in 1 .. Len(b) : Len(a) + 1 + j \in DOMAIN s
    BY <1>1
  <2>4. ToSet(b) \subseteq ToSet(s)
    BY <1>4, <2>3 DEF ToSet
  <2> QED BY <2>1, <2>2, <2>4
<1> QED BY <1>6, <1>7 DEF s, Joined

LEMMA Highest ==
  ASSUME NEW b \in Nat, NEW rank \in [Nodes -> 0 .. b], NEW B \in SUBSET Nodes, B # {}
  PROVE  \E m \in B : \A q \in B : rank[q] <= rank[m]
<1> DEFINE Depths == {b - rank[m] : m \in B}
<1>1. Depths \in SUBSET Nat /\ Depths # {}
  OBVIOUS
<1>2. PICK k \in Depths : \A d \in Depths : k <= d
  <2> HIDE DEF Depths
  <2> QED BY <1>1, LeastNumber
<1>3. PICK m \in B : k = b - rank[m]
  BY <1>2
<1>4. ASSUME NEW q \in B PROVE rank[q] <= rank[m]
  <2>1. b - rank[m] <= b - rank[q]
    BY <1>2, <1>3
  <2> QED BY <2>1
<1> QED BY <1>4

LEMMA OrderOf ==
  ASSUME NEW t, Linked(t), NEW O, Orders(t, O)
  PROVE  \A n \in Nodes :
           /\ O[n] = Joined(O[t.kid["left"][n]], n, O[t.kid["right"][n]])
           /\ \A m : m \in ToSet(O[n]) <=> m = n \/ \E s \in Sides : m \in ToSet(O[t.kid[s][n]])
<1> SUFFICES ASSUME NEW n \in Nodes
             PROVE  /\ O[n] = Joined(O[t.kid["left"][n]], n, O[t.kid["right"][n]])
                    /\ \A m : m \in ToSet(O[n]) <=> m = n \/ \E s \in Sides : m \in ToSet(O[t.kid[s][n]])
  OBVIOUS
<1>1. O[n] = Joined(O[t.kid["left"][n]], n, O[t.kid["right"][n]])
  BY NilAssumption DEF Orders, OrderAt, Ends
<1>2. O[t.kid["left"][n]] \in Seq(Nodes) /\ O[t.kid["right"][n]] \in Seq(Nodes)
  BY DEF Orders, Linked, Sides
<1>3. \A m : m \in ToSet(O[n]) <=> m = n \/ m \in ToSet(O[t.kid["left"][n]]) \/ m \in ToSet(O[t.kid["right"][n]])
  BY <1>1, <1>2, ToSetOfOrder
<1> QED BY <1>1, <1>3 DEF Sides

LEMMA OrderOfNil ==
  ASSUME NEW t, NEW O, Orders(t, O)
  PROVE  O[Nil] = <<>> /\ ToSet(O[Nil]) = {}
<1>1. O[Nil] = <<>>
  BY DEF Orders, OrderAt, Ends
<1> QED BY <1>1 DEF ToSet

LEMMA Below0 ==
  ASSUME NEW t, Linked(t), NEW b \in Nat, NEW rank, Ranked(t, rank, b)
  PROVE  \A n \in Nodes, s \in Sides :
           t.kid[s][n] = Nil \/ (t.kid[s][n] \in Nodes /\ rank[t.kid[s][n]] < rank[n])
BY DEF Linked, Ranked, Ends

(* The layout has all the nodes of the tree and no other. *)
LEMMA DrawnIsIn ==
  ASSUME NEW t, Tree(t)
  PROVE  TreeDrawn(t) = t.in
<1>1. PICK b \in Nat : \E rank : Ranked(t, rank, b)
  BY DEF Tree
<1>2. PICK rank : Ranked(t, rank, b)
  BY <1>1
<1>3. PICK O : Orders(t, O) /\ InOrder(t) = O[t.root]
  BY InOrderIs
<1>4. Linked(t) /\ Rooted(t) /\ Agreeing(t) /\ t.in \subseteq Nodes /\ rank \in [Nodes -> 0 .. b]
  BY <1>2 DEF Tree, Linked, Ranked
<1>5. /\ \A n \in Nodes : \A m : m \in ToSet(O[n]) <=> m = n \/ \E s \in Sides : m \in ToSet(O[t.kid[s][n]])
      /\ ToSet(O[Nil]) = {}
  <2>1. Orders(t, O) /\ Linked(t)
    BY <1>3, <1>4
  <2>2. \A n \in Nodes : \A m : m \in ToSet(O[n]) <=> m = n \/ \E s \in Sides : m \in ToSet(O[t.kid[s][n]])
    BY <2>1, OrderOf
  <2>3. ToSet(O[Nil]) = {}
    BY <2>1, OrderOfNil
  <2> QED BY <2>2, <2>3
<1>6. \A n \in Nodes, s \in Sides :
           t.kid[s][n] = Nil \/ (t.kid[s][n] \in Nodes /\ rank[t.kid[s][n]] < rank[n])
  BY <1>2, <1>4, Below0
<1>7. \A a \in t.in : ToSet(O[a]) \subseteq t.in
  <2> DEFINE Good == {a \in Nodes : a \in t.in => ToSet(O[a]) \subseteq t.in}
  <2>1. ASSUME NEW n \in Nodes, \A m \in Nodes : rank[m] < rank[n] => m \in Good
        PROVE  n \in Good
    <3> SUFFICES ASSUME n \in t.in PROVE ToSet(O[n]) \subseteq t.in
      OBVIOUS
    <3>1. \A s \in Sides : ToSet(O[t.kid[s][n]]) \subseteq t.in
      BY <1>4, <1>5, <1>6, <2>1 DEF Agreeing
    <3> QED BY <1>5, <3>1 DEF Sides
  <2>2. Nodes \subseteq Good
    <3> HIDE DEF Good
    <3> QED BY <1>4, <2>1, ByRank
  <2> QED BY <1>4, <2>2
<1>8. \A a, p \in Nodes, s \in Sides :
        p \in ToSet(O[a]) /\ t.kid[s][p] # Nil => t.kid[s][p] \in ToSet(O[a])
  <2> DEFINE Good == {a \in Nodes : \A p \in Nodes, s \in Sides :
                        p \in ToSet(O[a]) /\ t.kid[s][p] # Nil => t.kid[s][p] \in ToSet(O[a])}
  <2>1. ASSUME NEW n \in Nodes, \A m \in Nodes : rank[m] < rank[n] => m \in Good
        PROVE  n \in Good
    <3> SUFFICES ASSUME NEW p \in Nodes, NEW s \in Sides, p \in ToSet(O[n]), t.kid[s][p] # Nil
                 PROVE  t.kid[s][p] \in ToSet(O[n])
      OBVIOUS
    <3>1. CASE p = n
      <4>1. t.kid[s][n] \in Nodes
        BY <1>6, <3>1
      <4>2. t.kid[s][n] \in ToSet(O[t.kid[s][n]])
        BY <1>5, <4>1
      <4> QED BY <1>5, <3>1, <4>2 DEF Sides
    <3>2. CASE p # n
      <4>1. PICK d \in Sides : p \in ToSet(O[t.kid[d][n]])
        BY <1>5, <3>2 DEF Sides
      <4>2. t.kid[d][n] \in Good
        BY <1>5, <1>6, <2>1, <4>1
      <4>3. t.kid[s][p] \in ToSet(O[t.kid[d][n]])
        BY <4>1, <4>2
      <4> QED BY <1>5, <4>3 DEF Sides
    <3> QED BY <3>1, <3>2
  <2>2. Nodes \subseteq Good
    <3> HIDE DEF Good
    <3> QED BY <1>4, <2>1, ByRank
  <2> QED BY <2>2
<1>9. t.root # Nil => t.root \in t.in /\ t.root \in ToSet(O[t.root])
  BY <1>4, <1>5 DEF Rooted
<1>10. t.in \subseteq ToSet(O[t.root])
  <2> DEFINE B == {m \in t.in : m \notin ToSet(O[t.root])}
  <2> SUFFICES ASSUME B # {} PROVE FALSE
    OBVIOUS
  <2>1. PICK m \in B : \A q \in B : rank[q] <= rank[m]
    <3>1. B \in SUBSET Nodes
      BY <1>4
    <3> HIDE DEF B
    <3> QED BY <1>4, <3>1, Highest
  <2>2. t.root # Nil /\ m # t.root /\ m \in t.in
    BY <1>4, <1>9, <2>1 DEF Rooted
  <2>3. t.up[m] \in t.in
    BY <1>4, <2>2 DEF Rooted
  <2>4. PICK s \in Sides : t.kid[s][t.up[m]] = m
    BY <1>4, <2>2, <2>3 DEF Agreeing
  <2>5. m \in Nodes /\ t.up[m] \in Nodes /\ m # Nil
    BY <1>4, <2>2, <2>3, NilAssumption
  <2>6. rank[m] < rank[t.up[m]]
    BY <1>6, <2>4, <2>5
  <2>7. t.up[m] \in ToSet(O[t.root])
    <3>1. t.up[m] \notin B
      BY <1>4, <2>1, <2>5, <2>6
    <3> QED BY <2>3, <3>1
  <2>8. m \in ToSet(O[t.root])
    BY <1>4, <1>8, <1>9, <2>2, <2>4, <2>5, <2>7
  <2> QED BY <2>1, <2>8
<1>11. ToSet(O[t.root]) \subseteq t.in
  BY <1>5, <1>7, <1>9
<1> QED BY <1>3, <1>10, <1>11 DEF TreeDrawn

-----------------------------------------------------------------------------
(* Rotations *)

(* r is t after y, the child of x on the other side, came up. *)
Turned(t, r, x, y, inner, side) ==
  /\ r = [in |-> r.in, root |-> r.root, up |-> r.up, kid |-> r.kid]
  /\ r.in = t.in /\ r.root = (IF t.up[x] = Nil THEN y ELSE t.root)
  /\ r.up = [n \in Nodes |-> CASE n = x -> y [] n = y -> t.up[x] [] n = inner -> x [] OTHER -> t.up[n]]
  /\ r.kid \in [Sides -> [Nodes -> Ends]]
  /\ \A s \in Sides, m \in Nodes :
       r.kid[s][m] = IF m = x /\ s = Other(side) THEN inner
                     ELSE IF m = y /\ s = side THEN x
                     ELSE IF m = t.up[x] /\ t.kid[s][m] = x THEN y ELSE t.kid[s][m]

Turns(t, x, y, inner, side) ==
  /\ side \in Sides /\ Other(side) \in Sides /\ side # Other(side) /\ Sides = {side, Other(side)}
  /\ x \in t.in /\ y \in t.in /\ inner \in t.in \cup {Nil}
  /\ x \in Nodes /\ y \in Nodes /\ x # y /\ inner # x /\ inner # y /\ y # Nil /\ x # Nil
  /\ t.kid[Other(side)][x] = y /\ t.kid[side][y] = inner
  /\ t.up[y] = x /\ (inner # Nil => t.up[inner] = y)

LEMMA RotateTurns ==
  ASSUME NEW t, Tree(t), NEW x \in t.in, NEW side \in Sides, t.kid[Other(side)][x] # Nil
  PROVE  LET y == t.kid[Other(side)][x]
             inner == t.kid[side][y] IN
         Turns(t, x, y, inner, side) /\ Turned(t, Rotate(t, x, side), x, y, inner, side)
<1> DEFINE o == Other(side)
           y == t.kid[o][x]
           inner == t.kid[side][y]
<1>1. PICK b \in Nat : \E rank : Ranked(t, rank, b)
  BY DEF Tree
<1>2. PICK rank : Ranked(t, rank, b)
  BY <1>1
<1>3. Linked(t) /\ Rooted(t) /\ Agreeing(t) /\ t.in \subseteq Nodes /\ rank \in [Nodes -> 0 .. b] /\ Nil \notin Nodes
  BY <1>2, NilAssumption DEF Tree, Linked, Ranked
<1>4. o \in Sides /\ side # o /\ Sides = {side, o}
  BY DEF Other, Sides
<1>5. \A n \in Nodes, s \in Sides :
           t.kid[s][n] = Nil \/ (t.kid[s][n] \in Nodes /\ rank[t.kid[s][n]] < rank[n])
  BY <1>2, <1>3, Below0
<1> HIDE DEF o
<1>6. y \in t.in /\ t.up[y] = x /\ y \in Nodes /\ rank[y] < rank[x]
  BY <1>3, <1>4, <1>5 DEF Agreeing, o
<1> HIDE DEF y
<1>7. inner \in t.in \cup {Nil} /\ (inner # Nil => inner \in Nodes /\ t.up[inner] = y /\ rank[inner] < rank[y])
  BY <1>3, <1>4, <1>5, <1>6 DEF Agreeing
<1> HIDE DEF inner
<1>8. x # y /\ inner # x /\ inner # y /\ x # Nil /\ y # Nil
  BY <1>3, <1>6, <1>7
<1>9. Turns(t, x, y, inner, side)
  BY <1>3, <1>4, <1>6, <1>7, <1>8 DEF Turns, o, y, inner
<1> DEFINE r == Rotate(t, x, side)
           linked == Relinked(t, x, y)
           kids == [linked EXCEPT ![o][x] = inner, ![side][y] = x]
           ups == [n \in Nodes |-> CASE n = x -> y [] n = y -> t.up[x] [] n = inner -> x [] OTHER -> t.up[n]]
<1>10. r = [t EXCEPT !.root = RootAfter(t, x, y), !.up = ups, !.kid = kids]
  BY <1>8 DEF Rotate, o, y, inner
<1>11. linked \in [Sides -> [Nodes -> Ends]]
  BY <1>3, <1>6 DEF Relinked, Linked, Ends
<1>12. \A s \in Sides, m \in Nodes : linked[s][m] = IF m = t.up[x] /\ t.kid[s][m] = x THEN y ELSE t.kid[s][m]
  BY DEF Relinked
<1> HIDE DEF linked
<1>13. /\ kids \in [Sides -> [Nodes -> Ends]]
       /\ \A s \in Sides, m \in Nodes :
            kids[s][m] = IF m = x /\ s = o THEN inner ELSE IF m = y /\ s = side THEN x ELSE linked[s][m]
  <2> DEFINE once == [linked EXCEPT ![o][x] = inner]
  <2>1. /\ once \in [Sides -> [Nodes -> Ends]]
        /\ \A s \in Sides, m \in Nodes : once[s][m] = IF m = x /\ s = o THEN inner ELSE linked[s][m]
    BY <1>3, <1>4, <1>7, <1>11 DEF Ends
  <2>2. kids = [once EXCEPT ![side][y] = x]
    OBVIOUS
  <2> HIDE DEF once, kids
  <2>3. /\ kids \in [Sides -> [Nodes -> Ends]]
        /\ \A s \in Sides, m \in Nodes : kids[s][m] = IF m = y /\ s = side THEN x ELSE once[s][m]
    BY <1>3, <1>4, <1>6, <2>1, <2>2 DEF Ends
  <2> QED BY <1>4, <1>8, <2>1, <2>3
<1> HIDE DEF kids, ups, r
<1>14. r = [in |-> t.in, root |-> RootAfter(t, x, y), up |-> ups, kid |-> kids]
  <2>1. t = [in |-> t.in, root |-> t.root, up |-> t.up, kid |-> t.kid]
    BY <1>3 DEF Linked
  <2> QED BY <1>10, <2>1
<1>15. Turned(t, r, x, y, inner, side)
  BY <1>12, <1>13, <1>14 DEF Turned, RootAfter, ups, o
<1> QED BY <1>9, <1>15 DEF r, o, y, inner

LEMMA TurnedLinks ==
  ASSUME NEW t, Tree(t), NEW r, NEW x, NEW y, NEW inner, NEW side,
         Turns(t, x, y, inner, side), Turned(t, r, x, y, inner, side)
  PROVE  Linked(r) /\ Rooted(r)
<1>1. Linked(t) /\ Rooted(t) /\ t.in \subseteq Nodes /\ Nil \notin Nodes
  BY NilAssumption DEF Tree, Linked
<1>2. Linked(r)
  BY <1>1 DEF Turned, Turns, Linked, Ends
<1>3. \A m \in t.in : r.up[m] = CASE m = x -> y [] m = y -> t.up[x] [] m = inner -> x [] OTHER -> t.up[m]
  BY <1>1 DEF Turned
<1>4. Rooted(r)
  BY <1>1, <1>3 DEF Turned, Turns, Rooted
<1> QED BY <1>2, <1>4

LEMMA TurnedAgrees ==
  ASSUME NEW t, Tree(t), NEW r, NEW x, NEW y, NEW inner, NEW side,
         Turns(t, x, y, inner, side), Turned(t, r, x, y, inner, side)
  PROVE  Agreeing(r)
<1>1. Linked(t) /\ Rooted(t) /\ Agreeing(t) /\ t.in \subseteq Nodes /\ Nil \notin Nodes
  BY NilAssumption DEF Tree, Linked
<1>2. \A m \in t.in : r.up[m] = CASE m = x -> y [] m = y -> t.up[x] [] m = inner -> x [] OTHER -> t.up[m]
  BY <1>1 DEF Turned
<1>3. \A s \in Sides, m \in t.in :
       r.kid[s][m] = IF m = x /\ s = Other(side) THEN inner
                     ELSE IF m = y /\ s = side THEN x
                     ELSE IF m = t.up[x] /\ t.kid[s][m] = x THEN y ELSE t.kid[s][m]
  BY <1>1 DEF Turned
<1>4. r.in = t.in
  BY DEF Turned
<1>5. \A s \in Sides, m \in t.in : t.kid[s][m] \in t.in \cup {Nil} /\ (t.kid[s][m] # Nil => t.up[t.kid[s][m]] = m)
  BY <1>1 DEF Agreeing
<1>6. t.up[x] # x /\ t.up[x] # y
  <2>1. PICK b \in Nat : \E rank : Ranked(t, rank, b)
    BY DEF Tree
  <2>2. PICK rank : Ranked(t, rank, b)
    BY <2>1
  <2>3. \A n \in Nodes, s \in Sides :
           t.kid[s][n] = Nil \/ (t.kid[s][n] \in Nodes /\ rank[t.kid[s][n]] < rank[n])
    BY <1>1, <2>2, Below0
  <2>4. rank[y] < rank[x] /\ rank \in [Nodes -> 0 .. b] /\ x \in Nodes /\ y \in Nodes
    BY <2>2, <2>3 DEF Turns, Ranked
  <2>5. \A p \in t.in : t.up[x] = p => rank[x] < rank[p]
    BY <1>1, <2>3 DEF Agreeing, Turns
  <2> QED BY <2>4, <2>5 DEF Turns
<1>a. \A m \in t.in : t.kid[side][m] = t.kid[Other(side)][m] => t.kid[side][m] = Nil
  <2>1. (side = "left" /\ Other(side) = "right") \/ (side = "right" /\ Other(side) = "left")
    BY DEF Turns, Other, Sides
  <2> QED BY <1>1, <2>1 DEF Agreeing
<1>b. \A m \in t.in :
        /\ r.kid[side][m] = IF m = y THEN x ELSE IF m = t.up[x] /\ t.kid[side][m] = x THEN y ELSE t.kid[side][m]
        /\ r.kid[Other(side)][m] = IF m = x THEN inner
                                   ELSE IF m = t.up[x] /\ t.kid[Other(side)][m] = x THEN y
                                   ELSE t.kid[Other(side)][m]
  BY <1>3 DEF Turns
<1>7. \A m \in t.in, s \in Sides : r.kid[s][m] \in t.in \cup {Nil}
  BY <1>3, <1>5 DEF Turns
<1>8. ASSUME NEW p \in t.in, NEW c \in t.in
      PROVE  r.up[c] = p <=> \E s \in Sides : r.kid[s][p] = c
  <2>1. t.up[c] = p <=> \E s \in Sides : t.kid[s][p] = c
    BY <1>1 DEF Agreeing
  <2>2. c # Nil /\ p # Nil
    BY <1>1
  <2>3. CASE c = x
    BY <1>2, <1>3, <1>5, <1>6, <2>1, <2>2, <2>3 DEF Turns
  <2>4. CASE c = y
    <3>1. r.up[y] = t.up[x]
      BY <1>2 DEF Turns
    <3>2. ASSUME t.up[x] = p PROVE \E s \in Sides : r.kid[s][p] = y
      <4>1. PICK s \in Sides : t.kid[s][p] = x
        BY <1>1, <3>2 DEF Agreeing, Turns
      <4> QED BY <1>3, <1>6, <3>2, <4>1
    <3>3. ASSUME NEW s \in Sides, r.kid[s][p] = y, p # t.up[x] PROVE FALSE
      <4>1. t.kid[s][p] = y
        BY <1>3, <3>3 DEF Turns
      <4>2. p = x /\ s = side
        BY <1>3, <1>5, <3>3, <4>1 DEF Turns
      <4> QED BY <1>a, <4>1, <4>2 DEF Turns
    <3> QED BY <2>4, <3>1, <3>2, <3>3
  <2>5. CASE c = inner
    <3>1. r.up[inner] = x
      BY <1>2, <2>5 DEF Turns
    <3>2. r.kid[Other(side)][x] = inner
      BY <1>b DEF Turns
    <3>3. ASSUME NEW s \in Sides, r.kid[s][p] = inner, p # x PROVE FALSE
      <4>1. t.kid[s][p] = inner /\ ~(p = y /\ s = side)
        BY <1>3, <3>3 DEF Turns
      <4>2. p = y /\ s = Other(side)
        BY <1>5, <2>2, <2>5, <4>1 DEF Turns
      <4> QED BY <1>a, <2>2, <2>5, <4>1, <4>2 DEF Turns
    <3>4. Other(side) \in Sides
      BY DEF Turns
    <3> QED BY <2>5, <3>1, <3>2, <3>3, <3>4
  <2>6. CASE c \notin {x, y, inner}
    BY <1>2, <1>3, <1>5, <1>6, <2>1, <2>2, <2>6 DEF Turns
  <2> QED BY <2>3, <2>4, <2>5, <2>6
<1>9. \A m \in t.in : r.kid["left"][m] = r.kid["right"][m] => r.kid["left"][m] = Nil
  <2> SUFFICES ASSUME NEW m \in t.in, NEW c, c = r.kid[side][m], c = r.kid[Other(side)][m], c # Nil PROVE FALSE
    BY DEF Turns, Sides, Other
  <2>1. CASE m = y
    <3>1. x = c /\ (c = y \/ c = t.kid[Other(side)][y])
      BY <1>b, <2>1 DEF Turns
    <3>2. t.up[x] = y
      BY <1>5, <3>1, <2>1 DEF Turns
    <3> QED BY <1>6, <3>2
  <2>2. CASE m = x
    <3>1. inner = c /\ c = t.kid[side][x]
      BY <1>b, <1>6, <2>2 DEF Turns
    <3> QED BY <1>5, <2>2, <3>1 DEF Turns
  <2>3. CASE m \notin {x, y}
    <3>1. /\ c = IF m = t.up[x] /\ t.kid[side][m] = x THEN y ELSE t.kid[side][m]
          /\ c = IF m = t.up[x] /\ t.kid[Other(side)][m] = x THEN y ELSE t.kid[Other(side)][m]
      BY <1>b, <2>3
    <3>2. t.kid[side][m] # t.kid[Other(side)][m]
      BY <1>a, <3>1 DEF Turns
    <3>3. \E s \in Sides : t.kid[s][m] = y
      BY <3>1, <3>2 DEF Turns
    <3> QED BY <1>5, <2>3, <3>3 DEF Turns
  <2> QED BY <2>1, <2>2, <2>3
<1> QED BY <1>4, <1>7, <1>8, <1>9 DEF Agreeing

(* What is known of a tree about to be turned. *)
LEMMA TurnsAre ==
  ASSUME NEW t, Tree(t), NEW b \in Nat, NEW rank, Ranked(t, rank, b),
         NEW x, NEW y, NEW inner, NEW side, Turns(t, x, y, inner, side)
  PROVE  /\ t.up[x] \in t.in \cup {Nil} /\ t.up[x] # x /\ t.up[x] # y
         /\ rank[y] < rank[x] /\ (inner # Nil => rank[inner] < rank[y])
         /\ (t.up[x] # Nil => rank[x] < rank[t.up[x]])
         /\ \A m \in t.in, s \in Sides : t.kid[s][m] # Nil =>
              /\ t.kid[s][m] \in t.in /\ t.up[t.kid[s][m]] = m /\ rank[t.kid[s][m]] < rank[m]
         /\ \A s \in Sides : t.kid[s][x] = y => s = Other(side)
<1>1. Linked(t) /\ Rooted(t) /\ Agreeing(t) /\ t.in \subseteq Nodes /\ Nil \notin Nodes
  BY NilAssumption DEF Tree, Linked
<1>2. \A n \in Nodes, s \in Sides :
        t.kid[s][n] = Nil \/ (t.kid[s][n] \in Nodes /\ rank[t.kid[s][n]] < rank[n])
  BY <1>1, Below0
<1>3. rank \in [Nodes -> 0 .. b]
  BY DEF Ranked
<1>4. \A m \in t.in, s \in Sides : t.kid[s][m] # Nil =>
        /\ t.kid[s][m] \in t.in /\ t.up[t.kid[s][m]] = m /\ rank[t.kid[s][m]] < rank[m]
  BY <1>1, <1>2 DEF Agreeing
<1>5. rank[y] < rank[x] /\ (inner # Nil => rank[inner] < rank[y])
  BY <1>4 DEF Turns
<1>6. \A p \in t.in : t.up[x] = p => rank[x] < rank[p]
  BY <1>1, <1>4 DEF Agreeing, Turns
<1>7. t.up[x] \in t.in \cup {Nil} /\ t.up[x] # x /\ t.up[x] # y
  BY <1>1, <1>3, <1>5, <1>6 DEF Turns, Rooted
<1>8. \A s \in Sides : t.kid[s][x] = y => s = Other(side)
  <2>1. (side = "left" /\ Other(side) = "right") \/ (side = "right" /\ Other(side) = "left")
    BY DEF Turns, Other, Sides
  <2> QED BY <1>1, <2>1 DEF Turns, Agreeing, Sides
<1> QED BY <1>4, <1>5, <1>6, <1>7, <1>8

TurnedRank(t, rank, x, y) ==
  [m \in Nodes |-> IF m \notin t.in THEN 2 * rank[m] + 2 * rank[x] + 2
                   ELSE IF m = y THEN 2 * rank[x] + 1 ELSE 2 * rank[m]]

LEMMA TurnedRanked ==
  ASSUME NEW t, Tree(t), NEW b \in Nat, NEW rank, Ranked(t, rank, b),
         NEW r, NEW x, NEW y, NEW inner, NEW side,
         Turns(t, x, y, inner, side), Turned(t, r, x, y, inner, side)
  PROVE  Ranked(r, TurnedRank(t, rank, x, y), 4 * b + 2)
<1>1. Linked(t) /\ Rooted(t) /\ t.in \subseteq Nodes /\ Nil \notin Nodes
  BY NilAssumption DEF Tree, Linked
<1>2. /\ t.up[x] \in t.in \cup {Nil} /\ t.up[x] # x /\ t.up[x] # y
      /\ rank[y] < rank[x] /\ (inner # Nil => rank[inner] < rank[y])
      /\ (t.up[x] # Nil => rank[x] < rank[t.up[x]])
      /\ \A m \in t.in, s \in Sides : t.kid[s][m] # Nil =>
           /\ t.kid[s][m] \in t.in /\ t.up[t.kid[s][m]] = m /\ rank[t.kid[s][m]] < rank[m]
  BY TurnsAre
<1>3. \A n \in Nodes, s \in Sides :
        t.kid[s][n] = Nil \/ (t.kid[s][n] \in Nodes /\ rank[t.kid[s][n]] < rank[n])
  BY <1>1, Below0
<1>4. x \in t.in /\ y \in t.in /\ x \in Nodes /\ y \in Nodes /\ x # y /\ inner # y /\ inner \in t.in \cup {Nil}
  BY DEF Turns
<1>5. \A m \in Nodes : rank[m] \in 0 .. b
  BY DEF Ranked
<1> DEFINE up == TurnedRank(t, rank, x, y)
<1>6. /\ \A m \in Nodes \ t.in : up[m] = 2 * rank[m] + 2 * rank[x] + 2
      /\ up[y] = 2 * rank[x] + 1
      /\ \A m \in t.in \ {y} : up[m] = 2 * rank[m]
  BY <1>1, <1>4 DEF TurnedRank
<1>7. up \in [Nodes -> 0 .. 4 * b + 2]
  <2>1. \A m \in Nodes : up[m] \in 0 .. 4 * b + 2
    <3> SUFFICES ASSUME NEW m \in Nodes PROVE up[m] \in 0 .. 4 * b + 2
      OBVIOUS
    <3> HIDE DEF up
    <3>1. rank[m] \in 0 .. b /\ rank[x] \in 0 .. b
      BY <1>4, <1>5
    <3>2. CASE m \notin t.in
      BY <1>6, <3>1, <3>2
    <3>3. CASE m = y
      BY <1>6, <3>1, <3>3
    <3>4. CASE m \in t.in \ {y}
      BY <1>6, <3>1, <3>4
    <3> QED BY <3>2, <3>3, <3>4
  <2> QED BY <2>1 DEF TurnedRank
<1> HIDE DEF up
<1>8. ASSUME NEW m \in Nodes, NEW s \in Sides, r.kid[s][m] # Nil
      PROVE  up[r.kid[s][m]] < up[m]
  <2>0. r.kid[s][m] = IF m = x /\ s = Other(side) THEN inner
                      ELSE IF m = y /\ s = side THEN x
                      ELSE IF m = t.up[x] /\ t.kid[s][m] = x THEN y ELSE t.kid[s][m]
    BY DEF Turned
  <2>1. CASE m \notin t.in
    <3>1. r.kid[s][m] = t.kid[s][m] /\ r.kid[s][m] \in Nodes /\ rank[r.kid[s][m]] < rank[m]
      BY <1>1, <1>2, <1>3, <1>4, <1>8, <2>0, <2>1
    <3> DEFINE k == r.kid[s][m]
    <3> HIDE DEF k
    <3>2. k \in Nodes /\ rank[k] < rank[m] /\ rank[k] \in 0 .. b /\ rank[m] \in 0 .. b /\ rank[x] \in 0 .. b
      BY <1>4, <1>5, <3>1 DEF k
    <3>3. up[m] = 2 * rank[m] + 2 * rank[x] + 2
      BY <1>6, <2>1
    <3>4. CASE k \notin t.in
      BY <1>6, <3>2, <3>3, <3>4 DEF k
    <3>5. CASE k = y
      BY <1>6, <3>2, <3>3, <3>5 DEF k
    <3>6. CASE k \in t.in \ {y}
      BY <1>6, <3>2, <3>3, <3>6 DEF k
    <3> QED BY <3>4, <3>5, <3>6
  <2>2. CASE m = x /\ s = Other(side)
    <3>1. r.kid[s][m] = inner /\ inner \in t.in \ {y} /\ rank[inner] < rank[x] /\ rank[inner] \in 0 .. b /\ rank[x] \in 0 .. b
      BY <1>1, <1>2, <1>4, <1>5, <1>8, <2>0, <2>2
    <3> QED BY <1>4, <1>6, <2>2, <3>1
  <2>3. CASE m = y /\ s = side
    <3>1. r.kid[s][m] = x /\ rank[x] \in 0 .. b
      BY <1>4, <1>5, <2>0, <2>3
    <3> QED BY <1>4, <1>6, <2>3, <3>1
  <2>4. CASE m \in t.in /\ m = t.up[x] /\ t.kid[s][m] = x
    <3>1. r.kid[s][m] = y /\ rank[x] < rank[m] /\ rank[x] \in 0 .. b /\ rank[m] \in 0 .. b
      BY <1>1, <1>2, <1>4, <1>5, <2>0, <2>4
    <3>2. up[m] = 2 * rank[m]
      BY <1>2, <1>6, <2>4
    <3> QED BY <1>6, <3>1, <3>2
  <2>5. CASE m \in t.in /\ ~(m = x /\ s = Other(side)) /\ ~(m = y /\ s = side) /\ ~(m = t.up[x] /\ t.kid[s][m] = x)
    <3> DEFINE k == t.kid[s][m]
    <3>1. r.kid[s][m] = k
      BY <2>0, <2>5
    <3>2. k \in t.in /\ t.up[k] = m /\ rank[k] < rank[m]
      BY <1>2, <1>8, <2>5, <3>1
    <3> HIDE DEF k
    <3>3. k # y
      BY <2>5, <3>2, TurnsAre DEF Turns, k
    <3>4. up[k] = 2 * rank[k] /\ rank[k] \in 0 .. b /\ rank[m] \in 0 .. b /\ rank[x] \in 0 .. b
      BY <1>1, <1>4, <1>5, <1>6, <3>2, <3>3
    <3>5. CASE m = y
      BY <1>2, <1>6, <3>1, <3>2, <3>4, <3>5
    <3>6. CASE m # y
      BY <1>6, <2>5, <3>1, <3>2, <3>4, <3>6
    <3> QED BY <3>5, <3>6
  <2> QED BY <2>1, <2>2, <2>3, <2>4, <2>5
<1>9. ASSUME NEW m \in t.in, m # r.root PROVE up[m] < up[r.root]
  <2>0. \A q \in t.in : q # t.root => rank[q] < rank[t.root]
    BY DEF Ranked
  <2>1. CASE t.up[x] = Nil
    <3>1. x = t.root /\ r.root = y
      BY <1>4, <2>1, <1>1 DEF Turned, Rooted
    <3>2. m \in t.in \ {y} /\ rank[m] \in 0 .. b /\ rank[x] \in 0 .. b /\ (m = x \/ rank[m] < rank[x])
      BY <1>1, <1>4, <1>5, <1>9, <2>0, <3>1
    <3> QED BY <1>6, <3>1, <3>2
  <2>2. CASE t.up[x] # Nil
    <3>1. r.root = t.root /\ t.root \in t.in /\ t.root # x /\ t.root # y
      BY <1>1, <1>4, <2>2 DEF Turned, Rooted, Turns
    <3>2. rank[m] \in 0 .. b /\ rank[x] \in 0 .. b /\ rank[t.root] \in 0 .. b /\ rank[m] < rank[t.root] /\ rank[x] < rank[t.root]
      BY <1>1, <1>4, <1>5, <1>9, <2>0, <3>1
    <3>3. up[t.root] = 2 * rank[t.root]
      BY <1>6, <3>1
    <3>4. CASE m = y
      BY <1>6, <3>1, <3>2, <3>3, <3>4
    <3>5. CASE m # y
      BY <1>6, <3>1, <3>2, <3>3, <3>5
    <3> QED BY <3>4, <3>5
  <2> QED BY <2>1, <2>2
<1>10. r.in = t.in
  BY DEF Turned
<1> QED BY <1>7, <1>8, <1>9, <1>10 DEF Ranked, up

(* The turned part: both shapes spell the same sequence. *)
LEMMA TurnedPart ==
  ASSUME NEW a \in Seq(Nodes), NEW b \in Seq(Nodes), NEW c \in Seq(Nodes), NEW m \in Nodes, NEW n \in Nodes
  PROVE  Joined(Joined(a, m, b), n, c) = Joined(a, m, Joined(b, n, c))
<1>1. <<m>> \in Seq(Nodes) /\ <<n>> \in Seq(Nodes)
  OBVIOUS
<1> DEFINE d == b \o <<n>>
           e == a \o <<m>>
<1>2. d \in Seq(Nodes) /\ e \in Seq(Nodes) /\ e \o b \in Seq(Nodes)
  BY <1>1
<1>3. (e \o b) \o <<n>> = e \o d
  <2> HIDE DEF e
  <2> QED BY <1>1, <1>2
<1>4. (e \o d) \o c = e \o (d \o c)
  <2> HIDE DEF d, e
  <2> QED BY <1>2
<1> QED BY <1>3, <1>4 DEF Joined

(* A rotation changes the order of no key. *)
LEMMA TurnedOrder ==
  ASSUME NEW t, Tree(t), NEW r, Tree(r), NEW x, NEW y, NEW inner, NEW side,
         Turns(t, x, y, inner, side), Turned(t, r, x, y, inner, side)
  PROVE  InOrder(r) = InOrder(t)
<1>1. Linked(t) /\ Rooted(t) /\ Linked(r) /\ t.in \subseteq Nodes /\ Nil \notin Nodes
  BY NilAssumption DEF Tree, Linked
<1>2. PICK b \in Nat : \E rank : Ranked(t, rank, b)
  BY DEF Tree
<1>3. PICK rank : Ranked(t, rank, b)
  BY <1>2
<1>4. /\ t.up[x] \in t.in \cup {Nil} /\ t.up[x] # x /\ t.up[x] # y
      /\ \A m \in t.in, s \in Sides : t.kid[s][m] # Nil => t.kid[s][m] \in t.in /\ t.up[t.kid[s][m]] = m
      /\ \A s \in Sides : t.kid[s][x] = y => s = Other(side)
  BY <1>3, TurnsAre
<1>5. /\ x \in t.in /\ y \in t.in /\ x \in Nodes /\ y \in Nodes /\ x # y
      /\ t.kid[Other(side)][x] = y /\ t.kid[side][y] = inner /\ t.up[y] = x
      /\ side \in Sides /\ Other(side) \in Sides /\ side # Other(side) /\ Sides = {side, Other(side)}
      /\ inner \in t.in \cup {Nil} /\ inner # x /\ inner # y
  BY DEF Turns
<1>6. PICK O : Orders(t, O) /\ InOrder(t) = O[t.root]
  BY InOrderIs
<1>7. PICK P : Orders(r, P) /\ InOrder(r) = P[r.root]
  BY InOrderIs
<1>8. /\ \A n \in Nodes : O[n] = Joined(O[t.kid["left"][n]], n, O[t.kid["right"][n]])
      /\ O[Nil] = <<>> /\ P[Nil] = <<>>
  BY <1>1, <1>6, <1>7, OrderOf, OrderOfNil
<1>9. \A n \in Nodes : P[n] = Joined(P[r.kid["left"][n]], n, P[r.kid["right"][n]])
  BY <1>1, <1>7, OrderOf
<1>10. \A s \in Sides, m \in Nodes :
       r.kid[s][m] = IF m = x /\ s = Other(side) THEN inner
                     ELSE IF m = y /\ s = side THEN x
                     ELSE IF m = t.up[x] /\ t.kid[s][m] = x THEN y ELSE t.kid[s][m]
  BY DEF Turned
<1> DEFINE up == TurnedRank(t, rank, x, y)
           Good == {m \in Nodes : m \in t.in /\ m # x => P[m] = IF m = y THEN O[x] ELSE O[m]}
<1>11. /\ up \in [Nodes -> 0 .. 4 * b + 2]
       /\ \A m \in Nodes, s \in Sides : r.kid[s][m] # Nil => up[r.kid[s][m]] < up[m]
  BY <1>3, TurnedRanked DEF Ranked
<1> HIDE DEF up
<1>12. ASSUME NEW n \in Nodes, \A m \in Nodes : up[m] < up[n] => m \in Good
       PROVE  n \in Good
  <2> SUFFICES ASSUME n \in t.in, n # x PROVE P[n] = IF n = y THEN O[x] ELSE O[n]
    OBVIOUS
  <2>0. \A s \in Sides : r.kid[s][n] # Nil /\ r.kid[s][n] \in Nodes /\ r.kid[s][n] # x /\ r.kid[s][n] \in t.in =>
          P[r.kid[s][n]] = IF r.kid[s][n] = y THEN O[x] ELSE O[r.kid[s][n]]
    BY <1>11, <1>12
  <2>1. CASE n # y
    <3>1. ASSUME NEW s \in Sides PROVE P[r.kid[s][n]] = O[t.kid[s][n]]
      <4>1. r.kid[s][n] = IF n = t.up[x] /\ t.kid[s][n] = x THEN y ELSE t.kid[s][n]
        BY <1>10, <2>1
      <4>2. CASE n = t.up[x] /\ t.kid[s][n] = x
        BY <1>1, <1>5, <2>0, <4>1, <4>2
      <4>3. CASE t.kid[s][n] = Nil
        BY <1>1, <1>5, <1>8, <4>1, <4>3
      <4>4. CASE t.kid[s][n] # Nil /\ ~(n = t.up[x] /\ t.kid[s][n] = x)
        <5>1. t.kid[s][n] \in t.in /\ t.kid[s][n] # x /\ t.kid[s][n] # y /\ t.kid[s][n] \in Nodes
          BY <1>1, <1>4, <1>5, <4>4
        <5> QED BY <2>0, <4>1, <4>4, <5>1
      <4> QED BY <4>2, <4>3, <4>4
    <3>2. P[r.kid["left"][n]] = O[t.kid["left"][n]] /\ P[r.kid["right"][n]] = O[t.kid["right"][n]]
      BY <3>1 DEF Sides
    <3> QED BY <1>8, <1>9, <2>1, <3>2
  <2>2. CASE n = y
    <3> DEFINE outer == t.kid[side][x]
               far == t.kid[Other(side)][y]
    <3>1. /\ r.kid[side][y] = x /\ r.kid[Other(side)][y] = far
          /\ r.kid[Other(side)][x] = inner /\ r.kid[side][x] = outer
      BY <1>4, <1>5, <1>10
    <3>2. far \in (t.in \ {x, y}) \cup {Nil} /\ outer \in (t.in \ {x, y}) \cup {Nil}
      BY <1>4, <1>5, TurnsAre, <1>3
    <3> HIDE DEF outer, far
    <3>3. P[far] = O[far]
      BY <1>1, <1>5, <1>8, <2>0, <2>2, <3>1, <3>2
    <3>4. up[x] < up[y]
      BY <1>1, <1>5, <1>11, <3>1
    <3>5. ASSUME NEW k, k = inner \/ k = outer PROVE P[k] = O[k]
      <4>1. CASE k = Nil
        BY <1>8, <4>1
      <4>2. CASE k # Nil
        <5>1. k \in t.in \ {x, y} /\ k \in Nodes
          BY <1>1, <1>5, <3>2, <3>5, <4>2
        <5>2. up[k] < up[x] /\ up[k] \in Nat /\ up[x] \in Nat /\ up[y] \in Nat
          BY <1>5, <1>11, <3>1, <3>5, <4>2, <5>1
        <5>3. up[k] < up[y]
          BY <3>4, <5>2
        <5> QED BY <1>12, <2>2, <5>1, <5>3
      <4> QED BY <4>1, <4>2
    <3>6. P[inner] = O[inner] /\ P[outer] = O[outer]
      BY <3>5
    <3>7. O[inner] \in Seq(Nodes) /\ O[outer] \in Seq(Nodes) /\ O[far] \in Seq(Nodes)
      BY <1>1, <1>5, <1>6, <3>2 DEF Orders, Ends
    <3>8. CASE side = "left" /\ Other(side) = "right"
      <4>1. O[x] = Joined(O[outer], x, O[y]) /\ O[y] = Joined(O[inner], y, O[far])
        BY <1>5, <1>8, <3>8 DEF outer, far
      <4>2. P[y] = Joined(P[x], y, P[far]) /\ P[x] = Joined(P[outer], x, P[inner])
        BY <1>5, <1>9, <3>1, <3>8
      <4>3. P[y] = Joined(P[x], y, O[far]) /\ P[x] = Joined(O[outer], x, O[inner])
        BY <3>3, <3>6, <4>2
      <4>6. P[y] = O[x]
        BY <1>5, <3>7, <4>1, <4>3, TurnedPart
      <4> QED BY <2>2, <4>6
    <3>9. CASE side = "right" /\ Other(side) = "left"
      <4>1. O[x] = Joined(O[y], x, O[outer]) /\ O[y] = Joined(O[far], y, O[inner])
        BY <1>5, <1>8, <3>9 DEF outer, far
      <4>2. P[y] = Joined(P[far], y, P[x]) /\ P[x] = Joined(P[inner], x, P[outer])
        BY <1>5, <1>9, <3>1, <3>9
      <4>3. P[y] = Joined(O[far], y, P[x]) /\ P[x] = Joined(O[inner], x, O[outer])
        BY <3>3, <3>6, <4>2
      <4>6. P[y] = O[x]
        BY <1>5, <3>7, <4>1, <4>3, TurnedPart
      <4> QED BY <2>2, <4>6
    <3> QED BY <1>5, <3>8, <3>9 DEF Sides, Other
  <2> QED BY <2>1, <2>2
<1>13. Nodes \subseteq Good
  <2>1. 4 * b + 2 \in Nat
    OBVIOUS
  <2> HIDE DEF Good
  <2> QED BY <1>11, <1>12, <2>1, ByRank
<1>14. CASE t.up[x] = Nil
  <2>1. t.root = x /\ r.root = y
    BY <1>1, <1>5, <1>14 DEF Turned, Rooted
  <2> QED BY <1>5, <1>6, <1>7, <1>13, <2>1
<1>15. CASE t.up[x] # Nil
  <2>1. r.root = t.root /\ t.root \in t.in /\ t.root # x /\ t.root # y
    BY <1>1, <1>5, <1>15 DEF Turned, Rooted
  <2> QED BY <1>1, <1>6, <1>7, <1>13, <2>1
<1> QED BY <1>14, <1>15

-----------------------------------------------------------------------------
(* The tree after each step *)

LEMMA RotateKeeps ==
  ASSUME NEW t, Tree(t), NEW x \in t.in, NEW side \in Sides
  PROVE  Tree(Rotate(t, x, side)) /\ InOrder(Rotate(t, x, side)) = InOrder(t)
<1>1. CASE t.kid[Other(side)][x] = Nil
  BY <1>1 DEF Rotate
<1>2. CASE t.kid[Other(side)][x] # Nil
  <2> DEFINE y == t.kid[Other(side)][x]
             inner == t.kid[side][y]
             r == Rotate(t, x, side)
  <2>1. Turns(t, x, y, inner, side) /\ Turned(t, r, x, y, inner, side)
    BY <1>2, RotateTurns
  <2> HIDE DEF y, inner, r
  <2>2. PICK b \in Nat : \E rank : Ranked(t, rank, b)
    BY DEF Tree
  <2>3. PICK rank : Ranked(t, rank, b)
    BY <2>2
  <2>4. Ranked(r, TurnedRank(t, rank, x, y), 4 * b + 2) /\ 4 * b + 2 \in Nat
    BY <2>1, <2>3, TurnedRanked
  <2>5. Tree(r)
    <3>1. Linked(r) /\ Rooted(r) /\ Agreeing(r)
      BY <2>1, TurnedLinks, TurnedAgrees
    <3> QED BY <2>4, <3>1 DEF Tree
  <2>6. InOrder(r) = InOrder(t)
    BY <2>1, <2>5, TurnedOrder
  <2> QED BY <2>5, <2>6 DEF r
<1> QED BY <1>1, <1>2

LEMMA InsertKeeps ==
  ASSUME NEW t, Tree(t), NEW n \in Nodes \ t.in, NEW p \in t.in \cup {Nil}, NEW side \in Sides,
         IF t.in = {} THEN p = Nil ELSE p # Nil /\ t.kid[side][p] = Nil
  PROVE  Tree(InsertNode(t, n, p, side))
<1>1. Linked(t) /\ Rooted(t) /\ Agreeing(t) /\ t.in \subseteq Nodes /\ Nil \notin Nodes
  BY NilAssumption DEF Tree, Linked
<1>2. PICK b \in Nat : \E rank : Ranked(t, rank, b)
  BY DEF Tree
<1>3. PICK rank : Ranked(t, rank, b)
  BY <1>2
<1>4. \A m \in Nodes, s \in Sides :
        t.kid[s][m] = Nil \/ (t.kid[s][m] \in Nodes /\ rank[t.kid[s][m]] < rank[m])
  BY <1>1, <1>3, Below0
<1> DEFINE r == InsertNode(t, n, p, side)
<1>5. /\ r = [in |-> r.in, root |-> r.root, up |-> r.up, kid |-> r.kid]
      /\ r.in = t.in \cup {n} /\ r.root = (IF p = Nil THEN n ELSE t.root)
      /\ r.up = [t.up EXCEPT ![n] = p]
      /\ r.kid = [s \in Sides |-> [m \in Nodes |->
                   IF m = n THEN Nil ELSE IF m = p /\ s = side THEN n ELSE t.kid[s][m]]]
  BY DEF InsertNode
<1> HIDE DEF r
<1>6. /\ \A s \in Sides, m \in Nodes :
           r.kid[s][m] = IF m = n THEN Nil ELSE IF m = p /\ s = side THEN n ELSE t.kid[s][m]
      /\ \A m \in Nodes : r.up[m] = IF m = n THEN p ELSE t.up[m]
  BY <1>1, <1>5 DEF Linked
<1>7. Linked(r)
  BY <1>1, <1>5 DEF Linked, Ends
<1>8. Rooted(r)
  BY <1>1, <1>5, <1>6 DEF Rooted
<1>9. Agreeing(r)
  <2>1. \A m \in r.in, s \in Sides : r.kid[s][m] \in r.in \cup {Nil}
    BY <1>1, <1>5, <1>6 DEF Agreeing
  <2>2. ASSUME NEW q \in r.in, NEW c \in r.in
        PROVE  r.up[c] = q <=> \E s \in Sides : r.kid[s][q] = c
    <3>1. CASE c = n
      <4>1. \A s \in Sides : q \in t.in => t.kid[s][q] # n
        BY <1>1 DEF Agreeing
      <4>2. r.up[n] = p /\ q \in Nodes /\ n # Nil /\ q # Nil
        BY <1>1, <1>5, <1>6
      <4>3. ASSUME p = q PROVE r.kid[side][q] = n
        BY <1>1, <1>6, <4>2, <4>3
      <4>4. ASSUME NEW s \in Sides, r.kid[s][q] = n PROVE p = q
        <5>1. q # n
          BY <1>6, <4>2, <4>4
        <5>2. q \in t.in
          BY <1>5, <5>1
        <5> QED BY <1>6, <4>1, <4>2, <4>4, <5>1, <5>2
      <4> QED BY <3>1, <4>2, <4>3, <4>4
    <3>2. CASE c # n /\ q = n
      <4>1. c \in t.in /\ t.up[c] # n
        BY <1>1, <1>5, <3>2 DEF Rooted
      <4> QED BY <1>1, <1>5, <1>6, <3>2, <4>1
    <3>3. CASE c # n /\ q # n
      <4>1. c \in t.in /\ q \in t.in /\ (t.up[c] = q <=> \E s \in Sides : t.kid[s][q] = c)
        BY <1>1, <1>5, <3>3 DEF Agreeing
      <4>2. \A s \in Sides : r.kid[s][q] = c <=> t.kid[s][q] = c
        BY <1>1, <1>5, <1>6, <3>3, <4>1
      <4> QED BY <1>1, <1>6, <3>3, <4>1, <4>2
    <3> QED BY <3>1, <3>2, <3>3
  <2>3. ASSUME NEW m \in r.in, r.kid["left"][m] = r.kid["right"][m], r.kid["left"][m] # Nil PROVE FALSE
    <3>1. \A s \in Sides : m \in t.in => t.kid[s][m] # n
      BY <1>1 DEF Agreeing
    <3> QED BY <1>1, <1>5, <1>6, <2>3, <3>1 DEF Agreeing, Sides
  <2> QED BY <2>1, <2>2, <2>3 DEF Agreeing
<1>10. Ranked(r, [m \in Nodes |-> IF m = n THEN 0 ELSE rank[m] + 1], b + 1)
  <2> DEFINE up == [m \in Nodes |-> IF m = n THEN 0 ELSE rank[m] + 1]
  <2>0. \A m \in Nodes : rank[m] \in 0 .. b
    BY <1>3 DEF Ranked
  <2>1. up \in [Nodes -> 0 .. b + 1]
    BY <2>0
  <2>2. up[n] = 0 /\ \A m \in Nodes \ {n} : up[m] = rank[m] + 1
    OBVIOUS
  <2> HIDE DEF up
  <2>3. ASSUME NEW m \in Nodes, NEW s \in Sides, r.kid[s][m] # Nil
        PROVE  up[r.kid[s][m]] < up[m]
    <3>1. m # n /\ up[m] = rank[m] + 1 /\ rank[m] \in 0 .. b
      BY <1>6, <2>0, <2>2, <2>3
    <3>2. CASE r.kid[s][m] = n
      BY <2>2, <3>1, <3>2
    <3>3. CASE r.kid[s][m] # n
      <4>1. r.kid[s][m] \in Nodes \ {n} /\ rank[r.kid[s][m]] < rank[m] /\ rank[r.kid[s][m]] \in 0 .. b
        BY <1>4, <1>6, <2>0, <2>3, <3>3
      <4> QED BY <2>2, <3>1, <4>1
    <3> QED BY <3>2, <3>3
  <2>4. ASSUME NEW m \in r.in, m # r.root PROVE up[m] < up[r.root]
    <3>1. r.root = t.root /\ t.root \in t.in /\ p # Nil
      BY <1>1, <1>5, <2>4 DEF Rooted
    <3>2. up[t.root] = rank[t.root] + 1 /\ rank[t.root] \in 0 .. b
      BY <1>1, <2>0, <2>2, <3>1
    <3>3. CASE m = n
      BY <2>2, <3>1, <3>2, <3>3
    <3>4. CASE m # n
      <4>1. m \in t.in /\ rank[m] < rank[t.root] /\ rank[m] \in 0 .. b /\ up[m] = rank[m] + 1
        BY <1>1, <1>3, <1>5, <2>0, <2>2, <2>4, <3>1, <3>4 DEF Ranked
      <4> QED BY <3>1, <3>2, <4>1
    <3> QED BY <3>3, <3>4
  <2> QED BY <2>1, <2>3, <2>4 DEF Ranked, up
<1> QED BY <1>7, <1>8, <1>9, <1>10 DEF Tree, r

(* r is t after n was taken out and its only child c, if any, came up. *)
Removed(t, r, n, c) ==
  /\ r = [in |-> r.in, root |-> r.root, up |-> r.up, kid |-> r.kid]
  /\ r.in = t.in \ {n} /\ r.root = (IF t.up[n] = Nil THEN c ELSE t.root)
  /\ r.up = [m \in Nodes |-> IF m = c THEN t.up[n] ELSE t.up[m]]
  /\ r.kid \in [Sides -> [Nodes -> Ends]]
  /\ \A s \in Sides, m \in Nodes : r.kid[s][m] = IF m = t.up[n] /\ t.kid[s][m] = n THEN c ELSE t.kid[s][m]

(* All that is known before: n has no child but c. *)
Removes(t, rank, n, c) ==
  /\ Linked(t) /\ Rooted(t) /\ Agreeing(t) /\ t.in \subseteq Nodes /\ Nil \notin Nodes
  /\ n \in t.in /\ c \in t.in \cup {Nil} /\ c # n
  /\ \A s \in Sides : t.kid[s][n] \in {c, Nil}
  /\ c # Nil => t.up[c] = n
  /\ \A m \in Nodes, s \in Sides :
       t.kid[s][m] = Nil \/ (t.kid[s][m] \in Nodes /\ rank[t.kid[s][m]] < rank[m])
  /\ \A m \in t.in, s \in Sides : t.kid[s][m] # Nil => t.kid[s][m] \in t.in /\ t.up[t.kid[s][m]] = m
  /\ \A m \in t.in : t.up[m] # Nil => t.up[m] \in t.in /\ rank[m] < rank[t.up[m]] /\ \E s \in Sides : t.kid[s][t.up[m]] = m
  /\ \A m \in t.in \ {n, c} : t.up[m] # n

LEMMA RemoveRemoves ==
  ASSUME NEW t, Tree(t), NEW b \in Nat, NEW rank, Ranked(t, rank, b),
         NEW n \in t.in, \E s \in Sides : t.kid[s][n] = Nil
  PROVE  \E c : Removes(t, rank, n, c) /\ Removed(t, RemoveNode(t, n), n, c)
<1> DEFINE c == IF t.kid["left"][n] # Nil THEN t.kid["left"][n] ELSE t.kid["right"][n]
           r == RemoveNode(t, n)
<1>1. Linked(t) /\ Rooted(t) /\ Agreeing(t) /\ t.in \subseteq Nodes /\ Nil \notin Nodes
  BY NilAssumption DEF Tree, Linked
<1>2. \A m \in Nodes, s \in Sides :
        t.kid[s][m] = Nil \/ (t.kid[s][m] \in Nodes /\ rank[t.kid[s][m]] < rank[m])
  BY <1>1, Below0
<1>3. rank \in [Nodes -> 0 .. b]
  BY DEF Ranked
<1>4. \A s \in Sides : t.kid[s][n] \in {c, Nil}
  BY DEF Sides
<1>5. \E s \in Sides : c = t.kid[s][n]
  BY DEF Sides
<1> HIDE DEF c
<1>6. \A m \in t.in, s \in Sides : t.kid[s][m] # Nil => t.kid[s][m] \in t.in /\ t.up[t.kid[s][m]] = m
  BY <1>1 DEF Agreeing
<1>7. c \in t.in \cup {Nil} /\ (c # Nil => t.up[c] = n /\ rank[c] < rank[n])
  BY <1>1, <1>2, <1>5, <1>6
<1>8. c # n
  BY <1>1, <1>3, <1>7
<1>9. ASSUME NEW m \in t.in, t.up[m] # Nil
      PROVE  t.up[m] \in t.in /\ rank[m] < rank[t.up[m]] /\ \E s \in Sides : t.kid[s][t.up[m]] = m
  <2>1. t.up[m] \in t.in
    BY <1>1, <1>9 DEF Rooted
  <2>2. PICK s \in Sides : t.kid[s][t.up[m]] = m
    BY <1>1, <2>1 DEF Agreeing
  <2> QED BY <1>1, <1>2, <2>1, <2>2
<1>10. \A m \in t.in \ {n, c} : t.up[m] # n
  BY <1>1, <1>4, <1>9
<1>11. Removes(t, rank, n, c)
  BY <1>1, <1>2, <1>4, <1>6, <1>7, <1>8, <1>9, <1>10 DEF Removes
<1>12. r = [in |-> t.in \ {n}, root |-> RootAfter(t, n, c),
            up |-> [m \in Nodes |-> IF m = c THEN t.up[n] ELSE t.up[m]], kid |-> Relinked(t, n, c)]
  BY DEF RemoveNode, c
<1> HIDE DEF r
<1>13. /\ Relinked(t, n, c) \in [Sides -> [Nodes -> Ends]]
       /\ \A s \in Sides, m \in Nodes : Relinked(t, n, c)[s][m] = IF m = t.up[n] /\ t.kid[s][m] = n THEN c ELSE t.kid[s][m]
  BY <1>1, <1>7 DEF Relinked, Linked, Ends
<1>14. Removed(t, r, n, c)
  BY <1>12, <1>13 DEF Removed, RootAfter
<1> QED BY <1>11, <1>14 DEF r

LEMMA RemovedShape ==
  ASSUME NEW t, NEW b \in Nat, NEW rank, Ranked(t, rank, b), NEW n, NEW c, Removes(t, rank, n, c),
         NEW r, Removed(t, r, n, c)
  PROVE  Linked(r) /\ Rooted(r) /\ Agreeing(r)
<1> USE DEF Removes, Removed
<1>1. rank \in [Nodes -> 0 .. b]
  BY DEF Ranked
<1>2. t.up[n] # n /\ (c # Nil => t.up[n] # c)
  BY <1>1
<1>3. Linked(r)
  BY <1>2 DEF Linked, Ends, Rooted
<1>4. \A m \in t.in : r.up[m] = IF m = c THEN t.up[n] ELSE t.up[m]
  OBVIOUS
<1>5. Rooted(r)
  <2>1. ASSUME t.up[n] = Nil, c = Nil PROVE t.in \ {n} = {}
    <3> SUFFICES ASSUME t.in \ {n} # {} PROVE FALSE
      OBVIOUS
    <3>1. PICK m \in t.in \ {n} : \A q \in t.in \ {n} : rank[q] <= rank[m]
      <4>1. t.in \ {n} \in SUBSET Nodes
        OBVIOUS
      <4> QED BY <1>1, <4>1, Highest
    <3>2. t.root = n /\ t.up[m] # Nil
      BY <2>1, <3>1 DEF Rooted
    <3>3. t.up[m] \in t.in \ {n} /\ rank[m] < rank[t.up[m]]
      BY <2>1, <3>1, <3>2
    <3> QED BY <1>1, <3>1, <3>3
  <2>2. IF r.root = Nil THEN r.in = {} ELSE r.root \in r.in
    BY <2>1 DEF Rooted
  <2>3. ASSUME NEW m \in r.in
        PROVE  r.up[m] \in r.in \cup {Nil} /\ (r.up[m] = Nil <=> m = r.root)
    <3>1. CASE m = c
      BY <1>2, <1>4, <2>3, <3>1 DEF Rooted
    <3>2. CASE m # c
      BY <1>4, <2>3, <3>2 DEF Rooted
    <3> QED BY <3>1, <3>2
  <2> QED BY <2>2, <2>3 DEF Rooted
<1>6. Agreeing(r)
  <2>1. \A m \in r.in, s \in Sides :
          r.kid[s][m] = IF t.kid[s][m] = n THEN c ELSE t.kid[s][m]
    OBVIOUS
  <2>2. \A m \in r.in, s \in Sides : r.kid[s][m] \in r.in \cup {Nil}
    BY <2>1
  <2>3. ASSUME NEW p \in r.in, NEW d \in r.in
        PROVE  r.up[d] = p <=> \E s \in Sides : r.kid[s][p] = d
    <3>1. t.up[d] = p <=> \E s \in Sides : t.kid[s][p] = d
      BY DEF Agreeing
    <3>2. t.up[n] = p <=> \E s \in Sides : t.kid[s][p] = n
      BY DEF Agreeing
    <3>3. CASE d = c
      <4>1. r.up[d] = t.up[n]
        BY <1>4, <3>3
      <4>2. ASSUME t.up[n] = p PROVE \E s \in Sides : r.kid[s][p] = d
        BY <2>1, <3>2, <3>3, <4>2
      <4>3. ASSUME NEW s \in Sides, r.kid[s][p] = d, t.kid[s][p] # n PROVE FALSE
        <5>1. t.kid[s][p] = d /\ t.up[d] = p
          BY <2>1, <3>1, <4>3
        <5>2. t.up[d] = n
          BY <3>3
        <5> QED BY <5>1, <5>2
      <4> QED BY <3>2, <4>1, <4>2, <4>3
    <3>4. CASE d # c
      BY <1>4, <2>1, <3>1, <3>4
    <3> QED BY <3>3, <3>4
  <2>4. ASSUME NEW m \in r.in, r.kid["left"][m] = r.kid["right"][m], r.kid["left"][m] # Nil PROVE FALSE
    <3>1. t.kid["left"][m] = t.kid["right"][m] => t.kid["left"][m] = Nil
      BY DEF Agreeing
    <3>2. \A s \in Sides : t.kid[s][m] # Nil => t.up[t.kid[s][m]] = m
      OBVIOUS
    <3>3. m # n /\ m \in t.in
      OBVIOUS
    <3> QED BY <2>1, <2>4, <3>1, <3>2, <3>3 DEF Sides
  <2> QED BY <2>2, <2>3, <2>4 DEF Agreeing
<1> QED BY <1>3, <1>5, <1>6

LEMMA RemovedRanked ==
  ASSUME NEW t, NEW b \in Nat, NEW rank, Ranked(t, rank, b), NEW n, NEW c, Removes(t, rank, n, c),
         NEW r, Removed(t, r, n, c)
  PROVE  \E d \in Nat : \E up : Ranked(r, up, d)
<1>s. Rooted(r)
  BY RemovedShape
<1> USE DEF Removes, Removed
<1>1. rank \in [Nodes -> 0 .. b] /\ \A m \in t.in : m # t.root => rank[m] < rank[t.root]
  BY DEF Ranked
<1>0. \A m \in Nodes : rank[m] \in 0 .. b
  BY <1>1
<1>2. CASE t.up[n] # Nil \/ c = Nil
  <2>1. \A m \in Nodes, s \in Sides : r.kid[s][m] # Nil => rank[r.kid[s][m]] < rank[m]
    <3> SUFFICES ASSUME NEW m \in Nodes, NEW s \in Sides, r.kid[s][m] # Nil PROVE rank[r.kid[s][m]] < rank[m]
      OBVIOUS
    <3>1. CASE m = t.up[n] /\ t.kid[s][m] = n
      <4>1. r.kid[s][m] = c /\ c \in Nodes /\ n \in Nodes
        BY <3>1
      <4>2. rank[c] < rank[n]
        BY <4>1
      <4>3. rank[n] < rank[m]
        BY <3>1
      <4> QED BY <1>0, <4>1, <4>2, <4>3
    <3>2. CASE ~(m = t.up[n] /\ t.kid[s][m] = n)
      BY <3>2
    <3> QED BY <3>1, <3>2
  <2>2. \A m \in r.in : m # r.root => rank[m] < rank[r.root]
    <3>1. CASE t.up[n] # Nil
      BY <1>1, <3>1
    <3>2. CASE t.up[n] = Nil
      <4>1. c = Nil /\ r.root = Nil
        BY <1>2, <3>2
      <4>2. r.in = {}
        BY <1>s, <4>1 DEF Rooted
      <4> QED BY <4>2
    <3> QED BY <3>1, <3>2
  <2> QED BY <1>1, <2>1, <2>2 DEF Ranked
<1>3. CASE t.up[n] = Nil /\ c # Nil
  <2> DEFINE up == [m \in Nodes |-> IF m = c THEN rank[n] ELSE IF m \in t.in \ {n} THEN rank[m] ELSE rank[m] + rank[n] + 1]
  <2>1. /\ c \in Nodes /\ n \in Nodes /\ n = t.root /\ r.root = c
        /\ \A m \in t.in \ {n} : rank[m] < rank[n]
    BY <1>1, <1>3 DEF Rooted
  <2>2. \A m \in Nodes, s \in Sides : r.kid[s][m] = t.kid[s][m]
    BY <1>3
  <2>3. up \in [Nodes -> 0 .. 2 * b + 1]
    <3>1. \A m \in Nodes : rank[m] \in 0 .. b /\ rank[n] \in 0 .. b
      BY <1>0, <2>1
    <3>2. \A m \in Nodes : up[m] \in 0 .. 2 * b + 1
      BY <3>1
    <3> QED BY <3>2
  <2>4. /\ up[c] = rank[n]
        /\ \A m \in t.in \ {n, c} : up[m] = rank[m]
        /\ \A m \in Nodes \ (t.in \ {n}) : up[m] = rank[m] + rank[n] + 1
    BY <2>1
  <2> HIDE DEF up
  <2>5. ASSUME NEW m \in Nodes, NEW s \in Sides, r.kid[s][m] # Nil PROVE up[r.kid[s][m]] < up[m]
    <3> DEFINE k == t.kid[s][m]
    <3>1. k = r.kid[s][m] /\ k \in Nodes /\ rank[k] < rank[m]
      BY <2>2, <2>5
    <3>2. m \in t.in => k \in t.in /\ t.up[k] = m
      BY <3>1, <2>5
    <3>3. rank[k] \in 0 .. b /\ rank[m] \in 0 .. b /\ rank[n] \in 0 .. b
      BY <1>0, <2>1, <3>1
    <3> HIDE DEF k
    <3>4. CASE m \in t.in \ {n}
      <4>1. k \in t.in \ {n, c} /\ up[k] = rank[k]
        BY <1>3, <2>4, <3>1, <3>2, <3>4
      <4>2. up[m] = rank[m] \/ (m = c /\ up[m] = rank[n] /\ rank[m] < rank[n])
        BY <2>1, <2>4, <3>4
      <4> QED BY <3>1, <3>3, <4>1, <4>2
    <3>5. CASE m \notin t.in \ {n}
      <4>1. up[m] = rank[m] + rank[n] + 1
        BY <2>4, <3>5
      <4>2. up[k] = rank[n] \/ up[k] = rank[k] \/ up[k] = rank[k] + rank[n] + 1
        BY <2>4, <3>1
      <4> QED BY <3>1, <3>3, <4>1, <4>2
    <3> QED BY <3>4, <3>5
  <2>6. \A m \in r.in : m # r.root => up[m] < up[r.root]
    BY <2>1, <2>4
  <2>7. Ranked(r, up, 2 * b + 1) /\ 2 * b + 1 \in Nat
    BY <2>3, <2>5, <2>6 DEF Ranked
  <2> QED BY <2>7
<1> QED BY <1>2, <1>3

LEMMA RemoveKeeps ==
  ASSUME NEW t, Tree(t), NEW n \in t.in, \E s \in Sides : t.kid[s][n] = Nil
  PROVE  Tree(RemoveNode(t, n))
<1>1. PICK b \in Nat : \E rank : Ranked(t, rank, b)
  BY DEF Tree
<1>2. PICK rank : Ranked(t, rank, b)
  BY <1>1
<1> DEFINE r == RemoveNode(t, n)
<1>3. PICK c : Removes(t, rank, n, c) /\ Removed(t, r, n, c)
  BY <1>2, RemoveRemoves
<1> HIDE DEF r
<1>4. Linked(r) /\ Rooted(r) /\ Agreeing(r)
  BY <1>2, <1>3, RemovedShape
<1>5. \E d \in Nat : \E up : Ranked(r, up, d)
  BY <1>2, <1>3, RemovedRanked
<1> QED BY <1>4, <1>5 DEF Tree, r

LEMMA EmptyIsTree == Tree(EmptyTree)
<1>1. Linked(EmptyTree) /\ Rooted(EmptyTree) /\ Agreeing(EmptyTree)
  BY DEF Linked, Rooted, Agreeing, EmptyTree, Ends
<1>2. Ranked(EmptyTree, [m \in Nodes |-> 0], 0)
  BY DEF Ranked, EmptyTree
<1> QED BY <1>1, <1>2 DEF Tree

TreeStep ==
  [op : {"insert"}, id : Nodes, parent : Ends, side : Sides]
  \cup [op : {"rotate"}, id : Nodes, side : Sides]
  \cup [op : {"remove"}, id : Nodes]

LEMMA StepKeeps ==
  ASSUME NEW t, Tree(t), NEW s \in TreeSteps(t)
  PROVE  /\ Tree(ApplyTree(t, s)) /\ s \in TreeStep
         /\ s.op = "rotate" => InOrder(ApplyTree(t, s)) = InOrder(t)
<1>1. t.in \subseteq Nodes
  BY DEF Tree, Linked
<1>2. CASE s.op = "insert"
  <2>1. /\ s.id \in Nodes \ t.in /\ s.parent \in t.in \cup {Nil} /\ s.side \in Sides
        /\ s.op = "insert" /\ s \in [op : {"insert"}, id : NextNew(t.in), parent : t.in \cup {Nil}, side : Sides]
        /\ IF t.in = {} THEN s.side = "left" ELSE s.parent # Nil /\ t.kid[s.side][s.parent] = Nil
    BY <1>2 DEF TreeSteps, NextNew
  <2>2. IF t.in = {} THEN s.parent = Nil ELSE s.parent # Nil /\ t.kid[s.side][s.parent] = Nil
    BY <2>1
  <2>3. Tree(InsertNode(t, s.id, s.parent, s.side))
    BY <2>1, <2>2, InsertKeeps
  <2>4. s \in TreeStep
    BY <1>1, <2>1 DEF TreeStep, Ends, NextNew
  <2> QED BY <1>2, <2>3, <2>4 DEF ApplyTree
<1>3. CASE s.op = "rotate"
  <2>1. s.id \in t.in /\ s.side \in Sides /\ s \in [op : {"rotate"}, id : t.in, side : Sides]
    BY <1>3 DEF TreeSteps
  <2>2. Tree(Rotate(t, s.id, s.side)) /\ InOrder(Rotate(t, s.id, s.side)) = InOrder(t)
    BY <2>1, RotateKeeps
  <2> QED BY <1>1, <1>3, <2>1, <2>2 DEF ApplyTree, TreeStep
<1>4. CASE s.op = "remove"
  <2>1. /\ s.id \in t.in /\ \E side \in Sides : t.kid[side][s.id] = Nil
        /\ s \in [op : {"remove"}, id : {n \in t.in : \E side \in Sides : t.kid[side][n] = Nil}]
    BY <1>4 DEF TreeSteps
  <2>2. Tree(RemoveNode(t, s.id))
    BY <2>1, RemoveKeeps
  <2> QED BY <1>1, <1>4, <2>1, <2>2 DEF ApplyTree, TreeStep
<1>5. s.op \in {"insert", "rotate", "remove"}
  BY DEF TreeSteps
<1> QED BY <1>2, <1>3, <1>4, <1>5

LEMMA NextTree ==
  ASSUME NEW f, f \in Seq(TreeStep), NEW i \in 1 .. Len(f)
  PROVE  TreeAt(f, i - 1) = ApplyTree(TreeAt(f, i - 2), f[i])
<1> DEFINE now == SubSeq(f, 1, i)
           past == SubSeq(f, 1, i - 1)
           j == i - 1
<1>1. j \in Nat /\ i \in Nat /\ j \in 0 .. i /\ Len(f) \in Nat
  OBVIOUS
<1>2. DOMAIN now = 1 .. i /\ DOMAIN past = 1 .. j /\ now[i] = f[i] /\ \A k \in 1 .. j : now[k] = past[k]
  OBVIOUS
<1>3. Prefix(f, i - 1) = now /\ Prefix(f, i - 2) = past
  BY DEF Prefix
<1> HIDE DEF now, past
<1>4. PICK g : Runs("tree", EmptyTree, now, i, g)
  BY <1>1, <1>2, FoldRuns
<1>5. PICK h : Runs("tree", EmptyTree, past, j, h)
  <2> HIDE DEF j
  <2> QED BY <1>1, <1>2, FoldRuns
<1>6. g[j] = h[j]
  <2> HIDE DEF j
  <2> QED BY <1>1, <1>2, <1>4, <1>5, RunsAgree
<1>7. TreeAt(f, i - 1) = g[i] /\ TreeAt(f, i - 2) = h[j]
  BY <1>3, <1>4, <1>5 DEF Runs, TreeAt
<1>8. g[i] = ApplyTree(g[j], now[i])
  BY <1>1, <1>4 DEF Runs, Apply
<1> QED BY <1>2, <1>6, <1>7, <1>8

LEMMA SamePast ==
  ASSUME NEW f, f \in Seq(TreeStep), NEW s \in TreeStep, NEW i \in 0 .. Len(f)
  PROVE  TreeAt(Append(f, s), i - 1) = TreeAt(f, i - 1)
<1>1. SubSeq(Append(f, s), 1, i) = SubSeq(f, 1, i)
  OBVIOUS
<1>2. (i - 1) + 1 = i
  OBVIOUS
<1> QED BY <1>1, <1>2 DEF TreeAt, Prefix

LEMMA NoTreeYet == \A f : TreeAt(f, -1) = EmptyTree
BY NothingReplayed DEF TreeAt

(* A script of j steps, each of them allowed where the ones before it led. *)
Grown(f, j) ==
  /\ f \in Seq(TreeStep) /\ Len(f) = j
  /\ \A i \in 1 .. j : f[i] \in TreeSteps(TreeAt(f, i - 2))
  /\ \A i \in 0 .. j : Tree(TreeAt(f, i - 1))

LEMMA GrowsOn ==
  ASSUME NEW j \in Nat, NEW f, Grown(f, j), NEW s \in TreeSteps(TreeAt(f, j - 1))
  PROVE  Grown(Append(f, s), j + 1)
<1> DEFINE g == Append(f, s)
<1>1. /\ f \in Seq(TreeStep) /\ Len(f) = j
      /\ \A i \in 1 .. j : f[i] \in TreeSteps(TreeAt(f, i - 2))
      /\ \A i \in 0 .. j : Tree(TreeAt(f, i - 1))
  BY DEF Grown
<1>2. Tree(TreeAt(f, j - 1))
  BY <1>1
<1>3. s \in TreeStep /\ Tree(ApplyTree(TreeAt(f, j - 1), s))
  BY <1>2, StepKeeps
<1>4. g \in Seq(TreeStep) /\ Len(g) = j + 1 /\ g[j + 1] = s /\ \A i \in 1 .. j : g[i] = f[i]
  BY <1>1, <1>3
<1>5. \A i \in 0 .. j : TreeAt(g, i - 1) = TreeAt(f, i - 1)
  BY <1>1, <1>3, SamePast
<1> HIDE DEF g
<1>6. ASSUME NEW i \in 1 .. j + 1 PROVE g[i] \in TreeSteps(TreeAt(g, i - 2))
  <2>1. i - 1 \in 0 .. j /\ (i - 1) - 1 = i - 2
    OBVIOUS
  <2>2. TreeAt(g, i - 2) = TreeAt(f, i - 2)
    BY <1>5, <2>1
  <2>3. CASE i = j + 1
    <3>1. i - 2 = j - 1
      BY <2>3
    <3> QED BY <1>4, <2>2, <2>3, <3>1
  <2>4. CASE i # j + 1
    BY <1>1, <1>4, <2>2, <2>4
  <2> QED BY <2>3, <2>4
<1>7. ASSUME NEW i \in 0 .. j + 1 PROVE Tree(TreeAt(g, i - 1))
  <2>1. CASE i = j + 1
    <3>1. TreeAt(g, i - 1) = ApplyTree(TreeAt(g, i - 2), g[i]) /\ i - 2 = j - 1 /\ g[i] = s
      BY <1>4, <2>1, NextTree
    <3>2. TreeAt(g, j - 1) = TreeAt(f, j - 1)
      BY <1>5
    <3> QED BY <1>3, <3>1, <3>2
  <2>2. CASE i # j + 1
    BY <1>1, <1>5, <2>2
  <2> QED BY <2>1, <2>2
<1> QED BY <1>4, <1>6, <1>7 DEF Grown, g

-----------------------------------------------------------------------------
(* The scripts of trees *)

OneLonger(ts, k) ==
  IF k = 0 THEN {<<>>}
  ELSE UNION {{Append(f, s) : s \in TreeSteps(TreeAt(f, k - 2))} : f \in ts[k - 1]}

LEMMA TreeScriptsAre ==
  ASSUME Length \in Nat
  PROVE  \A k \in 0 .. Length : TreeScripts[k] = OneLonger(TreeScripts, k)
<1> DEFINE Good == {n \in 0 .. Length : \E ts : ts = [k \in 0 .. n |-> OneLonger(ts, k)]}
<1>1. 0 \in Good
  <2> DEFINE ts == [k \in 0 .. 0 |-> {<<>>}]
  <2>1. ts = [k \in 0 .. 0 |-> OneLonger(ts, k)]
    BY DEF OneLonger
  <2> HIDE DEF ts
  <2> QED BY <2>1
<1>2. ASSUME NEW n \in 1 .. Length, n - 1 \in Good PROVE n \in Good
  <2>1. PICK ts : ts = [k \in 0 .. n - 1 |-> OneLonger(ts, k)]
    BY <1>2
  <2> DEFINE us == [k \in 0 .. n |-> OneLonger(ts, k)]
  <2>2. ASSUME NEW k \in 1 .. n PROVE us[k - 1] = ts[k - 1]
    <3>1. k - 1 \in 0 .. n - 1 /\ k - 1 \in 0 .. n
      OBVIOUS
    <3> QED BY <2>1, <3>1, Zenon
  <2>3. \A k \in 0 .. n : OneLonger(ts, k) = OneLonger(us, k)
    <3> HIDE DEF us
    <3> QED BY <2>2 DEF OneLonger
  <2>4. us = [k \in 0 .. n |-> OneLonger(us, k)]
    BY <2>3
  <2> HIDE DEF us
  <2> QED BY <2>4
<1>3. Length \in Good
  <2> HIDE DEF Good
  <2> QED BY <1>1, <1>2, UpTo
<1>4. \E ts : ts = [k \in 0 .. Length |-> OneLonger(ts, k)]
  BY <1>3
<1>5. TreeScripts = CHOOSE ts : ts = [k \in 0 .. Length |-> OneLonger(ts, k)]
  BY DEF TreeScripts, OneLonger
<1> HIDE DEF Good
<1>6. TreeScripts = [k \in 0 .. Length |-> OneLonger(TreeScripts, k)]
  BY <1>4, <1>5
<1> QED BY <1>6

LEMMA AllGrown ==
  ASSUME Length \in Nat
  PROVE  \A f \in TreeScripts[Length] : Grown(f, Length)
<1> DEFINE Good == {k \in 0 .. Length : \A f \in TreeScripts[k] : Grown(f, k)}
<1>1. 0 \in Good
  <2>1. TreeScripts[0] = {<<>>}
    <3>1. 0 \in 0 .. Length
      OBVIOUS
    <3> QED BY <3>1, TreeScriptsAre, Zenon DEF OneLonger
  <2>2. TreeAt(<<>>, -1) = EmptyTree /\ 0 - 1 = -1
    BY NoTreeYet
  <2>3. <<>> \in Seq(TreeStep) /\ Len(<<>>) = 0 /\ \A i \in 0 .. 0 : i = 0
    OBVIOUS
  <2>4. Grown(<<>>, 0)
    BY <2>2, <2>3, EmptyIsTree DEF Grown
  <2> QED BY <2>1, <2>4
<1>2. ASSUME NEW k \in 1 .. Length, k - 1 \in Good PROVE k \in Good
  <2> SUFFICES ASSUME NEW g \in TreeScripts[k] PROVE Grown(g, k)
    OBVIOUS
  <2>1. TreeScripts[k] = UNION {{Append(f, s) : s \in TreeSteps(TreeAt(f, k - 2))} : f \in TreeScripts[k - 1]}
    <3>1. k \in 0 .. Length /\ k # 0
      OBVIOUS
    <3> QED BY <3>1, TreeScriptsAre, Zenon DEF OneLonger
  <2>2. PICK f \in TreeScripts[k - 1] : \E s \in TreeSteps(TreeAt(f, k - 2)) : g = Append(f, s)
    BY <2>1
  <2>3. PICK s \in TreeSteps(TreeAt(f, k - 2)) : g = Append(f, s)
    BY <2>2
  <2> DEFINE j == k - 1
  <2>4. j \in Nat /\ j - 1 = k - 2 /\ j + 1 = k /\ Grown(f, j)
    BY <1>2, <2>2
  <2> HIDE DEF j
  <2>5. s \in TreeSteps(TreeAt(f, j - 1))
    BY <2>4
  <2>6. Grown(Append(f, s), j + 1)
    BY <2>4, <2>5, GrowsOn
  <2> QED BY <2>3, <2>4, <2>6
<1>3. Length \in Good
  <2> HIDE DEF Good
  <2> QED BY <1>1, <1>2, UpTo
<1> QED BY <1>3

LEMMA TreesHold ==
  ASSUME scene \in Scenes, scene.kind = "tree", Numbers
  PROVE  TreeIsTree
<1> DEFINE steps == scene.steps
           t == TreeAt(steps, stepIndex)
           before == TreeAt(steps, stepIndex - 1)
<1>1. Length \in Nat /\ stepIndex + 1 \in 0 .. Length /\ stepIndex \in Int
  BY LastIndexAssumption DEF Numbers, Length
<1>2. steps \in TreeScripts[Length]
  BY DEF Scenes, Scene
<1>3. Grown(steps, Length)
  BY <1>1, <1>2, AllGrown
<1> HIDE DEF steps
<1>4. Tree(t)
  <2>1. \A i \in 0 .. Length : Tree(TreeAt(steps, i - 1))
    BY <1>3 DEF Grown
  <2>2. (stepIndex + 1) - 1 = stepIndex
    BY <1>1
  <2> QED BY <1>1, <2>1, <2>2
<1>5. TreeDrawn(t) = t.in
  BY <1>4, DrawnIsIn
<1>6. \A p, c \in t.in : t.up[c] = p <=> \E s \in Sides : t.kid[s][p] = c
  BY <1>4 DEF Tree, Agreeing
<1>7. ASSUME Step(stepIndex).op = "rotate" PROVE InOrder(t) = InOrder(before)
  <2>1. stepIndex >= 0 /\ Step(stepIndex) = steps[stepIndex + 1]
    BY <1>1, <1>7 DEF Step, steps
  <2> DEFINE i == stepIndex + 1
  <2>2. i \in 1 .. Length /\ i - 1 = stepIndex /\ i - 2 = stepIndex - 1 /\ i - 1 \in 0 .. Length /\ (i - 1) - 1 = i - 2
    BY <1>1, <2>1
  <2> HIDE DEF i
  <2>3. steps \in Seq(TreeStep) /\ Len(steps) = Length /\ steps[i] \in TreeSteps(before) /\ Tree(before)
    BY <1>3, <2>2 DEF Grown
  <2>4. t = ApplyTree(before, steps[i])
    BY <2>2, <2>3, NextTree
  <2>5. steps[i].op = "rotate"
    BY <1>7, <2>1 DEF i
  <2> HIDE DEF t, before
  <2> QED BY <2>3, <2>4, <2>5, StepKeeps
<1> QED BY <1>5, <1>6, <1>7 DEF TreeIsTree, steps

LEMMA SceneStays == Spec => [](scene \in Scenes)
<1>1. Init => scene \in Scenes
  BY DEF Init
<1>2. scene \in Scenes /\ [Next]_vars => (scene \in Scenes)'
  BY DEF Next, vars, ChunkArrives, ChunkFails, Leave, Rendering, Control, Frame, FadeEnds, Slide
<1> QED BY <1>1, <1>2, PTL DEF Spec

(* Whatever its script, a tree that is drawn has its links right in both   *)
(* directions and every node within reach of the root, a rotation keeps    *)
(* the order of its keys, and a row's swap exchanges the tokens at the     *)
(* positions its command names.                                            *)
THEOREM ScriptsHold == Spec => []ScriptsAreRight
<1>1. scene \in Scenes /\ Inv => ScriptsAreRight
  BY TreesHold, SwapsHit DEF Inv, Typed, ScriptsAreRight
<1> QED BY <1>1, SceneStays, InvHolds, PTL
=============================================================================
