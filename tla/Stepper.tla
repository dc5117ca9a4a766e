------------------------------- MODULE Stepper -------------------------------
(***************************************************************************)
(* The playback control every animated figure shares                       *)
(* (packages/algorithmator/src/stepper.ts): which step is on the screen,   *)
(* whether it plays by itself, the two timers and the four buttons.        *)
(*                                                                         *)
(* setTimeout leaves a callback that only the variable holding its id can  *)
(* cancel.  "pending" counts the callbacks of scheduleNext, "playTimer"    *)
(* says that the variable of that name refers to one of them: a callback   *)
(* nobody refers to any more can no longer be stopped.                     *)
(***************************************************************************)
EXTENDS Figure

VARIABLES
  life,               \* "unmounted", "mounted" or "destroyed"
  stepIndex, isPlaying,
  playTimer, pending, \* the callbacks that play the next step
  doneTimer,          \* the callback that writes the closing caption is pending
  caption,            \* the step whose caption is shown, or Done
  buttons             \* what updateButtons last made of them

control == <<life, stepIndex, isPlaying, playTimer, pending, doneTimer, caption, buttons>>

Done == LastIndex + 1
Mounted == life = "mounted"
Shown == -1 .. LastIndex

ButtonsFor(i, playing) ==
  [prevOff |-> i <= -1, nextOff |-> i >= LastIndex,
   playOff |-> i >= LastIndex /\ ~playing, pauseIcon |-> playing]

Init ==
  /\ life = "unmounted"
  /\ stepIndex = -1 /\ isPlaying = FALSE
  /\ playTimer = FALSE /\ pending = 0
  /\ doneTimer = FALSE
  /\ caption = -1
  /\ buttons = ButtonsFor(-1, FALSE)

-----------------------------------------------------------------------------

DoneTimerAt(i) == i = LastIndex

(* renderAt: any closing caption still due is cancelled first. *)
RenderAt(i) ==
  /\ stepIndex' = i
  /\ caption' = i
  /\ doneTimer' = DoneTimerAt(i)

Reachable == IF playTimer THEN 1 ELSE 0

\* mutant: pausing forgets to clear the timer
CancelledNone == 0
Cancelled == Reachable

Pause ==
  /\ isPlaying' = FALSE
  /\ playTimer' = FALSE
  /\ pending' = pending - Cancelled

(* A click that pauses, or finds the player paused, and then shows step i. *)
PauseAt(i) ==
  /\ Pause
  /\ RenderAt(i)
  /\ buttons' = ButtonsFor(i, FALSE)

(* play() after pause() at the empty figure: it returns when there is no step. *)
PlayFromStart ==
  LET plays == LastIndex > -1 IN
  /\ isPlaying' = plays
  /\ playTimer' = plays
  /\ pending' = pending - Cancelled + (IF plays THEN 1 ELSE 0)
  /\ RenderAt(-1)
  /\ buttons' = ButtonsFor(-1, plays)

Start ==
  /\ life = "unmounted"
  /\ life' = "mounted"
  /\ PlayFromStart

(* A disabled button gets no click; the early returns repeat its condition. *)
PrevClick ==
  /\ Mounted
  /\ ~buttons.prevOff
  /\ stepIndex > -1
  /\ PauseAt(stepIndex - 1)
  /\ UNCHANGED life

NextClick ==
  /\ Mounted
  /\ ~buttons.nextOff
  /\ stepIndex < LastIndex
  /\ PauseAt(stepIndex + 1)
  /\ UNCHANGED life

ReplayClick ==
  /\ Mounted
  /\ PlayFromStart
  /\ UNCHANGED life

PlayPauseClick ==
  /\ Mounted
  /\ ~buttons.playOff
  /\ IF isPlaying THEN Pause
     ELSE /\ stepIndex < LastIndex
          /\ isPlaying' = TRUE
          /\ playTimer' = TRUE
          /\ pending' = pending + 1
  /\ buttons' = ButtonsFor(stepIndex, isPlaying')
  /\ UNCHANGED <<life, stepIndex, doneTimer, caption>>

ButtonsAfter(i) == ButtonsFor(i, isPlaying /\ i < LastIndex)

\* mutant: the last step leaves the player playing
StillPlayingOn(last) == isPlaying
StillPlaying(last) == isPlaying /\ ~last

(* The callback of scheduleNext: the one playTimer refers to or, if there  *)
(* were one, a stray.  It shows the next step and schedules the one after. *)
Tick ==
  \E own \in BOOLEAN :
    LET i == stepIndex + 1
        last == i >= LastIndex IN
    /\ IF own THEN playTimer ELSE pending > Reachable
    /\ RenderAt(i)
    /\ isPlaying' = StillPlaying(last)
    /\ playTimer' = (~last \/ (playTimer /\ ~own))
    /\ pending' = (IF last THEN pending - 1 ELSE pending)
    /\ buttons' = ButtonsAfter(i)
    /\ UNCHANGED life

DoneFires ==
  /\ doneTimer
  /\ doneTimer' = FALSE
  /\ caption' = Done
  /\ UNCHANGED <<life, stepIndex, isPlaying, playTimer, pending, buttons>>

Destroy ==
  /\ Mounted
  /\ life' = "destroyed"
  /\ Pause
  /\ doneTimer' = FALSE
  /\ UNCHANGED <<stepIndex, caption, buttons>>

(* The actions that end in renderAt, and so in the figure's onStep. *)
Renders == PrevClick \/ NextClick \/ ReplayClick \/ Tick
Next == Start \/ Renders \/ PlayPauseClick \/ DoneFires \/ Destroy

Spec == Init /\ [][Next]_control
Timers == WF_control(Tick) /\ WF_control(DoneFires)

-----------------------------------------------------------------------------
(* Properties *)

TypeOK ==
  /\ life \in {"unmounted", "mounted", "destroyed"}
  /\ stepIndex \in Shown
  /\ isPlaying \in BOOLEAN /\ playTimer \in BOOLEAN /\ doneTimer \in BOOLEAN
  /\ pending \in Nat
  /\ caption \in Shown \cup {Done}
  /\ buttons \in [prevOff : BOOLEAN, nextOff : BOOLEAN, playOff : BOOLEAN, pauseIcon : BOOLEAN]

(* While the figure plays exactly one callback is due and it can be        *)
(* cancelled; paused, or taken off the page, none is.                      *)
OneTimer ==
  /\ pending = (IF isPlaying THEN 1 ELSE 0)
  /\ playTimer = isPlaying
  /\ isPlaying => Mounted /\ stepIndex < LastIndex
  /\ doneTimer => Mounted /\ stepIndex = LastIndex

(* The caption is the shown step's; the closing one only follows the last. *)
CaptionIsOfStep ==
  caption = stepIndex \/ (caption = Done /\ stepIndex = LastIndex)

(* A button is off, and shows pause, exactly when it should. *)
ButtonsMatch == Mounted => buttons = ButtonsFor(stepIndex, isPlaying)

(* A figure that plays comes to its end or is stopped, unless the reader   *)
(* restarts it for ever.                                                   *)
PlaysToTheEnd == []<><<ReplayClick>>_control \/ (isPlaying ~> ~isPlaying)
=============================================================================
