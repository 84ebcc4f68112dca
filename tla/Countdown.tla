------------------------------ MODULE Countdown ------------------------------
(***************************************************************************)
(* A timer players see on their screens: kenji::Timer over a QTimer, the   *)
(* /timer command, the packets its signals send, and the ones that a       *)
(* joining player and the periodic synchronization get.  The timers of an  *)
(* area and the global one differ only in who is told: the members of the  *)
(* area, or everybody (who may set the global one is a refusal, not here). *)
(*                                                                         *)
(* Time passes in units.  The event loop may be late for a timer that is   *)
(* due; what passes meanwhile changes nothing.                             *)
(***************************************************************************)
EXTENDS Integers

CONSTANTS
  Viewers,       \* the players that may come to see the timer
  Durations      \* the durations players ask for

ASSUME CountdownConstants == Durations \subseteq Nat

VARIABLES
  timerState,    \* Timer::_state
  duration,      \* Timer::_durationMs
  due,           \* _timer.remainingTime() while the QTimer runs
  remaining,     \* Timer::_remainingMs
  visible,       \* Timer::_visible
  viewers,       \* the players that are told
  told,          \* what the last packets of each kind told each of them
  ran            \* history: how long the timer ran since it was set going

countdownVars == <<timerState, duration, due, remaining, visible, viewers, told, ran>>

remainingMs ==
  CASE timerState = "Running" -> due
    [] timerState = "Paused" -> remaining
    [] OTHER -> 0

NothingTold == [state |-> "NotRunning", visible |-> FALSE, tick |-> 0]

(* The packets of the step: Visibility when it changed, State and Tick if  *)
(* the state was signalled.                                                *)
Told(signalled) ==
  told' = [p \in Viewers |->
    IF p \notin viewers THEN told[p]
    ELSE [state |-> IF signalled THEN timerState' ELSE told[p].state,
          tick |-> IF signalled THEN remainingMs' ELSE told[p].tick,
          visible |-> IF visible' # visible THEN visible' ELSE told[p].visible]]

-----------------------------------------------------------------------------
(* Operations of Timer *)

handleTimeout ==
  /\ timerState' = "NotRunning"
  /\ UNCHANGED due

(* From NotRunning; without a duration it has run out at once. *)
start(d) ==
  IF d = 0
    THEN handleTimeout
    ELSE timerState' = "Running" /\ due' = d

(* Mistake: the rest of the duration is not kept. *)
SuspendAnew ==
  /\ remaining' = duration
  /\ timerState' = "Paused"
  /\ UNCHANGED due

suspend ==
  /\ remaining' = due
  /\ timerState' = "Paused"
  /\ UNCHANGED due

resume ==
  /\ due' = remaining
  /\ timerState' = "Running"

(* What Timer::stop leaves of the rest; nothing happens to a timer at rest. *)
StoppedRest == IF timerState = "NotRunning" THEN remaining ELSE 0

-----------------------------------------------------------------------------
(* /timer id hh:mm:ss: stop, new duration, show, start *)
SetTime(d) ==
  /\ duration' = d
  /\ remaining' = StoppedRest
  /\ visible' = TRUE
  /\ start(d)
  /\ ran' = 0
  /\ UNCHANGED viewers
  /\ Told(TRUE)

(* /timer id start: show, then resume what is paused or start again *)
StartTimer ==
  /\ visible' = TRUE
  /\ \/ timerState = "Paused" /\ resume /\ UNCHANGED ran
     \/ timerState = "NotRunning" /\ start(duration) /\ ran' = 0
     \/ timerState = "Running" /\ UNCHANGED <<timerState, due, ran>>
  /\ UNCHANGED <<duration, remaining, viewers>>
  /\ Told(timerState # "Running")

(* /timer id pause and /timer id stop *)
PauseTimer ==
  /\ timerState = "Running"
  /\ suspend
  /\ UNCHANGED <<duration, visible, viewers, ran>>
  /\ Told(TRUE)

(* /timer id hide and /timer id unset *)
HideTimer ==
  /\ remaining' = StoppedRest
  /\ timerState' = "NotRunning"
  /\ visible' = FALSE
  /\ UNCHANGED <<duration, due, viewers, ran>>
  /\ Told(timerState # "NotRunning")

(* Mistake: a timer that is due runs on. *)
TickOn ==
  /\ timerState = "Running"
  /\ due' = due - 1
  /\ ran' = ran + 1
  /\ UNCHANGED <<timerState, duration, remaining, visible, viewers, told>>

Tick ==
  /\ timerState = "Running"
  /\ due > 0
  /\ due' = due - 1
  /\ ran' = ran + 1
  /\ UNCHANGED <<timerState, duration, remaining, visible, viewers, told>>

TimedOut ==
  /\ timerState = "Running"
  /\ due = 0
  /\ handleTimeout
  /\ UNCHANGED <<duration, remaining, visible, viewers, ran>>
  /\ Told(TRUE)

(* Server::synchronize and AreaData::synchronize *)
Synchronize ==
  /\ timerState = "Running"
  /\ told' = [p \in Viewers |-> IF p \in viewers
                                  THEN [told[p] EXCEPT !.tick = due]
                                  ELSE told[p]]
  /\ UNCHANGED <<timerState, duration, due, remaining, visible, viewers, ran>>

(* A player enters, or its session is taken up by another connection *)
ShipTimers(p) ==
  /\ viewers' = viewers \cup {p}
  /\ told' = [told EXCEPT ![p] = [state |-> timerState, visible |-> visible,
                                  tick |-> remainingMs]]
  /\ UNCHANGED <<timerState, duration, due, remaining, visible, ran>>

StopViewing(p) ==
  /\ p \in viewers
  /\ viewers' = viewers \ {p}
  /\ told' = [told EXCEPT ![p] = NothingTold]
  /\ UNCHANGED <<timerState, duration, due, remaining, visible, ran>>

-----------------------------------------------------------------------------
CountdownInit ==
  /\ timerState = "NotRunning"
  /\ duration = 0
  /\ due = 0
  /\ remaining = 0
  /\ visible = FALSE
  /\ viewers = {}
  /\ told = [p \in Viewers |-> NothingTold]
  /\ ran = 0

CountdownNext ==
  \/ \E d \in Durations : SetTime(d)
  \/ StartTimer
  \/ PauseTimer
  \/ HideTimer
  \/ Tick
  \/ TimedOut
  \/ Synchronize
  \/ \E p \in Viewers : ShipTimers(p)
  \/ \E p \in Viewers : StopViewing(p)

(* Time passes, and the event loop delivers a timeout. *)
CountdownFairness == WF_countdownVars(Tick) /\ WF_countdownVars(TimedOut)

CountdownSpec == CountdownInit /\ [][CountdownNext]_countdownVars /\ CountdownFairness

-----------------------------------------------------------------------------
TimerState == {"NotRunning", "Running", "Paused"}

(* Every variable holds a value of its kind. *)
CountdownTypeOK ==
  /\ timerState \in TimerState
  /\ duration \in Nat /\ due \in Nat /\ remaining \in Nat /\ ran \in Nat
  /\ visible \in BOOLEAN
  /\ viewers \subseteq Viewers
  /\ told \in [Viewers -> [state : TimerState, visible : BOOLEAN, tick : Nat]]

(* Over any sequence of pauses, restarts, hides and new durations a timer  *)
(* that was set going has run for what it does not have left any more.     *)
RestIsKept ==
  timerState # "NotRunning" => ran + remainingMs = duration

(* What a player was told is so: state and visibility exactly, the rest    *)
(* exactly while the timer does not run and never too little while it does.*)
(* Setting a timer shows it before it starts and stops it before it hides, *)
(* and players come and are taken over in any state of it.                 *)
TimerToldTruly ==
  \A p \in viewers :
    /\ told[p].state = timerState
    /\ told[p].visible = visible
    /\ IF timerState = "Running" THEN told[p].tick >= due
                                 ELSE told[p].tick = remainingMs

(* Both: no player is shown time that is not left or has been spent. *)
TimerTruth == RestIsKept /\ TimerToldTruly

(* A timer that runs does not go on for ever: it runs out unless a player  *)
(* pauses it, hides it or sets it anew first.                              *)
RunningTimerEnds ==
  (timerState = "Running" /\ ran > 0) ~> (timerState # "Running" \/ ran = 0)
=============================================================================
