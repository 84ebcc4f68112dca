-------------------------------- MODULE Stage --------------------------------
(***************************************************************************)
(* What goes on in an area beside evidence and testimony: Music, Countdown,*)
(* Speech and Conduct.  They share no variable, so nothing is lost by      *)
(* looking at one at a time: `part` picks the one that moves and the       *)
(* others keep their first state.                                          *)
(***************************************************************************)
EXTENDS Music, Countdown, Speech, Conduct

VARIABLE part

stageVars == <<part, musicVars, countdownVars, speechVars, conductVars>>

StageInit ==
  /\ MusicInit
  /\ CountdownInit
  /\ SpeechInit
  /\ ConductInit
  /\ part \in {"music", "countdown", "speech", "conduct"}
  /\ part # "music" => ~enabled /\ root = CHOOSE r \in RootLists : TRUE

StageNext ==
  /\ UNCHANGED part
  /\ \/ part = "music" /\ MusicNext /\ UNCHANGED <<countdownVars, speechVars, conductVars>>
     \/ part = "countdown" /\ CountdownNext /\ UNCHANGED <<musicVars, speechVars, conductVars>>
     \/ part = "speech" /\ SpeechNext /\ UNCHANGED <<musicVars, countdownVars, conductVars>>
     \/ part = "conduct" /\ ConductNext /\ UNCHANGED <<musicVars, countdownVars, speechVars>>

StageFairness == MusicFairness /\ CountdownFairness /\ SpeechFairness /\ ConductFairness

StageSpec == StageInit /\ [][StageNext]_stageVars /\ StageFairness

(* Every variable of the four holds a value of its kind. *)
StageTypeOK == MusicTypeOK /\ CountdownTypeOK /\ SpeechTypeOK /\ ConductTypeOK

(* Whatever waits for a timer of these parts is served in the end: the     *)
(* song in the jukebox, the end of a countdown, the flood guards and the   *)
(* absence of a silent user.                                               *)
EveryTimerFires ==
  /\ QueuedSongHasItsTurn
  /\ RunningTimerEnds
  /\ GuardsReopen
  /\ SilentUsersGoAway
=============================================================================
