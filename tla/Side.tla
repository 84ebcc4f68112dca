-------------------------------- MODULE Side --------------------------------
(***************************************************************************)
(* What is recorded and what is shown: Testimony, Moderation, Rights and   *)
(* Screens.  They share no variable but the clients in session, so `side`  *)
(* picks the one that moves and the others keep their first state.         *)
(***************************************************************************)
EXTENDS Testimony, Moderation, Rights, Screens

VARIABLE side

moderationOnly == <<bans, clock, altered>>
rightsOnly == <<recorded, config, role, stale>>
sideVars == <<side, vars, moderationVars, rightsOnly, screenVars>>

SideInit ==
  /\ Init
  /\ ModerationInit
  /\ RightsInit
  /\ ScreensInit
  /\ side \in {"testimony", "moderation", "rights", "screens"}
  /\ side # "rights" => superUserIds = {} /\ roleFile = <<>> /\ extensionFile = <<>>

SideNext ==
  /\ UNCHANGED side
  /\ \/ side = "testimony" /\ Next /\ UNCHANGED <<moderationVars, rightsOnly, screenVars>>
     \/ side = "moderation" /\ ModerationNext /\ UNCHANGED <<vars, rightsOnly, screenVars>>
     \/ side = "rights" /\ RightsNext /\ UNCHANGED <<vars, moderationOnly, screenVars>>
     \/ side = "screens" /\ ScreensNext /\ UNCHANGED <<vars, moderationVars, rightsOnly>>

SideSpec == SideInit /\ [][SideNext]_sideVars

(* Every variable of the four holds a value of its kind. *)
SideTypeOK == TypeOK /\ ModerationTypeOK /\ RightsTypeOK /\ ScreensTypeOK
=============================================================================
