------------------------------ MODULE Moderation ------------------------------
(***************************************************************************)
(* Bans and kicks: the table of bans of ServerDatabase, which outlives the *)
(* program, the commands of moderators, the moderation packet, and the     *)
(* test of Connection::admitPlayer.                                        *)
(*                                                                         *)
(* Every statement of the database may fail.  A failed write is refused to *)
(* the moderator and a failed lookup to the peer, and neither changes      *)
(* anything, so failures are steps not taken.  The reason of a ban is left *)
(* out; who may run which command is a matter of Rights.                   *)
(***************************************************************************)
EXTENDS Presence, Sequences

CONSTANTS
  BanDurations,  \* seconds, of packets and of what parseTime reads
  PermanentBan,  \* theory::PermanentBanDuration
  MaxBans,       \* bound on the bans ever issued, for TLC
  MaxClock       \* bound on the time that passes, for TLC

ASSUME ModerationConstants ==
  /\ BanDurations \subseteq Int /\ PermanentBan \in Nat
  /\ MaxBans \in Nat /\ MaxClock \in Nat

VARIABLES
  bans,          \* the table bans; its key is the position
  clock,         \* QDateTime::currentSecsSinceEpoch()
  altered        \* history: the bans whose duration was updated

moderationVars == <<presence, bans, clock, altered>>

(* The condition of ServerDatabase::activeBans *)
Active(b) == ~b.revoked /\ b.issuedOn + b.duration > clock
activeBans(u) == {i \in DOMAIN bans : bans[i].subject = u /\ Active(bans[i])}

addBan(u, d) ==
  /\ Len(bans) < MaxBans
  /\ bans' = Append(bans, [subject |-> u, issuedOn |-> clock, duration |-> d,
                           revoked |-> FALSE])

revokeBan(i) == bans' = [bans EXCEPT ![i].revoked = TRUE]
setBanDuration(i, d) == bans' = [bans EXCEPT ![i].duration = d]

(* Mistake: the other clients of the user stay. *)
OnlyTheTarget(t) == {t}

(* Whom a kick of t reaches, and a ban, which no guest can be given *)
Companions(t) == IF isGuest(t) THEN {t} ELSE clientsByUserId(account[t])

-----------------------------------------------------------------------------
(* What a command takes for a duration: perma, or seconds that are never    *)
(* negative.                                                               *)
CommandDurations == BanDurations \cup {PermanentBan}
parseTime(d) == d >= 0

BanAll(m, t, d) ==
  /\ m \in InSession /\ t \in Present
  /\ ~isGuest(t)
  /\ addBan(account[t], d)
  /\ drop(Companions(t))
  /\ UNCHANGED <<clock, altered>>

Ban(m, t, d) == parseTime(d) /\ BanAll(m, t, d)

Kick(m, t) ==
  /\ m \in InSession /\ t \in Present
  /\ drop(Companions(t))
  /\ UNCHANGED <<bans, clock, altered>>

(* The packet: -1 stands for permanent, any other number is taken as it is. *)
ModAction(m, t, isKick, d) ==
  IF isKick THEN Kick(m, t)
  ELSE BanAll(m, t, IF d = -1 THEN PermanentBan ELSE d)

KickUid(m, t) ==
  /\ m \in InSession /\ t \in Present
  /\ drop({t})
  /\ UNCHANGED <<bans, clock, altered>>

KickOther(m) ==
  /\ m \in InSession
  /\ ~isGuest(m)
  /\ drop(clientsByUserId(account[m]) \ {m})
  /\ UNCHANGED <<bans, clock, altered>>

UnBan(m, i) ==
  /\ m \in InSession
  /\ ~bans[i].revoked
  /\ revokeBan(i)
  /\ UNCHANGED <<presence, clock, altered>>

(* /updateban duration: counts from the day the ban was issued, revokes    *)
(* nothing and drops nobody.                                               *)
UpdateBan(m, i, d) ==
  /\ m \in InSession
  /\ parseTime(d)
  /\ setBanDuration(i, d)
  /\ altered' = altered \cup {i}
  /\ UNCHANGED <<presence, clock>>

-----------------------------------------------------------------------------
(* Connection::admitPlayer: test and admission are one step. *)
admitPlayer(c, u) ==
  /\ u = Guest \/ activeBans(u) = {}
  /\ Enters(c, u)
  /\ UNCHANGED <<bans, clock, altered>>

(* The session ends for a reason of its own. *)
EndSession(c) ==
  /\ c \in InSession
  /\ drop({c})
  /\ UNCHANGED <<bans, clock, altered>>

Removed(c) ==
  /\ Removal(c)
  /\ UNCHANGED <<bans, clock, altered>>

TimePasses ==
  /\ clock < MaxClock
  /\ clock' = clock + 1
  /\ UNCHANGED <<presence, bans, altered>>

(* Crash or shutdown; the database is on disk. *)
StartAnew ==
  /\ ProgramEnds
  /\ UNCHANGED <<bans, clock, altered>>

-----------------------------------------------------------------------------
ModerationInit ==
  /\ PresenceInit
  /\ bans = <<>>
  /\ clock = 0
  /\ altered = {}

ModerationNext ==
  \/ \E m, t \in Clients :
       \/ \E d \in CommandDurations : Ban(m, t, d)
       \/ \E d \in BanDurations, isKick \in BOOLEAN : ModAction(m, t, isKick, d)
       \/ Kick(m, t)
       \/ KickUid(m, t)
  \/ \E m \in Clients :
       \/ KickOther(m)
       \/ \E i \in DOMAIN bans : UnBan(m, i)
       \/ \E i \in DOMAIN bans, d \in CommandDurations : UpdateBan(m, i, d)
  \/ \E c \in Clients, u \in Accounts \cup {Guest} : admitPlayer(c, u)
  \/ \E c \in Clients : EndSession(c)
  \/ \E c \in Clients : Removed(c)
  \/ TimePasses
  \/ StartAnew

ModerationSpec == ModerationInit /\ [][ModerationNext]_moderationVars

-----------------------------------------------------------------------------
(* Every variable holds a value of its kind. *)
ModerationTypeOK ==
  /\ PresenceTypeOK
  /\ bans \in Seq([subject : Accounts, issuedOn : Nat, duration : Int, revoked : BOOLEAN])
  /\ clock \in Nat
  /\ altered \subseteq DOMAIN bans

(* Nobody whose account has an active ban is in session: not another       *)
(* client of the account, not one that came while the ban was issued, nor  *)
(* after a restart.  Only a ban that was given another duration may catch  *)
(* an account in session: /updateban drops nobody.                         *)
BannedStayOut == \A c \in InSession : activeBans(account[c]) \subseteq altered
=============================================================================
