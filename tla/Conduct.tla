------------------------------- MODULE Conduct -------------------------------
(***************************************************************************)
(* The packets of the players of one area outside of in-character speech:  *)
(* the rate limit and the AFK timer that every packet passes, chat out of  *)
(* character and the commands that go through it, judge controls, music    *)
(* requests, calls for a moderator, and the blocks, wishes and settings    *)
(* that decide whom they reach.                                            *)
(*                                                                         *)
(* Time passes in seconds.  Who may use which command is Roster's and      *)
(* Moderation's matter.                                                    *)
(***************************************************************************)
EXTENDS Integers, FiniteSets

CONSTANTS
  Users,
  Staff,         \* the users that logged in as moderators
  HardLimit,     \* ConfigManager::packetRateLimitHard(), 0 for none
  AfkTime,       \* ConfigManager::afkTimeout()
  SplashTime,    \* the seconds between two splashes of a user
  MaxDeviations  \* bound on blocks, wishes and settings off their default

ASSUME ConductConstants ==
  /\ Staff \subseteq Users
  /\ HardLimit \in Nat /\ AfkTime \in Nat /\ SplashTime \in Nat /\ MaxDeviations \in Nat

VARIABLES
  online,        \* the clients in session
  packetCount,   \* AOClient::packet_count
  away,          \* the clients whose m_status is Away
  afkDue,        \* m_afk_timer: NotStarted, or the rest of its time
  splashDue,     \* the rest of the time after m_last_wtce_time
  blocked,       \* m_is_ooc_muted, m_is_wtce_blocked, m_is_dj_blocked
  wishes,        \* what a user switched: m_pm_mute, m_advert_enabled, m_global_enabled
  settings,      \* what is switched in AreaData
  act            \* history: the packet of the step just taken

conductVars ==
  <<online, packetCount, away, afkDue, splashDue, blocked, wishes, settings, act>>
rules == <<blocked, wishes, settings>>

NotStarted == -1
NoAct == [by |-> {}, chat |-> FALSE, to |-> {}]
Block == {"ooc_muted", "wtce_blocked", "dj_blocked"}
(* Deviations from a new client: it takes private messages, adverts, /g. *)
Wish == {"no_pm", "no_adverts", "no_global"}
(* Deviations from the area as it was configured. *)
Setting == {"toggleMusic", "togglePlay", "toggleWtceAllowed", "toggleShoutAllowed",
            "toggleImmediate", "toggleIniswap", "toggleAreaMessageJoin",
            "toggleIgnoreBgList", "toggleBgLock"}

Deviations ==
  Cardinality({x \in Users \X Block : x[2] \in blocked[x[1]]})
  + Cardinality({x \in Users \X Wish : x[2] \in wishes[x[1]]})
  + Cardinality(settings)
Spare == Deviations < MaxDeviations

-----------------------------------------------------------------------------
(* AOClient::processPendingPacket: a packet within the limit is handled, it *)
(* ends the absence of its sender and starts the AFK timer anew.            *)
OverLimit(u) == HardLimit > 0 /\ packetCount[u] + 1 >= HardLimit

Arrive(u) ==
  /\ u \in online
  /\ ~OverLimit(u)
  /\ packetCount' = [packetCount EXCEPT ![u] = IF HardLimit > 0 THEN @ + 1 ELSE @]
  /\ afkDue' = [afkDue EXCEPT ![u] = AfkTime]
  /\ UNCHANGED online

Returns(u) == away' = away \ {u}

(* Mistake: a muted user gets its commands through. *)
Unmuted(u) == Arrive(u)

(* A chat packet of u; a muted user is told so. *)
OocMessage(u) ==
  /\ Arrive(u)
  /\ "ooc_muted" \notin blocked[u]

Refused(u) ==
  /\ Arrive(u)
  /\ "ooc_muted" \in blocked[u]
  /\ Returns(u)
  /\ act' = [by |-> {u}, chat |-> TRUE, to |-> {}]
  /\ UNCHANGED <<splashDue, rules>>

Say(u, to) ==
  /\ OocMessage(u)
  /\ Returns(u)
  /\ act' = [by |-> {u}, chat |-> TRUE, to |-> to]
  /\ UNCHANGED <<splashDue, rules>>

SayInArea(u) == Say(u, online)
G(u) == Say(u, {q \in online : "no_global" \notin wishes[q]})
Need(u) == Say(u, {q \in online : "no_adverts" \notin wishes[q]})
PM(u, q) == q \in online /\ "no_pm" \notin wishes[q] /\ Say(u, {q})
M(u) == Say(u, online \cap Staff)
GM(u) == Say(u, online \cap Staff)
LM(u) == Say(u, online)
CaseManagersSay(u) == Say(u, online)

(* A command that changes one of the rules. *)
Command(u) ==
  /\ OocMessage(u)
  /\ Returns(u)
  /\ act' = [by |-> {u}, chat |-> TRUE, to |-> {u}]
  /\ UNCHANGED splashDue

Afk(u) ==
  /\ OocMessage(u)
  /\ away' = away \cup {u}
  /\ act' = [by |-> {u}, chat |-> TRUE, to |-> {u}]
  /\ UNCHANGED <<splashDue, rules>>

Impede(u, b, q) ==
  /\ Command(u)
  /\ u \in Staff
  /\ q \in online
  /\ Spare
  /\ blocked' = [blocked EXCEPT ![q] = @ \cup {b}]
  /\ UNCHANGED <<wishes, settings>>

Permit(u, b, q) ==
  /\ Command(u)
  /\ u \in Staff
  /\ q \in online
  /\ blocked' = [blocked EXCEPT ![q] = @ \ {b}]
  /\ UNCHANGED <<wishes, settings>>

OocMute(u, q) == Impede(u, "ooc_muted", q)
OocUnMute(u, q) == Permit(u, "ooc_muted", q)
BlockWtce(u, q) == Impede(u, "wtce_blocked", q)
UnBlockWtce(u, q) == Permit(u, "wtce_blocked", q)
BlockDj(u, q) == Impede(u, "dj_blocked", q)
UnBlockDj(u, q) == Permit(u, "dj_blocked", q)

Toggled(x, set) == IF x \in set THEN set \ {x} ELSE set \cup {x}

Wishes(u, w) ==
  /\ Command(u)
  /\ Spare \/ w \in wishes[u]
  /\ wishes' = [wishes EXCEPT ![u] = Toggled(w, @)]
  /\ UNCHANGED <<blocked, settings>>

MutePM(u) == Wishes(u, "no_pm")
ToggleAdverts(u) == Wishes(u, "no_adverts")
ToggleGlobal(u) == Wishes(u, "no_global")

Toggle(u, s) ==
  /\ Command(u)
  /\ Spare \/ s \in settings
  /\ settings' = Toggled(s, settings)
  /\ UNCHANGED <<blocked, wishes>>

ToggleMusic(u) == Toggle(u, "toggleMusic")
AllowPlay(u) == Toggle(u, "togglePlay")
ToggleWtce(u) == Toggle(u, "toggleWtceAllowed")
ToggleShouts(u) == Toggle(u, "toggleShoutAllowed")
ForceImmediate(u) == Toggle(u, "toggleImmediate")
AllowIniswap(u) == Toggle(u, "toggleIniswap")
ToggleAreaMessageOnJoin(u) == Toggle(u, "toggleAreaMessageJoin")
ClearAreaMessage(u) == "toggleAreaMessageJoin" \in settings /\ Toggle(u, "toggleAreaMessageJoin")
IgnoreBgList(u) == Toggle(u, "toggleIgnoreBgList")
BgLock(u) == "toggleBgLock" \notin settings /\ Toggle(u, "toggleBgLock")
BgUnlock(u) == "toggleBgLock" \in settings /\ Toggle(u, "toggleBgLock")

-----------------------------------------------------------------------------
(* Packets that are no chat *)

Other(u, to) ==
  /\ Arrive(u)
  /\ Returns(u)
  /\ act' = [by |-> {u}, chat |-> FALSE, to |-> to]
  /\ UNCHANGED rules

Splash(u) ==
  /\ "wtce_blocked" \notin blocked[u]
  /\ "toggleWtceAllowed" \notin settings
  /\ splashDue[u] = 0
  /\ Other(u, online)
  /\ splashDue' = [splashDue EXCEPT ![u] = SplashTime]

JudgePenalty(u) ==
  /\ "wtce_blocked" \notin blocked[u]
  /\ Other(u, online)
  /\ UNCHANGED splashDue

PlayMusicRequest(u) ==
  /\ "dj_blocked" \notin blocked[u]
  /\ "toggleMusic" \notin settings \/ u \in Staff
  /\ Other(u, online)
  /\ UNCHANGED splashDue

ModCall(u) ==
  /\ Other(u, online \cap Staff)
  /\ UNCHANGED splashDue

-----------------------------------------------------------------------------
(* A new client, without a packet and its AFK timer not started *)
Enter(u) ==
  /\ u \notin online
  /\ online' = online \cup {u}
  /\ act' = NoAct
  /\ UNCHANGED <<packetCount, away, afkDue, splashDue, rules>>

(* The client goes, and all it was with it. *)
Quit(u) ==
  /\ online' = online \ {u}
  /\ packetCount' = [packetCount EXCEPT ![u] = 0]
  /\ away' = away \ {u}
  /\ afkDue' = [afkDue EXCEPT ![u] = NotStarted]
  /\ splashDue' = [splashDue EXCEPT ![u] = 0]
  /\ blocked' = [blocked EXCEPT ![u] = {}]
  /\ wishes' = [wishes EXCEPT ![u] = {}]
  /\ act' = NoAct
  /\ UNCHANGED settings

Leaves(u) == u \in online /\ Quit(u)
TooManyPackets(u) == u \in online /\ OverLimit(u) /\ Quit(u)

(* A second: counts start anew, timers run on; they may be late. *)
Second ==
  /\ packetCount' = [u \in Users |-> 0]
  /\ afkDue' = [u \in Users |-> IF afkDue[u] > 0 THEN afkDue[u] - 1 ELSE afkDue[u]]
  /\ splashDue' = [u \in Users |-> IF splashDue[u] > 0 THEN splashDue[u] - 1 ELSE 0]
  /\ act' = NoAct
  /\ UNCHANGED <<online, away, rules>>

onAfkTimeout(u) ==
  /\ afkDue[u] = 0
  /\ afkDue' = [afkDue EXCEPT ![u] = NotStarted]
  /\ away' = away \cup {u}
  /\ act' = NoAct
  /\ UNCHANGED <<online, packetCount, splashDue, rules>>

-----------------------------------------------------------------------------
ConductInit ==
  /\ online = {}
  /\ packetCount = [u \in Users |-> 0]
  /\ away = {}
  /\ afkDue = [u \in Users |-> NotStarted]
  /\ splashDue = [u \in Users |-> 0]
  /\ blocked = [u \in Users |-> {}]
  /\ wishes = [u \in Users |-> {}]
  /\ settings = {}
  /\ act = NoAct

Chat(u) ==
  \/ Refused(u) \/ SayInArea(u) \/ G(u) \/ Need(u) \/ \E q \in Users : PM(u, q)
  \/ M(u) \/ GM(u) \/ LM(u) \/ CaseManagersSay(u) \/ Afk(u)

Govern(u) ==
  \/ \E q \in Users : OocMute(u, q) \/ OocUnMute(u, q) \/ BlockWtce(u, q)
       \/ UnBlockWtce(u, q) \/ BlockDj(u, q) \/ UnBlockDj(u, q)
  \/ MutePM(u) \/ ToggleAdverts(u) \/ ToggleGlobal(u)
  \/ ToggleMusic(u) \/ AllowPlay(u) \/ ToggleWtce(u) \/ ToggleShouts(u)
  \/ ForceImmediate(u) \/ AllowIniswap(u) \/ ToggleAreaMessageOnJoin(u)
  \/ ClearAreaMessage(u) \/ IgnoreBgList(u) \/ BgLock(u) \/ BgUnlock(u)

ConductNext ==
  \/ \E u \in Users : Chat(u)
  \/ \E u \in Users : Govern(u)
  \/ \E u \in Users : Splash(u) \/ JudgePenalty(u) \/ PlayMusicRequest(u) \/ ModCall(u)
  \/ \E u \in Users : Enter(u) \/ Leaves(u) \/ TooManyPackets(u) \/ onAfkTimeout(u)
  \/ Second

ConductFairness ==
  /\ WF_conductVars(Second)
  /\ \A u \in Users : WF_conductVars(onAfkTimeout(u))

ConductSpec == ConductInit /\ [][ConductNext]_conductVars /\ ConductFairness

-----------------------------------------------------------------------------
(* Every variable holds a value of its kind. *)
ConductTypeOK ==
  /\ online \subseteq Users /\ away \subseteq Users
  /\ packetCount \in [Users -> Nat]
  /\ afkDue \in [Users -> Nat \cup {NotStarted}]
  /\ splashDue \in [Users -> Nat]
  /\ blocked \in [Users -> SUBSET Block]
  /\ wishes \in [Users -> SUBSET Wish]
  /\ settings \subseteq Setting

(* While a user is muted out of character nothing it types there reaches   *)
(* anybody or changes a rule: /g, /need, /pm and every other command pass  *)
(* the same packet, the ones that would unmute it as well.                 *)
MutedTypeInVain ==
  [][\A u \in act'.by :
       "ooc_muted" \in blocked[u] /\ act'.chat => act'.to = {} /\ UNCHANGED rules]_conductVars

(* A user that stops sending is shown as away in the end, whatever it sent *)
(* before: the timer is single-shot and only packets start it.             *)
SilentUsersGoAway ==
  \A u \in Users : (afkDue[u] # NotStarted) ~> (u \in away \/ u \in act.by \/ u \notin online)
=============================================================================
