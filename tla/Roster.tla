-------------------------------- MODULE Roster --------------------------------
(***************************************************************************)
(* Players in areas: membership, characters, case managers, invitations    *)
(* and locks.                                                              *)
(*                                                                         *)
(* An area (AreaData) keeps lists that repeat what the clients (AOClient)  *)
(* know of themselves: who joined, which characters are taken, who manages *)
(* the area, who is invited.  Each handler below keeps the two in step.    *)
(* The lists are sets here: the code only appends what is absent, removes  *)
(* every occurrence, and asks for membership.                              *)
(*                                                                         *)
(* An expired client has left its area but stays registered until a queued *)
(* call removes it (Session), and handlers that name a player by its       *)
(* identifier still find it.  Handlers of other sockets may run in that    *)
(* gap: the constant TargetsExpired says whether they do.                  *)
(***************************************************************************)
EXTENDS Integers, FiniteSets

CONSTANTS
  Client, Area, Character,
  NoCharacter,      \* theory::NoCharacterId, a spectator
  DefaultArea,      \* Server::defaultArea(), also the area with id 0
  Protected,        \* areas with protected_area=true
  Permissions,      \* what the role of each client allows
  TargetsExpired    \* may a handler name a client that is about to be removed

ASSUME RosterConstants ==
  /\ IsFiniteSet(Client)
  /\ NoCharacter \notin Character
  /\ DefaultArea \in Area
  /\ Protected \subseteq Area
  /\ Permissions \in [Client -> SUBSET {"CM", "UNCM", "KICK", "MUTE",
                                        "FORCE_CHARSELECT", "BYPASS_LOCKS", "SUPER"}]
  /\ TargetsExpired \in BOOLEAN

VARIABLES
  life,       \* registration and session status of a client
  area,       \* AOClient::areaId()
  character,  \* AOClient::m_character
  curse,      \* AOClient::m_charcurse_list, empty when not charcursed
  owners,     \* AreaData::m_owners
  invited,    \* AreaData::m_invited
  locked,     \* AreaData::m_locked
  taken,      \* AreaData::m_charactersTaken
  joined,     \* AreaData::m_joined_ids
  count       \* AreaData::m_playerCount

accessVars == <<owners, invited, locked>>
memberVars == <<area, character, taken, joined, count>>
vars == <<life, area, character, curse, owners, invited, locked, taken, joined, count>>

Live == {c \in Client : life[c] = "Live"}
Members(a) == {c \in Live : area[c] = a}

-----------------------------------------------------------------------------
(* Helpers *)

(* Server::getClientByID: the players a handler can name. *)
Target == {c \in Client : life[c] = "Live" \/ (TargetsExpired /\ life[c] = "Expired")}

(* AOClient::checkPermission; an owner passes for CM in its own area.      *)
Allowed(c, p) == p \in Permissions[c] \/ (p = "CM" /\ c \in owners[area[c]])

(* handleCommand lets live client c run a command that asks for p. *)
Runs(c, p) == c \in Live /\ Allowed(c, p)

With(f, a, S) == [f EXCEPT ![a] = @ \cup S]
Without(f, a, S) == [f EXCEPT ![a] = @ \ S]

(* Mistakes in the removal of an owner. *)
KeepInvitation(gone) ==
  /\ owners' = [a \in Area |-> owners[a] \ gone[a]]
  /\ UNCHANGED invited
  /\ locked' = [a \in Area |-> IF gone[a] # {} /\ owners[a] \subseteq gone[a]
                               THEN "Unlocked" ELSE locked[a]]

KeepLock(gone) ==
  /\ owners' = [a \in Area |-> owners[a] \ gone[a]]
  /\ invited' = [a \in Area |-> invited[a] \ gone[a]]
  /\ UNCHANGED locked

(* AreaData::removeOwner of the clients gone[a] in each area a: they lose  *)
(* ownership and invitation, and an area left without owner opens.         *)
RemoveOwners(gone) ==
  /\ owners' = [a \in Area |-> owners[a] \ gone[a]]
  /\ invited' = [a \in Area |-> invited[a] \ gone[a]]
  /\ locked' = [a \in Area |-> IF gone[a] # {} /\ owners[a] \subseteq gone[a]
                               THEN "Unlocked" ELSE locked[a]]

InArea(a, S) == [b \in Area |-> IF b = a THEN S ELSE {}]

(* Mistake: the curse is not consulted. *)
IgnoreCurse(c, ch) == ch \notin taken[area[c]]

(* AOClient::changeCharacter: a charcursed client only takes what it is    *)
(* cursed to, and nobody takes what the area lists as taken; the character *)
(* given up is free again.                                                 *)
MayTake(c, ch) ==
  /\ ch = NoCharacter \/ curse[c] = {} \/ ch \in curse[c]
  /\ ch \notin taken[area[c]]

(* Mistakes: the old character stays listed, a spectator is listed. *)
KeepOld(c, ch) ==
  IF MayTake(c, ch)
  THEN /\ character' = [character EXCEPT ![c] = ch]
       /\ taken' = [taken EXCEPT ![area[c]] = @ \cup ({ch} \ {NoCharacter})]
  ELSE UNCHANGED <<character, taken>>

ListSpectator(c, ch) ==
  IF MayTake(c, ch)
  THEN /\ character' = [character EXCEPT ![c] = ch]
       /\ taken' = [taken EXCEPT ![area[c]] = (@ \ {character[c]}) \cup {ch}]
  ELSE UNCHANGED <<character, taken>>

TakeCharacter(c, ch) ==
  IF MayTake(c, ch)
  THEN /\ character' = [character EXCEPT ![c] = ch]
       /\ taken' = [taken EXCEPT ![area[c]] =
                      (@ \ {character[c]}) \cup ({ch} \ {NoCharacter})]
  ELSE UNCHANGED <<character, taken>>

MayEnter(c, a) ==
  locked[a] # "Locked" \/ c \in invited[a] \/ Allowed(c, "BYPASS_LOCKS")

(* AOClient::changeArea to a, for those of S that are elsewhere and may    *)
(* enter, one after the other.  A character is lost when the area lists it *)
(* as taken or another arrival has it already.                             *)
MoveAll(S, a) ==
  LET movers == {c \in S : area[c] # a /\ MayEnter(c, a)}
      leaving(b) == {c \in movers : area[c] = b}
      characters(T) == {character[c] : c \in T} \ {NoCharacter}
      first(ch) == CHOOSE c \in movers : character[c] = ch
      keeps(c) == character[c] \notin taken[a] /\ first(character[c]) = c IN
  /\ area' = [c \in Client |-> IF c \in movers THEN a ELSE area[c]]
  /\ character' = [c \in Client |-> IF c \in movers /\ ~keeps(c)
                                    THEN NoCharacter ELSE character[c]]
  /\ taken' = [b \in Area |-> IF b = a THEN taken[a] \cup characters(movers)
                              ELSE taken[b] \ characters(leaving(b))]
  /\ joined' = [b \in Area |-> IF b = a THEN joined[a] \cup movers
                               ELSE joined[b] \ leaving(b)]
  /\ count' = [b \in Area |-> IF b = a THEN count[a] + Cardinality(movers)
                              ELSE count[b] - Cardinality(leaving(b))]

-----------------------------------------------------------------------------
Init ==
  /\ life = [c \in Client |-> "Absent"]
  /\ area = [c \in Client |-> DefaultArea]
  /\ character = [c \in Client |-> NoCharacter]
  /\ curse = [c \in Client |-> {}]
  /\ owners = [a \in Area |-> {}]
  /\ invited = [a \in Area |-> {}]
  /\ locked = [a \in Area |-> "Unlocked"]
  /\ taken = [a \in Area |-> {}]
  /\ joined = [a \in Area |-> {}]
  /\ count = [a \in Area |-> 0]

(* AOClient::beginSession: a new client appears in the default area, even  *)
(* when that is locked.                                                    *)
Join(c) ==
  /\ life[c] = "Absent"
  /\ life' = [life EXCEPT ![c] = "Live"]
  /\ joined' = With(joined, DefaultArea, {c})
  /\ count' = [count EXCEPT ![DefaultArea] = @ + 1]
  /\ UNCHANGED <<area, character, curse, accessVars, taken>>

(* Mistake: the area is not told. *)
LeaveListed(S) == UNCHANGED <<taken, joined, count>>

(* AreaData::removeClient of every client of S from the area it is in.     *)
LeaveArea(S) ==
  LET leaving(a) == {c \in S : area[c] = a} IN
  /\ taken' = [a \in Area |-> taken[a] \ {character[c] : c \in leaving(a)}]
  /\ joined' = [a \in Area |-> joined[a] \ leaving(a)]
  /\ count' = [a \in Area |-> count[a] - Cardinality(leaving(a))]

(* AOClient::markExpired, for every client one handler ends. *)
Expire(S) ==
  /\ S # {} /\ S \subseteq Live
  /\ LeaveArea(S)
  /\ RemoveOwners([a \in Area |-> S])
  /\ life' = [c \in Client |-> IF c \in S THEN "Expired" ELSE life[c]]
  /\ UNCHANGED <<area, character, curse>>

(* The client object is destroyed; its identifier starts afresh. *)
Discard(c) ==
  /\ life' = [life EXCEPT ![c] = "Absent"]
  /\ area' = [area EXCEPT ![c] = DefaultArea]
  /\ character' = [character EXCEPT ![c] = NoCharacter]
  /\ curse' = [curse EXCEPT ![c] = {}]
  /\ UNCHANGED <<accessVars, taken, joined, count>>

(* AOClientRegistry::remove: the object goes, the areas are not told.      *)
Unregister(c) == life[c] = "Expired" /\ Discard(c)

(* /area and the ChangeArea packet *)
ChangeArea(c, a) ==
  /\ c \in Live /\ area[c] # a /\ MayEnter(c, a)
  /\ MoveAll({c}, a)
  /\ UNCHANGED <<life, curse, accessVars>>

(* The ChangeCharacter packet, /switch, /randomchar and /charselect *)
ChangeCharacter(c, ch) ==
  /\ c \in Live
  /\ TakeCharacter(c, ch)
  /\ UNCHANGED <<life, area, curse, accessVars, joined, count>>

-----------------------------------------------------------------------------
(* Commands of case managers *)

Unprotected(c) == area[c] \notin Protected \/ "SUPER" \in Permissions[c]

AddOwner(a, c) ==
  /\ owners' = With(owners, a, {c})
  /\ invited' = With(invited, a, {c})
  /\ UNCHANGED <<life, curse, memberVars, locked>>

CM(c) ==
  /\ c \in Live /\ Unprotected(c)
  /\ owners[area[c]] = {}
  /\ AddOwner(area[c], c)

(* An owner names another, who may be anywhere. *)
CMOther(c, d) ==
  /\ c \in Live /\ Unprotected(c)
  /\ c \in owners[area[c]] /\ d \in Target \ owners[area[c]]
  /\ AddOwner(area[c], d)

UnCM(c) ==
  /\ Runs(c, "CM") /\ owners[area[c]] # {}
  /\ RemoveOwners(InArea(area[c], {c}))
  /\ UNCHANGED <<life, curse, memberVars>>

UnCMOther(c, d) ==
  /\ Runs(c, "CM") /\ Allowed(c, "UNCM")
  /\ d \in owners[area[c]] \cap Target
  /\ RemoveOwners(InArea(area[c], {d}))
  /\ UNCHANGED <<life, curse, memberVars>>

UnCMAll(c) ==
  /\ Runs(c, "CM") /\ Allowed(c, "UNCM")
  /\ RemoveOwners(InArea(area[c], owners[area[c]] \ {c}))
  /\ UNCHANGED <<life, curse, memberVars>>

Invite(c, d) ==
  /\ Runs(c, "CM") /\ d \in Target
  /\ invited' = With(invited, area[c], {d})
  /\ UNCHANGED <<life, curse, memberVars, owners, locked>>

UnInvite(c, d) ==
  /\ Runs(c, "CM") /\ d \in Target \ owners[area[c]]
  /\ invited' = Without(invited, area[c], {d})
  /\ UNCHANGED <<life, curse, memberVars, owners, locked>>

(* /area_lock and /area_spectate invite everybody registered in the area.  *)
Close(c, status) ==
  /\ Runs(c, "CM") /\ locked[area[c]] # status
  /\ locked' = [locked EXCEPT ![area[c]] = status]
  /\ invited' = With(invited, area[c], {d \in Target : area[d] = area[c]})
  /\ UNCHANGED <<life, curse, memberVars, owners>>

Lock(c) == Close(c, "Locked")
Spectatable(c) == Close(c, "Spectatable")

UnLock(c) ==
  /\ Runs(c, "CM") /\ locked[area[c]] # "Unlocked"
  /\ locked' = [locked EXCEPT ![area[c]] = "Unlocked"]
  /\ UNCHANGED <<life, curse, memberVars, owners, invited>>

(* Mistake: case managers can be kicked as well. *)
OwnersToo(c) == {d \in Target : area[d] = area[c]}

(* Whom /area_kick reaches: the others in the area, but no owner. *)
Kickable(c) == {d \in Target : area[d] = area[c] /\ d \notin owners[area[c]]}

(* Only a moderator chooses where the kicked go.  They are uninvited even  *)
(* when the area they are sent to is locked and they stay.                 *)
KickFrom(c, S, a) ==
  /\ Runs(c, "CM")
  /\ a = DefaultArea \/ Allowed(c, "KICK")
  /\ MoveAll(S, a)
  /\ invited' = Without(invited, area[c], S)
  /\ UNCHANGED <<life, curse, owners, locked>>

AreaKick(c, d, a) == c \in Live /\ d \in Kickable(c) /\ KickFrom(c, {d}, a)

AreaKickAll(c, a) == c \in Live /\ KickFrom(c, Kickable(c) \ {c}, a)

-----------------------------------------------------------------------------
(* Commands of moderators about characters *)

(* The target is cursed to the characters of L, its own by default, and    *)
(* loses any other.                                                        *)
CharCurse(c, d, L) ==
  /\ Runs(c, "MUTE") /\ d \in Target
  /\ curse[d] = {} /\ L # {}
  /\ IF character[d] \in L THEN UNCHANGED <<character, taken>>
     ELSE TakeCharacter(d, NoCharacter)
  /\ curse' = [curse EXCEPT ![d] = L]
  /\ UNCHANGED <<life, area, accessVars, joined, count>>

UnCharCurse(c, d) ==
  /\ Runs(c, "MUTE") /\ d \in Target
  /\ curse[d] # {}
  /\ curse' = [curse EXCEPT ![d] = {}]
  /\ UNCHANGED <<life, accessVars, memberVars>>

ForceCharSelect(c, d) ==
  /\ Runs(c, "FORCE_CHARSELECT") /\ d \in Target
  /\ TakeCharacter(d, NoCharacter)
  /\ UNCHANGED <<life, area, curse, accessVars, joined, count>>

-----------------------------------------------------------------------------
Next ==
  \/ \E c \in Client :
       \/ Join(c)
       \/ Unregister(c)
       \/ \E a \in Area : ChangeArea(c, a)
       \/ \E ch \in Character \cup {NoCharacter} : ChangeCharacter(c, ch)
       \/ CM(c)
       \/ UnCM(c)
       \/ UnCMAll(c)
       \/ Lock(c)
       \/ Spectatable(c)
       \/ UnLock(c)
       \/ \E a \in Area : AreaKickAll(c, a)
       \/ \E d \in Client :
            \/ CMOther(c, d)
            \/ UnCMOther(c, d)
            \/ Invite(c, d)
            \/ UnInvite(c, d)
            \/ \E a \in Area : AreaKick(c, d, a)
            \/ \E L \in SUBSET Character : CharCurse(c, d, L)
            \/ UnCharCurse(c, d)
            \/ ForceCharSelect(c, d)
  \/ \E S \in SUBSET Client : Expire(S)

Spec == Init /\ [][Next]_vars

(* The event loop runs the queued removal. *)
FairSpec == Spec /\ \A c \in Client : WF_vars(Unregister(c))

-----------------------------------------------------------------------------
(* Properties *)

(* Every variable holds a value of its kind. *)
TypeOK ==
  /\ life \in [Client -> {"Absent", "Live", "Expired"}]
  /\ area \in [Client -> Area]
  /\ character \in [Client -> Character \cup {NoCharacter}]
  /\ curse \in [Client -> SUBSET Character]
  /\ owners \in [Area -> SUBSET Client]
  /\ invited \in [Area -> SUBSET Client]
  /\ locked \in [Area -> {"Unlocked", "Spectatable", "Locked"}]
  /\ taken \in [Area -> SUBSET Character]
  /\ joined \in [Area -> SUBSET Client]
  /\ count \in [Area -> Int]

(* Broadcasts reach exactly who is in the area: Server::broadcastToArea    *)
(* dereferences the client of every joined id, and a live client that is   *)
(* not listed would hear nothing.                                          *)
JoinedAreMembers == \A a \in Area : joined[a] = Members(a)

(* area_data.h, m_playerCount: "The amount of clients inside the area."    *)
CountIsOccupants == \A a \in Area : count[a] = Cardinality(Members(a))

(* Broadcasts and the shown number of players agree on who is there: both  *)
(* are exactly the live clients of the area, however they came or left.    *)
MembersAreCounted == JoinedAreMembers /\ CountIsOccupants

(* Nobody shares a character in an area, and the area's list of taken      *)
(* characters is exactly what its members play: none stays blocked after   *)
(* its player left, changed or was cursed.                                 *)
CharactersExclusive ==
  \A a \in Area :
    /\ taken[a] = {character[c] : c \in Members(a)} \ {NoCharacter}
    /\ \A c, d \in Members(a) :
         character[c] = character[d] /\ c # d => character[c] = NoCharacter

(* A charcursed player plays what it is cursed to, or nothing. *)
CurseHolds ==
  \A c \in Client : curse[c] # {} => character[c] \in curse[c] \cup {NoCharacter}

(* Only live players manage an area or are invited: nobody inherits the    *)
(* rights of a player that left.                                           *)
RightsAreLive == \A a \in Area : owners[a] \cup invited[a] \subseteq Live

(* Whoever manages an area can always come back into it. *)
OwnersInvited == \A a \in Area : owners[a] \subseteq invited[a]

(* When the last case manager is gone, by any route, the area is open: the *)
(* departure of those who could open it never leaves it locked.            *)
LastOwnerUnlocks ==
  [][\A a \in Area : owners[a] # {} /\ owners'[a] = {} => locked'[a] = "Unlocked"]_vars

(* Membership follows the life the sessions promise. *)
Lifecycle == INSTANCE ClientLifecycle
LifecycleSafety == Lifecycle!Spec

=============================================================================
