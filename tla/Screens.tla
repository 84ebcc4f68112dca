------------------------------- MODULE Screens -------------------------------
(***************************************************************************)
(* What players see of their area: its background, side, ambience, music   *)
(* and penalties, over broadcasts to an area, moves between areas, the     *)
(* queue that AOClient::shipPacket keeps for a client without connection,  *)
(* and the resumption of its session by another connection, whose program  *)
(* starts with an empty screen.                                            *)
(*                                                                         *)
(* Refusals (spectators, blocked players, locked backgrounds, free play)   *)
(* change nothing and are left out; which track plays is Music's matter,   *)
(* what members are told of it and what the area keeps of it is here.      *)
(***************************************************************************)
EXTENDS Integers, FiniteSets

CONSTANTS
  Areas,
  Persons,       \* the players
  Backgrounds,
  Sides,
  Tracks,        \* of music
  Sounds,        \* of ambience
  AmbienceOf,    \* the ambience file: the sound of a background, or None
  Penalties,     \* the values penalty packets ask for
  None,
  NoPacket

ASSUME ScreensConstants ==
  /\ AmbienceOf \in [Backgrounds -> Sounds \cup {None}]
  /\ Penalties \subseteq Int
  /\ None \notin Areas
  /\ NoPacket \notin Backgrounds \cup Sides \cup Tracks \cup Sounds \cup {None} \cup 0..10

VARIABLES
  area,          \* what the AreaData of each area holds
  aired,         \* history: the music the members of each area were sent last
  place,         \* AOClient::m_area_id of a client in session, or None
  connected,     \* the clients in session that are Active
  screen,        \* what the program of each player shows
  queued,        \* the last queued packet of each kind (_queuedPackets), or NoPacket
  unsent         \* history: what the program of each player was never sent

screenVars == <<area, aired, place, connected, screen, queued, unsent>>

Snapshot == {"background", "side", "def", "pro"}
Joined == {"music", "ambience"}
Fields == Snapshot \cup Joined

In(a) == {p \in Persons : place[p] = a}
Blank == [f \in Fields |-> None]
Nothing == [f \in Fields |-> NoPacket]

Over(old, fs, new) == [f \in Fields |-> IF f \in fs THEN new[f] ELSE old[f]]

(* Mistake: nothing is kept for a client without connection. *)
ShipConnected(ps, fs, values) ==
  /\ screen' = [p \in Persons |-> IF p \in ps \cap connected
                                    THEN Over(screen[p], fs, values) ELSE screen[p]]
  /\ unsent' = [p \in Persons |-> IF p \in ps THEN unsent[p] \ fs ELSE unsent[p]]
  /\ UNCHANGED queued

(* shipPacket to each of ps: sent to a connected client, else queued. *)
Ship(ps, fs, values) ==
  /\ screen' = [p \in Persons |-> IF p \in ps \cap connected
                                    THEN Over(screen[p], fs, values) ELSE screen[p]]
  /\ queued' = [p \in Persons |-> IF p \in ps \ connected
                                    THEN Over(queued[p], fs, values) ELSE queued[p]]
  /\ unsent' = [p \in Persons |-> IF p \in ps THEN unsent[p] \ fs ELSE unsent[p]]

(* The area changes and its members are sent some of its fields. *)
Change(a, new, fs) ==
  /\ area' = [area EXCEPT ![a] = new]
  /\ Ship(In(a), fs, new)
  /\ UNCHANGED <<aired, place, connected>>

-----------------------------------------------------------------------------
(* /bg: the background brings its own ambience, or silence *)
setBackground(a, b) ==
  [area[a] EXCEPT !.background = b, !.ambience = AmbienceOf[b]]
SetBackground(a, b) ==
  Change(a, setBackground(a, b), {"background", "side", "ambience"})

(* /setside *)
SetSide(a, s) == Change(a, [area[a] EXCEPT !.side = s], {"background", "side"})

(* Mistake: a bar beyond its end. *)
Unclamped(v) == v

Clamp(v) == IF v < 0 THEN 0 ELSE IF v > 10 THEN 10 ELSE v
changeHP(a, bar, v) == [area[a] EXCEPT ![bar] = Clamp(v)]
Penalty(a, bar, v) == Change(a, changeHP(a, bar, v), {"def", "pro"})

(* The members are sent a track; what the area keeps is another matter. *)
broadcastMusic(a, sent, kept) ==
  /\ area' = [area EXCEPT ![a].music = kept]
  /\ aired' = [aired EXCEPT ![a] = sent]
  /\ Ship(In(a), {"music"}, [area[a] EXCEPT !.music = sent])
  /\ UNCHANGED <<place, connected>>

(* /play, music packets that repeat, and the first song of a jukebox *)
SetMusic(a, t) == broadcastMusic(a, t, t)

(* A music packet that does not repeat: members hear what is not kept. *)
PlayOnce(a, t) == broadcastMusic(a, t, None)

(* The jukebox sends the song it drew, or silence when it is not found, and *)
(* keeps it only if it has a length.                                        *)
SwitchJukeboxSong(a, t, length) ==
  broadcastMusic(a, t, IF t # None /\ length > 0 THEN t ELSE None)

(* /play_ambience *)
SetAmbience(a, t) == Change(a, [area[a] EXCEPT !.ambience = t], {"ambience"})

(* AOClient::beginSession: snapshot, then AreaData::addClient *)
BeginSession(p, a) ==
  /\ place[p] = None
  /\ place' = [place EXCEPT ![p] = a]
  /\ connected' = connected \cup {p}
  /\ screen' = [screen EXCEPT ![p] = area[a]]
  /\ unsent' = [unsent EXCEPT ![p] = {}]
  /\ UNCHANGED <<area, aired, queued>>

(* AOClient::changeArea, also of a client without connection (/kick_from) *)
MoveTo(p, a) ==
  /\ place[p] \notin {None, a}
  /\ place' = [place EXCEPT ![p] = a]
  /\ Ship({p}, Fields, area[a])
  /\ UNCHANGED <<area, aired, connected>>

LoseConnection(p) ==
  /\ p \in connected
  /\ connected' = connected \ {p}
  /\ screen' = [screen EXCEPT ![p] = Blank]
  /\ unsent' = [unsent EXCEPT ![p] = Fields]
  /\ UNCHANGED <<area, aired, place, queued>>

(* The queue, then the snapshot. *)
shipSnapshot(p, old) ==
  LET flushed == [f \in Fields |-> IF queued[p][f] # NoPacket THEN queued[p][f] ELSE old[f]]
  IN /\ screen' = [screen EXCEPT ![p] = Over(flushed, Snapshot, area[place[p]])]
     /\ queued' = [queued EXCEPT ![p] = Nothing]

(* Another connection resumes the session, or takes it from a connected one *)
ResumeSession(p) ==
  /\ place[p] # None
  /\ connected' = connected \cup {p}
  /\ shipSnapshot(p, Blank)
  /\ unsent' = [unsent EXCEPT ![p] = (IF p \in connected THEN Fields ELSE @) \ Snapshot]
  /\ UNCHANGED <<area, aired, place>>

LeaveGame(p) ==
  /\ place[p] # None
  /\ place' = [place EXCEPT ![p] = None]
  /\ connected' = connected \ {p}
  /\ screen' = [screen EXCEPT ![p] = Blank]
  /\ queued' = [queued EXCEPT ![p] = Nothing]
  /\ unsent' = [unsent EXCEPT ![p] = Fields]
  /\ UNCHANGED <<area, aired>>

-----------------------------------------------------------------------------
ScreensInit ==
  /\ area \in [Areas -> {[background |-> b, side |-> None, music |-> None,
                          ambience |-> None, def |-> 10, pro |-> 10] : b \in Backgrounds}]
  /\ aired = [a \in Areas |-> None]
  /\ place = [p \in Persons |-> None]
  /\ connected = {}
  /\ screen = [p \in Persons |-> Blank]
  /\ queued = [p \in Persons |-> Nothing]
  /\ unsent = [p \in Persons |-> Fields]

(* Commands and packets come from players of the area. *)
ScreensNext ==
  \/ \E a \in Areas : In(a) # {} /\
       \/ \E b \in Backgrounds : SetBackground(a, b)
       \/ \E s \in Sides \cup {None} : SetSide(a, s)
       \/ \E bar \in {"def", "pro"}, v \in Penalties : Penalty(a, bar, v)
       \/ \E t \in Tracks \cup {None} : SetMusic(a, t)
       \/ \E t \in Tracks \cup {None} : PlayOnce(a, t)
       \/ \E t \in Tracks \cup {None}, length \in 0..1 : SwitchJukeboxSong(a, t, length)
       \/ \E t \in Sounds \cup {None} : SetAmbience(a, t)
  \/ \E p \in Persons, a \in Areas : BeginSession(p, a)
  \/ \E p \in Persons, a \in Areas : MoveTo(p, a)
  \/ \E p \in Persons : LoseConnection(p)
  \/ \E p \in Persons : ResumeSession(p)
  \/ \E p \in Persons : LeaveGame(p)

ScreensSpec == ScreensInit /\ [][ScreensNext]_screenVars

-----------------------------------------------------------------------------
AreaValue ==
  [background : Backgrounds, side : Sides \cup {None}, music : Tracks \cup {None},
   ambience : Sounds \cup {None}, def : 0..10, pro : 0..10]

(* Every variable holds a value of its kind. *)
ScreensTypeOK ==
  /\ area \in [Areas -> AreaValue]
  /\ aired \in [Areas -> Tracks \cup {None}]
  /\ place \in [Persons -> Areas \cup {None}]
  /\ connected \subseteq {p \in Persons : place[p] # None}
  /\ unsent \in [Persons -> SUBSET Fields]

(* What a member may see of an area that holds no music: silence, or the   *)
(* last track its members were sent, if the area did not keep that one.    *)
Shown(a, f) ==
  {area[a][f]} \cup (IF f = "music" /\ area[a].music = None THEN {aired[a]} ELSE {})

(* Wherever a connected player was moved and whatever changed while it was *)
(* away, it sees its area as it is, and hears another music only if the    *)
(* members of its area were sent one last that the area did not keep.      *)
(* Only a program that took up a session may lack music and ambience,      *)
(* which the snapshot does not hold: but not when they were sent while     *)
(* nobody was connected.                                                   *)
ScreensShowTheArea ==
  \A p \in connected :
    /\ unsent[p] \subseteq Joined
    /\ \A f \in Fields \ unsent[p] : screen[p][f] \in Shown(place[p], f)
=============================================================================
