-------------------------------- MODULE Music --------------------------------
(***************************************************************************)
(* The music of one area: MusicManager (the list of the server, the list   *)
(* players add, what the members of the area are shown of both), the       *)
(* jukebox of AreaData with its queue and timer, and the commands and      *)
(* packets that drive them.                                                *)
(*                                                                         *)
(* A file name is a record of what the code tests in it.  The length of a  *)
(* track matters only as positive or not.  Who may ask (Conduct for the    *)
(* blocked and the switches of the area, Roster for spectators and locked  *)
(* areas) is left out: a refusal changes nothing here.                     *)
(***************************************************************************)
EXTENDS Integers, SequencesExt

CONSTANTS
  Players,
  Words,         \* what names are made of
  RootLists,     \* what config/music.json may hold when it is read
  Files,         \* the names players may type
  Cdns,          \* ConfigManager::cdnList()
  Categories,    \* names without a dot for categories
  MaxTracks,     \* bound on the custom tracks, for TLC
  MaxLists       \* bound on the custom categories, for TLC

File == [title : Words, site : Words, ext : Words]
Track == [file : File, length : Nat]
Playlist == [name : Words, tracks : Seq(Track)]

ASSUME MusicConstants ==
  /\ {"", "opus"} \subseteq Words
  /\ RootLists \subseteq Seq(Playlist)
  /\ Files \subseteq File
  /\ Categories \subseteq Words
  /\ MaxTracks \in Nat /\ MaxLists \in Nat

VARIABLES
  enabled,       \* AreaData::m_jukebox
  queue,         \* AreaData::m_jukebox_queue
  ticking,       \* AreaData::m_jukebox_timer is active
  music,         \* AreaData::m_currentMusic
  aired,         \* history: the track members were told to play last, and whether once
  root,          \* MusicManager::m_root_list
  custom,        \* MusicManager::m_custom_lists of the area
  globalOn,      \* MusicManager::m_global_enabled of the area
  inside,        \* the members of the area
  shown          \* the list each of them was sent last

lists == <<root, custom, globalOn, inside, shown>>
jukebox == <<enabled, queue, ticking, music, aired>>
musicVars == <<jukebox, lists>>

Plain == "file"
NoFile == [title |-> "", site |-> Plain, ext |-> ""]
Extensions == {"opus", "ogg", "mp3", "wav"}

-----------------------------------------------------------------------------
(* MusicManager *)

playlists == (IF globalOn THEN root ELSE <<>>) \o custom

(* A place is the number of a list and that of a track in it. *)
Places(pls) == UNION {{i} \X DOMAIN pls[i].tracks : i \in DOMAIN pls}
TrackAt(pls, x) == pls[x[1]].tracks[x[2]]
Precedes(x, y) == x[1] < y[1] \/ (x[1] = y[1] /\ x[2] < y[2])
Songs(pls) == {TrackAt(pls, x).file : x \in Places(pls)}

(* The place the code finds the name at, if any: the first. *)
findTrack(f, pls) ==
  {x \in Places(pls) :
     /\ TrackAt(pls, x).file = f
     /\ \A y \in Places(pls) : TrackAt(pls, y).file = f => ~Precedes(y, x)}

Known(f) == f \in Songs(playlists)
Playable(f) == \E x \in findTrack(f, playlists) : TrackAt(playlists, x).length > 0

rootContainsTrack(f) == f \in Songs(root)

validateSong(f) ==
  /\ f.site # Plain => f.site \in Cdns
  /\ f.ext \in Extensions

(* Every member is sent the list; the rest of lists keeps its value. *)
broadcastMusicList ==
  shown' = [p \in Players |-> IF p \in inside THEN playlists' ELSE shown[p]]

SetCustom(c) ==
  /\ custom' = c
  /\ UNCHANGED <<jukebox, root, globalOn, inside>>
  /\ broadcastMusicList

(* A name without any dot gets an extension; an address always has one. *)
RealName(f) == IF f.site = Plain /\ f.ext = "" THEN [f EXCEPT !.ext = "opus"] ELSE f

addCustomSong(f, length) ==
  LET real == RealName(f)
      cs == IF custom = <<>> THEN <<[name |-> "", tracks |-> <<>>]>> ELSE custom
      n == Len(cs)
  IN /\ Cardinality(Places(custom)) < MaxTracks
     /\ validateSong(real)
     /\ ~Known(real)
     /\ SetCustom([cs EXCEPT ![n].tracks = Append(@, [file |-> real, length |-> length])])

addCustomCategory(c) ==
  /\ Len(custom) < MaxLists
  /\ \A i \in DOMAIN playlists : playlists[i].name # c
  /\ SetCustom(Append(custom, [name |-> c, tracks |-> <<>>]))

(* The first category of that name, or the first track of that name. *)
removeCategory(c) ==
  \E i \in DOMAIN custom :
    /\ custom[i].name = c
    /\ \A j \in 1..i-1 : custom[j].name # c
    /\ SetCustom(RemoveAt(custom, i))

removeTrack(f) ==
  \E x \in findTrack(f, custom) :
    SetCustom([custom EXCEPT ![x[1]].tracks = RemoveAt(@, x[2])])

(* Mistake: the songs stay although the list of the server has them. *)
KeepSongs == custom

(* Of a list the entries at the positions in P, in their order. *)
Kept(s, P) ==
  LET kept[n \in 0..Len(s)] ==
        IF n = 0 THEN <<>>
        ELSE IF n \in P THEN Append(kept[n - 1], s[n]) ELSE kept[n - 1]
  IN kept[Len(s)]

(* A list without the songs of the server's. *)
UnlessRoot(pl) ==
  [pl EXCEPT !.tracks = Kept(@, {j \in DOMAIN @ : ~rootContainsTrack(@[j].file)})]

sanitiseCustomMusicList ==
  LET l_kept == [i \in DOMAIN custom |-> UnlessRoot(custom[i])]
  IN Kept(l_kept, {i \in DOMAIN l_kept : l_kept[i].name # "" \/ l_kept[i].tracks # <<>>})

toggleCustomMusicEnabled ==
  /\ globalOn' = ~globalOn
  /\ custom' = IF globalOn' THEN sanitiseCustomMusicList ELSE custom
  /\ UNCHANGED <<jukebox, root, inside>>
  /\ broadcastMusicList

clearCustomMusicList == SetCustom(<<>>)

(* No list is cleaned and nobody is told. *)
reloadRequest ==
  /\ root' \in RootLists
  /\ UNCHANGED <<jukebox, custom, globalOn, inside, shown>>

userJoinedArea(p) ==
  /\ p \notin inside
  /\ inside' = inside \cup {p}
  /\ shown' = [shown EXCEPT ![p] = playlists]
  /\ UNCHANGED <<jukebox, root, custom, globalOn>>

Leave(p) ==
  /\ p \in inside
  /\ inside' = inside \ {p}
  /\ shown' = [shown EXCEPT ![p] = <<>>]
  /\ UNCHANGED <<jukebox, root, custom, globalOn>>

(* MusicChangedPacket to the members; the callers say what the area keeps. *)
broadcastMusic(f, once) == aired' = [track |-> f, once |-> once]

-----------------------------------------------------------------------------
(* The jukebox *)

(* Mistake: the timer of a jukebox that is switched off runs on. *)
KeepTicking ==
  /\ enabled' = ~enabled
  /\ queue' = IF enabled' THEN queue ELSE <<>>
  /\ UNCHANGED <<ticking, music, aired, lists>>

toggleJukebox ==
  /\ enabled' = ~enabled
  /\ queue' = IF enabled' THEN queue ELSE <<>>
  /\ ticking' = (ticking /\ enabled')
  /\ UNCHANGED <<music, aired, lists>>

addJukeboxSong(f) ==
  /\ f \notin ToSet(queue)
  /\ Playable(f)
  /\ queue' = Append(queue, f)
  /\ IF queue = <<>>
       THEN ticking' = TRUE /\ music' = f /\ broadcastMusic(f, FALSE)
       ELSE UNCHANGED <<ticking, music, aired>>

(* What the random draw may yield: a single song stays, the last of several *)
(* is never drawn.  There is no draw from an empty queue.                   *)
Candidates ==
  IF Len(queue) = 1 THEN {1} ELSE 1..(Len(queue) - 1)

(* Mistake: without a song to play the timer stops. *)
SingleShot(f) ==
  \E i \in Candidates :
    /\ queue[i] = f
    /\ queue' = IF Len(queue) = 1 THEN queue ELSE RemoveAt(queue, i)
    /\ music' = IF Playable(f) THEN f ELSE NoFile
    /\ ticking' = Playable(f)
    /\ broadcastMusic(IF Known(f) THEN f ELSE NoFile, FALSE)
    /\ UNCHANGED <<enabled, lists>>

(* The timer repeats: when the drawn song cannot be played it is not        *)
(* restarted and fires again after its old interval.  Members are sent every*)
(* song that is found, but the area keeps only one that has a length.       *)
switchJukeboxSong(f) ==
  \E i \in Candidates :
    /\ queue[i] = f
    /\ queue' = IF Len(queue) = 1 THEN queue ELSE RemoveAt(queue, i)
    /\ music' = IF Playable(f) THEN f ELSE NoFile
    /\ ticking' = (ticking \/ Playable(f))
    /\ broadcastMusic(IF Known(f) THEN f ELSE NoFile, FALSE)
    /\ UNCHANGED <<enabled, lists>>

SongEnds(f) == ticking /\ switchJukeboxSong(f)

(* /jukebox_skip *)
JukeboxSkip(f) ==
  /\ enabled
  /\ Len(queue) >= 1
  /\ switchJukeboxSong(f)

-----------------------------------------------------------------------------
(* Commands and packets of players *)

(* PlayMusicPacket while the jukebox runs *)
RequestSong(f) ==
  /\ enabled
  /\ addJukeboxSong(f)
  /\ UNCHANGED <<enabled, lists>>

(* PlayMusicPacket otherwise: music that is not repeated is not kept. *)
PlayMusic(f, noRepeat) ==
  /\ ~enabled
  /\ f = NoFile \/ Known(f)
  /\ broadcastMusic(f, noRepeat)
  /\ music' = IF noRepeat THEN NoFile ELSE f
  /\ UNCHANGED <<enabled, queue, ticking, lists>>

(* /play: any name will do, an address must be approved, the queue of a    *)
(* running jukebox is not asked.                                           *)
Play(f) ==
  /\ f.site # Plain => validateSong(f)
  /\ broadcastMusic(f, FALSE)
  /\ music' = f
  /\ UNCHANGED <<enabled, queue, ticking, lists>>

(* /addsong: a length that is no positive number counts as none. *)
AddMusic == \E f \in Files, length \in 0..1 : addCustomSong(f, length)
AddMusicCategory == \E c \in Categories : addCustomCategory(c)
RemoveCustomMusic ==
  \/ \E c \in Categories : removeCategory(c)
  \/ \E f \in Files : removeTrack(f)

-----------------------------------------------------------------------------
MusicInit ==
  /\ enabled \in BOOLEAN
  /\ queue = <<>>
  /\ ticking = FALSE
  /\ music = NoFile
  /\ aired = [track |-> NoFile, once |-> FALSE]
  /\ root \in RootLists
  /\ custom = <<>>
  /\ globalOn = TRUE
  /\ inside = {}
  /\ shown = [p \in Players |-> <<>>]

MusicNext ==
  \/ \E f \in Files : SongEnds(f)
  \/ \E f \in Files : JukeboxSkip(f)
  \/ toggleJukebox
  \/ \E f \in Files : RequestSong(f)
  \/ \E f \in Files \cup {NoFile}, noRepeat \in BOOLEAN : PlayMusic(f, noRepeat)
  \/ \E f \in Files \cup {NoFile} : Play(f)
  \/ AddMusic
  \/ AddMusicCategory
  \/ RemoveCustomMusic
  \/ toggleCustomMusicEnabled
  \/ clearCustomMusicList
  \/ reloadRequest
  \/ \E p \in Players : userJoinedArea(p)
  \/ \E p \in Players : Leave(p)

(* The timer fires, and the generator draws every song again and again. *)
MusicFairness == \A f \in Files : SF_musicVars(SongEnds(f))

MusicSpec == MusicInit /\ [][MusicNext]_musicVars /\ MusicFairness

-----------------------------------------------------------------------------
(* Every variable holds a value of its kind. *)
MusicTypeOK ==
  /\ enabled \in BOOLEAN /\ ticking \in BOOLEAN
  /\ globalOn \in BOOLEAN
  /\ queue \in Seq(Files)
  /\ music \in Files \cup {NoFile}
  /\ aired \in [track : Files \cup {NoFile}, once : BOOLEAN]
  /\ root \in RootLists /\ custom \in Seq(Playlist)
  /\ inside \subseteq Players
  /\ shown \in [Players -> Seq(Playlist)]

(* The timer runs exactly while songs are queued, which they are only in a *)
(* jukebox that is on.  switchJukeboxSong draws from 0..size-2 without     *)
(* asking for the size, so a timer that outlived the queue (switched off,  *)
(* run dry, song removed from the list) would draw from nothing.           *)
TimerRunsWithQueue ==
  /\ ticking <=> queue # <<>>
  /\ queue # <<>> => enabled

(* A queued song has its turn unless it can no longer be played, although  *)
(* the last of several is never drawn and a song that cannot be played does*)
(* not restart the timer that would draw the next.                         *)
QueuedSongHasItsTurn ==
  \A f \in Files :
    (f \in ToSet(queue)) ~> (f \notin ToSet(queue) \/ music = f \/ ~Playable(f))

(* area_data.h, m_currentMusic: "The title of the music currently being    *)
(* played in the area."  A track that members play once ends by itself.    *)
MusicIsKept == ~aired.once => aired.track = music

Unambiguous(pls) ==
  \A x, y \in Places(pls) : TrackAt(pls, x).file = TrackAt(pls, y).file => x = y
ListsShown == \A p \in inside : shown[p] = playlists

(* Two tracks of an area come to share a name, and a member comes to see a *)
(* list that is not that of its area, only when the server reloads its     *)
(* list while the area uses it, or where that list itself names a song     *)
(* twice.  Every other operation keeps both, even adding songs while the   *)
(* server's list is off and turning it on again.                           *)
OnlyReloadConfuses ==
  [][(root' = root \/ ~globalOn) =>
       /\ Unambiguous(root') /\ Unambiguous(playlists) => Unambiguous(playlists')
       /\ ListsShown => ListsShown']_musicVars
=============================================================================
