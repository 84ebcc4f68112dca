# Formal models of aos-server (kenji)

TLA+ modules, TLC configurations and TLAPS proofs about the server under `src/`.
The server is one Qt process with one event loop. Packets, timers, disconnections
and queued calls are its only sources of events; each runs to completion, so a
model action is one callback, and the hard part is the order of callbacks.

## The system and its parts

| Part | State | Operations | What is hard | Correct when |
|---|---|---|---|---|
| Connections (`connection*.cpp`) | stage of the handshake, address, claimed token, raw pointer to a client, deadline | accept, Hello, session claim, badge, drop, deadline, disconnect | takeovers, late disconnections, dangling pointer | a connection drives only a live client whose socket it is |
| Sessions and registry (`session_registry.cpp`, `ao_client_registry.cpp`) | token table, registered clients, capacity, address limit | join (fresh or recovered), remove (queued), drop all | token rotation, timer against recovery, removal later than expiry | one token per client, nobody forgotten, an expired client never returns |
| Clients (`ao_client.cpp`) | session status, socket, session timer, area, character, role, packet queue | mark active, inactive or expired, change area or character | expiry inside other handlers | see above and areas |
| Areas (`area_data.cpp`, `commands/area.cpp`) | joined ids, counter, characters taken, owners, invited, lock | join, move, kick, CM, invite, lock | lists that repeat each other, identifiers that outlive clients | lists equal what the members are; rights end with their holders |
| Testimony (`testimony_recorder.cpp`, `commands/casing.cpp`, `packet_ms.cpp`) | recorder state, current position, statements, saved files | testify, examine, add, update, delete, save, load, message | commands and messages of several players, positions used as indices | position in range; recording appends |
| Evidence and inventories (`inventory_registry.cpp`, `inventory/`) | inventories, evidence, handles with permissions | create, edit, transfer, reset | permission computed from other state | an item belongs to one inventory, capacity holds |
| Game observer (`client_game_observer.cpp`) | what each viewer was shipped | follow every change | cache against truth | a viewer knows what it may see and nothing else |
| Music and jukebox (`music_manager.cpp`, `area_data.cpp`, `commands/music.cpp`) | list of the server, lists of areas, queue and timer of the jukebox, music that plays | play, queue, skip, add and remove songs, switch the lists | timer against an emptied queue, songs that two lists hold | the jukebox timer runs exactly while songs are queued, members see the list of their area |
| Timers (`timer.cpp`, `commands/roleplay.cpp`) | state, duration, deadline, rest, visibility | set, start, pause, stop, hide, synchronize | pause and restart against the time-out, players that come in any state | rest is never lost, players are told the truth |
| Speech and flood guards (`packet_ms.cpp`, `server.cpp`) | punishments and last message of a client, guards of areas and server, switches of areas | speak, replay, punish, forgive | filters in a row, two guards with timers of their own | messages are spaced and obey every punishment at once |
| Chat and other packets (`packet_ct.cpp`, `packet_rt.cpp`, `packet_hp.cpp`, `ao_client.cpp`) | mutes and wishes of clients, switches of areas, packet counts, AFK timers | chat, chat commands, splash, penalty, call a moderator | one packet carries chat and commands | the muted type in vain, the silent go away |
| Screens (`area_data.cpp`, `ao_client.cpp`) | background, side, ambience, music, penalties of an area; queued packets of a client | change, move, lose and resume a session | moves and changes while nobody is connected | a player sees its area as it is |
| Roles, command extensions (`acl_roles_handler.cpp`, `command_extension.cpp`, `commands/authentication.cpp`) | roles and extensions in force, recorded role of an account, role of a client | begin a session, set, remove, reload | a role recorded once and cached in many clients, reload that fails | a client may do what the record of its account says |
| Moderation, bans (`commands/moderation.cpp`, `server_database.cpp`) | table of bans, which outlives the program | ban, unban, update, kick, admit | several clients of one account, restarts | nobody with an active ban is in session |
| Config, text, Discord, loggers | files | read, write | none shared | not modelled |

How they interact: `Server::acceptConnection` fills the pool; a `Connection` that
finished its handshake asks `SessionRegistry::join` for a client and becomes its
socket; the end of a socket or the session timer changes the status of the
client; `AOClient::markExpired` takes it out of its area and of every list of
rights at once and the registry removes it by a *queued* call; commands and packets of
clients change areas and their testimony; broadcasts look clients up by the ids
that areas keep. `Server` owns the message guard, the global timer and the database,
in which bans and roles are kept by account; `AOClient::shipPacket` queues what a client
without connection misses.

## Modules

* `ClientLifecycle` — the promise: a player enters, expires once, never comes
  back, and is unregistered eventually.
* `Session` — connections, handshake, takeover, tokens, timers, kicks, removal.
  Variables are fields of the code (named beside each declaration). Actions:
  `Accept` (`Server::acceptConnection`), `Hello`, `SessionClaim`,
  `AdmitRecovered` and `AdmitFresh` (`Connection::admitPlayer` with the two
  outcomes of `SessionRegistry::join`), `DropConnection`, `HandshakeTimeout`,
  `Disconnected` (`Connection::finish`, then the handler of
  `AOClient::setSocket`), `SessionTimeout`, `DropClients` (kicks, bans, packet
  limit), `WipeTokens`, `Remove` (the queued `SessionRegistry::remove`).
  `Lifecycle` maps the status of a client to `ClientLifecycle`.
* `Roster` — membership, characters, case managers, invitations, locks, curses.
  One action per command; helpers carry the names of what `AreaData` does
  (`RemoveOwners`, `TakeCharacter`, `MoveAll` for `AOClient::changeArea`). Lists are sets because the code appends only what is
  absent, removes all occurrences and asks for membership. It implements
  `ClientLifecycle` as well, which is how the two meet: `Session` says *when* a
  client expires, `Roster` what the areas look like then.
* `Testimony` — the recorder of one area. Statements are `title`, `line` or
  `blank`.
* `Evidence` — inventories of areas and players, permissions and visibility.
  One action per packet (`Append` and `Replace` of `InventoryTransferPacket`,
  `RemoveEvidence`, `UpdateEvidence`, `Present`, `PresentRecorded`) and per event
  that moves permissions (entering, moving, case managers, expiry, removal,
  `/toggleinventory`). `Discard` and `Put` are the registry's primitives.
* `Observer` — extends `Evidence` with what reaches the screens. Each of its actions is the
  action of `Evidence` together with `Ship`, the packets that the observers' handlers send:
  items to unship, items to synchronize, permissions to tell, players to
  announce or remove. `Resume` is the snapshot of a recovery followed by the queue.
* `Music` — the lists and the jukebox of one area. `playlists`, `findTrack`,
  `validateSong` and `sanitiseCustomMusicList` are those of `MusicManager`;
  `switchJukeboxSong` is the draw, and `Candidates` what it may yield. A track is found by
  its place (list, position), and `Kept` is what remains of a list when some places go.
  `music` is what the area keeps, `aired` (history) what its members were sent last: a packet that does
  not repeat is sent and not kept, and the jukebox decides the two by different tests.
* `Countdown` — one `kenji::Timer` with its `QTimer`, the `/timer` command and the
  packets its signals send; `told` is what each player heard last.
* `Speech` — `AOClient::validateIcMessage` and the flood guards. `Heard` applies the
  filters in the order of the code, each filter being the set of what it may make of a text.
* `Conduct` — packets outside of in-character speech: `Arrive` is what every
  packet passes (`processPendingPacket`), `OocMessage` what every chat packet does
  (`OocMessagePacket`), and each command that goes through it is an action.
* `Presence` — clients by account and whom `drop` reaches; extended by
  `Moderation` (bans and kicks) and `Rights` (roles, extensions, `/setperms`,
  `/removeperms`, `/reload`, restarts, `handleCommand`).
* `Screens` — what is shown of an area, the queue of a lost session, the snapshot. `broadcastMusic`
  sends one track and keeps another: the same for `/play` and music packets that repeat (`SetMusic`), none
  for those that do not (`PlayOnce`), and for the jukebox (`SwitchJukeboxSong`) what it drew only if
  that has a length. `Shown` is what a member may see then: a field of the area, or, where the area holds no music,
  what its members were sent last (`aired`).
* `Stage` — `Music`, `Countdown`, `Speech` and `Conduct` side by side; `Side` — `Testimony`, `Moderation`,
  `Rights` and `Screens`. The components of each share no variable that two of them change, so
  their product would only multiply their states: `part` (`side`) picks the one that moves and the
  others keep their first state.
* `MCSession`, `MCRoster`, `MCTestimony`, `MCObserver`, `MCStage`, `MCSide` — constants
  and symmetry for TLC.
* `SessionProofs`, `RosterProofs`, `TestimonyProofs`, `EvidenceProofs` (also of
  `Observer`), `MusicProofs`, `StageProofs` (`Countdown`, `Speech`, `Conduct`, and `Stage`
  from these and `MusicProofs`), `AccountProofs` (`Moderation`, `Rights`), `SideProofs`
  (`Screens`, and `Side` from it and `AccountProofs`) — theorems.

Definitions commented as a *mistake* are alternatives of the definition after
them: each is a plausible slip in the code that the properties tell apart from
what the code does.

## Runs

| Run | Question | Bounds |
|---|---|---|
| `session_safety` | do sockets, tokens and registry stay consistent, and is `ClientLifecycle` implemented? | 3 connections, 3 clients, 3 tokens, 2 addresses, 2 users, capacity 2, headroom 1, address limit 1 |
| `session_liveness` | do handshakes end, lost clients resolve, expired clients leave? | 2 connections, 2 clients, capacity 1 |
| `session_address_limit` | does the limit per address hold? It does not | 2 connections, 2 clients, 3 addresses |
| `roster_characters` | do lists of members and characters follow every move, kick, change, curse and departure? | a moderator who may do everything and a player, 2 protected areas (no case managers), 2 characters |
| `roster_access` | do rights and locks end with their holders, with kicks at any time? | a moderator and 2 players, 2 areas, no characters |
| `roster_expired_target` | may a handler name a player that expired but is not removed? It breaks the counters | 2 players, 2 areas |
| `testimony_title` | is statement 0 the title? It is not after `/add` at the title | limit of 2 statements, lists of at most 4 (`MaxLength`) |
| `testimony_limit` | is the limit of statements kept? It is not | same |
| `observer` | do inventories stay in order and do screens show what players may see and nothing else? | 2 players, 2 areas, 2 items, capacity 1 |
| `stage` | do timers run with what they serve, tell the truth and fire, and does no order of commands get round a punishment or a mute? | music: 4 file names (one unknown, one from a site that is not approved), 3 server lists, one of which names a song twice, at most 1 custom track and 2 categories (`MaxTracks`, `MaxLists`), 1 player; countdown: 2 players, durations 0, 1 and 3; speech: 1 player, 2 areas, guards of 2 and 1, at most 2 punishments or switches in force (`MaxFlags`); conduct: a moderator and a user, 3 packets a second, 1 deviation from the defaults at a time (`MaxDeviations`) |
| `music_kept` | does an area keep the music its members are sent? It does not when the jukebox draws a song that lost its length | same as `stage` |
| `side` | is the current statement always valid, and do the database, the files, the clients and the screens agree? | testimony: limit of 2 statements, lists of at most 4; 2 clients, 2 accounts and guests, 2 bans (`MaxBans`), time 0 to 2 (`MaxClock`), bans of 2, of a negative duration and permanent; 3 role files, 2 extension files, 2 values of `super_user_ids`; screens: 1 player, 2 areas, 1 background, 1 track, 1 sound |

Why the bounds are enough: a takeover needs two connections and one client, a
takeover of a takeover three connections; capacity and address limit are reached
with two clients; a token is rotated while another is in use with three tokens,
and a third client lets a new one start while an expired one waits for removal.
Rights pass between players with an owner, a second owner and a kicked player. Lists of
four hold a title, the first statement, one between and the last. Visibility relates
one viewer, one holder and one item; a second area lets either leave the other, and
a second item lets an inventory be replaced, overfilled or differ from another.

The jukebox needs a queue of one and of two, with a song that can be played and one that
cannot; the timer a duration that is paused in its middle; the punishments at most two that
meet in one message (every pair is explored); the guards two areas, so that one of the server
spans both. A ban needs two clients of one account, one of them in its removal gap, and a time
at which it ends; a role file needs a group, a repeated group, a read-only group, and the file
that is not there. Each screen depends on its own area and its own queue only, so one player that
moves between two areas shows all there is. `SplashTime` is 1 second of the 5 in the code; its
length is not what the properties are about, that it is positive is.

Symmetry is used in safety runs only, over identifiers no constant of the run tells
apart (in `side` the clients, not the accounts). Deadlock is checked in every run.

### Assumptions

* External (`theory::CargoSocket`): a closed socket hands over no more packets and
  reports its end once, later. Whether an end counts as graceful is any choice.
* The session timeout is read from the configuration at each loss, which may have
  been reloaded: any choice between keeping and expiring.
* A fresh token is a token nobody holds.
* `Permissions` of `Roster` is a constant: its properties hold whoever may do what, and
  how roles change is the matter of `Rights`.
* `TargetsExpired` says whether handlers run between expiry and queued removal.
  In Qt they may: several sockets can be served in one turn of the event loop
  before posted calls are. The passing `Roster` runs set it to FALSE;
  `RosterTypes`, `RosterOwnersInvited` and `RosterLastOwnerUnlocks` hold for both.

* `Evidence` leaves the gap between expiry and removal out (`TargetsExpired` FALSE) and
  lets players move and manage areas more freely than `Roster`.
* A peer that connects shows nothing, and drops the items of an inventory whose record is
  removed (external). Identifiers of items are not used twice.
* A queue is abstracted to the facts it ends up asserting and retracting: about
  one fact the last packet counts, and packets about different facts commute.
* A session taken over while active gets no snapshot from its observer
  (`TakenOver`). Such a peer is `behind`; `PictureIsTruth` asks of it that it shows
  nothing false, and only its items are followed.

* The clock does not go backwards. The rate limit and the pause between two splashes compare wall-clock
  times in the code; here they count seconds.
* A database statement that fails changes nothing and is a step not taken, but for the lookup of a
  role when a session begins (`read`), which leaves the client without one.
* The words that names of songs are made of (`Words`) contain `opus` and the empty word; names are what
  the code tests in them (title, site, extension).
* The configured list of gimps is not empty. What the medieval parser makes of words is any change to them.
* A role file says `true` of the permissions it names; with `false` its meaning would depend on
  the order of keys in the file.

### Fairness

`Session`: weak fairness of the handshake deadline, of the session timer, of the queued
removal and of the report of a *closed* socket. These are timers and posted calls of
the event loop, which run once they are due. Nothing is assumed of peers: they
may stay silent for ever, except in the badge stage, whose deadline is the
gatekeeper's and outside this repository, so `HandshakeEnds` speaks of the first two stages.

`Music`: strong fairness of the end of a song, per song drawn. The jukebox timer repeats, and
the generator draws uniformly, so a song that can be drawn again and again is drawn. Weak
fairness would not do: every new draw, and the last place of the queue, which is never
drawn, disable the draw of a song for a while.

`Countdown`, `Speech`, `Conduct`: weak fairness of the passage of time and of each time-out,
which the event loop delivers once it is due. Nothing is assumed of players.

`Moderation`, `Rights`, `Screens`, `Roster`, `Testimony`, `Observer`: none; their properties are safety.

## What is proved

All theorems hold for every value of the constants allowed by the named
assumptions (`SessionConstants`, `RosterConstants`, `TestimonyConstants`,
`ObserverConstants`, `MusicConstants`, `CountdownConstants`, `SpeechConstants`, `ConductConstants`,
`PresenceConstants`, `ModerationConstants`, `RightsConstants`, `ScreensConstants`).
Every invariant and every safety property of a step that a passing run checks has a theorem. Four of the
five violated properties have one as well, that says under which circumstances the code does keep them.

* `SessionTypes`, `SessionDrivers`, `SessionAttended`: `OneDriver` alone is not
  inductive: a takeover must know that no other connection in a session holds
  the client's socket. `IndInv` adds that a stage implies a socket
  (`StageHasSocket`), that a client's open socket belongs to a connection which points
  back (`SocketPointsBack`), that a socket serves one client (`SocketHeldOnce`), and
  that a running timer means an inactive client (`TimerMeansInactive`).
* `SessionTokens`: `OneTokenEach`, by the steps that touch `sessions` or `status`.
* `SessionCapacity`: `StepKinds` shows that a step lets one client in that there is room
  for, or one leave, or some expire, or keeps both the counter and who is live.
* `SessionAddressLimit`, for runs in which whoever recovers a session comes from the address
  it was lost at (`RecoveredAtHome`): then the limit per address holds. `OnlyFreshRegister` says that only the
  step that tests the limit makes more clients registered, so a recovery from elsewhere is the only way over it.
* `SessionImplementsLifecycle`, `RosterImplementsLifecycle`, `EvidenceImplementsLifecycle`: initial states map
  to initial states and each step to a step of `ClientLifecycle` or a stutter; fairness stays with the run.
  The three models, each with its own idea of a client, agree on its life.
* `RosterManagedKeepTheirLock`: as long as an area keeps a case manager, nobody changes its lock who is not in it
  and allowed to manage it. It delimits what `removeOwner` does to areas without one, which it opens whoever leaves.
* `RosterTypes`, `RosterOwnersInvited`, `RosterLastOwnerUnlocks`, `RosterCurseHolds`, and
  under `~TargetsExpired` `RosterRightsAreLive`, `RosterMembersAreCounted`,
  `RosterCharactersExclusive`. The lists of members and of characters, the counters and
  the fields of the clients are inductive only together (`ListsFit`), with the fact that a client
  that is not registered has the fields of a new one (`AbsentAreFresh`).
* `TestimonyTitleFirst`, `TestimonyRecordsOneTooMany`: in runs where nobody adds at the title,
  statement 0 is the title; in runs where nobody adds, one statement more than the limit is the
  most. The first is inductive only together with the title of the saved file, which loading brings back;
  the second by itself, since a file is loaded only within the limit.
* `TestimonyTypes`, `TestimonySafe`, `TestimonyContiguous`: types, `CurrentInRange` and
  `RecordsAtTheEnd` are inductive together. Lemmas state what insertion and removal do to a
  sequence. `TestimonyTitleStays`, an action property, follows from the range of the current statement.
* `EvidenceUnmanaged`, `EvidenceDisabled`, `EvidenceKept`: the inductive invariant is
  `Tidy`, their conjunction with the types. `DisabledAreEmpty` needs `NothingOrphaned`,
  since disabling empties the inventories of registered players only.
  `EvidenceCapacity` adds the cardinalities.
* `ObserverImplementsEvidence`: every step of `Observer` is a step of `Evidence` or leaves
  it alone, so the theorems about `Evidence` hold of `ObserverSpec`.
* `ObserverCaches`: `CacheIsVisible`. `ShipKeepsCached` says when a shipment keeps a
  cache right; each action then shows that what it does not synchronize is seen
  as before, by `SameView`, or by `ToggleUnseen` where the switch of personal
  inventories changes and these are empty.
* `ObserverTypes`, `ObserverShowsTruth`, `ObserverHides`: the inductive form `Shown` says of
  a connected peer that it shows the snapshot of the moment (at most that, when it is
  `behind`), and of a queue that it asserts part of that snapshot and retracts none of it.
  `ShipKeepsShown` reduces each action to what changes in the snapshot of a viewer,
  `ToldIsSo` says that the packets of the step assert only what is so. Hidden items then stay hidden because
  a snapshot holds visible items only.
* `MusicTypes`, `JukeboxTimer`: inductive with the types; `SwitchSafe` is the draw.
* `OnlyUntimedIsLost`: `MusicIsKept` survives every step but a draw of a song that is on the lists without a
  length; a song that is not found is sent as silence, which is what the area keeps then.
* `MusicOnlyReload`: each operation on lists is described by its places: `Kept` returns what stands at the
  places kept, in their order, so no two tracks that remain share a name that did not share one before, and what
  is added was looked for first. `Kept` is a recursive function; what it returns for every list is shown with the
  sets of natural numbers that are closed under successor (`Induction`, from the least element of a
  well-founded relation), which needs no operator as a parameter.
* `CountdownTypes`, `CountdownTruth`: `RestIsKept` and `TimerToldTruly` with the types.
* `SpeechTypes`, `SpeechSpaced`: what a guard has still to wait and what has passed make up its length
  (`GuardsCount`). `SpeechPunished`: `FiltersObey` follows one message through the filters.
* `ConductTypes`; `ConductMuted`: an action property, by the actions that chat and the ones that do not.
* `StageIsItsParts`: `StageSpec` implies the specification of each part, fairness included, so that its
  types (`StageTypes`) and properties (`StageHolds`) are those of the parts.
* `ModerationTypes`, `ModerationHolds`: `BannedStayOut` with the types; `Dropped` and `NobodyEnters` say which steps
  can only make fewer accounts face the table, `BanAllSafe` that a new ban drops all it concerns.
* `RightsTypes`, `RightsAsRecorded`, `RightsByRecord`: `RoleAsRecorded` with the types; that what a client may run changes by record needs
  that the files read last are in force (`FilesInForce`).
* `ScreensTypes`, `ScreensAreTrue`: inductive is not what is shown but what is shown *and queued*
  (`CopiesAreTrue`), for clients without connection as well. `SentSafe` says when a packet to the members
  keeps all copies true: what is sent must be what they are to see of the area after it (`Shown`), and the rest
  as before; `TrackSafe` shows it of tracks, kept or not, `ChangeSafe` of everything else.
* `SideTypes`, `SideHolds`: `Side` implies `Testimony` and `Screens`, but not simply the others, for `Moderation` and `Rights` both
  move the clients in session. `SideInv` adds that the files and the table of the part that
  rests are empty (`NoRoles`, `NoBans`), so that the clients the other part lets in contradict neither.

Only model-checked: the liveness properties (`LifecycleLiveness`, `HandshakeEnds`,
`LostClientResolves`, `EveryTimerFires`), which rest on fairness and enabledness and are beyond the
prover. The fifth violated property, of `roster_expired_target`, belongs to the case `TargetsExpired`,
which the theorems about lists exclude by name.

## Disagreements found

* `session_address_limit`: the limit per address is tested for new sessions only.
  A session recovered from another address joins those already there.
* `roster_expired_target`: `/area_kick` on a player that expired in the same turn
  of the event loop takes it out of its area twice and lists it in the target area for
  good; `broadcastToArea` would then follow a null pointer.
* `testimony_title`: adding at the title puts the message before the title too.
* `testimony_limit`: recording stores one statement more than configured, and
  adding is limited by position and not by number.
* `music_kept`: the jukebox sends every drawn song that it finds, but the area keeps only one that has a length.
  A song is queued only with a length, and can be on the lists without one when it is drawn: after `/reload`, or
  after `/togglecustommusic` and `/addsong` of the same file. Members then hear a song that the area,
  `/currentmusic` and those who enter know nothing of.

### Met while modelling

What the code does that a reader might not expect, and that no text of the repository contradicts:

* `OnlyReloadConfuses` excepts `/reload`: the list of the server changes while areas keep
  their songs and nobody is sent the new list. It excepts lists of the server that name a song twice
  as well, which `ConfigManager::musiclist` does not forbid (`config_manager.cpp:265`): the first of the two is found.
* Of several queued songs the last is never drawn (`area_data.cpp:739`), until new ones make it
  one of the others or it is the only one left. A drawn song that is no longer known does not restart the timer, which repeats.
* A message refused by the tests after the one for double posts has become the last message
  already (`packet_ms.cpp:143`): corrected in its emote and sent again, it is a double post.
* The side set by `/setside` is what members see, while the position of a speaker is taken from its own
  message or `/pos` (`packet_ms.cpp:44`).
* A music packet that does not repeat is sent to the members and clears the music of the area
  (`packet_mc.cpp:79`), so that those who enter while it plays are sent silence. A track that plays once ends by
  itself, which the server does not hear of; `MusicIsKept` excepts it (`aired.once`), and `ScreensShowTheArea` lets members
  hear what was sent last wherever the area holds no music.
* A program that takes up a session is sent neither music nor ambience; `ScreensShowTheArea` excepts
  both until the next change (`unsent`).
* `/updateban` counts the new duration from the day of the ban and drops nobody; `BannedStayOut`
  excepts bans that were altered.
* `/reload` gives nobody the role that a change of `super_user_ids` means, and a client whose role could
  not be looked up keeps none; `RoleAsRecorded` excepts both (`stale`).
* In a role file, the group after a repeated one is read as empty, for the repeated one is entered and never
  left. A role or extension file that does not exist counts as read, and as empty.

## Order of work

1. Sessions and their life cycle, areas, testimony, evidence and observers.
2. Music, timers, speech, chat; bans, roles, screens.
3. Proofs: first those that the actions keep by themselves (types, rights, tokens), then
   the ones that need an inductive form (pictures, lists, capacity, refinements, screens), then the lists of
   songs, the compositions, and what delimits the disagreements.

What could follow: liveness of single timers under weaker fairness, pairing of speakers, notecards.

## Not modelled

* Reading of configuration and of its defaults, text rewriting (names, dice, help, the tables of the
  medieval parser), Discord, loggers, SQL: input and output. Their effects appear as constants or as
  nondeterministic choices where a component depends on them.
* Guest tokens, badges and sockets: outside this repository.
* Notecards, message of the day, judge log, messages and descriptions of areas: texts no operation tests.
* Pairing, offsets, emotes, colours, first person: the look of a message.
* Listings (`/bans`, `/baninfo`, `/getarea`, help): they read and change nothing.
* The permission to *view* a personal inventory is told only when a client enters or personal inventories
  are toggled (`client_game_observer.cpp:28`); what a peer does with it is outside this repository.
* Migration of old databases and the assembly at start-up: run once, before anything else.
