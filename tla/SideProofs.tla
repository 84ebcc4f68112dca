------------------------------ MODULE SideProofs ------------------------------
(***************************************************************************)
(* Every connected player sees its area as it is, for any number of areas  *)
(* and players, however long connections are lost; and the recorder, bans, *)
(* roles and screens side by side.                                         *)
(***************************************************************************)
EXTENDS Side, AccountProofs, TestimonyProofs

(* What a player sees, or will when what waits for it is sent. *)
Copy(p) == IF p \in connected THEN screen[p] ELSE queued[p]

CopiesAreTrue ==
  \A p \in Persons : place[p] # None =>
    \A f \in Fields \ unsent[p] : Copy(p)[f] \in Shown(place[p], f)

ScreensInv ==
  /\ ScreensTypeOK
  /\ screen = [p \in Persons |-> screen[p]]
  /\ queued = [p \in Persons |-> queued[p]]
  /\ CopiesAreTrue
  /\ \A p \in connected : unsent[p] \subseteq Joined

LEMMA FieldNames ==
  /\ Fields = {"background", "side", "def", "pro", "music", "ambience"}
  /\ Fields = Snapshot \cup Joined
  BY DEF Fields, Snapshot, Joined

(* No area holds what stands for an empty place in a queue. *)
LEMMA NoAreaHoldsNoPacket ==
  ASSUME NEW value \in AreaValue, NEW f \in Fields
  PROVE  value[f] # NoPacket
<1>1. /\ value.background \in Backgrounds /\ value.side \in Sides \cup {None}
      /\ value.music \in Tracks \cup {None} /\ value.ambience \in Sounds \cup {None}
      /\ value.def \in 0..10 /\ value.pro \in 0..10
  BY DEF AreaValue
<1>2. /\ value.background # NoPacket /\ value.side # NoPacket /\ value.music # NoPacket
      /\ value.ambience # NoPacket /\ value.def # NoPacket /\ value.pro # NoPacket
  BY <1>1, ScreensConstants
<1> QED
  BY <1>2, FieldNames

(* Nor is it ever what a player is to see. *)
LEMMA NoPacketIsShown ==
  ASSUME ScreensTypeOK, NEW a \in Areas, NEW f \in Fields
  PROVE  NoPacket \notin Shown(a, f)
<1>1. area[a] \in AreaValue /\ aired[a] \in Tracks \cup {None}
  BY DEF ScreensTypeOK
<1>2. aired[a] # NoPacket
  BY <1>1, ScreensConstants
<1> QED
  BY <1>1, <1>2, NoAreaHoldsNoPacket DEF Shown

LEMMA ScreensInvInit == ScreensInit => ScreensInv
<1> SUFFICES ASSUME ScreensInit PROVE ScreensInv
  OBVIOUS
<1>1. area \in [Areas -> AreaValue]
  BY DEF ScreensInit, AreaValue
<1>2. ScreensTypeOK
  BY <1>1 DEF ScreensInit, ScreensTypeOK
<1>3. CopiesAreTrue /\ \A p \in connected : unsent[p] \subseteq Joined
  BY DEF ScreensInit, CopiesAreTrue
<1>4. screen = [p \in Persons |-> screen[p]] /\ queued = [p \in Persons |-> queued[p]]
  BY DEF ScreensInit
<1> QED
  BY <1>2, <1>3, <1>4 DEF ScreensInv

(* Sending fields to players puts them on the screens or in the queues. *)
LEMMA ShipReaches ==
  ASSUME NEW ps \in SUBSET Persons, NEW fs \in SUBSET Fields, NEW new,
         Ship(ps, fs, new), connected' = connected,
         unsent \in [Persons -> SUBSET Fields],
         screen = [p \in Persons |-> screen[p]], queued = [p \in Persons |-> queued[p]]
  PROVE  /\ screen' = [p \in Persons |-> screen'[p]]
         /\ queued' = [p \in Persons |-> queued'[p]]
         /\ unsent' \in [Persons -> SUBSET Fields]
         /\ \A p \in Persons : unsent'[p] \subseteq unsent[p]
         /\ \A p \in ps :
              /\ unsent'[p] = unsent[p] \ fs
              /\ \A f \in Fields : Copy(p)'[f] = IF f \in fs THEN new[f] ELSE Copy(p)[f]
         /\ \A p \in Persons \ ps : Copy(p)' = Copy(p) /\ unsent'[p] = unsent[p]
<1>1. /\ screen' = [p \in Persons |-> IF p \in ps \cap connected
                                        THEN Over(screen[p], fs, new) ELSE screen[p]]
      /\ queued' = [p \in Persons |-> IF p \in ps \ connected
                                        THEN Over(queued[p], fs, new) ELSE queued[p]]
      /\ unsent' = [p \in Persons |-> IF p \in ps THEN unsent[p] \ fs ELSE unsent[p]]
  BY DEF Ship
<1>2. screen' = [p \in Persons |-> screen'[p]] /\ queued' = [p \in Persons |-> queued'[p]]
  BY <1>1
<1>3. /\ unsent' \in [Persons -> SUBSET Fields]
      /\ \A p \in Persons : unsent'[p] \subseteq unsent[p]
      /\ \A p \in ps : unsent'[p] = unsent[p] \ fs
      /\ \A p \in Persons \ ps : unsent'[p] = unsent[p]
  BY <1>1
<1>4. ASSUME NEW p \in ps, NEW f \in Fields
      PROVE  Copy(p)'[f] = IF f \in fs THEN new[f] ELSE Copy(p)[f]
  <2>1. Copy(p)' = Over(Copy(p), fs, new)
    BY <1>1 DEF Copy
  <2> QED
    BY <2>1 DEF Over
<1>5. \A p \in Persons \ ps : Copy(p)' = Copy(p)
  BY <1>1 DEF Copy
<1> QED
  BY <1>2, <1>3, <1>4, <1>5

(* What is sent to the members of an area keeps every copy true, if it is  *)
(* what they are to see of the area then, and the rest stays as it was.    *)
LEMMA SentSafe ==
  ASSUME ScreensInv, NEW a \in Areas, NEW new \in AreaValue, NEW fs \in SUBSET Fields, NEW sent,
         area' = [area EXCEPT ![a] = new], Ship(In(a), fs, sent),
         UNCHANGED <<place, connected>>,
         aired' \in [Areas -> Tracks \cup {None}],
         \A b \in Areas \ {a} : aired'[b] = aired[b],
         \A f \in fs : sent[f] \in Shown(a, f)',
         \A f \in Fields \ fs : Shown(a, f)' = Shown(a, f)
  PROVE  ScreensInv'
<1>2. In(a) \in SUBSET Persons
  BY DEF In
<1>3. /\ area \in [Areas -> AreaValue] /\ place \in [Persons -> Areas \cup {None}]
      /\ unsent \in [Persons -> SUBSET Fields]
      /\ connected \subseteq {p \in Persons : place[p] # None}
      /\ screen = [p \in Persons |-> screen[p]] /\ queued = [p \in Persons |-> queued[p]]
  BY DEF ScreensInv, ScreensTypeOK
<1>4. /\ screen' = [p \in Persons |-> screen'[p]]
      /\ queued' = [p \in Persons |-> queued'[p]]
      /\ unsent' \in [Persons -> SUBSET Fields]
      /\ \A p \in Persons : unsent'[p] \subseteq unsent[p]
      /\ \A p \in In(a) :
           /\ unsent'[p] = unsent[p] \ fs
           /\ \A f \in Fields : Copy(p)'[f] = IF f \in fs THEN sent[f] ELSE Copy(p)[f]
      /\ \A p \in Persons \ In(a) : Copy(p)' = Copy(p) /\ unsent'[p] = unsent[p]
  BY <1>2, <1>3, ShipReaches
<1>5. ScreensTypeOK'
  BY <1>3, <1>4 DEF ScreensTypeOK
<1>6. ASSUME NEW p \in Persons, place'[p] # None, NEW f \in Fields \ unsent'[p]
      PROVE  Copy(p)'[f] \in Shown(place[p], f)'
  <2>1. CASE p \in In(a)
    <3>1. place[p] = a
      BY <2>1 DEF In
    <3>2. CASE f \in fs
      BY <1>4, <2>1, <3>1, <3>2
    <3>3. CASE f \notin fs
      <4>1. f \in Fields \ unsent[p] /\ Copy(p)'[f] = Copy(p)[f] /\ Shown(a, f)' = Shown(a, f)
        BY <1>4, <1>6, <2>1, <3>3
      <4>2. Copy(p)[f] \in Shown(a, f)
        BY <1>6, <3>1, <4>1 DEF ScreensInv, CopiesAreTrue
      <4> QED
        BY <3>1, <4>1, <4>2
    <3> QED
      BY <3>2, <3>3
  <2>2. CASE p \notin In(a)
    <3>1. place[p] \in Areas /\ place[p] # a
      BY <1>3, <1>6, <2>2 DEF In
    <3>2. area'[place[p]] = area[place[p]] /\ aired'[place[p]] = aired[place[p]]
      BY <1>3, <3>1
    <3>3. Copy(p)' = Copy(p) /\ f \in Fields \ unsent[p]
      BY <1>4, <1>6, <2>2
    <3>4. Copy(p)[f] \in Shown(place[p], f)
      BY <1>6, <3>3 DEF ScreensInv, CopiesAreTrue
    <3> QED
      BY <3>2, <3>3, <3>4 DEF Shown
  <2> QED
    BY <2>1, <2>2
<1>7. ASSUME NEW p \in connected' PROVE unsent'[p] \subseteq Joined
  BY <1>3, <1>4, <1>7 DEF ScreensInv
<1> QED
  BY <1>4, <1>5, <1>6, <1>7 DEF ScreensInv, CopiesAreTrue

(* A change of an area that its members are told keeps every copy true. *)
LEMMA ChangeSafe ==
  ASSUME ScreensInv, NEW a \in Areas, NEW new \in AreaValue, NEW fs \in SUBSET Fields,
         "music" \notin fs, Change(a, new, fs), \A f \in Fields \ fs : new[f] = area[a][f]
  PROVE  ScreensInv'
<1>1. /\ area' = [area EXCEPT ![a] = new] /\ Ship(In(a), fs, new)
      /\ UNCHANGED <<place, connected>> /\ aired' = aired
  BY DEF Change
<1>2. aired \in [Areas -> Tracks \cup {None}] /\ area'[a] = new
  BY <1>1 DEF ScreensInv, ScreensTypeOK
<1>3. new.music = area[a].music
  BY FieldNames
<1>4. \A f \in fs : new[f] \in Shown(a, f)'
  BY <1>2 DEF Shown
<1>5. \A f \in Fields \ fs : Shown(a, f)' = Shown(a, f)
  BY <1>1, <1>2, <1>3 DEF Shown
<1> QED
  BY <1>1, <1>2, <1>4, <1>5, SentSafe

(* A track that is sent is the music of the area then, or not kept. *)
LEMMA TrackSafe ==
  ASSUME ScreensInv, NEW a \in Areas, NEW t \in Tracks \cup {None}, NEW kept \in {t, None},
         broadcastMusic(a, t, kept)
  PROVE  ScreensInv'
<1> DEFINE new == [area[a] EXCEPT !.music = kept]
           sent == [area[a] EXCEPT !.music = t]
<1>1. /\ area' = [area EXCEPT ![a] = new] /\ Ship(In(a), {"music"}, sent)
      /\ UNCHANGED <<place, connected>> /\ aired' = [aired EXCEPT ![a] = t]
  BY DEF broadcastMusic
<1>2. /\ area \in [Areas -> AreaValue] /\ aired \in [Areas -> Tracks \cup {None}]
  BY DEF ScreensInv, ScreensTypeOK
<1>3. /\ new \in AreaValue /\ new.music = kept
      /\ \A f \in Fields \ {"music"} : new[f] = area[a][f]
      /\ sent["music"] = t
  BY <1>2, FieldNames DEF AreaValue
<1> HIDE DEF new, sent
<1>4. area'[a] = new /\ aired'[a] = t
  BY <1>1, <1>2
<1>5. \A f \in {"music"} : sent[f] \in Shown(a, f)'
  BY <1>3, <1>4 DEF Shown
<1>6. \A f \in Fields \ {"music"} : Shown(a, f)' = Shown(a, f)
  BY <1>3, <1>4 DEF Shown
<1>7. /\ aired' \in [Areas -> Tracks \cup {None}]
      /\ \A b \in Areas \ {a} : aired'[b] = aired[b]
  BY <1>1, <1>2
<1>8. {"music"} \in SUBSET Fields
  BY FieldNames
<1> QED
  BY <1>1, <1>3, <1>5, <1>6, <1>7, <1>8, SentSafe

(* What the commands of an area make of it is of its kind, and what they   *)
(* do not send they do not change.                                         *)
LEMMA ClampType == \A v \in Int : Clamp(v) \in 0..10
  BY DEF Clamp

LEMMA AreaChangeSafe ==
  ASSUME ScreensInv, NEW a \in Areas,
         \/ \E b \in Backgrounds : SetBackground(a, b)
         \/ \E s \in Sides \cup {None} : SetSide(a, s)
         \/ \E bar \in {"def", "pro"}, v \in Penalties : Penalty(a, bar, v)
         \/ \E t \in Tracks \cup {None} : SetMusic(a, t)
         \/ \E t \in Tracks \cup {None} : PlayOnce(a, t)
         \/ \E t \in Tracks \cup {None}, length \in 0..1 : SwitchJukeboxSong(a, t, length)
         \/ \E t \in Sounds \cup {None} : SetAmbience(a, t)
  PROVE  ScreensInv'
<1>0. area[a] \in AreaValue
  BY DEF ScreensInv, ScreensTypeOK
<1> USE FieldNames DEF AreaValue
<1>1. ASSUME NEW b \in Backgrounds, SetBackground(a, b) PROVE ScreensInv'
  <2> DEFINE new == setBackground(a, b)
  <2>1. /\ new \in AreaValue
        /\ \A f \in Fields \ {"background", "side", "ambience"} : new[f] = area[a][f]
    BY <1>0, ScreensConstants DEF setBackground
  <2>2. Change(a, new, {"background", "side", "ambience"})
    BY <1>1 DEF SetBackground
  <2> HIDE DEF new
  <2> QED
    BY <2>1, <2>2, ChangeSafe
<1>2. ASSUME NEW s \in Sides \cup {None}, SetSide(a, s) PROVE ScreensInv'
  <2> DEFINE new == [area[a] EXCEPT !.side = s]
  <2>1. new \in AreaValue /\ \A f \in Fields \ {"background", "side"} : new[f] = area[a][f]
    BY <1>0
  <2>2. Change(a, new, {"background", "side"})
    BY <1>2 DEF SetSide
  <2> HIDE DEF new
  <2> QED
    BY <2>1, <2>2, ChangeSafe
<1>3. ASSUME NEW bar \in {"def", "pro"}, NEW v \in Penalties, Penalty(a, bar, v)
      PROVE  ScreensInv'
  <2> DEFINE new == changeHP(a, bar, v)
  <2>1. Clamp(v) \in 0..10
    BY ClampType, ScreensConstants
  <2>2. new \in AreaValue /\ \A f \in Fields \ {"def", "pro"} : new[f] = area[a][f]
    BY <1>0, <2>1 DEF changeHP
  <2>3. Change(a, new, {"def", "pro"})
    BY <1>3 DEF Penalty
  <2> HIDE DEF new
  <2> QED
    BY <2>2, <2>3, ChangeSafe
<1>4. ASSUME NEW t \in Tracks \cup {None},
             \/ SetMusic(a, t) \/ PlayOnce(a, t)
             \/ \E length \in 0..1 : SwitchJukeboxSong(a, t, length)
      PROVE  ScreensInv'
  <2>1. PICK kept \in {t, None} : broadcastMusic(a, t, kept)
    BY <1>4 DEF SetMusic, PlayOnce, SwitchJukeboxSong
  <2> QED
    BY <2>1, TrackSafe
<1>5. ASSUME NEW t \in Sounds \cup {None}, SetAmbience(a, t) PROVE ScreensInv'
  <2> DEFINE new == [area[a] EXCEPT !.ambience = t]
  <2>1. new \in AreaValue /\ \A f \in Fields \ {"ambience"} : new[f] = area[a][f]
    BY <1>0
  <2>2. Change(a, new, {"ambience"})
    BY <1>5 DEF SetAmbience
  <2> HIDE DEF new
  <2> QED
    BY <2>1, <2>2, ChangeSafe
<1> QED
  BY <1>1, <1>2, <1>3, <1>4, <1>5

LEMMA ScreensInvNext == ScreensInv /\ [ScreensNext]_screenVars => ScreensInv'
<1> SUFFICES ASSUME ScreensInv, [ScreensNext]_screenVars PROVE ScreensInv'
  OBVIOUS
<1>0. /\ area \in [Areas -> AreaValue] /\ aired \in [Areas -> Tracks \cup {None}]
      /\ place \in [Persons -> Areas \cup {None}]
      /\ unsent \in [Persons -> SUBSET Fields]
      /\ connected \subseteq {p \in Persons : place[p] # None}
      /\ screen = [p \in Persons |-> screen[p]] /\ queued = [p \in Persons |-> queued[p]]
      /\ CopiesAreTrue
      /\ \A p \in connected : unsent[p] \subseteq Joined
  BY DEF ScreensInv, ScreensTypeOK
<1>1. ASSUME NEW p \in Persons, UNCHANGED <<area, aired>>,
             place' \in [Persons -> Areas \cup {None}],
             connected' \subseteq {q \in Persons : place'[q] # None},
             screen' = [q \in Persons |-> screen'[q]],
             queued' = [q \in Persons |-> queued'[q]],
             unsent' \in [Persons -> SUBSET Fields],
             \A q \in Persons \ {p} :
               /\ place'[q] = place[q] /\ (q \in connected' <=> q \in connected)
               /\ screen'[q] = screen[q] /\ queued'[q] = queued[q] /\ unsent'[q] = unsent[q],
             p \in connected' => unsent'[p] \subseteq Joined,
             place'[p] # None =>
               \A f \in Fields \ unsent'[p] : Copy(p)'[f] \in Shown(place'[p], f)
      PROVE  ScreensInv'
  <2>1. ScreensTypeOK'
    BY <1>0, <1>1 DEF ScreensTypeOK
  <2>2. ASSUME NEW q \in Persons, place'[q] # None, NEW f \in Fields \ unsent'[q]
        PROVE  Copy(q)'[f] \in Shown(place'[q], f)
    <3>1. CASE q = p
      BY <1>1, <2>2, <3>1
    <3>2. CASE q # p
      <4>1. Copy(q)' = Copy(q) /\ place'[q] = place[q] /\ f \in Fields \ unsent[q]
        BY <1>1, <2>2, <3>2 DEF Copy
      <4>2. Copy(q)[f] \in Shown(place[q], f)
        BY <1>0, <2>2, <4>1 DEF CopiesAreTrue
      <4> QED
        BY <4>1, <4>2
    <3> QED
      BY <3>1, <3>2
  <2>3. \A q \in connected' : unsent'[q] \subseteq Joined
    BY <1>0, <1>1
  <2>4. CopiesAreTrue'
    BY <1>1, <2>2 DEF CopiesAreTrue, Shown
  <2> QED
    BY <1>1, <2>1, <2>3, <2>4 DEF ScreensInv
<1>2. ASSUME NEW p \in Persons, NEW a \in Areas, BeginSession(p, a) PROVE ScreensInv'
  <2>1. /\ place[p] = None /\ place' = [place EXCEPT ![p] = a]
        /\ connected' = connected \cup {p}
        /\ screen' = [screen EXCEPT ![p] = area[a]]
        /\ unsent' = [unsent EXCEPT ![p] = {}]
        /\ UNCHANGED <<area, aired, queued>>
    BY <1>2 DEF BeginSession
  <2>2. Copy(p)' = area[a] /\ place'[p] = a /\ a # None /\ unsent'[p] = {}
    BY <1>0, <2>1, ScreensConstants DEF Copy
  <2>3. \A f \in Fields : Copy(p)'[f] \in Shown(a, f)
    BY <2>2 DEF Shown
  <2> QED
    BY <1>0, <1>1, <2>1, <2>2, <2>3
<1>3. ASSUME NEW p \in Persons, NEW a \in Areas, MoveTo(p, a) PROVE ScreensInv'
  <2>1. /\ place[p] # None /\ place' = [place EXCEPT ![p] = a]
        /\ Ship({p}, Fields, area[a]) /\ UNCHANGED <<area, aired, connected>>
    BY <1>3 DEF MoveTo
  <2>2. /\ screen' = [q \in Persons |-> screen'[q]]
        /\ queued' = [q \in Persons |-> queued'[q]]
        /\ unsent' \in [Persons -> SUBSET Fields]
        /\ unsent'[p] = unsent[p] \ Fields
        /\ \A f \in Fields : Copy(p)'[f] \in Shown(a, f)
    <3>1. /\ screen' = [q \in Persons |-> IF q \in {p} \cap connected
                          THEN Over(screen[q], Fields, area[a]) ELSE screen[q]]
          /\ queued' = [q \in Persons |-> IF q \in {p} \ connected
                          THEN Over(queued[q], Fields, area[a]) ELSE queued[q]]
          /\ unsent' = [q \in Persons |-> IF q \in {p} THEN unsent[q] \ Fields ELSE unsent[q]]
      BY <2>1 DEF Ship
    <3>2. Copy(p)' = Over(Copy(p), Fields, area[a])
      BY <2>1, <3>1 DEF Copy
    <3>3. \A f \in Fields : Copy(p)'[f] \in Shown(a, f)
      BY <3>2 DEF Over, Shown
    <3>4. unsent' \in [Persons -> SUBSET Fields] /\ unsent'[p] = unsent[p] \ Fields
      BY <1>0, <3>1
    <3> QED
      BY <3>1, <3>3, <3>4
  <2>3. \A q \in Persons \ {p} :
          screen'[q] = screen[q] /\ queued'[q] = queued[q] /\ unsent'[q] = unsent[q]
    BY <2>1 DEF Ship
  <2>4. place'[p] = a /\ a # None /\ unsent'[p] = {}
    BY <1>0, <2>1, <2>2, ScreensConstants
  <2> QED
    BY <1>0, <1>1, <2>1, <2>2, <2>3, <2>4
<1>4. ASSUME NEW p \in Persons, LoseConnection(p) PROVE ScreensInv'
  <2>1. /\ connected' = connected \ {p}
        /\ screen' = [screen EXCEPT ![p] = Blank]
        /\ unsent' = [unsent EXCEPT ![p] = Fields]
        /\ UNCHANGED <<area, aired, place, queued>>
    BY <1>4 DEF LoseConnection
  <2>2. unsent'[p] = Fields
    BY <1>0, <2>1
  <2> QED
    BY <1>0, <1>1, <2>1, <2>2
<1>5. ASSUME NEW p \in Persons, ResumeSession(p) PROVE ScreensInv'
  <2> DEFINE flushed == [f \in Fields |-> IF queued[p][f] # NoPacket THEN queued[p][f]
                                                                     ELSE Blank[f]]
  <2>1. /\ place[p] # None /\ connected' = connected \cup {p}
        /\ screen' = [screen EXCEPT ![p] = Over(flushed, Snapshot, area[place[p]])]
        /\ queued' = [queued EXCEPT ![p] = Nothing]
        /\ unsent' = [unsent EXCEPT ![p] =
                        (IF p \in connected THEN Fields ELSE unsent[p]) \ Snapshot]
        /\ UNCHANGED <<area, aired, place>>
    BY <1>5 DEF ResumeSession, shipSnapshot
  <2>2. place[p] \in Areas /\ area[place[p]] \in AreaValue
    BY <1>0, <2>1
  <2>3. /\ unsent'[p] = (IF p \in connected THEN Fields ELSE unsent[p]) \ Snapshot
        /\ unsent'[p] \subseteq Joined
    BY <1>0, <2>1, FieldNames
  <2>4. ASSUME NEW f \in Fields \ unsent'[p] PROVE Copy(p)'[f] \in Shown(place[p], f)
    <3>1. Copy(p)'[f] = IF f \in Snapshot THEN area[place[p]][f] ELSE flushed[f]
      BY <1>0, <2>1 DEF Copy, Over
    <3>2. CASE f \in Snapshot
      BY <3>1, <3>2 DEF Shown
    <3>3. CASE f \notin Snapshot
      <4>1. p \notin connected /\ f \in Fields \ unsent[p]
        BY <2>3, <2>4, <3>3
      <4>2. queued[p][f] \in Shown(place[p], f)
        BY <1>0, <2>1, <4>1 DEF CopiesAreTrue, Copy
      <4>3. queued[p][f] # NoPacket
        BY <2>2, <4>1, <4>2, NoPacketIsShown DEF ScreensInv
      <4> QED
        BY <3>1, <3>3, <4>2, <4>3
    <3> QED
      BY <3>2, <3>3
  <2> HIDE DEF flushed
  <2> QED
    BY <1>0, <1>1, <2>1, <2>3, <2>4
<1>6. ASSUME NEW p \in Persons, LeaveGame(p) PROVE ScreensInv'
  <2>1. /\ place' = [place EXCEPT ![p] = None] /\ connected' = connected \ {p}
        /\ screen' = [screen EXCEPT ![p] = Blank] /\ queued' = [queued EXCEPT ![p] = Nothing]
        /\ unsent' = [unsent EXCEPT ![p] = Fields]
        /\ UNCHANGED <<area, aired>>
    BY <1>6 DEF LeaveGame
  <2> QED
    BY <1>0, <1>1, <2>1
<1>7. CASE UNCHANGED screenVars
  BY <1>0, <1>7 DEF screenVars, ScreensInv, ScreensTypeOK, CopiesAreTrue, Copy, Shown
<1> QED
  BY <1>2, <1>3, <1>4, <1>5, <1>6, <1>7, AreaChangeSafe DEF ScreensNext

(* Whatever happened while a player was away, it sees its area as it is,   *)
(* but for music and ambience nobody sent it meanwhile, and hears another  *)
(* track only where the members were sent one that the area did not keep.  *)
THEOREM ScreensAreTrue == ScreensSpec => []ScreensShowTheArea
<1>1. ScreensInv => ScreensShowTheArea
  <2> SUFFICES ASSUME ScreensInv, NEW p \in connected
               PROVE  /\ unsent[p] \subseteq Joined
                      /\ \A f \in Fields \ unsent[p] : screen[p][f] \in Shown(place[p], f)
    BY DEF ScreensShowTheArea
  <2>1. p \in Persons /\ place[p] # None
    BY DEF ScreensInv, ScreensTypeOK
  <2> QED
    BY <2>1 DEF ScreensInv, CopiesAreTrue, Copy
<1> QED
  BY <1>1, ScreensInvInit, ScreensInvNext, PTL DEF ScreensSpec

(* What areas show is of its kind, and only players somewhere are connected.*)
THEOREM ScreensTypes == ScreensSpec => []ScreensTypeOK
<1>1. ScreensInv => ScreensTypeOK
  BY DEF ScreensInv
<1> QED
  BY <1>1, ScreensInvInit, ScreensInvNext, PTL DEF ScreensSpec

-----------------------------------------------------------------------------
(* Side by side *)

(* What waits keeps its first state, in which nobody is banned, nobody has *)
(* a role and the files are in force.                                      *)
NoBans == bans = <<>> /\ clock = 0 /\ altered = {}
NoRoles ==
  /\ recorded = [u \in Accounts |-> NoRole]
  /\ superUserIds = {}
  /\ role = [c \in Clients |-> NoRole]
  /\ stale = {}

SideInv ==
  /\ side # "rights" => ModerationInv /\ NoRoles
  /\ side = "rights" => RightsInv /\ NoBans
  /\ FilesInForce

LEMMA SideInvInit == SideInit => SideInv
<1> SUFFICES ASSUME SideInit PROVE SideInv
  OBVIOUS
<1>1. ModerationInv /\ RightsInv
  BY ModerationInvInit, RightsInvInit DEF SideInit
<1>2. NoBans
  BY DEF SideInit, ModerationInit, NoBans
<1>3. side # "rights" => NoRoles
  BY DEF SideInit, RightsInit, NoRoles
<1>4. FilesInForce
  BY DEF SideInit, RightsInit, FilesInForce
<1> QED
  BY <1>1, <1>2, <1>3, <1>4 DEF SideInv

LEMMA SideInvNext ==
  ASSUME SideInv, SideNext \/ UNCHANGED sideVars
  PROVE  SideInv'
<1>1. UNCHANGED side
  BY DEF SideNext, sideVars
<1>2. CASE side # "rights"
  <2>1. [ModerationNext]_moderationVars /\ UNCHANGED rightsOnly
    BY <1>2 DEF SideNext, sideVars
  <2>2. ModerationInv'
    BY <1>2, <2>1, ModerationInvNext DEF SideInv
  <2>3. NoRoles'
    BY <1>2, <2>1 DEF SideInv, NoRoles, rightsOnly, config
  <2>4. FilesInForce'
    BY <2>1, ConfigKept DEF SideInv, rightsOnly
  <2> QED
    BY <1>1, <1>2, <2>2, <2>3, <2>4 DEF SideInv
<1>3. CASE side = "rights"
  <2>1. [RightsNext]_rightsVars /\ UNCHANGED moderationOnly
    BY <1>3 DEF SideNext, sideVars, moderationVars, moderationOnly, rightsOnly, rightsVars
  <2>2. RightsInv'
    BY <1>3, <2>1, RightsInvNext DEF SideInv
  <2>3. NoBans'
    BY <1>3, <2>1 DEF SideInv, NoBans, moderationOnly
  <2>4. FilesInForce'
    BY <2>1, FilesInForceNext DEF SideInv
  <2> QED
    BY <1>1, <1>3, <2>2, <2>3, <2>4 DEF SideInv
<1> QED
  BY <1>2, <1>3

LEMMA SideAlways == SideSpec => []SideInv
<1>1. SideInv /\ [SideNext]_sideVars => SideInv'
  BY SideInvNext
<1> QED
  BY <1>1, SideInvInit, PTL DEF SideSpec

LEMMA SideScreens == SideSpec => ScreensSpec
<1>1. SideInit => ScreensInit
  BY DEF SideInit
<1>2. [SideNext]_sideVars => [ScreensNext]_screenVars
  BY DEF SideNext, sideVars
<1> QED
  BY <1>1, <1>2, PTL DEF SideSpec, ScreensSpec

LEMMA SideTestimony == SideSpec => Spec
<1>1. SideInit => Init
  BY DEF SideInit
<1>2. [SideNext]_sideVars => [Next]_vars
  BY DEF SideNext, sideVars
<1> QED
  BY <1>1, <1>2, PTL DEF SideSpec, Spec

(* Nobody is entitled to a role nobody was given. *)
LEMMA NoRolesToHave ==
  ASSUME PresenceTypeOK, NoRoles
  PROVE  RightsTypeOK /\ RoleAsRecorded
<1>1. RightsTypeOK
  BY DEF NoRoles, RightsTypeOK
<1>2. ASSUME NEW c \in Present PROVE role[c] = FirstRole(account[c], TRUE)
  <2>1. c \in Clients /\ account[c] \in Accounts \cup {Guest}
    BY DEF Present, PresenceTypeOK
  <2> QED
    BY <2>1 DEF NoRoles, FirstRole, roleOf
<1> QED
  BY <1>1, <1>2 DEF RoleAsRecorded

LEMMA NoBansToKeep ==
  ASSUME PresenceTypeOK, NoBans
  PROVE  ModerationTypeOK /\ BannedStayOut
<1>1. bans \in Seq(Record) /\ DOMAIN bans = {}
  BY EmptyBans DEF NoBans
<1>2. ModerationTypeOK
  BY <1>1 DEF NoBans, ModerationTypeOK, Record
<1> QED
  BY <1>1, <1>2 DEF BannedStayOut, activeBans

LEMMA SideInvMeans ==
  ASSUME SideInv
  PROVE  ModerationTypeOK /\ RightsTypeOK /\ BannedStayOut /\ RoleAsRecorded
<1>1. CASE side # "rights"
  <2>1. ModerationInv /\ NoRoles /\ PresenceTypeOK
    BY <1>1 DEF SideInv, ModerationInv, ModerationTypeOK
  <2> QED
    BY <2>1, NoRolesToHave DEF ModerationInv
<1>2. CASE side = "rights"
  <2>1. RightsInv /\ NoBans /\ PresenceTypeOK
    BY <1>2 DEF SideInv, RightsInv, RightsTypeOK
  <2> QED
    BY <2>1, NoBansToKeep DEF RightsInv
<1> QED
  BY <1>1, <1>2

(* Testimonies, accounts, bans, roles and screens stay of their kinds. *)
THEOREM SideTypes == SideSpec => []SideTypeOK
<1>1. SideInv /\ ScreensTypeOK /\ TypeOK => SideTypeOK
  BY SideInvMeans DEF SideTypeOK
<1> QED
  BY <1>1, SideAlways, SideScreens, SideTestimony, ScreensTypes, TestimonyTypes, PTL

LEMMA SideChangeByRecord ==
  ASSUME SideInv, SideInv', SideNext
  PROVE  [ChangeByRecord]_rightsVars
<1>1. CASE side = "rights"
  <2>1. RightsNext /\ RightsInv
    BY <1>1 DEF SideNext, SideInv
  <2> QED
    BY <2>1, ChangeByRecordNext DEF SideInv
<1>2. CASE side = "moderation"
  <2>1. role' = role /\ roles' = roles /\ extensions' = extensions
    BY <1>2 DEF SideNext, rightsOnly, config
  <2> QED
    BY <2>1, RunsAsBefore DEF ChangeByRecord
<1>3. CASE side # "rights" /\ side # "moderation"
  BY <1>3 DEF SideNext, moderationVars, rightsOnly, rightsVars
<1> QED
  BY <1>1, <1>2, <1>3

(* What the run of these parts checks in the small holds in the large.     *)
THEOREM SideHolds ==
  SideSpec => /\ [](CurrentInRange /\ RecordsAtTheEnd)
              /\ [](BannedStayOut /\ RoleAsRecorded /\ ScreensShowTheArea)
              /\ OnlyInsertionDisplacesTitle /\ RightsChangeByRecord
<1>1. SideInv => BannedStayOut /\ RoleAsRecorded
  BY SideInvMeans
<1>2. SideInv /\ SideInv' /\ [SideNext]_sideVars => [ChangeByRecord]_rightsVars
  <2>1. UNCHANGED sideVars => UNCHANGED rightsVars
    BY DEF sideVars, moderationVars, rightsOnly, rightsVars
  <2> QED
    BY <2>1, SideChangeByRecord
<1>3. [][ChangeByRecord]_rightsVars => RightsChangeByRecord
  BY PTL DEF ChangeByRecord, RightsChangeByRecord
<1>4. SideSpec => [][ChangeByRecord]_rightsVars
  BY <1>2, SideAlways, PTL DEF SideSpec
<1>5. SideSpec => [](CurrentInRange /\ RecordsAtTheEnd) /\ OnlyInsertionDisplacesTitle
  BY SideTestimony, TestimonySafe, TestimonyContiguous, TestimonyTitleStays, PTL
<1> QED
  BY <1>1, <1>3, <1>4, <1>5, SideAlways, SideScreens, ScreensAreTrue, PTL
=============================================================================
