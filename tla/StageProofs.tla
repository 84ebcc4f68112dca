----------------------------- MODULE StageProofs -----------------------------
(***************************************************************************)
(* A timer on the screens of any number of players for any durations;      *)
(* messages are spaced and punished, and the muted type in vain, for any   *)
(* number of players and areas and any length of the guards.               *)
(***************************************************************************)
EXTENDS Stage, MusicProofs

(* A timer players see *)

CountdownInv == CountdownTypeOK /\ RestIsKept /\ TimerToldTruly

LEMMA CountdownInvInit == CountdownInit => CountdownInv
<1> SUFFICES ASSUME CountdownInit PROVE CountdownInv
  OBVIOUS
<1>1. NothingTold \in [state : TimerState, visible : BOOLEAN, tick : Nat]
  BY DEF NothingTold, TimerState
<1>2. told \in [Viewers -> [state : TimerState, visible : BOOLEAN, tick : Nat]]
  BY <1>1 DEF CountdownInit
<1>3. CountdownTypeOK
  BY <1>2 DEF CountdownInit, CountdownTypeOK, TimerState
<1>4. RestIsKept /\ TimerToldTruly
  BY DEF CountdownInit, RestIsKept, TimerToldTruly
<1> QED
  BY <1>3, <1>4 DEF CountdownInv

LEMMA CountdownTypesNext ==
  ASSUME CountdownTypeOK, [CountdownNext]_countdownVars
  PROVE  CountdownTypeOK'
<1> USE CountdownConstants DEF CountdownTypeOK, TimerState
<1>1. ASSUME timerState' \in TimerState, due' \in Nat, remaining' \in Nat,
             visible' \in BOOLEAN, NEW signalled \in BOOLEAN, Told(signalled)
      PROVE  told' \in [Viewers -> [state : TimerState, visible : BOOLEAN, tick : Nat]]
  BY <1>1 DEF Told, remainingMs
<1>2. StoppedRest \in Nat
  BY DEF StoppedRest
<1>3. ASSUME NEW d \in Durations, SetTime(d) PROVE CountdownTypeOK'
  BY <1>1, <1>2, <1>3 DEF SetTime, start, handleTimeout
<1>4. CASE StartTimer
  <2>1. /\ timerState' \in TimerState /\ due' \in Nat /\ remaining' \in Nat
        /\ visible' \in BOOLEAN /\ ran' \in Nat /\ UNCHANGED <<duration, viewers>>
    BY <1>4 DEF StartTimer, resume, start, handleTimeout
  <2>2. Told(TRUE) \/ Told(FALSE)
    <3>1. CASE timerState = "Running"
      <4>1. Told(timerState # "Running")
        BY <1>4 DEF StartTimer
      <4>2. (timerState # "Running") = FALSE
        BY <3>1
      <4> QED
        BY <4>1, <4>2
    <3>2. CASE timerState # "Running"
      <4>1. Told(timerState # "Running")
        BY <1>4 DEF StartTimer
      <4>2. (timerState # "Running") = TRUE
        BY <3>2
      <4> QED
        BY <4>1, <4>2
    <3> QED
      BY <3>1, <3>2
  <2>3. told' \in [Viewers -> [state : TimerState, visible : BOOLEAN, tick : Nat]]
    BY <1>1, <2>1, <2>2
  <2> QED
    BY <2>1, <2>3
<1>5. CASE PauseTimer
  BY <1>1, <1>5 DEF PauseTimer, suspend
<1>6. CASE HideTimer
  BY <1>1, <1>2, <1>6 DEF HideTimer
<1>7. CASE Tick
  BY <1>7 DEF Tick
<1>8. CASE TimedOut
  BY <1>1, <1>8 DEF TimedOut, handleTimeout
<1>9. CASE Synchronize
  BY <1>9 DEF Synchronize
<1>10. ASSUME NEW p \in Viewers, ShipTimers(p) PROVE CountdownTypeOK'
  BY <1>10 DEF ShipTimers, remainingMs
<1>11. ASSUME NEW p \in Viewers, StopViewing(p) PROVE CountdownTypeOK'
  BY <1>11 DEF StopViewing, NothingTold
<1>12. CASE UNCHANGED countdownVars
  BY <1>12 DEF countdownVars
<1> QED
  BY <1>3, <1>4, <1>5, <1>6, <1>7, <1>8, <1>9, <1>10, <1>11, <1>12 DEF CountdownNext

LEMMA RestIsKeptNext ==
  ASSUME CountdownTypeOK, RestIsKept, [CountdownNext]_countdownVars
  PROVE  RestIsKept'
<1> USE CountdownConstants DEF CountdownTypeOK, TimerState, RestIsKept, remainingMs
<1>1. ASSUME NEW d \in Durations, SetTime(d) PROVE RestIsKept'
  BY <1>1 DEF SetTime, start, handleTimeout
<1>2. CASE StartTimer
  BY <1>2 DEF StartTimer, resume, start, handleTimeout
<1>3. CASE PauseTimer
  BY <1>3 DEF PauseTimer, suspend
<1>4. CASE HideTimer \/ TimedOut
  BY <1>4 DEF HideTimer, TimedOut, handleTimeout
<1>5. CASE Tick
  BY <1>5 DEF Tick
<1>6. CASE Synchronize \/ \E p \in Viewers : ShipTimers(p) \/ StopViewing(p)
  BY <1>6 DEF Synchronize, ShipTimers, StopViewing
<1>7. CASE UNCHANGED countdownVars
  BY <1>7 DEF countdownVars
<1> QED
  BY <1>1, <1>2, <1>3, <1>4, <1>5, <1>6, <1>7 DEF CountdownNext

(* What a packet of the step told a player is so. *)
LEMMA ToldTruly ==
  ASSUME CountdownTypeOK, TimerToldTruly, UNCHANGED viewers, NEW signalled \in BOOLEAN,
         Told(signalled),
         ~signalled => UNCHANGED <<timerState, due, remainingMs>>,
         due' \in Int, remainingMs' = due' \/ timerState' # "Running"
  PROVE  TimerToldTruly'
<1>1. ASSUME NEW p \in viewers
      PROVE  /\ told'[p].state = timerState'
             /\ told'[p].visible = visible'
             /\ IF timerState' = "Running" THEN told'[p].tick >= due'
                                           ELSE told'[p].tick = remainingMs'
  <2>1. p \in Viewers
    BY DEF CountdownTypeOK
  <2>2. told'[p] = [state |-> IF signalled THEN timerState' ELSE told[p].state,
                    tick |-> IF signalled THEN remainingMs' ELSE told[p].tick,
                    visible |-> IF visible' # visible THEN visible' ELSE told[p].visible]
    BY <2>1 DEF Told
  <2>3. /\ told[p].state = timerState
        /\ told[p].visible = visible
        /\ IF timerState = "Running" THEN told[p].tick >= due
                                     ELSE told[p].tick = remainingMs
    BY DEF TimerToldTruly
  <2> QED
    BY <2>2, <2>3
<1> QED
  BY <1>1 DEF TimerToldTruly

LEMMA TimerToldTrulyNext ==
  ASSUME CountdownTypeOK, TimerToldTruly, [CountdownNext]_countdownVars
  PROVE  TimerToldTruly'
<1>0. CountdownTypeOK'
  BY CountdownTypesNext
<1>1. due' \in Int /\ (timerState' = "Running" => remainingMs' = due')
  BY <1>0 DEF CountdownTypeOK, remainingMs
<1>2. ASSUME NEW d \in Durations, SetTime(d) PROVE TimerToldTruly'
  BY <1>1, <1>2, ToldTruly DEF SetTime
<1>3. CASE StartTimer
  BY <1>1, <1>3, ToldTruly DEF StartTimer, remainingMs
<1>4. CASE PauseTimer \/ TimedOut
  BY <1>1, <1>4, ToldTruly DEF PauseTimer, TimedOut
<1>5. CASE HideTimer
  BY <1>1, <1>5, ToldTruly DEF HideTimer, remainingMs
<1>6. CASE Tick
  BY <1>6 DEF Tick, TimerToldTruly, CountdownTypeOK
<1>7. CASE Synchronize
  BY <1>7 DEF Synchronize, TimerToldTruly, CountdownTypeOK
<1>8. ASSUME NEW p \in Viewers, ShipTimers(p) PROVE TimerToldTruly'
  BY <1>8 DEF ShipTimers, TimerToldTruly, CountdownTypeOK, remainingMs
<1>9. ASSUME NEW p \in Viewers, StopViewing(p) PROVE TimerToldTruly'
  BY <1>9 DEF StopViewing, TimerToldTruly, CountdownTypeOK, remainingMs
<1>10. CASE UNCHANGED countdownVars
  BY <1>10 DEF countdownVars, TimerToldTruly, remainingMs
<1> QED
  BY <1>2, <1>3, <1>4, <1>5, <1>6, <1>7, <1>8, <1>9, <1>10 DEF CountdownNext

(* A timer has a state, and times that are no less than nothing. *)
THEOREM CountdownTypes == CountdownSpec => []CountdownTypeOK
<1>1. CountdownInv /\ [CountdownNext]_countdownVars => CountdownInv'
  BY CountdownTypesNext, RestIsKeptNext, TimerToldTrulyNext DEF CountdownInv
<1>2. CountdownInv => CountdownTypeOK
  BY DEF CountdownInv
<1> QED
  BY <1>1, <1>2, CountdownInvInit, PTL DEF CountdownSpec

(* Over any sequence of commands a timer has run for what it does not have *)
(* left any more, and every player was told the truth about it.            *)
THEOREM CountdownTruth == CountdownSpec => []TimerTruth
<1>1. CountdownInv /\ [CountdownNext]_countdownVars => CountdownInv'
  BY CountdownTypesNext, RestIsKeptNext, TimerToldTrulyNext DEF CountdownInv
<1>2. CountdownInv => TimerTruth
  BY DEF CountdownInv, TimerTruth
<1> QED
  BY <1>1, <1>2, CountdownInvInit, PTL DEF CountdownSpec

-----------------------------------------------------------------------------
(* Speech *)

(* What a guard has still to wait and what has passed make up its length.  *)
GuardsCount ==
  /\ guard \in [Guards -> Nat \cup {Open}]
  /\ since \in [Guards -> Nat]
  /\ \A g \in Guards :
       since[g] + (IF guard[g] = Open THEN 0 ELSE guard[g]) >= Limit(g)

SpacedInv == GuardsCount /\ MessagesAreSpaced

LEMMA LimitType == \A g \in Guards : Limit(g) \in Nat
  BY SpeechConstants DEF Limit

LEMMA OpenIsNoTime == Open \notin Nat /\ Open \in Int
  BY DEF Open

LEMMA SpacedInit == SpeechInit => SpacedInv
<1> SUFFICES ASSUME SpeechInit PROVE SpacedInv
  OBVIOUS
<1>1. GuardsCount
  <2>1. guard = [g \in Guards |-> Open] /\ since = [g \in Guards |-> Limit(g)]
    BY DEF SpeechInit
  <2> QED
    BY <2>1, LimitType DEF GuardsCount
<1>2. MessagesAreSpaced
  BY DEF SpeechInit, MessagesAreSpaced
<1> QED
  BY <1>1, <1>2 DEF SpacedInv

(* A message restarts the guards it passed; it passed them open. *)
LEMMA StartKeepsCount ==
  ASSUME GuardsCount, NEW a \in SpeechAreas, startMessageFloodguard(a)
  PROVE  GuardsCount'
<1>1. /\ guard' = [g \in Guards |-> IF g \in {a, "server"} THEN Limit(g) ELSE guard[g]]
      /\ since' = [g \in Guards |-> IF g \in {a, "server"} THEN 0 ELSE since[g]]
  BY DEF startMessageFloodguard
<1>2. guard' \in [Guards -> Nat \cup {Open}] /\ since' \in [Guards -> Nat]
  BY <1>1, LimitType DEF GuardsCount
<1>3. ASSUME NEW g \in Guards
      PROVE  since'[g] + (IF guard'[g] = Open THEN 0 ELSE guard'[g]) >= Limit(g)
  <2>1. CASE g \in {a, "server"}
    <3>1. since'[g] = 0 /\ guard'[g] = Limit(g) /\ guard'[g] # Open
      BY <1>1, <2>1, LimitType, OpenIsNoTime
    <3> QED
      BY <3>1, LimitType
  <2>2. CASE g \notin {a, "server"}
    <3>1. since'[g] = since[g] /\ guard'[g] = guard[g]
      BY <1>1, <2>2
    <3> QED
      BY <3>1 DEF GuardsCount
  <2> QED
    BY <2>1, <2>2
<1>4. \A g \in Guards : Limit(g)' = Limit(g)
  BY DEF Limit
<1> QED
  BY <1>2, <1>3, <1>4 DEF GuardsCount

LEMMA BroadcastIsSpaced ==
  ASSUME GuardsCount, NEW p, NEW a \in SpeechAreas, NEW t, MaySpeak(p, a),
         Broadcast(p, a, t)
  PROVE  MessagesAreSpaced'
<1>1. a \in Guards /\ "server" \in Guards /\ a # "server"
  BY SpeechConstants DEF Guards
<1>2. guard[a] = Open /\ guard["server"] = Open
  BY DEF MaySpeak, isMessageAllowed
<1>3. since[a] >= Limit(a) /\ since["server"] >= Limit("server")
  BY <1>1, <1>2 DEF GuardsCount
<1>4. said'.inArea = since[a] /\ said'.inServer = since["server"]
  BY DEF Broadcast
<1> QED
  BY <1>1, <1>3, <1>4 DEF MessagesAreSpaced, Limit

LEMMA SpacedNext == SpacedInv /\ [SpeechNext]_speechVars => SpacedInv'
<1> SUFFICES ASSUME SpacedInv, [SpeechNext]_speechVars PROVE SpacedInv'
  OBVIOUS
<1> USE DEF SpacedInv
<1>0. ASSUME UNCHANGED <<guard, since>> PROVE GuardsCount'
  BY <1>0 DEF GuardsCount, Limit
<1>1. ASSUME said' = Silence PROVE MessagesAreSpaced'
  BY <1>1 DEF MessagesAreSpaced, Silence
<1>2. ASSUME NEW p \in Speakers, NEW a \in SpeechAreas, NEW t \in Typed, Speak(p, a, t)
      PROVE  SpacedInv'
  BY <1>2, StartKeepsCount, BroadcastIsSpaced DEF Speak
<1>3. ASSUME NEW p \in Speakers, NEW a \in SpeechAreas, NEW t \in Text, Replay(p, a, t)
      PROVE  SpacedInv'
  BY <1>3, StartKeepsCount, BroadcastIsSpaced DEF Replay
<1>4. ASSUME NEW p \in Speakers, NEW a \in SpeechAreas, NEW t \in Typed, RefuseLate(p, a, t)
      PROVE  SpacedInv'
  BY <1>0, <1>1, <1>4 DEF RefuseLate
<1>5. ASSUME NEW g \in Guards, allowMessage(g) PROVE SpacedInv'
  <2>1. guard[g] = 0 /\ guard' = [guard EXCEPT ![g] = Open] /\ UNCHANGED since
    BY <1>5 DEF allowMessage
  <2>2. guard' \in [Guards -> Nat \cup {Open}] /\ since' \in [Guards -> Nat]
    BY <2>1 DEF GuardsCount
  <2>3. ASSUME NEW h \in Guards
        PROVE  since'[h] + (IF guard'[h] = Open THEN 0 ELSE guard'[h]) >= Limit(h)'
    <3>1. since[h] + (IF guard[h] = Open THEN 0 ELSE guard[h]) >= Limit(h) /\ since[h] \in Nat
      BY DEF GuardsCount
    <3>2. Limit(h)' = Limit(h)
      BY DEF Limit
    <3>3. CASE h = g
      <4>1. guard'[h] = Open /\ guard[h] = 0 /\ guard[h] # Open
        BY <2>1, <3>3, OpenIsNoTime DEF GuardsCount
      <4> QED
        BY <2>1, <3>1, <3>2, <4>1
    <3>4. CASE h # g
      BY <2>1, <3>1, <3>2, <3>4 DEF GuardsCount
    <3> QED
      BY <3>3, <3>4
  <2> QED
    BY <1>1, <1>5, <2>2, <2>3 DEF GuardsCount, allowMessage
<1>6. CASE Pass
  <2>1. /\ guard' = [g \in Guards |-> IF guard[g] > 0 THEN guard[g] - 1 ELSE guard[g]]
        /\ since' = [g \in Guards |-> IF since[g] < Limit(g) THEN since[g] + 1 ELSE since[g]]
    BY <1>6 DEF Pass
  <2>2. \A g \in Guards : guard[g] \in Nat \cup {Open} /\ since[g] \in Nat
    BY DEF GuardsCount
  <2>3. guard' \in [Guards -> Nat \cup {Open}] /\ since' \in [Guards -> Nat]
    BY <2>1, <2>2 DEF Open
  <2>4. ASSUME NEW g \in Guards
        PROVE  since'[g] + (IF guard'[g] = Open THEN 0 ELSE guard'[g]) >= Limit(g)'
    <3>1. since[g] + (IF guard[g] = Open THEN 0 ELSE guard[g]) >= Limit(g)
      BY DEF GuardsCount
    <3>2. Limit(g)' = Limit(g) /\ Limit(g) \in Nat
      BY LimitType DEF Limit
    <3>3. /\ guard'[g] = IF guard[g] > 0 THEN guard[g] - 1 ELSE guard[g]
          /\ since'[g] = IF since[g] < Limit(g) THEN since[g] + 1 ELSE since[g]
      BY <2>1
    <3> QED
      BY <2>2, <3>1, <3>2, <3>3 DEF Open
  <2> QED
    BY <1>1, <1>6, <2>3, <2>4 DEF GuardsCount, Pass
<1>7. ASSUME NEW p \in Speakers, Moderate(p) PROVE SpacedInv'
  BY <1>0, <1>1, <1>7 DEF Moderate, Mute, Gimp, Medievalize, Shake, Disemvowel, UnMute,
       UnGimp, UnMedieval, UnShake, UnDisemvowel, Impose, Lift
<1>8. ASSUME NEW a \in SpeechAreas, AllowBlankposting(a) \/ MedievalMode(a) PROVE SpacedInv'
  BY <1>0, <1>1, <1>8 DEF AllowBlankposting, MedievalMode
<1>9. CASE UNCHANGED speechVars
  BY <1>0, <1>9 DEF speechVars, MessagesAreSpaced
<1> QED
  BY <1>2, <1>3, <1>4, <1>5, <1>6, <1>7, <1>8, <1>9 DEF SpeechNext

(* Whoever speaks, two messages in an area, and two messages anywhere, are *)
(* as far apart as the flood guards ask, whatever their lengths are.       *)
THEOREM SpeechSpaced == SpeechSpec => []MessagesAreSpaced
<1>1. SpacedInv => MessagesAreSpaced
  BY DEF SpacedInv
<1> QED
  BY <1>1, SpacedInit, SpacedNext, PTL DEF SpeechSpec

-----------------------------------------------------------------------------
(* Punishments *)

(* No filter before the vowels go changes whose words they are, but gimping *)
(* does, and none makes a text blank that was not, but medieval words.     *)
LEMMA FiltersObey ==
  ASSUME NEW p \in Speakers, NEW a \in SpeechAreas, NEW t \in Typed,
         NEW heard \in Heard(p, a, t)
  PROVE  /\ heard.words \in {"own", "gimp"}
         /\ "gimped" \in flags[p] => heard.words = "gimp"
         /\ "disemvoweled" \in flags[p] => ~heard.vowels
         /\ IsBlank(heard) /\ heard.words = "own" =>
              \/ IsBlank(t) \/ a \in medievalAreas
              \/ flags[p] \cap {"medieval", "disemvoweled"} # {}
<1>1. t \in Text /\ t.words = "own"
  BY DEF Typed
<1>2. PICK f \in Filtered(t) :
        \E m \in Medieval(p, a, Gimped(p, f)) : heard = Disemvoweled(p, m)
  BY DEF Heard, Shaken
<1>3. f \in Text /\ f.words = "own" /\ (IsBlank(f) => IsBlank(t))
  <2>1. CASE f = t
    BY <1>1, <2>1
  <2>2. CASE f # t
    <3>1. PICK v \in BOOLEAN : f = [t EXCEPT !.vowels = v, !.rest = TRUE]
      BY <1>1, <1>2, <2>2 DEF Filtered, Text
    <3> QED
      BY <1>1, <3>1 DEF Text, IsBlank
  <2> QED
    BY <2>1, <2>2
<1> DEFINE g == Gimped(p, f)
<1>4. /\ g \in Text /\ g.words \in {"own", "gimp"}
      /\ "gimped" \in flags[p] => g.words = "gimp"
      /\ IsBlank(g) /\ g.words = "own" => IsBlank(t)
  <2>1. CASE "gimped" \in flags[p]
    BY <2>1 DEF Gimped, Text
  <2>2. CASE "gimped" \notin flags[p]
    BY <1>3, <2>2 DEF Gimped
  <2> QED
    BY <2>1, <2>2
<1>5. PICK m \in Medieval(p, a, g) : heard = Disemvoweled(p, m)
  BY <1>2
<1> HIDE DEF g
<1>6. /\ m \in Text /\ m.words = g.words
      /\ "medieval" \notin flags[p] /\ a \notin medievalAreas => m = g
  <2>1. CASE "medieval" \in flags[p] \/ a \in medievalAreas
    BY <1>5, <2>1 DEF Medieval
  <2>2. CASE ~("medieval" \in flags[p] \/ a \in medievalAreas)
    BY <1>4, <1>5, <2>2 DEF Medieval
  <2> QED
    BY <2>1, <2>2
<1>7. CASE "disemvoweled" \in flags[p]
  <2>1. heard = [m EXCEPT !.vowels = FALSE]
    BY <1>5, <1>7 DEF Disemvoweled
  <2>2. heard.words = m.words /\ heard.vowels = FALSE
    BY <1>6, <2>1 DEF Text
  <2> QED
    BY <1>4, <1>6, <1>7, <2>2
<1>8. CASE "disemvoweled" \notin flags[p]
  <2>1. heard = m
    BY <1>5, <1>8 DEF Disemvoweled
  <2> QED
    BY <1>4, <1>6, <1>8, <2>1
<1> QED
  BY <1>7, <1>8

LEMMA PunishmentsNext ==
  PunishmentsHold /\ [SpeechNext]_speechVars => PunishmentsHold'
<1> SUFFICES ASSUME PunishmentsHold, [SpeechNext]_speechVars PROVE PunishmentsHold'
  OBVIOUS
<1>1. ASSUME said' = Silence PROVE PunishmentsHold'
  BY <1>1 DEF PunishmentsHold, Silence
<1>2. ASSUME NEW p \in Speakers, NEW a \in SpeechAreas, NEW t \in Typed, Speak(p, a, t)
      PROVE  PunishmentsHold'
  <2>1. PICK heard \in Heard(p, a, t) : Broadcast(p, a, heard)
    BY <1>2 DEF Speak
  <2>2. said'.by = {p} /\ said'.area = a /\ said'.text = heard
    BY <2>1 DEF Broadcast
  <2>3. /\ "muted" \notin flags[p]
        /\ IsBlank(t) => a \in blankposting
        /\ UNCHANGED <<flags, blankposting, medievalAreas>>
    BY <1>2 DEF Speak, MaySpeak, Accepted, switches
  <2>4. /\ "gimped" \in flags[p] => heard.words = "gimp"
        /\ "disemvoweled" \in flags[p] => ~heard.vowels
        /\ IsBlank(heard) /\ heard.words = "own" =>
             \/ IsBlank(t) \/ a \in medievalAreas
             \/ flags[p] \cap {"medieval", "disemvoweled"} # {}
    BY FiltersObey
  <2> QED
    BY <2>2, <2>3, <2>4 DEF PunishmentsHold, IsBlank
<1>3. ASSUME NEW p \in Speakers, NEW a \in SpeechAreas, NEW t \in Text, Replay(p, a, t)
      PROVE  PunishmentsHold'
  <2>1. said'.by = {p} /\ said'.text = t /\ t.words = "recorded"
    BY <1>3 DEF Replay, Broadcast
  <2>2. "muted" \notin flags[p] /\ "gimped" \notin flags[p] /\ UNCHANGED flags
    BY <1>3 DEF Replay, MaySpeak, switches
  <2> QED
    BY <2>1, <2>2 DEF PunishmentsHold
<1>4. ASSUME NEW p \in Speakers, NEW a \in SpeechAreas, NEW t \in Typed, RefuseLate(p, a, t)
      PROVE  PunishmentsHold'
  BY <1>1, <1>4 DEF RefuseLate
<1>5. ASSUME (\E g \in Guards : allowMessage(g)) \/ Pass PROVE PunishmentsHold'
  BY <1>1, <1>5 DEF allowMessage, Pass
<1>6. ASSUME NEW p \in Speakers, Moderate(p) PROVE PunishmentsHold'
  BY <1>1, <1>6 DEF Moderate, Mute, Gimp, Medievalize, Shake, Disemvowel, UnMute,
       UnGimp, UnMedieval, UnShake, UnDisemvowel, Impose, Lift
<1>7. ASSUME NEW a \in SpeechAreas, AllowBlankposting(a) \/ MedievalMode(a)
      PROVE  PunishmentsHold'
  BY <1>1, <1>7 DEF AllowBlankposting, MedievalMode
<1>8. CASE UNCHANGED speechVars
  BY <1>8 DEF speechVars, PunishmentsHold, IsBlank
<1> QED
  BY <1>2, <1>3, <1>4, <1>5, <1>6, <1>7, <1>8 DEF SpeechNext

(* No area ever hears what a punishment in force forbids, whichever of them *)
(* are in force together and whatever the filters and the words of other   *)
(* ages make of a message.                                                 *)
THEOREM SpeechPunished == SpeechSpec => []PunishmentsHold
<1>1. SpeechInit => PunishmentsHold
  BY DEF SpeechInit, PunishmentsHold, Silence
<1> QED
  BY <1>1, PunishmentsNext, PTL DEF SpeechSpec

-----------------------------------------------------------------------------
(* Muted out of character *)

InVain ==
  \A u \in act'.by :
    "ooc_muted" \in blocked[u] /\ act'.chat => act'.to = {} /\ UNCHANGED rules

LEMMA MutedInVainNext == ConductNext => InVain
<1> SUFFICES ASSUME ConductNext PROVE InVain
  OBVIOUS
<1>1. ASSUME NEW u, "ooc_muted" \notin blocked[u], act'.by = {u} PROVE InVain
  BY <1>1 DEF InVain
<1>2. ASSUME NEW u, NEW to, Say(u, to) PROVE InVain
  BY <1>1, <1>2 DEF Say, OocMessage
<1>3. ASSUME NEW u, Command(u) PROVE InVain
  BY <1>1, <1>3 DEF Command, OocMessage
<1>4. ASSUME NEW u, NEW to, Other(u, to) PROVE InVain
  BY <1>4 DEF Other, InVain
<1>5. ASSUME act' = NoAct PROVE InVain
  BY <1>5 DEF InVain, NoAct
<1>6. ASSUME NEW u \in Users, Chat(u) PROVE InVain
  <2>1. CASE Refused(u)
    BY <2>1 DEF Refused, InVain
  <2>2. CASE Afk(u)
    BY <1>1, <2>2 DEF Afk, OocMessage
  <2>3. CASE \E to : Say(u, to)
    BY <1>2, <2>3
  <2> QED
    BY <1>6, <2>1, <2>2, <2>3 DEF Chat, SayInArea, G, Need, PM, M, GM, LM, CaseManagersSay
<1>7. ASSUME NEW u \in Users, Govern(u) PROVE InVain
  <2>1. Command(u)
    BY <1>7 DEF Govern, OocMute, OocUnMute, BlockWtce, UnBlockWtce, BlockDj, UnBlockDj,
         MutePM, ToggleAdverts, ToggleGlobal, ToggleMusic, AllowPlay, ToggleWtce,
         ToggleShouts, ForceImmediate, AllowIniswap, ToggleAreaMessageOnJoin,
         ClearAreaMessage, IgnoreBgList, BgLock, BgUnlock,
         Impede, Permit, Wishes, Toggle
  <2> QED
    BY <1>3, <2>1
<1>8. ASSUME NEW u \in Users, Splash(u) \/ JudgePenalty(u) \/ PlayMusicRequest(u) \/ ModCall(u)
      PROVE  InVain
  BY <1>4, <1>8 DEF Splash, JudgePenalty, PlayMusicRequest, ModCall
<1>9. ASSUME NEW u \in Users, Enter(u) \/ Leaves(u) \/ TooManyPackets(u) \/ onAfkTimeout(u)
      PROVE  InVain
  BY <1>5, <1>9 DEF Enter, Leaves, TooManyPackets, onAfkTimeout, Quit
<1>10. CASE Second
  BY <1>5, <1>10 DEF Second
<1> QED
  BY <1>6, <1>7, <1>8, <1>9, <1>10 DEF ConductNext

(* No command and no chat packet that exists gets past the muting of its   *)
(* sender, whatever is switched and however many users there are.          *)
THEOREM ConductMuted == ConductSpec => MutedTypeInVain
<1>1. [ConductNext]_conductVars => [InVain]_conductVars
  BY MutedInVainNext
<1> QED
  BY <1>1, PTL DEF ConductSpec, MutedTypeInVain, InVain

-----------------------------------------------------------------------------
(* The kinds of values speech and packets go through *)

LEMMA SpeechTypesInit == SpeechInit => SpeechTypeOK
<1>1. Empty \in Text
  BY DEF Empty, Text
<1>2. Open \in Nat \cup {Open}
  OBVIOUS
<1> QED
  BY <1>1, <1>2, LimitType DEF SpeechInit, SpeechTypeOK

LEMMA SpeechTypesNext == SpeechTypeOK /\ [SpeechNext]_speechVars => SpeechTypeOK'
<1> SUFFICES ASSUME SpeechTypeOK, [SpeechNext]_speechVars PROVE SpeechTypeOK'
  OBVIOUS
<1> USE DEF SpeechTypeOK
<1>1. Typed \subseteq Text
  BY DEF Typed
<1>2. ASSUME NEW a \in SpeechAreas, startMessageFloodguard(a)
      PROVE  guard' \in [Guards -> Nat \cup {Open}] /\ since' \in [Guards -> Nat]
  BY <1>2, LimitType DEF startMessageFloodguard
<1>3. ASSUME NEW p \in Speakers, NEW t \in Text, lastMessage' = [lastMessage EXCEPT ![p] = t]
      PROVE  lastMessage' \in [Speakers -> Text]
  BY <1>3
<1>4. ASSUME NEW p \in Speakers, NEW a \in SpeechAreas, NEW t \in Typed, Speak(p, a, t)
      PROVE  SpeechTypeOK'
  BY <1>1, <1>2, <1>3, <1>4 DEF Speak, switches
<1>5. ASSUME NEW p \in Speakers, NEW a \in SpeechAreas, NEW t \in Text, Replay(p, a, t)
      PROVE  SpeechTypeOK'
  <2>1. [words |-> "own", vowels |-> FALSE, rest |-> TRUE] \in Text
    BY DEF Text
  <2> QED
    BY <1>2, <1>3, <1>5, <2>1 DEF Replay, switches
<1>6. ASSUME NEW p \in Speakers, NEW a \in SpeechAreas, NEW t \in Typed, RefuseLate(p, a, t)
      PROVE  SpeechTypeOK'
  BY <1>1, <1>3, <1>6 DEF RefuseLate, switches
<1>7. ASSUME NEW g \in Guards, allowMessage(g) PROVE SpeechTypeOK'
  BY <1>7 DEF allowMessage, switches
<1>8. CASE Pass
  <2>1. \A g \in Guards : guard[g] > 0 => guard[g] \in Nat \ {0}
    BY DEF Open
  <2>2. guard' \in [Guards -> Nat \cup {Open}]
    BY <1>8, <2>1 DEF Pass
  <2>3. since' \in [Guards -> Nat]
    BY <1>8 DEF Pass
  <2> QED
    BY <1>8, <2>2, <2>3 DEF Pass, switches
<1>9. ASSUME NEW p \in Speakers, NEW f \in Punishment, Impose(f, p) \/ Lift(f, p)
      PROVE  SpeechTypeOK'
  BY <1>9 DEF Impose, Lift
<1>10. ASSUME NEW p \in Speakers, Moderate(p) PROVE SpeechTypeOK'
  BY <1>9, <1>10
     DEF Moderate, Punishment, Mute, UnMute, Gimp, UnGimp, Medievalize, UnMedieval, Shake,
         UnShake, Disemvowel, UnDisemvowel
<1>11. ASSUME NEW a \in SpeechAreas, AllowBlankposting(a) \/ MedievalMode(a) PROVE SpeechTypeOK'
  BY <1>11 DEF AllowBlankposting, MedievalMode, Flip
<1>12. CASE UNCHANGED speechVars
  BY <1>12 DEF speechVars
<1> QED
  BY <1>4, <1>5, <1>6, <1>7, <1>8, <1>10, <1>11, <1>12 DEF SpeechNext

(* Punishments, guards and the last words of everybody are of their kinds. *)
THEOREM SpeechTypes == SpeechSpec => []SpeechTypeOK
  BY SpeechTypesInit, SpeechTypesNext, PTL DEF SpeechSpec

LEMMA ConductTypesNext == ConductTypeOK /\ [ConductNext]_conductVars => ConductTypeOK'
<1> SUFFICES ASSUME ConductTypeOK, [ConductNext]_conductVars PROVE ConductTypeOK'
  OBVIOUS
<1> USE ConductConstants DEF ConductTypeOK
<1>1. ASSUME NEW u \in Users, Arrive(u)
      PROVE  /\ online' \subseteq Users /\ packetCount' \in [Users -> Nat]
             /\ afkDue' \in [Users -> Nat \cup {NotStarted}]
  BY <1>1 DEF Arrive
<1>2. ASSUME NEW u \in Users, Returns(u) PROVE away' \subseteq Users
  BY <1>2 DEF Returns
<1>3. ASSUME NEW u \in Users, NEW to, Say(u, to) PROVE ConductTypeOK'
  BY <1>1, <1>2, <1>3 DEF Say, OocMessage, rules
<1>4. ASSUME NEW u \in Users, Chat(u) PROVE ConductTypeOK'
  <2>1. CASE Refused(u)
    BY <1>1, <1>2, <2>1 DEF Refused, rules
  <2>2. CASE Afk(u)
    BY <1>1, <2>2 DEF Afk, OocMessage, rules
  <2>3. CASE \E to : Say(u, to)
    BY <1>3, <2>3
  <2> QED
    BY <1>4, <2>1, <2>2, <2>3
       DEF Chat, SayInArea, G, Need, PM, M, GM, LM, CaseManagersSay
<1>5. ASSUME NEW u \in Users, Command(u)
      PROVE  /\ online' \subseteq Users /\ packetCount' \in [Users -> Nat]
             /\ afkDue' \in [Users -> Nat \cup {NotStarted}]
             /\ away' \subseteq Users /\ splashDue' \in [Users -> Nat]
  BY <1>1, <1>2, <1>5 DEF Command, OocMessage
<1>6. ASSUME NEW u \in Users, NEW b \in Block, NEW q \in Users, Impede(u, b, q) \/ Permit(u, b, q)
      PROVE  ConductTypeOK'
  <2>1. Command(u) /\ blocked' \in [Users -> SUBSET Block] /\ UNCHANGED <<wishes, settings>>
    BY <1>6 DEF Impede, Permit
  <2> QED
    BY <1>5, <2>1
<1>7. ASSUME NEW u \in Users, NEW w \in Wish, Wishes(u, w) PROVE ConductTypeOK'
  <2>1. /\ Command(u) /\ wishes' = [wishes EXCEPT ![u] = Toggled(w, wishes[u])]
        /\ UNCHANGED <<blocked, settings>>
    BY <1>7 DEF Wishes
  <2>2. Toggled(w, wishes[u]) \in SUBSET Wish
    BY DEF Toggled
  <2> QED
    BY <1>5, <2>1, <2>2
<1>8. ASSUME NEW u \in Users, NEW s \in Setting, Toggle(u, s) PROVE ConductTypeOK'
  <2>1. Command(u) /\ settings' = Toggled(s, settings) /\ UNCHANGED <<blocked, wishes>>
    BY <1>8 DEF Toggle
  <2>2. Toggled(s, settings) \in SUBSET Setting
    BY DEF Toggled
  <2> QED
    BY <1>5, <2>1, <2>2
<1>9. ASSUME NEW u \in Users, Govern(u) PROVE ConductTypeOK'
  <2>1. CASE \E q \in Users, b \in Block : Impede(u, b, q) \/ Permit(u, b, q)
    BY <1>6, <2>1
  <2>2. CASE \E w \in Wish : Wishes(u, w)
    BY <1>7, <2>2
  <2>3. CASE \E s \in Setting : Toggle(u, s)
    BY <1>8, <2>3
  <2>4. ASSUME NEW q \in Users,
               \/ OocMute(u, q) \/ OocUnMute(u, q) \/ BlockWtce(u, q)
               \/ UnBlockWtce(u, q) \/ BlockDj(u, q) \/ UnBlockDj(u, q)
        PROVE  \E b \in Block : Impede(u, b, q) \/ Permit(u, b, q)
    BY <2>4 DEF OocMute, OocUnMute, BlockWtce, UnBlockWtce, BlockDj, UnBlockDj, Block
  <2>5. ASSUME MutePM(u) \/ ToggleAdverts(u) \/ ToggleGlobal(u)
        PROVE  \E w \in Wish : Wishes(u, w)
    BY <2>5 DEF MutePM, ToggleAdverts, ToggleGlobal, Wish
  <2>6. ASSUME \/ ToggleMusic(u) \/ AllowPlay(u) \/ ToggleWtce(u) \/ ToggleShouts(u)
               \/ ForceImmediate(u) \/ AllowIniswap(u) \/ ToggleAreaMessageOnJoin(u)
               \/ ClearAreaMessage(u) \/ IgnoreBgList(u) \/ BgLock(u) \/ BgUnlock(u)
        PROVE  \E s \in Setting : Toggle(u, s)
    BY <2>6
       DEF ToggleMusic, AllowPlay, ToggleWtce, ToggleShouts, ForceImmediate, AllowIniswap,
           ToggleAreaMessageOnJoin, ClearAreaMessage, IgnoreBgList, BgLock, BgUnlock, Setting
  <2> QED
    BY <1>9, <2>1, <2>2, <2>3, <2>4, <2>5, <2>6 DEF Govern
<1>10. ASSUME NEW u \in Users, NEW to, Other(u, to), splashDue' \in [Users -> Nat]
       PROVE  ConductTypeOK'
  BY <1>1, <1>2, <1>10 DEF Other, rules
<1>11. ASSUME NEW u \in Users, Splash(u) \/ JudgePenalty(u) \/ PlayMusicRequest(u) \/ ModCall(u)
       PROVE  ConductTypeOK'
  <2>1. splashDue' \in [Users -> Nat]
    BY <1>11 DEF Splash, JudgePenalty, PlayMusicRequest, ModCall
  <2>2. \E to : Other(u, to)
    BY <1>11 DEF Splash, JudgePenalty, PlayMusicRequest, ModCall
  <2> QED
    BY <1>10, <2>1, <2>2
<1>12. ASSUME NEW u \in Users, Enter(u) PROVE ConductTypeOK'
  BY <1>12 DEF Enter, rules
<1>13. ASSUME NEW u \in Users, Quit(u) PROVE ConductTypeOK'
  BY <1>13 DEF Quit
<1>14. ASSUME NEW u \in Users, onAfkTimeout(u) PROVE ConductTypeOK'
  BY <1>14 DEF onAfkTimeout, rules
<1>15. CASE Second
  <2>1. \A u \in Users : afkDue[u] > 0 => afkDue[u] \in Nat \ {0}
    BY DEF NotStarted
  <2>2. afkDue' \in [Users -> Nat \cup {NotStarted}]
    BY <1>15, <2>1 DEF Second
  <2>3. packetCount' \in [Users -> Nat] /\ splashDue' \in [Users -> Nat]
    BY <1>15 DEF Second
  <2> QED
    BY <1>15, <2>2, <2>3 DEF Second, rules
<1>16. CASE UNCHANGED conductVars
  BY <1>16 DEF conductVars
<1> QED
  BY <1>4, <1>9, <1>11, <1>12, <1>13, <1>14, <1>15, <1>16
     DEF ConductNext, Leaves, TooManyPackets

(* Whoever is online is a user, and no count or timer runs below nothing.  *)
THEOREM ConductTypes == ConductSpec => []ConductTypeOK
<1>1. ConductInit => ConductTypeOK
  BY DEF ConductInit, ConductTypeOK
<1> QED
  BY <1>1, ConductTypesNext, PTL DEF ConductSpec

-----------------------------------------------------------------------------
(* Side by side *)

(* Behind the stage each part goes through the steps of its own            *)
(* specification and no others, so that what is proved of the parts holds. *)
THEOREM StageIsItsParts == StageSpec => MusicSpec /\ CountdownSpec /\ SpeechSpec /\ ConductSpec
<1>1. StageInit => MusicInit /\ CountdownInit /\ SpeechInit /\ ConductInit
  BY DEF StageInit
<1>2. [StageNext]_stageVars =>
        /\ [MusicNext]_musicVars /\ [CountdownNext]_countdownVars
        /\ [SpeechNext]_speechVars /\ [ConductNext]_conductVars
  <2>1. CASE UNCHANGED stageVars
    BY <2>1 DEF stageVars
  <2>2. CASE StageNext
    BY <2>2 DEF StageNext
  <2> QED
    BY <2>1, <2>2
<1> QED
  BY <1>1, <1>2, PTL DEF StageSpec, StageFairness, MusicSpec, CountdownSpec, SpeechSpec, ConductSpec

(* All variables of music, timers, speech and packets stay of their kinds. *)
THEOREM StageTypes == StageSpec => []StageTypeOK
  BY StageIsItsParts, MusicTypes, CountdownTypes, SpeechTypes, ConductTypes, PTL DEF StageTypeOK

(* What the run of these parts checks in the small holds in the large.     *)
THEOREM StageHolds ==
  StageSpec => /\ [](TimerRunsWithQueue /\ TimerTruth /\ MessagesAreSpaced /\ PunishmentsHold)
               /\ OnlyReloadConfuses /\ MutedTypeInVain
  BY StageIsItsParts, JukeboxTimer, CountdownTruth, SpeechSpaced, SpeechPunished,
     MusicOnlyReload, ConductMuted, PTL
=============================================================================
