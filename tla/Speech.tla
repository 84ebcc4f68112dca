-------------------------------- MODULE Speech --------------------------------
(***************************************************************************)
(* Speaking in character: the refusals of AOClient::validateIcMessage, the *)
(* punishments that change what a player says, and the flood guards of the *)
(* areas and of the server.  Recording and playing back are Testimony's    *)
(* matter: here a player that moves through a recorded testimony broadcasts*)
(* words somebody else recorded.  What only concerns the presentation      *)
(* (pairing, names, emotes, offsets, colours) is left out, and so are the  *)
(* refusals of spectators, which change nothing.  The configured list of   *)
(* gimps has an entry.                                                     *)
(*                                                                         *)
(* A text is whose words it holds and whether vowels and anything else are *)
(* in it; without both it is blank.                                        *)
(***************************************************************************)
EXTENDS Integers, FiniteSets

CONSTANTS
  Speakers,
  SpeechAreas,
  AreaGuard,     \* ConfigManager::messageFloodguardMs(), in units of time
  GlobalGuard,   \* ConfigManager::globalMessageFloodguardMs()
  MaxFlags       \* bound on punishments and switches in force, for TLC

ASSUME SpeechConstants ==
  /\ AreaGuard \in Nat /\ GlobalGuard \in Nat /\ MaxFlags \in Nat
  /\ "server" \notin SpeechAreas

VARIABLES
  flags,         \* m_is_muted, m_is_gimped, ... of each client
  lastMessage,   \* AOClient::m_last_message
  blankposting,  \* the areas with AreaData::m_blankpostingAllowed
  medievalAreas, \* the areas with AreaData::m_medieval_mode
  guard,         \* the flood guards: Open, or the rest of their timer
  since,         \* history: time since the last message, up to the guard
  said           \* history: what the step just taken broadcast

speechVars == <<flags, lastMessage, blankposting, medievalAreas, guard, since, said>>
switches == <<flags, blankposting, medievalAreas>>

Guards == SpeechAreas \cup {"server"}
Limit(g) == IF g = "server" THEN GlobalGuard ELSE AreaGuard
Open == -1
Silence == [by |-> {}]

Punishment == {"muted", "gimped", "medieval", "shaken", "disemvoweled"}

Text == [words : {"own", "gimp", "recorded"}, vowels : BOOLEAN, rest : BOOLEAN]
(* What players type: nothing, vowels only, and a sentence. *)
Typed == {t \in Text : t.words = "own" /\ (t.rest => t.vowels)}
IsBlank(t) == ~t.vowels /\ ~t.rest
Empty == [words |-> "own", vowels |-> FALSE, rest |-> FALSE]

-----------------------------------------------------------------------------
(* The filters, each the set of what it may make of a text.                *)

(* Filtered words, some or all, become a mark. *)
Filtered(t) ==
  {t} \cup IF IsBlank(t) THEN {}
           ELSE {[t EXCEPT !.vowels = v, !.rest = TRUE] : v \in {FALSE, t.vowels}}

Gimped(p, t) ==
  IF "gimped" \in flags[p] THEN [words |-> "gimp", vowels |-> TRUE, rest |-> TRUE] ELSE t

(* MedievalParser::degrootify puts other words, before and after too, and  *)
(* takes a leading dash away.                                              *)
Medieval(p, a, t) ==
  IF "medieval" \in flags[p] \/ a \in medievalAreas
    THEN {other \in Text : other.words = t.words}
    ELSE {t}

(* Shuffling the words of a message keeps its letters. *)
Shaken(p, t) == t

Disemvoweled(p, t) ==
  IF "disemvoweled" \in flags[p] THEN [t EXCEPT !.vowels = FALSE] ELSE t

(* Mistake: the vowels go before the punishments that bring new ones. *)
VowelsFirst(p, a, t) ==
  UNION {Medieval(p, a, Gimped(p, Disemvoweled(p, f))) : f \in Filtered(t)}

(* The order of validateIcMessage. *)
Heard(p, a, t) ==
  {Disemvoweled(p, Shaken(p, m)) : m \in UNION {Medieval(p, a, Gimped(p, f)) : f \in Filtered(t)}}

-----------------------------------------------------------------------------
isMessageAllowed(g) == guard[g] = Open

(* Mistake: the guard of the server is left to itself. *)
GuardAreaOnly(a) ==
  /\ guard' = [guard EXCEPT ![a] = AreaGuard]
  /\ since' = [g \in Guards |-> IF g \in {a, "server"} THEN 0 ELSE since[g]]

startMessageFloodguard(a) ==
  /\ guard' = [g \in Guards |-> IF g \in {a, "server"} THEN Limit(g) ELSE guard[g]]
  /\ since' = [g \in Guards |-> IF g \in {a, "server"} THEN 0 ELSE since[g]]

Broadcast(p, a, t) ==
  said' = [by |-> {p}, area |-> a, text |-> t, inArea |-> since[a], inServer |-> since["server"]]

(* AOClient::process(IcMessagePacket) up to the test for double posts *)
MaySpeak(p, a) ==
  /\ "muted" \notin flags[p]
  /\ isMessageAllowed(a)
  /\ isMessageAllowed("server")

Accepted(p, a, t) ==
  /\ lastMessage[p] # Empty => t # lastMessage[p]
  /\ IsBlank(t) => a \in blankposting

Speak(p, a, t) ==
  /\ MaySpeak(p, a)
  /\ Accepted(p, a, t)
  /\ lastMessage' = [lastMessage EXCEPT ![p] = t]
  /\ \E heard \in Heard(p, a, t) : Broadcast(p, a, heard)
  /\ startMessageFloodguard(a)
  /\ UNCHANGED switches

(* A jump is typed as > or <, has no letters to change, and is no double   *)
(* post; a gimped player cannot type it.                                   *)
Replay(p, a, t) ==
  /\ MaySpeak(p, a)
  /\ t.words = "recorded"
  /\ "gimped" \notin flags[p]
  /\ lastMessage' = [lastMessage EXCEPT ![p] = [words |-> "own", vowels |-> FALSE, rest |-> TRUE]]
  /\ Broadcast(p, a, t)
  /\ startMessageFloodguard(a)
  /\ UNCHANGED switches

(* A message refused after the test for double posts (emote mode, *)
(* character, name) counts as the last one said; saying it again after     *)
(* correcting what was wrong is a double post.                             *)
RefuseLate(p, a, t) ==
  /\ MaySpeak(p, a)
  /\ Accepted(p, a, t)
  /\ lastMessage' = [lastMessage EXCEPT ![p] = t]
  /\ said' = Silence
  /\ UNCHANGED <<switches, guard, since>>

(* The timer of a guard; it may be late. *)
allowMessage(g) ==
  /\ guard[g] = 0
  /\ guard' = [guard EXCEPT ![g] = Open]
  /\ said' = Silence
  /\ UNCHANGED <<switches, lastMessage, since>>

Pass ==
  /\ \E g \in Guards : guard[g] > 0
  /\ guard' = [g \in Guards |-> IF guard[g] > 0 THEN guard[g] - 1 ELSE guard[g]]
  /\ since' = [g \in Guards |-> IF since[g] < Limit(g) THEN since[g] + 1 ELSE since[g]]
  /\ said' = Silence
  /\ UNCHANGED <<switches, lastMessage>>

-----------------------------------------------------------------------------
(* Commands of moderators and case managers *)

InForce ==
  {x \in Speakers \X Punishment : x[2] \in flags[x[1]]} \cup
  {<<a, "blank">> : a \in SpeechAreas \ blankposting} \cup
  {<<a, "mode">> : a \in medievalAreas}
Room == Cardinality(InForce) < MaxFlags

Impose(f, p) ==
  /\ Room
  /\ flags' = [flags EXCEPT ![p] = @ \cup {f}]
  /\ said' = Silence
  /\ UNCHANGED <<blankposting, medievalAreas, lastMessage, guard, since>>

Lift(f, p) ==
  /\ flags' = [flags EXCEPT ![p] = @ \ {f}]
  /\ said' = Silence
  /\ UNCHANGED <<blankposting, medievalAreas, lastMessage, guard, since>>

Mute(p) == Impose("muted", p)
UnMute(p) == Lift("muted", p)
Gimp(p) == Impose("gimped", p)
UnGimp(p) == Lift("gimped", p)
Medievalize(p) == Impose("medieval", p)
UnMedieval(p) == Lift("medieval", p)
Shake(p) == Impose("shaken", p)
UnShake(p) == Lift("shaken", p)
Disemvowel(p) == Impose("disemvoweled", p)
UnDisemvowel(p) == Lift("disemvoweled", p)

Flip(set, a) == IF a \in set THEN set \ {a} ELSE set \cup {a}

AllowBlankposting(a) ==
  /\ Room \/ a \notin blankposting
  /\ blankposting' = Flip(blankposting, a)
  /\ said' = Silence
  /\ UNCHANGED <<flags, medievalAreas, lastMessage, guard, since>>

MedievalMode(a) ==
  /\ Room \/ a \in medievalAreas
  /\ medievalAreas' = Flip(medievalAreas, a)
  /\ said' = Silence
  /\ UNCHANGED <<flags, blankposting, lastMessage, guard, since>>

-----------------------------------------------------------------------------
SpeechInit ==
  /\ flags = [p \in Speakers |-> {}]
  /\ lastMessage = [p \in Speakers |-> Empty]
  /\ blankposting = SpeechAreas
  /\ medievalAreas = {}
  /\ guard = [g \in Guards |-> Open]
  /\ since = [g \in Guards |-> Limit(g)]
  /\ said = Silence

Moderate(p) ==
  \/ Mute(p) \/ Gimp(p) \/ Medievalize(p) \/ Shake(p) \/ Disemvowel(p)
  \/ UnMute(p) \/ UnGimp(p) \/ UnMedieval(p) \/ UnShake(p) \/ UnDisemvowel(p)

SpeechNext ==
  \/ \E p \in Speakers, a \in SpeechAreas, t \in Typed : Speak(p, a, t)
  \/ \E p \in Speakers, a \in SpeechAreas, t \in Text : Replay(p, a, t)
  \/ \E p \in Speakers, a \in SpeechAreas, t \in Typed : RefuseLate(p, a, t)
  \/ \E g \in Guards : allowMessage(g)
  \/ Pass
  \/ \E p \in Speakers : Moderate(p)
  \/ \E a \in SpeechAreas : AllowBlankposting(a)
  \/ \E a \in SpeechAreas : MedievalMode(a)

(* Time passes, and the event loop delivers timeouts. *)
SpeechFairness ==
  /\ WF_speechVars(Pass)
  /\ \A g \in Guards : WF_speechVars(allowMessage(g))

SpeechSpec == SpeechInit /\ [][SpeechNext]_speechVars /\ SpeechFairness

-----------------------------------------------------------------------------
(* Every variable holds a value of its kind. *)
SpeechTypeOK ==
  /\ flags \in [Speakers -> SUBSET Punishment]
  /\ lastMessage \in [Speakers -> Text]
  /\ blankposting \subseteq SpeechAreas /\ medievalAreas \subseteq SpeechAreas
  /\ guard \in [Guards -> Nat \cup {Open}]
  /\ since \in [Guards -> Nat]

(* Two messages in an area are as far apart as the guard of areas asks,    *)
(* two messages anywhere as the guard of the server asks, whoever says     *)
(* them: two timers, started by every message and each opening one guard.  *)
MessagesAreSpaced ==
  said # Silence => said.inArea >= AreaGuard /\ said.inServer >= GlobalGuard

(* What an area hears obeys every punishment in force at once: a muted     *)
(* player says nothing, a gimped one none of its words, a disemvoweled one *)
(* no vowel of the words put into its mouth either; only the words of a    *)
(* recorded testimony are as they were.  Where blank messages are forbidden*)
(* none is heard but for what the punishments made blank after the test.   *)
PunishmentsHold ==
  \A p \in said.by :
    /\ "muted" \notin flags[p]
    /\ "gimped" \in flags[p] => said.text.words = "gimp"
    /\ "disemvoweled" \in flags[p] /\ said.text.words # "recorded" => ~said.text.vowels
    /\ IsBlank(said.text) /\ said.text.words = "own" =>
         \/ said.area \in blankposting \cup medievalAreas
         \/ flags[p] \cap {"medieval", "disemvoweled"} # {}

(* A guard that a message closed opens again. *)
GuardsReopen == \A g \in Guards : (guard[g] # Open) ~> (guard[g] = Open)
=============================================================================
