------------------------------ MODULE Testimony ------------------------------
(***************************************************************************)
(* The testimony recorder of one area (AreaData, the casing commands and   *)
(* the in-character message handler).                                      *)
(*                                                                         *)
(* Witnesses speak in character; depending on the recorder's state their   *)
(* message is appended, inserted, put in place of a statement, or read as  *)
(* a move through the recorded testimony.  Commands of several players and *)
(* messages interleave freely: nothing ties a command to the message that  *)
(* follows it.                                                             *)
(*                                                                         *)
(* A statement is "title" (formatted as one), "line" or "blank".  Messages *)
(* that contain < or > are never recorded, so they are not steps here.     *)
(* Positions count from 0 as in the code; Sequences count from 1.          *)
(***************************************************************************)
EXTENDS Integers, Sequences, SequencesExt

CONSTANTS
  MaxStatements,   \* ConfigManager::maxStatements()
  MaxLength        \* bound on the length an insertion may reach, for TLC

ASSUME TestimonyConstants == MaxStatements \in Nat /\ MaxLength \in Nat

VARIABLES
  recording,   \* AreaData::m_testimonyRecording
  statement,   \* AreaData::m_statement
  testimony,   \* AreaData::m_testimony
  saved        \* a file of storage/testimony, empty when there is none

vars == <<recording, statement, testimony, saved>>

TestimonyRecording == {"STOPPED", "RECORDING", "UPDATE", "ADD", "PLAYBACK"}
Spoken == {"line", "blank"}
Statement == {"title"} \cup Spoken

Size == Len(testimony)

-----------------------------------------------------------------------------
(* Operations of AreaData on its list *)

recordStatement(m) ==
  /\ statement' = statement + 1
  /\ testimony' = Append(testimony, m)

addStatement(s, position, m) == InsertAt(s, position + 1, m)

replaceStatement(position, m) ==
  testimony' = ReplaceAt(testimony, position + 1, m)

(* Mistake: the current position does not follow the removal. *)
KeepIndex(position) ==
  /\ testimony' = RemoveAt(testimony, position + 1)
  /\ UNCHANGED statement

removeStatement(position) ==
  /\ testimony' = RemoveAt(testimony, position + 1)
  /\ statement' = statement - 1

(* Mistake: the position is reset to the title instead of to none. *)
emptied == testimony' = <<>> /\ statement' = 0

(* AreaData::clearTestimony; the callers set the state of the recorder. *)
clearTestimony == testimony' = <<>> /\ statement' = -1

-----------------------------------------------------------------------------
Init ==
  /\ recording = "STOPPED"
  /\ statement = 0
  /\ testimony = <<>>
  /\ saved = <<>>

(* /testify *)
Testify ==
  /\ recording # "RECORDING"
  /\ clearTestimony
  /\ recording' = "RECORDING"
  /\ UNCHANGED saved

(* /examine *)
Examine ==
  /\ Size > 1 /\ recording # "PLAYBACK"
  /\ recording' = "PLAYBACK"
  /\ statement' = 0
  /\ UNCHANGED <<testimony, saved>>

(* /delete *)
DeleteStatement ==
  /\ statement > 0 /\ Size > 2
  /\ removeStatement(statement)
  /\ UNCHANGED <<recording, saved>>

(* /update *)
UpdateStatement ==
  /\ recording' = "UPDATE"
  /\ UNCHANGED <<statement, testimony, saved>>

(* /pause *)
PauseTestimony ==
  /\ recording' = "STOPPED"
  /\ UNCHANGED <<statement, testimony, saved>>

(* /add *)
AddStatement ==
  /\ statement < MaxStatements
  /\ recording' = "ADD"
  /\ UNCHANGED <<statement, testimony, saved>>

(* /savetestimony never overwrites a file. *)
SaveTestimony ==
  /\ Size > 1 /\ saved = <<>>
  /\ saved' = testimony
  /\ UNCHANGED <<recording, statement, testimony>>

(* /loadtestimony forgets the area's testimony whether or not the file     *)
(* turns out to be readable and short enough.                              *)
LoadTestimony(readable) ==
  /\ saved # <<>>
  /\ recording' = "STOPPED"
  /\ IF readable /\ Len(saved) <= MaxStatements + 1
     THEN testimony' = saved /\ statement' = -1
     ELSE clearTestimony
  /\ UNCHANGED saved

(* A message while recording: the first one becomes the title.             *)
RecordMessage ==
  /\ recording = "RECORDING" /\ statement <= MaxStatements
  /\ recordStatement(IF statement = -1 THEN "title" ELSE "line")
  /\ UNCHANGED <<recording, saved>>

(* A message after /add goes behind the current statement, and in front of *)
(* the list as well when the current statement is the title.               *)
InsertMessage ==
  /\ recording = "ADD"
  /\ Size < MaxLength
  /\ LET m == IF statement = -1 THEN "title" ELSE "line"
         front == IF statement = 0 THEN addStatement(testimony, 0, m) ELSE testimony IN
     testimony' = addStatement(front, statement + 1, m)
  /\ recording' = "PLAYBACK"
  /\ UNCHANGED <<statement, saved>>

(* Mistake: the title passes for a statement. *)
TitleToo ==
  statement >= 0 /\ statement < Size /\ testimony[statement + 1] # "blank"

(* AOClient::updateStatement replaces a statement that is there and not blank. *)
Updatable ==
  statement > 0 /\ statement < Size /\ testimony[statement + 1] # "blank"

(* A message after /update, which may be blank. *)
ReplaceMessage(m) ==
  /\ recording = "UPDATE"
  /\ recording' = "PLAYBACK"
  /\ IF Updatable THEN replaceStatement(statement, m) ELSE UNCHANGED testimony
  /\ UNCHANGED <<statement, saved>>

(* AreaData::jumpToStatement, for the messages > < = and those with a      *)
(* number after an arrow.                                                  *)
JumpToStatement(position) ==
  /\ recording = "PLAYBACK" /\ Size > 1
  /\ statement' = IF position > Size - 1 \/ position <= 1 THEN 1 ELSE position
  /\ UNCHANGED <<recording, testimony, saved>>

Next ==
  \/ Testify
  \/ Examine
  \/ DeleteStatement
  \/ UpdateStatement
  \/ PauseTestimony
  \/ AddStatement
  \/ SaveTestimony
  \/ \E readable \in BOOLEAN : LoadTestimony(readable)
  \/ RecordMessage
  \/ InsertMessage
  \/ \E m \in Spoken : ReplaceMessage(m)
  \/ \E position \in {statement - 1, statement, statement + 1} \cup 0..MaxLength :
       JumpToStatement(position)

Spec == Init /\ [][Next]_vars

-----------------------------------------------------------------------------
(* Properties *)

(* Every variable holds a value of its kind. *)
TypeOK ==
  /\ recording \in TestimonyRecording
  /\ statement \in Nat \cup {-1}
  /\ testimony \in Seq(Statement)
  /\ saved \in Seq(Statement)

(* The current statement exists, or the recorder is at the title of an     *)
(* empty testimony, or no statement is current: what /delete removes, an   *)
(* update replaces and a jump shows is never outside the list.             *)
CurrentInRange == statement <= 0 \/ statement < Size

(* While it records, the current statement is the last: a recording never  *)
(* leaves a gap and never overwrites.                                      *)
RecordsAtTheEnd == recording = "RECORDING" => statement = Size - 1

(* Nothing but an insertion puts another message in the title's place:     *)
(* neither updates, deletions nor moves reach it.                          *)
OnlyInsertionDisplacesTitle ==
  [][testimony # <<>> /\ testimony' # <<>> /\ recording # "ADD"
       => testimony'[1] = testimony[1] \/ testimony' = saved]_vars

(* area_data.h, m_testimony: "Index 0 is always the title of the           *)
(* testimony."                                                             *)
TitleFirst == testimony # <<>> => testimony[1] = "title"

(* config.ini, maximum_statements: "The maximum number of statements that  *)
(* can be recorded in the testimony recorder."                             *)
StatementLimit == Size - 1 <= MaxStatements

=============================================================================
