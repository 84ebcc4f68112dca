--------------------------- MODULE TestimonyProofs ---------------------------
(***************************************************************************)
(* The testimony recorder never points outside its list, for every limit   *)
(* on the statements and every length.                                     *)
(***************************************************************************)
EXTENDS Testimony, SequenceTheorems, TLAPS

(* What inserting into and removing from a list return. *)
LEMMA InsertAtResult ==
  ASSUME NEW S, NEW s \in Seq(S), NEW i \in 1..Len(s) + 1, NEW e \in S
  PROVE  InsertAt(s, i, e) \in Seq(S) /\ Len(InsertAt(s, i, e)) = Len(s) + 1
<1>1. Len(s) \in Nat
  BY LenProperties
<1> DEFINE before == SubSeq(s, 1, i - 1)
           after == SubSeq(s, i, Len(s))
<1>2. before \in Seq(S) /\ Len(before) = i - 1
  <2>1. \A j \in 1..i - 1 : s[j] \in S
    BY <1>1, ElementOfSeq
  <2> QED
    BY <1>1, <2>1, SubSeqProperties, 1 \in Int, i - 1 \in Int
<1>3. after \in Seq(S) /\ Len(after) = Len(s) - i + 1
  <2>1. \A j \in i..Len(s) : s[j] \in S
    BY <1>1, ElementOfSeq
  <2> QED
    BY <1>1, <2>1, SubSeqProperties, i \in Int, Len(s) \in Int
<1>4. <<e>> \in Seq(S) /\ Len(<<e>>) = 1
  OBVIOUS
<1> HIDE DEF before, after
<1>5. before \o <<e>> \in Seq(S) /\ Len(before \o <<e>>) = i
  <2>1. /\ before \o <<e>> \in Seq(S)
        /\ Len(before \o <<e>>) = Len(before) + Len(<<e>>)
    BY <1>2, <1>4, ConcatProperties
  <2> QED
    BY <1>1, <1>2, <1>4, <2>1
<1>6. /\ (before \o <<e>>) \o after \in Seq(S)
      /\ Len((before \o <<e>>) \o after) = Len(before \o <<e>>) + Len(after)
  BY <1>3, <1>5, ConcatProperties
<1>7. Len((before \o <<e>>) \o after) = Len(s) + 1
  <2>1. Len((before \o <<e>>) \o after) = i + (Len(s) - i + 1)
    BY <1>3, <1>5, <1>6
  <2>2. i + (Len(s) - i + 1) = Len(s) + 1
    BY <1>1
  <2> QED
    BY <2>1, <2>2
<1> QED
  BY <1>6, <1>7 DEF InsertAt, before, after

LEMMA RemoveAtResult ==
  ASSUME NEW S, NEW s \in Seq(S), NEW i \in 1..Len(s)
  PROVE  RemoveAt(s, i) \in Seq(S) /\ Len(RemoveAt(s, i)) = Len(s) - 1
<1>1. Len(s) \in Nat
  BY LenProperties
<1> DEFINE before == SubSeq(s, 1, i - 1)
           after == SubSeq(s, i + 1, Len(s))
<1>2. before \in Seq(S) /\ Len(before) = i - 1
  <2>1. \A j \in 1..i - 1 : s[j] \in S
    BY <1>1, ElementOfSeq
  <2> QED
    BY <1>1, <2>1, SubSeqProperties, 1 \in Int, i - 1 \in Int
<1>3. after \in Seq(S) /\ Len(after) = Len(s) - i
  <2>1. \A j \in i + 1..Len(s) : s[j] \in S
    BY <1>1, ElementOfSeq
  <2> QED
    BY <1>1, <2>1, SubSeqProperties, i + 1 \in Int, Len(s) \in Int
<1> HIDE DEF before, after
<1>4. before \o after \in Seq(S) /\ Len(before \o after) = Len(before) + Len(after)
  BY <1>2, <1>3, ConcatProperties
<1>5. Len(before \o after) = Len(s) - 1
  BY <1>1, <1>2, <1>3, <1>4
<1> QED
  BY <1>4, <1>5 DEF RemoveAt, before, after

-----------------------------------------------------------------------------
(* The inductive invariant: CurrentInRange and RecordsAtTheEnd need each   *)
(* other, since a recording appends behind the current statement.          *)
IndInv == TypeOK /\ CurrentInRange /\ RecordsAtTheEnd

LEMMA IndInvInit == Init => IndInv
  BY DEF Init, IndInv, TypeOK, CurrentInRange, RecordsAtTheEnd, Size,
         TestimonyRecording, Statement

LEMMA IndInvNext == IndInv /\ [Next]_vars => IndInv'
<1> SUFFICES ASSUME IndInv, [Next]_vars PROVE IndInv'
  OBVIOUS
<1> USE TestimonyConstants
<1>0. /\ Size \in Nat
      /\ testimony = <<>> <=> Size = 0
  BY LenProperties, EmptySeq DEF IndInv, TypeOK, Size
<1>1. CASE Testify
  BY <1>1, EmptySeq
     DEF IndInv, TypeOK, CurrentInRange, RecordsAtTheEnd, Size, Testify, clearTestimony,
         TestimonyRecording, Statement
<1>2. CASE Examine
  BY <1>0, <1>2
     DEF IndInv, TypeOK, CurrentInRange, RecordsAtTheEnd, Size, Examine,
         TestimonyRecording
<1>3. CASE DeleteStatement
  <2>1. /\ testimony' \in Seq(Statement) /\ Size' = Size - 1
        /\ statement' = statement - 1
    <3>1. statement + 1 \in 1..Len(testimony)
      BY <1>0, <1>3 DEF IndInv, TypeOK, CurrentInRange, Size, DeleteStatement
    <3> QED
      BY <1>3, <3>1, RemoveAtResult
         DEF IndInv, TypeOK, Size, DeleteStatement, removeStatement
  <2> QED
    BY <1>0, <1>3, <2>1
       DEF IndInv, TypeOK, CurrentInRange, RecordsAtTheEnd, DeleteStatement
<1>4. CASE UpdateStatement
  BY <1>4 DEF IndInv, TypeOK, CurrentInRange, RecordsAtTheEnd, Size,
              UpdateStatement, TestimonyRecording
<1>5. CASE PauseTestimony
  BY <1>5 DEF IndInv, TypeOK, CurrentInRange, RecordsAtTheEnd, Size,
              PauseTestimony, TestimonyRecording
<1>6. CASE AddStatement
  BY <1>6 DEF IndInv, TypeOK, CurrentInRange, RecordsAtTheEnd, Size,
              AddStatement, TestimonyRecording
<1>7. CASE SaveTestimony
  BY <1>7 DEF IndInv, TypeOK, CurrentInRange, RecordsAtTheEnd, Size, SaveTestimony
<1>8. ASSUME NEW readable \in BOOLEAN, LoadTestimony(readable) PROVE IndInv'
  <2>1. testimony' \in Seq(Statement) /\ Size' \in Nat
    BY <1>8, EmptySeq, LenProperties DEF IndInv, TypeOK, Size, LoadTestimony, clearTestimony
  <2>2. recording' = "STOPPED" /\ statement' = -1 /\ saved' = saved
    BY <1>8 DEF LoadTestimony, clearTestimony
  <2>3. TypeOK'
    BY <2>1, <2>2 DEF IndInv, TypeOK, TestimonyRecording
  <2>4. CurrentInRange'
    BY <2>1, <2>2 DEF CurrentInRange
  <2>5. RecordsAtTheEnd'
    BY <2>2 DEF RecordsAtTheEnd
  <2> QED
    BY <2>3, <2>4, <2>5 DEF IndInv
<1>9. CASE RecordMessage
  <2> DEFINE m == IF statement = -1 THEN "title" ELSE "line"
  <2>1. m \in Statement
    BY DEF Statement, Spoken
  <2> HIDE DEF m
  <2>2. testimony' = Append(testimony, m) /\ statement' = statement + 1
    BY <1>9 DEF RecordMessage, recordStatement, m
  <2>3. testimony' \in Seq(Statement) /\ Size' = Size + 1
    BY <2>1, <2>2 DEF IndInv, TypeOK, Size
  <2>4. statement = Size - 1
    BY <1>9 DEF IndInv, RecordsAtTheEnd, RecordMessage
  <2> QED
    BY <1>0, <1>9, <2>2, <2>3, <2>4
       DEF IndInv, TypeOK, CurrentInRange, RecordsAtTheEnd, RecordMessage
<1>10. CASE InsertMessage
  <2> DEFINE m == IF statement = -1 THEN "title" ELSE "line"
             front == IF statement = 0 THEN addStatement(testimony, 0, m) ELSE testimony
  <2>1. m \in Statement
    BY DEF Statement, Spoken
  <2> HIDE DEF m
  <2>2. /\ front \in Seq(Statement)
        /\ Len(front) = IF statement = 0 THEN Size + 1 ELSE Size
    <3>1. 0 + 1 \in 1..Len(testimony) + 1
      BY <1>0 DEF Size
    <3> QED
      BY <2>1, <3>1, InsertAtResult DEF IndInv, TypeOK, Size, addStatement
  <2> HIDE DEF front
  <2>3. statement + 1 + 1 \in 1..Len(front) + 1
    BY <1>0, <2>2 DEF IndInv, TypeOK, CurrentInRange
  <2>4. testimony' = InsertAt(front, statement + 1 + 1, m)
    BY <1>10 DEF InsertMessage, addStatement, front, m
  <2>5. testimony' \in Seq(Statement) /\ Size' = Len(front) + 1
    BY <2>1, <2>2, <2>3, <2>4, InsertAtResult DEF Size
  <2> QED
    BY <1>0, <1>10, <2>2, <2>5
       DEF IndInv, TypeOK, CurrentInRange, RecordsAtTheEnd, InsertMessage,
           TestimonyRecording
<1>11. ASSUME NEW m \in Spoken, ReplaceMessage(m) PROVE IndInv'
  <2>1. testimony' \in Seq(Statement) /\ Size' = Size
    <3>1. CASE Updatable
      <4>1. statement + 1 \in 1..Len(testimony)
        BY <1>0, <3>1 DEF IndInv, TypeOK, Updatable, Size
      <4>2. testimony' = [testimony EXCEPT ![statement + 1] = m]
        BY <1>11, <3>1 DEF ReplaceMessage, replaceStatement, ReplaceAt
      <4>3. m \in Statement
        BY DEF Statement
      <4> QED
        BY <4>1, <4>2, <4>3, ExceptSeq DEF IndInv, TypeOK, Size
    <3>2. CASE ~Updatable
      BY <1>11, <3>2 DEF ReplaceMessage, IndInv, TypeOK, Size
    <3> QED
      BY <3>1, <3>2
  <2> QED
    BY <1>0, <1>11, <2>1
       DEF IndInv, TypeOK, CurrentInRange, RecordsAtTheEnd, ReplaceMessage,
           TestimonyRecording
<1>12. ASSUME NEW position \in {statement - 1, statement, statement + 1} \cup 0..MaxLength,
              JumpToStatement(position)
       PROVE  IndInv'
  <2>1. position \in Int
    BY DEF IndInv, TypeOK
  <2> QED
    BY <1>0, <1>12, <2>1
       DEF IndInv, TypeOK, CurrentInRange, RecordsAtTheEnd, Size, JumpToStatement
<1>13. CASE UNCHANGED vars
  BY <1>13 DEF IndInv, TypeOK, CurrentInRange, RecordsAtTheEnd, Size, vars
<1> QED
  BY <1>1, <1>2, <1>3, <1>4, <1>5, <1>6, <1>7, <1>8, <1>9, <1>10, <1>11, <1>12,
     <1>13 DEF Next

LEMMA IndInvAlways == Spec => []IndInv
  BY IndInvInit, IndInvNext, PTL DEF Spec

(* Every variable holds a value of its kind, however long a testimony gets. *)
THEOREM TestimonyTypes == Spec => []TypeOK
<1>1. IndInv => TypeOK
  BY DEF IndInv
<1> QED
  BY <1>1, IndInvAlways, PTL

(* Every index is in range: what /delete removes, an update replaces and a *)
(* jump shows is in the list.                                              *)
THEOREM TestimonySafe == Spec => []CurrentInRange
<1>1. IndInv => CurrentInRange
  BY DEF IndInv
<1> QED
  BY <1>1, IndInvAlways, PTL

(* While a testimony is recorded the current statement is the last, so that *)
(* a recording is contiguous.                                              *)
THEOREM TestimonyContiguous == Spec => []RecordsAtTheEnd
<1>1. IndInv => RecordsAtTheEnd
  BY DEF IndInv
<1> QED
  BY <1>1, IndInvAlways, PTL

-----------------------------------------------------------------------------
(* Taking away anything but the first leaves the first. *)
LEMMA RemoveAtKeepsFirst ==
  ASSUME NEW S, NEW s \in Seq(S), NEW i \in 2..Len(s)
  PROVE  RemoveAt(s, i)[1] = s[1]
<1>1. Len(s) \in Nat
  BY LenProperties
<1> DEFINE before == SubSeq(s, 1, i - 1)
           after == SubSeq(s, i + 1, Len(s))
<1>2. before \in Seq(S) /\ Len(before) = i - 1 /\ before[1] = s[1]
  <2>1. \A j \in 1..i - 1 : s[j] \in S
    BY <1>1, ElementOfSeq
  <2> QED
    BY <1>1, <2>1, SubSeqProperties, 1 \in Int, i - 1 \in Int
<1>3. after \in Seq(S)
  <2>1. \A j \in i + 1..Len(s) : s[j] \in S
    BY <1>1, ElementOfSeq
  <2> QED
    BY <1>1, <2>1, SubSeqProperties, i + 1 \in Int, Len(s) \in Int
<1> HIDE DEF before, after
<1>4. (before \o after)[1] = before[1]
  BY <1>1, <1>2, <1>3, ConcatProperties, LenProperties
<1> QED
  BY <1>2, <1>4 DEF RemoveAt, before, after

TitleStays ==
  testimony # <<>> /\ testimony' # <<>> /\ recording # "ADD"
    => testimony'[1] = testimony[1] \/ testimony' = saved

LEMMA TitleStaysNext == IndInv /\ [Next]_vars => TitleStays
<1> SUFFICES ASSUME IndInv, [Next]_vars, testimony # <<>>, testimony' # <<>>,
                    recording # "ADD"
             PROVE  testimony'[1] = testimony[1] \/ testimony' = saved
  BY DEF TitleStays
<1>0. Size \in Nat /\ Size >= 1 /\ testimony \in Seq(Statement)
  BY LenProperties, EmptySeq DEF IndInv, TypeOK, Size
<1>1. CASE DeleteStatement
  <2>1. statement + 1 \in 2..Len(testimony)
    BY <1>0, <1>1 DEF IndInv, TypeOK, CurrentInRange, Size, DeleteStatement
  <2> QED
    BY <1>0, <1>1, <2>1, RemoveAtKeepsFirst DEF DeleteStatement, removeStatement
<1>2. CASE RecordMessage
  <2>1. testimony' = Append(testimony, IF statement = -1 THEN "title" ELSE "line")
    BY <1>2 DEF RecordMessage, recordStatement
  <2>2. (IF statement = -1 THEN "title" ELSE "line") \in Statement
    BY DEF Statement, Spoken
  <2> QED
    BY <1>0, <2>1, <2>2, AppendProperties DEF Size
<1>3. ASSUME NEW m \in Spoken, ReplaceMessage(m) PROVE testimony'[1] = testimony[1]
  <2>1. CASE Updatable
    <3>1. testimony' = [testimony EXCEPT ![statement + 1] = m]
      BY <1>3, <2>1 DEF ReplaceMessage, replaceStatement, ReplaceAt
    <3>2. statement + 1 # 1 /\ 1 \in 1..Len(testimony)
      BY <1>0, <2>1 DEF IndInv, TypeOK, Updatable, Size
    <3> QED
      BY <1>0, <3>1, <3>2, ExceptSeq
  <2>2. CASE ~Updatable
    BY <1>3, <2>2 DEF ReplaceMessage
  <2> QED
    BY <2>1, <2>2
<1>4. ASSUME NEW readable \in BOOLEAN, LoadTestimony(readable) PROVE testimony' = saved
  BY <1>4 DEF LoadTestimony, clearTestimony
<1>5. CASE Testify
  BY <1>5 DEF Testify, clearTestimony
<1>6. CASE InsertMessage
  BY <1>6 DEF InsertMessage
<1>7. CASE UNCHANGED testimony
  BY <1>7
<1> QED
  BY <1>1, <1>2, <1>3, <1>4, <1>5, <1>6, <1>7
     DEF Next, vars, Examine, UpdateStatement, PauseTestimony, AddStatement,
         SaveTestimony, JumpToStatement

(* Only /add and a file that is loaded put another message where the title *)
(* is: no deletion, update or recording reaches it.                        *)
THEOREM TestimonyTitleStays == Spec => OnlyInsertionDisplacesTitle
<1>1. IndInv /\ [Next]_vars => [TitleStays]_vars
  BY TitleStaysNext
<1> QED
  BY <1>1, IndInvAlways, PTL DEF Spec, OnlyInsertionDisplacesTitle, TitleStays

-----------------------------------------------------------------------------
(* How far the two promises of the documentation hold.  Both are broken by *)
(* insertions, and by nothing else that needs one.                         *)

(* An insertion puts its element first or leaves the first in place.       *)
LEMMA InsertAtFirst ==
  ASSUME NEW S, NEW s \in Seq(S), NEW i \in 1..Len(s) + 1, NEW e \in S
  PROVE  InsertAt(s, i, e)[1] = IF i = 1 THEN e ELSE s[1]
<1>1. Len(s) \in Nat
  BY LenProperties
<1> DEFINE before == SubSeq(s, 1, i - 1)
           after == SubSeq(s, i, Len(s))
<1>2. before \in Seq(S) /\ Len(before) = i - 1 /\ (i # 1 => before[1] = s[1])
  <2>1. \A j \in 1..i - 1 : s[j] \in S
    BY <1>1, ElementOfSeq
  <2> QED
    BY <1>1, <2>1, SubSeqProperties, 1 \in Int, i - 1 \in Int
<1>3. after \in Seq(S) /\ Len(after) \in Nat
  <2>1. \A j \in i..Len(s) : s[j] \in S
    BY <1>1, ElementOfSeq
  <2> QED
    BY <1>1, <2>1, SubSeqProperties, LenProperties, i \in Int, Len(s) \in Int
<1>4. <<e>> \in Seq(S) /\ Len(<<e>>) = 1 /\ <<e>>[1] = e
  OBVIOUS
<1> HIDE DEF before, after
<1>5. /\ before \o <<e>> \in Seq(S) /\ Len(before \o <<e>>) = i
      /\ (before \o <<e>>)[1] = IF i = 1 THEN e ELSE s[1]
  <2>1. /\ before \o <<e>> \in Seq(S)
        /\ Len(before \o <<e>>) = Len(before) + Len(<<e>>)
        /\ \A j \in 1..Len(before) + Len(<<e>>) :
             (before \o <<e>>)[j] = IF j <= Len(before) THEN before[j]
                                    ELSE <<e>>[j - Len(before)]
    BY <1>2, <1>4, ConcatProperties
  <2>2. 1 \in 1..Len(before) + Len(<<e>>) /\ Len(before) + Len(<<e>>) = i
    BY <1>2, <1>4
  <2>3. (before \o <<e>>)[1] = IF 1 <= i - 1 THEN before[1] ELSE <<e>>[1 - (i - 1)]
    BY <1>2, <2>1, <2>2
  <2>4. (before \o <<e>>)[1] = IF i = 1 THEN e ELSE s[1]
    <3>1. CASE i = 1
      BY <1>4, <2>3, <3>1
    <3>2. CASE i # 1
      BY <1>2, <2>3, <3>2
    <3> QED
      BY <3>1, <3>2
  <2> QED
    BY <2>1, <2>2, <2>4
<1>6. ((before \o <<e>>) \o after)[1] = (before \o <<e>>)[1]
  BY <1>3, <1>5, ConcatProperties
<1> QED
  BY <1>5, <1>6 DEF InsertAt, before, after

(* Files hold what was an area's testimony.                                *)
TitlesFirst == TitleFirst /\ (saved # <<>> => saved[1] = "title")

LEMMA TitlesFirstNext ==
  ASSUME IndInv, TitlesFirst, [Next]_vars, [InsertMessage => statement # 0]_vars
  PROVE  TitlesFirst'
<1>0. /\ Size \in Nat /\ testimony \in Seq(Statement)
      /\ testimony = <<>> <=> Size = 0
      /\ statement \in Nat \cup {-1}
  BY LenProperties, EmptySeq DEF IndInv, TypeOK, Size
<1>1. ASSUME UNCHANGED <<testimony, saved>> PROVE TitlesFirst'
  BY <1>1 DEF TitlesFirst, TitleFirst
<1>2. ASSUME testimony' = <<>>, UNCHANGED saved PROVE TitlesFirst'
  BY <1>2 DEF TitlesFirst, TitleFirst
<1>3. CASE DeleteStatement
  <2>1. statement + 1 \in 2..Len(testimony) /\ testimony # <<>>
    BY <1>0, <1>3 DEF IndInv, CurrentInRange, Size, DeleteStatement
  <2>2. testimony'[1] = testimony[1] /\ UNCHANGED saved
    BY <1>0, <1>3, <2>1, RemoveAtKeepsFirst DEF DeleteStatement, removeStatement
  <2> QED
    BY <2>1, <2>2 DEF TitlesFirst, TitleFirst
<1>4. CASE SaveTestimony
  <2>1. testimony # <<>> /\ saved' = testimony /\ UNCHANGED testimony
    BY <1>0, <1>4 DEF SaveTestimony
  <2> QED
    BY <2>1 DEF TitlesFirst, TitleFirst
<1>5. ASSUME NEW readable \in BOOLEAN, LoadTestimony(readable) PROVE TitlesFirst'
  BY <1>5 DEF LoadTestimony, clearTestimony, TitlesFirst, TitleFirst
<1>6. CASE RecordMessage
  <2> DEFINE m == IF statement = -1 THEN "title" ELSE "line"
  <2>1. m \in Statement
    BY DEF Statement, Spoken
  <2>2. statement = Size - 1 /\ testimony' = Append(testimony, m) /\ UNCHANGED saved
    BY <1>6 DEF IndInv, RecordsAtTheEnd, RecordMessage, recordStatement
  <2>3. testimony'[1] = "title"
    <3>1. CASE Size = 0
      <4>1. m = "title"
        BY <2>2, <3>1
      <4> HIDE DEF m
      <4> QED
        BY <1>0, <2>1, <2>2, <3>1, <4>1, AppendProperties DEF Size
    <3>2. CASE Size # 0
      <4> HIDE DEF m
      <4>1. testimony'[1] = testimony[1]
        BY <1>0, <2>1, <2>2, <3>2, AppendProperties DEF Size
      <4> QED
        BY <1>0, <3>2, <4>1 DEF TitlesFirst, TitleFirst
    <3> QED
      BY <3>1, <3>2
  <2> QED
    BY <2>2, <2>3 DEF TitlesFirst, TitleFirst
<1>7. CASE InsertMessage
  <2> DEFINE m == IF statement = -1 THEN "title" ELSE "line"
  <2>1. m \in Statement
    BY DEF Statement, Spoken
  <2>2. statement # 0
    <3>1. recording' # recording
      BY <1>7 DEF InsertMessage
    <3> QED
      BY <1>7, <3>1 DEF vars
  <2>3. testimony' = InsertAt(testimony, statement + 1 + 1, m) /\ UNCHANGED saved
    BY <1>7, <2>2 DEF InsertMessage, addStatement
  <2>4. statement + 1 + 1 \in 1..Len(testimony) + 1
    BY <1>0, <2>2 DEF IndInv, CurrentInRange, Size
  <2>5. CASE statement = -1
    <3>1. m = "title" /\ statement + 1 + 1 = 1
      BY <2>5
    <3> HIDE DEF m
    <3> QED
      BY <1>0, <2>1, <2>3, <2>4, <3>1, InsertAtFirst DEF TitlesFirst, TitleFirst
  <2>6. CASE statement # -1
    <3>1. statement + 1 + 1 # 1 /\ testimony # <<>>
      BY <1>0, <2>2, <2>6 DEF IndInv, CurrentInRange
    <3> HIDE DEF m
    <3>2. testimony'[1] = testimony[1]
      BY <1>0, <2>1, <2>3, <2>4, <3>1, InsertAtFirst
    <3> QED
      BY <2>3, <3>1, <3>2 DEF TitlesFirst, TitleFirst
  <2> QED
    BY <2>5, <2>6
<1>8. ASSUME NEW m \in Spoken, ReplaceMessage(m) PROVE TitlesFirst'
  <2>1. CASE Updatable
    <3>1. testimony' = [testimony EXCEPT ![statement + 1] = m] /\ UNCHANGED saved
      BY <1>8, <2>1 DEF ReplaceMessage, replaceStatement, ReplaceAt
    <3>2. statement + 1 # 1 /\ 1 \in 1..Len(testimony) /\ testimony # <<>>
      BY <1>0, <2>1 DEF Updatable, Size
    <3> QED
      BY <1>0, <3>1, <3>2, ExceptSeq DEF TitlesFirst, TitleFirst
  <2>2. CASE ~Updatable
    BY <1>1, <1>8, <2>2 DEF ReplaceMessage
  <2> QED
    BY <2>1, <2>2
<1>9. CASE Testify
  BY <1>2, <1>9 DEF Testify, clearTestimony
<1>10. CASE UNCHANGED vars
  BY <1>1, <1>10 DEF vars
<1> QED
  BY <1>1, <1>3, <1>4, <1>5, <1>6, <1>7, <1>8, <1>9, <1>10
     DEF Next, Examine, UpdateStatement, PauseTestimony, AddStatement, JumpToStatement

(* Statement 0 is the title for as long as nobody adds a statement while   *)
(* the title is the current one: recording, loading a file, deleting,      *)
(* replacing and adding anywhere else keep it there.                       *)
THEOREM TestimonyTitleFirst ==
  Spec /\ [][InsertMessage => statement # 0]_vars => []TitleFirst
<1>1. Init => TitlesFirst
  BY DEF Init, TitlesFirst, TitleFirst
<1>2. IndInv /\ TitlesFirst /\ [Next]_vars /\ [InsertMessage => statement # 0]_vars
        => TitlesFirst'
  BY TitlesFirstNext
<1>3. TitlesFirst => TitleFirst
  BY DEF TitlesFirst
<1> QED
  BY <1>1, <1>2, <1>3, IndInvAlways, PTL DEF Spec

(* Behind the title one statement more than the limit.                     *)
OneTooMany == Size - 1 <= MaxStatements + 1

LEMMA OneTooManyNext ==
  ASSUME IndInv, OneTooMany, [Next]_vars, [~InsertMessage]_vars
  PROVE  OneTooMany'
<1> USE TestimonyConstants
<1>0. /\ Size \in Nat /\ testimony \in Seq(Statement) /\ saved \in Seq(Statement)
      /\ statement \in Int
  BY LenProperties DEF IndInv, TypeOK, Size
<1>1. ASSUME UNCHANGED testimony PROVE OneTooMany'
  BY <1>1 DEF OneTooMany, Size
<1>2. ASSUME testimony' = <<>> PROVE OneTooMany'
  BY <1>2, EmptySeq DEF OneTooMany, Size
<1>3. CASE DeleteStatement
  <2>1. statement + 1 \in 1..Len(testimony)
    BY <1>0, <1>3 DEF IndInv, CurrentInRange, Size, DeleteStatement
  <2>2. Size' = Size - 1
    BY <1>0, <1>3, <2>1, RemoveAtResult DEF Size, DeleteStatement, removeStatement
  <2> QED
    BY <1>0, <2>2 DEF OneTooMany
<1>4. ASSUME NEW readable \in BOOLEAN, LoadTestimony(readable) PROVE OneTooMany'
  <2>1. CASE testimony' = saved /\ Len(saved) <= MaxStatements + 1
    BY <1>0, <2>1, LenProperties DEF OneTooMany, Size
  <2> QED
    BY <1>2, <1>4, <2>1 DEF LoadTestimony, clearTestimony
<1>5. CASE RecordMessage
  <2> DEFINE m == IF statement = -1 THEN "title" ELSE "line"
  <2>1. m \in Statement
    BY DEF Statement, Spoken
  <2>2. /\ statement = Size - 1 /\ statement <= MaxStatements
        /\ testimony' = Append(testimony, m)
    BY <1>5 DEF IndInv, RecordsAtTheEnd, RecordMessage, recordStatement
  <2> HIDE DEF m
  <2>3. Size' = Size + 1
    BY <1>0, <2>1, <2>2, AppendProperties DEF Size
  <2> QED
    BY <1>0, <2>2, <2>3 DEF OneTooMany
<1>6. ASSUME NEW m \in Spoken, ReplaceMessage(m) PROVE OneTooMany'
  <2>1. CASE Updatable
    <3>1. testimony' = [testimony EXCEPT ![statement + 1] = m]
      BY <1>6, <2>1 DEF ReplaceMessage, replaceStatement, ReplaceAt
    <3>2. statement + 1 \in 1..Len(testimony) /\ m \in Statement
      BY <1>0, <2>1 DEF Updatable, Size, Statement
    <3> QED
      BY <1>0, <3>1, <3>2, ExceptSeq DEF OneTooMany, Size
  <2>2. CASE ~Updatable
    BY <1>1, <1>6, <2>2 DEF ReplaceMessage
  <2> QED
    BY <2>1, <2>2
<1>7. CASE InsertMessage
  <2>1. recording' # recording
    BY <1>7 DEF InsertMessage
  <2> QED
    BY <1>7, <2>1 DEF vars
<1>8. CASE Testify
  BY <1>2, <1>8 DEF Testify, clearTestimony
<1>9. CASE UNCHANGED vars
  BY <1>1, <1>9 DEF vars
<1> QED
  BY <1>1, <1>3, <1>4, <1>5, <1>6, <1>7, <1>8, <1>9
     DEF Next, Examine, UpdateStatement, PauseTestimony, AddStatement, SaveTestimony,
         JumpToStatement

(* Recording, and loading what was recorded, exceeds the limit by one      *)
(* statement at most: only additions can go further.                       *)
THEOREM TestimonyRecordsOneTooMany ==
  Spec /\ [][~InsertMessage]_vars => [](Size - 1 <= MaxStatements + 1)
<1>1. Init => OneTooMany
  BY TestimonyConstants, EmptySeq DEF Init, OneTooMany, Size
<1>2. IndInv /\ OneTooMany /\ [Next]_vars /\ [~InsertMessage]_vars => OneTooMany'
  BY OneTooManyNext
<1> QED
  BY <1>1, <1>2, IndInvAlways, PTL DEF Spec, OneTooMany
=============================================================================
