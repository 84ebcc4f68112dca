----------------------------- MODULE RosterProofs -----------------------------
(***************************************************************************)
(* Membership, characters and the rights over an area, for any number of   *)
(* clients, areas and characters.                                          *)
(***************************************************************************)
EXTENDS Roster, FiniteSetTheorems, TLAPS

(* Whom a handler can name is registered, and live when expired clients    *)
(* cannot be named.                                                        *)
LEMMA TargetFacts ==
  /\ Live \subseteq Client /\ Target \subseteq Client
  /\ ~TargetsExpired => Target = Live
  BY DEF Live, Target

LEMMA CardinalityInInt ==
  ASSUME NEW S, S \subseteq Client
  PROVE  Cardinality(S) \in Int
<1>1. IsFiniteSet(S)
  BY RosterConstants, FS_Subset
<1> QED
  BY <1>1, FS_CardinalityType

-----------------------------------------------------------------------------
(* Types *)

AccessTypeOK ==
  /\ owners \in [Area -> SUBSET Client]
  /\ invited \in [Area -> SUBSET Client]
  /\ locked \in [Area -> {"Unlocked", "Spectatable", "Locked"}]

MemberTypeOK ==
  /\ area \in [Client -> Area]
  /\ character \in [Client -> Character \cup {NoCharacter}]
  /\ taken \in [Area -> SUBSET Character]
  /\ joined \in [Area -> SUBSET Client]
  /\ count \in [Area -> Int]

LifeTypeOK ==
  /\ life \in [Client -> {"Absent", "Live", "Expired"}]
  /\ curse \in [Client -> SUBSET Character]

LEMMA TypeParts ==
  /\ TypeOK <=> AccessTypeOK /\ MemberTypeOK /\ LifeTypeOK
  /\ TypeOK' <=> AccessTypeOK' /\ MemberTypeOK' /\ LifeTypeOK'
  BY DEF TypeOK, AccessTypeOK, MemberTypeOK, LifeTypeOK

LEMMA TypeFrame ==
  /\ AccessTypeOK /\ UNCHANGED accessVars => AccessTypeOK'
  /\ MemberTypeOK /\ UNCHANGED memberVars => MemberTypeOK'
  /\ LifeTypeOK /\ UNCHANGED <<life, curse>> => LifeTypeOK'
  BY DEF AccessTypeOK, MemberTypeOK, LifeTypeOK, accessVars, memberVars

LEMMA MoveAllTypes ==
  ASSUME MemberTypeOK, NEW S \in SUBSET Client, NEW a \in Area, MoveAll(S, a)
  PROVE  MemberTypeOK'
<1> DEFINE movers == {c \in S : area[c] # a /\ MayEnter(c, a)}
           leaving(b) == {c \in movers : area[c] = b}
           characters(T) == {character[c] : c \in T} \ {NoCharacter}
<1>1. movers \subseteq Client /\ \A b \in Area : leaving(b) \subseteq Client
  OBVIOUS
<1>2. \A T \in SUBSET Client : characters(T) \subseteq Character
  BY DEF MemberTypeOK
<1>3. Cardinality(movers) \in Int /\ \A b \in Area : Cardinality(leaving(b)) \in Int
  BY <1>1, CardinalityInInt
<1>4. area' \in [Client -> Area]
  BY DEF MoveAll, MemberTypeOK
<1>5. character' \in [Client -> Character \cup {NoCharacter}]
  BY DEF MoveAll, MemberTypeOK
<1>6. taken' \in [Area -> SUBSET Character]
  <2>1. taken' = [b \in Area |-> IF b = a THEN taken[a] \cup characters(movers)
                                 ELSE taken[b] \ characters(leaving(b))]
    BY DEF MoveAll
  <2> QED
    BY <1>1, <1>2, <2>1 DEF MemberTypeOK
<1>7. joined' \in [Area -> SUBSET Client]
  BY <1>1 DEF MoveAll, MemberTypeOK
<1>8. count' \in [Area -> Int]
  <2>1. count' = [b \in Area |-> IF b = a THEN count[a] + Cardinality(movers)
                                 ELSE count[b] - Cardinality(leaving(b))]
    BY DEF MoveAll
  <2> HIDE DEF movers, leaving
  <2> QED
    BY <1>3, <2>1 DEF MemberTypeOK
<1> QED
  BY <1>4, <1>5, <1>6, <1>7, <1>8 DEF MemberTypeOK

LEMMA TakeCharacterTypes ==
  ASSUME MemberTypeOK, NEW c \in Client, NEW ch \in Character \cup {NoCharacter},
         TakeCharacter(c, ch), UNCHANGED <<area, joined, count>>
  PROVE  MemberTypeOK'
  BY DEF TakeCharacter, MemberTypeOK

LEMMA RemoveOwnersTypes ==
  ASSUME AccessTypeOK, NEW gone, RemoveOwners(gone)
  PROVE  AccessTypeOK'
  BY DEF RemoveOwners, AccessTypeOK

LEMMA TypeInit == Init => TypeOK
  BY RosterConstants DEF Init, TypeOK

LEMMA TypeNext == TypeOK /\ [Next]_vars => TypeOK'
<1> SUFFICES ASSUME TypeOK, [Next]_vars PROVE TypeOK'
  OBVIOUS
<1> USE RosterConstants, TargetFacts
<1>0. AccessTypeOK /\ MemberTypeOK /\ LifeTypeOK
  BY TypeParts
<1>1. ASSUME NEW c \in Client, Join(c) PROVE TypeOK'
  BY <1>1 DEF Join, TypeOK, With, accessVars
<1>2. ASSUME NEW c \in Client, Unregister(c) PROVE TypeOK'
  BY <1>2 DEF Unregister, Discard, TypeOK, accessVars
<1>3. ASSUME NEW c \in Client, NEW a \in Area, ChangeArea(c, a) PROVE TypeOK'
  <2>1. MemberTypeOK'
    BY <1>0, <1>3, MoveAllTypes, {c} \in SUBSET Client DEF ChangeArea
  <2> QED
    BY <1>0, <1>3, <2>1, TypeFrame, TypeParts DEF ChangeArea
<1>4. ASSUME NEW c \in Client, NEW ch \in Character \cup {NoCharacter},
             ChangeCharacter(c, ch)
      PROVE  TypeOK'
  <2>1. MemberTypeOK'
    BY <1>0, <1>4, TakeCharacterTypes DEF ChangeCharacter
  <2> QED
    BY <1>0, <1>4, <2>1, TypeFrame, TypeParts DEF ChangeCharacter
<1>5. ASSUME NEW c \in Client, CM(c) \/ \E d \in Client : CMOther(c, d) PROVE TypeOK'
  BY <1>5 DEF CM, CMOther, AddOwner, With, TypeOK, memberVars
<1>6. ASSUME NEW c \in Client,
             UnCM(c) \/ UnCMAll(c) \/ \E d \in Client : UnCMOther(c, d)
      PROVE  TypeOK'
  <2>1. AccessTypeOK'
    BY <1>0, <1>6, RemoveOwnersTypes DEF UnCM, UnCMAll, UnCMOther
  <2>2. UNCHANGED memberVars /\ UNCHANGED <<life, curse>>
    BY <1>6 DEF UnCM, UnCMAll, UnCMOther
  <2> QED
    BY <1>0, <2>1, <2>2, TypeFrame, TypeParts
<1>7. ASSUME NEW c \in Client, Lock(c) \/ Spectatable(c) \/ UnLock(c) PROVE TypeOK'
  BY <1>7 DEF Lock, Spectatable, Close, UnLock, With, TypeOK, memberVars
<1>8. ASSUME NEW c \in Client, NEW d \in Client, Invite(c, d) \/ UnInvite(c, d)
      PROVE  TypeOK'
  BY <1>8 DEF Invite, UnInvite, With, Without, TypeOK, memberVars
<1>9. ASSUME NEW c \in Client, NEW S \in SUBSET Client, NEW a \in Area, KickFrom(c, S, a)
      PROVE  TypeOK'
  <2>1. MemberTypeOK'
    BY <1>0, <1>9, MoveAllTypes DEF KickFrom
  <2>2. AccessTypeOK'
    BY <1>0, <1>9 DEF KickFrom, Without, AccessTypeOK
  <2> QED
    BY <1>0, <1>9, <2>1, <2>2, TypeFrame, TypeParts DEF KickFrom
<1>10. ASSUME NEW c \in Client, NEW a \in Area,
              AreaKickAll(c, a) \/ \E d \in Client : AreaKick(c, d, a)
       PROVE  TypeOK'
  <2>1. Kickable(c) \subseteq Client
    BY DEF Kickable
  <2>2. PICK S \in SUBSET Client : KickFrom(c, S, a)
    BY <1>10, <2>1 DEF AreaKickAll, AreaKick
  <2> QED
    BY <1>9, <2>2
<1>11. ASSUME NEW c \in Client, NEW d \in Client,
              \/ \E L \in SUBSET Character : CharCurse(c, d, L)
              \/ UnCharCurse(c, d)
              \/ ForceCharSelect(c, d)
       PROVE  TypeOK'
  <2>1. LifeTypeOK' /\ AccessTypeOK'
    BY <1>0, <1>11, TypeFrame
       DEF CharCurse, UnCharCurse, ForceCharSelect, LifeTypeOK, accessVars
  <2>2. MemberTypeOK'
    <3>1. CASE UNCHANGED memberVars
      BY <1>0, <3>1, TypeFrame
    <3>2. CASE TakeCharacter(d, NoCharacter) /\ UNCHANGED <<area, joined, count>>
      BY <1>0, <3>2, TakeCharacterTypes
    <3> QED
      BY <1>11, <3>1, <3>2 DEF CharCurse, UnCharCurse, ForceCharSelect, memberVars
  <2> QED
    BY <2>1, <2>2, TypeParts
<1>12. ASSUME NEW S \in SUBSET Client, Expire(S) PROVE TypeOK'
  <2> DEFINE leaving(a) == {c \in S : area[c] = a}
  <2>1. AccessTypeOK'
    BY <1>0, <1>12, RemoveOwnersTypes DEF Expire
  <2>2. LifeTypeOK'
    BY <1>0, <1>12 DEF Expire, LifeTypeOK
  <2>3. \A a \in Area : Cardinality(leaving(a)) \in Int
    BY CardinalityInInt
  <2>4. count' \in [Area -> Int]
    <3>1. count' = [a \in Area |-> count[a] - Cardinality(leaving(a))]
      BY <1>12 DEF Expire, LeaveArea
    <3> HIDE DEF leaving
    <3> QED
      BY <1>0, <2>3, <3>1 DEF MemberTypeOK
  <2>5. MemberTypeOK'
    BY <1>0, <1>12, <2>4 DEF Expire, LeaveArea, MemberTypeOK
  <2> QED
    BY <2>1, <2>2, <2>5, TypeParts
<1>13. CASE UNCHANGED vars
  BY <1>13 DEF vars, TypeOK
<1> QED
  BY <1>1, <1>2, <1>3, <1>4, <1>5, <1>6, <1>7, <1>8, <1>10, <1>11, <1>12, <1>13
     DEF Next

(* The type invariant. *)
THEOREM RosterTypes == Spec => []TypeOK
  BY TypeInit, TypeNext, PTL DEF Spec

-----------------------------------------------------------------------------
(* Owners and invitations *)

LEMMA OwnersInvitedNext == TypeOK /\ OwnersInvited /\ [Next]_vars => OwnersInvited'
<1> SUFFICES ASSUME TypeOK, OwnersInvited, [Next]_vars PROVE OwnersInvited'
  OBVIOUS
<1>1. CASE UNCHANGED <<owners, invited>>
  BY <1>1 DEF OwnersInvited
<1>2. ASSUME NEW gone, RemoveOwners(gone) PROVE OwnersInvited'
  BY <1>2 DEF RemoveOwners, OwnersInvited, TypeOK
<1>3. ASSUME NEW c \in Client, CM(c) \/ \E d \in Client : CMOther(c, d) PROVE OwnersInvited'
  BY <1>3 DEF CM, CMOther, AddOwner, With, OwnersInvited, TypeOK
<1>4. ASSUME NEW c \in Client, UnCM(c) \/ UnCMAll(c) \/ \E d \in Client : UnCMOther(c, d)
      PROVE  OwnersInvited'
  BY <1>2, <1>4 DEF UnCM, UnCMAll, UnCMOther
<1>5. ASSUME NEW c \in Client, Lock(c) \/ Spectatable(c) PROVE OwnersInvited'
  BY <1>5 DEF Lock, Spectatable, Close, With, OwnersInvited, TypeOK
<1>6. ASSUME NEW c \in Client, NEW d \in Client, Invite(c, d) \/ UnInvite(c, d)
      PROVE  OwnersInvited'
  BY <1>6 DEF Invite, UnInvite, With, Without, OwnersInvited, TypeOK
<1>7. ASSUME NEW c \in Client, NEW a \in Area,
             AreaKickAll(c, a) \/ \E d \in Client : AreaKick(c, d, a)
      PROVE  OwnersInvited'
  <2>1. PICK S \in SUBSET Kickable(c) : KickFrom(c, S, a)
    BY <1>7 DEF AreaKickAll, AreaKick
  <2>2. S \cap owners[area[c]] = {}
    BY DEF Kickable
  <2> QED
    BY <2>1, <2>2 DEF KickFrom, Without, OwnersInvited, TypeOK
<1>8. ASSUME NEW S \in SUBSET Client, Expire(S) PROVE OwnersInvited'
  BY <1>2, <1>8 DEF Expire
<1>9. ASSUME NEW c \in Client,
             \/ Join(c) \/ Unregister(c) \/ UnLock(c)
             \/ \E a \in Area : ChangeArea(c, a)
             \/ \E ch \in Character \cup {NoCharacter} : ChangeCharacter(c, ch)
             \/ \E d \in Client : \/ \E L \in SUBSET Character : CharCurse(c, d, L)
                                  \/ UnCharCurse(c, d)
                                  \/ ForceCharSelect(c, d)
      PROVE  UNCHANGED <<owners, invited>>
  BY <1>9 DEF Join, Unregister, Discard, UnLock, ChangeArea, ChangeCharacter, CharCurse,
              UnCharCurse, ForceCharSelect, accessVars
<1>10. CASE UNCHANGED vars
  BY <1>1, <1>10 DEF vars
<1> QED
  BY <1>1, <1>3, <1>4, <1>5, <1>6, <1>7, <1>8, <1>9, <1>10 DEF Next

(* An owner is always invited to the area it manages, even when handlers   *)
(* name clients that are about to be removed.                              *)
THEOREM RosterOwnersInvited == Spec => []OwnersInvited
<1>1. Init => OwnersInvited
  BY DEF Init, OwnersInvited
<1> QED
  BY <1>1, OwnersInvitedNext, RosterTypes, PTL DEF Spec

LEMMA RightsAreLiveNext ==
  ASSUME ~TargetsExpired
  PROVE  TypeOK /\ RightsAreLive /\ [Next]_vars => RightsAreLive'
<1> SUFFICES ASSUME TypeOK, RightsAreLive, [Next]_vars PROVE RightsAreLive'
  OBVIOUS
<1> USE TargetFacts
<1>1. ASSUME UNCHANGED <<owners, invited>>, Live \subseteq Live' PROVE RightsAreLive'
  BY <1>1 DEF RightsAreLive
<1>2. ASSUME UNCHANGED life PROVE Live' = Live
  BY <1>2 DEF Live
<1>3. ASSUME NEW gone, RemoveOwners(gone), UNCHANGED life PROVE RightsAreLive'
  BY <1>2, <1>3 DEF RemoveOwners, RightsAreLive, TypeOK
<1>4. ASSUME NEW c \in Client, CM(c) \/ \E d \in Client : CMOther(c, d) PROVE RightsAreLive'
  BY <1>2, <1>4 DEF CM, CMOther, AddOwner, With, RightsAreLive, TypeOK
<1>5. ASSUME NEW c \in Client, UnCM(c) \/ UnCMAll(c) \/ \E d \in Client : UnCMOther(c, d)
      PROVE  RightsAreLive'
  BY <1>3, <1>5 DEF UnCM, UnCMAll, UnCMOther
<1>6. ASSUME NEW c \in Client, Lock(c) \/ Spectatable(c) PROVE RightsAreLive'
  BY <1>2, <1>6 DEF Lock, Spectatable, Close, With, RightsAreLive, TypeOK
<1>7. ASSUME NEW c \in Client, NEW d \in Client, Invite(c, d) \/ UnInvite(c, d)
      PROVE  RightsAreLive'
  BY <1>2, <1>7 DEF Invite, UnInvite, With, Without, RightsAreLive, TypeOK
<1>8. ASSUME NEW c \in Client, NEW S, NEW a \in Area, KickFrom(c, S, a)
      PROVE  RightsAreLive'
  BY <1>2, <1>8 DEF KickFrom, Without, RightsAreLive, TypeOK
<1>9. ASSUME NEW c \in Client, NEW a \in Area,
             AreaKickAll(c, a) \/ \E d \in Client : AreaKick(c, d, a)
      PROVE  RightsAreLive'
  BY <1>8, <1>9 DEF AreaKickAll, AreaKick
<1>10. ASSUME NEW S \in SUBSET Client, Expire(S) PROVE RightsAreLive'
  <2>1. Live' = Live \ S
    BY <1>10 DEF Expire, Live, TypeOK
  <2>2. \A a \in Area : owners'[a] = owners[a] \ S /\ invited'[a] = invited[a] \ S
    BY <1>10 DEF Expire, RemoveOwners
  <2> QED
    BY <2>1, <2>2 DEF RightsAreLive
<1>11. ASSUME NEW c \in Client, Join(c) \/ Unregister(c) PROVE RightsAreLive'
  <2>1. Live \subseteq Live'
    BY <1>11 DEF Join, Unregister, Discard, Live, TypeOK
  <2> QED
    BY <1>1, <1>11, <2>1 DEF Join, Unregister, Discard, accessVars
<1>12. ASSUME NEW c \in Client,
              \/ UnLock(c)
              \/ \E a \in Area : ChangeArea(c, a)
              \/ \E ch \in Character \cup {NoCharacter} : ChangeCharacter(c, ch)
              \/ \E d \in Client : \/ \E L \in SUBSET Character : CharCurse(c, d, L)
                                   \/ UnCharCurse(c, d)
                                   \/ ForceCharSelect(c, d)
       PROVE  RightsAreLive'
  <2>1. UNCHANGED life /\ UNCHANGED <<owners, invited>>
    BY <1>12 DEF UnLock, ChangeArea, ChangeCharacter, CharCurse, UnCharCurse,
                 ForceCharSelect, accessVars
  <2> QED
    BY <1>1, <1>2, <2>1
<1>13. CASE UNCHANGED vars
  BY <1>1, <1>2, <1>13 DEF vars
<1> QED
  BY <1>4, <1>5, <1>6, <1>7, <1>9, <1>10, <1>11, <1>12, <1>13 DEF Next

(* Nobody keeps, or inherits through a reused identifier, the rights of a  *)
(* player that left, provided that handlers name live clients only.        *)
THEOREM RosterRightsAreLive ==
  ASSUME ~TargetsExpired
  PROVE  Spec => []RightsAreLive
<1>1. Init => RightsAreLive
  BY DEF Init, RightsAreLive
<1> QED
  BY <1>1, RightsAreLiveNext, RosterTypes, PTL DEF Spec

-----------------------------------------------------------------------------
(* Locks *)

LEMMA LastOwnerUnlocksNext ==
  ASSUME TypeOK, [Next]_vars, NEW b \in Area, owners[b] # {}, owners'[b] = {}
  PROVE  locked'[b] = "Unlocked"
<1>1. ASSUME NEW gone, RemoveOwners(gone) PROVE locked'[b] = "Unlocked"
  BY <1>1 DEF RemoveOwners
<1>2. ASSUME NEW c \in Client, CM(c) \/ \E d \in Client : CMOther(c, d) PROVE FALSE
  BY <1>2 DEF CM, CMOther, AddOwner, With, TypeOK
<1>3. ASSUME NEW c \in Client, UnCM(c) \/ UnCMAll(c) \/ \E d \in Client : UnCMOther(c, d)
      PROVE  locked'[b] = "Unlocked"
  BY <1>1, <1>3 DEF UnCM, UnCMAll, UnCMOther
<1>4. ASSUME NEW S \in SUBSET Client, Expire(S) PROVE locked'[b] = "Unlocked"
  BY <1>1, <1>4 DEF Expire
<1>5. ASSUME NEW c \in Client,
             \/ Join(c) \/ Unregister(c) \/ Lock(c) \/ Spectatable(c) \/ UnLock(c)
             \/ \E a \in Area : ChangeArea(c, a) \/ AreaKickAll(c, a)
             \/ \E ch \in Character \cup {NoCharacter} : ChangeCharacter(c, ch)
             \/ \E d \in Client : \/ Invite(c, d) \/ UnInvite(c, d)
                                  \/ \E a \in Area : AreaKick(c, d, a)
                                  \/ \E L \in SUBSET Character : CharCurse(c, d, L)
                                  \/ UnCharCurse(c, d)
                                  \/ ForceCharSelect(c, d)
      PROVE  FALSE
  <2>1. UNCHANGED owners
    BY <1>5 DEF Join, Unregister, Discard, Lock, Spectatable, Close, UnLock, ChangeArea,
                AreaKickAll, AreaKick, KickFrom, ChangeCharacter, Invite, UnInvite,
                CharCurse, UnCharCurse, ForceCharSelect, accessVars
  <2> QED
    BY <2>1
<1>6. CASE UNCHANGED vars
  BY <1>6 DEF vars
<1> QED
  BY <1>2, <1>3, <1>4, <1>5, <1>6 DEF Next

(* An area that loses its last owner, by any route, is unlocked in the     *)
(* same step.                                                              *)
THEOREM RosterLastOwnerUnlocks == Spec => LastOwnerUnlocks
<1>1. TypeOK /\ [Next]_vars =>
        [\A a \in Area : owners[a] # {} /\ owners'[a] = {} => locked'[a] = "Unlocked"]_vars
  BY LastOwnerUnlocksNext
<1> QED
  BY <1>1, RosterTypes, PTL DEF Spec, LastOwnerUnlocks

LEMMA LockChanges ==
  ASSUME TypeOK, [Next]_vars, NEW b \in Area, owners'[b] # {}, locked'[b] # locked[b]
  PROVE  \E c \in Live : area[c] = b /\ Allowed(c, "CM")
<1>1. ASSUME NEW gone, RemoveOwners(gone) PROVE FALSE
  <2>1. /\ owners'[b] = owners[b] \ gone[b]
        /\ locked'[b] = IF gone[b] # {} /\ owners[b] \subseteq gone[b]
                        THEN "Unlocked" ELSE locked[b]
    BY <1>1 DEF RemoveOwners
  <2> QED
    BY <2>1
<1>2. ASSUME NEW c \in Client, Lock(c) \/ Spectatable(c) \/ UnLock(c)
      PROVE  c \in Live /\ area[c] = b /\ Allowed(c, "CM")
  <2>1. Runs(c, "CM") /\ \E s : locked' = [locked EXCEPT ![area[c]] = s]
    BY <1>2 DEF Lock, Spectatable, Close, UnLock
  <2> QED
    BY <2>1 DEF Runs, TypeOK
<1>3. ASSUME NEW c \in Client, UnCM(c) \/ UnCMAll(c) \/ \E d \in Client : UnCMOther(c, d)
      PROVE  FALSE
  BY <1>1, <1>3 DEF UnCM, UnCMAll, UnCMOther
<1>4. ASSUME NEW S \in SUBSET Client, Expire(S) PROVE FALSE
  BY <1>1, <1>4 DEF Expire
<1>5. ASSUME NEW c \in Client,
             \/ Join(c) \/ Unregister(c) \/ CM(c)
             \/ \E a \in Area : ChangeArea(c, a) \/ AreaKickAll(c, a)
             \/ \E ch \in Character \cup {NoCharacter} : ChangeCharacter(c, ch)
             \/ \E d \in Client : \/ CMOther(c, d) \/ Invite(c, d) \/ UnInvite(c, d)
                                  \/ \E a \in Area : AreaKick(c, d, a)
                                  \/ \E L \in SUBSET Character : CharCurse(c, d, L)
                                  \/ UnCharCurse(c, d)
                                  \/ ForceCharSelect(c, d)
      PROVE  FALSE
  <2>1. UNCHANGED locked
    BY <1>5 DEF Join, Unregister, Discard, CM, CMOther, AddOwner, ChangeArea,
                AreaKickAll, AreaKick, KickFrom, ChangeCharacter, Invite, UnInvite,
                CharCurse, UnCharCurse, ForceCharSelect, accessVars
  <2> QED
    BY <2>1
<1>6. CASE UNCHANGED vars
  BY <1>6 DEF vars
<1> QED
  BY <1>2, <1>3, <1>4, <1>5, <1>6 DEF Next, Live

(* While an area has a case manager, only somebody in it who may closes or *)
(* opens it: no departure, kick or demotion of others touches its lock     *)
(* (AreaData::removeOwner opens areas that have none left, and no other).  *)
THEOREM RosterManagedKeepTheirLock ==
  Spec => [][\A a \in Area : owners'[a] # {} /\ locked'[a] # locked[a] =>
               \E c \in Live : area[c] = a /\ Allowed(c, "CM")]_vars
<1>1. TypeOK /\ [Next]_vars =>
        [\A a \in Area : owners'[a] # {} /\ locked'[a] # locked[a] =>
           \E c \in Live : area[c] = a /\ Allowed(c, "CM")]_vars
  BY LockChanges
<1> QED
  BY <1>1, RosterTypes, PTL DEF Spec

-----------------------------------------------------------------------------
(* Life *)

LEMMA LifeSteps ==
  ASSUME [Next]_vars
  PROVE  \/ \E c \in Client : Join(c) \/ Unregister(c)
         \/ \E S \in SUBSET Client : Expire(S)
         \/ UNCHANGED life
<1>1. ASSUME NEW c \in Client,
             \/ UnCM(c) \/ UnCMAll(c) \/ CM(c) \/ Lock(c) \/ Spectatable(c) \/ UnLock(c)
             \/ \E a \in Area : ChangeArea(c, a) \/ AreaKickAll(c, a)
             \/ \E ch \in Character \cup {NoCharacter} : ChangeCharacter(c, ch)
      PROVE  UNCHANGED life
  BY <1>1 DEF UnCM, UnCMAll, CM, AddOwner, Lock, Spectatable, Close, UnLock, ChangeArea,
              AreaKickAll, KickFrom, ChangeCharacter
<1>2. ASSUME NEW c \in Client, NEW d \in Client,
             \/ CMOther(c, d) \/ UnCMOther(c, d) \/ Invite(c, d) \/ UnInvite(c, d)
             \/ \E a \in Area : AreaKick(c, d, a)
             \/ \E L \in SUBSET Character : CharCurse(c, d, L)
             \/ UnCharCurse(c, d) \/ ForceCharSelect(c, d)
      PROVE  UNCHANGED life
  BY <1>2 DEF CMOther, AddOwner, UnCMOther, Invite, UnInvite, AreaKick, KickFrom,
              CharCurse, UnCharCurse, ForceCharSelect
<1> QED
  BY <1>1, <1>2 DEF Next, vars

LEMMA LifecycleStep ==
  ASSUME TypeOK, [Next]_vars
  PROVE  [Lifecycle!Next]_life
<1>1. ASSUME NEW c \in Client, Join(c) PROVE Lifecycle!Enter(c)
  BY <1>1 DEF Join, Lifecycle!Enter
<1>2. ASSUME NEW c \in Client, Unregister(c) PROVE Lifecycle!Leave(c)
  BY <1>2 DEF Unregister, Discard, Lifecycle!Leave
<1>3. ASSUME NEW S \in SUBSET Client, Expire(S) PROVE Lifecycle!Expire(S)
  BY <1>3 DEF Expire, Live, Lifecycle!Expire
<1> QED
  BY <1>1, <1>2, <1>3, LifeSteps DEF Lifecycle!Next, Lifecycle!Expire

(* Players in areas live as ClientLifecycle says.                          *)
THEOREM RosterImplementsLifecycle == Spec => LifecycleSafety
<1>1. Init => Lifecycle!Init
  BY DEF Init, Lifecycle!Init
<1>2. TypeOK /\ [Next]_vars => [Lifecycle!Next]_life
  BY LifecycleStep
<1> QED
  BY <1>1, <1>2, RosterTypes, PTL DEF Spec, LifecycleSafety, Lifecycle!Spec

-----------------------------------------------------------------------------
(* Curses *)

LEMMA TakeCharacterCurse ==
  ASSUME TypeOK, CurseHolds, NEW c \in Client, NEW ch \in Character \cup {NoCharacter},
         TakeCharacter(c, ch), UNCHANGED curse
  PROVE  CurseHolds'
  BY DEF TakeCharacter, MayTake, CurseHolds, TypeOK

LEMMA MoveAllCurse ==
  ASSUME TypeOK, CurseHolds, NEW S, NEW a \in Area, MoveAll(S, a), UNCHANGED curse
  PROVE  CurseHolds'
  BY DEF MoveAll, CurseHolds, TypeOK

LEMMA CurseHoldsNext == TypeOK /\ CurseHolds /\ [Next]_vars => CurseHolds'
<1> SUFFICES ASSUME TypeOK, CurseHolds, [Next]_vars PROVE CurseHolds'
  OBVIOUS
<1> USE RosterConstants, TargetFacts
<1>1. CASE UNCHANGED <<character, curse>>
  BY <1>1 DEF CurseHolds
<1>2. ASSUME NEW c \in Client, NEW ch \in Character \cup {NoCharacter}, ChangeCharacter(c, ch)
      PROVE  CurseHolds'
  BY <1>2, TakeCharacterCurse DEF ChangeCharacter
<1>3. ASSUME NEW c \in Client, NEW a \in Area, ChangeArea(c, a) PROVE CurseHolds'
  BY <1>3, MoveAllCurse DEF ChangeArea
<1>4. ASSUME NEW c \in Client, NEW a \in Area,
             AreaKickAll(c, a) \/ \E d \in Client : AreaKick(c, d, a)
      PROVE  CurseHolds'
  BY <1>4, MoveAllCurse DEF AreaKickAll, AreaKick, KickFrom
<1>5. ASSUME NEW c \in Client, NEW d \in Client, ForceCharSelect(c, d) PROVE CurseHolds'
  BY <1>5, TakeCharacterCurse DEF ForceCharSelect
<1>6. ASSUME NEW c \in Client, NEW d \in Client, NEW L \in SUBSET Character,
             CharCurse(c, d, L)
      PROVE  CurseHolds'
  <2>1. character'[d] \in L \cup {NoCharacter}
    BY <1>6 DEF CharCurse, TakeCharacter, MayTake, TypeOK
  <2>2. \A e \in Client : e # d => character'[e] = character[e]
    BY <1>6 DEF CharCurse, TakeCharacter, TypeOK
  <2>3. curse' = [curse EXCEPT ![d] = L]
    BY <1>6 DEF CharCurse
  <2> QED
    BY <2>1, <2>2, <2>3 DEF CurseHolds, TypeOK
<1>7. ASSUME NEW c \in Client, NEW d \in Client, UnCharCurse(c, d) PROVE CurseHolds'
  BY <1>7 DEF UnCharCurse, CurseHolds, TypeOK, memberVars
<1>8. ASSUME NEW c \in Client, Unregister(c) PROVE CurseHolds'
  BY <1>8 DEF Unregister, Discard, CurseHolds, TypeOK
<1>9. ASSUME NEW c \in Client,
             \/ Join(c) \/ CM(c) \/ UnCM(c) \/ UnCMAll(c)
             \/ Lock(c) \/ Spectatable(c) \/ UnLock(c)
             \/ \E d \in Client : \/ CMOther(c, d) \/ UnCMOther(c, d)
                                  \/ Invite(c, d) \/ UnInvite(c, d)
      PROVE  UNCHANGED <<character, curse>>
  BY <1>9 DEF Join, CM, CMOther, AddOwner, UnCM, UnCMAll, UnCMOther, Lock, Spectatable,
              Close, UnLock, Invite, UnInvite, memberVars
<1>10. ASSUME NEW S \in SUBSET Client, Expire(S) PROVE UNCHANGED <<character, curse>>
  BY <1>10 DEF Expire
<1>11. CASE UNCHANGED vars
  BY <1>1, <1>11 DEF vars
<1> QED
  BY <1>1, <1>2, <1>3, <1>4, <1>5, <1>6, <1>7, <1>8, <1>9, <1>10, <1>11 DEF Next

(* A charcursed player plays what it is cursed to, or nothing, whatever    *)
(* handlers run in the removal gap.                                        *)
THEOREM RosterCurseHolds == Spec => []CurseHolds
<1>1. Init => CurseHolds
  BY DEF Init, CurseHolds
<1> QED
  BY <1>1, CurseHoldsNext, RosterTypes, PTL DEF Spec

-----------------------------------------------------------------------------
(* Members, their number and their characters.  The three lists of an area *)
(* must be what its members are; a player that is not registered starts in *)
(* the default area without a character.                                   *)

AbsentAreFresh ==
  \A c \in Client : life[c] = "Absent" => area[c] = DefaultArea /\ character[c] = NoCharacter

ListsFit == AbsentAreFresh /\ JoinedAreMembers /\ CountIsOccupants /\ CharactersExclusive

LEMMA SubsetsFinite ==
  ASSUME NEW S, S \subseteq Client
  PROVE  IsFiniteSet(S) /\ Cardinality(S) \in Int
  BY RosterConstants, FS_Subset, FS_CardinalityType

LEMMA ListsFrame ==
  ASSUME ListsFit, UNCHANGED <<life, area, character, taken, joined, count>>
  PROVE  ListsFit'
  BY DEF ListsFit, AbsentAreFresh, JoinedAreMembers, CountIsOccupants, CharactersExclusive,
         Members, Live

(* An area that members leave and an area that others join.                *)
LEMMA CountLess ==
  ASSUME NEW S, NEW T, S \subseteq Client, T \subseteq S
  PROVE  Cardinality(S \ T) = Cardinality(S) - Cardinality(T)
<1>1. S \cap T = T
  OBVIOUS
<1> QED
  BY <1>1, SubsetsFinite, FS_Difference

LEMMA CountMore ==
  ASSUME NEW S, NEW T, S \subseteq Client, T \subseteq Client, S \cap T = {}
  PROVE  Cardinality(S \cup T) = Cardinality(S) + Cardinality(T)
<1>1. IsFiniteSet(S) /\ IsFiniteSet(T) /\ Cardinality(S) \in Int /\ Cardinality(T) \in Int
  BY SubsetsFinite
<1>2. Cardinality(S \cup T) = Cardinality(S) + Cardinality(T) - Cardinality(S \cap T)
  BY <1>1, FS_Union
<1> QED
  BY <1>1, <1>2, FS_EmptySet

LEMMA MoveAllFits ==
  ASSUME TypeOK, ListsFit, NEW S, S \subseteq Live, NEW a \in Area, MoveAll(S, a), UNCHANGED life
  PROVE  ListsFit'
<1> DEFINE movers == {c \in S : area[c] # a /\ MayEnter(c, a)}
           leaving(b) == {c \in movers : area[c] = b}
           characters(T) == {character[c] : c \in T} \ {NoCharacter}
           first(ch) == CHOOSE c \in movers : character[c] = ch
           keeps(c) == character[c] \notin taken[a] /\ first(character[c]) = c
<1>1. /\ area' = [c \in Client |-> IF c \in movers THEN a ELSE area[c]]
      /\ character' = [c \in Client |-> IF c \in movers /\ ~keeps(c)
                                        THEN NoCharacter ELSE character[c]]
      /\ taken' = [b \in Area |-> IF b = a THEN taken[a] \cup characters(movers)
                                  ELSE taken[b] \ characters(leaving(b))]
      /\ joined' = [b \in Area |-> IF b = a THEN joined[a] \cup movers
                                   ELSE joined[b] \ leaving(b)]
      /\ count' = [b \in Area |-> IF b = a THEN count[a] + Cardinality(movers)
                                  ELSE count[b] - Cardinality(leaving(b))]
  BY DEF MoveAll
<1>2. Live' = Live /\ Live \subseteq Client
  BY DEF Live
<1>3. movers \subseteq Live /\ \A c \in movers : area[c] # a
  OBVIOUS
<1>4. \A c \in movers : first(character[c]) \in movers
                         /\ character[first(character[c])] = character[c]
  OBVIOUS
<1> HIDE DEF movers, first
<1>5. Members(a)' = Members(a) \cup movers /\ Members(a) \cap movers = {}
  BY <1>1, <1>2, <1>3 DEF Members
<1>6. \A b \in Area \ {a} :
        Members(b)' = Members(b) \ leaving(b) /\ leaving(b) \subseteq Members(b)
  BY <1>1, <1>2, <1>3 DEF Members
<1>7. AbsentAreFresh'
  <2>1. \A c \in Client : life'[c] = "Absent" => c \notin movers
    BY <1>3 DEF Live
  <2> QED
    BY <1>1, <2>1 DEF ListsFit, AbsentAreFresh
<1>8. JoinedAreMembers'
  <2>1. ASSUME NEW b \in Area PROVE joined'[b] = Members(b)'
    BY <1>1, <1>5, <1>6 DEF ListsFit, JoinedAreMembers
  <2> QED
    BY <2>1 DEF JoinedAreMembers, Members, Live
<1>9. CountIsOccupants'
  <2>1. ASSUME NEW b \in Area PROVE count'[b] = Cardinality(Members(b)')
    <3>1. CASE b = a
      <4>1. Cardinality(Members(a)') = Cardinality(Members(a)) + Cardinality(movers)
        BY <1>2, <1>3, <1>5, CountMore DEF Members
      <4> QED
        BY <1>1, <3>1, <4>1 DEF ListsFit, CountIsOccupants
    <3>2. CASE b # a
      <4>1. Cardinality(Members(b)') = Cardinality(Members(b)) - Cardinality(leaving(b))
        <5>1. Members(b) \subseteq Client
          BY <1>2 DEF Members
        <5> QED
          BY <1>6, <3>2, <5>1, CountLess
      <4> QED
        BY <1>1, <3>2, <4>1 DEF ListsFit, CountIsOccupants
    <3> QED
      BY <3>1, <3>2
  <2> QED
    BY <2>1 DEF CountIsOccupants, Members, Live
<1>10. CharactersExclusive'
  <2>1. ASSUME NEW b \in Area, b # a
        PROVE  /\ taken'[b] = {character'[c] : c \in Members(b)'} \ {NoCharacter}
               /\ \A c, d \in Members(b)' :
                    character'[c] = character'[d] /\ c # d => character'[c] = NoCharacter
    <3>1. \A c \in Members(b)' : c \in Members(b) /\ c \notin leaving(b)
                                 /\ character'[c] = character[c]
      BY <1>1, <1>2, <1>6, <2>1 DEF Members
    <3>2. \A c \in Members(b) : c \in leaving(b) \/ c \in Members(b)'
      BY <1>6, <2>1
    <3>3. taken'[b] = taken[b] \ characters(leaving(b))
      BY <1>1, <2>1
    <3>4. taken[b] = {character[c] : c \in Members(b)} \ {NoCharacter}
      BY DEF ListsFit, CharactersExclusive
    <3>5. \A c, d \in Members(b) :
            character[c] = character[d] /\ c # d => character[c] = NoCharacter
      BY DEF ListsFit, CharactersExclusive
    <3>6. leaving(b) \subseteq Members(b)
      BY <1>6, <2>1
    <3> HIDE DEF leaving
    <3> QED
      BY <3>1, <3>2, <3>3, <3>4, <3>5, <3>6
  <2>2. /\ taken'[a] = {character'[c] : c \in Members(a)'} \ {NoCharacter}
        /\ \A c, d \in Members(a)' :
             character'[c] = character'[d] /\ c # d => character'[c] = NoCharacter
    <3>1. \A c \in Members(a) : character'[c] = character[c] /\ c \notin movers
      BY <1>1, <1>2, <1>5 DEF Members
    <3>2. \A c \in movers : character'[c] = IF keeps(c) THEN character[c] ELSE NoCharacter
      BY <1>1, <1>2, <1>3
    <3>3. taken'[a] = taken[a] \cup characters(movers)
      BY <1>1
    <3>4. taken[a] = {character[c] : c \in Members(a)} \ {NoCharacter}
      BY DEF ListsFit, CharactersExclusive
    <3>5. \A c, d \in Members(a) :
            character[c] = character[d] /\ c # d => character[c] = NoCharacter
      BY DEF ListsFit, CharactersExclusive
    <3>6. \A ch \in characters(movers) : ch \in taken[a] \/ \E c \in movers : character'[c] = ch
      <4>1. TAKE ch \in characters(movers)
      <4>2. PICK c \in movers : character[c] = ch
        OBVIOUS
      <4>3. CASE ch \notin taken[a]
        BY <1>4, <3>2, <4>2, <4>3
      <4> QED
        BY <4>3
    <3>7. \A c \in movers : character'[c] # NoCharacter
                             => character'[c] \in characters(movers) \ taken[a]
      BY <3>2
    <3>8. \A c, d \in movers :
            character'[c] = character'[d] /\ c # d => character'[c] = NoCharacter
      BY <3>2
    <3> HIDE DEF characters, keeps
    <3>9. NoCharacter \notin characters(movers)
      BY DEF characters
    <3> QED
      BY <1>5, <3>1, <3>3, <3>4, <3>5, <3>6, <3>7, <3>8, <3>9
  <2> QED
    BY <2>1, <2>2 DEF CharactersExclusive, Members, Live
<1> QED
  BY <1>7, <1>8, <1>9, <1>10 DEF ListsFit

LEMMA TakeCharacterFits ==
  ASSUME TypeOK, ListsFit, NEW c \in Live, NEW ch \in Character \cup {NoCharacter},
         TakeCharacter(c, ch), UNCHANGED <<life, area, joined, count>>
  PROVE  ListsFit'
<1>1. CASE UNCHANGED <<character, taken>>
  BY <1>1, ListsFrame
<1>2. CASE MayTake(c, ch)
  <2>1. /\ character' = [character EXCEPT ![c] = ch]
        /\ taken' = [taken EXCEPT ![area[c]] =
                       (@ \ {character[c]}) \cup ({ch} \ {NoCharacter})]
    BY <1>2 DEF TakeCharacter
  <2>2. ch \notin taken[area[c]] /\ c \in Client /\ area[c] \in Area
    BY <1>2 DEF MayTake, Live, TypeOK
  <2>3. Live' = Live /\ \A b \in Area : Members(b)' = Members(b)
    BY DEF Live, Members
  <2>4. AbsentAreFresh'
    BY <2>1, <2>2 DEF ListsFit, AbsentAreFresh, Live, TypeOK
  <2>5. JoinedAreMembers' /\ CountIsOccupants'
    BY <2>3 DEF ListsFit, JoinedAreMembers, CountIsOccupants, Members, Live
  <2>6. CharactersExclusive'
    <3>1. ASSUME NEW b \in Area
          PROVE  /\ taken'[b] = {character'[d] : d \in Members(b)'} \ {NoCharacter}
                 /\ \A d, e \in Members(b)' :
                      character'[d] = character'[e] /\ d # e => character'[d] = NoCharacter
      <4>1. /\ taken[b] = {character[d] : d \in Members(b)} \ {NoCharacter}
            /\ \A d, e \in Members(b) :
                 character[d] = character[e] /\ d # e => character[d] = NoCharacter
        BY DEF ListsFit, CharactersExclusive
      <4>2. \A d \in Members(b) : character'[d] = IF d = c THEN ch ELSE character[d]
        BY <2>1, <2>2 DEF Members, Live, TypeOK
      <4>3. CASE b # area[c]
        <5>1. c \notin Members(b) /\ taken'[b] = taken[b]
          BY <2>1, <2>2, <4>3 DEF Members, TypeOK
        <5> QED
          BY <2>3, <4>1, <4>2, <5>1
      <4>4. CASE b = area[c]
        <5>1. c \in Members(b)
          BY <4>4 DEF Members
        <5>2. taken'[b] = (taken[b] \ {character[c]}) \cup ({ch} \ {NoCharacter})
          BY <2>1, <2>2, <4>4 DEF TypeOK
        <5>3. \A d \in Members(b) : d # c => character[d] # ch \/ ch = NoCharacter
          BY <2>2, <4>1, <4>4
        <5> QED
          BY <2>3, <4>1, <4>2, <5>1, <5>2, <5>3
      <4> QED
        BY <4>3, <4>4
    <3> QED
      BY <3>1 DEF CharactersExclusive, Members, Live
  <2> QED
    BY <2>4, <2>5, <2>6 DEF ListsFit
<1> QED
  BY <1>1, <1>2 DEF TakeCharacter

LEMMA JoinFits ==
  ASSUME TypeOK, ListsFit, NEW c \in Client, Join(c)
  PROVE  ListsFit'
<1> USE RosterConstants
<1>1. /\ life' = [life EXCEPT ![c] = "Live"] /\ life[c] = "Absent"
      /\ joined' = [joined EXCEPT ![DefaultArea] = @ \cup {c}]
      /\ count' = [count EXCEPT ![DefaultArea] = @ + 1]
      /\ UNCHANGED <<area, character, taken>>
  BY DEF Join, With
<1>2. area[c] = DefaultArea /\ character[c] = NoCharacter
  BY <1>1 DEF ListsFit, AbsentAreFresh
<1>3. /\ Members(DefaultArea)' = Members(DefaultArea) \cup {c}
      /\ Members(DefaultArea) \cap {c} = {}
      /\ \A b \in Area \ {DefaultArea} : Members(b)' = Members(b)
  BY <1>1, <1>2 DEF Members, Live, TypeOK
<1>4. AbsentAreFresh'
  BY <1>1 DEF ListsFit, AbsentAreFresh, TypeOK
<1>5. JoinedAreMembers'
  <2>1. \A b \in Area : joined'[b] = Members(b)'
    BY <1>1, <1>3 DEF ListsFit, JoinedAreMembers, TypeOK
  <2> QED
    BY <2>1 DEF JoinedAreMembers, Members, Live
<1>6. CountIsOccupants'
  <2>1. Cardinality(Members(DefaultArea)') = Cardinality(Members(DefaultArea)) + 1
    <3>1. IsFiniteSet(Members(DefaultArea))
      BY SubsetsFinite DEF Members, Live
    <3> QED
      BY <1>3, <3>1, FS_AddElement
  <2>2. \A b \in Area : count'[b] = Cardinality(Members(b)')
    BY <1>1, <1>3, <2>1 DEF ListsFit, CountIsOccupants, TypeOK
  <2> QED
    BY <2>2 DEF CountIsOccupants, Members, Live
<1>7. CharactersExclusive'
  <2>1. ASSUME NEW b \in Area
        PROVE  /\ taken'[b] = {character'[d] : d \in Members(b)'} \ {NoCharacter}
               /\ \A d, e \in Members(b)' :
                    character'[d] = character'[e] /\ d # e => character'[d] = NoCharacter
    BY <1>1, <1>2, <1>3 DEF ListsFit, CharactersExclusive
  <2> QED
    BY <2>1 DEF CharactersExclusive, Members, Live
<1> QED
  BY <1>4, <1>5, <1>6, <1>7 DEF ListsFit

LEMMA UnregisterFits ==
  ASSUME TypeOK, ListsFit, NEW c \in Client, Unregister(c)
  PROVE  ListsFit'
<1>1. /\ life[c] = "Expired" /\ life' = [life EXCEPT ![c] = "Absent"]
      /\ area' = [area EXCEPT ![c] = DefaultArea]
      /\ character' = [character EXCEPT ![c] = NoCharacter]
      /\ UNCHANGED <<taken, joined, count>>
  BY DEF Unregister, Discard
<1>2. Live' = Live /\ c \notin Live
  BY <1>1 DEF Live, TypeOK
<1>3. \A b \in Area : Members(b)' = Members(b)
  BY <1>1, <1>2 DEF Members, Live, TypeOK
<1>4. \A d \in Live : character'[d] = character[d]
  BY <1>1, <1>2 DEF Live, TypeOK
<1>5. AbsentAreFresh'
  BY <1>1 DEF ListsFit, AbsentAreFresh, TypeOK
<1>6. JoinedAreMembers' /\ CountIsOccupants'
  BY <1>1, <1>3 DEF ListsFit, JoinedAreMembers, CountIsOccupants, Members, Live
<1>7. CharactersExclusive'
  <2>1. ASSUME NEW b \in Area
        PROVE  /\ taken'[b] = {character'[d] : d \in Members(b)'} \ {NoCharacter}
               /\ \A d, e \in Members(b)' :
                    character'[d] = character'[e] /\ d # e => character'[d] = NoCharacter
    <3>1. \A d \in Members(b) : character'[d] = character[d]
      BY <1>4 DEF Members
    <3> QED
      BY <1>1, <1>3, <3>1 DEF ListsFit, CharactersExclusive
  <2> QED
    BY <2>1 DEF CharactersExclusive, Members, Live
<1> QED
  BY <1>5, <1>6, <1>7 DEF ListsFit

LEMMA ExpireFits ==
  ASSUME TypeOK, ListsFit, NEW S \in SUBSET Client, Expire(S)
  PROVE  ListsFit'
<1> DEFINE leaving(b) == {c \in S : area[c] = b}
<1>1. /\ taken' = [a \in Area |-> taken[a] \ {character[c] : c \in leaving(a)}]
      /\ joined' = [a \in Area |-> joined[a] \ leaving(a)]
      /\ count' = [a \in Area |-> count[a] - Cardinality(leaving(a))]
      /\ life' = [c \in Client |-> IF c \in S THEN "Expired" ELSE life[c]]
      /\ S \subseteq Live /\ UNCHANGED <<area, character>>
  BY DEF Expire, LeaveArea
<1>2. Live' = Live \ S
  BY <1>1 DEF Live, TypeOK
<1>3. \A b \in Area : Members(b)' = Members(b) \ leaving(b) /\ leaving(b) \subseteq Members(b)
  BY <1>1, <1>2 DEF Members
<1>4. \A b \in Area : Members(b) \subseteq Client
  BY DEF Members, Live
<1> HIDE DEF leaving
<1>5. AbsentAreFresh'
  BY <1>1 DEF ListsFit, AbsentAreFresh, TypeOK
<1>6. JoinedAreMembers'
  <2>1. \A b \in Area : joined'[b] = Members(b)'
    BY <1>1, <1>3 DEF ListsFit, JoinedAreMembers
  <2> QED
    BY <2>1 DEF JoinedAreMembers, Members, Live
<1>7. CountIsOccupants'
  <2>1. ASSUME NEW b \in Area PROVE count'[b] = Cardinality(Members(b)')
    <3>1. Cardinality(Members(b)') = Cardinality(Members(b)) - Cardinality(leaving(b))
      BY <1>3, <1>4, CountLess
    <3> QED
      BY <1>1, <3>1 DEF ListsFit, CountIsOccupants
  <2> QED
    BY <2>1 DEF CountIsOccupants, Members, Live
<1>8. CharactersExclusive'
  <2>1. ASSUME NEW b \in Area
        PROVE  /\ taken'[b] = {character'[d] : d \in Members(b)'} \ {NoCharacter}
               /\ \A d, e \in Members(b)' :
                    character'[d] = character'[e] /\ d # e => character'[d] = NoCharacter
    <3>1. /\ taken[b] = {character[d] : d \in Members(b)} \ {NoCharacter}
          /\ \A d, e \in Members(b) :
               character[d] = character[e] /\ d # e => character[d] = NoCharacter
      BY DEF ListsFit, CharactersExclusive
    <3>2. taken'[b] = taken[b] \ {character[c] : c \in leaving(b)}
      BY <1>1
    <3> QED
      BY <1>1, <1>3, <3>1, <3>2
  <2> QED
    BY <2>1 DEF CharactersExclusive, Members, Live
<1> QED
  BY <1>5, <1>6, <1>7, <1>8 DEF ListsFit

LEMMA ListsFitNext ==
  ASSUME ~TargetsExpired
  PROVE  TypeOK /\ ListsFit /\ [Next]_vars => ListsFit'
<1> SUFFICES ASSUME TypeOK, ListsFit, [Next]_vars PROVE ListsFit'
  OBVIOUS
<1> USE TargetFacts
<1>1. ASSUME NEW c \in Client, NEW a \in Area, ChangeArea(c, a) PROVE ListsFit'
  BY <1>1, MoveAllFits DEF ChangeArea
<1>2. ASSUME NEW c \in Client, NEW a \in Area,
             AreaKickAll(c, a) \/ \E d \in Client : AreaKick(c, d, a)
      PROVE  ListsFit'
  <2>1. PICK S \in SUBSET Kickable(c) : KickFrom(c, S, a)
    BY <1>2 DEF AreaKickAll, AreaKick
  <2>2. S \subseteq Live
    BY DEF Kickable
  <2> QED
    BY <2>1, <2>2, MoveAllFits DEF KickFrom
<1>3. ASSUME NEW c \in Client, NEW ch \in Character \cup {NoCharacter}, ChangeCharacter(c, ch)
      PROVE  ListsFit'
  BY <1>3, TakeCharacterFits DEF ChangeCharacter
<1>4. ASSUME NEW c \in Client, NEW d \in Client,
             ForceCharSelect(c, d) \/ \E L \in SUBSET Character : CharCurse(c, d, L)
      PROVE  ListsFit'
  <2>1. d \in Live /\ UNCHANGED <<life, area, joined, count>>
    BY <1>4 DEF ForceCharSelect, CharCurse
  <2>2. TakeCharacter(d, NoCharacter) \/ UNCHANGED <<character, taken>>
    BY <1>4 DEF ForceCharSelect, CharCurse
  <2> QED
    BY <2>1, <2>2, TakeCharacterFits, ListsFrame
<1>5. ASSUME NEW c \in Client,
             \/ CM(c) \/ UnCM(c) \/ UnCMAll(c)
             \/ Lock(c) \/ Spectatable(c) \/ UnLock(c)
             \/ \E d \in Client : \/ CMOther(c, d) \/ UnCMOther(c, d)
                                  \/ Invite(c, d) \/ UnInvite(c, d) \/ UnCharCurse(c, d)
      PROVE  UNCHANGED <<life, area, character, taken, joined, count>>
  BY <1>5 DEF CM, CMOther, AddOwner, UnCM, UnCMAll, UnCMOther, Lock, Spectatable, Close,
              UnLock, Invite, UnInvite, UnCharCurse, memberVars
<1>6. CASE UNCHANGED vars
  BY <1>6, ListsFrame DEF vars
<1> QED
  BY <1>1, <1>2, <1>3, <1>4, <1>5, <1>6, JoinFits, UnregisterFits, ExpireFits, ListsFrame
     DEF Next

LEMMA ListsFitAlways ==
  ASSUME ~TargetsExpired
  PROVE  Spec => []ListsFit
<1>1. Init => ListsFit
  <2> SUFFICES ASSUME Init PROVE ListsFit
    OBVIOUS
  <2>1. \A a \in Area : Members(a) = {}
    BY DEF Init, Members, Live
  <2> QED
    BY <2>1, FS_EmptySet
       DEF Init, ListsFit, AbsentAreFresh, JoinedAreMembers, CountIsOccupants,
           CharactersExclusive
<1> QED
  BY <1>1, ListsFitNext, RosterTypes, PTL DEF Spec

(* Provided that handlers name live clients only, the members an area      *)
(* broadcasts to and the number it shows are exactly its live players.     *)
THEOREM RosterMembersAreCounted ==
  ASSUME ~TargetsExpired
  PROVE  Spec => []MembersAreCounted
<1>1. ListsFit => MembersAreCounted
  BY DEF ListsFit, MembersAreCounted
<1> QED
  BY <1>1, ListsFitAlways, PTL

(* Under the same condition nobody shares a character in an area, and none *)
(* stays taken that nobody plays.                                          *)
THEOREM RosterCharactersExclusive ==
  ASSUME ~TargetsExpired
  PROVE  Spec => []CharactersExclusive
<1>1. ListsFit => CharactersExclusive
  BY DEF ListsFit
<1> QED
  BY <1>1, ListsFitAlways, PTL
=============================================================================
