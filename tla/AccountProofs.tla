----------------------------- MODULE AccountProofs -----------------------------
(***************************************************************************)
(* Bans and roles for any number of clients and accounts, any files and    *)
(* any durations.                                                          *)
(***************************************************************************)
EXTENDS Moderation, Rights, TLAPS

-----------------------------------------------------------------------------
(* Bans *)

Record == [subject : Accounts, issuedOn : Nat, duration : Int, revoked : BOOLEAN]

ModerationInv == ModerationTypeOK /\ BannedStayOut

LEMMA ModerationInvInit == ModerationInit => ModerationInv
<1> SUFFICES ASSUME ModerationInit PROVE ModerationInv
  OBVIOUS
<1>1. PresenceTypeOK /\ InSession = {}
  BY DEF ModerationInit, PresenceInit, PresenceTypeOK, InSession, Present
<1>2. bans \in Seq(Record) /\ clock \in Nat /\ altered \subseteq DOMAIN bans
  BY DEF ModerationInit
<1>3. ModerationTypeOK
  BY <1>1, <1>2 DEF ModerationTypeOK, Record
<1> QED
  BY <1>1, <1>3 DEF ModerationInv, BannedStayOut

(* Dropping clients leaves the rest as they were. *)
LEMMA Dropped ==
  ASSUME PresenceTypeOK, NEW S \in SUBSET Present, drop(S)
  PROVE  /\ PresenceTypeOK'
         /\ InSession' = InSession \ S
         /\ account' = account
  BY DEF PresenceTypeOK, drop, InSession, Present

(* What leaves the bans alone and admits nobody leaves nobody banned in.   *)
LEMMA NobodyEnters ==
  ASSUME ModerationInv, PresenceTypeOK', UNCHANGED <<bans, clock, altered>>,
         InSession' \subseteq InSession, \A c \in InSession' : account'[c] = account[c]
  PROVE  ModerationInv'
<1>1. ModerationTypeOK'
  BY DEF ModerationInv, ModerationTypeOK
<1>2. ASSUME NEW c \in InSession' PROVE activeBans(account[c])' \subseteq altered'
  BY <1>2 DEF ModerationInv, BannedStayOut, activeBans, Active
<1> QED
  BY <1>1, <1>2 DEF ModerationInv, BannedStayOut

(* A ban drops every client that it concerns. *)
LEMMA BanAllSafe ==
  ASSUME ModerationInv, NEW m \in Clients, NEW t \in Clients, NEW d \in Int, BanAll(m, t, d)
  PROVE  ModerationInv'
<1> DEFINE ban == [subject |-> account[t], issuedOn |-> clock, duration |-> d,
                   revoked |-> FALSE]
<1>1. /\ t \in Present /\ account[t] # Guest
      /\ bans' = Append(bans, ban)
      /\ drop(clientsByUserId(account[t]))
      /\ UNCHANGED <<clock, altered>>
  BY DEF BanAll, addBan, Companions, isGuest
<1>2. account[t] \in Accounts
  BY <1>1 DEF ModerationInv, ModerationTypeOK, PresenceTypeOK, Present
<1>3. bans \in Seq(Record) /\ clock \in Nat /\ altered \subseteq DOMAIN bans
  BY DEF ModerationInv, ModerationTypeOK, Record
<1>4. ban \in Record
  BY <1>2, <1>3 DEF Record
<1> HIDE DEF ban
<1>5. /\ bans' \in Seq(Record) /\ DOMAIN bans \subseteq DOMAIN bans'
      /\ DOMAIN bans' = DOMAIN bans \cup {Len(bans) + 1}
      /\ \A i \in DOMAIN bans : bans'[i] = bans[i]
      /\ bans'[Len(bans) + 1] = ban
  BY <1>1, <1>3, <1>4
<1>6. PresenceTypeOK
  BY DEF ModerationInv, ModerationTypeOK
<1>7. clientsByUserId(account[t]) \in SUBSET Present
  BY DEF clientsByUserId
<1>8. /\ PresenceTypeOK' /\ account' = account
      /\ InSession' = InSession \ clientsByUserId(account[t])
  BY <1>1, <1>6, <1>7, Dropped
<1>9. ModerationTypeOK'
  BY <1>1, <1>3, <1>5, <1>8 DEF ModerationTypeOK, Record
<1>10. ASSUME NEW c \in InSession', NEW i \in activeBans(account[c])'
       PROVE  i \in altered'
  <2>1. c \in InSession /\ account'[c] = account[c] /\ account[c] # account[t]
    BY <1>8, <1>10 DEF InSession, clientsByUserId
  <2>2. i \in DOMAIN bans' /\ bans'[i].subject = account'[c] /\ Active(bans'[i])
    BY <1>1, <1>10 DEF activeBans, Active
  <2>3. i # Len(bans) + 1
    BY <1>5, <2>1, <2>2 DEF ban
  <2>4. i \in DOMAIN bans /\ bans'[i] = bans[i]
    BY <1>5, <2>2, <2>3
  <2>5. i \in activeBans(account[c])
    BY <2>1, <2>2, <2>4 DEF activeBans
  <2> QED
    BY <1>1, <2>1, <2>5 DEF ModerationInv, BannedStayOut
<1> QED
  BY <1>9, <1>10 DEF ModerationInv, BannedStayOut

(* Bans that are changed one at a time. *)
LEMMA BanChanged ==
  ASSUME ModerationInv, NEW i \in DOMAIN bans, NEW b \in Record,
         b.subject = bans[i].subject, b.issuedOn = bans[i].issuedOn,
         bans' = [bans EXCEPT ![i] = b],
         altered \subseteq altered', altered' \subseteq altered \cup {i},
         Active(b) => i \in altered' \/ Active(bans[i]),
         UNCHANGED <<presence, clock>>
  PROVE  ModerationInv'
<1>1. bans \in Seq(Record)
  BY DEF ModerationInv, ModerationTypeOK, Record
<1>2. /\ bans' \in Seq(Record) /\ DOMAIN bans' = DOMAIN bans
      /\ bans'[i] = b /\ \A j \in DOMAIN bans : j # i => bans'[j] = bans[j]
  BY <1>1
<1>3. PresenceTypeOK' /\ InSession' = InSession /\ account' = account
  BY DEF ModerationInv, ModerationTypeOK, presence, PresenceTypeOK, InSession, Present
<1>4. ModerationTypeOK'
  BY <1>2, <1>3 DEF ModerationInv, ModerationTypeOK, Record
<1>5. ASSUME NEW c \in InSession', NEW j \in activeBans(account[c])'
      PROVE  j \in altered'
  <2>1. j \in DOMAIN bans /\ bans'[j].subject = account[c] /\ Active(bans'[j])
    BY <1>2, <1>3, <1>5 DEF activeBans, Active
  <2>2. CASE j = i
    <3>1. i \in altered' \/ i \in activeBans(account[c])
      BY <1>2, <2>1, <2>2 DEF activeBans
    <3> QED
      BY <1>3, <2>2, <3>1 DEF ModerationInv, BannedStayOut
  <2>3. CASE j # i
    <3>1. j \in activeBans(account[c])
      BY <1>2, <2>1, <2>3 DEF activeBans
    <3> QED
      BY <1>3, <3>1 DEF ModerationInv, BannedStayOut
  <2> QED
    BY <2>2, <2>3
<1> QED
  BY <1>4, <1>5 DEF ModerationInv, BannedStayOut

LEMMA ModerationInvNext ==
  ModerationInv /\ [ModerationNext]_moderationVars => ModerationInv'
<1> SUFFICES ASSUME ModerationInv, [ModerationNext]_moderationVars PROVE ModerationInv'
  OBVIOUS
<1>0. /\ PresenceTypeOK /\ bans \in Seq(Record) /\ clock \in Nat
      /\ altered \subseteq DOMAIN bans
  BY DEF ModerationInv, ModerationTypeOK, Record
<1>1. ASSUME NEW S \in SUBSET Present, drop(S), UNCHANGED <<bans, clock, altered>>
      PROVE  ModerationInv'
  BY <1>0, <1>1, Dropped, NobodyEnters
<1>2. ASSUME NEW m \in Clients, NEW t \in Clients, Kick(m, t) PROVE ModerationInv'
  <2>1. Companions(t) \in SUBSET Present
    BY <1>2 DEF Kick, Companions, clientsByUserId
  <2> QED
    BY <1>1, <1>2, <2>1 DEF Kick
<1>3. ASSUME NEW m \in Clients, NEW t \in Clients, NEW d \in CommandDurations, Ban(m, t, d)
      PROVE  ModerationInv'
  <2>1. d \in Int
    BY ModerationConstants DEF CommandDurations
  <2> QED
    BY <1>3, <2>1, BanAllSafe DEF Ban
<1>4. ASSUME NEW m \in Clients, NEW t \in Clients, NEW isKick \in BOOLEAN,
             NEW d \in BanDurations, ModAction(m, t, isKick, d)
      PROVE  ModerationInv'
  <2>1. CASE isKick
    BY <1>2, <1>4, <2>1 DEF ModAction
  <2>2. CASE ~isKick
    <3>1. BanAll(m, t, PermanentBan) \/ BanAll(m, t, d)
      BY <1>4, <2>2 DEF ModAction
    <3>2. PermanentBan \in Int /\ d \in Int
      BY ModerationConstants
    <3> QED
      BY <3>1, <3>2, BanAllSafe
  <2> QED
    BY <2>1, <2>2
<1>5. ASSUME NEW m \in Clients, NEW t \in Clients, KickUid(m, t) PROVE ModerationInv'
  <2>1. {t} \in SUBSET Present
    BY <1>5 DEF KickUid
  <2> QED
    BY <1>1, <1>5, <2>1 DEF KickUid
<1>6. ASSUME NEW m \in Clients, KickOther(m) PROVE ModerationInv'
  <2>1. clientsByUserId(account[m]) \ {m} \in SUBSET Present
    BY DEF clientsByUserId
  <2> QED
    BY <1>1, <1>6, <2>1 DEF KickOther
<1>7. ASSUME NEW m \in Clients, NEW i \in DOMAIN bans, UnBan(m, i) PROVE ModerationInv'
  <2> DEFINE b == [bans[i] EXCEPT !.revoked = TRUE]
  <2>1. bans[i] \in Record
    BY <1>0
  <2>2. b \in Record /\ b.subject = bans[i].subject /\ b.issuedOn = bans[i].issuedOn
        /\ b.revoked = TRUE
    BY <2>1 DEF Record
  <2>3. bans' = [bans EXCEPT ![i] = b] /\ UNCHANGED <<presence, clock, altered>>
    BY <1>7 DEF UnBan, revokeBan
  <2> HIDE DEF b
  <2>4. ~Active(b)
    BY <2>2 DEF Active
  <2> QED
    BY <2>2, <2>3, <2>4, BanChanged
<1>8. ASSUME NEW m \in Clients, NEW i \in DOMAIN bans, NEW d \in CommandDurations,
             UpdateBan(m, i, d)
      PROVE  ModerationInv'
  <2> DEFINE b == [bans[i] EXCEPT !.duration = d]
  <2>1. bans[i] \in Record
    BY <1>0
  <2>2. d \in Int
    BY ModerationConstants DEF CommandDurations
  <2>3. b \in Record /\ b.subject = bans[i].subject /\ b.issuedOn = bans[i].issuedOn
    BY <2>1, <2>2 DEF Record
  <2>4. bans' = [bans EXCEPT ![i] = b] /\ altered' = altered \cup {i}
        /\ UNCHANGED <<presence, clock>>
    BY <1>8 DEF UpdateBan, setBanDuration
  <2> HIDE DEF b
  <2> QED
    BY <2>3, <2>4, BanChanged
<1>9. ASSUME NEW c \in Clients, NEW u \in Accounts \cup {Guest}, admitPlayer(c, u)
      PROVE  ModerationInv'
  <2>1. /\ account[c] = Nobody /\ account' = [account EXCEPT ![c] = u]
        /\ UNCHANGED <<expired, bans, clock, altered>>
        /\ u = Guest \/ activeBans(u) = {}
    BY <1>9 DEF admitPlayer, Enters
  <2>2. PresenceTypeOK'
    BY <1>0, <2>1, PresenceConstants DEF PresenceTypeOK, Present
  <2>3. ModerationTypeOK'
    BY <1>0, <2>1, <2>2 DEF ModerationTypeOK, Record
  <2>4. ASSUME NEW d \in InSession', NEW i \in activeBans(account[d])'
        PROVE  i \in altered'
    <3>1. i \in activeBans(account'[d])
      BY <2>1, <2>4 DEF activeBans, Active
    <3>2. CASE d = c
      <4>1. account'[d] = u
        BY <1>0, <2>1, <3>2 DEF PresenceTypeOK
      <4>2. u = Guest
        BY <2>1, <3>1, <4>1
      <4>3. bans[i] \in Record /\ bans[i].subject = Guest
        BY <1>0, <3>1, <4>1, <4>2 DEF activeBans
      <4> QED
        BY <4>3, PresenceConstants DEF Record
    <3>3. CASE d # c
      <4>1. d \in InSession /\ account'[d] = account[d]
        BY <1>0, <2>1, <2>4, <3>3 DEF InSession, Present, PresenceTypeOK
      <4> QED
        BY <2>1, <3>1, <4>1 DEF ModerationInv, BannedStayOut
    <3> QED
      BY <3>2, <3>3
  <2> QED
    BY <2>3, <2>4 DEF ModerationInv, BannedStayOut
<1>10. ASSUME NEW c \in Clients, EndSession(c) PROVE ModerationInv'
  <2>1. {c} \in SUBSET Present
    BY <1>10 DEF EndSession, InSession
  <2> QED
    BY <1>1, <1>10, <2>1 DEF EndSession
<1>11. ASSUME NEW c \in Clients, Removed(c) PROVE ModerationInv'
  <2>1. /\ c \in expired /\ account' = [account EXCEPT ![c] = Nobody]
        /\ expired' = expired \ {c} /\ UNCHANGED <<bans, clock, altered>>
    BY <1>11 DEF Removed, Removal
  <2>2. PresenceTypeOK' /\ InSession' \subseteq InSession
        /\ \A d \in InSession' : account'[d] = account[d]
    BY <1>0, <2>1 DEF PresenceTypeOK, InSession, Present
  <2> QED
    BY <2>1, <2>2, NobodyEnters
<1>12. CASE TimePasses
  <2>1. clock' = clock + 1 /\ UNCHANGED <<account, expired, bans, altered>>
    BY <1>12 DEF TimePasses, presence
  <2>2. ModerationTypeOK'
    BY <1>0, <2>1 DEF ModerationTypeOK, Record, PresenceTypeOK, Present
  <2>3. ASSUME NEW c \in InSession', NEW i \in activeBans(account[c])'
        PROVE  i \in altered'
    <3>1. c \in InSession
      BY <2>1, <2>3 DEF InSession, Present
    <3>2. /\ i \in DOMAIN bans /\ bans[i].subject = account[c] /\ ~bans[i].revoked
          /\ bans[i].issuedOn + bans[i].duration > clock'
      BY <2>1, <2>3 DEF activeBans, Active
    <3>3. bans[i] \in Record
      BY <1>0, <3>2
    <3>4. bans[i].issuedOn \in Int /\ bans[i].duration \in Int
      BY <3>3 DEF Record
    <3>5. bans[i].issuedOn + bans[i].duration > clock
      BY <1>0, <2>1, <3>2, <3>4
    <3>6. i \in activeBans(account[c])
      BY <3>2, <3>5 DEF activeBans, Active
    <3> QED
      BY <2>1, <3>1, <3>6 DEF ModerationInv, BannedStayOut
  <2> QED
    BY <2>2, <2>3 DEF ModerationInv, BannedStayOut
<1>13. CASE StartAnew
  <2>1. PresenceTypeOK' /\ InSession' = {} /\ UNCHANGED <<bans, clock, altered>>
    BY <1>13 DEF StartAnew, ProgramEnds, PresenceTypeOK, InSession, Present
  <2> QED
    BY <2>1, NobodyEnters
<1>14. CASE UNCHANGED moderationVars
  <2>1. PresenceTypeOK' /\ InSession' = InSession /\ account' = account
        /\ UNCHANGED <<bans, clock, altered>>
    BY <1>0, <1>14 DEF moderationVars, presence, PresenceTypeOK, InSession, Present
  <2> QED
    BY <2>1, NobodyEnters
<1> QED
  BY <1>2, <1>3, <1>4, <1>5, <1>6, <1>7, <1>8, <1>9, <1>10, <1>11, <1>12, <1>13, <1>14
     DEF ModerationNext

LEMMA EmptyBans == <<>> \in Seq(Record) /\ DOMAIN <<>> = {}
  OBVIOUS

(* A ban names an account, was issued at some time and may be revoked. *)
THEOREM ModerationTypes == ModerationSpec => []ModerationTypeOK
<1>1. ModerationInv => ModerationTypeOK
  BY DEF ModerationInv
<1> QED
  BY <1>1, ModerationInvInit, ModerationInvNext, PTL DEF ModerationSpec

(* However bans are issued, revoked, altered and expire, and whoever comes *)
(* and goes, over any restart: nobody banned is in session but for a ban   *)
(* that was given another duration.                                        *)
THEOREM ModerationHolds == ModerationSpec => []BannedStayOut
<1>1. ModerationInv => BannedStayOut
  BY DEF ModerationInv
<1> QED
  BY <1>1, ModerationInvInit, ModerationInvNext, PTL DEF ModerationSpec
-----------------------------------------------------------------------------
(* Roles *)

RightsInv == RightsTypeOK /\ RoleAsRecorded

LEMMA RightsInvInit == RightsInit => RightsInv
<1> SUFFICES ASSUME RightsInit PROVE RightsInv
  OBVIOUS
<1>1. PresenceTypeOK /\ Present = {}
  BY DEF RightsInit, PresenceInit, PresenceTypeOK, Present
<1>2. RightsTypeOK
  BY <1>1, RightsConstants DEF RightsInit, RightsTypeOK
<1> QED
  BY <1>1, <1>2 DEF RightsInv, RoleAsRecorded

LEMMA RightsInvNext == RightsInv /\ [RightsNext]_rightsVars => RightsInv'
<1> SUFFICES ASSUME RightsInv, [RightsNext]_rightsVars PROVE RightsInv'
  OBVIOUS
<1>0. /\ PresenceTypeOK
      /\ recorded \in [Accounts -> RoleNames \cup {NoRole}]
      /\ superUserIds \subseteq Accounts
      /\ role \in [Clients -> RoleNames \cup {NoRole}]
      /\ stale \subseteq Present
      /\ \A c \in Present \ stale : role[c] = FirstRole(account[c], TRUE)
  BY DEF RightsInv, RightsTypeOK, RoleAsRecorded
<1>1. \A c \in Present : account[c] \in Accounts \cup {Guest}
  BY <1>0 DEF PresenceTypeOK, Present
<1>2. "SUPER" \in RoleNames
  BY RightsConstants
<1>3. ASSUME NEW c \in Clients, NEW u \in Accounts \cup {Guest}, NEW read \in BOOLEAN,
             beginSession(c, u, read)
      PROVE  RightsInv'
  <2>1. /\ account[c] = Nobody /\ account' = [account EXCEPT ![c] = u] /\ expired' = expired
        /\ role' = [role EXCEPT ![c] = FirstRole(u, read)]
        /\ stale' = IF read THEN stale ELSE stale \cup {c}
        /\ UNCHANGED <<recorded, superUserIds>>
    BY <1>3 DEF beginSession, Enters, config
  <2>2. FirstRole(u, read) \in RoleNames \cup {NoRole}
    BY <1>0, <1>2 DEF FirstRole, roleOf
  <2>3. PresenceTypeOK' /\ Present' = Present \cup {c}
    BY <1>0, <2>1, PresenceConstants DEF PresenceTypeOK, Present
  <2>4. RightsTypeOK'
    BY <1>0, <2>1, <2>2, <2>3 DEF RightsTypeOK
  <2>5. ASSUME NEW d \in Present' \ stale' PROVE role'[d] = FirstRole(account[d], TRUE)'
    <3>1. FirstRole(account[d], TRUE)' = FirstRole(account'[d], TRUE)
      BY <2>1 DEF FirstRole, roleOf
    <3>2. CASE d = c
      <4>1. account'[d] = u /\ role'[d] = FirstRole(u, read)
        BY <1>0, <2>1, <3>2 DEF PresenceTypeOK
      <4>2. read = TRUE
        BY <2>1, <2>5, <3>2
      <4> QED
        BY <3>1, <4>1, <4>2
    <3>3. CASE d # c
      <4>1. d \in Present \ stale /\ account'[d] = account[d] /\ role'[d] = role[d]
        BY <1>0, <2>1, <2>3, <2>5, <3>3 DEF PresenceTypeOK, Present
      <4> QED
        BY <1>0, <3>1, <4>1
    <3> QED
      BY <3>2, <3>3
  <2> QED
    BY <2>4, <2>5 DEF RightsInv, RoleAsRecorded
<1>4. ASSUME NEW c \in Clients, LeaveSession(c) PROVE RightsInv'
  <2>1. /\ c \in Present /\ account' = account /\ expired' = expired \cup {c}
        /\ UNCHANGED <<recorded, superUserIds, role, stale>>
    BY <1>4 DEF LeaveSession, drop, config, InSession
  <2>2. PresenceTypeOK' /\ Present' = Present
    BY <1>0, <2>1 DEF PresenceTypeOK, Present
  <2>3. RightsTypeOK'
    BY <1>0, <2>1, <2>2 DEF RightsTypeOK
  <2> QED
    BY <1>0, <2>1, <2>2, <2>3 DEF RightsInv, RoleAsRecorded, FirstRole, roleOf
<1>5. ASSUME NEW c \in Clients, Deregister(c) PROVE RightsInv'
  <2>1. /\ c \in expired /\ account' = [account EXCEPT ![c] = Nobody]
        /\ expired' = expired \ {c}
        /\ role' = [role EXCEPT ![c] = NoRole] /\ stale' = stale \ {c}
        /\ UNCHANGED <<recorded, superUserIds>>
    BY <1>5 DEF Deregister, Removal, config
  <2>2. PresenceTypeOK' /\ Present' = Present \ {c}
    BY <1>0, <2>1 DEF PresenceTypeOK, Present
  <2>3. RightsTypeOK'
    BY <1>0, <2>1, <2>2 DEF RightsTypeOK
  <2>4. ASSUME NEW d \in Present' \ stale' PROVE role'[d] = FirstRole(account[d], TRUE)'
    <3>1. d \in Present \ stale /\ account'[d] = account[d] /\ role'[d] = role[d]
      BY <1>0, <2>1, <2>2, <2>4 DEF PresenceTypeOK, Present
    <3>2. FirstRole(account[d], TRUE)' = FirstRole(account'[d], TRUE)
      BY <2>1 DEF FirstRole, roleOf
    <3> QED
      BY <1>0, <3>1, <3>2
  <2> QED
    BY <2>3, <2>4 DEF RightsInv, RoleAsRecorded
<1>6. ASSUME NEW t \in Clients, NEW n \in RoleNames \cup {NoRole},
             t \in Present, ~isGuest(t), account[t] \notin superUserIds,
             recorded' = [recorded EXCEPT ![account[t]] = n], applyRole(t, n)
      PROVE  RightsInv'
  <2>1. account[t] \in Accounts
    BY <1>1, <1>6 DEF isGuest
  <2>2. /\ role' = [c \in Clients |-> IF c \in clientsByUserId(account[t]) THEN n ELSE role[c]]
        /\ stale' = stale \ clientsByUserId(account[t])
        /\ UNCHANGED <<account, expired, superUserIds>>
    BY <1>6 DEF applyRole, Affected, config, presence
  <2>3. PresenceTypeOK' /\ Present' = Present
    BY <1>0, <2>2 DEF PresenceTypeOK, Present
  <2>4. RightsTypeOK'
    BY <1>0, <1>6, <2>1, <2>2, <2>3 DEF RightsTypeOK
  <2>5. ASSUME NEW d \in Present' \ stale' PROVE role'[d] = FirstRole(account[d], TRUE)'
    <3>1. d \in Present /\ d \in Clients
      BY <2>3, <2>5 DEF Present
    <3>2. CASE account[d] = account[t]
      <4>1. role'[d] = n
        BY <2>2, <3>1, <3>2 DEF clientsByUserId
      <4>2. recorded'[account[t]] = n
        BY <1>0, <1>6, <2>1
      <4> QED
        BY <1>6, <2>1, <2>2, <3>2, <4>1, <4>2 DEF FirstRole, roleOf
    <3>3. CASE account[d] # account[t]
      <4>1. d \notin clientsByUserId(account[t])
        BY <3>3 DEF clientsByUserId
      <4>2. role'[d] = role[d] /\ d \in Present \ stale
        BY <2>2, <2>5, <3>1, <4>1
      <4>3. account[d] \in Accounts => recorded'[account[d]] = recorded[account[d]]
        BY <1>0, <1>6, <3>3
      <4> QED
        BY <1>0, <2>2, <4>2, <4>3 DEF FirstRole, roleOf
    <3> QED
      BY <3>2, <3>3
  <2> QED
    BY <2>4, <2>5 DEF RightsInv, RoleAsRecorded
<1>7. ASSUME NEW m \in Clients, NEW word \in Words, NEW t \in Clients, NEW n \in RoleNames,
             SetPerms(m, word, t, n)
      PROVE  RightsInv'
  BY <1>6, <1>7 DEF SetPerms, setRole
<1>8. ASSUME NEW m \in Clients, NEW word \in Words, NEW t \in Clients, RemovePerms(m, word, t)
      PROVE  RightsInv'
  BY <1>6, <1>8 DEF RemovePerms, clearRecordedRole
<1>9. ASSUME NEW m \in Clients, NEW word \in Words, Reload(m, word) PROVE RightsInv'
  <2>1. /\ superUserIds' \in SuperUserIds
        /\ stale' = stale \cup {c \in Present :
                                  account[c] \in (superUserIds \ superUserIds')
                                                    \cup (superUserIds' \ superUserIds)}
        /\ UNCHANGED <<account, expired, recorded, role>>
    BY <1>9 DEF Reload, presence
  <2>2. PresenceTypeOK' /\ Present' = Present
    BY <1>0, <2>1 DEF PresenceTypeOK, Present
  <2>3. RightsTypeOK'
    BY <1>0, <2>1, <2>2, RightsConstants DEF RightsTypeOK
  <2>4. ASSUME NEW d \in Present' \ stale' PROVE role'[d] = FirstRole(account[d], TRUE)'
    <3>1. /\ d \in Present \ stale
          /\ account[d] \in superUserIds' <=> account[d] \in superUserIds
      BY <2>1, <2>2, <2>4
    <3> QED
      BY <1>0, <2>1, <3>1 DEF FirstRole, roleOf
  <2> QED
    BY <2>3, <2>4 DEF RightsInv, RoleAsRecorded
<1>10. CASE StartProgram
  <2>1. /\ superUserIds' \in SuperUserIds /\ role' = [c \in Clients |-> NoRole]
        /\ stale' = {} /\ UNCHANGED recorded
        /\ account' = [c \in Clients |-> Nobody] /\ expired' = {}
    BY <1>10 DEF StartProgram, ProgramEnds
  <2>2. PresenceTypeOK' /\ Present' = {}
    BY <2>1 DEF PresenceTypeOK, Present
  <2>3. RightsTypeOK'
    BY <1>0, <2>1, <2>2, RightsConstants DEF RightsTypeOK
  <2> QED
    BY <2>2, <2>3 DEF RightsInv, RoleAsRecorded
<1>11. CASE UNCHANGED rightsVars
  <2>1. UNCHANGED <<account, expired, recorded, superUserIds, role, stale>>
    BY <1>11 DEF rightsVars, presence, config
  <2>2. PresenceTypeOK' /\ Present' = Present
    BY <1>0, <2>1 DEF PresenceTypeOK, Present
  <2>3. RightsTypeOK'
    BY <1>0, <2>1, <2>2 DEF RightsTypeOK
  <2> QED
    BY <1>0, <2>1, <2>2, <2>3 DEF RightsInv, RoleAsRecorded, FirstRole, roleOf
<1> QED
  BY <1>3, <1>4, <1>5, <1>7, <1>8, <1>9, <1>10, <1>11 DEF RightsNext

(* Every client of a user has the role of the user, whatever the files say *)
(* and whoever changes them, for any number of clients, users and roles.   *)
THEOREM RightsAsRecorded == RightsSpec => []RoleAsRecorded
<1>1. RightsInv => RoleAsRecorded
  BY DEF RightsInv
<1> QED
  BY <1>1, RightsInvInit, RightsInvNext, PTL DEF RightsSpec

(* Recorded and given roles are roles or none, whatever the files say. *)
THEOREM RightsTypes == RightsSpec => []RightsTypeOK
<1>1. RightsInv => RightsTypeOK
  BY DEF RightsInv
<1> QED
  BY <1>1, RightsInvInit, RightsInvNext, PTL DEF RightsSpec

(* What is in force is what the files said when they were read last. *)
FilesInForce == roles = loadRoles(roleFile) /\ extensions = loadExtensions(extensionFile)

LEMMA ConfigKept == FilesInForce /\ UNCHANGED config => FilesInForce'
<1> SUFFICES ASSUME FilesInForce, UNCHANGED config PROVE FilesInForce'
  OBVIOUS
<1>1. UNCHANGED <<roles, extensions, roleFile, extensionFile>>
  BY DEF config
<1>2. loadRoles(roleFile)' = loadRoles(roleFile')
  BY DEF loadRoles, Entered, Repeated, Granted, ReadOnly, Everything
<1>3. loadExtensions(extensionFile)' = loadExtensions(extensionFile')
  BY DEF loadExtensions, Accepted, Aliases, Everything
<1> QED
  BY <1>1, <1>2, <1>3 DEF FilesInForce

LEMMA FilesInForceNext == FilesInForce /\ [RightsNext]_rightsVars => FilesInForce'
<1> SUFFICES ASSUME FilesInForce, [RightsNext]_rightsVars PROVE FilesInForce'
  OBVIOUS
<1>1. ASSUME UNCHANGED config PROVE FilesInForce'
  BY <1>1, ConfigKept
<1>2. ASSUME loadRoleFile, loadExtensionFile PROVE FilesInForce'
  <2>1. roles' = loadRoles(roleFile')
    BY <1>2 DEF loadRoleFile, FilesInForce
  <2>2. extensions' = loadExtensions(extensionFile')
    BY <1>2 DEF loadExtensionFile, FilesInForce
  <2> QED
    BY <2>1, <2>2 DEF FilesInForce
<1>3. CASE \E c \in Clients, u \in Accounts \cup {Guest}, read \in BOOLEAN :
             beginSession(c, u, read)
  BY <1>1, <1>3 DEF beginSession
<1>4. CASE \E c \in Clients : LeaveSession(c) \/ Deregister(c)
  BY <1>1, <1>4 DEF LeaveSession, Deregister
<1>5. CASE \E m \in Clients, word \in Words, t \in Clients :
             RemovePerms(m, word, t) \/ \E n \in RoleNames : SetPerms(m, word, t, n)
  BY <1>1, <1>5 DEF SetPerms, RemovePerms, applyRole
<1>6. CASE \E m \in Clients, word \in Words : Reload(m, word)
  BY <1>2, <1>6 DEF Reload
<1>7. CASE StartProgram
  BY <1>2, <1>7 DEF StartProgram
<1>8. CASE UNCHANGED rightsVars
  BY <1>1, <1>8 DEF rightsVars
<1> QED
  BY <1>3, <1>4, <1>5, <1>6, <1>7, <1>8 DEF RightsNext

(* What a client may run is a matter of its role and of what was read. *)
LEMMA RunsAsBefore ==
  ASSUME NEW c \in InSession, c \in InSession', role'[c] = role[c],
         roles' = roles, extensions' = extensions
  PROVE  MayRun(c)' = MayRun(c)
<1>1. \A word : Answering(word)' = Answering(word)
  BY DEF Answering
<1>2. \A word : Target(word)' = Target(word)
  BY <1>1 DEF Target, First
<1>3. \A word : Required(word)' = Required(word)
  BY <1>1, <1>2 DEF Required, First
<1>4. \A p : checkPermission(c, p)' = checkPermission(c, p)
  BY DEF checkPermission, getRoleById, Everything
<1>5. \A word, cmd : handleCommand(c, word, cmd)' = handleCommand(c, word, cmd)
  BY <1>2, <1>3, <1>4 DEF handleCommand
<1> QED
  BY <1>5 DEF MayRun

ChangeByRecord ==
  \A c \in InSession \cap InSession' :
    \/ account[c] \in Accounts /\ recorded'[account[c]] # recorded[account[c]]
    \/ c \in stale \ stale'
    \/ roleFile' # roleFile
    \/ extensionFile' # extensionFile
    \/ MayRun(c)' = MayRun(c)

LEMMA ChangeByRecordNext ==
  RightsInv /\ FilesInForce /\ FilesInForce' /\ RightsNext => ChangeByRecord
<1> SUFFICES ASSUME RightsInv, FilesInForce, FilesInForce', RightsNext,
                    NEW c \in InSession, c \in InSession', MayRun(c)' # MayRun(c),
                    roleFile' = roleFile, extensionFile' = extensionFile
             PROVE  \/ account[c] \in Accounts /\ recorded'[account[c]] # recorded[account[c]]
                    \/ c \in stale \ stale'
  BY DEF ChangeByRecord
<1>0. /\ c \in Present /\ c \in Clients /\ c \notin expired /\ account[c] # Nobody
      /\ role \in [Clients -> RoleNames \cup {NoRole}]
      /\ account \in [Clients -> Accounts \cup {Guest, Nobody}]
      /\ c \notin stale => role[c] = FirstRole(account[c], TRUE)
  BY DEF InSession, Present, RightsInv, RightsTypeOK, PresenceTypeOK, RoleAsRecorded
<1>1. roles' = roles /\ extensions' = extensions
  <2>1. loadRoles(roleFile)' = loadRoles(roleFile)
    BY DEF loadRoles, Entered, Repeated, Granted, ReadOnly, Everything
  <2>2. loadExtensions(extensionFile)' = loadExtensions(extensionFile)
    BY DEF loadExtensions, Accepted, Aliases, Everything
  <2> QED
    BY <2>1, <2>2 DEF FilesInForce
<1>2. role'[c] # role[c]
  BY <1>1, RunsAsBefore
<1>3. ASSUME NEW t \in Clients, NEW n, ~isGuest(t), t \in Present,
             account[t] \notin superUserIds,
             recorded' = [recorded EXCEPT ![account[t]] = n], applyRole(t, n)
      PROVE  \/ account[c] \in Accounts /\ recorded'[account[c]] # recorded[account[c]]
             \/ c \in stale \ stale'
  <2>1. account[t] \in Accounts
    BY <1>0, <1>3 DEF isGuest, Present
  <2>2. c \in clientsByUserId(account[t]) /\ role'[c] = n
    BY <1>0, <1>2, <1>3 DEF applyRole, Affected
  <2>3. account[c] = account[t] /\ stale' = stale \ clientsByUserId(account[t])
    BY <1>3, <2>2 DEF clientsByUserId, applyRole
  <2>4. CASE c \in stale
    BY <2>2, <2>3, <2>4
  <2>5. CASE c \notin stale
    <3>1. role[c] = recorded[account[c]]
      BY <1>0, <1>3, <2>1, <2>3, <2>5 DEF FirstRole, roleOf
    <3>2. recorded'[account[c]] = n
      BY <1>3, <2>1, <2>3 DEF RightsInv, RightsTypeOK
    <3> QED
      BY <1>2, <2>1, <2>2, <2>3, <3>1, <3>2
  <2> QED
    BY <2>4, <2>5
<1>4. CASE \E m \in Clients, word \in Words, t \in Clients, n \in RoleNames :
             SetPerms(m, word, t, n)
  BY <1>3, <1>4 DEF SetPerms, setRole
<1>5. CASE \E m \in Clients, word \in Words, t \in Clients : RemovePerms(m, word, t)
  BY <1>3, <1>5 DEF RemovePerms, clearRecordedRole
<1>6. ASSUME NEW d \in Clients, NEW u \in Accounts \cup {Guest}, NEW read \in BOOLEAN,
             beginSession(d, u, read)
      PROVE  FALSE
  <2>1. d # c
    BY <1>0, <1>6 DEF beginSession, Enters
  <2> QED
    BY <1>0, <1>2, <1>6, <2>1 DEF beginSession
<1>7. ASSUME NEW d \in Clients, LeaveSession(d) \/ Deregister(d) PROVE FALSE
  <2>1. CASE LeaveSession(d)
    BY <1>2, <2>1 DEF LeaveSession
  <2>2. CASE Deregister(d)
    <3>1. d # c
      BY <1>0, <2>2 DEF Deregister, Removal
    <3> QED
      BY <1>0, <1>2, <2>2, <3>1 DEF Deregister
  <2> QED
    BY <1>7, <2>1, <2>2
<1>8. CASE \E m \in Clients, word \in Words : Reload(m, word)
  BY <1>2, <1>8 DEF Reload
<1>9. CASE StartProgram
  BY <1>9 DEF StartProgram, ProgramEnds, InSession, Present
<1> QED
  BY <1>4, <1>5, <1>6, <1>7, <1>8, <1>9 DEF RightsNext

(* Nobody's rights change behind the record: not through a file that could *)
(* not be read, nor through what is done to others.                        *)
THEOREM RightsByRecord == RightsSpec => RightsChangeByRecord
<1>1. RightsInit => FilesInForce
  BY DEF RightsInit, FilesInForce
<1>2. RightsInv /\ FilesInForce /\ FilesInForce' /\ [RightsNext]_rightsVars
        => [ChangeByRecord]_rightsVars
  BY ChangeByRecordNext
<1>3. [][ChangeByRecord]_rightsVars => RightsChangeByRecord
  BY PTL DEF ChangeByRecord, RightsChangeByRecord
<1> QED
  BY <1>1, <1>2, <1>3, FilesInForceNext, RightsInvInit, RightsInvNext, PTL DEF RightsSpec
=============================================================================
