---------------------------- MODULE SessionProofs ----------------------------
(***************************************************************************)
(* Connections and sessions, for any number of peers, clients and tokens   *)
(* and every setting of the limits.                                        *)
(***************************************************************************)
EXTENDS Session, FiniteSetTheorems, TLAPS

-----------------------------------------------------------------------------
(* The inductive invariant.  OneDriver and Attended look at a client from  *)
(* its connection and at a connection from its client; they hold because   *)
(* the two references agree for as long as the socket is open.             *)

(* A connection still in the handshake has an open socket, one with a      *)
(* session has a socket that has not reported its end.                     *)
StageHasSocket ==
  \A k \in Conn : /\ stage[k] \in Handshake => sock[k] = "Open"
                  /\ stage[k] = "Session" => sock[k] # "None"

(* The socket a registered client holds is alive, and while it is open its *)
(* connection has a session and points back at the client.                 *)
SocketPointsBack ==
  \A c \in Client : socket[c] \in Conn =>
    /\ c \in Registered
    /\ sock[socket[c]] # "None"
    /\ sock[socket[c]] = "Open" => /\ stage[socket[c]] = "Session"
                                   /\ link[socket[c]] = c

(* No two clients hold the same socket, not even a closed one.             *)
SocketHeldOnce ==
  \A c, d \in Client : socket[c] \in Conn /\ socket[c] = socket[d] => c = d

(* The session timer runs for inactive clients, and they hold no socket.   *)
TimerMeansInactive ==
  \A c \in Client : /\ timer[c] => status[c] = "Inactive"
                    /\ status[c] = "Inactive" => socket[c] = NoConn

IndInv ==
  /\ TypeOK
  /\ StageHasSocket
  /\ SocketPointsBack
  /\ SocketHeldOnce
  /\ TimerMeansInactive
  /\ OneDriver
  /\ Attended

LEMMA IndInvInit == Init => IndInv
  BY SessionConstants
     DEF Init, IndInv, TypeOK, StageHasSocket, SocketPointsBack, SocketHeldOnce,
         TimerMeansInactive, OneDriver, Attended, Live, Registered, Stage, Status,
         Handshake

LEMMA IndInvNext == IndInv /\ [Next]_vars => IndInv'
<1> SUFFICES ASSUME IndInv, [Next]_vars PROVE IndInv'
  OBVIOUS
<1> USE SessionConstants DEF IndInv, TypeOK, StageHasSocket, SocketPointsBack,
        SocketHeldOnce, TimerMeansInactive, OneDriver, Attended, Live, Registered,
        Stage, Status, Handshake, clientVars, connVars
<1>1. ASSUME NEW k \in Conn, NEW a \in Address, Accept(k, a) PROVE IndInv'
  BY <1>1 DEF Accept
<1>2. ASSUME NEW k \in Conn, Hello(k) PROVE IndInv'
  BY <1>2 DEF Hello
<1>3. ASSUME NEW k \in Conn, NEW t \in Token \cup {NoToken}, SessionClaim(k, t) PROVE IndInv'
  BY <1>3 DEF SessionClaim
<1>4. ASSUME NEW k \in Conn, NEW u \in User, NEW t \in Token, AdmitRecovered(k, u, t)
      PROVE  IndInv'
  <2> DEFINE c == sessions[claim[k]]
  <2>1. /\ claim[k] \in Token /\ c \in Client /\ status[c] # "Expired"
        /\ stage[k] = "Badge" /\ sock[k] = "Open"
    BY <1>4 DEF AdmitRecovered, Recoverable
  <2>2. FinishHandshake(k, c) /\ CloseReplaced(c) /\ UNCHANGED <<user, playerCount>>
    BY <1>4 DEF AdmitRecovered
  <2>3. sessions' \in [Token -> Client \cup {NoClient}]
    BY <1>4, <2>1 DEF AdmitRecovered
  <2>4. \A d \in Client : socket[d] # k
    BY <2>1
  <2> HIDE DEF c
  <2>5. Live' = Live \cup {c} /\ Registered' = Registered \cup {c}
    BY <2>1, <2>2 DEF FinishHandshake
  <2>6. TypeOK' /\ StageHasSocket'
    BY <2>1, <2>2, <2>3, <2>4 DEF FinishHandshake, CloseReplaced
  <2>7. SocketPointsBack' /\ SocketHeldOnce'
    BY <2>1, <2>2, <2>4, <2>5 DEF FinishHandshake, CloseReplaced
  <2>8. TimerMeansInactive'
    BY <2>1, <2>2 DEF FinishHandshake
  <2>9. OneDriver'
    BY <2>1, <2>2, <2>4, <2>5 DEF FinishHandshake, CloseReplaced
  <2>10. Attended'
    BY <2>1, <2>2, <2>4 DEF FinishHandshake, CloseReplaced
  <2> QED
    BY <2>6, <2>7, <2>8, <2>9, <2>10
<1>5. ASSUME NEW k \in Conn, NEW u \in User, NEW c \in Client, NEW t \in Token,
             AdmitFresh(k, u, c, t)
      PROVE  IndInv'
  BY <1>5 DEF AdmitFresh, HasRoom, FinishHandshake, FreshClient
<1>6. ASSUME NEW k \in Conn, DropConnection(k) PROVE IndInv'
  BY <1>6 DEF DropConnection, Finish, Closed
<1>7. ASSUME NEW k \in Conn, NEW graceful \in BOOLEAN, NEW timeoutOn \in BOOLEAN,
             Disconnected(k, graceful, timeoutOn)
      PROVE  IndInv'
  <2> DEFINE holders == {c \in Registered : socket[c] = k}
  <2>1. /\ Finish({k})
        /\ sock' = [sock EXCEPT ![k] = "None"]
        /\ socket' = [c \in Client |-> IF c \in holders THEN NoConn ELSE socket[c]]
        /\ UNCHANGED <<user, ip, sessions, playerCount>>
    BY <1>7 DEF Disconnected
  <2>2. \/ MarkExpired(holders)
        \/ MarkInactive(holders, timeoutOn)
    BY <1>7 DEF Disconnected
  <2>3. CASE MarkExpired(holders)
    BY <2>1, <2>3 DEF Finish, MarkExpired
  <2>4. CASE MarkInactive(holders, timeoutOn)
    <3> DEFINE lost == {c \in holders : status[c] = "Active"}
    <3>1. CASE timeoutOn
      <4>1. /\ status' = [c \in Client |-> IF c \in lost THEN "Inactive" ELSE status[c]]
            /\ timer' = [c \in Client |-> timer[c] \/ c \in lost]
        BY <2>4, <3>1 DEF MarkInactive
      <4>2. Live' = Live /\ Registered' = Registered
        BY <4>1
      <4>3. TypeOK' /\ StageHasSocket'
        BY <2>1, <4>1 DEF Finish
      <4>4. SocketPointsBack' /\ SocketHeldOnce'
        BY <2>1, <4>2 DEF Finish
      <4>5. TimerMeansInactive'
        BY <2>1, <4>1
      <4>6. OneDriver'
        BY <2>1, <4>2 DEF Finish
      <4>7. Attended'
        BY <2>1, <4>1
      <4> QED
        BY <4>3, <4>4, <4>5, <4>6, <4>7
    <3>2. CASE ~timeoutOn
      BY <2>1, <2>4, <3>2 DEF Finish, MarkInactive, MarkExpired
    <3> QED
      BY <3>1, <3>2
  <2> QED
    BY <2>2, <2>3, <2>4
<1>8. ASSUME NEW c \in Client, SessionTimeout(c) PROVE IndInv'
  <2>1. status[c] = "Inactive" /\ socket[c] = NoConn
    BY <1>8 DEF SessionTimeout
  <2>2. /\ status' = [d \in Client |-> IF d \in {c} \cap Live THEN "Expired" ELSE status[d]]
        /\ timer' = [d \in Client |-> timer[d] /\ d \notin {c}]
    BY <1>8 DEF SessionTimeout, MarkExpired
  <2>3. UNCHANGED <<stage, sock, addr, claim, link, user, ip, socket, sessions, playerCount>>
    BY <1>8 DEF SessionTimeout
  <2>4. Live' = Live \ {c} /\ Registered' = Registered
    BY <2>1, <2>2
  <2>5. TypeOK' /\ StageHasSocket' /\ SocketHeldOnce'
    BY <2>2, <2>3
  <2>6. TimerMeansInactive'
    BY <2>2, <2>3
  <2>7. Attended'
    BY <2>2, <2>3
  <2>8. OneDriver' /\ SocketPointsBack'
    BY <2>1, <2>3, <2>4
  <2> QED
    BY <2>5, <2>6, <2>7, <2>8
<1>9. ASSUME NEW c \in Client, Remove(c) PROVE IndInv'
  BY <1>9 DEF Remove, Unregister, Forget
<1>10. ASSUME NEW S \in SUBSET Client, DropClients(S) PROVE IndInv'
  <2>1. /\ UNCHANGED <<stage, addr, claim, link, user, ip, socket, sessions, playerCount>>
        /\ sock' = [k \in Conn |-> IF sock[k] = "Open" /\ \E c \in S : socket[c] = k
                                   THEN "Closing" ELSE sock[k]]
    BY <1>10 DEF DropClients
  <2>2. /\ status' = [c \in Client |-> IF c \in S \cap Live THEN "Expired" ELSE status[c]]
        /\ timer' = [c \in Client |-> timer[c] /\ c \notin S]
    BY <1>10 DEF DropClients, MarkExpired
  <2>3. Live' = Live \ S /\ Registered' = Registered
    BY <2>2
  <2>4. TypeOK' /\ StageHasSocket' /\ SocketHeldOnce'
    BY <2>1, <2>2
  <2>5. TimerMeansInactive' /\ Attended'
    BY <2>1, <2>2
  <2>6. SocketPointsBack'
    BY <2>1, <2>3
  <2>7. OneDriver'
    BY <2>1, <2>3
  <2> QED
    BY <2>4, <2>5, <2>6, <2>7
<1>11. CASE WipeTokens
  BY <1>11 DEF WipeTokens, Finish, Closed, MarkExpired
<1>12. CASE UNCHANGED vars
  BY <1>12 DEF vars
<1> HIDE DEF IndInv
<1> QED
  BY <1>1, <1>2, <1>3, <1>4, <1>5, <1>6, <1>7, <1>8, <1>9, <1>10, <1>11, <1>12
     DEF Next, HandshakeTimeout

LEMMA IndInvAlways == Spec => []IndInv
  BY IndInvInit, IndInvNext, PTL DEF Spec

(* The type invariant.                                                     *)
THEOREM SessionTypes == Spec => []TypeOK
<1>1. IndInv => TypeOK
  BY DEF IndInv
<1> QED
  BY <1>1, IndInvAlways, PTL

(* An open connection drives a live client that holds its socket.          *)
THEOREM SessionDrivers == Spec => []OneDriver
<1>1. IndInv => OneDriver
  BY DEF IndInv
<1> QED
  BY <1>1, IndInvAlways, PTL

(* Every live client is attended by a socket or by its timer.              *)
THEOREM SessionAttended == Spec => []Attended
<1>1. IndInv => Attended
  BY DEF IndInv
<1> QED
  BY <1>1, IndInvAlways, PTL

-----------------------------------------------------------------------------
(* Tokens *)

LEMMA OneTokenEachNext == TypeOK /\ OneTokenEach /\ [Next]_vars => OneTokenEach'
<1> SUFFICES ASSUME TypeOK, OneTokenEach, [Next]_vars PROVE OneTokenEach'
  OBVIOUS
<1> USE SessionConstants
<1>1. ASSUME UNCHANGED sessions, Registered' = Registered PROVE OneTokenEach'
  BY <1>1 DEF OneTokenEach
<1>2. ASSUME NEW S, MarkExpired(S) PROVE Registered' = Registered
  BY <1>2 DEF MarkExpired, Registered, Live, TypeOK, Status
<1>3. ASSUME NEW S, NEW timeoutOn, MarkInactive(S, timeoutOn) PROVE Registered' = Registered
  BY <1>2, <1>3 DEF MarkInactive, Registered, TypeOK, Status
<1>4. ASSUME NEW k \in Conn, NEW u \in User, NEW t \in Token, AdmitRecovered(k, u, t)
      PROVE  OneTokenEach'
  <2> DEFINE c == sessions[claim[k]]
  <2>1. claim[k] \in Token /\ c \in Client /\ sessions[t] = NoClient /\ t # claim[k]
    BY <1>4 DEF AdmitRecovered, Recoverable, FreshToken, TypeOK
  <2>2. c \in Registered
    BY <2>1 DEF OneTokenEach
  <2>3. Registered' = Registered
    BY <1>4, <2>2 DEF AdmitRecovered, FinishHandshake, Registered, TypeOK, Status
  <2>4. sessions' = [sessions EXCEPT ![claim[k]] = NoClient, ![t] = c]
    BY <1>4 DEF AdmitRecovered
  <2>5. \A s \in Token : sessions'[s] = IF s = t THEN c ELSE IF s = claim[k] THEN NoClient
                                        ELSE sessions[s]
    BY <2>1, <2>4 DEF TypeOK
  <2> QED
    BY <2>1, <2>2, <2>3, <2>5 DEF OneTokenEach
<1>5. ASSUME NEW k \in Conn, NEW u \in User, NEW c \in Client, NEW t \in Token,
             AdmitFresh(k, u, c, t)
      PROVE  OneTokenEach'
  <2>1. /\ sessions' = [sessions EXCEPT ![t] = c]
        /\ sessions[t] = NoClient /\ c \notin Registered
    BY <1>5 DEF AdmitFresh, FreshToken, FreshClient, Registered
  <2>2. Registered' = Registered \cup {c}
    BY <1>5 DEF AdmitFresh, FinishHandshake, Registered, TypeOK, Status
  <2>3. \A s \in Token : sessions[s] # c
    BY <2>1 DEF OneTokenEach
  <2>4. \A s \in Token : sessions'[s] = IF s = t THEN c ELSE sessions[s]
    BY <2>1 DEF TypeOK
  <2>5. c \in Registered'
    BY <2>2
  <2>6. \A d \in Registered' : \E s \in Token : sessions'[s] = d
    <3>1. TAKE d \in Registered'
    <3>2. CASE d = c
      BY <2>4, <3>2
    <3>3. CASE d # c
      <4>1. d \in Registered /\ d # NoClient
        BY <2>2, <3>3 DEF Registered
      <4> QED
        BY <2>1, <2>4, <4>1 DEF OneTokenEach
    <3> QED
      BY <3>2, <3>3
  <2> QED
    BY <2>1, <2>2, <2>3, <2>4, <2>5, <2>6 DEF OneTokenEach
<1>6. ASSUME NEW c \in Client, Remove(c) PROVE OneTokenEach'
  <2>1. Registered' = Registered \ {c}
    BY <1>6 DEF Remove, Unregister, Registered, TypeOK, Status
  <2> QED
    BY <1>6, <2>1 DEF Remove, Unregister, Forget, OneTokenEach, TypeOK
<1>7. ASSUME NEW k \in Conn,
             \/ \E a \in Address : Accept(k, a)
             \/ Hello(k)
             \/ \E t \in Token \cup {NoToken} : SessionClaim(k, t)
             \/ DropConnection(k)
             \/ \E graceful, timeoutOn \in BOOLEAN : Disconnected(k, graceful, timeoutOn)
      PROVE  OneTokenEach'
  <2>1. UNCHANGED sessions
    BY <1>7 DEF Accept, Hello, SessionClaim, DropConnection, Disconnected
  <2>2. Registered' = Registered
    <3>1. CASE UNCHANGED status
      BY <3>1 DEF Registered
    <3>2. CASE \E graceful, timeoutOn \in BOOLEAN : Disconnected(k, graceful, timeoutOn)
      <4> DEFINE holders == {c \in Registered : socket[c] = k}
      <4>1. PICK timeoutOn \in BOOLEAN : MarkExpired(holders) \/ MarkInactive(holders, timeoutOn)
        BY <3>2 DEF Disconnected
      <4> QED
        BY <1>2, <1>3, <4>1
    <3> QED
      BY <1>7, <3>1, <3>2 DEF Accept, Hello, SessionClaim, DropConnection, clientVars
  <2> QED
    BY <1>1, <2>1, <2>2
<1>8. ASSUME \/ \E c \in Client : SessionTimeout(c)
             \/ \E S \in SUBSET Client : DropClients(S)
             \/ WipeTokens
      PROVE  OneTokenEach'
  <2>1. UNCHANGED sessions /\ \E S : MarkExpired(S)
    BY <1>8 DEF SessionTimeout, DropClients, WipeTokens
  <2> QED
    BY <1>1, <1>2, <2>1
<1>9. CASE UNCHANGED vars
  BY <1>1, <1>9 DEF vars, Registered
<1> QED
  BY <1>4, <1>5, <1>6, <1>7, <1>8, <1>9 DEF Next, HandshakeTimeout

(* Session tokens and registered clients correspond one to one.            *)
THEOREM SessionTokens == Spec => []OneTokenEach
<1>1. Init => OneTokenEach
  BY SessionConstants DEF Init, OneTokenEach, Registered
<1>2. IndInv /\ OneTokenEach /\ [Next]_vars => OneTokenEach'
  BY OneTokenEachNext DEF IndInv
<1> QED
  BY <1>1, <1>2, IndInvInit, IndInvNext, PTL DEF Spec

-----------------------------------------------------------------------------
(* What a step does to the registered clients.  Every step is of one of    *)
(* four kinds: a client enters, is removed, some expire, or none of it.    *)

Enters(c) ==
  /\ status[c] = "Absent" /\ HasRoom
  /\ status' = [status EXCEPT ![c] = "Active"]
  /\ playerCount' = playerCount + 1

Expires(S) ==
  /\ status' = [c \in Client |-> IF c \in S \cap Live THEN "Expired" ELSE status[c]]
  /\ UNCHANGED playerCount

Leaves(c) ==
  /\ status[c] = "Expired"
  /\ status' = [status EXCEPT ![c] = "Absent"]
  /\ playerCount' = playerCount - 1

(* A client is lost or recovered, or keeps its status.                     *)
Stays ==
  /\ status' \in [Client -> Status]
  /\ \A c \in Client : \/ status'[c] = status[c]
                       \/ c \in Live /\ c \in Live'
  /\ UNCHANGED playerCount

LEMMA StepKinds ==
  ASSUME IndInv, OneTokenEach, [Next]_vars
  PROVE  \/ \E c \in Client : Leaves(c)
         \/ \E k \in Conn, u \in User, c \in Client, t \in Token :
              AdmitFresh(k, u, c, t) /\ Enters(c)
         \/ \E S : Expires(S)
         \/ Stays
<1> USE SessionConstants
<1>0. TypeOK
  BY DEF IndInv
<1>1. ASSUME NEW k \in Conn, NEW u \in User, NEW t \in Token, AdmitRecovered(k, u, t)
      PROVE  Stays
  <2> DEFINE c == sessions[claim[k]]
  <2>1. claim[k] \in Token /\ c \in Client /\ status[c] # "Expired"
    BY <1>0, <1>1 DEF AdmitRecovered, Recoverable, TypeOK
  <2>2. c \in Registered
    BY <1>1, <2>1 DEF OneTokenEach, AdmitRecovered, Recoverable
  <2>3. c \in Live
    BY <1>0, <2>1, <2>2 DEF Live, Registered, TypeOK, Status
  <2>4. status' = [status EXCEPT ![c] = "Active"] /\ UNCHANGED playerCount
    BY <1>1 DEF AdmitRecovered, FinishHandshake
  <2> QED
    BY <1>0, <2>1, <2>3, <2>4 DEF Stays, Live, TypeOK, Status
<1>2. ASSUME NEW k \in Conn, NEW u \in User, NEW c \in Client, NEW t \in Token,
             AdmitFresh(k, u, c, t)
      PROVE  Enters(c)
  BY <1>2 DEF AdmitFresh, FinishHandshake, FreshClient, Enters
<1>3. ASSUME NEW S, MarkExpired(S), UNCHANGED playerCount PROVE Expires(S)
  BY <1>3 DEF MarkExpired, Expires
<1>4. ASSUME NEW k \in Conn, NEW graceful \in BOOLEAN, NEW timeoutOn \in BOOLEAN,
             Disconnected(k, graceful, timeoutOn)
      PROVE  Stays \/ \E S : Expires(S)
  <2> DEFINE holders == {c \in Registered : socket[c] = k}
  <2>1. UNCHANGED playerCount /\ (MarkExpired(holders) \/ MarkInactive(holders, timeoutOn))
    BY <1>4 DEF Disconnected
  <2>2. CASE \E S : MarkExpired(S)
    BY <1>3, <2>1, <2>2
  <2>3. CASE MarkInactive(holders, timeoutOn) /\ timeoutOn
    BY <1>0, <2>1, <2>3 DEF MarkInactive, Stays, TypeOK, Status, Live
  <2> QED
    BY <2>1, <2>2, <2>3 DEF MarkInactive
<1>5. ASSUME \/ \E c \in Client : SessionTimeout(c)
             \/ \E S \in SUBSET Client : DropClients(S)
             \/ WipeTokens
      PROVE  \E S : Expires(S)
  BY <1>3, <1>5 DEF SessionTimeout, DropClients, WipeTokens
<1>6. ASSUME NEW c \in Client, Remove(c) PROVE Leaves(c)
  BY <1>6 DEF Remove, Unregister, Leaves
<1>7. ASSUME UNCHANGED <<status, playerCount>> PROVE Stays
  BY <1>0, <1>7 DEF Stays, TypeOK
<1>8. ASSUME NEW k \in Conn,
             \/ \E a \in Address : Accept(k, a)
             \/ Hello(k)
             \/ \E t \in Token \cup {NoToken} : SessionClaim(k, t)
             \/ DropConnection(k)
             \/ HandshakeTimeout(k)
      PROVE  UNCHANGED <<status, playerCount>>
  BY <1>8 DEF Accept, Hello, SessionClaim, DropConnection, HandshakeTimeout, clientVars
<1>9. CASE UNCHANGED vars
  BY <1>7, <1>9 DEF vars
<1> QED
  BY <1>1, <1>2, <1>4, <1>5, <1>6, <1>7, <1>8, <1>9 DEF Next

-----------------------------------------------------------------------------
(* Capacity *)

LEMMA CapacityNext ==
  ASSUME IndInv, OneTokenEach, IsFiniteSet(Registered), CountWithinCapacity, [Next]_vars
  PROVE  IsFiniteSet(Registered') /\ CountWithinCapacity'
<1> USE SessionConstants
<1>0. TypeOK /\ Cardinality(Registered) \in Nat
  BY FS_CardinalityType DEF IndInv
<1>1. ASSUME Registered' = Registered, UNCHANGED playerCount
      PROVE  IsFiniteSet(Registered') /\ CountWithinCapacity'
  BY <1>1 DEF CountWithinCapacity
<1>2. ASSUME NEW c \in Client, Enters(c)
      PROVE  IsFiniteSet(Registered') /\ CountWithinCapacity'
  <2>1. Registered' = Registered \cup {c} /\ c \notin Registered
    BY <1>0, <1>2 DEF Enters, Registered, TypeOK
  <2>2. IsFiniteSet(Registered') /\ Cardinality(Registered') = Cardinality(Registered) + 1
    BY <2>1, FS_AddElement
  <2> QED
    BY <1>0, <1>2, <2>2 DEF Enters, HasRoom, CountWithinCapacity
<1>3. ASSUME NEW c \in Client, Leaves(c)
      PROVE  IsFiniteSet(Registered') /\ CountWithinCapacity'
  <2>1. Registered' = Registered \ {c} /\ c \in Registered
    BY <1>0, <1>3 DEF Leaves, Registered, TypeOK
  <2>2. IsFiniteSet(Registered') /\ Cardinality(Registered') = Cardinality(Registered) - 1
    BY <2>1, FS_RemoveElement
  <2> QED
    BY <1>0, <1>3, <2>2 DEF Leaves, CountWithinCapacity
<1>4. ASSUME NEW S, Expires(S)
      PROVE  IsFiniteSet(Registered') /\ CountWithinCapacity'
  BY <1>0, <1>1, <1>4 DEF Expires, Registered, Live, TypeOK
<1>5. CASE Stays
  BY <1>0, <1>1, <1>5 DEF Stays, Registered, Live, TypeOK
<1> QED
  BY <1>2, <1>3, <1>4, <1>5, StepKinds

LEMMA CapacityAlways == Spec => [](IsFiniteSet(Registered) /\ CountWithinCapacity)
<1>1. Init => IsFiniteSet(Registered) /\ CountWithinCapacity
  <2> SUFFICES ASSUME Init PROVE IsFiniteSet(Registered) /\ CountWithinCapacity
    OBVIOUS
  <2>1. Registered = {} /\ playerCount = 0
    BY DEF Init, Registered
  <2> QED
    BY <2>1, FS_EmptySet, SessionConstants DEF CountWithinCapacity
<1>2. /\ IndInv /\ OneTokenEach /\ IsFiniteSet(Registered) /\ CountWithinCapacity
      /\ [Next]_vars
      => IsFiniteSet(Registered)' /\ CountWithinCapacity'
  BY CapacityNext
<1> QED
  BY <1>1, <1>2, IndInvAlways, SessionTokens, PTL DEF Spec

(* The player counter is the number of registered clients, which never     *)
(* exceeds the capacity: no assumption on how many may exist is needed.    *)
THEOREM SessionCapacity == Spec => []CountWithinCapacity
  BY CapacityAlways, PTL

-----------------------------------------------------------------------------
(* The limit per address *)

(* Nobody is registered but by an admission that gives a new session. *)
LEMMA OnlyFreshRegister ==
  ASSUME IndInv, OneTokenEach, [Next]_vars,
         ~\E k \in Conn, u \in User, c \in Client, t \in Token : AdmitFresh(k, u, c, t)
  PROVE  Registered' \subseteq Registered
<1>0. TypeOK
  BY DEF IndInv
<1>1. ASSUME NEW S, Expires(S) PROVE Registered' \subseteq Registered
  BY <1>0, <1>1 DEF Expires, Registered, Live, TypeOK
<1>2. ASSUME NEW c \in Client, Leaves(c) PROVE Registered' \subseteq Registered
  BY <1>0, <1>2 DEF Leaves, Registered, TypeOK
<1>3. CASE Stays
  BY <1>0, <1>3 DEF Stays, Registered, Live
<1> QED
  BY <1>1, <1>2, <1>3, StepKinds

(* A registered client keeps its address: no session is taken up elsewhere *)
(* than where it was left.                                                 *)
RecoveredAtHome ==
  \A c \in Client : c \in Registered /\ c \in Registered' => ip'[c] = ip[c]

(* The clients at an address are finitely many. *)
LEMMA FewerAtAddress ==
  ASSUME NEW S, IsFiniteSet(S), NEW T, T \subseteq S
  PROVE  Cardinality(T) \in Nat /\ Cardinality(S) \in Nat /\ Cardinality(T) <= Cardinality(S)
  BY FS_Subset, FS_CardinalityType

LEMMA AddressLimitNext ==
  ASSUME IndInv, OneTokenEach, IsFiniteSet(Registered), AddressLimit,
         [Next]_vars, [RecoveredAtHome]_vars
  PROVE  AddressLimit'
<1> DEFINE at(a) == {c \in Registered : ip[c] = a}
           atNext(a) == {c \in Registered' : ip'[c] = a}
<1>0. /\ TypeOK /\ MultiClientLimit \in Nat
      /\ \A a : IsFiniteSet(at(a)) /\ Cardinality(at(a)) \in Nat
  <2>1. \A a : at(a) \subseteq Registered
    OBVIOUS
  <2> HIDE DEF at
  <2> QED
    BY <2>1, FS_Subset, FS_CardinalityType, SessionConstants DEF IndInv
<1>1. \A a \in Address \ Loopback : Cardinality(at(a)) <= MultiClientLimit
  BY DEF AddressLimit, CountByAddress
<1>2. SUFFICES \A a \in Address \ Loopback : Cardinality(atNext(a)) <= MultiClientLimit
  BY DEF AddressLimit, CountByAddress
<1>3. ASSUME Registered' \subseteq Registered
      PROVE  \A a \in Address \ Loopback : Cardinality(atNext(a)) <= MultiClientLimit
  <2>1. \A a : atNext(a) \subseteq at(a)
    <3>1. CASE RecoveredAtHome
      BY <1>3, <3>1 DEF RecoveredAtHome, Registered
    <3>2. CASE UNCHANGED vars
      BY <3>2 DEF vars, Registered
    <3> QED
      BY <3>1, <3>2
  <2> HIDE DEF at, atNext
  <2>2. \A a : Cardinality(atNext(a)) \in Nat /\ Cardinality(atNext(a)) <= Cardinality(at(a))
    BY <1>0, <2>1, FewerAtAddress
  <2> QED
    BY <1>0, <1>1, <2>2
<1>4. ASSUME NEW k \in Conn, NEW u \in User, NEW c \in Client, NEW t \in Token,
             AdmitFresh(k, u, c, t)
      PROVE  \A a \in Address \ Loopback : Cardinality(atNext(a)) <= MultiClientLimit
  <2>1. /\ c \notin Registered /\ ~AtAddressLimit(addr[k])
        /\ Registered' = Registered \cup {c}
        /\ ip' = [ip EXCEPT ![c] = addr[k]]
    BY <1>0, <1>4 DEF AdmitFresh, FreshClient, FinishHandshake, Registered, TypeOK, Status
  <2>2. ASSUME NEW a \in Address \ Loopback PROVE Cardinality(atNext(a)) <= MultiClientLimit
    <3>1. CASE a = addr[k]
      <4>1. atNext(a) = at(a) \cup {c} /\ c \notin at(a)
        BY <1>0, <2>1, <3>1 DEF TypeOK, Registered
      <4>2. Cardinality(at(a)) + 1 <= MultiClientLimit
        <5>1. CountByAddress(a) = Cardinality(at(a))
          BY DEF CountByAddress
        <5> HIDE DEF at
        <5>2. ~(CountByAddress(a) + 1 > MultiClientLimit)
          BY <2>1, <3>1 DEF AtAddressLimit
        <5> QED
          BY <1>0, <5>1, <5>2
      <4> HIDE DEF at, atNext
      <4>3. Cardinality(atNext(a)) = Cardinality(at(a)) + 1
        BY <1>0, <4>1, FS_AddElement
      <4> QED
        BY <4>2, <4>3
    <3>2. CASE a # addr[k]
      <4>1. atNext(a) = at(a)
        BY <1>0, <2>1, <3>2 DEF TypeOK, Registered
      <4> HIDE DEF at, atNext
      <4> QED
        BY <1>1, <4>1
    <3> QED
      BY <3>1, <3>2
  <2> QED
    BY <2>2
<1>5. CASE ~\E k \in Conn, u \in User, c \in Client, t \in Token : AdmitFresh(k, u, c, t)
  <2>1. Registered' \subseteq Registered
    BY <1>5, OnlyFreshRegister
  <2> QED
    BY <1>3, <2>1
<1> QED
  BY <1>4, <1>5

(* The limit per address holds for as long as sessions are only recovered  *)
(* from the address they were lost at: a recovery, which the limit does    *)
(* not look at, is the only way over it.                                   *)
THEOREM SessionAddressLimit == Spec /\ [][RecoveredAtHome]_vars => []AddressLimit
<1>1. Init => AddressLimit
  <2> SUFFICES ASSUME Init, NEW a \in Address \ Loopback
               PROVE  CountByAddress(a) <= MultiClientLimit
    BY DEF AddressLimit
  <2>1. {c \in Registered : ip[c] = a} = {}
    BY DEF Init, Registered
  <2> QED
    BY <2>1, FS_EmptySet, SessionConstants DEF CountByAddress
<1>2. /\ IndInv /\ OneTokenEach /\ IsFiniteSet(Registered) /\ AddressLimit
      /\ [Next]_vars /\ [RecoveredAtHome]_vars
      => AddressLimit'
  BY AddressLimitNext
<1> QED
  BY <1>1, <1>2, IndInvAlways, SessionTokens, CapacityAlways, PTL DEF Spec

-----------------------------------------------------------------------------
(* Refinement *)

lifeOf ==
  [c \in Client |-> IF status[c] \in {"Active", "Inactive"} THEN "Live" ELSE status[c]]

LEMMA LifecycleStep ==
  ASSUME IndInv, OneTokenEach, [Next]_vars
  PROVE  [Lifecycle!Next]_lifeOf
<1>0. TypeOK
  BY DEF IndInv
<1>1. ASSUME NEW c \in Client, Enters(c) PROVE Lifecycle!Enter(c)
  BY <1>0, <1>1 DEF Enters, Lifecycle!Enter, TypeOK, Status
<1>2. ASSUME NEW c \in Client, Leaves(c) PROVE Lifecycle!Leave(c)
  BY <1>0, <1>2 DEF Leaves, Lifecycle!Leave, TypeOK, Status
<1>3. ASSUME NEW S, Expires(S) PROVE \E T \in SUBSET Client : Lifecycle!Expire(T)
  <2>1. S \cap Live \in SUBSET Client
    BY DEF Live
  <2>2. Lifecycle!Expire(S \cap Live)
    BY <1>0, <1>3 DEF Expires, Lifecycle!Expire, TypeOK, Status, Live
  <2> QED
    BY <2>1, <2>2 DEF Lifecycle!Expire
<1>4. ASSUME Stays PROVE lifeOf' = lifeOf
  BY <1>0, <1>4 DEF Stays, lifeOf, TypeOK, Status, Live
<1> QED
  BY <1>1, <1>2, <1>3, <1>4, StepKinds DEF Lifecycle!Next

(* Sessions implement the life of a player, for any number of them.        *)
THEOREM SessionImplementsLifecycle == Spec => LifecycleSafety
<1>1. Init => Lifecycle!Init
  BY DEF Init, Lifecycle!Init
<1>2. IndInv /\ OneTokenEach /\ [Next]_vars => [Lifecycle!Next]_lifeOf
  BY LifecycleStep
<1> QED
  BY <1>1, <1>2, IndInvAlways, SessionTokens, PTL
     DEF Spec, LifecycleSafety, Lifecycle!Spec, lifeOf
=============================================================================
