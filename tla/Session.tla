------------------------------- MODULE Session -------------------------------
(***************************************************************************)
(* Connections, the handshake, and the sessions that survive them.         *)
(*                                                                         *)
(* A websocket is accepted into the ConnectionPool, says Hello, claims a   *)
(* session, is admitted by the badge gatekeeper, and is then the socket of *)
(* a client: a new one, or one it recovers with a session token.  A client *)
(* whose socket is lost waits, Inactive, until it is recovered or its      *)
(* session timer expires it; an expired client is unregistered by a queued *)
(* call.  Every action is one callback of the Qt event loop.               *)
(*                                                                         *)
(* External and assumed (theory::CargoSocket): a socket the server closed  *)
(* hands over no more packets, and reports its disconnection once, later.  *)
(* Whether a disconnection counts as graceful is the socket's choice.      *)
(*                                                                         *)
(* Identifiers stand for objects and are reused when nothing refers to     *)
(* them any more: a Conn is a Connection with its socket, a Client an      *)
(* AOClient, a Token the key of a session token.                           *)
(***************************************************************************)
EXTENDS Integers, FiniteSets

CONSTANTS
  Conn, Client, Address, Token, User,
  NoConn, NoClient, NoToken, NoAddress,
  Guest,             \* theory::NoUserId, the user of every guest
  Loopback,          \* the addresses the multiclient limit ignores
  Capacity,          \* AOClientRegistry::_capacity
  Headroom,          \* ConfigManager::connectionHeadroom()
  MultiClientLimit   \* ConfigManager::multiClientLimit()

ASSUME SessionConstants ==
  /\ NoConn \notin Conn /\ NoClient \notin Client
  /\ NoToken \notin Token /\ NoAddress \notin Address
  /\ Guest \in User
  /\ Loopback \subseteq Address
  /\ Capacity \in Nat /\ Headroom \in Nat /\ MultiClientLimit \in Nat

VARIABLES
  stage,        \* the routes a Connection listens to; "Idle" is finished
  sock,         \* its CargoSocket
  addr,         \* Connection::_address
  claim,        \* Connection::_sessionToken
  link,         \* Connection::_client, a raw pointer
  status,       \* AOClient::m_session_status; "Absent" is unregistered
  user,         \* AOClient::userId
  ip,           \* AOClient::m_remote_ip
  socket,       \* AOClient::m_socket; NoConn when it reported its end
  timer,        \* AOClient::m_session_timer->isActive()
  sessions,     \* SessionRegistry::_sessions
  playerCount   \* Server::m_player_count

connVars == <<stage, sock, addr, claim, link>>
clientVars == <<status, user, ip, socket, timer>>
vars == <<stage, sock, addr, claim, link, status, user, ip, socket, timer,
          sessions, playerCount>>

Stage == {"Idle", "Hello", "Claim", "Badge", "Session"}
Handshake == {"Hello", "Claim", "Badge"}
Status == {"Absent", "Active", "Inactive", "Expired"}

Registered == {c \in Client : status[c] # "Absent"}
Live == {c \in Client : status[c] \in {"Active", "Inactive"}}

-----------------------------------------------------------------------------
(* Helpers *)

PoolCount == Cardinality({k \in Conn : stage[k] # "Idle"})

CountByAddress(a) == Cardinality({c \in Registered : ip[c] = a})

AtAddressLimit(a) ==
  a \notin Loopback /\ CountByAddress(a) + 1 > MultiClientLimit

(* An off-by-one in the capacity test; the definition after it is the code. *)
OneTooMany == Cardinality(Registered) <= Capacity

(* AOClientRegistry::create refuses a client beyond the capacity. *)
HasRoom == Cardinality(Registered) < Capacity

(* A closed socket lives on only while a client still waits for its end.   *)
Closed(S) ==
  [k \in Conn |->
     IF k \notin S \/ sock[k] = "None" THEN sock[k]
     ELSE IF \E c \in Registered : socket[c] = k THEN "Closing" ELSE "None"]

(* A generated token is one that nobody holds. *)
FreshToken(t) ==
  sessions[t] = NoClient /\ \A k \in Conn : claim[k] # t

FreshClient(c) ==
  status[c] = "Absent" /\ \A k \in Conn : link[k] # c

(* AOClient::markExpired for every client of S; Roster models what it does *)
(* in the areas.                                                           *)
MarkExpired(S) ==
  /\ status' = [c \in Client |-> IF c \in S \cap Live THEN "Expired" ELSE status[c]]
  /\ timer' = [c \in Client |-> timer[c] /\ c \notin S]

(* Mistake: the session timer is never started. *)
WithoutTimer(S, timeoutOn) ==
  /\ status' = [c \in Client |-> IF c \in S /\ status[c] = "Active"
                                 THEN "Inactive" ELSE status[c]]
  /\ UNCHANGED timer

(* AOClient::markInactive for every client of S.  Whether the configuration *)
(* keeps lost sessions is read each time: it may have been reloaded.       *)
MarkInactive(S, timeoutOn) ==
  IF timeoutOn
  THEN LET lost == {c \in S : status[c] = "Active"} IN
       /\ status' = [c \in Client |-> IF c \in lost THEN "Inactive" ELSE status[c]]
       /\ timer' = [c \in Client |-> timer[c] \/ c \in lost]
  ELSE MarkExpired({c \in S : status[c] = "Active"})

(* Connection::finish for every connection of S: its deadline stops and    *)
(* the pool forgets it.                                                    *)
Finish(S) ==
  /\ stage' = [k \in Conn |-> IF k \in S THEN "Idle" ELSE stage[k]]
  /\ addr' = [k \in Conn |-> IF k \in S THEN NoAddress ELSE addr[k]]
  /\ claim' = [k \in Conn |-> IF k \in S THEN NoToken ELSE claim[k]]
  /\ link' = [k \in Conn |-> IF k \in S THEN NoClient ELSE link[k]]

-----------------------------------------------------------------------------
Init ==
  /\ stage = [k \in Conn |-> "Idle"]
  /\ sock = [k \in Conn |-> "None"]
  /\ addr = [k \in Conn |-> NoAddress]
  /\ claim = [k \in Conn |-> NoToken]
  /\ link = [k \in Conn |-> NoClient]
  /\ status = [c \in Client |-> "Absent"]
  /\ user = [c \in Client |-> Guest]
  /\ ip = [c \in Client |-> NoAddress]
  /\ socket = [c \in Client |-> NoConn]
  /\ timer = [c \in Client |-> FALSE]
  /\ sessions = [t \in Token |-> NoClient]
  /\ playerCount = 0

(* Server::acceptConnection.  A refused peer leaves no trace, so refusing  *)
(* (an address ban too) is not a step.                                     *)
Accept(k, a) ==
  /\ stage[k] = "Idle" /\ sock[k] = "None"
  /\ PoolCount < Capacity + Headroom
  /\ ~AtAddressLimit(a)
  /\ stage' = [stage EXCEPT ![k] = "Hello"]
  /\ sock' = [sock EXCEPT ![k] = "Open"]
  /\ addr' = [addr EXCEPT ![k] = a]
  /\ UNCHANGED <<claim, link, clientVars, sessions, playerCount>>

Hello(k) ==
  /\ stage[k] = "Hello"
  /\ stage' = [stage EXCEPT ![k] = "Claim"]
  /\ UNCHANGED <<sock, addr, claim, link, clientVars, sessions, playerCount>>

(* The token presented is one in use, or anything else (NoToken): none, a  *)
(* rotated one, an invented one.                                           *)
SessionClaim(k, t) ==
  /\ stage[k] = "Claim"
  /\ t = NoToken \/ (t \in Token /\ sessions[t] # NoClient)
  /\ stage' = [stage EXCEPT ![k] = "Badge"]
  /\ claim' = [claim EXCEPT ![k] = t]
  /\ UNCHANGED <<sock, addr, link, clientVars, sessions, playerCount>>

(* Mistake: recovery forgets to test for an expired client. *)
EvenExpired(k, u) ==
  /\ claim[k] # NoToken
  /\ sessions[claim[k]] # NoClient
  /\ user[sessions[claim[k]]] = u

(* SessionRegistry::join finds the claimed session. *)
Recoverable(k, u) ==
  /\ claim[k] # NoToken
  /\ sessions[claim[k]] # NoClient
  /\ user[sessions[claim[k]]] = u
  /\ status[sessions[claim[k]]] # "Expired"

(* Connection::finishHandshake, common to both admissions. *)
FinishHandshake(k, c) ==
  /\ stage' = [stage EXCEPT ![k] = "Session"]
  /\ claim' = [claim EXCEPT ![k] = NoToken]
  /\ link' = [link EXCEPT ![k] = c]
  /\ socket' = [socket EXCEPT ![c] = k]
  /\ status' = [status EXCEPT ![c] = "Active"]
  /\ timer' = [timer EXCEPT ![c] = FALSE]
  /\ ip' = [ip EXCEPT ![c] = addr[k]]
  /\ UNCHANGED addr

(* Mistake: the socket that lost the session stays connected. *)
KeepReplaced(c) == UNCHANGED sock

(* A socket that was replaced and is still connected is closed. *)
CloseReplaced(c) ==
  sock' = [k \in Conn |->
             IF k = socket[c] /\ sock[k] = "Open" THEN "Closing" ELSE sock[k]]

(* The gatekeeper admits user u, who gets the claimed session back under a *)
(* new token.                                                              *)
AdmitRecovered(k, u, t) ==
  /\ stage[k] = "Badge"
  /\ Recoverable(k, u)
  /\ FreshToken(t)
  /\ LET c == sessions[claim[k]] IN
     /\ FinishHandshake(k, c)
     /\ CloseReplaced(c)
     /\ sessions' = [sessions EXCEPT ![claim[k]] = NoClient, ![t] = c]
  /\ UNCHANGED <<user, playerCount>>

(* The gatekeeper admits user u, who gets a new session. *)
AdmitFresh(k, u, c, t) ==
  /\ stage[k] = "Badge"
  /\ ~Recoverable(k, u)
  /\ ~AtAddressLimit(addr[k])
  /\ HasRoom
  /\ FreshClient(c) /\ FreshToken(t)
  /\ FinishHandshake(k, c)
  /\ user' = [user EXCEPT ![c] = u]
  /\ sessions' = [sessions EXCEPT ![t] = c]
  /\ playerCount' = playerCount + 1
  /\ UNCHANGED sock

(* Connection::drop: a malformed packet or one the stage does not expect, a *)
(* refused badge, a banned user, no room for a new session.                 *)
DropConnection(k) ==
  /\ stage[k] # "Idle" /\ sock[k] = "Open"
  /\ Finish({k})
  /\ sock' = Closed({k})
  /\ UNCHANGED <<clientVars, sessions, playerCount>>

(* Mistake: the deadline stops at the Hello. *)
HelloTimeout(k) ==
  /\ stage[k] = "Hello"
  /\ DropConnection(k)

(* The deadline runs from the accept to the session claim. *)
HandshakeTimeout(k) ==
  /\ stage[k] \in {"Hello", "Claim"}
  /\ DropConnection(k)

(* CargoSocket::disconnectedFromPeer: the connection finishes, then the    *)
(* client whose socket it is reacts.  The peer may vanish at any time, a   *)
(* socket the server closed reports it later.                              *)
Disconnected(k, graceful, timeoutOn) ==
  /\ sock[k] # "None"
  /\ Finish({k})
  /\ sock' = [sock EXCEPT ![k] = "None"]
  /\ LET holders == {c \in Registered : socket[c] = k} IN
     /\ IF graceful THEN MarkExpired(holders) ELSE MarkInactive(holders, timeoutOn)
     /\ socket' = [c \in Client |-> IF c \in holders THEN NoConn ELSE socket[c]]
  /\ UNCHANGED <<user, ip, sessions, playerCount>>

(* AOClient::m_session_timer *)
SessionTimeout(c) ==
  /\ timer[c]
  /\ MarkExpired({c})
  /\ UNCHANGED <<connVars, user, ip, socket, sessions, playerCount>>

(* AOClient::drop for every client of S: one client over the packet limit, *)
(* or the clients of a kicked or banned user or address.                   *)
DropClients(S) ==
  /\ S # {} /\ S \subseteq Registered
  /\ MarkExpired(S)
  /\ sock' = [k \in Conn |->
                IF sock[k] = "Open" /\ \E c \in S : socket[c] = k
                THEN "Closing" ELSE sock[k]]
  /\ UNCHANGED <<stage, addr, claim, link, user, ip, socket, sessions, playerCount>>

(* Server::wipeAllTokens: the pool is cleared, then every client dropped.  *)
WipeTokens ==
  /\ Registered # {}
  /\ Finish(Conn)
  /\ sock' = Closed(Conn)
  /\ MarkExpired(Registered)
  /\ UNCHANGED <<user, ip, socket, sessions, playerCount>>

(* Mistakes: tokens that outlive their client, an entry that is not erased. *)
ForgetNone(c) == sessions
ForgetBadly(c) == [t \in Token |-> IF sessions[t] = c THEN NoToken ELSE sessions[t]]

(* SessionRegistry::remove erases every token of the client. *)
Forget(c) == [t \in Token |-> IF sessions[t] = c THEN NoClient ELSE sessions[t]]

(* What the registries do for an expired client. *)
Unregister(c) ==
  /\ status[c] = "Expired"
  /\ status' = [status EXCEPT ![c] = "Absent"]
  /\ sessions' = Forget(c)
  /\ playerCount' = playerCount - 1
  /\ user' = [user EXCEPT ![c] = Guest]
  /\ ip' = [ip EXCEPT ![c] = NoAddress]
  /\ socket' = [socket EXCEPT ![c] = NoConn]
  /\ sock' = [k \in Conn |->
                IF k = socket[c] /\ stage[k] = "Idle" THEN "None" ELSE sock[k]]
  /\ UNCHANGED <<stage, addr, claim, link, timer>>

(* Mistake: only clients that still have a socket are removed. *)
OnlyWithSocket(c) == socket[c] # NoConn /\ Unregister(c)

(* SessionRegistry::remove, queued when the client expired. *)
Remove(c) == Unregister(c)

Next ==
  \/ \E k \in Conn :
       \/ \E a \in Address : Accept(k, a)
       \/ Hello(k)
       \/ \E t \in Token \cup {NoToken} : SessionClaim(k, t)
       \/ \E u \in User, t \in Token : AdmitRecovered(k, u, t)
       \/ \E u \in User, c \in Client, t \in Token : AdmitFresh(k, u, c, t)
       \/ DropConnection(k)
       \/ HandshakeTimeout(k)
       \/ \E graceful, timeoutOn \in BOOLEAN : Disconnected(k, graceful, timeoutOn)
  \/ \E c \in Client : SessionTimeout(c) \/ Remove(c)
  \/ \E S \in SUBSET Client : DropClients(S)
  \/ WipeTokens

Spec == Init /\ [][Next]_vars

(* Timers fire, queued calls run, and a closed socket reports its end.     *)
(* Nothing makes a peer speak or leave.                                    *)
Fairness ==
  /\ \A k \in Conn :
       /\ WF_vars(HandshakeTimeout(k))
       /\ WF_vars(/\ sock[k] = "Closing"
                  /\ \E graceful, timeoutOn \in BOOLEAN :
                       Disconnected(k, graceful, timeoutOn))
  /\ \A c \in Client : WF_vars(SessionTimeout(c)) /\ WF_vars(Remove(c))

FairSpec == Spec /\ Fairness

-----------------------------------------------------------------------------
(* Properties *)

(* Every variable holds a value of its kind. *)
TypeOK ==
  /\ stage \in [Conn -> Stage]
  /\ sock \in [Conn -> {"None", "Open", "Closing"}]
  /\ addr \in [Conn -> Address \cup {NoAddress}]
  /\ claim \in [Conn -> Token \cup {NoToken}]
  /\ link \in [Conn -> Client \cup {NoClient}]
  /\ status \in [Client -> Status]
  /\ user \in [Client -> User]
  /\ ip \in [Client -> Address \cup {NoAddress}]
  /\ socket \in [Client -> Conn \cup {NoConn}]
  /\ timer \in [Client -> BOOLEAN]
  /\ sessions \in [Token -> Client \cup {NoClient}]
  /\ playerCount \in Int

(* A connection that may still deliver packets drives a client that is     *)
(* alive and whose socket it is: the raw pointer Connection::_client never *)
(* dangles while it is used, and after a recovery the connection that lost *)
(* the session can no longer act for it.                                   *)
OneDriver ==
  \A k \in Conn :
    stage[k] = "Session" /\ sock[k] = "Open" =>
      link[k] \in Live /\ socket[link[k]] = k

(* No client is forgotten: an active one has a socket that is still going  *)
(* to report its end, an inactive one has its timer running.               *)
Attended ==
  \A c \in Live :
    IF status[c] = "Active"
    THEN socket[c] \in Conn /\ sock[socket[c]] # "None" /\ ~timer[c]
    ELSE timer[c]

(* Session tokens and registered clients correspond one to one, so that a  *)
(* token that was rotated or whose client is gone opens nothing, and a     *)
(* client that may be recovered can be.                                    *)
OneTokenEach ==
  /\ \A t \in Token : sessions[t] # NoClient => sessions[t] \in Registered
  /\ \A c \in Registered : \E t \in Token : sessions[t] = c
  /\ \A s, t \in Token : sessions[s] = sessions[t] /\ s # t => sessions[t] = NoClient

(* The player counter follows the registry, which never outgrows its       *)
(* capacity, recoveries and removals that are still queued included.       *)
CountWithinCapacity ==
  playerCount = Cardinality(Registered) /\ playerCount <= Capacity

(* config.ini: "The maximum number of connections that will be accepted    *)
(* from the same IP address."                                              *)
AddressLimit ==
  \A a \in Address \ Loopback : CountByAddress(a) <= MultiClientLimit

(* A player enters, expires once, is never revived and leaves: no stale    *)
(* token, late answer or repeated kick brings an expired client back.      *)
Lifecycle ==
  INSTANCE ClientLifecycle WITH
    life <- [c \in Client |->
               IF status[c] \in {"Active", "Inactive"} THEN "Live" ELSE status[c]]

LifecycleSafety == Lifecycle!Spec

(* Every client that expired is unregistered, whatever happens meanwhile.  *)
LifecycleLiveness == Lifecycle!FairSpec

(* A peer that stalls before it claimed a session cannot keep its place in *)
(* the pool.                                                               *)
HandshakeEnds ==
  \A k \in Conn : stage[k] \in {"Hello", "Claim"} ~> stage[k] \notin {"Hello", "Claim"}

(* A client that lost its socket is recovered or gives up its place.       *)
LostClientResolves ==
  \A c \in Client : status[c] = "Inactive" ~> status[c] # "Inactive"
=============================================================================
