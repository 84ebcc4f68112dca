------------------------------- MODULE Presence -------------------------------
(***************************************************************************)
(* Clients by the account they belong to, as moderation sees them: who is  *)
(* in session, whom Server::getClientByID and getClientsByUserId still     *)
(* find, what dropping them does.  An expired client stays registered      *)
(* until a queued call removes it (Session has the details).               *)
(***************************************************************************)
EXTENDS Integers

CONSTANTS
  Clients,
  Accounts,      \* identifiers of registered users
  Guest,         \* theory::NoUserId
  Nobody         \* the client does not exist

ASSUME PresenceConstants ==
  /\ Guest \notin Accounts
  /\ Nobody \notin Accounts \cup {Guest}

VARIABLES
  account,       \* AOClient::userId
  expired        \* AOClient::m_session_status is Expired

presence == <<account, expired>>

Present == {c \in Clients : account[c] # Nobody}
InSession == Present \ expired

isGuest(c) == account[c] = Guest
clientsByUserId(u) == {c \in Present : account[c] = u}

Enters(c, u) ==
  /\ account[c] = Nobody
  /\ account' = [account EXCEPT ![c] = u]
  /\ UNCHANGED expired

drop(S) ==
  /\ expired' = expired \cup S
  /\ UNCHANGED account

Removal(c) ==
  /\ c \in expired
  /\ account' = [account EXCEPT ![c] = Nobody]
  /\ expired' = expired \ {c}

(* The program ends; no client outlives it. *)
ProgramEnds ==
  /\ account' = [c \in Clients |-> Nobody]
  /\ expired' = {}

PresenceInit ==
  /\ account = [c \in Clients |-> Nobody]
  /\ expired = {}

PresenceTypeOK ==
  /\ account \in [Clients -> Accounts \cup {Guest, Nobody}]
  /\ expired \subseteq Present
=============================================================================
