--------------------------- MODULE ClientLifecycle ---------------------------
(***************************************************************************)
(* What the server promises about the life of a player: an identifier is   *)
(* handed out to a live client, a live client expires exactly once, an     *)
(* expired client never comes back, and it is eventually unregistered.     *)
(* Session (connections, tokens, timers), Roster (areas) and Evidence      *)
(* implement this specification: each maps its own state to "life".        *)
(***************************************************************************)

CONSTANT Client

VARIABLE life

Phase == {"Absent", "Live", "Expired"}

Init == life = [c \in Client |-> "Absent"]

Enter(c) ==
  /\ life[c] = "Absent"
  /\ life' = [life EXCEPT ![c] = "Live"]

(* One handler may end several sessions at once (/kick of a user, wiping   *)
(* every token).                                                           *)
Expire(S) ==
  /\ \A c \in S : life[c] = "Live"
  /\ life' = [c \in Client |-> IF c \in S THEN "Expired" ELSE life[c]]

Leave(c) ==
  /\ life[c] = "Expired"
  /\ life' = [life EXCEPT ![c] = "Absent"]

Next ==
  \/ \E c \in Client : Enter(c) \/ Leave(c)
  \/ \E S \in SUBSET Client : Expire(S)

Spec == Init /\ [][Next]_life

FairSpec == Spec /\ \A c \in Client : WF_life(Leave(c))

=============================================================================
