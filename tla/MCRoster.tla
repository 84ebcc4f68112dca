------------------------------- MODULE MCRoster -------------------------------
(* Roster for TLC: one moderator, otherwise ordinary players.              *)
EXTENDS Roster, TLC

CONSTANTS Moderator, Powers

MCPermissions == [c \in Client |-> IF c = Moderator THEN Powers ELSE {}]

Symmetry == Permutations(Client \ {Moderator}) \cup Permutations(Character)
=============================================================================
