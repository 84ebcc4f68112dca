------------------------------ MODULE MCObserver ------------------------------
(* Observer for TLC: players, items and the areas other than the default   *)
(* one are interchangeable.                                                *)
EXTENDS Observer, TLC

Symmetry == Permutations(Client) \cup Permutations(Item)
              \cup Permutations(Area \ {DefaultArea})
=============================================================================
