------------------------------ MODULE MCSession ------------------------------
(* Session for TLC: identifiers are model values, interchangeable where no *)
(* constant tells them apart.                                              *)
EXTENDS Session, TLC

Symmetry == Permutations(Conn) \cup Permutations(Client) \cup Permutations(Token)
=============================================================================
