----------------------------- MODULE MCTestimony -----------------------------
(* Testimony for TLC. *)
EXTENDS Testimony
=============================================================================
