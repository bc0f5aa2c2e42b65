---------------------------- MODULE MCKCPHandshake ----------------------------
(* KCPHandshake for TLC: clients are interchangeable. *)
EXTENDS KCPHandshake, TLC

Symmetry == Permutations(Clients)
=============================================================================
