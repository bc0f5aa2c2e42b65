----------------------------- MODULE MCTCPClient -----------------------------
(* TCPClient for TLC: session ids are interchangeable. *)
EXTENDS TCPClientInv, TLC

Symmetry == Permutations(SessionIDs)
=============================================================================
