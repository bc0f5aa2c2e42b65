----------------------------- MODULE MCTCPServer -----------------------------
(* TCPServer for TLC. *)
EXTENDS TCPServerInv
=============================================================================
