----------------------------- MODULE MCP2PPeer -----------------------------
(* P2PPeer for TLC: two peers, of which one or both call the other. *)
EXTENDS P2PPeer, TLC

CONSTANTS a, b

TwoPeers == {a, b}
OneCalls == {<<a, b>>}
BothCall == {<<a, b>>, <<b, a>>}
Symmetry == Permutations(TwoPeers)
=============================================================================
