--------------------------- MODULE MCPullReceiver ---------------------------
(* Small instances of PullReceiver for TLC. *)
EXTENDS PullReceiver, TLC

Symmetric == Permutations(Workers)
=============================================================================
