---------------------------- MODULE MCExtraction ----------------------------
(* Small instances of Extraction for TLC. *)
EXTENDS Extraction

CONSTANTS j1, j2, a, b

TwoAndOne == [j \in Jobs |-> IF j = j1 THEN <<a, b>> ELSE <<a>>]
AllPolicies == {"rename", "skip", "overwrite"}
=============================================================================
