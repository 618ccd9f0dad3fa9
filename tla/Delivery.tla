------------------------------ MODULE Delivery ------------------------------
(***************************************************************************)
(* What pushing a file means, whatever happens on the way: once the file     *)
(* has been offered, the receiver's destination gets copies of it, each of   *)
(* them ONE version the file has had since, whole.  The file may change      *)
(* while it is read; no copy is older than the first offer, and none mixes   *)
(* versions.                                                                *)
(***************************************************************************)
EXTENDS Naturals

CONSTANTS Last,     \* bound on the versions of the file
          Pieces    \* the pieces a copy is made of

VARIABLES source,   \* the version the file is at
          first,    \* the version first offered, 0 before that
          copies    \* what the destination has got

vars == <<source, first, copies>>

Copy(v) == [p \in Pieces |-> v]

Init == source = 1 /\ first = 0 /\ copies = {}

Change ==
    /\ source < Last /\ source' = source + 1
    /\ UNCHANGED <<first, copies>>
Offer ==
    /\ first = 0 /\ first' \in 1 .. source
    /\ UNCHANGED <<source, copies>>
Deliver ==
    /\ first # 0
    /\ \E v \in first .. source : copies' = copies \cup {Copy(v)}
    /\ UNCHANGED <<source, first>>

Next == Change \/ Offer \/ Deliver
Spec == Init /\ [][Next]_vars
=============================================================================
