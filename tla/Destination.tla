---------------------------- MODULE Destination ----------------------------
(***************************************************************************)
(* What a receiver promises about its destination directory while it unpacks *)
(* archives: a file appears there complete, under a name nobody has, by a job *)
(* that is allowed to run at that moment, and it never changes again, unless  *)
(* the user chose to overwrite.                                              *)
(***************************************************************************)
CONSTANTS Jobs, File, Foreign, None

VARIABLES
    overwrites, \* the user chose the policy "overwrite"
    content,    \* what a file has: whose complete data, or None
    allowed     \* the jobs that are neither paused, canceled nor finished

vars == <<overwrites, content, allowed>>

Init ==
    /\ overwrites \in BOOLEAN
    /\ content = [f \in File |-> None]
    /\ allowed = {}

Publish(j, f) ==
    /\ j \in allowed \cup {Foreign}
    /\ content[f] = None \/ overwrites
    /\ content' = [content EXCEPT ![f] = j]
    /\ UNCHANGED <<overwrites, allowed>>

\* The user, a finished extraction, the end of the process.
Allow == allowed' \in SUBSET Jobs /\ UNCHANGED <<overwrites, content>>

Next == Allow \/ \E j \in Jobs \cup {Foreign}, f \in File : Publish(j, f)
Spec == Init /\ [][Next]_vars
=============================================================================
