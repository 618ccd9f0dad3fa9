---------------------------- MODULE MCUploader ----------------------------
(* Small instances of Uploader for TLC. *)
EXTENDS Uploader, TLC

\* Every version has a modification time of its own.
OwnIdents  == <<1, 2>>
OwnIdents3 == <<1, 2, 3>>
\* Workers are interchangeable.
Symmetric == Permutations(Workers)
=============================================================================
