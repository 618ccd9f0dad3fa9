-------------------------- MODULE MCUploadReceiver --------------------------
(* Small instances of UploadReceiver for TLC. *)
EXTENDS UploadReceiver, TLC

CONSTANTS j1, j2, a, b, v1, v2

Objects == {j1, j2}
Bodies  == {a, b}
Version == {v1}
Versions == {v1, v2}

\* Two contents of two chunks that share their first chunk.
TwoFiles == {<<a, a>>, <<a, b>>}
AsContent(seq) == [c \in Chunk |-> seq[c + 1]]
Sent == {AsContent(f) : f \in TwoFiles}

Streamed(i, d) == [streaming |-> TRUE, ident |-> i, sha |-> d]
Legacy(i, d) == [streaming |-> FALSE, ident |-> i, sha |-> d]

SentOne == {[c \in Chunk |-> a]}

\* One version, its digest sent by finish.
OneOffer == {Streamed(v1, None)}

\* Two streaming versions, of the first one also with the digest known in advance,
\* and a legacy one compete for the path.
Digest == [c \in Chunk |-> a]
FourOffers ==
    {Streamed(v1, None), Streamed(v1, Digest), Streamed(v2, None), Legacy(v1, Digest)}

Symmetry == Permutations(Jobs)
=============================================================================
