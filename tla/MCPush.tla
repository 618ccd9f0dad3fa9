------------------------------- MODULE MCPush -------------------------------
(* Small instances of Push for TLC. *)
EXTENDS Push

CONSTANTS h1, h2

\* /x, /x/docs and /y/docs, with a file in each docs.
X == <<"x">>
XDocs == <<"x", "docs">>
YDocs == <<"y", "docs">>
XFile == <<"x", "docs", "file">>
YFile == <<"y", "docs", "file">>

BothFiles == {XFile, YFile}
NestedAndTwins == {<<XFile, X>>, <<XDocs, YDocs>>}
\* What is shared through the page.
Shared == {YDocs}
BothDocs == {XDocs, YDocs}

Send == <<"tmp", "send">>
Test == <<"tmp", "test">>
=============================================================================
