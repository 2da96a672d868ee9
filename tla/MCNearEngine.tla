---------------------------- MODULE MCNearEngine -----------------------------
(* Small instances of NearEngine: two payments of one client, the second of *)
(* which the network may refuse.                                            *)
EXTENDS NearEngine, TLC

CONSTANTS h1, h2, c1

MCAnchorOf == [h \in Hashes |-> h]
MCRequests == {[hash |-> h, client |-> c1, ident |-> NoId, fp |-> h] : h \in Hashes}

\* Workers are interchangeable, and so are processes: a safety run may
\* identify states that differ only in their names.
Symmetry == Permutations(Workers) \cup Permutations(Procs)

=============================================================================
