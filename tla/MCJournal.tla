------------------------------ MODULE MCJournal ------------------------------
(* Small instances of the journal for TLC.                                 *)
EXTENDS Journal

CONSTANTS h1, h2, h3, c1, c2, i1

\* On eip155 h2 and h3 are two payments over one authorization nonce.
MCHashes == {h1, h2, h3}
MCAnchorOf == [h \in MCHashes |-> IF h = h1 THEN "a1" ELSE "a2"]

MCRequest(h, c, i) == [hash |-> h, client |-> c, ident |-> i, fp |-> <<h, i>>]

\* One client uses one identifier for two payments; the other has none.
MCRequests ==
  {MCRequest(h1, c1, i1), MCRequest(h2, c1, i1)}
    \cup {MCRequest(h, c2, NoId) : h \in MCHashes}

MCClientLimits == {2, 3}
MCFees == {1, 2}
MCDepths == {1, 2}
MCNonces == {1, 2}

=============================================================================
