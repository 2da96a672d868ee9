----------------------------- MODULE MCEvmEngine -----------------------------
(* Small instances of EvmEngine.                                            *)
EXTENDS EvmEngine, TLC

CONSTANTS h1, c1

MCAnchorOf == [h \in Hashes |-> h]
MCRequests == {[hash |-> h, client |-> c1, ident |-> NoId, fp |-> h] : h \in Hashes}

\* A deep configuration, a shallow one, and two that differ in depth and in the caps.
OnePolicy == {[depth |-> 2, caps |-> "low"]}
ShallowPolicy == {[depth |-> 1, caps |-> "low"]}
TwoPolicies == {[depth |-> 1, caps |-> "low"], [depth |-> 2, caps |-> "high"]}

=============================================================================
