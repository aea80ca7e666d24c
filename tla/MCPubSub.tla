------------------------------ MODULE MCPubSub ------------------------------
EXTENDS PubSub, TLC

CONSTANTS t1, t2, s1, s2

\* Sources are interchangeable in every handler.
SourceSymmetry == Permutations(Sources)

=============================================================================
