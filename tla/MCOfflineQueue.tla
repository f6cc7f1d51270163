---------------------------- MODULE MCOfflineQueue ----------------------------
\* Two requests that share a key and one that has none.
EXTENDS OfflineQueue

CONSTANTS k, n1, n2, a, g, h

MCKeyOf == [r \in Requests |-> IF r = a THEN NoKey ELSE k]
=============================================================================
