----------------------------- MODULE MCDhcpSync -----------------------------
(* One source, a pool or an inventory entry, one prefix and two servers; two *)
(* synchronisations and a request at a time.                                 *)
EXTENDS DhcpSync, TLC

\* A pool or an inventory entry, not both.
OneSource == Cardinality({s \in Sources : row[s] # Gone}) <= 1
Symmetry == Permutations(Threads) \cup Permutations(Identities)
=============================================================================
