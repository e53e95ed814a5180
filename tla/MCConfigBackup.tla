--------------------------- MODULE MCConfigBackup ---------------------------
(* One device, two capture threads whose files may share a second.         *)
EXTENDS ConfigBackup, TLC

CONSTANTS d1, w1, w2, o1, h1, h2, n1

MCDevices == {d1}
MCWorkers == {w1, w2}
MCOperators == {o1}
MCHashes == {h1, h2}
MCNames == {n1}
MCNameOf == [d \in MCDevices |-> n1]
MCPolicies == {1}
MCVerdicts == {"expected"}

Symmetry == Permutations(MCWorkers) \cup Permutations(MCHashes)
=============================================================================
