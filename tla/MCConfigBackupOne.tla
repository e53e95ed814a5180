------------------------- MODULE MCConfigBackupOne -------------------------
(* Two devices that share a file-safe name, and one capture thread.        *)
EXTENDS ConfigBackup

CONSTANTS d1, d2, w1, o1, h1, h2, n1

MCDevices == {d1, d2}
MCWorkers == {w1}
MCOperators == {o1}
MCHashes == {h1, h2}
MCNames == {n1}
MCNameOf == [d \in MCDevices |-> n1]
MCPolicies == {0, 1}
MCVerdicts == {"pending", "expected", "ignored"}
=============================================================================
