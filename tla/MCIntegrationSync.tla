------------------------- MODULE MCIntegrationSync -------------------------
(* One machine, two threads, manual runs that are full or selective.       *)
EXTENDS IntegrationSync, TLC

CONSTANTS w1, w2, v1

MCWorkers == {w1, w2}
MCVms == {v1}
MCValues == {"x"}
MCEdits == {"edited"}
MCModes == {Full, [chosen |-> MCVms, update |-> FALSE, missing |-> FALSE]}

Symmetry == Permutations(MCWorkers)
=============================================================================
