---------------------------- MODULE MCDiscovery ----------------------------
(* A device to start from, its own address and a neighbour's, a third id for *)
(* duplicates; a device reports both addresses or none.                      *)
EXTENDS Discovery

Reported == {{}, Addresses}
=============================================================================
