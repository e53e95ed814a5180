----------------------------- MODULE MCIpamTree -----------------------------
(***************************************************************************)
(* Three nested networks, three prefixes and two request threads: parent,  *)
(* child and grandchild, a duplicate, and a network that an edit can       *)
(* narrow to exclude an address or equal its subnet.                       *)
(***************************************************************************)
EXTENDS IpamTree, TLC

CONSTANTS a1, p1, p2, p3, c1, c2

MCNets == {{1, 2, 3}, {1, 2}, {1}}
MCHosts == {2}
MCAggIds == {a1}
MCPrefixIds == {p1, p2, p3}
MCClients == {c1, c2}
\* Every property is about histories without a clash: nothing follows one.
Unclashed == ~clashed
Symmetry == Permutations(MCPrefixIds) \cup Permutations(MCClients)
=============================================================================
