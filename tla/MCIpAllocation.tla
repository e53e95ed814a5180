--------------------------- MODULE MCIpAllocation ---------------------------
(* Two prefixes of isolated networks that share an address, two machines    *)
(* that may report the same address, and one request beside the allocations. *)
(* The properties claim nothing once a race has happened.                   *)
EXTENDS IpAllocation, TLC

Networks == [p \in PrefixIds |-> IF p = 1 THEN Addresses ELSE {1}]
Reported == {{1}, {2}}
Unraced == ~raced
Symmetry == Permutations(VMs) \cup Permutations(RowIds)
=============================================================================
