----------------------------- MODULE Occupancy -----------------------------
(***************************************************************************)
(* What the address plan promises the owners of virtual machines: an       *)
(* address is given to a machine that alone reports it and while nobody    *)
(* holds it, the machine holds it until it is given back, and a machine    *)
(* that holds an address stays.  The promise lapses when an allocation     *)
(* comes between the check and the commit of another request.              *)
(***************************************************************************)
CONSTANTS Addresses, VMs, Reports, None

VARIABLES ips,      \* machine -> the addresses it reports, None without a machine
          held,     \* pairs of an address and the machine that holds it
          raced     \* whether the promise has lapsed

vars == <<ips, held, raced>>

Init ==
  /\ ips \in [VMs -> Reports]
  /\ held = {}
  /\ raced = FALSE

Occupy(a, v) ==
  /\ ~raced
  /\ ips[v] # None /\ a \in ips[v]
  /\ \A w \in VMs \ {v} : ips[w] # None => a \notin ips[w]
  /\ \A w \in VMs : <<a, w>> \notin held
  /\ held' = held \cup {<<a, v>>}
  /\ UNCHANGED <<ips, raced>>

Release(a, v) ==
  /\ <<a, v>> \in held
  /\ held' = held \ {<<a, v>>}
  /\ UNCHANGED <<ips, raced>>

Report(v) ==
  /\ \E reported \in Reports : ips' = [ips EXCEPT ![v] = reported]
  /\ UNCHANGED <<held, raced>>

Leave(vs) ==
  /\ \A a \in Addresses, v \in vs : <<a, v>> \notin held
  /\ ips' = [v \in VMs |-> IF v \in vs THEN None ELSE ips[v]]
  /\ UNCHANGED <<held, raced>>

Lapse ==
  /\ raced' = TRUE
  /\ held' = {}
  /\ UNCHANGED ips

Next ==
  \/ \E a \in Addresses, v \in VMs : Occupy(a, v) \/ Release(a, v)
  \/ \E v \in VMs : Report(v)
  \/ \E vs \in SUBSET VMs : Leave(vs)
  \/ Lapse

Spec == Init /\ [][Next]_vars
=============================================================================
