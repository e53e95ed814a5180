---------------------------- MODULE IpAllocation ----------------------------
(***************************************************************************)
(* Who occupies the addresses of the plan: the allocation of addresses to  *)
(* virtual machines (app/services/ip_allocation.py) beside the requests    *)
(* that register, move, generate, import and delete addresses, prefixes,   *)
(* machines and devices (app/routers/ipam.py, app/routers/vms.py), and the *)
(* rows devices get for their addresses (app/services/device_ip_link.py).  *)
(*                                                                         *)
(* allocate() reads and writes under the database's write lock and is one  *)
(* step.  The other requests check first and commit later, unlocked.       *)
(*                                                                         *)
(* Abstractions.  The columns that say what else an address is used for    *)
(* are one field, "use": a linked device, or another (a device that is     *)
(* only named, or DHCP).  The four states are "planned" and "used" (every  *)
(* other one).                                                             *)
(* allocate() also refuses network and broadcast addresses and those of    *)
(* discovered devices; the model allows them, so that it allocates more.   *)
(* Prefixes keep their network (IpamTree).                                 *)
(***************************************************************************)
EXTENDS Integers, FiniteSets, Functions

CONSTANTS RowIds,       \* bound: ids of ipam_ip_addresses
          PrefixIds,    \* ids of ipam_prefixes
          Addresses,
          Spelled,      \* addresses that are written in more than one way
          Net,          \* prefix -> the addresses in its network
          VMs,          \* ids of vm_instances
          Reports,      \* sets of addresses that a machine may report
          Clients,      \* request threads
          None          \* no row, machine, prefix or request

ASSUME NetAssumption == Net \in [PrefixIds -> SUBSET Addresses] /\ Spelled \subseteq Addresses
ASSUME ReportsAssumption == Reports \subseteq SUBSET Addresses /\ None \notin Reports
ASSUME NoneAssumption == None \notin VMs \cup PrefixIds \cup RowIds

VARIABLES prefixes,     \* the stored prefixes
          rows,         \* id -> row
          ips,          \* machine -> the addresses it has, or None
          client,       \* request -> what it has checked and not committed
          raced         \* history: an allocation came between a check and a commit

vars == <<prefixes, rows, ips, client, raced>>

Use == {"free", "linked", "other"}
Row == [prefix : PrefixIds, address : Addresses, status : {"planned", "used"},
        use : Use, vm : VMs \cup {None}]

ASSUME RowAssumption == None \notin Row

\* The columns an edit writes, those it leaves alone being None.
Changes == [prefix : PrefixIds \cup {None}, address : Addresses \cup {None},
            status : {"planned", "used", None}, use : Use \cup {None}]
Unchanged == [prefix |-> None, address |-> None, status |-> None, use |-> None]

Request == [op : {"idle", "create", "update", "delete", "delete_prefix", "delete_vms"},
            id : RowIds \cup {None}, row : Row \cup {None}, set : Changes,
            prefix : PrefixIds \cup {None}, vms : SUBSET VMs]
Idle == [op |-> "idle", id |-> None, row |-> None, set |-> Unchanged, prefix |-> None, vms |-> {}]

Stored == {r \in RowIds : rows[r] # None}
Rows(p) == {r \in Stored : rows[r].prefix = p}
At(a) == {r \in Stored : rows[r].address = a}
Occupied == {r \in Stored : rows[r].vm # None}
Machines == {v \in VMs : ips[v] # None}

Init ==
  /\ prefixes = PrefixIds
  /\ rows = [r \in RowIds |-> None]
  /\ ips \in [VMs -> Reports]
  /\ client = [c \in Clients |-> Idle]
  /\ raced = FALSE

-----------------------------------------------------------------------------
(* allocate(), which holds the write lock *)

\* Requests that have checked the row or its prefix and not committed.
Overtaken(r, p) ==
  \E c \in Clients : \/ client[c].op \in {"update", "delete"} /\ client[c].id = r
                     \/ client[c].op = "delete_prefix" /\ client[c].prefix = p

\* Mutant: only a machine keeps a row from being allocated.
AvailableMutant(row) == row.vm = None /\ row.status = "planned"

Available(row) == row.vm = None /\ row.status = "planned" /\ row.use = "free"

\* Mutant: only the rows of the chosen prefix are looked at.
ElsewhereFreeMutant(a, p) == \A r \in At(a) \cap Rows(p) : rows[r].vm = None

\* A name alone does not occupy a row of another prefix.
ElsewhereFree(a, p) ==
  \A r \in At(a) \ Rows(p) :
    rows[r].vm = None /\ rows[r].status = "planned" /\ rows[r].use # "linked"

\* No other machine has the address.
Unshared(v, a) == \A w \in Machines \ {v} : a \notin ips[w]

Planned(p, a) ==
  [prefix |-> p, address |-> a, status |-> "planned", use |-> "free", vm |-> None]

\* The row, stored or new, becomes the machine's; its other columns stay.
Occupy(r, v, row) ==
  /\ rows' = [rows EXCEPT ![r] = [row EXCEPT !.status = "used", !.vm = v]]
  /\ raced' = (raced \/ Overtaken(r, row.prefix))
  /\ UNCHANGED <<prefixes, ips, client>>

\* Allocating again what the machine already occupies changes nothing.  Two
\* rows for the address in the prefix are refused.
Allocate(v) ==
  \E p \in prefixes : \E a \in Net[p] :
    LET local == At(a) \cap Rows(p) IN
    /\ v \in Machines /\ a \in ips[v]
    /\ ElsewhereFree(a, p)
    /\ Unshared(v, a)
    /\ \/ \E r \in RowIds : local = {r} /\ Available(rows[r]) /\ Occupy(r, v, rows[r])
       \/ \E r \in RowIds \ Stored : local = {} /\ Occupy(r, v, Planned(p, a))

Released(row) == [row EXCEPT !.vm = None, !.status = "planned"]

\* The machine need not have the address any more.
Release(v) ==
  \E r \in Occupied :
    /\ rows[r].vm = v
    /\ v \in Machines
    /\ rows[r].address \in Net[rows[r].prefix]
    /\ At(rows[r].address) \cap Rows(rows[r].prefix) = {r}
    /\ rows' = [rows EXCEPT ![r] = Released(@)]
    /\ UNCHANGED <<prefixes, ips, client, raced>>

-----------------------------------------------------------------------------
(* The checks of the other requests *)

Waits(c, request) ==
  /\ client[c] = Idle
  /\ client' = [client EXCEPT ![c] = request]
  /\ UNCHANGED <<prefixes, rows, ips, raced>>

\* A registered address: no machine, any use.
Registered == {row \in Row : row.vm = None /\ row.address \in Net[row.prefix]}

\* The text of the address is compared.
CheckCreateIp(c) ==
  \E row \in Registered :
    /\ row.prefix \in prefixes
    /\ row.address \in Spelled \/ At(row.address) \cap Rows(row.prefix) = {}
    /\ Waits(c, [Idle EXCEPT !.op = "create", !.row = row])

\* The session writes the columns that differ from those it read.
Difference(old, new) ==
  [f \in DOMAIN Unchanged |-> IF new[f] = old[f] THEN None ELSE new[f]]

CheckUpdateIp(c) ==
  \E r \in Stored \ Occupied, row \in Registered :
    /\ row.prefix \in prefixes
    /\ At(row.address) \cap Rows(row.prefix) \subseteq {r}
    /\ Waits(c, [Idle EXCEPT !.op = "update", !.id = r, !.set = Difference(rows[r], row)])

CheckDeleteIp(c) ==
  \E r \in Stored \ Occupied : Waits(c, [Idle EXCEPT !.op = "delete", !.id = r])

\* Mutant: occupied addresses do not keep their prefix.
MayDeletePrefixMutant(p) == p \in prefixes

MayDeletePrefix(p) == Rows(p) \cap Occupied = {}

\* A prefix on its own, or each of an aggregate.
CheckDeletePrefix(c) ==
  \E p \in prefixes :
    MayDeletePrefix(p) /\ Waits(c, [Idle EXCEPT !.op = "delete_prefix", !.prefix = p])

CheckDeleteVms(c) ==
  \E vs \in SUBSET Machines \ {{}} :
    /\ \A r \in Occupied : rows[r].vm \notin vs
    /\ Waits(c, [Idle EXCEPT !.op = "delete_vms", !.vms = vs])

-----------------------------------------------------------------------------
(* Their commits *)

Ends(c) == client' = [client EXCEPT ![c] = Idle] /\ UNCHANGED raced

\* A check the model leaves out, a row that is gone or a foreign key.
Refuse(c) ==
  client[c] # Idle /\ Ends(c) /\ UNCHANGED <<prefixes, rows, ips>>

CreateIp(c) ==
  /\ client[c].op = "create"
  /\ client[c].row.prefix \in prefixes
  /\ \E r \in RowIds \ Stored : rows' = [rows EXCEPT ![r] = client[c].row]
  /\ Ends(c)
  /\ UNCHANGED <<prefixes, ips>>

Merged(row, set) ==
  [f \in DOMAIN row |-> IF f = "vm" \/ set[f] = None THEN row[f] ELSE set[f]]

UpdateIp(c) ==
  LET r == client[c].id IN
  /\ client[c].op = "update"
  /\ r \in Stored
  /\ rows' = [rows EXCEPT ![r] = Merged(rows[r], client[c].set)]
  /\ rows'[r].prefix \in prefixes
  /\ Ends(c)
  /\ UNCHANGED <<prefixes, ips>>

DeleteIp(c) ==
  /\ client[c].op = "delete"
  /\ client[c].id \in Stored
  /\ rows' = [rows EXCEPT ![client[c].id] = None]
  /\ Ends(c)
  /\ UNCHANGED <<prefixes, ips>>

\* Mutant: addresses in use are not deleted with their prefix.
CascadeMutant(p) == {r \in Rows(p) : rows[r].status = "planned"}

\* The rows go with their prefix.
Cascade(p) == Rows(p)

DeletePrefix(c) ==
  LET p == client[c].prefix IN
  /\ client[c].op = "delete_prefix"
  /\ p \in prefixes
  /\ prefixes' = prefixes \ {p}
  /\ rows' = [r \in RowIds |-> IF r \in Cascade(p) THEN None ELSE rows[r]]
  /\ Ends(c)
  /\ UNCHANGED ips

\* The foreign key of assigned_vm_id, which has no cascade.
Unreferenced(vs) == vs \subseteq Machines /\ \A r \in Occupied : rows[r].vm \notin vs

DeleteVms(c) ==
  LET vs == client[c].vms IN
  /\ client[c].op = "delete_vms"
  /\ Unreferenced(vs)
  /\ ips' = [v \in VMs |-> IF v \in vs THEN None ELSE ips[v]]
  /\ Ends(c)
  /\ UNCHANGED <<prefixes, rows>>

-----------------------------------------------------------------------------
(* Requests that check nothing an allocation changes, and the inventory *)

\* generate_ips; texts are compared, so that another spelling is added again.
Generate ==
  \E p \in prefixes :
    LET missing == {a \in Net[p] : At(a) \cap Rows(p) = {}} IN
    \E again \in SUBSET ((Net[p] \cap Spelled) \ missing) :
      \E new \in [missing \cup again -> RowIds \ Stored] :
        /\ IsInjective(new)
        /\ rows' = [r \in RowIds |->
             IF \E a \in DOMAIN new : new[a] = r
             THEN Planned(p, CHOOSE a \in DOMAIN new : new[a] = r)
             ELSE rows[r]]
        /\ UNCHANGED <<prefixes, ips, client, raced>>

\* A row of an import; addresses are compared, and a stored one is skipped.
ImportIp ==
  \E row \in Registered, r \in RowIds \ Stored :
    /\ row.prefix \in prefixes
    /\ At(row.address) \cap Rows(row.prefix) = {}
    /\ rows' = [rows EXCEPT ![r] = row]
    /\ UNCHANGED <<prefixes, ips, client, raced>>

Linked == {r \in Stored : rows[r].use = "linked"}

\* Deleting a device clears the links to it; rows that were registered for it
\* by SyncDevice, which only their description tells, go with it.
DeleteDevice ==
  \E rs \in SUBSET Linked : \E gone \in SUBSET rs :
    /\ rows' = [r \in RowIds |-> IF r \in gone THEN None
                               ELSE IF r \in rs THEN [rows[r] EXCEPT !.use = "free"]
                               ELSE rows[r]]
    /\ UNCHANGED <<prefixes, ips, client, raced>>

OfDevice(p, a) ==
  [prefix |-> p, address |-> a, status |-> "used", use |-> "linked", vm |-> None]

Synced(gone, place, new, r) ==
  IF \E a \in DOMAIN new : new[a] = r
  THEN LET a == CHOOSE b \in DOMAIN new : new[b] = r IN OfDevice(place[a], a)
  ELSE IF r \in gone THEN None ELSE rows[r]

\* The addresses get rows in a prefix around them that lacks their text.
Resync(gone, as) ==
  \E place \in [as -> prefixes] :
    /\ \A a \in as :
         a \in Net[place[a]] /\ (a \in Spelled \/ At(a) \cap Rows(place[a]) = {})
    /\ \E new \in [as -> RowIds \ (Stored \ gone)] :
         IsInjective(new) /\ rows' = [r \in RowIds |-> Synced(gone, place, new, r)]
    /\ UNCHANGED <<prefixes, ips, client, raced>>

\* A device is registered or edited: the rows of addresses it has no longer go,
\* and those of its extra addresses come.  The deletion takes the write lock,
\* so that this is one step.
SyncDevice == \E gone \in SUBSET Linked, as \in SUBSET Addresses : Resync(gone, as)

\* A machine is created, edited or synchronised.
Report(v) ==
  /\ \E reported \in Reports : ips' = [ips EXCEPT ![v] = reported]
  /\ UNCHANGED <<prefixes, rows, client, raced>>

Check(c) ==
  \/ CheckCreateIp(c) \/ CheckUpdateIp(c) \/ CheckDeleteIp(c)
  \/ CheckDeletePrefix(c) \/ CheckDeleteVms(c)

Commit(c) ==
  \/ CreateIp(c) \/ UpdateIp(c) \/ DeleteIp(c) \/ DeletePrefix(c) \/ DeleteVms(c)

Next ==
  \/ \E v \in VMs : Allocate(v) \/ Release(v) \/ Report(v)
  \/ \E c \in Clients : Check(c) \/ Commit(c) \/ Refuse(c)
  \/ Generate \/ ImportIp \/ DeleteDevice \/ SyncDevice

Spec == Init /\ [][Next]_vars

-----------------------------------------------------------------------------
(* Properties *)

\* Rows, machines and requests are well typed, and rows belong to prefixes.
TypeOK ==
  /\ prefixes \subseteq PrefixIds
  /\ rows \in [RowIds -> Row \cup {None}]
  /\ \A r \in Stored : rows[r].prefix \in prefixes
  /\ ips \in [VMs -> Reports \cup {None}]
  /\ client \in [Clients -> Request]
  /\ raced \in BOOLEAN

\* At most one row of an address is occupied by a machine, in all prefixes
\* together: allocate() looks at every row, and edits leave occupied rows alone.
OneMachinePerAddress ==
  ~raced => \A r, s \in Occupied : rows[r].address = rows[s].address => r = s

\* What a machine occupies is in use, static and not a device's: no sequence of
\* registrations, edits and imports gives it a second owner (audit_relations
\* reports a row with both).
OccupiedIsExclusive ==
  ~raced => \A r \in Occupied : rows[r].status = "used" /\ rows[r].use = "free"

\* An occupation ends only by being released, which gives a free address back:
\* a machine, an address or a prefix in use cannot be deleted, nor edited.
OnlyReleaseEndsOccupation ==
  [][\A r \in Occupied :
       \/ raced
       \/ rows'[r] = rows[r]
       \/ rows'[r] # None /\ rows'[r] = [rows[r] EXCEPT !.vm = None, !.status = "planned"]]_vars

\* Until an allocation has come between a check and its commit, the plan keeps
\* what Occupancy promises the owners of machines, over all rows and prefixes.
Held == IF raced THEN {} ELSE {<<rows[r].address, rows[r].vm>> : r \in Occupied}
Promise == INSTANCE Occupancy WITH held <- Held
ImplementsOccupancy == Promise!Spec
=============================================================================
