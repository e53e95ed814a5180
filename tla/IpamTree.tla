------------------------------ MODULE IpamTree ------------------------------
(***************************************************************************)
(* The address plan: aggregates, the prefixes cut out of them and the      *)
(* addresses registered in a prefix (app/routers/ipam.py and               *)
(* app/services/ipam_import.py).                                           *)
(*                                                                         *)
(* A request checks what it reads and commits later; nothing locks the     *)
(* plan in between, so another request may commit first.  An import holds  *)
(* the database's write lock from its first read on and is one step.       *)
(*                                                                         *)
(* Abstractions.  A network is the set of its addresses, so that subnet_of *)
(* is \subseteq and two spellings of one CIDR are one value.  A row of an  *)
(* import file is an import; a file of several rows is several of them     *)
(* with nothing in between.  The refusals because of a DHCP link or an     *)
(* address that a virtual machine occupies are left out: any request may   *)
(* be refused (Refuse), so the model does more than the code, not less.    *)
(* Foreign keys are enforced by the database (PRAGMA foreign_keys = ON).   *)
(***************************************************************************)
EXTENDS Integers, FiniteSets

CONSTANTS Nets,         \* networks, each a set of addresses
          Hosts,        \* addresses that users register
          AggIds,       \* bound: rows of ipam_aggregates
          PrefixIds,    \* bound: rows of ipam_prefixes
          Clients,      \* request threads
          Blank,        \* an aggregate whose prefix is the empty string
          None          \* no row, no parent, no aggregate

ASSUME BlankAssumption == Blank \notin Nets /\ None \notin Nets /\ Blank # None
ASSUME IdsAssumption == None \notin AggIds /\ None \notin PrefixIds

VARIABLES aggs,         \* ipam_aggregates: id -> network, Blank or None
          prefixes,     \* ipam_prefixes: id -> row or None
          hosts,        \* ipam_ip_addresses: prefix id -> registered addresses
          client,       \* requests between their checks and their commit
          clashed       \* history: something committed in between

plan == <<aggs, prefixes, hosts>>
vars == <<plan, client, clashed>>

Prefix == [net : Nets, parent : PrefixIds \cup {None}, agg : AggIds \cup {None}]
ASSUME RowAssumption == None \notin Prefix

Stored == {p \in PrefixIds : prefixes[p] # None}
StoredAggs == {a \in AggIds : aggs[a] # None}
Children(p) == {k \in Stored : prefixes[k].parent = p}
Members(a) == {p \in Stored : prefixes[p].agg = a}

Operations == {"update_aggregate", "delete_aggregate", "create_prefix", "update_prefix",
               "delete_prefix", "create_ip"}
Request == [op : Operations \cup {"idle"}, id : AggIds \cup PrefixIds \cup {None},
            net : Nets \cup {Blank, None}, row : Prefix \cup {None},
            old : Prefix \cup {None}, host : Hosts \cup {None}, doomed : SUBSET PrefixIds]
Idle == [op |-> "idle", id |-> None, net |-> None, row |-> None, old |-> None,
         host |-> None, doomed |-> {}]

Init ==
  /\ aggs = [a \in AggIds |-> None]
  /\ prefixes = [p \in PrefixIds |-> None]
  /\ hosts = [p \in PrefixIds |-> {}]
  /\ client = [c \in Clients |-> Idle]
  /\ clashed = FALSE

-----------------------------------------------------------------------------
(* validate_prefix *)

\* The rows that the walk up from q meets.
Above(q) ==
  LET up[n \in 0 .. Cardinality(PrefixIds)] ==
        IF n = 0 THEN {q}
        ELSE up[n - 1] \cup {prefixes[p].parent : p \in up[n - 1] \cap Stored}
  IN  up[Cardinality(PrefixIds)] \cap Stored

\* The walk ends, and does not come back to own.
NoCycle(q, own) ==
  /\ own \notin Above(q)
  /\ \A p \in Above(q) : p \notin Above(prefixes[p].parent)

FitsParent(row) ==
  row.parent # None =>
    /\ row.parent \in Stored
    /\ row.net \subseteq prefixes[row.parent].net
    /\ row.net # prefixes[row.parent].net
    /\ prefixes[row.parent].agg = row.agg

FitsAggregate(row) ==
  row.agg # None => aggs[row.agg] \in Nets /\ row.net \subseteq aggs[row.agg]

\* Mutant: only the prefixes under the same parent are compared.
IsUniqueMutant(row, own) ==
  \A p \in Stored \ {own} :
    prefixes[p].agg = row.agg /\ prefixes[p].parent = row.parent => prefixes[p].net # row.net

IsUnique(row, own) ==
  \A p \in Stored \ {own} : prefixes[p].agg = row.agg => prefixes[p].net # row.net

\* Mutant: the subnets of an edited prefix are not looked at.
FitsChildrenMutant(row, own) == row.net # None

FitsChildren(row, own) ==
  \A k \in Children(own) :
    /\ prefixes[k].net \subseteq row.net
    /\ prefixes[k].net # row.net
    /\ prefixes[k].agg = row.agg

ValidPrefix(row, own) ==
  /\ FitsParent(row)
  /\ FitsAggregate(row)
  /\ IsUnique(row, own)
  /\ own # None => FitsChildren(row, own)
  /\ row.parent # None => NoCycle(row.parent, own)

\* A row without an aggregate of its own takes that of its parent.
Inherited(net, parent, agg) ==
  [net |-> net, parent |-> parent,
   agg |-> IF agg = None /\ parent \in Stored THEN prefixes[parent].agg ELSE agg]

-----------------------------------------------------------------------------
(* The checks of a request *)

Waits(c, request) ==
  /\ client[c] = Idle
  /\ client' = [client EXCEPT ![c] = request]
  /\ UNCHANGED <<plan, clashed>>

\* update_aggregate looks at its prefixes only if the new prefix is not empty.
HoldsMembers(a, net) == net # Blank => \A p \in Members(a) : prefixes[p].net \subseteq net

CheckUpdateAggregate(c) ==
  \E a \in StoredAggs, net \in Nets \cup {Blank} :
    /\ aggs[a] # net
    /\ HoldsMembers(a, net)
    /\ Waits(c, [Idle EXCEPT !.op = "update_aggregate", !.id = a, !.net = net])

CheckDeleteAggregate(c) ==
  \E a \in StoredAggs :
    Waits(c, [Idle EXCEPT !.op = "delete_aggregate", !.id = a, !.doomed = Members(a)])

CheckCreatePrefix(c) ==
  \E net \in Nets, parent \in Stored \cup {None}, agg \in AggIds \cup {None} :
    LET row == Inherited(net, parent, agg) IN
    /\ ValidPrefix(row, None)
    /\ Waits(c, [Idle EXCEPT !.op = "create_prefix", !.row = row])

\* Mutant: addresses do not stop a change of the network.
KeepsAddressesMutant(p, net) == net \in Nets

\* A prefix with addresses keeps its network.
KeepsAddresses(p, net) == net # prefixes[p].net => hosts[p] = {}

\* A field that the request leaves out keeps its value, so that any row may be
\* asked for.
CheckUpdatePrefix(c) ==
  \E p \in Stored, net \in Nets, parent \in Stored \cup {None}, agg \in AggIds \cup {None} :
    LET row == Inherited(net, parent, agg) IN
    /\ row # prefixes[p]
    /\ KeepsAddresses(p, net)
    /\ parent # p
    /\ ValidPrefix(row, p)
    /\ Waits(c, [Idle EXCEPT !.op = "update_prefix", !.id = p, !.row = row, !.old = prefixes[p]])

\* Mutant: a parent may be deleted.
IsLeafMutant(p) == p \in Stored

IsLeaf(p) == Children(p) = {}

CheckDeletePrefix(c) ==
  \E p \in Stored :
    /\ IsLeaf(p)
    /\ Waits(c, [Idle EXCEPT !.op = "delete_prefix", !.id = p])

CheckCreateIp(c) ==
  \E p \in Stored, x \in Hosts :
    /\ x \in prefixes[p].net
    /\ x \notin hosts[p]
    /\ Waits(c, [Idle EXCEPT !.op = "create_ip", !.id = p, !.host = x])

-----------------------------------------------------------------------------
(* The commit of a request, and what it overtakes *)

InFlight == {c \in Clients : client[c] # Idle}
Overtakes(cs) == clashed' = (clashed \/ InFlight \ cs # {})

Ends(c) ==
  /\ client' = [client EXCEPT ![c] = Idle]
  /\ Overtakes({c})

\* The answer is an error: a check the model leaves out, a row that is gone, a
\* foreign key or a lock that timed out.
Refuse(c) ==
  /\ client[c] # Idle
  /\ client' = [client EXCEPT ![c] = Idle]
  /\ UNCHANGED <<plan, clashed>>

UpdateAggregate(c) ==
  LET a == client[c].id IN
  /\ client[c].op = "update_aggregate"
  /\ a \in StoredAggs
  /\ aggs' = [aggs EXCEPT ![a] = client[c].net]
  /\ Ends(c)
  /\ UNCHANGED <<prefixes, hosts>>

\* No foreign key of a row that stays may name a prefix that goes.
Deletable(gone, cleared) ==
  /\ \A k \in Stored \ gone : prefixes[k].parent \notin gone
  /\ \A p \in gone \ cleared : hosts[p] = {}

Remove(gone, cleared) ==
  /\ Deletable(gone, cleared)
  /\ prefixes' = [p \in PrefixIds |-> IF p \in gone THEN None ELSE prefixes[p]]
  /\ hosts' = [p \in PrefixIds |-> IF p \in cleared THEN {} ELSE hosts[p]]

\* Deletes the addresses of the prefixes it read and every prefix there is now.
DeleteAggregate(c) ==
  LET a == client[c].id IN
  /\ client[c].op = "delete_aggregate"
  /\ Remove(Members(a), client[c].doomed)
  /\ aggs' = [aggs EXCEPT ![a] = None]
  /\ Ends(c)

References(row) == /\ row.parent \in Stored \cup {None}
                   /\ row.agg \in StoredAggs \cup {None}

CreatePrefix(c) ==
  /\ client[c].op = "create_prefix"
  /\ References(client[c].row)
  /\ \E p \in PrefixIds \ Stored : prefixes' = [prefixes EXCEPT ![p] = client[c].row]
  /\ Ends(c)
  /\ UNCHANGED <<aggs, hosts>>

\* The session writes the columns that differ from those it read.
Merged(now, old, new) ==
  [net |-> IF new.net # old.net THEN new.net ELSE now.net,
   parent |-> IF new.parent # old.parent THEN new.parent ELSE now.parent,
   agg |-> IF new.agg # old.agg THEN new.agg ELSE now.agg]

UpdatePrefix(c) ==
  LET p == client[c].id IN
  /\ client[c].op = "update_prefix"
  /\ p \in Stored
  /\ prefixes' = [prefixes EXCEPT ![p] = Merged(prefixes[p], client[c].old, client[c].row)]
  /\ References(prefixes'[p])
  /\ Ends(c)
  /\ UNCHANGED <<aggs, hosts>>

\* Deletes its addresses, and the subnets that came into being since the check.
DeletePrefix(c) ==
  LET p == client[c].id IN
  /\ client[c].op = "delete_prefix"
  /\ Remove({p} \cup Children(p), {p})
  /\ Ends(c)
  /\ UNCHANGED aggs

CreateIp(c) ==
  LET p == client[c].id IN
  /\ client[c].op = "create_ip"
  /\ p \in Stored
  /\ hosts' = [hosts EXCEPT ![p] = @ \cup {client[c].host}]
  /\ Ends(c)
  /\ UNCHANGED <<aggs, prefixes>>

-----------------------------------------------------------------------------
(* Requests that check nothing that may change, and imports *)

\* create_aggregate, and a row of an import of aggregates.
CreateAggregate ==
  /\ \E a \in AggIds \ StoredAggs, net \in Nets : aggs' = [aggs EXCEPT ![a] = net]
  /\ Overtakes({})
  /\ UNCHANGED <<prefixes, hosts, client>>

DeleteIp ==
  /\ \E p \in Stored : \E x \in hosts[p] : hosts' = [hosts EXCEPT ![p] = @ \ {x}]
  /\ Overtakes({})
  /\ UNCHANGED <<aggs, prefixes, client>>

\* What the aggregate column of a row for net may stand for: nothing, a stored
\* aggregate, or a CIDR that becomes one.
Resolved(net) ==
  {<<None, aggs>>}
  \cup {<<a, aggs>> : a \in {b \in StoredAggs : aggs[b] \in Nets /\ net \subseteq aggs[b]}}
  \cup {<<a, [aggs EXCEPT ![a] = wide]>> :
          a \in AggIds \ StoredAggs,
          wide \in {w \in Nets : net \subseteq w /\ \A b \in AggIds : aggs[b] # w}}

\* The rows of a network that the aggregate column, if given, does not exclude.
Matches(net, agg) ==
  {p \in Stored : prefixes[p].net = net /\ (agg # None => prefixes[p].agg = agg)}

\* Mutant: the parent and the aggregate column are swapped.
NewPrefixMutant(net, parent, agg) == [net |-> net, parent |-> agg, agg |-> parent]

NewPrefix(net, parent, agg) == [net |-> net, parent |-> parent, agg |-> agg]

ImportPrefix ==
  \E net \in Nets, parent \in Stored \cup {None}, p \in PrefixIds \ Stored :
    \E ref \in Resolved(net) :
      LET agg == IF ref[1] = None /\ parent # None THEN prefixes[parent].agg ELSE ref[1] IN
      /\ parent # None => /\ net \subseteq prefixes[parent].net /\ net # prefixes[parent].net
                          /\ Matches(prefixes[parent].net, ref[1]) = {parent}
      /\ Matches(net, ref[1]) = {}
      /\ prefixes' = [prefixes EXCEPT ![p] = NewPrefix(net, parent, agg)]
      /\ aggs' = ref[2]
      /\ Overtakes({})
      /\ UNCHANGED <<hosts, client>>

ImportIp ==
  \E net \in Nets, x \in Hosts, p \in PrefixIds :
    \E ref \in Resolved(net) :
      /\ x \in net
      /\ \/ Matches(net, ref[1]) = {p} /\ UNCHANGED prefixes
         \/ /\ Matches(net, ref[1]) = {} /\ p \notin Stored
            /\ prefixes' = [prefixes EXCEPT ![p] = NewPrefix(net, None, ref[1])]
      /\ hosts' = [hosts EXCEPT ![p] = @ \cup {x}]
      /\ aggs' = ref[2]
      /\ Overtakes({})
      /\ UNCHANGED client

-----------------------------------------------------------------------------
Check(c) ==
  \/ CheckUpdateAggregate(c) \/ CheckDeleteAggregate(c) \/ CheckCreatePrefix(c)
  \/ CheckUpdatePrefix(c) \/ CheckDeletePrefix(c) \/ CheckCreateIp(c)

Commit(c) ==
  \/ UpdateAggregate(c) \/ DeleteAggregate(c) \/ CreatePrefix(c)
  \/ UpdatePrefix(c) \/ DeletePrefix(c) \/ CreateIp(c)

Next ==
  \/ \E c \in Clients : Check(c) \/ Commit(c) \/ Refuse(c)
  \/ CreateAggregate \/ DeleteIp \/ ImportPrefix \/ ImportIp

Spec == Init /\ [][Next]_vars

-----------------------------------------------------------------------------
(* Properties *)

\* Every table, request and history variable holds what its column may hold.
TypeOK ==
  /\ aggs \in [AggIds -> Nets \cup {Blank, None}]
  /\ prefixes \in [PrefixIds -> Prefix \cup {None}]
  /\ hosts \in [PrefixIds -> SUBSET Hosts]
  /\ client \in [Clients -> Request]
  /\ clashed \in BOOLEAN

\* A subnet lies strictly inside its parent and belongs to the same aggregate
\* (audit_relations reports a row that does not), whatever the order of edits,
\* deletions and imports, as long as none commits inside another.
NestedInParent ==
  ~clashed =>
    \A p \in Stored : prefixes[p].parent # None =>
      /\ prefixes[p].parent \in Stored
      /\ prefixes[p].net \subseteq prefixes[prefixes[p].parent].net
      /\ prefixes[p].net # prefixes[prefixes[p].parent].net
      /\ prefixes[p].agg = prefixes[prefixes[p].parent].agg

\* A prefix lies inside its aggregate, unless the aggregate was emptied.
InsideAggregate ==
  ~clashed =>
    \A p \in Stored : prefixes[p].agg # None =>
      /\ prefixes[p].agg \in StoredAggs
      /\ aggs[prefixes[p].agg] # Blank => prefixes[p].net \subseteq aggs[prefixes[p].agg]

\* The plan is a forest of nested networks inside its aggregates: both of these.
WellPlaced == NestedInParent /\ InsideAggregate

\* No network is planned twice in one aggregate, nor twice outside of any.
UniquePerAggregate ==
  ~clashed =>
    \A p, q \in Stored : p # q /\ prefixes[p].agg = prefixes[q].agg
                           => prefixes[p].net # prefixes[q].net

\* A registered address belongs to a stored prefix and lies in its network.
HostsInside ==
  ~clashed =>
    \A p \in PrefixIds : hosts[p] # {} => p \in Stored /\ hosts[p] \subseteq prefixes[p].net

\* A prefix disappears only when a request deletes it or its aggregate: the
\* cascade of delete_prefix to its subnets never has anything to delete.
NoSilentCascade ==
  [][\A p \in Stored : prefixes'[p] = None =>
        \/ clashed'
        \/ \E c \in Clients : /\ client[c].op \in {"delete_prefix", "delete_aggregate"}
                              /\ client[c].id \in {p, prefixes[p].agg}]_vars

=============================================================================
