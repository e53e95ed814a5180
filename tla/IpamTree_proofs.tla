-------------------------- MODULE IpamTree_proofs --------------------------
(***************************************************************************)
(* The plan stays a forest of nested networks, for any networks, any       *)
(* number of rows and any number of request threads, as long as no request *)
(* commits between the checks and the commit of another.                   *)
(*                                                                         *)
(* The invariant says more than the properties: what a request found when  *)
(* it checked still holds (Holds), which is what makes its commit safe.    *)
(* A commit or an import that overtakes another request is a clash, and    *)
(* one that does not leaves every other thread idle.                       *)
(***************************************************************************)
EXTENDS IpamTree, TLAPS

\* What the fields of a request hold once it is under way.
Typed(r) ==
  /\ r.op \in {"update_aggregate", "delete_aggregate"} => r.id \in AggIds
  /\ r.op = "update_aggregate" => r.net \in Nets \cup {Blank}
  /\ r.op \in {"create_prefix", "update_prefix"} => r.row \in Prefix
  /\ r.op = "update_prefix" => r.old \in Prefix
  /\ r.op \in {"update_prefix", "delete_prefix", "create_ip"} => r.id \in PrefixIds
  /\ r.op = "create_ip" => r.host \in Hosts

\* What a request checked is still so.
Holds(r) ==
  /\ r.op = "update_aggregate" => HoldsMembers(r.id, r.net)
  /\ r.op = "create_prefix" =>
       FitsParent(r.row) /\ FitsAggregate(r.row) /\ IsUnique(r.row, None)
  /\ r.op = "update_prefix" =>
       /\ r.id \in Stored /\ prefixes[r.id] = r.old
       /\ r.row.parent # r.id
       /\ KeepsAddresses(r.id, r.row.net)
       /\ FitsParent(r.row) /\ FitsAggregate(r.row)
       /\ IsUnique(r.row, r.id) /\ FitsChildren(r.row, r.id)
  /\ r.op = "delete_prefix" => IsLeaf(r.id)
  /\ r.op = "create_ip" => r.id \in Stored /\ r.host \in prefixes[r.id].net

InAggregate(p) ==
  prefixes[p].agg # None =>
    /\ prefixes[p].agg \in StoredAggs
    /\ aggs[prefixes[p].agg] # Blank => prefixes[p].net \subseteq aggs[prefixes[p].agg]

Nested == \A p \in Stored : FitsParent(prefixes[p])
Contained == \A p \in Stored : InAggregate(p)
Unique == \A p, q \in Stored : p # q /\ prefixes[p].agg = prefixes[q].agg
                                 => prefixes[p].net # prefixes[q].net
Placed == \A p \in PrefixIds : hosts[p] # {} => p \in Stored /\ hosts[p] \subseteq prefixes[p].net
Sound == Nested /\ Contained /\ Unique /\ Placed

IInv ==
  /\ TypeOK
  /\ \A c \in Clients : Typed(client[c])
  /\ ~clashed => Sound /\ \A c \in Clients : Holds(client[c])

-----------------------------------------------------------------------------
(* Steps that leave the plan alone, and steps that overtake nobody *)

LEMMA IdleTyped == Idle \in Request /\ Typed(Idle)
  BY DEF Idle, Request, Operations, Typed

LEMMA InitIInv == Init => IInv
<1> SUFFICES ASSUME Init PROVE IInv
  OBVIOUS
<1>1. Stored = {}
  BY DEF Init, Stored
<1>2. TypeOK
  BY IdleTyped DEF Init, TypeOK
<1>3. \A c \in Clients : client[c] = Idle
  BY DEF Init
<1>4. Sound
  BY <1>1 DEF Init, Sound, Nested, Contained, Unique, Placed
<1>5. \A c \in Clients : Holds(client[c])
  BY <1>3 DEF Holds, Idle
<1> QED
  BY <1>2, <1>3, <1>4, <1>5, IdleTyped DEF IInv

\* Sound speaks of the tables alone.
LEMMA SoundKept == Sound /\ UNCHANGED plan => Sound'
  BY DEF Sound, Nested, Contained, Unique, Placed, plan, Stored, StoredAggs,
         FitsParent, InAggregate

\* And so does what a request found.
LEMMA HoldsKept == ASSUME UNCHANGED plan, NEW r, Holds(r) PROVE Holds(r)'
<1>1. Stored' = Stored /\ prefixes' = prefixes /\ aggs' = aggs /\ hosts' = hosts
  BY DEF plan, Stored
<1> QED
  BY <1>1 DEF Holds, HoldsMembers, Members, FitsParent, FitsAggregate,
     IsUnique, FitsChildren, KeepsAddresses, IsLeaf, Children

LEMMA WaitsIInv ==
  ASSUME IInv, NEW c \in Clients, NEW r \in Request, Waits(c, r), Typed(r),
         ~clashed => Holds(r)
  PROVE  IInv'
<1> USE DEF IInv
<1>1. UNCHANGED plan /\ clashed' = clashed
  BY DEF Waits
<1>2. client' = [client EXCEPT ![c] = r] /\ client \in [Clients -> Request]
  BY DEF Waits, TypeOK
<1>3. TypeOK'
  BY <1>1, <1>2 DEF TypeOK, plan
<1>4. \A d \in Clients : Typed(client[d])'
  BY <1>2 DEF Typed
<1>5. ASSUME ~clashed', NEW d \in Clients PROVE Holds(client[d])'
  <2>1. CASE d = c
    <3>1. client'[d] = r
      BY <1>2, <2>1
    <3>2. Holds(r)'
      BY <1>1, <1>5, HoldsKept
    <3> QED
      BY <3>1, <3>2 DEF Holds
  <2>2. CASE d # c
    <3>1. PICK k : k = client[d]
      OBVIOUS
    <3>2. client'[d] = k
      BY <1>2, <2>2, <3>1
    <3>3. Holds(k)
      BY <1>1, <1>5, <3>1
    <3>4. Holds(k)'
      BY <1>1, <3>3, HoldsKept
    <3> QED
      BY <3>2, <3>4 DEF Holds
  <2> QED
    BY <2>1, <2>2
<1>6. ~clashed' => Sound'
  BY <1>1, SoundKept
<1> QED
  BY <1>3, <1>4, <1>5, <1>6

\* A step that clashes with nobody leaves only idle threads behind.
LEMMA AloneIdle ==
  ASSUME NEW cs, Overtakes(cs), ~clashed', clashed \in BOOLEAN
  PROVE  ~clashed /\ \A d \in Clients \ cs : client[d] = Idle
  BY DEF Overtakes, InFlight

TypedPlan ==
  /\ aggs \in [AggIds -> Nets \cup {Blank, None}]
  /\ prefixes \in [PrefixIds -> Prefix \cup {None}]
  /\ hosts \in [PrefixIds -> SUBSET Hosts]

LEMMA EndsIInv ==
  ASSUME IInv, NEW c \in Clients, Ends(c), TypedPlan',
         ~clashed /\ Sound /\ Holds(client[c]) => Sound'
  PROVE  IInv'
<1> USE DEF IInv
<1>1. client' = [client EXCEPT ![c] = Idle] /\ client \in [Clients -> Request]
  BY DEF Ends, TypeOK
<1>2. Overtakes({c}) /\ clashed \in BOOLEAN
  BY DEF Ends, TypeOK
<1>3. clashed' \in BOOLEAN
  BY <1>2 DEF Overtakes
<1>4. TypeOK'
  BY <1>1, <1>3, IdleTyped DEF TypeOK, TypedPlan
<1>5. \A d \in Clients : Typed(client[d])'
  BY <1>1, IdleTyped DEF Typed
<1>6. ASSUME ~clashed', NEW d \in Clients PROVE Holds(client[d])'
  <2>1. client'[d] = Idle
    BY <1>1, <1>2, <1>6, AloneIdle
  <2> QED
    BY <2>1 DEF Holds, Idle
<1>7. ~clashed' => Sound'
  BY <1>2, AloneIdle
<1> QED
  BY <1>4, <1>5, <1>6, <1>7

LEMMA ImportIInv ==
  ASSUME IInv, Overtakes({}), UNCHANGED client, TypedPlan', ~clashed /\ Sound => Sound'
  PROVE  IInv'
<1> USE DEF IInv
<1>1. clashed \in BOOLEAN /\ clashed' \in BOOLEAN
  BY DEF TypeOK, Overtakes
<1>2. TypeOK'
  BY <1>1 DEF TypeOK, TypedPlan
<1>3. \A d \in Clients : Typed(client[d])'
  BY DEF Typed
<1>4. ASSUME ~clashed', NEW d \in Clients PROVE Holds(client[d])'
  <2>1. client'[d] = Idle
    BY <1>1, <1>4, AloneIdle
  <2> QED
    BY <2>1 DEF Holds, Idle
<1>5. ~clashed' => Sound'
  BY <1>1, AloneIdle
<1> QED
  BY <1>2, <1>3, <1>4, <1>5

-----------------------------------------------------------------------------
(* The checks of a request *)

LEMMA InheritedType ==
  ASSUME TypeOK, NEW net \in Nets, NEW parent \in Stored \cup {None},
         NEW agg \in AggIds \cup {None}
  PROVE  /\ Inherited(net, parent, agg) \in Prefix
         /\ Inherited(net, parent, agg).parent = parent
         /\ Inherited(net, parent, agg).net = net
  BY DEF Inherited, Prefix, TypeOK, Stored

LEMMA CheckIInv ==
  ASSUME IInv, NEW c \in Clients, Check(c) PROVE IInv'
<1>0. TypeOK
  BY DEF IInv
<1>1. CASE CheckUpdateAggregate(c)
  <2>1. PICK a \in StoredAggs, net \in Nets \cup {Blank} :
          /\ HoldsMembers(a, net)
          /\ Waits(c, [Idle EXCEPT !.op = "update_aggregate", !.id = a, !.net = net])
    BY <1>1 DEF CheckUpdateAggregate
  <2>2. PICK r : r = [Idle EXCEPT !.op = "update_aggregate", !.id = a, !.net = net]
    OBVIOUS
  <2>3. r \in Request /\ Typed(r)
    BY <2>2 DEF Idle, Request, Operations, Typed, StoredAggs
  <2>4. Holds(r)
    BY <2>1, <2>2 DEF Holds, Idle
  <2> QED
    BY <2>1, <2>2, <2>3, <2>4, WaitsIInv
<1>2. CASE CheckDeleteAggregate(c)
  <2>1. PICK a \in StoredAggs :
          Waits(c, [Idle EXCEPT !.op = "delete_aggregate", !.id = a, !.doomed = Members(a)])
    BY <1>2 DEF CheckDeleteAggregate
  <2>2. PICK r : r = [Idle EXCEPT !.op = "delete_aggregate", !.id = a, !.doomed = Members(a)]
    OBVIOUS
  <2>3. r \in Request /\ Typed(r)
    BY <2>2 DEF Idle, Request, Operations, Typed, StoredAggs, Members, Stored
  <2>4. Holds(r)
    BY <2>2 DEF Holds, Idle
  <2> QED
    BY <2>1, <2>2, <2>3, <2>4, WaitsIInv
<1>3. CASE CheckCreatePrefix(c)
  <2>1. PICK net \in Nets, parent \in Stored \cup {None}, agg \in AggIds \cup {None} :
          /\ ValidPrefix(Inherited(net, parent, agg), None)
          /\ Waits(c, [Idle EXCEPT !.op = "create_prefix", !.row = Inherited(net, parent, agg)])
    BY <1>3 DEF CheckCreatePrefix
  <2>2. PICK r : r = [Idle EXCEPT !.op = "create_prefix", !.row = Inherited(net, parent, agg)]
    OBVIOUS
  <2>3. Inherited(net, parent, agg) \in Prefix
    BY <1>0, InheritedType
  <2>4. r.op = "create_prefix" /\ r.row = Inherited(net, parent, agg)
    BY <2>2 DEF Idle
  <2>5. r \in Request /\ Typed(r)
    BY <2>2, <2>3 DEF Idle, Request, Operations, Typed
  <2>6. Holds(r)
    BY <2>1, <2>4 DEF Holds, ValidPrefix
  <2> QED
    BY <2>1, <2>2, <2>5, <2>6, WaitsIInv
<1>4. CASE CheckUpdatePrefix(c)
  <2>1. PICK p \in Stored, net \in Nets, parent \in Stored \cup {None},
             agg \in AggIds \cup {None} :
          /\ KeepsAddresses(p, net)
          /\ parent # p
          /\ ValidPrefix(Inherited(net, parent, agg), p)
          /\ Waits(c, [Idle EXCEPT !.op = "update_prefix", !.id = p,
                                   !.row = Inherited(net, parent, agg), !.old = prefixes[p]])
    BY <1>4 DEF CheckUpdatePrefix
  <2>2. PICK r : r = [Idle EXCEPT !.op = "update_prefix", !.id = p,
                                  !.row = Inherited(net, parent, agg), !.old = prefixes[p]]
    OBVIOUS
  <2>3. /\ Inherited(net, parent, agg) \in Prefix
        /\ Inherited(net, parent, agg).parent = parent
        /\ Inherited(net, parent, agg).net = net
    BY <1>0, InheritedType
  <2>4. /\ r.op = "update_prefix" /\ r.id = p
        /\ r.row = Inherited(net, parent, agg) /\ r.old = prefixes[p]
    BY <2>2 DEF Idle
  <2>5. p \in PrefixIds /\ prefixes[p] \in Prefix /\ p # None
    BY <1>0, IdsAssumption DEF TypeOK, Stored
  <2>6. r \in Request /\ Typed(r)
    BY <2>2, <2>3, <2>5 DEF Idle, Request, Operations, Typed
  <2>7. Holds(r)
    BY <2>1, <2>3, <2>4, <2>5 DEF Holds, ValidPrefix
  <2> QED
    BY <2>1, <2>2, <2>6, <2>7, WaitsIInv
<1>5. CASE CheckDeletePrefix(c)
  <2>1. PICK p \in Stored :
          IsLeaf(p) /\ Waits(c, [Idle EXCEPT !.op = "delete_prefix", !.id = p])
    BY <1>5 DEF CheckDeletePrefix
  <2>2. PICK r : r = [Idle EXCEPT !.op = "delete_prefix", !.id = p]
    OBVIOUS
  <2>3. r \in Request /\ Typed(r)
    BY <2>2 DEF Idle, Request, Operations, Typed, Stored
  <2>4. Holds(r)
    BY <2>1, <2>2 DEF Holds, Idle
  <2> QED
    BY <2>1, <2>2, <2>3, <2>4, WaitsIInv
<1>6. CASE CheckCreateIp(c)
  <2>1. PICK p \in Stored, x \in Hosts :
          /\ x \in prefixes[p].net
          /\ Waits(c, [Idle EXCEPT !.op = "create_ip", !.id = p, !.host = x])
    BY <1>6 DEF CheckCreateIp
  <2>2. PICK r : r = [Idle EXCEPT !.op = "create_ip", !.id = p, !.host = x]
    OBVIOUS
  <2>3. r \in Request /\ Typed(r)
    BY <2>2 DEF Idle, Request, Operations, Typed, Stored
  <2>4. Holds(r)
    BY <2>1, <2>2 DEF Holds, Idle
  <2> QED
    BY <2>1, <2>2, <2>3, <2>4, WaitsIInv
<1> QED
  BY <1>1, <1>2, <1>3, <1>4, <1>5, <1>6 DEF Check

-----------------------------------------------------------------------------
(* What adding, changing and removing rows does to a sound plan *)

LEMMA AddSound ==
  ASSUME TypeOK, Sound, NEW p \in PrefixIds \ Stored, NEW row \in Prefix,
         prefixes' = [prefixes EXCEPT ![p] = row],
         \A a \in StoredAggs : aggs'[a] = aggs[a],
         FitsParent(row), IsUnique(row, None),
         row.agg # None => /\ row.agg \in AggIds /\ aggs'[row.agg] # None
                           /\ aggs'[row.agg] # Blank => row.net \subseteq aggs'[row.agg],
         hosts' \in [PrefixIds -> SUBSET Hosts],
         \A q \in PrefixIds \ {p} : hosts'[q] = hosts[q],
         hosts'[p] \subseteq row.net
  PROVE  Sound'
<1>1. /\ Stored' = Stored \cup {p} /\ p \notin Stored
      /\ prefixes'[p] = row
      /\ \A q \in Stored : prefixes'[q] = prefixes[q]
  BY RowAssumption DEF TypeOK, Stored
<1>2. Nested'
  BY <1>1 DEF Sound, Nested, FitsParent
<1>3. Contained'
  <2>1. \A q \in Stored : InAggregate(q)'
    BY <1>1 DEF Sound, Contained, InAggregate, StoredAggs
  <2>2. InAggregate(p)'
    BY <1>1 DEF InAggregate, StoredAggs
  <2> QED
    BY <1>1, <2>1, <2>2 DEF Contained
<1>4. Unique'
  BY <1>1, IdsAssumption DEF Sound, Unique, IsUnique, Stored
<1>5. Placed'
  BY <1>1 DEF Sound, Placed
<1> QED
  BY <1>2, <1>3, <1>4, <1>5 DEF Sound

LEMMA UpdateSound ==
  ASSUME TypeOK, Sound, NEW p \in Stored, NEW row \in Prefix,
         prefixes' = [prefixes EXCEPT ![p] = row], UNCHANGED <<aggs, hosts>>,
         FitsParent(row), row.parent # p, FitsAggregate(row),
         IsUnique(row, p), FitsChildren(row, p), KeepsAddresses(p, row.net)
  PROVE  Sound'
<1>1. /\ Stored' = Stored
      /\ prefixes'[p] = row
      /\ \A q \in Stored \ {p} : prefixes'[q] = prefixes[q]
  BY RowAssumption DEF TypeOK, Stored
<1>2. Nested'
  <2>1. FitsParent(prefixes[p])'
    BY <1>1 DEF FitsParent
  <2>2. ASSUME NEW q \in Stored \ {p} PROVE FitsParent(prefixes[q])'
    <3>1. CASE prefixes[q].parent = p
      BY <1>1, <3>1 DEF FitsChildren, Children, FitsParent
    <3>2. CASE prefixes[q].parent # p
      BY <1>1, <3>2 DEF Sound, Nested, FitsParent
    <3> QED
      BY <3>1, <3>2
  <2> QED
    BY <1>1, <2>1, <2>2 DEF Nested
<1>3. Contained'
  <2>1. \A q \in Stored \ {p} : InAggregate(q)'
    BY <1>1 DEF Sound, Contained, InAggregate, StoredAggs
  <2>2. InAggregate(p)'
    BY <1>1, BlankAssumption DEF InAggregate, FitsAggregate, StoredAggs, Prefix
  <2> QED
    BY <1>1, <2>1, <2>2 DEF Contained
<1>4. Unique'
  BY <1>1 DEF Sound, Unique, IsUnique
<1>5. Placed'
  BY <1>1 DEF Sound, Placed, KeepsAddresses
<1> QED
  BY <1>2, <1>3, <1>4, <1>5 DEF Sound

LEMMA RemoveSound ==
  ASSUME TypeOK, Sound, NEW gone \in SUBSET Stored, NEW cleared, Remove(gone, cleared),
         \A q \in Stored \ gone : prefixes[q].agg # None
                                    => aggs'[prefixes[q].agg] = aggs[prefixes[q].agg]
  PROVE  Sound'
<1>1. /\ Stored' = Stored \ gone
      /\ \A q \in Stored \ gone : prefixes'[q] = prefixes[q]
  BY DEF Remove, Stored
<1>2. Nested'
  BY <1>1 DEF Sound, Nested, FitsParent, Remove, Deletable
<1>3. Contained'
  BY <1>1 DEF Sound, Contained, InAggregate, StoredAggs
<1>4. Unique'
  BY <1>1 DEF Sound, Unique
<1>5. Placed'
  <2> SUFFICES ASSUME NEW q \in PrefixIds, hosts'[q] # {}
               PROVE  q \in Stored' /\ hosts'[q] \subseteq prefixes'[q].net
    BY DEF Placed
  <2>1. q \notin cleared /\ hosts'[q] = hosts[q]
    BY DEF Remove
  <2>2. q \notin gone
    BY <2>1 DEF Remove, Deletable
  <2>3. q \in Stored /\ hosts[q] \subseteq prefixes[q].net
    BY <2>1 DEF Sound, Placed
  <2> QED
    BY <1>1, <2>1, <2>2, <2>3
<1> QED
  BY <1>2, <1>3, <1>4, <1>5 DEF Sound

-----------------------------------------------------------------------------
(* The commit of a request *)

LEMMA UpdateAggregateIInv ==
  ASSUME IInv, NEW c \in Clients, UpdateAggregate(c) PROVE IInv'
<1>1. TypeOK /\ Typed(client[c])
  BY DEF IInv
<1> DEFINE a == client[c].id
           net == client[c].net
<1>2. /\ a \in StoredAggs /\ aggs' = [aggs EXCEPT ![a] = net]
      /\ Ends(c) /\ UNCHANGED <<prefixes, hosts>> /\ client[c].op = "update_aggregate"
  BY DEF UpdateAggregate
<1>3. net \in Nets \cup {Blank} /\ net # None /\ a \in AggIds
  BY <1>1, <1>2, BlankAssumption DEF Typed
<1>4. Holds(client[c]) => HoldsMembers(a, net)
  BY <1>2 DEF Holds
<1> HIDE DEF a, net
<1>5. TypedPlan'
  BY <1>1, <1>2, <1>3 DEF TypeOK, TypedPlan
<1>6. ASSUME Sound, Holds(client[c]) PROVE Sound'
  <2>1. Stored' = Stored /\ StoredAggs' = StoredAggs
    BY <1>1, <1>2, <1>3 DEF TypeOK, Stored, StoredAggs
  <2>2. Nested' /\ Unique' /\ Placed'
    BY <1>2, <1>6, <2>1 DEF Sound, Nested, FitsParent, Unique, Placed
  <2>3. ASSUME NEW p \in Stored PROVE InAggregate(p)'
    <3>1. InAggregate(p)
      BY <1>6 DEF Sound, Contained
    <3>2. CASE prefixes[p].agg = a
      BY <1>1, <1>2, <1>3, <1>4, <1>6, <2>1, <3>2
      DEF TypeOK, InAggregate, HoldsMembers, Members
    <3>3. CASE prefixes[p].agg # a
      BY <1>1, <1>2, <2>1, <3>1, <3>3 DEF TypeOK, InAggregate, StoredAggs
    <3> QED
      BY <3>2, <3>3
  <2> QED
    BY <2>1, <2>2, <2>3 DEF Sound, Contained
<1> QED
  BY <1>2, <1>5, <1>6, EndsIInv

LEMMA DeleteAggregateIInv ==
  ASSUME IInv, NEW c \in Clients, DeleteAggregate(c) PROVE IInv'
<1>1. TypeOK /\ Typed(client[c])
  BY DEF IInv
<1>2. PICK a, gone, cleared :
        /\ a = client[c].id /\ gone = Members(a) /\ cleared = client[c].doomed
        /\ Remove(gone, cleared) /\ aggs' = [aggs EXCEPT ![a] = None]
  BY DEF DeleteAggregate
<1>3. Ends(c)
  BY DEF DeleteAggregate
<1>4. TypedPlan'
  BY <1>1, <1>2 DEF TypeOK, TypedPlan, Remove
<1>5. gone \in SUBSET Stored
  BY <1>2 DEF Members
<1>6. \A q \in Stored \ gone : prefixes[q].agg # None
                                 => aggs'[prefixes[q].agg] = aggs[prefixes[q].agg]
  <2> SUFFICES ASSUME NEW q \in Stored \ gone, prefixes[q].agg # None
               PROVE  aggs'[prefixes[q].agg] = aggs[prefixes[q].agg]
    OBVIOUS
  <2>1. prefixes[q].agg \in AggIds /\ prefixes[q].agg # a
    BY <1>1, <1>2 DEF TypeOK, Stored, Prefix, Members
  <2> QED
    BY <1>1, <1>2, <2>1 DEF TypeOK
<1>7. Sound => Sound'
  BY <1>1, <1>2, <1>5, <1>6, RemoveSound
<1> QED
  BY <1>3, <1>4, <1>7, EndsIInv

LEMMA CreatePrefixIInv ==
  ASSUME IInv, NEW c \in Clients, CreatePrefix(c) PROVE IInv'
<1>1. TypeOK /\ Typed(client[c])
  BY DEF IInv
<1>2. PICK row : row = client[c].row
  OBVIOUS
<1>3. PICK p \in PrefixIds \ Stored : prefixes' = [prefixes EXCEPT ![p] = row]
  BY <1>2 DEF CreatePrefix
<1>4. client[c].op = "create_prefix" /\ Ends(c) /\ UNCHANGED <<aggs, hosts>>
  BY DEF CreatePrefix
<1>5. row \in Prefix
  BY <1>1, <1>2, <1>4 DEF Typed
<1>6. TypedPlan'
  BY <1>1, <1>3, <1>4, <1>5 DEF TypeOK, TypedPlan
<1>7. ASSUME Sound, Holds(client[c]) PROVE Sound'
  <2>1. FitsParent(row) /\ FitsAggregate(row) /\ IsUnique(row, None)
    BY <1>2, <1>4, <1>7 DEF Holds
  <2>2. hosts[p] = {} /\ hosts' \in [PrefixIds -> SUBSET Hosts]
    BY <1>1, <1>3, <1>4, <1>7 DEF TypeOK, Sound, Placed
  <2>3. row.agg # None => /\ row.agg \in AggIds /\ aggs'[row.agg] # None
                          /\ aggs'[row.agg] # Blank => row.net \subseteq aggs'[row.agg]
    BY <1>4, <1>5, <2>1, BlankAssumption DEF FitsAggregate, Prefix
  <2> QED
    BY <1>1, <1>3, <1>4, <1>5, <1>7, <2>1, <2>2, <2>3, AddSound
<1> QED
  BY <1>4, <1>6, <1>7, EndsIInv

LEMMA UpdatePrefixIInv ==
  ASSUME IInv, NEW c \in Clients, UpdatePrefix(c) PROVE IInv'
<1>1. TypeOK /\ Typed(client[c])
  BY DEF IInv
<1>2. PICK p, old, row : p = client[c].id /\ old = client[c].old /\ row = client[c].row
  OBVIOUS
<1>3. /\ client[c].op = "update_prefix" /\ p \in Stored
      /\ prefixes' = [prefixes EXCEPT ![p] = Merged(prefixes[p], old, row)]
      /\ Ends(c) /\ UNCHANGED <<aggs, hosts>>
  BY <1>2 DEF UpdatePrefix
<1>4. row \in Prefix /\ old \in Prefix
  BY <1>1, <1>2, <1>3 DEF Typed
<1>5. prefixes[p] \in Prefix
  BY <1>1, <1>3 DEF TypeOK, Stored
<1>6. Merged(prefixes[p], old, row) \in Prefix
  BY <1>4, <1>5 DEF Merged, Prefix
<1>7. TypedPlan'
  BY <1>1, <1>3, <1>6 DEF TypeOK, TypedPlan
<1>8. ASSUME Sound, Holds(client[c]) PROVE Sound'
  <2>1. /\ prefixes[p] = old /\ row.parent # p
        /\ FitsParent(row) /\ FitsAggregate(row) /\ IsUnique(row, p)
        /\ FitsChildren(row, p) /\ KeepsAddresses(p, row.net)
    BY <1>2, <1>3, <1>8 DEF Holds
  <2>2. Merged(prefixes[p], old, row) = row
    BY <1>4, <2>1 DEF Merged, Prefix
  <2> QED
    BY <1>1, <1>3, <1>4, <1>8, <2>1, <2>2, UpdateSound
<1> QED
  BY <1>3, <1>7, <1>8, EndsIInv

LEMMA DeletePrefixIInv ==
  ASSUME IInv, NEW c \in Clients, DeletePrefix(c) PROVE IInv'
<1>1. TypeOK /\ Typed(client[c])
  BY DEF IInv
<1>2. PICK p, gone, cleared :
        /\ p = client[c].id /\ gone = {p} \cup Children(p) /\ cleared = {p}
        /\ Remove(gone, cleared)
  BY DEF DeletePrefix
<1>3. Ends(c) /\ UNCHANGED aggs
  BY DEF DeletePrefix
<1>4. TypedPlan'
  BY <1>1, <1>2, <1>3 DEF TypeOK, TypedPlan, Remove
<1>5. PICK rows : rows = gone \cap Stored
  OBVIOUS
<1>6. Sound => Remove(rows, cleared)
  <2> SUFFICES ASSUME Sound PROVE Remove(rows, cleared)
    OBVIOUS
  <2>1. Deletable(rows, cleared)
    BY <1>2, <1>5 DEF Remove, Deletable, Sound, Placed, Nested, FitsParent
  <2>2. prefixes' = [q \in PrefixIds |-> IF q \in rows THEN None ELSE prefixes[q]]
    BY <1>2, <1>5 DEF Remove, Stored
  <2> QED
    BY <1>2, <2>1, <2>2 DEF Remove
<1>7. Sound => Sound'
  BY <1>1, <1>3, <1>5, <1>6, RemoveSound
<1> QED
  BY <1>3, <1>4, <1>7, EndsIInv

LEMMA CreateIpIInv ==
  ASSUME IInv, NEW c \in Clients, CreateIp(c) PROVE IInv'
<1>1. TypeOK /\ Typed(client[c])
  BY DEF IInv
<1>2. PICK p, x : p = client[c].id /\ x = client[c].host
  OBVIOUS
<1>3. /\ client[c].op = "create_ip" /\ p \in Stored
      /\ hosts' = [hosts EXCEPT ![p] = hosts[p] \cup {x}]
      /\ Ends(c) /\ UNCHANGED <<aggs, prefixes>>
  BY <1>2 DEF CreateIp
<1>4. x \in Hosts
  BY <1>1, <1>2, <1>3 DEF Typed
<1>5. TypedPlan'
  BY <1>1, <1>3, <1>4 DEF TypeOK, TypedPlan
<1>6. ASSUME Sound, Holds(client[c]) PROVE Sound'
  <2>1. x \in prefixes[p].net
    BY <1>2, <1>3, <1>6 DEF Holds
  <2>2. Stored' = Stored /\ StoredAggs' = StoredAggs
    BY <1>3 DEF Stored, StoredAggs
  <2>3. Nested' /\ Contained' /\ Unique'
    BY <1>3, <1>6, <2>2 DEF Sound, Nested, FitsParent, Contained, InAggregate, Unique
  <2>4. Placed'
    BY <1>1, <1>3, <1>6, <2>1, <2>2 DEF TypeOK, Sound, Placed
  <2> QED
    BY <2>3, <2>4 DEF Sound
<1> QED
  BY <1>3, <1>5, <1>6, EndsIInv

-----------------------------------------------------------------------------
(* Requests without a check, and imports *)

LEMMA CreateAggregateIInv == ASSUME IInv, CreateAggregate PROVE IInv'
<1>1. TypeOK
  BY DEF IInv
<1>2. PICK a \in AggIds \ StoredAggs, net \in Nets : aggs' = [aggs EXCEPT ![a] = net]
  BY DEF CreateAggregate
<1>3. Overtakes({}) /\ UNCHANGED <<prefixes, hosts, client>>
  BY DEF CreateAggregate
<1>4. TypedPlan'
  BY <1>1, <1>2, <1>3 DEF TypeOK, TypedPlan
<1>5. ASSUME Sound PROVE Sound'
  <2>1. Stored' = Stored /\ \A b \in StoredAggs : b \in StoredAggs' /\ aggs'[b] = aggs[b]
    BY <1>1, <1>2, <1>3 DEF TypeOK, Stored, StoredAggs
  <2>2. Nested' /\ Unique' /\ Placed'
    BY <1>3, <1>5, <2>1 DEF Sound, Nested, FitsParent, Unique, Placed
  <2>3. Contained'
    BY <1>3, <1>5, <2>1 DEF Sound, Contained, InAggregate
  <2> QED
    BY <2>2, <2>3 DEF Sound
<1> QED
  BY <1>3, <1>4, <1>5, ImportIInv

LEMMA DeleteIpIInv == ASSUME IInv, DeleteIp PROVE IInv'
<1>1. TypeOK
  BY DEF IInv
<1>2. PICK p, x : p \in Stored /\ hosts' = [hosts EXCEPT ![p] = hosts[p] \ {x}]
  BY DEF DeleteIp
<1>3. Overtakes({}) /\ UNCHANGED <<aggs, prefixes, client>>
  BY DEF DeleteIp
<1>4. TypedPlan'
  BY <1>1, <1>2, <1>3 DEF TypeOK, TypedPlan
<1>5. ASSUME Sound PROVE Sound'
  <2>1. Stored' = Stored /\ StoredAggs' = StoredAggs
    BY <1>3 DEF Stored, StoredAggs
  <2>2. Nested' /\ Contained' /\ Unique'
    BY <1>3, <1>5, <2>1 DEF Sound, Nested, FitsParent, Contained, InAggregate, Unique
  <2>3. Placed'
    BY <1>1, <1>2, <1>3, <1>5, <2>1 DEF TypeOK, Sound, Placed
  <2> QED
    BY <2>2, <2>3 DEF Sound
<1> QED
  BY <1>3, <1>4, <1>5, ImportIInv

LEMMA ResolvedFacts ==
  ASSUME TypeOK, NEW net \in Nets, NEW ref \in Resolved(net)
  PROVE  /\ ref[1] \in AggIds \cup {None}
         /\ ref[2] \in [AggIds -> Nets \cup {Blank, None}]
         /\ \A a \in StoredAggs : ref[2][a] = aggs[a]
         /\ ref[1] # None => ref[2][ref[1]] \in Nets /\ net \subseteq ref[2][ref[1]]
<1>1. CASE ref = <<None, aggs>>
  BY <1>1 DEF TypeOK
<1>2. CASE \E a \in StoredAggs : ref = <<a, aggs>> /\ aggs[a] \in Nets /\ net \subseteq aggs[a]
  BY <1>2 DEF TypeOK, StoredAggs
<1>3. CASE \E a \in AggIds \ StoredAggs, wide \in Nets :
             ref = <<a, [aggs EXCEPT ![a] = wide]>> /\ net \subseteq wide
  <2>1. PICK a \in AggIds \ StoredAggs, wide \in Nets :
               ref = <<a, [aggs EXCEPT ![a] = wide]>> /\ net \subseteq wide
    BY <1>3
  <2>2. aggs \in [AggIds -> Nets \cup {Blank, None}]
    BY DEF TypeOK
  <2>3. ref[1] = a /\ ref[2] = [aggs EXCEPT ![a] = wide]
    BY <2>1
  <2> QED
    BY <2>1, <2>2, <2>3 DEF StoredAggs
<1> QED
  BY <1>1, <1>2, <1>3 DEF Resolved

\* A row that no stored one matches is new in its aggregate.
LEMMA UnmatchedIsUnique ==
  ASSUME NEW row, NEW given, given # None => row.agg = given, Matches(row.net, given) = {}
  PROVE  IsUnique(row, None)
  BY DEF Matches, IsUnique

LEMMA ImportPrefixIInv == ASSUME IInv, ImportPrefix PROVE IInv'
<1>1. TypeOK
  BY DEF IInv
<1>2. PICK net, parent, p, ref, agg :
        /\ net \in Nets /\ parent \in Stored \cup {None}
        /\ p \in PrefixIds \ Stored /\ ref \in Resolved(net)
        /\ agg = IF ref[1] = None /\ parent # None THEN prefixes[parent].agg ELSE ref[1]
        /\ parent # None => /\ net \subseteq prefixes[parent].net /\ net # prefixes[parent].net
                            /\ Matches(prefixes[parent].net, ref[1]) = {parent}
        /\ Matches(net, ref[1]) = {}
        /\ prefixes' = [prefixes EXCEPT ![p] = NewPrefix(net, parent, agg)]
        /\ aggs' = ref[2]
  BY ZenonT(40) DEF ImportPrefix
<1>3. Overtakes({}) /\ UNCHANGED <<hosts, client>>
  BY DEF ImportPrefix
<1>4. /\ ref[1] \in AggIds \cup {None}
      /\ aggs' \in [AggIds -> Nets \cup {Blank, None}]
      /\ \A a \in StoredAggs : aggs'[a] = aggs[a]
      /\ ref[1] # None => aggs'[ref[1]] \in Nets /\ net \subseteq aggs'[ref[1]]
  BY <1>1, <1>2, ResolvedFacts
<1>5. PICK row : row = NewPrefix(net, parent, agg)
  OBVIOUS
<1>6. row.net = net /\ row.parent = parent /\ row.agg = agg
  BY <1>5 DEF NewPrefix
<1>7. parent # None => parent \in Stored /\ prefixes[parent] \in Prefix
  BY <1>1, <1>2 DEF TypeOK, Stored
<1>8. row \in Prefix
  BY <1>2, <1>4, <1>5, <1>7 DEF NewPrefix, Prefix, Stored
<1>9. TypedPlan'
  BY <1>1, <1>2, <1>3, <1>4, <1>5, <1>8 DEF TypeOK, TypedPlan
<1>10. ASSUME Sound PROVE Sound'
  <2>1. FitsParent(row)
    BY <1>2, <1>6, <1>7 DEF FitsParent, Matches
  <2>2. IsUnique(row, None)
    BY <1>2, <1>6, UnmatchedIsUnique
  <2>3. row.agg # None => /\ row.agg \in AggIds /\ aggs'[row.agg] # None
                          /\ aggs'[row.agg] # Blank => row.net \subseteq aggs'[row.agg]
    <3>1. CASE ref[1] = None /\ parent # None
      <4>1. InAggregate(parent)
        BY <1>7, <1>10, <3>1 DEF Sound, Contained
      <4> QED
        BY <1>2, <1>4, <1>6, <3>1, <4>1 DEF InAggregate, StoredAggs
    <3>2. CASE ~(ref[1] = None /\ parent # None)
      BY <1>2, <1>4, <1>6, <3>2, BlankAssumption
    <3> QED
      BY <3>1, <3>2
  <2>4. hosts[p] = {} /\ hosts' \in [PrefixIds -> SUBSET Hosts]
    BY <1>1, <1>2, <1>3, <1>10 DEF TypeOK, Sound, Placed
  <2> QED
    BY <1>1, <1>2, <1>3, <1>4, <1>5, <1>8, <1>10, <2>1, <2>2, <2>3, <2>4, AddSound
<1> QED
  BY <1>3, <1>9, <1>10, ImportIInv

LEMMA ImportIpIInv == ASSUME IInv, ImportIp PROVE IInv'
<1>1. TypeOK
  BY DEF IInv
<1>0. PICK net \in Nets, x \in Hosts, p \in PrefixIds : \E ref \in Resolved(net) :
        /\ x \in net
        /\ \/ Matches(net, ref[1]) = {p} /\ UNCHANGED prefixes
           \/ /\ Matches(net, ref[1]) = {} /\ p \notin Stored
              /\ prefixes' = [prefixes EXCEPT ![p] = NewPrefix(net, None, ref[1])]
        /\ hosts' = [hosts EXCEPT ![p] = hosts[p] \cup {x}]
        /\ aggs' = ref[2]
  BY DEF ImportIp
<1>2. PICK ref \in Resolved(net) :
        /\ x \in net
        /\ \/ Matches(net, ref[1]) = {p} /\ UNCHANGED prefixes
           \/ /\ Matches(net, ref[1]) = {} /\ p \notin Stored
              /\ prefixes' = [prefixes EXCEPT ![p] = NewPrefix(net, None, ref[1])]
        /\ hosts' = [hosts EXCEPT ![p] = hosts[p] \cup {x}]
        /\ aggs' = ref[2]
  BY <1>0
<1>3. Overtakes({}) /\ UNCHANGED client
  BY DEF ImportIp
<1>4. /\ ref[1] \in AggIds \cup {None}
      /\ aggs' \in [AggIds -> Nets \cup {Blank, None}]
      /\ \A a \in StoredAggs : aggs'[a] = aggs[a]
      /\ ref[1] # None => aggs'[ref[1]] \in Nets /\ net \subseteq aggs'[ref[1]]
  BY <1>1, <1>2, ResolvedFacts
<1>5. PICK row : row = NewPrefix(net, None, ref[1])
  OBVIOUS
<1>6. row.net = net /\ row.parent = None /\ row.agg = ref[1] /\ row \in Prefix
  BY <1>2, <1>4, <1>5 DEF NewPrefix, Prefix
<1>7. hosts' \in [PrefixIds -> SUBSET Hosts]
  BY <1>1, <1>2 DEF TypeOK
<1>8. TypedPlan'
  BY <1>1, <1>2, <1>4, <1>5, <1>6, <1>7 DEF TypeOK, TypedPlan
<1>9. ASSUME Sound PROVE Sound'
  <2>1. CASE Matches(net, ref[1]) = {p} /\ UNCHANGED prefixes
    <3>1. p \in Stored /\ prefixes[p].net = net /\ Stored' = Stored
      BY <2>1 DEF Matches, Stored
    <3>2. Nested' /\ Unique'
      BY <1>9, <2>1, <3>1 DEF Sound, Nested, FitsParent, Unique
    <3>3. Contained'
      BY <1>4, <1>9, <2>1, <3>1 DEF Sound, Contained, InAggregate, StoredAggs
    <3>4. Placed'
      BY <1>1, <1>2, <1>9, <2>1, <3>1 DEF TypeOK, Sound, Placed
    <3> QED
      BY <3>2, <3>3, <3>4 DEF Sound
  <2>2. CASE /\ Matches(net, ref[1]) = {} /\ p \notin Stored
             /\ prefixes' = [prefixes EXCEPT ![p] = row]
    <3>1. FitsParent(row)
      BY <1>6 DEF FitsParent
    <3>2. IsUnique(row, None)
      BY <1>6, <2>2, UnmatchedIsUnique
    <3>3. row.agg # None => /\ row.agg \in AggIds /\ aggs'[row.agg] # None
                            /\ aggs'[row.agg] # Blank => row.net \subseteq aggs'[row.agg]
      BY <1>4, <1>6, BlankAssumption
    <3>4. hosts[p] = {} /\ hosts'[p] \subseteq row.net
          /\ \A q \in PrefixIds \ {p} : hosts'[q] = hosts[q]
      BY <1>1, <1>2, <1>6, <1>9, <2>2 DEF TypeOK, Sound, Placed
    <3> QED
      BY <1>1, <1>2, <1>4, <1>6, <1>7, <1>9, <2>2, <3>1, <3>2, <3>3, <3>4, AddSound
  <2> QED
    BY <1>2, <1>5, <2>1, <2>2
<1> QED
  BY <1>3, <1>8, <1>9, ImportIInv

LEMMA RefuseIInv == ASSUME IInv, NEW c \in Clients, Refuse(c) PROVE IInv'
<1>1. TypeOK /\ UNCHANGED plan /\ clashed' = clashed
  BY DEF IInv, Refuse
<1>2. client' = [client EXCEPT ![c] = Idle] /\ client \in [Clients -> Request]
  BY <1>1 DEF Refuse, TypeOK
<1>3. TypeOK'
  BY <1>1, <1>2, IdleTyped DEF TypeOK, plan
<1>4. \A d \in Clients : Typed(client[d])'
  BY <1>2, IdleTyped DEF Typed, IInv
<1>5. ASSUME ~clashed', NEW d \in Clients PROVE Holds(client[d])'
  <2>1. CASE d = c
    BY <1>2, <2>1 DEF Holds, Idle
  <2>2. CASE d # c
    <3>1. PICK k : k = client[d]
      OBVIOUS
    <3>2. client'[d] = k
      BY <1>2, <2>2, <3>1
    <3>3. Holds(k)'
      BY <1>1, <1>5, <3>1, HoldsKept DEF IInv
    <3> QED
      BY <3>2, <3>3 DEF Holds
  <2> QED
    BY <2>1, <2>2
<1>6. ~clashed' => Sound'
  BY <1>1, SoundKept DEF IInv
<1> QED
  BY <1>3, <1>4, <1>5, <1>6 DEF IInv

-----------------------------------------------------------------------------
(* The theorems *)

LEMMA StepIInv == IInv /\ [Next]_vars => IInv'
<1> SUFFICES ASSUME IInv, [Next]_vars PROVE IInv'
  OBVIOUS
<1>1. ASSUME NEW c \in Clients, Commit(c) PROVE IInv'
  BY <1>1, UpdateAggregateIInv, DeleteAggregateIInv, CreatePrefixIInv, UpdatePrefixIInv,
     DeletePrefixIInv, CreateIpIInv DEF Commit
<1>2. CASE UNCHANGED vars
  <2>1. UNCHANGED plan /\ UNCHANGED client /\ UNCHANGED clashed
    BY <1>2 DEF vars
  <2>2. TypeOK' /\ \A c \in Clients : Typed(client[c])'
    BY <2>1 DEF IInv, TypeOK, plan, Typed
  <2>3. ASSUME ~clashed, NEW c \in Clients PROVE Holds(client[c])'
    <3>1. PICK k : k = client[c]
      OBVIOUS
    <3>2. Holds(k)'
      BY <2>1, <2>3, <3>1, HoldsKept DEF IInv
    <3> QED
      BY <2>1, <3>1, <3>2 DEF Holds
  <2>4. ~clashed => Sound'
    BY <2>1, SoundKept DEF IInv
  <2> QED
    BY <2>1, <2>2, <2>3, <2>4 DEF IInv
<1> QED
  BY <1>1, <1>2, CheckIInv, RefuseIInv, CreateAggregateIInv, DeleteIpIInv,
     ImportPrefixIInv, ImportIpIInv DEF Next

THEOREM Invariance == Spec => []IInv
  BY InitIInv, StepIInv, PTL DEF Spec

\* Every reachable state of the plan is well typed, overlapping requests or not.
THEOREM TypeCorrect == Spec => []TypeOK
<1>1. IInv => TypeOK
  BY DEF IInv
<1> QED
  BY <1>1, Invariance, PTL

\* Subnets stay inside their parents and in their parents' aggregates.
THEOREM StaysNested == Spec => []NestedInParent
<1>1. IInv => NestedInParent
  BY DEF IInv, Sound, Nested, FitsParent, NestedInParent
<1> QED
  BY <1>1, Invariance, PTL

\* Prefixes stay inside their aggregates, those with an empty prefix apart.
THEOREM StaysInAggregate == Spec => []InsideAggregate
<1>1. IInv => InsideAggregate
  BY DEF IInv, Sound, Contained, InAggregate, InsideAggregate
<1> QED
  BY <1>1, Invariance, PTL

\* Both together: the plan stays a forest of networks inside its aggregates.
THEOREM StaysWellPlaced == Spec => []WellPlaced
<1>1. NestedInParent /\ InsideAggregate => WellPlaced
  BY DEF WellPlaced
<1> QED
  BY <1>1, StaysNested, StaysInAggregate, PTL

\* No network comes to be planned twice in one aggregate.
THEOREM StaysUnique == Spec => []UniquePerAggregate
<1>1. IInv => UniquePerAggregate
  BY DEF IInv, Sound, Unique, UniquePerAggregate
<1> QED
  BY <1>1, Invariance, PTL

\* No edit, deletion or import leaves a registered address outside its prefix.
THEOREM AddressesStayInside == Spec => []HostsInside
<1>1. IInv => HostsInside
  BY DEF IInv, Sound, Placed, HostsInside
<1> QED
  BY <1>1, Invariance, PTL

\* Only a deletion takes a stored prefix away, and an undisturbed one takes
\* what it was asked to.
LEMMA OnlyAsked ==
  ASSUME IInv, Next, NEW p \in Stored, prefixes'[p] = None, ~clashed'
  PROVE  \E c \in Clients : /\ client[c].op \in {"delete_prefix", "delete_aggregate"}
                            /\ client[c].id \in {p, prefixes[p].agg}
<1>1. TypeOK /\ p \in PrefixIds /\ prefixes[p] # None
  BY DEF IInv, Stored
<1>2. ASSUME NEW c \in Clients, DeletePrefix(c)
      PROVE  client[c].op = "delete_prefix" /\ client[c].id = p
  <2>1. ~clashed
    BY <1>1, <1>2, AloneIdle DEF DeletePrefix, Ends, TypeOK
  <2>2. client[c].op = "delete_prefix" /\ IsLeaf(client[c].id)
    BY <1>2, <2>1 DEF DeletePrefix, IInv, Holds
  <2>3. p \in {client[c].id} \cup Children(client[c].id)
    BY <1>1, <1>2 DEF DeletePrefix, Remove
  <2> QED
    BY <2>2, <2>3 DEF IsLeaf
<1>3. ASSUME NEW c \in Clients, DeleteAggregate(c)
      PROVE  client[c].op = "delete_aggregate" /\ client[c].id = prefixes[p].agg
  <2>1. p \in Members(client[c].id)
    BY <1>1, <1>3 DEF DeleteAggregate, Remove
  <2> QED
    BY <1>3, <2>1 DEF DeleteAggregate, Members
<1>4. ASSUME NEW c \in Clients, UpdatePrefix(c) PROVE FALSE
  <2>1. client[c].row \in Prefix /\ client[c].old \in Prefix
    BY <1>4 DEF UpdatePrefix, IInv, Typed
  <2>2. PICK q, now, old, row :
          /\ q = client[c].id /\ now = prefixes[q] /\ q \in Stored
          /\ old = client[c].old /\ row = client[c].row
          /\ prefixes' = [prefixes EXCEPT ![q] = Merged(now, old, row)]
    BY <1>4 DEF UpdatePrefix
  <2>3. now \in Prefix
    BY <1>1, <2>2 DEF TypeOK, Stored
  <2>4. Merged(now, old, row) \in Prefix
    BY <2>1, <2>2, <2>3 DEF Merged, Prefix
  <2> QED
    BY <1>1, <2>2, <2>4, RowAssumption DEF TypeOK
<1>5. ASSUME NEW c \in Clients, CreatePrefix(c) PROVE FALSE
  BY <1>1, <1>5 DEF CreatePrefix, TypeOK
<1>6. ASSUME ImportPrefix \/ ImportIp PROVE FALSE
  <2>1. ASSUME NEW q \in PrefixIds \ Stored, NEW row,
               prefixes' = [prefixes EXCEPT ![q] = row]
        PROVE  FALSE
    BY <1>1, <2>1 DEF TypeOK
  <2>2. CASE ImportPrefix
    BY <2>1, <2>2 DEF ImportPrefix
  <2>3. CASE ImportIp
    BY <1>1, <2>1, <2>3 DEF ImportIp
  <2> QED
    BY <1>6, <2>2, <2>3
<1>7. ~UNCHANGED prefixes
  BY <1>1
<1>8. PICK c \in Clients : DeletePrefix(c) \/ DeleteAggregate(c)
  BY ZenonT(40), <1>4, <1>5, <1>6, <1>7
  DEF Next, Check, Commit, Refuse, plan, Waits, CheckUpdateAggregate, CheckDeleteAggregate,
      CheckCreatePrefix, CheckUpdatePrefix, CheckDeletePrefix, CheckCreateIp,
      UpdateAggregate, CreateIp, CreateAggregate, DeleteIp
<1> QED
  BY <1>2, <1>3, <1>8

\* The cascade of delete_prefix never takes a subnet along unasked.
THEOREM CascadeIsEmpty == Spec => NoSilentCascade
<1>1. IInv /\ [Next]_vars =>
        [\A p \in Stored : prefixes'[p] = None =>
           \/ clashed'
           \/ \E c \in Clients : /\ client[c].op \in {"delete_prefix", "delete_aggregate"}
                                 /\ client[c].id \in {p, prefixes[p].agg}]_vars
  BY OnlyAsked
<1> QED
  BY <1>1, Invariance, PTL DEF Spec, NoSilentCascade

=============================================================================
