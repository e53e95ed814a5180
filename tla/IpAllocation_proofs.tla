------------------------ MODULE IpAllocation_proofs ------------------------
(***************************************************************************)
(* What IpAllocation keeps for any rows, prefixes, addresses, machines and *)
(* requests.  An allocation is the only step that gives a row a machine,   *)
(* and what the other requests have checked still holds when they commit   *)
(* unless an allocation came between, which the model records.             *)
(***************************************************************************)
EXTENDS IpAllocation, TLAPS

\* What a request has checked is a row; a row it brings has no machine.
Typed ==
  \A c \in Clients :
    /\ client[c].op = "create" => client[c].row \in Registered
    /\ client[c].op \in {"update", "delete"} => client[c].id \in RowIds
    /\ client[c].op = "delete_prefix" => client[c].prefix \in PrefixIds

\* What it has checked still holds.
Holds(c) ==
  /\ client[c].op \in {"update", "delete"} /\ rows[client[c].id] # None
       => rows[client[c].id].vm = None
  /\ client[c].op = "delete_prefix" =>
       \A r \in RowIds : rows[r] # None /\ rows[r].prefix = client[c].prefix => rows[r].vm = None

Exclusive ==
  \A r \in RowIds : rows[r] # None /\ rows[r].vm # None
                      => rows[r].status = "used" /\ rows[r].use = "free"

Single ==
  \A r, s \in RowIds :
    rows[r] # None /\ rows[r].vm # None /\ rows[s] # None /\ rows[s].vm # None
      => (rows[r].address = rows[s].address => r = s)

Sound == Exclusive /\ Single /\ \A c \in Clients : Holds(c)

IInv == TypeOK /\ Typed /\ (~raced => Sound)

\* A step that gives no row a machine: a row stays, goes, loses a device, or
\* becomes one without a machine.
Unoccupying ==
  \A r \in RowIds :
    \/ rows'[r] = rows[r]
    \/ rows'[r] = None
    \/ rows'[r] \in Row /\ rows'[r].vm = None
    \/ /\ rows[r] \in Row /\ rows[r].use = "linked"
       /\ rows'[r] = [rows[r] EXCEPT !.use = "free"]

LEMMA Unoccupied ==
  ASSUME Sound, Unoccupying, NEW r \in RowIds, rows'[r] # None, rows'[r].vm # None
  PROVE  rows'[r] = rows[r]
<1>1. ASSUME rows[r] \in Row, rows[r].use = "linked", rows'[r] = [rows[r] EXCEPT !.use = "free"]
      PROVE  FALSE
  <2>1. rows[r] # None /\ rows'[r].vm = rows[r].vm
    BY <1>1, RowAssumption DEF Row
  <2> QED
    BY <1>1, <2>1 DEF Sound, Exclusive
<1> QED
  BY <1>1 DEF Unoccupying

LEMMA UnoccupyingSound ==
  ASSUME Typed, Sound, Unoccupying,
         \A c \in Clients : client'[c] = client[c] \/ client'[c] = Idle \/ Holds(c)'
  PROVE  Sound'
<1>1. ASSUME NEW r \in RowIds, rows'[r] # None, rows'[r].vm # None
      PROVE  rows'[r] = rows[r]
  BY <1>1, Unoccupied
<1>2. Exclusive'
  <2>1. ASSUME NEW r \in RowIds, rows'[r] # None, rows'[r].vm # None
        PROVE  rows'[r].status = "used" /\ rows'[r].use = "free"
    <3>1. rows'[r] = rows[r]
      BY <1>1, <2>1
    <3> QED
      BY <2>1, <3>1 DEF Sound, Exclusive
  <2> QED
    BY <2>1 DEF Exclusive
<1>3. Single'
  <2>1. ASSUME NEW r \in RowIds, NEW s \in RowIds, rows'[r] # None, rows'[r].vm # None,
               rows'[s] # None, rows'[s].vm # None, rows'[r].address = rows'[s].address
        PROVE  r = s
    <3>1. rows'[r] = rows[r] /\ rows'[s] = rows[s]
      BY <1>1, <2>1
    <3> QED
      BY <2>1, <3>1 DEF Sound, Single
  <2> QED
    BY <2>1 DEF Single
<1>4. ASSUME NEW c \in Clients, client'[c] = client[c] PROVE Holds(c)'
  <2>1. Holds(c)
    BY DEF Sound
  <2>2. ASSUME NEW r \in RowIds, rows'[r] # None, rows'[r].vm # None
        PROVE  rows[r] # None /\ rows[r].vm # None /\ rows'[r] = rows[r]
    BY <1>1, <2>2
  <2>3. client[c].op \in {"update", "delete"} => client[c].id \in RowIds
    BY DEF Typed
  <2>4. client[c].op \in {"update", "delete"} /\ rows'[client[c].id] # None
          => rows'[client[c].id].vm = None
    BY <2>1, <2>2, <2>3 DEF Holds
  <2>5. client[c].op = "delete_prefix" =>
          \A r \in RowIds : rows'[r] # None /\ rows'[r].prefix = client[c].prefix => rows'[r].vm = None
    BY <2>1, <2>2 DEF Holds
  <2> QED
    BY <1>4, <2>4, <2>5 DEF Holds
<1>5. ASSUME NEW c \in Clients, client'[c] = Idle PROVE Holds(c)'
  BY <1>5 DEF Holds, Idle
<1> QED
  BY <1>2, <1>3, <1>4, <1>5 DEF Sound

-----------------------------------------------------------------------------
(* Allocations *)

LEMMA OccupyKeeps ==
  ASSUME IInv, NEW r \in RowIds, NEW v \in VMs, NEW row \in Row, Occupy(r, v, row),
         row.prefix \in prefixes, row.use = "free", rows[r] \in {None, row},
         \A s \in RowIds \ {r} : rows[s] # None /\ rows[s].address = row.address => rows[s].vm = None
  PROVE  IInv'
<1>1. TypeOK /\ Typed
  BY DEF IInv
<1> DEFINE new == [row EXCEPT !.status = "used", !.vm = v]
<1>2. /\ rows' = [rows EXCEPT ![r] = new] /\ UNCHANGED <<prefixes, ips, client>>
      /\ raced' = (raced \/ Overtaken(r, row.prefix))
  BY DEF Occupy
<1>3. /\ new \in Row /\ new # None /\ new.vm = v /\ new.status = "used" /\ new.use = "free"
      /\ new.address = row.address /\ new.prefix = row.prefix /\ v # None
  BY RowAssumption, NoneAssumption DEF Row
<1> HIDE DEF new
<1>4. rows'[r] = new /\ \A s \in RowIds \ {r} : rows'[s] = rows[s]
  BY <1>1, <1>2 DEF TypeOK
<1>5. TypeOK'
  <2>1. rows' \in [RowIds -> Row \cup {None}]
    BY <1>1, <1>2, <1>3 DEF TypeOK
  <2>2. \A s \in RowIds : rows'[s] # None => rows'[s].prefix \in prefixes
    BY <1>1, <1>3, <1>4 DEF TypeOK, Stored
  <2>3. raced' \in BOOLEAN
    BY <1>1, <1>2 DEF TypeOK, Overtaken
  <2> QED
    BY <1>1, <1>2, <2>1, <2>2, <2>3 DEF TypeOK, Stored
<1>6. Typed'
  BY <1>1, <1>2 DEF Typed, Registered
<1>7. ASSUME ~raced' PROVE Sound'
  <2>1. Sound /\ ~Overtaken(r, row.prefix)
    BY <1>2, <1>7 DEF IInv
  <2>2. Exclusive'
    BY <1>3, <1>4, <2>1 DEF Sound, Exclusive
  <2>3. Single'
    <3>1. ASSUME NEW s \in RowIds \ {r}, rows'[s] # None, rows'[s].vm # None
          PROVE  rows'[s].address # new.address
      BY <1>3, <1>4, <3>1
    <3>2. \A s, t \in RowIds \ {r} :
            rows'[s] # None /\ rows'[s].vm # None /\ rows'[t] # None /\ rows'[t].vm # None
              => (rows'[s].address = rows'[t].address => s = t)
      BY <1>4, <2>1 DEF Sound, Single
    <3> QED
      BY <1>4, <3>1, <3>2 DEF Single
  <2>4. ASSUME NEW c \in Clients PROVE Holds(c)'
    <3>1. Holds(c) /\ client'[c] = client[c]
      BY <1>2, <2>1 DEF Sound
    <3>2. /\ client[c].op \in {"update", "delete"} => client[c].id \in RowIds \ {r}
          /\ client[c].op = "delete_prefix" => client[c].prefix # new.prefix
      BY <1>1, <1>3, <2>1 DEF Overtaken, Typed
    <3> QED
      BY <1>4, <3>1, <3>2 DEF Holds
  <2> QED
    BY <2>2, <2>3, <2>4 DEF Sound
<1> QED
  BY <1>5, <1>6, <1>7 DEF IInv

\* An allocation finds a row without a machine, or none, and every other row of
\* the address is without a machine, too.
LEMMA AllocateOccupies ==
  ASSUME IInv, NEW v \in VMs, Allocate(v)
  PROVE  \E r \in RowIds, row \in Row :
           /\ Occupy(r, v, row)
           /\ row.prefix \in prefixes /\ row.use = "free"
           /\ rows[r] \in {None, row} /\ row.vm = None
           /\ \A s \in RowIds \ {r} : rows[s] # None /\ rows[s].address = row.address
                                        => rows[s].vm = None
           /\ v \in Machines /\ row.address \in ips[v] /\ Unshared(v, row.address)
<1>1. PICK p \in prefixes, a \in Addresses :
        /\ v \in Machines /\ a \in ips[v] /\ Unshared(v, a)
        /\ ElsewhereFree(a, p)
        /\ \/ \E r \in RowIds : /\ At(a) \cap Rows(p) = {r} /\ Available(rows[r])
                                /\ Occupy(r, v, rows[r])
           \/ \E r \in RowIds \ Stored : /\ At(a) \cap Rows(p) = {}
                                         /\ Occupy(r, v, Planned(p, a))
  BY NetAssumption DEF Allocate, IInv, TypeOK
<1>2. TypeOK /\ p \in PrefixIds
  BY DEF IInv, TypeOK
<1>3. ASSUME NEW s \in RowIds, rows[s] # None, rows[s].address = a, rows[s].prefix # p
      PROVE  rows[s].vm = None
  BY <1>1, <1>3 DEF ElsewhereFree, At, Rows, Stored
<1>4. CASE \E r \in RowIds : /\ At(a) \cap Rows(p) = {r} /\ Available(rows[r])
                             /\ Occupy(r, v, rows[r])
  <2>0. PICK r \in RowIds : /\ At(a) \cap Rows(p) = {r} /\ Available(rows[r])
                           /\ Occupy(r, v, rows[r])
    BY <1>4
  <2>1. /\ rows[r] \in Row /\ rows[r].prefix = p /\ rows[r].address = a
        /\ rows[r].use = "free" /\ rows[r].vm = None
    BY <1>2, <2>0 DEF At, Rows, Stored, Available, TypeOK
  <2>2. \A s \in RowIds \ {r} : rows[s] # None /\ rows[s].address = rows[r].address => rows[s].vm = None
    BY <1>3, <2>0, <2>1 DEF At, Rows, Stored
  <2> QED
    BY <1>1, <2>0, <2>1, <2>2
<1>5. CASE \E r \in RowIds \ Stored : At(a) \cap Rows(p) = {} /\ Occupy(r, v, Planned(p, a))
  <2>0. PICK r \in RowIds \ Stored : At(a) \cap Rows(p) = {} /\ Occupy(r, v, Planned(p, a))
    BY <1>5
  <2>1. /\ Planned(p, a) \in Row /\ Planned(p, a).prefix = p /\ Planned(p, a).address = a
        /\ Planned(p, a).use = "free" /\ Planned(p, a).vm = None /\ rows[r] = None
    BY <1>2 DEF Planned, Row, Use, Stored
  <2>2. \A s \in RowIds \ {r} : rows[s] # None /\ rows[s].address = a => rows[s].vm = None
    BY <1>3, <2>0 DEF At, Rows, Stored
  <2> QED
    BY <1>1, <2>0, <2>1, <2>2
<1> QED
  BY <1>1, <1>4, <1>5

LEMMA AllocateKeeps ==
  ASSUME IInv, NEW v \in VMs, Allocate(v)
  PROVE  IInv'
BY AllocateOccupies, OccupyKeeps

-----------------------------------------------------------------------------
(* Checks *)

LEMMA WaitsKeeps ==
  ASSUME IInv, NEW c \in Clients, NEW request \in Request, Waits(c, request),
         request.op = "create" => request.row \in Registered,
         request.op \in {"update", "delete"} =>
           request.id \in RowIds /\ (rows[request.id] # None => rows[request.id].vm = None),
         request.op = "delete_prefix" =>
           /\ request.prefix \in PrefixIds
           /\ \A r \in RowIds : rows[r] # None /\ rows[r].prefix = request.prefix => rows[r].vm = None
  PROVE  IInv'
<1>1. TypeOK /\ Typed
  BY DEF IInv
<1>2. client' = [client EXCEPT ![c] = request] /\ UNCHANGED <<prefixes, rows, ips, raced>>
  BY DEF Waits
<1>3. client'[c] = request /\ \A d \in Clients \ {c} : client'[d] = client[d]
  BY <1>1, <1>2 DEF TypeOK
<1>4. TypeOK'
  BY <1>1, <1>2 DEF TypeOK, Stored
<1>5. Typed'
  BY <1>1, <1>3 DEF Typed, Registered
<1>6. ASSUME ~raced' PROVE Sound'
  <2>1. Sound
    BY <1>2, <1>6 DEF IInv
  <2>2. Exclusive' /\ Single'
    BY <1>2, <2>1 DEF Sound, Exclusive, Single
  <2>3. Holds(c)'
    BY <1>2, <1>3 DEF Holds
  <2>4. \A d \in Clients \ {c} : Holds(d)'
    BY <1>2, <1>3, <2>1 DEF Sound, Holds
  <2> QED
    BY <2>2, <2>3, <2>4 DEF Sound
<1> QED
  BY <1>4, <1>5, <1>6 DEF IInv

\* What an edit changes.
LEMMA DifferenceTyped ==
  ASSUME NEW old \in Row, NEW new \in Row
  PROVE  Difference(old, new) \in Changes
  BY DEF Difference, Unchanged, Changes, Row

LEMMA CheckKeeps ==
  ASSUME IInv, NEW c \in Clients, Check(c)
  PROVE  IInv'
<1>1. TypeOK
  BY DEF IInv
<1>2. Idle \in Request
  BY DEF Idle, Request, Changes, Unchanged
<1>3. CASE CheckCreateIp(c)
  <2>1. PICK row \in Registered : Waits(c, [Idle EXCEPT !.op = "create", !.row = row])
    BY <1>3 DEF CheckCreateIp
  <2> DEFINE request == [Idle EXCEPT !.op = "create", !.row = row]
  <2>2. request \in Request /\ request.op = "create" /\ request.row = row
    BY <2>1 DEF Idle, Request, Changes, Unchanged, Registered
  <2> HIDE DEF request
  <2>3. Waits(c, request)
    BY <2>1 DEF request
  <2> QED
    BY <2>1, <2>2, <2>3, WaitsKeeps
<1>4. CASE CheckUpdateIp(c)
  <2>1. PICK r \in Stored \ Occupied, row \in Registered :
          Waits(c, [Idle EXCEPT !.op = "update", !.id = r, !.set = Difference(rows[r], row)])
    BY <1>4 DEF CheckUpdateIp
  <2>2. r \in RowIds /\ rows[r] \in Row /\ rows[r].vm = None
    BY <1>1, <2>1 DEF Stored, Occupied, TypeOK
  <2> DEFINE set == Difference(rows[r], row)
  <2>3. set \in Changes
    BY <2>1, <2>2, DifferenceTyped DEF Registered
  <2> HIDE DEF set
  <2> DEFINE request == [Idle EXCEPT !.op = "update", !.id = r, !.set = set]
  <2>4. request \in Request /\ request.op = "update" /\ request.id = r
    BY <2>2, <2>3 DEF Idle, Request
  <2> HIDE DEF request
  <2>5. Waits(c, request)
    BY <2>1 DEF request, set
  <2> QED
    BY <2>1, <2>2, <2>4, <2>5, WaitsKeeps
<1>5. CASE CheckDeleteIp(c)
  <2>1. PICK r \in Stored \ Occupied : Waits(c, [Idle EXCEPT !.op = "delete", !.id = r])
    BY <1>5 DEF CheckDeleteIp
  <2>2. r \in RowIds /\ rows[r].vm = None
    BY <2>1 DEF Stored, Occupied
  <2> DEFINE request == [Idle EXCEPT !.op = "delete", !.id = r]
  <2>3. request \in Request /\ request.op = "delete" /\ request.id = r
    BY <2>2 DEF Idle, Request, Changes, Unchanged
  <2> HIDE DEF request
  <2>4. Waits(c, request)
    BY <2>1 DEF request
  <2> QED
    BY <2>2, <2>3, <2>4, WaitsKeeps
<1>6. CASE CheckDeletePrefix(c)
  <2>1. PICK p \in prefixes :
          MayDeletePrefix(p) /\ Waits(c, [Idle EXCEPT !.op = "delete_prefix", !.prefix = p])
    BY <1>6 DEF CheckDeletePrefix
  <2>2. p \in PrefixIds
    BY <1>1 DEF TypeOK
  <2>3. \A r \in RowIds : rows[r] # None /\ rows[r].prefix = p => rows[r].vm = None
    BY <2>1 DEF MayDeletePrefix, Rows, Stored, Occupied
  <2> DEFINE request == [Idle EXCEPT !.op = "delete_prefix", !.prefix = p]
  <2>4. request \in Request /\ request.op = "delete_prefix" /\ request.prefix = p
    BY <2>2 DEF Idle, Request, Changes, Unchanged
  <2> HIDE DEF request
  <2>5. Waits(c, request)
    BY <2>1 DEF request
  <2> QED
    BY <2>2, <2>3, <2>4, <2>5, WaitsKeeps
<1>7. CASE CheckDeleteVms(c)
  <2>1. PICK vs \in SUBSET Machines \ {{}} : Waits(c, [Idle EXCEPT !.op = "delete_vms", !.vms = vs])
    BY <1>7 DEF CheckDeleteVms
  <2> DEFINE request == [Idle EXCEPT !.op = "delete_vms", !.vms = vs]
  <2>2. request \in Request /\ request.op = "delete_vms"
    BY DEF Idle, Request, Changes, Unchanged, Machines
  <2> HIDE DEF request
  <2>3. Waits(c, request)
    BY <2>1 DEF request
  <2> QED
    BY <2>2, <2>3, WaitsKeeps
<1> QED
  BY <1>3, <1>4, <1>5, <1>6, <1>7 DEF Check

-----------------------------------------------------------------------------
(* Commits and the other steps *)

LEMMA QuietKeeps ==
  ASSUME IInv, TypeOK', raced' = raced, ~raced => Unoccupying,
         \A c \in Clients : client'[c] = client[c] \/ client'[c] = Idle
  PROVE  IInv'
<1>1. Typed'
  BY DEF IInv, Typed, Registered, Idle
<1>2. ASSUME ~raced' PROVE Sound'
  BY <1>2, UnoccupyingSound DEF IInv
<1> QED
  BY <1>1, <1>2 DEF IInv

LEMMA EndsTyped ==
  ASSUME TypeOK, NEW c \in Clients, Ends(c)
  PROVE  /\ client' \in [Clients -> Request] /\ raced' = raced
         /\ \A d \in Clients : client'[d] = client[d] \/ client'[d] = Idle
<1>1. Idle \in Request
  BY DEF Idle, Request, Changes, Unchanged
<1> QED
  BY <1>1 DEF TypeOK, Ends

\* The columns a session wrote, and those that others wrote meanwhile.
LEMMA MergedTyped ==
  ASSUME NEW now \in Row, NEW set \in Changes
  PROVE  Merged(now, set) \in Row /\ Merged(now, set).vm = now.vm
  BY DEF Merged, Row, Changes

\* One row changes, to one that belongs to a prefix, or none.
LEMMA RowChanges ==
  ASSUME TypeOK, NEW r \in RowIds, NEW row \in Row \cup {None}, rows' = [rows EXCEPT ![r] = row],
         row # None => row.prefix \in prefixes, UNCHANGED <<prefixes, ips, raced>>,
         client' \in [Clients -> Request]
  PROVE  /\ TypeOK' /\ rows'[r] = row
         /\ \A s \in RowIds \ {r} : rows'[s] = rows[s]
<1>1. rows'[r] = row /\ \A s \in RowIds \ {r} : rows'[s] = rows[s]
  BY DEF TypeOK
<1>2. rows' \in [RowIds -> Row \cup {None}]
  BY DEF TypeOK
<1>3. \A s \in RowIds : rows'[s] # None => rows'[s].prefix \in prefixes
  BY <1>1 DEF TypeOK, Stored
<1> QED
  BY <1>1, <1>2, <1>3 DEF TypeOK, Stored

\* What a request has checked still holds, so that its commit gives no row a
\* machine.
LEMMA CommitQuiet ==
  ASSUME IInv, NEW c \in Clients, Commit(c) \/ Refuse(c)
  PROVE  TypeOK' /\ (~raced => Unoccupying)
<1>1. TypeOK /\ Typed /\ (~raced => Sound)
  BY DEF IInv
<1>2. /\ client' \in [Clients -> Request] /\ raced' = raced
      /\ \A d \in Clients : client'[d] = client[d] \/ client'[d] = Idle
  BY <1>1, EndsTyped
  DEF Commit, Refuse, CreateIp, UpdateIp, DeleteIp, DeletePrefix, DeleteVms
<1>3. CASE CreateIp(c)
  <2>1. PICK r \in RowIds \ Stored : rows' = [rows EXCEPT ![r] = client[c].row]
    BY <1>3 DEF CreateIp
  <2>2. /\ client[c].row \in Row /\ client[c].row.vm = None /\ client[c].row.prefix \in prefixes
        /\ UNCHANGED <<prefixes, ips, raced>>
    BY <1>1, <1>2, <1>3 DEF CreateIp, Typed, Registered
  <2>3. PICK row \in Row : row = client[c].row /\ rows' = [rows EXCEPT ![r] = row]
    BY <2>1, <2>2
  <2>4. /\ TypeOK' /\ rows'[r] = row /\ \A s \in RowIds \ {r} : rows'[s] = rows[s]
    BY <1>1, <1>2, <2>2, <2>3, RowChanges
  <2>5. Unoccupying
    BY <2>2, <2>3, <2>4 DEF Unoccupying
  <2> QED
    BY <2>4, <2>5
<1>4. CASE UpdateIp(c)
  <2>1. PICK r, new : /\ r = client[c].id /\ r \in Stored
                      /\ new = Merged(rows[r], client[c].set)
                      /\ rows' = [rows EXCEPT ![r] = new] /\ rows'[r].prefix \in prefixes
    BY <1>4 DEF UpdateIp
  <2>2. /\ client[c].op = "update" /\ client[c].set \in Changes
        /\ UNCHANGED <<prefixes, ips, raced>>
    BY <1>1, <1>2, <1>4 DEF UpdateIp, TypeOK, Request
  <2>3. r \in RowIds /\ rows[r] \in Row /\ rows[r] # None
    BY <1>1, <2>1 DEF Stored, TypeOK
  <2>4. new \in Row /\ new.vm = rows[r].vm
    BY <2>1, <2>2, <2>3, MergedTyped
  <2>5. rows'[r] = new
    BY <1>1, <2>1, <2>3 DEF TypeOK
  <2>6. TypeOK' /\ \A s \in RowIds \ {r} : rows'[s] = rows[s]
    BY <1>1, <1>2, <2>1, <2>2, <2>3, <2>4, <2>5, RowChanges
  <2>7. ~raced => rows[r].vm = None
    BY <1>1, <2>1, <2>2, <2>3 DEF Sound, Holds
  <2>8. ~raced => Unoccupying
    BY <2>3, <2>4, <2>5, <2>6, <2>7 DEF Unoccupying
  <2> QED
    BY <2>6, <2>8
<1>5. CASE DeleteIp(c)
  <2>1. client[c].id \in RowIds /\ rows' = [rows EXCEPT ![client[c].id] = None]
        /\ UNCHANGED <<prefixes, ips, raced>>
    BY <1>2, <1>5 DEF DeleteIp, Stored
  <2>2. /\ TypeOK' /\ rows'[client[c].id] = None
        /\ \A s \in RowIds \ {client[c].id} : rows'[s] = rows[s]
    BY <1>1, <1>2, <2>1, RowChanges
  <2>3. Unoccupying
    BY <2>2 DEF Unoccupying
  <2> QED
    BY <2>2, <2>3
<1>6. CASE DeletePrefix(c)
  <2>1. PICK p : /\ p \in prefixes /\ prefixes' = prefixes \ {p} /\ ips' = ips
                 /\ rows' = [r \in RowIds |-> IF r \in Rows(p) THEN None ELSE rows[r]]
    BY <1>6 DEF DeletePrefix, Cascade
  <2>2. \A r \in RowIds : rows'[r] = None \/ (rows'[r] = rows[r] /\ rows[r].prefix # p)
    BY <2>1 DEF Rows, Stored
  <2>3. rows' \in [RowIds -> Row \cup {None}]
    BY <1>1, <2>1 DEF TypeOK
  <2>4. \A r \in RowIds : rows'[r] # None => rows'[r].prefix \in prefixes'
    BY <1>1, <2>1, <2>2 DEF TypeOK, Stored
  <2>5. TypeOK'
    BY <1>1, <1>2, <2>1, <2>3, <2>4 DEF TypeOK, Stored
  <2>6. Unoccupying
    BY <2>2 DEF Unoccupying
  <2> QED
    BY <2>5, <2>6
<1>7. CASE DeleteVms(c)
  <2>1. UNCHANGED <<prefixes, rows>> /\ ips' \in [VMs -> Reports \cup {None}]
    BY <1>1, <1>7 DEF DeleteVms, TypeOK
  <2>2. TypeOK' /\ Unoccupying
    BY <1>1, <1>2, <2>1 DEF TypeOK, Stored, Unoccupying
  <2> QED
    BY <2>2
<1>8. CASE Refuse(c)
  <2>1. TypeOK' /\ Unoccupying
    BY <1>1, <1>2, <1>8 DEF Refuse, TypeOK, Stored, Unoccupying
  <2> QED
    BY <2>1
<1> QED
  BY <1>3, <1>4, <1>5, <1>6, <1>7, <1>8 DEF Commit

LEMMA CommitKeeps ==
  ASSUME IInv, NEW c \in Clients, Commit(c) \/ Refuse(c)
  PROVE  IInv'
<1>1. TypeOK
  BY DEF IInv
<1>2. raced' = raced /\ \A d \in Clients : client'[d] = client[d] \/ client'[d] = Idle
  BY <1>1, EndsTyped
  DEF Commit, Refuse, CreateIp, UpdateIp, DeleteIp, DeletePrefix, DeleteVms
<1> QED
  BY <1>2, CommitQuiet, QuietKeeps

LEMMA OthersQuiet ==
  ASSUME IInv, \/ \E v \in VMs : Release(v) \/ Report(v)
               \/ Generate \/ ImportIp \/ DeleteDevice \/ SyncDevice
  PROVE  TypeOK' /\ Unoccupying
<1>1. TypeOK
  BY DEF IInv
<1>3. ASSUME NEW v \in VMs, Release(v) PROVE TypeOK' /\ Unoccupying
  <2>1. PICK r \in Occupied : /\ rows' = [rows EXCEPT ![r] = Released(rows[r])]
                              /\ UNCHANGED <<prefixes, ips, client, raced>>
    BY <1>3 DEF Release
  <2>2. r \in RowIds /\ rows[r] \in Row /\ rows[r].prefix \in prefixes
    BY <1>1, <2>1 DEF Occupied, Stored, TypeOK
  <2>3. /\ Released(rows[r]) \in Row /\ Released(rows[r]).vm = None
        /\ Released(rows[r]).prefix = rows[r].prefix
    BY <2>2 DEF Released, Row
  <2>4. client' \in [Clients -> Request]
    BY <1>1, <2>1 DEF TypeOK
  <2>5. /\ TypeOK' /\ rows'[r] = Released(rows[r])
        /\ \A s \in RowIds \ {r} : rows'[s] = rows[s]
    BY <1>1, <2>1, <2>2, <2>3, <2>4, RowChanges
  <2> QED
    BY <2>3, <2>5 DEF Unoccupying
<1>4. ASSUME NEW v \in VMs, Report(v) PROVE TypeOK' /\ Unoccupying
  BY <1>1, <1>4 DEF Report, TypeOK, Stored, Unoccupying
<1>5. CASE ImportIp
  <2>1. PICK row \in Registered, r \in RowIds \ Stored :
          /\ row.prefix \in prefixes /\ rows' = [rows EXCEPT ![r] = row]
          /\ UNCHANGED <<prefixes, ips, client, raced>>
    BY <1>5 DEF ImportIp
  <2>2. row \in Row /\ row.vm = None /\ client' \in [Clients -> Request]
    BY <1>1, <2>1 DEF Registered, TypeOK
  <2> QED
    BY <1>1, <2>1, <2>2, RowChanges DEF Unoccupying
<1>6. CASE Generate
  <2>0. PICK p \in prefixes : \E as, new :
          /\ as \subseteq Net[p] /\ new \in [as -> RowIds \ Stored]
          /\ rows' = [r \in RowIds |-> IF \E a \in DOMAIN new : new[a] = r
                                       THEN Planned(p, CHOOSE a \in DOMAIN new : new[a] = r)
                                       ELSE rows[r]]
          /\ UNCHANGED <<prefixes, ips, client, raced>>
    <3>1. PICK p \in prefixes :
            LET missing == {a \in Net[p] : At(a) \cap Rows(p) = {}} IN
            \E again \in SUBSET ((Net[p] \cap Spelled) \ missing) :
              \E new \in [missing \cup again -> RowIds \ Stored] :
                /\ rows' = [r \in RowIds |-> IF \E a \in DOMAIN new : new[a] = r
                                             THEN Planned(p, CHOOSE a \in DOMAIN new : new[a] = r)
                                             ELSE rows[r]]
                /\ UNCHANGED <<prefixes, ips, client, raced>>
      BY ZenonT(60), <1>6 DEF Generate
    <3> DEFINE missing == {a \in Net[p] : At(a) \cap Rows(p) = {}}
    <3>2. missing \subseteq Net[p]
      OBVIOUS
    <3>3. PICK again \in SUBSET ((Net[p] \cap Spelled) \ missing) :
            \E new \in [missing \cup again -> RowIds \ Stored] :
              /\ rows' = [r \in RowIds |-> IF \E a \in DOMAIN new : new[a] = r
                                           THEN Planned(p, CHOOSE a \in DOMAIN new : new[a] = r)
                                           ELSE rows[r]]
              /\ UNCHANGED <<prefixes, ips, client, raced>>
      BY <3>1
    <3> HIDE DEF missing
    <3>4. missing \cup again \subseteq Net[p]
      BY <3>2
    <3> QED
      BY <3>3, <3>4
  <2>1. PICK as, new :
          /\ as \subseteq Net[p] /\ new \in [as -> RowIds \ Stored]
          /\ rows' = [r \in RowIds |-> IF \E a \in DOMAIN new : new[a] = r
                                       THEN Planned(p, CHOOSE a \in DOMAIN new : new[a] = r)
                                       ELSE rows[r]]
          /\ UNCHANGED <<prefixes, ips, client, raced>>
    BY <2>0
  <2>2. Net[p] \subseteq Addresses /\ p \in PrefixIds
    BY <1>1, <2>1, NetAssumption DEF TypeOK
  <2>3. ASSUME NEW r \in RowIds
        PROVE  rows'[r] = rows[r] \/ \E a \in Addresses : rows'[r] = Planned(p, a)
    BY <2>1, <2>2, <2>3
  <2>4. ASSUME NEW a \in Addresses
        PROVE  Planned(p, a) \in Row /\ Planned(p, a).vm = None /\ Planned(p, a).prefix = p
    BY <2>2, <2>4 DEF Planned, Row, Use
  <2>5. ASSUME NEW r \in RowIds
        PROVE  \/ rows'[r] = rows[r]
               \/ rows'[r] \in Row /\ rows'[r].vm = None /\ rows'[r].prefix \in prefixes
    <3>1. CASE rows'[r] = rows[r]
      BY <3>1
    <3>2. ASSUME NEW a \in Addresses, rows'[r] = Planned(p, a)
          PROVE  rows'[r] \in Row /\ rows'[r].vm = None /\ rows'[r].prefix \in prefixes
      BY <2>1, <2>4, <3>2
    <3> QED
      BY <2>3, <3>1, <3>2
  <2>6. rows' \in [RowIds -> Row \cup {None}]
    <3>1. \A r \in RowIds : rows'[r] \in Row \cup {None}
      BY <1>1, <2>5 DEF TypeOK
    <3>2. rows' = [r \in RowIds |-> rows'[r]]
      BY <2>1
    <3> QED
      BY <3>1, <3>2
  <2>7. TypeOK'
    BY <1>1, <2>1, <2>5, <2>6 DEF TypeOK, Stored
  <2> QED
    BY <2>5, <2>7 DEF Unoccupying
<1>7. CASE DeleteDevice
  <2>0. PICK rs \in SUBSET Linked : \E gone \in SUBSET rs :
          /\ rows' = [r \in RowIds |-> IF r \in gone THEN None
                                     ELSE IF r \in rs THEN [rows[r] EXCEPT !.use = "free"]
                                     ELSE rows[r]]
          /\ UNCHANGED <<prefixes, ips, client, raced>>
    BY <1>7 DEF DeleteDevice
  <2>1. PICK gone \in SUBSET rs :
          /\ rows' = [r \in RowIds |-> IF r \in gone THEN None
                                     ELSE IF r \in rs THEN [rows[r] EXCEPT !.use = "free"]
                                     ELSE rows[r]]
          /\ UNCHANGED <<prefixes, ips, client, raced>>
    BY <2>0
  <2>2. ASSUME NEW r \in RowIds
        PROVE  \/ rows'[r] = rows[r]
               \/ rows'[r] = None
               \/ /\ rows[r] \in Row /\ rows[r].use = "linked"
                  /\ rows'[r] = [rows[r] EXCEPT !.use = "free"]
    BY <1>1, <2>1 DEF TypeOK, Stored, Linked
  <2>3. ASSUME NEW row \in Row
        PROVE  [row EXCEPT !.use = "free"] \in Row /\ [row EXCEPT !.use = "free"].prefix = row.prefix
    BY DEF Row, Use
  <2>4. ASSUME NEW r \in RowIds
        PROVE  \/ rows'[r] = rows[r]
               \/ rows'[r] = None
               \/ rows[r] \in Row /\ rows'[r] \in Row /\ rows'[r].prefix = rows[r].prefix
    <3>1. ASSUME rows[r] \in Row, rows'[r] = [rows[r] EXCEPT !.use = "free"]
          PROVE  rows'[r] \in Row /\ rows'[r].prefix = rows[r].prefix
      BY <2>3, <3>1
    <3> QED
      BY <2>2, <2>4, <3>1
  <2>5. /\ rows' \in [RowIds -> Row \cup {None}]
        /\ \A r \in RowIds : rows'[r] # None => rows'[r].prefix \in prefixes
    <3>1. \A r \in RowIds : rows'[r] \in Row \cup {None}
      BY <1>1, <2>4 DEF TypeOK
    <3>2. \A r \in RowIds : rows'[r] # None => rows'[r].prefix \in prefixes
      BY <1>1, <2>4, RowAssumption DEF TypeOK, Stored
    <3>3. rows' = [r \in RowIds |-> rows'[r]]
      BY <2>1
    <3> QED
      BY <3>1, <3>2, <3>3
  <2>6. TypeOK'
    BY <1>1, <2>1, <2>5 DEF TypeOK, Stored
  <2> QED
    BY <2>2, <2>6 DEF Unoccupying
<1>8. CASE SyncDevice
  <2>1. PICK gone \in SUBSET Linked, as \in SUBSET Addresses : Resync(gone, as)
    BY <1>8 DEF SyncDevice
  <2>2. PICK place \in [as -> prefixes] :
          /\ \E new \in [as -> RowIds \ (Stored \ gone)] :
               rows' = [r \in RowIds |-> Synced(gone, place, new, r)]
          /\ UNCHANGED <<prefixes, ips, client, raced>>
    BY <2>1 DEF Resync
  <2>3. PICK new \in [as -> RowIds \ (Stored \ gone)] :
          rows' = [r \in RowIds |-> Synced(gone, place, new, r)]
    BY <2>2
  <2>4. ASSUME NEW r \in RowIds
        PROVE  \/ rows'[r] = rows[r]
               \/ rows'[r] = None
               \/ \E a \in as : rows'[r] = OfDevice(place[a], a)
    <3>1. rows'[r] = Synced(gone, place, new, r)
      BY <2>3
    <3> QED
      BY <2>3, <3>1 DEF Synced
  <2>5. ASSUME NEW a \in as
        PROVE  /\ OfDevice(place[a], a) \in Row /\ OfDevice(place[a], a).vm = None
               /\ OfDevice(place[a], a).prefix \in prefixes
    <3>1. a \in Addresses /\ place[a] \in prefixes /\ place[a] \in PrefixIds
      BY <1>1, <2>2 DEF TypeOK
    <3> QED
      BY <3>1 DEF OfDevice, Row, Use
  <2>6. ASSUME NEW r \in RowIds
        PROVE  \/ rows'[r] = rows[r]
               \/ rows'[r] = None
               \/ rows'[r] \in Row /\ rows'[r].vm = None /\ rows'[r].prefix \in prefixes
    BY <2>4, <2>5
  <2>7. rows' \in [RowIds -> Row \cup {None}]
    <3>1. \A r \in RowIds : rows'[r] \in Row \cup {None}
      BY <1>1, <2>6 DEF TypeOK
    <3>2. rows' = [r \in RowIds |-> rows'[r]]
      BY <2>3
    <3> QED
      BY <3>1, <3>2
  <2>8. TypeOK'
    BY <1>1, <2>2, <2>6, <2>7 DEF TypeOK, Stored
  <2> QED
    BY <2>6, <2>8 DEF Unoccupying
<1> QED
  BY <1>3, <1>4, <1>5, <1>6, <1>7, <1>8

LEMMA OthersKeep ==
  ASSUME IInv, \/ \E v \in VMs : Release(v) \/ Report(v)
               \/ Generate \/ ImportIp \/ DeleteDevice \/ SyncDevice
  PROVE  IInv'
<1>1. UNCHANGED <<client, raced>>
  BY DEF Release, Report, Generate, ImportIp, DeleteDevice, SyncDevice, Resync
<1> QED
  BY <1>1, OthersQuiet, QuietKeeps

-----------------------------------------------------------------------------
(* The theorems *)

LEMMA Invariance == Spec => []IInv
<1>1. Init => IInv
  <2> SUFFICES ASSUME Init PROVE IInv
    OBVIOUS
  <2>1. Idle \in Request
    BY DEF Idle, Request, Changes, Unchanged
  <2>2. TypeOK
    BY <2>1 DEF Init, TypeOK, Stored
  <2> QED
    BY <2>2 DEF Init, IInv, Typed, Sound, Exclusive, Single, Holds, Idle
<1>2. IInv /\ [Next]_vars => IInv'
  <2>1. ASSUME IInv, UNCHANGED vars PROVE IInv'
    BY <2>1 DEF vars, IInv, TypeOK, Stored, Typed, Registered, Sound, Exclusive, Single, Holds
  <2>2. ASSUME IInv, Next PROVE IInv'
    BY <2>2, AllocateKeeps, CheckKeeps, CommitKeeps, OthersKeep DEF Next
  <2> QED
    BY <2>1, <2>2
<1> QED
  BY <1>1, <1>2, PTL DEF Spec

\* Rows, machines and requests are well typed, and rows belong to prefixes.
THEOREM TypeCorrect == Spec => []TypeOK
<1>1. IInv => TypeOK
  BY DEF IInv
<1> QED
  BY <1>1, Invariance, PTL

\* However many machines and networks share an address, one machine occupies it.
THEOREM OneMachine == Spec => []OneMachinePerAddress
<1>1. IInv => OneMachinePerAddress
  BY DEF IInv, Sound, Single, OneMachinePerAddress, Occupied, Stored
<1> QED
  BY <1>1, Invariance, PTL

\* No sequence of requests gives an occupied address a second use.
THEOREM StaysExclusive == Spec => []OccupiedIsExclusive
<1>1. IInv => OccupiedIsExclusive
  BY DEF IInv, Sound, Exclusive, OccupiedIsExclusive, Occupied, Stored
<1> QED
  BY <1>1, Invariance, PTL

\* A step that changes an occupied row is a release.
LEMMA OnlyReleases ==
  ASSUME IInv, Next, ~raced, NEW r \in Occupied, rows'[r] # rows[r]
  PROVE  \E v \in VMs : Release(v)
<1>1. /\ TypeOK /\ Sound /\ Typed /\ r \in RowIds /\ r \in Stored /\ rows[r] # None
      /\ rows[r].vm # None /\ rows[r] \in Row
  BY DEF IInv, Occupied, Stored, TypeOK
<1>2. ASSUME NEW v \in VMs, Allocate(v) PROVE FALSE
  <2>1. PICK s, row : s \in RowIds /\ Occupy(s, v, row) /\ (s \notin Stored \/ rows[s].vm = None)
    BY <1>2 DEF Allocate, Available
  <2> QED
    BY <1>1, <2>1 DEF Occupy, TypeOK
<1>4. ASSUME NEW c \in Clients, Commit(c) PROVE FALSE
  <2>1. CASE CreateIp(c)
    BY <1>1, <2>1 DEF CreateIp, TypeOK
  <2>2. CASE UpdateIp(c)
    <3>1. client[c].op = "update" /\ client[c].id = r
      BY <1>1, <2>2 DEF UpdateIp, TypeOK
    <3> QED
      BY <1>1, <3>1 DEF Sound, Holds
  <2>3. CASE DeleteIp(c)
    <3>1. client[c].op = "delete" /\ client[c].id = r
      BY <1>1, <2>3 DEF DeleteIp, TypeOK
    <3> QED
      BY <1>1, <3>1 DEF Sound, Holds
  <2>4. CASE DeletePrefix(c)
    <3>1. client[c].op = "delete_prefix" /\ r \in Rows(client[c].prefix)
      BY <1>1, <2>4 DEF DeletePrefix, Cascade
    <3> QED
      BY <1>1, <3>1 DEF Sound, Holds, Rows
  <2>5. CASE DeleteVms(c)
    BY SMTT(30), <2>5 DEF DeleteVms
  <2> QED
    BY <1>4, <2>1, <2>2, <2>3, <2>4, <2>5 DEF Commit
<1>5. ASSUME NEW c \in Clients, Check(c) \/ Refuse(c) PROVE FALSE
  BY <1>5 DEF Check, CheckCreateIp, CheckUpdateIp, CheckDeleteIp, CheckDeletePrefix,
              CheckDeleteVms, Waits, Refuse
<1>6. CASE Generate
  <2>1. PICK p \in prefixes : \E as, new :
          /\ new \in [as -> RowIds \ Stored]
          /\ rows' = [s \in RowIds |-> IF \E a \in DOMAIN new : new[a] = s
                                       THEN Planned(p, CHOOSE a \in DOMAIN new : new[a] = s)
                                       ELSE rows[s]]
    BY <1>6 DEF Generate
  <2>2. PICK new, as :
          /\ new \in [as -> RowIds \ Stored]
          /\ rows' = [s \in RowIds |-> IF \E a \in DOMAIN new : new[a] = s
                                       THEN Planned(p, CHOOSE a \in DOMAIN new : new[a] = s)
                                       ELSE rows[s]]
    BY <2>1
  <2>3. ~ \E a \in DOMAIN new : new[a] = r
    BY <1>1, <2>2
  <2>4. rows'[r] = rows[r]
    BY <1>1, <2>2, <2>3
  <2> QED
    BY <2>4
<1>7. CASE ImportIp
  BY <1>1, <1>7 DEF ImportIp, TypeOK
<1>8. CASE DeleteDevice
  BY <1>1, <1>8 DEF DeleteDevice, Linked, Sound, Exclusive
<1>9. ASSUME NEW v \in VMs, Report(v) PROVE FALSE
  BY <1>9 DEF Report
<1>10. CASE SyncDevice
  <2>1. PICK gone \in SUBSET Linked, as \in SUBSET Addresses : Resync(gone, as)
    BY <1>10 DEF SyncDevice
  <2>2. PICK place \in [as -> prefixes] :
          \E new \in [as -> RowIds \ (Stored \ gone)] :
            rows' = [s \in RowIds |-> Synced(gone, place, new, s)]
    BY <2>1 DEF Resync
  <2>3. PICK new \in [as -> RowIds \ (Stored \ gone)] :
          rows' = [s \in RowIds |-> Synced(gone, place, new, s)]
    BY <2>2
  <2>4. r \notin gone
    BY <1>1, <2>3 DEF Linked, Sound, Exclusive
  <2>5. ~ \E a \in DOMAIN new : new[a] = r
    BY <1>1, <2>3, <2>4
  <2> QED
    BY <1>1, <2>3, <2>4, <2>5 DEF Synced
<1> QED
  BY <1>1, <1>2, <1>4, <1>5, <1>6, <1>7, <1>8, <1>9, <1>10 DEF Next

\* What a step does to an occupied row.
LEMMA OccupationKept ==
  ASSUME IInv, Next, ~raced, NEW r \in Occupied, rows'[r] # rows[r]
  PROVE  /\ rows'[r] # None
         /\ rows'[r] = [rows[r] EXCEPT !.vm = None, !.status = "planned"]
<1>1. TypeOK /\ r \in RowIds /\ rows[r] # None /\ rows[r].vm # None /\ rows[r] \in Row
  BY DEF IInv, Occupied, Stored, TypeOK
<1>2. PICK v \in VMs : Release(v)
  BY OnlyReleases
<1>3. PICK s \in Occupied : rows' = [rows EXCEPT ![s] = Released(rows[s])]
  BY <1>2 DEF Release
<1>4. s = r /\ rows'[r] = Released(rows[r])
  BY <1>1, <1>3 DEF TypeOK
<1>5. Released(rows[r]) \in Row
  BY <1>1, NoneAssumption DEF Released, Row
<1>6. rows'[r] # None
  BY <1>4, <1>5, RowAssumption
<1>7. rows'[r] = [rows[r] EXCEPT !.vm = None, !.status = "planned"]
  BY <1>4 DEF Released
<1> QED
  BY <1>6, <1>7

\* For any requests in any order: a machine, an address or a prefix in use is
\* neither edited nor deleted from under its occupier.
THEOREM OccupationsEndByRelease == Spec => OnlyReleaseEndsOccupation
<1>1. IInv /\ [Next]_vars =>
        [\A r \in Occupied :
           \/ raced
           \/ rows'[r] = rows[r]
           \/ rows'[r] # None /\ rows'[r] = [rows[r] EXCEPT !.vm = None, !.status = "planned"]]_vars
  BY OccupationKept
<1> QED
  BY <1>1, Invariance, PTL DEF Spec, OnlyReleaseEndsOccupation

-----------------------------------------------------------------------------
(* The plan implements Occupancy                                            *)

LEMMA HeldIs ==
  /\ \A x : x \in Held <=>
       /\ ~raced
       /\ \E r \in RowIds : /\ rows[r] # None /\ rows[r].vm # None
                            /\ x = <<rows[r].address, rows[r].vm>>
  /\ \A x : x \in Held' <=>
       /\ ~raced'
       /\ \E r \in RowIds : /\ rows'[r] # None /\ rows'[r].vm # None
                            /\ x = <<rows'[r].address, rows'[r].vm>>
BY DEF Held, Occupied, Stored

\* Only allocations set the history variable.
LEMMA RacedSteps ==
  ASSUME Next, raced' # raced
  PROVE  \E v \in VMs : Allocate(v)
<1> SUFFICES ASSUME \A v \in VMs : ~Allocate(v) PROVE FALSE
  OBVIOUS
<1>1. ASSUME NEW v \in VMs, Release(v) \/ Report(v) PROVE raced' = raced
  BY SMTT(30), <1>1 DEF Release, Report
<1>2. ASSUME NEW c \in Clients, Check(c) PROVE raced' = raced
  BY <1>2 DEF Check, CheckCreateIp, CheckUpdateIp, CheckDeleteIp, CheckDeletePrefix,
              CheckDeleteVms, Waits
<1>3. ASSUME NEW c \in Clients, Commit(c) PROVE raced' = raced
  BY <1>3 DEF Commit, CreateIp, UpdateIp, DeleteIp, DeletePrefix, DeleteVms, Ends
<1>4. ASSUME NEW c \in Clients, Refuse(c) PROVE raced' = raced
  BY <1>4 DEF Refuse, Ends
<1>5. CASE Generate
  BY <1>5 DEF Generate
<1>6. CASE ImportIp
  BY <1>6 DEF ImportIp
<1>7. CASE DeleteDevice
  BY <1>7 DEF DeleteDevice
<1>8. CASE SyncDevice
  BY <1>8 DEF SyncDevice, Resync
<1> QED
  BY <1>1, <1>2, <1>3, <1>4, <1>5, <1>6, <1>7, <1>8 DEF Next

\* What neither allocates nor releases leaves the holders alone.
LEMMA HeldKept ==
  ASSUME IInv, Next, raced' = raced, ~raced => Unoccupying, \A v \in VMs : ~Release(v)
  PROVE  Held' = Held
<1>1. CASE raced
  BY <1>1 DEF Held
<1>2. CASE ~raced
  <2>1. ASSUME NEW r \in RowIds, rows[r] # None, rows[r].vm # None
        PROVE  rows'[r] = rows[r]
    <3>1. r \in Occupied
      BY <2>1 DEF Occupied, Stored
    <3> QED
      BY <1>2, <3>1, OnlyReleases
  <2>2. ASSUME NEW r \in RowIds, rows'[r] # None, rows'[r].vm # None
        PROVE  rows'[r] = rows[r]
    <3>1. Sound
      BY <1>2 DEF IInv
    <3> QED
      BY <1>2, <2>2, <3>1, Unoccupied
  <2>3. \A x : x \in Held' <=> x \in Held
    BY <1>2, <2>1, <2>2, HeldIs
  <2> QED
    BY <2>3 DEF Held
<1> QED
  BY <1>1, <1>2

\* An allocation gives the address to the machine, or the promise lapses.
LEMMA AllocationHolds ==
  ASSUME IInv, NEW v \in VMs, Allocate(v)
  PROVE  Promise!Next \/ UNCHANGED <<ips, Held, raced>>
<1>1. PICK r \in RowIds, row \in Row :
        /\ Occupy(r, v, row)
        /\ rows[r] \in {None, row} /\ row.vm = None
        /\ \A s \in RowIds \ {r} : rows[s] # None /\ rows[s].address = row.address => rows[s].vm = None
        /\ v \in Machines /\ row.address \in ips[v] /\ Unshared(v, row.address)
  BY AllocateOccupies
<1> DEFINE new == [row EXCEPT !.status = "used", !.vm = v]
           a == row.address
<1>2. /\ rows' = [rows EXCEPT ![r] = new] /\ ips' = ips
      /\ raced' = (raced \/ Overtaken(r, row.prefix))
  BY <1>1 DEF Occupy
<1>3. /\ new # None /\ new.vm = v /\ new.address = a /\ v # None /\ a \in Addresses
  BY RowAssumption, NoneAssumption DEF Row
<1> HIDE DEF new
<1>4. rows'[r] = new /\ \A s \in RowIds \ {r} : rows'[s] = rows[s]
  BY <1>2 DEF IInv, TypeOK
<1>5. raced \in BOOLEAN /\ raced' \in BOOLEAN
  BY <1>2 DEF IInv, TypeOK, Overtaken
<1>6. CASE raced
  BY <1>2, <1>5, <1>6 DEF Held
<1>7. CASE ~raced /\ raced'
  <2>1. Held' = {} /\ raced' = TRUE
    BY <1>5, <1>7 DEF Held
  <2> QED
    BY <1>2, <2>1 DEF Promise!Next, Promise!Lapse
<1>8. CASE ~raced /\ ~raced'
  <2> HIDE DEF a
  <2>1. \A s \in RowIds : rows[s] # None /\ rows[s].vm # None => s # r /\ rows[s].address # a
    BY <1>1 DEF a
  <2>2. ASSUME NEW w \in VMs PROVE <<a, w>> \notin Held
    BY <2>1, HeldIs
  <2>3. \A x : x \in Held' <=> x \in Held \/ x = <<a, v>>
    <3>1. ASSUME NEW x, x \in Held PROVE x \in Held'
      <4>1. PICK s \in RowIds : /\ rows[s] # None /\ rows[s].vm # None
                                /\ x = <<rows[s].address, rows[s].vm>>
        BY <3>1, HeldIs
      <4>2. rows'[s] = rows[s]
        BY <1>4, <2>1, <4>1
      <4> QED
        BY <1>8, <4>1, <4>2, HeldIs
    <3>2. <<a, v>> \in Held'
      BY <1>3, <1>4, <1>8, HeldIs
    <3>3. ASSUME NEW x, x \in Held' PROVE x \in Held \/ x = <<a, v>>
      <4>1. PICK s \in RowIds : /\ rows'[s] # None /\ rows'[s].vm # None
                                /\ x = <<rows'[s].address, rows'[s].vm>>
        BY <3>3, HeldIs
      <4>2. CASE s = r
        BY <1>3, <1>4, <4>1, <4>2
      <4>3. CASE s # r
        BY <1>4, <1>8, <4>1, <4>3, HeldIs
      <4> QED
        BY <4>2, <4>3
    <3> QED
      BY <3>1, <3>2, <3>3
  <2>4. Held' = Held \cup {<<a, v>>}
    BY <2>3
  <2>5. ips[v] # None /\ \A w \in VMs \ {v} : ips[w] # None => a \notin ips[w]
    BY <1>1 DEF Machines, Unshared, a
  <2>6. Promise!Occupy(a, v)
    BY <1>1, <1>2, <1>5, <1>8, <2>2, <2>4, <2>5 DEF Promise!Occupy, a
  <2> QED
    BY <1>3, <2>6 DEF Promise!Next
<1> QED
  BY <1>6, <1>7, <1>8

\* A release gives back the address of one machine.
LEMMA ReleaseHolds ==
  ASSUME IInv, NEW v \in VMs, Release(v)
  PROVE  Promise!Next \/ UNCHANGED <<ips, Held, raced>>
<1>1. PICK r \in Occupied : /\ rows[r].vm = v /\ rows' = [rows EXCEPT ![r] = Released(rows[r])]
                            /\ UNCHANGED <<prefixes, ips, client, raced>>
  BY DEF Release
<1>2. r \in RowIds /\ rows[r] \in Row /\ rows[r] # None /\ rows[r].vm # None
  BY <1>1 DEF IInv, Occupied, Stored, TypeOK
<1>3. Released(rows[r]).vm = None
  BY <1>2, NoneAssumption DEF Released, Row
<1>4. rows'[r] = Released(rows[r]) /\ \A s \in RowIds \ {r} : rows'[s] = rows[s]
  BY <1>1, <1>2 DEF IInv, TypeOK
<1>5. PICK a \in Addresses : a = rows[r].address
  BY <1>2 DEF Row
<1>6. CASE raced
  BY <1>1, <1>6 DEF Held
<1>7. CASE ~raced
  <2>1. \A s \in RowIds \ {r} : rows[s] # None /\ rows[s].vm # None => rows[s].address # a
    BY <1>2, <1>5, <1>7 DEF IInv, Sound, Single
  <2>2. <<a, v>> \in Held
    BY <1>1, <1>2, <1>5, <1>7, HeldIs
  <2>3. ASSUME NEW x PROVE x \in Held' <=> x \in Held /\ x # <<a, v>>
    <3>1. ASSUME x \in Held' PROVE x \in Held /\ x # <<a, v>>
      <4>1. PICK s \in RowIds : /\ rows'[s] # None /\ rows'[s].vm # None
                                /\ x = <<rows'[s].address, rows'[s].vm>>
        BY <3>1, HeldIs
      <4>2. s # r /\ rows'[s] = rows[s]
        BY <1>3, <1>4, <4>1
      <4>3. rows[s].address # a
        BY <2>1, <4>1, <4>2
      <4> QED
        BY <1>7, <4>1, <4>2, <4>3, HeldIs
    <3>2. ASSUME x \in Held, x # <<a, v>> PROVE x \in Held'
      <4>1. PICK s \in RowIds : /\ rows[s] # None /\ rows[s].vm # None
                                /\ x = <<rows[s].address, rows[s].vm>>
        BY <3>2, HeldIs
      <4>2. s # r
        BY <1>1, <1>5, <3>2, <4>1
      <4>3. rows'[s] = rows[s] /\ ~raced'
        BY <1>1, <1>4, <1>7, <4>2
      <4> QED
        BY <4>1, <4>3, HeldIs
    <3> QED
      BY <3>1, <3>2
  <2>4. Held' = Held \ {<<a, v>>}
    BY <2>3
  <2>5. Promise!Release(a, v)
    BY SMTT(30), <1>1, <2>2, <2>4 DEF Promise!Release
  <2> QED
    BY <2>5 DEF Promise!Next
<1> QED
  BY <1>6, <1>7

\* Machines change what they report, or go when they hold nothing.
LEMMA MachineSteps ==
  ASSUME Next, ips' # ips
  PROVE  (\E v \in VMs : Report(v)) \/ (\E c \in Clients : DeleteVms(c))
<1> SUFFICES ASSUME \A v \in VMs : ~Report(v), \A c \in Clients : ~DeleteVms(c) PROVE FALSE
  OBVIOUS
<1>1. ASSUME NEW v \in VMs, Allocate(v) PROVE ips' = ips
  BY <1>1 DEF Allocate, Occupy
<1>2. ASSUME NEW v \in VMs, Release(v) PROVE ips' = ips
  BY <1>2 DEF Release
<1>3. ASSUME NEW c \in Clients, Check(c) PROVE ips' = ips
  BY <1>3 DEF Check, CheckCreateIp, CheckUpdateIp, CheckDeleteIp, CheckDeletePrefix,
              CheckDeleteVms, Waits
<1>4. ASSUME NEW c \in Clients, Commit(c) PROVE ips' = ips
  BY <1>4 DEF Commit, CreateIp, UpdateIp, DeleteIp, DeletePrefix
<1>5. ASSUME NEW c \in Clients, Refuse(c) PROVE ips' = ips
  BY <1>5 DEF Refuse
<1>6. CASE Generate
  BY <1>6 DEF Generate
<1>7. CASE ImportIp
  BY <1>7 DEF ImportIp
<1>8. CASE DeleteDevice
  BY <1>8 DEF DeleteDevice
<1>9. CASE SyncDevice
  BY <1>9 DEF SyncDevice, Resync
<1> QED
  BY <1>1, <1>2, <1>3, <1>4, <1>5, <1>6, <1>7, <1>8, <1>9 DEF Next

LEMMA MachinesHold ==
  ASSUME IInv, (\E v \in VMs : Report(v)) \/ (\E c \in Clients : DeleteVms(c))
  PROVE  Promise!Next
<1>1. UNCHANGED <<rows, raced>>
  BY DEF Report, DeleteVms, Ends
<1>2. Held' = Held
  BY <1>1 DEF Held, Occupied, Stored
<1>3. ASSUME NEW v \in VMs, Report(v) PROVE Promise!Next
  BY <1>1, <1>2, <1>3 DEF Report, Promise!Report, Promise!Next
<1>4. ASSUME NEW c \in Clients, DeleteVms(c) PROVE Promise!Next
  <2>1. PICK vs : /\ vs \subseteq Machines /\ \A r \in Occupied : rows[r].vm \notin vs
                  /\ ips' = [v \in VMs |-> IF v \in vs THEN None ELSE ips[v]]
    BY <1>4 DEF DeleteVms, Unreferenced
  <2>2. vs \in SUBSET VMs
    BY <2>1 DEF Machines
  <2>3. \A a \in Addresses, v \in vs : <<a, v>> \notin Held
    BY <2>1 DEF Held
  <2>4. Promise!Leave(vs)
    BY <1>1, <1>2, <2>1, <2>3 DEF Promise!Leave
  <2> QED
    BY <2>2, <2>4 DEF Promise!Next
<1> QED
  BY <1>3, <1>4

\* What owners of machines are promised holds of the rows of all prefixes: an
\* address goes to one machine that alone reports it, stays with it through every
\* registration, edit, import, generation, synchronisation and deletion until it
\* is released, and no machine goes that holds one (allocate, release, and the
\* routers beside them).
THEOREM KeepsThePromise == Spec => ImplementsOccupancy
<1>1. Init => Promise!Init
  <2> SUFFICES ASSUME Init PROVE Promise!Init
    OBVIOUS
  <2>1. Occupied = {}
    BY DEF Init, Occupied, Stored
  <2>2. Held = {}
    BY <2>1 DEF Held
  <2> QED
    BY <2>2 DEF Init, Promise!Init
<1>2. ASSUME IInv, [Next]_vars
      PROVE  [Promise!Next]_<<ips, Held, raced>>
  <2>1. CASE UNCHANGED vars
    BY <2>1 DEF vars, Held, Occupied, Stored
  <2>2. ASSUME Next, \A v \in VMs : ~Allocate(v) /\ ~Release(v), ips' = ips
        PROVE  UNCHANGED <<ips, Held, raced>>
    <3>1. raced' = raced
      BY <2>2, RacedSteps
    <3>2. ~raced => Unoccupying
      <4>1. ASSUME NEW c \in Clients, Check(c) PROVE Unoccupying
        <5>1. rows' = rows
          BY <4>1 DEF Check, CheckCreateIp, CheckUpdateIp, CheckDeleteIp, CheckDeletePrefix,
             CheckDeleteVms, Waits
        <5> QED
          BY SMTT(30), <5>1 DEF Unoccupying
      <4> QED
        BY <1>2, <2>2, <4>1, CommitQuiet, OthersQuiet DEF Next
    <3> QED
      BY <1>2, <2>2, <3>1, <3>2, HeldKept
  <2> QED
    BY <1>2, <2>1, <2>2, AllocationHolds, ReleaseHolds, MachineSteps, MachinesHold
<1> QED
  BY <1>1, <1>2, Invariance, PTL DEF Spec, ImplementsOccupancy, Promise!Spec, Promise!vars

=============================================================================
