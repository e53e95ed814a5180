------------------------------ MODULE DhcpSync ------------------------------
(***************************************************************************)
(* DHCP sources, the synchronisation of their statistics and their links   *)
(* with planned prefixes (app/services/dhcp_integration.py,                *)
(* app/services/windows_dhcp.py, app/routers/dhcp.py and the DHCP part of  *)
(* app/routers/ip_inventory.py).                                           *)
(*                                                                         *)
(* A source is one JSON text in system_settings: a pool of its own, or the *)
(* configuration of an IP inventory entry (an item).  One lock, tried and  *)
(* never waited for, serialises synchronisations; nothing serialises them  *)
(* with the requests of operators, nor these with each other.              *)
(*                                                                         *)
(* Abstractions.  The server, the scope and the other parts of identity()  *)
(* are one value; so is what collect_config returns apart from its network *)
(* and its percentage.  Accounts and secrets, the intervals and the times  *)
(* of the last attempt are left out: a synchronisation may start whenever  *)
(* its source is enabled.  Items always have a server.  A row read twice   *)
(* within one request is read once.                                        *)
(***************************************************************************)
EXTENDS Integers, FiniteSets

CONSTANTS Pools,        \* bound: sources with an identifier of their own
          Items,        \* IP inventory entries
          Identities,   \* what identity() returns: server, scope, ...
          Nets,         \* networks of prefixes
          Scopes,       \* networks of scopes
          Thresholds,   \* warning thresholds, in percent
          Percents,     \* what servers report as used, in percent
          Names,        \* display names
          PrefixIds,    \* rows of ipam_prefixes
          Threads,      \* threads that synchronise
          Clients,      \* request threads
          MaxEdits,     \* bound on the commits of requests
          None,         \* no configuration, snapshot, name, link or prefix
          Gone          \* a source that was deleted

ASSUME BoundsAssumption == MaxEdits \in Nat /\ Thresholds \cup Percents \subseteq Int
ASSUME SourcesAssumption == Pools \cap Items = {} /\ None # Gone
ASSUME ScopesAssumption == Scopes \subseteq Nets /\ None \notin Nets

VARIABLES row,          \* source -> what system_settings holds
          prefixes,     \* ipam_prefixes: id -> network or None
          links,        \* ipam_dhcp: prefix id -> link or None
          lock,         \* windows_dhcp._lock is held
          sync,         \* thread -> its synchronisation
          client,       \* requests between their checks and their commit
          edits,        \* commits of requests so far
          clashed       \* history: a request committed inside another

tables == <<row, prefixes, links>>
vars == <<tables, lock, sync, client, edits, clashed>>

Sources == Pools \cup Items
Snapshot == [of : Identities, net : Scopes, percent : Percents, warning : BOOLEAN]
Row == [id : Identities, mode : {"DHCP", "static"}, threshold : Thresholds,
        name : Names \cup {None}, snapshot : Snapshot \cup {None}, error : BOOLEAN]
Link == [src : Sources, net : Nets]

Sync == [at : {"idle", "read", "collect", "store"}, src : Sources \cup {None},
         config : Row \cup {None}, stored : Row \cup {None}]
Idle == [at |-> "idle", src |-> None, config |-> None, stored |-> None]

Request == [op : {"idle", "create", "save", "delete", "bind", "prefix"},
            src : Sources \cup {None}, pfx : PrefixIds \cup {None},
            row : Row \cup {None}, net : Nets \cup {None}]
NoRequest == [op |-> "idle", src |-> None, pfx |-> None, row |-> None, net |-> None]

ASSUME RowAssumption == None \notin Row /\ Gone \notin Row

Exists(s) == row[s] \notin {None, Gone}

\* The process starts on a database with sources that were saved and never
\* synchronised or were deleted, and with prefixes.
Fresh == {r \in Row : r.snapshot = None /\ ~r.error /\ r.name # None /\ r.mode = "DHCP"}

Init ==
  /\ row \in [Sources -> Fresh \cup {None, Gone}]
  /\ \A s, other \in Sources :
       s # other /\ Exists(s) /\ Exists(other) => row[s].id # row[other].id
  /\ prefixes \in [PrefixIds -> Nets \cup {None}]
  /\ links = [p \in PrefixIds |-> None]
  /\ lock = FALSE
  /\ sync = [t \in Threads |-> Idle]
  /\ client = [c \in Clients |-> NoRequest]
  /\ edits = 0
  /\ clashed = FALSE

-----------------------------------------------------------------------------
(* Synchronisations *)

Linked(s) == \E p \in PrefixIds : links[p] # None /\ links[p].src = s

\* What a synchronisation compares before it stores (a name is not compared).
Guarded(r) == <<r.id, r.mode, r.threshold>>
Settings(r) == <<r.id, r.mode, r.threshold, r.name>>

\* A pool's configuration is read before the lock is tried.
ReadPool(t) ==
  /\ sync[t] = Idle
  /\ \E s \in Pools :
       /\ Exists(s)
       /\ row[s].mode = "DHCP"
       /\ sync' = [sync EXCEPT ![t] = [Idle EXCEPT !.at = "read", !.src = s, !.config = row[s]]]
  /\ UNCHANGED <<tables, lock, client, edits, clashed>>

Ends(t) == sync' = [sync EXCEPT ![t] = Idle]

Release == lock' = FALSE

\* The text that the store will compare with is read here, a second time.
LockPool(t) ==
  LET s == sync[t].src IN
  /\ sync[t].at = "read"
  /\ IF ~lock /\ Exists(s)
       THEN /\ lock' = TRUE
            /\ sync' = [sync EXCEPT ![t].at = "collect", ![t].stored = row[s]]
       ELSE UNCHANGED lock /\ Ends(t)
  /\ UNCHANGED <<tables, client, edits, clashed>>

\* An item is read under the lock, and nothing is kept to compare with.
LockItem(t) ==
  /\ sync[t] = Idle
  /\ ~lock
  /\ \E s \in Items :
       /\ Exists(s)
       /\ row[s].mode = "DHCP"
       /\ sync' = [sync EXCEPT ![t] = [Idle EXCEPT !.at = "collect", !.src = s, !.config = row[s]]]
  /\ lock' = TRUE
  /\ UNCHANGED <<tables, client, edits, clashed>>

Collected(config, net, percent) ==
  [of |-> config.id, net |-> net, percent |-> percent, warning |-> percent >= config.threshold]

\* A failure, or an answer that does not fit, keeps the last good snapshot.
Failed(config) == [config EXCEPT !.error = TRUE]
Succeeded(config, net, percent) ==
  [config EXCEPT !.error = FALSE, !.snapshot = Collected(config, net, percent)]

Answer(t, config) == sync' = [sync EXCEPT ![t].at = "store", ![t].config = config]

\* The answer comes; the settings are read again and compared.
Collect(t) ==
  LET s == sync[t].src IN
  /\ sync[t].at = "collect"
  /\ IF Exists(s) /\ Guarded(row[s]) = Guarded(sync[t].config)
       THEN /\ \/ Answer(t, Failed(sync[t].config))
               \/ \E net \in Scopes, percent \in Percents :
                    Answer(t, Succeeded(sync[t].config, net, percent))
            /\ UNCHANGED lock
       ELSE Release /\ Ends(t)
  /\ UNCHANGED <<tables, client, edits, clashed>>

\* Mutant: the result is stored without comparing the text.
MayStoreMutant(t) == sync[t].src \in Pools \/ ~Linked(sync[t].src)

\* A pool is stored if the text is still the one read under the lock; an item is
\* not if that would change the identity of a linked source (save_config).
MayStore(t) ==
  LET s == sync[t].src IN
  IF s \in Pools THEN row[s] = sync[t].stored
                 ELSE Exists(s) /\ (row[s].id = sync[t].config.id \/ ~Linked(s))

Store(t) ==
  /\ sync[t].at = "store"
  /\ row' = IF MayStore(t) THEN [row EXCEPT ![sync[t].src] = sync[t].config] ELSE row
  /\ Release
  /\ Ends(t)
  /\ UNCHANGED <<prefixes, links, client, edits, clashed>>

Step(t) == LockPool(t) \/ Collect(t) \/ Store(t)

-----------------------------------------------------------------------------
(* Requests *)

Waits(c, request) ==
  /\ client[c] = NoRequest
  /\ client' = [client EXCEPT ![c] = request]
  /\ UNCHANGED <<tables, lock, sync, edits, clashed>>

Commits(cs) ==
  /\ edits < MaxEdits
  /\ edits' = edits + 1
  /\ client' = [c \in Clients |-> IF c \in cs THEN NoRequest ELSE client[c]]
  /\ clashed' = (clashed \/ \E c \in Clients \ cs : client[c] # NoRequest)
  /\ UNCHANGED <<lock, sync>>

\* The answer is an error.
Refuse(c) ==
  /\ client[c] # NoRequest
  /\ client' = [client EXCEPT ![c] = NoRequest]
  /\ UNCHANGED <<tables, lock, sync, edits, clashed>>

Rewarned(snapshot, threshold) ==
  IF snapshot = None THEN None
                     ELSE [snapshot EXCEPT !.warning = snapshot.percent >= threshold]

\* Mutant: the snapshot of another server or scope is kept.
KeptSnapshotMutant(s, id, threshold) ==
  IF Exists(s) THEN Rewarned(row[s].snapshot, threshold) ELSE None

\* A source that gets another identity starts without a snapshot.
KeptSnapshot(s, id, threshold) ==
  IF Exists(s) /\ row[s].id = id THEN Rewarned(row[s].snapshot, threshold) ELSE None

\* Mutant: a new source gets no error flag.
KeptErrorMutant(s, id) == IF Exists(s) THEN row[s].id = id /\ row[s].error ELSE None

KeptError(s, id) == Exists(s) /\ row[s].id = id /\ row[s].error

\* Mutant: the identity of a linked source may change.
MayRetargetMutant(s, id) == Exists(s) => id \in Identities

\* The identity of a linked source is protected.
MayRetarget(s, id) == Exists(s) /\ row[s].id # id => ~Linked(s)

\* The text that save_source prepares.
Saved(s, id, mode, threshold, name) ==
  [id |-> id, mode |-> mode, threshold |-> threshold, name |-> name,
   snapshot |-> KeptSnapshot(s, id, threshold), error |-> KeptError(s, id)]

SaveOf(s) == IF Exists(s) THEN "save" ELSE "create"

\* A new pool, or a source that is listed; its identity is that of no other one.
CheckSave(c) ==
  \E s \in Sources, id \in Identities, mode \in {"DHCP", "static"},
     threshold \in Thresholds, name \in Names :
    /\ Exists(s) \/ (s \in Pools /\ row[s] = None)
    /\ \A other \in Sources \ {s} : Exists(other) => row[other].id # id
    /\ MayRetarget(s, id)
    /\ Saved(s, id, mode, threshold, name) # row[s]
    /\ Waits(c, [NoRequest EXCEPT !.op = SaveOf(s), !.src = s,
                                  !.row = Saved(s, id, mode, threshold, name)])

\* The text that configure_dhcp prepares: the warning of a kept snapshot follows
\* the threshold only if the mode stays.
Configured(s, id, mode, threshold) ==
  [id |-> id, mode |-> mode, threshold |-> threshold,
   name |-> IF Exists(s) THEN row[s].name ELSE None,
   snapshot |-> IF Exists(s) /\ row[s].id = id /\ row[s].mode # mode
                  THEN row[s].snapshot ELSE KeptSnapshot(s, id, threshold),
   error |-> KeptError(s, id)]

CheckConfigure(c) ==
  \E s \in Items, id \in Identities, mode \in {"DHCP", "static"}, threshold \in Thresholds :
    /\ row[s] # Gone
    /\ MayRetarget(s, id)
    /\ Configured(s, id, mode, threshold) # row[s]
    /\ Waits(c, [NoRequest EXCEPT !.op = "save", !.src = s,
                                  !.row = Configured(s, id, mode, threshold)])

\* The whole text is written, whatever it is by now; a pool that was deleted
\* comes back, the configuration of an entry that was deleted is never read.
Save(c) ==
  LET s == client[c].src IN
  /\ client[c].op \in {"create", "save"}
  /\ client[c].op = "create" => row[s] = None
  /\ row' = IF s \in Items /\ row[s] = Gone THEN row ELSE [row EXCEPT ![s] = client[c].row]
  /\ Commits({c})
  /\ UNCHANGED <<prefixes, links>>

\* Mutant: a linked source may be deleted.
MayDeleteMutant(s) == Exists(s)

MayDelete(s) == (Exists(s) \/ (s \in Items /\ row[s] = None)) /\ ~Linked(s)

CheckDelete(c) ==
  \E s \in Sources :
    /\ MayDelete(s)
    /\ Waits(c, [NoRequest EXCEPT !.op = "delete", !.src = s])

Delete(c) ==
  /\ client[c].op = "delete"
  /\ row' = [row EXCEPT ![client[c].src] = Gone]
  /\ Commits({c})
  /\ UNCHANGED <<prefixes, links>>

\* Only a source that was synchronised, to a prefix with the network of its scope.
CanBind(p, s) ==
  /\ prefixes[p] # None
  /\ Exists(s)
  /\ row[s].mode = "DHCP" /\ row[s].snapshot # None /\ ~row[s].error
  /\ row[s].snapshot.net = prefixes[p]

CheckBind(c) ==
  \E p \in PrefixIds, s \in Sources :
    /\ CanBind(p, s)
    /\ Waits(c, [NoRequest EXCEPT !.op = "bind", !.src = s, !.pfx = p, !.net = prefixes[p]])

Bind(c) ==
  /\ client[c].op = "bind"
  /\ links' = [links EXCEPT ![client[c].pfx] = [src |-> client[c].src, net |-> client[c].net]]
  /\ Commits({c})
  /\ UNCHANGED <<row, prefixes>>

Unbind ==
  /\ \E p \in PrefixIds : links[p] # None /\ links' = [links EXCEPT ![p] = None]
  /\ Commits({})
  /\ UNCHANGED <<row, prefixes>>

\* update_prefix and delete_prefix (None), as far as links are concerned.
CheckPrefix(c) ==
  \E p \in PrefixIds, net \in Nets \cup {None} :
    /\ prefixes[p] \notin {None, net}
    /\ links[p] = None
    /\ Waits(c, [NoRequest EXCEPT !.op = "prefix", !.pfx = p, !.net = net])

ChangePrefix(c) ==
  /\ client[c].op = "prefix"
  /\ prefixes[client[c].pfx] # None
  /\ prefixes' = [prefixes EXCEPT ![client[c].pfx] = client[c].net]
  /\ Commits({c})
  /\ UNCHANGED <<row, links>>

CreatePrefix ==
  /\ \E p \in PrefixIds, net \in Nets :
       prefixes[p] = None /\ prefixes' = [prefixes EXCEPT ![p] = net]
  /\ Commits({})
  /\ UNCHANGED <<row, links>>

-----------------------------------------------------------------------------
\* The process stops, and starts again.
Crash ==
  /\ lock' = FALSE
  /\ sync' = [t \in Threads |-> Idle]
  /\ client' = [c \in Clients |-> NoRequest]
  /\ UNCHANGED <<tables, edits, clashed>>

Check(c) == CheckSave(c) \/ CheckConfigure(c) \/ CheckDelete(c) \/ CheckBind(c) \/ CheckPrefix(c)
Commit(c) == Save(c) \/ Delete(c) \/ Bind(c) \/ ChangePrefix(c)

Next ==
  \/ \E t \in Threads : ReadPool(t) \/ LockItem(t) \/ Step(t)
  \/ \E c \in Clients : Check(c) \/ Commit(c) \/ Refuse(c)
  \/ Unbind \/ CreatePrefix \/ Crash

Spec == Init /\ [][Next]_vars

-----------------------------------------------------------------------------
(* Properties *)

\* Every table, thread and request holds what it may hold.
TypeOK ==
  /\ row \in [Sources -> Row \cup {None, Gone}]
  /\ prefixes \in [PrefixIds -> Nets \cup {None}]
  /\ links \in [PrefixIds -> Link \cup {None}]
  /\ lock \in BOOLEAN
  /\ sync \in [Threads -> Sync]
  /\ client \in [Clients -> Request]
  /\ edits \in 0 .. MaxEdits
  /\ clashed \in BOOLEAN

\* What a text says of itself: its snapshot was collected from its own server and
\* scope, and the warning of a pool is that of its threshold.
Fits(s, r) ==
  r.snapshot # None =>
    /\ r.snapshot.of = r.id
    /\ s \in Pools => r.snapshot.warning = (r.snapshot.percent >= r.threshold)

\* However synchronisations, edits and deletions interleave, no source shows
\* statistics of another one, and no pool a warning of an earlier threshold.
SnapshotFitsSettings == \A s \in Sources : Exists(s) => Fits(s, row[s])

\* The lock is held by exactly one synchronisation, which collects or stores.
OneAtATime ==
  LET inside == {t \in Threads : sync[t].at \in {"collect", "store"}} IN
  Cardinality(inside) = IF lock THEN 1 ELSE 0

\* What an operator saved of a pool is never undone by the result of a
\* synchronisation, except when the settings changed between the two reads of
\* sync_source (87 and 96) and the first of them is stored.
EditsWin ==
  [][\A s \in Pools :
       Exists(s) /\ row'[s] # row[s] /\ client' = client =>
         \/ Settings(row'[s]) = Settings(row[s])
         \/ \E t \in Threads : /\ sync[t].at = "store" /\ sync[t].src = s
                               /\ Settings(sync[t].config) # Settings(sync[t].stored)]_vars

\* A link refers to a prefix with the network it was made for and to a source
\* that exists, unless requests committed inside one another.
LinksAreSound ==
  ~clashed => \A p \in PrefixIds : links[p] # None =>
                prefixes[p] = links[p].net /\ Exists(links[p].src)

\* As long as a source is linked nothing changes its server or its scope.
LinkedSourceKept ==
  [][\A p \in PrefixIds :
       links[p] # None /\ links'[p] = links[p] /\ ~clashed' =>
         LET s == links[p].src IN Exists(s) /\ Exists(s)' => row'[s].id = row[s].id]_vars
=============================================================================
