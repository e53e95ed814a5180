--------------------------- MODULE DhcpSync_proofs ---------------------------
(***************************************************************************)
(* Proofs about DhcpSync, for any sources, servers, networks, threads and  *)
(* requests.                                                               *)
(***************************************************************************)
EXTENDS DhcpSync, FiniteSetTheorems, TLAPS

(* What threads and requests carry: texts that fit their source.            *)
SyncTyped ==
  \A t \in Threads : sync[t].at # "idle" =>
    /\ sync[t].src \in Sources
    /\ sync[t].config \in Row
    /\ Fits(sync[t].src, sync[t].config)

ClientTyped ==
  \A c \in Clients :
    /\ client[c].op \in {"create", "save", "delete", "bind"} => client[c].src \in Sources
    /\ client[c].op \in {"create", "save"} =>
         client[c].row \in Row /\ Fits(client[c].src, client[c].row)
    /\ client[c].op \in {"bind", "prefix"} => client[c].pfx \in PrefixIds
    /\ client[c].op = "bind" => client[c].net \in Nets

IInv == TypeOK /\ SnapshotFitsSettings /\ SyncTyped /\ ClientTyped

-----------------------------------------------------------------------------
(* A row that exists is a text.                                             *)
LEMMA ExistingRow == ASSUME TypeOK, NEW s \in Sources
                     PROVE  Exists(s) <=> row[s] \in Row
  BY RowAssumption DEF TypeOK, Exists

LEMMA RewarnedFits ==
  ASSUME NEW snapshot \in Snapshot \cup {None}, NEW threshold \in Thresholds
  PROVE  /\ Rewarned(snapshot, threshold) \in Snapshot \cup {None}
         /\ Rewarned(snapshot, threshold) # None =>
              /\ snapshot # None
              /\ Rewarned(snapshot, threshold).of = snapshot.of
              /\ Rewarned(snapshot, threshold).warning =
                   (Rewarned(snapshot, threshold).percent >= threshold)
<1>1. CASE snapshot = None
  BY <1>1 DEF Rewarned
<1>2. CASE snapshot # None
  <2>1. (snapshot.percent >= threshold) \in BOOLEAN
    BY <1>2, BoundsAssumption DEF Snapshot
  <2>2. QED
    BY <1>2, <2>1 DEF Rewarned, Snapshot
<1>3. QED
  BY <1>1, <1>2

LEMMA KeptFits ==
  ASSUME TypeOK, SnapshotFitsSettings, NEW s \in Sources, NEW id \in Identities,
         NEW threshold \in Thresholds
  PROVE  /\ KeptSnapshot(s, id, threshold) \in Snapshot \cup {None}
         /\ KeptSnapshot(s, id, threshold) # None =>
              /\ KeptSnapshot(s, id, threshold).of = id
              /\ KeptSnapshot(s, id, threshold).warning =
                   (KeptSnapshot(s, id, threshold).percent >= threshold)
         /\ KeptError(s, id) \in BOOLEAN
<1>1. CASE Exists(s) /\ row[s].id = id
  <2>1. row[s] \in Row /\ Fits(s, row[s])
    BY <1>1, ExistingRow DEF SnapshotFitsSettings
  <2>2. row[s].snapshot \in Snapshot \cup {None} /\ row[s].error \in BOOLEAN
    BY <2>1 DEF Row
  <2>3. KeptSnapshot(s, id, threshold) = Rewarned(row[s].snapshot, threshold)
    BY <1>1 DEF KeptSnapshot
  <2>4. row[s].snapshot # None => row[s].snapshot.of = id
    BY <1>1, <2>1 DEF Fits
  <2>5. QED
    BY <1>1, <2>2, <2>3, <2>4, RewarnedFits DEF KeptError
<1>2. CASE ~(Exists(s) /\ row[s].id = id)
  BY <1>2 DEF KeptSnapshot, KeptError
<1>3. QED
  BY <1>1, <1>2

(* Only the type of a request and what it carries matter when it is checked. *)
LEMMA NewRequest ==
  ASSUME IInv, NEW c \in Clients, NEW request \in Request, Waits(c, request),
         request.op \in {"create", "save", "delete", "bind"} => request.src \in Sources,
         request.op \in {"create", "save"} => request.row \in Row /\ Fits(request.src, request.row),
         request.op \in {"bind", "prefix"} => request.pfx \in PrefixIds,
         request.op = "bind" => request.net \in Nets
  PROVE  IInv'
<1>1. client \in [Clients -> Request]
  BY DEF IInv, TypeOK
<1>2. TypeOK'
  BY <1>1 DEF IInv, TypeOK, Waits, tables
<1>3. SnapshotFitsSettings' /\ SyncTyped'
  BY DEF IInv, Waits, tables, SnapshotFitsSettings, SyncTyped, Exists, Fits
<1>4. ClientTyped'
  BY <1>1 DEF IInv, Waits, ClientTyped, Fits
<1>5. QED
  BY <1>2, <1>3, <1>4 DEF IInv

LEMMA SavedFits ==
  ASSUME IInv, NEW s \in Sources, NEW id \in Identities, NEW mode \in {"DHCP", "static"},
         NEW threshold \in Thresholds, NEW name \in Names
  PROVE  Saved(s, id, mode, threshold, name) \in Row /\ Fits(s, Saved(s, id, mode, threshold, name))
  BY KeptFits DEF IInv, Saved, Row, Fits

LEMMA CheckSavePreserves == ASSUME IInv, NEW c \in Clients, CheckSave(c) PROVE IInv'
<1>1. PICK s \in Sources, id \in Identities, mode \in {"DHCP", "static"},
           threshold \in Thresholds, name \in Names :
        Waits(c, [NoRequest EXCEPT !.op = SaveOf(s), !.src = s,
                                  !.row = Saved(s, id, mode, threshold, name)])
  BY ZenonT(40) DEF CheckSave
<1>0. SaveOf(s) \in {"create", "save"}
  BY DEF SaveOf
<1> DEFINE new == Saved(s, id, mode, threshold, name)
<1> DEFINE request == [NoRequest EXCEPT !.op = SaveOf(s),
                                        !.src = s, !.row = new]
<1>2. new \in Row /\ Fits(s, new)
  BY SavedFits
<1>3. Waits(c, request)
  BY <1>1
<1> HIDE DEF new
<1>4. /\ request \in Request
      /\ request.op \in {"create", "save"} /\ request.src = s /\ request.row = new
  BY <1>0, <1>2 DEF Request, NoRequest
<1> HIDE DEF request
<1>5. QED
  BY <1>2, <1>3, <1>4, NewRequest

LEMMA ConfiguredFits ==
  ASSUME IInv, NEW s \in Items, NEW id \in Identities, NEW mode \in {"DHCP", "static"},
         NEW threshold \in Thresholds
  PROVE  /\ s \in Sources
         /\ Configured(s, id, mode, threshold) \in Row
         /\ Fits(s, Configured(s, id, mode, threshold))
<1> DEFINE snap == IF Exists(s) /\ row[s].id = id /\ row[s].mode # mode
                     THEN row[s].snapshot ELSE KeptSnapshot(s, id, threshold)
<1>1. s \in Sources /\ s \notin Pools
  BY SourcesAssumption DEF Sources
<1>2. Exists(s) => row[s] \in Row /\ Fits(s, row[s])
  BY <1>1, ExistingRow DEF IInv, SnapshotFitsSettings
<1>3. snap \in Snapshot \cup {None} /\ (snap # None => snap.of = id)
  BY <1>1, <1>2, KeptFits DEF IInv, Row, Fits
<1>4. (IF Exists(s) THEN row[s].name ELSE None) \in Names \cup {None}
  BY <1>2 DEF Row
<1>5. KeptError(s, id) \in BOOLEAN
  BY <1>1, KeptFits DEF IInv
<1>6. Configured(s, id, mode, threshold) =
        [id |-> id, mode |-> mode, threshold |-> threshold,
         name |-> IF Exists(s) THEN row[s].name ELSE None,
         snapshot |-> snap, error |-> KeptError(s, id)]
  BY DEF Configured
<1> HIDE DEF snap
<1>7. QED
  BY <1>1, <1>3, <1>4, <1>5, <1>6 DEF Row, Fits

LEMMA CheckConfigurePreserves == ASSUME IInv, NEW c \in Clients, CheckConfigure(c) PROVE IInv'
<1>1. PICK s \in Items, id \in Identities, mode \in {"DHCP", "static"}, threshold \in Thresholds :
        Waits(c, [NoRequest EXCEPT !.op = "save", !.src = s,
                                  !.row = Configured(s, id, mode, threshold)])
  BY DEF CheckConfigure
<1> DEFINE new == Configured(s, id, mode, threshold)
<1> DEFINE request == [NoRequest EXCEPT !.op = "save", !.src = s, !.row = new]
<1>2. s \in Sources /\ new \in Row /\ Fits(s, new)
  BY ConfiguredFits
<1>3. Waits(c, request)
  BY <1>1
<1> HIDE DEF new
<1>4. /\ request \in Request
      /\ request.op = "save" /\ request.src = s /\ request.row = new
  BY <1>2 DEF Request, NoRequest
<1> HIDE DEF request
<1>5. QED
  BY <1>2, <1>3, <1>4, NewRequest

LEMMA OtherChecksPreserve ==
  ASSUME IInv, NEW c \in Clients, CheckDelete(c) \/ CheckBind(c) \/ CheckPrefix(c)
  PROVE  IInv'
<1>1. CASE CheckDelete(c)
  <2>1. PICK s \in Sources : Waits(c, [NoRequest EXCEPT !.op = "delete", !.src = s])
    BY <1>1 DEF CheckDelete
  <2>2. [NoRequest EXCEPT !.op = "delete", !.src = s] \in Request
    BY DEF Request, NoRequest
  <2>3. QED
    BY <2>1, <2>2, NewRequest DEF NoRequest
<1>2. CASE CheckBind(c)
  <2>1. PICK p \in PrefixIds, s \in Sources :
          /\ prefixes[p] # None
          /\ Waits(c, [NoRequest EXCEPT !.op = "bind", !.src = s, !.pfx = p, !.net = prefixes[p]])
    BY <1>2 DEF CheckBind, CanBind
  <2>2. prefixes[p] \in Nets
    BY <2>1 DEF IInv, TypeOK
  <2>3. [NoRequest EXCEPT !.op = "bind", !.src = s, !.pfx = p, !.net = prefixes[p]] \in Request
    BY <2>2 DEF Request, NoRequest
  <2>4. QED
    BY <2>1, <2>2, <2>3, NewRequest DEF NoRequest
<1>3. CASE CheckPrefix(c)
  <2>1. PICK p \in PrefixIds, net \in Nets \cup {None} :
          Waits(c, [NoRequest EXCEPT !.op = "prefix", !.pfx = p, !.net = net])
    BY <1>3 DEF CheckPrefix
  <2>2. [NoRequest EXCEPT !.op = "prefix", !.pfx = p, !.net = net] \in Request
    BY DEF Request, NoRequest
  <2>3. QED
    BY <2>1, <2>2, NewRequest DEF NoRequest
<1>4. QED
  BY <1>1, <1>2, <1>3

-----------------------------------------------------------------------------
(* Synchronisations.                                                        *)

LEMMA AnswersFit ==
  ASSUME NEW s \in Sources, NEW config \in Row, Fits(s, config)
  PROVE  /\ Failed(config) \in Row /\ Fits(s, Failed(config))
         /\ \A net \in Scopes, percent \in Percents :
              Succeeded(config, net, percent) \in Row /\ Fits(s, Succeeded(config, net, percent))
<1>1. Failed(config) \in Row /\ Fits(s, Failed(config))
  BY DEF Failed, Row, Fits
<1>2. ASSUME NEW net \in Scopes, NEW percent \in Percents
      PROVE  Succeeded(config, net, percent) \in Row /\ Fits(s, Succeeded(config, net, percent))
  <2> DEFINE snapshot == Collected(config, net, percent)
  <2>1. config.id \in Identities /\ (percent >= config.threshold) \in BOOLEAN
    BY BoundsAssumption DEF Row
  <2>2. /\ snapshot \in Snapshot /\ snapshot.of = config.id
        /\ snapshot.warning = (snapshot.percent >= config.threshold)
    BY <2>1 DEF Snapshot, Collected
  <2>3. Succeeded(config, net, percent) = [config EXCEPT !.error = FALSE, !.snapshot = snapshot]
    BY DEF Succeeded
  <2> HIDE DEF snapshot
  <2>4. QED
    BY <2>2, <2>3 DEF Row, Fits
<1>3. QED
  BY <1>1, <1>2

(* A step of a synchronisation that leaves the tables and requests alone.   *)
LEMMA QuietSync ==
  ASSUME IInv, NEW t \in Threads, NEW record \in Sync, NEW held \in BOOLEAN,
         sync' = [sync EXCEPT ![t] = record], lock' = held,
         UNCHANGED <<tables, client, edits, clashed>>,
         record.at # "idle" =>
           /\ record.src \in Sources
           /\ record.config \in Row
           /\ Fits(record.src, record.config)
  PROVE  IInv'
<1>1. TypeOK'
  BY DEF IInv, TypeOK, tables
<1>2. SnapshotFitsSettings' /\ ClientTyped'
  BY DEF IInv, tables, SnapshotFitsSettings, ClientTyped, Exists, Fits
<1>3. SyncTyped'
  BY DEF IInv, TypeOK, SyncTyped, Fits
<1>4. QED
  BY <1>1, <1>2, <1>3 DEF IInv

LEMMA IdleTyped == Idle \in Sync /\ Idle.at = "idle"
  BY DEF Idle, Sync

LEMMA SyncPreserves ==
  ASSUME IInv, NEW t \in Threads, ReadPool(t) \/ LockItem(t) \/ Step(t)
  PROVE  IInv'
<1>0. /\ lock \in BOOLEAN /\ sync[t] \in Sync /\ sync \in [Threads -> Sync]
      /\ sync[t].at # "idle" => /\ sync[t].src \in Sources /\ sync[t].config \in Row
                               /\ Fits(sync[t].src, sync[t].config)
  BY DEF IInv, TypeOK, SyncTyped
<1>1. CASE ReadPool(t) \/ LockItem(t)
  <2>1. PICK s \in Sources, at \in {"read", "collect"} :
          /\ Exists(s)
          /\ sync' = [sync EXCEPT ![t] = [Idle EXCEPT !.at = at, !.src = s, !.config = row[s]]]
    BY <1>1 DEF ReadPool, LockItem, Sources
  <2>2. row[s] \in Row /\ Fits(s, row[s])
    BY <2>1, ExistingRow DEF IInv, SnapshotFitsSettings
  <2> DEFINE record == [Idle EXCEPT !.at = at, !.src = s, !.config = row[s]]
  <2>3. /\ record \in Sync /\ record.src = s /\ record.config = row[s]
    BY <2>2 DEF Sync, Idle
  <2>4. sync' = [sync EXCEPT ![t] = record]
    BY <2>1
  <2>5. lock' \in BOOLEAN /\ UNCHANGED <<tables, client, edits, clashed>>
    BY <1>0, <1>1 DEF ReadPool, LockItem
  <2> HIDE DEF record
  <2>6. QED
    BY <2>2, <2>3, <2>4, <2>5, QuietSync
<1>2. CASE LockPool(t)
  <2>1. CASE ~lock /\ Exists(sync[t].src)
    <3> DEFINE record == [sync[t] EXCEPT !.at = "collect", !.stored = row[sync[t].src]]
    <3>1. sync[t].src \in Sources /\ sync[t].at = "read"
      BY <1>0, <1>2 DEF LockPool
    <3>2. row[sync[t].src] \in Row
      BY <2>1, <3>1, ExistingRow DEF IInv
    <3>3. record \in Sync /\ record.src = sync[t].src /\ record.config = sync[t].config
      BY <1>0, <3>2 DEF Sync
    <3>4. sync' = [sync EXCEPT ![t] = record]
      BY <1>0, <1>2, <2>1 DEF LockPool
    <3>5. lock' \in BOOLEAN /\ UNCHANGED <<tables, client, edits, clashed>>
      BY <1>2, <2>1 DEF LockPool
    <3> HIDE DEF record
    <3>6. QED
      BY <1>0, <3>1, <3>3, <3>4, <3>5, QuietSync
  <2>2. CASE ~(~lock /\ Exists(sync[t].src))
    BY <1>0, <1>2, <2>2, QuietSync, IdleTyped DEF LockPool, Ends
  <2>3. QED
    BY <2>1, <2>2
<1>3. CASE Collect(t)
  <2> DEFINE same == Exists(sync[t].src)
                       /\ Guarded(row[sync[t].src]) = Guarded(sync[t].config)
  <2>1. CASE same
    <3>1. sync[t].at = "collect"
      BY <1>3 DEF Collect
    <3>2. PICK answer : answer \in Row /\ Fits(sync[t].src, answer) /\ Answer(t, answer)
      BY <1>0, <1>3, <2>1, <3>1, AnswersFit DEF Collect
    <3> DEFINE record == [sync[t] EXCEPT !.at = "store", !.config = answer]
    <3>3. record \in Sync /\ record.src = sync[t].src /\ record.config = answer
      BY <1>0, <3>2 DEF Sync
    <3>4. sync' = [sync EXCEPT ![t] = record]
      BY <1>0, <3>2 DEF Answer
    <3>5. lock' \in BOOLEAN /\ UNCHANGED <<tables, client, edits, clashed>>
      BY <1>0, <1>3, <2>1 DEF Collect
    <3> HIDE DEF record
    <3>6. QED
      BY <1>0, <3>1, <3>2, <3>3, <3>4, <3>5, QuietSync
  <2>2. CASE ~same
    BY <1>0, <1>3, <2>2, QuietSync, IdleTyped DEF Collect, Ends, Release
  <2>3. QED
    BY <2>1, <2>2
<1>4. CASE Store(t)
  <2> DEFINE s == sync[t].src
  <2>1. /\ s \in Sources /\ sync[t].config \in Row /\ Fits(s, sync[t].config)
        /\ row \in [Sources -> Row \cup {None, Gone}]
    BY <1>0, <1>4 DEF Store, IInv, TypeOK
  <2>2. /\ row' = row \/ row' = [row EXCEPT ![s] = sync[t].config]
        /\ UNCHANGED <<prefixes, links, client, edits, clashed>>
        /\ lock' = FALSE /\ sync' = [sync EXCEPT ![t] = Idle]
    BY <1>4 DEF Store, Release, Ends
  <2> HIDE DEF s
  <2>3. row' \in [Sources -> Row \cup {None, Gone}]
    BY <2>1, <2>2
  <2>4. TypeOK'
    BY <1>0, <2>2, <2>3, IdleTyped DEF IInv, TypeOK
  <2>5. \A other \in Sources : row'[other] = row[other] \/ (other = s /\ row'[other] = sync[t].config)
    BY <2>1, <2>2
  <2>6. SnapshotFitsSettings'
    BY <2>1, <2>5 DEF IInv, SnapshotFitsSettings, Exists, Fits
  <2>7. SyncTyped' /\ ClientTyped'
    BY <1>0, <2>2, IdleTyped DEF IInv, SyncTyped, ClientTyped, Fits
  <2>8. QED
    BY <2>4, <2>6, <2>7 DEF IInv
<1>5. QED
  BY <1>1, <1>2, <1>3, <1>4 DEF Step

-----------------------------------------------------------------------------
(* Commits of requests.                                                     *)

LEMMA CommitTypes ==
  ASSUME IInv, NEW cs, Commits(cs)
  PROVE  /\ UNCHANGED <<lock, sync>>
         /\ client' \in [Clients -> Request]
         /\ edits' \in 0 .. MaxEdits /\ clashed' \in BOOLEAN
         /\ SyncTyped' /\ ClientTyped'
<1>1. NoRequest \in Request /\ NoRequest.op = "idle"
  BY DEF NoRequest, Request
<1>2. \A c \in Clients : client'[c] = client[c] \/ client'[c] = NoRequest
  BY DEF Commits
<1>3. client' \in [Clients -> Request]
  BY <1>1 DEF Commits, IInv, TypeOK
<1>4. edits' \in 0 .. MaxEdits
  BY BoundsAssumption DEF Commits, IInv, TypeOK
<1>5. clashed' \in BOOLEAN
  <2>1. clashed' = (clashed \/ \E c \in Clients \ cs : client[c] # NoRequest)
    BY DEF Commits
  <2>2. (clashed \/ \E c \in Clients \ cs : client[c] # NoRequest) \in BOOLEAN
    BY Zenon
  <2>3. QED
    BY <2>1, <2>2, Zenon
<1>6. ClientTyped'
  BY <1>1, <1>2 DEF IInv, ClientTyped, Fits
<1>7. SyncTyped'
  BY DEF Commits, IInv, SyncTyped, Fits
<1>8. QED
  BY <1>3, <1>4, <1>5, <1>6, <1>7 DEF Commits

LEMMA CommitPreserves ==
  ASSUME IInv, \/ \E c \in Clients : Commit(c)
               \/ Unbind \/ CreatePrefix
  PROVE  IInv'
<1>0. /\ row \in [Sources -> Row \cup {None, Gone}]
      /\ prefixes \in [PrefixIds -> Nets \cup {None}]
      /\ links \in [PrefixIds -> Link \cup {None}]
      /\ lock \in BOOLEAN /\ sync \in [Threads -> Sync]
      /\ SnapshotFitsSettings
  BY DEF IInv, TypeOK
<1>1. ASSUME NEW c \in Clients, Save(c) PROVE IInv'
  <2> DEFINE s == client[c].src
  <2>1. s \in Sources /\ client[c].row \in Row /\ Fits(s, client[c].row)
    BY <1>1 DEF Save, IInv, ClientTyped
  <2>2. /\ row' = row \/ row' = [row EXCEPT ![s] = client[c].row]
        /\ UNCHANGED <<prefixes, links>> /\ Commits({c})
    BY <1>1 DEF Save
  <2> HIDE DEF s
  <2>3. row' \in [Sources -> Row \cup {None, Gone}]
    BY <1>0, <2>1, <2>2
  <2>4. \A other \in Sources : row'[other] = row[other] \/ (other = s /\ row'[other] = client[c].row)
    BY <1>0, <2>1, <2>2
  <2>5. SnapshotFitsSettings'
    BY <1>0, <2>1, <2>4 DEF SnapshotFitsSettings, Exists, Fits
  <2>6. QED
    BY <1>0, <2>2, <2>3, <2>5, CommitTypes DEF IInv, TypeOK
<1>2. ASSUME NEW c \in Clients, Delete(c) PROVE IInv'
  <2>1. /\ client[c].src \in Sources
        /\ row' = [row EXCEPT ![client[c].src] = Gone]
        /\ UNCHANGED <<prefixes, links>> /\ Commits({c})
    BY <1>2 DEF Delete, IInv, ClientTyped
  <2>2. row' \in [Sources -> Row \cup {None, Gone}]
    BY <1>0, <2>1
  <2>3. SnapshotFitsSettings'
    BY <1>0, <2>1 DEF SnapshotFitsSettings, Exists, Fits
  <2>4. QED
    BY <1>0, <2>1, <2>2, <2>3, CommitTypes DEF IInv, TypeOK
<1>3. ASSUME NEW c \in Clients, Bind(c) PROVE IInv'
  <2>1. [src |-> client[c].src, net |-> client[c].net] \in Link
    BY <1>3 DEF Bind, IInv, ClientTyped, Link
  <2>2. links' \in [PrefixIds -> Link \cup {None}] /\ UNCHANGED <<row, prefixes>> /\ Commits({c})
    BY <1>0, <1>3, <2>1 DEF Bind
  <2>3. SnapshotFitsSettings'
    BY <1>0, <2>2 DEF SnapshotFitsSettings, Exists, Fits
  <2>4. QED
    BY <1>0, <2>2, <2>3, CommitTypes DEF IInv, TypeOK
<1>4. ASSUME NEW c \in Clients, ChangePrefix(c) PROVE IInv'
  <2>1. client[c].net \in Nets \cup {None}
    BY DEF IInv, TypeOK, Request
  <2>2. prefixes' \in [PrefixIds -> Nets \cup {None}] /\ UNCHANGED <<row, links>> /\ Commits({c})
    BY <1>0, <1>4, <2>1 DEF ChangePrefix
  <2>3. SnapshotFitsSettings'
    BY <1>0, <2>2 DEF SnapshotFitsSettings, Exists, Fits
  <2>4. QED
    BY <1>0, <2>2, <2>3, CommitTypes DEF IInv, TypeOK
<1>5. CASE Unbind \/ CreatePrefix
  <2>1. /\ prefixes' \in [PrefixIds -> Nets \cup {None}]
        /\ links' \in [PrefixIds -> Link \cup {None}]
        /\ UNCHANGED row /\ Commits({})
    BY <1>0, <1>5 DEF Unbind, CreatePrefix
  <2>2. SnapshotFitsSettings'
    BY <1>0, <2>1 DEF SnapshotFitsSettings, Exists, Fits
  <2>3. QED
    BY <1>0, <2>1, <2>2, CommitTypes DEF IInv, TypeOK
<1>6. QED
  BY <1>1, <1>2, <1>3, <1>4, <1>5 DEF Commit

LEMMA InitHolds == ASSUME Init PROVE IInv
<1>1. Idle \in Sync /\ Idle.at = "idle" /\ NoRequest \in Request /\ NoRequest.op = "idle"
  BY IdleTyped DEF NoRequest, Request
<1>2. row \in [Sources -> Fresh \cup {None, Gone}] /\ Fresh \subseteq Row
  BY DEF Init, Fresh
<1>3. TypeOK
  <2>1. row \in [Sources -> Row \cup {None, Gone}]
    BY <1>2
  <2>2. edits \in 0 .. MaxEdits
    BY BoundsAssumption DEF Init
  <2>3. QED
    BY <1>1, <2>1, <2>2 DEF Init, TypeOK
<1>4. SnapshotFitsSettings
  BY <1>2 DEF SnapshotFitsSettings, Exists, Fits, Fresh
<1>5. SyncTyped /\ ClientTyped
  BY <1>1 DEF Init, SyncTyped, ClientTyped
<1>6. QED
  BY <1>3, <1>4, <1>5 DEF IInv

LEMMA StepHolds == ASSUME IInv, [Next]_vars PROVE IInv'
<1>0. NoRequest \in Request /\ NoRequest.op = "idle"
  BY DEF NoRequest, Request
<1>1. CASE UNCHANGED vars
  BY <1>1 DEF vars, tables, IInv, TypeOK, SnapshotFitsSettings, SyncTyped, ClientTyped, Exists, Fits
<1>2. ASSUME NEW t \in Threads, ReadPool(t) \/ LockItem(t) \/ Step(t) PROVE IInv'
  BY <1>2, SyncPreserves
<1>3. ASSUME NEW c \in Clients, Check(c) PROVE IInv'
  BY <1>3, CheckSavePreserves, CheckConfigurePreserves, OtherChecksPreserve DEF Check
<1>4. CASE (\E c \in Clients : Commit(c)) \/ Unbind \/ CreatePrefix
  BY <1>4, CommitPreserves
<1>5. ASSUME NEW c \in Clients, Refuse(c) PROVE IInv'
  <2>1. TypeOK'
    BY <1>0, <1>5 DEF Refuse, IInv, TypeOK, tables
  <2>2. SnapshotFitsSettings' /\ SyncTyped'
    BY <1>5 DEF Refuse, IInv, tables, SnapshotFitsSettings, SyncTyped, Exists, Fits
  <2>3. ClientTyped'
    BY <1>0, <1>5 DEF Refuse, IInv, TypeOK, ClientTyped, Fits
  <2>4. QED
    BY <2>1, <2>2, <2>3 DEF IInv
<1>6. CASE Crash
  <2>1. TypeOK'
    BY <1>0, <1>6, IdleTyped DEF Crash, IInv, TypeOK, tables
  <2>2. SnapshotFitsSettings'
    BY <1>6 DEF Crash, IInv, tables, SnapshotFitsSettings, Exists, Fits
  <2>3. SyncTyped' /\ ClientTyped'
    BY <1>0, <1>6, IdleTyped DEF Crash, SyncTyped, ClientTyped
  <2>4. QED
    BY <2>1, <2>2, <2>3 DEF IInv
<1>7. QED
  BY <1>1, <1>2, <1>3, <1>4, <1>5, <1>6 DEF Next

-----------------------------------------------------------------------------
\* What the tables, the threads and the requests hold always has its type, and
\* every text on its way to a table fits its source.
THEOREM Invariance == Spec => []IInv
<1>1. Init => IInv
  BY InitHolds
<1>2. IInv /\ [Next]_vars => IInv'
  BY StepHolds
<1>3. QED
  BY <1>1, <1>2, PTL DEF Spec

\* Every reachable state of the sources, links and threads is well typed.
THEOREM TypeCorrect == Spec => []TypeOK
<1>1. IInv => TypeOK
  BY DEF IInv
<1>2. QED
  BY <1>1, Invariance, PTL

\* No source ever shows the statistics of another server or scope, whatever the
\* number of sources, synchronisations and requests and whatever their order.
THEOREM SnapshotsFit == Spec => []SnapshotFitsSettings
<1>1. IInv => SnapshotFitsSettings
  BY DEF IInv
<1>2. QED
  BY <1>1, Invariance, PTL

-----------------------------------------------------------------------------
\* The result of a synchronisation never undoes what an operator saved of a pool,
\* unless the synchronisation itself read two different settings: the text it
\* stores has the settings of the text that it replaces.
THEOREM EditsAreKept == Spec => EditsWin
<1> DEFINE Kept ==
      \A s \in Pools :
        Exists(s) /\ row'[s] # row[s] /\ client' = client =>
          \/ Settings(row'[s]) = Settings(row[s])
          \/ \E t \in Threads : /\ sync[t].at = "store" /\ sync[t].src = s
                                /\ Settings(sync[t].config) # Settings(sync[t].stored)
<1>1. ASSUME IInv, [Next]_vars PROVE Kept
  <2> SUFFICES ASSUME NEW s \in Pools, Exists(s), row'[s] # row[s], client' = client
               PROVE  \/ Settings(row'[s]) = Settings(row[s])
                      \/ \E t \in Threads : /\ sync[t].at = "store" /\ sync[t].src = s
                                            /\ Settings(sync[t].config) # Settings(sync[t].stored)
    OBVIOUS
  <2>1. ~\E c \in Clients : Commit(c)
    <3> SUFFICES ASSUME NEW c \in Clients, Commit(c) PROVE FALSE
      OBVIOUS
    <3>1. client[c].op # "idle" /\ Commits({c})
      BY DEF Commit, Save, Delete, Bind, ChangePrefix
    <3>2. client'[c] = NoRequest
      BY <3>1 DEF Commits
    <3>3. QED
      BY <3>1, <3>2 DEF NoRequest
  <2>2. PICK t \in Threads : Store(t)
    <3>1. row' # row
      BY <1>1
    <3>2. ~UNCHANGED vars /\ ~Crash /\ ~Unbind /\ ~CreatePrefix
      BY <3>1 DEF vars, tables, Crash, Unbind, CreatePrefix
    <3>3. ~\E t \in Threads : ReadPool(t) \/ LockItem(t) \/ LockPool(t) \/ Collect(t)
      BY ZenonT(40), <3>1 DEF ReadPool, LockItem, LockPool, Collect, tables
    <3>4. ASSUME NEW c \in Clients, Check(c) \/ Refuse(c) PROVE FALSE
      <4>1. UNCHANGED tables
        BY ZenonT(40), <3>4 DEF Check, CheckSave, CheckConfigure, CheckDelete, CheckBind, CheckPrefix, Waits,
                    Refuse
      <4>2. QED
        BY <3>1, <4>1 DEF tables
    <3>5. QED
      BY <1>1, <2>1, <3>2, <3>3, <3>4 DEF Next, Step
  <2>3. /\ sync[t].at = "store" /\ sync[t].src = s
        /\ MayStore(t) /\ row'[s] = sync[t].config
    BY <1>1, <2>2 DEF Store, IInv, TypeOK, Sources
  <2>4. row[s] = sync[t].stored
    BY <2>3 DEF MayStore
  <2>5. QED
    BY <2>3, <2>4
<1>2. QED
  BY <1>1, Invariance, PTL DEF EditsWin, Spec

-----------------------------------------------------------------------------
(* Links: what a request found when it checked holds until something clashes. *)
Sound ==
  \A p \in PrefixIds : links[p] # None => prefixes[p] = links[p].net /\ Exists(links[p].src)

Holds(c) ==
  /\ client[c].op = "bind" =>
       prefixes[client[c].pfx] = client[c].net /\ Exists(client[c].src)
  /\ client[c].op = "prefix" => links[client[c].pfx] = None
  /\ client[c].op = "delete" => ~Linked(client[c].src)

LinkInv == ~clashed => Sound /\ \A c \in Clients : Holds(c)

(* A commit that overtakes nobody leaves no request behind.                  *)
LEMMA Alone ==
  ASSUME IInv, NEW cs, Commits(cs), ~clashed'
  PROVE  /\ ~clashed
         /\ \A c \in Clients : client'[c] = NoRequest
         /\ \A c \in Clients : Holds(c)'
<1>1. ~clashed /\ \A c \in Clients \ cs : client[c] = NoRequest
  BY DEF Commits
<1>2. \A c \in Clients : client'[c] = NoRequest
  BY <1>1 DEF Commits
<1>3. NoRequest.op = "idle"
  BY DEF NoRequest
<1>4. QED
  BY <1>1, <1>2, <1>3 DEF Holds

(* Sources that exist go on existing, and nothing else changes.              *)
LEMMA RowsOnly ==
  ASSUME LinkInv, UNCHANGED <<prefixes, links, client, clashed>>,
         \A s \in Sources : Exists(s) => Exists(s)',
         IInv
  PROVE  LinkInv'
<1>1. \A p \in PrefixIds : links[p] # None => links[p].src \in Sources
  BY DEF IInv, TypeOK, Link
<1>2. \A c \in Clients : client[c].op = "bind" => client[c].src \in Sources
  BY DEF IInv, ClientTyped
<1>3. \A s : Linked(s)' = Linked(s)
  BY DEF Linked
<1>4. Sound => Sound'
  BY <1>1 DEF Sound
<1>5. \A c \in Clients : Holds(c) => Holds(c)'
  BY <1>2, <1>3 DEF Holds
<1>6. QED
  BY <1>4, <1>5 DEF LinkInv

LEMMA CommitKeepsSound ==
  ASSUME IInv, LinkInv, \/ \E c \in Clients : Commit(c)
                        \/ Unbind \/ CreatePrefix
  PROVE  LinkInv'
<1> SUFFICES ASSUME ~clashed' PROVE Sound' /\ \A c \in Clients : Holds(c)'
  BY DEF LinkInv
<1>1. PICK cs : Commits(cs)
  BY DEF Commit, Save, Delete, Bind, ChangePrefix, Unbind, CreatePrefix
<1>2. Sound /\ (\A c \in Clients : Holds(c)) /\ (\A c \in Clients : Holds(c)')
  BY <1>1, Alone DEF LinkInv
<1>3. /\ row \in [Sources -> Row \cup {None, Gone}]
      /\ prefixes \in [PrefixIds -> Nets \cup {None}]
      /\ links \in [PrefixIds -> Link \cup {None}]
      /\ \A p \in PrefixIds : links[p] # None => links[p].src \in Sources /\ links[p].net \in Nets
  BY DEF IInv, TypeOK, Link
<1>4. ASSUME NEW c \in Clients, Save(c) PROVE Sound'
  <2>1. client[c].src \in Sources /\ client[c].row \in Row
    BY <1>4 DEF Save, IInv, ClientTyped
  <2>2. \A s \in Sources : Exists(s) => Exists(s)'
    BY <1>3, <1>4, <2>1, RowAssumption DEF Save, Exists
  <2>3. UNCHANGED <<prefixes, links>>
    BY <1>4 DEF Save
  <2>4. QED
    BY <1>2, <1>3, <2>2, <2>3 DEF Sound
<1>5. ASSUME NEW c \in Clients, Delete(c) PROVE Sound'
  <2>1. \A p \in PrefixIds : links[p] # None => links[p].src # client[c].src
    BY <1>2, <1>5 DEF Delete, Holds, Linked
  <2>2. \A s \in Sources : s # client[c].src => row'[s] = row[s]
    BY <1>3, <1>5 DEF Delete
  <2>3. QED
    BY <1>2, <1>3, <1>5, <2>1, <2>2 DEF Delete, Sound, Exists
<1>6. ASSUME NEW c \in Clients, Bind(c) PROVE Sound'
  <2>1. prefixes[client[c].pfx] = client[c].net /\ Exists(client[c].src)
    BY <1>2, <1>6 DEF Bind, Holds
  <2>2. QED
    BY <1>2, <1>3, <1>6, <2>1 DEF Bind, Sound, Exists
<1>7. ASSUME NEW c \in Clients, ChangePrefix(c) PROVE Sound'
  <2>1. links[client[c].pfx] = None
    BY <1>2, <1>7 DEF ChangePrefix, Holds
  <2>2. QED
    BY <1>2, <1>3, <1>7, <2>1 DEF ChangePrefix, Sound, Exists
<1>8. CASE Unbind
  BY <1>2, <1>3, <1>8 DEF Unbind, Sound, Exists
<1>9. CASE CreatePrefix
  <2>1. PICK p \in PrefixIds, net \in Nets :
          prefixes[p] = None /\ prefixes' = [prefixes EXCEPT ![p] = net]
    BY <1>9 DEF CreatePrefix
  <2>2. links[p] = None
    BY <1>2, <1>3, <2>1, ScopesAssumption DEF Sound
  <2>3. QED
    BY <1>2, <1>3, <1>9, <2>1, <2>2 DEF CreatePrefix, Sound, Exists
<1>10. QED
  BY <1>2, <1>4, <1>5, <1>6, <1>7, <1>8, <1>9 DEF Commit

LEMMA CheckKeepsSound ==
  ASSUME IInv, LinkInv, NEW c \in Clients, Check(c) \/ Refuse(c)
  PROVE  LinkInv'
<1>1. UNCHANGED tables /\ UNCHANGED clashed
  BY ZenonT(40) DEF Check, CheckSave, CheckConfigure, CheckDelete, CheckBind, CheckPrefix, Waits, Refuse
<1>2. \A d \in Clients \ {c} : client'[d] = client[d]
  BY ZenonT(40) DEF Check, CheckSave, CheckConfigure, CheckDelete, CheckBind, CheckPrefix, Waits, Refuse,
         IInv, TypeOK
<1>3. Holds(c)'
  <2>0. NoRequest.op = "idle" /\ \A request : Waits(c, request) => client'[c] = request
    BY DEF NoRequest, Waits, IInv, TypeOK
  <2>1. CASE CheckSave(c) \/ CheckConfigure(c)
    <3>1. client'[c].op \in {"save", "create"}
      BY ZenonT(40), <2>0, <2>1 DEF CheckSave, CheckConfigure, SaveOf, NoRequest
    <3>2. QED
      BY <3>1 DEF Holds
  <2>2. CASE CheckDelete(c)
    <3>1. PICK s \in Sources : MayDelete(s) /\ Waits(c, [NoRequest EXCEPT !.op = "delete", !.src = s])
      BY <2>2 DEF CheckDelete
    <3>2. client'[c].op = "delete" /\ client'[c].src = s /\ ~Linked(s)
      BY <2>0, <3>1 DEF NoRequest, MayDelete
    <3>3. QED
      BY <1>1, <3>2 DEF Holds, Linked, tables
  <2>3. CASE CheckBind(c)
    <3>1. PICK p \in PrefixIds, s \in Sources :
            /\ CanBind(p, s)
            /\ Waits(c, [NoRequest EXCEPT !.op = "bind", !.src = s, !.pfx = p, !.net = prefixes[p]])
      BY <2>3 DEF CheckBind
    <3>2. /\ client'[c].op = "bind" /\ client'[c].src = s
          /\ client'[c].pfx = p /\ client'[c].net = prefixes[p] /\ Exists(s)
      BY <2>0, <3>1 DEF NoRequest, CanBind
    <3>3. QED
      BY <1>1, <3>2 DEF Holds, Exists, tables
  <2>4. CASE CheckPrefix(c)
    <3>1. PICK p \in PrefixIds, net \in Nets \cup {None} :
            links[p] = None /\ Waits(c, [NoRequest EXCEPT !.op = "prefix", !.pfx = p, !.net = net])
      BY <2>4 DEF CheckPrefix
    <3>2. client'[c].op = "prefix" /\ client'[c].pfx = p
      BY <2>0, <3>1 DEF NoRequest
    <3>3. QED
      BY <1>1, <3>1, <3>2 DEF Holds, tables
  <2>5. CASE Refuse(c)
    <3>1. client'[c].op = "idle"
      BY <2>0, <2>5 DEF Refuse, IInv, TypeOK
    <3>2. QED
      BY <3>1 DEF Holds
  <2>6. QED
    BY <2>1, <2>2, <2>3, <2>4, <2>5 DEF Check
<1>4. Sound => Sound'
  BY <1>1 DEF Sound, Exists, tables
<1>5. \A d \in Clients \ {c} : Holds(d) => Holds(d)'
  BY <1>1, <1>2 DEF Holds, Linked, Exists, tables
<1>6. QED
  BY <1>1, <1>3, <1>4, <1>5 DEF LinkInv

LEMMA LinkInvariance == Spec => []LinkInv
<1>1. Init => LinkInv
  BY DEF Init, LinkInv, Sound, Holds, NoRequest
<1>2. ASSUME IInv, LinkInv, [Next]_vars PROVE LinkInv'
  <2>1. CASE UNCHANGED vars
    BY <1>2, <2>1, RowsOnly DEF vars, tables, Exists
  <2>2. ASSUME NEW t \in Threads, ReadPool(t) \/ LockItem(t) \/ LockPool(t) \/ Collect(t)
        PROVE  LinkInv'
    BY <1>2, <2>2, RowsOnly DEF ReadPool, LockItem, LockPool, Collect, tables, Exists
  <2>3. ASSUME NEW t \in Threads, Store(t) PROVE LinkInv'
    <3>1. sync[t].config \in Row /\ row \in [Sources -> Row \cup {None, Gone}]
      BY <1>2, <2>3 DEF Store, IInv, SyncTyped, TypeOK
    <3>2. \A s \in Sources : Exists(s) => Exists(s)'
      BY <2>3, <3>1, RowAssumption DEF Store, Exists
    <3>3. QED
      BY <1>2, <2>3, <3>2, RowsOnly DEF Store
  <2>4. ASSUME NEW c \in Clients, Check(c) \/ Refuse(c) PROVE LinkInv'
    BY <1>2, <2>4, CheckKeepsSound
  <2>5. CASE (\E c \in Clients : Commit(c)) \/ Unbind \/ CreatePrefix
    BY <1>2, <2>5, CommitKeepsSound
  <2>6. CASE Crash
    <3>1. \A c \in Clients : Holds(c)'
      BY <2>6 DEF Crash, Holds, NoRequest
    <3>2. Sound => Sound'
      BY <2>6 DEF Crash, Sound, Exists, tables
    <3>3. QED
      BY <1>2, <2>6, <3>1, <3>2 DEF LinkInv, Crash
  <2>7. QED
    BY <1>2, <2>1, <2>2, <2>3, <2>4, <2>5, <2>6 DEF Next, Step
<1>3. QED
  BY <1>1, <1>2, Invariance, PTL DEF Spec

\* A link always refers to a source that exists and to a prefix with the network
\* it was made for, whatever operators and synchronisations do, as long as no
\* request commits inside another.
THEOREM LinksStaySound == Spec => []LinksAreSound
<1>1. LinkInv => LinksAreSound
  BY DEF LinkInv, Sound, LinksAreSound
<1>2. QED
  BY <1>1, LinkInvariance, PTL

-----------------------------------------------------------------------------
(* The threads past the lock, and what the lock says of them.               *)
Inside(t) == sync[t].at \in {"collect", "store"}
Exclusive ==
  /\ lock => \E t \in Threads : Inside(t) /\ \A u \in Threads : Inside(u) => u = t
  /\ ~lock => \A t \in Threads : ~Inside(t)

LEMMA ExclusiveStep ==
  ASSUME IInv, Exclusive, NEW t \in Threads, ReadPool(t) \/ LockItem(t) \/ Step(t)
  PROVE  Exclusive'
<1>0. /\ sync \in [Threads -> Sync] /\ lock \in BOOLEAN
      /\ ~(Idle.at \in {"collect", "store"}) /\ Idle.at = "idle"
  BY DEF IInv, TypeOK, Idle
<1>1. \A u \in Threads \ {t} : sync'[u] = sync[u]
  BY <1>0 DEF ReadPool, LockItem, Step, LockPool, Collect, Store, Ends, Answer
<1>2. \A u \in Threads \ {t} : Inside(u)' <=> Inside(u)
  BY <1>1 DEF Inside
<1>3. CASE lock' = lock /\ (Inside(t)' <=> Inside(t))
  BY <1>2, <1>3 DEF Exclusive
<1>4. CASE ~lock /\ lock' /\ Inside(t)'
  BY <1>2, <1>4 DEF Exclusive
<1>5. CASE lock /\ Inside(t) /\ ~lock' /\ ~Inside(t)'
  BY <1>2, <1>5 DEF Exclusive
<1>6. CASE ReadPool(t)
  <2>1. PICK s \in Pools :
          sync' = [sync EXCEPT ![t] = [Idle EXCEPT !.at = "read", !.src = s, !.config = row[s]]]
    BY <1>6 DEF ReadPool
  <2>2. sync'[t].at = "read" /\ sync[t].at = "idle" /\ lock' = lock
    BY <1>0, <1>6, <2>1 DEF ReadPool, Idle
  <2>3. QED
    BY <1>3, <2>2 DEF Inside
<1>7. CASE LockItem(t)
  <2>1. PICK s \in Items :
          sync' = [sync EXCEPT ![t] = [Idle EXCEPT !.at = "collect", !.src = s, !.config = row[s]]]
    BY <1>7 DEF LockItem
  <2>2. sync'[t].at = "collect" /\ ~lock /\ lock'
    BY <1>0, <1>7, <2>1 DEF LockItem, Idle
  <2>3. QED
    BY <1>4, <2>2 DEF Inside
<1>8. CASE LockPool(t)
  <2>1. CASE ~lock /\ Exists(sync[t].src)
    <3>1. sync'[t].at = "collect" /\ lock'
      BY <1>0, <1>8, <2>1 DEF LockPool, Sync
    <3>2. QED
      BY <1>4, <2>1, <3>1 DEF Inside
  <2>2. CASE ~(~lock /\ Exists(sync[t].src))
    <3>1. sync'[t].at = "idle" /\ sync[t].at = "read" /\ lock' = lock
      BY <1>0, <1>8, <2>2 DEF LockPool, Ends
    <3>2. QED
      BY <1>3, <3>1 DEF Inside
  <2>3. QED
    BY <2>1, <2>2
<1>9. CASE Collect(t)
  <2>1. sync[t].at = "collect" /\ lock
    BY <1>0, <1>9 DEF Collect, Exclusive, Inside
  <2>2. (sync'[t].at = "store" /\ lock' = lock) \/ (sync'[t].at = "idle" /\ ~lock')
    BY <1>0, <1>9 DEF Collect, Answer, Release, Ends, Sync
  <2>3. QED
    BY <1>3, <1>5, <2>1, <2>2 DEF Inside
<1>10. CASE Store(t)
  <2>1. sync[t].at = "store" /\ lock
    BY <1>0, <1>10 DEF Store, Exclusive, Inside
  <2>2. sync'[t].at = "idle" /\ ~lock'
    BY <1>0, <1>10 DEF Store, Release, Ends
  <2>3. QED
    BY <1>5, <2>1, <2>2 DEF Inside
<1>11. QED
  BY <1>6, <1>7, <1>8, <1>9, <1>10 DEF Step

LEMMA Exclusion == Spec => []Exclusive
<1>1. Init => Exclusive
  BY DEF Init, Exclusive, Inside, Idle
<1>2. ASSUME IInv, Exclusive, [Next]_vars PROVE Exclusive'
  <2>1. ASSUME NEW t \in Threads, ReadPool(t) \/ LockItem(t) \/ Step(t) PROVE Exclusive'
    BY <1>2, <2>1, ExclusiveStep
  <2>2. CASE UNCHANGED <<lock, sync>>
    BY <1>2, <2>2 DEF Exclusive, Inside
  <2>3. CASE Crash
    BY SMTT(30), <2>3 DEF Crash, Exclusive, Inside, Idle
  <2>4. ASSUME NEW c \in Clients, Check(c) \/ Refuse(c) PROVE UNCHANGED <<lock, sync>>
    BY ZenonT(40), <2>4 DEF Check, CheckSave, CheckConfigure, CheckDelete, CheckBind, CheckPrefix, Waits, Refuse
  <2>5. ASSUME NEW c \in Clients, Commit(c) PROVE UNCHANGED <<lock, sync>>
    BY <2>5 DEF Commit, Save, Delete, Bind, ChangePrefix, Commits
  <2>6. UNCHANGED vars \/ Unbind \/ CreatePrefix => UNCHANGED <<lock, sync>>
    BY DEF vars, Unbind, CreatePrefix, Commits
  <2>7. QED
    BY <1>2, <2>1, <2>2, <2>3, <2>4, <2>5, <2>6 DEF Next
<1>3. QED
  BY <1>1, <1>2, Invariance, PTL DEF Spec

\* At any time at most one synchronisation collects or stores, and the lock is
\* held exactly then: no way out of a synchronisation keeps it.
THEOREM OneCollects == Spec => []OneAtATime
<1>1. ASSUME IInv, Exclusive PROVE OneAtATime
  <2> DEFINE inside == {t \in Threads : sync[t].at \in {"collect", "store"}}
  <2>1. CASE lock
    <3>1. PICK t \in Threads : Inside(t) /\ \A u \in Threads : Inside(u) => u = t
      BY <1>1, <2>1 DEF Exclusive
    <3>2. inside = {t}
      BY <3>1 DEF Inside
    <3>3. Cardinality(inside) = 1
      BY <3>2, FS_Singleton
    <3>4. QED
      BY <2>1, <3>3 DEF OneAtATime
  <2>2. CASE ~lock
    <3>1. inside = {}
      BY <1>1, <2>2 DEF Exclusive, Inside
    <3>2. Cardinality(inside) = 0
      BY <3>1, FS_EmptySet
    <3>3. QED
      BY <2>2, <3>2 DEF OneAtATime
  <2>3. QED
    BY <2>1, <2>2
<1>2. QED
  BY <1>1, Invariance, Exclusion, PTL
-----------------------------------------------------------------------------
(* A linked source keeps its server and scope.  A request that would change  *)
(* them was checked, and so was the store of an item; the store of a pool is *)
(* not, and matters when the settings changed between the two reads of       *)
(* sync_source.  Then the text it stores has another identity than the text  *)
(* it replaces, and the latter never had a snapshot to be linked with.       *)
Saving(c) == client[c].op \in {"create", "save"}

\* What a request is about to save: another identity only of a source without
\* links, and then, if it is a pool, without a snapshot.
SavesFit(c) ==
  LET s == client[c].src IN
  Saving(c) =>
    /\ Exists(s) /\ row[s].id # client[c].row.id => ~Linked(s)
    /\ s \in Pools /\ ~(Exists(s) /\ row[s].id = client[c].row.id) => client[c].row.snapshot = None

\* The two texts that sync_source read have different identities.
Torn(t) ==
  sync[t].at = "store" /\ sync[t].src \in Pools /\ sync[t].stored.id # sync[t].config.id

\* Then the source of the second text cannot be linked, now or after a commit.
Unused(t) ==
  LET s == sync[t].src IN
  Torn(t) =>
    /\ Exists(s) /\ row[s].id = sync[t].stored.id =>
         /\ row[s].snapshot = None
         /\ ~Linked(s)
         /\ \A c \in Clients : ~(client[c].op = "bind" /\ client[c].src = s)
    /\ \A c \in Clients :
         Saving(c) /\ client[c].src = s /\ client[c].row.id = sync[t].stored.id
           => client[c].row.snapshot = None

StoredTyped ==
  \A t \in Threads : Inside(t) /\ sync[t].src \in Pools => sync[t].stored \in Row

KeepInv ==
  /\ StoredTyped
  /\ ~clashed => (\A c \in Clients : SavesFit(c)) /\ (\A t \in Threads : Unused(t))

(* A request that commits overtakes nobody: only what it does itself counts. *)
LEMMA CommitKeeps ==
  ASSUME IInv, LinkInv, KeepInv, \/ \E c \in Clients : Commit(c)
                                 \/ Unbind \/ CreatePrefix
  PROVE  KeepInv'
<1>1. PICK cs : Commits(cs)
  BY DEF Commit, Save, Delete, Bind, ChangePrefix, Unbind, CreatePrefix
<1>2. sync' = sync
  BY <1>1 DEF Commits
<1>3. StoredTyped'
  BY <1>2 DEF KeepInv, StoredTyped, Inside
<1> SUFFICES ASSUME ~clashed'
             PROVE  (\A c \in Clients : SavesFit(c)') /\ (\A t \in Threads : Unused(t)')
  BY <1>3 DEF KeepInv
<1>4. /\ ~clashed /\ Sound
      /\ \A c \in Clients : SavesFit(c)
      /\ \A t \in Threads : Unused(t)
      /\ \A c \in Clients : client'[c].op = "idle"
  BY <1>1, Alone DEF KeepInv, LinkInv, NoRequest
<1>5. \A c \in Clients : SavesFit(c)'
  BY <1>4 DEF SavesFit, Saving
<1>6. ASSUME NEW t \in Threads,
             \A s \in Sources :
               /\ Torn(t) /\ s = sync[t].src /\ s \in Pools
               /\ Exists(s)' /\ row'[s].id = sync[t].stored.id
               => row'[s].snapshot = None /\ ~Linked(s)'
      PROVE  Unused(t)'
  <2> SUFFICES ASSUME Torn(t) PROVE Unused(t)'
    BY <1>2 DEF Unused, Torn
  <2>1. PICK s \in Sources : s = sync[t].src /\ s \in Pools
    BY DEF Torn, Sources
  <2>2. sync'[t].src = s /\ sync'[t].stored = sync[t].stored
    BY <1>2, <2>1
  <2>3. Exists(s)' /\ row'[s].id = sync[t].stored.id => row'[s].snapshot = None /\ ~Linked(s)'
    BY <1>6, <2>1
  <2>4. QED
    BY <1>4, <2>2, <2>3 DEF Unused, Saving, Exists, Linked
<1>7. /\ row \in [Sources -> Row \cup {None, Gone}]
      /\ links \in [PrefixIds -> Link \cup {None}]
      /\ \A p \in PrefixIds : links[p] # None => links[p].src \in Sources
  BY DEF IInv, TypeOK, Link
<1>8. \A s \in Sources : Linked(s) => Exists(s)
  BY <1>4 DEF Linked, Sound
<1>9. ASSUME NEW c \in Clients, Save(c), NEW t \in Threads PROVE Unused(t)'
  <2> SUFFICES ASSUME NEW s \in Sources, Torn(t), s = sync[t].src, s \in Pools,
                      Exists(s)', row'[s].id = sync[t].stored.id
               PROVE  row'[s].snapshot = None /\ ~Linked(s)'
    BY <1>6
  <2>1. links' = links
    BY <1>9 DEF Save
  <2>2. (Linked(s)' <=> Linked(s)) /\ (Linked(s) => Exists(s)) /\ Unused(t)
    BY <1>4, <1>8, <2>1 DEF Linked
  <2>3. CASE row'[s] = row[s]
    BY <2>2, <2>3 DEF Unused, Exists
  <2>4. CASE row'[s] # row[s]
    <3>1. s = client[c].src /\ row'[s] = client[c].row /\ Saving(c)
      BY <1>7, <1>9, <2>4 DEF Save, Saving
    <3>2. row'[s].snapshot = None
      BY <2>2, <3>1 DEF Unused
    <3>3. ~Linked(s)
      BY <1>4, <2>2, <3>1 DEF Unused, SavesFit
    <3>4. QED
      BY <2>2, <3>2, <3>3
  <2>5. QED
    BY <2>3, <2>4
<1>10. ASSUME NEW c \in Clients, Delete(c), NEW t \in Threads PROVE Unused(t)'
  <2>1. \A s \in Sources : row'[s] = row[s] \/ row'[s] = Gone
    BY <1>7, <1>10 DEF Delete
  <2>2. links' = links
    BY <1>10 DEF Delete
  <2>3. \A s \in Sources : Exists(s)' => row'[s] = row[s] /\ Exists(s)
    BY <2>1 DEF Exists
  <2>4. \A s \in Sources : Linked(s)' <=> Linked(s)
    BY <2>2 DEF Linked
  <2>5. QED
    BY <1>4, <1>6, <2>3, <2>4 DEF Unused
<1>11. ASSUME NEW c \in Clients, Bind(c), NEW t \in Threads PROVE Unused(t)'
  <2>1. row' = row
    BY <1>11 DEF Bind
  <2>2. \A s : Linked(s)' => Linked(s) \/ (client[c].op = "bind" /\ s = client[c].src)
    BY <1>7, <1>11 DEF Bind, Linked
  <2>3. \A s \in Sources : Exists(s)' <=> Exists(s)
    BY <2>1 DEF Exists
  <2>4. QED
    BY <1>4, <1>6, <2>1, <2>2, <2>3 DEF Unused
<1>12. ASSUME NEW c \in Clients, ChangePrefix(c), NEW t \in Threads PROVE Unused(t)'
  <2>1. row' = row /\ links' = links
    BY <1>12 DEF ChangePrefix
  <2>2. \A s \in Sources : (Exists(s)' <=> Exists(s)) /\ (Linked(s)' <=> Linked(s))
    BY <2>1 DEF Exists, Linked
  <2>3. QED
    BY <1>4, <1>6, <2>1, <2>2 DEF Unused
<1>13. ASSUME Unbind \/ CreatePrefix, NEW t \in Threads PROVE Unused(t)'
  <2>1. row' = row /\ \A p \in PrefixIds : links'[p] # None => links'[p] = links[p]
    BY <1>7, <1>13 DEF Unbind, CreatePrefix
  <2>2. \A s : Linked(s)' => Linked(s)
    BY <2>1 DEF Linked
  <2>3. \A s \in Sources : Exists(s)' <=> Exists(s)
    BY <2>1 DEF Exists
  <2>4. QED
    BY <1>4, <1>6, <2>1, <2>2, <2>3 DEF Unused
<1>14. QED
  BY <1>5, <1>9, <1>10, <1>11, <1>12, <1>13 DEF Commit

(* What a request that is checked must be for the others to keep it.         *)
LEMMA NewSave ==
  ASSUME KeepInv, NEW c \in Clients, NEW request, Waits(c, request), client \in [Clients -> Request],
         ~clashed =>
           /\ SavesFit(c)'
           /\ \A t \in Threads :
                LET s == sync[t].src IN
                Torn(t) /\ request.src = s /\ Unused(t) =>
                  /\ request.op = "bind" => ~(Exists(s) /\ row[s].id = sync[t].stored.id)
                  /\ request.op \in {"create", "save"} /\ request.row.id = sync[t].stored.id
                       => request.row.snapshot = None
  PROVE  KeepInv'
<1>1. UNCHANGED <<tables, sync, clashed>> /\ client' = [client EXCEPT ![c] = request]
  BY DEF Waits
<1>2. client'[c] = request /\ \A d \in Clients \ {c} : client'[d] = client[d]
  BY <1>1
<1>3. \A s : (Exists(s)' <=> Exists(s)) /\ (Linked(s)' <=> Linked(s)) /\ row'[s] = row[s]
  BY <1>1 DEF Exists, Linked, tables
<1>4. StoredTyped'
  BY <1>1 DEF KeepInv, StoredTyped, Inside
<1> SUFFICES ASSUME ~clashed
             PROVE  (\A d \in Clients : SavesFit(d)') /\ (\A t \in Threads : Unused(t)')
  BY <1>1, <1>4 DEF KeepInv
<1>5. \A d \in Clients \ {c} : SavesFit(d)'
  BY <1>2, <1>3 DEF KeepInv, SavesFit, Saving
<1>6. ASSUME NEW t \in Threads PROVE Unused(t)'
  <2>1. Unused(t)
    BY DEF KeepInv
  <2>2. Torn(t)' <=> Torn(t)
    BY <1>1 DEF Torn
  <2>3. QED
    BY <1>1, <1>2, <1>3, <2>1, <2>2 DEF Unused, Saving
<1>7. QED
  BY <1>5, <1>6

LEMMA CheckKeeps ==
  ASSUME IInv, LinkInv, KeepInv, NEW c \in Clients, Check(c) \/ Refuse(c)
  PROVE  KeepInv'
<1>0. client \in [Clients -> Request] /\ Pools \subseteq Sources /\ Items \subseteq Sources
  BY DEF IInv, TypeOK, Sources
<1>1. ASSUME NEW s \in Sources, NEW op \in {"create", "save"}, NEW new \in Row,
             Waits(c, [NoRequest EXCEPT !.op = op, !.src = s, !.row = new]),
             MayRetarget(s, new.id),
             s \in Pools => new.snapshot = KeptSnapshot(s, new.id, new.threshold)
      PROVE  KeepInv'
  <2> DEFINE request == [NoRequest EXCEPT !.op = op, !.src = s, !.row = new]
  <2>1. request.op = op /\ request.src = s /\ request.row = new
    BY DEF NoRequest
  <2> HIDE DEF request
  <2>2. Waits(c, request)
    BY <1>1 DEF request
  <2>3. client'[c] = request /\ UNCHANGED tables
    BY <1>0, <2>2 DEF Waits
  <2>4. (Exists(s)' <=> Exists(s)) /\ (Linked(s)' <=> Linked(s)) /\ row'[s] = row[s]
    BY <2>3 DEF Exists, Linked, tables
  <2>5. Exists(s) /\ row[s].id # new.id => ~Linked(s)
    BY <1>1 DEF MayRetarget
  <2>6. s \in Pools /\ ~(Exists(s) /\ row[s].id = new.id) => new.snapshot = None
    BY <1>1 DEF KeptSnapshot
  <2>7. SavesFit(c)'
    BY <2>1, <2>3, <2>4, <2>5, <2>6 DEF SavesFit
  <2>8. ASSUME NEW t \in Threads, Torn(t), s = sync[t].src, Unused(t), new.id = sync[t].stored.id
        PROVE  new.snapshot = None
    <3>1. s \in Pools
      BY <2>8 DEF Torn
    <3>2. CASE Exists(s) /\ row[s].id = new.id
      <4>1. row[s].snapshot = None
        BY <2>8, <3>2 DEF Unused
      <4>2. QED
        BY <1>1, <3>1, <3>2, <4>1 DEF KeptSnapshot, Rewarned
    <3>3. QED
      BY <2>6, <3>1, <3>2
  <2>9. QED
    BY <1>0, <2>1, <2>2, <2>7, <2>8, NewSave
<1>2. CASE CheckSave(c)
  <2>1. PICK s \in Sources, id \in Identities, mode \in {"DHCP", "static"},
             threshold \in Thresholds, name \in Names :
          /\ MayRetarget(s, id)
          /\ Waits(c, [NoRequest EXCEPT !.op = SaveOf(s), !.src = s,
                                        !.row = Saved(s, id, mode, threshold, name)])
    BY <1>2, ZenonT(40) DEF CheckSave
  <2> DEFINE new == Saved(s, id, mode, threshold, name)
  <2>2. new \in Row
    BY SavedFits
  <2>3. new.id = id /\ new.threshold = threshold /\ new.snapshot = KeptSnapshot(s, id, threshold)
    BY DEF Saved
  <2>4. SaveOf(s) \in {"create", "save"}
    BY DEF SaveOf
  <2> HIDE DEF new
  <2>5. Waits(c, [NoRequest EXCEPT !.op = SaveOf(s), !.src = s, !.row = new])
    BY <2>1 DEF new
  <2>6. QED
    BY <1>1, <2>1, <2>2, <2>3, <2>4, <2>5
<1>3. CASE CheckConfigure(c)
  <2>1. PICK s \in Items, id \in Identities, mode \in {"DHCP", "static"}, threshold \in Thresholds :
          /\ MayRetarget(s, id)
          /\ Waits(c, [NoRequest EXCEPT !.op = "save", !.src = s,
                                        !.row = Configured(s, id, mode, threshold)])
    BY <1>3 DEF CheckConfigure
  <2> DEFINE new == Configured(s, id, mode, threshold)
  <2>2. s \in Sources /\ new \in Row /\ s \notin Pools
    BY <1>0, ConfiguredFits, SourcesAssumption
  <2>3. new.id = id
    BY DEF Configured
  <2> HIDE DEF new
  <2>4. Waits(c, [NoRequest EXCEPT !.op = "save", !.src = s, !.row = new])
    BY <2>1 DEF new
  <2>5. QED
    BY <1>1, <2>1, <2>2, <2>3, <2>4
<1>4. CASE CheckDelete(c) \/ CheckPrefix(c)
  <2>1. PICK request : request.op \in {"delete", "prefix"} /\ Waits(c, request)
    <3>1. CASE CheckDelete(c)
      <4>1. PICK s \in Sources : Waits(c, [NoRequest EXCEPT !.op = "delete", !.src = s])
        BY <3>1 DEF CheckDelete
      <4> DEFINE request == [NoRequest EXCEPT !.op = "delete", !.src = s]
      <4>2. request.op = "delete"
        BY DEF NoRequest
      <4>3. Waits(c, request)
        BY <4>1
      <4> HIDE DEF request
      <4>4. QED
        BY <4>2, <4>3
    <3>2. CASE CheckPrefix(c)
      <4>1. PICK p \in PrefixIds, net \in Nets \cup {None} :
              Waits(c, [NoRequest EXCEPT !.op = "prefix", !.pfx = p, !.net = net])
        BY <3>2 DEF CheckPrefix
      <4> DEFINE request == [NoRequest EXCEPT !.op = "prefix", !.pfx = p, !.net = net]
      <4>2. request.op = "prefix"
        BY DEF NoRequest
      <4>3. Waits(c, request)
        BY <4>1
      <4> HIDE DEF request
      <4>4. QED
        BY <4>2, <4>3
    <3>3. QED
      BY <1>4, <3>1, <3>2
  <2>2. SavesFit(c)'
    BY <1>0, <2>1 DEF SavesFit, Saving, Waits
  <2>3. QED
    BY <1>0, <2>1, <2>2, NewSave
<1>5. CASE CheckBind(c)
  <2>1. PICK p \in PrefixIds, s \in Sources :
          /\ CanBind(p, s)
          /\ Waits(c, [NoRequest EXCEPT !.op = "bind", !.src = s, !.pfx = p, !.net = prefixes[p]])
    BY <1>5 DEF CheckBind
  <2>2. PICK request : request.op = "bind" /\ request.src = s /\ Waits(c, request)
    BY <2>1 DEF NoRequest
  <2>3. SavesFit(c)'
    BY <1>0, <2>2 DEF SavesFit, Saving, Waits
  <2>4. row[s].snapshot # None
    BY <2>1 DEF CanBind
  <2>5. QED
    BY <1>0, <2>2, <2>3, <2>4, NewSave DEF Unused
<1>6. CASE Refuse(c)
  <2>1. /\ UNCHANGED <<tables, sync, clashed>>
        /\ client'[c].op = "idle" /\ \A d \in Clients \ {c} : client'[d] = client[d]
    BY <1>0, <1>6 DEF Refuse, NoRequest
  <2>2. \A s : (Exists(s)' <=> Exists(s)) /\ (Linked(s)' <=> Linked(s)) /\ row'[s] = row[s]
    BY <2>1 DEF Exists, Linked, tables
  <2>3. StoredTyped'
    BY <2>1 DEF KeepInv, StoredTyped, Inside
  <2>4. \A d \in Clients : SavesFit(d) => SavesFit(d)'
    BY <2>1, <2>2 DEF SavesFit, Saving
  <2>5. \A t \in Threads : Unused(t) => Unused(t)'
    BY <2>1, <2>2 DEF Unused, Torn, Saving
  <2>6. QED
    BY <2>1, <2>3, <2>4, <2>5 DEF KeepInv
<1>7. QED
  BY <1>2, <1>3, <1>4, <1>5, <1>6 DEF Check

(* Steps of synchronisations that leave the tables alone.                    *)
LEMMA QuietKeeps ==
  ASSUME KeepInv, NEW t \in Threads, UNCHANGED <<tables, client, clashed>>,
         \A u \in Threads \ {t} : sync'[u] = sync[u],
         Inside(t)' /\ sync'[t].src \in Pools => sync'[t].stored \in Row,
         ~clashed => Unused(t)'
  PROVE  KeepInv'
<1>1. \A s : (Exists(s)' <=> Exists(s)) /\ (Linked(s)' <=> Linked(s)) /\ row'[s] = row[s]
  BY DEF Exists, Linked, tables
<1>2. StoredTyped'
  BY DEF KeepInv, StoredTyped, Inside
<1>3. \A c \in Clients : SavesFit(c) => SavesFit(c)'
  BY <1>1 DEF SavesFit, Saving
<1>4. \A u \in Threads \ {t} : Unused(u) => Unused(u)'
  BY <1>1 DEF Unused, Torn, Saving
<1>5. QED
  BY <1>2, <1>3, <1>4 DEF KeepInv

LEMMA SyncKeeps ==
  ASSUME IInv, Exclusive, KeepInv, NEW t \in Threads, ReadPool(t) \/ LockItem(t) \/ Step(t)
  PROVE  KeepInv'
<1>0. /\ sync \in [Threads -> Sync] /\ row \in [Sources -> Row \cup {None, Gone}]
      /\ Idle.at = "idle" /\ Pools \subseteq Sources
  BY DEF IInv, TypeOK, Idle, Sources
<1>1. \A u \in Threads \ {t} : sync'[u] = sync[u]
  BY <1>0 DEF ReadPool, LockItem, Step, LockPool, Collect, Store, Ends, Answer
<1>2. CASE ReadPool(t)
  <2>1. PICK s \in Pools :
          sync' = [sync EXCEPT ![t] = [Idle EXCEPT !.at = "read", !.src = s, !.config = row[s]]]
    BY <1>2 DEF ReadPool
  <2>2. sync'[t].at = "read" /\ UNCHANGED <<tables, client, clashed>>
    BY <1>0, <1>2, <2>1 DEF ReadPool, Idle
  <2>3. QED
    BY <1>1, <2>2, QuietKeeps DEF Inside, Unused, Torn
<1>3. CASE LockItem(t)
  <2>1. PICK s \in Items :
          sync' = [sync EXCEPT ![t] = [Idle EXCEPT !.at = "collect", !.src = s, !.config = row[s]]]
    BY <1>3 DEF LockItem
  <2>2. sync'[t].at = "collect" /\ sync'[t].src \notin Pools /\ UNCHANGED <<tables, client, clashed>>
    BY <1>0, <1>3, <2>1, SourcesAssumption DEF LockItem, Idle
  <2>3. QED
    BY <1>1, <2>2, QuietKeeps DEF Unused, Torn
<1>4. CASE LockPool(t)
  <2>1. UNCHANGED <<tables, client, clashed>> /\ sync[t].src \in Sources
    BY <1>4 DEF LockPool, IInv, SyncTyped
  <2>2. CASE ~lock /\ Exists(sync[t].src)
    <3>1. sync'[t].at = "collect" /\ sync'[t].stored = row[sync[t].src]
      BY <1>0, <1>4, <2>2 DEF LockPool, Sync
    <3>2. row[sync[t].src] \in Row
      BY <2>1, <2>2, ExistingRow DEF IInv
    <3>3. QED
      BY <1>1, <2>1, <3>1, <3>2, QuietKeeps DEF Unused, Torn
  <2>3. CASE ~(~lock /\ Exists(sync[t].src))
    <3>1. sync'[t].at = "idle"
      BY <1>0, <1>4, <2>3 DEF LockPool, Ends
    <3>2. QED
      BY <1>1, <2>1, <3>1, QuietKeeps DEF Inside, Unused, Torn
  <2>4. QED
    BY <2>2, <2>3
<1>5. CASE Collect(t)
  <2> DEFINE s == sync[t].src
  <2>1. /\ UNCHANGED <<tables, client, clashed>> /\ sync[t].at = "collect"
        /\ sync[t].config \in Row /\ s \in Sources
    BY <1>5 DEF Collect, IInv, SyncTyped
  <2>2. CASE Exists(s) /\ Guarded(row[s]) = Guarded(sync[t].config)
    <3>1. row[s].id = sync[t].config.id
      BY <2>2 DEF Guarded
    <3>2. PICK answer : answer.id = sync[t].config.id /\ Answer(t, answer)
      BY <1>5, <2>1, <2>2 DEF Collect, Failed, Succeeded, Row
    <3>3. /\ sync'[t].at = "store" /\ sync'[t].src = s /\ sync'[t].stored = sync[t].stored
          /\ sync'[t].config = answer
      BY <1>0, <3>2 DEF Answer, Sync
    <3>4. s \in Pools => sync'[t].stored \in Row
      BY <2>1, <3>3 DEF KeepInv, StoredTyped, Inside
    <3>5. ~clashed => Unused(t)'
      <4> SUFFICES ASSUME ~clashed, Torn(t)' PROVE Unused(t)'
        BY DEF Unused
      <4>1. s \in Pools /\ sync'[t].stored.id # row[s].id
        BY <3>1, <3>2, <3>3 DEF Torn
      <4>2. \A c \in Clients : SavesFit(c)
        BY DEF KeepInv
      <4>3. row'[s] = row[s] /\ client' = client
        BY <2>1 DEF tables
      <4>4. QED
        BY <3>3, <4>1, <4>2, <4>3 DEF Unused, SavesFit, Saving
    <3>6. QED
      BY <1>1, <2>1, <3>3, <3>4, <3>5, QuietKeeps
  <2>3. CASE ~(Exists(s) /\ Guarded(row[s]) = Guarded(sync[t].config))
    <3>1. sync'[t].at = "idle"
      BY <1>0, <1>5, <2>3 DEF Collect, Ends
    <3>2. QED
      BY <1>1, <2>1, <3>1, QuietKeeps DEF Inside, Unused, Torn
  <2>4. QED
    BY <2>2, <2>3
<1>6. CASE Store(t)
  <2>0. PICK s : s = sync[t].src
    OBVIOUS
  <2>1. /\ sync[t].at = "store" /\ s \in Sources /\ sync[t].config \in Row
        /\ UNCHANGED <<prefixes, links, client, clashed>>
    BY <1>6, <2>0 DEF Store, IInv, SyncTyped
  <2>2. sync'[t].at = "idle" /\ \A u \in Threads \ {t} : ~Inside(u)'
    BY <1>0, <1>1, <1>6, <2>1 DEF Store, Ends, Exclusive, Inside
  <2>3. StoredTyped' /\ \A u \in Threads : Unused(u)'
    BY <2>2 DEF StoredTyped, Inside, Unused, Torn
  <2>4. \A other : Linked(other)' <=> Linked(other)
    BY <2>1 DEF Linked
  <2>5. CASE ~MayStore(t)
    <3>1. row' = row
      BY <1>6, <2>5 DEF Store
    <3>2. \A c \in Clients : SavesFit(c) => SavesFit(c)'
      BY <2>1, <2>4, <3>1 DEF SavesFit, Saving, Exists
    <3>3. QED
      BY <2>1, <2>3, <3>2 DEF KeepInv
  <2>6. CASE MayStore(t)
    <3>1. row'[s] = sync[t].config /\ \A other \in Sources \ {s} : row'[other] = row[other]
      BY <1>0, <1>6, <2>0, <2>1, <2>6 DEF Store
    <3>2. s \in Pools => row[s] = sync[t].stored /\ sync[t].stored \in Row
      BY <2>0, <2>1, <2>6 DEF MayStore, KeepInv, StoredTyped, Inside
    <3>3. Exists(s) /\ Exists(s)'
      BY <2>0, <2>1, <2>6, <3>1, <3>2, RowAssumption DEF MayStore, Exists
    <3>4. ~clashed /\ row[s].id # sync[t].config.id => ~Linked(s)
      <4>1. CASE s \in Pools
        BY <2>0, <2>1, <3>2, <3>3, <4>1 DEF KeepInv, Unused, Torn
      <4>2. CASE s \notin Pools
        BY <2>0, <2>6, <4>2 DEF MayStore
      <4>3. QED
        BY <4>1, <4>2
    <3>5. ASSUME NEW c \in Clients, ~clashed PROVE SavesFit(c)'
      <4>1. SavesFit(c) /\ Unused(t)
        BY <3>5 DEF KeepInv
      <4>2. CASE client[c].src = s
        <5>1. CASE row[s].id = sync[t].config.id
          BY <2>1, <2>4, <3>1, <3>3, <4>1, <4>2, <5>1 DEF SavesFit, Saving, Exists, Linked
        <5>2. CASE row[s].id # sync[t].config.id
          <6>1. s \in Pools => Torn(t)
            BY <2>0, <2>1, <3>2, <5>2 DEF Torn
          <6>2. s \in Pools /\ Saving(c) => client[c].row.snapshot = None
            BY <2>0, <3>2, <3>3, <4>1, <4>2, <6>1 DEF SavesFit, Unused
          <6>3. QED
            BY <2>1, <2>4, <3>4, <3>5, <4>2, <5>2, <6>2 DEF SavesFit, Saving, Linked
        <5>3. QED
          BY <5>1, <5>2
      <4>3. CASE client[c].src # s
        <5>1. Saving(c) => client[c].src \in Sources
          BY DEF Saving, IInv, ClientTyped
        <5>2. QED
          BY <2>1, <2>4, <3>1, <4>1, <4>3, <5>1 DEF SavesFit, Saving, Exists
      <4>4. QED
        BY <4>2, <4>3
    <3>6. QED
      BY <2>1, <2>3, <3>5 DEF KeepInv
  <2>7. QED
    BY <2>5, <2>6
<1>7. QED
  BY <1>2, <1>3, <1>4, <1>5, <1>6 DEF Step

LEMMA Keeping == Spec => []KeepInv
<1>1. Init => KeepInv
  BY DEF Init, KeepInv, StoredTyped, Inside, SavesFit, Saving, Unused, Torn, NoRequest, Idle
<1>2. ASSUME IInv, LinkInv, Exclusive, KeepInv, [Next]_vars PROVE KeepInv'
  <2>1. ASSUME NEW t \in Threads, ReadPool(t) \/ LockItem(t) \/ Step(t) PROVE KeepInv'
    BY <1>2, <2>1, SyncKeeps
  <2>2. ASSUME NEW c \in Clients, Check(c) \/ Refuse(c) PROVE KeepInv'
    BY <1>2, <2>2, CheckKeeps
  <2>3. CASE (\E c \in Clients : Commit(c)) \/ Unbind \/ CreatePrefix
    BY <1>2, <2>3, CommitKeeps
  <2>4. CASE Crash
    BY <2>4 DEF Crash, KeepInv, StoredTyped, Inside, SavesFit, Saving, Unused, Torn, NoRequest, Idle
  <2>5. CASE UNCHANGED vars
    BY <1>2, <2>5 DEF vars, tables, KeepInv, StoredTyped, Inside, SavesFit, Saving, Unused, Torn,
                      Exists, Linked
  <2>6. QED
    BY <1>2, <2>1, <2>2, <2>3, <2>4, <2>5 DEF Next
<1>3. QED
  BY <1>1, <1>2, Invariance, LinkInvariance, Exclusion, PTL DEF Spec

\* As long as a source is linked, no save and no result of a synchronisation
\* changes its server or its scope, for any number of sources, threads and
\* requests, unless requests commit inside one another: not even the result of a
\* synchronisation that read two different settings of a pool.
THEOREM LinkedStaysKept == Spec => LinkedSourceKept
<1> DEFINE Kept ==
      \A p \in PrefixIds :
        links[p] # None /\ links'[p] = links[p] /\ ~clashed' =>
          LET s == links[p].src IN Exists(s) /\ Exists(s)' => row'[s].id = row[s].id
<1>1. ASSUME IInv, LinkInv, KeepInv, [Next]_vars PROVE Kept
  <2> SUFFICES ASSUME NEW s \in Sources, Linked(s), ~clashed', Exists(s), Exists(s)'
               PROVE  row'[s].id = row[s].id
    <3>1. \A p \in PrefixIds : links[p] # None => links[p].src \in Sources
      BY <1>1 DEF IInv, TypeOK, Link
    <3>2. QED
      BY <3>1 DEF Linked, Exists
  <2>1. row \in [Sources -> Row \cup {None, Gone}]
    BY <1>1 DEF IInv, TypeOK
  <2>2. ASSUME NEW t \in Threads, Store(t) PROVE row'[s].id = row[s].id
    <3>1. CASE row'[s] = row[s]
      BY <3>1
    <3>2. CASE row'[s] # row[s]
      <4>1. s = sync[t].src /\ row'[s] = sync[t].config /\ MayStore(t) /\ ~clashed /\ sync[t].at = "store"
        BY <2>1, <2>2, <3>2 DEF Store
      <4>2. s \in Pools => row[s] = sync[t].stored
        BY <4>1 DEF MayStore
      <4>3. s \notin Pools => row[s].id = sync[t].config.id
        BY <4>1 DEF MayStore
      <4>4. Unused(t)
        BY <1>1, <4>1 DEF KeepInv
      <4>5. QED
        BY <4>1, <4>2, <4>3, <4>4 DEF Unused, Torn
    <3>3. QED
      BY <3>1, <3>2
  <2>3. ASSUME NEW c \in Clients, Save(c) PROVE row'[s].id = row[s].id
    <3>1. CASE row'[s] = row[s]
      BY <3>1
    <3>2. CASE row'[s] # row[s]
      <4>1. s = client[c].src /\ row'[s] = client[c].row /\ Saving(c) /\ Commits({c})
        BY <2>1, <2>3, <3>2 DEF Save, Saving
      <4>2. ~clashed
        BY <4>1 DEF Commits
      <4>3. SavesFit(c)
        BY <1>1, <4>2 DEF KeepInv
      <4>4. QED
        BY <4>1, <4>3 DEF SavesFit
    <3>3. QED
      BY <3>1, <3>2
  <2>4. ASSUME NEW c \in Clients, Delete(c) PROVE row'[s].id = row[s].id
    BY <2>1, <2>4 DEF Delete, Exists
  <2>5. ASSUME NEW c \in Clients, Check(c) \/ Refuse(c) PROVE row' = row
    BY ZenonT(40), <2>5 DEF Check, CheckSave, CheckConfigure, CheckDelete, CheckBind, CheckPrefix, Waits,
                            Refuse, tables
  <2>6. ASSUME NEW t \in Threads, ReadPool(t) \/ LockItem(t) \/ LockPool(t) \/ Collect(t)
        PROVE  row' = row
    BY ZenonT(40), <2>6 DEF ReadPool, LockItem, LockPool, Collect, tables
  <2>7. ASSUME NEW c \in Clients, Bind(c) \/ ChangePrefix(c) PROVE row' = row
    BY <2>7 DEF Bind, ChangePrefix
  <2>8. Unbind \/ CreatePrefix \/ Crash \/ UNCHANGED vars => row' = row
    BY DEF Unbind, CreatePrefix, Crash, vars, tables
  <2>9. QED
    BY <1>1, <2>2, <2>3, <2>4, <2>5, <2>6, <2>7, <2>8 DEF Next, Step, Commit
<1>2. QED
  BY <1>1, Invariance, LinkInvariance, Keeping, PTL DEF LinkedSourceKept, Spec
=============================================================================
