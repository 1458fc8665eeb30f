------------------------------- MODULE Gossip -------------------------------
(***************************************************************************)
(* The gossip mesh for entity (agent and service) announcements:           *)
(* internal/mesh/gossip.go, its callers in internal/api/server.go, the     *)
(* gossip table of internal/store/postgres.go and the part of              *)
(* internal/mesh/transport.go that carries announcements.                  *)
(*                                                                         *)
(* A registry stands for its Ed25519 key pair: announcements are signed by *)
(* the registry that creates them, and only registries at which an entity  *)
(* is registered announce it. A signature is modelled by what it covers:   *)
(* json.Marshal of the announcement includes HopCount, and the only field  *)
(* that a registry changes before it passes an announcement on is          *)
(* HopCount, so the signature of an announcement is valid exactly when its *)
(* hop count is the one it was signed with.                                *)
(*                                                                         *)
(* A request handler commits to the entities table first and announces     *)
(* later; in between it is an element of todo. Each mesh connection has    *)
(* one read-loop goroutine, whose position inside HandleAnnouncement is    *)
(* work[r][p]; steps of different goroutines interleave where the code     *)
(* releases a lock or talks to the database.                               *)
(***************************************************************************)
EXTENDS Naturals, Sequences

CONSTANTS
    Registry,     \* the registry nodes
    Entity,       \* the entities (agents and services)
    Homes,        \* Homes[e]: the registries at which e may be registered
    Mesh,         \* Mesh[r]: the registries that r keeps a connection to
    MaxVersion,   \* bound: entity contents are the versions 1..MaxVersion
    MaxHops,      \* gossip.max_hops
    DedupWindow,  \* gossip.dedup_window_seconds
    MaxTime,      \* bound: the last second of the run
    MaxOps,       \* bound: number of register, update and delete requests
    MaxFaults,    \* bound: number of connection losses and restarts
    Sequential,   \* clients wait for a response before the next request
    Paced,        \* requests about an entity are at least a second apart
    Reregisters,  \* a deregistered entity may be registered again
    NoRow,        \* no row in a table
    Idle          \* a read loop between two messages

Version == 1..MaxVersion
Time == 0..MaxTime
Action == {"register", "update", "deregister", "agent_status"}
Status == {"active", "inactive"}

\* What a request handler still has to announce.
Item == [entity : Entity, action : Action, status : Status, ver : Version]

\* models.GossipAnnouncement; signedHop is the hop count under the signature.
Announcement == [entity : Entity, action : Action, status : Status,
                 ver : Version, origin : Registry, ts : Time,
                 hop : Nat, signedHop : Nat]

\* A row of entities and a row of gossip_entities.
EntityRow == [ver : Version, status : Status]
GossipRow == [pin : Registry, ver : Version, status : Status,
              tombstoned : BOOLEAN]

Stage == {"unmarked", "marked", "authorized"}
Worker == [stage : Stage, ann : Announcement]

ASSUME HomesAssumption == Homes \in [Entity -> SUBSET Registry]

ASSUME MeshAssumption ==
    /\ Mesh \in [Registry -> SUBSET Registry]
    /\ \A r \in Registry : r \notin Mesh[r]
    /\ \A r, p \in Registry : p \in Mesh[r] => r \in Mesh[p]

ASSUME BoundsAssumption ==
    /\ MaxVersion \in Nat \ {0}
    /\ {MaxHops, DedupWindow, MaxTime, MaxOps, MaxFaults} \subseteq Nat
    /\ {Sequential, Paced, Reregisters} \subseteq BOOLEAN

ASSUME NullAssumption ==
    NoRow \notin EntityRow \cup GossipRow /\ Idle \notin Worker

VARIABLES
    clock,       \* the current second; RFC3339 timestamps have no fraction
    entities,    \* entities[r][e]: r's own table of registered entities
    tombstones,  \* tombstones[r]: entities deregistered at r
    todo,        \* todo[r]: announcements r's request handlers still owe
    conns,       \* conns[r]: the peers r has a live connection to
    wire,        \* wire[p][r]: announcements on their way from p to r
    seen,        \* seen[r]: dedup map, as <<entity, timestamp, received at>>
    work,        \* work[r][p]: r's read loop for its connection to p
    gossip,      \* gossip[r][e]: r's gossip_entities table
    index,       \* index[r]: entities in r's in-memory search index
    ops,         \* requests served so far
    faults       \* connection losses and restarts so far

vars == <<clock, entities, tombstones, todo, conns, wire, seen, work, gossip,
          index, ops, faults>>

\* Every variable stays in its type; an announcement is never stamped with a
\* second past the end of the run.
TypeOK ==
    /\ clock \in Time
    /\ entities \in [Registry -> [Entity -> EntityRow \cup {NoRow}]]
    /\ tombstones \in [Registry -> SUBSET Entity]
    /\ todo \in [Registry -> SUBSET Item]
    /\ conns \in [Registry -> SUBSET Registry]
    /\ wire \in [Registry -> [Registry -> Seq(Announcement)]]
    /\ seen \in [Registry -> SUBSET (Entity \X Time \X Time)]
    /\ work \in [Registry -> [Registry -> Worker \cup {Idle}]]
    /\ gossip \in [Registry -> [Entity -> GossipRow \cup {NoRow}]]
    /\ index \in [Registry -> SUBSET Entity]
    /\ ops \in 0..MaxOps
    /\ faults \in 0..MaxFaults

Init ==
    /\ clock = 0
    /\ entities = [r \in Registry |-> [e \in Entity |-> NoRow]]
    /\ tombstones = [r \in Registry |-> {}]
    /\ todo = [r \in Registry |-> {}]
    /\ conns = Mesh
    /\ wire = [p \in Registry |-> [r \in Registry |-> << >>]]
    /\ seen = [r \in Registry |-> {}]
    /\ work = [r \in Registry |-> [p \in Registry |-> Idle]]
    /\ gossip = [r \in Registry |-> [e \in Entity |-> NoRow]]
    /\ index = [r \in Registry |-> {}]
    /\ ops = 0
    /\ faults = 0

-----------------------------------------------------------------------------
(***************************************************************************)
(* Announcements.                                                          *)
(***************************************************************************)

\* The signature covers the announcement with its hop count.
Verifies(ann) == ann.hop = ann.signedHop

\* Mutant: the timestamp is rounded up to the next second.
CreateAnnouncementRoundedUp(r, item) ==
    [entity |-> item.entity, action |-> item.action, status |-> item.status,
     ver |-> item.ver, origin |-> r, ts |-> clock + 1, hop |-> 0,
     signedHop |-> 0]

\* CreateAnnouncement and CreateStatusAnnouncement: stamped and signed now.
CreateAnnouncement(r, item) ==
    [entity |-> item.entity, action |-> item.action, status |-> item.status,
     ver |-> item.ver, origin |-> r, ts |-> clock, hop |-> 0, signedHop |-> 0]

\* An announcement as HandleAnnouncement leaves it for forwarding.
Forwarded(ann) == [ann EXCEPT !.hop = @ + 1]

\* Mutant: the dedup key has no timestamp.
SeenAtAnyTime(r, e, ts) == \E t, at \in Time : <<e, t, at>> \in seen[r]

\* The key of the dedup map is the entity and the timestamp, nothing else.
SeenAt(r, e, ts) == \E at \in Time : <<e, ts, at>> \in seen[r]

MarkSeen(r, e, ts) ==
    seen' = [seen EXCEPT ![r] =
                {s \in @ : s[1] # e \/ s[2] # ts} \cup {<<e, ts, clock>>}]

\* BroadcastExcept: append ann to the wires from r to the given peers.
Send(w, r, ann, peers) ==
    [w EXCEPT ![r] =
        [p \in Registry |-> IF p \in peers THEN Append(@[p], ann) ELSE @[p]]]

-----------------------------------------------------------------------------
(***************************************************************************)
(* Request handlers of the home registry. Each commits, then announces.    *)
(***************************************************************************)

\* When a client may send its next request about e to r.
Requests(r, e) ==
    /\ r \in Homes[e]
    /\ ops < MaxOps
    /\ ops' = ops + 1
    /\ Sequential => \A i \in todo[r] :
                        i.entity = e => i.action = "agent_status"
    /\ Paced => ~SeenAt(r, e, clock)

Owe(r, e, action, status, ver) ==
    todo' = [todo EXCEPT ![r] = @ \cup
        {[entity |-> e, action |-> action, status |-> status, ver |-> ver]}]

\* handleRegisterEntity up to CreateAgent: the primary key rejects a
\* second registration; a new row is active.
RegisterEntity(r, e, v) ==
    /\ Requests(r, e)
    /\ entities[r][e] = NoRow
    /\ Reregisters \/ e \notin tombstones[r]
    /\ entities' = [entities EXCEPT ![r][e] = [ver |-> v, status |-> "active"]]
    /\ Owe(r, e, "register", "active", v)
    /\ UNCHANGED <<clock, tombstones, conns, wire, seen, work, gossip, index,
                   faults>>

\* handleUpdateEntity up to UpdateEntity: the status column is not touched.
UpdateEntity(r, e, v) ==
    /\ Requests(r, e)
    /\ entities[r][e] # NoRow
    /\ entities' = [entities EXCEPT ![r][e].ver = v]
    /\ Owe(r, e, "update", "active", v)
    /\ UNCHANGED <<clock, tombstones, conns, wire, seen, work, gossip, index,
                   faults>>

\* handleDeleteEntity up to DeleteEntity.
DeleteEntity(r, e) ==
    /\ Requests(r, e)
    /\ entities[r][e] # NoRow
    /\ entities' = [entities EXCEPT ![r][e] = NoRow]
    /\ Owe(r, e, "deregister", "active", entities[r][e].ver)
    /\ UNCHANGED <<clock, tombstones, conns, wire, seen, work, gossip, index,
                   faults>>

\* IndexAgent and IndexGossipEntry for a register or an update.
Indexed(docs, action, e) ==
    IF action \in {"register", "update"} THEN docs \cup {e} ELSE docs

\* RemoveAgent, called by the home registry only.
Unindexed(docs, action, e) ==
    IF action = "deregister" THEN docs \ {e} ELSE docs

\* The rest of a handler: the search index, the tombstone of a deregistered
\* entity, then BroadcastAnnouncement, which marks the key as seen and sends
\* to all peers.
Announce(r, item) ==
    /\ item \in todo[r]
    /\ todo' = [todo EXCEPT ![r] = @ \ {item}]
    /\ index' = [index EXCEPT ![r] =
                   Unindexed(Indexed(@, item.action, item.entity),
                             item.action, item.entity)]
    /\ tombstones' = [tombstones EXCEPT ![r] =
                        IF item.action = "deregister"
                        THEN @ \cup {item.entity} ELSE @]
    /\ MarkSeen(r, item.entity, clock)
    /\ wire' = Send(wire, r, CreateAnnouncement(r, item), conns[r])
    /\ UNCHANGED <<clock, entities, conns, work, gossip, ops, faults>>

-----------------------------------------------------------------------------
(***************************************************************************)
(* HandleAnnouncement, run by r's read loop for the connection to p.       *)
(***************************************************************************)

\* Hop count, signature and dedup checks, in the order of the code.
Admits(r, ann) ==
    /\ ann.hop < MaxHops
    /\ Verifies(ann)
    /\ ~SeenAt(r, ann.entity, ann.ts)

Accept(r, p) ==
    /\ work[r][p] = Idle
    /\ wire[p][r] # << >>
    /\ Admits(r, Head(wire[p][r]))
    /\ work' = [work EXCEPT ![r][p] =
                  [stage |-> "unmarked", ann |-> Head(wire[p][r])]]
    /\ wire' = [wire EXCEPT ![p][r] = Tail(@)]
    /\ UNCHANGED <<clock, entities, tombstones, todo, conns, seen, gossip,
                   index, ops, faults>>

Discard(r, p) ==
    /\ work[r][p] = Idle
    /\ wire[p][r] # << >>
    /\ ~Admits(r, Head(wire[p][r]))
    /\ wire' = [wire EXCEPT ![p][r] = Tail(@)]
    /\ UNCHANGED <<clock, entities, tombstones, todo, conns, seen, work,
                   gossip, index, ops, faults>>

\* The mark is made under a lock taken after the check released its own.
Mark(r, p) ==
    /\ work[r][p] # Idle
    /\ work[r][p].stage = "unmarked"
    /\ MarkSeen(r, work[r][p].ann.entity, work[r][p].ann.ts)
    /\ work' = [work EXCEPT ![r][p].stage = "marked"]
    /\ UNCHANGED <<clock, entities, tombstones, todo, conns, wire, gossip,
                   index, ops, faults>>

\* Mutant: the key of an existing row is not compared.
VerifyExistence(row, origin, requireExisting) == row # NoRow \/ ~requireExisting

\* verifyOriginAuthorization, and which actions ask for it. A row without
\* a pinned key exists only in databases older than key pinning.
VerifyOriginAuthorization(row, origin, requireExisting) ==
    IF row = NoRow THEN ~requireExisting ELSE row.pin = origin

Authorized(row, ann) ==
    CASE ann.action = "register" -> TRUE
      [] ann.action = "update" ->
            VerifyOriginAuthorization(row, ann.origin, FALSE)
      [] OTHER -> VerifyOriginAuthorization(row, ann.origin, TRUE)

Authorize(r, p) ==
    /\ work[r][p] # Idle
    /\ work[r][p].stage = "marked"
    /\ Authorized(gossip[r][work[r][p].ann.entity], work[r][p].ann)
    /\ work' = [work EXCEPT ![r][p].stage = "authorized"]
    /\ UNCHANGED <<clock, entities, tombstones, todo, conns, wire, seen,
                   gossip, index, ops, faults>>

Reject(r, p) ==
    /\ work[r][p] # Idle
    /\ work[r][p].stage = "marked"
    /\ ~Authorized(gossip[r][work[r][p].ann.entity], work[r][p].ann)
    /\ work' = [work EXCEPT ![r][p] = Idle]
    /\ UNCHANGED <<clock, entities, tombstones, todo, conns, wire, seen,
                   gossip, index, ops, faults>>

\* Mutant: the conflict clause overwrites every column.
ReplaceGossipEntry(row, ann) ==
    [pin |-> ann.origin, ver |-> ann.ver, status |-> "active",
     tombstoned |-> FALSE]

\* INSERT ... ON CONFLICT DO UPDATE: the pinned key and the tombstone of an
\* existing row stay, its status becomes active.
UpsertGossipEntry(row, ann) ==
    IF row = NoRow
    THEN [pin |-> ann.origin, ver |-> ann.ver, status |-> "active",
          tombstoned |-> FALSE]
    ELSE [row EXCEPT !.ver = ann.ver, !.status = "active"]

TombstoneGossipEntry(row) ==
    IF row = NoRow THEN NoRow ELSE [row EXCEPT !.tombstoned = TRUE]

UpdateGossipEntryStatus(row, status) ==
    IF row = NoRow THEN NoRow ELSE [row EXCEPT !.status = status]

Stored(row, ann) ==
    CASE ann.action \in {"register", "update"} -> UpsertGossipEntry(row, ann)
      [] ann.action = "deregister" -> TombstoneGossipEntry(row)
      [] OTHER -> UpdateGossipEntryStatus(row, ann.status)

\* The write to the store, the indexing callback and the forwarding to all
\* peers but the sender.
Apply(r, p) ==
    /\ work[r][p] # Idle
    /\ work[r][p].stage = "authorized"
    /\ LET ann == work[r][p].ann IN
       /\ gossip' = [gossip EXCEPT ![r][ann.entity] = Stored(@, ann)]
       /\ index' = [index EXCEPT ![r] = Indexed(@, ann.action, ann.entity)]
       /\ wire' = Send(wire, r, Forwarded(ann), conns[r] \ {p})
    /\ work' = [work EXCEPT ![r][p] = Idle]
    /\ UNCHANGED <<clock, entities, tombstones, todo, conns, seen, ops,
                   faults>>

-----------------------------------------------------------------------------
(***************************************************************************)
(* Background work, time and faults.                                       *)
(***************************************************************************)

\* One pass of cleanDedupWindow.
CleanDedup(r) ==
    /\ \E s \in seen[r] : s[3] + DedupWindow < clock
    /\ seen' = [seen EXCEPT ![r] = {s \in @ : s[3] + DedupWindow >= clock}]
    /\ UNCHANGED <<clock, entities, tombstones, todo, conns, wire, work,
                   gossip, index, ops, faults>>

\* CleanExpiredTombstones on the gossip table. The rows of tombstones live
\* for seven days, longer than any run.
CollectTombstones(r) ==
    /\ \E e \in Entity : gossip[r][e] # NoRow /\ gossip[r][e].tombstoned
    /\ gossip' = [gossip EXCEPT ![r] =
         [e \in Entity |-> IF @[e] # NoRow /\ @[e].tombstoned
                           THEN NoRow ELSE @[e]]]
    /\ UNCHANGED <<clock, entities, tombstones, todo, conns, wire, seen, work,
                   index, ops, faults>>

Tick ==
    /\ clock < MaxTime
    /\ clock' = clock + 1
    /\ UNCHANGED <<entities, tombstones, todo, conns, wire, seen, work,
                   gossip, index, ops, faults>>

\* The connection between r and p breaks: what is on the wire is lost.
\* A message that a read loop has already taken is still processed.
Disconnect(r, p) ==
    /\ faults < MaxFaults
    /\ p \in conns[r]
    /\ faults' = faults + 1
    /\ conns' = [s \in Registry |-> {q \in conns[s] : {s, q} # {r, p}}]
    /\ wire' = [s \in Registry |-> [q \in Registry |->
                   IF {s, q} = {r, p} THEN << >> ELSE wire[s][q]]]
    /\ UNCHANGED <<clock, entities, tombstones, todo, seen, work, gossip,
                   index, ops>>

\* ReconnectLoop. Nothing is exchanged about entities on connecting.
Reconnect(r, p) ==
    /\ p \in Mesh[r] \ conns[r]
    /\ conns' = [s \in Registry |->
                    conns[s] \cup {q \in Registry : {s, q} = {r, p}}]
    /\ UNCHANGED <<clock, entities, tombstones, todo, wire, seen, work,
                   gossip, index, ops, faults>>

\* Mutant: a start leaves the index to be filled by later requests.
RebuildNothing(r) == {}

\* RebuildIndexes reads the entities table, not the gossip table.
RebuildIndexes(r) == {e \in Entity : entities[r][e] # NoRow}

\* r stops and starts again (cmdStart). The tables survive; the dedup map,
\* unfinished handlers, connections and the index do not.
Restart(r) ==
    /\ faults < MaxFaults
    /\ faults' = faults + 1
    /\ todo' = [todo EXCEPT ![r] = {}]
    /\ seen' = [seen EXCEPT ![r] = {}]
    /\ work' = [work EXCEPT ![r] = [p \in Registry |-> Idle]]
    /\ index' = [index EXCEPT ![r] = RebuildIndexes(r)]
    /\ conns' = [s \in Registry |-> IF s = r THEN {} ELSE conns[s] \ {r}]
    /\ wire' = [s \in Registry |-> [p \in Registry |->
                   IF r \in {s, p} THEN << >> ELSE wire[s][p]]]
    /\ UNCHANGED <<clock, entities, tombstones, gossip, ops>>

-----------------------------------------------------------------------------
Client ==
    \E r \in Registry, e \in Entity :
        \/ \E v \in Version : RegisterEntity(r, e, v) \/ UpdateEntity(r, e, v)
        \/ DeleteEntity(r, e)

\* The read loop of r for its connection to p.
Handle(r, p) ==
    \/ Accept(r, p) \/ Discard(r, p) \/ Mark(r, p)
    \/ Authorize(r, p) \/ Reject(r, p) \/ Apply(r, p)

\* What happens in and between running registries.
MeshNext ==
    \/ \E r \in Registry : \E item \in todo[r] : Announce(r, item)
    \/ \E r, p \in Registry :
          Handle(r, p) \/ Disconnect(r, p) \/ Reconnect(r, p)
    \/ \E r \in Registry : CleanDedup(r) \/ CollectTombstones(r)

Next ==
    \/ Client
    \/ MeshNext
    \/ \E r \in Registry : Restart(r)
    \/ Tick

\* Goroutines that can run do run, and time passes; clients, garbage
\* collection and faults may stay away.
Fairness ==
    /\ \A r \in Registry :
         WF_vars(\E item \in todo[r] : Announce(r, item))
    /\ \A r, p \in Registry : WF_vars(Handle(r, p))
    /\ WF_vars(Tick)

Spec == Init /\ [][Next]_vars

FairSpec == Spec /\ Fairness

-----------------------------------------------------------------------------
(***************************************************************************)
(* Properties.                                                             *)
(***************************************************************************)

\* Search at r offers e from the gossip table (SearchGossipByKeyword).
Visible(r, e) == gossip[r][e] # NoRow /\ ~gossip[r][e].tombstoned

\* A peer takes an entity for deregistered only if the registry that its row is
\* pinned to has deregistered it: another registry with the same entity never
\* tombstones the row, however requests, announcements, collections and restarts
\* interleave. That a client waits for its answer and that no registry registers
\* an entity again are conditions: the row is read before it is written, and of
\* two deregistrations of one registry the second may be checked against its own
\* tombstoned row and, after a collection, hit the new row of another.
TombstonesHaveCause ==
    Sequential /\ ~Reregisters =>
        \A r \in Registry, e \in Entity :
            gossip[r][e] # NoRow /\ gossip[r][e].tombstoned
                => e \in tombstones[gossip[r][e].pin]

\* What a gossip row says came from a home of the entity, over that home's own
\* connection: the signature of a forwarded announcement does not hold. (The
\* mesh is meant to forward: see RegistrationsReachMesh.)
KnowledgeIsDirect ==
    \A r \in Registry, e \in Entity :
        gossip[r][e] # NoRow => gossip[r][e].pin \in Homes[e] \cap Mesh[r]

\* The parts of an inductive invariant: handlers announce entities of their own
\* registry; a message on a wire, and one a read loop works on, was put there by
\* a peer of the mesh, and if its signature holds then that peer is the origin.
TodoIsLocal == \A r \in Registry : \A i \in todo[r] : r \in Homes[i.entity]

ConnsInMesh == \A r \in Registry : conns[r] \subseteq Mesh[r]

SentBy(p, ann) ==
    Verifies(ann) => ann.origin = p /\ p \in Homes[ann.entity]

WireIsDirect ==
    \A p, r \in Registry : \A i \in 1..Len(wire[p][r]) :
        r \in Mesh[p] /\ SentBy(p, wire[p][r][i])

WorkIsDirect ==
    \A r, p \in Registry : work[r][p] # Idle =>
        /\ p \in Mesh[r]
        /\ Verifies(work[r][p].ann)
        /\ SentBy(p, work[r][p].ann)

DirectInv ==
    /\ TypeOK /\ TodoIsLocal /\ ConnsInMesh /\ WireIsDirect /\ WorkIsDirect
    /\ KnowledgeIsDirect

\* What may happen to one row.
RowStep(row, next) ==
    row # NoRow =>
        IF next = NoRow THEN row.tombstoned
        ELSE next.pin = row.pin /\ (row.tombstoned => next.tombstoned)

RowsKept ==
    \A r \in Registry, e \in Entity : RowStep(gossip[r][e], gossip'[r][e])

\* Whatever handlers, garbage collection and restarts do, a gossip row keeps
\* the key it was pinned to, a tombstone is never taken back, and a row goes
\* away only after it was tombstoned.
RowsAreFaithful == [][RowsKept]_vars

\* Once no handler of r is under way for e, an entity that r has is in r's
\* in-memory search index: after the IndexAgent of the last request, and
\* after the RebuildIndexes of a restart that cut a handler short.
HomeIsSearchable ==
    \A e \in Entity : \A r \in Homes[e] :
        entities[r][e] # NoRow /\ (\A i \in todo[r] : i.entity # e)
            => e \in index[r]

\* What peer r of home h shows for e is what h has.
Agrees(h, r, e) ==
    IF entities[h][e] = NoRow THEN ~Visible(r, e)
    ELSE Visible(r, e) /\ gossip[r][e].ver = entities[h][e].ver

\* Requests end, so every direct peer ends up, and stays, with the home
\* registry's view of the entity: its last content, or nothing.
PeersConverge ==
    \A e \in Entity : \A h \in Homes[e] : \A r \in Mesh[h] :
        <>[]Agrees(h, r, e)

\* Forwarding carries a registration through the mesh: a registry that no
\* home of e is connected to still comes to know e.
RegistrationsReachMesh ==
    \A e \in Entity : \A h \in Homes[e] : \A r \in Registry \ {h} :
        <>[](entities[h][e] # NoRow => Visible(r, e))
=============================================================================
