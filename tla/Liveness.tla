------------------------------ MODULE Liveness ------------------------------
(***************************************************************************)
(* Heartbeats of entities: the WebSocket handler internal/api/heartbeat.go *)
(* and the sweep of internal/api/monitor.go, on top of the gossip mesh     *)
(* that carries their agent_status announcements.                          *)
(*                                                                         *)
(* The handler announces "active" on the first valid message of a          *)
(* connection, before it writes the heartbeat to the store, and never      *)
(* again on that connection. Invalid messages (clock skew, signature) are  *)
(* skipped and extend the read deadline, so a connection may outlive any   *)
(* gap between two valid heartbeats.                                       *)
(***************************************************************************)
EXTENDS Gossip

CONSTANTS
    Monitored,      \* the registries with heartbeat.enabled
    Threshold,      \* heartbeat.inactive_threshold_seconds
    SweepInterval,  \* heartbeat.sweep_interval_seconds
    Never           \* last_heartbeat IS NULL

ASSUME LivenessAssumption ==
    /\ Monitored \subseteq Registry
    /\ Threshold \in Nat
    /\ SweepInterval \in Nat \ {0}
    /\ Never \notin Time

VARIABLES
    lastBeat,   \* lastBeat[r][e]: the last_heartbeat column of entities
    session,    \* session[r][e]: the connection of e's agent to r
    nextSweep   \* nextSweep[r]: when the ticker of r's monitor fires next

liveVars == <<lastBeat, session, nextSweep>>

Session == {"closed", "open", "announced", "live"}

\* Every variable stays in its type; a heartbeat is never stamped with a
\* second that has not come.
LiveTypeOK ==
    /\ TypeOK
    /\ lastBeat \in [Registry -> [Entity -> 0..clock \cup {Never}]]
    /\ session \in [Registry -> [Entity -> Session]]
    /\ nextSweep \in [Registry -> Nat]

LiveInit ==
    /\ Init
    /\ lastBeat = [r \in Registry |-> [e \in Entity |-> Never]]
    /\ session = [r \in Registry |-> [e \in Entity |-> "closed"]]
    /\ nextSweep = [r \in Registry |-> SweepInterval]

-----------------------------------------------------------------------------
(***************************************************************************)
(* handleEntityHeartbeat.                                                  *)
(***************************************************************************)

\* The entity is looked up once, before the upgrade.
OpenSession(r, e) ==
    /\ session[r][e] = "closed"
    /\ entities[r][e] # NoRow
    /\ ops < MaxOps
    /\ ops' = ops + 1
    /\ session' = [session EXCEPT ![r][e] = "open"]
    /\ UNCHANGED <<clock, entities, tombstones, todo, conns, wire, seen, work,
                   gossip, index, faults, lastBeat, nextSweep>>

\* The first valid message of a connection announces the entity as active.
FirstBeat(r, e, ver) ==
    /\ session[r][e] = "open"
    /\ session' = [session EXCEPT ![r][e] = "announced"]
    /\ MarkSeen(r, e, clock)
    /\ wire' = Send(wire, r,
                    CreateAnnouncement(r, [entity |-> e, ver |-> ver,
                        action |-> "agent_status", status |-> "active"]),
                    conns[r])
    /\ UNCHANGED <<clock, entities, tombstones, todo, conns, work, gossip,
                   index, ops, faults, lastBeat, nextSweep>>

\* Mutant: the time of the heartbeat is rounded up to the next second.
BeatRoundedUp(r, e) ==
    /\ session[r][e] \in {"announced", "live"}
    /\ session' = [session EXCEPT ![r][e] = "live"]
    /\ IF entities[r][e] = NoRow
       THEN UNCHANGED <<entities, lastBeat>>
       ELSE /\ entities' = [entities EXCEPT ![r][e].status = "active"]
            /\ lastBeat' = [lastBeat EXCEPT ![r][e] = clock + 1]
    /\ UNCHANGED <<clock, tombstones, todo, conns, wire, seen, work, gossip,
                   index, ops, faults, nextSweep>>

\* UpdateEntityHeartbeat, after FirstBeat or for a later valid message. For
\* an entity that was deregistered it fails and the loop goes on.
Beat(r, e) ==
    /\ session[r][e] \in {"announced", "live"}
    /\ session' = [session EXCEPT ![r][e] = "live"]
    /\ IF entities[r][e] = NoRow
       THEN UNCHANGED <<entities, lastBeat>>
       ELSE /\ entities' = [entities EXCEPT ![r][e].status = "active"]
            /\ lastBeat' = [lastBeat EXCEPT ![r][e] = clock]
    /\ UNCHANGED <<clock, tombstones, todo, conns, wire, seen, work, gossip,
                   index, ops, faults, nextSweep>>

\* The agent goes away or the read deadline passes between two messages.
CloseSession(r, e) ==
    /\ session[r][e] \in {"open", "live"}
    /\ session' = [session EXCEPT ![r][e] = "closed"]
    /\ UNCHANGED <<vars, lastBeat, nextSweep>>

-----------------------------------------------------------------------------
(***************************************************************************)
(* LivenessMonitor.                                                        *)
(***************************************************************************)

\* Mutant: the comparison with the cutoff is not strict.
StaleAtThreshold(r, e) ==
    /\ entities[r][e] # NoRow /\ entities[r][e].status = "active"
    /\ lastBeat[r][e] = Never \/ lastBeat[r][e] + Threshold <= clock

\* Mutant: the cutoff is taken one sweep too early.
StaleTooLate(r, e) ==
    /\ entities[r][e] # NoRow /\ entities[r][e].status = "active"
    /\ \/ lastBeat[r][e] = Never
       \/ lastBeat[r][e] + Threshold + SweepInterval < clock

\* The rows that MarkInactiveEntities turns inactive.
Stale(r, e) ==
    /\ entities[r][e] # NoRow /\ entities[r][e].status = "active"
    /\ lastBeat[r][e] = Never \/ lastBeat[r][e] + Threshold < clock

\* sweep: one UPDATE for all stale rows, then one announcement for each of
\* them. A sweep ends before the next one starts.
Sweep(r) ==
    /\ r \in Monitored
    /\ clock >= nextSweep[r]
    /\ \A i \in todo[r] : i.action # "agent_status"
    /\ nextSweep' = [nextSweep EXCEPT ![r] = clock + SweepInterval]
    /\ entities' = [entities EXCEPT ![r] = [e \in Entity |->
                      IF Stale(r, e)
                      THEN [ver |-> @[e].ver, status |-> "inactive"]
                      ELSE @[e]]]
    /\ todo' = [todo EXCEPT ![r] = @ \cup
                  {[entity |-> e, action |-> "agent_status",
                    status |-> "inactive", ver |-> entities[r][e].ver] :
                       e \in {x \in Entity : Stale(r, x)}}]
    /\ UNCHANGED <<clock, tombstones, conns, wire, seen, work, gossip, index,
                   ops, faults, lastBeat, session>>

-----------------------------------------------------------------------------
(***************************************************************************)
(* Composition with the mesh.                                              *)
(***************************************************************************)

\* last_heartbeat goes with its row and a new row has none.
LiveClient ==
    /\ Client
    /\ lastBeat' = [r \in Registry |-> [e \in Entity |->
                      IF entities'[r][e] = NoRow THEN Never
                      ELSE lastBeat[r][e]]]
    /\ UNCHANGED <<session, nextSweep>>

\* The connections end with the process, and a new ticker is started.
LiveRestart(r) ==
    /\ Restart(r)
    /\ session' = [session EXCEPT ![r] = [e \in Entity |-> "closed"]]
    /\ nextSweep' = IF r \in Monitored
                    THEN [nextSweep EXCEPT ![r] = clock + SweepInterval]
                    ELSE nextSweep
    /\ UNCHANGED lastBeat

\* The monitor is punctual: time does not pass a sweep that is due.
LiveTick ==
    /\ \A r \in Monitored : clock < nextSweep[r]
    /\ Tick
    /\ UNCHANGED liveVars

HeartbeatStep ==
    \E r \in Registry, e \in Entity :
        \/ OpenSession(r, e) \/ Beat(r, e) \/ CloseSession(r, e)
        \/ FirstBeat(r, e, 1)

LiveNext ==
    \/ LiveClient
    \/ MeshNext /\ UNCHANGED liveVars
    \/ HeartbeatStep
    \/ \E r \in Registry : Sweep(r) \/ LiveRestart(r)
    \/ LiveTick

LiveSpec == LiveInit /\ [][LiveNext]_<<vars, liveVars>>

-----------------------------------------------------------------------------
(***************************************************************************)
(* Properties.                                                             *)
(***************************************************************************)

\* An entity with a heartbeat no older than the threshold is active,
\* whatever sweeps, updates, reconnects and restarts came in between.
FreshIsActive ==
    \A r \in Registry, e \in Entity :
        entities[r][e] # NoRow /\ lastBeat[r][e] # Never
          /\ clock <= lastBeat[r][e] + Threshold
            => entities[r][e].status = "active"

\* An entity that stopped sending heartbeats is inactive one sweep after the
\* threshold; each restart, which starts a new ticker, can add one sweep.
OverdueIsInactive ==
    \A r \in Monitored, e \in Entity :
        entities[r][e] # NoRow /\ lastBeat[r][e] # Never
          /\ clock > lastBeat[r][e] + Threshold + (1 + faults) * SweepInterval
            => entities[r][e].status = "inactive"
=============================================================================
