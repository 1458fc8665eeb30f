--------------------------- MODULE LivenessProofs ---------------------------
(***************************************************************************)
(* Proofs about Liveness for any mesh, threshold, sweep interval, number   *)
(* of entities, requests and restarts.                                     *)
(***************************************************************************)
EXTENDS Liveness, GossipProofs

allVars == <<vars, liveVars>>

-----------------------------------------------------------------------------
(***************************************************************************)
(* Type correctness.                                                       *)
(***************************************************************************)

\* The steps of the heartbeat handler keep the types of the mesh.
LEMMA HeartbeatTypes ==
    ASSUME LiveTypeOK, HeartbeatStep PROVE LiveTypeOK'
<1> USE DEF LiveTypeOK
<1>1. ASSUME NEW r \in Registry, NEW e \in Entity, OpenSession(r, e)
      PROVE  LiveTypeOK'
  BY <1>1, BoundsAssumption DEF OpenSession, TypeOK, Session
<1>2. ASSUME NEW r \in Registry, NEW e \in Entity, CloseSession(r, e)
      PROVE  LiveTypeOK'
  BY <1>2 DEF CloseSession, TypeOK, Session, vars
<1>3. ASSUME NEW r \in Registry, NEW e \in Entity, Beat(r, e)
      PROVE  LiveTypeOK'
  <2>1. clock \in 0..clock
    BY BoundsAssumption DEF TypeOK, Time
  <2>2. CASE entities[r][e] = NoRow
    BY <1>3, <2>2 DEF Beat, TypeOK, Session
  <2>3. CASE entities[r][e] # NoRow
    <3>1. entities[r][e] \in EntityRow
      BY <2>3 DEF TypeOK
    <3>2. [entities[r][e] EXCEPT !.status = "active"] \in EntityRow
      BY <3>1 DEF EntityRow, Status
    <3>3. /\ entities' = [entities EXCEPT ![r][e] =
                             [entities[r][e] EXCEPT !.status = "active"]]
          /\ lastBeat' = [lastBeat EXCEPT ![r][e] = clock]
      BY <1>3, <2>3 DEF Beat
    <3>4. entities' \in [Registry -> [Entity -> EntityRow \cup {NoRow}]]
      BY <3>2, <3>3 DEF TypeOK
    <3>5. lastBeat' \in [Registry -> [Entity -> 0..clock \cup {Never}]]
      BY <2>1, <3>3
    <3>6. QED
      BY <1>3, <3>4, <3>5 DEF Beat, TypeOK, Session
  <2>4. QED
    BY <2>2, <2>3
<1>4. ASSUME NEW r \in Registry, NEW e \in Entity, FirstBeat(r, e, 1)
      PROVE  LiveTypeOK'
  <2> DEFINE item == [entity |-> e, ver |-> 1, action |-> "agent_status",
                      status |-> "active"]
  <2>1. item \in Item
    BY BoundsAssumption DEF Item, Action, Status, Version
  <2>2. /\ wire' = Send(wire, r, CreateAnnouncement(r, item), conns[r])
        /\ MarkSeen(r, e, clock)
    BY <1>4 DEF FirstBeat
  <2>3. clock \in Time
    BY DEF TypeOK
  <2>4. CreateAnnouncement(r, item) \in Announcement
    BY <2>1, <2>3, CreateType
  <2>5. wire \in [Registry -> [Registry -> Seq(Announcement)]]
    BY DEF TypeOK
  <2> HIDE DEF item, LiveTypeOK
  <2>6. wire' \in [Registry -> [Registry -> Seq(Announcement)]]
    BY <2>2, <2>4, <2>5, SendType
  <2>7. seen' \in [Registry -> SUBSET (Entity \X Time \X Time)]
    BY <2>2, <2>3, MarkSeenType DEF LiveTypeOK, TypeOK
  <2>8. QED
    BY <1>4, <2>6, <2>7 DEF LiveTypeOK, FirstBeat, TypeOK, Session
<1>5. QED
  BY <1>1, <1>2, <1>3, <1>4 DEF HeartbeatStep

\* A sweep writes rows and owes announcements of their type.
LEMMA SweepTypes ==
    ASSUME LiveTypeOK, NEW r \in Registry, Sweep(r) PROVE LiveTypeOK'
<1> DEFINE items == {[entity |-> e, action |-> "agent_status",
                      status |-> "inactive", ver |-> entities[r][e].ver] :
                         e \in {x \in Entity : Stale(r, x)}}
<1>1. \A e \in Entity : Stale(r, e) => entities[r][e] \in EntityRow
  BY DEF Stale, LiveTypeOK, TypeOK
<1>2. items \subseteq Item
  BY <1>1 DEF Item, Action, Status, EntityRow
<1>3. entities' \in [Registry -> [Entity -> EntityRow \cup {NoRow}]]
  <2>1. \A e \in Entity : Stale(r, e) =>
          [ver |-> entities[r][e].ver, status |-> "inactive"] \in EntityRow
    BY <1>1 DEF EntityRow, Status
  <2> HIDE DEF Stale
  <2>2. QED
    BY <2>1 DEF Sweep, LiveTypeOK, TypeOK
<1>4. todo' \in [Registry -> SUBSET Item]
  <2>1. todo' = [todo EXCEPT ![r] = @ \cup items]
    BY DEF Sweep
  <2> HIDE DEF items
  <2>2. QED
    BY <1>2, <2>1 DEF LiveTypeOK, TypeOK
<1>5. nextSweep' \in [Registry -> Nat]
  BY BoundsAssumption, LivenessAssumption DEF Sweep, LiveTypeOK, TypeOK, Time
<1>6. QED
  BY <1>3, <1>4, <1>5 DEF Sweep, LiveTypeOK, TypeOK

\* The mesh leaves the tables of the registries and the time alone; it may
\* count a fault.
LEMMA MeshIsQuiet ==
    ASSUME MeshNext
    PROVE  /\ entities' = entities /\ clock' = clock
           /\ faults' \in {faults, faults + 1}
<1> DEFINE Quiet == /\ entities' = entities /\ clock' = clock
                    /\ faults' \in {faults, faults + 1}
<1>1. ASSUME NEW r \in Registry, NEW item \in todo[r], Announce(r, item)
      PROVE  Quiet
  BY <1>1 DEF Announce
<1>2. ASSUME NEW r \in Registry, NEW p \in Registry, Handle(r, p)
      PROVE  Quiet
  BY <1>2 DEF Handle, Accept, Discard, Mark, Authorize, Reject, Apply
<1>3. ASSUME NEW r \in Registry, NEW p \in Registry,
             Disconnect(r, p) \/ Reconnect(r, p)
      PROVE  Quiet
  BY <1>3 DEF Disconnect, Reconnect
<1>4. ASSUME NEW r \in Registry, CleanDedup(r) \/ CollectTombstones(r)
      PROVE  Quiet
  BY <1>4 DEF CleanDedup, CollectTombstones
<1>5. QED
  BY <1>1, <1>2, <1>3, <1>4 DEF MeshNext

\* Every step keeps the types of the mesh and of the heartbeats.
LEMMA LiveTypeStep == LiveTypeOK /\ [LiveNext]_allVars => LiveTypeOK'
<1> SUFFICES ASSUME LiveTypeOK, [LiveNext]_allVars PROVE LiveTypeOK'
  OBVIOUS
<1>a. TypeOK /\ clock \in Nat
  BY BoundsAssumption DEF LiveTypeOK, TypeOK, Time
<1>1. CASE LiveClient
  <2>1. TypeOK' /\ clock' = clock
    BY <1>1, <1>a, TypeStep
       DEF LiveClient, Next, Client, RegisterEntity, UpdateEntity, DeleteEntity
  <2>2. lastBeat' \in [Registry -> [Entity -> 0..clock \cup {Never}]]
    BY <1>1 DEF LiveClient, LiveTypeOK
  <2>3. QED
    BY <1>1, <2>1, <2>2 DEF LiveClient, LiveTypeOK
<1>2. CASE MeshNext /\ UNCHANGED liveVars
  <2>1. TypeOK'
    BY <1>2, <1>a, TypeStep DEF Next
  <2>2. clock' = clock
    BY <1>2, MeshIsQuiet
  <2>3. QED
    BY <1>2, <2>1, <2>2 DEF liveVars, LiveTypeOK
<1>3. CASE HeartbeatStep
  BY <1>3, HeartbeatTypes
<1>4. ASSUME NEW r \in Registry, Sweep(r) PROVE LiveTypeOK'
  BY <1>4, SweepTypes
<1>5. ASSUME NEW r \in Registry, LiveRestart(r) PROVE LiveTypeOK'
  <2>1. TypeOK' /\ clock' = clock
    BY <1>5, <1>a, TypeStep DEF LiveRestart, Next, Restart
  <2>2. QED
    BY <1>5, <1>a, <2>1, LivenessAssumption
       DEF LiveRestart, LiveTypeOK, Session
<1>6. CASE LiveTick
  <2>1. TypeOK' /\ clock' = clock + 1
    BY <1>6, <1>a, TypeStep DEF LiveTick, Next, Tick
  <2>2. QED
    BY <1>6, <1>a, <2>1 DEF LiveTick, liveVars, LiveTypeOK
<1>7. CASE UNCHANGED allVars
  BY <1>7 DEF allVars, vars, liveVars, LiveTypeOK, TypeOK
<1>8. QED
  BY <1>1, <1>2, <1>3, <1>4, <1>5, <1>6, <1>7 DEF LiveNext

\* The types hold in every reachable state; in particular no heartbeat is
\* stamped with a second that has not come.
THEOREM LiveTypeCorrect == LiveSpec => []LiveTypeOK
<1>1. LiveInit => LiveTypeOK
  <2>1. Init => TypeOK
    BY BoundsAssumption, MeshAssumption DEF Init, TypeOK, Time
  <2>2. QED
    BY <2>1, LivenessAssumption DEF LiveInit, LiveTypeOK, Session
<1>2. QED
  BY <1>1, LiveTypeStep, PTL DEF LiveSpec, allVars
-----------------------------------------------------------------------------
(***************************************************************************)
(* Fresh entities are active.                                              *)
(***************************************************************************)

\* A row that is not there has no heartbeat.
NoRowNoBeat ==
    \A r \in Registry, e \in Entity :
        entities[r][e] = NoRow => lastBeat[r][e] = Never

FreshInv == NoRowNoBeat /\ FreshIsActive

\* What a step may do to the rows and heartbeats of an entity, other than to
\* receive a heartbeat or to sweep: a row comes without a heartbeat, and a row
\* that stays keeps both its status and its heartbeat.
RowKept(r, e) ==
    \/ entities'[r][e] = NoRow /\ lastBeat'[r][e] = Never
    \/ entities[r][e] = NoRow /\ lastBeat'[r][e] = lastBeat[r][e]
    \/ /\ entities[r][e] # NoRow /\ entities'[r][e] # NoRow
       /\ entities'[r][e].status = entities[r][e].status
       /\ lastBeat'[r][e] = lastBeat[r][e]

AllKept == \A r \in Registry, e \in Entity : RowKept(r, e)

\* A step that writes neither table nor heartbeats keeps the rows.
LEMMA SameIsKept ==
    ASSUME NoRowNoBeat, entities' = entities, lastBeat' = lastBeat
    PROVE  AllKept
  BY DEF AllKept, RowKept, NoRowNoBeat

\* The requests of clients keep the rows that stay.
LEMMA ClientKeeps ==
    ASSUME LiveTypeOK, NoRowNoBeat, LiveClient
    PROVE  AllKept /\ clock' = clock /\ faults' = faults
<1>1. ASSUME NEW r \in Registry, NEW e \in Entity, NEW v \in Version,
             RegisterEntity(r, e, v)
      PROVE  AllKept
  BY <1>1 DEF RegisterEntity, LiveTypeOK, TypeOK, LiveClient, AllKept, RowKept,
              NoRowNoBeat
<1>2. ASSUME NEW r \in Registry, NEW e \in Entity, NEW v \in Version,
             UpdateEntity(r, e, v)
      PROVE  AllKept
  <2> DEFINE row == [entities[r][e] EXCEPT !.ver = v]
  <2>1. entities[r][e] \in EntityRow
    BY <1>2 DEF UpdateEntity, LiveTypeOK, TypeOK
  <2>2. row \in EntityRow /\ row.status = entities[r][e].status
    BY <2>1 DEF EntityRow
  <2>3. row # NoRow
    BY <2>2, NullAssumption
  <2>4. \A s \in Registry, f \in Entity :
          entities'[s][f] = IF s = r /\ f = e THEN row ELSE entities[s][f]
    BY <1>2 DEF UpdateEntity, LiveTypeOK, TypeOK
  <2> HIDE DEF row
  <2>5. \A s \in Registry, f \in Entity :
          lastBeat'[s][f] = IF entities'[s][f] = NoRow THEN Never
                            ELSE lastBeat[s][f]
    BY DEF LiveClient
  <2>6. entities[r][e] # NoRow
    BY <1>2 DEF UpdateEntity
  <2>7. QED
    BY <2>2, <2>3, <2>4, <2>5, <2>6 DEF AllKept, RowKept, NoRowNoBeat
<1>3. ASSUME NEW r \in Registry, NEW e \in Entity, DeleteEntity(r, e)
      PROVE  AllKept
  BY <1>3 DEF DeleteEntity, LiveTypeOK, TypeOK, LiveClient, AllKept, RowKept,
              NoRowNoBeat
<1>4. clock' = clock /\ faults' = faults
  BY DEF LiveClient, Client, RegisterEntity, UpdateEntity, DeleteEntity
<1>5. QED
  BY <1>1, <1>2, <1>3, <1>4 DEF LiveClient, Client

\* The mesh keeps the rows; it may count a fault.
LEMMA MeshKeeps ==
    ASSUME NoRowNoBeat, MeshNext, UNCHANGED liveVars
    PROVE  AllKept /\ clock' = clock /\ faults' \in {faults, faults + 1}
  BY MeshIsQuiet, SameIsKept DEF liveVars

\* A step that keeps the rows, and lets time pass or not, keeps FreshInv.
LEMMA KeptIsFresh ==
    ASSUME LiveTypeOK, LiveTypeOK', FreshInv, AllKept, clock' \in {clock, clock + 1}
    PROVE  FreshInv'
<1> SUFFICES ASSUME NEW r \in Registry, NEW e \in Entity
             PROVE  /\ entities'[r][e] = NoRow => lastBeat'[r][e] = Never
                    /\ entities'[r][e] # NoRow /\ lastBeat'[r][e] # Never
                         /\ clock' <= lastBeat'[r][e] + Threshold
                           => entities'[r][e].status = "active"
  BY DEF FreshInv, NoRowNoBeat, FreshIsActive
<1>1. RowKept(r, e)
  BY DEF AllKept
<1>2. /\ entities[r][e] = NoRow => lastBeat[r][e] = Never
      /\ entities[r][e] # NoRow /\ lastBeat[r][e] # Never
           /\ clock <= lastBeat[r][e] + Threshold
             => entities[r][e].status = "active"
  BY DEF FreshInv, NoRowNoBeat, FreshIsActive
<1>3. clock \in Nat /\ Threshold \in Nat /\ lastBeat[r][e] \in 0..clock \cup {Never}
  BY BoundsAssumption, LivenessAssumption DEF LiveTypeOK, TypeOK, Time
<1>4. lastBeat[r][e] # Never /\ clock' <= lastBeat[r][e] + Threshold
        => clock <= lastBeat[r][e] + Threshold
  BY <1>3
<1>5. QED
  BY <1>1, <1>2, <1>4 DEF RowKept

\* A heartbeat makes its row active now, and changes nothing else.
LEMMA BeatEffect ==
    ASSUME LiveTypeOK, NEW r \in Registry, NEW e \in Entity, Beat(r, e),
           entities[r][e] # NoRow
    PROVE  /\ entities'[r][e] # NoRow /\ entities'[r][e].status = "active"
           /\ lastBeat'[r][e] = clock
           /\ \A s \in Registry, f \in Entity : s # r \/ f # e =>
                /\ entities'[s][f] = entities[s][f]
                /\ lastBeat'[s][f] = lastBeat[s][f]
<1> DEFINE row == [entities[r][e] EXCEPT !.status = "active"]
<1>1. /\ entities' = [entities EXCEPT ![r][e] = row]
      /\ lastBeat' = [lastBeat EXCEPT ![r][e] = clock]
  BY DEF Beat
<1>2. entities[r][e] \in EntityRow
  BY DEF LiveTypeOK, TypeOK
<1>3. row \in EntityRow /\ row.status = "active"
  BY <1>2 DEF EntityRow, Status
<1>4. row # NoRow
  BY <1>3, NullAssumption
<1> HIDE DEF row
<1>5. QED
  BY <1>1, <1>3, <1>4 DEF LiveTypeOK, TypeOK

\* A sweep makes stale rows inactive, and changes nothing else.
LEMMA SweepEffect ==
    ASSUME LiveTypeOK, NEW r \in Registry, Sweep(r),
           NEW s \in Registry, NEW e \in Entity
    PROVE  /\ ~(s = r /\ Stale(r, e)) => entities'[s][e] = entities[s][e]
           /\ s = r /\ Stale(r, e) =>
                entities'[s][e] = [ver |-> entities[s][e].ver, status |-> "inactive"]
           /\ lastBeat' = lastBeat /\ clock' = clock /\ faults' = faults
  BY DEF Sweep, LiveTypeOK, TypeOK

\* Restarts keep the tables and end nothing but the sessions and the ticker.
LEMMA RestartKeeps ==
    ASSUME NEW r \in Registry, LiveRestart(r)
    PROVE  /\ entities' = entities /\ lastBeat' = lastBeat /\ clock' = clock
           /\ faults' = faults + 1
  BY DEF LiveRestart, Restart

\* Every step keeps FreshInv.
LEMMA FreshStep ==
    LiveTypeOK /\ FreshInv /\ [LiveNext]_allVars => FreshInv'
<1> SUFFICES ASSUME LiveTypeOK, FreshInv, [LiveNext]_allVars PROVE FreshInv'
  OBVIOUS
<1>a. LiveTypeOK' /\ NoRowNoBeat /\ FreshIsActive
  BY LiveTypeStep DEF FreshInv
<1>b. /\ clock \in Nat /\ Threshold \in Nat
      /\ \A s \in Registry, f \in Entity : lastBeat[s][f] \in 0..clock \cup {Never}
  BY BoundsAssumption, LivenessAssumption DEF LiveTypeOK, TypeOK, Time
<1>1. CASE LiveClient
  BY <1>1, <1>a, ClientKeeps, KeptIsFresh
<1>2. CASE MeshNext /\ UNCHANGED liveVars
  BY <1>2, <1>a, MeshKeeps, KeptIsFresh
<1>3. ASSUME NEW r \in Registry, NEW e \in Entity,
             \/ OpenSession(r, e) \/ CloseSession(r, e) \/ FirstBeat(r, e, 1)
             \/ Beat(r, e) /\ entities[r][e] = NoRow
      PROVE  FreshInv'
  <2>1. entities' = entities /\ lastBeat' = lastBeat /\ clock' = clock
    BY <1>3 DEF OpenSession, CloseSession, FirstBeat, Beat, vars
  <2>2. QED
    BY <1>a, <2>1, SameIsKept, KeptIsFresh
<1>4. ASSUME NEW r \in Registry, NEW e \in Entity, Beat(r, e),
             entities[r][e] # NoRow
      PROVE  FreshInv'
  <2>1. clock' = clock
    BY <1>4 DEF Beat
  <2>2. /\ entities'[r][e] # NoRow /\ entities'[r][e].status = "active"
        /\ \A s \in Registry, f \in Entity : s # r \/ f # e =>
             /\ entities'[s][f] = entities[s][f]
             /\ lastBeat'[s][f] = lastBeat[s][f]
    BY <1>4, BeatEffect
  <2>3. NoRowNoBeat'
    BY <1>a, <2>2 DEF NoRowNoBeat
  <2>4. FreshIsActive'
    BY <1>a, <2>1, <2>2 DEF FreshIsActive
  <2>5. QED
    BY <2>3, <2>4 DEF FreshInv
<1>5. ASSUME NEW r \in Registry, Sweep(r) PROVE FreshInv'
  <2> SUFFICES ASSUME NEW s \in Registry, NEW e \in Entity
               PROVE  /\ entities'[s][e] = NoRow => lastBeat'[s][e] = Never
                      /\ entities'[s][e] # NoRow /\ lastBeat'[s][e] # Never
                           /\ clock' <= lastBeat'[s][e] + Threshold
                             => entities'[s][e].status = "active"
    BY DEF FreshInv, NoRowNoBeat, FreshIsActive
  <2>1. lastBeat' = lastBeat /\ clock' = clock
    BY <1>5, SweepEffect
  <2>2. CASE s = r /\ Stale(r, e)
    <3>1. lastBeat[r][e] = Never \/ lastBeat[r][e] + Threshold < clock
      BY <2>2 DEF Stale
    <3>2. entities'[r][e] # NoRow
      <4>1. entities[r][e] \in EntityRow
        BY <2>2 DEF Stale, LiveTypeOK, TypeOK
      <4>2. entities'[r][e] = [ver |-> entities[r][e].ver, status |-> "inactive"]
        BY <1>5, <2>2, SweepEffect
      <4>3. entities'[r][e] \in EntityRow
        BY <4>1, <4>2 DEF EntityRow, Status
      <4>4. QED
        BY <4>3, NullAssumption
    <3>3. lastBeat[r][e] # Never => ~(clock <= lastBeat[r][e] + Threshold)
      BY <1>b, <3>1
    <3>4. QED
      BY <2>1, <2>2, <3>2, <3>3
  <2>3. CASE ~(s = r /\ Stale(r, e))
    <3>1. entities'[s][e] = entities[s][e]
      BY <1>5, <2>3, SweepEffect
    <3>2. QED
      BY <1>a, <2>1, <3>1 DEF NoRowNoBeat, FreshIsActive
  <2>4. QED
    BY <2>2, <2>3
<1>6. ASSUME NEW r \in Registry, LiveRestart(r) PROVE FreshInv'
  BY <1>6, <1>a, RestartKeeps, SameIsKept, KeptIsFresh
<1>7. CASE LiveTick
  BY <1>7, <1>a, SameIsKept, KeptIsFresh DEF LiveTick, Tick, liveVars
<1>8. CASE UNCHANGED allVars
  BY <1>8, <1>a, SameIsKept, KeptIsFresh DEF allVars, vars, liveVars
<1>9. QED
  BY <1>1, <1>2, <1>3, <1>4, <1>5, <1>6, <1>7, <1>8 DEF LiveNext, HeartbeatStep

\* An entity whose last heartbeat is no older than the threshold is active,
\* for any threshold and whatever sweeps, requests and restarts did.
THEOREM FreshStaysActive == LiveSpec => []FreshIsActive
<1>1. LiveInit => FreshInv
  BY DEF LiveInit, Init, FreshInv, NoRowNoBeat, FreshIsActive
<1>2. FreshInv => FreshIsActive
  BY DEF FreshInv
<1>3. QED
  BY <1>1, <1>2, FreshStep, LiveTypeCorrect, PTL DEF LiveSpec, allVars

-----------------------------------------------------------------------------
(***************************************************************************)
(* Silent entities become inactive in bounded time.                        *)
(***************************************************************************)

\* The ticker of a monitor is never overdue and never more than an interval
\* ahead.
MonitorOnTime ==
    \A r \in Monitored : clock <= nextSweep[r] /\ nextSweep[r] <= clock + SweepInterval

\* When an entity that is silent since b must have been swept, after f faults.
Due(b, f) == b + Threshold + (1 + f) * SweepInterval

\* The next sweep of an active row is within its bound.
SweepInTime ==
    \A r \in Monitored, e \in Entity :
        entities[r][e] # NoRow /\ lastBeat[r][e] # Never
          /\ entities[r][e].status = "active"
            => nextSweep[r] <= Due(lastBeat[r][e], faults)

OverdueInv == MonitorOnTime /\ SweepInTime

\* The bound is a number, and a fault adds one interval to it.
LEMMA DueGrows ==
    ASSUME NEW b \in Nat, NEW f \in Nat
    PROVE  /\ Due(b, f) \in Nat /\ Due(b, f) >= b + Threshold + SweepInterval
           /\ Due(b, f + 1) = Due(b, f) + SweepInterval
<1>1. Threshold \in Nat /\ SweepInterval \in Nat
  BY LivenessAssumption
<1>2. f * SweepInterval \in Nat
  BY <1>1
<1>3. /\ (1 + f) * SweepInterval = SweepInterval + f * SweepInterval
      /\ (1 + (f + 1)) * SweepInterval
           = SweepInterval + SweepInterval + f * SweepInterval
  BY <1>1
<1>4. QED
  BY <1>1, <1>2, <1>3 DEF Due

\* The numbers of a state.
LEMMA Numbers ==
    ASSUME LiveTypeOK
    PROVE  /\ clock \in Nat /\ Threshold \in Nat /\ SweepInterval \in Nat
           /\ faults \in Nat
           /\ \A r \in Monitored : r \in Registry /\ nextSweep[r] \in Nat
           /\ \A r \in Registry, e \in Entity :
                lastBeat[r][e] # Never =>
                  lastBeat[r][e] \in Nat /\ lastBeat[r][e] <= clock
  BY BoundsAssumption, LivenessAssumption DEF LiveTypeOK, TypeOK, Time

\* A step that keeps the rows and the ticker keeps OverdueInv.
LEMMA KeptIsInTime ==
    ASSUME LiveTypeOK, NoRowNoBeat, OverdueInv, AllKept,
           faults' \in {faults, faults + 1}, nextSweep' = nextSweep,
           MonitorOnTime'
    PROVE  OverdueInv'
<1>1. ASSUME NEW r \in Monitored, NEW e \in Entity,
             entities'[r][e] # NoRow, lastBeat'[r][e] # Never,
             entities'[r][e].status = "active"
      PROVE  nextSweep'[r] <= Due(lastBeat'[r][e], faults')
  <2>1. r \in Registry
    BY LivenessAssumption
  <2>2. /\ entities[r][e] # NoRow /\ lastBeat'[r][e] = lastBeat[r][e]
        /\ entities[r][e].status = "active"
    BY <1>1, <2>1 DEF AllKept, RowKept, NoRowNoBeat
  <2>3. nextSweep[r] <= Due(lastBeat[r][e], faults)
    BY <1>1, <2>2 DEF OverdueInv, SweepInTime
  <2>4. /\ nextSweep[r] \in Nat /\ lastBeat[r][e] \in Nat /\ faults \in Nat
        /\ SweepInterval \in Nat
    BY <1>1, <2>1, <2>2, Numbers
  <2>5. /\ Due(lastBeat[r][e], faults) \in Nat
        /\ Due(lastBeat[r][e], faults + 1)
             = Due(lastBeat[r][e], faults) + SweepInterval
    BY <2>4, DueGrows
  <2>6. nextSweep[r] <= Due(lastBeat[r][e], faults')
    BY <2>3, <2>4, <2>5
  <2>7. QED
    BY <2>2, <2>6
<1>2. QED
  BY <1>1 DEF OverdueInv, SweepInTime

\* Every step keeps OverdueInv.
LEMMA OverdueStep ==
    LiveTypeOK /\ FreshInv /\ OverdueInv /\ [LiveNext]_allVars => OverdueInv'
<1> SUFFICES ASSUME LiveTypeOK, FreshInv, OverdueInv, [LiveNext]_allVars
             PROVE  OverdueInv'
  OBVIOUS
<1>a. NoRowNoBeat /\ MonitorOnTime /\ SweepInTime
  BY DEF FreshInv, OverdueInv
<1>b. /\ clock \in Nat /\ Threshold \in Nat /\ SweepInterval \in Nat
      /\ faults \in Nat
      /\ \A r \in Monitored : r \in Registry /\ nextSweep[r] \in Nat
      /\ \A r \in Registry, e \in Entity :
           lastBeat[r][e] # Never =>
             lastBeat[r][e] \in Nat /\ lastBeat[r][e] <= clock
  BY Numbers
<1>c. ASSUME clock' = clock, nextSweep' = nextSweep PROVE MonitorOnTime'
  BY <1>a, <1>c DEF MonitorOnTime
<1>1. CASE LiveClient
  <2>1. nextSweep' = nextSweep
    BY <1>1 DEF LiveClient
  <2>2. QED
    BY <1>1, <1>a, <1>c, <2>1, ClientKeeps, KeptIsInTime
<1>2. CASE MeshNext /\ UNCHANGED liveVars
  <2>1. nextSweep' = nextSweep
    BY <1>2 DEF liveVars
  <2>2. QED
    BY <1>2, <1>a, <1>c, <2>1, MeshKeeps, KeptIsInTime
<1>3. ASSUME NEW r \in Registry, NEW e \in Entity,
             \/ OpenSession(r, e) \/ CloseSession(r, e) \/ FirstBeat(r, e, 1)
             \/ Beat(r, e) /\ entities[r][e] = NoRow
      PROVE  OverdueInv'
  <2>1. /\ entities' = entities /\ lastBeat' = lastBeat /\ clock' = clock
        /\ nextSweep' = nextSweep /\ faults' = faults
    BY <1>3 DEF OpenSession, CloseSession, FirstBeat, Beat, vars
  <2>2. QED
    BY <1>a, <1>c, <2>1, SameIsKept, KeptIsInTime
<1>4. ASSUME NEW r \in Registry, NEW e \in Entity, Beat(r, e),
             entities[r][e] # NoRow
      PROVE  OverdueInv'
  <2>1. clock' = clock /\ nextSweep' = nextSweep /\ faults' = faults
    BY <1>4 DEF Beat
  <2>2. /\ lastBeat'[r][e] = clock
        /\ \A s \in Registry, f \in Entity : s # r \/ f # e =>
             /\ entities'[s][f] = entities[s][f]
             /\ lastBeat'[s][f] = lastBeat[s][f]
    BY <1>4, BeatEffect
  <2>3. r \in Monitored => nextSweep[r] <= Due(clock, faults)
    <3>1. /\ Due(clock, faults) \in Nat
          /\ Due(clock, faults) >= clock + Threshold + SweepInterval
      BY <1>b, DueGrows
    <3>2. QED
      BY <1>a, <1>b, <3>1 DEF MonitorOnTime
  <2>4. SweepInTime'
    BY <1>a, <1>b, <2>1, <2>2, <2>3 DEF SweepInTime
  <2>5. QED
    BY <1>c, <2>1, <2>4 DEF OverdueInv
<1>5. ASSUME NEW r \in Registry, Sweep(r) PROVE OverdueInv'
  <2>1. lastBeat' = lastBeat /\ clock' = clock /\ faults' = faults
    BY <1>5 DEF Sweep
  <2>2. \A s \in Registry :
          nextSweep'[s] = IF s = r THEN clock + SweepInterval ELSE nextSweep[s]
    BY <1>5 DEF Sweep, LiveTypeOK
  <2>3. MonitorOnTime'
    BY <1>a, <1>b, <2>1, <2>2 DEF MonitorOnTime
  <2>4. ASSUME NEW s \in Monitored, NEW e \in Entity,
               entities'[s][e] # NoRow, lastBeat'[s][e] # Never,
               entities'[s][e].status = "active"
        PROVE  nextSweep'[s] <= Due(lastBeat'[s][e], faults')
    <3>1. s \in Registry
      BY <1>b
    <3>2. ~(s = r /\ Stale(r, e)) /\ entities'[s][e] = entities[s][e]
      <4>1. s = r /\ Stale(r, e) => entities'[s][e].status = "inactive"
        <5>1. s = r /\ Stale(r, e) => entities'[s][e] =
                [ver |-> entities[s][e].ver, status |-> "inactive"]
          BY <1>5, <3>1, SweepEffect
        <5>2. QED
          BY <5>1
      <4>2. QED
        BY <1>5, <2>4, <3>1, <4>1, SweepEffect
    <3>3. CASE s = r
      <4>1. ~(lastBeat[r][e] + Threshold < clock)
        BY <2>1, <2>4, <3>2, <3>3 DEF Stale
      <4>2. lastBeat[r][e] \in Nat
        BY <1>b, <2>1, <2>4, <3>3
      <4>3. /\ Due(lastBeat[r][e], faults) \in Nat
            /\ Due(lastBeat[r][e], faults)
                 >= lastBeat[r][e] + Threshold + SweepInterval
        BY <1>b, <4>2, DueGrows
      <4>4. clock + SweepInterval <= Due(lastBeat[r][e], faults)
        BY <1>b, <4>1, <4>2, <4>3
      <4>5. QED
        BY <2>1, <2>2, <3>3, <4>4
    <3>4. CASE s # r
      BY <1>a, <2>1, <2>2, <2>4, <3>1, <3>2, <3>4 DEF SweepInTime
    <3>5. QED
      BY <3>3, <3>4
  <2>5. QED
    BY <2>3, <2>4 DEF OverdueInv, SweepInTime
<1>6. ASSUME NEW r \in Registry, LiveRestart(r) PROVE OverdueInv'
  <2>1. /\ lastBeat' = lastBeat /\ clock' = clock /\ faults' = faults + 1
        /\ entities' = entities
    BY <1>6, RestartKeeps
  <2>2. \A s \in Monitored : nextSweep'[s] =
          IF s = r THEN clock + SweepInterval ELSE nextSweep[s]
    BY <1>6, <1>b DEF LiveRestart, LiveTypeOK
  <2>3. MonitorOnTime'
    BY <1>a, <1>b, <2>1, <2>2 DEF MonitorOnTime
  <2>4. ASSUME NEW s \in Monitored, NEW e \in Entity,
               entities[s][e] # NoRow, lastBeat[s][e] # Never,
               entities[s][e].status = "active"
        PROVE  nextSweep'[s] <= Due(lastBeat[s][e], faults + 1)
    <3>1. lastBeat[s][e] \in Nat /\ nextSweep[s] \in Nat
      BY <1>b, <2>4
    <3>2. nextSweep[s] <= Due(lastBeat[s][e], faults) /\ clock <= nextSweep[s]
      BY <1>a, <2>4 DEF SweepInTime, MonitorOnTime
    <3>3. /\ Due(lastBeat[s][e], faults) \in Nat
          /\ Due(lastBeat[s][e], faults + 1)
               = Due(lastBeat[s][e], faults) + SweepInterval
      BY <1>b, <3>1, DueGrows
    <3>4. QED
      BY <1>b, <2>2, <3>1, <3>2, <3>3
  <2>5. QED
    BY <2>1, <2>3, <2>4 DEF OverdueInv, SweepInTime
<1>7. CASE LiveTick
  <2>1. /\ entities' = entities /\ lastBeat' = lastBeat /\ faults' = faults
        /\ nextSweep' = nextSweep /\ clock' = clock + 1
    BY <1>7 DEF LiveTick, Tick, liveVars
  <2>2. MonitorOnTime'
    BY <1>7, <1>a, <1>b, <2>1 DEF LiveTick, MonitorOnTime
  <2>3. QED
    BY <1>a, <2>1, <2>2, SameIsKept, KeptIsInTime
<1>8. CASE UNCHANGED allVars
  <2>1. /\ entities' = entities /\ lastBeat' = lastBeat /\ faults' = faults
        /\ nextSweep' = nextSweep /\ clock' = clock
    BY <1>8 DEF allVars, vars, liveVars
  <2>2. QED
    BY <1>a, <1>c, <2>1, SameIsKept, KeptIsInTime
<1>9. QED
  BY <1>1, <1>2, <1>3, <1>4, <1>5, <1>6, <1>7, <1>8 DEF LiveNext, HeartbeatStep

\* An entity that stays silent is inactive one sweep interval after the
\* threshold, plus one interval for each restart, for any threshold and
\* interval: no order of heartbeats, requests and restarts keeps it active.
THEOREM OverdueBecomesInactive == LiveSpec => []OverdueIsInactive
<1>1. LiveInit => FreshInv /\ OverdueInv
  <2> SUFFICES ASSUME LiveInit PROVE FreshInv /\ OverdueInv
    OBVIOUS
  <2>1. FreshInv
    BY DEF LiveInit, Init, FreshInv, NoRowNoBeat, FreshIsActive
  <2>2. OverdueInv
    BY LivenessAssumption
       DEF LiveInit, Init, OverdueInv, MonitorOnTime, SweepInTime
  <2>3. QED
    BY <2>1, <2>2
<1>2. LiveTypeOK /\ OverdueInv => OverdueIsInactive
  <2> SUFFICES ASSUME LiveTypeOK, OverdueInv, NEW r \in Monitored, NEW e \in Entity,
                      entities[r][e] # NoRow, lastBeat[r][e] # Never,
                      clock > lastBeat[r][e] + Threshold + (1 + faults) * SweepInterval
               PROVE  entities[r][e].status = "inactive"
    BY DEF OverdueIsInactive
  <2>1. /\ clock \in Nat /\ nextSweep[r] \in Nat /\ r \in Registry
        /\ lastBeat[r][e] \in Nat /\ faults \in Nat
    BY Numbers
  <2>2. Due(lastBeat[r][e], faults) \in Nat
    BY <2>1, DueGrows
  <2>3. clock > Due(lastBeat[r][e], faults) /\ clock <= nextSweep[r]
    BY DEF Due, OverdueInv, MonitorOnTime
  <2>4. entities[r][e].status # "active"
    BY <2>1, <2>2, <2>3 DEF OverdueInv, SweepInTime
  <2>5. entities[r][e] \in EntityRow
    BY <2>1 DEF LiveTypeOK, TypeOK
  <2>6. QED
    BY <2>4, <2>5 DEF EntityRow, Status
<1>3. QED
  BY <1>1, <1>2, FreshStep, OverdueStep, LiveTypeCorrect, PTL DEF LiveSpec, allVars
=============================================================================
