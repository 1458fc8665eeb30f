---------------------------- MODULE GossipProofs ----------------------------
(***************************************************************************)
(* Proofs about Gossip for any set of registries and entities, any mesh    *)
(* and any number of requests and faults.                                  *)
(***************************************************************************)
EXTENDS Gossip, TLAPS

-----------------------------------------------------------------------------
(***************************************************************************)
(* What the helpers return.                                                *)
(***************************************************************************)

\* An announcement is built from an owed item by CreateAnnouncement.
LEMMA CreateType ==
    ASSUME NEW r \in Registry, NEW item \in Item, clock \in Time
    PROVE  CreateAnnouncement(r, item) \in Announcement
  BY DEF CreateAnnouncement, Item, Announcement

\* Forwarding changes the hop count and nothing else.
LEMMA ForwardedType ==
    ASSUME NEW ann \in Announcement
    PROVE  /\ Forwarded(ann) \in Announcement
           /\ Forwarded(ann).hop = ann.hop + 1
           /\ Forwarded(ann).signedHop = ann.signedHop
  BY DEF Forwarded, Announcement

\* BroadcastExcept leaves sequences of announcements on the wires.
LEMMA SendType ==
    ASSUME NEW w \in [Registry -> [Registry -> Seq(Announcement)]],
           NEW r \in Registry, NEW ann \in Announcement, NEW peers
    PROVE  Send(w, r, ann, peers) \in
             [Registry -> [Registry -> Seq(Announcement)]]
  BY DEF Send

\* The store operations keep rows rows.
LEMMA StoredType ==
    ASSUME NEW row \in GossipRow \cup {NoRow}, NEW ann \in Announcement
    PROVE  Stored(row, ann) \in GossipRow \cup {NoRow}
  BY NullAssumption DEF Stored, UpsertGossipEntry, TombstoneGossipEntry,
         UpdateGossipEntryStatus, GossipRow, Announcement, Action, Status

\* MarkSeen keeps the dedup map a set of keys with their times.
LEMMA MarkSeenType ==
    ASSUME seen \in [Registry -> SUBSET (Entity \X Time \X Time)],
           clock \in Time,
           NEW r \in Registry, NEW e \in Entity, NEW ts \in Time,
           MarkSeen(r, e, ts)
    PROVE  seen' \in [Registry -> SUBSET (Entity \X Time \X Time)]
  BY DEF MarkSeen

-----------------------------------------------------------------------------
(***************************************************************************)
(* Type correctness.                                                       *)
(***************************************************************************)

\* Every step of the mesh keeps the types of TypeOK.
LEMMA TypeStep == TypeOK /\ [Next]_vars => TypeOK'
<1> SUFFICES ASSUME TypeOK, [Next]_vars PROVE TypeOK'
  OBVIOUS
<1> USE DEF TypeOK
<1>1. ASSUME NEW r \in Registry, NEW e \in Entity, NEW v \in Version,
             RegisterEntity(r, e, v)
      PROVE  TypeOK'
  BY <1>1, BoundsAssumption
     DEF RegisterEntity, Requests, Owe, Item, Action, Status, EntityRow
<1>2. ASSUME NEW r \in Registry, NEW e \in Entity, NEW v \in Version,
             UpdateEntity(r, e, v)
      PROVE  TypeOK'
  <2> DEFINE row == [entities[r][e] EXCEPT !.ver = v]
  <2>1. row \in EntityRow
    <3>1. entities[r][e] \in EntityRow
      BY <1>2 DEF UpdateEntity
    <3>2. QED
      BY <3>1 DEF EntityRow
  <2>2. entities' \in [Registry -> [Entity -> EntityRow \cup {NoRow}]]
    BY <1>2, <2>1 DEF UpdateEntity
  <2>3. todo' \in [Registry -> SUBSET Item] /\ ops' \in 0..MaxOps
    BY <1>2, BoundsAssumption
       DEF UpdateEntity, Requests, Owe, Item, Action, Status
  <2>4. QED
    BY <1>2, <2>2, <2>3 DEF UpdateEntity
<1>3. ASSUME NEW r \in Registry, NEW e \in Entity, DeleteEntity(r, e)
      PROVE  TypeOK'
  BY <1>3, BoundsAssumption
     DEF DeleteEntity, Requests, Owe, Item, Action, Status, EntityRow
<1>4. ASSUME NEW r \in Registry, NEW item \in todo[r], Announce(r, item)
      PROVE  TypeOK'
  <2>1. item \in Item /\ item.entity \in Entity
    BY DEF Item
  <2>2. wire' \in [Registry -> [Registry -> Seq(Announcement)]]
    <3>1. CreateAnnouncement(r, item) \in Announcement
      BY <2>1, CreateType
    <3>2. wire' = Send(wire, r, CreateAnnouncement(r, item), conns[r])
      BY <1>4 DEF Announce
    <3>3. wire \in [Registry -> [Registry -> Seq(Announcement)]]
      OBVIOUS
    <3> HIDE DEF TypeOK
    <3>4. QED
      BY <3>1, <3>2, <3>3, SendType
  <2>3. seen' \in [Registry -> SUBSET (Entity \X Time \X Time)]
    BY <1>4, <2>1, MarkSeenType DEF Announce
  <2>4. QED
    BY <1>4, <2>1, <2>2, <2>3 DEF Announce, Indexed, Unindexed
<1>5. ASSUME NEW r \in Registry, NEW p \in Registry, Accept(r, p)
      PROVE  TypeOK'
  <2>1. /\ Head(wire[p][r]) \in Announcement
        /\ Tail(wire[p][r]) \in Seq(Announcement)
    BY <1>5 DEF Accept
  <2>2. QED
    BY <1>5, <2>1 DEF Accept, Worker, Stage
<1>6. ASSUME NEW r \in Registry, NEW p \in Registry, Discard(r, p)
      PROVE  TypeOK'
  <2>1. Tail(wire[p][r]) \in Seq(Announcement)
    BY <1>6 DEF Discard
  <2>2. QED
    BY <1>6, <2>1 DEF Discard
<1>7. ASSUME NEW r \in Registry, NEW p \in Registry, Mark(r, p)
      PROVE  TypeOK'
  <2>1. /\ work[r][p] \in Worker
        /\ work[r][p].ann.entity \in Entity /\ work[r][p].ann.ts \in Time
    BY <1>7 DEF Mark, Worker, Announcement
  <2>2. seen' \in [Registry -> SUBSET (Entity \X Time \X Time)]
    BY <1>7, <2>1, MarkSeenType DEF Mark
  <2>3. QED
    BY <1>7, <2>1, <2>2 DEF Mark, Worker, Stage
<1>8. ASSUME NEW r \in Registry, NEW p \in Registry, Authorize(r, p)
      PROVE  TypeOK'
  <2>1. work[r][p] \in Worker
    BY <1>8 DEF Authorize
  <2>2. QED
    BY <1>8, <2>1 DEF Authorize, Worker, Stage
<1>9. ASSUME NEW r \in Registry, NEW p \in Registry, Reject(r, p)
      PROVE  TypeOK'
  BY <1>9 DEF Reject
<1>10. ASSUME NEW r \in Registry, NEW p \in Registry, Apply(r, p)
       PROVE  TypeOK'
  <2> DEFINE ann == work[r][p].ann
  <2>1. ann \in Announcement /\ ann.entity \in Entity
    BY <1>10 DEF Apply, Worker, Announcement
  <2>2. wire' \in [Registry -> [Registry -> Seq(Announcement)]]
    <3>1. Forwarded(ann) \in Announcement
      BY <2>1, ForwardedType
    <3>2. wire' = Send(wire, r, Forwarded(ann), conns[r] \ {p})
      BY <1>10 DEF Apply
    <3>3. wire \in [Registry -> [Registry -> Seq(Announcement)]]
      OBVIOUS
    <3> HIDE DEF TypeOK, ann
    <3>4. \A peers : Send(wire, r, Forwarded(ann), peers) \in
                        [Registry -> [Registry -> Seq(Announcement)]]
      BY <3>1, <3>3, SendType
    <3>5. QED
      BY <3>2, <3>4, Zenon
  <2>3. gossip' \in [Registry -> [Entity -> GossipRow \cup {NoRow}]]
    <3>1. Stored(gossip[r][ann.entity], ann) \in GossipRow \cup {NoRow}
      <4>1. gossip[r][ann.entity] \in GossipRow \cup {NoRow}
        BY <2>1
      <4>2. QED
        BY <2>1, <4>1, StoredType
    <3>2. QED
      BY <1>10, <2>1, <3>1 DEF Apply
  <2>4. index' \in [Registry -> SUBSET Entity]
    BY <1>10, <2>1 DEF Apply, Indexed
  <2>5. QED
    BY <1>10, <2>2, <2>3, <2>4 DEF Apply
<1>11. ASSUME NEW r \in Registry, CleanDedup(r) PROVE TypeOK'
  BY <1>11 DEF CleanDedup
<1>12. ASSUME NEW r \in Registry, CollectTombstones(r) PROVE TypeOK'
  BY <1>12 DEF CollectTombstones
<1>13. ASSUME NEW r \in Registry, Restart(r) PROVE TypeOK'
  BY <1>13, BoundsAssumption DEF Restart, RebuildIndexes
<1>14. ASSUME NEW r \in Registry, NEW p \in Registry, Disconnect(r, p)
       PROVE  TypeOK'
  <2>1. conns' \in [Registry -> SUBSET Registry] /\ faults' \in 0..MaxFaults
    BY <1>14, BoundsAssumption DEF Disconnect
  <2>2. wire' \in [Registry -> [Registry -> Seq(Announcement)]]
    BY <1>14 DEF Disconnect
  <2>3. QED
    BY <1>14, <2>1, <2>2 DEF Disconnect
<1>15. ASSUME NEW r \in Registry, NEW p \in Registry, Reconnect(r, p)
       PROVE  TypeOK'
  BY <1>15 DEF Reconnect
<1>16. CASE Tick
  BY <1>16, BoundsAssumption DEF Tick, Time
<1>17. CASE UNCHANGED vars
  BY <1>17 DEF vars
<1>18. QED
  BY <1>1, <1>2, <1>3, <1>4, <1>5, <1>6, <1>7, <1>8, <1>9, <1>10, <1>11,
     <1>12, <1>13, <1>14, <1>15, <1>16, <1>17
     DEF Next, Client, Handle, MeshNext

\* Every state a registry mesh can reach has the types of TypeOK.
THEOREM TypeCorrect == Spec => []TypeOK
<1>1. Init => TypeOK
  BY BoundsAssumption, MeshAssumption DEF Init, TypeOK, Time
<1>2. QED
  BY <1>1, TypeStep, PTL DEF Spec

-----------------------------------------------------------------------------
(***************************************************************************)
(* Where knowledge comes from.                                             *)
(***************************************************************************)

\* Taking a message off a wire leaves messages that were on it.
LEMMA TailElements ==
    ASSUME NEW S, NEW s \in Seq(S), s # << >>
    PROVE  /\ Head(s) = s[1] /\ 1 \in 1..Len(s)
           /\ \A i \in 1..Len(Tail(s)) : i + 1 \in 1..Len(s)
                                         /\ Tail(s)[i] = s[i + 1]
  OBVIOUS

\* A message on an extended wire was on it before or is the new one.
LEMMA AppendElements ==
    ASSUME NEW S, NEW s \in Seq(S), NEW x \in S,
           NEW i \in 1..Len(Append(s, x))
    PROVE  (i \in 1..Len(s) /\ Append(s, x)[i] = s[i]) \/ Append(s, x)[i] = x
  OBVIOUS

\* A request leaves its registry with an announcement about an entity that
\* the registry is a home of.
LEMMA OweIsLocal ==
    ASSUME TypeOK, TodoIsLocal, NEW r \in Registry, NEW e \in Entity,
           r \in Homes[e], NEW act, NEW st, NEW v, Owe(r, e, act, st, v)
    PROVE  TodoIsLocal'
  BY DEF TypeOK, TodoIsLocal, Owe

\* Broadcasting to peers of the mesh keeps the wires direct, if the message
\* is the sender's own or has lost its signature.
LEMMA SendIsDirect ==
    ASSUME TypeOK, WireIsDirect, NEW r \in Registry,
           NEW ann \in Announcement, SentBy(r, ann),
           NEW peers, peers \subseteq Mesh[r],
           wire' = Send(wire, r, ann, peers)
    PROVE  WireIsDirect'
<1> SUFFICES ASSUME NEW p \in Registry, NEW q \in Registry,
                    NEW i \in 1..Len(wire'[p][q])
             PROVE  q \in Mesh[p] /\ SentBy(p, wire'[p][q][i])
  BY DEF WireIsDirect, SentBy, Verifies
<1>1. wire \in [Registry -> [Registry -> Seq(Announcement)]]
  BY DEF TypeOK
<1>2. wire'[p][q] = IF p = r /\ q \in peers THEN Append(wire[p][q], ann)
                    ELSE wire[p][q]
  BY <1>1 DEF Send
<1>3. CASE p = r /\ q \in peers
  <2>1. wire[p][q] \in Seq(Announcement)
    BY <1>1
  <2>2. \/ i \in 1..Len(wire[p][q]) /\ wire'[p][q][i] = wire[p][q][i]
        \/ wire'[p][q][i] = ann
    BY <1>2, <1>3, <2>1, AppendElements
  <2>3. QED
    BY <1>3, <2>2 DEF WireIsDirect
<1>4. CASE ~(p = r /\ q \in peers)
  BY <1>2, <1>4 DEF WireIsDirect
<1>5. QED
  BY <1>3, <1>4

\* Taking the first message off a wire keeps the wires direct.
LEMMA TakeIsDirect ==
    ASSUME TypeOK, WireIsDirect, NEW r \in Registry, NEW p \in Registry,
           wire[p][r] # << >>,
           wire' = [wire EXCEPT ![p][r] = Tail(@)]
    PROVE  /\ WireIsDirect'
           /\ Head(wire[p][r]) \in Announcement
           /\ r \in Mesh[p] /\ SentBy(p, Head(wire[p][r]))
<1>1. wire[p][r] \in Seq(Announcement)
  BY DEF TypeOK
<1>2. WireIsDirect'
  <2> SUFFICES ASSUME NEW p1 \in Registry, NEW q \in Registry,
                      NEW i \in 1..Len(wire'[p1][q])
               PROVE  q \in Mesh[p1] /\ SentBy(p1, wire'[p1][q][i])
    BY DEF WireIsDirect, SentBy, Verifies
  <2>1. wire'[p1][q] = IF p1 = p /\ q = r THEN Tail(wire[p][r])
                       ELSE wire[p1][q]
    BY DEF TypeOK
  <2>2. CASE p1 = p /\ q = r
    <3> DEFINE s == wire[p][r]
    <3>1. s \in Seq(Announcement) /\ s # << >>
      BY <1>1
    <3>2. i \in 1..Len(Tail(s)) /\ wire'[p1][q][i] = Tail(s)[i]
      BY <2>1, <2>2
    <3>3. i + 1 \in 1..Len(s) /\ Tail(s)[i] = s[i + 1]
      <4> HIDE DEF s
      <4>1. QED
        BY <3>1, <3>2, TailElements
    <3>4. QED
      BY <2>2, <3>2, <3>3 DEF WireIsDirect
  <2>3. CASE ~(p1 = p /\ q = r)
    BY <2>1, <2>3 DEF WireIsDirect
  <2>4. QED
    BY <2>2, <2>3
<1>3. /\ Head(wire[p][r]) \in Announcement
      /\ r \in Mesh[p] /\ SentBy(p, Head(wire[p][r]))
  <2>1. 1 \in 1..Len(wire[p][r]) /\ Head(wire[p][r]) = wire[p][r][1]
    BY <1>1, TailElements
  <2>2. QED
    BY <1>1, <2>1 DEF WireIsDirect
<1>4. QED
  BY <1>2, <1>3

\* Moving a read loop on to its next stage does not change its message.
LEMMA StageIsDirect ==
    ASSUME TypeOK, WorkIsDirect, NEW r \in Registry, NEW p \in Registry,
           work[r][p] # Idle, NEW stage,
           work' = [work EXCEPT ![r][p].stage = stage]
    PROVE  WorkIsDirect'
<1> SUFFICES ASSUME NEW r1 \in Registry, NEW p1 \in Registry,
                    work'[r1][p1] # Idle
             PROVE  /\ p1 \in Mesh[r1]
                    /\ Verifies(work'[r1][p1].ann)
                    /\ SentBy(p1, work'[r1][p1].ann)
  BY DEF WorkIsDirect, SentBy, Verifies
<1>1. work[r1][p1] # Idle /\ work'[r1][p1].ann = work[r1][p1].ann
  <2>1. work[r][p] \in Worker
    BY DEF TypeOK
  <2>2. QED
    BY <2>1 DEF TypeOK, Worker
<1>2. QED
  BY <1>1 DEF WorkIsDirect

\* A read loop that ends its handling holds no message.
LEMMA IdleIsDirect ==
    ASSUME TypeOK, WorkIsDirect, NEW r \in Registry, NEW p \in Registry,
           work' = [work EXCEPT ![r][p] = Idle]
    PROVE  WorkIsDirect'
  BY DEF TypeOK, WorkIsDirect, SentBy, Verifies

\* The read loops, the gossip tables and the connections are as they were.
Rest == <<conns, wire, work, gossip>>

\* A step that touches none of these keeps what DirectInv says of them.
LEMMA RestUnchanged ==
    ASSUME DirectInv, UNCHANGED Rest, TypeOK', TodoIsLocal'
    PROVE  DirectInv'
  BY DEF DirectInv, Rest, ConnsInMesh, WireIsDirect, WorkIsDirect,
         KnowledgeIsDirect, SentBy, Verifies

\* Every step keeps the inductive invariant DirectInv.
LEMMA DirectStep == DirectInv /\ [Next]_vars => DirectInv'
<1> SUFFICES ASSUME DirectInv, [Next]_vars PROVE DirectInv'
  OBVIOUS
<1>a. TypeOK /\ TypeOK'
  BY TypeStep DEF DirectInv
<1>b. /\ TodoIsLocal /\ ConnsInMesh /\ WireIsDirect /\ WorkIsDirect
      /\ KnowledgeIsDirect
  BY DEF DirectInv
<1>1. ASSUME NEW r \in Registry, NEW e \in Entity, NEW v \in Version,
             RegisterEntity(r, e, v)
      PROVE  DirectInv'
  <2>1. TodoIsLocal'
    BY <1>1, <1>a, <1>b, OweIsLocal DEF RegisterEntity, Requests
  <2>2. QED
    BY <1>1, <1>a, <2>1, RestUnchanged DEF RegisterEntity, Rest
<1>2. ASSUME NEW r \in Registry, NEW e \in Entity, NEW v \in Version,
             UpdateEntity(r, e, v)
      PROVE  DirectInv'
  <2>1. TodoIsLocal'
    BY <1>2, <1>a, <1>b, OweIsLocal DEF UpdateEntity, Requests
  <2>2. QED
    BY <1>2, <1>a, <2>1, RestUnchanged DEF UpdateEntity, Rest
<1>3. ASSUME NEW r \in Registry, NEW e \in Entity, DeleteEntity(r, e)
      PROVE  DirectInv'
  <2>1. TodoIsLocal'
    BY <1>3, <1>a, <1>b, OweIsLocal DEF DeleteEntity, Requests
  <2>2. QED
    BY <1>3, <1>a, <2>1, RestUnchanged DEF DeleteEntity, Rest
<1>4. ASSUME NEW r \in Registry, NEW item \in todo[r], Announce(r, item)
      PROVE  DirectInv'
  <2> DEFINE new == CreateAnnouncement(r, item)
  <2>1. item \in Item /\ r \in Homes[item.entity]
    BY <1>a, <1>b DEF TypeOK, TodoIsLocal
  <2>2. TodoIsLocal'
    BY <1>4, <1>a, <1>b DEF Announce, TypeOK, TodoIsLocal
  <2>3. new \in Announcement
    BY <1>a, <2>1, CreateType DEF TypeOK
  <2>4. SentBy(r, new)
    BY <2>1 DEF SentBy, CreateAnnouncement
  <2>5. wire' = Send(wire, r, new, conns[r]) /\ conns[r] \subseteq Mesh[r]
    BY <1>4, <1>b DEF Announce, ConnsInMesh
  <2> HIDE DEF new
  <2>6. WireIsDirect'
    BY <1>a, <1>b, <2>3, <2>4, <2>5, SendIsDirect
  <2>7. (ConnsInMesh /\ WorkIsDirect /\ KnowledgeIsDirect)'
    BY <1>4, <1>b DEF Announce, ConnsInMesh, WorkIsDirect, SentBy, Verifies,
                      KnowledgeIsDirect
  <2>8. QED
    BY <1>a, <2>2, <2>6, <2>7 DEF DirectInv
<1>5. ASSUME NEW r \in Registry, NEW p \in Registry, Accept(r, p)
      PROVE  DirectInv'
  <2> DEFINE ann == Head(wire[p][r])
  <2>1. /\ WireIsDirect' /\ ann \in Announcement
        /\ r \in Mesh[p] /\ SentBy(p, ann)
    BY <1>5, <1>a, <1>b, TakeIsDirect DEF Accept
  <2>2. Verifies(ann)
    BY <1>5 DEF Accept, Admits
  <2>3. p \in Mesh[r]
    BY <2>1, MeshAssumption
  <2>4. WorkIsDirect'
    <3>1. work' = [work EXCEPT ![r][p] = [stage |-> "unmarked", ann |-> ann]]
      BY <1>5 DEF Accept
    <3> HIDE DEF ann
    <3>2. ASSUME NEW r1 \in Registry, NEW p1 \in Registry,
                 work'[r1][p1] # Idle
          PROVE  /\ p1 \in Mesh[r1]
                 /\ Verifies(work'[r1][p1].ann)
                 /\ SentBy(p1, work'[r1][p1].ann)
      <4>1. CASE r1 = r /\ p1 = p
        <5>1. work'[r1][p1].ann = ann
          BY <3>1, <4>1, <1>a DEF TypeOK
        <5>2. QED
          BY <4>1, <5>1, <2>1, <2>2, <2>3
      <4>2. CASE ~(r1 = r /\ p1 = p)
        <5>1. work'[r1][p1] = work[r1][p1]
          BY <3>1, <4>2, <1>a DEF TypeOK
        <5>2. QED
          BY <5>1, <3>2, <1>b DEF WorkIsDirect
      <4>3. QED
        BY <4>1, <4>2
    <3>3. QED
      BY <3>2 DEF WorkIsDirect, SentBy, Verifies
  <2>5. (TodoIsLocal /\ ConnsInMesh /\ KnowledgeIsDirect)'
    BY <1>5, <1>b DEF Accept, TodoIsLocal, ConnsInMesh, KnowledgeIsDirect
  <2>6. QED
    BY <1>a, <2>1, <2>4, <2>5 DEF DirectInv
<1>6. ASSUME NEW r \in Registry, NEW p \in Registry, Discard(r, p)
      PROVE  DirectInv'
  <2>1. WireIsDirect'
    BY <1>6, <1>a, <1>b, TakeIsDirect DEF Discard
  <2>2. (TodoIsLocal /\ ConnsInMesh /\ WorkIsDirect /\ KnowledgeIsDirect)'
    BY <1>6, <1>b DEF Discard, TodoIsLocal, ConnsInMesh, WorkIsDirect,
                      KnowledgeIsDirect, SentBy, Verifies
  <2>3. QED
    BY <1>a, <2>1, <2>2 DEF DirectInv
<1>7. ASSUME NEW r \in Registry, NEW p \in Registry, Mark(r, p)
      PROVE  DirectInv'
  <2>1. WorkIsDirect'
    BY <1>7, <1>a, <1>b, StageIsDirect DEF Mark
  <2>2. (TodoIsLocal /\ ConnsInMesh /\ WireIsDirect /\ KnowledgeIsDirect)'
    BY <1>7, <1>b DEF Mark, TodoIsLocal, ConnsInMesh, WireIsDirect,
                      KnowledgeIsDirect, SentBy, Verifies
  <2>3. QED
    BY <1>a, <2>1, <2>2 DEF DirectInv
<1>8. ASSUME NEW r \in Registry, NEW p \in Registry, Authorize(r, p)
      PROVE  DirectInv'
  <2>1. WorkIsDirect'
    BY <1>8, <1>a, <1>b, StageIsDirect DEF Authorize
  <2>2. (TodoIsLocal /\ ConnsInMesh /\ WireIsDirect /\ KnowledgeIsDirect)'
    BY <1>8, <1>b DEF Authorize, TodoIsLocal, ConnsInMesh, WireIsDirect,
                      KnowledgeIsDirect, SentBy, Verifies
  <2>3. QED
    BY <1>a, <2>1, <2>2 DEF DirectInv
<1>9. ASSUME NEW r \in Registry, NEW p \in Registry, Reject(r, p)
      PROVE  DirectInv'
  <2>1. WorkIsDirect'
    BY <1>9, <1>a, <1>b, IdleIsDirect DEF Reject
  <2>2. (TodoIsLocal /\ ConnsInMesh /\ WireIsDirect /\ KnowledgeIsDirect)'
    BY <1>9, <1>b DEF Reject, TodoIsLocal, ConnsInMesh, WireIsDirect,
                      KnowledgeIsDirect, SentBy, Verifies
  <2>3. QED
    BY <1>a, <2>1, <2>2 DEF DirectInv
<1>10. ASSUME NEW r \in Registry, NEW p \in Registry, Apply(r, p)
       PROVE  DirectInv'
  <2> DEFINE ann == work[r][p].ann
             fwd == Forwarded(ann)
             peers == conns[r] \ {p}
  <2>1. /\ ann \in Announcement /\ ann.entity \in Entity
        /\ p \in Mesh[r] /\ ann.origin = p /\ p \in Homes[ann.entity]
        /\ ann.hop = ann.signedHop
    BY <1>10, <1>a, <1>b DEF Apply, TypeOK, Worker, Announcement,
                             WorkIsDirect, SentBy, Verifies
  <2>2. fwd \in Announcement /\ SentBy(r, fwd)
    <3>1. /\ Forwarded(ann) \in Announcement
          /\ Forwarded(ann).hop = ann.hop + 1
          /\ Forwarded(ann).signedHop = ann.signedHop
      BY <2>1, ForwardedType
    <3>2. ann.hop \in Nat
      BY <2>1 DEF Announcement
    <3>3. QED
      BY <2>1, <3>1, <3>2 DEF SentBy, Verifies
  <2>3. WireIsDirect'
    <3>1. wire' = Send(wire, r, fwd, peers) /\ peers \subseteq Mesh[r]
      BY <1>10, <1>b DEF Apply, ConnsInMesh
    <3> HIDE DEF fwd, peers
    <3>2. QED
      BY <1>a, <1>b, <2>2, <3>1, SendIsDirect
  <2>4. WorkIsDirect'
    BY <1>10, <1>a, <1>b, IdleIsDirect DEF Apply
  <2>5. KnowledgeIsDirect'
    <3> DEFINE row == gossip[r][ann.entity]
    <3>1. gossip' = [gossip EXCEPT ![r][ann.entity] = Stored(row, ann)]
      BY <1>10 DEF Apply
    <3>2. row \in GossipRow \cup {NoRow}
      BY <1>a, <2>1 DEF TypeOK
    <3>3. Stored(row, ann) # NoRow =>
            Stored(row, ann).pin = IF row = NoRow THEN ann.origin ELSE row.pin
      BY <2>1, <3>2 DEF Stored, UpsertGossipEntry, TombstoneGossipEntry,
                        UpdateGossipEntryStatus, GossipRow
    <3>4. row # NoRow => row.pin \in Homes[ann.entity] \cap Mesh[r]
      BY <1>b, <2>1 DEF KnowledgeIsDirect
    <3> HIDE DEF row, ann
    <3>5. Stored(row, ann) # NoRow =>
            Stored(row, ann).pin \in Homes[ann.entity] \cap Mesh[r]
      BY <2>1, <3>3, <3>4
    <3>6. \A s \in Registry, e \in Entity :
            gossip'[s][e] = IF s = r /\ e = ann.entity THEN Stored(row, ann)
                            ELSE gossip[s][e]
      <4>1. gossip \in [Registry -> [Entity -> GossipRow \cup {NoRow}]]
        BY <1>a DEF TypeOK
      <4>2. QED
        BY <2>1, <3>1, <4>1
    <3>7. QED
      BY <1>b, <3>5, <3>6 DEF KnowledgeIsDirect
  <2>6. (TodoIsLocal /\ ConnsInMesh)'
    BY <1>10, <1>b DEF Apply, TodoIsLocal, ConnsInMesh
  <2>7. QED
    BY <1>a, <2>3, <2>4, <2>5, <2>6 DEF DirectInv
<1>11. ASSUME NEW r \in Registry, CleanDedup(r) PROVE DirectInv'
  <2>1. TodoIsLocal'
    BY <1>11, <1>b DEF CleanDedup, TodoIsLocal
  <2>2. QED
    BY <1>11, <1>a, <2>1, RestUnchanged DEF CleanDedup, Rest
<1>12. ASSUME NEW r \in Registry, CollectTombstones(r) PROVE DirectInv'
  <2>1. KnowledgeIsDirect'
    BY <1>12, <1>a, <1>b DEF CollectTombstones, TypeOK, KnowledgeIsDirect
  <2>2. (TodoIsLocal /\ ConnsInMesh /\ WireIsDirect /\ WorkIsDirect)'
    BY <1>12, <1>b DEF CollectTombstones, TodoIsLocal, ConnsInMesh,
                       WireIsDirect, WorkIsDirect, SentBy, Verifies
  <2>3. QED
    BY <1>a, <2>1, <2>2 DEF DirectInv
<1>13. ASSUME NEW r \in Registry, Restart(r) PROVE DirectInv'
  <2>1. (TodoIsLocal /\ ConnsInMesh)'
    BY <1>13, <1>a, <1>b DEF Restart, TypeOK, TodoIsLocal, ConnsInMesh
  <2>2. WireIsDirect'
    BY <1>13, <1>b DEF Restart, WireIsDirect, SentBy, Verifies
  <2>3. (WorkIsDirect /\ KnowledgeIsDirect)'
    BY <1>13, <1>a, <1>b DEF Restart, TypeOK, WorkIsDirect, SentBy, Verifies,
                             KnowledgeIsDirect
  <2>4. QED
    BY <1>a, <2>1, <2>2, <2>3 DEF DirectInv
<1>14. ASSUME NEW r \in Registry, NEW p \in Registry, Disconnect(r, p)
       PROVE  DirectInv'
  <2>1. ConnsInMesh'
    BY <1>14, <1>b DEF Disconnect, ConnsInMesh
  <2>2. WireIsDirect'
    <3>1. \A s, q \in Registry : wire'[s][q] = << >> \/ wire'[s][q] = wire[s][q]
      BY <1>14 DEF Disconnect
    <3>2. QED
      BY <1>b, <3>1 DEF WireIsDirect, SentBy, Verifies
  <2>3. (TodoIsLocal /\ WorkIsDirect /\ KnowledgeIsDirect)'
    BY <1>14, <1>b DEF Disconnect, TodoIsLocal, WorkIsDirect, SentBy,
                       Verifies, KnowledgeIsDirect
  <2>4. QED
    BY <1>a, <2>1, <2>2, <2>3 DEF DirectInv
<1>15. ASSUME NEW r \in Registry, NEW p \in Registry, Reconnect(r, p)
       PROVE  DirectInv'
  <2>1. ConnsInMesh'
    <3>1. p \in Mesh[r] /\ r \in Mesh[p]
      BY <1>15, MeshAssumption DEF Reconnect
    <3>2. ASSUME NEW s \in Registry, NEW q \in Registry, {s, q} = {r, p}
          PROVE  q \in Mesh[s]
      BY <3>1, <3>2
    <3>3. QED
      BY <1>15, <1>b, <3>2 DEF Reconnect, ConnsInMesh
  <2>2. (TodoIsLocal /\ WireIsDirect /\ WorkIsDirect /\ KnowledgeIsDirect)'
    BY <1>15, <1>b DEF Reconnect, TodoIsLocal, WireIsDirect, WorkIsDirect,
                       SentBy, Verifies, KnowledgeIsDirect
  <2>3. QED
    BY <1>a, <2>1, <2>2 DEF DirectInv
<1>16. CASE Tick
  <2>1. TodoIsLocal'
    BY <1>16, <1>b DEF Tick, TodoIsLocal
  <2>2. QED
    BY <1>16, <1>a, <2>1, RestUnchanged DEF Tick, Rest
<1>17. CASE UNCHANGED vars
  <2>1. TodoIsLocal'
    BY <1>17, <1>b DEF vars, TodoIsLocal
  <2>2. QED
    BY <1>17, <1>a, <2>1, RestUnchanged DEF vars, Rest
<1>18. QED
  BY <1>1, <1>2, <1>3, <1>4, <1>5, <1>6, <1>7, <1>8, <1>9, <1>10, <1>11,
     <1>12, <1>13, <1>14, <1>15, <1>16, <1>17
     DEF Next, Client, Handle, MeshNext

\* DirectInv holds in every reachable state.
THEOREM DirectCorrect == Spec => []DirectInv
<1>1. Init => DirectInv
  <2> SUFFICES ASSUME Init PROVE DirectInv
    OBVIOUS
  <2>1. TypeOK
    BY BoundsAssumption, MeshAssumption DEF Init, TypeOK, Time
  <2>2. QED
    BY <2>1 DEF Init, DirectInv, TodoIsLocal, ConnsInMesh, WireIsDirect,
                WorkIsDirect, KnowledgeIsDirect
<1>2. QED
  BY <1>1, DirectStep, PTL DEF Spec

-----------------------------------------------------------------------------
(***************************************************************************)
(* What may happen to a gossip row.                                        *)
(***************************************************************************)

\* The write of any announcement keeps the pin and the tombstone of a row.
LEMMA StoredIsFaithful ==
    ASSUME NEW row \in GossipRow \cup {NoRow}, NEW ann \in Announcement
    PROVE  RowStep(row, Stored(row, ann))
<1> SUFFICES ASSUME row # NoRow
             PROVE  RowStep(row, Stored(row, ann))
  BY DEF RowStep
<1>1. row \in GossipRow
  OBVIOUS
<1>2. CASE ann.action \in {"register", "update"}
  <2>1. Stored(row, ann) = [row EXCEPT !.ver = ann.ver, !.status = "active"]
    BY <1>2 DEF Stored, UpsertGossipEntry
  <2>2. /\ Stored(row, ann) \in GossipRow
        /\ Stored(row, ann).pin = row.pin
        /\ Stored(row, ann).tombstoned = row.tombstoned
    BY <1>1, <2>1 DEF GossipRow, Announcement, Status
  <2>3. QED
    BY <2>2, NullAssumption DEF RowStep
<1>3. CASE ann.action = "deregister"
  <2>1. Stored(row, ann) = [row EXCEPT !.tombstoned = TRUE]
    BY <1>3 DEF Stored, TombstoneGossipEntry
  <2>2. /\ Stored(row, ann) \in GossipRow
        /\ Stored(row, ann).pin = row.pin
        /\ Stored(row, ann).tombstoned
    BY <1>1, <2>1 DEF GossipRow
  <2>3. QED
    BY <2>2, NullAssumption DEF RowStep
<1>4. CASE ann.action \notin {"register", "update", "deregister"}
  <2>1. Stored(row, ann) = [row EXCEPT !.status = ann.status]
    BY <1>4 DEF Stored, UpdateGossipEntryStatus
  <2>2. /\ Stored(row, ann) \in GossipRow
        /\ Stored(row, ann).pin = row.pin
        /\ Stored(row, ann).tombstoned = row.tombstoned
    BY <1>1, <2>1 DEF GossipRow, Announcement
  <2>3. QED
    BY <2>2, NullAssumption DEF RowStep
<1>5. QED
  BY <1>2, <1>3, <1>4

\* A step that leaves the tables alone is faithful.
LEMMA SameIsFaithful ==
    ASSUME TypeOK, gossip' = gossip
    PROVE  RowsKept
  BY DEF RowStep, RowsKept

\* A gossip row keeps its pinned key for life, is never untombstoned and is
\* removed only as a tombstone, for every mesh and every interleaving.
THEOREM RowsStayFaithful == Spec => RowsAreFaithful
<1>1. TypeOK /\ [Next]_vars => [RowsKept]_vars
  <2> SUFFICES ASSUME TypeOK, Next PROVE RowsKept
    BY DEF vars
  <2>1. ASSUME NEW r \in Registry, NEW p \in Registry, Apply(r, p)
        PROVE  RowsKept
    <3> DEFINE ann == work[r][p].ann
               row == gossip[r][ann.entity]
    <3>1. ann \in Announcement /\ ann.entity \in Entity
      BY <2>1 DEF Apply, TypeOK, Worker, Announcement
    <3>2. gossip \in [Registry -> [Entity -> GossipRow \cup {NoRow}]]
      BY DEF TypeOK
    <3>3. gossip' = [gossip EXCEPT ![r][ann.entity] = Stored(row, ann)]
      BY <2>1 DEF Apply
    <3>4. row \in GossipRow \cup {NoRow}
      BY <3>1, <3>2
    <3> HIDE DEF row, ann
    <3>5. RowStep(row, Stored(row, ann))
      BY <3>1, <3>4, StoredIsFaithful
    <3>6. ASSUME NEW s \in Registry, NEW e \in Entity
          PROVE  RowStep(gossip[s][e], gossip'[s][e])
      <4>1. gossip'[s][e] = IF s = r /\ e = ann.entity THEN Stored(row, ann)
                            ELSE gossip[s][e]
        BY <3>1, <3>2, <3>3
      <4>2. CASE s = r /\ e = ann.entity
        BY <3>5, <4>1, <4>2 DEF row
      <4>3. CASE ~(s = r /\ e = ann.entity)
        BY <4>1, <4>3 DEF RowStep
      <4>4. QED
        BY <4>2, <4>3
    <3>7. QED
      BY <3>6 DEF RowsKept
  <2>2. ASSUME NEW r \in Registry, CollectTombstones(r)
        PROVE  RowsKept
    BY <2>2, NullAssumption DEF CollectTombstones, TypeOK, RowStep, RowsKept
  <2>3. ASSUME Client PROVE gossip' = gossip
    BY <2>3 DEF Client, RegisterEntity, UpdateEntity, DeleteEntity
  <2>4. ASSUME NEW r \in Registry, NEW p \in Registry, Handle(r, p), ~Apply(r, p)
        PROVE  gossip' = gossip
    BY <2>4 DEF Handle, Accept, Discard, Mark, Authorize, Reject
  <2>5. ASSUME NEW r \in Registry, NEW p \in Registry,
               Disconnect(r, p) \/ Reconnect(r, p)
        PROVE  gossip' = gossip
    BY <2>5 DEF Disconnect, Reconnect
  <2>6. ASSUME NEW r \in Registry, NEW item \in todo[r], Announce(r, item)
        PROVE  gossip' = gossip
    BY <2>6 DEF Announce
  <2>7. ASSUME NEW r \in Registry, CleanDedup(r) \/ Restart(r)
        PROVE  gossip' = gossip
    BY <2>7 DEF CleanDedup, Restart
  <2>8. ASSUME Tick PROVE gossip' = gossip
    BY <2>8 DEF Tick
  <2>9. ASSUME gossip' = gossip PROVE RowsKept
    BY <2>9, SameIsFaithful
  <2>10. QED
    BY <2>1, <2>2, <2>3, <2>4, <2>5, <2>6, <2>7, <2>8, <2>9
       DEF Next, MeshNext
<1>2. QED
  BY <1>1, TypeCorrect, PTL DEF Spec, RowsAreFaithful

-----------------------------------------------------------------------------
(***************************************************************************)
(* What is registered can be searched, when clients wait for responses.    *)
(***************************************************************************)

\* One handler at a time is under way for an entity, and it is about the row
\* as the handler left it: a deregistration after its delete, a registration
\* or update while the row is there.
OwedOnce ==
    \A r \in Registry : \A i, j \in todo[r] : i.entity = j.entity => i = j

OwedMatches ==
    \A r \in Registry : \A i \in todo[r] :
        /\ i.action # "agent_status"
        /\ i.action = "deregister" <=> entities[r][i.entity] = NoRow

IndexCovers ==
    \A r \in Registry, e \in Entity :
        entities[r][e] # NoRow /\ (\A i \in todo[r] : i.entity # e)
            => e \in index[r]

SearchInv == OwedOnce /\ OwedMatches /\ IndexCovers

\* A request waits for the handlers of its entity, so it finds none owed.
LEMMA RequestFindsNone ==
    ASSUME Sequential, OwedMatches, NEW r \in Registry, NEW e \in Entity,
           Requests(r, e)
    PROVE  \A i \in todo[r] : i.entity # e
  BY DEF Requests, OwedMatches

\* The commit of a request, whose announcement is then the only one owed.
LEMMA CommitKeeps ==
    ASSUME TypeOK, SearchInv, NEW r \in Registry, NEW e \in Entity,
           NEW row \in EntityRow \cup {NoRow}, NEW item \in Item,
           \A i \in todo[r] : i.entity # e,
           item.entity = e, item.action # "agent_status",
           item.action = "deregister" <=> row = NoRow,
           todo' = [todo EXCEPT ![r] = @ \cup {item}],
           entities' = [entities EXCEPT ![r][e] = row],
           index' = index
    PROVE  SearchInv'
<1>1. /\ todo'[r] = todo[r] \cup {item}
      /\ \A s \in Registry : s # r => todo'[s] = todo[s]
  BY DEF TypeOK
<1>2. \A s \in Registry, f \in Entity :
        entities'[s][f] = IF s = r /\ f = e THEN row ELSE entities[s][f]
  BY DEF TypeOK
<1>3. \A s \in Registry : \A i \in todo[s] : i.entity \in Entity
  BY DEF TypeOK, Item
<1>4. OwedOnce'
  BY <1>1 DEF SearchInv, OwedOnce
<1>5. OwedMatches'
  BY <1>1, <1>2, <1>3 DEF SearchInv, OwedMatches
<1>6. IndexCovers'
  BY <1>1, <1>2 DEF SearchInv, IndexCovers
<1>7. QED
  BY <1>4, <1>5, <1>6 DEF SearchInv

\* Nothing but requests, announcements and restarts touches the three parts,
\* except that applying a peer's announcement adds to the index.
LEMMA IndexGrows ==
    ASSUME SearchInv, todo' = todo, entities' = entities,
           \A r \in Registry : index[r] \subseteq index'[r]
    PROVE  SearchInv'
  BY DEF SearchInv, OwedOnce, OwedMatches, IndexCovers

\* Every step keeps SearchInv, if clients are sequential.
LEMMA SearchStep ==
    ASSUME Sequential PROVE TypeOK /\ SearchInv /\ [Next]_vars => SearchInv'
<1> SUFFICES ASSUME TypeOK, SearchInv, [Next]_vars PROVE SearchInv'
  OBVIOUS
<1>a. OwedMatches
  BY DEF SearchInv
<1>1. ASSUME NEW r \in Registry, NEW e \in Entity, NEW v \in Version,
             RegisterEntity(r, e, v)
      PROVE  SearchInv'
  <2> DEFINE row == [ver |-> v, status |-> "active"]
             item == [entity |-> e, action |-> "register",
                      status |-> "active", ver |-> v]
  <2>1. row \in EntityRow /\ item \in Item /\ row # NoRow
    BY NullAssumption DEF EntityRow, Item, Action, Status
  <2>2. \A i \in todo[r] : i.entity # e
    BY <1>1, <1>a, RequestFindsNone DEF RegisterEntity
  <2>3. /\ todo' = [todo EXCEPT ![r] = @ \cup {item}]
        /\ entities' = [entities EXCEPT ![r][e] = row] /\ index' = index
    BY <1>1 DEF RegisterEntity, Owe
  <2>4. item.entity = e /\ item.action = "register"
    OBVIOUS
  <2> HIDE DEF row, item
  <2>5. QED
    BY <2>1, <2>2, <2>3, <2>4, CommitKeeps
<1>2. ASSUME NEW r \in Registry, NEW e \in Entity, NEW v \in Version,
             UpdateEntity(r, e, v)
      PROVE  SearchInv'
  <2> DEFINE row == [entities[r][e] EXCEPT !.ver = v]
             item == [entity |-> e, action |-> "update",
                      status |-> "active", ver |-> v]
  <2>1. entities[r][e] \in EntityRow
    BY <1>2 DEF UpdateEntity, TypeOK
  <2>2. row \in EntityRow /\ item \in Item
    BY <2>1 DEF EntityRow, Item, Action, Status
  <2>3. row # NoRow
    BY <2>2, NullAssumption
  <2>4. \A i \in todo[r] : i.entity # e
    BY <1>2, <1>a, RequestFindsNone DEF UpdateEntity
  <2>5. /\ todo' = [todo EXCEPT ![r] = @ \cup {item}] /\ index' = index
        /\ entities' = [entities EXCEPT ![r][e] = row]
    BY <1>2 DEF UpdateEntity, Owe
  <2>6. item.entity = e /\ item.action = "update"
    OBVIOUS
  <2> HIDE DEF row, item
  <2>7. QED
    BY <2>2, <2>3, <2>4, <2>5, <2>6, CommitKeeps
<1>3. ASSUME NEW r \in Registry, NEW e \in Entity, DeleteEntity(r, e)
      PROVE  SearchInv'
  <2> DEFINE item == [entity |-> e, action |-> "deregister",
                      status |-> "active", ver |-> entities[r][e].ver]
  <2>1. item \in Item
    BY <1>3 DEF DeleteEntity, TypeOK, EntityRow, Item, Action, Status
  <2>2. \A i \in todo[r] : i.entity # e
    BY <1>3, <1>a, RequestFindsNone DEF DeleteEntity
  <2>3. /\ todo' = [todo EXCEPT ![r] = @ \cup {item}] /\ index' = index
        /\ entities' = [entities EXCEPT ![r][e] = NoRow]
    BY <1>3 DEF DeleteEntity, Owe
  <2>4. item.entity = e /\ item.action = "deregister"
    OBVIOUS
  <2> HIDE DEF item
  <2>5. QED
    BY <2>1, <2>2, <2>3, <2>4, CommitKeeps
<1>4. ASSUME NEW r \in Registry, NEW item \in todo[r], Announce(r, item)
      PROVE  SearchInv'
  <2>1. item.entity \in Entity /\ item.action \in Action
    BY DEF TypeOK, Item
  <2>2. \A s \in Registry : todo'[s] = IF s = r THEN todo[r] \ {item} ELSE todo[s]
    BY <1>4 DEF Announce, TypeOK
  <2>3. \A s \in Registry :
          /\ s # r => index'[s] = index[s]
          /\ s = r /\ item.action = "deregister"
                => index'[s] = index[r] \ {item.entity}
          /\ s = r /\ item.action # "deregister"
                => index'[s] = index[r] \cup {item.entity}
    BY <1>4, <2>1, <1>a
       DEF Announce, TypeOK, Indexed, Unindexed, Action, OwedMatches
  <2>4. entities' = entities
    BY <1>4 DEF Announce
  <2>5. IndexCovers'
    BY <2>1, <2>2, <2>3, <2>4 DEF SearchInv, IndexCovers, OwedMatches
  <2>6. OwedOnce' /\ OwedMatches'
    BY <2>2, <2>4 DEF SearchInv, OwedOnce, OwedMatches
  <2>7. QED
    BY <2>5, <2>6 DEF SearchInv
<1>5. ASSUME NEW r \in Registry, NEW p \in Registry, Handle(r, p), ~Apply(r, p)
      PROVE  SearchInv'
  BY <1>5, IndexGrows
     DEF Handle, Accept, Discard, Mark, Authorize, Reject
<1>6. ASSUME NEW r \in Registry, NEW p \in Registry, Apply(r, p)
      PROVE  SearchInv'
  <2>1. \A s \in Registry : index[s] \subseteq index'[s]
    BY <1>6 DEF Apply, TypeOK, Indexed
  <2>2. QED
    BY <1>6, <2>1, IndexGrows DEF Apply
<1>7. ASSUME NEW r \in Registry, NEW p \in Registry,
             Disconnect(r, p) \/ Reconnect(r, p)
      PROVE  SearchInv'
  BY <1>7, IndexGrows DEF Disconnect, Reconnect
<1>8. ASSUME NEW r \in Registry, CleanDedup(r) \/ CollectTombstones(r)
      PROVE  SearchInv'
  BY <1>8, IndexGrows DEF CleanDedup, CollectTombstones
<1>9. ASSUME NEW r \in Registry, Restart(r) PROVE SearchInv'
  <2>1. /\ \A s \in Registry : todo'[s] = IF s = r THEN {} ELSE todo[s]
        /\ \A s \in Registry : s # r => index'[s] = index[s]
        /\ index'[r] = {e \in Entity : entities[r][e] # NoRow}
        /\ entities' = entities
    BY <1>9 DEF Restart, RebuildIndexes, TypeOK
  <2>2. QED
    BY <2>1 DEF SearchInv, OwedOnce, OwedMatches, IndexCovers
<1>10. CASE Tick
  BY <1>10, IndexGrows DEF Tick
<1>11. CASE UNCHANGED vars
  BY <1>11, IndexGrows DEF vars
<1>12. QED
  BY <1>1, <1>2, <1>3, <1>4, <1>5, <1>6, <1>7, <1>8, <1>9, <1>10, <1>11
     DEF Next, Client, MeshNext

\* If clients wait for the response to a request before they send the next one
\* about the entity, then an entity that no handler is busy with is in the
\* search index of its home, wherever a restart has cut handlers short.
THEOREM HomeStaysSearchable ==
    ASSUME Sequential PROVE Spec => []HomeIsSearchable
<1>1. Init => SearchInv
  BY DEF Init, SearchInv, OwedOnce, OwedMatches, IndexCovers
<1>2. TypeOK /\ SearchInv /\ [Next]_vars => SearchInv'
  BY SearchStep
<1>3. SearchInv => HomeIsSearchable
  BY HomesAssumption DEF SearchInv, IndexCovers, HomeIsSearchable
<1>4. QED
  BY <1>1, <1>2, <1>3, TypeCorrect, PTL DEF Spec

-----------------------------------------------------------------------------
(***************************************************************************)
(* Who tombstones a row, when clients wait and nobody registers again.     *)
(***************************************************************************)

\* x deregisters e under a signature that holds; where such announcements are
\* on a wire, and whether a read loop has taken one.
Ends(x, e) == x.action = "deregister" /\ x.entity = e /\ Verifies(x)
Sent(w, e) == {i \in 1..Len(w) : Ends(w[i], e)}
Taken(wk, e) == wk # Idle /\ Ends(wk.ann, e)

\* What p sends to a peer (on wire w, in hand wk) about the end of e, and the
\* peer's row: p deregisters e once, so the peer gets at most one announcement
\* of it, a row of p is tombstoned only by that one, and a row that it was
\* checked against is still there when it is applied.
Farewell(w, wk, row, dead, p, e) ==
    /\ Sent(w, e) # {} \/ Taken(wk, e) => dead
    /\ \A i, j \in Sent(w, e) : i = j
    /\ Taken(wk, e) => Sent(w, e) = {}
    /\ Taken(wk, e) /\ wk.stage = "authorized" => row # NoRow /\ row.pin = p
    /\ row # NoRow /\ row.tombstoned /\ row.pin = p =>
          dead /\ Sent(w, e) = {} /\ ~Taken(wk, e)

\* An entity whose deregistration was announced is not registered any more, and
\* no other deregistration is owed.
GoneForGood ==
    \A p \in Registry, e \in Entity : e \in tombstones[p] =>
        /\ entities[p][e] = NoRow
        /\ \A i \in todo[p] : ~(i.action = "deregister" /\ i.entity = e)

Farewells ==
    \A p, r \in Registry, e \in Entity :
        Farewell(wire[p][r], work[r][p], gossip[r][e], e \in tombstones[p], p, e)

CauseInv == GoneForGood /\ Farewells

\* A message that deregisters nothing leaves the others where they are.
LEMMA SentAppended ==
    ASSUME NEW w \in Seq(Announcement), NEW x \in Announcement, NEW e
    PROVE  /\ ~Ends(x, e) => Sent(Append(w, x), e) = Sent(w, e)
           /\ Sent(w, e) = {} => \A i, j \in Sent(Append(w, x), e) : i = j
<1>1. /\ Len(Append(w, x)) = Len(w) + 1 /\ Append(w, x)[Len(w) + 1] = x
      /\ \A i \in 1..Len(w) : Append(w, x)[i] = w[i]
  OBVIOUS
<1>2. Len(w) \in Nat
  OBVIOUS
<1>3. \A i \in 1..(Len(w) + 1) : i \in 1..Len(w) \/ i = Len(w) + 1
  BY <1>2
<1>4. \A i : i \in Sent(Append(w, x), e) =>
              i \in Sent(w, e) \/ (i = Len(w) + 1 /\ Ends(x, e))
  BY <1>1, <1>3 DEF Sent
<1>5. \A i : i \in Sent(w, e) => i \in Sent(Append(w, x), e)
  BY <1>1, <1>2 DEF Sent
<1>6. ~Ends(x, e) => Sent(Append(w, x), e) = Sent(w, e)
  <2>1. ~Ends(x, e) => \A i : i \in Sent(Append(w, x), e) <=> i \in Sent(w, e)
    BY <1>4, <1>5
  <2> QED BY <2>1
<1>7. Sent(w, e) = {} => \A i, j \in Sent(Append(w, x), e) : i = j
  <2>1. Sent(w, e) = {} => \A i \in Sent(Append(w, x), e) : i = Len(w) + 1
    BY <1>4
  <2> QED BY <2>1
<1> QED BY <1>6, <1>7

\* Of a wire whose first message is taken.
LEMMA SentTaken ==
    ASSUME NEW w \in Seq(Announcement), w # << >>, NEW e,
           \A i, j \in Sent(w, e) : i = j
    PROVE  /\ \A i, j \in Sent(Tail(w), e) : i = j
           /\ Sent(w, e) = {} => Sent(Tail(w), e) = {}
           /\ Ends(Head(w), e) => Sent(w, e) # {} /\ Sent(Tail(w), e) = {}
<1>1. /\ Head(w) = w[1] /\ 1 \in 1..Len(w)
      /\ \A i \in 1..Len(Tail(w)) : i + 1 \in 1..Len(w) /\ Tail(w)[i] = w[i + 1]
  BY TailElements
<1>2. \A i \in Sent(Tail(w), e) : i \in Nat \ {0} /\ i + 1 \in Sent(w, e)
  BY <1>1 DEF Sent
<1>3. Ends(Head(w), e) => 1 \in Sent(w, e)
  BY <1>1 DEF Sent
<1> QED BY <1>2, <1>3

\* A wire that is emptied.
LEMMA SentNothing == \A e : Sent(<< >>, e) = {}
  BY DEF Sent

\* What a step may do to the row: it keeps its pin and its tombstone until it is
\* collected, and only what deregisters tombstones it.
LEMMA StoredPins ==
    ASSUME NEW row \in GossipRow \cup {NoRow}, NEW x \in Announcement
    PROVE  /\ row # NoRow => Stored(row, x) # NoRow /\ Stored(row, x).pin = row.pin
           /\ Stored(row, x) # NoRow /\ Stored(row, x).tombstoned /\ x.action # "deregister"
              => row # NoRow /\ row.tombstoned
<1>1. CASE row = NoRow
  <2>1. CASE x.action \in {"register", "update"}
    BY <1>1, <2>1 DEF Stored, UpsertGossipEntry
  <2>2. CASE x.action \notin {"register", "update"}
    BY <1>1, <2>2 DEF Stored, TombstoneGossipEntry, UpdateGossipEntryStatus
  <2> QED BY <2>1, <2>2
<1>2. CASE row # NoRow
  <2>0. row \in GossipRow
    BY <1>2
  <2>1. CASE x.action \in {"register", "update"}
    <3>1. Stored(row, x) = [row EXCEPT !.ver = x.ver, !.status = "active"]
      BY <1>2, <2>1 DEF Stored, UpsertGossipEntry
    <3>2. /\ Stored(row, x) \in GossipRow /\ Stored(row, x).pin = row.pin
          /\ Stored(row, x).tombstoned = row.tombstoned
      BY <2>0, <3>1 DEF GossipRow, Announcement, Status
    <3> QED BY <1>2, <3>2, NullAssumption
  <2>2. CASE x.action = "deregister"
    <3>1. Stored(row, x) = [row EXCEPT !.tombstoned = TRUE]
      BY <1>2, <2>2 DEF Stored, TombstoneGossipEntry
    <3>2. Stored(row, x) \in GossipRow /\ Stored(row, x).pin = row.pin
      BY <2>0, <3>1 DEF GossipRow
    <3> QED BY <2>2, <3>2, NullAssumption
  <2>3. CASE x.action \notin {"register", "update", "deregister"}
    <3>1. Stored(row, x) = [row EXCEPT !.status = x.status]
      BY <1>2, <2>3 DEF Stored, UpdateGossipEntryStatus
    <3>2. /\ Stored(row, x) \in GossipRow /\ Stored(row, x).pin = row.pin
          /\ Stored(row, x).tombstoned = row.tombstoned
      BY <2>0, <3>1 DEF GossipRow, Announcement
    <3> QED BY <1>2, <3>2, NullAssumption
  <2> QED BY <2>1, <2>2, <2>3
<1> QED BY <1>1, <1>2

\* A commit: only what a request owes and the home's row change.
LEMMA GoneStep ==
    ASSUME Sequential, ~Reregisters, TypeOK, SearchInv, GoneForGood, [Next]_vars
    PROVE  GoneForGood'
<1>0. OwedOnce /\ OwedMatches
  BY DEF SearchInv
<1>t. /\ todo \in [Registry -> SUBSET Item]
      /\ entities \in [Registry -> [Entity -> EntityRow \cup {NoRow}]]
      /\ tombstones \in [Registry -> SUBSET Entity]
  BY DEF TypeOK
<1>1. ASSUME NEW r \in Registry, NEW e \in Entity, NEW row, NEW act, NEW st, NEW v,
             e \notin tombstones[r], Owe(r, e, act, st, v),
             entities' = [entities EXCEPT ![r][e] = row], tombstones' = tombstones
      PROVE  GoneForGood'
  <2> DEFINE item == [entity |-> e, action |-> act, status |-> st, ver |-> v]
  <2>1. \A s \in Registry : todo'[s] = IF s = r THEN todo[s] \cup {item} ELSE todo[s]
    BY <1>1, <1>t DEF Owe
  <2>2. item.entity = e
    OBVIOUS
  <2>3. \A s \in Registry, f \in Entity :
          ~(s = r /\ f = e) => entities'[s][f] = entities[s][f]
    BY <1>1, <1>t
  <2> HIDE DEF item
  <2> SUFFICES ASSUME NEW s \in Registry, NEW f \in Entity, f \in tombstones'[s]
               PROVE  /\ entities'[s][f] = NoRow
                      /\ \A i \in todo'[s] : ~(i.action = "deregister" /\ i.entity = f)
    BY DEF GoneForGood
  <2>4. f \in tombstones[s] /\ ~(s = r /\ f = e)
    BY <1>1
  <2>5. /\ entities[s][f] = NoRow
        /\ \A i \in todo[s] : ~(i.action = "deregister" /\ i.entity = f)
    BY <2>4 DEF GoneForGood
  <2>6. \A i \in todo'[s] : i \in todo[s] \/ (s = r /\ i = item)
    BY <2>1
  <2> QED BY <2>2, <2>3, <2>4, <2>5, <2>6
<1>2. ASSUME NEW r \in Registry, NEW e \in Entity, NEW v \in Version,
             RegisterEntity(r, e, v)
      PROVE  GoneForGood'
  BY <1>1, <1>2 DEF RegisterEntity
<1>3. ASSUME NEW r \in Registry, NEW e \in Entity, entities[r][e] # NoRow
      PROVE  e \notin tombstones[r]
  BY <1>3 DEF GoneForGood
<1>4. ASSUME NEW r \in Registry, NEW e \in Entity, NEW v \in Version,
             UpdateEntity(r, e, v)
      PROVE  GoneForGood'
  <2>1. entities' = [entities EXCEPT ![r][e] = [entities[r][e] EXCEPT !.ver = v]]
    BY <1>4 DEF UpdateEntity
  <2>2. e \notin tombstones[r] /\ Owe(r, e, "update", "active", v) /\ tombstones' = tombstones
    BY <1>3, <1>4 DEF UpdateEntity
  <2> QED BY <1>1, <2>1, <2>2
<1>5. ASSUME NEW r \in Registry, NEW e \in Entity, DeleteEntity(r, e)
      PROVE  GoneForGood'
  <2>1. entities' = [entities EXCEPT ![r][e] = NoRow]
    BY <1>5 DEF DeleteEntity
  <2>2. /\ e \notin tombstones[r] /\ tombstones' = tombstones
        /\ Owe(r, e, "deregister", "active", entities[r][e].ver)
    BY <1>3, <1>5 DEF DeleteEntity
  <2> QED BY <1>1, <2>1, <2>2
<1>6. ASSUME NEW r \in Registry, NEW item \in todo[r], Announce(r, item)
      PROVE  GoneForGood'
  <2>1. item \in Item /\ item.entity \in Entity
    BY <1>t DEF Item
  <2>2. \A s \in Registry : todo'[s] = IF s = r THEN todo[s] \ {item} ELSE todo[s]
    BY <1>6, <1>t DEF Announce
  <2>3. \A s \in Registry, f \in Entity : f \in tombstones'[s] =>
          \/ f \in tombstones[s]
          \/ s = r /\ f = item.entity /\ item.action = "deregister"
    BY <1>6, <1>t DEF Announce
  <2>4. entities' = entities
    BY <1>6 DEF Announce
  <2> SUFFICES ASSUME NEW s \in Registry, NEW f \in Entity, f \in tombstones'[s]
               PROVE  /\ entities[s][f] = NoRow
                      /\ \A i \in todo'[s] : ~(i.action = "deregister" /\ i.entity = f)
    BY <2>4 DEF GoneForGood
  <2>5. CASE f \in tombstones[s]
    BY <2>2, <2>5 DEF GoneForGood
  <2>6. CASE s = r /\ f = item.entity /\ item.action = "deregister"
    BY <1>0, <2>2, <2>6 DEF OwedOnce, OwedMatches
  <2> QED BY <2>3, <2>5, <2>6
<1>7. ASSUME entities' = entities, tombstones' = tombstones,
             \A s \in Registry : todo'[s] \subseteq todo[s]
      PROVE  GoneForGood'
  BY <1>7 DEF GoneForGood
<1>8. ASSUME NEW r \in Registry, Restart(r) PROVE GoneForGood'
  BY <1>7, <1>8, <1>t DEF Restart
<1>9. ASSUME NEW r \in Registry, NEW p \in Registry,
             Handle(r, p) \/ Disconnect(r, p) \/ Reconnect(r, p)
      PROVE  GoneForGood'
  BY <1>7, <1>9 DEF Handle, Accept, Discard, Mark, Authorize, Reject, Apply,
                    Disconnect, Reconnect
<1>10. ASSUME NEW r \in Registry, CleanDedup(r) \/ CollectTombstones(r) PROVE GoneForGood'
  BY <1>7, <1>10 DEF CleanDedup, CollectTombstones
<1>11. CASE Tick \/ UNCHANGED vars
  BY <1>7, <1>11 DEF Tick, vars
<1> QED BY <1>2, <1>4, <1>5, <1>6, <1>8, <1>9, <1>10, <1>11 DEF Next, Client, MeshNext

\* Every step keeps Farewells.
LEMMA FarewellStep ==
    ASSUME Sequential, ~Reregisters, DirectInv, SearchInv, CauseInv, [Next]_vars
    PROVE  Farewells'
<1>t. /\ TypeOK
      /\ wire \in [Registry -> [Registry -> Seq(Announcement)]]
      /\ work \in [Registry -> [Registry -> Worker \cup {Idle}]]
      /\ gossip \in [Registry -> [Entity -> GossipRow \cup {NoRow}]]
      /\ tombstones \in [Registry -> SUBSET Entity]
  BY DEF DirectInv, TypeOK
<1>0. Farewells /\ GoneForGood
  BY DEF CauseInv
<1>1. ASSUME UNCHANGED <<wire, work, gossip, tombstones>> PROVE Farewells'
  BY <1>0, <1>1 DEF Farewells
<1>2. CASE Client
  BY <1>1, <1>2 DEF Client, RegisterEntity, UpdateEntity, DeleteEntity
<1>3. ASSUME NEW r \in Registry, NEW item \in todo[r], Announce(r, item)
      PROVE  Farewells'
  <2> DEFINE x == CreateAnnouncement(r, item)
  <2>1. item \in Item /\ item.entity \in Entity
    BY <1>t DEF TypeOK, Item
  <2>2. x \in Announcement
    BY <1>t, <2>1, CreateType DEF TypeOK
  <2>3. \A e : Ends(x, e) => item.action = "deregister" /\ item.entity = e
    BY DEF Ends, CreateAnnouncement
  <2>4. work' = work /\ gossip' = gossip /\ wire' = Send(wire, r, x, conns[r])
    BY <1>3 DEF Announce
  <2> HIDE DEF x
  <2>5. \A s \in Registry : tombstones'[s] =
          IF s = r /\ item.action = "deregister"
            THEN tombstones[s] \cup {item.entity} ELSE tombstones[s]
    BY <1>3, <1>t DEF Announce
  <2> SUFFICES ASSUME NEW p \in Registry, NEW q \in Registry, NEW e \in Entity
               PROVE  Farewell(wire'[p][q], work[q][p], gossip[q][e],
                               e \in tombstones'[p], p, e)
    BY <2>4 DEF Farewells
  <2>6. Farewell(wire[p][q], work[q][p], gossip[q][e], e \in tombstones[p], p, e)
    BY <1>0 DEF Farewells
  <2>7. wire'[p][q] = IF p = r /\ q \in conns[r] THEN Append(wire[p][q], x)
                                                ELSE wire[p][q]
    BY <1>t, <2>4 DEF Send
  <2>8. wire[p][q] \in Seq(Announcement)
    BY <1>t
  <2>9. CASE p = r /\ item.action = "deregister" /\ item.entity = e
    <3>1. e \notin tombstones[p] /\ e \in tombstones'[p]
      BY <1>0, <2>5, <2>9 DEF GoneForGood
    <3>2. /\ Sent(wire[p][q], e) = {} /\ ~Taken(work[q][p], e)
          /\ ~(gossip[q][e] # NoRow /\ gossip[q][e].tombstoned /\ gossip[q][e].pin = p)
      BY <2>6, <3>1 DEF Farewell
    <3>3. \A i, j \in Sent(wire'[p][q], e) : i = j
      BY <2>2, <2>7, <2>8, <3>2, SentAppended
    <3> QED BY <3>1, <3>2, <3>3 DEF Farewell
  <2>10. CASE ~(p = r /\ item.action = "deregister" /\ item.entity = e)
    <3>1. e \in tombstones'[p] <=> e \in tombstones[p]
      BY <2>5, <2>10
    <3>2. Sent(wire'[p][q], e) = Sent(wire[p][q], e)
      <4>1. CASE p = r /\ q \in conns[r]
        <5>1. ~Ends(x, e)
          BY <2>3, <2>10, <4>1
        <5> QED BY <2>2, <2>7, <2>8, <4>1, <5>1, SentAppended
      <4>2. CASE ~(p = r /\ q \in conns[r])
        BY <2>7, <4>2
      <4> QED BY <4>1, <4>2
    <3> QED BY <2>6, <3>1, <3>2 DEF Farewell
  <2> QED BY <2>9, <2>10
<1>4. ASSUME NEW r \in Registry, NEW p \in Registry, Accept(r, p) \/ Discard(r, p)
      PROVE  Farewells'
  <2> DEFINE w == wire[p][r]
  <2>1. /\ w \in Seq(Announcement) /\ w # << >> /\ work[r][p] = Idle
        /\ gossip' = gossip /\ tombstones' = tombstones
        /\ wire' = [wire EXCEPT ![p][r] = Tail(w)]
    BY <1>4, <1>t DEF Accept, Discard
  <2>2. PICK wk : /\ work' = [work EXCEPT ![r][p] = wk]
                  /\ wk = Idle \/ wk = [stage |-> "unmarked", ann |-> Head(w)]
    <3>1. CASE Accept(r, p)
      BY <3>1 DEF Accept
    <3>2. CASE Discard(r, p)
      <4>1. work' = [work EXCEPT ![r][p] = Idle]
        BY <2>1, <3>2, <1>t DEF Discard
      <4> QED BY <4>1
    <3> QED BY <1>4, <3>1, <3>2
  <2>3. \A e : /\ Taken(wk, e) => Ends(Head(w), e) /\ wk.stage # "authorized"
               /\ ~Taken(work[r][p], e)
    BY <2>1, <2>2 DEF Taken
  <2> HIDE DEF w
  <2> SUFFICES ASSUME NEW s \in Registry, NEW q \in Registry, NEW e \in Entity
               PROVE  Farewell(wire'[s][q], work'[q][s], gossip[q][e],
                               e \in tombstones[s], s, e)
    BY <2>1 DEF Farewells
  <2>4. Farewell(wire[s][q], work[q][s], gossip[q][e], e \in tombstones[s], s, e)
    BY <1>0 DEF Farewells
  <2>5. CASE s = p /\ q = r
    <3>1. wire'[s][q] = Tail(w) /\ wire[s][q] = w /\ work'[q][s] = wk
      BY <1>t, <2>1, <2>2, <2>5 DEF w
    <3>2. Farewell(w, work[r][p], gossip[q][e], e \in tombstones[s], s, e)
      BY <2>4, <2>5, <3>1
    <3>3. \A i, j \in Sent(w, e) : i = j
      BY <3>2 DEF Farewell
    <3>4. /\ \A i, j \in Sent(Tail(w), e) : i = j
          /\ Sent(w, e) = {} => Sent(Tail(w), e) = {}
          /\ Ends(Head(w), e) => Sent(w, e) # {} /\ Sent(Tail(w), e) = {}
      BY <2>1, <3>3, SentTaken
    <3>5. Farewell(Tail(w), wk, gossip[q][e], e \in tombstones[s], s, e)
      BY <2>3, <3>2, <3>4 DEF Farewell
    <3> QED BY <3>1, <3>5
  <2>6. CASE ~(s = p /\ q = r)
    <3>1. wire'[s][q] = wire[s][q] /\ work'[q][s] = work[q][s]
      BY <1>t, <2>1, <2>2, <2>6
    <3> QED BY <2>4, <3>1
  <2> QED BY <2>5, <2>6
<1>5. ASSUME NEW r \in Registry, NEW p \in Registry,
             Mark(r, p) \/ Authorize(r, p) \/ Reject(r, p)
      PROVE  Farewells'
  <2> DEFINE old == work[r][p]
  <2>1. /\ old \in Worker /\ old # Idle
        /\ wire' = wire /\ gossip' = gossip /\ tombstones' = tombstones
    BY <1>5, <1>t DEF Mark, Authorize, Reject
  <2>2. PICK wk : work' = [work EXCEPT ![r][p] = wk] /\
                  \/ wk = Idle
                  \/ wk = [old EXCEPT !.stage = "marked"]
                  \/ /\ wk = [old EXCEPT !.stage = "authorized"]
                     /\ Authorized(gossip[r][old.ann.entity], old.ann)
    <3>1. CASE Mark(r, p)
      <4>1. work' = [work EXCEPT ![r][p] = [old EXCEPT !.stage = "marked"]]
        BY <3>1 DEF Mark
      <4> QED BY <4>1
    <3>2. CASE Authorize(r, p)
      <4>1. work' = [work EXCEPT ![r][p] = [old EXCEPT !.stage = "authorized"]]
        BY <3>2 DEF Authorize
      <4>2. Authorized(gossip[r][old.ann.entity], old.ann)
        BY <3>2 DEF Authorize
      <4> QED BY <4>1, <4>2
    <3>3. CASE Reject(r, p)
      BY <3>3 DEF Reject
    <3> QED BY <1>5, <3>1, <3>2, <3>3
  <2>3. wk # Idle => wk.ann = old.ann
    BY <2>1, <2>2 DEF Worker
  <2>4. wk # Idle /\ wk.stage = "authorized" =>
          Authorized(gossip[r][old.ann.entity], old.ann)
    BY <2>1, <2>2 DEF Worker
  <2>5. Verifies(old.ann) => old.ann.origin = p
    BY <2>1 DEF DirectInv, WorkIsDirect, SentBy
  <2>6. ASSUME NEW e \in Entity, Taken(wk, e), wk.stage = "authorized"
        PROVE  gossip[r][e] # NoRow /\ gossip[r][e].pin = p
    <3>1. /\ old.ann.entity = e /\ old.ann.action = "deregister"
          /\ old.ann.origin = p
      BY <2>3, <2>5, <2>6 DEF Taken, Ends
    <3>2. VerifyOriginAuthorization(gossip[r][e], p, TRUE)
      BY <2>4, <2>6, <3>1 DEF Authorized, Taken
    <3> QED BY <3>2 DEF VerifyOriginAuthorization
  <2>7. \A e : Taken(wk, e) => Taken(old, e)
    BY <2>1, <2>3 DEF Taken
  <2> SUFFICES ASSUME NEW s \in Registry, NEW q \in Registry, NEW e \in Entity
               PROVE  Farewell(wire[s][q], work'[q][s], gossip[q][e],
                               e \in tombstones[s], s, e)
    BY <2>1 DEF Farewells
  <2>8. Farewell(wire[s][q], work[q][s], gossip[q][e], e \in tombstones[s], s, e)
    BY <1>0 DEF Farewells
  <2>9. CASE s = p /\ q = r
    <3>1. work'[q][s] = wk
      BY <1>t, <2>2, <2>9
    <3>2. Taken(wk, e) => Taken(work[q][s], e)
      BY <2>7, <2>9
    <3>3. Taken(wk, e) /\ wk.stage = "authorized"
            => gossip[q][e] # NoRow /\ gossip[q][e].pin = s
      BY <2>6, <2>9
    <3>4. Farewell(wire[s][q], wk, gossip[q][e], e \in tombstones[s], s, e)
      BY <2>8, <3>2, <3>3 DEF Farewell
    <3> QED BY <3>1, <3>4
  <2>10. CASE ~(s = p /\ q = r)
    <3>1. work'[q][s] = work[q][s]
      BY <1>t, <2>2, <2>10
    <3> QED BY <2>8, <3>1
  <2> QED BY <2>9, <2>10
<1>6. ASSUME NEW r \in Registry, NEW p \in Registry, Apply(r, p) PROVE Farewells'
  <2> DEFINE a == work[r][p].ann
             x == Forwarded(a)
  <2>1. /\ work[r][p] \in Worker /\ work[r][p] # Idle /\ tombstones' = tombstones
        /\ a \in Announcement /\ a.entity \in Entity /\ work[r][p].stage = "authorized"
    BY <1>6, <1>t DEF Apply, Worker, Announcement
  <2>2. /\ wire' = Send(wire, r, x, conns[r] \ {p})
        /\ work' = [work EXCEPT ![r][p] = Idle]
        /\ gossip' = [gossip EXCEPT ![r][a.entity] = Stored(gossip[r][a.entity], a)]
    BY <1>6 DEF Apply
  <2>3. Verifies(a)
    BY <2>1 DEF DirectInv, WorkIsDirect
  <2>4. x \in Announcement /\ \A e : ~Ends(x, e)
    BY <2>1, <2>3 DEF Forwarded, Announcement, Ends, Verifies
  <2>5. \A e \in Entity : Taken(work[r][p], e) <=> a.action = "deregister" /\ a.entity = e
    BY <2>1, <2>3 DEF Taken, Ends
  <2> HIDE DEF a, x
  <2> SUFFICES ASSUME NEW s \in Registry, NEW q \in Registry, NEW e \in Entity
               PROVE  Farewell(wire'[s][q], work'[q][s], gossip'[q][e],
                               e \in tombstones[s], s, e)
    BY <2>1 DEF Farewells
  <2>6. Farewell(wire[s][q], work[q][s], gossip[q][e], e \in tombstones[s], s, e)
    BY <1>0 DEF Farewells
  <2>7. Sent(wire'[s][q], e) = Sent(wire[s][q], e)
    <3>1. wire'[s][q] = IF s = r /\ q \in conns[r] \ {p} THEN Append(wire[s][q], x)
                                                        ELSE wire[s][q]
      BY <1>t, <2>2 DEF Send
    <3>2. wire[s][q] \in Seq(Announcement)
      BY <1>t
    <3> QED BY <2>4, <3>1, <3>2, SentAppended
  <2>8. work'[q][s] = IF s = p /\ q = r THEN Idle ELSE work[q][s]
    BY <1>t, <2>2
  <2>9. gossip'[q][e] = IF q = r /\ e = a.entity THEN Stored(gossip[q][e], a)
                                                 ELSE gossip[q][e]
    BY <1>t, <2>2
  <2>10. ~Taken(Idle, e)
    BY DEF Taken
  <2>11. CASE ~(q = r /\ e = a.entity)
    BY <2>6, <2>7, <2>8, <2>9, <2>10, <2>11 DEF Farewell
  <2>12. CASE q = r /\ e = a.entity
    <3> DEFINE row == gossip[q][e]
               new == Stored(row, a)
    <3>0. gossip'[q][e] = new
      BY <2>9, <2>12
    <3>1. row \in GossipRow \cup {NoRow}
      BY <1>t
    <3>2. /\ row # NoRow => new # NoRow /\ new.pin = row.pin
          /\ new # NoRow /\ new.tombstoned /\ a.action # "deregister"
             => row # NoRow /\ row.tombstoned
      BY <2>1, <3>1, StoredPins
    <3>3. Farewell(wire[p][r], work[r][p], row, e \in tombstones[p], p, e)
      BY <1>0, <2>12 DEF Farewells
    <3>4. a.action = "deregister" =>
            row # NoRow /\ row.pin = p /\ e \in tombstones[p] /\ Sent(wire[p][r], e) = {}
      BY <2>1, <2>5, <2>12, <3>3 DEF Farewell
    <3> HIDE DEF row, new
    <3>5. CASE s = p
      BY <2>6, <2>7, <2>8, <2>10, <2>12, <3>0, <3>2, <3>4, <3>5 DEF Farewell, row
    <3>6. CASE s # p
      BY <2>6, <2>7, <2>8, <2>12, <3>0, <3>2, <3>4, <3>6 DEF Farewell, row
    <3> QED BY <3>5, <3>6
  <2> QED BY <2>11, <2>12
<1>7. ASSUME NEW r \in Registry, CollectTombstones(r) PROVE Farewells'
  <2>1. wire' = wire /\ work' = work /\ tombstones' = tombstones
    BY <1>7 DEF CollectTombstones
  <2> SUFFICES ASSUME NEW s \in Registry, NEW q \in Registry, NEW e \in Entity
               PROVE  Farewell(wire[s][q], work[q][s], gossip'[q][e],
                               e \in tombstones[s], s, e)
    BY <2>1 DEF Farewells
  <2>2. Farewell(wire[s][q], work[q][s], gossip[q][e], e \in tombstones[s], s, e)
    BY <1>0 DEF Farewells
  <2>3. \/ gossip'[q][e] = gossip[q][e]
        \/ gossip'[q][e] = NoRow /\ gossip[q][e] # NoRow /\ gossip[q][e].tombstoned
    BY <1>7, <1>t DEF CollectTombstones
  <2> QED BY <2>2, <2>3 DEF Farewell
<1>8. ASSUME gossip' = gossip, tombstones' = tombstones,
             \A s, q \in Registry : wire'[s][q] \in {wire[s][q], << >>}
                                    /\ work'[q][s] \in {work[q][s], Idle}
      PROVE  Farewells'
  <2> SUFFICES ASSUME NEW s \in Registry, NEW q \in Registry, NEW e \in Entity
               PROVE  Farewell(wire'[s][q], work'[q][s], gossip[q][e],
                               e \in tombstones[s], s, e)
    BY <1>8 DEF Farewells
  <2>1. Farewell(wire[s][q], work[q][s], gossip[q][e], e \in tombstones[s], s, e)
    BY <1>0 DEF Farewells
  <2>2. Sent(wire'[s][q], e) \in {Sent(wire[s][q], e), {}}
    BY <1>8, SentNothing
  <2>3. work'[q][s] = work[q][s] \/ ~Taken(work'[q][s], e)
    BY <1>8 DEF Taken
  <2> QED BY <2>1, <2>2, <2>3 DEF Farewell
<1>9. ASSUME NEW r \in Registry, NEW p \in Registry, Disconnect(r, p) PROVE Farewells'
  BY <1>8, <1>9, <1>t DEF Disconnect
<1>10. ASSUME NEW r \in Registry, Restart(r) PROVE Farewells'
  BY <1>8, <1>10, <1>t DEF Restart
<1>11. ASSUME NEW r \in Registry, NEW p \in Registry, Reconnect(r, p) PROVE Farewells'
  BY <1>1, <1>11 DEF Reconnect
<1>12. ASSUME NEW r \in Registry, CleanDedup(r) PROVE Farewells'
  BY <1>1, <1>12 DEF CleanDedup
<1>13. CASE Tick \/ UNCHANGED vars
  BY <1>1, <1>13 DEF Tick, vars
<1> QED BY <1>2, <1>3, <1>4, <1>5, <1>6, <1>7, <1>9, <1>10, <1>11, <1>12, <1>13
        DEF Next, MeshNext, Handle

\* A peer's row is tombstoned only after the registry that it is pinned to has
\* deregistered the entity, whatever the mesh, the faults, the collections and
\* the restarts, when clients wait for their answers and no entity is registered
\* again.
THEOREM TombstonesStayCaused ==
    ASSUME Sequential, ~Reregisters PROVE Spec => []TombstonesHaveCause
<1>1. Init => SearchInv
  BY DEF Init, SearchInv, OwedOnce, OwedMatches, IndexCovers
<1>2. TypeOK /\ SearchInv /\ [Next]_vars => SearchInv'
  BY SearchStep
<1>3. Init => CauseInv
  BY SentNothing DEF Init, CauseInv, GoneForGood, Farewells, Farewell, Taken
<1>4. TypeOK /\ DirectInv /\ SearchInv /\ CauseInv /\ [Next]_vars => CauseInv'
  <2> SUFFICES ASSUME TypeOK, DirectInv, SearchInv, CauseInv, [Next]_vars
               PROVE  CauseInv'
    OBVIOUS
  <2>1. GoneForGood
    BY DEF CauseInv
  <2>2. GoneForGood'
    BY <2>1, GoneStep
  <2>3. Farewells'
    BY FarewellStep
  <2> QED BY <2>2, <2>3 DEF CauseInv
<1>5. TypeOK /\ CauseInv => TombstonesHaveCause
  <2> SUFFICES ASSUME TypeOK, CauseInv, NEW r \in Registry, NEW e \in Entity,
                      gossip[r][e] # NoRow, gossip[r][e].tombstoned
               PROVE  e \in tombstones[gossip[r][e].pin]
    BY DEF TombstonesHaveCause
  <2> DEFINE p == gossip[r][e].pin
  <2>1. gossip[r][e] \in GossipRow
    BY DEF TypeOK
  <2>2. p \in Registry
    BY <2>1 DEF GossipRow
  <2>3. Farewell(wire[p][r], work[r][p], gossip[r][e], e \in tombstones[p], p, e)
    BY <2>2 DEF CauseInv, Farewells
  <2> QED BY <2>3 DEF Farewell
<1>6. QED
  BY <1>1, <1>2, <1>3, <1>4, <1>5, TypeCorrect, DirectCorrect, PTL DEF Spec

-----------------------------------------------------------------------------
(***************************************************************************)
(* What a peer shows when nothing is under way.                            *)
(***************************************************************************)

\* The announcements about e on a wire, and the one that a read loop holds.
OnWire(w, e) == {w[i] : i \in {k \in 1..Len(w) : w[k].entity = e}}
InHand(wk, e) == IF wk # Idle THEN {a \in {wk.ann} : a.entity = e} ELSE {}

\* What handlers still owe about e, and the timestamps of e in a dedup map.
Owed(items, e) == {i \in items : i.entity = e}
KeyTimes(keys, e) == {s[2] : s \in {k \in keys : k[1] = e}}

\* Nothing about e is under way from its home h to the peer r.
NothingDue(h, r, e) ==
    /\ Owed(todo[h], e) = {}
    /\ OnWire(wire[h][r], e) = {} /\ InHand(work[r][h], e) = {}

\* As long as no connection was lost and no registry restarted, a peer that has
\* nothing to learn about an entity any more shows what its only home has: no
\* announcement was dropped as a duplicate, refused, or overtaken by an older one.
QuietPeersAgree ==
    \A e \in Entity : \A h, r \in Registry :
        Homes[e] = {h} /\ r \in Mesh[h] /\ faults = 0 /\ NothingDue(h, r, e)
            => Agrees(h, r, e)

\* An item or announcement x that says what a row of entities says, and a gossip
\* row g that shows it.
Tells(x, row) ==
    IF row = NoRow THEN x.action = "deregister"
    ELSE x.action \in {"register", "update"} /\ x.ver = row.ver

Shows(g, row) ==
    IF row = NoRow THEN ~(g # NoRow /\ ~g.tombstoned)
    ELSE g # NoRow /\ ~g.tombstoned /\ g.ver = row.ver

\* Of the announcements U that are under way the latest tells the row of the
\* home, or else the item that the home owes does; a deregistration is the last
\* of all; and when there are none the peer's row g shows it.
Contents(U, items, row, dead, g) ==
    /\ \A i \in items : items = {i} /\ Tells(i, row)
    /\ items = {} => \A x \in U : (\A y \in U : y.ts <= x.ts) => Tells(x, row)
    /\ dead => row = NoRow /\ items = {}
    /\ \A x \in U : x.action = "deregister" => dead /\ \A y \in U : y.ts <= x.ts
    /\ g # NoRow /\ g.tombstoned => dead /\ U = {}
    /\ items = {} /\ U = {} => Shows(g, row)

\* The announcements M on the wire, that in hand, B, and the keys Tr of the peer
\* have different timestamps, none later than the clock, and one of now only when
\* the home, with keys Th, has announced now, which it has not while it owes. The
\* announcements on the wire are signed as they are.
Stamps(M, B, items, Th, Tr, now) ==
    /\ \A x \in M \cup B : x.ts <= now /\ (x.ts = now => now \in Th)
    /\ \A x \in M : x.ts \notin Tr /\ x.hop = 0 /\ x.signedHop = 0
    /\ \A x \in M, y \in B : y.ts < x.ts
    /\ \A t \in Tr : t <= now /\ (t = now => now \in Th)
    /\ \A t \in Th : t <= now
    /\ items # {} => now \notin Th

\* A wire has the announcements about e in the order of their timestamps.
InOrder(w, e) ==
    \A i, j \in 1..Len(w) :
        i < j /\ w[i].entity = e /\ w[j].entity = e => w[i].ts < w[j].ts

\* The keys of e were put into a dedup map in the second of their timestamps.
OwnTimes(keys, e) == \A s \in keys : s[1] = e => s[2] = s[3]

\* All of S are from before x.
Before(S, x) == \A y \in S : y.ts < x.ts

Kept(h, r, e) ==
    /\ InOrder(wire[h][r], e) /\ OwnTimes(seen[h], e)
    /\ Stamps(OnWire(wire[h][r], e), InHand(work[r][h], e), Owed(todo[h], e),
              KeyTimes(seen[h], e), KeyTimes(seen[r], e), clock)
    /\ Contents(OnWire(wire[h][r], e) \cup InHand(work[r][h], e), Owed(todo[h], e),
                entities[h][e], e \in tombstones[h], gossip[r][e])

AgreeInv ==
    faults = 0 =>
        /\ conns = Mesh
        /\ \A e \in Entity : \A h, r \in Registry :
               Homes[e] = {h} /\ r \in Mesh[h] => Kept(h, r, e)

\* A message is put on a wire.
LEMMA WireAppended ==
    ASSUME NEW w \in Seq(Announcement), NEW x \in Announcement, NEW e
    PROVE  /\ x.entity # e =>
                 /\ OnWire(Append(w, x), e) = OnWire(w, e)
                 /\ InOrder(w, e) => InOrder(Append(w, x), e)
           /\ x.entity = e =>
                 /\ OnWire(Append(w, x), e) = OnWire(w, e) \cup {x}
                 /\ InOrder(w, e) /\ Before(OnWire(w, e), x)
                       => InOrder(Append(w, x), e)
<1> DEFINE v == Append(w, x)
           n == Len(w)
<1>1. /\ n \in Nat /\ Len(v) = n + 1 /\ v[n + 1] = x
      /\ \A i \in 1..n : v[i] = w[i]
  OBVIOUS
<1>2. 1..(n + 1) = 1..n \cup {n + 1}
  BY <1>1
<1>3. \A i \in 1..Len(v) : (i \in 1..n /\ v[i] = w[i]) \/ (i = n + 1 /\ v[i] = x)
  BY <1>1, <1>2
<1>4. \A i \in 1..n : i \in 1..Len(v) /\ v[i] = w[i]
  BY <1>1, <1>2
<1>5. n + 1 \in 1..Len(v) /\ v[n + 1] = x
  BY <1>1, <1>2
<1>6. \A i, j \in 1..Len(v) : i < j => i \in 1..n
  BY <1>1
<1> HIDE DEF v, n
<1>7. ASSUME x.entity # e PROVE OnWire(v, e) = OnWire(w, e)
  BY <1>3, <1>4, <1>7 DEF OnWire, n
<1>8. ASSUME x.entity = e PROVE OnWire(v, e) = OnWire(w, e) \cup {x}
  BY <1>3, <1>4, <1>5, <1>8 DEF OnWire, n
<1>9. ASSUME x.entity # e, InOrder(w, e) PROVE InOrder(v, e)
  BY <1>3, <1>9 DEF InOrder, n
<1>10. ASSUME x.entity = e, InOrder(w, e), Before(OnWire(w, e), x)
       PROVE  InOrder(v, e)
  <2> SUFFICES ASSUME NEW i \in 1..Len(v), NEW j \in 1..Len(v), i < j,
                      v[i].entity = e, v[j].entity = e
               PROVE  v[i].ts < v[j].ts
    BY DEF InOrder
  <2>1. i \in 1..n /\ v[i] = w[i]
    BY <1>4, <1>6
  <2>2. w[i] \in OnWire(w, e)
    BY <2>1 DEF OnWire, n
  <2>3. CASE j \in 1..n /\ v[j] = w[j]
    BY <1>10, <2>1, <2>3 DEF InOrder, n
  <2>4. CASE v[j] = x
    BY <1>10, <2>1, <2>2, <2>4 DEF Before
  <2> QED BY <1>3, <2>3, <2>4
<1> QED BY <1>7, <1>8, <1>9, <1>10 DEF v

\* A message is taken off a wire.
LEMMA WireTaken ==
    ASSUME NEW w \in Seq(Announcement), w # << >>, NEW e, InOrder(w, e)
    PROVE  /\ Head(w) \in Announcement /\ Tail(w) \in Seq(Announcement)
           /\ InOrder(Tail(w), e)
           /\ OnWire(w, e) = OnWire(Tail(w), e) \cup {x \in {Head(w)} : x.entity = e}
           /\ Head(w).entity = e => \A y \in OnWire(Tail(w), e) : Head(w).ts < y.ts
<1> DEFINE v == Tail(w)
           n == Len(v)
<1>1. /\ n \in Nat /\ Len(w) = n + 1 /\ Head(w) = w[1] /\ Head(w) \in Announcement
      /\ v \in Seq(Announcement) /\ \A i \in 1..n : v[i] = w[i + 1]
  OBVIOUS
<1>2. \A i \in 1..n : i + 1 \in 1..Len(w) /\ v[i] = w[i + 1] /\ 1 < i + 1
  BY <1>1
<1>3. 1 \in 1..Len(w) /\ \A j \in 1..Len(w) : j = 1 \/ \E i \in 1..n : j = i + 1
  <2>1. ASSUME NEW j \in 1..Len(w), j # 1 PROVE j - 1 \in 1..n /\ j = (j - 1) + 1
    BY <1>1, <2>1
  <2> QED BY <1>1, <2>1
<1>4. \A i, j \in 1..n : i < j => i + 1 < j + 1
  BY <1>1
<1> HIDE DEF v, n
<1>5. InOrder(v, e)
  BY <1>2, <1>4 DEF InOrder, n
<1>6. ASSUME Head(w).entity = e, NEW y \in OnWire(v, e) PROVE Head(w).ts < y.ts
  <2>1. PICK i \in 1..n : v[i].entity = e /\ y = v[i]
    BY DEF OnWire, n
  <2> QED BY <1>1, <1>2, <1>3, <1>6, <2>1 DEF InOrder
<1>7. OnWire(w, e) \subseteq OnWire(v, e) \cup {x \in {Head(w)} : x.entity = e}
  <2> SUFFICES ASSUME NEW j \in 1..Len(w), w[j].entity = e
               PROVE  w[j] \in OnWire(v, e) \cup {x \in {Head(w)} : x.entity = e}
    BY DEF OnWire
  <2>1. CASE j = 1
    BY <1>1, <2>1
  <2>2. ASSUME NEW i \in 1..n, j = i + 1 PROVE w[j] \in OnWire(v, e)
    BY <1>2, <2>2 DEF OnWire, n
  <2> QED BY <1>3, <2>1, <2>2
<1>8. OnWire(v, e) \subseteq OnWire(w, e)
  <2> SUFFICES ASSUME NEW i \in 1..n, v[i].entity = e PROVE v[i] \in OnWire(w, e)
    BY DEF OnWire, n
  <2> QED BY <1>2 DEF OnWire
<1>9. {x \in {Head(w)} : x.entity = e} \subseteq OnWire(w, e)
  BY <1>1, <1>3 DEF OnWire
<1> QED BY <1>1, <1>5, <1>6, <1>7, <1>8, <1>9 DEF v

\* A request commits a row and owes its announcement.
LEMMA ContentsCommitted ==
    ASSUME NEW U, NEW row, NEW next, NEW dead, NEW g, NEW i,
           Contents(U, {}, row, dead, g), ~dead, Tells(i, next)
    PROVE  Contents(U, {i}, next, dead, g)
  BY DEF Contents

\* The handler announces what it owes, later than all that is under way.
LEMMA ContentsAnnounced ==
    ASSUME NEW U \in SUBSET Announcement, NEW i, NEW row, NEW dead \in BOOLEAN, NEW g,
           Contents(U, {i}, row, dead, g),
           NEW x \in Announcement, x.action = i.action, x.ver = i.ver,
           \A y \in U : y.ts < x.ts
    PROVE  Contents(U \cup {x}, {}, row, dead \/ i.action = "deregister", g)
<1>1. ~dead /\ Tells(i, row) /\ Tells(x, row)
  BY DEF Contents, Tells
<1>2. i.action = "deregister" => row = NoRow
  BY <1>1 DEF Tells
<1>3. \A y \in U \cup {x} : y.ts <= x.ts
  BY DEF Announcement, Time
<1>4. \A y \in U : ~(x.ts <= y.ts)
  BY DEF Announcement, Time
<1>5. \A y \in U : y.action # "deregister"
  BY <1>1 DEF Contents
<1>6. ~(g # NoRow /\ g.tombstoned)
  BY <1>1 DEF Contents
<1>7. U \cup {x} # {}
  OBVIOUS
<1> QED BY <1>1, <1>2, <1>3, <1>4, <1>5, <1>6, <1>7 DEF Contents

\* The read loop is done with b, which came before all that is on the wire.
LEMMA ContentsHandled ==
    ASSUME NEW M \in SUBSET Announcement, NEW b \in Announcement, NEW items, NEW row,
           NEW dead, NEW g, NEW next,
           Contents(M \cup {b}, items, row, dead, g),
           \A y \in M : b.ts < y.ts,
           next # NoRow /\ next.tombstoned =>
               (g # NoRow /\ g.tombstoned) \/ b.action = "deregister",
           Tells(b, row) => Shows(next, row)
    PROVE  Contents(M, items, row, dead, next)
<1>1. \A x \in M : (\A y \in M : y.ts <= x.ts) => \A y \in M \cup {b} : y.ts <= x.ts
  BY DEF Announcement, Time
<1>2. \A x \in M : ~(x.ts <= b.ts)
  BY DEF Announcement, Time
<1>3. M = {} => \A y \in M \cup {b} : y.ts <= b.ts
  BY DEF Announcement, Time
<1>4. b.action = "deregister" => dead /\ M = {}
  BY <1>2 DEF Contents
<1>5. next # NoRow /\ next.tombstoned => dead /\ M = {}
  BY <1>4 DEF Contents
<1>6. items = {} /\ M = {} => Shows(next, row)
  BY <1>3 DEF Contents
<1>7. \A x \in M : x.action = "deregister" => dead /\ \A y \in M : y.ts <= x.ts
  BY DEF Contents
<1>8. items = {} => \A x \in M : (\A y \in M : y.ts <= x.ts) => Tells(x, row)
  BY <1>1 DEF Contents
<1> QED BY <1>5, <1>6, <1>7, <1>8 DEF Contents

\* A tombstone is collected at the peer.
LEMMA ContentsCollected ==
    ASSUME NEW U, NEW items, NEW row, NEW dead, NEW g,
           Contents(U, items, row, dead, g), g # NoRow, g.tombstoned
    PROVE  Contents(U, items, row, dead, NoRow)
  BY DEF Contents, Shows

\* What the peer's row shows after an announcement of its home was applied.
LEMMA StoredShows ==
    ASSUME NEW g \in GossipRow \cup {NoRow}, NEW b \in Announcement, NEW row
    PROVE  /\ Stored(g, b) # NoRow /\ Stored(g, b).tombstoned =>
                 (g # NoRow /\ g.tombstoned) \/ b.action = "deregister"
           /\ ~(g # NoRow /\ g.tombstoned) /\ Tells(b, row) => Shows(Stored(g, b), row)
<1>1. CASE b.action \in {"register", "update"}
  <2>1. Stored(g, b) = UpsertGossipEntry(g, b)
    BY <1>1 DEF Stored
  <2>2. CASE g = NoRow
    <3>1. /\ Stored(g, b) \in GossipRow /\ Stored(g, b).ver = b.ver
          /\ Stored(g, b).tombstoned = FALSE
      BY <2>1, <2>2 DEF UpsertGossipEntry, GossipRow, Announcement, Status
    <3> QED BY <1>1, <3>1, NullAssumption DEF Tells, Shows
  <2>3. CASE g # NoRow
    <3>1. /\ Stored(g, b) \in GossipRow /\ Stored(g, b).ver = b.ver
          /\ Stored(g, b).tombstoned = g.tombstoned
      BY <2>1, <2>3 DEF UpsertGossipEntry, GossipRow, Announcement, Status
    <3> QED BY <1>1, <2>3, <3>1, NullAssumption DEF Tells, Shows
  <2> QED BY <2>2, <2>3
<1>2. CASE b.action = "deregister"
  <2>1. Stored(g, b) = TombstoneGossipEntry(g)
    BY <1>2 DEF Stored
  <2>2. Stored(g, b) = NoRow \/ Stored(g, b).tombstoned
    BY <2>1 DEF TombstoneGossipEntry, GossipRow
  <2> QED BY <1>2, <2>2 DEF Tells, Shows
<1>3. CASE b.action \notin {"register", "update", "deregister"}
  <2>1. Stored(g, b) = UpdateGossipEntryStatus(g, b.status)
    BY <1>3 DEF Stored
  <2>2. g # NoRow => g \in GossipRow /\ Stored(g, b).tombstoned = g.tombstoned
    BY <2>1 DEF UpdateGossipEntryStatus, GossipRow
  <2>3. g = NoRow => Stored(g, b) = NoRow
    BY <2>1 DEF UpdateGossipEntryStatus
  <2> QED BY <1>3, <2>2, <2>3 DEF Tells
<1> QED BY <1>1, <1>2, <1>3

\* A home h of e, the only one, and its peer r, with all their connections up.
Linked(h, r, e) ==
    /\ h \in Registry /\ r \in Registry /\ e \in Entity
    /\ Homes[e] = {h} /\ r \in Mesh[h]
    /\ conns = Mesh /\ DirectInv /\ SearchInv /\ Kept(h, r, e)

\* The parts of Kept in terms of what is on the wire, in hand and owed.
LEMMA LinkedParts ==
    ASSUME NEW h, NEW r, NEW e, Linked(h, r, e)
    PROVE  /\ h \in Registry /\ r \in Registry /\ e \in Entity /\ TypeOK
           /\ r # h /\ h \in Mesh[r] /\ r \notin Homes[e]
           /\ wire[h][r] \in Seq(Announcement)
           /\ OnWire(wire[h][r], e) \subseteq Announcement
           /\ InHand(work[r][h], e) \subseteq Announcement
           /\ gossip[r][e] \in GossipRow \cup {NoRow}
           /\ clock \in Nat
<1>1. TypeOK /\ h \in Registry /\ r \in Registry /\ e \in Entity
  BY DEF Linked, DirectInv
<1>2. r # h /\ h \in Mesh[r] /\ r \notin Homes[e]
  BY <1>1, MeshAssumption DEF Linked
<1>3. wire[h][r] \in Seq(Announcement) /\ gossip[r][e] \in GossipRow \cup {NoRow}
  BY <1>1 DEF TypeOK
<1>4. OnWire(wire[h][r], e) \subseteq Announcement
  BY <1>3 DEF OnWire
<1>5. InHand(work[r][h], e) \subseteq Announcement
  <2>1. work[r][h] # Idle => work[r][h].ann \in Announcement
    BY <1>1 DEF TypeOK, Worker
  <2> QED BY <2>1 DEF InHand
<1>6. clock \in Nat
  BY <1>1 DEF TypeOK, Time
<1> QED BY <1>1, <1>2, <1>3, <1>4, <1>5, <1>6

\* A step that changes nothing that Kept is about.
LEMMA KeptSame ==
    ASSUME NEW h, NEW r, NEW e, Kept(h, r, e),
           OnWire(wire'[h][r], e) = OnWire(wire[h][r], e), InOrder(wire'[h][r], e),
           InHand(work'[r][h], e) = InHand(work[r][h], e),
           Owed(todo'[h], e) = Owed(todo[h], e),
           OwnTimes(seen'[h], e),
           KeyTimes(seen'[h], e) = KeyTimes(seen[h], e),
           KeyTimes(seen'[r], e) = KeyTimes(seen[r], e), clock' = clock,
           entities'[h][e] = entities[h][e], gossip'[r][e] = gossip[r][e],
           e \in tombstones'[h] <=> e \in tombstones[h]
    PROVE  Kept(h, r, e)'
<1> DEFINE M == OnWire(wire[h][r], e)
           B == InHand(work[r][h], e)
           dead == e \in tombstones[h]
<1>1. Contents(M \cup B, Owed(todo[h], e), entities[h][e], dead, gossip[r][e])
  BY DEF Kept
<1>2. Stamps(M, B, Owed(todo[h], e), KeyTimes(seen[h], e), KeyTimes(seen[r], e), clock)
  BY DEF Kept
<1>3. dead = (e \in tombstones'[h])
  OBVIOUS
<1> HIDE DEF M, B, dead
<1>4. Contents(M \cup B, Owed(todo'[h], e), entities'[h][e], dead, gossip'[r][e])
  BY <1>1
<1>5. Stamps(M, B, Owed(todo'[h], e), KeyTimes(seen'[h], e), KeyTimes(seen'[r], e), clock')
  BY <1>2
<1>6. M = OnWire(wire'[h][r], e) /\ B = InHand(work'[r][h], e)
  BY DEF M, B
<1> QED BY <1>3, <1>4, <1>5, <1>6 DEF Kept

\* A request about f commits at s, when no handler is under way for f and nothing
\* was announced about f in this second.
LEMMA KeptCommitted ==
    ASSUME NEW h, NEW r, NEW e, Linked(h, r, e),
           NEW s \in Registry, NEW f \in Entity, s \in Homes[f],
           NEW item \in Item, NEW row, item.entity = f, Tells(item, row),
           \A i \in todo[s] : i.entity # f, ~SeenAt(s, f, clock),
           f = e => e \notin tombstones[h],
           todo' = [todo EXCEPT ![s] = @ \cup {item}],
           entities' = [entities EXCEPT ![s][f] = row],
           UNCHANGED <<clock, tombstones, wire, seen, work, gossip>>
    PROVE  Kept(h, r, e)'
<1>1. /\ h \in Registry /\ r \in Registry /\ e \in Entity /\ TypeOK /\ Kept(h, r, e)
      /\ Homes[e] = {h}
  BY LinkedParts DEF Linked
<1>2. todo'[h] = IF s = h THEN todo[h] \cup {item} ELSE todo[h]
  BY <1>1 DEF TypeOK
<1>3. entities'[h][e] = IF s = h /\ f = e THEN row ELSE entities[h][e]
  BY <1>1 DEF TypeOK
<1>4. CASE f # e
  <2>1. Owed(todo'[h], e) = Owed(todo[h], e)
    BY <1>2, <1>4 DEF Owed
  <2>2. entities'[h][e] = entities[h][e]
    BY <1>3, <1>4
  <2> QED BY <1>1, <2>1, <2>2, KeptSame DEF Kept
<1>5. CASE f = e
  <2>1. s = h /\ entities'[h][e] = row
    BY <1>1, <1>3, <1>5
  <2>2. Owed(todo[h], e) = {} /\ Owed(todo'[h], e) = {item}
    BY <1>2, <1>5, <2>1 DEF Owed
  <2>3. clock \notin KeyTimes(seen[h], e)
    <3> SUFFICES ASSUME NEW k \in seen[h], k[1] = e, k[2] = clock PROVE FALSE
      BY DEF KeyTimes
    <3>1. k \in Entity \X Time \X Time
      BY <1>1 DEF TypeOK
    <3>2. k = <<e, clock, k[3]>> /\ k[3] \in Time
      BY <3>1
    <3> QED BY <1>5, <2>1, <3>2 DEF SeenAt
  <2> DEFINE M == OnWire(wire[h][r], e)
             B == InHand(work[r][h], e)
             dead == e \in tombstones[h]
             Th == KeyTimes(seen[h], e)
             Tr == KeyTimes(seen[r], e)
  <2>4. Contents(M \cup B, {}, entities[h][e], dead, gossip[r][e])
    BY <1>1, <2>2 DEF Kept
  <2>5. Stamps(M, B, {}, Th, Tr, clock)
    BY <1>1, <2>2 DEF Kept
  <2>6. ~dead
    BY <1>5
  <2>6a. Stamps(M, B, {item}, Th, Tr, clock)
    BY <2>3, <2>5 DEF Stamps
  <2>7. Contents(M \cup B, {item}, row, dead, gossip[r][e])
    <3> HIDE DEF M, B, dead
    <3> QED BY <2>4, <2>6, ContentsCommitted
  <2> QED BY <1>1, <2>1, <2>2, <2>6a, <2>7 DEF Kept
<1> QED BY <1>4, <1>5

\* A dedup map after MarkSeen: one key has one time more, the others are kept.
Marked(keys, f, ts, now) == {s \in keys : s[1] # f \/ s[2] # ts} \cup {<<f, ts, now>>}

LEMMA MarkedTimes ==
    ASSUME NEW keys, NEW f, NEW ts, NEW now, NEW e
    PROVE  /\ KeyTimes(Marked(keys, f, ts, now), e) =
                 IF f = e THEN KeyTimes(keys, e) \cup {ts} ELSE KeyTimes(keys, e)
           /\ OwnTimes(keys, e) /\ (f = e => ts = now)
                 => OwnTimes(Marked(keys, f, ts, now), e)
<1> DEFINE new == <<f, ts, now>>
<1>1. Marked(keys, f, ts, now) = {s \in keys : s[1] # f \/ s[2] # ts} \cup {new}
  BY DEF Marked
<1>2. new[1] = f /\ new[2] = ts /\ new[3] = now
  OBVIOUS
<1> HIDE DEF new
<1>3. ASSUME f = e
      PROVE  KeyTimes(Marked(keys, f, ts, now), e) = KeyTimes(keys, e) \cup {ts}
  BY <1>1, <1>2, <1>3 DEF KeyTimes
<1>4. ASSUME f # e PROVE KeyTimes(Marked(keys, f, ts, now), e) = KeyTimes(keys, e)
  BY <1>1, <1>2, <1>4 DEF KeyTimes
<1> QED BY <1>1, <1>2, <1>3, <1>4 DEF OwnTimes

\* The home announces what it owes: it reaches the wire to the peer as the last
\* about its entity.
LEMMA KeptAnnounced ==
    ASSUME NEW h, NEW r, NEW e, Linked(h, r, e),
           NEW s \in Registry, NEW item \in todo[s], Announce(s, item)
    PROVE  Kept(h, r, e)'
<1> DEFINE x == CreateAnnouncement(s, item)
           M == OnWire(wire[h][r], e)
           B == InHand(work[r][h], e)
           Th == KeyTimes(seen[h], e)
           Tr == KeyTimes(seen[r], e)
           dead == e \in tombstones[h]
<1>1. /\ h \in Registry /\ r \in Registry /\ e \in Entity /\ TypeOK /\ Kept(h, r, e)
      /\ Homes[e] = {h} /\ r # h /\ conns = Mesh /\ r \in Mesh[h]
      /\ wire[h][r] \in Seq(Announcement)
      /\ M \subseteq Announcement /\ B \subseteq Announcement /\ clock \in Nat
  BY LinkedParts DEF Linked
<1>2. item \in Item /\ s \in Homes[item.entity] /\ item.entity \in Entity
  BY <1>1 DEF TypeOK, Linked, DirectInv, TodoIsLocal, Item
<1>3. /\ x \in Announcement /\ x.entity = item.entity /\ x.action = item.action
      /\ x.ver = item.ver /\ x.ts = clock /\ x.hop = 0 /\ x.signedHop = 0
  <2>1. x \in Announcement
    BY <1>1, <1>2, CreateType DEF TypeOK
  <2> QED BY <2>1 DEF CreateAnnouncement
<1> HIDE DEF x
<1>4. wire'[h][r] = IF s = h THEN Append(wire[h][r], x) ELSE wire[h][r]
  <2>1. wire' = Send(wire, s, x, Mesh[s])
    BY <1>1 DEF Announce, x
  <2> QED BY <1>1, <2>1 DEF TypeOK, Send
<1>5. /\ todo'[h] = IF s = h THEN todo[h] \ {item} ELSE todo[h]
      /\ tombstones'[h] = IF s = h /\ item.action = "deregister"
                          THEN tombstones[h] \cup {item.entity} ELSE tombstones[h]
      /\ UNCHANGED <<clock, entities, work, gossip>>
      /\ \A m \in Registry :
            seen'[m] = IF m = s THEN Marked(seen[m], item.entity, clock, clock)
                       ELSE seen[m]
  BY <1>1 DEF Announce, TypeOK, MarkSeen, Marked
<1>6. CASE item.entity # e
  <2>1. OnWire(wire'[h][r], e) = M /\ InOrder(wire'[h][r], e)
    <3>1. InOrder(wire[h][r], e)
      BY <1>1 DEF Kept
    <3> QED BY <1>1, <1>3, <1>4, <1>6, <3>1, WireAppended
  <2>2. Owed(todo'[h], e) = Owed(todo[h], e)
    BY <1>5, <1>6 DEF Owed
  <2>3. OwnTimes(seen[h], e)
    BY <1>1 DEF Kept
  <2>4. KeyTimes(seen'[h], e) = Th /\ KeyTimes(seen'[r], e) = Tr
    BY <1>1, <1>5, <1>6, MarkedTimes
  <2>5. OwnTimes(seen'[h], e)
    BY <1>1, <1>5, <1>6, <2>3, MarkedTimes
  <2>6. e \in tombstones'[h] <=> e \in tombstones[h]
    BY <1>5, <1>6
  <2> QED BY <1>1, <1>5, <2>1, <2>2, <2>4, <2>5, <2>6, KeptSame
<1>7. CASE item.entity = e
  <2>1. s = h
    BY <1>1, <1>2, <1>7
  <2>2. Owed(todo[h], e) = {item} /\ Owed(todo'[h], e) = {}
    <3>1. \A i \in todo[h] : i.entity = e => i = item
      BY <1>1, <1>7, <2>1 DEF Linked, SearchInv, OwedOnce
    <3> QED BY <1>5, <1>7, <2>1, <3>1 DEF Owed
  <2>3. Contents(M \cup B, {item}, entities[h][e], dead, gossip[r][e])
    BY <1>1, <2>2 DEF Kept
  <2>4. Stamps(M, B, {item}, Th, Tr, clock)
    BY <1>1, <2>2 DEF Kept
  <2>5. /\ KeyTimes(seen'[h], e) = Th \cup {clock}
        /\ KeyTimes(seen'[r], e) = Tr
        /\ OwnTimes(seen'[h], e)
    <3>1. OwnTimes(seen[h], e)
      BY <1>1 DEF Kept
    <3> QED BY <1>1, <1>5, <1>7, <2>1, <3>1, MarkedTimes
  <2> HIDE DEF M, B, Th, Tr
  <2>6. \A y \in M \cup B : y.ts < clock /\ y.ts \in Nat
    BY <1>1, <2>4 DEF Stamps, Announcement, Time
  <2>7. clock \notin Tr
    BY <2>4 DEF Stamps
  <2>8. Stamps(M \cup {x}, B, {}, Th \cup {clock}, Tr, clock)
    <3>1. \A t \in Tr : t <= clock /\ t # clock
      BY <2>4, <2>7 DEF Stamps
    <3>2. \A t \in Th \cup {clock} : t <= clock
      BY <1>1, <2>4 DEF Stamps
    <3>3. \A y \in M \cup {x} \cup B : y.ts <= clock
      BY <1>1, <1>3, <2>6
    <3>4. \A y \in M \cup {x} : y.ts \notin Tr /\ y.hop = 0 /\ y.signedHop = 0
      BY <1>3, <2>4, <2>7 DEF Stamps
    <3>5. \A y \in M \cup {x}, z \in B : z.ts < y.ts
      BY <1>3, <2>4, <2>6 DEF Stamps
    <3> QED BY <3>1, <3>2, <3>3, <3>4, <3>5 DEF Stamps
  <2>9. OnWire(wire'[h][r], e) = M \cup {x} /\ InOrder(wire'[h][r], e)
    <3>1. InOrder(wire[h][r], e) /\ Before(OnWire(wire[h][r], e), x)
      BY <1>1, <1>3, <2>6 DEF Kept, M, Before
    <3>2. wire'[h][r] = Append(wire[h][r], x) /\ x.entity = e
      BY <1>3, <1>4, <1>7, <2>1
    <3> DEFINE w == wire[h][r]
    <3>3. w \in Seq(Announcement) /\ InOrder(w, e) /\ Before(OnWire(w, e), x)
      BY <1>1, <3>1
    <3> HIDE DEF w
    <3>4. OnWire(Append(w, x), e) = OnWire(w, e) \cup {x} /\ InOrder(Append(w, x), e)
      BY <1>3, <3>2, <3>3, WireAppended
    <3> QED BY <3>2, <3>4 DEF M, w
  <2>10. Contents(M \cup B \cup {x}, {}, entities[h][e],
                  dead \/ item.action = "deregister", gossip[r][e])
    <3>1. M \cup B \in SUBSET Announcement /\ dead \in BOOLEAN
      BY <1>1
    <3>2. \A y \in M \cup B : y.ts < x.ts
      BY <1>3, <2>6
    <3> HIDE DEF dead
    <3> QED BY <1>3, <2>3, <3>1, <3>2, ContentsAnnounced
  <2>11. (e \in tombstones'[h]) = (dead \/ item.action = "deregister")
    BY <1>5, <1>7, <2>1
  <2>12. InHand(work'[r][h], e) = B /\ M \cup {x} \cup B = M \cup B \cup {x}
    BY <1>5 DEF B
  <2>13. Contents(OnWire(wire'[h][r], e) \cup InHand(work'[r][h], e), Owed(todo'[h], e),
                  entities'[h][e], e \in tombstones'[h], gossip'[r][e])
    BY <1>5, <2>2, <2>9, <2>10, <2>11, <2>12
  <2>14. Stamps(OnWire(wire'[h][r], e), InHand(work'[r][h], e), Owed(todo'[h], e),
                KeyTimes(seen'[h], e), KeyTimes(seen'[r], e), clock')
    BY <1>5, <2>2, <2>5, <2>8, <2>9, <2>12
  <2> QED BY <2>5, <2>9, <2>13, <2>14 DEF Kept
<1> QED BY <1>6, <1>7

\* The dedup map has a timestamp of an entity only among the times of its keys.
LEMMA SeenTimes ==
    ASSUME NEW n \in Registry, NEW e, NEW ts, SeenAt(n, e, ts)
    PROVE  ts \in KeyTimes(seen[n], e)
<1>1. PICK at \in Time : <<e, ts, at>> \in seen[n]
  BY DEF SeenAt
<1> QED BY <1>1 DEF KeyTimes

\* The peer's read loop takes the oldest announcement off the wire.
LEMMA KeptAccepted ==
    ASSUME NEW h, NEW r, NEW e, Linked(h, r, e),
           NEW n \in Registry, NEW p \in Registry, Accept(n, p)
    PROVE  Kept(h, r, e)'
<1> DEFINE w == wire[h][r]
           M == OnWire(w, e)
           N == OnWire(Tail(w), e)
           H == {x \in {Head(w)} : x.entity = e}
<1>1. /\ h \in Registry /\ r \in Registry /\ e \in Entity /\ TypeOK /\ Kept(h, r, e)
      /\ w \in Seq(Announcement) /\ M \subseteq Announcement
  BY LinkedParts DEF Linked
<1>2. UNCHANGED <<clock, entities, tombstones, todo, seen, gossip>>
  BY DEF Accept
<1>3. CASE ~(n = r /\ p = h)
  <2>1. wire'[h][r] = wire[h][r] /\ work'[r][h] = work[r][h]
    BY <1>1, <1>3 DEF Accept, TypeOK
  <2> QED BY <1>1, <1>2, <2>1, KeptSame DEF Kept
<1>4. CASE n = r /\ p = h
  <2>1. /\ wire'[h][r] = Tail(w) /\ w # << >> /\ work[r][h] = Idle
        /\ work'[r][h] = [stage |-> "unmarked", ann |-> Head(w)]
    BY <1>1, <1>4 DEF Accept, TypeOK
  <2>2. InOrder(w, e)
    BY <1>1 DEF Kept
  <2>3. /\ Head(w) \in Announcement /\ InOrder(Tail(w), e) /\ M = N \cup H
        /\ Head(w).entity = e => \A y \in N : Head(w).ts < y.ts
    <3> HIDE DEF w
    <3> QED BY <1>1, <2>1, <2>2, WireTaken
  <2>4. InHand(work[r][h], e) = {}
    BY <2>1 DEF InHand
  <2>5. InHand(work'[r][h], e) = H
    <3>1. work'[r][h] \in Worker /\ work'[r][h].ann = Head(w)
      <4> HIDE DEF w
      <4> QED BY <2>1, <2>3 DEF Worker, Stage
    <3>2. work'[r][h] # Idle
      BY <3>1, NullAssumption
    <3> QED BY <3>1, <3>2 DEF InHand
  <2> DEFINE Th == KeyTimes(seen[h], e)
             Tr == KeyTimes(seen[r], e)
             items == Owed(todo[h], e)
  <2>6. Contents(N \cup H, items, entities[h][e], e \in tombstones[h], gossip[r][e])
    <3>1. M \cup InHand(work[r][h], e) = N \cup H
      BY <2>3, <2>4
    <3> HIDE DEF M, N, H
    <3> QED BY <1>1, <3>1 DEF Kept, M
  <2>7. Stamps(M, {}, items, Th, Tr, clock)
    BY <1>1, <2>4 DEF Kept
  <2>8. \A y \in N, z \in H : z.ts < y.ts
    BY <2>3
  <2>9. Stamps(N, H, items, Th, Tr, clock)
    <3> HIDE DEF M, N, H, items, Th, Tr
    <3> QED BY <2>3, <2>7, <2>8 DEF Stamps
  <2> HIDE DEF N, H, w
  <2>10. OnWire(wire'[h][r], e) = N
    BY <2>1 DEF N
  <2>11. InOrder(wire'[h][r], e) /\ OwnTimes(seen'[h], e)
    BY <1>1, <1>2, <2>1, <2>3 DEF Kept
  <2>12. Stamps(OnWire(wire'[h][r], e), InHand(work'[r][h], e), Owed(todo'[h], e),
                KeyTimes(seen'[h], e), KeyTimes(seen'[r], e), clock')
    BY <1>2, <2>5, <2>9, <2>10
  <2>13. Contents(OnWire(wire'[h][r], e) \cup InHand(work'[r][h], e), Owed(todo'[h], e),
                  entities'[h][e], e \in tombstones'[h], gossip'[r][e])
    BY <1>2, <2>5, <2>6, <2>10
  <2> QED BY <2>11, <2>12, <2>13 DEF Kept
<1> QED BY <1>3, <1>4

\* No announcement of the home itself is discarded.
LEMMA KeptDiscarded ==
    ASSUME NEW h, NEW r, NEW e, Linked(h, r, e), MaxHops # 0,
           NEW n \in Registry, NEW p \in Registry, Discard(n, p)
    PROVE  Kept(h, r, e)'
<1> DEFINE w == wire[h][r]
<1>1. /\ h \in Registry /\ r \in Registry /\ e \in Entity /\ TypeOK /\ Kept(h, r, e)
      /\ w \in Seq(Announcement)
  BY LinkedParts DEF Linked
<1>2. UNCHANGED <<clock, entities, tombstones, todo, seen, gossip, work>>
  BY DEF Discard
<1>3. CASE ~(n = r /\ p = h)
  <2>1. wire'[h][r] = wire[h][r]
    BY <1>1, <1>3 DEF Discard, TypeOK
  <2> QED BY <1>1, <1>2, <2>1, KeptSame DEF Kept
<1>4. CASE n = r /\ p = h
  <2>1. wire'[h][r] = Tail(w) /\ w # << >> /\ ~Admits(r, Head(w))
    BY <1>1, <1>4 DEF Discard, TypeOK
  <2>2. InOrder(w, e)
    BY <1>1 DEF Kept
  <2>3. /\ InOrder(Tail(w), e)
        /\ OnWire(w, e) = OnWire(Tail(w), e) \cup {x \in {Head(w)} : x.entity = e}
    <3> HIDE DEF w
    <3> QED BY <1>1, <2>1, <2>2, WireTaken
  <2>4. Head(w).entity # e
    <3> SUFFICES ASSUME Head(w).entity = e PROVE FALSE
      OBVIOUS
    <3>1. Head(w) \in OnWire(w, e)
      BY <2>3
    <3>2. /\ Head(w).ts \notin KeyTimes(seen[r], e)
          /\ Head(w).hop = 0 /\ Head(w).signedHop = 0
      BY <1>1, <3>1 DEF Kept, Stamps
    <3>3. ~SeenAt(r, Head(w).entity, Head(w).ts)
      BY <1>1, <3>2, SeenTimes
    <3>4. 0 < MaxHops
      BY BoundsAssumption
    <3> QED BY <2>1, <3>2, <3>3, <3>4 DEF Admits, Verifies
  <2>5. OnWire(wire'[h][r], e) = OnWire(w, e) /\ InOrder(wire'[h][r], e)
    BY <2>1, <2>3, <2>4
  <2> QED BY <1>1, <1>2, <2>5, KeptSame DEF Kept
<1> QED BY <1>3, <1>4

\* What a read loop holds about e, it holds at a peer of e's home and from it.
LEMMA HeldFromHome ==
    ASSUME NEW h, NEW r, NEW e, Linked(h, r, e), NEW n \in Registry, NEW p \in Registry,
           work[n][p] # Idle
    PROVE  /\ work[n][p] \in Worker /\ work[n][p].ann \in Announcement
           /\ work[n][p].ann.entity = e =>
                 p = h /\ n # h /\ work[n][p].ann.origin = h
<1>1. work[n][p] \in Worker /\ work[n][p].ann \in Announcement
  BY LinkedParts DEF TypeOK, Worker
<1>2. p \in Mesh[n] /\ SentBy(p, work[n][p].ann) /\ Verifies(work[n][p].ann)
  BY DEF Linked, DirectInv, WorkIsDirect
<1>3. n \notin Mesh[n]
  BY MeshAssumption
<1> QED BY <1>1, <1>2, <1>3 DEF SentBy, Linked

\* A read loop moves on with the announcement it holds.
LEMMA HandKept ==
    ASSUME NEW h, NEW r, NEW e, Linked(h, r, e), NEW n \in Registry, NEW p \in Registry,
           Mark(n, p) \/ Authorize(n, p)
    PROVE  InHand(work'[r][h], e) = InHand(work[r][h], e)
<1>1. h \in Registry /\ r \in Registry /\ TypeOK /\ work[n][p] # Idle
  BY LinkedParts DEF Mark, Authorize
<1>a. work \in [Registry -> [Registry -> Worker \cup {Idle}]]
  BY <1>1 DEF TypeOK
<1>b. \/ work' = [work EXCEPT ![n][p].stage = "marked"]
      \/ work' = [work EXCEPT ![n][p].stage = "authorized"]
  BY Zenon DEF Mark, Authorize
<1>2. CASE ~(n = r /\ p = h)
  <2>1. work'[r][h] = work[r][h]
    BY <1>1, <1>a, <1>b, <1>2
  <2> QED BY <2>1
<1>3. CASE n = r /\ p = h
  <2>1. work[r][h] \in Worker
    BY <1>1, <1>3, HeldFromHome
  <2>2. \/ work'[r][h] = [work[r][h] EXCEPT !.stage = "marked"]
        \/ work'[r][h] = [work[r][h] EXCEPT !.stage = "authorized"]
    <3>1. ASSUME NEW stage, work' = [work EXCEPT ![n][p].stage = stage]
          PROVE  work'[r][h] = [work[r][h] EXCEPT !.stage = stage]
      BY <1>1, <1>a, <1>3, <3>1
    <3> QED BY <1>b, <3>1, Zenon
  <2>3. work'[r][h] \in Worker /\ work'[r][h].ann = work[r][h].ann
    BY <2>1, <2>2 DEF Worker, Stage
  <2>4. work'[r][h] # Idle /\ work[r][h] # Idle
    BY <2>1, <2>3, NullAssumption
  <2> QED BY <2>3, <2>4 DEF InHand
<1> QED BY <1>2, <1>3

\* The peer marks what it holds as seen: the timestamps on the wire are later.
LEMMA KeptMarked ==
    ASSUME NEW h, NEW r, NEW e, Linked(h, r, e),
           NEW n \in Registry, NEW p \in Registry, Mark(n, p)
    PROVE  Kept(h, r, e)'
<1> DEFINE ann == work[n][p].ann
           M == OnWire(wire[h][r], e)
           B == InHand(work[r][h], e)
           Th == KeyTimes(seen[h], e)
           Tr == KeyTimes(seen[r], e)
           items == Owed(todo[h], e)
<1>1. /\ h \in Registry /\ r \in Registry /\ e \in Entity /\ TypeOK /\ Kept(h, r, e)
      /\ h # r /\ M \subseteq Announcement /\ B \subseteq Announcement
  BY LinkedParts DEF Linked
<1>2. UNCHANGED <<clock, entities, tombstones, todo, wire, gossip>>
  BY DEF Mark
<1>3. InHand(work'[r][h], e) = B
  BY HandKept
<1>4. ann.entity = e => p = h /\ n # h
  BY HeldFromHome DEF Mark
<1>5. \A m \in Registry :
         seen'[m] = IF m = n THEN Marked(seen[m], ann.entity, ann.ts, clock) ELSE seen[m]
  BY <1>1 DEF Mark, MarkSeen, Marked, TypeOK
<1>6. OwnTimes(seen[h], e) /\ Stamps(M, B, items, Th, Tr, clock)
  BY <1>1 DEF Kept
<1> HIDE DEF ann
<1>7. OwnTimes(seen'[h], e) /\ KeyTimes(seen'[h], e) = Th
  BY <1>1, <1>4, <1>5, <1>6, MarkedTimes
<1>8. CASE ~(n = r /\ ann.entity = e)
  <2>1. KeyTimes(seen'[r], e) = Tr
    BY <1>1, <1>5, <1>8, MarkedTimes
  <2> QED BY <1>1, <1>2, <1>3, <1>7, <2>1, KeptSame DEF Kept
<1>9. CASE n = r /\ ann.entity = e
  <2>1. KeyTimes(seen'[r], e) = Tr \cup {ann.ts}
    BY <1>1, <1>5, <1>9, MarkedTimes
  <2>2. ann \in B
    BY <1>4, <1>9 DEF Mark, InHand, ann
  <2> HIDE DEF M, B, Th, Tr, items
  <2>3. Stamps(M, B, items, Th, Tr \cup {ann.ts}, clock)
    <3>1. \A x \in M : x.ts # ann.ts
      BY <1>1, <1>6, <2>2 DEF Stamps, Announcement, Time
    <3>2. ann.ts <= clock /\ (ann.ts = clock => clock \in Th)
      BY <1>6, <2>2 DEF Stamps
    <3> QED BY <1>6, <3>1, <3>2 DEF Stamps
  <2>4. Stamps(OnWire(wire'[h][r], e), InHand(work'[r][h], e), Owed(todo'[h], e),
               KeyTimes(seen'[h], e), KeyTimes(seen'[r], e), clock')
    BY <1>2, <1>3, <1>7, <2>1, <2>3 DEF M, items
  <2>5. Contents(OnWire(wire'[h][r], e) \cup InHand(work'[r][h], e), Owed(todo'[h], e),
                 entities'[h][e], e \in tombstones'[h], gossip'[r][e])
    BY <1>1, <1>2, <1>3 DEF Kept, B
  <2> QED BY <1>1, <1>2, <1>7, <2>4, <2>5 DEF Kept
<1> QED BY <1>8, <1>9

\* The peer is done with what it holds, and its row becomes next: the home and the
\* wire are as they were.
LEMMA KeptHandled ==
    ASSUME NEW h, NEW r, NEW e, Linked(h, r, e), work[r][h] # Idle,
           work[r][h].ann.entity = e, work'[r][h] = Idle,
           UNCHANGED <<clock, entities, tombstones, todo, seen>>,
           wire'[h][r] = wire[h][r], NEW next, gossip'[r][e] = next,
           next # NoRow /\ next.tombstoned =>
               \/ gossip[r][e] # NoRow /\ gossip[r][e].tombstoned
               \/ work[r][h].ann.action = "deregister",
           ~(gossip[r][e] # NoRow /\ gossip[r][e].tombstoned)
               /\ Tells(work[r][h].ann, entities[h][e])
                   => Shows(next, entities[h][e])
    PROVE  Kept(h, r, e)'
<1> DEFINE b == work[r][h].ann
           M == OnWire(wire[h][r], e)
           Th == KeyTimes(seen[h], e)
           Tr == KeyTimes(seen[r], e)
           items == Owed(todo[h], e)
           row == entities[h][e]
           dead == e \in tombstones[h]
           g == gossip[r][e]
<1>1. /\ h \in Registry /\ r \in Registry /\ Kept(h, r, e) /\ M \subseteq Announcement
  BY LinkedParts DEF Linked
<1>2. b \in Announcement
  BY <1>1, HeldFromHome
<1>3. InHand(work[r][h], e) = {b} /\ InHand(work'[r][h], e) = {}
  BY DEF InHand
<1>4. Contents(M \cup {b}, items, row, dead, g) /\ Stamps(M, {b}, items, Th, Tr, clock)
  BY <1>1, <1>3 DEF Kept
<1>5. ~(g # NoRow /\ g.tombstoned)
  BY <1>4 DEF Contents
<1>6. \A y \in M : b.ts < y.ts
  BY <1>4 DEF Stamps
<1>7. /\ next # NoRow /\ next.tombstoned =>
             (g # NoRow /\ g.tombstoned) \/ b.action = "deregister"
      /\ Tells(b, row) => Shows(next, row)
  BY <1>5
<1>8. M \in SUBSET Announcement
  BY <1>1
<1> HIDE DEF b, M, Th, Tr, items, row, dead, g
<1>9. Contents(M, items, row, dead, next)
  BY <1>2, <1>4, <1>6, <1>7, <1>8, ContentsHandled
<1>10. Stamps(M, {}, items, Th, Tr, clock)
  BY <1>4 DEF Stamps
<1>11. M \cup {} = M
  OBVIOUS
<1>12. Stamps(OnWire(wire'[h][r], e), InHand(work'[r][h], e), Owed(todo'[h], e),
              KeyTimes(seen'[h], e), KeyTimes(seen'[r], e), clock')
  BY <1>3, <1>10 DEF M, items, Th, Tr
<1>13. Contents(OnWire(wire'[h][r], e) \cup InHand(work'[r][h], e), Owed(todo'[h], e),
                entities'[h][e], e \in tombstones'[h], gossip'[r][e])
  BY <1>3, <1>9, <1>11 DEF M, items, row, dead
<1>14. InOrder(wire'[h][r], e) /\ OwnTimes(seen'[h], e)
  BY <1>1 DEF Kept
<1> QED BY <1>12, <1>13, <1>14 DEF Kept

\* The read loops authorize and write what the home announced, and reject of it
\* only what is about a row they do not have.
LEMMA KeptAuthorized ==
    ASSUME NEW h, NEW r, NEW e, Linked(h, r, e),
           NEW n \in Registry, NEW p \in Registry, Authorize(n, p)
    PROVE  Kept(h, r, e)'
<1>1. InHand(work'[r][h], e) = InHand(work[r][h], e)
  BY HandKept
<1>2. UNCHANGED <<clock, entities, tombstones, todo, wire, gossip, seen>> /\ Kept(h, r, e)
  BY DEF Authorize, Linked
<1> QED BY <1>1, <1>2, KeptSame DEF Kept

LEMMA KeptRejected ==
    ASSUME NEW h, NEW r, NEW e, Linked(h, r, e),
           NEW n \in Registry, NEW p \in Registry, Reject(n, p)
    PROVE  Kept(h, r, e)'
<1>1. /\ h \in Registry /\ r \in Registry /\ e \in Entity /\ TypeOK /\ Kept(h, r, e)
      /\ Homes[e] = {h}
  BY LinkedParts DEF Linked
<1>2. /\ UNCHANGED <<clock, entities, tombstones, todo, wire, gossip, seen>>
      /\ work[n][p] # Idle
      /\ work'[r][h] = IF n = r /\ p = h THEN Idle ELSE work[r][h]
  BY <1>1 DEF Reject, TypeOK
<1>3. CASE ~(n = r /\ p = h /\ work[r][h].ann.entity = e)
  <2>1. InHand(work'[r][h], e) = InHand(work[r][h], e)
    BY <1>2, <1>3 DEF InHand
  <2> QED BY <1>1, <1>2, <2>1, KeptSame DEF Kept
<1>4. CASE n = r /\ p = h /\ work[r][h].ann.entity = e
  <2> DEFINE b == work[r][h].ann
             g == gossip[r][e]
  <2>1. b.origin = h /\ work'[r][h] = Idle
    BY <1>1, <1>2, <1>4, HeldFromHome
  <2>2. ~Authorized(g, b)
    BY <1>4 DEF Reject
  <2>3. g # NoRow => g.pin = h
    BY <1>1 DEF Linked, DirectInv, KnowledgeIsDirect
  <2>4. g = NoRow /\ b.action \notin {"register", "update"}
    BY <2>1, <2>2, <2>3 DEF Authorized, VerifyOriginAuthorization
  <2>5. Tells(b, entities[h][e]) => Shows(g, entities[h][e])
    BY <2>4 DEF Tells, Shows
  <2>6. gossip'[r][e] = g /\ wire'[h][r] = wire[h][r]
    BY <1>2
  <2>7. work[r][h] # Idle /\ b.entity = e
    BY <1>2, <1>4
  <2>8. UNCHANGED <<clock, entities, tombstones, todo, seen>>
    BY <1>2
  <2> QED BY <2>1, <2>4, <2>5, <2>6, <2>7, <2>8, KeptHandled
<1> QED BY <1>3, <1>4

LEMMA KeptApplied ==
    ASSUME NEW h, NEW r, NEW e, Linked(h, r, e),
           NEW n \in Registry, NEW p \in Registry, Apply(n, p)
    PROVE  Kept(h, r, e)'
<1> DEFINE ann == work[n][p].ann
           f == Forwarded(ann)
<1>1. /\ h \in Registry /\ r \in Registry /\ e \in Entity /\ TypeOK /\ Kept(h, r, e)
      /\ Homes[e] = {h} /\ r # h /\ wire[h][r] \in Seq(Announcement)
      /\ gossip[r][e] \in GossipRow \cup {NoRow}
  BY LinkedParts DEF Linked
<1>2. /\ UNCHANGED <<clock, entities, tombstones, todo, seen>>
      /\ work[n][p] # Idle
      /\ work'[r][h] = IF n = r /\ p = h THEN Idle ELSE work[r][h]
  BY <1>1 DEF Apply, TypeOK
<1>3. ann \in Announcement /\ (ann.entity = e => p = h /\ n # h)
  BY <1>2, HeldFromHome
<1>4. gossip'[r][e] = IF n = r /\ ann.entity = e THEN Stored(gossip[r][e], ann)
                      ELSE gossip[r][e]
  <2>1. /\ gossip \in [Registry -> [Entity -> GossipRow \cup {NoRow}]]
        /\ ann.entity \in Entity
    BY <1>1, <1>3 DEF TypeOK, Announcement
  <2>2. gossip' = [gossip EXCEPT ![n][ann.entity] = Stored(gossip[n][ann.entity], ann)]
    BY DEF Apply
  <2> HIDE DEF ann
  <2> QED BY <1>1, <2>1, <2>2
<1>5. f \in Announcement /\ f.entity = ann.entity
  BY <1>3, ForwardedType DEF Forwarded, Announcement
<1>6. \/ wire'[h][r] = wire[h][r]
      \/ n = h /\ wire'[h][r] = Append(wire[h][r], f)
  <2>1. wire' = Send(wire, n, f, conns[n] \ {p})
    BY DEF Apply
  <2>2. wire \in [Registry -> [Registry -> Seq(Announcement)]]
    BY <1>1 DEF TypeOK
  <2> HIDE DEF f
  <2> QED BY <1>1, <2>1, <2>2 DEF Send
<1>7. CASE ~(n = r /\ ann.entity = e)
  <2>1. gossip'[r][e] = gossip[r][e]
    BY <1>4, <1>7
  <2>2. OnWire(wire'[h][r], e) = OnWire(wire[h][r], e) /\ InOrder(wire'[h][r], e)
    <3>1. InOrder(wire[h][r], e)
      BY <1>1 DEF Kept
    <3>2. ASSUME n = h, wire'[h][r] = Append(wire[h][r], f)
          PROVE  OnWire(wire'[h][r], e) = OnWire(wire[h][r], e) /\ InOrder(wire'[h][r], e)
      <4>1. f.entity # e
        BY <1>3, <1>5, <3>2
      <4> DEFINE w == wire[h][r]
      <4>2. w \in Seq(Announcement) /\ InOrder(w, e)
        BY <1>1, <3>1
      <4> HIDE DEF w, f
      <4>3. OnWire(Append(w, f), e) = OnWire(w, e) /\ InOrder(Append(w, f), e)
        BY <1>5, <4>1, <4>2, WireAppended
      <4> QED BY <3>2, <4>3 DEF w
    <3> QED BY <1>6, <3>1, <3>2
  <2>3. InHand(work'[r][h], e) = InHand(work[r][h], e)
    <3>1. n = r /\ p = h => work[r][h].ann.entity # e
      BY <1>7
    <3> QED BY <1>2, <3>1 DEF InHand
  <2>4. OwnTimes(seen[h], e)
    BY <1>1 DEF Kept
  <2> QED BY <1>1, <1>2, <2>1, <2>2, <2>3, <2>4, KeptSame
<1>8. CASE n = r /\ ann.entity = e
  <2>1. p = h /\ work'[r][h] = Idle /\ ann = work[r][h].ann
    BY <1>2, <1>3, <1>8
  <2>2. wire'[h][r] = wire[h][r]
    BY <1>1, <1>6, <1>8
  <2>3. gossip'[r][e] = Stored(gossip[r][e], work[r][h].ann)
    BY <1>4, <1>8, <2>1
  <2> DEFINE b == work[r][h].ann
             next == Stored(gossip[r][e], b)
             row == entities[h][e]
  <2>4. b \in Announcement /\ work[r][h] # Idle /\ b.entity = e
    BY <1>2, <1>3, <1>8, <2>1
  <2> HIDE DEF ann, f
  <2>5. /\ next # NoRow /\ next.tombstoned =>
              \/ gossip[r][e] # NoRow /\ gossip[r][e].tombstoned
              \/ b.action = "deregister"
        /\ ~(gossip[r][e] # NoRow /\ gossip[r][e].tombstoned) /\ Tells(b, row)
              => Shows(next, row)
    <3> DEFINE g == gossip[r][e]
    <3>1. g \in GossipRow \cup {NoRow}
      BY <1>1
    <3> HIDE DEF b, row, g
    <3>2. /\ Stored(g, b) # NoRow /\ Stored(g, b).tombstoned =>
                 (g # NoRow /\ g.tombstoned) \/ b.action = "deregister"
          /\ ~(g # NoRow /\ g.tombstoned) /\ Tells(b, row) => Shows(Stored(g, b), row)
      BY <2>4, <3>1, StoredShows
    <3> QED BY <3>2 DEF g
  <2>6. gossip'[r][e] = next
    BY <2>3
  <2> HIDE DEF next
  <2> QED BY <1>2, <2>1, <2>2, <2>4, <2>5, <2>6, KeptHandled
<1> QED BY <1>7, <1>8

\* Background work and time. Cleaning the dedup map keeps the keys of now, since
\* the home's own were put in when they were stamped.
LEMMA KeptCleaned ==
    ASSUME NEW h, NEW r, NEW e, Linked(h, r, e), NEW n \in Registry, CleanDedup(n)
    PROVE  Kept(h, r, e)'
<1> DEFINE M == OnWire(wire[h][r], e)
           B == InHand(work[r][h], e)
           Th == KeyTimes(seen[h], e)
           Tr == KeyTimes(seen[r], e)
           Uh == KeyTimes(seen'[h], e)
           Ur == KeyTimes(seen'[r], e)
           items == Owed(todo[h], e)
<1>1. /\ h \in Registry /\ r \in Registry /\ e \in Entity /\ TypeOK /\ Kept(h, r, e)
      /\ clock \in Nat
  BY LinkedParts DEF Linked
<1>2. /\ UNCHANGED <<clock, entities, tombstones, todo, wire, gossip, work>>
      /\ \A m \in Registry : seen'[m] \subseteq seen[m]
      /\ \A m \in Registry : \A s \in seen[m] : s[3] + DedupWindow >= clock => s \in seen'[m]
  BY <1>1 DEF CleanDedup, TypeOK
<1>3. Uh \subseteq Th /\ Ur \subseteq Tr
  BY <1>1, <1>2 DEF KeyTimes
<1>4. OwnTimes(seen[h], e) /\ OwnTimes(seen'[h], e)
  BY <1>1, <1>2 DEF Kept, OwnTimes
<1>5. clock \in Th => clock \in Uh
  <2> SUFFICES ASSUME NEW s \in seen[h], s[1] = e, s[2] = clock PROVE clock \in Uh
    BY DEF KeyTimes
  <2>1. s[3] = clock
    BY <1>4 DEF OwnTimes
  <2>2. clock + DedupWindow >= clock
    BY <1>1, BoundsAssumption
  <2>3. s \in seen'[h]
    BY <1>1, <1>2, <2>1, <2>2
  <2> QED BY <2>3 DEF KeyTimes
<1>6. Stamps(M, B, items, Th, Tr, clock)
  BY <1>1 DEF Kept
<1>7. Stamps(M, B, items, Uh, Ur, clock)
  <2> HIDE DEF M, B, items, Th, Tr, Uh, Ur
  <2> QED BY <1>3, <1>5, <1>6 DEF Stamps
<1>8. Contents(M \cup B, items, entities[h][e], e \in tombstones[h], gossip[r][e])
  BY <1>1 DEF Kept
<1>9. InOrder(wire[h][r], e)
  BY <1>1 DEF Kept
<1> QED BY <1>2, <1>4, <1>7, <1>8, <1>9 DEF Kept

LEMMA KeptCollected ==
    ASSUME NEW h, NEW r, NEW e, Linked(h, r, e), NEW n \in Registry, CollectTombstones(n)
    PROVE  Kept(h, r, e)'
<1> DEFINE U == OnWire(wire[h][r], e) \cup InHand(work[r][h], e)
           items == Owed(todo[h], e)
           row == entities[h][e]
           dead == e \in tombstones[h]
           g == gossip[r][e]
<1>1. h \in Registry /\ r \in Registry /\ e \in Entity /\ TypeOK /\ Kept(h, r, e)
  BY LinkedParts DEF Linked
<1>2. UNCHANGED <<clock, entities, tombstones, todo, wire, seen, work>>
  BY DEF CollectTombstones
<1>3. gossip'[r][e] = IF n = r /\ g # NoRow /\ g.tombstoned THEN NoRow ELSE g
  BY <1>1 DEF CollectTombstones, TypeOK
<1>4. CASE gossip'[r][e] = g
  BY <1>1, <1>2, <1>4, KeptSame DEF Kept
<1>5. CASE gossip'[r][e] # g
  <2>1. g # NoRow /\ g.tombstoned /\ gossip'[r][e] = NoRow
    BY <1>3, <1>5
  <2>2. Contents(U, items, row, dead, g)
    BY <1>1 DEF Kept
  <2>3. Contents(U, items, row, dead, NoRow)
    <3> HIDE DEF U, items, row, dead, g
    <3> QED BY <2>1, <2>2, ContentsCollected
  <2> QED BY <1>1, <1>2, <2>1, <2>3 DEF Kept
<1> QED BY <1>4, <1>5

LEMMA KeptTicked ==
    ASSUME NEW h, NEW r, NEW e, Linked(h, r, e), Tick
    PROVE  Kept(h, r, e)'
<1> DEFINE M == OnWire(wire[h][r], e)
           B == InHand(work[r][h], e)
           Th == KeyTimes(seen[h], e)
           Tr == KeyTimes(seen[r], e)
           items == Owed(todo[h], e)
<1>1. /\ Kept(h, r, e) /\ clock \in Nat /\ h \in Registry /\ r \in Registry /\ TypeOK
      /\ M \subseteq Announcement /\ B \subseteq Announcement
  BY LinkedParts DEF Linked
<1>2. /\ UNCHANGED <<entities, tombstones, todo, wire, gossip, work, seen>>
      /\ clock' = clock + 1
  BY DEF Tick
<1>3. Stamps(M, B, items, Th, Tr, clock)
  BY <1>1 DEF Kept
<1>4. Th \subseteq Nat /\ Tr \subseteq Nat
  <2>1. \A s \in seen[h] \cup seen[r] : s[2] \in Nat
    BY <1>1 DEF TypeOK, Time
  <2> QED BY <2>1 DEF KeyTimes
<1>5. Stamps(M, B, items, Th, Tr, clock + 1)
  <2> HIDE DEF M, B, items, Th, Tr
  <2>1. \A x \in M \cup B : x.ts \in Nat /\ x.ts <= clock + 1 /\ x.ts # clock + 1
    BY <1>1, <1>3 DEF Stamps, Announcement, Time
  <2>2. \A t \in Tr \cup Th : t \in Nat /\ t <= clock + 1 /\ t # clock + 1
    BY <1>1, <1>3, <1>4 DEF Stamps
  <2>3. clock + 1 \notin Th
    BY <2>2
  <2> QED BY <1>3, <2>1, <2>2, <2>3 DEF Stamps
<1> QED BY <1>1, <1>2, <1>5 DEF Kept

\* Only faults count as faults, and only reconnecting adds connections.
LEMMA FaultsStay ==
    ASSUME [Next]_vars, \A r, p \in Registry : ~Disconnect(r, p),
           \A r \in Registry : ~Restart(r)
    PROVE  /\ faults' = faults
           /\ (\A r, p \in Registry : ~Reconnect(r, p)) => conns' = conns
<1>1. ASSUME Client PROVE UNCHANGED <<faults, conns>>
  BY <1>1 DEF Client, RegisterEntity, UpdateEntity, DeleteEntity
<1>2. ASSUME NEW r \in Registry, NEW p \in Registry, Handle(r, p)
      PROVE  UNCHANGED <<faults, conns>>
  BY <1>2 DEF Handle, Accept, Discard, Mark, Authorize, Reject, Apply
<1>3. ASSUME NEW r \in Registry, NEW item \in todo[r], Announce(r, item)
      PROVE  UNCHANGED <<faults, conns>>
  BY <1>3 DEF Announce
<1>4. ASSUME NEW r \in Registry, CleanDedup(r) \/ CollectTombstones(r)
      PROVE  UNCHANGED <<faults, conns>>
  BY <1>4 DEF CleanDedup, CollectTombstones
<1>5. ASSUME Tick \/ UNCHANGED vars PROVE UNCHANGED <<faults, conns>>
  BY <1>5 DEF Tick, vars
<1>6. ASSUME NEW r \in Registry, NEW p \in Registry, Reconnect(r, p)
      PROVE  faults' = faults
  BY <1>6 DEF Reconnect
<1> QED BY <1>1, <1>2, <1>3, <1>4, <1>5, <1>6 DEF Next, MeshNext

\* Every step keeps AgreeInv, when clients wait for their responses and for the
\* next second, and no deregistered entity comes back.
LEMMA AgreeStep ==
    ASSUME Sequential, Paced, ~Reregisters, MaxHops # 0,
           DirectInv, SearchInv, AgreeInv, [Next]_vars
    PROVE  AgreeInv'
<1> SUFFICES ASSUME faults' = 0
             PROVE  /\ conns' = Mesh
                    /\ \A e \in Entity : \A h, r \in Registry :
                          Homes[e] = {h} /\ r \in Mesh[h] => Kept(h, r, e)'
  BY DEF AgreeInv
<1>1. TypeOK /\ faults \in Nat /\ OwedMatches
  BY DEF DirectInv, TypeOK, SearchInv
<1>2. /\ \A r, p \in Registry : ~Disconnect(r, p)
      /\ \A r \in Registry : ~Restart(r)
  BY <1>1 DEF Disconnect, Restart
<1>3. faults = 0
  BY <1>1, <1>2, FaultsStay
<1>4. conns = Mesh
  BY <1>3 DEF AgreeInv
<1>5. \A r, p \in Registry : ~Reconnect(r, p)
  BY <1>4 DEF Reconnect
<1>6. conns' = Mesh
  BY <1>2, <1>4, <1>5, FaultsStay
<1>7. ASSUME NEW e \in Entity, NEW h \in Registry, NEW r \in Registry,
             Homes[e] = {h}, r \in Mesh[h]
      PROVE  Kept(h, r, e)'
  <2>1. Linked(h, r, e)
    BY <1>3, <1>4, <1>7 DEF AgreeInv, Linked
  <2>2. /\ Kept(h, r, e)
        /\ entities[h][e] # NoRow => e \notin tombstones[h]
    BY <2>1 DEF Linked, Kept, Contents
  <2>3. ASSUME NEW s \in Registry, NEW f \in Entity, NEW v \in Version,
               RegisterEntity(s, f, v)
        PROVE  Kept(h, r, e)'
    <3> DEFINE row == [ver |-> v, status |-> "active"]
               item == [entity |-> f, action |-> "register",
                        status |-> "active", ver |-> v]
    <3>1. row \in EntityRow /\ item \in Item /\ row # NoRow
      BY NullAssumption DEF EntityRow, Item, Action, Status
    <3>2. item.entity = f /\ Tells(item, row)
      BY <3>1 DEF Tells
    <3>3. Requests(s, f)
      BY <2>3 DEF RegisterEntity
    <3>4. \A i \in todo[s] : i.entity # f
      BY <1>1, <3>3, RequestFindsNone
    <3>5. s \in Homes[f] /\ ~SeenAt(s, f, clock)
      BY <3>3 DEF Requests
    <3>6. f = e => e \notin tombstones[h]
      BY <1>7, <2>3, <3>5 DEF RegisterEntity
    <3>7. /\ todo' = [todo EXCEPT ![s] = @ \cup {item}]
          /\ entities' = [entities EXCEPT ![s][f] = row]
          /\ UNCHANGED <<clock, tombstones, wire, seen, work, gossip>>
      BY <2>3 DEF RegisterEntity, Owe
    <3> HIDE DEF row, item
    <3> QED BY <2>1, <3>1, <3>2, <3>4, <3>5, <3>6, <3>7, KeptCommitted
  <2>4. ASSUME NEW s \in Registry, NEW f \in Entity, NEW v \in Version,
               UpdateEntity(s, f, v)
        PROVE  Kept(h, r, e)'
    <3> DEFINE row == [entities[s][f] EXCEPT !.ver = v]
               item == [entity |-> f, action |-> "update",
                        status |-> "active", ver |-> v]
    <3>1. entities[s][f] \in EntityRow
      BY <1>1, <2>4 DEF UpdateEntity, TypeOK
    <3>2. row \in EntityRow /\ row.ver = v /\ item \in Item
      BY <3>1 DEF EntityRow, Item, Action, Status
    <3>3. row # NoRow
      BY <3>2, NullAssumption
    <3>4. item.entity = f /\ Tells(item, row)
      BY <3>2, <3>3 DEF Tells
    <3>5. Requests(s, f) /\ entities[s][f] # NoRow
      BY <2>4 DEF UpdateEntity
    <3>6. \A i \in todo[s] : i.entity # f
      BY <1>1, <3>5, RequestFindsNone
    <3>7. s \in Homes[f] /\ ~SeenAt(s, f, clock)
      BY <3>5 DEF Requests
    <3>8. f = e => e \notin tombstones[h]
      BY <1>7, <2>2, <3>5, <3>7
    <3>9. /\ todo' = [todo EXCEPT ![s] = @ \cup {item}]
          /\ entities' = [entities EXCEPT ![s][f] = row]
          /\ UNCHANGED <<clock, tombstones, wire, seen, work, gossip>>
      BY <2>4 DEF UpdateEntity, Owe
    <3> HIDE DEF row, item
    <3> QED BY <2>1, <3>2, <3>4, <3>6, <3>7, <3>8, <3>9, KeptCommitted
  <2>5. ASSUME NEW s \in Registry, NEW f \in Entity, DeleteEntity(s, f)
        PROVE  Kept(h, r, e)'
    <3> DEFINE item == [entity |-> f, action |-> "deregister",
                        status |-> "active", ver |-> entities[s][f].ver]
    <3>1. item \in Item
      BY <1>1, <2>5 DEF DeleteEntity, TypeOK, EntityRow, Item, Action, Status
    <3>2. item.entity = f /\ Tells(item, NoRow)
      BY DEF Tells
    <3>3. Requests(s, f) /\ entities[s][f] # NoRow
      BY <2>5 DEF DeleteEntity
    <3>4. \A i \in todo[s] : i.entity # f
      BY <1>1, <3>3, RequestFindsNone
    <3>5. s \in Homes[f] /\ ~SeenAt(s, f, clock)
      BY <3>3 DEF Requests
    <3>6. f = e => e \notin tombstones[h]
      BY <1>7, <2>2, <3>3, <3>5
    <3>7. /\ todo' = [todo EXCEPT ![s] = @ \cup {item}]
          /\ entities' = [entities EXCEPT ![s][f] = NoRow]
          /\ UNCHANGED <<clock, tombstones, wire, seen, work, gossip>>
      BY <2>5 DEF DeleteEntity, Owe
    <3> HIDE DEF item
    <3> QED BY <2>1, <3>1, <3>2, <3>4, <3>5, <3>6, <3>7, KeptCommitted
  <2>6. ASSUME NEW s \in Registry, NEW item \in todo[s], Announce(s, item)
        PROVE  Kept(h, r, e)'
    BY <2>1, <2>6, KeptAnnounced
  <2>7. ASSUME NEW n \in Registry, NEW p \in Registry, Handle(n, p)
        PROVE  Kept(h, r, e)'
    BY <2>1, <2>7, KeptAccepted, KeptDiscarded, KeptMarked, KeptAuthorized,
       KeptRejected, KeptApplied DEF Handle
  <2>8. ASSUME NEW n \in Registry, CleanDedup(n) \/ CollectTombstones(n)
        PROVE  Kept(h, r, e)'
    BY <2>1, <2>8, KeptCleaned, KeptCollected
  <2>9. CASE Tick
    BY <2>1, <2>9, KeptTicked
  <2>10. CASE UNCHANGED vars
    BY <2>2, <2>10, KeptSame DEF vars, Kept
  <2> QED BY <1>2, <1>5, <2>3, <2>4, <2>5, <2>6, <2>7, <2>8, <2>9, <2>10
             DEF Next, Client, MeshNext
<1> QED BY <1>6, <1>7

\* What PeersConverge rests on, for every mesh: if clients wait for the response
\* and for the next second before they send another request about an entity, and a
\* deregistered one does not come back, then without a fault every direct peer that
\* has nothing under way shows exactly what the only home has. Neither the dedup
\* map, the authorization nor the tombstones of HandleAnnouncement lose anything.
THEOREM QuietPeersShowHome ==
    ASSUME Sequential, Paced, ~Reregisters, MaxHops # 0
    PROVE  Spec => []QuietPeersAgree
<1>1. Init => SearchInv
  BY DEF Init, SearchInv, OwedOnce, OwedMatches, IndexCovers
<1>2. Init => AgreeInv
  <2> SUFFICES ASSUME Init, NEW e \in Entity, NEW h \in Registry, NEW r \in Registry
               PROVE  Kept(h, r, e)
    BY DEF AgreeInv, Init
  <2>1. /\ wire[h][r] = << >> /\ work[r][h] = Idle /\ todo[h] = {} /\ seen[h] = {}
        /\ seen[r] = {} /\ entities[h][e] = NoRow /\ tombstones[h] = {}
        /\ gossip[r][e] = NoRow
    BY DEF Init
  <2>2. OnWire(wire[h][r], e) = {} /\ InOrder(wire[h][r], e)
    BY <2>1 DEF OnWire, InOrder
  <2>3. InHand(work[r][h], e) = {} /\ Owed(todo[h], e) = {}
    BY <2>1 DEF InHand, Owed
  <2>4. KeyTimes(seen[h], e) = {} /\ KeyTimes(seen[r], e) = {} /\ OwnTimes(seen[h], e)
    BY <2>1 DEF KeyTimes, OwnTimes
  <2>5. Stamps({}, {}, {}, {}, {}, clock)
    BY DEF Stamps
  <2>6. Contents({}, {}, entities[h][e], e \in tombstones[h], gossip[r][e])
    BY <2>1 DEF Contents, Shows
  <2>7. {} \cup {} = {}
    OBVIOUS
  <2> QED BY <2>2, <2>3, <2>4, <2>5, <2>6, <2>7 DEF Kept
<1>3. DirectInv /\ SearchInv /\ [Next]_vars => SearchInv'
  BY SearchStep DEF DirectInv
<1>4. DirectInv /\ SearchInv /\ AgreeInv /\ [Next]_vars => AgreeInv'
  BY AgreeStep
<1>5. AgreeInv => QuietPeersAgree
  <2> SUFFICES ASSUME AgreeInv, NEW e \in Entity, NEW h \in Registry, NEW r \in Registry,
                      Homes[e] = {h}, r \in Mesh[h], faults = 0, NothingDue(h, r, e)
               PROVE  Agrees(h, r, e)
    BY DEF QuietPeersAgree
  <2>1. Kept(h, r, e)
    BY DEF AgreeInv
  <2>2. {} \cup {} = {}
    OBVIOUS
  <2>3. Shows(gossip[r][e], entities[h][e])
    BY <2>1, <2>2 DEF Kept, NothingDue, Contents
  <2> QED BY <2>3 DEF Shows, Agrees, Visible
<1>6. QED
  BY <1>1, <1>2, <1>3, <1>4, <1>5, DirectCorrect, PTL DEF Spec

=============================================================================
