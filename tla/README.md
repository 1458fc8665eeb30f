# TLA+ verification of the Agent DNS registry

The specifications in this directory model the registry node of this
repository (`cmd/agentdns`, `internal/`): the mesh of registries, what they
gossip about entities, developers and names, how they watch entities for
liveness, how they search, and the DHT, caches and event bus of a node.
`PROJECT.json` lists the runs, the source lines behind each definition, the
hazards of the code and the theorems.

## The system

A *registry* is one process (`cmdStart`) with a PostgreSQL database, an HTTP
API, a mesh listener and background loops. Agents and services (*entities*)
register at a home registry over HTTP; registries connect to each other over
TCP and exchange announcements, heartbeats, searches and DHT messages on the
same connections.

| Component | State | Operations | Hard part | Correct means |
|---|---|---|---|---|
| Request handlers (`api/server.go`) | `entities`, `tombstones` tables | register, update, delete | commit, index and announce are separate steps; a restart in between | what is registered can be searched; peers learn of it |
| Gossip (`mesh/gossip.go`) | dedup map, `gossip_entities` | create, broadcast, handle, forward, clean the dedup window, collect tombstones | one goroutine per connection; check then mark; read then write; signatures over mutable fields | rows only change at the word of their pinned origin; peers converge |
| Transport (`mesh/transport.go`, `peers.go`, `bootstrap.go`) | map of connections, peer table, bloom filters | dial, accept, register, read loop, unregister, evict, stop | simultaneous dials; two locks; several goroutines per peer | no entry is left behind; stop returns |
| Entity heartbeats (`api/heartbeat.go`) | `last_heartbeat`, `status`, WebSocket sessions | open, first beat, beat, close | announcement before the write | a live entity is active everywhere |
| Liveness monitor (`api/monitor.go`) | ticker | sweep | boundary of the threshold; restart | a silent entity becomes inactive in bounded time |
| DHT (`internal/dht`) | k-buckets, record store, pending requests | Ping, Store, FindNode, FindValue, republish, expire | parallel queries, late answers, time-outs | lookups end, ask the closest node, report misses honestly |
| Federated search (`mesh/federated.go`, `transport.go`) | the lock, deadline and stream of each connection | fan out, collect, merge | two readers of one connection; locks held while waiting | every answer reaches its request; no lock is held for ever |
| Search engine (`internal/search`), ranking (`internal/ranking`) | keyword and vector index | index, remove, search, rebuild, rank | rows, two indexes and a search in any order; ties and clamped scores | results are live; exact matches are found; pages are pages of one list |
| Developers, handles, names (`api/server.go`, `internal/zns`, `store/postgres.go`) | `developers`, `zns_names`, `zns_versions` and their gossip tables | register, approve, update, delete, claim, verify, release, bind | several statements to a request and no transaction; competing claims; partial rows in announcements | a handle or name has one owner; peers resolve alike |
| Event bus (`internal/events`), rate limiter (`api/middleware.go`) | subscribers, bounded channels, token buckets | publish, subscribe, unsubscribe, allow, clean up | unsubscribe during publish, full channels, edges of the minute | no send on a closed channel; the rate holds |
| Card fetcher, LRU cache, Redis (`internal/card`, `internal/cache`) | LRU list and map, Redis entries with expiry | fetch, get, put, evict | one `Get` under three locks; a copy of a copy with a new expiry | never another entity's card, never one past twice its time |
| Embedders, tokenizer (`internal/search`) | none | embed | an HTTP embedder may fail | modelled by the failure only |
| Identity (`internal/identity`) | key files | sign, verify | cryptography | modelled by what a signature covers |

Interaction: a handler commits to the store, calls the search engine, then
`BroadcastAnnouncement`, which goes through the transport to the peers; each
peer's read loop calls `HandleAnnouncement`, which writes the gossip table,
calls the index callback and returns whether to forward. The heartbeat handler
and the monitor use the same broadcast. The DHT sends through the transport
and is called back from its read loops. The DHT is created by `cmdStart`, but
no code outside its tests calls its `Store` or seeds its routing table, so in
a deployed registry `FindValue` finds an empty table; `Lookup`, `Routing` and
`Records` are about the package as its tests use it.

## Modules

**Gossip** models the entity announcements. `entities`, `tombstones` and
`gossip` are the tables; `seen` is the dedup map; `wire[p][r]` is the TCP
stream of announcements from `p` to `r`; `work[r][p]` is the position of `r`'s
read loop for `p` inside `HandleAnnouncement`. A request handler is two steps:
the commit (`RegisterEntity`, `UpdateEntity`, `DeleteEntity`), which leaves an
item in `todo`, and `Announce`, the rest of the handler. `HandleAnnouncement`
is cut where it releases a lock or queries the database: `Accept`/`Discard`
(hop count, signature, dedup check), `Mark`, `Authorize`/`Reject`
(`verifyOriginAuthorization`), `Apply` (the write, the index callback, the
forwarding). `Disconnect`, `Reconnect` and `Restart` are the faults:
announcements on a broken connection are lost, and a restart keeps the tables
and rebuilds the index from `entities` alone. A signature is a pair of hop
counts, the current one and the one that was signed: `json.Marshal` of the
announcement includes `hop_count`, the only field changed on the way.
Announcements are stamped in whole seconds of `clock`, as RFC 3339 without a
fraction is. `Announce` joins the index update, the tombstone and the broadcast
in one step, and `RebuildIndexes` reads the whole table, without its limit of
100000 rows. Registries in this model are honest and database statements
succeed.

**Liveness** extends Gossip with the heartbeat sessions and the monitor. A
valid first message is two steps, `FirstBeat` (the announcement) and `Beat`
(`UpdateEntityHeartbeat`), in the order of the code. `Sweep` is the one SQL
update with its announcements queued behind it. `LiveTick` lets no second pass
while a sweep is due: the ticker is taken to be punctual to the second.

**Transport** models links. A link has two goroutines, one at each end, each
going through `hello`, `checked`, `mapped`, `reading`, `closing`, `unmapped`,
`done`, the dialer from `dialing` on; the steps are the critical sections of
`handleInbound`, `ConnectTo`, `registerPeer`, `unregisterPeer` and the peer
manager. A duplicate is looked up in one critical section and registered in
another. A dial and its outcome are two steps, and nothing in `ConnectTo` looks
at `stopCh`: a dial under way when the registry is stopped goes on and registers
its peer after `Stop` has walked the map, and a read loop whose read began
before may still get a heartbeat and dial the peers it names. Which peer is
evicted from a full table depends on timestamps and is left open.

**Lookup** models one DHT operation. A lookup compares nodes only by their
distance to its key, so nodes are named by that distance. Each round has its
query goroutines, a channel with room for one result each, and a collector
that may be interrupted by the lookup's context; goroutines outlive the lookup
that started them. The nodes asked run `HandleMessage`, which first adds the
sender to their table, with the outcomes `AddNode` can have. `Closest` is the
sort by distance with its cut, written as what stands in each place, and
`Without` a filter that keeps the order: the prover can expand neither of the
library's `SortSeq` and `SelectSeq`.

**NameRegistry** is the abstract specification of the naming service: `owner`
(pairs of handle and developer), `binding` (entity of a name) and `registered`,
with the steps claim, release, bind, unbind, register and deregister. A handle
or name in use cannot be taken over, and an entity with names cannot go.

**Names** is the detailed one. Each SQL statement of the handlers for
developers, handles, names and entities is an action, since nothing joins two
of them in a transaction; `job[c]` is the request of client `c` between two
statements, with what the handler has read. The checks of a handler and the
conditions of a statement (`UNIQUE (dev_handle)`, `WHERE dev_handle IS NULL`,
`ON CONFLICT`) are separate, as they are in the code. `wire` is the stream of announcements to one peer,
with the peer's dedup keys and gossip tables. Crashes may cut a request short
after any statement and connections may be lost. `Abstract == INSTANCE
NameRegistry` maps the tables to the registry's variables. `disturbed` is a
history variable: the developers and names about which requests overlapped or
an announcement was lost, for the properties that are only promised otherwise.
Two more are for the version history, which `VersionsKept` follows whether or not
requests overlap: `torn`, the versions of which a crash came between the row and
the history, and `pulled`, the names deleted while a request had yet to write to
them.

**Search** has the writers of the tables, the two index updates that follow a
write (`work`), and one search at a time: both index searches, the merge, the
exact-match pass, the gossip search in its own goroutine, the federated
answers, then deduplication, ranking, threshold and page. Each reads what it
reads in a step of its own; the `GetEntity` calls for the hits are one step, and
so is the loop over the gossip entries. Scores are integers given by the content
of a document (tenths; hundredths for the weighted sum), so that the order, the
clamping to 1 and ties are those of the code without its floating point. The
freshness of an entry depends on the time of the request, so it is chosen anew
for every entity and request, out of `Freshness`.
`lived` and `steadfast` are history: what was searchable at some moment of the
search, and what matched exactly during all of it. An answer keeps both.

**Link** is one TCP connection with everything that uses it at both ends: the
read loops, `SendSearchRequest`, `SendDHTRequest` with the table of pending
requests, and heartbeats. A frame is written and read in two parts, its length
and its payload, and a write may fail before either (`WriteFails`). `Close` ends
the connection at both ends in one step. `mu` is `pc.mu`, `fd` the Go runtime's lock for readers, `late` the read deadline,
which belongs to the connection and not to a reader. `blame` collects why a
connection may have broken.

**Routing** is a k-bucket and the handlers of `AddNode`, one in the read loop of
each link: look up or add, ping the least recently seen contact without a lock,
then move or evict. A contact may have several links. **Records** is the ages of
a record's copies: STORE messages start them, and so do the values that lookups
find and keep. **Cards** is `FetchCard` through both caches,
with `LRUCache.Get` cut at its locks. **Gateway** is the rate limiter and the
event bus; the history `granted` counts the requests let through in the last
ticks, for each number of ticks up to a minute.

`MCGossip`, `MCLiveness`, `MCTransport`, `MCLookup`, `MCNames`, `MCSearch` and
`MCLink` hold the topologies, inputs and initial states of the runs. `MCNode`
puts Routing, Records, Cards and Gateway side by side: they share no state, so
`focus` picks the one that moves. The theorems are in `GossipProofs`,
`LivenessProofs`, `TransportProofs`, `LookupProofs`, `NamesProofs`,
`SearchProofs`, `LinkProofs` and, for the four parts of MCNode, `NodeProofs`.

## Runs

| Run | Checks | Bounds |
|---|---|---|
| `gossip_safety` | `TombstonesHaveCause`, `HomeIsSearchable`, `RowsAreFaithful`, types | line a-b-c, the entity has homes a and c (so b sees two origins), 4 requests (both homes register and deregister), 2 seconds, one fault, dedup window 0 so that keys are forgotten while copies travel |
| `gossip_converge` | `PeersConverge` | the line, one home, 3 requests in different seconds, no faults |
| `gossip_hops` | violation of `RegistrationsReachMesh` | as above |
| `liveness_sweep` | `FreshIsActive`, `OverdueIsInactive`, types | one registry, threshold and sweep interval 1, 5 seconds, 4 requests or sessions, one restart |
| `transport_tables` | `EntriesHaveLoops`, `OrphansComeFromDuplicates`, `PeersBounded`, `StopCompletes`, types | three registries, two links (enough for a duplicate, or for two peers competing for the one place of the table), one stop |
| `lookup_rounds` | `ClosestKept`, `ClosestAsked`, `MissIsHonest`, `OperationReturns`, types | five nodes, K = 3, Alpha = 2, so that contacts remain unasked after a round and the cut to K takes place |
| `names` | `NamesAreOwned` (refinement of NameRegistry), `PeersResolveAlike`, `PeersKnowDevelopers`, `VersionsKept`, `VerifiedHasHandle`, types | two developers compete for one handle, two entities for one name; two clients (any two requests overlap), 3 requests on a registry that already has a name (enough to release, take again and delete), two versions of the name, two seconds, one lost connection |
| `search` | `IndexCounts`, `ResultsWereLive`, `ExactMatchesFound`, `PagesOfOneList`, types | three entities, of which one in both tables; four contents (name match, tag match, word, none); limit 2 and pages of 1, so that the limit cuts and pages succeed; freshness 0 or 0.7, so that an entry crosses others and the threshold; 2 writes or restarts and 2 searches |
| `search_duplicates` | violation of `DuplicateOfHighestScoreKept` | as above |
| `link` | `LinkBreaksForCause`, `AnswersMatch`, `LocksReleased`, types | four scenarios of two or three users of a connection: two searches of one node, a search of each node, a search beside a DHT request, a DHT request beside heartbeats |
| `link_replies` | violation of `OnlyRequestsAnswered` | as above |
| `node_parts` | `PlacesHaveLinks`, `IndexMatchesList`, `CardsAreRecent`, `MinuteBounded`, `NeverSendsOnClosed`, `RecordsLapse`, types | bucket of 2 with four contacts (two wait to replace), one of which has two links; two holders of a record; two fetches, two keys, an LRU cache of 1; rate 2; two publishers, two streams, channels of 1 |

The runs other than `node_parts` do not check for deadlock: the bounded
counters of their models (requests, time, links) run out, and a lookup ends.
In `node_parts` nothing is counted, and no part may get stuck.

What the runs show, beyond the passing properties:

* An announcement never gets further than one hop. Forwarding increments
  `HopCount`, which is under the signature, and the next registry rejects it.
* A peer's row is checked against the announcement before it is written, and may
  have been collected and written anew in between. `TombstonesHaveCause` says
  that a deregistration by one home all the same does not reach a row that is
  pinned to another. It asks that homes do not register an entity again: then the
  second of two deregistrations can pass the check against the tombstoned row and,
  after a collection, mark the new row of the other home.
* The dedup key has no action, so two announcements about an entity in one
  second are one: a deregistration in the second of the registration does not
  reach the peers. `PeersConverge` holds only for requests a second apart, and
  `PeersResolveAlike` counts such an announcement as lost. Registering a
  developer and claiming a handle in one second is the same case.
* `active` is announced once per connection and before the store is written; a
  sweep in between, or a pause on an open connection, leaves the peers with
  `inactive`.
* Two registries that dial each other together keep two links; the end of one
  removes the entry of the other, whose read loop goes on unlisted.
  `OrphansComeFromDuplicates` says that nothing else has this effect.
* A contact named by several answers of a lookup is kept several times, and the
  copies use up the K places, so `Store` may reach fewer nodes than it knows.
* Non-ping DHT messages carry no address and write an empty one over the
  contact's, which then fails its pings and is evicted although it lives. An
  eviction takes the head of the bucket, which need not be the contact that was
  pinged, and puts the sender in without looking for it, so a contact with two
  links may be in a bucket twice. `PlacesHaveLinks` says that this is the only
  way: a contact never has more places than links. The ping of a full bucket runs
  in a read loop, which reads nothing until the answer or the 5 s time-out.
* Republished STOREs renew the copies at other nodes, and a lookup keeps what it
  finds as a new copy, so that nodes which go on sending to each other or asking
  each other keep a record for ever. `RecordsLapse` is what is left.
* A federated search holds `pc.mu` until it has an answer. On an idle
  connection the read loop is already waiting and takes the answer, so the
  search ends with its deadline; the deadline is the connection's, so that the
  read loop ends with it. `AnswersMatch` excludes only connections on which an
  earlier exchange was given up: request IDs of answers are not compared.
* A DHT reply that comes too late is answered as if it were a request, and that
  answer again, for as long as the connection lasts.
* An entity in two sources keeps the candidate that came first, since the
  deduplication precedes the scoring. Federated scores are overwritten, gossip
  scores are not normalised, and the entity-type filter drops all federated
  results. `PagesOfOneList` is stated for lists without ties (the answer keeps
  in `tied` whether two of its candidates had equal sums): candidates come out
  of a Go map, so equal scores may change places between pages. Go maps and
  tables without an order also decide which hits a limit cuts off, which keyword
  hit is the first for the gossip scores, and which source an entity of both
  tables is kept from; `Determined` says that the request leaves no such choice.
  It also takes requests so close together that every entry is as fresh at the
  second as at the first: the decay lets entries of different age change places,
  or drop below `min_score`, over unchanged data.
* Deleting an entity deletes its names without announcing it, and releasing a
  handle leaves the names under it: `PeersResolveAlike` excepts them.
  `UpdateHandleVerification` marks the developer whatever its handle is by
  then, which `VerifiedHasHandle` excepts by asking for requests that do not
  overlap. Handle announcements erase the profile links at the peer, and
  the handle columns of the gossip table are never written; tombstoned developers
  are not hidden.
* A name and its version history are separate statements. `VersionsKept` has
  exactly two exceptions, and TLC finds each of them when it is left out: a crash
  between the two leaves the current version out of the history (as does a
  `CreateZNSVersion` that fails, whose error is not looked at), and a request
  whose name is deleted, and perhaps taken by another entity, before it writes
  gives the name a history that is not its own.
* After `Stop` a dial under way still registers its peer. `StopCompletes` holds,
  because the new read loop looks at `stopCh` before its first read.
* `LRUCache.Get` can leave elements in the list that the map has lost; they
  count against the size until they are evicted, and `IndexMatchesList` says
  that nothing worse happens. A card from Redis enters the LRU cache with a new
  expiry, hence twice the time to live in `CardsAreRecent`.
* The limiter refills in one go, so a minute across a refill lets through up to
  `2 * Rate - 1` requests.

## Fairness

Goroutines that can run do run: each read loop, each pending announcement and
time in Gossip (`names` and `search` check safety only); the operation's goroutine and each query in Lookup, because
`SendDHTRequest` gives up after 5 seconds. In Transport a goroutine may stay
in its read loop only while the link is open, its registry runs and the peer
sends on that link: every read has a deadline (10 s in the handshake, 90 s in
the loop) and looks at `stopCh` afterwards, and a dial ends within 10 s. Clients,
faults, garbage collection and the beginning of dials are never forced. In Link, writers and readers that can
proceed do, and deadlines pass, because both readers set one before every
read; a reader that contends for the runtime's read lock gets it in the end
(strong fairness), since that lock queues its waiters. `pc.mu`, DHT time-outs
and failures of the network are not forced. In Records time passes and the
expiry ticker fires. `PeersConverge` has no faults, since
what is lost with a connection is not sent again.

## Proofs

`GossipProofs`, for every mesh, set of entities and value of the bounds, from
the assumptions on the constants in Gossip (the mesh is symmetric and without
self-loops, null values differ from rows):

* `TypeCorrect`: `Spec => []TypeOK`.
* `RowsStayFaithful`: `Spec => RowsAreFaithful`, an action property: the
  pinned key and the tombstone of a row survive every step but its collection.
* `HomeStaysSearchable`: `Spec => []HomeIsSearchable`, on the hypothesis
  `Sequential` that a client waits for its response, which all gossip runs make
  and without which it is false. `SearchInv`: a registry owes the rest of at
  most one request about an entity (`OwedOnce`), and that request agrees with
  the row (`OwedMatches`), so that the last `Announce` or a restart leaves the
  index covering the table.
* `TombstonesStayCaused`: `Spec => []TombstonesHaveCause`, on the hypotheses
  that clients wait (`Sequential`) and that no entity is registered again.
  `CauseInv`: a home that announced a deregistration has no row and owes no other
  (`GoneForGood`), so a peer gets at most one such announcement from it, on the
  wire or in hand, and a row that it was checked against is still there, with the
  same key, when it is applied (`Farewells`): only that announcement tombstones
  the row, and only a tombstoned row is collected.
* `QuietPeersShowHome`: `Spec => []QuietPeersAgree`, what `PeersConverge` rests
  on, under the hypotheses of its run: requests about an entity wait for each
  other (`Sequential`) and are a second apart (`Paced`), a deregistered entity
  does not come back (`~Reregisters`), `MaxHops` is not 0. As long as there was
  no fault, a direct peer of the only home of an entity, to which nothing about
  it is owed, on the wire or in hand, shows exactly what the home has. The
  property is about rest and the invariant `AgreeInv` about the way there: of
  what is under way the latest announcement tells the home's row, a
  deregistration is the last of all, and with nothing under way the peer's row
  shows it (`Contents`); announcements of an entity are on the wire in the order
  of their timestamps (`InOrder`), and what is on the wire has a timestamp that
  the peer's dedup map does not have (`Stamps`). The last is why none is
  discarded as a duplicate, and it needs the pace: the home stamps in whole
  seconds, and the key of now is in its own map until the second is over, also
  when the map is cleaned (`OwnTimes`).

`LivenessProofs`, on top of the invariants of Gossip and for every threshold,
interval and number of faults:

* `LiveTypeCorrect`: `LiveSpec => []LiveTypeOK`.
* `FreshStaysActive`: `LiveSpec => []FreshIsActive`. Inductive once rows without
  a heartbeat are known to be new (`NoRowNoBeat`): an entity that is registered
  again must not inherit a heartbeat.
* `OverdueBecomesInactive`: `LiveSpec => []OverdueIsInactive`. The sweep is
  never overdue itself (`MonitorOnTime`), and an entity that is still active has
  a sweep coming before its bound (`SweepInTime`), a bound that a restart moves
  by one interval as it moves the sweep.

`TransportProofs`, for every number of registries and links:

* `TypeCorrect`: `Spec => []TypeOK`. A link is open only while both its
  goroutines hold it, whichever way they leave (`LeftAreClosed`).
* `NothingLeaks`: `Spec => []EntriesHaveLoops`. The
  property is inductive together with the types; the steps that matter are the
  removals, where the entry of a peer may be deleted by the goroutine of
  another link but never the other way round.
* `PeerTableFits`: `Spec => []PeersBounded`. A table is finite and within the
  limit (`TablesFit`); the step that matters evicts before it adds
  (`AddPeerFits`).
* `OrphansHaveCause`: `Spec => []OrphansComeFromDuplicates`. `OrphanInv` says
  the same of goroutines between the two halves of `registerPeer`, which may
  have lost their place in the map before they start to read.
* `GoroutinesHaveSteps`: `Spec => []GoroutinesCanEnd`, and `StopDrains`: `Spec =>
  StopOnlyDrains`, an action property, the safety part of `StopCompletes`. A
  goroutine that has begun has a link (`BegunHaveLinks`) and a full table has
  somebody to evict, so no stage is a dead end; and once a registry is stopped,
  every step of a goroutine of it leaves fewer of its at most seven steps
  (`StepsLeft`), dials under way included. The only ones to begin are dials for
  which a read loop is still in the read it was in when `stopCh` was closed, and
  no loop begins another read (`Nears`, `LastHeartbeat`). With the fairness of
  Transport that is `StopCompletes`.

`LookupProofs`, for every number of nodes, K and Alpha above zero, all routing
tables in which nobody lists itself and any holders of the record:

* The lemmas about lists come first: `LeastOf` and `LargestOf` (a set of numbers
  has a least one, a finite one a largest), `ClosestProperties` (the sort
  returns contacts of its list, at most so many, the nearest first, and loses
  none when they fit), `ListOfSet`, `WithoutProperties`, `FindClosestProperties`.
* `LookupTypeCorrect`: `Spec => []TypeOK`, inductive with `Stages`. The part
  that matters is the count of a round: results collected, on the channel and
  still under way are never more than the nodes asked.
* `ClosestIsKept` and `ClosestIsAsked`. `NearInv`: the nearest of all contacts
  the lookup was given is in its list (`Known`), first between two rounds
  (`NearestFirst`), and has been asked once a round brings nothing new
  (`NearestAsked`). `Known` holds when a reply comes in because what it leaves
  out has been queried, and what has been queried was known before.
* `MissesAreHonest`: `Spec => []MissIsHonest`. `Accounted`: a node that holds
  the record and was asked for it has failed, is still being asked, or has its
  answer on the channel; the end of a round leaves only the first.
* `ChannelNeverBlocks`: `Spec => []NobodyBlocks`, and `RoundsAreFew`: `Spec =>
  RoundsAskMore`, an action property, the safety part of `OperationReturns`.
  `AllCounted`: results collected, on the channel and under way are exactly the
  nodes asked, so that a sender finds room, also after the lookup has returned,
  and a round without senders has something to collect or is over. Each round
  asks a node that was not asked before, so there are no more rounds than nodes.

`NamesProofs`, for any number of developers, handles, names, entities and
clients, any number of faults, and any interleaving of statements, from the
assumption that SQL NULL is not a value of a column, a row or a gossip row:

* `TypeCorrect`: `Spec => []TypeOK`. Rows are written from what a request
  carries, so the invariant `Inv` says of each request which of its fields the
  next statement needs (`Ready`), and of each announcement which row it makes
  (`GoodAnn`).
* `ImplementsNameRegistry`: `Spec => NamesAreOwned`, the refinement. Each
  statement is shown to be a step of NameRegistry or to leave its variables
  alone. `RowWritten` does this for the developers table: a statement changes
  one row, whose handle stays, goes from none to a free one (`ClaimStep`) or
  goes to none (`ReleaseStep`), and the `WHERE` clauses admit nothing else. The
  names are `BindStep` and `UnbindStep`, the entities `RegisterStep` and
  `DeregisterStep`; the last is a step because the foreign key of `zns_names`
  refuses to delete an entity to which a name was bound after `DropNames`.
* `HistoryIsKept`: `Spec => []VersionsKept`, which asks for nothing about overlaps.
  `KeptInv` says of a name that was not pulled that its history is of its entity,
  that its current version is covered (in the history, owed by a request, or
  torn, `Covered`), and that a request which is to write to it still finds the
  entity it has read (`WriteRight`).
* `PeersAgreeOnNames`, `PeersAgreeOnDevelopers` and
  `VerifiedKeepsHandle`: `Spec => []PeersResolveAlike`, `[]PeersKnowDevelopers`
  and `[]VerifiedHasHandle`, from one invariant. `PeerInv` says
  that requests about an undisturbed name or developer do not overlap
  (`NoOverlap`), that a request which still owes an announcement owes one that
  is right about the tables (`NameInv`, `DevInv`), and that otherwise the last
  announcement about it on the wire is right, or the peer is right already when
  there is none (`Settled`).

`SearchProofs`, for any entities, contents, scores, requests and limits:

* `SearchTypeCorrect`, and `CountsAgree`: `Spec => []IndexCounts`. Both are
  parts of `TypeInv`; `Recount` is the lemma that removing and adding one
  document changes the counts by one.
* `PagesWereLive`: `Spec => []ResultsWereLive`. `LiveInv` follows a candidate
  from the tables through hits, findings and sources to the page: everything a
  search has found lived since it began (`FoundLived`, `SeenNow`). An index may
  be behind its table by any number of updates.
* `ExactMatchesAreFound`: `Spec => []ExactMatchesFound`, on the hypothesis
  `MinScore <= 95`: above that the age of the entity decides, since an exact match
  that nothing else supports scores 0.95 and a tenth of its freshness. `ExactInv`: before
  the exact-match pass no source has the entity (`NotYet`), after it the first
  source that has it has the local, exact candidate (`Held`), since peers are
  asked last (`PeersLast`); the deduplication keeps the first, and its score of at
  least 95 passes the threshold.
* `PagesAreOfOneList`: `Spec => []PagesOfOneList`, for every request, offset,
  page size and score. `PagesInv`: a search during which nothing was written has
  read, in each of its steps, what the tables and indexes hold now
  (`Undisturbed`), and so an answer from then is explained by the data of now
  (`AnswersExplained`): its list is sorted from candidates that are a function
  of tables, indexes, freshness and the peers' answers, up to the choices that `Determined`
  excludes and the order in which the goroutines of the search finish. That order
  changes the sequence of the sources and not the set of candidates, since no
  entity is in both tables and peers come last. A set without ties can be
  sorted in one way only, so both pages are cut from one list.

`LinkProofs`, for any number of searches, DHT requests and heartbeats on one
connection, from assumptions that say only that these are different things:

* `LinkTypeCorrect`: `Spec => []TypeOK`, with `Shape`, which ties the phase of a
  goroutine to what it holds, reads and writes.
* `ResultsAreOwn`: `Spec => []AnswersMatch`. `AnswersInv`: a request and its
  answer are in one place at a time (`OnePlace`), travel in the right direction
  (`OnTheirWay`), and one that is still on its way belongs to a search that
  waits or was given up (`OutstandingFor`).
* `BreaksForCause`: `Spec => []LinkBreaksForCause`. `BlameInv`: while nothing is
  blamed, the stream is aligned: one reader and one writer between two parts of
  a frame, lengths and payloads alternate, and what comes next is what the
  reader expects (`Aligned`). That writers with `pc.mu` do not mix is
  `LockHeld`.
* `LocksAreHeldAtWork`: `Spec => []HoldersMove`, the safety part of
  `LocksReleased`: whoever holds `pc.mu` is a goroutine of that node between its
  `Lock` and `Unlock` on an open connection (`HoldersWork`), and does not wait
  for another lock; a search that waits for the runtime's read lock waits for a
  reader that reads. No return of `SendSearchRequest` leaves the lock behind, and
  nobody is left at work when the connection is closed (`ClosedRests`).

`NodeProofs`:

* `ContactsTakeTheirPlaces`: `RoutingSpec => []PlacesHaveLinks`, for any number of
  contacts and links and any K. Inductive with the types; the lemmas follow the
  assignment of places to links (`LinksFor`) through a move to the tail and an
  eviction. A handler that evicts gives the new place its own link, which no place
  has, because it has been waiting for the ping.
* `PublishIsSafe`: `GatewaySpec => []NeverSendsOnClosed`, for any number of
  publishers and streams. `BusInv` says that publishers with the lock have only
  subscribers left to visit and those without it none (`VisitsSubscribers`), and
  that a channel is closed exactly when its stream is over, which is no longer
  subscribed (`StreamsMatch`): a stream leaves only when no publisher has the
  lock.
* `RateHolds`: `GatewaySpec => []MinuteBounded`, for any rate, minute and number
  of clients. `WindowFits`: the requests since the last reset of a bucket and
  the tokens left make up the rate, with the request that reset it; older ones
  in the window come from a bucket whose own first request is already out of it.
* `CacheMapMatchesList` and `ShownCardsAreRecent`: `CardsSpec =>
  []IndexMatchesList` and `[]CardsAreRecent`, for any size and time to live and
  a finite number of fetches. `CardsInv` says what a fetch holds at each of its
  steps and that an element somebody holds keeps its key and its card; a new
  element is always to be had because the list and the other fetches use fewer
  than there are.
* `NodeTypeCorrect`: `Spec => []NodeTypeOK` of MCNode, from the invariants of the
  four parts, which share no variable.
* `CopiesOnlyAge`: `Spec => [][OnlyArrivalsRenew]_recordVars`, the safety part of
  `RecordsLapse`: only a STORE that arrives, or the answer to a lookup of the node
  itself, makes a copy younger; republishing, restarts, sweeps and time do not.
  `DeadStaysDead`: a record of which nothing is left does not come back.

Induction over numbers, where it is needed (a least element, sorting, counting),
is by a least counterexample: finite sets are well founded under inclusion,
which the library states without an operator as parameter.

Only model-checked: `PeersConverge`, `StopCompletes`, `OperationReturns`,
`LocksReleased` and `RecordsLapse`, which are liveness under fairness and out of
the prover's reach. What each of them needs of the states and steps is proved:
`QuietPeersShowHome`, `GoroutinesHaveSteps` and `StopDrains`,
`ChannelNeverBlocks` and `RoundsAreFew`, `LocksAreHeldAtWork`, and
`CopiesOnlyAge`. What is left to TLC is that the fair steps are then taken. Every
invariant and every safety property of a passing run is a theorem.

## Not modelled

Ed25519 and key files; HTTP parsing and validation (a request that is refused
changes nothing); SQL failures other than a missing or conflicting row; the
bits of bloom filters, and so which peers a federated search asks; reciprocal
rank fusion, the values of the freshness curve, embedding models and the tokenizer (floating
point); DNS and TLS checks and remote name resolution (network); the
announcements of registry proofs and attestations, which no code sends; command
line, configuration, migrations; generated API documentation. `RemoveNode`,
`MarkSeen`, `InvalidateCache` and the Redis functions for searches, bloom
filters, rate limits and peers have no callers.

Several clients that change one entity at the same time (the order of their
announcements, `server.go:1108`, and lost updates, `server.go:1061`) are left
open: the code promises nothing there, and the entity runs take clients one at
a time.

## Plan

Modelled, checked and, where the prover can, proved: Gossip, Liveness,
Transport, Lookup, Names with NameRegistry, Search, Link, Routing, Records,
Cards, Gateway.

Left: concurrent clients of one entity in Gossip, once the code orders their
announcements.
