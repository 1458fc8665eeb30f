-------------------------------- MODULE Names --------------------------------
(***************************************************************************)
(* Developers, their handles and the names of the Zynd Naming Service at   *)
(* one registry (internal/api/server.go, internal/store/postgres.go), and  *)
(* what a direct peer makes of the announcements about them                *)
(* (internal/mesh/gossip.go).                                              *)
(*                                                                         *)
(* Each SQL statement is atomic and nothing joins two of them: a handler   *)
(* reads rows, checks, and writes with statements that requests of other   *)
(* clients come between. job[c] is the request that client c waits for:    *)
(* the statement that comes next and what the handler has read. A request  *)
(* that is refused without a write changes nothing and is not an action.   *)
(* A developer, and an entity, stands for its key: signatures are valid,   *)
(* and an identifier belongs to one key.                                   *)
(*                                                                         *)
(* Registry host, tags, times and signatures of the rows are left out; the *)
(* entity announcements of the handlers are in module Gossip. Forwarded    *)
(* announcements do not verify (see Gossip), so the peer hears of a row    *)
(* from its home only.                                                     *)
(***************************************************************************)
EXTENDS Naturals, Sequences

CONSTANTS
    Dev,          \* the developers
    Handle,       \* handles that ValidateHandle accepts
    EntityName,   \* names that ValidateAgentName accepts
    Entity,       \* the entities
    Version,      \* version strings
    Text,         \* developer names
    Link,         \* profile links
    Client,       \* the clients: each has one request at a time
    MaxRequests,  \* bound: the number of requests of a run
    MaxSecond,    \* bound: the last second of a run
    MaxFaults,    \* bound: the number of connections lost
    None          \* SQL NULL, the empty string, and no row

\* zns.BuildFQAN; the registry host is the same for all names.
FQAN == Handle \X EntityName

Opt(S) == S \cup {None}

ASSUME NamesAssumption ==
    /\ None \notin Dev \cup Handle \cup EntityName \cup Entity \cup Version
                   \cup Text \cup Link
    /\ {MaxRequests, MaxSecond, MaxFaults} \subseteq Nat

VARIABLES
    developers,  \* the developers table
    entities,    \* entities[e]: the owner in the row of e
    names,       \* the zns_names table
    versions,    \* versions[f][v]: the entity in the zns_versions row
    job,         \* job[c]: the request of client c
    wire,        \* announcements on the connection to the peer
    gdevs,       \* the peer's gossip_developers table
    gnames,      \* the peer's gossip_zns_names table
    seen,        \* the peer's dedup map
    second,      \* the time of announcements, RFC 3339 without a fraction
    requests,    \* requests so far
    faults,      \* connections lost so far
    disturbed,   \* the developers and names of which an announcement was lost
                 \* or never sent, or whose requests overlapped
    torn,        \* the names and versions of which a crash came between the
                 \* name's row and its history
    pulled       \* the names deleted while a request had yet to write to them

home == <<developers, entities, names, versions>>
peer == <<gdevs, gnames, seen>>
vars == <<developers, entities, names, versions, job, wire, gdevs, gnames,
          seen, second, requests, faults, disturbed, torn, pulled>>

Subject == Dev \cup FQAN

DevRow == [name : Text, links : Opt(Link), handle : Opt(Handle),
           verified : BOOLEAN]
NameRow == [entity : Entity, version : Opt(Version)]
GossipDev == [name : Text, links : Opt(Link), handle : Opt(Handle),
              tombstoned : BOOLEAN]
GossipName == [entity : Entity, version : Opt(Version), tombstoned : BOOLEAN]

ASSUME NullAssumption == None \notin DevRow \cup NameRow \cup GossipDev \cup GossipName

\* The fields of a developer_announce, dev_handle or name_binding message
\* that its receiver uses. The subject is the ID in the dedup key.
\* Its receiver treats "update" as "register" (for names here "bind") and
\* "verify" as "claim".
Announcement == [action : {"register", "deregister", "claim", "release",
                           "bind", "unbind"},
                 subject : Subject, name : Opt(Text), links : Opt(Link),
                 handle : Opt(Handle), entity : Opt(Entity),
                 version : Opt(Version)]

Step == {"idle", "createDeveloper", "updateDeveloper", "deleteDeveloper",
         "claimHandle", "releaseHandle", "verifyHandle", "createEntity",
         "lookUpName", "createName", "updateName", "deleteName",
         "createVersion", "deleteNames", "deleteEntity", "announce"}

Job == [step : Step, dev : Opt(Dev), name : Opt(Text), links : Opt(Link),
        handle : Opt(Handle), ename : Opt(EntityName), entity : Opt(Entity),
        version : Opt(Version), newVersion : Opt(Version),
        out : Seq(Announcement)]

NoJob == [step |-> "idle", dev |-> None, name |-> None, links |-> None,
          handle |-> None, ename |-> None, entity |-> None, version |-> None,
          newVersion |-> None, out |-> << >>]

\* What a request carries to its next statement: about developer d, about
\* name f, or about entity e, for which name n may be asked.
DevJob(step, d, t, l, h) ==
    [step |-> step, dev |-> d, name |-> t, links |-> l, handle |-> h,
     ename |-> None, entity |-> None, version |-> None, newVersion |-> None,
     out |-> << >>]
NameJob(step, f, e, v, new) ==
    [step |-> step, dev |-> None, name |-> None, links |-> None,
     handle |-> f[1], ename |-> f[2], entity |-> e, version |-> v,
     newVersion |-> new, out |-> << >>]
EntityJob(step, d, e, n, v) ==
    [step |-> step, dev |-> d, name |-> None, links |-> None, handle |-> None,
     ename |-> n, entity |-> e, version |-> v, newVersion |-> v,
     out |-> << >>]

\* Every table, message and request keeps its type.
TypeOK ==
    /\ developers \in [Dev -> Opt(DevRow)]
    /\ entities \in [Entity -> Opt(Dev)]
    /\ names \in [FQAN -> Opt(NameRow)]
    /\ versions \in [FQAN -> [Version -> Opt(Entity)]]
    /\ job \in [Client -> Job]
    /\ wire \in Seq([body : Announcement, at : Nat])
    /\ gdevs \in [Dev -> Opt(GossipDev)]
    /\ gnames \in [FQAN -> Opt(GossipName)]
    /\ seen \in SUBSET (Subject \X Nat)
    /\ second \in Nat /\ requests \in Nat /\ faults \in Nat
    /\ disturbed \in SUBSET Subject
    /\ torn \in SUBSET (FQAN \X Version) /\ pulled \in SUBSET FQAN

Init ==
    /\ developers = [d \in Dev |-> None]
    /\ entities = [e \in Entity |-> None]
    /\ names = [f \in FQAN |-> None]
    /\ versions = [f \in FQAN |-> [v \in Version |-> None]]
    /\ job = [c \in Client |-> NoJob]
    /\ wire = << >>
    /\ gdevs = [d \in Dev |-> None]
    /\ gnames = [f \in FQAN |-> None]
    /\ seen = {}
    /\ second = 0 /\ requests = 0 /\ faults = 0
    /\ disturbed = {} /\ torn = {} /\ pulled = {}

-----------------------------------------------------------------------------
(***************************************************************************)
(* Queries.                                                                *)
(***************************************************************************)

\* GetDeveloperByHandle: the developers in whose row h is.
Holders(h) == {d \in Dev : developers[d] # None /\ developers[d].handle = h}

\* handleCheckHandleAvailable, and the check of handleRegisterDeveloper.
HandleAvailable(h) == Holders(h) = {}

\* handleCheckNameAvailable, and GetZNSNameByParts with no result.
NameAvailable(f) == names[f] = None

\* GetZNSNameByAgentID and the like: the names bound to e.
NamesOf(e) == {f \in FQAN : names[f] # None /\ names[f].entity = e}

\* What a running request is about, for the overlap of requests. A delete of
\* an entity, or a registration that asks for a name, may be about any name.
Subjects(j) ==
    IF j.step \in {"idle", "announce"} THEN {a.subject : a \in {j.out[i] : i \in DOMAIN j.out}}
    ELSE IF j.step \in {"createEntity", "lookUpName", "deleteNames", "deleteEntity"} THEN FQAN
    ELSE IF j.ename # None THEN {<<j.handle, j.ename>>}
    ELSE {j.dev}

\* A request that writes to the row of name f, or to its history.
Writes(j, f) == /\ j.step \in {"updateName", "createVersion"}
                /\ <<j.handle, j.ename>> = f

\* The names of S to which a request has yet to write, as it has read them.
Unwritten(S) == {f \in S : \E c \in Client : Writes(job[c], f)}

\* A request has written version v to the row of f and not yet to the history.
Owing(f, v) == \E c \in Client : /\ Writes(job[c], f)
                                 /\ job[c].step = "createVersion"
                                 /\ job[c].newVersion = v

\* A handler begins: it has read what it needs, and j is the rest of it.
Begin(c, j) ==
    /\ job[c].step = "idle"
    /\ requests < MaxRequests
    /\ requests' = requests + 1
    /\ job' = [job EXCEPT ![c] = j]
    /\ disturbed' = disturbed \cup
         (Subjects(j) \cap UNION {Subjects(job[o]) : o \in Client \ {c}})
    /\ UNCHANGED <<home, wire, peer, second, faults, torn, pulled>>

\* The handler answers with an error, and the client may ask again.
Refuse(c) == job' = [job EXCEPT ![c] = NoJob]

\* CreateDeveloperAnnouncement.
DeveloperAnn(action, d, j) ==
    [action |-> action, subject |-> d, name |-> j.name, links |-> j.links,
     handle |-> None, entity |-> None, version |-> None]

\* Mutant: the announcement is keyed by the handle.
HandleAnnByHandle(action, d, j) ==
    [action |-> action, subject |-> j.handle, name |-> j.name, links |-> None,
     handle |-> j.handle, entity |-> None, version |-> None]

\* CreateHandleAnnouncement: the links of the developer are not in it.
HandleAnn(action, d, j) ==
    [action |-> action, subject |-> d, name |-> j.name, links |-> None,
     handle |-> IF action = "release" THEN None ELSE j.handle,
     entity |-> None, version |-> None]

\* CreateNameBindingAnnouncement.
NameAnn(action, j) ==
    [action |-> action, subject |-> <<j.handle, j.ename>>, name |-> None,
     links |-> None, handle |-> j.handle, entity |-> j.entity,
     version |-> j.version]

\* The write has committed, and the announcements in out are to be sent.
Owe(c, out) ==
    job' = [job EXCEPT ![c] = [NoJob EXCEPT !.step = "announce", !.out = out]]

-----------------------------------------------------------------------------
(***************************************************************************)
(* Developers and handles.                                                 *)
(***************************************************************************)

\* A statement on the developers table: if it applies, the row of the job's
\* developer becomes row and out is announced, else the request is refused.
OnDeveloper(c, step, applies, row, out) ==
    /\ job[c].step = step
    /\ IF applies
       THEN /\ developers' = [developers EXCEPT ![job[c].dev] = row]
            /\ Owe(c, out)
       ELSE Refuse(c) /\ UNCHANGED developers
    /\ UNCHANGED <<entities, names, versions, wire, peer, second, requests,
                   faults, disturbed, torn, pulled>>

\* handleRegisterDeveloper, with or without a handle. A handle in use is
\* refused here, before the insert.
RegisterDeveloper(c, d, t, l, h) ==
    /\ h # None => HandleAvailable(h)
    /\ Begin(c, DevJob("createDeveloper", d, t, l, h))

\* handleApproveDeveloper, called by the organisation's website: the registry
\* makes the key, so the developer is new, without links and handle.
ApproveDeveloper(c, d, t) ==
    /\ developers[d] = None
    /\ Begin(c, DevJob("createDeveloper", d, t, None, None))

\* CreateDeveloper: the primary key and the unique index on (dev_handle,
\* home_registry) decide. With a handle, two announcements follow.
CreateDeveloper(c) ==
    LET j == job[c] d == j.dev IN
    OnDeveloper(c, "createDeveloper",
        developers[d] = None /\ (j.handle # None => HandleAvailable(j.handle)),
        [name |-> j.name, links |-> j.links, handle |-> j.handle,
         verified |-> FALSE],
        <<DeveloperAnn("register", d, j)>> \o
            IF j.handle = None THEN << >> ELSE <<HandleAnn("claim", d, j)>>)

\* handleUpdateDeveloper reads the row and replaces the name or the links.
UpdateDeveloper(c, d, t, l) ==
    /\ developers[d] # None
    /\ \/ t # None /\ l = None
       \/ t = None /\ l # None
    /\ Begin(c, DevJob("updateDeveloper", d,
                       IF t = None THEN developers[d].name ELSE t,
                       IF l = None THEN developers[d].links ELSE l, None))

\* UpdateDeveloper writes name and links back, whichever was changed.
WriteDeveloper(c) ==
    LET j == job[c] d == j.dev IN
    OnDeveloper(c, "updateDeveloper", developers[d] # None,
        [developers[d] EXCEPT !.name = j.name, !.links = j.links],
        <<DeveloperAnn("register", d, j)>>)

\* A request that carries nothing but the developer whose row it has read.
About(step, d, h) ==
    DevJob(step, d, developers[d].name, developers[d].links, h)

\* handleDeleteDeveloper. The developer's entities and names stay.
DeleteDeveloper(c, d) ==
    /\ developers[d] # None
    /\ Begin(c, About("deleteDeveloper", d, None))

\* DeleteDeveloper.
DropDeveloper(c) ==
    LET j == job[c] d == j.dev IN
    OnDeveloper(c, "deleteDeveloper", developers[d] # None, None,
        <<DeveloperAnn("deregister", d, j)>>)

\* handleClaimHandle.
ClaimHandle(c, d, h) ==
    /\ developers[d] # None
    /\ Begin(c, About("claimHandle", d, h))

\* Mutant: there is no unique index on handles.
TakeAnyHandle(c) ==
    LET j == job[c] d == j.dev IN
    OnDeveloper(c, "claimHandle",
        developers[d] # None /\ developers[d].handle = None,
        [developers[d] EXCEPT !.handle = j.handle],
        <<HandleAnn("claim", d, j)>>)

\* ClaimHandle updates the row of a developer without a handle; the unique
\* index refuses a handle that another row has. The flag dev_handle_verified
\* is left as it is.
TakeHandle(c) ==
    LET j == job[c] d == j.dev IN
    OnDeveloper(c, "claimHandle",
        /\ developers[d] # None /\ developers[d].handle = None
        /\ HandleAvailable(j.handle),
        [developers[d] EXCEPT !.handle = j.handle],
        <<HandleAnn("claim", d, j)>>)

\* handleReleaseHandle, at the word of the developer who has the handle.
ReleaseHandle(c, d, h) ==
    /\ d \in Holders(h)
    /\ Begin(c, About("releaseHandle", d, h))

\* Mutant: the mark of verification survives the release.
GiveHandleOnly(c) ==
    LET j == job[c] d == j.dev IN
    OnDeveloper(c, "releaseHandle", d \in Holders(j.handle),
        [developers[d] EXCEPT !.handle = None],
        <<HandleAnn("release", d, j)>>)

\* ReleaseHandle. The names under the handle stay.
GiveHandle(c) ==
    LET j == job[c] d == j.dev IN
    OnDeveloper(c, "releaseHandle", d \in Holders(j.handle),
        [developers[d] EXCEPT !.handle = None, !.verified = FALSE],
        <<HandleAnn("release", d, j)>>)

\* handleVerifyHandle: the DNS query, or the GitHub claim, succeeds.
VerifyHandle(c, d, h) ==
    /\ d \in Holders(h)
    /\ Begin(c, About("verifyHandle", d, h))

\* UpdateHandleVerification looks at the developer only, not at the handle.
MarkVerified(c) ==
    LET j == job[c] d == j.dev IN
    OnDeveloper(c, "verifyHandle", developers[d] # None,
        [developers[d] EXCEPT !.verified = TRUE],
        <<HandleAnn("claim", d, j)>>)

-----------------------------------------------------------------------------
(***************************************************************************)
(* Entities and names.                                                     *)
(***************************************************************************)

\* handleRegisterEntity: the developer must be registered. The request may
\* ask for a name n, of version v. (A developer of another registry, known by
\* gossip, has no row here, and no name comes of its request.)
RegisterEntity(c, d, e, n, v) ==
    /\ developers[d] # None
    /\ Begin(c, EntityJob("createEntity", d, e, n, v))

\* CreateAgent.
CreateEntity(c) ==
    LET j == job[c] IN
    /\ j.step = "createEntity"
    /\ IF entities[j.entity] = None
       THEN /\ entities' = [entities EXCEPT ![j.entity] = j.dev]
            /\ job' = [job EXCEPT ![c] = IF j.ename = None THEN NoJob
                                        ELSE [j EXCEPT !.step = "lookUpName"]]
       ELSE Refuse(c) /\ UNCHANGED entities
    /\ UNCHANGED <<developers, names, versions, wire, peer, second, requests,
                   faults, disturbed, torn, pulled>>

\* The name is free, or bound to the same entity: createZNSNameBinding and
\* handleRegisterName refuse a name that an entity with another key has.
Acceptable(f, e) == names[f] # None => names[f].entity = e

\* createZNSNameBinding looks the developer up again, for the handle. With
\* the same entity bound already, there is nothing to do.
LookUpName(c) ==
    LET j == job[c]
        d == j.dev
        f == <<developers[d].handle, j.ename>>
    IN
    /\ j.step = "lookUpName"
    /\ IF developers[d] # None /\ developers[d].handle # None /\ NameAvailable(f)
       THEN job' = [job EXCEPT ![c] = NameJob("createName", f, j.entity,
                                             j.version, j.newVersion)]
       ELSE Refuse(c)
    /\ UNCHANGED <<home, wire, peer, second, requests, faults, disturbed, torn, pulled>>

\* handleRegisterName, signed by the developer who has the handle. The
\* entity may be anybody's.
RegisterName(c, f, e, v) ==
    /\ Holders(f[1]) # {}
    /\ entities[e] # None
    /\ Acceptable(f, e)
    /\ Begin(c, NameJob("createName", f, e, v, v))

\* What is left of a request after its write to zns_names: the version, if
\* the request names one, and the announcement.
AfterName(c) ==
    IF job[c].newVersion # None
    THEN job' = [job EXCEPT ![c].step = "createVersion"]
    ELSE Owe(c, <<NameAnn("bind", job[c])>>)

\* CreateZNSName: the primary key is the name, and the entity must exist.
CreateName(c) ==
    LET j == job[c] f == <<j.handle, j.ename>> IN
    /\ j.step = "createName"
    /\ IF NameAvailable(f) /\ entities[j.entity] # None
       THEN /\ names' = [names EXCEPT ![f] = [entity |-> j.entity,
                                             version |-> j.version]]
            /\ AfterName(c)
       ELSE Refuse(c) /\ UNCHANGED names
    /\ UNCHANGED <<developers, entities, versions, wire, peer, second,
                   requests, faults, disturbed, torn, pulled>>

\* CreateZNSVersion: refused without the name, and if the version is there
\* already; its callers do not look at the error.
CreateVersion(c) ==
    LET j == job[c] f == <<j.handle, j.ename>> IN
    /\ j.step = "createVersion"
    /\ versions' = IF names[f] # None /\ versions[f][j.newVersion] = None
                   THEN [versions EXCEPT ![f][j.newVersion] = j.entity]
                   ELSE versions
    /\ Owe(c, <<NameAnn("bind", j)>>)
    /\ UNCHANGED <<developers, entities, names, wire, peer, second, requests,
                   faults, disturbed, torn, pulled>>

\* handleUpdateName reads the row and replaces the version, or only the tags.
UpdateName(c, f, v) ==
    /\ names[f] # None
    /\ Begin(c, NameJob("updateName", f, names[f].entity,
                        IF v = None THEN names[f].version ELSE v, v))

\* UpdateZNSName writes by name, whatever the row has become meanwhile.
WriteName(c) ==
    LET j == job[c] f == <<j.handle, j.ename>> IN
    /\ j.step = "updateName"
    /\ IF names[f] # None
       THEN names' = [names EXCEPT ![f].version = j.version] /\ AfterName(c)
       ELSE Refuse(c) /\ UNCHANGED names
    /\ UNCHANGED <<developers, entities, versions, wire, peer, second,
                   requests, faults, disturbed, torn, pulled>>

\* Mutant: the versions of a name outlive it.
WithoutNames(S) ==
    /\ names' = [f \in FQAN |-> IF f \in S THEN None ELSE names[f]]
    /\ UNCHANGED versions

\* The names in S are deleted, and their versions by the cascade.
Without(S) ==
    /\ names' = [f \in FQAN |-> IF f \in S THEN None ELSE names[f]]
    /\ versions' = [f \in FQAN |-> IF f \in S THEN [v \in Version |-> None]
                                   ELSE versions[f]]

\* handleReleaseName, signed by the developer who has the handle now.
ReleaseName(c, f) ==
    /\ names[f] # None
    /\ Holders(f[1]) # {}
    /\ Begin(c, NameJob("deleteName", f, names[f].entity, names[f].version, None))

\* DeleteZNSName.
DropName(c) ==
    LET j == job[c] f == <<j.handle, j.ename>> IN
    /\ j.step = "deleteName"
    /\ IF names[f] # None
       THEN /\ Without({f}) /\ Owe(c, <<NameAnn("unbind", j)>>)
            /\ pulled' = pulled \cup Unwritten({f})
       ELSE Refuse(c) /\ UNCHANGED <<names, versions, pulled>>
    /\ UNCHANGED <<developers, entities, wire, peer, second, requests, faults,
                   disturbed, torn>>

\* handleDeleteEntity, signed by the entity or its developer.
DeleteEntity(c, e) ==
    /\ entities[e] # None
    /\ Begin(c, EntityJob("deleteNames", entities[e], e, None, None))

\* DeleteEntity, first statement: the names of the entity go. Nobody
\* announces that.
DropNames(c) ==
    LET e == job[c].entity IN
    /\ job[c].step = "deleteNames"
    /\ Without(NamesOf(e))
    /\ job' = [job EXCEPT ![c].step = "deleteEntity"]
    /\ disturbed' = disturbed \cup NamesOf(e)
    /\ pulled' = pulled \cup Unwritten(NamesOf(e))
    /\ UNCHANGED <<developers, entities, wire, peer, second, requests, faults,
                   torn>>

\* DeleteEntity, second statement: fails on the foreign key if a name was
\* bound in between, and if the owner is not the one that was read.
DropEntity(c) ==
    LET j == job[c] e == j.entity IN
    /\ j.step = "deleteEntity"
    /\ entities' = IF NamesOf(e) = {} /\ entities[e] = j.dev
                   THEN [entities EXCEPT ![e] = None] ELSE entities
    /\ Refuse(c)
    /\ UNCHANGED <<developers, names, versions, wire, peer, second, requests,
                   faults, disturbed, torn, pulled>>

-----------------------------------------------------------------------------
(***************************************************************************)
(* Announcements, and the peer.                                            *)
(***************************************************************************)

\* BroadcastAnnouncement of the next announcement that a request owes; it
\* has been created just before, and has the time of that: the second of the
\* announcement before it, or a later one.
Announce(c) ==
    LET j == job[c] IN
    /\ j.step = "announce"
    /\ second' \in {s \in {second, second + 1} : s <= MaxSecond}
    /\ wire' = Append(wire, [body |-> Head(j.out), at |-> second'])
    /\ IF Len(j.out) = 1 THEN Refuse(c) ELSE Owe(c, Tail(j.out))
    /\ UNCHANGED <<home, peer, requests, faults, disturbed, torn, pulled>>

\* Mutant: a developer that is known is not updated.
InsertGossipDeveloper(a) ==
    gdevs' = [gdevs EXCEPT ![a.subject] =
        IF @ = None
        THEN [name |-> a.name, links |-> a.links, handle |-> None,
              tombstoned |-> FALSE]
        ELSE @]

\* UpsertGossipDeveloper: neither the handle columns nor the tombstone are
\* among the columns it writes.
UpsertGossipDeveloper(a) ==
    gdevs' = [gdevs EXCEPT ![a.subject] =
        IF @ = None
        THEN [name |-> a.name, links |-> a.links, handle |-> None,
              tombstoned |-> FALSE]
        ELSE [@ EXCEPT !.name = a.name, !.links = a.links]]

\* TombstoneGossipDeveloper.
TombstoneGossipDeveloper(a) ==
    gdevs' = [gdevs EXCEPT ![a.subject] =
        IF @ = None THEN None ELSE [@ EXCEPT !.tombstoned = TRUE]]

\* Mutant: the tombstone stays.
UpsertGossipZNSNameOnly(a) ==
    gnames' = [gnames EXCEPT ![a.subject] =
        [entity |-> a.entity, version |-> a.version,
         tombstoned |-> @ # None /\ @.tombstoned]]

\* UpsertGossipZNSName clears the tombstone.
UpsertGossipZNSName(a) ==
    gnames' = [gnames EXCEPT ![a.subject] =
        [entity |-> a.entity, version |-> a.version, tombstoned |-> FALSE]]

\* TombstoneGossipZNSName.
TombstoneGossipZNSName(a) ==
    gnames' = [gnames EXCEPT ![a.subject] =
        IF @ = None THEN None ELSE [@ EXCEPT !.tombstoned = TRUE]]

\* HandleAnnouncement at the peer. Developers and handles share the dedup
\* keys of the developer, names have the name.
HandleAnnouncement ==
    LET a == Head(wire).body
        key == <<a.subject, Head(wire).at>>
    IN
    /\ wire # << >>
    /\ wire' = Tail(wire)
    /\ IF key \in seen
       THEN /\ disturbed' = disturbed \cup {a.subject}
            /\ UNCHANGED peer
       ELSE /\ seen' = seen \cup {key}
            /\ \/ /\ a.action \in {"register", "claim", "release"}
                  /\ UpsertGossipDeveloper(a) /\ UNCHANGED gnames
               \/ /\ a.action = "deregister"
                  /\ TombstoneGossipDeveloper(a) /\ UNCHANGED gnames
               \/ /\ a.action = "bind"
                  /\ UpsertGossipZNSName(a) /\ UNCHANGED gdevs
               \/ /\ a.action = "unbind"
                  /\ TombstoneGossipZNSName(a) /\ UNCHANGED gdevs
            /\ UNCHANGED disturbed
    /\ UNCHANGED <<home, job, second, requests, faults, torn, pulled>>

\* The connection breaks with announcements on it, and is made again.
Disconnect ==
    /\ faults < MaxFaults
    /\ wire # << >>
    /\ faults' = faults + 1
    /\ wire' = << >>
    /\ disturbed' = disturbed \cup {wire[i].body.subject : i \in DOMAIN wire}
    /\ UNCHANGED <<home, job, peer, second, requests, torn, pulled>>

\* The registry stops in the middle of its requests. What has been committed
\* stays; what was to follow does not happen.
Crash ==
    /\ faults < MaxFaults
    /\ \E c \in Client : job[c].step # "idle"
    /\ faults' = faults + 1
    /\ job' = [c \in Client |-> NoJob]
    /\ disturbed' = disturbed \cup UNION {Subjects(job[c]) : c \in Client}
    /\ torn' = torn \cup {p \in FQAN \X Version : Owing(p[1], p[2])}
    /\ UNCHANGED <<home, wire, peer, second, requests, pulled>>

\* A client sends a request.
Request(c) ==
    \/ \E d \in Dev :
         \/ \E t \in Text, l \in Link, h \in Opt(Handle) :
              RegisterDeveloper(c, d, t, l, h)
         \/ \E t \in Text : ApproveDeveloper(c, d, t)
         \/ \E t \in Opt(Text), l \in Opt(Link) : UpdateDeveloper(c, d, t, l)
         \/ DeleteDeveloper(c, d)
         \/ \E h \in Handle :
              ClaimHandle(c, d, h) \/ ReleaseHandle(c, d, h) \/ VerifyHandle(c, d, h)
         \/ \E e \in Entity, n \in Opt(EntityName), v \in Opt(Version) :
              RegisterEntity(c, d, e, n, v)
    \/ \E f \in FQAN :
         \/ \E v \in Opt(Version) :
              UpdateName(c, f, v) \/ \E e \in Entity : RegisterName(c, f, e, v)
         \/ ReleaseName(c, f)
    \/ \E e \in Entity : DeleteEntity(c, e)

\* The handler of c's request goes on.
Handler(c) ==
    \/ CreateDeveloper(c) \/ WriteDeveloper(c) \/ DropDeveloper(c)
    \/ TakeHandle(c) \/ GiveHandle(c) \/ MarkVerified(c)
    \/ CreateEntity(c) \/ LookUpName(c) \/ CreateName(c) \/ CreateVersion(c)
    \/ WriteName(c) \/ DropName(c) \/ DropNames(c) \/ DropEntity(c)
    \/ Announce(c)

Next ==
    \/ \E c \in Client : Request(c) \/ Handler(c)
    \/ HandleAnnouncement
    \/ Disconnect \/ Crash

Spec == Init /\ [][Next]_vars

-----------------------------------------------------------------------------
(***************************************************************************)
(* Properties.                                                             *)
(***************************************************************************)

\* handleResolveName at the home registry, from its own tables.
HomeResolve(f) ==
    IF names[f] = None THEN None
    ELSE [entity |-> names[f].entity, version |-> names[f].version]

\* handleResolveName at the peer, from GetGossipZNSNameByParts.
PeerResolve(f) ==
    IF gnames[f] = None \/ gnames[f].tombstoned THEN None
    ELSE [entity |-> gnames[f].entity, version |-> gnames[f].version]

Quiet == wire = << >> /\ \A c \in Client : job[c].step = "idle"

\* Once every request is answered and every announcement handled, the peer
\* resolves a name to the same entity and version as its home registry,
\* unless requests about the name overlapped, an announcement about it was
\* lost or taken for a duplicate, or its entity was deleted.
PeersResolveAlike ==
    Quiet => \A f \in FQAN \ disturbed : PeerResolve(f) = HomeResolve(f)

\* In the same circumstances the peer knows a registered developer by the
\* name in the home registry's row. The profile links are right or missing:
\* a handle announcement overwrites the row without them.
PeersKnowDevelopers ==
    Quiet => \A d \in Dev \ disturbed : developers[d] # None =>
        /\ gdevs[d] # None
        /\ gdevs[d].name = developers[d].name
        /\ gdevs[d].links \in {developers[d].links, None}

\* However requests overlap and crash, the version history of a name is that
\* of the entity the name is bound to, and has its current version or will
\* have it from the request that has just written the row. There are two
\* exceptions, for the handlers read and write row and history in statements
\* of their own: a name deleted while a request had yet to write to it may be
\* somebody else's by then, and a crash between row and history leaves that
\* version out.
VersionsKept ==
    \A f \in FQAN \ pulled :
        /\ \A v \in Version : versions[f][v] # None =>
              names[f] # None /\ versions[f][v] = names[f].entity
        /\ names[f] # None /\ names[f].version # None =>
              \/ versions[f][names[f].version] # None
              \/ Owing(f, names[f].version)
              \/ <<f, names[f].version>> \in torn

\* A developer whose requests did not overlap is marked as verified only
\* while it has the handle that was verified: the mark is what
\* handleResolveName reports as the tier of the names under the handle, and
\* ClaimHandle does not reset it.
VerifiedHasHandle ==
    \A d \in Dev \ disturbed :
        developers[d] # None /\ developers[d].verified =>
            developers[d].handle # None

\* The tables of the home registry as the state of NameRegistry.
Abstract == INSTANCE NameRegistry WITH
    owner <- {p \in Handle \X Dev : p[2] \in Holders(p[1])},
    binding <- [f \in FQAN |-> IF names[f] = None THEN None
                               ELSE names[f].entity],
    registered <- {e \in Entity : entities[e] # None}

\* Whatever requests overlap and wherever a crash cuts them short, handles
\* and names have one owner at a time, are never taken over in one step, and
\* an entity goes only after its names: the statements implement
\* NameRegistry.
NamesAreOwned == Abstract!AbstractSpec
=============================================================================
