---------------------------- MODULE NamesProofs ----------------------------
(***************************************************************************)
(* The statements of the handlers implement NameRegistry, for every number *)
(* of developers, handles, names, entities and clients, whatever requests  *)
(* overlap and wherever a crash cuts them short. What was not disturbed by *)
(* an overlap or a loss, the peer resolves and knows as the home registry  *)
(* does, and its mark of verification is right. The version history of a   *)
(* name is right through overlaps and losses, unless the name was deleted  *)
(* under a request.                                                        *)
(***************************************************************************)
EXTENDS Names, SequenceTheorems, TLAPS

-----------------------------------------------------------------------------
(* The inductive invariant: the tables keep their types because a request  *)
(* that has come to a statement has the fields that the statement uses.    *)

GoodAnn ==
    {a \in Announcement :
        /\ a.action \notin {"bind", "unbind"} => a.subject \in Dev /\ a.name \in Text
        /\ a.action \in {"bind", "unbind"} => a.subject \in FQAN /\ a.entity \in Entity}

OnDevelopers == {"createDeveloper", "updateDeveloper", "deleteDeveloper",
                 "claimHandle", "releaseHandle", "verifyHandle"}
OnNames == {"createName", "updateName", "deleteName", "createVersion"}
OnEntities == {"createEntity", "lookUpName", "deleteNames", "deleteEntity"}

Ready(j) ==
    /\ j.step \in OnDevelopers => j.dev \in Dev /\ j.name \in Text /\ j.ename = None
    /\ j.step \in {"claimHandle", "releaseHandle", "verifyHandle"} => j.handle \in Handle
    /\ j.step \in OnEntities => j.dev \in Dev /\ j.entity \in Entity
    /\ j.step = "lookUpName" => j.ename \in EntityName
    /\ j.step \in OnNames => /\ j.handle \in Handle /\ j.ename \in EntityName
                             /\ j.entity \in Entity
    /\ j.step = "createVersion" => j.newVersion \in Version
    /\ j.step = "announce" => j.out # << >>

JobRec == [step : Step, dev : Opt(Dev), name : Opt(Text), links : Opt(Link),
           handle : Opt(Handle), ename : Opt(EntityName), entity : Opt(Entity),
           version : Opt(Version), newVersion : Opt(Version),
           out : Seq(GoodAnn)]
GoodJob == {j \in JobRec : Ready(j)}

DevelopersOK == developers \in [Dev -> Opt(DevRow)]
EntitiesOK == entities \in [Entity -> Opt(Dev)]
NamesOK == names \in [FQAN -> Opt(NameRow)]
VersionsOK == versions \in [FQAN -> [Version -> Opt(Entity)]]
JobsOK == job \in [Client -> GoodJob]
WireOK == wire \in Seq([body : GoodAnn, at : Nat])
PeerOK == /\ gdevs \in [Dev -> Opt(GossipDev)]
          /\ gnames \in [FQAN -> Opt(GossipName)]
          /\ seen \in SUBSET (Subject \X Nat)
CountsOK == /\ second \in Nat /\ requests \in Nat /\ faults \in Nat
            /\ disturbed \in SUBSET Subject

Inv == /\ DevelopersOK /\ EntitiesOK /\ NamesOK /\ VersionsOK
       /\ JobsOK /\ WireOK /\ PeerOK /\ CountsOK

\* A sequence over a set is one over any larger set.
LEMMA SeqWiden ==
    ASSUME NEW A, NEW B, A \subseteq B, NEW s \in Seq(A)
    PROVE  s \in Seq(B)
  OBVIOUS

\* The elements of a sequence over a set.
LEMMA SeqTyped ==
    ASSUME NEW A, NEW s \in Seq(A)
    PROVE  (\A i \in DOMAIN s : s[i] \in A) /\ (s # << >> => Head(s) \in A)
  OBVIOUS

\* Announcements of the invariant are announcements.
LEMMA GoodAnnIsAnn == GoodAnn \subseteq Announcement
  BY DEF GoodAnn

\* Requests of the invariant are requests.
LEMMA GoodJobIsJob == GoodJob \subseteq Job
<1>1. Seq(GoodAnn) \subseteq Seq(Announcement)
  BY GoodAnnIsAnn
<1> QED BY <1>1 DEF GoodJob, JobRec, Job

\* What crashes and deletes have left behind.
BlameOK == torn \in SUBSET (FQAN \X Version) /\ pulled \in SUBSET FQAN

\* The invariant contains the type invariant of Names.
LEMMA InvImpliesTypes == Inv /\ BlameOK => TypeOK
<1> SUFFICES ASSUME Inv, BlameOK PROVE TypeOK
  OBVIOUS
<1>1. job \in [Client -> Job]
  BY GoodJobIsJob DEF Inv, JobsOK
<1>2. wire \in Seq([body : Announcement, at : Nat])
  <2>1. [body : GoodAnn, at : Nat] \subseteq [body : Announcement, at : Nat]
    BY GoodAnnIsAnn
  <2>2. wire \in Seq([body : GoodAnn, at : Nat])
    BY DEF Inv, WireOK
  <2> QED BY <2>1, <2>2, SeqWiden, Zenon
<1> QED BY <1>1, <1>2 DEF Inv, TypeOK, DevelopersOK, EntitiesOK, NamesOK,
                          VersionsOK, PeerOK, CountsOK, BlameOK

\* A client without a request.
LEMMA NoJobGood == NoJob \in GoodJob
  BY DEF NoJob, GoodJob, JobRec, Ready, Step, Opt, OnDevelopers, OnNames, OnEntities

\* A request that owes announcements.
LEMMA OwingGood ==
    ASSUME NEW out \in Seq(GoodAnn), out # << >>
    PROVE  [NoJob EXCEPT !.step = "announce", !.out = out] \in GoodJob
  BY DEF NoJob, GoodJob, JobRec, Ready, Step, Opt, OnDevelopers, OnNames, OnEntities

\* A step of one request that leaves it with the fields it needs.
LEMMA JobSet ==
    ASSUME JobsOK, NEW c \in Client, NEW j \in GoodJob,
           job' = [job EXCEPT ![c] = j]
    PROVE  JobsOK'
  BY DEF JobsOK

\* What a request is about is a developer or a name.
LEMMA SubjectsTyped ==
    ASSUME NEW j \in GoodJob
    PROVE  Subjects(j) \subseteq Subject
<1>0. j \in JobRec /\ Ready(j)
  BY DEF GoodJob
<1>1. CASE j.step \in {"idle", "announce"}
  <2>1. \A i \in DOMAIN j.out : j.out[i] \in GoodAnn
    BY <1>0 DEF JobRec
  <2>2. \A a \in GoodAnn : a.subject \in Subject
    BY DEF GoodAnn, Announcement
  <2> QED BY <1>1, <2>1, <2>2 DEF Subjects
<1>2. CASE j.step \in OnEntities
  BY <1>2 DEF Subjects, OnEntities, Subject
<1>3. CASE j.step \in OnNames
  <2>1. <<j.handle, j.ename>> \in FQAN /\ j.ename # None
    BY <1>0, <1>3, NamesAssumption DEF Ready, FQAN
  <2> QED BY <2>1, <1>3 DEF Subjects, OnNames, Subject
<1>4. CASE j.step \in OnDevelopers
  <2>1. j.dev \in Dev /\ j.ename = None
    BY <1>0, <1>4 DEF Ready
  <2> QED BY <2>1, <1>4 DEF Subjects, OnDevelopers, Subject
<1> QED BY <1>0, <1>1, <1>2, <1>3, <1>4
        DEF JobRec, Step, OnDevelopers, OnNames, OnEntities

-----------------------------------------------------------------------------
(* Requests. *)

\* A request that begins with the fields of its first statement.
LEMMA BeginKeeps ==
    ASSUME Inv, NEW c \in Client, NEW j \in GoodJob, Begin(c, j)
    PROVE  Inv'
<1>1. JobsOK'
  BY JobSet DEF Inv, Begin
<1>2. CountsOK'
  <2>1. requests' \in Nat
    BY DEF Inv, CountsOK, Begin
  <2>2. disturbed' \subseteq Subject
    BY SubjectsTyped DEF Inv, CountsOK, Begin
  <2> QED BY <2>1, <2>2 DEF Inv, CountsOK, Begin
<1>3. UNCHANGED <<developers, entities, names, versions, wire, gdevs, gnames, seen>>
  BY DEF Begin, home, peer
<1>4. DevelopersOK' /\ EntitiesOK' /\ NamesOK' /\ VersionsOK' /\ WireOK' /\ PeerOK'
  BY <1>3 DEF Inv, DevelopersOK, EntitiesOK, NamesOK, VersionsOK, WireOK, PeerOK
<1> QED BY <1>1, <1>2, <1>4 DEF Inv

\* The rows of the tables have the fields of their types.
LEMMA RowTyped ==
    ASSUME Inv
    PROVE  /\ \A d \in Dev : developers[d] # None =>
                  /\ developers[d] \in DevRow
                  /\ developers[d].name \in Text
                  /\ developers[d].links \in Opt(Link)
                  /\ developers[d].handle \in Opt(Handle)
           /\ \A f \in FQAN : names[f] # None =>
                  /\ names[f] \in NameRow
                  /\ names[f].entity \in Entity
                  /\ names[f].version \in Opt(Version)
           /\ \A e \in Entity : entities[e] # None => entities[e] \in Dev
           /\ \A f \in FQAN : f = <<f[1], f[2]>> /\ f[1] \in Handle /\ f[2] \in EntityName
<1>1. DevelopersOK /\ EntitiesOK /\ NamesOK
  BY DEF Inv
<1> QED BY <1>1 DEF DevelopersOK, EntitiesOK, NamesOK, DevRow, NameRow, Opt, FQAN

\* The jobs that the requests of clients begin with.
LEMMA DevJobGood ==
    ASSUME NEW step \in OnDevelopers, NEW d \in Dev, NEW t \in Text,
           NEW l \in Opt(Link), NEW h \in Opt(Handle),
           step \in {"claimHandle", "releaseHandle", "verifyHandle"} => h \in Handle
    PROVE  DevJob(step, d, t, l, h) \in GoodJob
  BY DEF DevJob, GoodJob, JobRec, Ready, Step, Opt, OnDevelopers, OnNames, OnEntities

\* A request about a name has what createName, updateName and deleteName use.
LEMMA NameJobGood ==
    ASSUME NEW step \in OnNames \ {"createVersion"}, NEW f \in FQAN,
           NEW e \in Entity, NEW v \in Opt(Version), NEW w \in Opt(Version)
    PROVE  NameJob(step, f, e, v, w) \in GoodJob
<1>1. f[1] \in Handle /\ f[2] \in EntityName
  BY DEF FQAN
<1> QED BY <1>1 DEF NameJob, GoodJob, JobRec, Ready, Step, Opt, OnDevelopers,
                    OnNames, OnEntities

\* A request about an entity has what its first statement uses.
LEMMA EntityJobGood ==
    ASSUME NEW step \in {"createEntity", "deleteNames"}, NEW d \in Dev,
           NEW e \in Entity, NEW n \in Opt(EntityName), NEW v \in Opt(Version)
    PROVE  EntityJob(step, d, e, n, v) \in GoodJob
  BY DEF EntityJob, GoodJob, JobRec, Ready, Step, Opt, OnDevelopers, OnNames, OnEntities

\* A request has come to a statement about name f.
At(j, step, f) == j.step = step /\ <<j.handle, j.ename>> = f

\* What the first part of a handler has read is what the tables have.
ReadRight(j) ==
    /\ j.step \notin {"createVersion", "announce"}
    /\ j.step \in {"createEntity", "lookUpName", "createName"} => j.newVersion = j.version
    /\ j.step = "updateName" => j.newVersion \in {None, j.version}
    /\ \A f \in FQAN : At(j, "updateName", f) =>
         /\ names[f] # None /\ names[f].entity = j.entity
         /\ j.newVersion = None => names[f].version = j.version
    /\ j.step \in {"claimHandle", "releaseHandle", "verifyHandle"} =>
         /\ developers[j.dev] # None /\ developers[j.dev].name = j.name
         /\ j.step = "verifyHandle" => developers[j.dev].handle # None

\* A request is the beginning of a handler with the fields of its first statement.
LEMMA RequestReads ==
    ASSUME Inv, NEW c \in Client, Request(c)
    PROVE  \E j \in GoodJob : Begin(c, j) /\ ReadRight(j)
<1> USE RowTyped, NamesAssumption
<1>n. None \in Opt(Link) /\ None \in Opt(Handle) /\ None \in Opt(Version)
      /\ None \in Opt(EntityName)
  BY DEF Opt
<1>d. ASSUME NEW d \in Dev, NEW step \in OnDevelopers, NEW t \in Text, NEW l \in Opt(Link),
             NEW h \in Opt(Handle),
             step \in {"claimHandle", "releaseHandle", "verifyHandle"} =>
               /\ h \in Handle /\ developers[d] # None /\ developers[d].name = t
               /\ step = "verifyHandle" => developers[d].handle # None
      PROVE  DevJob(step, d, t, l, h) \in GoodJob /\ ReadRight(DevJob(step, d, t, l, h))
  <2>1. DevJob(step, d, t, l, h) \in GoodJob
    BY <1>d, DevJobGood
  <2> QED BY <1>d, <2>1 DEF ReadRight, DevJob, OnDevelopers, At
<1>1. ASSUME NEW d \in Dev, NEW t \in Text, NEW l \in Link, NEW h \in Opt(Handle),
             RegisterDeveloper(c, d, t, l, h)
      PROVE  \E j \in GoodJob : Begin(c, j) /\ ReadRight(j)
  BY <1>1, <1>d DEF RegisterDeveloper, OnDevelopers, Opt
<1>2. ASSUME NEW d \in Dev, NEW t \in Text, ApproveDeveloper(c, d, t)
      PROVE  \E j \in GoodJob : Begin(c, j) /\ ReadRight(j)
  BY <1>2, <1>d, <1>n DEF ApproveDeveloper, OnDevelopers
<1>3. ASSUME NEW d \in Dev, NEW t \in Opt(Text), NEW l \in Opt(Link),
             UpdateDeveloper(c, d, t, l)
      PROVE  \E j \in GoodJob : Begin(c, j) /\ ReadRight(j)
  <2> DEFINE u == IF t = None THEN developers[d].name ELSE t
             m == IF l = None THEN developers[d].links ELSE l
  <2>1. u \in Text /\ m \in Opt(Link)
    BY <1>3 DEF UpdateDeveloper, Opt
  <2>2. Begin(c, DevJob("updateDeveloper", d, u, m, None))
    BY <1>3 DEF UpdateDeveloper
  <2> HIDE DEF u, m
  <2> QED BY <1>d, <1>n, <2>1, <2>2 DEF OnDevelopers
<1>4. ASSUME NEW d \in Dev, DeleteDeveloper(c, d)
      PROVE  \E j \in GoodJob : Begin(c, j) /\ ReadRight(j)
  BY <1>4, <1>d, <1>n DEF DeleteDeveloper, About, OnDevelopers
<1>5. ASSUME NEW d \in Dev, NEW h \in Handle,
             ClaimHandle(c, d, h) \/ ReleaseHandle(c, d, h) \/ VerifyHandle(c, d, h)
      PROVE  \E j \in GoodJob : Begin(c, j) /\ ReadRight(j)
  <2>1. developers[d] # None /\ h \in Opt(Handle)
    BY <1>5 DEF ClaimHandle, ReleaseHandle, VerifyHandle, Holders, Opt
  <2>2. PICK step \in {"claimHandle", "releaseHandle", "verifyHandle"} :
              Begin(c, About(step, d, h)) /\ (step = "verifyHandle" => d \in Holders(h))
    BY <1>5 DEF ClaimHandle, ReleaseHandle, VerifyHandle
  <2>3. step = "verifyHandle" => developers[d].handle # None
    BY <2>2 DEF Holders
  <2> QED BY <1>d, <2>1, <2>2, <2>3 DEF OnDevelopers, About
<1>6. ASSUME NEW d \in Dev, NEW e \in Entity, NEW n \in Opt(EntityName),
             NEW v \in Opt(Version), NEW step \in {"createEntity", "deleteNames"}
      PROVE  EntityJob(step, d, e, n, v) \in GoodJob /\ ReadRight(EntityJob(step, d, e, n, v))
  BY <1>6, EntityJobGood DEF EntityJob, ReadRight, At
<1>7. ASSUME NEW d \in Dev, NEW e \in Entity, NEW n \in Opt(EntityName),
             NEW v \in Opt(Version), RegisterEntity(c, d, e, n, v)
      PROVE  \E j \in GoodJob : Begin(c, j) /\ ReadRight(j)
  BY <1>6, <1>7 DEF RegisterEntity
<1>8. ASSUME NEW f \in FQAN, NEW step \in OnNames \ {"createVersion"}, NEW e \in Entity,
             NEW v \in Opt(Version), NEW w \in Opt(Version),
             step = "createName" => v = w,
             step = "updateName" => /\ w \in {None, v}
                                    /\ names[f] # None /\ names[f].entity = e
                                    /\ w = None => names[f].version = v
      PROVE  NameJob(step, f, e, v, w) \in GoodJob /\ ReadRight(NameJob(step, f, e, v, w))
  <2>1. NameJob(step, f, e, v, w) \in GoodJob
    BY <1>8, NameJobGood
  <2>2. f = <<f[1], f[2]>>
    OBVIOUS
  <2> QED BY <1>8, <2>1, <2>2 DEF NameJob, ReadRight, At, OnNames
<1>9. ASSUME NEW f \in FQAN, NEW v \in Opt(Version), UpdateName(c, f, v)
      PROVE  \E j \in GoodJob : Begin(c, j) /\ ReadRight(j)
  <2> DEFINE w == IF v = None THEN names[f].version ELSE v
  <2>1. /\ w \in Opt(Version) /\ names[f].entity \in Entity /\ names[f] # None
        /\ v \in {None, w}
        /\ v = None => names[f].version = w
    BY <1>9 DEF UpdateName
  <2>2. Begin(c, NameJob("updateName", f, names[f].entity, w, v))
    BY <1>9 DEF UpdateName
  <2> HIDE DEF w
  <2> QED BY <1>8, <2>1, <2>2 DEF OnNames
<1>10. ASSUME NEW f \in FQAN, NEW v \in Opt(Version), NEW e \in Entity,
             RegisterName(c, f, e, v)
      PROVE  \E j \in GoodJob : Begin(c, j) /\ ReadRight(j)
  BY <1>8, <1>10 DEF RegisterName, OnNames
<1>11. ASSUME NEW f \in FQAN, ReleaseName(c, f)
      PROVE  \E j \in GoodJob : Begin(c, j) /\ ReadRight(j)
  <2>1. names[f].entity \in Entity /\ names[f].version \in Opt(Version)
    BY <1>11 DEF ReleaseName
  <2> QED BY <1>8, <1>11, <1>n, <2>1 DEF ReleaseName, OnNames
<1>12. ASSUME NEW e \in Entity, DeleteEntity(c, e)
      PROVE  \E j \in GoodJob : Begin(c, j) /\ ReadRight(j)
  <2>1. entities[e] \in Dev
    BY <1>12 DEF DeleteEntity
  <2> QED BY <1>6, <1>12, <1>n, <2>1 DEF DeleteEntity
<1> QED BY <1>1, <1>2, <1>3, <1>4, <1>5, <1>7, <1>9, <1>10, <1>11, <1>12
        DEF Request

\* Every request of a client keeps the invariant.
LEMMA RequestKeeps ==
    ASSUME Inv, NEW c \in Client, Request(c)
    PROVE  Inv'
  BY RequestReads, BeginKeeps

-----------------------------------------------------------------------------
(* Statements. *)

\* A request that is answered leaves nothing to do.
LEMMA RefuseKeeps ==
    ASSUME JobsOK, NEW c \in Client, Refuse(c) PROVE JobsOK'
  BY NoJobGood, JobSet DEF Refuse

\* A request that owes announcements goes on to send them.
LEMMA OweKeeps ==
    ASSUME JobsOK, NEW c \in Client, NEW out \in Seq(GoodAnn), out # << >>,
           Owe(c, out)
    PROVE  JobsOK'
<1>1. PICK k : k = [NoJob EXCEPT !.step = "announce", !.out = out]
  OBVIOUS
<1>2. k \in GoodJob
  BY <1>1, OwingGood, Zenon
<1>3. job' = [job EXCEPT ![c] = k]
  BY <1>1 DEF Owe
<1> QED BY <1>2, <1>3, JobSet, Zenon

\* The announcements that follow a write are about what was written.
LEMMA DeveloperAnnGood ==
    ASSUME NEW action \in {"register", "deregister"}, NEW d \in Dev,
           NEW j \in JobRec, j.name \in Text
    PROVE  DeveloperAnn(action, d, j) \in GoodAnn
  BY DEF DeveloperAnn, GoodAnn, Announcement, JobRec, Subject, Opt

\* CreateHandleAnnouncement, for a developer with a row.
LEMMA HandleAnnGood ==
    ASSUME NEW action \in {"claim", "release"}, NEW d \in Dev,
           NEW j \in JobRec, j.name \in Text
    PROVE  HandleAnn(action, d, j) \in GoodAnn
  BY DEF HandleAnn, GoodAnn, Announcement, JobRec, Subject, Opt

\* CreateNameBindingAnnouncement, for a name.
LEMMA NameAnnGood ==
    ASSUME NEW action \in {"bind", "unbind"}, NEW j \in JobRec,
           j.handle \in Handle, j.ename \in EntityName, j.entity \in Entity
    PROVE  NameAnn(action, j) \in GoodAnn
<1>1. <<j.handle, j.ename>> \in FQAN
  BY DEF FQAN
<1>2. j.version \in Opt(Version)
  BY DEF JobRec
<1> QED BY <1>1, <1>2 DEF NameAnn, GoodAnn, Announcement, Subject, Opt

\* One announcement to send.
LEMMA SingleGood ==
    ASSUME NEW a \in GoodAnn
    PROVE  <<a>> \in Seq(GoodAnn) /\ <<a>> # << >>
  OBVIOUS

\* A request has the fields of the statement it has come to.
LEMMA JobReady ==
    ASSUME Inv, NEW c \in Client
    PROVE  /\ job[c] \in JobRec
           /\ job[c].step \in OnDevelopers => job[c].dev \in Dev /\ job[c].name \in Text
           /\ job[c].step \in {"claimHandle", "releaseHandle", "verifyHandle"}
                => job[c].handle \in Handle
           /\ job[c].step \in OnEntities => job[c].dev \in Dev /\ job[c].entity \in Entity
           /\ job[c].step = "lookUpName" => job[c].ename \in EntityName
           /\ job[c].step \in OnNames =>
                /\ <<job[c].handle, job[c].ename>> \in FQAN
                /\ job[c].handle \in Handle /\ job[c].ename \in EntityName
                /\ job[c].entity \in Entity
           /\ job[c].step = "createVersion" => job[c].newVersion \in Version
           /\ job[c].step = "announce" => job[c].out # << >>
<1>1. job[c] \in JobRec /\ Ready(job[c])
  BY DEF Inv, JobsOK, GoodJob
<1> QED BY <1>1 DEF Ready, FQAN

\* Parts of the invariant that a statement does not touch.
LEMMA Untouched ==
    ASSUME Inv
    PROVE  /\ UNCHANGED developers => DevelopersOK'
           /\ UNCHANGED entities => EntitiesOK'
           /\ UNCHANGED names => NamesOK'
           /\ UNCHANGED versions => VersionsOK'
           /\ UNCHANGED job => JobsOK'
           /\ UNCHANGED wire => WireOK'
           /\ UNCHANGED peer => PeerOK'
           /\ UNCHANGED <<second, requests, faults, disturbed>> => CountsOK'
  BY DEF Inv, DevelopersOK, EntitiesOK, NamesOK, VersionsOK, JobsOK, WireOK,
         PeerOK, CountsOK, peer

\* A step of NameRegistry, or one that it does not see.
AbstractStep == [Abstract!AbstractNext]_(Abstract!abstractVars)

\* The state of NameRegistry.
ownerBar == {p \in Handle \X Dev : p[2] \in Holders(p[1])}
bindingBar == [f \in FQAN |-> IF names[f] = None THEN None ELSE names[f].entity]
registeredBar == {e \in Entity : entities[e] # None}

\* A step that changes no owner, binding or registration.
LEMMA StutterStep ==
    ASSUME UNCHANGED <<ownerBar, bindingBar, registeredBar>>
    PROVE  AbstractStep
  BY DEF AbstractStep, ownerBar, bindingBar, registeredBar,
         Abstract!abstractVars

\* A step that writes none of the three tables.
LEMMA TablesStutter ==
    ASSUME UNCHANGED <<developers, names, entities>>
    PROVE  AbstractStep
<1>1. UNCHANGED <<ownerBar, bindingBar, registeredBar>>
  BY DEF ownerBar, bindingBar, registeredBar, Holders
<1> QED BY <1>1, StutterStep

\* A step that gives a free handle to a developer without one.
LEMMA ClaimStep ==
    ASSUME NEW h \in Handle, NEW d \in Dev,
           \A p \in ownerBar : p[1] # h /\ p[2] # d,
           ownerBar' = ownerBar \cup {<<h, d>>},
           UNCHANGED <<bindingBar, registeredBar>>
    PROVE  AbstractStep
<1>1. Abstract!Claim(h, d)
  BY DEF Abstract!Claim, ownerBar, bindingBar, registeredBar
<1> QED BY <1>1 DEF AbstractStep, Abstract!AbstractNext

\* A step that takes a handle from its owner.
LEMMA ReleaseStep ==
    ASSUME NEW h \in Handle, NEW d \in Dev, <<h, d>> \in ownerBar,
           ownerBar' = ownerBar \ {<<h, d>>},
           UNCHANGED <<bindingBar, registeredBar>>
    PROVE  AbstractStep
<1>1. Abstract!Release(h, d)
  BY DEF Abstract!Release, ownerBar, bindingBar, registeredBar
<1> QED BY <1>1 DEF AbstractStep, Abstract!AbstractNext

\* The handle in a row of the developers table.
HandleOf(row) == IF row = None THEN None ELSE row.handle

\* A write to one row of the developers table that leaves the handle, fills in
\* one that nobody has, or takes it out.
LEMMA RowWritten ==
    ASSUME Inv, NEW d \in Dev, NEW row \in Opt(DevRow),
           developers' = [developers EXCEPT ![d] = row],
           UNCHANGED <<entities, names>>,
           \/ HandleOf(row) = HandleOf(developers[d])
           \/ /\ HandleOf(developers[d]) = None
              /\ HandleOf(row) \in Handle /\ Holders(HandleOf(row)) = {}
           \/ HandleOf(developers[d]) \in Handle /\ HandleOf(row) = None
    PROVE  AbstractStep
<1> USE NamesAssumption
<1>1. UNCHANGED <<bindingBar, registeredBar>>
  BY DEF bindingBar, registeredBar
<1>2. /\ \A h \in Handle : Holders(h) = {x \in Dev : HandleOf(developers[x]) = h}
      /\ \A h \in Handle : Holders(h)' = {x \in Dev : HandleOf(developers'[x]) = h}
  BY DEF Holders, HandleOf
<1>3. \A x \in Dev : developers'[x] = IF x = d THEN row ELSE developers[x]
  BY DEF Inv, DevelopersOK
<1>4. /\ ownerBar = {p \in Handle \X Dev : HandleOf(developers[p[2]]) = p[1]}
      /\ ownerBar' = {p \in Handle \X Dev : HandleOf(developers'[p[2]]) = p[1]}
  BY <1>2 DEF ownerBar
<1> HIDE DEF HandleOf, ownerBar
<1>5. CASE HandleOf(row) = HandleOf(developers[d])
  <2>1. ownerBar' = ownerBar
    BY <1>3, <1>4, <1>5
  <2> QED BY <1>1, <2>1, StutterStep
<1>6. CASE /\ HandleOf(developers[d]) = None
           /\ HandleOf(row) \in Handle /\ Holders(HandleOf(row)) = {}
  <2> DEFINE h == HandleOf(row)
  <2>1. \A p \in ownerBar : p[1] # h /\ p[2] # d
    BY <1>2, <1>4, <1>6
  <2>2. ownerBar' = ownerBar \cup {<<h, d>>}
    BY <1>3, <1>4, <1>6
  <2> QED BY <1>1, <1>6, <2>1, <2>2, ClaimStep
<1>7. CASE HandleOf(developers[d]) \in Handle /\ HandleOf(row) = None
  <2> DEFINE h == HandleOf(developers[d])
  <2>1. <<h, d>> \in ownerBar
    BY <1>4, <1>7
  <2>2. ownerBar' = ownerBar \ {<<h, d>>}
    BY <1>3, <1>4, <1>7
  <2> QED BY <1>1, <1>7, <2>1, <2>2, ReleaseStep
<1> QED BY <1>5, <1>6, <1>7

\* A statement on the developers table that applies, and one that does not.
LEMMA DeveloperWritten ==
    ASSUME Inv, NEW c \in Client, NEW d \in Dev, NEW row \in Opt(DevRow),
           NEW out \in Seq(GoodAnn), out # << >>,
           developers' = [developers EXCEPT ![d] = row], Owe(c, out),
           UNCHANGED <<entities, names, versions, wire, peer, second, requests,
                       faults, disturbed>>
    PROVE  Inv'
<1>1. DevelopersOK'
  BY DEF Inv, DevelopersOK
<1>2. JobsOK'
  BY OweKeeps DEF Inv
<1> QED BY <1>1, <1>2, Untouched DEF Inv

\* A statement that does not apply refuses the request.
LEMMA DeveloperRefused ==
    ASSUME Inv, NEW c \in Client, UNCHANGED developers, Refuse(c),
           UNCHANGED <<entities, names, versions, wire, peer, second, requests,
                       faults, disturbed>>
    PROVE  Inv' /\ AbstractStep
<1>1. JobsOK'
  BY RefuseKeeps DEF Inv
<1>2. Inv'
  BY <1>1, Untouched DEF Inv
<1> QED BY <1>2, TablesStutter

\* The two together: what is left to show of an action is the row it writes.
LEMMA OnDeveloperStep ==
    ASSUME Inv, NEW c \in Client, NEW step \in OnDevelopers, NEW applies \in BOOLEAN,
           NEW row, NEW out, job[c].step = step,
           IF applies
             THEN developers' = [developers EXCEPT ![job[c].dev] = row] /\ Owe(c, out)
             ELSE Refuse(c) /\ UNCHANGED developers,
           UNCHANGED <<entities, names, versions, wire, peer, second, requests,
                       faults, disturbed>>,
           out \in Seq(GoodAnn) /\ out # << >>,
           applies =>
             /\ row \in Opt(DevRow)
             /\ \/ HandleOf(row) = HandleOf(developers[job[c].dev])
                \/ /\ HandleOf(developers[job[c].dev]) = None
                   /\ HandleOf(row) \in Handle /\ Holders(HandleOf(row)) = {}
                \/ /\ HandleOf(developers[job[c].dev]) \in Handle
                   /\ HandleOf(row) = None
    PROVE  Inv' /\ AbstractStep
<1>1. job[c].dev \in Dev
  BY JobReady
<1>2. CASE applies
  BY <1>1, <1>2, DeveloperWritten, RowWritten
<1>3. CASE ~applies
  BY <1>3, DeveloperRefused
<1> QED BY <1>2, <1>3

\* CreateDeveloper claims the handle, if any: the unique index lets it only be free.
LEMMA CreateDeveloperStep ==
    ASSUME Inv, NEW c \in Client, CreateDeveloper(c)
    PROVE  Inv' /\ AbstractStep
<1> DEFINE d == job[c].dev
           row == [name |-> job[c].name, links |-> job[c].links,
                   handle |-> job[c].handle, verified |-> FALSE]
           out == <<DeveloperAnn("register", d, job[c])>> \o
                    IF job[c].handle = None THEN << >>
                    ELSE <<HandleAnn("claim", d, job[c])>>
           applies == /\ developers[d] = None
                      /\ job[c].handle # None => HandleAvailable(job[c].handle)
<1>1. job[c].step = "createDeveloper"
  BY DEF CreateDeveloper, OnDeveloper
<1>2. /\ d \in Dev /\ job[c].name \in Text /\ job[c] \in JobRec
      /\ job[c].links \in Opt(Link) /\ job[c].handle \in Opt(Handle)
  BY <1>1, JobReady DEF OnDevelopers, JobRec
<1>3. out \in Seq(GoodAnn) /\ out # << >>
  <2>1. /\ DeveloperAnn("register", d, job[c]) \in GoodAnn
        /\ HandleAnn("claim", d, job[c]) \in GoodAnn
    BY <1>2, DeveloperAnnGood, HandleAnnGood
  <2> QED BY <2>1
<1>4. ASSUME applies
      PROVE  /\ row \in Opt(DevRow)
             /\ \/ HandleOf(row) = HandleOf(developers[d])
                \/ /\ HandleOf(developers[d]) = None
                   /\ HandleOf(row) \in Handle /\ Holders(HandleOf(row)) = {}
                \/ HandleOf(developers[d]) \in Handle /\ HandleOf(row) = None
  <2>0. row \in DevRow /\ row.handle = job[c].handle
    BY <1>2 DEF DevRow
  <2>1. row \in DevRow /\ row # None /\ row.handle = job[c].handle
    <3> HIDE DEF row
    <3> QED BY <2>0, NullAssumption
  <2>2. HandleOf(row) = job[c].handle /\ HandleOf(developers[d]) = None
    BY <1>4, <2>1 DEF HandleOf
  <2> QED BY <1>2, <1>4, <2>1, <2>2 DEF HandleAvailable, Opt
<1>5. /\ IF applies
           THEN developers' = [developers EXCEPT ![d] = row] /\ Owe(c, out)
           ELSE Refuse(c) /\ UNCHANGED developers
      /\ UNCHANGED <<entities, names, versions, wire, peer, second, requests,
                     faults, disturbed>>
  BY DEF CreateDeveloper, OnDeveloper
<1>6. applies \in BOOLEAN
  OBVIOUS
<1> HIDE DEF row, out, applies
<1> QED BY <1>1, <1>3, <1>4, <1>5, <1>6, OnDeveloperStep DEF OnDevelopers

\* UpdateDeveloper leaves the handle.
LEMMA WriteDeveloperStep ==
    ASSUME Inv, NEW c \in Client, WriteDeveloper(c)
    PROVE  Inv' /\ AbstractStep
<1> DEFINE d == job[c].dev
           row == [developers[d] EXCEPT !.name = job[c].name, !.links = job[c].links]
           out == <<DeveloperAnn("register", d, job[c])>>
           applies == developers[d] # None
<1>1. job[c].step = "updateDeveloper"
  BY DEF WriteDeveloper, OnDeveloper
<1>2. /\ d \in Dev /\ job[c].name \in Text /\ job[c] \in JobRec
      /\ job[c].links \in Opt(Link) /\ job[c].handle \in Opt(Handle)
  BY <1>1, JobReady DEF OnDevelopers, JobRec
<1>3. out \in Seq(GoodAnn) /\ out # << >>
  BY <1>2, DeveloperAnnGood, SingleGood
<1>4. ASSUME applies
      PROVE  /\ row \in Opt(DevRow)
             /\ \/ HandleOf(row) = HandleOf(developers[d])
                \/ /\ HandleOf(developers[d]) = None
                   /\ HandleOf(row) \in Handle /\ Holders(HandleOf(row)) = {}
                \/ HandleOf(developers[d]) \in Handle /\ HandleOf(row) = None
  <2>1. developers[d] \in DevRow /\ developers[d] # None
    BY <1>2, <1>4, RowTyped
  <2>2. row \in DevRow /\ row.handle = developers[d].handle
    BY <2>1, <1>2 DEF DevRow
  <2> QED BY <2>1, <2>2, NullAssumption DEF HandleOf, Opt
<1>5. /\ IF applies
           THEN developers' = [developers EXCEPT ![d] = row] /\ Owe(c, out)
           ELSE Refuse(c) /\ UNCHANGED developers
      /\ UNCHANGED <<entities, names, versions, wire, peer, second, requests,
                     faults, disturbed>>
  BY DEF WriteDeveloper, OnDeveloper
<1>6. applies \in BOOLEAN
  OBVIOUS
<1> HIDE DEF row, out, applies
<1> QED BY <1>1, <1>3, <1>4, <1>5, <1>6, OnDeveloperStep DEF OnDevelopers

\* DeleteDeveloper frees the handle.
LEMMA DropDeveloperStep ==
    ASSUME Inv, NEW c \in Client, DropDeveloper(c)
    PROVE  Inv' /\ AbstractStep
<1> DEFINE d == job[c].dev
           row == None
           out == <<DeveloperAnn("deregister", d, job[c])>>
           applies == developers[d] # None
<1>1. job[c].step = "deleteDeveloper"
  BY DEF DropDeveloper, OnDeveloper
<1>2. /\ d \in Dev /\ job[c].name \in Text /\ job[c] \in JobRec
      /\ job[c].links \in Opt(Link) /\ job[c].handle \in Opt(Handle)
  BY <1>1, JobReady DEF OnDevelopers, JobRec
<1>3. out \in Seq(GoodAnn) /\ out # << >>
  BY <1>2, DeveloperAnnGood, SingleGood
<1>4. ASSUME applies
      PROVE  /\ row \in Opt(DevRow)
             /\ \/ HandleOf(row) = HandleOf(developers[d])
                \/ /\ HandleOf(developers[d]) = None
                   /\ HandleOf(row) \in Handle /\ Holders(HandleOf(row)) = {}
                \/ HandleOf(developers[d]) \in Handle /\ HandleOf(row) = None
  <2>1. developers[d] \in DevRow /\ developers[d] # None
    BY <1>2, <1>4, RowTyped
  <2>2. developers[d].handle \in Opt(Handle)
    BY <2>1 DEF DevRow
  <2> QED BY <2>1, <2>2 DEF HandleOf, Opt
<1>5. /\ IF applies
           THEN developers' = [developers EXCEPT ![d] = row] /\ Owe(c, out)
           ELSE Refuse(c) /\ UNCHANGED developers
      /\ UNCHANGED <<entities, names, versions, wire, peer, second, requests,
                     faults, disturbed>>
  BY DEF DropDeveloper, OnDeveloper
<1>6. applies \in BOOLEAN
  OBVIOUS
<1> HIDE DEF row, out, applies
<1> QED BY <1>1, <1>3, <1>4, <1>5, <1>6, OnDeveloperStep DEF OnDevelopers

\* ClaimHandle, for a developer without a handle and a handle without a row.
LEMMA TakeHandleStep ==
    ASSUME Inv, NEW c \in Client, TakeHandle(c)
    PROVE  Inv' /\ AbstractStep
<1> DEFINE d == job[c].dev
           row == [developers[d] EXCEPT !.handle = job[c].handle]
           out == <<HandleAnn("claim", d, job[c])>>
           applies == /\ developers[d] # None /\ developers[d].handle = None
                      /\ HandleAvailable(job[c].handle)
<1>1. job[c].step = "claimHandle"
  BY DEF TakeHandle, OnDeveloper
<1>2. /\ d \in Dev /\ job[c].name \in Text /\ job[c] \in JobRec
      /\ job[c].links \in Opt(Link) /\ job[c].handle \in Opt(Handle)
  BY <1>1, JobReady DEF OnDevelopers, JobRec
<1>3. out \in Seq(GoodAnn) /\ out # << >>
  BY <1>2, HandleAnnGood, SingleGood
<1>4. ASSUME applies
      PROVE  /\ row \in Opt(DevRow)
             /\ \/ HandleOf(row) = HandleOf(developers[d])
                \/ /\ HandleOf(developers[d]) = None
                   /\ HandleOf(row) \in Handle /\ Holders(HandleOf(row)) = {}
                \/ HandleOf(developers[d]) \in Handle /\ HandleOf(row) = None
  <2>1. developers[d] \in DevRow /\ developers[d] # None
    BY <1>2, <1>4, RowTyped
  <2>2. job[c].handle \in Handle
    BY <1>1, JobReady
  <2>3. row \in DevRow /\ row.handle = job[c].handle
    BY <2>1, <2>2 DEF DevRow, Opt
  <2> QED BY <1>4, <2>1, <2>2, <2>3, NullAssumption DEF HandleOf, HandleAvailable, Opt
<1>5. /\ IF applies
           THEN developers' = [developers EXCEPT ![d] = row] /\ Owe(c, out)
           ELSE Refuse(c) /\ UNCHANGED developers
      /\ UNCHANGED <<entities, names, versions, wire, peer, second, requests,
                     faults, disturbed>>
  BY DEF TakeHandle, OnDeveloper
<1>6. applies \in BOOLEAN
  OBVIOUS
<1> HIDE DEF row, out, applies
<1> QED BY <1>1, <1>3, <1>4, <1>5, <1>6, OnDeveloperStep DEF OnDevelopers

\* ReleaseHandle frees the handle.
LEMMA GiveHandleStep ==
    ASSUME Inv, NEW c \in Client, GiveHandle(c)
    PROVE  Inv' /\ AbstractStep
<1> DEFINE d == job[c].dev
           row == [developers[d] EXCEPT !.handle = None, !.verified = FALSE]
           out == <<HandleAnn("release", d, job[c])>>
           applies == d \in Holders(job[c].handle)
<1>1. job[c].step = "releaseHandle"
  BY DEF GiveHandle, OnDeveloper
<1>2. /\ d \in Dev /\ job[c].name \in Text /\ job[c] \in JobRec
      /\ job[c].links \in Opt(Link) /\ job[c].handle \in Opt(Handle)
  BY <1>1, JobReady DEF OnDevelopers, JobRec
<1>3. out \in Seq(GoodAnn) /\ out # << >>
  BY <1>2, HandleAnnGood, SingleGood
<1>4. ASSUME applies
      PROVE  /\ row \in Opt(DevRow)
             /\ \/ HandleOf(row) = HandleOf(developers[d])
                \/ /\ HandleOf(developers[d]) = None
                   /\ HandleOf(row) \in Handle /\ Holders(HandleOf(row)) = {}
                \/ HandleOf(developers[d]) \in Handle /\ HandleOf(row) = None
  <2>1. /\ developers[d] \in DevRow /\ developers[d] # None
        /\ developers[d].handle = job[c].handle
    BY <1>2, <1>4, RowTyped DEF Holders
  <2>2. job[c].handle \in Handle
    BY <1>1, JobReady
  <2>3. row \in DevRow /\ row.handle = None
    BY <2>1 DEF DevRow, Opt
  <2> QED BY <2>1, <2>2, <2>3, NullAssumption DEF HandleOf, Opt
<1>5. /\ IF applies
           THEN developers' = [developers EXCEPT ![d] = row] /\ Owe(c, out)
           ELSE Refuse(c) /\ UNCHANGED developers
      /\ UNCHANGED <<entities, names, versions, wire, peer, second, requests,
                     faults, disturbed>>
  BY DEF GiveHandle, OnDeveloper
<1>6. applies \in BOOLEAN
  OBVIOUS
<1> HIDE DEF row, out, applies
<1> QED BY <1>1, <1>3, <1>4, <1>5, <1>6, OnDeveloperStep DEF OnDevelopers

\* UpdateHandleVerification leaves the handle.
LEMMA MarkVerifiedStep ==
    ASSUME Inv, NEW c \in Client, MarkVerified(c)
    PROVE  Inv' /\ AbstractStep
<1> DEFINE d == job[c].dev
           row == [developers[d] EXCEPT !.verified = TRUE]
           out == <<HandleAnn("claim", d, job[c])>>
           applies == developers[d] # None
<1>1. job[c].step = "verifyHandle"
  BY DEF MarkVerified, OnDeveloper
<1>2. /\ d \in Dev /\ job[c].name \in Text /\ job[c] \in JobRec
      /\ job[c].links \in Opt(Link) /\ job[c].handle \in Opt(Handle)
  BY <1>1, JobReady DEF OnDevelopers, JobRec
<1>3. out \in Seq(GoodAnn) /\ out # << >>
  BY <1>2, HandleAnnGood, SingleGood
<1>4. ASSUME applies
      PROVE  /\ row \in Opt(DevRow)
             /\ \/ HandleOf(row) = HandleOf(developers[d])
                \/ /\ HandleOf(developers[d]) = None
                   /\ HandleOf(row) \in Handle /\ Holders(HandleOf(row)) = {}
                \/ HandleOf(developers[d]) \in Handle /\ HandleOf(row) = None
  <2>1. developers[d] \in DevRow /\ developers[d] # None
    BY <1>2, <1>4, RowTyped
  <2>2. row \in DevRow /\ row.handle = developers[d].handle
    BY <2>1 DEF DevRow
  <2> QED BY <2>1, <2>2, NullAssumption DEF HandleOf, Opt
<1>5. /\ IF applies
           THEN developers' = [developers EXCEPT ![d] = row] /\ Owe(c, out)
           ELSE Refuse(c) /\ UNCHANGED developers
      /\ UNCHANGED <<entities, names, versions, wire, peer, second, requests,
                     faults, disturbed>>
  BY DEF MarkVerified, OnDeveloper
<1>6. applies \in BOOLEAN
  OBVIOUS
<1> HIDE DEF row, out, applies
<1> QED BY <1>1, <1>3, <1>4, <1>5, <1>6, OnDeveloperStep DEF OnDevelopers

-----------------------------------------------------------------------------
(* Entities and names. *)

\* An insert into the entities table.
LEMMA RegisterStep ==
    ASSUME EntitiesOK, NEW e \in Entity, NEW d \in Dev, entities[e] = None,
           entities' = [entities EXCEPT ![e] = d], UNCHANGED <<developers, names>>
    PROVE  AbstractStep
<1>1. e \notin registeredBar /\ registeredBar' = registeredBar \cup {e}
  BY NamesAssumption DEF registeredBar, EntitiesOK
<1>2. UNCHANGED <<ownerBar, bindingBar>>
  BY DEF ownerBar, bindingBar, Holders
<1>3. Abstract!Register(e)
  BY <1>1, <1>2 DEF Abstract!Register, ownerBar, bindingBar, registeredBar
<1> QED BY <1>3 DEF AbstractStep, Abstract!AbstractNext

\* A delete from the entities table, of an entity without names.
LEMMA DeregisterStep ==
    ASSUME Inv, NEW e \in Entity, entities[e] # None, NamesOf(e) = {},
           entities' = [entities EXCEPT ![e] = None], UNCHANGED <<developers, names>>
    PROVE  AbstractStep
<1>1. e \in registeredBar /\ registeredBar' = registeredBar \ {e}
  BY NamesAssumption DEF registeredBar, Inv, EntitiesOK
<1>2. UNCHANGED <<ownerBar, bindingBar>>
  BY DEF ownerBar, bindingBar, Holders
<1>3. \A f \in FQAN : bindingBar[f] # e
  BY NamesAssumption DEF bindingBar, NamesOf
<1>4. Abstract!Deregister(e)
  BY <1>1, <1>2, <1>3 DEF Abstract!Deregister, ownerBar, bindingBar, registeredBar
<1> QED BY <1>4 DEF AbstractStep, Abstract!AbstractNext

\* An insert into zns_names, for an entity that has a row.
LEMMA BindStep ==
    ASSUME Inv, NEW f \in FQAN, NEW e \in Entity, NEW row \in NameRow,
           names[f] = None, entities[e] # None, row.entity = e,
           names' = [names EXCEPT ![f] = row], UNCHANGED <<developers, entities>>
    PROVE  AbstractStep
<1>1. bindingBar[f] = None /\ e \in registeredBar
  BY DEF bindingBar, registeredBar
<1>2. bindingBar' = [bindingBar EXCEPT ![f] = e]
  BY NullAssumption DEF bindingBar, Inv, NamesOK
<1>3. UNCHANGED <<ownerBar, registeredBar>>
  BY DEF ownerBar, registeredBar, Holders
<1>4. Abstract!Bind(f, e)
  BY <1>1, <1>2, <1>3 DEF Abstract!Bind, ownerBar, bindingBar, registeredBar
<1> QED BY <1>4 DEF AbstractStep, Abstract!AbstractNext

\* A delete of names of one entity from zns_names.
LEMMA UnbindStep ==
    ASSUME Inv, NEW e \in Entity, NEW S \in SUBSET FQAN, S \subseteq NamesOf(e),
           Without(S), UNCHANGED <<developers, entities>>
    PROVE  AbstractStep
<1>1. \A f \in S : bindingBar[f] = e
  BY DEF bindingBar, NamesOf
<1>2. bindingBar' = [f \in FQAN |-> IF f \in S THEN None ELSE bindingBar[f]]
  BY DEF bindingBar, Without
<1>3. UNCHANGED <<ownerBar, registeredBar>>
  BY DEF ownerBar, registeredBar, Holders
<1>4. Abstract!Unbind(S, e)
  BY <1>1, <1>2, <1>3 DEF Abstract!Unbind, ownerBar, bindingBar, registeredBar
<1> QED BY <1>4 DEF AbstractStep, Abstract!AbstractNext

\* The cascade keeps the types of names and versions.
LEMMA WithoutKeeps ==
    ASSUME Inv, NEW S, Without(S) PROVE NamesOK' /\ VersionsOK'
  BY DEF Inv, Without, NamesOK, VersionsOK, Opt

\* CreateAgent inserts the entity.
LEMMA CreateEntityStep ==
    ASSUME Inv, NEW c \in Client, CreateEntity(c)
    PROVE  Inv' /\ AbstractStep
<1> DEFINE j == job[c]
<1>1. j.step = "createEntity" /\ j.dev \in Dev /\ j.entity \in Entity /\ j \in GoodJob
  BY JobReady DEF CreateEntity, OnEntities, Inv, JobsOK
<1>2. /\ UNCHANGED <<developers, names, versions, wire, peer, second, requests,
                     faults, disturbed>>
  BY DEF CreateEntity
<1>3. CASE entities[j.entity] = None
  <2>1. entities' = [entities EXCEPT ![j.entity] = j.dev]
    BY <1>3 DEF CreateEntity
  <2>2. EntitiesOK'
    BY <1>1, <2>1 DEF Inv, EntitiesOK, Opt
  <2>3. JobsOK'
    <3>1. CASE j.ename = None
      BY <1>3, <3>1, RefuseKeeps DEF CreateEntity, Inv, Refuse
    <3>2. CASE j.ename # None
      <4>1. [j EXCEPT !.step = "lookUpName"] \in GoodJob
        BY <1>1, <3>2 DEF GoodJob, JobRec, Ready, Step, Opt, OnDevelopers,
                          OnNames, OnEntities
      <4>2. job' = [job EXCEPT ![c] = [j EXCEPT !.step = "lookUpName"]]
        BY <1>3, <3>2 DEF CreateEntity
      <4> QED BY <4>1, <4>2, JobSet DEF Inv
    <3> QED BY <3>1, <3>2
  <2>4. Inv'
    BY <1>2, <2>2, <2>3, Untouched DEF Inv
  <2>5. AbstractStep
    BY <1>1, <1>2, <1>3, <2>1, RegisterStep DEF Inv
  <2> QED BY <2>4, <2>5
<1>4. CASE entities[j.entity] # None
  <2>1. Refuse(c) /\ UNCHANGED entities
    BY <1>4 DEF CreateEntity
  <2> QED BY <1>2, <2>1, DeveloperRefused
<1> QED BY <1>3, <1>4

\* The developer is looked up again, for the handle.
LEMMA LookUpNameStep ==
    ASSUME Inv, NEW c \in Client, LookUpName(c)
    PROVE  Inv' /\ AbstractStep
<1> DEFINE j == job[c]
           f == <<developers[j.dev].handle, j.ename>>
<1>1. /\ j.step = "lookUpName" /\ j.dev \in Dev /\ j.entity \in Entity
      /\ j.ename \in EntityName /\ j \in JobRec
  BY JobReady DEF LookUpName, OnEntities
<1>2. UNCHANGED <<developers, entities, names, versions, wire, peer, second,
                 requests, faults, disturbed>>
  BY DEF LookUpName, home
<1>3. JobsOK'
  <2>1. CASE developers[j.dev] # None /\ developers[j.dev].handle # None
             /\ NameAvailable(f)
    <3>1. f \in FQAN
      BY <1>1, <2>1, RowTyped DEF FQAN, Opt
    <3>2. j.version \in Opt(Version) /\ j.newVersion \in Opt(Version)
      BY <1>1 DEF JobRec
    <3>3. job' = [job EXCEPT ![c] = NameJob("createName", f, j.entity, j.version,
                                           j.newVersion)]
      BY <2>1 DEF LookUpName
    <3> HIDE DEF f
    <3>4. NameJob("createName", f, j.entity, j.version, j.newVersion) \in GoodJob
      BY <1>1, <3>1, <3>2, NameJobGood DEF OnNames
    <3> QED BY <3>3, <3>4, JobSet DEF Inv
  <2>2. CASE ~(developers[j.dev] # None /\ developers[j.dev].handle # None
               /\ NameAvailable(f))
    BY <2>2, RefuseKeeps DEF LookUpName, Inv
  <2> QED BY <2>1, <2>2
<1>4. Inv'
  BY <1>2, <1>3, Untouched DEF Inv
<1> QED BY <1>2, <1>4, TablesStutter

\* After the write to zns_names a request owes its version or its announcement.
LEMMA AfterNameKeeps ==
    ASSUME Inv, NEW c \in Client, job[c].step \in OnNames, AfterName(c)
    PROVE  JobsOK'
<1> DEFINE j == job[c]
<1>1. /\ j \in GoodJob /\ j \in JobRec /\ j.handle \in Handle
      /\ j.ename \in EntityName /\ j.entity \in Entity /\ JobsOK
      /\ j.newVersion \in Opt(Version)
  BY JobReady DEF Inv, JobsOK, JobRec
<1>2. CASE j.newVersion # None
  <2>1. [j EXCEPT !.step = "createVersion"] \in GoodJob
    BY <1>1, <1>2 DEF GoodJob, JobRec, Ready, Step, Opt, OnDevelopers,
                      OnNames, OnEntities
  <2>2. job' = [job EXCEPT ![c] = [j EXCEPT !.step = "createVersion"]]
    BY <1>2 DEF AfterName
  <2> QED BY <1>1, <2>1, <2>2, JobSet
<1>3. CASE j.newVersion = None
  <2>1. Owe(c, <<NameAnn("bind", j)>>)
    BY <1>3 DEF AfterName
  <2> QED BY <1>1, <2>1, NameAnnGood, SingleGood, OweKeeps
<1> QED BY <1>2, <1>3

\* CreateZNSName binds a free name to an entity that has a row.
LEMMA CreateNameStep ==
    ASSUME Inv, NEW c \in Client, CreateName(c)
    PROVE  Inv' /\ AbstractStep
<1> DEFINE j == job[c]
           f == <<j.handle, j.ename>>
           row == [entity |-> j.entity, version |-> j.version]
<1>1. j.step = "createName" /\ f \in FQAN /\ j.entity \in Entity /\ j \in JobRec
  BY JobReady DEF CreateName, OnNames
<1>2. UNCHANGED <<developers, entities, versions, wire, peer, second, requests,
                 faults, disturbed>>
  BY DEF CreateName
<1>3. CASE NameAvailable(f) /\ entities[j.entity] # None
  <2>1. names' = [names EXCEPT ![f] = row] /\ AfterName(c)
    BY <1>3 DEF CreateName
  <2>2. row \in NameRow /\ row.entity = j.entity
    BY <1>1 DEF NameRow, JobRec
  <2>3. NamesOK'
    BY <1>1, <2>1, <2>2 DEF Inv, NamesOK, Opt
  <2>4. JobsOK'
    BY <1>1, <2>1, AfterNameKeeps DEF OnNames
  <2>5. Inv'
    BY <1>2, <2>3, <2>4, Untouched DEF Inv
  <2> HIDE DEF f, row
  <2>6. AbstractStep
    BY <1>1, <1>2, <1>3, <2>1, <2>2, BindStep DEF NameAvailable
  <2> QED BY <2>5, <2>6
<1>4. CASE ~(NameAvailable(f) /\ entities[j.entity] # None)
  <2>1. Refuse(c) /\ UNCHANGED names
    BY <1>4 DEF CreateName
  <2> QED BY <1>2, <2>1, DeveloperRefused
<1> QED BY <1>3, <1>4

\* CreateZNSVersion: NameRegistry does not know of versions.
LEMMA CreateVersionStep ==
    ASSUME Inv, NEW c \in Client, CreateVersion(c)
    PROVE  Inv' /\ AbstractStep
<1> DEFINE j == job[c]
           f == <<j.handle, j.ename>>
<1>1. /\ j.step = "createVersion" /\ f \in FQAN /\ j \in JobRec
      /\ j.handle \in Handle /\ j.ename \in EntityName
      /\ j.entity \in Entity /\ j.newVersion \in Version
  BY JobReady DEF CreateVersion, OnNames
<1>2. UNCHANGED <<developers, entities, names, wire, peer, second, requests,
                 faults, disturbed>>
  BY DEF CreateVersion
<1>3. VersionsOK'
  <2>1. versions' = versions
        \/ versions' = [versions EXCEPT ![f][j.newVersion] = j.entity]
    BY DEF CreateVersion
  <2> QED BY <1>1, <2>1 DEF Inv, VersionsOK, Opt
<1>4. JobsOK'
  <2>1. Owe(c, <<NameAnn("bind", j)>>)
    BY DEF CreateVersion
  <2> QED BY <1>1, <2>1, NameAnnGood, SingleGood, OweKeeps DEF Inv
<1>5. Inv'
  BY <1>2, <1>3, <1>4, Untouched DEF Inv
<1> QED BY <1>2, <1>5, TablesStutter

\* UpdateZNSName leaves the entity of the row.
LEMMA WriteNameStep ==
    ASSUME Inv, NEW c \in Client, WriteName(c)
    PROVE  Inv' /\ AbstractStep
<1> DEFINE j == job[c]
           f == <<j.handle, j.ename>>
<1>1. j.step = "updateName" /\ f \in FQAN /\ j.version \in Opt(Version)
  BY JobReady DEF WriteName, OnNames, JobRec
<1>2. UNCHANGED <<developers, entities, versions, wire, peer, second, requests,
                 faults, disturbed>>
  BY DEF WriteName
<1>3. CASE names[f] # None
  <2> DEFINE row == [names[f] EXCEPT !.version = j.version]
  <2>1. names' = [names EXCEPT ![f] = row] /\ AfterName(c)
    BY <1>3 DEF WriteName
  <2>2. row \in NameRow /\ row.entity = names[f].entity
    BY <1>1, <1>3, RowTyped DEF NameRow
  <2> HIDE DEF f, row
  <2>3. NamesOK'
    BY <1>1, <2>1, <2>2 DEF Inv, NamesOK, Opt
  <2>4. JobsOK'
    BY <1>1, <2>1, AfterNameKeeps DEF OnNames
  <2>5. Inv'
    BY <1>2, <2>3, <2>4, Untouched DEF Inv
  <2>6. UNCHANGED bindingBar
    BY <1>1, <1>3, <2>1, <2>2, NullAssumption DEF bindingBar, Inv, NamesOK
  <2>7. UNCHANGED <<ownerBar, registeredBar>>
    BY <1>2 DEF ownerBar, registeredBar, Holders
  <2> QED BY <2>5, <2>6, <2>7, StutterStep
<1>4. CASE names[f] = None
  <2>1. Refuse(c) /\ UNCHANGED names
    BY <1>4 DEF WriteName
  <2> QED BY <1>2, <2>1, DeveloperRefused
<1> QED BY <1>3, <1>4

\* DeleteZNSName.
LEMMA DropNameStep ==
    ASSUME Inv, NEW c \in Client, DropName(c)
    PROVE  Inv' /\ AbstractStep
<1> DEFINE j == job[c]
           f == <<j.handle, j.ename>>
<1>1. /\ j.step = "deleteName" /\ f \in FQAN /\ j \in JobRec
      /\ j.handle \in Handle /\ j.ename \in EntityName /\ j.entity \in Entity
  BY JobReady DEF DropName, OnNames
<1>2. UNCHANGED <<developers, entities, wire, peer, second, requests, faults,
                 disturbed>>
  BY DEF DropName
<1>3. CASE names[f] # None
  <2>1. Without({f}) /\ Owe(c, <<NameAnn("unbind", j)>>)
    BY <1>3 DEF DropName
  <2>2. JobsOK'
    BY <1>1, <2>1, NameAnnGood, SingleGood, OweKeeps DEF Inv
  <2>3. Inv'
    BY <1>2, <2>1, <2>2, Untouched, WithoutKeeps DEF Inv
  <2> HIDE DEF f
  <2>4. names[f].entity \in Entity /\ {f} \subseteq NamesOf(names[f].entity)
    BY <1>1, <1>3, RowTyped DEF NamesOf
  <2>5. AbstractStep
    BY <1>1, <1>2, <2>1, <2>4, UnbindStep
  <2> QED BY <2>3, <2>5
<1>4. CASE names[f] = None
  <2>1. Refuse(c) /\ UNCHANGED <<names, versions>>
    BY <1>4 DEF DropName
  <2> QED BY <1>2, <2>1, DeveloperRefused
<1> QED BY <1>3, <1>4

\* DeleteEntity, first statement.
LEMMA DropNamesStep ==
    ASSUME Inv, NEW c \in Client, DropNames(c)
    PROVE  Inv' /\ AbstractStep
<1> DEFINE j == job[c]
           e == j.entity
<1>1. /\ j.step = "deleteNames" /\ j.dev \in Dev /\ e \in Entity /\ j \in GoodJob
  BY JobReady DEF DropNames, OnEntities, Inv, JobsOK
<1>2. /\ UNCHANGED <<developers, entities, wire, peer, second, requests, faults>>
      /\ Without(NamesOf(e)) /\ disturbed' = disturbed \cup NamesOf(e)
      /\ job' = [job EXCEPT ![c] = [j EXCEPT !.step = "deleteEntity"]]
  BY DEF DropNames
<1>3. JobsOK'
  <2>1. [j EXCEPT !.step = "deleteEntity"] \in GoodJob
    BY <1>1 DEF GoodJob, JobRec, Ready, Step, Opt, OnDevelopers, OnNames, OnEntities
  <2> QED BY <1>2, <2>1, JobSet DEF Inv
<1>4. CountsOK'
  <2>1. NamesOf(e) \subseteq Subject
    BY DEF NamesOf, Subject
  <2> QED BY <1>2, <2>1 DEF Inv, CountsOK
<1>5. Inv'
  BY <1>2, <1>3, <1>4, Untouched, WithoutKeeps DEF Inv
<1>6. AbstractStep
  <2>1. NamesOf(e) \in SUBSET FQAN
    BY DEF NamesOf
  <2> QED BY <1>1, <1>2, <2>1, UnbindStep
<1> QED BY <1>5, <1>6

\* DeleteEntity, second statement: the foreign key keeps the entity of a name.
LEMMA DropEntityStep ==
    ASSUME Inv, NEW c \in Client, DropEntity(c)
    PROVE  Inv' /\ AbstractStep
<1> DEFINE j == job[c]
           e == j.entity
<1>1. j.step = "deleteEntity" /\ j.dev \in Dev /\ e \in Entity
  BY JobReady DEF DropEntity, OnEntities
<1>2. /\ UNCHANGED <<developers, names, versions, wire, peer, second, requests,
                     faults, disturbed>>
      /\ Refuse(c)
  BY DEF DropEntity
<1>3. CASE NamesOf(e) = {} /\ entities[e] = j.dev
  <2>1. entities' = [entities EXCEPT ![e] = None]
    BY <1>3 DEF DropEntity
  <2>2. EntitiesOK'
    BY <1>1, <2>1 DEF Inv, EntitiesOK, Opt
  <2>3. Inv'
    BY <1>2, <2>2, Untouched, RefuseKeeps DEF Inv
  <2>4. entities[e] # None
    BY <1>1, <1>3, NamesAssumption
  <2>5. AbstractStep
    BY <1>1, <1>2, <1>3, <2>1, <2>4, DeregisterStep
  <2> QED BY <2>3, <2>5
<1>4. CASE ~(NamesOf(e) = {} /\ entities[e] = j.dev)
  <2>1. UNCHANGED entities
    BY <1>4 DEF DropEntity
  <2> QED BY <1>2, <2>1, DeveloperRefused
<1> QED BY <1>3, <1>4

-----------------------------------------------------------------------------
(* Announcements, the peer and the faults. *)

\* BroadcastAnnouncement writes none of the tables.
LEMMA AnnounceStep ==
    ASSUME Inv, NEW c \in Client, Announce(c)
    PROVE  Inv' /\ AbstractStep
<1> DEFINE out == job[c].out
<1>1. job[c].step = "announce" /\ out \in Seq(GoodAnn) /\ out # << >>
  BY JobReady DEF Announce, JobRec
<1>2. /\ UNCHANGED <<developers, entities, names, versions, peer, requests, faults,
                     disturbed>>
      /\ second' \in {s \in {second, second + 1} : s <= MaxSecond}
      /\ wire' = Append(wire, [body |-> Head(out), at |-> second'])
      /\ IF Len(out) = 1 THEN Refuse(c) ELSE Owe(c, Tail(out))
  BY DEF Announce, home
<1>3. CountsOK' /\ second' \in Nat
  BY <1>2 DEF Inv, CountsOK
<1> HIDE DEF out
<1>4. WireOK'
  <2>1. Head(out) \in GoodAnn
    BY <1>1
  <2>2. [body |-> Head(out), at |-> second'] \in [body : GoodAnn, at : Nat]
    BY <1>3, <2>1
  <2> QED BY <1>2, <2>2, AppendProperties DEF Inv, WireOK
<1>5. JobsOK'
  <2>1. CASE Len(out) = 1
    BY <1>2, <2>1, RefuseKeeps DEF Inv
  <2>2. CASE Len(out) # 1
    <3>1. Tail(out) \in Seq(GoodAnn) /\ Tail(out) # << >>
      <4>1. Tail(out) \in Seq(GoodAnn) /\ Len(Tail(out)) = Len(out) - 1
        BY <1>1, HeadTailProperties
      <4>2. Len(out) \in Nat /\ Len(out) # 0
        BY <1>1, EmptySeq
      <4>3. Len(Tail(out)) # 0
        BY <2>2, <4>1, <4>2
      <4> QED BY <4>1, <4>3, EmptySeq
    <3> QED BY <1>2, <2>2, <3>1, OweKeeps DEF Inv
  <2> QED BY <2>1, <2>2
<1>6. Inv'
  BY <1>2, <1>3, <1>4, <1>5, Untouched DEF Inv
<1> QED BY <1>2, <1>6, TablesStutter

\* HandleAnnouncement writes the tables of the peer only.
LEMMA HandleAnnouncementStep ==
    ASSUME Inv, HandleAnnouncement
    PROVE  Inv' /\ AbstractStep
<1> DEFINE a == Head(wire).body
           key == <<a.subject, Head(wire).at>>
<1>1. wire \in Seq([body : GoodAnn, at : Nat]) /\ wire # << >> /\ wire' = Tail(wire)
  BY DEF Inv, WireOK, HandleAnnouncement
<1>2. a \in GoodAnn /\ Head(wire).at \in Nat
  <2>1. Head(wire) \in [body : GoodAnn, at : Nat]
    BY <1>1, SeqTyped, Zenon
  <2> QED BY <2>1
<1>3. /\ a \in Announcement /\ a.subject \in Subject
      /\ a.links \in Opt(Link) /\ a.version \in Opt(Version)
      /\ a.action \in {"bind", "unbind"} => a.subject \in FQAN /\ a.entity \in Entity
      /\ a.action \notin {"bind", "unbind"} => a.subject \in Dev /\ a.name \in Text
  BY <1>2 DEF GoodAnn, Announcement
<1>4. UNCHANGED <<developers, entities, names, versions, job, second, requests, faults>>
  BY DEF HandleAnnouncement, home
<1>5. WireOK'
  BY <1>1 DEF WireOK
<1>6. key \in Subject \X Nat
  BY <1>2, <1>3
<1>7. PeerOK' /\ CountsOK'
  <2>0. PeerOK /\ CountsOK
    BY DEF Inv
  <2>1. CASE key \in seen
    <3>1. disturbed' = disturbed \cup {a.subject} /\ UNCHANGED peer
      BY <2>1 DEF HandleAnnouncement
    <3> QED BY <1>3, <1>4, <2>0, <3>1 DEF PeerOK, CountsOK, peer
  <2>2. CASE key \notin seen
    <3>1. /\ seen' = seen \cup {key} /\ UNCHANGED disturbed
          /\ \/ /\ a.action \in {"register", "claim", "release"}
                /\ UpsertGossipDeveloper(a) /\ UNCHANGED gnames
             \/ /\ a.action = "deregister"
                /\ TombstoneGossipDeveloper(a) /\ UNCHANGED gnames
             \/ /\ a.action = "bind"
                /\ UpsertGossipZNSName(a) /\ UNCHANGED gdevs
             \/ /\ a.action = "unbind"
                /\ TombstoneGossipZNSName(a) /\ UNCHANGED gdevs
      BY <2>2 DEF HandleAnnouncement
    <3> HIDE DEF a, key
    <3>2. CountsOK' /\ seen' \in SUBSET (Subject \X Nat)
      BY <1>4, <1>6, <2>0, <3>1 DEF PeerOK, CountsOK
    <3>3. CASE /\ a.action \in {"register", "claim", "release"}
               /\ UpsertGossipDeveloper(a) /\ UNCHANGED gnames
      <4>1. [name |-> a.name, links |-> a.links, handle |-> None,
             tombstoned |-> FALSE] \in GossipDev
        BY <1>3, <3>3 DEF GossipDev, Opt
      <4>2. ASSUME NEW g \in GossipDev
            PROVE  [g EXCEPT !.name = a.name, !.links = a.links] \in GossipDev
        BY <1>3, <3>3 DEF GossipDev
      <4>4. /\ a.subject \in Dev
            /\ gdevs \in [Dev -> Opt(GossipDev)]
        BY <1>3, <2>0, <3>3 DEF PeerOK
      <4>5. ASSUME gdevs[a.subject] = None
            PROVE  gdevs' \in [Dev -> Opt(GossipDev)]
        BY <3>3, <4>1, <4>4, <4>5 DEF UpsertGossipDeveloper, Opt
      <4>6. ASSUME gdevs[a.subject] # None
            PROVE  gdevs' \in [Dev -> Opt(GossipDev)]
        <5>1. PICK g \in GossipDev : g = gdevs[a.subject]
          BY <4>4, <4>6 DEF Opt
        <5>2. PICK w : w = [g EXCEPT !.name = a.name, !.links = a.links]
          OBVIOUS
        <5>3. w \in GossipDev
          BY <4>2, <5>2, Zenon
        <5>4. gdevs' = [gdevs EXCEPT ![a.subject] = w]
          BY <3>3, <4>6, <5>1, <5>2 DEF UpsertGossipDeveloper
        <5> QED BY <4>4, <5>3, <5>4 DEF Opt
      <4>7. gdevs' \in [Dev -> Opt(GossipDev)]
        BY <4>5, <4>6
      <4> QED BY <2>0, <3>2, <3>3, <4>7 DEF PeerOK
    <3>4. CASE /\ a.action = "deregister"
               /\ TombstoneGossipDeveloper(a) /\ UNCHANGED gnames
      <4>1. ASSUME NEW g \in GossipDev
            PROVE  [g EXCEPT !.tombstoned = TRUE] \in GossipDev
        BY DEF GossipDev
      <4>2. gdevs' \in [Dev -> Opt(GossipDev)]
        BY <1>3, <2>0, <3>4, <4>1 DEF TombstoneGossipDeveloper, PeerOK, Opt
      <4> QED BY <2>0, <3>2, <3>4, <4>2 DEF PeerOK
    <3>5. CASE /\ a.action = "bind"
               /\ UpsertGossipZNSName(a) /\ UNCHANGED gdevs
      <4>1. [entity |-> a.entity, version |-> a.version,
             tombstoned |-> FALSE] \in GossipName
        BY <1>3, <3>5 DEF GossipName
      <4>2. gnames' \in [FQAN -> Opt(GossipName)]
        BY <1>3, <2>0, <3>5, <4>1 DEF UpsertGossipZNSName, PeerOK, Opt
      <4> QED BY <2>0, <3>2, <3>5, <4>2 DEF PeerOK
    <3>6. CASE /\ a.action = "unbind"
               /\ TombstoneGossipZNSName(a) /\ UNCHANGED gdevs
      <4>1. ASSUME NEW g \in GossipName
            PROVE  [g EXCEPT !.tombstoned = TRUE] \in GossipName
        BY DEF GossipName
      <4>2. gnames' \in [FQAN -> Opt(GossipName)]
        BY <1>3, <2>0, <3>6, <4>1 DEF TombstoneGossipZNSName, PeerOK, Opt
      <4> QED BY <2>0, <3>2, <3>6, <4>2 DEF PeerOK
    <3> QED BY <3>1, <3>2, <3>3, <3>4, <3>5, <3>6
  <2> QED BY <2>1, <2>2
<1>8. Inv'
  BY <1>4, <1>5, <1>7, Untouched DEF Inv
<1> QED BY <1>4, <1>8, TablesStutter

\* A lost connection or a crash loses messages and requests, not rows.
LEMMA FaultStep ==
    ASSUME Inv, Disconnect \/ Crash
    PROVE  Inv' /\ AbstractStep
<1>1. UNCHANGED <<developers, entities, names, versions, peer, second, requests>>
      /\ faults' = faults + 1
  BY DEF Disconnect, Crash, home
<1>2. CASE Disconnect
  <2>1. wire' = << >> /\ UNCHANGED job
        /\ disturbed' = disturbed \cup {wire[i].body.subject : i \in DOMAIN wire}
    BY <1>2 DEF Disconnect
  <2>2. \A i \in DOMAIN wire : wire[i].body.subject \in Subject
    <3>1. \A i \in DOMAIN wire : wire[i] \in [body : GoodAnn, at : Nat]
      BY SeqTyped, Zenon DEF Inv, WireOK
    <3>2. \A b \in GoodAnn : b.subject \in Subject
      BY DEF GoodAnn, Announcement
    <3> QED BY <3>1, <3>2
  <2>3. WireOK' /\ CountsOK'
    BY <1>1, <2>1, <2>2 DEF Inv, WireOK, CountsOK
  <2> QED BY <1>1, <2>1, <2>3, Untouched, TablesStutter DEF Inv
<1>3. CASE Crash
  <2>1. job' = [c \in Client |-> NoJob] /\ UNCHANGED wire
        /\ disturbed' = disturbed \cup UNION {Subjects(job[c]) : c \in Client}
    BY <1>3 DEF Crash
  <2>2. JobsOK'
    BY <2>1, NoJobGood DEF JobsOK
  <2>3. \A c \in Client : Subjects(job[c]) \subseteq Subject
    BY SubjectsTyped DEF Inv, JobsOK
  <2>4. CountsOK'
    BY <1>1, <2>1, <2>3 DEF Inv, CountsOK
  <2> QED BY <1>1, <2>1, <2>2, <2>4, Untouched, TablesStutter DEF Inv
<1> QED BY <1>2, <1>3

-----------------------------------------------------------------------------
(* The first theorems. *)

\* The empty registry satisfies the invariant.
LEMMA InitHolds == Init => Inv
<1> SUFFICES ASSUME Init PROVE Inv
  OBVIOUS
<1>1. JobsOK
  BY NoJobGood DEF Init, JobsOK
<1>2. WireOK
  BY DEF Init, WireOK
<1> QED BY <1>1, <1>2 DEF Init, Inv, DevelopersOK, EntitiesOK, NamesOK,
                          VersionsOK, PeerOK, CountsOK, Opt

\* Every step keeps the invariant and is a step of NameRegistry, or none.
LEMMA NextKeeps == Inv /\ [Next]_vars => Inv' /\ AbstractStep
<1> SUFFICES ASSUME Inv, [Next]_vars PROVE Inv' /\ AbstractStep
  OBVIOUS
<1>1. ASSUME NEW c \in Client, Request(c) PROVE Inv' /\ AbstractStep
  <2>1. UNCHANGED <<developers, entities, names>>
    BY <1>1 DEF Request, RegisterDeveloper, ApproveDeveloper, UpdateDeveloper,
                DeleteDeveloper, ClaimHandle, ReleaseHandle, VerifyHandle,
                RegisterEntity, UpdateName, RegisterName, ReleaseName,
                DeleteEntity, Begin, home
  <2> QED BY <1>1, <2>1, RequestKeeps, TablesStutter
<1>2. ASSUME NEW c \in Client, Handler(c) PROVE Inv' /\ AbstractStep
  BY <1>2, CreateDeveloperStep, WriteDeveloperStep, DropDeveloperStep,
     TakeHandleStep, GiveHandleStep, MarkVerifiedStep, CreateEntityStep,
     LookUpNameStep, CreateNameStep, CreateVersionStep, WriteNameStep,
     DropNameStep, DropNamesStep, DropEntityStep, AnnounceStep
     DEF Handler
<1>3. CASE UNCHANGED vars
  <2>1. UNCHANGED <<developers, entities, names, versions, job, wire, peer,
                   second, requests, faults, disturbed>>
    BY <1>3 DEF vars, peer
  <2> QED BY <2>1, Untouched, TablesStutter DEF Inv
<1> QED BY <1>1, <1>2, <1>3, HandleAnnouncementStep, FaultStep DEF Next

\* Names are pulled only by deletes, and torn only by crashes.
LEMMA BlameStays ==
    ASSUME [Next]_vars
    PROVE  \/ UNCHANGED <<torn, pulled>>
           \/ \E c \in Client : DropName(c) \/ DropNames(c)
           \/ Crash
<1>1. ASSUME NEW c \in Client, Request(c) PROVE UNCHANGED <<torn, pulled>>
  BY <1>1 DEF Request, RegisterDeveloper, ApproveDeveloper, UpdateDeveloper,
              DeleteDeveloper, ClaimHandle, ReleaseHandle, VerifyHandle,
              RegisterEntity, UpdateName, RegisterName, ReleaseName,
              DeleteEntity, Begin
<1>2. ASSUME NEW c \in Client, Handler(c), ~DropName(c), ~DropNames(c)
      PROVE  UNCHANGED <<torn, pulled>>
  <2>1. CASE \/ CreateDeveloper(c) \/ WriteDeveloper(c) \/ DropDeveloper(c)
             \/ TakeHandle(c) \/ GiveHandle(c) \/ MarkVerified(c)
    BY <2>1 DEF CreateDeveloper, WriteDeveloper, DropDeveloper, TakeHandle,
                GiveHandle, MarkVerified, OnDeveloper
  <2>2. CASE \/ CreateEntity(c) \/ LookUpName(c) \/ CreateName(c) \/ CreateVersion(c)
             \/ WriteName(c) \/ DropEntity(c) \/ Announce(c)
    BY <2>2 DEF CreateEntity, LookUpName, CreateName, CreateVersion, WriteName,
                DropEntity, Announce
  <2> QED BY <1>2, <2>1, <2>2 DEF Handler
<1>3. HandleAnnouncement \/ Disconnect \/ UNCHANGED vars => UNCHANGED <<torn, pulled>>
  BY DEF HandleAnnouncement, Disconnect, vars
<1> QED BY <1>1, <1>2, <1>3 DEF Next

\* They are names, and versions of names.
LEMMA BlameKept == Inv /\ BlameOK /\ [Next]_vars => BlameOK'
<1> SUFFICES ASSUME Inv, BlameOK, [Next]_vars PROVE BlameOK'
  OBVIOUS
<1>1. CASE UNCHANGED <<torn, pulled>>
  BY <1>1 DEF BlameOK
<1>2. ASSUME NEW c \in Client, DropName(c) PROVE BlameOK'
  <2>1. <<job[c].handle, job[c].ename>> \in FQAN
    BY <1>2, JobReady DEF DropName, OnNames
  <2> QED BY <1>2, <2>1 DEF DropName, Unwritten, BlameOK
<1>3. ASSUME NEW c \in Client, DropNames(c) PROVE BlameOK'
  BY <1>3 DEF DropNames, Unwritten, NamesOf, BlameOK
<1>4. CASE Crash
  BY <1>4 DEF Crash, BlameOK
<1> QED BY <1>1, <1>2, <1>3, <1>4, BlameStays

\* Every reachable state of the naming service is well typed: in particular, no
\* handler comes to a statement without the fields the statement uses.
THEOREM TypeCorrect == Spec => []TypeOK
<1>1. Init => Inv /\ BlameOK
  BY InitHolds DEF Init, BlameOK
<1>2. Inv /\ BlameOK /\ [Next]_vars => (Inv /\ BlameOK)'
  BY NextKeeps, BlameKept
<1> QED BY <1>1, <1>2, InvImpliesTypes, PTL DEF Spec

\* The handlers implement NameRegistry: handles and names have one owner at a
\* time and never change hands in one step, and an entity goes only after its
\* names, whatever requests overlap and wherever a crash cuts them short.
THEOREM ImplementsNameRegistry == Spec => NamesAreOwned
<1>1. Init => Abstract!AbstractInit
  <2> SUFFICES ASSUME Init PROVE Abstract!AbstractInit
    OBVIOUS
  <2>1. ownerBar = {} /\ registeredBar = {}
    BY DEF Init, ownerBar, registeredBar, Holders
  <2>2. bindingBar = [f \in FQAN |-> None]
    BY DEF Init, bindingBar
  <2> QED BY <2>1, <2>2 DEF Abstract!AbstractInit, Abstract!OneOwner,
             Abstract!BoundToRegistered, ownerBar, registeredBar, bindingBar
<1>2. AbstractStep => [Abstract!AbstractNext]_(Abstract!abstractVars)
  BY DEF AbstractStep
<1> QED BY InitHolds, NextKeeps, <1>1, <1>2, PTL
        DEF Spec, NamesAreOwned, Abstract!AbstractSpec

-----------------------------------------------------------------------------
(* What the peer is told. A second invariant follows each developer and    *)
(* name that is not disturbed through the requests that are about it, the  *)
(* announcements they owe, the connection and the tables of the peer.      *)

\* Two requests about one developer or name disturb it.
NoOverlap ==
    \A c, o \in Client : c # o =>
        Subjects(job[c]) \cap Subjects(job[o]) \subseteq disturbed

\* The version that goes to zns_names is the one that goes to zns_versions.
VersionsAgree ==
    \A c \in Client :
        /\ job[c].step \in {"createEntity", "lookUpName", "createName", "createVersion"}
              => job[c].newVersion = job[c].version
        /\ job[c].step = "updateName" => job[c].newVersion \in {None, job[c].version}

OnWire == [body : GoodAnn, at : Nat]

\* The last announcement about something, those in A, is right, one of R; or
\* there is none on the way, and what the peer has is right.
Settled(w, A, R, ok) ==
    \/ \E i \in 1..Len(w) : /\ w[i].body \in R
                            /\ \A k \in (i+1)..Len(w) : w[k].body \notin A
    \/ ok /\ \A i \in 1..Len(w) : w[i].body \notin A

\* A request owes an announcement of A; all those it owes are of R.
Owes(j, A) == j.step = "announce" /\ \E i \in 1..Len(j.out) : j.out[i] \in A
OwesRight(j, A, R) ==
    j.step = "announce" => \A i \in 1..Len(j.out) : j.out[i] \in A => j.out[i] \in R

\* The announcements about a name, and those that the home registry's row
\* bears out.
Says(a) == IF a.action = "bind" THEN [entity |-> a.entity, version |-> a.version]
           ELSE None
NameAnns(f) == {a \in GoodAnn : a.action \in {"bind", "unbind"} /\ a.subject = f}
RightNameAnns(f) == {a \in NameAnns(f) : Says(a) = HomeResolve(f)}

\* A request about a name knows the row: what it has read still holds.
NameJobRight(j, f) ==
    /\ At(j, "updateName", f) \/ At(j, "createVersion", f) =>
         names[f] # None /\ names[f].entity = j.entity
    /\ At(j, "createVersion", f) \/ (At(j, "updateName", f) /\ j.newVersion = None) =>
         names[f].version = j.version
    /\ OwesRight(j, NameAnns(f), RightNameAnns(f))

NameSettled(f) ==
    Settled(wire, NameAnns(f), RightNameAnns(f), PeerResolve(f) = HomeResolve(f))

NameInv(f) ==
    /\ \A c \in Client : NameJobRight(job[c], f)
    /\ (\A c \in Client : ~At(job[c], "createVersion", f) /\ ~Owes(job[c], NameAnns(f)))
         => NameSettled(f)

\* The same for a developer with a row.
DevAnns(d) == {a \in GoodAnn : a.action \notin {"bind", "unbind"} /\ a.subject = d}
Tells(a, row) ==
    a.action # "deregister" /\ a.name = row.name /\ a.links \in {row.links, None}
RightDevAnns(d) == {a \in DevAnns(d) : Tells(a, developers[d])}

DevJobRight(j, d) ==
    /\ j.step \in {"claimHandle", "releaseHandle", "verifyHandle"} /\ j.dev = d =>
         developers[d] # None /\ developers[d].name = j.name
    /\ j.step = "verifyHandle" /\ j.dev = d => developers[d].handle # None
    /\ developers[d] # None => OwesRight(j, DevAnns(d), RightDevAnns(d))

PeerHas(d) ==
    /\ gdevs[d] # None
    /\ gdevs[d].name = developers[d].name
    /\ gdevs[d].links \in {developers[d].links, None}
DevSettled(d) == Settled(wire, DevAnns(d), RightDevAnns(d), PeerHas(d))

DevInv(d) ==
    /\ \A c \in Client : DevJobRight(job[c], d)
    /\ developers[d] # None /\ developers[d].verified => developers[d].handle # None
    /\ developers[d] # None /\ (\A c \in Client : ~Owes(job[c], DevAnns(d))) => DevSettled(d)

PeerInv ==
    /\ NoOverlap
    /\ VersionsAgree
    /\ \A f \in FQAN \ disturbed : NameInv(f)
    /\ \A d \in Dev \ disturbed : DevInv(d)

-----------------------------------------------------------------------------
(* The connection. *)

\* An announcement goes on the connection behind the others.
LEMMA SettledAppend ==
    ASSUME NEW w \in Seq(OnWire), NEW x \in OnWire, NEW A, NEW R, NEW ok \in BOOLEAN,
           \/ x.body \in R
           \/ x.body \notin A /\ Settled(w, A, R, ok)
    PROVE  Settled(Append(w, x), A, R, ok)
<1> DEFINE u == Append(w, x)
<1>1. /\ Len(w) \in Nat /\ Len(u) = Len(w) + 1 /\ u[Len(w) + 1] = x
      /\ \A i \in 1..Len(w) : u[i] = w[i]
  OBVIOUS
<1> HIDE DEF u
<1> SUFFICES Settled(u, A, R, ok)
  BY DEF u
<1>2. CASE x.body \in R
  BY <1>1, <1>2 DEF Settled
<1>3. CASE x.body \notin A /\ Settled(w, A, R, ok)
  <2>1. CASE \E i \in 1..Len(w) : /\ w[i].body \in R
                                  /\ \A k \in (i+1)..Len(w) : w[k].body \notin A
    <3>1. PICK i \in 1..Len(w) : /\ w[i].body \in R
                                 /\ \A k \in (i+1)..Len(w) : w[k].body \notin A
      BY <2>1
    <3>2. i \in 1..Len(u) /\ u[i].body \in R
      BY <1>1, <3>1
    <3>3. \A k \in (i+1)..Len(u) : u[k].body \notin A
      BY <1>1, <1>3, <3>1
    <3> QED BY <3>2, <3>3 DEF Settled
  <2>2. CASE ok /\ \A i \in 1..Len(w) : w[i].body \notin A
    <3>1. \A i \in 1..Len(u) : u[i].body \notin A
      BY <1>1, <1>3, <2>2
    <3> QED BY <2>2, <3>1 DEF Settled
  <2> QED BY <1>3, <2>1, <2>2 DEF Settled
<1> QED BY <1>2, <1>3

\* The peer handles the first announcement.
LEMMA SettledTail ==
    ASSUME NEW w \in Seq(OnWire), w # << >>, NEW A, NEW R,
           NEW ok \in BOOLEAN, NEW done \in BOOLEAN, Settled(w, A, R, ok),
           Head(w).body \in R => done,
           Head(w).body \notin A /\ ok => done
    PROVE  Settled(Tail(w), A, R, done)
<1> DEFINE u == Tail(w)
<1>1. /\ Len(w) \in Nat \ {0} /\ Len(u) = Len(w) - 1 /\ Head(w) = w[1]
      /\ \A i \in 1..Len(u) : u[i] = w[i + 1]
  OBVIOUS
<1> HIDE DEF u
<1> SUFFICES Settled(u, A, R, done)
  BY DEF u
<1>2. CASE \E i \in 1..Len(w) : /\ w[i].body \in R
                                /\ \A k \in (i+1)..Len(w) : w[k].body \notin A
  <2>1. PICK i \in 1..Len(w) : /\ w[i].body \in R
                               /\ \A k \in (i+1)..Len(w) : w[k].body \notin A
    BY <1>2
  <2>2. CASE i = 1
    <3>1. \A k \in 1..Len(u) : u[k].body \notin A
      BY <1>1, <2>1, <2>2
    <3>2. done
      BY <1>1, <2>1, <2>2
    <3> QED BY <3>1, <3>2 DEF Settled
  <2>3. CASE i # 1
    <3>1. i - 1 \in 1..Len(u) /\ u[i - 1].body \in R
      BY <1>1, <2>1, <2>3
    <3>2. \A k \in ((i - 1) + 1)..Len(u) : u[k].body \notin A
      BY <1>1, <2>1, <2>3
    <3> QED BY <3>1, <3>2 DEF Settled
  <2> QED BY <2>2, <2>3
<1>3. CASE ok /\ \A i \in 1..Len(w) : w[i].body \notin A
  <2>1. \A i \in 1..Len(u) : u[i].body \notin A
    BY <1>1, <1>3
  <2>2. done
    BY <1>1, <1>3
  <2> QED BY <2>1, <2>2 DEF Settled
<1> QED BY <1>2, <1>3 DEF Settled

-----------------------------------------------------------------------------
(* Overlap. *)

Announcing(out) == [NoJob EXCEPT !.step = "announce", !.out = out]

\* A client that is idle, or that owes announcements, has these fields.
LEMMA JobFields ==
    /\ NoJob.step = "idle" /\ NoJob.out = << >> /\ Subjects(NoJob) = {}
    /\ \A out : Announcing(out).step = "announce" /\ Announcing(out).out = out
<1>1. NoJob.step = "idle" /\ NoJob.out = << >>
  BY DEF NoJob
<1>2. Subjects(NoJob) = {}
  BY <1>1 DEF Subjects
<1>3. \A out : Announcing(out).step = "announce" /\ Announcing(out).out = out
  BY DEF NoJob, Announcing
<1> QED BY <1>1, <1>2, <1>3

\* What the announcements that a request owes are about.
LEMMA OwedSubjects ==
    ASSUME NEW j, j.step = "announce", NEW S, j.out \in Seq(S)
    PROVE  Subjects(j) = {j.out[i].subject : i \in 1..Len(j.out)}
  BY DEF Subjects

\* A step of one request that makes it about nothing else.
LEMMA OverlapKept ==
    ASSUME Inv, NoOverlap, NEW c \in Client, NEW k,
           job' = [job EXCEPT ![c] = k], Subjects(k) \subseteq Subjects(job[c]),
           disturbed \subseteq disturbed'
    PROVE  NoOverlap'
<1> SUFFICES ASSUME NEW a \in Client, NEW b \in Client, a # b
             PROVE  Subjects(job'[a]) \cap Subjects(job'[b]) \subseteq disturbed'
  BY DEF NoOverlap
<1>1. \A o \in Client : Subjects(job'[o]) \subseteq Subjects(job[o])
  BY DEF Inv, JobsOK
<1>2. Subjects(job[a]) \cap Subjects(job[b]) \subseteq disturbed
  BY DEF NoOverlap
<1> QED BY <1>1, <1>2

\* A request that writes or owes something about a name or a developer counts
\* as a request about it.
LEMMA WorkIsSubject ==
    ASSUME NEW j \in GoodJob, NEW s
    PROVE  /\ j.step \in OnNames /\ <<j.handle, j.ename>> = s => s \in Subjects(j)
           /\ Owes(j, NameAnns(s)) => s \in Subjects(j)
           /\ j.step \in OnDevelopers /\ j.dev = s => s \in Subjects(j)
           /\ Owes(j, DevAnns(s)) => s \in Subjects(j)
<1>0. j \in JobRec /\ Ready(j) /\ j.out \in Seq(GoodAnn)
  BY DEF GoodJob, JobRec
<1>1. j.step \in OnNames /\ <<j.handle, j.ename>> = s => s \in Subjects(j)
  <2>1. j.step \in OnNames => j.ename # None
    BY <1>0, NamesAssumption DEF Ready
  <2> QED BY <2>1 DEF Subjects, OnNames
<1>2. j.step \in OnDevelopers /\ j.dev = s => s \in Subjects(j)
  <2>1. j.step \in OnDevelopers => j.ename = None
    BY <1>0 DEF Ready
  <2> QED BY <2>1 DEF Subjects, OnDevelopers
<1>3. Owes(j, NameAnns(s)) => s \in Subjects(j)
  BY <1>0, OwedSubjects DEF Owes, NameAnns
<1>4. Owes(j, DevAnns(s)) => s \in Subjects(j)
  BY <1>0, OwedSubjects DEF Owes, DevAnns
<1> QED BY <1>1, <1>2, <1>3, <1>4

\* Nobody else is at work on what one request is about, unless it is disturbed.
LEMMA AloneAtWork ==
    ASSUME Inv, NoOverlap, NEW c \in Client, NEW s \in Subjects(job[c]), s \notin disturbed,
           NEW o \in Client, o # c
    PROVE  /\ ~(job[o].step \in OnNames /\ <<job[o].handle, job[o].ename>> = s)
           /\ ~Owes(job[o], NameAnns(s))
           /\ ~(job[o].step \in OnDevelopers /\ job[o].dev = s)
           /\ ~Owes(job[o], DevAnns(s))
<1>1. s \notin Subjects(job[o])
  BY DEF NoOverlap
<1>2. job[o] \in GoodJob
  BY DEF Inv, JobsOK
<1> QED BY <1>1, <1>2, WorkIsSubject

\* A step that leaves the row of a name, and what is owed about it.
LEMMA NameKept ==
    ASSUME NEW f \in FQAN, NameInv(f), names'[f] = names[f],
           NameSettled(f) => NameSettled(f)',
           \A o \in Client :
              \/ job'[o] = job[o]
              \/ /\ ~At(job[o], "createVersion", f) /\ ~Owes(job[o], NameAnns(f))
                 /\ ~At(job'[o], "createVersion", f) /\ ~Owes(job'[o], NameAnns(f))
                 /\ At(job'[o], "updateName", f) =>
                      /\ names[f] # None /\ names[f].entity = job'[o].entity
                      /\ job'[o].newVersion = None => names[f].version = job'[o].version
    PROVE  NameInv(f)'
<1>1. RightNameAnns(f)' = RightNameAnns(f)
  BY DEF RightNameAnns, HomeResolve
<1>2. ASSUME NEW o \in Client PROVE NameJobRight(job[o], f)'
  <2>1. CASE job'[o] = job[o]
    BY <1>1, <2>1 DEF NameInv, NameJobRight
  <2>2. CASE job'[o] # job[o]
    <3>1. OwesRight(job'[o], NameAnns(f), RightNameAnns(f)')
      BY <2>2 DEF Owes, OwesRight
    <3> QED BY <2>2, <3>1 DEF NameJobRight
  <2> QED BY <2>1, <2>2
<1>3. \A o \in Client : /\ At(job[o], "createVersion", f) <=> At(job'[o], "createVersion", f)
                        /\ Owes(job[o], NameAnns(f)) <=> Owes(job'[o], NameAnns(f))
  OBVIOUS
<1>4. (\A o \in Client : ~At(job'[o], "createVersion", f) /\ ~Owes(job'[o], NameAnns(f)))
        => NameSettled(f)'
  BY <1>3 DEF NameInv
<1> QED BY <1>2, <1>4 DEF NameInv

\* A step that leaves the row of a developer, and what is owed about it.
LEMMA DevKept ==
    ASSUME NEW d \in Dev, DevInv(d), developers'[d] = developers[d],
           DevSettled(d) => DevSettled(d)',
           \A o \in Client :
              \/ job'[o] = job[o]
              \/ /\ ~Owes(job[o], DevAnns(d)) /\ ~Owes(job'[o], DevAnns(d))
                 /\ job'[o].step \in {"claimHandle", "releaseHandle", "verifyHandle"}
                      /\ job'[o].dev = d =>
                      /\ developers[d] # None /\ developers[d].name = job'[o].name
                      /\ job'[o].step = "verifyHandle" => developers[d].handle # None
    PROVE  DevInv(d)'
<1>1. RightDevAnns(d)' = RightDevAnns(d)
  BY DEF RightDevAnns
<1>2. ASSUME NEW o \in Client PROVE DevJobRight(job[o], d)'
  <2>1. CASE job'[o] = job[o]
    BY <1>1, <2>1 DEF DevInv, DevJobRight
  <2>2. CASE job'[o] # job[o]
    <3>1. OwesRight(job'[o], DevAnns(d), RightDevAnns(d)')
      BY <2>2 DEF Owes, OwesRight
    <3> QED BY <2>2, <3>1 DEF DevJobRight
  <2> QED BY <2>1, <2>2
<1>3. \A o \in Client : Owes(job[o], DevAnns(d)) <=> Owes(job'[o], DevAnns(d))
  OBVIOUS
<1> QED BY <1>2, <1>3 DEF DevInv

\* Settled is about the connection, the row and what the peer has.
LEMMA SettledKept ==
    ASSUME wire' = wire
    PROVE  /\ \A f \in FQAN : names'[f] = names[f] /\ gnames'[f] = gnames[f] =>
                 (NameSettled(f) => NameSettled(f)')
           /\ \A d \in Dev : developers'[d] = developers[d] /\ gdevs'[d] = gdevs[d] =>
                 (DevSettled(d) => DevSettled(d)')
<1>1. ASSUME NEW f \in FQAN, names'[f] = names[f], gnames'[f] = gnames[f], NameSettled(f)
      PROVE  NameSettled(f)'
  <2>1. RightNameAnns(f)' = RightNameAnns(f) /\ HomeResolve(f)' = HomeResolve(f)
        /\ PeerResolve(f)' = PeerResolve(f)
    BY <1>1 DEF RightNameAnns, HomeResolve, PeerResolve
  <2> QED BY <1>1, <2>1 DEF NameSettled
<1>2. ASSUME NEW d \in Dev, developers'[d] = developers[d], gdevs'[d] = gdevs[d], DevSettled(d)
      PROVE  DevSettled(d)'
  <2>1. RightDevAnns(d)' = RightDevAnns(d) /\ PeerHas(d)' = PeerHas(d)
    BY <1>2 DEF RightDevAnns, PeerHas
  <2> QED BY <1>2, <2>1 DEF DevSettled
<1> QED BY <1>1, <1>2

-----------------------------------------------------------------------------
(* Requests and the statements about developers. *)

\* A request begins: what it has read is what the tables have.
LEMMA BeginTells ==
    ASSUME Inv, PeerInv, NEW c \in Client, NEW j \in GoodJob, Begin(c, j),
           j.step \notin {"createVersion", "announce"},
           j.step \in {"createEntity", "lookUpName", "createName"} =>
              j.newVersion = j.version,
           j.step = "updateName" => j.newVersion \in {None, j.version},
           \A f \in FQAN : At(j, "updateName", f) =>
              /\ names[f] # None /\ names[f].entity = j.entity
              /\ j.newVersion = None => names[f].version = j.version,
           j.step \in {"claimHandle", "releaseHandle", "verifyHandle"} =>
              /\ developers[j.dev] # None /\ developers[j.dev].name = j.name
              /\ j.step = "verifyHandle" => developers[j.dev].handle # None
    PROVE  PeerInv'
<1>1. /\ job[c].step = "idle" /\ job' = [job EXCEPT ![c] = j]
      /\ disturbed' = disturbed \cup
           (Subjects(j) \cap UNION {Subjects(job[o]) : o \in Client \ {c}})
      /\ UNCHANGED <<developers, entities, names, versions, wire, gdevs, gnames, seen>>
  BY DEF Begin, home, peer
<1>2. job'[c] = j /\ \A o \in Client : o # c => job'[o] = job[o]
  BY <1>1 DEF Inv, JobsOK
<1>3. NoOverlap'
  <2> SUFFICES ASSUME NEW a \in Client, NEW b \in Client, a # b
               PROVE  Subjects(job'[a]) \cap Subjects(job'[b]) \subseteq disturbed'
    BY DEF NoOverlap
  <2>1. CASE a # c /\ b # c
    BY <1>1, <1>2, <2>1 DEF PeerInv, NoOverlap
  <2>2. CASE a = c
    BY <1>1, <1>2, <2>2
  <2>3. CASE b = c
    BY <1>1, <1>2, <2>3
  <2> QED BY <2>1, <2>2, <2>3
<1>4. VersionsAgree'
  BY <1>2 DEF PeerInv, VersionsAgree
<1>5. ASSUME NEW f \in FQAN \ disturbed' PROVE NameInv(f)'
  <2>1. NameInv(f) /\ (NameSettled(f) => NameSettled(f)')
    BY <1>1, SettledKept DEF PeerInv
  <2>2. /\ ~At(job[c], "createVersion", f) /\ ~Owes(job[c], NameAnns(f))
        /\ ~At(j, "createVersion", f) /\ ~Owes(j, NameAnns(f))
    BY <1>1 DEF At, Owes
  <2> QED BY <1>1, <1>2, <2>1, <2>2, NameKept
<1>6. ASSUME NEW d \in Dev \ disturbed' PROVE DevInv(d)'
  <2>1. DevInv(d) /\ (DevSettled(d) => DevSettled(d)')
    BY <1>1, SettledKept DEF PeerInv
  <2>2. ~Owes(job[c], DevAnns(d)) /\ ~Owes(j, DevAnns(d))
    BY <1>1 DEF Owes
  <2> QED BY <1>1, <1>2, <2>1, <2>2, DevKept
<1> QED BY <1>3, <1>4, <1>5, <1>6 DEF PeerInv

\* A statement on the developers table: the announcements that follow tell what
\* the row has become.
LEMMA DeveloperTold ==
    ASSUME Inv, PeerInv, NEW c \in Client, NEW step \in OnDevelopers, NEW applies \in BOOLEAN,
           NEW row, NEW out, job[c].step = step,
           IF applies
             THEN developers' = [developers EXCEPT ![job[c].dev] = row] /\ Owe(c, out)
             ELSE Refuse(c) /\ UNCHANGED developers,
           UNCHANGED <<entities, names, versions, wire, peer, second, requests,
                       faults, disturbed>>,
           out \in Seq(GoodAnn) /\ out # << >>,
           \A i \in 1..Len(out) : out[i] \in DevAnns(job[c].dev),
           applies /\ job[c].dev \notin disturbed /\ row # None =>
             /\ row.verified => row.handle # None
             /\ \A i \in 1..Len(out) : Tells(out[i], row)
    PROVE  PeerInv'
<1> DEFINE d == job[c].dev
           k == IF applies THEN Announcing(out) ELSE NoJob
<1>1. /\ d \in Dev /\ job[c] \in GoodJob
      /\ job[c].step \notin {"announce", "createVersion"}
  BY JobReady DEF OnDevelopers, Inv, JobsOK
<1>2. /\ job' = [job EXCEPT ![c] = k]
      /\ k.step \in {"idle", "announce"}
      /\ k.step = "announce" => k.out = out /\ applies
      /\ UNCHANGED <<names, versions, wire, gdevs, gnames, disturbed>>
  BY JobFields DEF Owe, Refuse, Announcing, peer
<1>3. Subjects(k) \subseteq Subjects(job[c])
  <2>1. d \in Subjects(job[c])
    BY <1>1, WorkIsSubject
  <2>2. CASE applies
    <3>1. k.step = "announce" /\ k.out = out
      BY <2>2, JobFields
    <3> HIDE DEF k
    <3>2. Subjects(k) = {out[i].subject : i \in 1..Len(out)}
      BY <3>1, OwedSubjects
    <3> QED BY <2>1, <3>2 DEF DevAnns
  <2>3. CASE ~applies
    BY <2>3, JobFields
  <2> QED BY <2>2, <2>3
<1> HIDE DEF k
<1>4. job'[c] = k /\ \A o \in Client : o # c => job'[o] = job[o]
  BY <1>2 DEF Inv, JobsOK
<1>5. NoOverlap'
  BY <1>2, <1>3, OverlapKept DEF PeerInv
<1>6. VersionsAgree'
  BY <1>2, <1>4 DEF PeerInv, VersionsAgree
<1>7. ASSUME NEW f \in FQAN \ disturbed' PROVE NameInv(f)'
  <2>1. NameInv(f) /\ (NameSettled(f) => NameSettled(f)')
    BY <1>2, SettledKept DEF PeerInv
  <2>2. /\ ~At(job[c], "createVersion", f) /\ ~Owes(job[c], NameAnns(f))
        /\ ~At(k, "createVersion", f) /\ ~At(k, "updateName", f)
    BY <1>1, <1>2 DEF At, Owes
  <2>3. ~Owes(k, NameAnns(f))
    BY <1>2 DEF Owes, NameAnns, DevAnns
  <2> QED BY <1>2, <1>4, <2>1, <2>2, <2>3, NameKept
<1>8. ASSUME NEW x \in Dev \ disturbed', developers'[x] = developers[x],
             ~Owes(k, DevAnns(x))
      PROVE  DevInv(x)'
  <2>1. DevInv(x) /\ (DevSettled(x) => DevSettled(x)')
    BY <1>2, <1>8, SettledKept DEF PeerInv
  <2>2. ~Owes(job[c], DevAnns(x))
        /\ k.step \notin {"claimHandle", "releaseHandle", "verifyHandle"}
    BY <1>1, <1>2 DEF Owes
  <2> QED BY <1>4, <1>8, <2>1, <2>2, DevKept
<1>9. ASSUME NEW x \in Dev \ disturbed' PROVE DevInv(x)'
  <2>1. CASE x # d
    <3>1. developers'[x] = developers[x]
      BY <2>1 DEF Inv, DevelopersOK
    <3>2. ~Owes(k, DevAnns(x))
      BY <1>2, <2>1 DEF Owes, DevAnns
    <3> QED BY <1>8, <3>1, <3>2
  <2>2. CASE ~applies
    <3>1. ~Owes(k, DevAnns(x))
      BY <1>2, <2>2 DEF Owes
    <3> QED BY <1>8, <2>2, <3>1
  <2>3. CASE x = d /\ applies
    <3>1. developers'[x] = row /\ k.step = "announce" /\ k.out = out
      BY <1>1, <2>3, JobFields DEF Inv, DevelopersOK, k
    <3>2. x \notin disturbed /\ x \in Subjects(job[c])
      BY <1>1, <1>2, <2>3, WorkIsSubject
    <3>3. \A o \in Client : o # c =>
             /\ ~(job'[o].step \in OnDevelopers /\ job'[o].dev = x)
             /\ ~Owes(job'[o], DevAnns(x))
      BY <1>4, <3>2, AloneAtWork DEF PeerInv
    <3>4. Owes(job'[c], DevAnns(x))
      <4>1. 1 \in 1..Len(out) /\ out[1] \in DevAnns(x)
        BY <2>3
      <4> QED BY <1>4, <3>1, <4>1 DEF Owes
    <3>5. row # None => OwesRight(job'[c], DevAnns(x), RightDevAnns(x)')
      BY <1>4, <2>3, <3>1, <3>2 DEF OwesRight, RightDevAnns
    <3>6. ASSUME NEW o \in Client PROVE DevJobRight(job[o], x)'
      <4>1. CASE o = c
        BY <1>4, <3>1, <3>5, <4>1 DEF DevJobRight
      <4>2. CASE o # c
        BY <3>3, <4>2 DEF DevJobRight, OnDevelopers, Owes, OwesRight
      <4> QED BY <4>1, <4>2
    <3>7. developers'[x] # None /\ developers'[x].verified => developers'[x].handle # None
      BY <2>3, <3>1, <3>2
    <3> QED BY <2>3, <3>4, <3>6, <3>7 DEF DevInv
  <2> QED BY <2>1, <2>2, <2>3
<1> QED BY <1>5, <1>6, <1>7, <1>9 DEF PeerInv

\* Every request of a client keeps the invariant.
LEMMA RequestTells ==
    ASSUME Inv, PeerInv, NEW c \in Client, Request(c) PROVE PeerInv'
<1>1. PICK j \in GoodJob : Begin(c, j) /\ ReadRight(j)
  BY RequestReads
<1> QED BY <1>1, BeginTells DEF ReadRight

\* The announcements of the handlers are about their developer.
LEMMA DevAnnsOf ==
    ASSUME Inv, NEW c \in Client, job[c].step \in OnDevelopers
    PROVE  /\ \A action \in {"register", "deregister"} :
                 DeveloperAnn(action, job[c].dev, job[c]) \in DevAnns(job[c].dev)
           /\ \A action \in {"claim", "release"} :
                 HandleAnn(action, job[c].dev, job[c]) \in DevAnns(job[c].dev)
<1>1. job[c] \in JobRec /\ job[c].dev \in Dev /\ job[c].name \in Text
  BY JobReady
<1>2. \A action \in {"register", "deregister"} :
        DeveloperAnn(action, job[c].dev, job[c]) \in GoodAnn
  BY <1>1, DeveloperAnnGood
<1>3. \A action \in {"claim", "release"} :
        HandleAnn(action, job[c].dev, job[c]) \in GoodAnn
  BY <1>1, HandleAnnGood
<1> QED BY <1>2, <1>3 DEF DevAnns, DeveloperAnn, HandleAnn

\* A statement with one announcement.
LEMMA DeveloperToldOnce ==
    ASSUME Inv, PeerInv, NEW c \in Client, NEW step \in OnDevelopers, NEW applies \in BOOLEAN,
           NEW row, NEW ann \in DevAnns(job[c].dev),
           OnDeveloper(c, step, applies, row, <<ann>>),
           applies /\ job[c].dev \notin disturbed /\ row # None =>
              (row.verified => row.handle # None) /\ Tells(ann, row)
    PROVE  PeerInv'
<1> DEFINE out == <<ann>>
<1>1. /\ out \in Seq(GoodAnn) /\ out # << >>
      /\ \A i \in 1..Len(out) : out[i] = ann
  BY DEF DevAnns
<1>2. /\ job[c].step = step
      /\ IF applies
           THEN developers' = [developers EXCEPT ![job[c].dev] = row] /\ Owe(c, out)
           ELSE Refuse(c) /\ UNCHANGED developers
      /\ UNCHANGED <<entities, names, versions, wire, peer, second, requests,
                     faults, disturbed>>
  BY DEF OnDeveloper
<1> HIDE DEF out
<1> QED BY <1>1, <1>2, DeveloperTold

\* CreateDeveloper.
LEMMA CreateDeveloperTells ==
    ASSUME Inv, PeerInv, NEW c \in Client, CreateDeveloper(c) PROVE PeerInv'
<1> DEFINE d == job[c].dev
           row == [name |-> job[c].name, links |-> job[c].links,
                   handle |-> job[c].handle, verified |-> FALSE]
           first == DeveloperAnn("register", d, job[c])
           claim == HandleAnn("claim", d, job[c])
           out == <<first>> \o IF job[c].handle = None THEN << >> ELSE <<claim>>
           applies == /\ developers[d] = None
                      /\ job[c].handle # None => HandleAvailable(job[c].handle)
<1>1. /\ job[c].step = "createDeveloper"
      /\ IF applies
           THEN developers' = [developers EXCEPT ![d] = row] /\ Owe(c, out)
           ELSE Refuse(c) /\ UNCHANGED developers
      /\ UNCHANGED <<entities, names, versions, wire, peer, second, requests,
                     faults, disturbed>>
  BY DEF CreateDeveloper, OnDeveloper
<1>2. first \in DevAnns(d) /\ claim \in DevAnns(d)
  BY <1>1, DevAnnsOf DEF OnDevelopers
<1>3. Tells(first, row) /\ Tells(claim, row) /\ row.verified = FALSE
  BY DEF Tells, DeveloperAnn, HandleAnn
<1>4. applies \in BOOLEAN
  OBVIOUS
<1> HIDE DEF first, claim, row, applies
<1>5. /\ out \in Seq(GoodAnn) /\ out # << >>
      /\ \A i \in 1..Len(out) : out[i] \in {first, claim}
  BY <1>2 DEF DevAnns
<1>6. \A i \in 1..Len(out) : out[i] \in DevAnns(d) /\ Tells(out[i], row)
  BY <1>2, <1>3, <1>5
<1> HIDE DEF out
<1> QED BY <1>1, <1>3, <1>4, <1>5, <1>6, DeveloperTold DEF OnDevelopers

\* The other statements leave or change a row that is there. (A row has its
\* fields, and a request about a developer that is not disturbed has read them.)
LEMMA RowRead ==
    ASSUME Inv, PeerInv, NEW c \in Client, job[c].step \in OnDevelopers,
           developers[job[c].dev] # None
    PROVE  /\ job[c].dev \in Dev /\ developers[job[c].dev] \in DevRow
           /\ job[c].dev \notin disturbed =>
                /\ developers[job[c].dev].verified => developers[job[c].dev].handle # None
                /\ job[c].step \in {"claimHandle", "releaseHandle", "verifyHandle"} =>
                     developers[job[c].dev].name = job[c].name
                /\ job[c].step = "verifyHandle" => developers[job[c].dev].handle # None
<1>1. job[c].dev \in Dev /\ developers[job[c].dev] \in DevRow
  BY JobReady, RowTyped
<1>2. job[c].dev \notin disturbed => DevInv(job[c].dev)
  BY <1>1 DEF PeerInv
<1> QED BY <1>1, <1>2 DEF DevInv, DevJobRight

\* UpdateDeveloper.
LEMMA WriteDeveloperTells ==
    ASSUME Inv, PeerInv, NEW c \in Client, WriteDeveloper(c) PROVE PeerInv'
<1> DEFINE d == job[c].dev
           row == [developers[d] EXCEPT !.name = job[c].name, !.links = job[c].links]
           ann == DeveloperAnn("register", d, job[c])
<1>1. /\ job[c].step = "updateDeveloper"
      /\ OnDeveloper(c, "updateDeveloper", developers[d] # None, row, <<ann>>)
  BY DEF WriteDeveloper, OnDeveloper
<1>2. ann \in DevAnns(d)
  BY <1>1, DevAnnsOf DEF OnDevelopers
<1>3. developers[d] # None /\ d \notin disturbed =>
        (row.verified => row.handle # None) /\ Tells(ann, row)
  BY <1>1, RowRead DEF OnDevelopers, DevRow, Tells, DeveloperAnn
<1> HIDE DEF row, ann
<1> QED BY <1>1, <1>2, <1>3, DeveloperToldOnce DEF OnDevelopers

\* DeleteDeveloper.
LEMMA DropDeveloperTells ==
    ASSUME Inv, PeerInv, NEW c \in Client, DropDeveloper(c) PROVE PeerInv'
<1> DEFINE d == job[c].dev
           ann == DeveloperAnn("deregister", d, job[c])
<1>1. /\ job[c].step = "deleteDeveloper"
      /\ OnDeveloper(c, "deleteDeveloper", developers[d] # None, None, <<ann>>)
  BY DEF DropDeveloper, OnDeveloper
<1>2. ann \in DevAnns(d)
  BY <1>1, DevAnnsOf DEF OnDevelopers
<1> HIDE DEF ann
<1> QED BY <1>1, <1>2, DeveloperToldOnce DEF OnDevelopers

\* ClaimHandle.
LEMMA TakeHandleTells ==
    ASSUME Inv, PeerInv, NEW c \in Client, TakeHandle(c) PROVE PeerInv'
<1> DEFINE d == job[c].dev
           row == [developers[d] EXCEPT !.handle = job[c].handle]
           ann == HandleAnn("claim", d, job[c])
           applies == /\ developers[d] # None /\ developers[d].handle = None
                      /\ HandleAvailable(job[c].handle)
<1>1. /\ job[c].step = "claimHandle"
      /\ OnDeveloper(c, "claimHandle", applies, row, <<ann>>)
  BY DEF TakeHandle, OnDeveloper
<1>2. ann \in DevAnns(d)
  BY <1>1, DevAnnsOf DEF OnDevelopers
<1>3. job[c].handle \in Handle /\ job[c].handle # None
  BY <1>1, JobReady, NamesAssumption
<1>4. applies /\ d \notin disturbed =>
        (row.verified => row.handle # None) /\ Tells(ann, row)
  BY <1>1, <1>3, RowRead DEF OnDevelopers, DevRow, Tells, HandleAnn
<1>5. applies \in BOOLEAN
  OBVIOUS
<1> HIDE DEF row, ann, applies
<1> QED BY <1>1, <1>2, <1>4, <1>5, DeveloperToldOnce DEF OnDevelopers

\* ReleaseHandle takes the mark of verification with the handle.
LEMMA GiveHandleTells ==
    ASSUME Inv, PeerInv, NEW c \in Client, GiveHandle(c) PROVE PeerInv'
<1> DEFINE d == job[c].dev
           row == [developers[d] EXCEPT !.handle = None, !.verified = FALSE]
           ann == HandleAnn("release", d, job[c])
           applies == d \in Holders(job[c].handle)
<1>1. /\ job[c].step = "releaseHandle"
      /\ OnDeveloper(c, "releaseHandle", applies, row, <<ann>>)
  BY DEF GiveHandle, OnDeveloper
<1>2. ann \in DevAnns(d)
  BY <1>1, DevAnnsOf DEF OnDevelopers
<1>3. applies => developers[d] # None
  BY DEF Holders
<1>4. applies /\ d \notin disturbed =>
        (row.verified => row.handle # None) /\ Tells(ann, row)
  BY <1>1, <1>3, RowRead DEF OnDevelopers, DevRow, Tells, HandleAnn
<1>5. applies \in BOOLEAN
  OBVIOUS
<1> HIDE DEF row, ann, applies
<1> QED BY <1>1, <1>2, <1>4, <1>5, DeveloperToldOnce DEF OnDevelopers

\* UpdateHandleVerification.
LEMMA MarkVerifiedTells ==
    ASSUME Inv, PeerInv, NEW c \in Client, MarkVerified(c) PROVE PeerInv'
<1> DEFINE d == job[c].dev
           row == [developers[d] EXCEPT !.verified = TRUE]
           ann == HandleAnn("claim", d, job[c])
<1>1. /\ job[c].step = "verifyHandle"
      /\ OnDeveloper(c, "verifyHandle", developers[d] # None, row, <<ann>>)
  BY DEF MarkVerified, OnDeveloper
<1>2. ann \in DevAnns(d)
  BY <1>1, DevAnnsOf DEF OnDevelopers
<1>3. developers[d] # None /\ d \notin disturbed =>
        (row.verified => row.handle # None) /\ Tells(ann, row)
  BY <1>1, RowRead DEF OnDevelopers, DevRow, Tells, HandleAnn
<1> HIDE DEF row, ann
<1> QED BY <1>1, <1>2, <1>3, DeveloperToldOnce DEF OnDevelopers

-----------------------------------------------------------------------------
(* The statements about entities and names. *)

\* A request goes on, or is refused, and leaves what is not disturbed alone.
LEMMA QuietStep ==
    ASSUME Inv, PeerInv, NEW c \in Client, NEW k, job' = [job EXCEPT ![c] = k],
           Subjects(k) \subseteq Subjects(job[c]),
           job[c].step \notin {"announce", "createVersion"},
           k.step \in {"idle", "lookUpName", "createName", "deleteEntity"},
           k.step \in {"lookUpName", "createName"} => k.newVersion = k.version,
           disturbed \subseteq disturbed',
           \A f \in FQAN \ disturbed' : names'[f] = names[f],
           UNCHANGED <<developers, wire, gdevs, gnames>>
    PROVE  PeerInv'
<1>1. job'[c] = k /\ \A o \in Client : o # c => job'[o] = job[o]
  BY DEF Inv, JobsOK
<1>2. NoOverlap'
  BY OverlapKept DEF PeerInv
<1>3. VersionsAgree'
  BY <1>1 DEF PeerInv, VersionsAgree
<1>4. ASSUME NEW f \in FQAN \ disturbed' PROVE NameInv(f)'
  <2>1. NameInv(f) /\ (NameSettled(f) => NameSettled(f)')
    BY SettledKept DEF PeerInv
  <2>2. /\ ~At(job[c], "createVersion", f) /\ ~Owes(job[c], NameAnns(f))
        /\ ~At(k, "createVersion", f) /\ ~At(k, "updateName", f) /\ ~Owes(k, NameAnns(f))
    BY DEF At, Owes
  <2> QED BY <1>1, <2>1, <2>2, NameKept
<1>5. ASSUME NEW d \in Dev \ disturbed' PROVE DevInv(d)'
  <2>1. DevInv(d) /\ (DevSettled(d) => DevSettled(d)')
    BY SettledKept DEF PeerInv
  <2>2. ~Owes(job[c], DevAnns(d)) /\ ~Owes(k, DevAnns(d))
    BY DEF Owes
  <2> QED BY <1>1, <2>1, <2>2, DevKept
<1> QED BY <1>2, <1>3, <1>4, <1>5 DEF PeerInv

\* A request that is refused.
LEMMA RefusalIsQuiet ==
    ASSUME Inv, PeerInv, NEW c \in Client, Refuse(c),
           job[c].step \notin {"announce", "createVersion"},
           UNCHANGED <<developers, names, wire, peer, disturbed>>
    PROVE  PeerInv'
  BY QuietStep, JobFields DEF Refuse, peer

\* CreateAgent.
LEMMA CreateEntityTells ==
    ASSUME Inv, PeerInv, NEW c \in Client, CreateEntity(c) PROVE PeerInv'
<1> DEFINE j == job[c]
           k == [j EXCEPT !.step = "lookUpName"]
<1>1. /\ j.step = "createEntity" /\ j \in JobRec /\ j.newVersion = j.version
      /\ UNCHANGED <<developers, names, wire, peer, disturbed>>
  BY JobReady DEF CreateEntity, PeerInv, VersionsAgree
<1>2. CASE Refuse(c)
  BY <1>1, <1>2, RefusalIsQuiet
<1>3. CASE job' = [job EXCEPT ![c] = k]
  <2>1. k.step = "lookUpName" /\ k.newVersion = k.version
    BY <1>1 DEF JobRec
  <2> HIDE DEF k
  <2>2. Subjects(k) \subseteq Subjects(job[c])
    BY <1>1, <2>1 DEF Subjects
  <2> QED BY <1>1, <1>3, <2>1, <2>2, QuietStep DEF peer
<1> QED BY <1>2, <1>3 DEF CreateEntity, Refuse

\* createZNSNameBinding looks the developer up.
LEMMA LookUpNameTells ==
    ASSUME Inv, PeerInv, NEW c \in Client, LookUpName(c) PROVE PeerInv'
<1> DEFINE j == job[c]
           f == <<developers[j.dev].handle, j.ename>>
           k == NameJob("createName", f, j.entity, j.version, j.newVersion)
           applies == /\ developers[j.dev] # None /\ developers[j.dev].handle # None
                      /\ NameAvailable(f)
<1>1. /\ j.step = "lookUpName" /\ j.ename \in EntityName /\ j.dev \in Dev
      /\ j.newVersion = j.version
      /\ UNCHANGED <<developers, names, wire, peer, disturbed>>
  BY JobReady DEF LookUpName, PeerInv, VersionsAgree, home, OnEntities
<1>2. CASE ~applies
  BY <1>1, <1>2, RefusalIsQuiet DEF LookUpName
<1>3. CASE applies
  <2>1. job' = [job EXCEPT ![c] = k]
    BY <1>3 DEF LookUpName
  <2>2. /\ k.step = "createName" /\ k.newVersion = k.version /\ k.ename = j.ename
        /\ <<k.handle, k.ename>> = f
    BY <1>1 DEF NameJob
  <2>3. f \in FQAN
    BY <1>1, <1>3, RowTyped DEF FQAN, Opt
  <2> HIDE DEF k, f
  <2>4. Subjects(k) = {f} /\ Subjects(job[c]) = FQAN
    BY <1>1, <2>2, NamesAssumption DEF Subjects
  <2> QED BY <1>1, <2>1, <2>2, <2>3, <2>4, QuietStep DEF peer
<1> QED BY <1>2, <1>3

\* DeleteEntity, first statement: the names that go are disturbed.
LEMMA DropNamesTells ==
    ASSUME Inv, PeerInv, NEW c \in Client, DropNames(c) PROVE PeerInv'
<1> DEFINE j == job[c]
           k == [j EXCEPT !.step = "deleteEntity"]
<1>1. /\ j.step = "deleteNames" /\ j \in JobRec
      /\ Without(NamesOf(j.entity)) /\ disturbed' = disturbed \cup NamesOf(j.entity)
      /\ job' = [job EXCEPT ![c] = k]
      /\ UNCHANGED <<developers, wire, gdevs, gnames>>
  BY JobReady DEF DropNames, peer
<1>2. k.step = "deleteEntity"
  BY <1>1 DEF JobRec
<1> HIDE DEF k
<1>3. Subjects(k) \subseteq Subjects(job[c])
  BY <1>1, <1>2 DEF Subjects
<1>4. \A f \in FQAN \ disturbed' : names'[f] = names[f]
  BY <1>1 DEF Without
<1> QED BY <1>1, <1>2, <1>3, <1>4, QuietStep

\* DeleteEntity, second statement.
LEMMA DropEntityTells ==
    ASSUME Inv, PeerInv, NEW c \in Client, DropEntity(c) PROVE PeerInv'
  BY RefusalIsQuiet DEF DropEntity

\* A statement on zns_names or zns_versions: what is left of the request tells
\* what the row has become.
LEMMA NameTold ==
    ASSUME Inv, PeerInv, NEW c \in Client, NEW f \in FQAN, NEW k,
           job[c].step \in OnNames, f = <<job[c].handle, job[c].ename>>,
           job' = [job EXCEPT ![c] = k],
           UNCHANGED <<developers, wire, gdevs, gnames, disturbed>>,
           \A g \in FQAN : g # f => names'[g] = names[g],
           \/ At(k, "createVersion", f) /\ k.ename # None /\ k.newVersion = k.version
           \/ \E ann \in NameAnns(f) : k = Announcing(<<ann>>),
           f \notin disturbed => NameJobRight(k, f)'
    PROVE  PeerInv'
<1>1. job'[c] = k /\ \A o \in Client : o # c => job'[o] = job[o]
  BY DEF Inv, JobsOK
<1>2. /\ job[c] \in GoodJob /\ job[c].step # "announce" /\ f \in Subjects(job[c])
  BY WorkIsSubject DEF Inv, JobsOK, OnNames
<1>3. /\ At(k, "createVersion", f) \/ Owes(k, NameAnns(f))
      /\ k.step \in {"createVersion", "announce"} /\ Subjects(k) = {f}
      /\ k.step = "createVersion" => At(k, "createVersion", f) /\ k.newVersion = k.version
      /\ k.step = "announce" => \A i \in 1..Len(k.out) : k.out[i] \in NameAnns(f)
  <2>1. CASE At(k, "createVersion", f) /\ k.ename # None /\ k.newVersion = k.version
    BY <2>1 DEF At, Subjects
  <2>2. ASSUME NEW ann \in NameAnns(f), k = Announcing(<<ann>>)
        PROVE  /\ Owes(k, NameAnns(f)) /\ k.step = "announce" /\ Subjects(k) = {f}
               /\ \A i \in 1..Len(k.out) : k.out[i] \in NameAnns(f)
    <3>1. k.step = "announce" /\ k.out = <<ann>>
      BY <2>2, JobFields
    <3>2. k.out \in Seq(GoodAnn) /\ Len(k.out) = 1 /\ k.out[1] = ann /\ ann.subject = f
      BY <3>1 DEF NameAnns
    <3>3. Subjects(k) = {k.out[i].subject : i \in 1..Len(k.out)}
      BY <3>1, <3>2, OwedSubjects
    <3> QED BY <3>1, <3>2, <3>3 DEF Owes
  <2> QED BY <2>1, <2>2
<1>4. NoOverlap'
  BY <1>2, <1>3, OverlapKept DEF PeerInv
<1>5. VersionsAgree'
  BY <1>1, <1>3 DEF PeerInv, VersionsAgree
<1>6. ASSUME NEW d \in Dev \ disturbed' PROVE DevInv(d)'
  <2>1. DevInv(d) /\ (DevSettled(d) => DevSettled(d)')
    BY SettledKept DEF PeerInv
  <2>2. ~Owes(job[c], DevAnns(d)) /\ ~Owes(k, DevAnns(d))
    BY <1>2, <1>3 DEF Owes, DevAnns, NameAnns
  <2> QED BY <1>1, <1>3, <2>1, <2>2, DevKept
<1>7. ASSUME NEW g \in FQAN \ disturbed' PROVE NameInv(g)'
  <2>1. CASE g # f
    <3>1. NameInv(g) /\ (NameSettled(g) => NameSettled(g)')
      BY <2>1, SettledKept DEF PeerInv
    <3>2. /\ ~At(job[c], "createVersion", g) /\ ~Owes(job[c], NameAnns(g))
          /\ ~At(k, "createVersion", g) /\ ~At(k, "updateName", g) /\ ~Owes(k, NameAnns(g))
      BY <1>2, <1>3, <2>1 DEF At, Owes, NameAnns
    <3> QED BY <1>1, <2>1, <3>1, <3>2, NameKept
  <2>2. CASE g = f
    <3>1. \A o \in Client : o # c =>
             /\ ~(job'[o].step \in OnNames /\ <<job'[o].handle, job'[o].ename>> = f)
             /\ ~Owes(job'[o], NameAnns(f))
      BY <1>1, <1>2, <2>2, AloneAtWork DEF PeerInv
    <3>2. ASSUME NEW o \in Client PROVE NameJobRight(job[o], f)'
      <4>1. CASE o = c
        BY <1>1, <2>2, <4>1 DEF NameJobRight
      <4>2. CASE o # c
        BY <3>1, <4>2 DEF NameJobRight, At, OnNames, Owes, OwesRight
      <4> QED BY <4>1, <4>2
    <3>3. ~\A o \in Client : ~At(job'[o], "createVersion", f) /\ ~Owes(job'[o], NameAnns(f))
      BY <1>1, <1>3
    <3> QED BY <2>2, <3>2, <3>3 DEF NameInv
  <2> QED BY <2>1, <2>2
<1> QED BY <1>4, <1>5, <1>6, <1>7 DEF PeerInv

\* The announcement of a request about a name.
LEMMA NameAnnOf ==
    ASSUME Inv, NEW c \in Client, job[c].step \in OnNames, NEW action \in {"bind", "unbind"}
    PROVE  /\ NameAnn(action, job[c]) \in NameAnns(<<job[c].handle, job[c].ename>>)
           /\ Says(NameAnn(action, job[c])) =
                IF action = "bind" THEN [entity |-> job[c].entity, version |-> job[c].version]
                ELSE None
<1>1. NameAnn(action, job[c]) \in GoodAnn
  BY JobReady, NameAnnGood
<1>2. /\ NameAnn(action, job[c]).action = action
      /\ NameAnn(action, job[c]).subject = <<job[c].handle, job[c].ename>>
      /\ NameAnn(action, job[c]).entity = job[c].entity
      /\ NameAnn(action, job[c]).version = job[c].version
  BY DEF NameAnn
<1> QED BY <1>1, <1>2 DEF NameAnns, Says

\* An announcement that the row bears out is right to owe.
LEMMA OwedRight ==
    ASSUME NEW f, NEW ann \in NameAnns(f), Says(ann) = HomeResolve(f)'
    PROVE  NameJobRight(Announcing(<<ann>>), f)'
<1> DEFINE k == Announcing(<<ann>>)
<1>1. k.step = "announce" /\ k.out = <<ann>>
  BY JobFields
<1>2. Len(k.out) = 1 /\ k.out[1] = ann
  BY <1>1
<1> HIDE DEF k
<1>3. ann \in RightNameAnns(f)'
  BY DEF RightNameAnns
<1>4. OwesRight(k, NameAnns(f), RightNameAnns(f)')
  BY <1>2, <1>3 DEF OwesRight
<1>5. NameJobRight(k, f)'
  BY <1>1, <1>4 DEF NameJobRight, At
<1> QED BY <1>5 DEF k

\* The row of the name has what the request asked for.
LEMMA RowTold ==
    ASSUME Inv, PeerInv, NEW c \in Client, NEW f \in FQAN, job[c].step \in OnNames,
           f = <<job[c].handle, job[c].ename>>, AfterName(c),
           names'[f] # None, names'[f].version = job[c].version,
           job[c].newVersion \in {None, job[c].version},
           UNCHANGED <<developers, wire, gdevs, gnames, disturbed>>,
           \A g \in FQAN : g # f => names'[g] = names[g],
           f \notin disturbed => names'[f].entity = job[c].entity
    PROVE  PeerInv'
<1> DEFINE j == job[c]
<1>1. j \in JobRec /\ j.ename # None
  BY JobReady, NamesAssumption
<1>2. CASE j.newVersion # None
  <2>1. PICK k : k = [j EXCEPT !.step = "createVersion"]
    OBVIOUS
  <2>2. job' = [job EXCEPT ![c] = k]
    BY <1>2, <2>1 DEF AfterName
  <2>3. /\ k.step = "createVersion" /\ <<k.handle, k.ename>> = f /\ k.ename # None
        /\ k.newVersion = k.version /\ k.entity = j.entity /\ k.version = j.version
    BY <1>1, <1>2, <2>1 DEF JobRec
  <2>4. At(k, "createVersion", f) /\ (f \notin disturbed => NameJobRight(k, f)')
    BY <2>3 DEF At, NameJobRight, OwesRight
  <2> QED BY <2>2, <2>3, <2>4, NameTold
<1>3. CASE j.newVersion = None
  <2>1. PICK ann \in NameAnns(f) :
             /\ ann = NameAnn("bind", j)
             /\ Says(ann) = [entity |-> j.entity, version |-> j.version]
    BY NameAnnOf
  <2>2. job' = [job EXCEPT ![c] = Announcing(<<ann>>)]
    BY <1>3, <2>1 DEF AfterName, Owe, Announcing
  <2>3. f \notin disturbed => Says(ann) = HomeResolve(f)'
    BY <2>1 DEF HomeResolve
  <2>4. f \notin disturbed => NameJobRight(Announcing(<<ann>>), f)'
    BY <2>3, OwedRight
  <2> QED BY <1>3, <2>2, <2>4, NameTold
<1> QED BY <1>2, <1>3

\* What is known of the row of a name that a request is about.
LEMMA NameRowRead ==
    ASSUME Inv, PeerInv, NEW c \in Client, job[c].step \in OnNames,
           NEW f \in FQAN \ disturbed, f = <<job[c].handle, job[c].ename>>
    PROVE  /\ job[c].step \in {"updateName", "createVersion"} =>
                names[f] # None /\ names[f].entity = job[c].entity
           /\ job[c].step = "createVersion" \/ (job[c].step = "updateName" /\ job[c].newVersion = None)
                => names[f].version = job[c].version
  BY DEF PeerInv, NameInv, NameJobRight, At

\* CreateZNSName.
LEMMA CreateNameTells ==
    ASSUME Inv, PeerInv, NEW c \in Client, CreateName(c) PROVE PeerInv'
<1> DEFINE j == job[c]
<1>1. PICK f \in FQAN : f = <<j.handle, j.ename>>
  BY JobReady DEF CreateName, OnNames
<1>2. /\ j.step = "createName" /\ j.newVersion = j.version
      /\ UNCHANGED <<developers, wire, peer, disturbed>>
  BY DEF CreateName, PeerInv, VersionsAgree
<1>3. CASE NameAvailable(f) /\ entities[j.entity] # None
  <2>1. /\ names' = [names EXCEPT ![f] = [entity |-> j.entity, version |-> j.version]]
        /\ AfterName(c)
    BY <1>1, <1>3 DEF CreateName
  <2>2. /\ names'[f] = [entity |-> j.entity, version |-> j.version]
        /\ \A g \in FQAN : g # f => names'[g] = names[g]
    BY <2>1 DEF Inv, NamesOK
  <2>3. names'[f] # None
    <3>1. j \in JobRec /\ j.entity \in Entity
      BY <1>2, JobReady DEF OnNames
    <3>2. names'[f] \in NameRow
      BY <2>2, <3>1 DEF NameRow, JobRec
    <3> QED BY <3>2, NullAssumption
  <2> QED BY <1>1, <1>2, <2>1, <2>2, <2>3, RowTold DEF OnNames, peer
<1>4. CASE ~(NameAvailable(f) /\ entities[j.entity] # None)
  BY <1>1, <1>2, <1>4, RefusalIsQuiet DEF CreateName
<1> QED BY <1>3, <1>4

\* UpdateZNSName.
LEMMA WriteNameTells ==
    ASSUME Inv, PeerInv, NEW c \in Client, WriteName(c) PROVE PeerInv'
<1> DEFINE j == job[c]
<1>1. PICK f \in FQAN : f = <<j.handle, j.ename>>
  BY JobReady DEF WriteName, OnNames
<1>2. /\ j.step = "updateName" /\ j.newVersion \in {None, j.version}
      /\ UNCHANGED <<developers, wire, peer, disturbed>>
  BY DEF WriteName, PeerInv, VersionsAgree
<1>3. CASE names[f] # None
  <2>1. names' = [names EXCEPT ![f].version = j.version] /\ AfterName(c)
    BY <1>1, <1>3 DEF WriteName
  <2>2. /\ names'[f] = [names[f] EXCEPT !.version = j.version]
        /\ \A g \in FQAN : g # f => names'[g] = names[g]
    BY <2>1 DEF Inv, NamesOK
  <2>3. names[f] \in NameRow /\ j.version \in Opt(Version)
    BY <1>2, <1>3, RowTyped, JobReady DEF JobRec
  <2>4. /\ names'[f].entity = names[f].entity /\ names'[f].version = j.version
        /\ names'[f] \in NameRow
    BY <2>2, <2>3 DEF NameRow
  <2>5. names'[f] # None
    BY <2>4, NullAssumption
  <2>6. f \notin disturbed => names'[f].entity = j.entity
    BY <1>1, <1>2, <2>4, NameRowRead DEF OnNames
  <2> QED BY <1>1, <1>2, <2>1, <2>2, <2>4, <2>5, <2>6, RowTold DEF OnNames, peer
<1>4. CASE names[f] = None
  BY <1>1, <1>2, <1>4, RefusalIsQuiet DEF WriteName
<1> QED BY <1>3, <1>4

\* CreateZNSVersion: the row still has the entity and the version.
LEMMA CreateVersionTells ==
    ASSUME Inv, PeerInv, NEW c \in Client, CreateVersion(c) PROVE PeerInv'
<1> DEFINE j == job[c]
<1>1. PICK f \in FQAN : f = <<j.handle, j.ename>>
  BY JobReady DEF CreateVersion, OnNames
<1>2. /\ j.step = "createVersion" /\ j.newVersion = j.version
      /\ j.entity \in Entity /\ j.newVersion \in Version
      /\ UNCHANGED <<developers, names, wire, peer, disturbed>>
  BY JobReady DEF CreateVersion, OnNames, PeerInv, VersionsAgree
<1>3. PICK ann \in NameAnns(f) :
           /\ ann = NameAnn("bind", j)
           /\ Says(ann) = [entity |-> j.entity, version |-> j.version]
  BY <1>1, <1>2, NameAnnOf DEF OnNames
<1>4. job' = [job EXCEPT ![c] = Announcing(<<ann>>)]
  BY <1>3 DEF CreateVersion, Owe, Announcing
<1>5. ASSUME f \notin disturbed PROVE NameJobRight(Announcing(<<ann>>), f)'
  <2>1. names[f] # None /\ names[f].entity = j.entity /\ names[f].version = j.version
    BY <1>1, <1>2, <1>5, NameRowRead DEF OnNames
  <2>2. Says(ann) = HomeResolve(f)'
    BY <1>2, <1>3, <2>1 DEF HomeResolve
  <2> QED BY <2>2, OwedRight
<1>6. /\ job[c].step \in OnNames /\ UNCHANGED <<developers, wire, gdevs, gnames, disturbed>>
      /\ \A g \in FQAN : g # f => names'[g] = names[g]
  BY <1>2 DEF OnNames, peer
<1> QED BY <1>1, <1>4, <1>5, <1>6, NameTold

\* DeleteZNSName.
LEMMA DropNameTells ==
    ASSUME Inv, PeerInv, NEW c \in Client, DropName(c) PROVE PeerInv'
<1> DEFINE j == job[c]
<1>1. PICK f \in FQAN : f = <<j.handle, j.ename>>
  BY JobReady DEF DropName, OnNames
<1>2. /\ j.step = "deleteName"
      /\ UNCHANGED <<developers, wire, peer, disturbed>>
  BY DEF DropName
<1>3. CASE names[f] # None
  <2>1. PICK ann \in NameAnns(f) : ann = NameAnn("unbind", j) /\ Says(ann) = None
    BY <1>1, <1>2, NameAnnOf DEF OnNames
  <2>2. job' = [job EXCEPT ![c] = Announcing(<<ann>>)] /\ Without({f})
    BY <1>1, <1>3, <2>1 DEF DropName, Owe, Announcing
  <2>3. names'[f] = None /\ \A g \in FQAN : g # f => names'[g] = names[g]
    BY <2>2 DEF Without
  <2>4. Says(ann) = HomeResolve(f)'
    BY <2>1, <2>3 DEF HomeResolve
  <2>5. NameJobRight(Announcing(<<ann>>), f)'
    BY <2>4, OwedRight
  <2>6. job[c].step \in OnNames /\ UNCHANGED <<developers, wire, gdevs, gnames, disturbed>>
    BY <1>2 DEF OnNames, peer
  <2> QED BY <1>1, <2>2, <2>3, <2>5, <2>6, NameTold
<1>4. CASE names[f] = None
  BY <1>1, <1>2, <1>4, RefusalIsQuiet DEF DropName
<1> QED BY <1>3, <1>4

-----------------------------------------------------------------------------
(* Announcements, the peer and the faults. *)

\* A request has sent the first of the announcements it owes.
LEMMA OwedTail ==
    ASSUME NEW j, j.step = "announce", NEW S, j.out \in Seq(S), j.out # << >>,
           NEW k, k = IF Len(j.out) = 1 THEN NoJob ELSE Announcing(Tail(j.out))
    PROVE  /\ k.step \in {"idle", "announce"}
           /\ Subjects(k) \subseteq Subjects(j)
           /\ \A A : /\ Owes(k, A) => Owes(j, A)
                     /\ Owes(j, A) => Head(j.out) \in A \/ Owes(k, A)
                     /\ Head(j.out) \in A => Owes(j, A)
           /\ \A A, R : OwesRight(j, A, R) =>
                OwesRight(k, A, R) /\ (Head(j.out) \in A => Head(j.out) \in R)
<1> DEFINE w == j.out
           u == Tail(w)
<1>1. /\ Len(w) \in Nat \ {0} /\ Len(u) = Len(w) - 1 /\ Head(w) = w[1]
      /\ \A i \in 1..Len(u) : u[i] = w[i + 1]
  OBVIOUS
<1>2. u \in Seq(S)
  OBVIOUS
<1> HIDE DEF u
<1>3. CASE Len(w) = 1
  <2>1. k.step = "idle" /\ Subjects(k) = {}
    BY <1>3, JobFields
  <2>2. \A i \in 1..Len(w) : w[i] = Head(w)
    BY <1>1, <1>3
  <2>3. 1 \in 1..Len(w)
    BY <1>1
  <2> QED BY <2>1, <2>2, <2>3 DEF Owes, OwesRight
<1>4. CASE Len(w) # 1
  <2>1. k.step = "announce" /\ k.out = u
    BY <1>4, JobFields DEF u
  <2>2. \A i \in 1..Len(u) : i + 1 \in 1..Len(w)
    BY <1>1
  <2>3. \A i \in 1..Len(w) : i = 1 \/ (i - 1 \in 1..Len(u) /\ w[i] = u[i - 1])
    BY <1>1
  <2>4. Subjects(k) \subseteq Subjects(j)
    <3>1. /\ Subjects(j) = {w[i].subject : i \in 1..Len(w)}
          /\ Subjects(k) = {u[i].subject : i \in 1..Len(u)}
      BY <1>2, <2>1, OwedSubjects
    <3> QED BY <1>1, <2>2, <3>1
  <2>5. ASSUME NEW A
        PROVE  /\ Owes(k, A) => Owes(j, A)
               /\ Owes(j, A) => Head(w) \in A \/ Owes(k, A)
               /\ Head(w) \in A => Owes(j, A)
    <3>1. Owes(k, A) => Owes(j, A)
      BY <1>1, <2>1, <2>2 DEF Owes
    <3>2. Owes(j, A) => Head(w) \in A \/ Owes(k, A)
      BY <1>1, <2>1, <2>3 DEF Owes
    <3>3. Head(w) \in A => Owes(j, A)
      BY <1>1 DEF Owes
    <3> QED BY <3>1, <3>2, <3>3
  <2>6. ASSUME NEW A, NEW R, OwesRight(j, A, R)
        PROVE  OwesRight(k, A, R) /\ (Head(w) \in A => Head(w) \in R)
    <3>1. OwesRight(k, A, R)
      BY <1>1, <2>1, <2>2, <2>6 DEF OwesRight
    <3>2. Head(w) \in A => Head(w) \in R
      BY <1>1, <2>6 DEF OwesRight
    <3> QED BY <3>1, <3>2
  <2> QED BY <2>1, <2>4, <2>5, <2>6
<1> QED BY <1>3, <1>4

\* BroadcastAnnouncement: what was owed is on its way.
LEMMA AnnounceTells ==
    ASSUME Inv, PeerInv, NEW c \in Client, Announce(c) PROVE PeerInv'
<1> DEFINE j == job[c]
<1>1. j.step = "announce" /\ j.out \in Seq(GoodAnn) /\ j.out # << >>
  BY JobReady DEF Announce, JobRec
<1>2. PICK k : k = IF Len(j.out) = 1 THEN NoJob ELSE Announcing(Tail(j.out))
  OBVIOUS
<1>3. PICK x : x = [body |-> Head(j.out), at |-> second']
  OBVIOUS
<1>4. /\ job' = [job EXCEPT ![c] = k] /\ wire' = Append(wire, x)
      /\ UNCHANGED <<developers, names, versions, gdevs, gnames, disturbed>>
  BY <1>2, <1>3 DEF Announce, Refuse, Owe, Announcing, home, peer
<1>5. /\ x \in OnWire /\ x.body = Head(j.out)
      /\ wire \in Seq(OnWire)
  <2>1. Head(j.out) \in GoodAnn
    BY <1>1
  <2>2. second' \in Nat
    BY DEF Announce, Inv, CountsOK
  <2> QED BY <1>3, <2>1, <2>2 DEF Inv, WireOK, OnWire
<1>6. /\ k.step \in {"idle", "announce"}
      /\ Subjects(k) \subseteq Subjects(j)
      /\ \A A : /\ Owes(k, A) => Owes(j, A)
                /\ Owes(j, A) => x.body \in A \/ Owes(k, A)
                /\ x.body \in A => Owes(j, A)
      /\ \A A, R : OwesRight(j, A, R) =>
           OwesRight(k, A, R) /\ (x.body \in A => x.body \in R)
  BY <1>1, <1>2, <1>5, OwedTail
<1>7. job'[c] = k /\ \A o \in Client : o # c => job'[o] = job[o]
  BY <1>4 DEF Inv, JobsOK
<1>8. NoOverlap'
  BY <1>4, <1>6, OverlapKept DEF PeerInv
<1>9. VersionsAgree'
  BY <1>6, <1>7 DEF PeerInv, VersionsAgree
<1>10. ASSUME NEW f \in FQAN \ disturbed' PROVE NameInv(f)'
  <2>1. NameInv(f)
    BY <1>4 DEF PeerInv
  <2>2. RightNameAnns(f)' = RightNameAnns(f) /\ HomeResolve(f)' = HomeResolve(f)
        /\ PeerResolve(f)' = PeerResolve(f)
    BY <1>4 DEF RightNameAnns, HomeResolve, PeerResolve
  <2>3. OwesRight(j, NameAnns(f), RightNameAnns(f))
    BY <2>1 DEF NameInv, NameJobRight
  <2>4. ASSUME NEW o \in Client PROVE NameJobRight(job[o], f)'
    <3>1. CASE o = c
      <4>1. OwesRight(k, NameAnns(f), RightNameAnns(f))
        BY <1>6, <2>3
      <4> QED BY <1>6, <1>7, <2>2, <3>1, <4>1 DEF NameJobRight, At
    <3>2. CASE o # c
      BY <1>4, <1>7, <2>1, <2>2, <3>2 DEF NameInv, NameJobRight
    <3> QED BY <3>1, <3>2
  <2>5. \A o \in Client : At(job'[o], "createVersion", f) <=> At(job[o], "createVersion", f)
    BY <1>1, <1>6, <1>7 DEF At
  <2>6. ASSUME \A o \in Client : /\ ~At(job'[o], "createVersion", f)
                                 /\ ~Owes(job'[o], NameAnns(f))
        PROVE  NameSettled(f)'
    <3>1. \/ x.body \in RightNameAnns(f)
          \/ x.body \notin NameAnns(f) /\ NameSettled(f)
      <4>1. CASE x.body \in NameAnns(f)
        BY <1>6, <2>3, <4>1
      <4>2. CASE x.body \notin NameAnns(f)
        <5>1. \A o \in Client : ~Owes(job[o], NameAnns(f))
          BY <1>6, <1>7, <2>6, <4>2
        <5> QED BY <2>1, <2>5, <2>6, <4>2, <5>1 DEF NameInv
      <4> QED BY <4>1, <4>2
    <3>2. Settled(Append(wire, x), NameAnns(f), RightNameAnns(f),
                  PeerResolve(f) = HomeResolve(f))
      BY <1>5, <3>1, SettledAppend DEF NameSettled
    <3> QED BY <1>4, <2>2, <3>2 DEF NameSettled
  <2> QED BY <2>4, <2>6 DEF NameInv
<1>11. ASSUME NEW d \in Dev \ disturbed' PROVE DevInv(d)'
  <2>1. DevInv(d)
    BY <1>4 DEF PeerInv
  <2>2. /\ RightDevAnns(d)' = RightDevAnns(d) /\ developers'[d] = developers[d]
        /\ PeerHas(d)' <=> PeerHas(d)
    BY <1>4 DEF RightDevAnns, PeerHas
  <2>3. developers[d] # None => OwesRight(j, DevAnns(d), RightDevAnns(d))
    BY <2>1 DEF DevInv, DevJobRight
  <2>4. ASSUME NEW o \in Client PROVE DevJobRight(job[o], d)'
    <3>1. CASE o = c
      <4>1. developers[d] # None => OwesRight(k, DevAnns(d), RightDevAnns(d))
        BY <1>6, <2>3
      <4> QED BY <1>6, <1>7, <2>2, <3>1, <4>1 DEF DevJobRight
    <3>2. CASE o # c
      BY <1>7, <2>1, <2>2, <3>2 DEF DevInv, DevJobRight
    <3> QED BY <3>1, <3>2
  <2>5. ASSUME developers[d] # None, \A o \in Client : ~Owes(job'[o], DevAnns(d))
        PROVE  DevSettled(d)'
    <3>1. \/ x.body \in RightDevAnns(d)
          \/ x.body \notin DevAnns(d) /\ DevSettled(d)
      <4>1. CASE x.body \in DevAnns(d)
        BY <1>6, <2>3, <2>5, <4>1
      <4>2. CASE x.body \notin DevAnns(d)
        <5>1. \A o \in Client : ~Owes(job[o], DevAnns(d))
          BY <1>6, <1>7, <2>5, <4>2
        <5> QED BY <2>1, <2>5, <4>2, <5>1 DEF DevInv
      <4> QED BY <4>1, <4>2
    <3>2. PICK ok \in BOOLEAN : ok <=> PeerHas(d)
      OBVIOUS
    <3>3. \/ x.body \in RightDevAnns(d)
          \/ x.body \notin DevAnns(d) /\ Settled(wire, DevAnns(d), RightDevAnns(d), ok)
      BY <3>1, <3>2 DEF DevSettled, Settled
    <3>4. Settled(Append(wire, x), DevAnns(d), RightDevAnns(d), ok)
      BY <1>5, <3>3, SettledAppend
    <3>5. PeerHas(d)' <=> PeerHas(d)
      BY <2>2
    <3> QED BY <1>4, <2>2, <3>2, <3>4, <3>5 DEF DevSettled, Settled
  <2> QED BY <2>1, <2>2, <2>4, <2>5 DEF DevInv
<1> QED BY <1>8, <1>9, <1>10, <1>11 DEF PeerInv

\* HandleAnnouncement: what was right on the way is right at the peer.
LEMMA HandleAnnouncementTells ==
    ASSUME Inv, PeerInv, HandleAnnouncement PROVE PeerInv'
<1>1. PICK a : a = Head(wire).body
  OBVIOUS
<1>2. wire \in Seq(OnWire) /\ wire # << >> /\ wire' = Tail(wire)
  BY DEF Inv, WireOK, OnWire, HandleAnnouncement
<1>3. a \in GoodAnn
  <2>1. Head(wire) \in OnWire
    BY <1>2
  <2> QED BY <1>1, <2>1 DEF OnWire
<1>4. UNCHANGED <<developers, names, versions, job>>
  BY DEF HandleAnnouncement, home
<1>5. disturbed \subseteq disturbed'
  BY DEF HandleAnnouncement
<1>6. NoOverlap' /\ VersionsAgree'
  BY <1>4, <1>5 DEF PeerInv, NoOverlap, VersionsAgree
<1>7. \/ a.subject \in disturbed' /\ UNCHANGED <<gdevs, gnames>>
      \/ /\ a.action \in {"register", "claim", "release"}
         /\ UpsertGossipDeveloper(a) /\ UNCHANGED gnames
      \/ /\ a.action = "deregister"
         /\ TombstoneGossipDeveloper(a) /\ UNCHANGED gnames
      \/ /\ a.action = "bind"
         /\ UpsertGossipZNSName(a) /\ UNCHANGED gdevs
      \/ /\ a.action = "unbind"
         /\ TombstoneGossipZNSName(a) /\ UNCHANGED gdevs
  BY <1>1 DEF HandleAnnouncement, peer
<1>8. ASSUME NEW f \in FQAN \ disturbed' PROVE NameInv(f)'
  <2>1. NameInv(f)
    BY <1>5 DEF PeerInv
  <2>2. RightNameAnns(f)' = RightNameAnns(f) /\ HomeResolve(f)' = HomeResolve(f)
    BY <1>4 DEF RightNameAnns, HomeResolve
  <2>3. a \in RightNameAnns(f) => PeerResolve(f)' = HomeResolve(f)
    <3>1. SUFFICES ASSUME a \in RightNameAnns(f) PROVE PeerResolve(f)' = HomeResolve(f)
      OBVIOUS
    <3>2. /\ a.subject = f /\ a.action \in {"bind", "unbind"} /\ Says(a) = HomeResolve(f)
          /\ a.entity \in Entity /\ a.version \in Opt(Version)
      BY <1>3, <3>1 DEF RightNameAnns, NameAnns, GoodAnn, Announcement
    <3>3. CASE a.action = "bind"
      <4>1. gnames'[f] = [entity |-> a.entity, version |-> a.version, tombstoned |-> FALSE]
        BY <1>7, <3>2, <3>3 DEF UpsertGossipZNSName, Inv, PeerOK
      <4>2. gnames'[f] \in GossipName /\ gnames'[f].tombstoned = FALSE
        BY <3>2, <4>1 DEF GossipName
      <4>3. gnames'[f] # None
        BY <4>2, NullAssumption
      <4> QED BY <3>2, <3>3, <4>1, <4>2, <4>3 DEF PeerResolve, Says
    <3>4. CASE a.action = "unbind"
      <4>1. gnames'[f] = IF gnames[f] = None THEN None
                         ELSE [gnames[f] EXCEPT !.tombstoned = TRUE]
        BY <1>7, <3>2, <3>4 DEF TombstoneGossipZNSName, Inv, PeerOK
      <4>2. gnames'[f] = None \/ gnames'[f].tombstoned
        <5>1. gnames[f] # None => gnames[f] \in GossipName
          BY DEF Inv, PeerOK, Opt
        <5> QED BY <4>1, <5>1 DEF GossipName
      <4> QED BY <3>2, <3>4, <4>2 DEF PeerResolve, Says
    <3> QED BY <3>2, <3>3, <3>4
  <2>4. a \notin NameAnns(f) => gnames'[f] = gnames[f]
    BY <1>3, <1>7 DEF NameAnns, UpsertGossipZNSName, TombstoneGossipZNSName, Inv, PeerOK
  <2>5. NameSettled(f) => NameSettled(f)'
    <3>1. SUFFICES ASSUME NameSettled(f) PROVE NameSettled(f)'
      OBVIOUS
    <3>2. a \notin NameAnns(f) /\ PeerResolve(f) = HomeResolve(f) =>
            PeerResolve(f)' = HomeResolve(f)
      BY <2>4 DEF PeerResolve
    <3>3. Settled(Tail(wire), NameAnns(f), RightNameAnns(f), PeerResolve(f)' = HomeResolve(f))
      BY <1>1, <1>2, <2>3, <3>1, <3>2, SettledTail DEF NameSettled
    <3> QED BY <1>2, <2>2, <3>3 DEF NameSettled
  <2> QED BY <1>4, <2>1, <2>5, NameKept
<1>9. ASSUME NEW d \in Dev \ disturbed' PROVE DevInv(d)'
  <2>1. DevInv(d)
    BY <1>5 DEF PeerInv
  <2>2. RightDevAnns(d)' = RightDevAnns(d)
    BY <1>4 DEF RightDevAnns
  <2>3. a \in RightDevAnns(d) => PeerHas(d)'
    <3>1. SUFFICES ASSUME a \in RightDevAnns(d) PROVE PeerHas(d)'
      OBVIOUS
    <3>2. /\ a.subject = d /\ a.action \in {"register", "claim", "release"}
          /\ a.name = developers[d].name /\ a.links \in {developers[d].links, None}
          /\ a.name \in Text /\ a.links \in Opt(Link)
      BY <1>3, <3>1 DEF RightDevAnns, DevAnns, Tells, GoodAnn, Announcement
    <3>3. gdevs'[d] = IF gdevs[d] = None
                      THEN [name |-> a.name, links |-> a.links, handle |-> None,
                            tombstoned |-> FALSE]
                      ELSE [gdevs[d] EXCEPT !.name = a.name, !.links = a.links]
      BY <1>7, <3>2 DEF UpsertGossipDeveloper, Inv, PeerOK
    <3>4. gdevs[d] # None => gdevs[d] \in GossipDev
      BY DEF Inv, PeerOK, Opt
    <3>5. gdevs'[d].name = a.name /\ gdevs'[d].links = a.links /\ gdevs'[d] \in GossipDev
      <4>1. CASE gdevs[d] = None
        BY <3>2, <3>3, <4>1 DEF GossipDev, Opt
      <4>2. CASE gdevs[d] # None
        <5>1. PICK g \in GossipDev : g = gdevs[d]
          BY <3>4, <4>2
        <5>2. gdevs'[d] = [g EXCEPT !.name = a.name, !.links = a.links]
          BY <3>3, <4>2, <5>1
        <5> QED BY <3>2, <5>2 DEF GossipDev
      <4> QED BY <4>1, <4>2
    <3>6. gdevs'[d] # None
      BY <3>5, NullAssumption
    <3> QED BY <1>4, <3>2, <3>5, <3>6 DEF PeerHas
  <2>4. a \notin DevAnns(d) => gdevs'[d] = gdevs[d]
    BY <1>3, <1>7 DEF DevAnns, UpsertGossipDeveloper, TombstoneGossipDeveloper, Inv, PeerOK
  <2>5. DevSettled(d) => DevSettled(d)'
    <3>1. SUFFICES ASSUME DevSettled(d) PROVE DevSettled(d)'
      OBVIOUS
    <3>2. a \notin DevAnns(d) /\ PeerHas(d) => PeerHas(d)'
      BY <1>4, <2>4 DEF PeerHas
    <3>3. PICK ok \in BOOLEAN : ok <=> PeerHas(d)
      OBVIOUS
    <3>4. PICK done \in BOOLEAN : done <=> PeerHas(d)'
      OBVIOUS
    <3>5. Settled(wire, DevAnns(d), RightDevAnns(d), ok)
      BY <3>1, <3>3 DEF DevSettled, Settled
    <3>6. Settled(Tail(wire), DevAnns(d), RightDevAnns(d), done)
      BY <1>1, <1>2, <2>3, <3>2, <3>3, <3>4, <3>5, SettledTail
    <3> QED BY <1>2, <2>2, <3>4, <3>6 DEF DevSettled, Settled
  <2> QED BY <1>4, <2>1, <2>5, DevKept
<1> QED BY <1>6, <1>8, <1>9 DEF PeerInv

\* The connection is lost: what was on it is disturbed.
LEMMA DisconnectTells ==
    ASSUME Inv, PeerInv, Disconnect PROVE PeerInv'
<1>1. /\ wire' = << >> /\ wire \in Seq(OnWire)
      /\ disturbed' = disturbed \cup {wire[i].body.subject : i \in DOMAIN wire}
      /\ UNCHANGED <<developers, names, versions, job, gdevs, gnames>>
  BY DEF Disconnect, home, peer, Inv, WireOK, OnWire
<1>2. NoOverlap' /\ VersionsAgree'
  BY <1>1 DEF PeerInv, NoOverlap, VersionsAgree
<1>3. \A s : s \notin disturbed' => \A i \in 1..Len(wire) : wire[i].body.subject # s
  BY <1>1
<1>4. \A A, R, ok : ok => Settled(<< >>, A, R, ok)
  BY DEF Settled
<1>5. ASSUME NEW f \in FQAN \ disturbed' PROVE NameInv(f)'
  <2>1. NameInv(f)
    BY <1>1 DEF PeerInv
  <2>2. RightNameAnns(f)' = RightNameAnns(f) /\ HomeResolve(f)' = HomeResolve(f)
        /\ PeerResolve(f)' = PeerResolve(f)
    BY <1>1 DEF RightNameAnns, HomeResolve, PeerResolve
  <2>3. \A i \in 1..Len(wire) : wire[i].body \notin NameAnns(f)
                               /\ wire[i].body \notin RightNameAnns(f)
    BY <1>3 DEF NameAnns, RightNameAnns
  <2>4. NameSettled(f) => PeerResolve(f) = HomeResolve(f)
    BY <2>3 DEF NameSettled, Settled
  <2>5. NameSettled(f) => NameSettled(f)'
    BY <1>1, <1>4, <2>2, <2>4 DEF NameSettled
  <2> QED BY <1>1, <2>1, <2>5, NameKept
<1>6. ASSUME NEW d \in Dev \ disturbed' PROVE DevInv(d)'
  <2>1. DevInv(d)
    BY <1>1 DEF PeerInv
  <2>2. RightDevAnns(d)' = RightDevAnns(d) /\ (PeerHas(d) => PeerHas(d)')
    BY <1>1 DEF RightDevAnns, PeerHas
  <2>3. \A i \in 1..Len(wire) : wire[i].body \notin DevAnns(d)
                               /\ wire[i].body \notin RightDevAnns(d)
    BY <1>3 DEF DevAnns, RightDevAnns
  <2>4. DevSettled(d) => PeerHas(d)
    BY <2>3 DEF DevSettled, Settled
  <2>5. DevSettled(d) => DevSettled(d)'
    BY <1>1, <2>2, <2>4 DEF DevSettled, Settled
  <2> QED BY <1>1, <2>1, <2>5, DevKept
<1> QED BY <1>2, <1>5, <1>6 DEF PeerInv

\* The registry stops: what its requests were about is disturbed.
LEMMA CrashTells ==
    ASSUME Inv, PeerInv, Crash PROVE PeerInv'
<1>1. /\ job' = [c \in Client |-> NoJob]
      /\ disturbed' = disturbed \cup UNION {Subjects(job[c]) : c \in Client}
      /\ UNCHANGED <<developers, names, versions, wire, gdevs, gnames>>
  BY DEF Crash, home, peer
<1>2. \A c \in Client : /\ job'[c].step = "idle" /\ Subjects(job'[c]) = {}
                        /\ job[c] \in GoodJob
  BY <1>1, JobFields DEF Inv, JobsOK
<1>3. NoOverlap' /\ VersionsAgree'
  BY <1>2 DEF NoOverlap, VersionsAgree
<1>4. ASSUME NEW f \in FQAN \ disturbed' PROVE NameInv(f)'
  <2>1. NameInv(f) /\ (NameSettled(f) => NameSettled(f)')
    BY <1>1, SettledKept DEF PeerInv
  <2>2. \A c \in Client : f \notin Subjects(job[c])
    BY <1>1
  <2>3. \A c \in Client : /\ ~At(job[c], "createVersion", f) /\ ~Owes(job[c], NameAnns(f))
                          /\ ~At(job'[c], "createVersion", f) /\ ~Owes(job'[c], NameAnns(f))
                          /\ ~At(job'[c], "updateName", f)
    BY <1>2, <2>2, WorkIsSubject DEF At, Owes, OnNames
  <2> QED BY <1>1, <2>1, <2>3, NameKept
<1>5. ASSUME NEW d \in Dev \ disturbed' PROVE DevInv(d)'
  <2>1. DevInv(d) /\ (DevSettled(d) => DevSettled(d)')
    BY <1>1, SettledKept DEF PeerInv
  <2>2. \A c \in Client : d \notin Subjects(job[c])
    BY <1>1
  <2>3. \A c \in Client : ~Owes(job[c], DevAnns(d)) /\ ~Owes(job'[c], DevAnns(d))
    BY <1>2, <2>2, WorkIsSubject DEF Owes
  <2> QED BY <1>1, <1>2, <2>1, <2>3, DevKept
<1> QED BY <1>3, <1>4, <1>5 DEF PeerInv

\* The empty registry has nothing to tell.
LEMMA InitTells == Init => PeerInv
<1> SUFFICES ASSUME Init PROVE PeerInv
  OBVIOUS
<1>1. \A c \in Client : job[c].step = "idle" /\ Subjects(job[c]) = {}
  BY JobFields DEF Init
<1>2. NoOverlap /\ VersionsAgree
  BY <1>1 DEF NoOverlap, VersionsAgree
<1>3. ASSUME NEW f \in FQAN PROVE NameInv(f)
  <2>1. names[f] = None /\ gnames[f] = None /\ wire = << >>
    BY DEF Init
  <2>2. \A c \in Client : NameJobRight(job[c], f)
    BY <1>1 DEF NameJobRight, At, OwesRight
  <2>3. NameSettled(f)
    BY <2>1 DEF NameSettled, Settled, PeerResolve, HomeResolve
  <2> QED BY <2>1, <2>2, <2>3 DEF NameInv
<1>4. ASSUME NEW d \in Dev PROVE DevInv(d)
  <2>1. developers[d] = None
    BY DEF Init
  <2> QED BY <1>1, <2>1 DEF DevInv, DevJobRight, OwesRight
<1> QED BY <1>2, <1>3, <1>4 DEF PeerInv

\* Every step keeps the invariant.
LEMMA NextTells == Inv /\ PeerInv /\ [Next]_vars => PeerInv'
<1> SUFFICES ASSUME Inv, PeerInv, [Next]_vars PROVE PeerInv'
  OBVIOUS
<1>1. ASSUME NEW c \in Client, Handler(c) PROVE PeerInv'
  BY <1>1, CreateDeveloperTells, WriteDeveloperTells, DropDeveloperTells,
     TakeHandleTells, GiveHandleTells, MarkVerifiedTells, CreateEntityTells,
     LookUpNameTells, CreateNameTells, CreateVersionTells, WriteNameTells,
     DropNameTells, DropNamesTells, DropEntityTells, AnnounceTells
     DEF Handler
<1>2. CASE UNCHANGED vars
  <2>1. UNCHANGED <<developers, names, versions, job, wire, gdevs, gnames, disturbed>>
    BY <1>2 DEF vars
  <2>2. NoOverlap' /\ VersionsAgree'
    BY <2>1 DEF PeerInv, NoOverlap, VersionsAgree
  <2>3. \A f \in FQAN \ disturbed' : NameInv(f)'
    BY <2>1, NameKept, SettledKept DEF PeerInv
  <2>4. \A d \in Dev \ disturbed' : DevInv(d)'
    BY <2>1, DevKept, SettledKept DEF PeerInv
  <2> QED BY <2>2, <2>3, <2>4 DEF PeerInv
<1> QED BY <1>1, <1>2, RequestTells, HandleAnnouncementTells, DisconnectTells,
           CrashTells DEF Next

\* The two invariants together.
LEMMA PeerInvHolds == Spec => [](Inv /\ PeerInv)
<1>1. Inv /\ PeerInv /\ [Next]_vars => (Inv /\ PeerInv)'
  BY NextKeeps, NextTells
<1> QED BY InitHolds, InitTells, <1>1, PTL DEF Spec

\* Once every request is answered and every announcement handled, the peer
\* resolves each name that is not disturbed as its home registry does.
THEOREM PeersAgreeOnNames == Spec => []PeersResolveAlike
<1>1. Inv /\ PeerInv => PeersResolveAlike
  <2> SUFFICES ASSUME PeerInv, Quiet, NEW f \in FQAN \ disturbed
               PROVE  PeerResolve(f) = HomeResolve(f)
    BY DEF PeersResolveAlike
  <2>1. wire = << >> /\ \A c \in Client : job[c].step = "idle"
    BY DEF Quiet
  <2>2. NameSettled(f)
    BY <2>1 DEF PeerInv, NameInv, At, Owes
  <2> QED BY <2>1, <2>2 DEF NameSettled, Settled
<1> QED BY <1>1, PeerInvHolds, PTL

\* In the same circumstances the peer knows every registered developer by the
\* name in its row, and by its links or none.
THEOREM PeersAgreeOnDevelopers == Spec => []PeersKnowDevelopers
<1>1. Inv /\ PeerInv => PeersKnowDevelopers
  <2> SUFFICES ASSUME PeerInv, Quiet, NEW d \in Dev \ disturbed, developers[d] # None
               PROVE  PeerHas(d)
    BY DEF PeersKnowDevelopers, PeerHas
  <2>1. wire = << >> /\ \A c \in Client : job[c].step = "idle"
    BY DEF Quiet
  <2>2. DevSettled(d)
    BY <2>1 DEF PeerInv, DevInv, Owes
  <2> QED BY <2>1, <2>2 DEF DevSettled, Settled
<1> QED BY <1>1, PeerInvHolds, PTL

\* A developer that is not disturbed is marked as verified only with a handle.
THEOREM VerifiedKeepsHandle == Spec => []VerifiedHasHandle
<1>1. Inv /\ PeerInv => VerifiedHasHandle
  BY DEF PeerInv, DevInv, VerifiedHasHandle
<1> QED BY <1>1, PeerInvHolds, PTL

-----------------------------------------------------------------------------
(* The version history. A third invariant follows a name that was not      *)
(* pulled: it does not ask that requests about the name do not overlap.    *)

\* Version v of name f is in the history, or on the way there, or a crash has
\* left it out.
Covered(f, v) == versions[f][v] # None \/ Owing(f, v) \/ <<f, v>> \in torn

\* A request that is to write to a name still finds the entity it has read;
\* if it leaves the version as it was, that version is covered.
WriteRight(j, f) ==
    Writes(j, f) =>
        /\ names[f] # None /\ names[f].entity = j.entity
        /\ j.step = "updateName" /\ j.newVersion = None /\ j.version # None =>
             Covered(f, j.version)

HistoryOfEntity(f) ==
    \A v \in Version : versions[f][v] # None =>
        names[f] # None /\ versions[f][v] = names[f].entity

HistInv(f) ==
    /\ HistoryOfEntity(f)
    /\ names[f] # None /\ names[f].version # None => Covered(f, names[f].version)
    /\ \A c \in Client : WriteRight(job[c], f)

KeptInv == \A f \in FQAN \ pulled : HistInv(f)

\* A step after which the history has what it had, and the requests that owe it
\* a version still do or were cut off by a crash.
LEMMA CoverKept ==
    ASSUME NEW f, NEW v, Covered(f, v),
           versions[f][v] # None => versions'[f][v] # None,
           torn \subseteq torn',
           \A o \in Client :
              Writes(job[o], f) /\ job[o].step = "createVersion" /\ job[o].newVersion = v =>
                \/ job'[o] = job[o]
                \/ versions'[f][v] # None
                \/ <<f, v>> \in torn'
    PROVE  Covered(f, v)'
  BY DEF Covered, Owing, Writes

\* A step that leaves row and history of a name alone.
LEMMA HistKept ==
    ASSUME NEW f \in FQAN, HistInv(f), names'[f] = names[f], versions'[f] = versions[f],
           torn \subseteq torn',
           \A o \in Client :
              \/ job'[o] = job[o]
              \/ /\ ~Writes(job'[o], f)
                 /\ Writes(job[o], f) /\ job[o].step = "createVersion" =>
                      <<f, job[o].newVersion>> \in torn'
              \/ /\ ~Writes(job[o], f) /\ job'[o].step # "createVersion"
                 /\ Writes(job'[o], f) =>
                      /\ names[f] # None /\ names[f].entity = job'[o].entity
                      /\ job'[o].newVersion = None => names[f].version = job'[o].version
    PROVE  HistInv(f)'
<1>1. ASSUME NEW v, Covered(f, v) PROVE Covered(f, v)'
  <2>1. ASSUME NEW o \in Client, Writes(job[o], f), job[o].step = "createVersion",
               job[o].newVersion = v
        PROVE  job'[o] = job[o] \/ <<f, v>> \in torn'
    BY <2>1
  <2> QED BY <1>1, <2>1, CoverKept
<1>2. HistoryOfEntity(f)'
  BY DEF HistInv, HistoryOfEntity
<1>3. names'[f] # None /\ names'[f].version # None => Covered(f, names[f].version)'
  BY <1>1 DEF HistInv
<1>4. ASSUME NEW o \in Client PROVE WriteRight(job[o], f)'
  <2>1. CASE job'[o] = job[o]
    BY <1>1, <2>1 DEF HistInv, WriteRight
  <2>2. CASE ~Writes(job'[o], f)
    BY <2>2 DEF WriteRight
  <2>3. CASE job'[o] # job[o] /\ Writes(job'[o], f)
    <3>1. /\ names[f] # None /\ names[f].entity = job'[o].entity
          /\ job'[o].newVersion = None => names[f].version = job'[o].version
      BY <2>3
    <3>2. job'[o].newVersion = None /\ job'[o].version # None =>
            Covered(f, names[f].version)'
      BY <1>1, <3>1 DEF HistInv
    <3> QED BY <3>1, <3>2 DEF WriteRight
  <2> QED BY <2>1, <2>2, <2>3
<1> QED BY <1>2, <1>3, <1>4 DEF HistInv

\* A request that goes on to something else than a write to a name.
LEMMA OtherStepKeeps ==
    ASSUME Inv, KeptInv, NEW c \in Client, NEW k, job' = [job EXCEPT ![c] = k],
           job[c].step # "createVersion", k.step \notin {"updateName", "createVersion"},
           UNCHANGED <<names, versions, torn, pulled>>
    PROVE  KeptInv'
<1>1. job'[c] = k /\ \A o \in Client : o # c => job'[o] = job[o]
  BY DEF Inv, JobsOK
<1>2. ASSUME NEW f \in FQAN \ pulled' PROVE HistInv(f)'
  <2>1. ~Writes(k, f) /\ HistInv(f)
    BY DEF Writes, KeptInv
  <2> QED BY <1>1, <2>1, HistKept
<1> QED BY <1>2 DEF KeptInv

\* A request begins; an update has just read the row.
LEMMA RequestKeepsHistory ==
    ASSUME Inv, KeptInv, NEW c \in Client, Request(c) PROVE KeptInv'
<1>1. PICK j \in GoodJob : Begin(c, j) /\ ReadRight(j)
  BY RequestReads
<1>2. /\ job[c].step = "idle" /\ job' = [job EXCEPT ![c] = j]
      /\ UNCHANGED <<names, versions, torn, pulled>>
  BY <1>1 DEF Begin, home
<1>3. job'[c] = j /\ \A o \in Client : o # c => job'[o] = job[o]
  BY <1>2 DEF Inv, JobsOK
<1>4. ASSUME NEW f \in FQAN \ pulled' PROVE HistInv(f)'
  <2>1. HistInv(f) /\ ~Writes(job[c], f) /\ j.step # "createVersion"
    BY <1>1, <1>2 DEF KeptInv, Writes, ReadRight
  <2>2. Writes(j, f) => /\ names[f] # None /\ names[f].entity = j.entity
                        /\ j.newVersion = None => names[f].version = j.version
    BY <1>1, <2>1 DEF ReadRight, Writes, At
  <2> QED BY <1>2, <1>3, <2>1, <2>2, HistKept
<1> QED BY <1>4 DEF KeptInv

\* The handlers that do not write to names.
LEMMA OtherHandlersKeepHistory ==
    ASSUME Inv, KeptInv, NEW c \in Client,
           \/ CreateDeveloper(c) \/ WriteDeveloper(c) \/ DropDeveloper(c)
           \/ TakeHandle(c) \/ GiveHandle(c) \/ MarkVerified(c)
           \/ CreateEntity(c) \/ LookUpName(c) \/ DropEntity(c) \/ Announce(c)
    PROVE  KeptInv'
<1>1. NoJob.step = "idle"
  BY JobFields
<1>2. ASSUME Refuse(c) \/ \E out : Owe(c, out), job[c].step # "createVersion",
             UNCHANGED <<names, versions, torn, pulled>>
      PROVE  KeptInv'
  <2>1. CASE Refuse(c)
    BY <1>1, <1>2, <2>1, OtherStepKeeps DEF Refuse
  <2>2. ASSUME NEW out, Owe(c, out) PROVE KeptInv'
    <3>1. PICK k : k = Announcing(out)
      OBVIOUS
    <3>2. k.step = "announce" /\ job' = [job EXCEPT ![c] = k]
      BY <2>2, <3>1, JobFields DEF Owe, Announcing
    <3> QED BY <1>2, <3>2, OtherStepKeeps
  <2> QED BY <1>2, <2>1, <2>2
<1>3. ASSUME NEW step, NEW applies, NEW row, NEW out, OnDeveloper(c, step, applies, row, out),
             step # "createVersion"
      PROVE  KeptInv'
  <2>1. (Refuse(c) \/ Owe(c, out)) /\ job[c].step # "createVersion"
        /\ UNCHANGED <<names, versions, torn, pulled>>
    BY <1>3 DEF OnDeveloper
  <2> QED BY <1>2, <2>1
<1>4. CASE \/ CreateDeveloper(c) \/ WriteDeveloper(c) \/ DropDeveloper(c)
           \/ TakeHandle(c) \/ GiveHandle(c) \/ MarkVerified(c)
  BY <1>3, <1>4 DEF CreateDeveloper, WriteDeveloper, DropDeveloper, TakeHandle,
                    GiveHandle, MarkVerified
<1>5. CASE CreateEntity(c)
  <2>1. PICK k : k = [job[c] EXCEPT !.step = "lookUpName"]
    OBVIOUS
  <2>2. k.step = "lookUpName"
    BY <2>1, JobReady DEF JobRec
  <2>3. job[c].step # "createVersion" /\ UNCHANGED <<names, versions, torn, pulled>>
        /\ (Refuse(c) \/ job' = [job EXCEPT ![c] = k])
    BY <1>5, <2>1 DEF CreateEntity, Refuse
  <2> QED BY <1>2, <2>2, <2>3, OtherStepKeeps
<1>6. CASE LookUpName(c)
  <2>1. PICK k : k = NameJob("createName", <<developers[job[c].dev].handle, job[c].ename>>,
                             job[c].entity, job[c].version, job[c].newVersion)
    OBVIOUS
  <2>2. k.step = "createName"
    BY <2>1 DEF NameJob
  <2>3. job[c].step # "createVersion" /\ UNCHANGED <<names, versions, torn, pulled>>
        /\ (Refuse(c) \/ job' = [job EXCEPT ![c] = k])
    BY <1>6, <2>1 DEF LookUpName, home
  <2> QED BY <1>2, <2>2, <2>3, OtherStepKeeps
<1>7. CASE DropEntity(c)
  BY <1>2, <1>7 DEF DropEntity
<1>8. CASE Announce(c)
  BY <1>2, <1>8 DEF Announce, home
<1> QED BY <1>4, <1>5, <1>6, <1>7, <1>8

\* What is left of a request after its write to zns_names.
LEMMA AfterNameLeaves ==
    ASSUME Inv, NEW c \in Client, AfterName(c)
    PROVE  \E k : /\ job' = [job EXCEPT ![c] = k]
                  /\ job[c].newVersion # None => k = [job[c] EXCEPT !.step = "createVersion"]
                  /\ job[c].newVersion = None => k.step = "announce"
<1>1. CASE job[c].newVersion # None
  BY <1>1, Zenon DEF AfterName
<1>2. CASE job[c].newVersion = None
  <2>1. PICK k : k = Announcing(<<NameAnn("bind", job[c])>>)
    OBVIOUS
  <2>2. job' = [job EXCEPT ![c] = k] /\ k.step = "announce"
    BY <1>2, <2>1, JobFields DEF AfterName, Owe, Announcing
  <2> QED BY <1>2, <2>2
<1> QED BY <1>1, <1>2

\* A write to the row of a name: what it says of the name itself is left to show.
LEMMA RowWriteKeeps ==
    ASSUME Inv, KeptInv, NEW c \in Client, NEW f \in FQAN, NEW k,
           job' = [job EXCEPT ![c] = k], Writes(k, f) \/ k.step \notin {"updateName", "createVersion"},
           job[c].step # "createVersion" \/ <<job[c].handle, job[c].ename>> = f,
           \A g \in FQAN : g # f => names'[g] = names[g] /\ versions'[g] = versions[g],
           UNCHANGED <<torn, pulled>>,
           f \notin pulled => HistInv(f)'
    PROVE  KeptInv'
<1>1. job'[c] = k /\ \A o \in Client : o # c => job'[o] = job[o]
  BY DEF Inv, JobsOK
<1>2. ASSUME NEW g \in FQAN \ pulled', g # f PROVE HistInv(g)'
  <2>1. HistInv(g) /\ ~Writes(k, g) /\ (Writes(job[c], g) => job[c].step # "createVersion")
    BY <1>2 DEF KeptInv, Writes
  <2> QED BY <1>1, <1>2, <2>1, HistKept
<1> QED BY <1>2 DEF KeptInv

\* CreateZNSName: there is no row, so nobody is about to write to one.
LEMMA CreateNameKeepsHistory ==
    ASSUME Inv, PeerInv, KeptInv, NEW c \in Client, CreateName(c) PROVE KeptInv'
<1> DEFINE j == job[c]
<1>1. PICK f \in FQAN : f = <<j.handle, j.ename>>
  BY JobReady DEF CreateName, OnNames
<1>2. /\ j.step = "createName" /\ j.newVersion = j.version /\ j \in JobRec
      /\ j.entity \in Entity /\ UNCHANGED <<versions, torn, pulled>>
  BY JobReady DEF CreateName, PeerInv, VersionsAgree, OnNames
<1>3. CASE NameAvailable(f) /\ entities[j.entity] # None
  <2>1. /\ names' = [names EXCEPT ![f] = [entity |-> j.entity, version |-> j.version]]
        /\ AfterName(c)
    BY <1>1, <1>3 DEF CreateName
  <2>2. /\ names'[f] = [entity |-> j.entity, version |-> j.version]
        /\ \A g \in FQAN : g # f => names'[g] = names[g]
    BY <2>1 DEF Inv, NamesOK
  <2>3. names'[f] # None
    <3>1. names'[f] \in NameRow
      BY <1>2, <2>2 DEF NameRow, JobRec
    <3> QED BY <3>1, NullAssumption
  <2>4. PICK k : /\ job' = [job EXCEPT ![c] = k]
                 /\ j.newVersion # None => k = [j EXCEPT !.step = "createVersion"]
                 /\ j.newVersion = None => k.step = "announce"
    BY <2>1, AfterNameLeaves
  <2>5. /\ j.newVersion # None => /\ Writes(k, f) /\ k.step = "createVersion"
                                  /\ k.entity = j.entity /\ k.newVersion = j.version
        /\ j.newVersion = None => k.step = "announce"
    BY <1>1, <1>2, <2>4 DEF JobRec, Writes
  <2>6. job'[c] = k /\ \A o \in Client : o # c => job'[o] = job[o]
    BY <2>4 DEF Inv, JobsOK
  <2>7. ASSUME f \notin pulled PROVE HistInv(f)'
    <3>1. /\ \A v \in Version : versions[f][v] = None
          /\ \A o \in Client : ~Writes(job[o], f)
      BY <1>3, <2>7 DEF KeptInv, HistInv, HistoryOfEntity, WriteRight, NameAvailable
    <3>2. HistoryOfEntity(f)'
      BY <1>2, <3>1 DEF HistoryOfEntity
    <3>3. names'[f].version # None => Covered(f, names[f].version)'
      BY <1>2, <2>2, <2>5, <2>6 DEF Covered, Owing
    <3>4. \A o \in Client : WriteRight(job[o], f)'
      BY <1>2, <2>2, <2>3, <2>5, <2>6, <3>1 DEF WriteRight, Writes
    <3> QED BY <3>2, <3>3, <3>4 DEF HistInv
  <2> QED BY <1>1, <1>2, <2>2, <2>4, <2>5, <2>7, RowWriteKeeps
<1>4. CASE ~(NameAvailable(f) /\ entities[j.entity] # None)
  <2>1. Refuse(c) /\ UNCHANGED names
    BY <1>1, <1>4 DEF CreateName
  <2> QED BY <1>2, <2>1, JobFields, OtherStepKeeps DEF Refuse
<1> QED BY <1>3, <1>4

\* UpdateZNSName: the new version is on its way to the history, and the old
\* one, written back, was covered.
LEMMA WriteNameKeepsHistory ==
    ASSUME Inv, PeerInv, KeptInv, NEW c \in Client, WriteName(c) PROVE KeptInv'
<1> DEFINE j == job[c]
<1>1. PICK f \in FQAN : f = <<j.handle, j.ename>>
  BY JobReady DEF WriteName, OnNames
<1>2. /\ j.step = "updateName" /\ j.newVersion \in {None, j.version} /\ j \in JobRec
      /\ UNCHANGED <<versions, torn, pulled>>
  BY JobReady DEF WriteName, PeerInv, VersionsAgree
<1>3. CASE names[f] # None
  <2>1. names' = [names EXCEPT ![f].version = j.version] /\ AfterName(c)
    BY <1>1, <1>3 DEF WriteName
  <2>2. /\ names'[f] = [names[f] EXCEPT !.version = j.version]
        /\ \A g \in FQAN : g # f => names'[g] = names[g]
    BY <2>1 DEF Inv, NamesOK
  <2>3. names[f] \in NameRow /\ j.version \in Opt(Version)
    BY <1>2, <1>3, RowTyped DEF JobRec
  <2>4. /\ names'[f].entity = names[f].entity /\ names'[f].version = j.version
        /\ names'[f] \in NameRow
    BY <2>2, <2>3 DEF NameRow
  <2>5. names'[f] # None
    BY <2>4, NullAssumption
  <2>6. PICK k : /\ job' = [job EXCEPT ![c] = k]
                 /\ j.newVersion # None => k = [j EXCEPT !.step = "createVersion"]
                 /\ j.newVersion = None => k.step = "announce"
    BY <2>1, AfterNameLeaves
  <2>7. /\ j.newVersion # None => /\ Writes(k, f) /\ k.step = "createVersion"
                                  /\ k.entity = j.entity /\ k.newVersion = j.version
        /\ j.newVersion = None => k.step = "announce"
    BY <1>1, <1>2, <2>6 DEF JobRec, Writes
  <2>8. job'[c] = k /\ \A o \in Client : o # c => job'[o] = job[o]
    BY <2>6 DEF Inv, JobsOK
  <2>9. ASSUME f \notin pulled PROVE HistInv(f)'
    <3>1. /\ HistInv(f) /\ Writes(j, f) /\ names[f].entity = j.entity
          /\ j.newVersion = None /\ j.version # None => Covered(f, j.version)
      BY <1>1, <1>2, <2>9 DEF KeptInv, HistInv, WriteRight, Writes
    <3>2. ASSUME NEW v, Covered(f, v) PROVE Covered(f, v)'
      <4>1. \A o \in Client : job[o].step = "createVersion" => job'[o] = job[o]
        BY <1>2, <2>8
      <4> QED BY <1>2, <3>2, <4>1, CoverKept
    <3>3. HistoryOfEntity(f)'
      BY <1>2, <2>4, <2>5, <3>1 DEF HistInv, HistoryOfEntity
    <3>4. PICK v : v = j.version
      OBVIOUS
    <3>5. v # None => Covered(f, names[f].version)'
      <4>1. j.newVersion # None => Owing(f, v)'
        BY <2>7, <2>8, <3>4 DEF Owing
      <4>2. j.newVersion # None => Covered(f, v)'
        BY <4>1 DEF Covered
      <4>3. j.newVersion = None /\ v # None => Covered(f, v)'
        BY <3>1, <3>2, <3>4
      <4> QED BY <2>4, <3>4, <4>2, <4>3
    <3>6. ASSUME NEW o \in Client PROVE WriteRight(job[o], f)'
      <4>1. CASE o = c
        BY <2>4, <2>5, <2>7, <2>8, <3>1, <4>1 DEF WriteRight, Writes
      <4>2. CASE o # c
        <5>1. job'[o] = job[o] /\ WriteRight(job[o], f)
          BY <2>8, <3>1, <4>2 DEF HistInv
        <5> QED BY <2>4, <2>5, <3>2, <5>1 DEF WriteRight
      <4> QED BY <4>1, <4>2
    <3> QED BY <2>4, <3>3, <3>4, <3>5, <3>6 DEF HistInv
  <2>10. \A g \in FQAN : g # f => names'[g] = names[g] /\ versions'[g] = versions[g]
    BY <1>2, <2>2
  <2>11. /\ job[c].step # "createVersion" /\ UNCHANGED <<torn, pulled>>
         /\ Writes(k, f) \/ k.step \notin {"updateName", "createVersion"}
    BY <1>2, <2>7
  <2>12. job' = [job EXCEPT ![c] = k]
    BY <2>6
  <2> QED BY <2>9, <2>10, <2>11, <2>12, RowWriteKeeps
<1>4. CASE names[f] = None
  <2>1. Refuse(c) /\ UNCHANGED names
    BY <1>1, <1>4 DEF WriteName
  <2> QED BY <1>2, <2>1, JobFields, OtherStepKeeps DEF Refuse
<1> QED BY <1>3, <1>4

\* CreateZNSVersion: the row still has the entity, so the history has it too.
LEMMA CreateVersionKeepsHistory ==
    ASSUME Inv, PeerInv, KeptInv, NEW c \in Client, CreateVersion(c) PROVE KeptInv'
<1> DEFINE j == job[c]
<1>1. PICK f \in FQAN : f = <<j.handle, j.ename>>
  BY JobReady DEF CreateVersion, OnNames
<1>2. /\ j.step = "createVersion" /\ j.entity \in Entity /\ j.newVersion \in Version
      /\ UNCHANGED <<names, torn, pulled>>
  BY JobReady DEF CreateVersion, OnNames
<1>3. PICK k : job' = [job EXCEPT ![c] = k] /\ k.step = "announce"
  <2>1. PICK k : k = Announcing(<<NameAnn("bind", j)>>)
    OBVIOUS
  <2>2. job' = [job EXCEPT ![c] = k] /\ k.step = "announce"
    BY <2>1, JobFields DEF CreateVersion, Owe, Announcing
  <2> QED BY <2>2
<1>4. versions' = IF names[f] # None /\ versions[f][j.newVersion] = None
                  THEN [versions EXCEPT ![f][j.newVersion] = j.entity] ELSE versions
  BY <1>1 DEF CreateVersion
<1>5. /\ \A g \in FQAN : g # f => versions'[g] = versions[g]
      /\ \A v \in Version : versions'[f][v] =
            IF names[f] # None /\ versions[f][j.newVersion] = None /\ v = j.newVersion
            THEN j.entity ELSE versions[f][v]
  BY <1>2, <1>4 DEF Inv, VersionsOK
<1>6. job'[c] = k /\ \A o \in Client : o # c => job'[o] = job[o]
  BY <1>3 DEF Inv, JobsOK
<1>7. ASSUME f \notin pulled PROVE HistInv(f)'
  <2>1. HistInv(f) /\ names[f] # None /\ names[f].entity = j.entity /\ j.entity # None
    BY <1>1, <1>2, <1>7, NamesAssumption DEF KeptInv, HistInv, WriteRight, Writes
  <2>2. versions'[f][j.newVersion] # None
    BY <1>2, <1>5, <2>1
  <2>3. ASSUME NEW v \in Version, Covered(f, v) PROVE Covered(f, v)'
    <3>1. versions[f][v] # None => versions'[f][v] # None
      BY <1>5, <2>1
    <3>2. ASSUME NEW o \in Client, Writes(job[o], f), job[o].step = "createVersion",
                 job[o].newVersion = v
          PROVE  job'[o] = job[o] \/ versions'[f][v] # None
      BY <1>6, <2>2, <3>2
    <3> QED BY <1>2, <2>3, <3>1, <3>2, CoverKept
  <2>4. HistoryOfEntity(f)'
    BY <1>2, <1>5, <2>1 DEF HistInv, HistoryOfEntity
  <2>5. names'[f] # None /\ names'[f].version # None => Covered(f, names[f].version)'
    BY <1>2, <2>1, <2>3, RowTyped DEF HistInv, Opt
  <2>6. ASSUME NEW o \in Client PROVE WriteRight(job[o], f)'
    <3>1. CASE o = c
      BY <1>3, <1>6, <3>1 DEF WriteRight, Writes
    <3>2. CASE o # c
      <4>1. job'[o] = job[o] /\ WriteRight(job[o], f) /\ job[o].version \in Opt(Version)
        BY <1>6, <2>1, <3>2, JobReady DEF HistInv, JobRec
      <4> QED BY <1>2, <2>3, <4>1 DEF WriteRight, Opt
    <3> QED BY <3>1, <3>2
  <2> QED BY <2>4, <2>5, <2>6 DEF HistInv
<1> QED BY <1>1, <1>2, <1>3, <1>5, <1>7, RowWriteKeeps

\* Names that are deleted: those that a request was to write to are pulled, and
\* the others go with their history.
LEMMA DeletesKeepHistory ==
    ASSUME Inv, KeptInv, NEW c \in Client, NEW k, NEW S,
           job' = [job EXCEPT ![c] = k], k.step \notin {"updateName", "createVersion"},
           job[c].step # "createVersion",
           Without(S), pulled' = pulled \cup Unwritten(S), UNCHANGED torn
    PROVE  KeptInv'
<1>1. job'[c] = k /\ \A o \in Client : o # c => job'[o] = job[o]
  BY DEF Inv, JobsOK
<1>2. ASSUME NEW f \in FQAN \ pulled' PROVE HistInv(f)'
  <2>1. HistInv(f) /\ ~Writes(k, f)
    BY DEF KeptInv, Writes
  <2>2. CASE f \notin S
    <3>1. names'[f] = names[f] /\ versions'[f] = versions[f]
      BY <2>2 DEF Without
    <3> QED BY <1>1, <2>1, <3>1, HistKept
  <2>3. CASE f \in S
    <3>1. names'[f] = None /\ \A v \in Version : versions'[f][v] = None
      BY <2>3 DEF Without
    <3>2. \A o \in Client : ~Writes(job'[o], f)
      BY <1>1, <2>1, <2>3 DEF Unwritten
    <3> QED BY <3>1, <3>2 DEF HistInv, HistoryOfEntity, WriteRight
  <2> QED BY <2>2, <2>3
<1> QED BY <1>2 DEF KeptInv

\* DeleteZNSName, and the first statement of DeleteEntity.
LEMMA DropsKeepHistory ==
    ASSUME Inv, KeptInv, NEW c \in Client, DropName(c) \/ DropNames(c) PROVE KeptInv'
<1> DEFINE j == job[c]
           f == <<j.handle, j.ename>>
<1>1. CASE DropName(c) /\ names[f] # None
  <2>1. PICK k : k = Announcing(<<NameAnn("unbind", j)>>)
    OBVIOUS
  <2>2. /\ job' = [job EXCEPT ![c] = k] /\ k.step = "announce" /\ j.step = "deleteName"
        /\ Without({f}) /\ pulled' = pulled \cup Unwritten({f}) /\ UNCHANGED torn
    BY <1>1, <2>1, JobFields DEF DropName, Owe, Announcing
  <2> QED BY <2>2, DeletesKeepHistory
<1>2. CASE DropName(c) /\ names[f] = None
  <2>1. /\ Refuse(c) /\ j.step = "deleteName"
        /\ UNCHANGED <<names, versions, torn, pulled>>
    BY <1>2 DEF DropName
  <2> QED BY <2>1, JobFields, OtherStepKeeps DEF Refuse
<1>3. CASE DropNames(c)
  <2>1. PICK k : k = [j EXCEPT !.step = "deleteEntity"]
    OBVIOUS
  <2>2. /\ job' = [job EXCEPT ![c] = k] /\ j.step = "deleteNames" /\ UNCHANGED torn
        /\ Without(NamesOf(j.entity)) /\ pulled' = pulled \cup Unwritten(NamesOf(j.entity))
    BY <1>3, <2>1 DEF DropNames
  <2>3. k.step = "deleteEntity"
    BY <2>1, JobReady DEF JobRec
  <2> QED BY <2>2, <2>3, DeletesKeepHistory
<1> QED BY <1>1, <1>2, <1>3

\* A crash: the versions that were on their way are torn.
LEMMA CrashKeepsHistory ==
    ASSUME Inv, KeptInv, Crash PROVE KeptInv'
<1>1. /\ job' = [c \in Client |-> NoJob] /\ UNCHANGED <<names, versions, pulled>>
      /\ torn' = torn \cup {p \in FQAN \X Version : Owing(p[1], p[2])}
  BY DEF Crash, home
<1>2. ASSUME NEW f \in FQAN \ pulled' PROVE HistInv(f)'
  <2>1. \A o \in Client : ~Writes(job'[o], f)
    BY <1>1, JobFields DEF Writes
  <2>2. ASSUME NEW o \in Client, Writes(job[o], f), job[o].step = "createVersion"
        PROVE  <<f, job[o].newVersion>> \in torn'
    <3>1. job[o].newVersion \in Version /\ Owing(f, job[o].newVersion)
      BY <2>2, JobReady DEF Owing
    <3> QED BY <1>1, <3>1
  <2> QED BY <1>1, <2>1, <2>2, HistKept DEF KeptInv
<1> QED BY <1>2 DEF KeptInv

\* Every step keeps the invariant.
LEMMA NextKeepsHistory == Inv /\ PeerInv /\ KeptInv /\ [Next]_vars => KeptInv'
<1> SUFFICES ASSUME Inv, PeerInv, KeptInv, [Next]_vars PROVE KeptInv'
  OBVIOUS
<1>1. ASSUME NEW c \in Client, Handler(c) PROVE KeptInv'
  BY <1>1, OtherHandlersKeepHistory, CreateNameKeepsHistory, CreateVersionKeepsHistory,
     WriteNameKeepsHistory, DropsKeepHistory DEF Handler
<1>2. CASE HandleAnnouncement \/ Disconnect \/ UNCHANGED vars
  <2>1. UNCHANGED <<names, versions, job, torn, pulled>>
    BY <1>2 DEF HandleAnnouncement, Disconnect, home, vars
  <2> QED BY <2>1, HistKept DEF KeptInv
<1> QED BY <1>1, <1>2, RequestKeepsHistory, CrashKeepsHistory DEF Next

\* However requests overlap and wherever a crash cuts them short: the history of
\* a name that was not deleted under a request about to write to it is that of
\* its entity, and lacks the current version only while the request that has
\* written it goes on to the history, or if a crash came between the two.
THEOREM HistoryIsKept == Spec => []VersionsKept
<1>1. Init => KeptInv
  <2> SUFFICES ASSUME Init, NEW f \in FQAN PROVE HistInv(f)
    BY DEF KeptInv
  <2>1. names[f] = None /\ \A v \in Version : versions[f][v] = None
    BY DEF Init
  <2>2. \A c \in Client : ~Writes(job[c], f)
    BY JobFields DEF Init, Writes
  <2> QED BY <2>1, <2>2 DEF HistInv, HistoryOfEntity, WriteRight
<1>2. (Inv /\ PeerInv) /\ KeptInv /\ [Next]_vars => KeptInv'
  BY NextKeepsHistory
<1>3. KeptInv => VersionsKept
  BY DEF KeptInv, HistInv, HistoryOfEntity, Covered, VersionsKept
<1> QED BY <1>1, <1>2, <1>3, PeerInvHolds, PTL DEF Spec

=============================================================================
