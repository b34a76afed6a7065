--------------------------- MODULE Repository_proofs ---------------------------
(***************************************************************************)
(* What the garbage collector leaves alone, while writers, transactions    *)
(* and callers of the BranchManager go on: the latest versions, the        *)
(* versions whose references have stood since its run began, and the       *)
(* chunks of versions that were complete when it looked for references.    *)
(* For any tables, branches, writers, chunks, limits and crashes.          *)
(***************************************************************************)
EXTENDS Repository, TLAPS

-----------------------------------------------------------------------------
\* The fields of the collector's record, phase by phase.
GcShape ==
  \/ gc = Idle
  \/ gc.at \in {"latest", "branches"} /\ DOMAIN gc = {"at", "left", "protected"}
  \/ gc.at = "expire" /\ DOMAIN gc = {"at", "left", "protected", "doomed", "old"}
  \/ gc.at = "mark" /\ DOMAIN gc = {"at", "left", "referenced"}
  \/ gc.at = "sweep" /\ DOMAIN gc = {"at", "doomed"}

\* The catalog numbers versions from 1, and is at most one ahead of the
\* pointer, in tables that have a directory.
Numbered ==
  /\ DOMAIN versions = Tables /\ latest \in [Tables -> Nat] /\ dirs \subseteq Tables
  /\ \A t \in Tables : /\ DOMAIN versions[t] \subseteq 1..(latest[t] + 1)
                       /\ DOMAIN versions[t] # {} => t \in dirs

\* What the lock of a table gives the writer that has it: the file it has
\* written stays, and nobody else moves the pointer.
Locking ==
  \A w \in Writers :
    /\ work[w].at \in {"file", "pointer"} => work[w].table \in dirs
    /\ work[w].at = "pointer" =>
         /\ latest[work[w].table] + 1 \in DOMAIN versions[work[w].table]
         /\ \A u \in Writers : work[u].at = "pointer" /\ work[u].table = work[w].table => u = w

CatalogOk == GcShape /\ Numbered /\ Locking /\ LatestNeverDeleted

\* A reference is protected: the versions that expire leave it out.
Protected(r) == <<r[3], r[4]>> \in gc.protected

\* While the collector reads one file after another, what it has read already
\* covers the references that have stood since it began.
PinnedProtected ==
  /\ gc = Idle => pinned = {}
  /\ pinned \subseteq References
  /\ gc.at = "latest" => \A r \in pinned : r[1] = "latest" => r[2] \in gc.left \/ Protected(r)
  /\ gc.at = "branches" =>
       \A r \in pinned : \/ Protected(r) \/ r[1] = "snapshot"
                         \/ r[1] = "branch" /\ r[2] \in gc.left
  /\ gc.at = "expire" => (\A r \in pinned : Protected(r)) /\ gc.doomed \cap gc.protected = {}

\* The references to chunks that the mark has read, and the chunks the sweep
\* is about to delete.
SoundMarked ==
  /\ gc.at \notin {"mark", "sweep"} => sound = {}
  /\ sound \subseteq Existing
  /\ gc.at = "mark" => \A e \in sound : e[1] \in gc.left \/ versions[e[1]][e[2]] \in gc.referenced
  /\ gc.at = "sweep" => \A e \in sound : versions[e[1]][e[2]] \notin gc.doomed

\* Types: what a writer carries is a chunk, and then its table.
Putting == [at : {"write", "rename", "commit"}, chunk : Chunks]
Committing == [at : {"file", "pointer"}, chunk : Chunks, table : Tables]
Carried == work \in [Writers -> {Idle} \cup Putting \cup Committing]
Typed == TypeOK /\ Carried

CollectorInv ==
  Typed /\ CatalogOk /\ PinnedProtected /\ HeldVersionsStand /\ SoundMarked /\ CompleteVersionsStay

-----------------------------------------------------------------------------
\* What refers to a version.
LEMMA RefersTo ==
  ASSUME NEW r \in References
  PROVE  \/ r[1] = "latest" /\ r[2] \in Committed /\ r = <<"latest", r[2], r[2], latest[r[2]]>>
         \/ r[1] = "snapshot" /\ <<r[3], r[4]>> \in Entries(snapshot)
         \/ /\ r[1] = "branch" /\ r[2] \in DOMAIN branches
            /\ <<r[3], r[4]>> \in Entries(branches[r[2]].head)
<1>1. CASE \E t \in Committed : r = <<"latest", t, t, latest[t]>>
  BY <1>1
<1>2. CASE \E e \in Entries(snapshot) : r = <<"snapshot", "", e[1], e[2]>>
  <2>1. PICK e \in Entries(snapshot) : r = <<"snapshot", "", e[1], e[2]>>
    BY <1>2
  <2>2. PICK t \in DOMAIN snapshot : e = <<t, snapshot[t]>>
    BY DEF Entries
  <2> QED
    BY <2>1, <2>2
<1>3. CASE \E b \in DOMAIN branches :
             \E e \in Entries(branches[b].head) :
               r = <<"branch", b, e[1], e[2]>>
  <2>1. PICK b \in DOMAIN branches :
               \E e \in Entries(branches[b].head) :
                 r = <<"branch", b, e[1], e[2]>>
    BY <1>3
  <2>2. PICK e \in Entries(branches[b].head) :
               r = <<"branch", b, e[1], e[2]>>
    BY <2>1
  <2>3. e = <<e[1], e[2]>>
    BY <2>2 DEF Entries
  <2> QED
    BY <2>2, <2>3
<1> QED
  BY <1>1, <1>2, <1>3 DEF References

-----------------------------------------------------------------------------
\* The phases of the collector that leave the files alone.
LEMMA ShapeStep ==
  ASSUME GcShape,
         StartCollecting \/ ProtectLatest \/ ProtectBranches \/ ListExpired \/ MarkReferenced
  PROVE  GcShape'
<1>1. CASE StartCollecting
  BY <1>1 DEF GcShape, StartCollecting
<1>2. CASE ProtectLatest
  <2>1. CASE gc.left = {}
    BY <1>2, <2>1 DEF GcShape, ProtectLatest
  <2>2. CASE gc' = Idle
    BY <2>2 DEF GcShape
  <2>3. CASE gc.left # {} /\ gc' # Idle
    <3>1. PICK t \in gc.left :
            gc' = [gc EXCEPT !.left = @ \ {t}, !.protected = @ \cup {<<t, latest[t]>>}]
      BY <1>2, <2>3 DEF ProtectLatest
    <3> QED
      BY <1>2, <3>1 DEF GcShape, Idle, ProtectLatest
  <2> QED
    BY <2>1, <2>2, <2>3
<1>3. CASE ProtectBranches
  <2>1. CASE gc.left = {}
    BY <1>3, <2>1 DEF GcShape, ProtectBranches
  <2>2. CASE gc' = Idle
    BY <2>2 DEF GcShape
  <2>3. CASE gc.left # {} /\ gc' # Idle
    <3>1. PICK b \in gc.left :
            gc' = [gc EXCEPT !.left = @ \ {b},
                     !.protected = @ \cup Entries(branches[b].head)]
      BY <1>3, <2>3 DEF ProtectBranches
    <3> QED
      BY <1>3, <3>1 DEF GcShape, Idle, ProtectBranches
  <2> QED
    BY <2>1, <2>2, <2>3
<1>4. CASE ListExpired
  <2>1. CASE gc.left = {}
    BY <1>4, <2>1 DEF GcShape, ListExpired
  <2>2. CASE gc.left # {}
    <3>1. PICK t \in gc.left :
            \E aged \in SUBSET (IF ByAge THEN gc.old ELSE {}) :
              gc' = [gc EXCEPT !.left = @ \ {t}, !.doomed = Expired(t, aged)]
      BY <1>4, <2>2 DEF ListExpired
    <3> QED
      BY <1>4, <3>1 DEF GcShape, Idle, ListExpired
  <2> QED
    BY <2>1, <2>2
<1>5. CASE MarkReferenced
  <2>1. CASE gc.left = {}
    BY <1>5, <2>1 DEF GcShape, MarkReferenced
  <2>2. CASE gc.left # {}
    <3>1. PICK t \in gc.left :
            gc' = [gc EXCEPT !.left = @ \ {t},
                             !.referenced = @ \cup {versions[t][v] : v \in DOMAIN versions[t]}]
      BY <1>5, <2>2 DEF MarkReferenced
    <3> QED
      BY <1>5, <3>1 DEF GcShape, Idle, MarkReferenced
  <2> QED
    BY <2>1, <2>2
<1> QED
  BY <1>1, <1>2, <1>3, <1>4, <1>5

\* A step that leaves the catalog alone, and moves one writer outside it.
LEMMA OutsideCatalog ==
  ASSUME Carried, Numbered, Locking, LatestNeverDeleted, UNCHANGED catalog,
         \A w \in Writers : work'[w].at \in {"file", "pointer"} => work'[w] = work[w]
  PROVE  (Numbered /\ Locking /\ LatestNeverDeleted)'
<1>1. UNCHANGED <<dirs, versions, latest>>
  BY DEF catalog
<1> QED
  BY <1>1 DEF Numbered, Locking, LatestNeverDeleted, Committed

\* What a commit does to the catalog, step by step.
LEMMA CommitStep ==
  ASSUME Carried, Numbered, Locking, LatestNeverDeleted, NEW w \in Writers,
         (\E t \in Tables : CreateDirectory(w, t)) \/ WriteVersion(w) \/ MoveLatest(w)
  PROVE  (Numbered /\ Locking /\ LatestNeverDeleted)'
<1>1. ASSUME NEW t \in Tables, CreateDirectory(w, t)
      PROVE  (Numbered /\ Locking /\ LatestNeverDeleted)'
  <2>1. /\ dirs' = dirs \cup {t} /\ UNCHANGED <<versions, latest>>
        /\ work'[w].at = "file" /\ work'[w].table = t /\ \A z \in Writers \ {w} : work'[z] = work[z]
    BY <1>1 DEF CreateDirectory, Goto, Carried
  <2> QED
    BY <2>1 DEF Numbered, Locking, LatestNeverDeleted, Committed
<1>2. CASE WriteVersion(w)
  <2>0. work[w] \in Committing
    BY <1>2 DEF Carried, WriteVersion, Idle, Putting
  <2> DEFINE t == work[w].table
             next == latest[t] + 1
  <2>1. /\ t \in Tables /\ t \in dirs /\ latest[t] \in Nat
    BY <1>2, <2>0 DEF Committing, Locking, WriteVersion, Numbered
  <2>2. /\ \A u \in Writers : ~(work[u].at = "pointer" /\ work[u].table = t)
        /\ versions' = [versions EXCEPT ![t] = [v \in DOMAIN @ \cup {next} |->
                          IF v = next THEN work[w].chunk ELSE @[v]]]
        /\ UNCHANGED <<dirs, latest>>
    BY <1>2 DEF WriteVersion, Locked
  <2>3. /\ work'[w].at = "pointer" /\ work'[w].table = t
        /\ \A z \in Writers \ {w} : work'[z] = work[z]
    BY <1>2, <2>0 DEF WriteVersion, Goto, Carried, Committing
  <2>4. /\ DOMAIN versions' = Tables /\ DOMAIN versions'[t] = DOMAIN versions[t] \cup {next}
        /\ \A u \in Tables \ {t} : versions'[u] = versions[u]
    BY <2>1, <2>2 DEF Numbered
  <2> HIDE DEF t, next
  <2>5. Numbered'
    BY <2>1, <2>2, <2>4 DEF Numbered, next
  <2>6. Locking'
    BY <2>1, <2>2, <2>3, <2>4 DEF Locking, Numbered, next
  <2> QED
    BY <2>2, <2>4, <2>5, <2>6 DEF LatestNeverDeleted, Committed
<1>3. CASE MoveLatest(w)
  <2>0. work[w] \in Committing
    BY <1>3 DEF Carried, MoveLatest, Idle, Putting
  <2> DEFINE t == work[w].table
  <2>1. /\ t \in Tables /\ latest[t] \in Nat /\ latest[t] + 1 \in DOMAIN versions[t]
        /\ \A u \in Writers : work[u].at = "pointer" /\ work[u].table = t => u = w
    BY <1>3, <2>0 DEF Committing, Locking, MoveLatest, Numbered
  <2>2. /\ latest' = [latest EXCEPT ![t] = @ + 1] /\ UNCHANGED <<dirs, versions>>
        /\ work'[w] = Idle /\ \A z \in Writers \ {w} : work'[z] = work[z]
    BY <1>3 DEF MoveLatest, Goto, Carried
  <2>3. latest'[t] = latest[t] + 1 /\ \A u \in Tables \ {t} : latest'[u] = latest[u]
    BY <2>1, <2>2 DEF Numbered
  <2> HIDE DEF t
  <2>4. Numbered'
    BY <2>1, <2>2, <2>3 DEF Numbered
  <2>5. Locking'
    BY <2>1, <2>2, <2>3 DEF Locking, Numbered, Idle
  <2> QED
    BY <2>1, <2>2, <2>3, <2>4, <2>5 DEF LatestNeverDeleted, Committed
<1> QED
  BY <1>1, <1>2, <1>3

\* A writer that is not committing.
LEMMA PutStep ==
  ASSUME Carried, NEW w \in Writers,
         (\E x \in Chunks : BeginPut(w, x)) \/ WriteTemp(w) \/ RenameTemp(w)
  PROVE  /\ UNCHANGED catalog
         /\ \A z \in Writers : work'[z].at \in {"file", "pointer"} => work'[z] = work[z]
<1>1. ASSUME NEW x \in Chunks, BeginPut(w, x)
      PROVE  /\ UNCHANGED catalog
             /\ \A z \in Writers : work'[z].at \in {"file", "pointer"} => work'[z] = work[z]
  BY <1>1 DEF BeginPut, Goto, files, Carried
<1>2. CASE WriteTemp(w)
  <2>1. work[w] \in [at : {"write"}, chunk : Chunks]
    BY <1>2 DEF Carried, WriteTemp, Idle, Putting, Committing
  <2> QED
    BY <1>2, <2>1 DEF WriteTemp, Goto, Carried
<1>3. CASE RenameTemp(w)
  <2>1. work[w] \in [at : {"rename"}, chunk : Chunks]
    BY <1>3 DEF Carried, RenameTemp, Idle, Putting, Committing
  <2>2. work'[w].at \in {"commit", "idle"} /\ \A z \in Writers \ {w} : work'[z] = work[z]
    BY <1>3, <2>1 DEF RenameTemp, Goto, Carried, Idle
  <2> QED
    BY <1>3, <2>2 DEF RenameTemp
<1> QED
  BY <1>1, <1>2, <1>3

\* The catalog is kept by every step.
LEMMA CatalogStep ==
  ASSUME Typed, CatalogOk, [Next]_vars
  PROVE  CatalogOk'
<1>0. GcShape /\ Carried /\ Numbered /\ Locking /\ LatestNeverDeleted
  BY DEF Typed, CatalogOk
<1>1. CASE Collect
  <2>0. CollectStep /\ work' = work
    BY <1>1 DEF Collect, CollectStep
  <2>1. CASE StartCollecting \/ ProtectLatest \/ ProtectBranches \/ ListExpired \/ MarkReferenced
    <3>1. UNCHANGED catalog
      BY <2>1 DEF StartCollecting, ProtectLatest, ProtectBranches, ListExpired, MarkReferenced, files
    <3>2. GcShape'
      BY <1>0, <2>1, ShapeStep
    <3> QED
      BY <1>0, <2>0, <3>1, <3>2, OutsideCatalog DEF CatalogOk
  <2>2. ASSUME NEW t \in Tables, NEW v \in 1..(MaxCalls + 1), DeleteVersion(t, v)
        PROVE  CatalogOk'
    <3>1. GcShape'
      BY <1>0, <2>2 DEF GcShape, Idle, DeleteVersion
    <3>2. /\ UNCHANGED <<dirs, latest, work>>
          /\ \A w \in Writers : ~(work[w].at = "pointer" /\ work[w].table = t)
      BY <2>0, <2>2 DEF DeleteVersion, Locked
    <3>3. /\ DOMAIN versions' = Tables
          /\ \A u \in Tables \ {t} : versions'[u] = versions[u]
          /\ DOMAIN versions'[t] \subseteq DOMAIN versions[t]
          /\ latest[t] \in DOMAIN versions[t] => latest[t] \in DOMAIN versions'[t]
      BY <1>0, <2>2 DEF Numbered, DeleteVersion
    <3>4. Numbered' /\ LatestNeverDeleted'
      BY <1>0, <3>2, <3>3 DEF Numbered, LatestNeverDeleted, Committed
    <3>5. Locking'
      <4>1. \A w \in Writers : work[w].at = "pointer" =>
              /\ work[w].table \in Tables \ {t}
              /\ versions'[work[w].table] = versions[work[w].table]
        BY <1>0, <3>2, <3>3 DEF Carried, Idle, Putting, Committing
      <4> QED
        BY <1>0, <3>2, <4>1 DEF Locking
    <3> QED
      BY <3>1, <3>4, <3>5 DEF CatalogOk
  <2>3. ASSUME NEW x \in Chunks, Sweep(x) PROVE CatalogOk'
    <3>1. GcShape'
      BY <1>0, <2>3 DEF GcShape, Idle, Sweep
    <3> QED
      BY <1>0, <2>0, <2>3, <3>1, OutsideCatalog DEF CatalogOk, Sweep
  <2>4. CASE RemoveTemps
    BY <1>0, <2>0, <2>4, OutsideCatalog DEF CatalogOk, GcShape, RemoveTemps
  <2> QED
    BY <2>0, <2>1, <2>2, <2>3, <2>4 DEF CollectStep
<1>2. ASSUME NEW w \in Writers, Write(w), UNCHANGED gc PROVE CatalogOk'
  <2>0. GcShape'
    BY <1>0, <1>2 DEF GcShape
  <2>1. CASE (\E t \in Tables : CreateDirectory(w, t)) \/ WriteVersion(w) \/ MoveLatest(w)
    BY <1>0, <2>0, <2>1, CommitStep DEF CatalogOk
  <2>2. CASE (\E x \in Chunks : BeginPut(w, x)) \/ WriteTemp(w) \/ RenameTemp(w)
    BY <1>0, <2>0, <2>2, PutStep, OutsideCatalog DEF CatalogOk
  <2> QED
    BY <1>2, <2>1, <2>2 DEF Write
<1>3. CASE Crash \/ \E w \in Writers : WriterFails(w)
  <2>1. UNCHANGED catalog /\ GcShape'
    BY <1>0, <1>3 DEF Crash, WriterFails, files, GcShape
  <2>2. \A z \in Writers : work'[z].at \in {"file", "pointer"} => work'[z] = work[z]
    BY <1>0, <1>3 DEF Crash, WriterFails, Goto, Carried, Idle
  <2> QED
    BY <1>0, <2>1, <2>2, OutsideCatalog DEF CatalogOk
<1>4. CASE (Call /\ UNCHANGED gc) \/ UNCHANGED vars
  <2>1. UNCHANGED <<catalog, work, gc>>
    BY <1>4 DEF Call, vars, files, catalog
  <2> QED
    BY <1>0, <2>1, OutsideCatalog DEF CatalogOk, GcShape
<1> QED
  BY <1>1, <1>2, <1>3, <1>4 DEF Next

\* A version file goes only by deletion, when the collector has listed it, and
\* is rewritten only ahead of the pointer.
LEMMA VersionKept ==
  ASSUME Typed, CatalogOk, [Next]_vars,
         NEW t \in Tables, NEW v \in DOMAIN versions[t]
  PROVE  \/ v \in DOMAIN versions'[t]
         \/ gc.at = "expire" /\ <<t, v>> \in gc.doomed /\ gc'.at = "expire"
<1>1. ASSUME NEW w \in Writers, WriteVersion(w) PROVE v \in DOMAIN versions'[t]
  BY <1>1 DEF CatalogOk, Numbered, WriteVersion
<1>2. ASSUME NEW u \in Tables, NEW z \in 1..(MaxCalls + 1), DeleteVersion(u, z)
      PROVE  \/ v \in DOMAIN versions'[t]
             \/ gc.at = "expire" /\ <<t, v>> \in gc.doomed /\ gc'.at = "expire"
  BY <1>2 DEF CatalogOk, Numbered, GcShape, Idle, DeleteVersion
<1>3. CASE versions' = versions
  BY <1>3
<1> QED
  BY <1>1, <1>2, <1>3 DEF Next, Collect, CollectStep, StartCollecting, ProtectLatest,
     ProtectBranches, ListExpired, MarkReferenced, Sweep, RemoveTemps, Write, BeginPut, WriteTemp,
     RenameTemp, CreateDirectory, MoveLatest, WriterFails, Call, Crash, vars, files, catalog

\* The same of the versions there are.
LEMMA ExistingKept ==
  ASSUME Typed, CatalogOk, [Next]_vars, NEW e \in Existing
  PROVE  e \in Existing' \/ (gc.at = "expire" /\ e \in gc.doomed /\ gc'.at = "expire")
<1>1. PICK t \in Tables : \E v \in DOMAIN versions[t] : e = <<t, v>>
  BY DEF Existing
<1>2. PICK v \in DOMAIN versions[t] : e = <<t, v>>
  BY <1>1
<1>3. v \in DOMAIN versions'[t] => e \in Existing'
  BY <1>2 DEF Existing
<1> QED
  BY <1>2, <1>3, VersionKept

-----------------------------------------------------------------------------
\* What every step but a stutter does to the history.
LEMMA HistoryStep ==
  ASSUME [Next]_vars
  PROVE  Remember \/ UNCHANGED vars
BY DEF Next, Collect

LEMMA NextRemembers == Next => Remember
BY DEF Next, Collect

\* Only the collector moves on, and a crash ends it.
LEMMA GcMoves ==
  ASSUME [Next]_vars
  PROVE  Collect \/ gc' = gc \/ gc' = Idle
BY DEF Next, Crash, WriterFails, vars

\* The collector changes nothing that refers to a version.
LEMMA ReferencesStay ==
  ASSUME CollectStep
  PROVE  References' = References
<1>1. UNCHANGED <<latest, snapshot, branches>>
  BY DEF CollectStep, StartCollecting, ProtectLatest, ProtectBranches, ListExpired, DeleteVersion,
     MarkReferenced, Sweep, RemoveTemps, files, catalog, branchFiles
<1> QED
  BY <1>1 DEF References, Committed, Entries

\* What has been pinned stays protected.
LEMMA PinnedStep ==
  ASSUME CatalogOk, PinnedProtected, [Next]_vars
  PROVE  PinnedProtected'
<1>1. CASE gc' = Idle /\ Remember
  BY <1>1 DEF PinnedProtected, Remember, Idle
<1>2. CASE gc' = gc /\ gc # Idle /\ Remember
  <2>1. pinned' = pinned \cap References'
    BY <1>2 DEF Remember
  <2> QED
    BY <1>2, <2>1 DEF PinnedProtected, Protected
<1>3. CASE UNCHANGED vars
  <2>1. References' = References
    BY <1>3 DEF vars, References, Committed, Entries
  <2> QED
    BY <1>3, <2>1 DEF vars, PinnedProtected, Protected
<1>4. ASSUME CollectStep, Remember, gc' # Idle PROVE PinnedProtected'
  <2>0. References' = References
    BY <1>4, ReferencesStay
  <2>1. CASE StartCollecting
    <3>1. pinned' \subseteq References /\ gc'.at = "latest" /\ gc'.left = Listed
      BY <1>4, <2>0, <2>1 DEF Remember, Standing, StartCollecting
    <3>2. Committed \subseteq Listed
      BY DEF CatalogOk, Numbered, LatestNeverDeleted, Committed, Listed
    <3>3. \A r \in pinned' : r[1] = "latest" => r[2] \in Listed
      BY <3>1, <3>2, RefersTo
    <3> QED
      BY <1>4, <2>0, <3>1, <3>3 DEF PinnedProtected
  <2>a. gc.at # "idle" => pinned' = pinned
    BY <1>4, <2>0 DEF Idle, Remember, PinnedProtected
  <2>2. CASE ProtectLatest
    <3>0. pinned' = pinned /\ gc.at = "latest"
      BY <2>2, <2>a DEF ProtectLatest
    <3>a. DOMAIN gc = {"at", "left", "protected"}
      BY <3>0 DEF CatalogOk, GcShape, Idle
    <3>1. CASE gc.left = {}
      <4>1. /\ gc'.at = "branches" /\ gc'.left = DOMAIN branches /\ gc'.protected = gc.protected
            /\ gc.at = "latest"
        BY <2>2, <3>1 DEF ProtectLatest
      <4>2. \A r \in pinned : \/ Protected(r) \/ r[1] = "snapshot"
                              \/ r[1] = "branch" /\ r[2] \in DOMAIN branches
        BY <3>1, <4>1, RefersTo DEF PinnedProtected
      <4> QED
        BY <1>4, <2>0, <3>0, <4>1, <4>2 DEF PinnedProtected, Protected
    <3>2. CASE gc.left # {}
      <4>1. PICK t \in gc.left :
              gc' = [gc EXCEPT !.left = @ \ {t}, !.protected = @ \cup {<<t, latest[t]>>}]
        BY <1>4, <2>2, <3>2 DEF ProtectLatest
      <4>2. /\ gc'.at = "latest" /\ gc'.left = gc.left \ {t}
            /\ gc'.protected = gc.protected \cup {<<t, latest[t]>>} /\ gc.at = "latest"
        BY <3>0, <3>a, <4>1
      <4>3. ASSUME NEW r \in pinned, r[1] = "latest", r[2] = t
            PROVE  <<r[3], r[4]>> = <<t, latest[t]>>
        <5>1. r \in References
          BY <4>3 DEF PinnedProtected
        <5>2. r = <<"latest", r[2], r[2], latest[r[2]]>>
          BY <4>3, <5>1, RefersTo
        <5> QED
          BY <4>3, <5>2
      <4> QED
        BY <1>4, <2>0, <3>0, <4>2, <4>3 DEF PinnedProtected, Protected
    <3> QED
      BY <3>1, <3>2
  <2>3. CASE ProtectBranches
    <3>0. pinned' = pinned /\ gc.at = "branches"
      BY <2>3, <2>a DEF ProtectBranches
    <3>a. DOMAIN gc = {"at", "left", "protected"}
      BY <3>0 DEF CatalogOk, GcShape, Idle
    <3>1. CASE gc.left = {}
      <4>1. /\ gc'.at = "expire" /\ gc'.doomed = {} /\ gc.at = "branches"
            /\ gc'.protected = gc.protected \cup Entries(snapshot)
        BY <2>3, <3>1 DEF ProtectBranches
      <4>2. \A r \in pinned : Protected(r) \/ <<r[3], r[4]>> \in Entries(snapshot)
        BY <3>1, <4>1, RefersTo DEF PinnedProtected
      <4> QED
        BY <1>4, <2>0, <3>0, <4>1, <4>2 DEF PinnedProtected, Protected
    <3>2. CASE gc.left # {}
      <4>1. PICK b \in gc.left :
              gc' = [gc EXCEPT !.left = @ \ {b},
                       !.protected = @ \cup Entries(branches[b].head)]
        BY <1>4, <2>3, <3>2 DEF ProtectBranches
      <4>2. /\ gc'.at = "branches" /\ gc'.left = gc.left \ {b} /\ gc.at = "branches"
            /\ gc'.protected = gc.protected \cup Entries(branches[b].head)
        BY <3>0, <3>a, <4>1
      <4>3. ASSUME NEW r \in pinned, r[1] = "branch", r[2] = b
            PROVE  <<r[3], r[4]>> \in gc'.protected
        BY <4>2, <4>3, RefersTo DEF PinnedProtected
      <4> QED
        BY <1>4, <2>0, <3>0, <4>2, <4>3 DEF PinnedProtected, Protected
    <3> QED
      BY <3>1, <3>2
  <2>4. CASE ListExpired
    <3>0. pinned' = pinned /\ gc.at = "expire"
      BY <2>4, <2>a DEF ListExpired
    <3>a. DOMAIN gc = {"at", "left", "protected", "doomed", "old"}
      BY <3>0 DEF CatalogOk, GcShape, Idle
    <3>1. CASE gc.left = {}
      BY <1>4, <2>0, <2>4, <3>0, <3>1 DEF ListExpired, PinnedProtected
    <3>2. CASE gc.left # {}
      <4>1. PICK t \in gc.left :
              \E aged \in SUBSET (IF ByAge THEN gc.old ELSE {}) :
                gc' = [gc EXCEPT !.left = @ \ {t}, !.doomed = Expired(t, aged)]
        BY <2>4, <3>2 DEF ListExpired
      <4>2. /\ gc'.at = "expire" /\ gc'.protected = gc.protected /\ gc.at = "expire"
            /\ gc'.doomed \cap gc.protected = {}
        BY <3>0, <3>a, <4>1 DEF Expired
      <4> QED
        BY <1>4, <2>0, <3>0, <4>2 DEF PinnedProtected, Protected
    <3> QED
      BY <3>1, <3>2
  <2>5. ASSUME NEW t, NEW v, DeleteVersion(t, v) PROVE PinnedProtected'
    <3>0. pinned' = pinned
      BY <2>5, <2>a DEF DeleteVersion
    <3>1. /\ gc'.at = "expire" /\ gc'.protected = gc.protected /\ gc.at = "expire"
          /\ gc'.doomed \subseteq gc.doomed
      BY <2>5 DEF DeleteVersion, CatalogOk, GcShape, Idle
    <3> QED
      BY <1>4, <2>0, <3>0, <3>1 DEF PinnedProtected, Protected
  <2>6. CASE MarkReferenced \/ (\E x \in Chunks : Sweep(x)) \/ RemoveTemps
    <3>0. pinned' = pinned
      BY <2>6, <2>a DEF MarkReferenced, Sweep, RemoveTemps
    <3>1. gc'.at \in {"mark", "sweep"}
      <4>1. CASE MarkReferenced /\ gc.left # {}
        <5>1. PICK t \in gc.left :
                gc' = [gc EXCEPT !.left = @ \ {t},
                                 !.referenced = @ \cup {versions[t][v] : v \in DOMAIN versions[t]}]
          BY <4>1 DEF MarkReferenced
        <5> QED
          BY <4>1, <5>1 DEF MarkReferenced, CatalogOk, GcShape, Idle
      <4>2. CASE MarkReferenced /\ gc.left = {}
        BY <4>2 DEF MarkReferenced
      <4>3. CASE \E x \in Chunks : Sweep(x)
        BY <4>3 DEF Sweep, CatalogOk, GcShape, Idle
      <4>4. CASE RemoveTemps
        BY <1>4, <4>4 DEF RemoveTemps
      <4> QED
        BY <2>6, <4>1, <4>2, <4>3, <4>4
    <3> QED
      BY <1>4, <2>0, <3>0, <3>1 DEF PinnedProtected
  <2> QED
    BY <1>4, <2>1, <2>2, <2>3, <2>4, <2>5, <2>6 DEF CollectStep
<1> QED
  BY <1>1, <1>2, <1>3, <1>4, HistoryStep DEF Next, Collect, Crash, WriterFails

\* What has been pinned has its version.
LEMMA HeldStep ==
  ASSUME Typed, CatalogOk, PinnedProtected, HeldVersionsStand, [Next]_vars
  PROVE  HeldVersionsStand'
<1>1. ASSUME NEW r \in pinned', r \in Standing' PROVE Stands(r)'
  BY <1>1 DEF Standing
<1>2. ASSUME NEW r \in pinned', r \in pinned PROVE Stands(r)'
  <2>1. <<r[3], r[4]>> \in Existing
    BY <1>2 DEF HeldVersionsStand, Stands
  <2>2. gc.at = "expire" => <<r[3], r[4]>> \notin gc.doomed
    BY <1>2 DEF PinnedProtected, Protected
  <2> QED
    BY <2>1, <2>2, ExistingKept DEF Stands
<1>3. pinned' \subseteq Standing' \cup pinned
  BY HistoryStep DEF Remember, vars
<1> QED
  BY <1>1, <1>2, <1>3 DEF HeldVersionsStand

-----------------------------------------------------------------------------
\* The mark begins where expiry ends, and the sweep after the mark.
LEMMA MarkFollows ==
  ASSUME CatalogOk, [Next]_vars, gc'.at \in {"mark", "sweep"}
  PROVE  gc.at \in {"expire", "mark", "sweep"}
<1>1. ASSUME ProtectLatest, gc.at = "latest" PROVE gc'.at \in {"latest", "branches", "idle"}
  <2>1. CASE gc.left = {}
    BY <1>1, <2>1 DEF ProtectLatest
  <2>2. CASE gc.left # {}
    <3>1. PICK t \in gc.left :
            \/ gc' = Idle
            \/ gc' = [gc EXCEPT !.left = @ \ {t}, !.protected = @ \cup {<<t, latest[t]>>}]
      BY <1>1, <2>2 DEF ProtectLatest
    <3>2. CASE gc' = Idle
      BY <3>2 DEF Idle
    <3>3. CASE gc' # Idle
      BY <1>1, <3>1, <3>3 DEF CatalogOk, GcShape, Idle
    <3> QED
      BY <3>2, <3>3
  <2> QED
    BY <2>1, <2>2
<1>2. ASSUME ProtectBranches, gc.at = "branches" PROVE gc'.at \in {"branches", "expire", "idle"}
  <2>1. CASE gc.left = {}
    BY <1>2, <2>1 DEF ProtectBranches
  <2>2. CASE gc.left # {}
    <3>1. PICK b \in gc.left :
            \/ gc' = Idle
            \/ gc' = [gc EXCEPT !.left = @ \ {b},
                        !.protected = @ \cup Entries(branches[b].head)]
      BY <1>2, <2>2 DEF ProtectBranches
    <3>2. CASE gc' = Idle
      BY <3>2 DEF Idle
    <3>3. CASE gc' # Idle
      BY <1>2, <3>1, <3>3 DEF CatalogOk, GcShape, Idle
    <3> QED
      BY <3>2, <3>3
  <2> QED
    BY <2>1, <2>2
<1>3. CASE gc' = gc \/ gc' = Idle
  BY <1>3 DEF Idle
<1>4. CASE Collect
  <2>1. ~StartCollecting
    BY DEF StartCollecting
  <2>2. ~ProtectLatest
    BY <1>1 DEF ProtectLatest
  <2>3. ~ProtectBranches
    BY <1>2 DEF ProtectBranches
  <2> QED
    BY <1>4, <2>1, <2>2, <2>3 DEF Collect, CollectStep, ListExpired, DeleteVersion, MarkReferenced,
       Sweep, RemoveTemps
<1> QED
  BY <1>3, <1>4, GcMoves

\* The versions found complete before the mark stay, with their chunks.
LEMMA SoundStep ==
  ASSUME Typed, CatalogOk, SoundMarked, CompleteVersionsStay, [Next]_vars
  PROVE  SoundMarked' /\ CompleteVersionsStay'
<1>1. CASE UNCHANGED vars
  BY <1>1 DEF vars, SoundMarked, CompleteVersionsStay, Complete, Existing
<1>2. CASE Remember /\ gc'.at \notin {"mark", "sweep"}
  BY <1>2 DEF Remember, SoundMarked, CompleteVersionsStay
<1>3. CASE Remember /\ gc.at = "expire" /\ gc'.at \in {"mark", "sweep"}
  <2>1. Collect /\ ListExpired /\ gc.left = {}
    <3>1. Collect
      BY <1>3, GcMoves DEF Idle
    <3>2. ASSUME NEW t, NEW v, DeleteVersion(t, v) PROVE FALSE
      BY <1>3, <3>2 DEF DeleteVersion, CatalogOk, GcShape, Idle
    <3>3. ListExpired
      BY <1>3, <3>1, <3>2 DEF Collect, CollectStep, StartCollecting, ProtectLatest, ProtectBranches,
         MarkReferenced, Sweep, RemoveTemps, Idle
    <3>4. CASE gc.left # {}
      <4>1. PICK t \in gc.left :
              \E aged \in SUBSET (IF ByAge THEN gc.old ELSE {}) :
                gc' = [gc EXCEPT !.left = @ \ {t}, !.doomed = Expired(t, aged)]
        BY <3>3, <3>4 DEF ListExpired
      <4> QED
        BY <1>3, <4>1 DEF CatalogOk, GcShape, Idle
    <3> QED
      BY <3>1, <3>3, <3>4
  <2>2. gc'.at = "mark" /\ gc'.left = Listed /\ UNCHANGED files
    BY <2>1 DEF ListExpired
  <2>3. Existing' = Existing /\ sound' = {e \in Existing : Complete(e[1], e[2])'}
    BY <1>3, <2>2 DEF Remember, Existing, files, catalog, Complete
  <2>4. \A e \in Existing : e[1] \in Listed
    BY DEF Existing, Listed, CatalogOk, Numbered
  <2> QED
    BY <2>2, <2>3, <2>4 DEF SoundMarked, CompleteVersionsStay
<1>4. CASE Remember /\ gc.at \in {"mark", "sweep"} /\ gc'.at \in {"mark", "sweep"}
  <2>1. sound' \subseteq sound \cap Existing'
    BY <1>4 DEF Remember
  <2>2. \A e \in sound' : /\ e \in sound /\ e \in Existing
                          /\ versions'[e[1]][e[2]] = versions[e[1]][e[2]]
    BY <1>4, <2>1 DEF Remember, SoundMarked
  <2>3. CASE gc' = gc /\ chunks \subseteq chunks'
    BY <1>4, <2>1, <2>2, <2>3 DEF SoundMarked, CompleteVersionsStay, Complete
  <2>4. CASE MarkReferenced /\ gc.left = {}
    <3>1. gc.at = "mark" /\ gc'.at = "sweep" /\ gc'.doomed = chunks \ gc.referenced /\ chunks' = chunks
      BY <2>4 DEF MarkReferenced, files
    <3> QED
      BY <2>1, <2>2, <2>4, <3>1 DEF SoundMarked, CompleteVersionsStay, Complete
  <2>5. CASE MarkReferenced /\ gc.left # {}
    <3>1. PICK t \in gc.left :
            gc' = [gc EXCEPT !.left = @ \ {t},
                             !.referenced = @ \cup {versions[t][v] : v \in DOMAIN versions[t]}]
      BY <2>5 DEF MarkReferenced
    <3>2. gc.at = "mark" /\ chunks' = chunks
      BY <2>5 DEF MarkReferenced, files
    <3>3. /\ gc'.at = "mark" /\ gc'.left = gc.left \ {t}
          /\ gc'.referenced = gc.referenced \cup {versions[t][v] : v \in DOMAIN versions[t]}
      BY <3>1, <3>2 DEF CatalogOk, GcShape, Idle
    <3>4. \A e \in Existing : e[1] = t => versions[e[1]][e[2]] \in gc'.referenced
      BY <3>3 DEF Existing
    <3> QED
      BY <2>1, <2>2, <3>2, <3>3, <3>4 DEF SoundMarked, CompleteVersionsStay, Complete
  <2>6. ASSUME NEW x \in Chunks, Sweep(x) PROVE SoundMarked' /\ CompleteVersionsStay'
    <3>1. /\ gc.at = "sweep" /\ x \in gc.doomed /\ chunks' = chunks \ {x}
          /\ gc' = [gc EXCEPT !.doomed = @ \ {x}]
      BY <2>6 DEF Sweep
    <3>2. gc'.at = "sweep" /\ gc'.doomed = gc.doomed \ {x}
      BY <3>1 DEF CatalogOk, GcShape, Idle
    <3> QED
      BY <2>1, <2>2, <3>1, <3>2 DEF SoundMarked, CompleteVersionsStay, Complete
  <2>7. CASE Collect
    <3>1. ~StartCollecting /\ ~RemoveTemps
      BY <1>4 DEF StartCollecting, RemoveTemps, Idle
    <3>2. ~ProtectLatest /\ ~ProtectBranches /\ ~ListExpired
      BY <1>4 DEF ProtectLatest, ProtectBranches, ListExpired
    <3>3. \A t, v : ~DeleteVersion(t, v)
      BY <1>4 DEF DeleteVersion
    <3> QED
      BY <2>4, <2>5, <2>6, <2>7, <3>1, <3>2, <3>3 DEF Collect, CollectStep
  <2>8. ~Crash /\ \A w \in Writers : WriterFails(w) => chunks' = chunks /\ gc' = gc
    BY <1>4 DEF Crash, Idle, WriterFails, files
  <2>9. ASSUME NEW w \in Writers, Write(w), UNCHANGED gc PROVE chunks \subseteq chunks'
    BY <2>9 DEF Write, BeginPut, WriteTemp, RenameTemp, CreateDirectory, WriteVersion, MoveLatest,
       files
  <2>10. Call => chunks' = chunks
    BY DEF Call, files
  <2> QED
    BY <1>1, <2>3, <2>7, <2>8, <2>9, <2>10 DEF Next
<1> QED
  BY <1>1, <1>2, <1>3, <1>4, HistoryStep, MarkFollows

-----------------------------------------------------------------------------
\* Merging keeps to the tables of the two heads.
LEMMA MergedHead ==
  ASSUME NEW head, NEW src, NEW base, IsHead(head, Tables), IsHead(src, Tables)
  PROVE  /\ IsHead(ApplyForward(head, src), Tables)
         /\ IsHead(ApplyDiff(head, src, DiffWithBase(src, head, base)), Tables)
<1>1. IsHead(ApplyForward(head, src), Tables)
  BY DEF IsHead, ApplyForward
<1>2. ASSUME NEW diff, diff.sourceOnly \cup diff.addedInSource \subseteq DOMAIN src
      PROVE  IsHead(ApplyDiff(head, src, diff), Tables)
  BY <1>2 DEF IsHead, ApplyDiff
<1>3. LET diff == DiffWithBase(src, head, base)
      IN  diff.sourceOnly \cup diff.addedInSource \subseteq DOMAIN src
  BY DEF DiffWithBase, Differ
<1> QED
  BY <1>1, <1>2, <1>3

\* A saved branch.
LEMMA SavedBranch ==
  ASSUME NEW b \in Branches, NEW branch, IsBranch(branch), SaveBranch(b, branch), TypeOK
  PROVE  /\ DOMAIN branches' \subseteq Branches /\ default' \in DOMAIN branches'
         /\ \A a \in DOMAIN branches' : IsBranch(branches'[a])
BY DEF SaveBranch, TypeOK

\* The calls of the BranchManager keep the branches well formed.
LEMMA CallStep ==
  ASSUME Typed, Call
  PROVE  /\ DOMAIN branches' \subseteq Branches /\ default' \in DOMAIN branches'
         /\ \A a \in DOMAIN branches' : IsBranch(branches'[a])
<1>0. TypeOK
  BY DEF Typed
<1>1. ASSUME NEW a \in Branches, NEW b \in Branches, CreateBranch(a, b)
      PROVE  \E branch : IsBranch(branch) /\ SaveBranch(a, branch)
  BY <1>0, <1>1 DEF CreateBranch, Branch, IsBranch, TypeOK
<1>2. ASSUME NEW a \in Branches, NEW b \in Branches, MergeFastForward(a, b)
      PROVE  \E branch : IsBranch(branch) /\ SaveBranch(b, branch)
  <2>1. IsBranch(branches[a]) /\ IsBranch(branches[b])
    BY <1>0, <1>2 DEF MergeFastForward, TypeOK
  <2> DEFINE merged == IF branches[a].fork = NoBase
                       THEN ApplyForward(branches[b].head, branches[a].head)
                       ELSE ApplyDiff(branches[b].head, branches[a].head,
                              DiffWithBase(branches[a].head, branches[b].head, branches[a].fork))
  <2>2. IsHead(merged, Tables)
    BY <2>1, MergedHead DEF IsBranch
  <2>3. SaveBranch(b, [branches[b] EXCEPT !.head = merged])
    BY <1>2 DEF MergeFastForward
  <2>4. IsBranch([branches[b] EXCEPT !.head = merged])
    BY <2>1, <2>2 DEF IsBranch
  <2> QED
    BY <2>3, <2>4
<1>3. ASSUME NEW b \in Branches, NEW t \in Tables, NEW v, UpdateHead(b, t, v)
      PROVE  \E branch : IsBranch(branch) /\ SaveBranch(b, branch)
  <2>1. IsHead(SetVersion(branches[b].head, t, v), Tables)
    BY <1>0, <1>3 DEF UpdateHead, TypeOK, IsBranch, IsHead, SetVersion
  <2>2. IsBranch([branches[b] EXCEPT !.head = SetVersion(@, t, v)])
    BY <1>0, <1>3, <2>1 DEF UpdateHead, TypeOK, IsBranch
  <2> QED
    BY <1>3, <2>2 DEF UpdateHead
<1>4. CASE \E b \in Branches : DeleteBranch(b) \/ SetDefault(b)
  BY <1>0, <1>4 DEF DeleteBranch, SetDefault, TypeOK
<1>5. CASE BeginTransaction \/ EndTransaction
  BY <1>0, <1>5 DEF BeginTransaction, EndTransaction, branchFiles, TypeOK
<1> QED
  BY <1>0, <1>1, <1>2, <1>3, <1>4, <1>5, SavedBranch DEF Call

\* Types are kept.
LEMMA TypeStep ==
  ASSUME Typed, Numbered, [Next]_vars
  PROVE  Typed'
<1>0. TypeOK /\ Carried
  BY DEF Typed
<1>1. ASSUME NEW w \in Writers, Write(w), UNCHANGED crashes PROVE Typed'
  <2>0. UNCHANGED <<branches, default, crashes>>
    BY <1>1 DEF Write, branchFiles
  <2>1. ASSUME NEW x \in Chunks, BeginPut(w, x) PROVE Typed'
    BY <1>0, <2>0, <2>1, RepositoryAssumption
       DEF Typed, TypeOK, Carried, Putting, BeginPut, Goto, files, catalog, IsBranch
  <2>2. CASE WriteTemp(w)
    <3>1. work[w] \in [at : {"write"}, chunk : Chunks]
      BY <1>0, <2>2 DEF Carried, WriteTemp, Idle, Putting, Committing
    <3> QED
      BY <1>0, <2>0, <2>2, <3>1 DEF Typed, TypeOK, Carried, Putting, WriteTemp, Goto, catalog,
         IsBranch
  <2>3. CASE RenameTemp(w)
    <3>1. work[w] \in [at : {"rename"}, chunk : Chunks]
      BY <1>0, <2>3 DEF Carried, RenameTemp, Idle, Putting, Committing
    <3>2. chunks' \subseteq Chunks /\ temps' \subseteq Writers
      BY <1>0, <2>3, <3>1 DEF TypeOK, RenameTemp
    <3>3. Carried'
      BY <1>0, <2>3, <3>1 DEF Carried, Putting, RenameTemp, Goto
    <3> QED
      BY <1>0, <2>0, <2>3, <3>2, <3>3 DEF Typed, TypeOK, RenameTemp, catalog, IsBranch
  <2>4. ASSUME NEW t \in Tables, CreateDirectory(w, t) PROVE Typed'
    <3>1. work[w] \in [at : {"commit"}, chunk : Chunks]
      BY <1>0, <2>4 DEF Carried, CreateDirectory, Idle, Putting, Committing
    <3>2. Carried'
      BY <1>0, <2>4, <3>1 DEF Carried, Committing, CreateDirectory, Goto
    <3> QED
      BY <1>0, <2>0, <2>4, <3>2 DEF Typed, TypeOK, CreateDirectory, IsBranch
  <2>5. CASE WriteVersion(w)
    <3>1. work[w] \in Committing
      BY <1>0, <2>5 DEF Carried, WriteVersion, Idle, Putting
    <3>2. Carried'
      BY <1>0, <2>5, <3>1 DEF Carried, Committing, WriteVersion, Goto
    <3>3. work[w].table \in Tables /\ work[w].chunk \in Chunks /\ latest[work[w].table] \in Nat
      BY <3>1 DEF Committing, Numbered
    <3>4. \A u \in Tables : /\ DOMAIN versions'[u] \subseteq Nat \ {0}
                            /\ \A v \in DOMAIN versions'[u] : versions'[u][v] \in Chunks
      BY <1>0, <2>5, <3>3 DEF TypeOK, Numbered, WriteVersion
    <3> QED
      BY <1>0, <2>0, <2>5, <3>2, <3>4 DEF Typed, TypeOK, WriteVersion, IsBranch
  <2>6. CASE MoveLatest(w)
    BY <1>0, <2>0, <2>6 DEF Typed, TypeOK, Carried, MoveLatest, Goto, IsBranch
  <2> QED
    BY <1>1, <2>1, <2>2, <2>3, <2>4, <2>5, <2>6 DEF Write
<1>2. CASE Call /\ UNCHANGED crashes
  <2>1. /\ UNCHANGED <<dirs, versions, chunks, temps, work>>
        /\ calls < MaxCalls /\ calls' = calls + 1
    BY <1>2 DEF Call, files, catalog
  <2>2. calls' <= MaxCalls
    BY <1>0, <2>1, RepositoryAssumption DEF TypeOK
  <2> QED
    BY <1>0, <1>2, <2>1, <2>2, CallStep DEF Typed, TypeOK, Carried
<1>3. CASE Collect
  <2>0. UNCHANGED <<branches, default, work, calls, crashes>>
    BY <1>3 DEF Collect, CollectStep, branchFiles
  <2>1. ASSUME NEW t \in Tables, NEW v, DeleteVersion(t, v) PROVE Typed'
    <3>1. \A u \in Tables : /\ DOMAIN versions'[u] \subseteq Nat \ {0}
                            /\ \A z \in DOMAIN versions'[u] : versions'[u][z] \in Chunks
      BY <1>0, <2>1 DEF TypeOK, Numbered, DeleteVersion
    <3> QED
      BY <1>0, <2>0, <2>1, <3>1 DEF Typed, TypeOK, Carried, DeleteVersion, IsBranch
  <2>2. ASSUME UNCHANGED <<dirs, versions>>, chunks' \subseteq chunks, temps' \subseteq temps
        PROVE  Typed'
    BY <1>0, <2>0, <2>2 DEF Typed, TypeOK, Carried, IsBranch
  <2> QED
    BY <1>3, <2>1, <2>2 DEF Collect, CollectStep, StartCollecting, ProtectLatest, ProtectBranches,
       ListExpired, MarkReferenced, Sweep, RemoveTemps, files, catalog
<1>4. CASE Crash \/ \E w \in Writers : WriterFails(w)
  BY <1>0, <1>4, RepositoryAssumption
     DEF Typed, TypeOK, Carried, Crash, WriterFails, Goto, files, catalog, branchFiles, IsBranch
<1>5. CASE UNCHANGED vars
  BY <1>0, <1>5 DEF Typed, TypeOK, Carried, vars, IsBranch
<1> QED
  BY <1>1, <1>2, <1>3, <1>4, <1>5 DEF Next

-----------------------------------------------------------------------------
\* A writer that commits has its chunk in the store.
Stored == \A w \in Writers : work[w].at \in {"commit", "file"} => work[w].chunk \in chunks

\* A collector that nobody disturbs: what it pinned is all there is, and what
\* it marked is every version.
AloneInv ==
  ~overlapped =>
    /\ \A r \in References : Stands(r)
    /\ \A e \in Existing : Complete(e[1], e[2])
    /\ gc = Idle => Stored
    /\ gc # Idle => (\A w \in Writers : work[w] = Idle) /\ pinned = References
    /\ gc.at \in {"mark", "sweep"} => sound = Existing

\* The entries of a merged head are those of the heads it comes from.
LEMMA MergedEntries ==
  ASSUME NEW head, NEW src, NEW base
  PROVE  /\ Entries(ApplyForward(head, src)) \subseteq Entries(head) \cup Entries(src)
         /\ Entries(ApplyDiff(head, src, DiffWithBase(src, head, base)))
              \subseteq Entries(head) \cup Entries(src)
<1>1. Entries(ApplyForward(head, src)) \subseteq Entries(head) \cup Entries(src)
  BY DEF Entries, ApplyForward
<1>2. ASSUME NEW diff, diff.sourceOnly \cup diff.addedInSource \subseteq DOMAIN src
      PROVE  Entries(ApplyDiff(head, src, diff)) \subseteq Entries(head) \cup Entries(src)
  BY <1>2 DEF Entries, ApplyDiff
<1>3. LET diff == DiffWithBase(src, head, base)
      IN  diff.sourceOnly \cup diff.addedInSource \subseteq DOMAIN src
  BY DEF DiffWithBase, Differ
<1> QED
  BY <1>1, <1>2, <1>3

\* The entries of the branch files.
BranchEntries == UNION {Entries(branches[b].head) : b \in DOMAIN branches}

\* What is referred to, table and version.
LEMMA AllStand ==
  (\A r \in References : Stands(r))
    <=> /\ \A t \in Committed : <<t, latest[t]>> \in Existing
        /\ Entries(snapshot) \subseteq Existing /\ BranchEntries \subseteq Existing
<1>1. ASSUME \A r \in References : Stands(r)
      PROVE  /\ \A t \in Committed : <<t, latest[t]>> \in Existing
             /\ Entries(snapshot) \subseteq Existing /\ BranchEntries \subseteq Existing
  <2>1. ASSUME NEW t \in Committed PROVE <<t, latest[t]>> \in Existing
    <3>1. <<"latest", t, t, latest[t]>> \in References
      BY DEF References
    <3> QED
      BY <1>1, <3>1 DEF Stands
  <2>2. ASSUME NEW e \in Entries(snapshot) PROVE e \in Existing
    <3>1. <<"snapshot", "", e[1], e[2]>> \in References
      BY DEF References
    <3>2. e = <<e[1], e[2]>>
      BY DEF Entries
    <3> QED
      BY <1>1, <3>1, <3>2 DEF Stands
  <2>3. ASSUME NEW e \in BranchEntries PROVE e \in Existing
    <3>1. PICK b \in DOMAIN branches : e \in Entries(branches[b].head)
      BY DEF BranchEntries
    <3>2. <<"branch", b, e[1], e[2]>> \in References
      BY <3>1 DEF References
    <3>3. e = <<e[1], e[2]>>
      BY <3>1 DEF Entries
    <3> QED
      BY <1>1, <3>2, <3>3 DEF Stands
  <2> QED
    BY <2>1, <2>2, <2>3
<1>2. ASSUME \A t \in Committed : <<t, latest[t]>> \in Existing,
             Entries(snapshot) \subseteq Existing, BranchEntries \subseteq Existing,
             NEW r \in References
      PROVE  Stands(r)
  BY <1>2, RefersTo DEF Stands, BranchEntries
<1> QED
  BY <1>1, <1>2

\* The same of the next state.
LEMMA AllStandLater ==
  ((/\ \A t \in Committed : <<t, latest[t]>> \in Existing
    /\ Entries(snapshot) \subseteq Existing /\ BranchEntries \subseteq Existing)
      => \A r \in References : Stands(r))'
<1>1. (/\ \A t \in Committed : <<t, latest[t]>> \in Existing
       /\ Entries(snapshot) \subseteq Existing /\ BranchEntries \subseteq Existing)
        => \A r \in References : Stands(r)
  BY AllStand
<1> QED
  BY <1>1, PTL

\* A call of the BranchManager or of a transaction refers to versions there are.
LEMMA CallRefers ==
  ASSUME Typed, Call, \A r \in References : Stands(r)
  PROVE  \A r \in References' : Stands(r)'
<1>0. /\ \A t \in Committed : <<t, latest[t]>> \in Existing
      /\ Entries(snapshot) \subseteq Existing /\ BranchEntries \subseteq Existing
  BY AllStand
<1>1. UNCHANGED <<versions, latest>> /\ Existing' = Existing /\ Committed' = Committed
  BY DEF Call, files, catalog, Existing, Committed
<1>2. ASSUME NEW b, NEW branch, SaveBranch(b, branch),
             Entries(branch.head) \subseteq Existing
      PROVE  Entries(snapshot)' \subseteq Existing /\ BranchEntries' \subseteq Existing
  <2>1. Entries(snapshot)' = Entries(snapshot)
    BY <1>2 DEF SaveBranch, Entries
  <2>2. ASSUME NEW a \in DOMAIN branches'
        PROVE  (Entries(branches[a].head))' \subseteq Existing
    <3>1. CASE a = b
      BY <1>2, <3>1 DEF SaveBranch, Entries
    <3>2. CASE a # b
      <4>1. a \in DOMAIN branches /\ branches'[a] = branches[a]
        BY <1>2, <2>2, <3>2 DEF SaveBranch
      <4>2. Entries(branches[a].head) \subseteq Existing
        BY <1>0, <4>1 DEF BranchEntries
      <4> QED
        BY <4>1, <4>2 DEF Entries
    <3> QED
      BY <3>1, <3>2
  <2> QED
    BY <1>0, <2>1, <2>2 DEF BranchEntries
<1>3. ASSUME NEW a \in Branches, NEW b \in Branches, CreateBranch(a, b)
      PROVE  Entries(snapshot)' \subseteq Existing /\ BranchEntries' \subseteq Existing
  <2>1. Entries(branches[b].head) \subseteq Existing
    BY <1>0, <1>3 DEF CreateBranch, BranchEntries
  <2> QED
    BY <1>2, <1>3, <2>1 DEF CreateBranch, Branch
<1>4. ASSUME NEW a \in Branches, NEW b \in Branches, MergeFastForward(a, b)
      PROVE  Entries(snapshot)' \subseteq Existing /\ BranchEntries' \subseteq Existing
  <2> DEFINE merged == IF branches[a].fork = NoBase
                       THEN ApplyForward(branches[b].head, branches[a].head)
                       ELSE ApplyDiff(branches[b].head, branches[a].head,
                              DiffWithBase(branches[a].head, branches[b].head, branches[a].fork))
             branch == [branches[b] EXCEPT !.head = merged]
  <2>1. Entries(merged) \subseteq Entries(branches[b].head) \cup Entries(branches[a].head)
    BY MergedEntries
  <2>2. Entries(branches[a].head) \subseteq Existing /\ Entries(branches[b].head) \subseteq Existing
    BY <1>0, <1>4 DEF MergeFastForward, BranchEntries
  <2>3. SaveBranch(b, branch)
    BY <1>4 DEF MergeFastForward
  <2>4. branch.head = merged
    BY <1>4 DEF MergeFastForward, Typed, TypeOK, IsBranch
  <2>5. Entries(branch.head) \subseteq Existing
    BY <2>1, <2>2, <2>4
  <2> QED
    BY <1>2, <2>3, <2>5
<1>5. ASSUME NEW b \in Branches, NEW t \in Tables, NEW v, UpdateHead(b, t, v)
      PROVE  Entries(snapshot)' \subseteq Existing /\ BranchEntries' \subseteq Existing
  <2> DEFINE branch == [branches[b] EXCEPT !.head = SetVersion(@, t, v)]
  <2>1. branch.head = SetVersion(branches[b].head, t, v)
    BY <1>5 DEF UpdateHead, Typed, TypeOK
  <2>2. Entries(branches[b].head) \subseteq Existing
    BY <1>0, <1>5 DEF UpdateHead, BranchEntries
  <2>3. <<t, v>> \in Existing
    BY <1>5 DEF UpdateHead, Existing
  <2>4. Entries(branch.head) \subseteq Entries(branches[b].head) \cup {<<t, v>>}
    BY <2>1 DEF Entries, SetVersion
  <2>5. Entries(branch.head) \subseteq Existing
    BY <2>2, <2>3, <2>4
  <2> QED
    BY <1>2, <1>5, <2>5 DEF UpdateHead
<1>6. ASSUME NEW b \in Branches, DeleteBranch(b) \/ SetDefault(b)
      PROVE  Entries(snapshot)' \subseteq Existing /\ BranchEntries' \subseteq Existing
  BY <1>0, <1>6 DEF DeleteBranch, SetDefault, BranchEntries, Entries
<1>7. ASSUME BeginTransaction \/ EndTransaction
      PROVE  Entries(snapshot)' \subseteq Existing /\ BranchEntries' \subseteq Existing
  BY <1>0, <1>7 DEF BeginTransaction, EndTransaction, NoSnapshot, NoVersions, branchFiles,
     BranchEntries, Entries
<1>8. Entries(snapshot)' \subseteq Existing' /\ BranchEntries' \subseteq Existing'
  BY <1>1, <1>3, <1>4, <1>5, <1>6, <1>7 DEF Call
<1> QED
  BY <1>0, <1>1, <1>8, AllStandLater

\* A writer refers to the version it commits, and takes none away.
LEMMA WriteRefers ==
  ASSUME Typed, CatalogOk, CatalogOk', NEW w \in Writers, Write(w), \A r \in References : Stands(r)
  PROVE  \A r \in References' : Stands(r)'
<1>0. Entries(snapshot) \subseteq Existing /\ BranchEntries \subseteq Existing
  BY AllStand
<1>1. Entries(snapshot)' = Entries(snapshot) /\ BranchEntries' = BranchEntries
  BY DEF Write, branchFiles, Entries, BranchEntries
<1>2. Existing \subseteq Existing'
  <2>1. CASE WriteVersion(w)
    BY <2>1 DEF WriteVersion, CatalogOk, Numbered, Existing
  <2>2. CASE versions' = versions
    BY <2>2 DEF Existing
  <2> QED
    BY <2>1, <2>2 DEF Write, BeginPut, WriteTemp, RenameTemp, CreateDirectory, MoveLatest,
       files, catalog
<1>3. \A t \in Committed' : <<t, latest'[t]>> \in Existing'
  BY DEF CatalogOk, LatestNeverDeleted, Committed, Existing
<1> QED
  BY <1>0, <1>1, <1>2, <1>3, AllStandLater

\* A writer whose chunk is in the store leaves every version complete.
LEMMA WriteCompletes ==
  ASSUME Typed, CatalogOk, NEW w \in Writers, Write(w),
         \A e \in Existing : Complete(e[1], e[2]), Stored
  PROVE  (\A e \in Existing' : Complete(e[1], e[2])') /\ Stored'
<1>0. Carried
  BY DEF Typed
<1>1. ASSUME NEW x \in Chunks, BeginPut(w, x) PROVE UNCHANGED <<versions, chunks>> /\ Stored'
  <2>1. UNCHANGED <<versions, chunks>>
    BY <1>1 DEF BeginPut, files, catalog
  <2>2. /\ work'[w].at = "commit" => work'[w].chunk \in chunks
        /\ work'[w].at # "file" /\ \A z \in Writers \ {w} : work'[z] = work[z]
    BY <1>0, <1>1 DEF BeginPut, Goto, Carried
  <2> QED
    BY <2>1, <2>2 DEF Stored
<1>2. ASSUME WriteTemp(w) PROVE UNCHANGED <<versions, chunks>> /\ Stored'
  <2>1. work[w] \in [at : {"write"}, chunk : Chunks]
    BY <1>0, <1>2 DEF Carried, WriteTemp, Idle, Putting, Committing
  <2> QED
    BY <1>0, <1>2, <2>1 DEF WriteTemp, Goto, Carried, Stored, catalog
<1>3. ASSUME RenameTemp(w) PROVE versions' = versions /\ chunks \subseteq chunks' /\ Stored'
  <2>1. work[w] \in [at : {"rename"}, chunk : Chunks]
    BY <1>0, <1>3 DEF Carried, RenameTemp, Idle, Putting, Committing
  <2>2. chunks \subseteq chunks' /\ versions' = versions
    BY <1>3 DEF RenameTemp, catalog
  <2>3. /\ work'[w].at = "commit" => work'[w].chunk \in chunks'
        /\ work'[w].at # "file" /\ \A z \in Writers \ {w} : work'[z] = work[z]
    BY <1>0, <1>3, <2>1 DEF RenameTemp, Goto, Carried, Idle
  <2> QED
    BY <2>2, <2>3 DEF Stored
<1>4. ASSUME NEW t \in Tables, CreateDirectory(w, t)
      PROVE  UNCHANGED <<versions, chunks>> /\ Stored'
  BY <1>0, <1>4 DEF CreateDirectory, Goto, Carried, Stored
<1>5. ASSUME WriteVersion(w)
      PROVE  chunks' = chunks /\ (\A e \in Existing' : Complete(e[1], e[2])') /\ Stored'
  <2>0. work[w] \in Committing
    BY <1>0, <1>5 DEF Carried, WriteVersion, Idle, Putting
  <2> DEFINE t == work[w].table
  <2>1. work[w].chunk \in chunks /\ chunks' = chunks /\ t \in Tables
    BY <1>5, <2>0 DEF WriteVersion, Stored, Committing
  <2>2. ASSUME NEW u \in Tables, NEW v \in DOMAIN versions'[u]
        PROVE  versions'[u][v] \in chunks
    <3>1. CASE u = t /\ v = latest[t] + 1
      BY <1>5, <2>1, <3>1 DEF WriteVersion, CatalogOk, Numbered
    <3>2. CASE ~(u = t /\ v = latest[t] + 1)
      <4>1. v \in DOMAIN versions[u] /\ versions'[u][v] = versions[u][v]
        BY <1>5, <2>1, <2>2, <3>2 DEF WriteVersion, CatalogOk, Numbered
      <4>2. <<u, v>> \in Existing
        BY <4>1 DEF Existing
      <4> QED
        BY <4>1, <4>2 DEF Complete
    <3> QED
      BY <3>1, <3>2
  <2>3. Stored'
    BY <1>0, <1>5, <2>0, <2>1 DEF WriteVersion, Goto, Carried, Committing, Stored
  <2> QED
    BY <2>1, <2>2, <2>3 DEF Existing, Complete
<1>6. ASSUME MoveLatest(w) PROVE UNCHANGED <<versions, chunks>> /\ Stored'
  BY <1>0, <1>6 DEF MoveLatest, Goto, Carried, Idle, Stored
<1>7. ASSUME versions' = versions, chunks \subseteq chunks'
      PROVE  \A e \in Existing' : Complete(e[1], e[2])'
  BY <1>7 DEF Existing, Complete
<1> QED
  BY <1>1, <1>2, <1>3, <1>4, <1>5, <1>6, <1>7 DEF Write

\* Every step keeps what an undisturbed collector relies on.
LEMMA AloneStep ==
  ASSUME CollectorInv, CollectorInv', AloneInv, [Next]_vars
  PROVE  AloneInv'
<1>0. SUFFICES ASSUME ~overlapped', Remember, Next PROVE AloneInv'
  <2>1. CASE UNCHANGED vars
    <3>1. References' = References /\ Existing' = Existing
      BY <2>1 DEF vars, References, Committed, Entries, Existing
    <3> QED
      BY <2>1, <3>1 DEF vars, AloneInv, Stands, Complete, Stored
  <2> QED
    BY <1>0, <2>1, NextRemembers DEF AloneInv
<1>a. ~overlapped /\ (gc # Idle => gc' # gc)
  BY <1>0 DEF Remember
<1>b. /\ \A r \in References : Stands(r)
      /\ \A e \in Existing : Complete(e[1], e[2])
      /\ gc = Idle => Stored
      /\ gc # Idle => (\A w \in Writers : work[w] = Idle) /\ pinned = References
      /\ gc.at \in {"mark", "sweep"} => sound = Existing
  BY <1>a DEF AloneInv
<1>c. Carried /\ CatalogOk /\ Typed /\ CatalogOk'
  BY DEF CollectorInv, Typed
<1>1. CASE Call /\ gc' = gc
  <2>1. gc = Idle /\ UNCHANGED <<versions, chunks, work>>
    BY <1>a, <1>1 DEF Call, files, catalog
  <2>2. \A r \in References' : Stands(r)'
    BY <1>1, <1>b, <1>c, CallRefers
  <2> QED
    BY <1>1, <1>b, <2>1, <2>2 DEF AloneInv, Existing, Complete, Stored, Idle
<1>2. ASSUME NEW w \in Writers, Write(w), gc' = gc PROVE AloneInv'
  <2>1. gc = Idle
    BY <1>a, <1>2
  <2>2. \A r \in References' : Stands(r)'
    BY <1>2, <1>b, <1>c, WriteRefers
  <2>3. (\A e \in Existing' : Complete(e[1], e[2])') /\ Stored'
    BY <1>2, <1>b, <1>c, <2>1, WriteCompletes
  <2> QED
    BY <1>2, <2>1, <2>2, <2>3 DEF AloneInv, Idle
<1>3. CASE Crash \/ \E w \in Writers : WriterFails(w)
  <2>1. /\ Existing' = Existing /\ Committed' = Committed
        /\ UNCHANGED <<versions, latest, chunks, branches>>
    BY <1>3 DEF Crash, WriterFails, files, catalog, branchFiles, Existing, Committed
  <2>2. Entries(snapshot)' \subseteq Entries(snapshot) /\ BranchEntries' = BranchEntries
    BY <1>3, <2>1 DEF Crash, WriterFails, NoSnapshot, NoVersions, Entries, BranchEntries
  <2>3. \A r \in References' : Stands(r)'
    BY <1>b, <2>1, <2>2, AllStand, AllStandLater
  <2>4. \A e \in Existing' : Complete(e[1], e[2])'
    BY <1>b, <2>1 DEF Complete
  <2>5. gc' = Idle /\ Stored'
    <3>1. CASE Crash
      BY <3>1 DEF Crash, Stored, Idle
    <3>2. ASSUME NEW w \in Writers, WriterFails(w) PROVE gc' = Idle /\ Stored'
      BY <1>a, <1>b, <1>c, <3>2 DEF WriterFails, Goto, Stored, Carried, Typed, Idle, files
    <3> QED
      BY <1>3, <3>1, <3>2
  <2> QED
    BY <2>3, <2>4, <2>5 DEF AloneInv, Idle
<1>4. CASE Collect /\ StartCollecting
  <2>1. gc = Idle /\ gc'.at = "latest" /\ gc' # Idle /\ UNCHANGED files /\ work' = work
    BY <1>4 DEF StartCollecting, Collect, CollectStep, Idle
  <2>2. References' = References /\ Existing' = Existing
    BY <1>4, <2>1, ReferencesStay DEF Collect, Existing, files, catalog
  <2>3. \A w \in Writers : work[w] = Idle
    BY <1>0, <2>1 DEF Remember
  <2>4. pinned' = References'
    BY <1>0, <1>b, <2>1, <2>2 DEF Remember, Standing, Stands
  <2> QED
    BY <1>b, <2>1, <2>2, <2>3, <2>4 DEF AloneInv, Stands, Complete, files, catalog
<1>5. CASE Collect /\ ~StartCollecting
  <2>1. gc # Idle /\ work' = work
    <3>1. gc.at \in {"latest", "branches", "expire", "mark", "sweep"}
      BY <1>5 DEF Collect, CollectStep, ProtectLatest, ProtectBranches, ListExpired, DeleteVersion,
         MarkReferenced, Sweep, RemoveTemps
    <3> QED
      BY <1>5, <3>1 DEF Collect, CollectStep, Idle
  <2>2. References' = References /\ \A w \in Writers : work'[w] = Idle
    BY <1>5, <1>b, <2>1, ReferencesStay DEF Collect
  <2>3. gc' # Idle => pinned' = References'
    BY <1>0, <1>b, <2>1, <2>2 DEF Remember
  <2>4. gc' = Idle => UNCHANGED <<versions, chunks>>
    <3>1. ASSUME NEW t, NEW v, DeleteVersion(t, v) PROVE gc' # Idle
      BY <1>c, <3>1 DEF DeleteVersion, CatalogOk, GcShape, Idle
    <3>2. ASSUME NEW x, Sweep(x) PROVE gc' # Idle
      BY <1>c, <3>2 DEF Sweep, CatalogOk, GcShape, Idle
    <3> QED
      BY <1>5, <3>1, <3>2 DEF Collect, CollectStep, ProtectLatest, ProtectBranches, ListExpired,
         MarkReferenced, RemoveTemps, files, catalog
  <2>5. \A r \in References' : Stands(r)'
    <3>1. CASE gc' = Idle
      BY <1>b, <2>2, <2>4, <3>1 DEF Stands, Existing
    <3>2. CASE gc' # Idle
      BY <2>3, <3>2 DEF CollectorInv, HeldVersionsStand
    <3> QED
      BY <3>1, <3>2
  <2>6. gc'.at \in {"mark", "sweep"} => sound' = Existing'
    <3>1. SUFFICES ASSUME gc'.at \in {"mark", "sweep"} PROVE sound' = Existing'
      OBVIOUS
    <3>2. gc.at \in {"expire", "mark", "sweep"}
      BY <1>c, <3>1, MarkFollows
    <3>3. ASSUME NEW t, NEW v, DeleteVersion(t, v) PROVE FALSE
      BY <1>c, <3>1, <3>3 DEF DeleteVersion, CatalogOk, GcShape, Idle
    <3>4. versions' = versions /\ (gc.at = "expire" => chunks' = chunks)
      BY <1>5, <3>3 DEF Collect, CollectStep, ProtectLatest, ProtectBranches, ListExpired,
         MarkReferenced, Sweep, RemoveTemps, files, catalog
    <3>5. Existing' = Existing
      BY <3>4 DEF Existing
    <3>6. CASE gc.at = "expire"
      BY <1>0, <1>b, <3>1, <3>4, <3>5, <3>6 DEF Remember, Complete
    <3>7. CASE gc.at # "expire"
      BY <1>0, <1>b, <3>1, <3>2, <3>4, <3>5, <3>7 DEF Remember
    <3> QED
      BY <3>6, <3>7
  <2>7. \A e \in Existing' : Complete(e[1], e[2])'
    <3>1. CASE gc'.at \in {"mark", "sweep"}
      BY <2>6, <3>1 DEF CollectorInv, CompleteVersionsStay
    <3>2. CASE gc'.at \notin {"mark", "sweep"}
      <4>1. ASSUME NEW t, NEW v, DeleteVersion(t, v)
            PROVE  \A e \in Existing' : Complete(e[1], e[2])'
        BY <1>b, <1>c, <4>1 DEF DeleteVersion, CatalogOk, Numbered, Existing, Complete
      <4>2. ASSUME NEW x, Sweep(x) PROVE FALSE
        BY <1>c, <3>2, <4>2 DEF Sweep, CatalogOk, GcShape, Idle
      <4>3. CASE UNCHANGED <<versions, chunks>>
        BY <1>b, <4>3 DEF Existing, Complete
      <4> QED
        BY <1>5, <4>1, <4>2, <4>3 DEF Collect, CollectStep, ProtectLatest, ProtectBranches,
           ListExpired, MarkReferenced, RemoveTemps, files, catalog
    <3> QED
      BY <3>1, <3>2
  <2>8. gc' = Idle => Stored'
    BY <2>2 DEF Idle, Stored
  <2> QED
    BY <2>2, <2>3, <2>5, <2>6, <2>7, <2>8 DEF AloneInv
<1> QED
  BY <1>0, <1>1, <1>2, <1>3, <1>4, <1>5 DEF Next

-----------------------------------------------------------------------------
\* An empty repository, and a used one.
LEMMA CollectorInit == Init => CollectorInv
<1> SUFFICES ASSUME Init PROVE CollectorInv
  OBVIOUS
<1>1. CatalogOk
  BY DEF Init, Empty, Used, NoVersions, Idle, CatalogOk, GcShape, Numbered, Locking,
     LatestNeverDeleted, Committed
<1>2. PinnedProtected /\ HeldVersionsStand /\ SoundMarked /\ CompleteVersionsStay
  BY DEF Init, Idle, PinnedProtected, HeldVersionsStand, SoundMarked, CompleteVersionsStay
<1>3. Typed
  BY RepositoryAssumption DEF Init, Empty, Used, NoVersions, Branch, IsBranch, IsHead, Typed, TypeOK,
     Carried
<1> QED
  BY <1>1, <1>2, <1>3 DEF CollectorInv

\* Every step preserves the invariant.
LEMMA CollectorStep == CollectorInv /\ [Next]_vars => CollectorInv'
BY TypeStep, CatalogStep, PinnedStep, HeldStep, SoundStep DEF CollectorInv, CatalogOk

\* What a run of the collector has read covers whatever must stay.
THEOREM CollectorCorrect == Spec => []CollectorInv
BY CollectorInit, CollectorStep, PTL DEF Spec

\* The collector keeps its promises as long as nothing else moves while it runs,
\* crashes between any two of its steps included (gc.py:8-12).
THEOREM AloneIsSafe == Spec => []CollectorAloneIsSafe
<1>1. Init => AloneInv
  <2> SUFFICES ASSUME Init PROVE AloneInv
    OBVIOUS
  <2>1. Entries(snapshot) = {} /\ \A t \in Committed : <<t, latest[t]>> \in Existing
    BY DEF Init, Empty, Used, NoSnapshot, NoVersions, Entries, Committed, Existing
  <2>2. BranchEntries \subseteq Existing
    BY DEF Init, Empty, Used, NoVersions, Branch, BranchEntries, Entries, Existing
  <2>3. \A e \in Existing : Complete(e[1], e[2])
    BY DEF Init, Empty, Used, NoVersions, Existing, Complete
  <2>4. gc = Idle /\ Stored
    BY DEF Init, Idle, Stored
  <2>5. \A r \in References : Stands(r)
    BY <2>1, <2>2, AllStand
  <2> QED
    BY <2>3, <2>4, <2>5 DEF AloneInv, Idle
<1>2. CollectorInv /\ CollectorInv' /\ AloneInv /\ [Next]_vars => AloneInv'
  BY AloneStep
<1>3. AloneInv => CollectorAloneIsSafe
  BY DEF AloneInv, CollectorAloneIsSafe
<1> QED
  BY <1>1, <1>2, <1>3, CollectorCorrect, PTL DEF Spec

\* The versions in use are never deleted: the latest of each table, by the test
\* under the lock (delete_version), and what a head or a snapshot
\* has referred to ever since the run began, however others move on while the
\* collector reads (_collect_protected_versions).
THEOREM UsedVersionsStand == Spec => []VersionsStand
<1>1. CollectorInv => VersionsStand
  BY DEF CollectorInv, CatalogOk, Typed, VersionsStand
<1> QED
  BY <1>1, CollectorCorrect, PTL

\* The sweep takes no chunk of a version that was complete when it looked for
\* references (_phase2_sweep_chunks, garbage_collect).
THEOREM CompleteStay == Spec => []CompleteVersionsStay
<1>1. CollectorInv => CompleteVersionsStay
  BY DEF CollectorInv
<1> QED
  BY <1>1, CollectorCorrect, PTL
=============================================================================
