------------------------------ MODULE Repository ------------------------------
(***************************************************************************)
(* The files of a repository and who changes them without a common lock:   *)
(* writers that put chunks (rhizo_core/src/chunk_store/store.rs) and then  *)
(* commit a version of a table, a caller of the BranchManager              *)
(* (branch/manager.rs), and the garbage collector of python/rhizo/gc.py,   *)
(* which AutoGC runs again and again.  A commit creates the directory of   *)
(* its table, writes the version file and moves the pointer, and may end   *)
(* after any of these; what else FileCatalog.tla says of it is left out.   *)
(* A call of the BranchManager is one step, of one thread at a time.  A    *)
(* version has one chunk, and a chunk is its hash.  A crash ends every     *)
(* thread and leaves the files, an I/O error only that of a writer.        *)
(***************************************************************************)
EXTENDS BranchDiff

CONSTANTS
  Tables, Chunks, Branches,
  Main,             \* DEFAULT_BRANCH
  Writers,          \* threads that write
  MaxVersions,      \* GCPolicy.max_versions_per_table
  ByAge,            \* whether GCPolicy.max_age_seconds is set
  MaxCalls,         \* bound on puts, transactions and calls of the BranchManager
  MaxCrashes        \* bound on crashes and I/O errors

ASSUME RepositoryAssumption ==
  /\ Main \in Branches /\ MaxVersions \in Nat \ {0} /\ ByAge \in BOOLEAN
  /\ MaxCalls \in Nat /\ MaxCrashes \in Nat

VARIABLES
  dirs,         \* tables with a directory in the catalog
  versions,     \* table -> version -> chunk: the version files of the catalog
  latest,       \* table -> its latest pointer, 0 when there is none
  chunks,       \* chunks in the store
  temps,        \* writers whose put has a temporary file
  branches,     \* branch -> its head and fork point: the branch files
  default,      \* the default branch
  snapshot,     \* the read snapshot of the active transaction
  work,         \* what each writer is doing
  gc,           \* what the collector is doing
  calls, crashes,
  \* history
  overlapped,   \* another thread worked during a run of the collector
  pinned,       \* references held ever since the run began
  sound         \* versions complete when the sweep began, and not rewritten since

catalog == <<dirs, versions, latest>>
files == <<catalog, chunks, temps>>
branchFiles == <<branches, default>>
vars == <<dirs, versions, latest, chunks, temps, branches, default, snapshot, work, gc,
          calls, crashes, overlapped, pinned, sound>>

Idle == [at |-> "idle"]
NoVersions == [v \in {} |-> 0]      \* of a table, and a head without tables
Existing == UNION {{t} \X DOMAIN versions[t] : t \in Tables}
Listed == dirs                              \* list_tables lists directories
Committed == {t \in Tables : latest[t] > 0}  \* get_version finds a latest version

-----------------------------------------------------------------------------
(* Writers: ChunkStore::put, then the commit of a version.                  *)

Goto(w, record) == work' = [work EXCEPT ![w] = record]

\* put looks for the chunk, writes a temporary file, and renames it.
BeginPut(w, x) ==
  /\ work[w] = Idle /\ calls < MaxCalls
  /\ calls' = calls + 1
  /\ Goto(w, [at |-> IF x \in chunks THEN "commit" ELSE "write", chunk |-> x])
  /\ UNCHANGED files

WriteTemp(w) ==
  /\ work[w].at = "write"
  /\ temps' = temps \cup {w}
  /\ Goto(w, [work[w] EXCEPT !.at = "rename"])
  /\ UNCHANGED <<catalog, chunks, calls>>

\* The rename of a file that is gone is an error, unless the chunk is there.
RenameTemp(w) ==
  /\ work[w].at = "rename"
  /\ chunks' = IF w \in temps THEN chunks \cup {work[w].chunk} ELSE chunks
  /\ temps' = temps \ {w}
  /\ Goto(w, IF work[w].chunk \in chunks' THEN [work[w] EXCEPT !.at = "commit"] ELSE Idle)
  /\ UNCHANGED <<catalog, calls>>

\* commit_next_version: acquire_table_lock creates the directory of the table.
\* Whoever is about to move the pointer of a table has its lock.
CreateDirectory(w, t) ==
  /\ work[w].at = "commit"
  /\ dirs' = dirs \cup {t}
  /\ Goto(w, [at |-> "file", chunk |-> work[w].chunk, table |-> t])
  /\ UNCHANGED <<versions, latest, chunks, temps, calls>>

Locked(t) == \E w \in Writers : work[w].at = "pointer" /\ work[w].table = t

\* The file of the version after the latest, also when one was left there.
WriteVersion(w) ==
  /\ work[w].at = "file"
  /\ LET t == work[w].table
         next == latest[t] + 1
     IN /\ ~Locked(t)
        /\ versions' = [versions EXCEPT ![t] = [v \in DOMAIN @ \cup {next} |->
                          IF v = next THEN work[w].chunk ELSE @[v]]]
  /\ Goto(w, [work[w] EXCEPT !.at = "pointer"])
  /\ UNCHANGED <<dirs, latest, chunks, temps, calls>>

MoveLatest(w) ==
  /\ work[w].at = "pointer"
  /\ latest' = [latest EXCEPT ![work[w].table] = @ + 1]
  /\ Goto(w, Idle)
  /\ UNCHANGED <<dirs, versions, chunks, temps, calls>>

Write(w) ==
  /\ \/ \E x \in Chunks : BeginPut(w, x)
     \/ WriteTemp(w) \/ RenameTemp(w)
     \/ \E t \in Tables : CreateDirectory(w, t)
     \/ WriteVersion(w) \/ MoveLatest(w)
  /\ UNCHANGED <<branchFiles, snapshot>>

-----------------------------------------------------------------------------
(* Transactions and the BranchManager.                                      *)

NoSnapshot == NoVersions
BeginTransaction ==
  /\ snapshot = NoSnapshot
  /\ snapshot' = [t \in Committed |-> latest[t]]
  /\ UNCHANGED branchFiles
EndTransaction == snapshot # NoSnapshot /\ snapshot' = NoSnapshot /\ UNCHANGED branchFiles

Branch(head, fork) == [head |-> head, fork |-> fork]
SaveBranch(b, branch) ==
  /\ branches' = [a \in DOMAIN branches \cup {b} |-> IF a = b THEN branch ELSE branches[a]]
  /\ UNCHANGED <<default, snapshot>>

\* create: the new branch forks off the head it copies.
CreateBranch(b, from) ==
  /\ b \notin DOMAIN branches /\ from \in DOMAIN branches
  /\ SaveBranch(b, Branch(branches[from].head, branches[from].head))

\* update_head, to a version the caller knows of.
UpdateHead(b, t, v) ==
  /\ b \in DOMAIN branches /\ v \in DOMAIN versions[t] /\ v <= latest[t]
  /\ SaveBranch(b, [branches[b] EXCEPT !.head = SetVersion(@, t, v)])

\* merge_fast_forward: by three-way diff when the source has a fork point.
MergeFastForward(src, into) ==
  LET source == branches[src]
      target == branches[into]
      diff == DiffWithBase(source.head, target.head, source.fork)
  IN /\ src # into /\ {src, into} \subseteq DOMAIN branches
     /\ source.fork = NoBase \/ CanAutoMerge(diff)
     /\ SaveBranch(into, [target EXCEPT !.head =
          IF source.fork = NoBase THEN ApplyForward(@, source.head) ELSE ApplyDiff(@, source.head, diff)])

\* delete refuses the default branch.
DeleteBranch(b) ==
  /\ b \in DOMAIN branches /\ b # default
  /\ branches' = [a \in DOMAIN branches \ {b} |-> branches[a]]
  /\ UNCHANGED <<default, snapshot>>

SetDefault(b) ==
  /\ b \in DOMAIN branches /\ default' = b
  /\ UNCHANGED <<branches, snapshot>>

Call ==
  /\ calls < MaxCalls /\ calls' = calls + 1
  /\ \/ BeginTransaction \/ EndTransaction
     \/ \E a, b \in Branches : CreateBranch(a, b) \/ MergeFastForward(a, b)
     \/ \E b \in Branches :
          \/ \E t \in Tables, v \in 1..(MaxCalls + 1) : UpdateHead(b, t, v)
          \/ DeleteBranch(b) \/ SetDefault(b)
  /\ UNCHANGED <<files, work>>

-----------------------------------------------------------------------------
(* GarbageCollector.collect                                                 *)

Entries(head) == {<<t, head[t]>> : t \in DOMAIN head}

\* list_tables: the run has protected nothing so far.
StartCollecting ==
  /\ gc = Idle
  /\ gc' = [at |-> "latest", left |-> Listed, protected |-> {}]
  /\ UNCHANGED files

\* _collect_protected_versions: the latest version of one table after another,
\* the head of one branch after another, and what the active transaction
\* reads.  The branch that get returns, a PyBranch, has no fork_point, so the
\* test for one at gc.py:191 never holds.  A table without a latest version
\* and a branch that is gone raise: the run ends there.
ProtectLatest ==
  /\ gc.at = "latest"
  /\ IF gc.left = {}
     THEN gc' = [at |-> "branches", left |-> DOMAIN branches, protected |-> gc.protected]
     ELSE \E t \in gc.left :
            gc' = IF t \in Committed
                  THEN [gc EXCEPT !.left = @ \ {t}, !.protected = @ \cup {<<t, latest[t]>>}]
                  ELSE Idle
  /\ UNCHANGED files

\* Mutant: active transactions are forgotten.
ForgetTransactions ==
  /\ gc.at = "branches"
  /\ IF gc.left = {}
     THEN gc' = [at |-> "expire", left |-> Listed,
                 protected |-> gc.protected, doomed |-> {}, old |-> Existing]
     ELSE \E b \in gc.left :
            gc' = IF b \in DOMAIN branches
                  THEN [gc EXCEPT !.left = @ \ {b}, !.protected = @ \cup Entries(branches[b].head)]
                  ELSE Idle
  /\ UNCHANGED files

ProtectBranches ==
  /\ gc.at = "branches"
  /\ IF gc.left = {}
     THEN gc' = [at |-> "expire", left |-> Listed,
                 protected |-> gc.protected \cup Entries(snapshot), doomed |-> {}, old |-> Existing]
     ELSE \E b \in gc.left :
            gc' = IF b \in DOMAIN branches
                  THEN [gc EXCEPT !.left = @ \ {b}, !.protected = @ \cup Entries(branches[b].head)]
                  ELSE Idle
  /\ UNCHANGED files

\* _phase1_delete_versions, one table after another.  Any version there was at
\* the start of the phase may be older than the cutoff.
Excess(t) == {v \in DOMAIN versions[t] :
                Cardinality({u \in DOMAIN versions[t] : u >= v}) > MaxVersions}
Expired(t, aged) == (({t} \X Excess(t)) \cup {e \in aged : e[1] = t}) \ gc.protected
ListExpired ==
  /\ gc.at = "expire" /\ gc.doomed = {}
  /\ IF gc.left = {}
     THEN gc' = [at |-> "mark", left |-> Listed, referenced |-> {}]
     ELSE \E t \in gc.left, aged \in SUBSET (IF ByAge THEN gc.old ELSE {}) :
            gc' = [gc EXCEPT !.left = @ \ {t}, !.doomed = Expired(t, aged)]
  /\ UNCHANGED files

\* delete_version, under the table's lock, refuses the latest version, which
\* the collector shrugs off.
DeleteVersion(t, v) ==
  /\ gc.at = "expire" /\ <<t, v>> \in gc.doomed /\ ~Locked(t)
  /\ versions' = IF v = latest[t] THEN versions
                 ELSE [versions EXCEPT ![t] = [u \in DOMAIN @ \ {v} |-> @[u]]]
  /\ gc' = [gc EXCEPT !.doomed = @ \ {<<t, v>>}]
  /\ UNCHANGED <<dirs, latest, chunks, temps>>

\* Mutant: only the latest versions count.
MarkLatest ==
  /\ gc.at = "mark"
  /\ gc' = [at |-> "sweep", doomed |-> chunks \ {versions[t][latest[t]] : t \in Committed}]
  /\ UNCHANGED files

\* Mutant: the versions are not read before the sweep.
MarkNothing ==
  /\ gc.at = "mark"
  /\ gc' = [at |-> "sweep", doomed |-> chunks]
  /\ UNCHANGED files

\* get_all_referenced_chunk_hashes, one table after another, and then
\* list_chunk_hashes.
MarkReferenced ==
  /\ gc.at = "mark"
  /\ IF gc.left = {}
     THEN gc' = [at |-> "sweep", doomed |-> chunks \ gc.referenced]
     ELSE \E t \in gc.left :
            gc' = [gc EXCEPT !.left = @ \ {t},
                             !.referenced = @ \cup {versions[t][v] : v \in DOMAIN versions[t]}]
  /\ UNCHANGED files

\* garbage_collect deletes one chunk after another.
Sweep(x) ==
  /\ gc.at = "sweep" /\ x \in gc.doomed
  /\ chunks' = chunks \ {x}
  /\ gc' = [gc EXCEPT !.doomed = @ \ {x}]
  /\ UNCHANGED <<catalog, temps>>

\* Mutant: temporary files are left.
LeaveTemps ==
  /\ gc.at = "sweep" /\ gc.doomed = {}
  /\ gc' = Idle
  /\ UNCHANGED files

\* cleanup_orphaned_temp_files, whosever they are.
RemoveTemps ==
  /\ gc.at = "sweep" /\ gc.doomed = {}
  /\ temps' = {} /\ gc' = Idle
  /\ UNCHANGED <<catalog, chunks>>

CollectStep ==
  /\ \/ StartCollecting \/ ProtectLatest \/ ProtectBranches \/ ListExpired
     \/ \E t \in Tables, v \in 1..(MaxCalls + 1) : DeleteVersion(t, v)
     \/ MarkReferenced \/ (\E x \in Chunks : Sweep(x)) \/ RemoveTemps
  /\ UNCHANGED <<branchFiles, snapshot, work, calls>>

\* An I/O error ends what a writer does, and leaves what it has done.
WriterFails(w) ==
  /\ work[w] # Idle
  /\ crashes < MaxCrashes /\ crashes' = crashes + 1
  /\ Goto(w, Idle)
  /\ UNCHANGED <<files, branchFiles, snapshot, gc, calls>>

Crash ==
  /\ crashes < MaxCrashes /\ crashes' = crashes + 1
  /\ work' = [w \in Writers |-> Idle] /\ gc' = Idle /\ snapshot' = NoSnapshot
  /\ UNCHANGED <<files, branchFiles, calls>>

-----------------------------------------------------------------------------
(* History: the references to versions, each with who holds it (<<kind,     *)
(* name, table, version>>), held since a run of the collector began.        *)

References ==
  {<<"latest", t, t, latest[t]>> : t \in Committed}
    \cup {<<"snapshot", "", e[1], e[2]>> : e \in Entries(snapshot)}
    \cup UNION {{<<"branch", b, e[1], e[2]>> : e \in Entries(branches[b].head)} : b \in DOMAIN branches}
Stands(r) == <<r[3], r[4]>> \in Existing
Standing == {r \in References : Stands(r)}
Complete(t, v) == versions[t][v] \in chunks

Remember ==
  /\ pinned' = IF gc' = Idle THEN {}
               ELSE IF gc = Idle THEN Standing' ELSE pinned \cap References'
  /\ sound' = IF gc'.at \notin {"mark", "sweep"} THEN {}
              ELSE IF gc.at = "expire" THEN {e \in Existing : Complete(e[1], e[2])}
              ELSE {e \in sound \cap Existing' : versions'[e[1]][e[2]] = versions[e[1]][e[2]]}
  /\ overlapped' = (\/ overlapped
                    \/ gc # Idle /\ gc' = gc
                    \/ gc = Idle /\ gc' # Idle /\ (\E w \in Writers : work[w] # Idle))

\* BranchManager::new on an empty repository, and one that was used before:
\* every table has a first version, of the same chunk, on the main branch.
Empty ==
  /\ dirs = {} /\ versions = [t \in Tables |-> NoVersions] /\ latest = [t \in Tables |-> 0]
  /\ chunks = {}
  /\ branches = [b \in {Main} |-> Branch(NoVersions, NoBase)]
Used ==
  \E x \in Chunks :
    /\ dirs = Tables /\ versions = [t \in Tables |-> [v \in {1} |-> x]]
    /\ latest = [t \in Tables |-> 1]
    /\ chunks = {x}
    /\ branches = [b \in {Main} |-> Branch([t \in Tables |-> 1], NoBase)]

Init ==
  /\ Empty \/ Used
  /\ temps = {} /\ default = Main
  /\ snapshot = NoSnapshot /\ work = [w \in Writers |-> Idle] /\ gc = Idle
  /\ calls = 0 /\ crashes = 0
  /\ overlapped = FALSE /\ pinned = {} /\ sound = {}

Collect == CollectStep /\ Remember /\ UNCHANGED crashes

Next ==
  \/ Collect
  \/ (\E w \in Writers : Write(w)) /\ UNCHANGED <<gc, crashes>> /\ Remember
  \/ Call /\ UNCHANGED <<gc, crashes>> /\ Remember
  \/ (Crash \/ \E w \in Writers : WriterFails(w)) /\ Remember

Spec == Init /\ [][Next]_vars

\* AutoGC's thread goes on, run after run, and a thread that has the lock of a
\* table gives it back.
Finish(w) == MoveLatest(w) /\ UNCHANGED <<branchFiles, snapshot, gc, crashes>> /\ Remember
FairSpec == Spec /\ WF_vars(Collect) /\ \A w \in Writers : WF_vars(Finish(w))

-----------------------------------------------------------------------------
(* Properties *)

IsBranch(b) == IsHead(b.head, Tables) /\ (b.fork = NoBase \/ IsHead(b.fork, Tables))

\* Types of the variables; the default branch exists.
TypeOK ==
  /\ \A t \in Tables : DOMAIN versions[t] \subseteq Nat \ {0}
                      /\ \A v \in DOMAIN versions[t] : versions[t][v] \in Chunks
  /\ dirs \subseteq Tables /\ chunks \subseteq Chunks /\ temps \subseteq Writers
  /\ DOMAIN branches \subseteq Branches /\ default \in DOMAIN branches
  /\ \A b \in DOMAIN branches : IsBranch(branches[b])
  /\ calls \in 0..MaxCalls /\ crashes \in 0..MaxCrashes

\* The latest version of a table is never deleted, whatever the collector took
\* for the latest when it began: a commit since then is covered by the test
\* under the lock (gc.py:9, file_catalog.rs:394).
LatestNeverDeleted == \A t \in Committed : latest[t] \in DOMAIN versions[t]

\* What was referenced when a run began, and is still, is there: the run finds
\* every head and snapshot, although it reads one file after another while
\* others change (gc.py:178).
HeldVersionsStand == \A r \in pinned : Stands(r)

\* The versions in use are never deleted.
VersionsStand == TypeOK /\ LatestNeverDeleted /\ HeldVersionsStand

\* The sweep takes no chunk of a version that was complete when it began to
\* look for references, and that nobody deleted (gc.py:268, store.rs:348).
CompleteVersionsStay == \A e \in sound : Complete(e[1], e[2])

\* The guarantees of gc.py:8-12, crashes between any two steps included, as
\* long as nothing else ran during a run of the collector: every head and
\* snapshot has its version, and every version its chunk, also one whose
\* commit ended before the pointer moved.
CollectorAloneIsSafe ==
  ~overlapped =>
    /\ \A r \in References : Stands(r)
    /\ \A e \in Existing : Complete(e[1], e[2])

\* Versions at the fork points of branches are not deleted either: what
\* gc.py:10 and the test of that name (tests/test_gc.py:163) say.
ForkPointsStand ==
  ~overlapped => \A b \in DOMAIN branches :
                   branches[b].fork # NoBase => Entries(branches[b].fork) \subseteq Existing

\* Writing during a run loses no data: what the test of that name says
\* (tests/test_gc.py:605).
WritingDuringCollectionLosesNothing ==
  \A e \in Existing : e[2] <= latest[e[1]] => Complete(e[1], e[2])

\* Chunks that nothing refers to, and temporary files.
NoOrphans ==
  /\ temps = {}
  /\ \A x \in chunks : \E e \in Existing : versions[e[1]][e[2]] = x

\* Orphans are gone in the end: a crash only postpones their removal
\* (gc.py:12), once every table in the catalog has a version.
OrphansCleaned == <>[](Listed \subseteq Committed) => <>[]NoOrphans

\* Orphans are gone in the end, whatever was cut short: gc.py:12 as it stands.
OrphansAlwaysCleaned == <>[]NoOrphans
=============================================================================
