------------------------------ MODULE FileCatalog ------------------------------
(***************************************************************************)
(* rhizo_core/src/catalog/file_catalog.rs: the files of one table.  Several *)
(* processes share them; each takes the file lock of the table, which the  *)
(* system releases when its holder dies.  A step is one rename or one      *)
(* removal, the points where another process or a restart can look.  The   *)
(* intents of all tables share a directory but recovery treats each by     *)
(* itself, so one table is enough.                                         *)
(***************************************************************************)
EXTENDS Integers, FiniteSets

CONSTANTS
  Procs,       \* processes
  NoProc,      \* the free lock
  Payloads,    \* chunk lists that may be committed
  NoPayload,   \* the chunk list of a call not made yet
  MaxCommits,  \* bound on the calls of commit and commit_next_version
  MaxFaults,   \* bound on crashes and I/O errors
  MaxDeletes   \* bound on the calls of delete_version

ASSUME CatalogAssumption ==
  /\ NoProc \notin Procs
  /\ NoPayload \notin Payloads
  /\ MaxCommits \in Nat /\ MaxFaults \in Nat /\ MaxDeletes \in Nat

VARIABLES
  \* Files.
  files,      \* files[v]: the payload in v.json, for each v whose file exists
  latest,     \* the number in the file latest, 0 while it does not exist
  intents,    \* calls whose intent file is in .pending
  lock,       \* holder of the file lock
  \* Memory of the processes.
  pc, call, next,
  scan,       \* scan[p]: intents the recovery of p has still to look at
  found,      \* found[p]: intents it has removed and will report
  \* What the properties look back on.
  calls,      \* number of calls so far; a call is named by its number
  want,       \* want[i]: payload of call i
  asked,      \* asked[i]: version commit(version) asked for, 0 if assigned
  answer,     \* answer[i]: version returned to the caller, 0 if none was
  reported,   \* calls recover_pending_commits has reported as incomplete
  lost,       \* calls whose intent a recovery removed and did not report
  deleted,    \* versions deleted so far, with the payload they had
  faults      \* crashes and I/O errors so far

disk   == <<files, latest, intents, lock>>
recovery == <<scan, found>>
memory == <<pc, call, next, recovery>>
ghosts == <<calls, want, asked, answer, reported, lost, deleted, faults>>
vars   == <<disk, memory, ghosts>>

CallId  == 1..MaxCommits
Version == 1..MaxCommits
PC      == {"idle", "begun", "locked", "written", "pointed", "released",
            "recovering"}
Locked  == {"locked", "written", "pointed"}

Init ==
  /\ files = [v \in {} |-> NoPayload]
  /\ latest = 0
  /\ intents = {}
  /\ lock = NoProc
  /\ pc = [p \in Procs |-> "idle"]
  /\ call = [p \in Procs |-> 0]
  /\ next = [p \in Procs |-> 0]
  /\ scan = [p \in Procs |-> {}]
  /\ found = [p \in Procs |-> {}]
  /\ calls = 0
  /\ want = [i \in CallId |-> NoPayload]
  /\ asked = [i \in CallId |-> 0]
  /\ answer = [i \in CallId |-> 0]
  /\ reported = {}
  /\ lost = {}
  /\ deleted = {}
  /\ faults = 0

Goto(p, l) == pc' = [pc EXCEPT ![p] = l]

Begin(p, c, v) ==
  /\ pc[p] = "idle"
  /\ calls < MaxCommits
  /\ calls' = calls + 1
  /\ want' = [want EXCEPT ![calls + 1] = c]
  /\ asked' = [asked EXCEPT ![calls + 1] = v]
  /\ call' = [call EXCEPT ![p] = calls + 1]
  /\ Goto(p, "begun")
  /\ UNCHANGED <<files, latest, lock, next, recovery, answer, reported, lost, deleted,
                 faults>>

\* commit_next_version: the intent is written before the lock is taken.
CommitNext(p, c) ==
  /\ Begin(p, c, 0)
  /\ intents' = intents \cup {calls + 1}

\* commit: the caller names the version; there is no intent.
CommitVersion(p, c, v) ==
  /\ Begin(p, c, v)
  /\ UNCHANGED intents

\* Mutant: the version asked for is not compared with the next one.
AcquireUnchecked(p) ==
  /\ pc[p] = "begun"
  /\ lock = NoProc
  /\ lock' = p
  /\ next' = [next EXCEPT ![p] = latest + 1]
  /\ Goto(p, "locked")
  /\ UNCHANGED <<files, latest, intents, call, recovery, ghosts>>

\* Mutant: versions are numbered by a count of the calls.
AcquireCounted(p) ==
  /\ pc[p] = "begun"
  /\ lock = NoProc
  /\ asked[call[p]] \in {0, latest + 1}
  /\ lock' = p
  /\ next' = [next EXCEPT ![p] = call[p]]
  /\ Goto(p, "locked")
  /\ UNCHANGED <<files, latest, intents, call, recovery, ghosts>>

\* The lock is granted and the latest version read.
Acquire(p) ==
  /\ pc[p] = "begun"
  /\ lock = NoProc
  /\ asked[call[p]] \in {0, latest + 1}
  /\ lock' = p
  /\ next' = [next EXCEPT ![p] = latest + 1]
  /\ Goto(p, "locked")
  /\ UNCHANGED <<files, latest, intents, call, recovery, ghosts>>

\* InvalidVersion: the version asked for is not the next one.
Reject(p) ==
  /\ pc[p] = "begun"
  /\ lock = NoProc
  /\ asked[call[p]] \notin {0, latest + 1}
  /\ Goto(p, "idle")
  /\ UNCHANGED <<disk, call, next, recovery, ghosts>>

\* The rename of v.json.tmp to v.json, over the file a crash may have left.
WriteVersion(p) ==
  /\ pc[p] = "locked"
  /\ files' = [v \in DOMAIN files \cup {next[p]} |->
                IF v = next[p] THEN want[call[p]] ELSE files[v]]
  /\ Goto(p, "written")
  /\ UNCHANGED <<latest, intents, lock, call, next, recovery, ghosts>>

\* The rename of latest.tmp to latest.
UpdateLatest(p) ==
  /\ pc[p] = "written"
  /\ latest' = next[p]
  /\ Goto(p, "pointed")
  /\ UNCHANGED <<files, intents, lock, call, next, recovery, ghosts>>

Release(p) ==
  /\ pc[p] = "pointed"
  /\ lock' = NoProc
  /\ Goto(p, "released")
  /\ UNCHANGED <<files, latest, intents, call, next, recovery, ghosts>>

\* The intent goes, if there was one and no error, which is ignored, keeps
\* it; the call returns its version.
Return(p) ==
  /\ pc[p] = "released"
  /\ \/ intents' = intents \ {call[p]} /\ UNCHANGED faults
     \/ faults < MaxFaults /\ faults' = faults + 1 /\ UNCHANGED intents
  /\ answer' = [answer EXCEPT ![call[p]] = next[p]]
  /\ Goto(p, "idle")
  /\ UNCHANGED <<files, latest, lock, call, next, recovery, calls, want, asked, reported,
                 lost, deleted>>

\* Mutant: the intent is removed whether or not the commit succeeded.
FailForgets(p) ==
  /\ pc[p] # "idle"
  /\ faults < MaxFaults
  /\ faults' = faults + 1
  /\ intents' = IF pc[p] = "recovering" THEN intents ELSE intents \ {call[p]}
  /\ lock' = IF lock = p THEN NoProc ELSE lock
  /\ lost' = lost \cup found[p]
  /\ scan' = [scan EXCEPT ![p] = {}]
  /\ found' = [found EXCEPT ![p] = {}]
  /\ Goto(p, "idle")
  /\ UNCHANGED <<files, latest, call, next, calls, want, asked, answer, reported, deleted>>

\* The process dies, or an error ends the call: the lock is free again and the
\* intent of a commit stays, but what a recovery has found is gone with it.
Fail(p) ==
  /\ pc[p] # "idle"
  /\ faults < MaxFaults
  /\ faults' = faults + 1
  /\ lock' = IF lock = p THEN NoProc ELSE lock
  /\ lost' = lost \cup found[p]
  /\ scan' = [scan EXCEPT ![p] = {}]
  /\ found' = [found EXCEPT ![p] = {}]
  /\ Goto(p, "idle")
  /\ UNCHANGED <<files, latest, intents, call, next, calls, want, asked, answer,
                 reported, deleted>>

\* delete_version, under the lock: never the latest version.
DeleteVersion(p, v) ==
  /\ pc[p] = "idle"
  /\ lock = NoProc
  /\ Cardinality(deleted) < MaxDeletes
  /\ v \in DOMAIN files
  /\ v # latest
  /\ files' = [w \in DOMAIN files \ {v} |-> files[w]]
  /\ deleted' = deleted \cup {<<v, files[v]>>}
  /\ UNCHANGED <<latest, intents, lock, memory, calls, want, asked, answer,
                 reported, lost, faults>>

\* is_committed: the latest version holds exactly these chunks.
IsCommitted(c) == latest # 0 /\ files[latest] = c

\* recover_pending_commits lists the directory of the intents.
BeginRecovery(p) ==
  /\ pc[p] = "idle"
  /\ intents # {}
  /\ scan' = [scan EXCEPT ![p] = intents]
  /\ Goto(p, "recovering")
  /\ UNCHANGED <<disk, call, next, found, ghosts>>

\* Its loop, for one intent that is still there: the file is removed, or an
\* error in that is ignored, and the call is an orphan unless its chunks are
\* found committed.
RecoverIntent(p, i) ==
  /\ pc[p] = "recovering"
  /\ i \in scan[p] \cap intents
  /\ scan' = [scan EXCEPT ![p] = @ \ {i}]
  /\ found' = IF IsCommitted(want[i]) THEN found ELSE [found EXCEPT ![p] = @ \cup {i}]
  /\ \/ intents' = intents \ {i} /\ UNCHANGED faults
     \/ faults < MaxFaults /\ faults' = faults + 1 /\ UNCHANGED intents
  /\ UNCHANGED <<files, latest, lock, pc, call, next, calls, want, asked, answer, reported,
                 lost, deleted>>

\* An intent that cannot be read is taken for corrupted and removed.
SkipIntent(p, i) ==
  /\ pc[p] = "recovering"
  /\ i \in scan[p]
  /\ scan' = [scan EXCEPT ![p] = @ \ {i}]
  /\ \/ i \notin intents /\ UNCHANGED <<lost, faults>>
     \/ /\ i \in intents /\ faults < MaxFaults
        /\ faults' = faults + 1 /\ lost' = lost \cup {i}
  /\ intents' = intents \ {i}
  /\ UNCHANGED <<files, latest, lock, pc, call, next, found, calls, want, asked, answer,
                 reported, deleted>>

\* The list of orphans is returned only when the loop is over.
EndRecovery(p) ==
  /\ pc[p] = "recovering"
  /\ scan[p] = {}
  /\ reported' = reported \cup found[p]
  /\ found' = [found EXCEPT ![p] = {}]
  /\ Goto(p, "idle")
  /\ UNCHANGED <<disk, call, next, scan, calls, want, asked, answer, lost, deleted, faults>>

\* Not a step of the code: the bound MaxCommits is used up.
Exhausted == calls = MaxCommits /\ (\A p \in Procs : pc[p] = "idle") /\ UNCHANGED vars

CommitStep(p) ==
  Acquire(p) \/ Reject(p) \/ WriteVersion(p) \/ UpdateLatest(p) \/ Release(p) \/ Return(p)

RecoveryStep(p) ==
  \/ BeginRecovery(p)
  \/ \E i \in CallId : RecoverIntent(p, i) \/ SkipIntent(p, i)
  \/ EndRecovery(p)

ProcStep(p) ==
  \/ \E c \in Payloads : CommitNext(p, c)
  \/ \E c \in Payloads, v \in Version : CommitVersion(p, c, v)
  \/ CommitStep(p)
  \/ Fail(p)
  \/ \E v \in DOMAIN files : DeleteVersion(p, v)
  \/ RecoveryStep(p)

Next == Exhausted \/ \E p \in Procs : ProcStep(p)

Spec == Init /\ [][Next]_vars

-----------------------------------------------------------------------------
\* Every variable has its type, and versions are numbered from 1.
TypeOK ==
  /\ DOMAIN files \subseteq Nat \ {0}
  /\ files \in [DOMAIN files -> Payloads]
  /\ latest \in Nat
  /\ intents \subseteq CallId
  /\ lock \in Procs \cup {NoProc}
  /\ pc \in [Procs -> PC]
  /\ call \in [Procs -> 0..MaxCommits]
  /\ next \in [Procs -> Nat]
  /\ calls \in 0..MaxCommits
  /\ want \in [CallId -> Payloads \cup {NoPayload}]
  /\ asked \in [CallId -> 0..MaxCommits]
  /\ answer \in [CallId -> Nat]
  /\ scan \in [Procs -> SUBSET CallId] /\ found \in [Procs -> SUBSET CallId]
  /\ reported \subseteq CallId /\ lost \subseteq CallId
  /\ deleted \subseteq (Nat \ {0}) \X Payloads
  /\ faults \in Nat

\* The pointer leads to a version file: no crash between the two renames of
\* a commit and no delete_version leaves a table that cannot be opened.
LatestReadable == latest # 0 => latest \in DOMAIN files

\* Version v holds payload c, or did so until it was deleted.
Kept(v, c) ==
  \/ v \in DOMAIN files /\ files[v] = c
  \/ <<v, c>> \in deleted

\* A version number that was returned stands: it is the one asked for, no
\* other call was given it, and the version holds that call's chunks until
\* it is deleted, whatever other processes do and whoever crashes.
AnsweredVersionsStand ==
  \A i \in CallId : answer[i] # 0 =>
    /\ answer[i] <= latest
    /\ asked[i] \in {0, answer[i]}
    /\ Kept(answer[i], want[i])
    /\ \A j \in CallId \ {i} : answer[j] # answer[i]

\* A version that is or was in the table holds the chunks of call i.
Referenced(i) ==
  \E v \in 1..latest : Kept(v, want[i])

\* What becomes of call i is on record: it has been answered, or its intent
\* is there, or a recovery has reported it or is about to, or its chunks are
\* those of a version.
OnRecord(i) ==
  \/ answer[i] # 0
  \/ i \in intents \cup reported \cup UNION {found[p] : p \in Procs}
  \/ Referenced(i)

\* The chunks of a call of commit_next_version are forgotten in no way but one:
\* a recovery had removed the intent and was cut short, or could not read it.
\* No crash or error of a commit, and no two recoveries side by side, do it.
NoOrphanForgotten ==
  \A i \in 1..calls : asked[i] = 0 => OnRecord(i) \/ i \in lost

-----------------------------------------------------------------------------
\* What makes these invariants inductive, part by part.

\* The lock of the table is held exactly inside the critical section.
LockHeld == \A p \in Procs : pc[p] \in Locked <=> lock = p

Committing(p) == pc[p] \notin {"idle", "recovering"}

\* A process that commits runs a call of its own, not answered yet.
CallsOwn ==
  /\ \A p \in Procs : Committing(p) =>
       call[p] \in 1..calls /\ answer[call[p]] = 0 /\ want[call[p]] \in Payloads
  /\ \A p, q \in Procs : p # q /\ Committing(p) /\ Committing(q) => call[p] # call[q]
  /\ \A i \in CallId : i > calls => answer[i] = 0

\* Where the version of a running call stands.
PlacedFor(p) ==
  /\ pc[p] \in {"locked", "written"} => next[p] = latest + 1
  /\ pc[p] = "written" => next[p] \in DOMAIN files /\ files[next[p]] = want[call[p]]
  /\ pc[p] = "pointed" => next[p] = latest
  /\ pc[p] \in {"pointed", "released"} =>
       next[p] \in 1..latest /\ Kept(next[p], want[call[p]])
  /\ pc[p] \in Locked \cup {"released"} => asked[call[p]] \in {0, next[p]}

Placed == \A p \in Procs : PlacedFor(p)

\* No two calls have the same version.
Distinct ==
  \A p \in Procs : pc[p] \in {"pointed", "released"} =>
    /\ \A i \in CallId : answer[i] # next[p]
    /\ \A q \in Procs \ {p} : pc[q] \in {"pointed", "released"} => next[q] # next[p]

\* All of it: the tables of the catalog are in order at every step.
CatalogInv ==
  /\ TypeOK
  /\ LockHeld
  /\ CallsOwn
  /\ Placed
  /\ Distinct
  /\ LatestReadable
  /\ AnsweredVersionsStand
  /\ NoOrphanForgotten

-----------------------------------------------------------------------------
\* The version files up to the pointer.  The file after it, which a crash may
\* have left, is not part of the table.
Content == {<<v, files[v]>> : v \in {w \in DOMAIN files : 1 <= w /\ w <= latest}}

Log == INSTANCE VersionLog WITH content <- Content

\* The files of a table are an append-only log of versions.
ImplementsVersionLog == Log!LogSpec

-----------------------------------------------------------------------------
\* What the documentation says and the code does not do.

\* file_catalog.rs:102: an intent that outlives its call is returned by
\* recovery, so that the caller can clean up the orphaned chunks.
IntentsReachTheCaller == \A i \in 1..calls : asked[i] = 0 => OnRecord(i)

\* file_catalog.rs:230: the intents returned are those whose chunks no
\* committed version references.
ReportedAreOrphans ==
  [][\A i \in reported' \ reported : \A v \in DOMAIN files :
       v <= latest => files[v] # want[i]]_vars
=============================================================================
