-------------------------- MODULE TransactionManager --------------------------
(***************************************************************************)
(* rhizo_core/src/transaction/manager.rs: optimistic transactions over the *)
(* table catalog.  Each thread runs at most one transaction at a time (the *)
(* discipline of python/rhizo/transaction.py) and interleaves with the     *)
(* others at every point where the code has released its locks or has      *)
(* written a file another thread, or a restart, can read.                  *)
(*                                                                         *)
(* The catalog's commit_next_version and the branch manager's update_head  *)
(* are single steps here, and the epoch metadata files are left to         *)
(* TransactionLog.  The entry of active_transactions for a thread's        *)
(* transaction is rec[tx[p]]; it exists while pc[p] is not "idle" or       *)
(* "allocated".                                                            *)
(***************************************************************************)
EXTENDS Integers, Sequences, FiniteSets

CONSTANTS
  Threads,      \* callers of the manager
  NoThread,     \* the free commit_lock
  Tables,       \* table names
  Branches,     \* branch names
  UseBranches,  \* whether the manager was built with a branch manager
  MaxRecent,    \* max_recent_committed, from the stored epoch configuration
  MaxTx,        \* bound on the number of transactions begun
  MaxCrashes,   \* bound on process crashes
  MaxIOErrors,  \* bound on I/O errors inside commit
  MaxDirect,    \* bound on table writes that bypass the manager
  MaxRecoveries \* bound on records that a recovery marks beside the manager

ASSUME ThreadAssumption == NoThread \notin Threads
ASSUME BranchAssumption == Branches # {} /\ UseBranches \in BOOLEAN
ASSUME BoundAssumption ==
  /\ MaxRecent \in Nat /\ MaxTx \in Nat
  /\ MaxCrashes \in Nat /\ MaxIOErrors \in Nat /\ MaxDirect \in Nat
  /\ MaxRecoveries \in Nat

VARIABLES
  \* Files: these survive a crash.
  sequence,    \* _sequence: the last transaction identifier handed out
  catalog,     \* catalog[t][v]: the writer of version v of table t
  heads,       \* heads[b][t]: version of t at the head of b, 0 if absent
  txLog,       \* status in the tx_NNNNNN.json file of each transaction
  latest,      \* _latest_committed, 0 while there is no such file
  index,       \* _committed_index, empty while there is no such file
  \* Memory of the manager and of its callers.
  recent,      \* recent_committed, oldest first
  commitLock,  \* commit_lock: its holder
  pc,          \* where each thread is
  tx,          \* the transaction each thread runs
  todo,        \* tables the capture or the commit of the thread has still to do
  marking,     \* the transaction a recovery beside the manager has read active
  \* What the properties look back on.
  rec,         \* record of each transaction: branch, read snapshot, writes
  outcome,     \* what commit or abort returned to the caller
  overtaken,   \* transactions marked aborted by a recovery beside the manager
  faults       \* crashes, I/O errors and direct writes so far

fileVars   == <<sequence, catalog, heads, txLog, latest, index>>
memoryVars == <<recent, commitLock, pc, tx, todo>>
besideVars == <<marking, overtaken>>
vars == <<fileVars, memoryVars, besideVars, rec, outcome, faults>>

TxId == 1..MaxTx
NoTx == 0          \* no transaction; also the writer of a direct write

Record == [branch : Branches, covered : SUBSET Tables,
           snap : [Tables -> Nat], writes : SUBSET Tables]

\* TransactionRecord::new, before begin has filled in the branch.
NewRecord == [branch |-> CHOOSE b \in Branches : TRUE, covered |-> {},
              snap |-> [t \in Tables |-> 0], writes |-> {}]

BeginPC    == {"allocated", "capture", "snapped", "open", "waiting"}
CriticalPC == {"check", "apply", "heads", "log", "latest", "index", "finish"}
PC == {"idle", "failed"} \cup BeginPC \cup CriticalPC

\* Mutant: the snapshot comes from the catalog even when branches are in use.
CurrentIgnoringBranch(b, t) == Len(catalog[t])

\* The version of t that a transaction on branch b sees now; 0 is None.
Current(b, t) == IF UseBranches THEN heads[b][t] ELSE Len(catalog[t])

Wrote(x, t)     == \E v \in DOMAIN catalog[t] : catalog[t][v] = x
VersionOf(x, t) == CHOOSE v \in DOMAIN catalog[t] : catalog[t][v] = x

\* check_conflicts: a write in common with a recently
\* committed transaction of smaller identifier.  Its second loop looks for
\* active transactions in status Preparing, which no code ever sets.
WriteConflict(x) ==
  \E i \in DOMAIN recent :
    /\ recent[i] < x
    /\ rec[recent[i]].writes \cap rec[x].writes # {}

\* Mutant: only the tables of the write set are validated.
SnapshotConflictOfWrites(x) ==
  \E t \in rec[x].covered \cap rec[x].writes :
    LET current == Current(rec[x].branch, t)
    IN  current # 0 /\ current # rec[x].snap[t]

\* validate_snapshot: a table of the snapshot has another current version.
SnapshotConflict(x) ==
  \E t \in rec[x].covered :
    LET current == Current(rec[x].branch, t)
    IN  current # 0 /\ current # rec[x].snap[t]

\* push_back, then pop_front while there are more than MaxRecent entries.
Remember(x) ==
  LET all == Append(recent, x)
  IN  SubSeq(all, IF Len(all) > MaxRecent THEN Len(all) - MaxRecent + 1 ELSE 1,
             Len(all))

-----------------------------------------------------------------------------
Init ==
  /\ sequence = 0
  /\ catalog \in [Tables -> {<< >>, <<NoTx>>}]
  /\ heads = [b \in Branches |-> [t \in Tables |-> Len(catalog[t])]]
  /\ txLog = [x \in TxId |-> "none"]
  /\ latest = NoTx
  /\ index = << >>
  /\ recent = << >>
  /\ commitLock = NoThread
  /\ pc = [p \in Threads |-> "idle"]
  /\ tx = [p \in Threads |-> NoTx]
  /\ todo = [p \in Threads |-> {}]
  /\ rec = [x \in TxId |-> NewRecord]
  /\ outcome = [x \in TxId |-> "none"]
  /\ marking = NoTx
  /\ overtaken = {}
  /\ faults = [crash |-> 0, io |-> 0, direct |-> 0]

Goto(p, next) == pc' = [pc EXCEPT ![p] = next]

\* begin: next_tx_id, then the current epoch and the branch.
BeginAlloc(p) ==
  /\ pc[p] = "idle"
  /\ sequence < MaxTx
  /\ sequence' = sequence + 1
  /\ tx' = [tx EXCEPT ![p] = sequence + 1]
  /\ \E b \in Branches : rec' = [rec EXCEPT ![sequence + 1].branch = b]
  /\ Goto(p, "allocated")
  /\ UNCHANGED <<catalog, heads, txLog, latest, index, recent, commitLock, todo,
                 besideVars, outcome, faults>>

\* begin: capture_snapshot.  With branches it reads one file, the branch's;
\* without, it lists the tables first.
BeginSnapshot(p) ==
  LET r == rec[tx[p]]
      found == {t \in Tables : Current(r.branch, t) # 0}
  IN  /\ pc[p] = "allocated"
      /\ IF UseBranches
         THEN /\ rec' = [rec EXCEPT ![tx[p]] =
                           [r EXCEPT !.covered = found,
                                     !.snap = [t \in Tables |-> Current(r.branch, t)]]]
              /\ todo' = todo
              /\ Goto(p, "snapped")
         ELSE /\ rec' = rec
              /\ todo' = [todo EXCEPT ![p] = found]
              /\ Goto(p, IF found = {} THEN "snapped" ELSE "capture")
      /\ UNCHANGED <<fileVars, recent, commitLock, tx, besideVars, outcome,
                     faults>>

\* capture_snapshot without branches: get_version of the next table, while
\* other threads commit.  With the last one the transaction enters
\* active_transactions.
BeginCapture(p, t) ==
  LET r == rec[tx[p]]
      left == todo[p] \ {t}
  IN  /\ pc[p] = "capture"
      /\ t \in todo[p]
      /\ rec' = [rec EXCEPT ![tx[p]] =
                   [r EXCEPT !.covered = r.covered \cup {t},
                             !.snap[t] = Current(r.branch, t)]]
      /\ todo' = [todo EXCEPT ![p] = left]
      /\ IF left # {} THEN pc' = pc ELSE Goto(p, "snapped")
      /\ UNCHANGED <<fileVars, recent, commitLock, tx, besideVars, outcome,
                     faults>>

\* begin: the record is written to the log; begin returns.
BeginLog(p) ==
  /\ pc[p] = "snapped"
  /\ txLog' = [txLog EXCEPT ![tx[p]] = "active"]
  /\ Goto(p, "open")
  /\ UNCHANGED <<sequence, catalog, heads, latest, index, recent, commitLock, tx,
                 todo, rec, besideVars, outcome, faults>>

\* record_read, with the version a reader finds at this moment
\* (0 for a table that does not exist, as the tests of the manager do).
RecordRead(p, t) ==
  LET r == rec[tx[p]]
  IN  /\ pc[p] = "open"
      /\ rec' = [rec EXCEPT ![tx[p]] =
                   [r EXCEPT !.covered = r.covered \cup {t},
                             !.snap[t] = Current(r.branch, t)]]
      /\ UNCHANGED <<fileVars, memoryVars, besideVars, outcome, faults>>

\* add_write; TransactionContext buffers at most one write per table.
AddWrite(p, t) ==
  /\ pc[p] = "open"
  /\ t \notin rec[tx[p]].writes
  /\ rec' = [rec EXCEPT ![tx[p]].writes = @ \cup {t}]
  /\ UNCHANGED <<fileVars, memoryVars, besideVars, outcome, faults>>

-----------------------------------------------------------------------------
\* commit: the record is cloned and found active; the thread asks for the lock.
CommitCall(p) ==
  /\ pc[p] = "open"
  /\ Goto(p, "waiting")
  /\ UNCHANGED <<fileVars, recent, commitLock, tx, todo, rec, besideVars, outcome,
                 faults>>

\* Mutant: the critical section is entered without waiting for the lock.
CommitLockShared(p) ==
  /\ pc[p] = "waiting"
  /\ commitLock' = p
  /\ Goto(p, "check")
  /\ UNCHANGED <<fileVars, recent, tx, todo, rec, besideVars, outcome, faults>>

\* commit: commit_lock.lock().
CommitLock(p) ==
  /\ pc[p] = "waiting"
  /\ commitLock = NoThread
  /\ commitLock' = p
  /\ Goto(p, "check")
  /\ UNCHANGED <<fileVars, recent, tx, todo, rec, besideVars, outcome, faults>>

\* An error return from the critical section drops the lock and leaves the
\* transaction active; TransactionContext.commit then aborts it.
GiveUp(p, error) ==
  /\ commitLock' = NoThread
  /\ outcome' = [outcome EXCEPT ![tx[p]] = error]
  /\ todo' = [todo EXCEPT ![p] = {}]
  /\ Goto(p, "failed")
  /\ UNCHANGED <<fileVars, recent, tx, rec, besideVars>>

\* Mutant: commit tries again by itself, with the snapshot it has.
CommitConflictRetried(p) ==
  /\ pc[p] = "check"
  /\ WriteConflict(tx[p]) \/ SnapshotConflict(tx[p])
  /\ commitLock' = NoThread
  /\ Goto(p, "waiting")
  /\ UNCHANGED <<fileVars, recent, tx, todo, rec, besideVars, outcome, faults>>

\* check_conflicts or validate_snapshot returns an error.
CommitConflict(p) ==
  /\ pc[p] = "check"
  /\ \/ /\ WriteConflict(tx[p])
        /\ GiveUp(p, "WriteConflict")
     \/ /\ ~WriteConflict(tx[p])
        /\ SnapshotConflict(tx[p])
        /\ GiveUp(p, "SnapshotConflict")
  /\ UNCHANGED faults

\* Mutant: the error of a catalog or branch write is reported as a conflict.
CommitIOErrorAsConflict(p) ==
  /\ pc[p] \in {"apply", "heads", "log", "latest", "index", "finish"}
  /\ faults.io < MaxIOErrors
  /\ faults' = [faults EXCEPT !.io = @ + 1]
  /\ GiveUp(p, "WriteConflict")

\* An I/O error of any of the writes of commit, from the first table on.
CommitIOError(p) ==
  /\ pc[p] \in {"apply", "heads", "log", "latest", "index", "finish"}
  /\ faults.io < MaxIOErrors
  /\ faults' = [faults EXCEPT !.io = @ + 1]
  /\ GiveUp(p, "IoError")

\* Both checks pass.
CommitAccept(p) ==
  LET x == tx[p]
  IN  /\ pc[p] = "check"
      /\ ~WriteConflict(x)
      /\ ~SnapshotConflict(x)
      /\ todo' = [todo EXCEPT ![p] = rec[x].writes]
      /\ Goto(p, IF rec[x].writes = {} THEN "log" ELSE "apply")
      /\ UNCHANGED <<fileVars, recent, commitLock, tx, rec, besideVars, outcome,
                     faults>>

\* Mutant: apply_writes returns after its first table.
CommitApplyFirst(p, t) ==
  /\ pc[p] = "apply"
  /\ t \in todo[p]
  /\ catalog' = [catalog EXCEPT ![t] = Append(@, tx[p])]
  /\ todo' = [todo EXCEPT ![p] = {}]
  /\ Goto(p, "log")
  /\ UNCHANGED <<sequence, heads, txLog, latest, index, recent, commitLock, tx,
                 rec, besideVars, outcome, faults>>

\* apply_writes: one table at a time, each getting the next version number.
CommitApply(p, t) ==
  LET x == tx[p]
      left == todo[p] \ {t}
  IN  /\ pc[p] = "apply"
      /\ t \in todo[p]
      /\ catalog' = [catalog EXCEPT ![t] = Append(@, x)]
      /\ IF left # {}
         THEN /\ todo' = [todo EXCEPT ![p] = left]
              /\ pc' = pc
         ELSE /\ todo' = [todo EXCEPT ![p] =
                            IF UseBranches THEN rec[x].writes ELSE {}]
              /\ Goto(p, IF UseBranches THEN "heads" ELSE "log")
      /\ UNCHANGED <<sequence, heads, txLog, latest, index, recent, commitLock,
                     tx, rec, besideVars, outcome, faults>>

\* Mutant: the head moves to the version planned from the snapshot.
CommitHeadPlanned(p, t) ==
  LET x == tx[p]
      left == todo[p] \ {t}
  IN  /\ pc[p] = "heads"
      /\ t \in todo[p]
      /\ heads' = [heads EXCEPT ![rec[x].branch][t] = rec[x].snap[t] + 1]
      /\ todo' = [todo EXCEPT ![p] = left]
      /\ IF left # {} THEN pc' = pc ELSE Goto(p, "log")
      /\ UNCHANGED <<sequence, catalog, txLog, latest, index, recent, commitLock,
                     tx, rec, besideVars, outcome, faults>>

\* update_branch_heads: one table at a time, to the version just assigned.
CommitHead(p, t) ==
  LET x == tx[p]
      left == todo[p] \ {t}
  IN  /\ pc[p] = "heads"
      /\ t \in todo[p]
      /\ heads' = [heads EXCEPT ![rec[x].branch][t] = VersionOf(x, t)]
      /\ todo' = [todo EXCEPT ![p] = left]
      /\ IF left # {} THEN pc' = pc ELSE Goto(p, "log")
      /\ UNCHANGED <<sequence, catalog, txLog, latest, index, recent, commitLock,
                     tx, rec, besideVars, outcome, faults>>

\* write_transaction: the transaction file, then the pointer to the latest
\* committed transaction, then the committed index.
CommitLog(p) ==
  /\ pc[p] = "log"
  /\ txLog' = [txLog EXCEPT ![tx[p]] = "committed"]
  /\ Goto(p, "latest")
  /\ UNCHANGED <<sequence, catalog, heads, latest, index, recent, commitLock, tx,
                 todo, rec, besideVars, outcome, faults>>

CommitLatest(p) ==
  /\ pc[p] = "latest"
  /\ latest' = tx[p]
  /\ Goto(p, "index")
  /\ UNCHANGED <<sequence, catalog, heads, txLog, index, recent, commitLock, tx,
                 todo, rec, besideVars, outcome, faults>>

CommitIndex(p) ==
  /\ pc[p] = "index"
  /\ index' = Append(index, tx[p])
  /\ Goto(p, "finish")
  /\ UNCHANGED <<sequence, catalog, heads, txLog, latest, recent, commitLock, tx,
                 todo, rec, besideVars, outcome, faults>>

\* recent_committed, release of the lock, removal from the active set.
CommitFinish(p) ==
  /\ pc[p] = "finish"
  /\ recent' = Remember(tx[p])
  /\ commitLock' = NoThread
  /\ outcome' = [outcome EXCEPT ![tx[p]] = "Ok"]
  /\ tx' = [tx EXCEPT ![p] = NoTx]
  /\ Goto(p, "idle")
  /\ UNCHANGED <<fileVars, todo, rec, faults, besideVars>>

-----------------------------------------------------------------------------
\* abort, asked for by the caller or by TransactionContext after an error.
Abort(p) ==
  /\ pc[p] \in {"open", "failed"}
  /\ txLog' = [txLog EXCEPT ![tx[p]] = "aborted"]
  /\ outcome' = [outcome EXCEPT ![tx[p]] = IF @ = "none" THEN "Aborted" ELSE @]
  /\ tx' = [tx EXCEPT ![p] = NoTx]
  /\ Goto(p, "idle")
  /\ UNCHANGED <<sequence, catalog, heads, latest, index, recent, commitLock,
                 todo, rec, faults, besideVars>>

ClearRecentCommitted ==
  /\ recent # << >>
  /\ recent' = << >>
  /\ UNCHANGED <<fileVars, commitLock, pc, tx, todo, rec, besideVars, outcome,
                 faults>>

\* QueryEngine.write_table commits to the catalog without the manager.
DirectWrite(t) ==
  /\ ~UseBranches
  /\ faults.direct < MaxDirect
  /\ faults' = [faults EXCEPT !.direct = @ + 1]
  /\ catalog' = [catalog EXCEPT ![t] = Append(@, NoTx)]
  /\ UNCHANGED <<sequence, heads, txLog, latest, index, memoryVars, rec,
                 besideVars, outcome>>

\* recover_and_apply while a manager is at work: by another thread, or by the
\* Database that a second process opens.  It reads a record and finds it active.
RecoverRead(x) ==
  /\ marking = NoTx
  /\ Cardinality(overtaken) < MaxRecoveries
  /\ txLog[x] = "active"
  /\ marking' = x
  /\ UNCHANGED <<fileVars, memoryVars, rec, outcome, overtaken, faults>>

\* It writes the record back as aborted.  The manager, which looks only at its
\* active_transactions, goes on.
RecoverWrite ==
  /\ marking # NoTx
  /\ txLog' = [txLog EXCEPT ![marking] = "aborted"]
  /\ overtaken' = overtaken \cup {marking}
  /\ marking' = NoTx
  /\ UNCHANGED <<sequence, catalog, heads, latest, index, memoryVars, rec, outcome,
                 faults>>

\* Mutant: recovery aborts whatever is in the log.
RecoveredAll(log) == [x \in TxId |-> IF log[x] # "none" THEN "aborted" ELSE "none"]

\* recover_and_apply at start: every transaction still active in the log is marked
\* aborted there; its versions stay in the catalog.
Recovered(log) == [x \in TxId |-> IF log[x] = "active" THEN "aborted" ELSE log[x]]

\* The process dies; a new manager opens the files, with or without recovery.
\* A recovery beside it dies too, unless it runs in another process.
CrashRestart(autoRecover) ==
  /\ faults.crash < MaxCrashes
  /\ faults' = [faults EXCEPT !.crash = @ + 1]
  /\ txLog' = IF autoRecover THEN Recovered(txLog) ELSE txLog
  /\ recent' = << >>
  /\ commitLock' = NoThread
  /\ pc' = [p \in Threads |-> "idle"]
  /\ tx' = [p \in Threads |-> NoTx]
  /\ todo' = [p \in Threads |-> {}]
  /\ marking' \in {marking, NoTx}
  /\ UNCHANGED <<sequence, catalog, heads, latest, index, rec, outcome, overtaken>>

CommitStep(p) ==
  \/ CommitConflict(p)
  \/ CommitIOError(p)
  \/ CommitAccept(p)
  \/ \E t \in Tables : CommitApply(p, t)
  \/ \E t \in Tables : CommitHead(p, t)
  \/ CommitLog(p)
  \/ CommitLatest(p)
  \/ CommitIndex(p)
  \/ CommitFinish(p)

ThreadStep(p) ==
  \/ BeginAlloc(p)
  \/ BeginSnapshot(p)
  \/ \E t \in Tables : BeginCapture(p, t)
  \/ BeginLog(p)
  \/ \E t \in Tables : RecordRead(p, t)
  \/ \E t \in Tables : AddWrite(p, t)
  \/ CommitCall(p)
  \/ CommitLock(p)
  \/ CommitStep(p)
  \/ Abort(p)

\* Not a step of the code: the bound MaxTx is used up and every thread idle.
\* Any other state without a successor is a deadlock of the manager.
Exhausted ==
  /\ sequence = MaxTx
  /\ \A p \in Threads : pc[p] = "idle"
  /\ UNCHANGED vars

Next ==
  \/ Exhausted
  \/ \E p \in Threads : ThreadStep(p)
  \/ ClearRecentCommitted
  \/ \E t \in Tables : DirectWrite(t)
  \/ \E x \in TxId : RecoverRead(x)
  \/ RecoverWrite
  \/ \E autoRecover \in BOOLEAN : CrashRestart(autoRecover)

Spec == Init /\ [][Next]_vars

\* A thread inside the commit keeps running, one that waits gets the lock if
\* it stays free (Mutex promises no more), and a caller whose commit failed
\* aborts: TransactionContext does so in its except clause.
Fairness ==
  \A p \in Threads :
    /\ WF_vars(CommitStep(p))
    /\ WF_vars(CommitLock(p))
    /\ WF_vars(pc[p] = "failed" /\ Abort(p))

FairSpec == Spec /\ Fairness

-----------------------------------------------------------------------------
\* Every variable has its type, and recent_committed never holds more than
\* max_recent_committed entries.
TypeOK ==
  /\ sequence \in 0..MaxTx
  /\ catalog \in [Tables -> Seq(0..MaxTx)]
  /\ heads \in [Branches -> [Tables -> Nat]]
  /\ txLog \in [TxId -> {"none", "active", "committed", "aborted"}]
  /\ latest \in 0..MaxTx
  /\ index \in Seq(TxId)
  /\ recent \in Seq(TxId) /\ Len(recent) <= MaxRecent
  /\ commitLock \in Threads \cup {NoThread}
  /\ pc \in [Threads -> PC]
  /\ tx \in [Threads -> 0..MaxTx]
  /\ todo \in [Threads -> SUBSET Tables]
  /\ rec \in [TxId -> Record]
  /\ outcome \in [TxId -> {"none", "Ok", "Aborted", "WriteConflict",
                           "SnapshotConflict", "IoError"}]
  /\ marking \in 0..MaxTx
  /\ overtaken \subseteq TxId
  /\ faults \in [crash : Nat, io : Nat, direct : Nat]

\* So far every version was committed through the manager, and the catalog's
\* latest versions are what a snapshot holds.
Mediated == ~UseBranches /\ faults.direct = 0

\* So far nothing failed; and nothing bypassed the manager either.
Calm == faults.crash = 0 /\ faults.io = 0
Undisturbed == Calm /\ faults.direct = 0

\* A transaction that overwrites a table of its snapshot overwrites the very
\* version it had read.  docs/TECHNICAL_FOUNDATIONS.md:114 says so of every
\* write: the catalog rejects versions out of sequence.
FirstCommitterWins ==
  \A t \in Tables : \A v \in DOMAIN catalog[t] :
    LET x == catalog[t][v]
    IN  (x # NoTx /\ t \in rec[x].covered) => rec[x].snap[t] = v - 1

\* No version another writer committed in between is silently lost, as long as
\* no write bypasses the manager.  (validate_snapshot, then apply_writes, under
\* commit_lock.)
NoLostUpdate == Mediated => FirstCommitterWins

\* All or nothing: while no commit is running, a transaction's writes are in
\* the catalog if its record says committed, and none of them is otherwise,
\* unless a recovery beside the manager wrote that record.
AtomicCommit ==
  commitLock = NoThread =>
    \A x \in TxId \ overtaken :
      IF txLog[x] = "committed"
      THEN \A t \in rec[x].writes : Wrote(x, t)
      ELSE \A t \in Tables : ~Wrote(x, t)

\* Committed means durable: once the log says committed, every version is in
\* the catalog and its branch head is at that version or a later one,
\* whatever crash or error follows.
CommittedIsDurable ==
  \A x \in TxId : txLog[x] = "committed" =>
    \A t \in rec[x].writes :
      /\ Wrote(x, t)
      /\ UseBranches => heads[rec[x].branch][t] >= VersionOf(x, t)

\* What the caller is told is what happened: Ok only for a transaction that
\* the index holds, and the log too unless a recovery beside the manager
\* marked it; a conflict or an abort only for one that left nothing in the
\* catalog.
AnswersAreTrue ==
  \A x \in TxId :
    /\ outcome[x] = "Ok" =>
         /\ txLog[x] = "committed" \/ x \in overtaken
         /\ \E i \in DOMAIN index : index[i] = x
    /\ outcome[x] \in {"Aborted", "WriteConflict", "SnapshotConflict"} =>
         /\ \A t \in Tables : ~Wrote(x, t)
         /\ \A i \in DOMAIN index : index[i] # x

SameLine(x, y) == UseBranches => rec[x].branch = rec[y].branch

\* The last transaction in the index that wrote t on branch b.
LastOnBranch(b, t) ==
  LET W == {i \in DOMAIN index : rec[index[i]].branch = b
                                  /\ t \in rec[index[i]].writes}
  IN  IF W = {} THEN NoTx ELSE index[CHOOSE i \in W : \A j \in W : j <= i]

\* The head of a branch points, for every table, at the version of the last
\* transaction committed on that branch that wrote the table, although the
\* version numbers of the catalog are shared by all branches.
HeadsFollowCommits ==
  UseBranches /\ commitLock = NoThread =>
    \A b \in Branches, t \in Tables :
      LET x == LastOnBranch(b, t)
      IN  IF x = NoTx THEN heads[b][t] = 0 \/ catalog[t][heads[b][t]] = NoTx
          ELSE heads[b][t] = VersionOf(x, t)

\* What the manager keeps between commits, as long as nothing failed: all of a
\* transaction or nothing of it, and branches whose heads say so.
CommitsAreWhole == TypeOK /\ (Calm => AtomicCommit /\ HeadsFollowCommits)

\* A status that says how a transaction ended is never rewritten: not by the
\* recovery of a restart, not by a late abort, unless commit failed with an I/O
\* error, and by a recovery beside the manager, or by the manager after it, only
\* for a transaction which that recovery had read while it was active.
OutcomeIsFinal ==
  [][\A x \in TxId \ overtaken' :
       txLog[x] \in {"committed", "aborted"} /\ outcome[x] # "IoError"
         => txLog'[x] = txLog[x]]_vars

\* Every call of commit comes back to its caller with the transaction ended in
\* the log, and the lock is free for the next one: no error return and no
\* conflict leaves it held.
CommitReturns ==
  \A p \in Threads :
    /\ pc[p] \in {"waiting", "failed"} \cup CriticalPC ~> pc[p] = "idle"
    /\ commitLock = p ~> commitLock # p

-----------------------------------------------------------------------------
\* What makes NoLostUpdate inductive, part by part.

\* A thread that is not idle runs a transaction of its own.
OwnTx ==
  /\ \A p \in Threads : pc[p] # "idle" => tx[p] \in 1..sequence
  /\ \A p, q \in Threads : p # q /\ pc[p] # "idle" /\ pc[q] # "idle" => tx[p] # tx[q]

\* commit_lock is held exactly inside the critical section.
LockHeld == \A p \in Threads : pc[p] \in CriticalPC <=> commitLock = p

\* Every version was written by a transaction begun before.
WritersBegun == \A t \in Tables : \A v \in DOMAIN catalog[t] : catalog[t][v] <= sequence

\* Nothing is in the catalog before apply_writes, and the tables of todo are
\* exactly those apply_writes has still to write.
AppliedBy(p) ==
  LET x == tx[p]
  IN  /\ pc[p] \in BeginPC \cup {"check"} => \A t \in Tables : ~Wrote(x, t)
      /\ pc[p] = "apply" => \A t \in todo[p] : ~Wrote(x, t)
      /\ pc[p] = "apply" => \A t \in rec[x].writes \ todo[p] : Wrote(x, t)
      /\ pc[p] = "heads" => \A t \in rec[x].writes : Wrote(x, t)
      /\ pc[p] \in {"apply", "heads"} => todo[p] \subseteq rec[x].writes

WritesApplied == \A p \in Threads : AppliedBy(p)

\* No snapshot is ahead of the catalog.
SnapshotsBehind ==
  \A x \in TxId : \A t \in rec[x].covered : rec[x].snap[t] <= Len(catalog[t])

\* What validate_snapshot found is still so for every table not yet written.
StillValid ==
  \A p \in Threads : pc[p] = "apply" =>
    \A t \in todo[p] \cap rec[tx[p]].covered : rec[tx[p]].snap[t] = Len(catalog[t])

CommitInv == OwnTx /\ LockHeld /\ WritersBegun /\ WritesApplied

\* The catalog moves only in the critical section: between the validation of
\* a snapshot and the last write nobody else adds a version.
SnapshotInv ==
  /\ TypeOK
  /\ CommitInv
  /\ Mediated => SnapshotsBehind /\ StillValid
  /\ NoLostUpdate

-----------------------------------------------------------------------------
\* The committed transactions, as the serial store sees them.
Read(x, t) == IF rec[x].snap[t] = 0 THEN NoTx ELSE catalog[t][rec[x].snap[t]]

CommittedHistory ==
  [i \in DOMAIN index |->
     LET x == index[i]
     IN  [id     |-> x,
          line   |-> IF UseBranches THEN rec[x].branch ELSE NewRecord.branch,
          reads  |-> [t \in rec[x].covered |-> Read(x, t)],
          writes |-> rec[x].writes]]

Serial == INSTANCE SerialStore
            WITH Lines <- Branches, history <- CommittedHistory

\* The committed transactions are serializable in the order of the index, as
\* long as no commit is cut short and no write bypasses the manager: each read,
\* of every table of its snapshot, the last committed write before it on its
\* branch, also when its snapshot was torn (validate_snapshot, apply_writes).
ImplementsSerialStore ==
  Serial!SerialInit /\ [][Undisturbed' => Serial!SerialNext]_CommittedHistory

-----------------------------------------------------------------------------
\* What the documentation says and the code does not do.

\* y commits after x, writes a table x wrote, and never saw x's version.
MissedWrite(i, j) ==
  LET x == index[i]
      y == index[j]
  IN  /\ SameLine(x, y)
      /\ \E t \in rec[x].writes \cap rec[y].writes :
           t \notin rec[y].covered \/ rec[y].snap[t] < VersionOf(x, t)

\* docs/TECHNICAL_FOUNDATIONS.md:98: of two transactions that write the same
\* table concurrently, one is aborted.
ConcurrentWritersExcluded ==
  \A i, j \in DOMAIN index : i < j => ~MissedWrite(i, j)

\* docs/TECHNICAL_FOUNDATIONS.md:102: writers conflict only when concurrent,
\* so a transaction told WriteConflict did miss a committed write.
ConflictNeedsConcurrency ==
  \A y \in TxId : outcome[y] = "WriteConflict" =>
    \E i \in DOMAIN index :
      \E t \in rec[index[i]].writes \cap rec[y].writes :
        t \notin rec[y].covered \/ rec[y].snap[t] < VersionOf(index[i], t)

\* docs/TECHNICAL_FOUNDATIONS.md:136: the snapshot a transaction reads from is
\* a point in time: of another transaction's writes, what begin captures holds
\* all or none.
SnapshotIsPointInTime ==
  \A p \in Threads : pc[p] = "snapped" =>
    LET own  == rec[tx[p]]
        seen == {x \in TxId : \E t \in own.covered :
                   own.snap[t] # 0 /\ catalog[t][own.snap[t]] = x}
    IN  \A x \in seen : \A t \in rec[x].writes :
          Wrote(x, t) /\ t \in own.covered /\ own.snap[t] >= VersionOf(x, t)

\* rhizo_core/src/transaction/recovery.rs:92: recovery preserves a transaction
\* that was committed: none whose commit returned Ok is on record as aborted.
CommittedIsPreserved == \A x \in TxId : outcome[x] = "Ok" => txLog[x] # "aborted"

\* docs/TECHNICAL_FOUNDATIONS.md:139: all operations of a transaction commit
\* together or none does.  A transaction that recovery has marked aborted
\* must have left nothing in the catalog.
RolledBackLeavesNothing ==
  \A x \in TxId : txLog[x] = "aborted" => \A t \in Tables : ~Wrote(x, t)
=============================================================================
