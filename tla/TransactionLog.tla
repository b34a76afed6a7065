---------------------------- MODULE TransactionLog ----------------------------
(***************************************************************************)
(* The files of the transaction log (rhizo_core/src/transaction/log.rs and *)
(* epoch.rs), file by file, as the calls of the manager write them, crash  *)
(* recovery (recovery.rs), and a subscriber to the changelog               *)
(* (manager.rs, changelog/, python/rhizo/subscriber.py).                   *)
(*                                                                         *)
(* One call runs at a time, as the Python binding holds the interpreter's  *)
(* lock for the whole of each; a crash or an I/O error comes between any   *)
(* two of its writes.  What a commit checks and writes to the catalog is   *)
(* TransactionManager's.  The manager opens no epoch but the first.        *)
(***************************************************************************)
EXTENDS Integers, SequencesExt

CONSTANTS
  Tables,
  Wanted,       \* tables the subscriber asks for
  None,         \* no such file
  MaxTx,        \* bound on transaction identifiers
  MaxCrashes,   \* bound on crashes
  MaxErrors     \* bound on I/O errors and failed callbacks

TxId == 1..MaxTx

\* EpochMetadata; its status stays Active.
Epoch == [transactions : Seq(TxId), committed : Nat, aborted : Nat]

ASSUME LogAssumption ==
  /\ Wanted \subseteq Tables /\ MaxTx \in Nat \ {0}
  /\ MaxCrashes \in Nat /\ MaxErrors \in Nat
  /\ None \notin (0..MaxTx) \cup Seq(TxId) \cup Epoch

VARIABLES
  sequence,     \* _sequence
  epoch,        \* _epoch_sequence: 1, or None
  meta,         \* _meta.json of epoch 1
  record,       \* tx_NNNNNN.json of each transaction
  latest,       \* _latest_committed
  index,        \* _committed_index
  open,         \* active transactions, and the tables each has written
  call,         \* the call under way
  cursor,       \* Subscriber._last_tx_id
  batch,        \* entries polled, not yet handed to the callback
  faults,       \* crashes, errors
  \* history
  acked,        \* transactions whose commit returned Ok
  delivered     \* entries handed to the callback

files == <<sequence, epoch, meta, record, latest, index>>
subscriber == <<cursor, batch, delivered>>
vars == <<files, open, call, subscriber, faults, acked>>

Idle == [op |-> "none"]
NoRecord == [status |-> "none", writes |-> {}]
Active(x) == x \in DOMAIN open

\* EpochMetadata::new.
NewEpoch == [transactions |-> << >>, committed |-> 0, aborted |-> 0]
AddTransaction(e, x) == [e EXCEPT !.transactions = Append(@, x)]
RecordCommit(e) == [e EXCEPT !.committed = @ + 1]
RecordAbort(e) == [e EXCEPT !.aborted = @ + 1]

IsCommitted(x) == record[x].status = "committed"
Entries == {x \in TxId : record[x].status # "none"}

-----------------------------------------------------------------------------
(* Writing: begin, add_write, commit, abort.                                *)

Goto(at) == call' = [call EXCEPT !.at = at]
At(op, at) == call.op = op /\ call.at = at
Return == call' = Idle

\* write_transaction: the record, renamed into place.
WriteRecord(x, status, writes) ==
  record' = [record EXCEPT ![x] = [status |-> status, writes |-> writes]]

\* begin: next_tx_id.
BeginSequence ==
  /\ call = Idle /\ sequence < MaxTx
  /\ sequence' = sequence + 1
  /\ call' = [op |-> "begin", x |-> sequence', at |-> IF epoch = None THEN "create" ELSE "record"]
  /\ UNCHANGED <<epoch, meta, record, latest, index, open, acked>>

\* current_epoch_id: create_epoch writes the metadata, then the sequence.
CreateEpoch ==
  /\ At("begin", "create")
  /\ meta' = NewEpoch /\ Goto("epoch")
  /\ UNCHANGED <<sequence, epoch, record, latest, index, open, acked>>

EpochSequence ==
  /\ At("begin", "epoch")
  /\ epoch' = 1 /\ Goto("record")
  /\ UNCHANGED <<sequence, meta, record, latest, index, open, acked>>

BeginRecord ==
  /\ At("begin", "record")
  /\ WriteRecord(call.x, "active", {}) /\ Goto("meta")
  /\ UNCHANGED <<sequence, epoch, meta, latest, index, open, acked>>

BeginMeta ==
  /\ At("begin", "meta")
  /\ meta' = AddTransaction(meta, call.x)
  /\ open' = [y \in DOMAIN open \cup {call.x} |-> IF y = call.x THEN {} ELSE open[y]]
  /\ Return
  /\ UNCHANGED <<sequence, epoch, record, latest, index, acked>>

\* add_write; one table is enough to tell a wanted change from another.
AddWrite(x, t) ==
  /\ call = Idle /\ Active(x) /\ open[x] = {}
  /\ open' = [open EXCEPT ![x] = {t}]
  /\ UNCHANGED <<files, call, acked>>

Close(x) == open' = [y \in DOMAIN open \ {x} |-> open[y]]

\* commit and abort write the record; a commit that fails is aborted by its
\* caller (TransactionContext.commit).
EndCall(x, op) ==
  /\ call = Idle /\ Active(x)
  /\ call' = [op |-> op, x |-> x, at |-> "record"]
  /\ UNCHANGED <<files, open, acked>>

CommitRecord ==
  /\ At("commit", "record")
  /\ WriteRecord(call.x, "committed", open[call.x]) /\ Goto("latest")
  /\ UNCHANGED <<sequence, epoch, meta, latest, index, open, acked>>

CommitLatest ==
  /\ At("commit", "latest")
  /\ latest' = call.x /\ Goto("index")
  /\ UNCHANGED <<sequence, epoch, meta, record, index, open, acked>>

\* Mutant: the index is opened for writing, not for appending.
CommitIndexTruncated ==
  /\ At("commit", "index")
  /\ index' = <<call.x>> /\ Goto("meta")
  /\ UNCHANGED <<sequence, epoch, meta, record, latest, open, acked>>

\* append_committed_index creates the file if there is none.
CommitIndex ==
  /\ At("commit", "index")
  /\ index' = Append(IF index = None THEN << >> ELSE index, call.x) /\ Goto("meta")
  /\ UNCHANGED <<sequence, epoch, meta, record, latest, open, acked>>

CommitMeta ==
  /\ At("commit", "meta")
  /\ meta' = RecordCommit(meta)
  /\ acked' = acked \cup {call.x} /\ Close(call.x) /\ Return
  /\ UNCHANGED <<sequence, epoch, record, latest, index>>

AbortRecord ==
  /\ At("abort", "record")
  /\ WriteRecord(call.x, "aborted", open[call.x]) /\ Goto("meta")
  /\ UNCHANGED <<sequence, epoch, meta, latest, index, open, acked>>

AbortMeta ==
  /\ At("abort", "meta")
  /\ meta' = RecordAbort(meta)
  /\ Close(call.x) /\ Return
  /\ UNCHANGED <<sequence, epoch, record, latest, index, acked>>

-----------------------------------------------------------------------------
(* recover_and_apply                                                        *)

\* Mutant: whatever has not been aborted is rolled back.
RollbackUnlessAborted(x) == record[x].status \in {"active", "committed"}

\* decide: what has not ended is rolled back.
Rollback(x) == record[x].status = "active"

\* RecoveryReport: what recover finds in the one epoch, which no call ever
\* marks as committed.
Report ==
  [committed |-> {x \in Entries : IsCommitted(x)},
   aborted |-> {x \in Entries : record[x].status = "aborted"},
   rolledBack |-> {x \in Entries : Rollback(x)}]

RecoverScan ==
  /\ call = Idle
  /\ call' = [op |-> "recover", at |-> "apply", report |-> Report, todo |-> Report.rolledBack]
  /\ UNCHANGED <<files, open, acked>>

\* The record that is next, and the call without it.
NextToApply == CHOOSE x \in call.todo : \A y \in call.todo : x <= y
Applied == [call EXCEPT !.todo = @ \ {NextToApply}]

\* One record after another is read again and marked aborted.
RecoverApply ==
  /\ At("recover", "apply")
  /\ IF call.todo = {} THEN Return /\ UNCHANGED record
     ELSE /\ IF Rollback(NextToApply)
             THEN WriteRecord(NextToApply, "aborted", record[NextToApply].writes)
             ELSE UNCHANGED record
          /\ call' = Applied
  /\ UNCHANGED <<sequence, epoch, meta, latest, index, open, acked>>

\* verify_consistency: the complaints it can have of one epoch.
VerifyConsistency ==
  {issue \in {"count mismatch"} : meta # None /\ Cardinality(Entries) # Len(meta.transactions)}

-----------------------------------------------------------------------------
(* Reading: the changelog and its subscriber.                               *)

\* The members of S from the least to the greatest.
InOrder(S) == [k \in 1..Cardinality(S) |-> CHOOSE x \in S : Cardinality({y \in S : y < x}) = k - 1]

\* What a list has at these places.
Sublist(list, places) == [k \in 1..Cardinality(places) |-> list[InOrder(places)[k]]]

\* Mutant: the rebuilt index lists every record.
ScannedAll == InOrder(Entries)

\* rebuild_committed_index: in the order of identifiers, and written unless
\* it is empty.
Scanned == InOrder({x \in Entries : IsCommitted(x)})
Listed == IF index = None THEN Scanned ELSE index
Backfill == index' = IF index = None /\ Scanned # << >> THEN Scanned ELSE index

\* latest_committed_tx_id: the pointer is backfilled from the list.
LatestTxId ==
  /\ call = Idle /\ latest = None
  /\ Backfill
  /\ latest' = IF Listed = << >> THEN None ELSE Last(Listed)
  /\ UNCHANGED <<sequence, epoch, meta, record, open, call, subscriber, acked>>

\* get_changelog: filter by tables.
Matches(x) == record[x].writes \cap Wanted # {}

\* Mutant: the entry of the cursor is included.
ChangelogFrom(since) ==
  Sublist(Listed, {i \in DOMAIN Listed : Listed[i] >= since /\ Matches(Listed[i])})

\* get_changelog: entries after since, in the order of the list, that change a
\* wanted table.
Changelog(since) ==
  Sublist(Listed, {i \in DOMAIN Listed : Listed[i] > since /\ Matches(Listed[i])})

\* Mutant: the cursor moves to the newest identifier.
PollToSequence ==
  /\ call = Idle /\ batch = << >>
  /\ batch' = Changelog(cursor) /\ cursor' = sequence
  /\ Backfill
  /\ UNCHANGED <<sequence, epoch, meta, record, latest, open, call, delivered, acked>>

\* _poll: the cursor moves to the last entry.
Poll ==
  /\ call = Idle /\ batch = << >>
  /\ batch' = Changelog(cursor)
  /\ cursor' = IF batch' = << >> THEN cursor ELSE Last(batch')
  /\ Backfill
  /\ UNCHANGED <<sequence, epoch, meta, record, latest, open, call, delivered, acked>>

Deliver ==
  /\ batch # << >>
  /\ delivered' = Append(delivered, Head(batch)) /\ batch' = Tail(batch)
  /\ UNCHANGED <<files, open, call, cursor, acked>>

-----------------------------------------------------------------------------
(* Faults *)

\* A write of the call fails: the context aborts a transaction it could not
\* commit, recovery goes on with the next record; of any other call nothing
\* but the error remains.
CallFails ==
  /\ call # Idle /\ (call.op = "recover" => call.todo # {})
  /\ call' = CASE call.op = "commit" -> [call EXCEPT !.op = "abort", !.at = "record"]
               [] call.op = "recover" -> Applied
               [] OTHER -> Idle
  /\ IF call.op = "abort" THEN Close(call.x) ELSE UNCHANGED open
  /\ UNCHANGED <<files, subscriber, acked>>

\* _background_loop logs an exception and polls again.
CallbackFails ==
  /\ batch # << >> /\ batch' = << >>
  /\ UNCHANGED <<files, open, call, cursor, delivered, acked>>

Fail ==
  /\ faults.errors < MaxErrors
  /\ faults' = [faults EXCEPT !.errors = @ + 1]
  /\ CallFails \/ CallbackFails

\* The new subscriber starts after the last entry its application has seen.
Crash ==
  /\ faults.crashes < MaxCrashes
  /\ faults' = [faults EXCEPT !.crashes = @ + 1]
  /\ open' = [y \in {} |-> {}] /\ call' = Idle
  /\ batch' = << >>
  /\ cursor' = IF delivered = << >> THEN 0 ELSE Last(delivered)
  /\ UNCHANGED <<files, delivered, acked>>

-----------------------------------------------------------------------------
\* TransactionLog::new on an empty directory, or on one that has transactions
\* of the time before the index and the pointer.
Init ==
  /\ \/ /\ sequence = 0 /\ epoch = None /\ meta = None
        /\ record = [x \in TxId |-> NoRecord]
     \/ /\ sequence = 1 /\ epoch = 1
        /\ meta = [NewEpoch EXCEPT !.transactions = <<1>>, !.committed = 1]
        /\ record = [x \in TxId |->
              IF x = 1 THEN [status |-> "committed", writes |-> Wanted] ELSE NoRecord]
  /\ latest = None /\ index = None
  /\ open = [y \in {} |-> {}] /\ call = Idle
  /\ cursor = 0 /\ batch = << >> /\ delivered = << >>
  /\ faults = [crashes |-> 0, errors |-> 0]
  /\ acked = {}

Running ==
  \/ CreateEpoch \/ EpochSequence \/ BeginRecord \/ BeginMeta
  \/ CommitRecord \/ CommitLatest \/ CommitIndex \/ CommitMeta
  \/ AbortRecord \/ AbortMeta \/ RecoverApply

Calling ==
  \/ BeginSequence \/ RecoverScan
  \/ \E x \in TxId : (\E t \in Tables : AddWrite(x, t)) \/ EndCall(x, "commit") \/ EndCall(x, "abort")

Step == (Running \/ Calling) /\ UNCHANGED <<subscriber, faults>>
Subscribe == (Poll \/ Deliver \/ LatestTxId) /\ UNCHANGED faults
Next == Step \/ Subscribe \/ Fail \/ Crash

Spec == Init /\ [][Next]_vars

\* A call that has begun goes on, and so does the loop of the subscriber, who
\* gets the interpreter's lock again and again between the calls of others.
FairSpec ==
  /\ Spec
  /\ WF_vars(Running /\ UNCHANGED <<subscriber, faults>>)
  /\ SF_vars(Poll /\ UNCHANGED faults)
  /\ WF_vars(Deliver /\ UNCHANGED faults)

-----------------------------------------------------------------------------
(* Properties *)

\* Types; the epoch that begin, commit and abort look up has metadata.
TypeOK ==
  /\ sequence \in 0..MaxTx /\ epoch \in {None, 1}
  /\ \A x \in TxId : record[x].status \in {"none", "active", "committed", "aborted"}
                     /\ record[x].writes \subseteq Tables
  /\ epoch = 1 => meta # None
  /\ latest \in TxId \cup {None}
  /\ \A x \in TxId : Active(x) => record[x].status # "none"
  /\ cursor \in 0..MaxTx /\ acked \subseteq TxId

\* What the pointer and the index lead a reader to is a committed transaction,
\* listed once, wherever a crash cut a commit short and whenever recovery ran,
\* as long as no write failed (log.rs:270, recovery.rs:219).
ListedAreCommitted ==
  faults.errors = 0 =>
    /\ latest # None => IsCommitted(latest)
    /\ \A i \in DOMAIN Listed : IsCommitted(Listed[i])
    /\ \A i, j \in DOMAIN Listed : Listed[i] = Listed[j] => i = j

\* A transaction whose commit returned Ok is committed and in the changelog for
\* good, through crashes, errors of others, recovery and a rebuilt index.
AckedAreListed ==
  \A x \in acked : IsCommitted(x) /\ \E i \in DOMAIN Listed : Listed[i] = x

\* A recovery does what it reports: every record it found belongs to one list,
\* the committed ones stay as they are, and at its end the others are aborted,
\* the ones that were being written when the process ended included.
RecoveredAsReported ==
  call.op = "recover" =>
    LET report == call.report
    IN /\ Entries = report.committed \cup report.aborted \cup report.rolledBack
       /\ report.committed = {x \in Entries : IsCommitted(x)}
       /\ call.todo = {} /\ faults.errors = 0 =>
            \A x \in report.aborted \cup report.rolledBack : record[x].status = "aborted"

\* The metadata of the epoch falls behind the record files by at most one
\* transaction for each crash or error, never ahead; verify_consistency has
\* nothing to say of a log that saw no fault.
CountsLagByFaults ==
  call = Idle /\ meta # None =>
    LET lag == 0..(faults.crashes + faults.errors)
    IN /\ Cardinality(Entries) - Len(meta.transactions) \in lag
       /\ Cardinality({x \in Entries : IsCommitted(x)}) - meta.committed \in lag
       /\ VerifyConsistency # {} => lag # {0}

\* What recovery and its check of consistency can rely on.
LogInv == TypeOK /\ RecoveredAsReported /\ CountsLagByFaults

Ascending == \A i, j \in DOMAIN Listed : i < j => Listed[i] < Listed[j]

\* As long as transactions commit in the order they began in and no callback
\* fails, the subscriber gets every change of a wanted table once and in order,
\* also over its own restarts (subscriber.py:237).
EachChangeOnce ==
  Ascending /\ faults.errors = 0 =>
    delivered \o batch = Sublist(Listed, {i \in DOMAIN Listed : Listed[i] <= cursor /\ Matches(Listed[i])})

\* A committed record stays so, whatever recovery or an abort does later, if no
\* write failed.
CommittedIsFinal ==
  [][faults'.errors = 0 => \A x \in TxId : IsCommitted(x) => IsCommitted(x)']_vars

\* Every acknowledged change reaches the subscriber, unless a transaction
\* overtook another or a callback failed.
ChangesArrive ==
  \A x \in TxId :
    x \in acked /\ Matches(x)
      ~> (\E i \in DOMAIN delivered : delivered[i] = x) \/ ~Ascending \/ faults.errors > 0

\* "poll() updates cursor so next poll only gets new events": no entry comes
\* twice (tests/test_changelog.py:239).
OnlyNewEvents ==
  faults.crashes = 0 => \A i, j \in DOMAIN delivered : delivered[i] = delivered[j] => i = j

\* "The callback is called for each new event" (subscriber.py:202): a call that
\* raises accounts for the entry it was called with.  The code drops the rest
\* of the batch too, for the cursor is past it already.
CallbackForEachEvent ==
  LET passed == {Listed[i] : i \in {j \in DOMAIN Listed :
                   Listed[j] <= cursor /\ Matches(Listed[j])}}
  IN Ascending /\ faults.crashes = 0 =>
       Cardinality(passed \ ToSet(delivered \o batch)) <= faults.errors
=============================================================================
