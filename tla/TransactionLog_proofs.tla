------------------------- MODULE TransactionLog_proofs -------------------------
(***************************************************************************)
(* What a commit writes is for good, and what is read of it is right: for  *)
(* any number of transactions, tables, crashes and errors, no begin, abort *)
(* or recovery ever rewrites the record of a transaction whose commit      *)
(* returned Ok; it is in the changelog from then on; and, as long as no    *)
(* write fails, the changelog and the pointer lead to committed            *)
(* transactions only, and a subscriber gets each change once.              *)
(*                                                                         *)
(* LogOwn says what the call under way owns, and FilesOwn what the files   *)
(* and the subscriber have of it; both are inductive.                      *)
(***************************************************************************)
EXTENDS TransactionLog, FiniteSetTheorems, TLAPS

\* The calls that are under way, and where they are.
BeginSteps == {"create", "epoch", "record", "meta"}
CommitSteps == {"record", "latest", "index", "meta"}
AbortSteps == {"record", "meta"}

Named == call.op \in {"begin", "commit", "abort"}

CallShape ==
  /\ call.op \in {"none", "begin", "commit", "abort", "recover"}
  /\ call.op = "begin" => DOMAIN call = {"op", "x", "at"} /\ call.at \in BeginSteps
  /\ call.op = "commit" => DOMAIN call = {"op", "x", "at"} /\ call.at \in CommitSteps
  /\ call.op = "abort" => DOMAIN call = {"op", "x", "at"} /\ call.at \in AbortSteps
  /\ call.op = "recover" => DOMAIN call = {"op", "at", "report", "todo"} /\ call.at = "apply"

Typed ==
  /\ sequence \in 0..MaxTx
  /\ record = [x \in TxId |-> record[x]]
  /\ \A x \in TxId : DOMAIN record[x] = {"status", "writes"}
  /\ DOMAIN faults = {"crashes", "errors"} /\ faults.errors \in Nat
  /\ acked \subseteq TxId

\* A begin works on the newest identifier, which nothing is known of yet; an
\* open transaction is older, and a commit or an abort is of an open one.
Numbered ==
  /\ DOMAIN open \subseteq 1..sequence
  /\ acked \subseteq 1..sequence
  /\ \A x \in TxId : record[x].status # "none" => x <= sequence
  /\ call.op = "begin" => /\ call.x = sequence /\ sequence \in TxId
                          /\ ~Active(call.x) /\ call.x \notin acked
                          /\ record[call.x].status \in {"none", "active"}
  /\ call.op \in {"commit", "abort"} => Active(call.x)

\* A transaction that is acknowledged is committed and no longer open.
AckedClosed ==
  /\ \A x \in acked : IsCommitted(x) /\ ~Active(x)
  /\ At("commit", "latest") \/ At("commit", "index") \/ At("commit", "meta") => IsCommitted(call.x)

\* Unless a write failed, an open transaction has a committed record just while
\* its commit goes on.
OpenUncommitted ==
  faults.errors = 0 =>
    \A x \in DOMAIN open :
      IsCommitted(x) => call.op = "commit" /\ call.x = x /\ call.at # "record"

LogOwn == CallShape /\ Typed /\ Numbered /\ AckedClosed /\ OpenUncommitted

LEMMA LogBegins == Init => LogOwn
BY LogAssumption DEF Init, LogOwn, CallShape, Typed, Numbered, AckedClosed, OpenUncommitted,
   Idle, NoRecord, TxId, Active, IsCommitted, At

\* begin: no other transaction has the identifier it takes.
LEMMA BeginOwn ==
  ASSUME LogOwn, UNCHANGED faults,
         BeginSequence \/ CreateEpoch \/ EpochSequence \/ BeginRecord \/ BeginMeta
  PROVE  LogOwn'
<1> USE LogAssumption DEF TxId, Active, IsCommitted, At
<1>1. CASE BeginSequence
  <2>1. /\ call.op = "none" /\ sequence' = sequence + 1 /\ sequence' \in TxId
        /\ DOMAIN call' = {"op", "x", "at"} /\ call'.op = "begin" /\ call'.x = sequence'
        /\ call'.at \in {"create", "record"}
        /\ UNCHANGED <<record, open, acked, faults>>
    BY <1>1 DEF BeginSequence, Idle, LogOwn, Typed
  <2>2. CallShape' /\ Typed'
    BY <2>1 DEF LogOwn, CallShape, Typed, BeginSteps
  <2>3. Numbered'
    BY <2>1 DEF LogOwn, Typed, Numbered
  <2>4. AckedClosed' /\ OpenUncommitted'
    BY <2>1 DEF LogOwn, AckedClosed, OpenUncommitted
  <2> QED
    BY <2>2, <2>3, <2>4 DEF LogOwn
<1>2. CASE CreateEpoch \/ EpochSequence
  <2>1. /\ call.op = "begin" /\ DOMAIN call' = DOMAIN call /\ call'.op = "begin"
        /\ call'.x = call.x /\ call'.at \in {"epoch", "record"}
        /\ UNCHANGED <<sequence, record, open, acked, faults>>
    BY <1>2 DEF CreateEpoch, EpochSequence, Goto, LogOwn, CallShape
  <2> QED
    BY <2>1 DEF LogOwn, CallShape, BeginSteps, Typed, Numbered, AckedClosed, OpenUncommitted
<1>3. CASE BeginRecord
  <2>1. /\ call.op = "begin" /\ DOMAIN call' = DOMAIN call /\ call'.op = "begin"
        /\ call'.x = call.x /\ call'.at = "meta"
        /\ UNCHANGED <<sequence, open, acked, faults>>
        /\ record' = [record EXCEPT ![call.x] = [status |-> "active", writes |-> {}]]
    BY <1>3 DEF BeginRecord, WriteRecord, Goto, LogOwn, CallShape
  <2>2. /\ call.x = sequence /\ call.x \in TxId /\ call.x \notin DOMAIN open
        /\ call.x \notin acked
        /\ record'[call.x].status = "active" /\ DOMAIN record'[call.x] = {"status", "writes"}
        /\ \A x \in TxId \ {call.x} : record'[x] = record[x]
        /\ record' = [x \in TxId |-> record'[x]]
    BY <2>1 DEF LogOwn, Typed, Numbered
  <2>3. CallShape' /\ Typed'
    BY <2>1, <2>2 DEF LogOwn, CallShape, BeginSteps, Typed
  <2>4. Numbered'
    BY <2>1, <2>2 DEF LogOwn, Numbered
  <2>5. \A x \in acked \cup DOMAIN open : record'[x] = record[x]
    BY <2>1, <2>2 DEF LogOwn, Typed, Numbered
  <2>6. AckedClosed'
    BY <2>1, <2>5 DEF LogOwn, AckedClosed
  <2>7. OpenUncommitted'
    BY <2>1, <2>5 DEF LogOwn, OpenUncommitted
  <2> QED
    BY <2>3, <2>4, <2>6, <2>7 DEF LogOwn
<1>4. CASE BeginMeta
  <2>1. /\ call.op = "begin" /\ call'.op = "none"
        /\ DOMAIN open' = DOMAIN open \cup {call.x}
        /\ UNCHANGED <<sequence, record, acked, faults>>
        /\ call.x = sequence /\ call.x \in TxId /\ call.x \notin acked
        /\ record[call.x].status # "committed"
    BY <1>4 DEF BeginMeta, Return, Idle, LogOwn, Numbered
  <2>2. CallShape' /\ Typed'
    BY <2>1 DEF LogOwn, CallShape, Typed
  <2>3. Numbered'
    BY <2>1 DEF LogOwn, Typed, Numbered
  <2>4. AckedClosed' /\ OpenUncommitted'
    BY <2>1 DEF LogOwn, AckedClosed, OpenUncommitted
  <2> QED
    BY <2>2, <2>3, <2>4 DEF LogOwn
<1> QED
  BY <1>1, <1>2, <1>3, <1>4

\* The context of a transaction: add_write, and the begin of commit and abort.
LEMMA CallOwn ==
  ASSUME LogOwn, UNCHANGED faults,
         NEW x \in TxId, (\E t \in Tables : AddWrite(x, t)) \/ EndCall(x, "commit") \/ EndCall(x, "abort")
  PROVE  LogOwn'
<1>1. CASE \E t \in Tables : AddWrite(x, t)
  <2>1. DOMAIN open' = DOMAIN open /\ UNCHANGED <<sequence, record, call, acked, faults>>
    BY <1>1 DEF AddWrite, files
  <2> QED
    BY <2>1 DEF LogOwn, CallShape, Typed, Numbered, AckedClosed, OpenUncommitted, Active, IsCommitted, At
<1>2. CASE EndCall(x, "commit") \/ EndCall(x, "abort")
  <2>1. /\ call.op = "none" /\ call'.op \in {"commit", "abort"} /\ call'.at = "record"
        /\ call'.x = x /\ DOMAIN call' = {"op", "x", "at"} /\ x \in DOMAIN open
        /\ UNCHANGED <<sequence, record, open, acked, faults>>
    BY <1>2 DEF EndCall, Idle, files, Active
  <2>2. CallShape' /\ Typed'
    BY <2>1 DEF LogOwn, CallShape, CommitSteps, AbortSteps, Typed
  <2>3. Numbered' /\ AckedClosed' /\ OpenUncommitted'
    BY <2>1 DEF LogOwn, Numbered, AckedClosed, OpenUncommitted, Active, IsCommitted, At
  <2> QED
    BY <2>2, <2>3 DEF LogOwn
<1> QED
  BY <1>1, <1>2

\* commit: once it is written the record is committed, and it is acknowledged
\* when the transaction closes.
LEMMA CommitOwn ==
  ASSUME LogOwn, UNCHANGED faults,
         CommitRecord \/ CommitLatest \/ CommitIndex \/ CommitMeta
  PROVE  LogOwn'
<1> USE DEF Active, IsCommitted, At
<1>0. call.op = "commit" /\ DOMAIN call = {"op", "x", "at"} /\ call.x \in DOMAIN open /\ call.x \in TxId
  BY LogAssumption DEF CommitRecord, CommitLatest, CommitIndex, CommitMeta, LogOwn, CallShape, Numbered, Typed, TxId
<1>1. CASE CommitRecord
  <2>1. /\ DOMAIN call' = DOMAIN call /\ call'.op = "commit"
        /\ call'.x = call.x /\ call'.at = "latest" /\ call.at = "record"
        /\ UNCHANGED <<sequence, open, acked, faults>>
        /\ record' = [record EXCEPT ![call.x] = [status |-> "committed", writes |-> open[call.x]]]
    BY <1>0, <1>1 DEF CommitRecord, WriteRecord, Goto
  <2>2. /\ record'[call.x].status = "committed" /\ DOMAIN record'[call.x] = {"status", "writes"}
        /\ \A x \in TxId \ {call.x} : record'[x] = record[x]
        /\ record' = [x \in TxId |-> record'[x]]
    BY <1>0, <2>1 DEF LogOwn, Typed
  <2>3. CallShape' /\ Typed'
    BY <1>0, <2>1, <2>2 DEF LogOwn, CallShape, CommitSteps, Typed
  <2>4. Numbered'
    BY <1>0, <2>1, <2>2 DEF LogOwn, Typed, Numbered, TxId
  <2>5. DOMAIN open \subseteq TxId /\ acked \subseteq TxId
    BY LogAssumption DEF LogOwn, Typed, Numbered, TxId
  <2>6. AckedClosed'
    BY <1>0, <2>1, <2>2, <2>5 DEF LogOwn, AckedClosed
  <2>7. OpenUncommitted'
    BY <1>0, <2>1, <2>2, <2>5 DEF LogOwn, OpenUncommitted
  <2> QED
    BY <2>3, <2>4, <2>6, <2>7 DEF LogOwn
<1>2. CASE CommitLatest \/ CommitIndex
  <2>1. /\ DOMAIN call' = DOMAIN call /\ call'.op = "commit" /\ call'.x = call.x
        /\ call.at \in {"latest", "index"} /\ call'.at \in {"index", "meta"}
        /\ UNCHANGED <<sequence, record, open, acked, faults>>
    BY <1>0, <1>2 DEF CommitLatest, CommitIndex, Goto
  <2>2. CallShape' /\ Typed'
    BY <1>0, <2>1 DEF LogOwn, CallShape, CommitSteps, Typed
  <2>3. Numbered' /\ AckedClosed' /\ OpenUncommitted'
    BY <1>0, <2>1 DEF LogOwn, Numbered, AckedClosed, OpenUncommitted
  <2> QED
    BY <2>2, <2>3 DEF LogOwn
<1>3. CASE CommitMeta
  <2>1. /\ call.at = "meta" /\ call'.op = "none" /\ acked' = acked \cup {call.x}
        /\ DOMAIN open' = DOMAIN open \ {call.x} /\ UNCHANGED <<sequence, record, faults>>
    BY <1>3 DEF CommitMeta, Close, Return, Idle
  <2>2. CallShape' /\ Typed'
    BY <1>0, <2>1 DEF LogOwn, CallShape, Typed
  <2>3. Numbered'
    BY <1>0, <2>1 DEF LogOwn, Numbered
  <2>4. AckedClosed' /\ OpenUncommitted'
    BY <1>0, <2>1 DEF LogOwn, AckedClosed, OpenUncommitted
  <2> QED
    BY <2>2, <2>3, <2>4 DEF LogOwn
<1> QED
  BY <1>1, <1>2, <1>3

\* abort: a transaction that is open has not been acknowledged.
LEMMA AbortOwn ==
  ASSUME LogOwn, UNCHANGED faults, AbortRecord \/ AbortMeta
  PROVE  LogOwn'
<1> USE DEF Active, IsCommitted, At
<1>0. call.op = "abort" /\ DOMAIN call = {"op", "x", "at"} /\ call.x \in DOMAIN open /\ call.x \in TxId
  BY LogAssumption DEF AbortRecord, AbortMeta, LogOwn, CallShape, Numbered, Typed, TxId
<1>1. CASE AbortRecord
  <2>1. /\ DOMAIN call' = DOMAIN call /\ call'.op = "abort" /\ call'.x = call.x /\ call'.at = "meta"
        /\ UNCHANGED <<sequence, open, acked, faults>>
        /\ record' = [record EXCEPT ![call.x] = [status |-> "aborted", writes |-> open[call.x]]]
    BY <1>0, <1>1 DEF AbortRecord, WriteRecord, Goto
  <2>2. /\ record'[call.x].status = "aborted" /\ DOMAIN record'[call.x] = {"status", "writes"}
        /\ \A x \in TxId \ {call.x} : record'[x] = record[x]
        /\ record' = [x \in TxId |-> record'[x]]
    BY <1>0, <2>1 DEF LogOwn, Typed
  <2>3. CallShape' /\ Typed'
    BY <1>0, <2>1, <2>2 DEF LogOwn, CallShape, AbortSteps, Typed
  <2>4. Numbered'
    BY <1>0, <2>1, <2>2 DEF LogOwn, Typed, Numbered, TxId
  <2>5. DOMAIN open \subseteq TxId /\ acked \subseteq TxId
    BY LogAssumption DEF LogOwn, Typed, Numbered, TxId
  <2>6. AckedClosed'
    BY <1>0, <2>1, <2>2, <2>5 DEF LogOwn, AckedClosed
  <2>7. OpenUncommitted'
    BY <1>0, <2>1, <2>2, <2>5 DEF LogOwn, OpenUncommitted
  <2> QED
    BY <2>3, <2>4, <2>6, <2>7 DEF LogOwn
<1>2. CASE AbortMeta
  <2>1. /\ call'.op = "none" /\ DOMAIN open' = DOMAIN open \ {call.x}
        /\ UNCHANGED <<sequence, record, acked, faults>>
    BY <1>2 DEF AbortMeta, Close, Return, Idle
  <2> QED
    BY <1>0, <2>1 DEF LogOwn, CallShape, Typed, Numbered, AckedClosed, OpenUncommitted
<1> QED
  BY <1>1, <1>2

\* recovery: only a record that is active is marked aborted.
LEMMA RecoverOwn ==
  ASSUME LogOwn, UNCHANGED faults, RecoverScan \/ RecoverApply
  PROVE  LogOwn'
<1> USE DEF Active, IsCommitted, At
<1>1. CASE RecoverScan
  <2>1. /\ call.op = "none" /\ call'.op = "recover" /\ call'.at = "apply"
        /\ DOMAIN call' = {"op", "at", "report", "todo"}
        /\ UNCHANGED <<sequence, record, open, acked, faults>>
    BY <1>1 DEF RecoverScan, Idle, files
  <2> QED
    BY <2>1 DEF LogOwn, CallShape, Typed, Numbered, AckedClosed, OpenUncommitted
<1>2. CASE RecoverApply
  <2>1. /\ call.op = "recover" /\ UNCHANGED <<sequence, open, acked, faults>>
        /\ \/ call'.op = "none" /\ record' = record
           \/ /\ DOMAIN call' = DOMAIN call /\ call'.op = "recover" /\ call'.at = call.at
              /\ \/ record' = record
                 \/ /\ Rollback(NextToApply)
                    /\ record' = [record EXCEPT ![NextToApply] =
                                    [status |-> "aborted", writes |-> record[NextToApply].writes]]
    <3>1. CASE call.todo = {}
      BY <1>2, <3>1 DEF RecoverApply, Return, Idle
    <3>2. CASE call.todo # {}
      <4>1. call.op = "recover" /\ call' = Applied /\ DOMAIN call = {"op", "at", "report", "todo"}
        BY <1>2, <3>2 DEF RecoverApply, LogOwn, CallShape
      <4>2. DOMAIN call' = DOMAIN call /\ call'.op = "recover" /\ call'.at = call.at
        BY <4>1 DEF Applied
      <4> QED
        BY <1>2, <3>2, <4>1, <4>2 DEF RecoverApply, WriteRecord
    <3> QED
      BY <3>1, <3>2
  <2>2. /\ \A x \in TxId : \/ record'[x] = record[x]
                           \/ record[x].status = "active" /\ record'[x].status = "aborted"
        /\ \A x \in TxId : DOMAIN record'[x] = {"status", "writes"}
        /\ record' = [x \in TxId |-> record'[x]]
    BY <2>1 DEF LogOwn, Typed, Rollback
  <2>3. CallShape' /\ Typed'
    BY <2>1, <2>2 DEF LogOwn, CallShape, Typed
  <2>4. Numbered'
    BY <2>1, <2>2 DEF LogOwn, Numbered
  <2>5. DOMAIN open \subseteq TxId /\ acked \subseteq TxId
    BY LogAssumption DEF LogOwn, Typed, Numbered, TxId
  <2>6. AckedClosed' /\ OpenUncommitted'
    BY <2>1, <2>2, <2>5 DEF LogOwn, AckedClosed, OpenUncommitted
  <2> QED
    BY <2>3, <2>4, <2>6 DEF LogOwn
<1> QED
  BY <1>1, <1>2

\* The reading side writes no record.
LEMMA ReadOwn ==
  ASSUME LogOwn, Subscribe
  PROVE  LogOwn' /\ UNCHANGED <<record, faults>>
<1>1. UNCHANGED <<sequence, record, open, call, acked, faults>>
  BY DEF Subscribe, Poll, Deliver, LatestTxId, files
<1> QED
  BY <1>1 DEF LogOwn, CallShape, Typed, Numbered, AckedClosed, OpenUncommitted, Active, IsCommitted, At

\* An error ends the call or turns a commit into an abort.
LEMMA FailOwn ==
  ASSUME LogOwn, Fail
  PROVE  LogOwn' /\ faults'.errors # 0 /\ UNCHANGED record
<1> USE DEF Active, IsCommitted, At
<1>1. /\ DOMAIN faults' = DOMAIN faults /\ faults'.errors \in Nat /\ faults'.errors # 0
      /\ UNCHANGED <<sequence, record, acked>>
  BY DEF Fail, CallFails, CallbackFails, files, LogOwn, Typed
<1>2. CASE CallFails
  <2>1. CASE call.op = "commit"
    <3>1. /\ DOMAIN call' = DOMAIN call /\ call'.op = "abort" /\ call'.at = "record"
          /\ call'.x = call.x /\ UNCHANGED open
      BY <1>2, <2>1 DEF CallFails, LogOwn, CallShape
    <3> QED
      BY <1>1, <2>1, <3>1
      DEF LogOwn, CallShape, AbortSteps, Typed, Numbered, AckedClosed, OpenUncommitted
  <2>2. CASE call.op = "recover"
    <3>1. /\ DOMAIN call' = DOMAIN call /\ call'.op = "recover" /\ call'.at = call.at
          /\ UNCHANGED open
      BY <1>2, <2>2 DEF CallFails, Applied, LogOwn, CallShape
    <3> QED
      BY <1>1, <2>2, <3>1
      DEF LogOwn, CallShape, Typed, Numbered, AckedClosed, OpenUncommitted
  <2>3. CASE call.op \notin {"commit", "recover"}
    <3>1. call'.op = "none" /\ DOMAIN open' \subseteq DOMAIN open
      BY <1>2, <2>3 DEF CallFails, Close, Idle
    <3> QED
      BY <1>1, <3>1 DEF LogOwn, CallShape, Typed, Numbered, AckedClosed, OpenUncommitted
  <2> QED
    BY <2>1, <2>2, <2>3
<1>3. CASE CallbackFails
  <2>1. UNCHANGED <<open, call>>
    BY <1>3 DEF CallbackFails
  <2> QED
    BY <1>1, <2>1 DEF LogOwn, CallShape, Typed, Numbered, AckedClosed, OpenUncommitted
<1> QED
  BY <1>2, <1>3 DEF Fail

\* After a crash nothing is open, whatever the files say.
LEMMA CrashOwn ==
  ASSUME LogOwn, Crash
  PROVE  LogOwn' /\ UNCHANGED record
<1>1. /\ DOMAIN faults' = DOMAIN faults /\ faults'.errors = faults.errors
      /\ DOMAIN open' = {} /\ call'.op = "none" /\ UNCHANGED <<sequence, record, acked>>
  BY DEF Crash, files, Idle, LogOwn, Typed
<1> QED
  BY <1>1 DEF LogOwn, CallShape, Typed, Numbered, AckedClosed, OpenUncommitted, Active, IsCommitted, At

LEMMA StepOwn ==
  ASSUME LogOwn, Step
  PROVE  LogOwn'
<1>1. ASSUME Calling PROVE LogOwn'
  BY <1>1, BeginOwn, RecoverOwn, CallOwn DEF Step, Calling
<1>2. ASSUME Running PROVE LogOwn'
  BY <1>2, BeginOwn, CommitOwn, AbortOwn, RecoverOwn DEF Step, Running
<1> QED
  BY <1>1, <1>2 DEF Step

LEMMA NextOwn ==
  ASSUME LogOwn, [Next]_vars
  PROVE  LogOwn'
<1>1. CASE UNCHANGED vars
  BY <1>1 DEF vars, files, subscriber, LogOwn, CallShape, Typed, Numbered, AckedClosed,
     OpenUncommitted, Active, IsCommitted, At
<1> QED
  BY <1>1, StepOwn, ReadOwn, FailOwn, CrashOwn DEF Next

-----------------------------------------------------------------------------
\* Only a begin and an abort write a record that is not a committed one, and
\* neither is of a transaction with a committed record, unless a write failed.
LEMMA StepKeeps ==
  ASSUME LogOwn, Step, faults.errors = 0, NEW x \in TxId, IsCommitted(x)
  PROVE  IsCommitted(x)'
<1> USE DEF IsCommitted, At, LogOwn, Typed
<1>1. CASE BeginRecord
  BY <1>1 DEF BeginRecord, WriteRecord, Numbered
<1>2. CASE CommitRecord
  BY <1>2 DEF CommitRecord, WriteRecord
<1>3. CASE AbortRecord
  <2>1. call.x # x
    BY <1>3 DEF AbortRecord, Numbered, Active, OpenUncommitted
  <2> QED
    BY <1>3, <2>1 DEF AbortRecord, WriteRecord
<1>4. CASE RecoverApply
  BY <1>4 DEF RecoverApply, WriteRecord, Rollback
<1>5. CASE ~(BeginRecord \/ CommitRecord \/ AbortRecord \/ RecoverApply)
  <2>1. record' = record
    BY <1>5 DEF Step, Running, Calling, CreateEpoch, EpochSequence, BeginMeta, CommitLatest, CommitIndex,
       CommitMeta, AbortMeta, BeginSequence, RecoverScan, AddWrite, EndCall, files
  <2> QED
    BY <2>1
<1> QED
  BY <1>1, <1>2, <1>3, <1>4, <1>5

LEMMA NextKeeps ==
  ASSUME LogOwn, [Next]_vars, faults'.errors = 0, NEW x \in TxId, IsCommitted(x)
  PROVE  IsCommitted(x)'
<1>1. CASE Step
  BY <1>1, StepKeeps DEF Step
<1>2. CASE UNCHANGED vars
  BY <1>2 DEF vars, files, IsCommitted
<1> QED
  BY <1>1, <1>2, ReadOwn, FailOwn, CrashOwn DEF Next, IsCommitted

\* Every acknowledged transaction stays committed (commit, abort, recover), also
\* over crashes and failed writes.
AckedAreCommitted == \A x \in acked : IsCommitted(x)

\* What the calls under way own is an invariant of the log.
THEOREM LogCorrect == Spec => []LogOwn
<1>1. LogOwn /\ [Next]_vars => LogOwn'
  BY NextOwn
<1> QED
  BY <1>1, LogBegins, PTL DEF Spec

\* A transaction whose commit returned Ok is committed for good (commit_tx_internal).
THEOREM AckedStayCommitted == Spec => []AckedAreCommitted
<1>1. LogOwn => AckedAreCommitted
  BY DEF LogOwn, AckedClosed, AckedAreCommitted
<1> QED
  BY <1>1, LogCorrect, PTL

\* As long as no write fails, a committed record is never rewritten as anything
\* else (write_transaction).
THEOREM CommittedStays == Spec => CommittedIsFinal
<1>1. LogOwn /\ [Next]_vars =>
        [faults'.errors = 0 => \A x \in TxId : IsCommitted(x) => IsCommitted(x)']_vars
  BY NextKeeps
<1> QED
  BY <1>1, LogCorrect, PTL DEF Spec, CommittedIsFinal

-----------------------------------------------------------------------------
(* The order of identifiers                                                 *)

\* A set has no more members than another that has one for each of them.
LEMMA OneToOne ==
  ASSUME NEW S, IsFiniteSet(S), NEW T, IsFiniteSet(T), NEW f \in [S -> T],
         NEW g, \A x \in S : g[f[x]] = x
  PROVE  Cardinality(S) <= Cardinality(T)
<1>1. Cardinality(S) \in Nat /\ Cardinality(T) \in Nat
  BY FS_CardinalityType
<1>2. ASSUME Cardinality(T) < Cardinality(S) PROVE FALSE
  <2>1. PICK x, y \in S : x # y /\ f[x] = f[y]
    BY <1>2, FS_PigeonHole
  <2> QED
    BY <2>1
<1> QED
  BY <1>1, <1>2

\* How many of S come before x.
Rank(S, x) == Cardinality({y \in S : y < x})

LEMMA RankGrows ==
  ASSUME NEW S \in SUBSET Nat, IsFiniteSet(S)
  PROVE  /\ Cardinality(S) \in Nat
         /\ \A x \in S : Rank(S, x) \in 0..(Cardinality(S) - 1)
         /\ \A x, y \in S : x < y => Rank(S, x) < Rank(S, y)
<1> DEFINE B(x) == {y \in S : y < x}
<1>1. Cardinality(S) \in Nat
  BY FS_CardinalityType
<1>2. ASSUME NEW x \in S PROVE IsFiniteSet(B(x)) /\ Cardinality(B(x)) \in Nat
  <2>1. B(x) \in SUBSET S
    OBVIOUS
  <2> HIDE DEF B
  <2>2. IsFiniteSet(B(x))
    BY <2>1, FS_Subset
  <2> QED
    BY <2>2, FS_CardinalityType
<1>3. ASSUME NEW x \in S PROVE Cardinality(B(x)) \in 0..(Cardinality(S) - 1)
  <2>1. PICK T : T = S \ {x}
    OBVIOUS
  <2>2. IsFiniteSet(T) /\ Cardinality(T) = Cardinality(S) - 1
    BY <2>1, FS_RemoveElement
  <2>3. B(x) \in SUBSET T
    BY <2>1
  <2> HIDE DEF B
  <2>4. Cardinality(B(x)) <= Cardinality(T)
    BY <2>2, <2>3, FS_Subset
  <2> QED
    BY <1>1, <1>2, <2>2, <2>4
<1>4. ASSUME NEW x \in S, NEW y \in S, x < y PROVE Cardinality(B(x)) < Cardinality(B(y))
  <2>1. x \notin B(x) /\ B(x) \cup {x} \in SUBSET B(y)
    <3>1. x \in Nat /\ y \in Nat /\ \A z \in S : z \in Nat
      OBVIOUS
    <3>2. \A z \in S : z < x => z < y
      BY <1>4, <3>1
    <3>3. ~(x < x)
      BY <3>1
    <3> QED
      BY <1>4, <3>2, <3>3
  <2> HIDE DEF B
  <2>2. IsFiniteSet(B(x)) /\ IsFiniteSet(B(y))
    BY <1>2
  <2>3. Cardinality(B(x) \cup {x}) = Cardinality(B(x)) + 1
    BY <2>1, <2>2, FS_AddElement
  <2>4. Cardinality(B(x) \cup {x}) <= Cardinality(B(y))
    BY <2>1, <2>2, FS_Subset
  <2> QED
    BY <1>2, <2>3, <2>4
<1> QED
  BY <1>1, <1>3, <1>4 DEF Rank

\* Each number is the rank of one.
LEMMA RankOnto ==
  ASSUME NEW S \in SUBSET Nat, IsFiniteSet(S), NEW k \in 0..(Cardinality(S) - 1)
  PROVE  \E x \in S : Rank(S, x) = k
<1> SUFFICES ASSUME \A x \in S : Rank(S, x) # k PROVE FALSE
  OBVIOUS
<1>1. PICK N \in Nat : N = Cardinality(S)
  BY RankGrows
<1>2. PICK T : T = (0..(N - 1)) \ {k}
  OBVIOUS
<1>3. IsFiniteSet(T) /\ Cardinality(T) < Cardinality(S)
  <2>1. IsFiniteSet(0..(N - 1)) /\ Cardinality(0..(N - 1)) = N
    BY <1>1, FS_Interval
  <2>2. IsFiniteSet(T) /\ Cardinality(T) = N - 1
    BY <1>1, <1>2, <2>1, FS_RemoveElement
  <2> QED
    BY <1>1, <2>2
<1>4. PICK f : f = [x \in S |-> Rank(S, x)]
  OBVIOUS
<1>5. f \in [S -> T]
  BY <1>1, <1>2, <1>4, RankGrows
<1>6. PICK x, y \in S : x # y /\ f[x] = f[y]
  BY <1>3, <1>5, FS_PigeonHole
<1>7. Rank(S, x) = Rank(S, y) /\ (x < y \/ y < x)
  <2>1. x \in Nat /\ y \in Nat
    OBVIOUS
  <2> QED
    BY <1>4, <1>6, <2>1
<1>8. Rank(S, x) < Rank(S, y) \/ Rank(S, y) < Rank(S, x)
  BY <1>7, RankGrows
<1>9. Rank(S, x) \in Int /\ Rank(S, y) \in Int
  BY <1>1, RankGrows
<1> QED
  BY <1>7, <1>8, <1>9

\* A list goes up, and has all of S.
Rising(q) == \A j, k \in DOMAIN q : j < k => q[j] < q[k]

LEMMA OrderOf ==
  ASSUME NEW S \in SUBSET Nat, IsFiniteSet(S)
  PROVE  /\ InOrder(S) \in [1..Cardinality(S) -> S] /\ InOrder(S) \in Seq(S)
         /\ Rising(InOrder(S))
         /\ \A k \in 1..Cardinality(S) : Rank(S, InOrder(S)[k]) = k - 1
         /\ \A x \in S : \E k \in 1..Cardinality(S) : InOrder(S)[k] = x
<1>1. PICK N \in Nat : N = Cardinality(S)
  BY RankGrows
<1> DEFINE q == InOrder(S)
<1>2. q = [k \in 1..N |-> CHOOSE x \in S : Rank(S, x) = k - 1]
  BY <1>1 DEF InOrder, Rank
<1> HIDE DEF q
<1>3. ASSUME NEW k \in 1..N PROVE q[k] \in S /\ Rank(S, q[k]) = k - 1
  <2>1. \E x \in S : Rank(S, x) = k - 1
    BY <1>1, RankOnto
  <2> QED
    BY <1>2, <2>1
<1>4. q \in [1..N -> S]
  BY <1>2, <1>3
<1>5. q \in Seq(S)
  BY <1>4
<1>6. ASSUME NEW x \in S, NEW y \in S, Rank(S, x) <= Rank(S, y) PROVE x <= y
  <2>1. y < x => Rank(S, y) < Rank(S, x)
    BY RankGrows
  <2>2. Rank(S, x) \in Int /\ Rank(S, y) \in Int
    BY <1>1, RankGrows
  <2> QED
    BY <1>6, <2>1, <2>2
<1>7. ASSUME NEW j \in 1..N, NEW k \in 1..N, j < k PROVE q[j] < q[k]
  <2>1. Rank(S, q[j]) = j - 1 /\ Rank(S, q[k]) = k - 1 /\ q[j] \in S /\ q[k] \in S
    BY <1>3
  <2>2. q[j] \in Nat /\ q[k] \in Nat
    BY <2>1
  <2>3. q[j] <= q[k]
    <3>1. Rank(S, q[j]) <= Rank(S, q[k])
      BY <1>7, <2>1
    <3> QED
      BY <1>6, <2>1, <3>1
  <2>4. q[j] # q[k]
    BY <1>7, <2>1
  <2> QED
    BY <2>2, <2>3, <2>4
<1>8. Rising(q)
  BY <1>4, <1>7 DEF Rising
<1>9. ASSUME NEW x \in S PROVE \E k \in 1..N : q[k] = x
  <2>1. PICK k \in 1..N : Rank(S, x) = k - 1
    <3>1. Rank(S, x) \in 0..(N - 1)
      BY <1>1, RankGrows
    <3>2. Rank(S, x) + 1 \in 1..N
      BY <3>1
    <3> QED
      BY <3>1, <3>2
  <2>2. Rank(S, q[k]) = Rank(S, x) /\ q[k] \in S
    BY <1>3, <2>1
  <2>3. q[k] <= x /\ x <= q[k]
    <3>1. Rank(S, x) <= Rank(S, q[k]) /\ Rank(S, q[k]) <= Rank(S, x)
      BY <2>1, <2>2
    <3> QED
      BY <1>6, <2>2, <3>1
  <2>4. q[k] \in Nat /\ x \in Nat
    BY <2>2
  <2> QED
    BY <2>3, <2>4
<1> QED
  BY <1>1, <1>3, <1>4, <1>5, <1>8, <1>9 DEF q

\* There is one such list.
LEMMA OrderUnique ==
  ASSUME NEW S \in SUBSET Nat, IsFiniteSet(S), NEW N \in Nat, NEW q \in [1..N -> S], Rising(q),
         \A x \in S : \E k \in 1..N : q[k] = x
  PROVE  q = InOrder(S) /\ Cardinality(S) = N
<1>1. \A j, k \in 1..N : (q[j] < q[k] <=> j < k) /\ (q[j] = q[k] => j = k)
  <2>1. DOMAIN q = 1..N /\ \A k \in 1..N : q[k] \in Nat
    OBVIOUS
  <2>2. \A j, k \in 1..N : j < k => q[j] < q[k]
    BY <2>1 DEF Rising
  <2> QED
    BY <2>1, <2>2
<1>2. IsFiniteSet(1..N) /\ Cardinality(1..N) = N
  BY FS_Interval
<1>3. PICK at : at = [x \in S |-> CHOOSE k \in 1..N : q[k] = x]
  OBVIOUS
<1>4. at \in [S -> 1..N] /\ (\A x \in S : q[at[x]] = x) /\ \A k \in 1..N : at[q[k]] = k
  <2>1. \A x \in S : at[x] \in 1..N /\ q[at[x]] = x
    BY <1>3
  <2> QED
    BY <1>1, <1>3, <2>1
<1>5. Cardinality(S) = N
  <2>1. ~(N < Cardinality(S))
    <3>1. PICK D, G : D = 1..N /\ G = S
      OBVIOUS
    <3>2. IsFiniteSet(G) /\ IsFiniteSet(D) /\ Cardinality(D) = N
      BY <1>2, <3>1
    <3>3. at \in [G -> D] /\ \A x \in G : q[at[x]] = x
      BY <1>4, <3>1
    <3>4. Cardinality(G) <= Cardinality(D)
      BY <3>2, <3>3, OneToOne
    <3> QED
      BY <3>1, <3>2, <3>4, RankGrows
  <2>2. ~(Cardinality(S) < N)
    BY <1>1, <1>2, FS_PigeonHole
  <2> QED
    BY <2>1, <2>2, RankGrows
<1>6. ASSUME NEW k \in 1..N PROVE q[k] = InOrder(S)[k]
  <2>1. PICK r \in [1..N -> S] : r = InOrder(S)
    BY <1>5, OrderOf
  <2>2. Rising(r) /\ \A x \in S : \E i \in 1..N : r[i] = x
    BY <1>5, <2>1, OrderOf
  <2>3. Rank(S, r[k]) = k - 1
    BY <1>5, <2>1, OrderOf
  <2>4. Rank(S, q[k]) = k - 1
    <3>1. PICK B : B = {y \in S : y < q[k]}
      OBVIOUS
    <3>2. IsFiniteSet(B)
      <4>1. B \in SUBSET S
        BY <3>1
      <4> QED
        BY <4>1, FS_Subset
    <3>3. PICK f : f = [i \in 1..(k - 1) |-> q[i]]
      OBVIOUS
    <3>4. f \in [1..(k - 1) -> B] /\ \A i, j \in 1..(k - 1) : f[i] = f[j] => i = j
      BY <1>1, <3>1, <3>3
    <3>5. PICK g : g = [x \in B |-> at[x]]
      OBVIOUS
    <3>6. g \in [B -> 1..(k - 1)] /\ \A x, y \in B : g[x] = g[y] => x = y
      <4>1. \A x \in B : x \in S /\ at[x] \in 1..N /\ q[at[x]] = x /\ q[at[x]] < q[k]
        BY <1>4, <3>1
      <4> QED
        BY <1>1, <3>5, <4>1
    <3>7. IsFiniteSet(1..(k - 1)) /\ Cardinality(1..(k - 1)) = k - 1
      BY FS_Interval
    <3>8. PICK D : D = 1..(k - 1)
      OBVIOUS
    <3>9. ~(Cardinality(B) < Cardinality(D))
      BY <3>2, <3>4, <3>7, <3>8, FS_PigeonHole
    <3>10. ~(Cardinality(D) < Cardinality(B))
      BY <3>2, <3>6, <3>7, <3>8, FS_PigeonHole
    <3>11. Cardinality(B) \in Nat
      BY <3>2, FS_CardinalityType
    <3> QED
      BY <3>1, <3>7, <3>8, <3>9, <3>10, <3>11 DEF Rank
  <2>5. PICK i \in 1..N : r[i] = q[k]
    BY <2>2
  <2>6. Rank(S, r[i]) = i - 1
    BY <1>5, <2>1, OrderOf
  <2> QED
    BY <2>1, <2>4, <2>5, <2>6
<1>7. InOrder(S) \in [1..N -> S]
  BY <1>5, OrderOf
<1> QED
  BY <1>5, <1>6, <1>7

-----------------------------------------------------------------------------
(* What the invariants of the files rest on.                                *)

\* What is in a list.
Image(q) == {q[i] : i \in DOMAIN q}

Committed == {x \in TxId : IsCommitted(x)}

\* The files, the subscriber and the history have their types.
FilesTyped ==
  /\ epoch \in {None, 1} /\ meta \in Epoch \cup {None}
  /\ \A x \in TxId : /\ record[x].status \in {"none", "active", "committed", "aborted"}
                     /\ record[x].writes \subseteq Tables
  /\ \A x \in DOMAIN open : open[x] \subseteq Tables /\ record[x].status # "none"
  /\ latest \in TxId \cup {None} /\ index \in Seq(TxId) \cup {None}
  /\ cursor \in 0..MaxTx /\ batch \in Seq(TxId) /\ delivered \in Seq(TxId)
  /\ faults.crashes \in Nat

\* The epoch has metadata before it has a number, and a number before it has
\* transactions.
EpochFirst ==
  /\ epoch = 1 => meta # None
  /\ epoch = None => /\ Entries = {} /\ meta \in {None, NewEpoch}
                     /\ call.op # "begin" => DOMAIN open = {}
  /\ call.op = "begin" =>
       /\ call.at \in {"create", "epoch"} <=> epoch = None
       /\ call.at = "epoch" => meta # None
       /\ call.at = "meta" <=> record[call.x].status # "none"

\* An acknowledged transaction is in the index, as is one whose commit has got
\* that far; what the subscriber has seen comes from there.
Indexed ==
  /\ acked # {} \/ At("commit", "meta") => index # None
  /\ index # None => /\ acked \subseteq Image(index)
                     /\ At("commit", "meta") => call.x \in Image(index)
                     /\ Image(delivered) \cup Image(batch) \cup {cursor} \subseteq Image(index) \cup {0}
  /\ index = None => delivered = << >> /\ batch = << >> /\ cursor = 0

\* Unless a write failed, what is listed is committed, once, and no longer open
\* but for the commit that goes on.
ListedOnce ==
  faults.errors = 0 =>
    /\ latest # None => IsCommitted(latest)
    /\ index # None =>
         /\ Image(index) \subseteq Committed
         /\ \A i, j \in DOMAIN index : index[i] = index[j] => i = j
         /\ \A x \in Image(index) \cap DOMAIN open : At("commit", "meta") /\ call.x = x

\* A recovery has done what is not left to do.
RecoverySofar ==
  call.op = "recover" =>
    LET report == call.report
    IN /\ call.todo \subseteq report.rolledBack /\ report.rolledBack \subseteq TxId
       /\ Entries = report.committed \cup report.aborted \cup report.rolledBack
       /\ report.committed = Committed
       /\ \A x \in report.aborted : record[x].status = "aborted"
       /\ \A x \in report.rolledBack : record[x].status \in {"active", "aborted"}
       /\ faults.errors = 0 => \A x \in report.rolledBack \ call.todo : record[x].status = "aborted"

\* An open transaction is committed only while its commit goes on, or until the
\* abort has written what a failed commit is made of.
OpenCommitted ==
  \A x \in DOMAIN open : IsCommitted(x) =>
    /\ call.op \in {"commit", "abort"} /\ call.x = x
    /\ call.at = "record" <=> call.op = "abort"

Faults == faults.crashes + faults.errors
CommitWritten == call.op = "commit" /\ call.at # "record"
CommitUndone == call.op = "abort" /\ IsCommitted(call.x)

\* The metadata counts what the calls that ended without a fault have written.
Counted ==
  meta # None =>
    /\ Cardinality(Entries) - Len(meta.transactions) \in
         (IF At("begin", "meta") THEN 1 ELSE 0)..(Faults + IF At("begin", "meta") THEN 1 ELSE 0)
    /\ Cardinality(Committed) - meta.committed \in
         (IF CommitWritten \/ CommitUndone THEN 1 ELSE 0)..(Faults + IF CommitWritten THEN 1 ELSE 0)

\* The entries of a wanted table up to the cursor, of which there is one list.
Seen(list, c) == {x \in Image(list) : x <= c /\ Matches(x)}

FedInOrder ==
  faults.errors = 0 /\ index # None /\ Rising(index) =>
    delivered \o batch = InOrder(Seen(index, cursor))

FilesOwn == FilesTyped /\ EpochFirst /\ Indexed /\ ListedOnce /\ RecoverySofar
            /\ OpenCommitted /\ Counted /\ FedInOrder

\* The record of x is the only one that changes.
Rewrites(x, r) ==
  /\ x \in TxId /\ record'[x] = r
  /\ \A y \in TxId : y # x => record'[y] = record[y]

\* What is begun, committed or aborted is an identifier, and a begin is of one
\* that is not open.
LEMMA CallOf ==
  ASSUME LogOwn, Named
  PROVE  /\ DOMAIN call = {"op", "x", "at"} /\ call.x \in TxId
         /\ call.op = "begin" => call.x \notin DOMAIN open /\ call.at \in BeginSteps
         /\ call.op # "begin" => call.x \in DOMAIN open
         /\ call.op = "commit" => call.at \in CommitSteps
         /\ call.op = "abort" => call.at \in AbortSteps
BY LogAssumption DEF LogOwn, CallShape, Typed, Numbered, Named, TxId, Active

LEMMA Went ==
  ASSUME LogOwn, Named, NEW at, Goto(at)
  PROVE  call'.op = call.op /\ call'.x = call.x /\ call'.at = at
BY CallOf DEF Goto

\* What recovery turns to next is what is left to do.
LEMMA NextLeft ==
  ASSUME FilesTyped, RecoverySofar, call.op = "recover", call.todo # {}
  PROVE  NextToApply \in call.todo /\ call.todo \subseteq TxId
<1>1. PICK S : S = call.todo
  OBVIOUS
<1>2. S \in SUBSET TxId /\ S # {}
  BY <1>1 DEF RecoverySofar
<1>3. TxId \subseteq Nat /\ IsFiniteSet(TxId)
  BY LogAssumption, FS_Interval DEF TxId
<1>4. S \in SUBSET Nat /\ IsFiniteSet(S)
  BY <1>2, <1>3, FS_Subset
<1>5. 0 \in 0..(Cardinality(S) - 1)
  <2>1. PICK x \in S : TRUE
    BY <1>2
  <2> QED
    BY <1>4, <2>1, RankGrows
<1>6. PICK x \in S : Rank(S, x) = 0
  BY <1>4, <1>5, RankOnto
<1>7. ASSUME NEW y \in S PROVE x <= y
  <2>1. ~(y < x)
    BY <1>4, <1>6, RankGrows
  <2> QED
    BY <1>4, <2>1
<1>8. \E z \in S : \A y \in S : z <= y
  BY <1>7
<1> QED
  BY <1>1, <1>2, <1>8 DEF NextToApply

\* Which steps write which record.
LEMMA RecordSteps ==
  ASSUME LogOwn, FilesTyped, RecoverySofar, [Next]_vars
  PROVE  \/ record' = record /\ ~(BeginRecord \/ CommitRecord \/ AbortRecord)
         \/ BeginRecord /\ Rewrites(call.x, [status |-> "active", writes |-> {}])
         \/ CommitRecord /\ Rewrites(call.x, [status |-> "committed", writes |-> open[call.x]])
         \/ AbortRecord /\ Rewrites(call.x, [status |-> "aborted", writes |-> open[call.x]])
         \/ /\ RecoverApply /\ call.todo # {} /\ Rollback(NextToApply)
            /\ Rewrites(NextToApply, [status |-> "aborted", writes |-> record[NextToApply].writes])
<1> DEFINE Writes == BeginRecord \/ CommitRecord \/ AbortRecord
<1>1. DOMAIN record = TxId
  BY DEF LogOwn, Typed
<1>2. CASE BeginRecord
  BY <1>1, <1>2, CallOf DEF BeginRecord, At, Named, WriteRecord, Rewrites
<1>3. CASE CommitRecord
  BY <1>1, <1>3, CallOf DEF CommitRecord, At, Named, WriteRecord, Rewrites
<1>4. CASE AbortRecord
  BY <1>1, <1>4, CallOf DEF AbortRecord, At, Named, WriteRecord, Rewrites
<1>5. CASE RecoverApply /\ ~Writes
  <2>1. call.todo # {} => NextToApply \in TxId
    BY <1>5, NextLeft DEF RecoverApply, At
  <2>2. CASE call.todo = {} \/ ~Rollback(NextToApply)
    BY <1>5, <2>2 DEF RecoverApply
  <2>3. CASE call.todo # {} /\ Rollback(NextToApply)
    BY <1>1, <1>5, <2>1, <2>3 DEF RecoverApply, WriteRecord, Rewrites
  <2> QED
    BY <2>2, <2>3
<1>6. CASE Step /\ ~Writes /\ ~RecoverApply
  BY <1>6 DEF Step, Running, Calling, CreateEpoch, EpochSequence, BeginMeta, CommitLatest, CommitIndex,
     CommitMeta, AbortMeta, BeginSequence, RecoverScan, AddWrite, EndCall, files
<1>7. CASE ~Step /\ ~Writes
  BY <1>7, ReadOwn, FailOwn, CrashOwn DEF Next, vars, files
<1> QED
  BY <1>2, <1>3, <1>4, <1>5, <1>6, <1>7 DEF Step, Running

\* An error ends the call, but for a commit, which turns into an abort, and a
\* recovery, which leaves the record out.
LEMMA CallFailed ==
  ASSUME LogOwn, CallFails
  PROVE  /\ call.op = "recover" => call.todo # {}
         /\ call.op = "commit" =>
              call'.op = "abort" /\ call'.at = "record" /\ call'.x = call.x /\ open' = open
         /\ call.op = "recover" =>
              call'.op = "recover" /\ call' = Applied /\ call'.at = call.at /\ open' = open
         /\ call.op \notin {"commit", "recover"} => call'.op = "none"
         /\ call.op \in {"none", "begin"} => open' = open
         /\ call.op = "abort" => open' = [y \in DOMAIN open \ {call.x} |-> open[y]]
         /\ UNCHANGED <<files, subscriber, acked>>
<1> USE DEF CallFails, Idle, Close
<1>2. CASE call.op = "commit"
  BY <1>2, CallOf DEF Named
<1>3. CASE call.op = "recover"
  <2>1. DOMAIN call = {"op", "at", "report", "todo"}
    BY <1>3 DEF LogOwn, CallShape
  <2>2. call' = Applied /\ open' = open
    BY <1>3
  <2>3. call'.op = "recover" /\ call'.at = call.at
    BY <1>3, <2>1, <2>2 DEF Applied
  <2> QED
    BY <1>3, <2>2, <2>3
<1>4. CASE call.op \notin {"commit", "recover"}
  BY <1>4
<1> QED
  BY <1>2, <1>3, <1>4

LEMMA OpenCommittedKept ==
  ASSUME LogOwn, FilesOwn, [Next]_vars
  PROVE  OpenCommitted'
<1> USE DEF FilesOwn, OpenCommitted, IsCommitted
<1>1. CASE BeginSequence \/ CreateEpoch \/ EpochSequence \/ BeginRecord \/ BeginMeta
  <2>1. \A x \in DOMAIN open : record[x].status # "committed"
    BY <1>1 DEF BeginSequence, CreateEpoch, EpochSequence, BeginRecord, BeginMeta, At, Idle
  <2>2. CASE BeginSequence \/ CreateEpoch \/ EpochSequence
    BY <2>1, <2>2 DEF BeginSequence, CreateEpoch, EpochSequence
  <2>3. CASE BeginRecord
    BY <2>1, <2>3 DEF BeginRecord, WriteRecord, At, LogOwn, Typed, Numbered
  <2>4. CASE BeginMeta
    BY <2>1, <2>4 DEF BeginMeta, At, LogOwn, Numbered
  <2> QED
    BY <1>1, <2>2, <2>3, <2>4
<1>2. ASSUME NEW x \in TxId, (\E t \in Tables : AddWrite(x, t)) \/ EndCall(x, "commit") \/ EndCall(x, "abort")
      PROVE  OpenCommitted'
  <2>1. /\ \A y \in DOMAIN open : record[y].status # "committed"
        /\ DOMAIN open' = DOMAIN open /\ record' = record
    BY <1>2 DEF AddWrite, EndCall, Idle, files
  <2> QED
    BY <2>1
<1>3. CASE CommitRecord \/ CommitLatest \/ CommitIndex \/ CommitMeta
  <2>1. call.op = "commit" /\ call.x \in DOMAIN open /\ call.at \in CommitSteps
    BY <1>3, CallOf DEF CommitRecord, CommitLatest, CommitIndex, CommitMeta, At, Named
  <2>2. CASE CommitRecord
    <3>1. call'.op = "commit" /\ call'.x = call.x /\ call'.at = "latest" /\ open' = open
      BY <2>1, <2>2, Went DEF CommitRecord, Named
    <3>2. \A x \in DOMAIN open : record[x].status # "committed"
      BY <2>1, <2>2 DEF CommitRecord, At
    <3>3. \A x \in DOMAIN open : x # call.x => record'[x] = record[x]
      BY <2>2 DEF CommitRecord, WriteRecord
    <3> QED
      BY <3>1, <3>2, <3>3
  <2>3. CASE CommitLatest \/ CommitIndex
    <3>1. call'.op = "commit" /\ call'.x = call.x /\ call'.at \in {"index", "meta"}
      BY <2>1, <2>3, Went DEF CommitLatest, CommitIndex, Named
    <3>2. UNCHANGED <<open, record>>
      BY <2>3 DEF CommitLatest, CommitIndex
    <3> QED
      BY <2>1, <3>1, <3>2
  <2>4. CASE CommitMeta
    BY <2>1, <2>4 DEF CommitMeta, Close
  <2> QED
    BY <1>3, <2>2, <2>3, <2>4
<1>4. CASE AbortRecord \/ AbortMeta
  <2>1. call.op = "abort" /\ call.x \in DOMAIN open /\ call.x \in TxId
    BY <1>4, CallOf DEF AbortRecord, AbortMeta, At, Named
  <2>2. CASE AbortRecord
    <3>1. record'[call.x].status = "aborted" /\ open' = open
      BY <2>1, <2>2 DEF AbortRecord, WriteRecord, LogOwn, Typed
    <3>2. \A x \in DOMAIN open : x # call.x => record'[x] = record[x]
      BY <2>2 DEF AbortRecord, WriteRecord
    <3> QED
      BY <2>1, <3>1, <3>2
  <2>3. CASE AbortMeta
    BY <2>1, <2>3 DEF AbortMeta, Close
  <2> QED
    BY <1>4, <2>2, <2>3
<1>5. CASE RecoverScan \/ RecoverApply
  <2>1. /\ call.op \in {"none", "recover"} /\ open' = open
        /\ \A x \in DOMAIN open : record[x].status # "committed"
    BY <1>5 DEF RecoverScan, RecoverApply, At, Idle
  <2>2. \A x \in TxId : record'[x].status = "committed" => record[x].status = "committed"
    BY <1>5, <2>1, RecordSteps DEF RecoverScan, files, Rewrites, BeginRecord, CommitRecord, AbortRecord, At
  <2>3. DOMAIN open \subseteq TxId
    BY LogAssumption DEF LogOwn, Typed, Numbered, TxId
  <2> QED
    BY <2>1, <2>2, <2>3
<1>6. CASE Subscribe \/ UNCHANGED vars
  BY <1>6 DEF Subscribe, Poll, Deliver, LatestTxId, vars, files
<1>7. CASE Fail
  <2>1. record' = record
    BY <1>7, FailOwn
  <2>2. CASE CallFails
    <3>1. call.op \in {"none", "begin", "commit", "abort", "recover"}
      BY DEF LogOwn, CallShape
    <3> QED
      BY <2>1, <2>2, <3>1, CallFailed
  <2>3. CASE CallbackFails
    BY <2>1, <2>3 DEF CallbackFails
  <2> QED
    BY <1>7, <2>2, <2>3 DEF Fail
<1>8. CASE Crash
  BY <1>8 DEF Crash
<1> QED
  BY <1>1, <1>2, <1>3, <1>4, <1>5, <1>6, <1>7, <1>8 DEF Next, Step, Running, Calling

-----------------------------------------------------------------------------
(* Lists                                                                    *)

LEMMA Identifiers ==
  /\ TxId \subseteq Nat /\ IsFiniteSet(TxId)
  /\ \A S \in SUBSET TxId : S \in SUBSET Nat /\ IsFiniteSet(S) /\ Cardinality(S) \in Nat
<1>1. TxId \subseteq Nat /\ IsFiniteSet(TxId)
  BY LogAssumption, FS_Interval DEF TxId
<1>2. ASSUME NEW S \in SUBSET TxId PROVE S \in SUBSET Nat /\ IsFiniteSet(S) /\ Cardinality(S) \in Nat
  <2>1. IsFiniteSet(S)
    BY <1>1, FS_Subset
  <2> QED
    BY <1>1, <2>1, FS_CardinalityType
<1> QED
  BY <1>1, <1>2

\* What a list has at some places.
Picked(list, places) == {list[i] : i \in places}

\* A sublist has what it is to have, and keeps the order.
LEMMA SublistOf ==
  ASSUME NEW list \in Seq(TxId), NEW places \in SUBSET DOMAIN list
  PROVE  /\ Sublist(list, places) \in Seq(TxId)
         /\ Image(Sublist(list, places)) = Picked(list, places)
         /\ Rising(list) => Sublist(list, places) = InOrder(Picked(list, places))
<1>1. places \in SUBSET Nat /\ IsFiniteSet(places)
  <2>1. DOMAIN list = 1..Len(list) /\ Len(list) \in Nat
    OBVIOUS
  <2>2. IsFiniteSet(1..Len(list))
    BY <2>1, FS_Interval
  <2>3. places \in SUBSET (1..Len(list))
    BY <2>1
  <2> QED
    BY <2>1, <2>2, <2>3, FS_Subset
<1>2. PICK N \in Nat : N = Cardinality(places)
  BY <1>1, RankGrows
<1>3. PICK at \in [1..N -> places] : at = InOrder(places)
  BY <1>1, <1>2, OrderOf
<1>4. Rising(at) /\ \A i \in places : \E k \in 1..N : at[k] = i
  BY <1>1, <1>2, <1>3, OrderOf
<1>5. PICK q : q = [k \in 1..N |-> list[at[k]]]
  OBVIOUS
<1>6. q = Sublist(list, places)
  BY <1>2, <1>3, <1>5 DEF Sublist
<1>7. q \in [1..N -> TxId]
  BY <1>3, <1>5
<1>8. q \in Seq(TxId)
  BY <1>7
<1>9. Image(q) = Picked(list, places)
  BY <1>3, <1>4, <1>5 DEF Image, Picked
<1>10. ASSUME Rising(list) PROVE q = InOrder(Picked(list, places))
  <2>1. Picked(list, places) \in SUBSET TxId
    BY DEF Picked
  <2>2. Picked(list, places) \in SUBSET Nat /\ IsFiniteSet(Picked(list, places))
    BY <2>1, Identifiers
  <2>3. ASSUME NEW j \in 1..N, NEW k \in 1..N, j < k PROVE q[j] < q[k]
    <3>1. at[j] < at[k] /\ at[j] \in DOMAIN list /\ at[k] \in DOMAIN list
      BY <1>3, <1>4, <2>3 DEF Rising
    <3> QED
      BY <1>5, <1>10, <3>1 DEF Rising
  <2>4. Rising(q)
    BY <1>7, <2>3 DEF Rising
  <2>5. q \in [1..N -> Picked(list, places)]
    BY <1>3, <1>5 DEF Picked
  <2>6. \A x \in Picked(list, places) : \E k \in 1..N : q[k] = x
    BY <1>4, <1>5 DEF Picked
  <2> QED
    BY <2>2, <2>4, <2>5, <2>6, OrderUnique
<1> QED
  BY <1>6, <1>8, <1>9, <1>10

\* A list is ordered if it is that of its members.
LEMMA OrderIs ==
  ASSUME NEW S \in SUBSET TxId
  PROVE  InOrder(S) \in Seq(TxId) /\ Image(InOrder(S)) = S /\ Rising(InOrder(S))
<1>1. S \in SUBSET Nat /\ IsFiniteSet(S)
  BY Identifiers
<1>2. /\ InOrder(S) \in [1..Cardinality(S) -> S] /\ InOrder(S) \in Seq(S) /\ Rising(InOrder(S))
      /\ \A x \in S : \E k \in 1..Cardinality(S) : InOrder(S)[k] = x
  BY <1>1, OrderOf
<1>3. Image(InOrder(S)) = S
  BY <1>2 DEF Image
<1>4. InOrder(S) \in Seq(TxId)
  BY <1>2
<1> QED
  BY <1>2, <1>3, <1>4

LEMMA OrderedIs ==
  ASSUME NEW q \in Seq(TxId), Rising(q)
  PROVE  q = InOrder(Image(q))
<1>1. PICK S : S = Image(q)
  OBVIOUS
<1>2. S \in SUBSET TxId
  BY <1>1 DEF Image
<1>3. S \in SUBSET Nat /\ IsFiniteSet(S)
  BY <1>2, Identifiers
<1>4. PICK N \in Nat : N = Len(q)
  OBVIOUS
<1>5. q \in [1..N -> S] /\ \A x \in S : \E k \in 1..N : q[k] = x
  BY <1>1, <1>4 DEF Image
<1> QED
  BY <1>1, <1>3, <1>5, OrderUnique

\* An index that is rebuilt lists the committed transactions in order.
LEMMA ListedOf ==
  ASSUME FilesTyped
  PROVE  /\ Listed \in Seq(TxId)
         /\ index = None => Image(Listed) = Committed /\ Rising(Listed)
         /\ index # None => Listed = index
<1>1. Scanned = InOrder(Committed)
  <2>1. Committed = {x \in Entries : IsCommitted(x)}
    BY DEF Committed, Entries, IsCommitted
  <2> QED
    BY <2>1 DEF Scanned
<1>2. Committed \in SUBSET TxId
  BY DEF Committed
<1>3. Scanned \in Seq(TxId) /\ Image(Scanned) = Committed /\ Rising(Scanned)
  BY <1>1, <1>2, OrderIs
<1> QED
  BY <1>3 DEF Listed, FilesTyped

\* Reading the list leaves it, written down unless it is empty.
LEMMA Backfilled ==
  ASSUME FilesTyped, Backfill
  PROVE  /\ index # None => index' = index
         /\ index = None => IF Listed = << >> THEN index' = None ELSE index' = Listed
BY DEF Backfill, Listed, FilesTyped

\* The entries of a wanted table after the cursor.
Unseen(list, c) == {x \in Image(list) : x > c /\ Matches(x)}

LEMMA ChangelogOf ==
  ASSUME FilesTyped
  PROVE  /\ Changelog(cursor) \in Seq(TxId)
         /\ Image(Changelog(cursor)) = Unseen(Listed, cursor)
         /\ Rising(Listed) => Changelog(cursor) = InOrder(Unseen(Listed, cursor))
<1>1. PICK list \in Seq(TxId) : list = Listed
  BY ListedOf
<1>2. PICK places : places = {i \in DOMAIN list : list[i] > cursor /\ Matches(list[i])}
  OBVIOUS
<1>3. Changelog(cursor) = Sublist(list, places)
  BY <1>1, <1>2 DEF Changelog
<1>4. places \in SUBSET DOMAIN list
  BY <1>2
<1>5. Picked(list, places) = Unseen(list, cursor)
  BY <1>2 DEF Picked, Unseen, Image
<1> QED
  BY <1>1, <1>3, <1>4, <1>5, SublistOf

-----------------------------------------------------------------------------
(* Types, and the epoch                                                     *)

\* None is no epoch, no list and no identifier.
LEMMA NoneIsNone ==
  /\ None \notin Epoch /\ None \notin Seq(TxId) /\ None \notin TxId /\ None # 0 /\ None # 1
  /\ NewEpoch \in Epoch
<1>1. 0 \in 0..MaxTx /\ 1 \in 0..MaxTx /\ TxId \subseteq 0..MaxTx
  BY LogAssumption DEF TxId
<1>2. << >> \in Seq(TxId)
  OBVIOUS
<1> QED
  BY <1>1, <1>2, LogAssumption DEF NewEpoch, Epoch

\* A call that writes the metadata finds some.
LEMMA MetaThere ==
  ASSUME LogOwn, FilesOwn,
         At("begin", "record") \/ At("begin", "meta") \/ call.op \in {"commit", "abort"}
  PROVE  meta \in Epoch /\ epoch = 1
<1>1. CASE At("begin", "record") \/ At("begin", "meta")
  BY <1>1 DEF At, FilesOwn, FilesTyped, EpochFirst
<1>2. CASE call.op \in {"commit", "abort"}
  <2>1. call.x \in DOMAIN open
    BY <1>2, CallOf DEF Named
  <2> QED
    BY <1>2, <2>1 DEF FilesOwn, FilesTyped, EpochFirst
<1> QED
  BY <1>1, <1>2

LEMMA MetaMoves ==
  ASSUME NEW e \in Epoch, NEW x \in TxId
  PROVE  /\ AddTransaction(e, x) \in Epoch /\ RecordCommit(e) \in Epoch /\ RecordAbort(e) \in Epoch
         /\ Len(AddTransaction(e, x).transactions) = Len(e.transactions) + 1
         /\ AddTransaction(e, x).committed = e.committed
         /\ RecordCommit(e).committed = e.committed + 1
         /\ RecordCommit(e).transactions = e.transactions
         /\ RecordAbort(e).committed = e.committed /\ RecordAbort(e).transactions = e.transactions
         /\ Len(e.transactions) \in Nat /\ e.committed \in Nat
<1>1. /\ e.transactions \in Seq(TxId) /\ e.committed \in Nat /\ e.aborted \in Nat
      /\ DOMAIN e = {"transactions", "committed", "aborted"}
  BY DEF Epoch
<1>2. /\ Append(e.transactions, x) \in Seq(TxId)
      /\ Len(Append(e.transactions, x)) = Len(e.transactions) + 1 /\ Len(e.transactions) \in Nat
  BY <1>1
<1>3. /\ AddTransaction(e, x) \in Epoch /\ AddTransaction(e, x).committed = e.committed
      /\ AddTransaction(e, x).transactions = Append(e.transactions, x)
  BY <1>1, <1>2 DEF AddTransaction, Epoch
<1>4. /\ RecordCommit(e) \in Epoch /\ RecordCommit(e).committed = e.committed + 1
      /\ RecordCommit(e).transactions = e.transactions
  BY <1>1 DEF RecordCommit, Epoch
<1>5. /\ RecordAbort(e) \in Epoch /\ RecordAbort(e).committed = e.committed
      /\ RecordAbort(e).transactions = e.transactions
  BY <1>1 DEF RecordAbort, Epoch
<1> QED
  BY <1>1, <1>2, <1>3, <1>4, <1>5

\* Which steps write the metadata.
LEMMA MetaSteps ==
  ASSUME LogOwn, FilesOwn, [Next]_vars
  PROVE  \/ meta' = meta /\ ~(CreateEpoch \/ BeginMeta \/ CommitMeta \/ AbortMeta)
         \/ CreateEpoch /\ meta' = NewEpoch
         \/ BeginMeta /\ meta \in Epoch /\ call.x \in TxId /\ meta' = AddTransaction(meta, call.x)
         \/ CommitMeta /\ meta \in Epoch /\ call.x \in TxId /\ meta' = RecordCommit(meta)
         \/ AbortMeta /\ meta \in Epoch /\ call.x \in TxId /\ meta' = RecordAbort(meta)
<1> DEFINE Writes == CreateEpoch \/ BeginMeta \/ CommitMeta \/ AbortMeta
<1>1. CASE CreateEpoch
  BY <1>1 DEF CreateEpoch
<1>2. CASE BeginMeta
  BY <1>2, MetaThere, CallOf DEF BeginMeta, At, Named
<1>3. CASE CommitMeta
  BY <1>3, MetaThere, CallOf DEF CommitMeta, At, Named
<1>4. CASE AbortMeta
  BY <1>4, MetaThere, CallOf DEF AbortMeta, At, Named
<1>5. CASE ~Writes
  <2>1. meta' = meta
    BY <1>5 DEF Next, Step, Running, Calling, Subscribe, Fail, CallFails, CallbackFails, Crash,
       BeginSequence, EpochSequence, BeginRecord, AddWrite, EndCall, CommitRecord, CommitLatest,
       CommitIndex, AbortRecord, RecoverScan, RecoverApply, Poll, Deliver, LatestTxId, vars, files
  <2> QED
    BY <1>5, <2>1
<1> QED
  BY <1>1, <1>2, <1>3, <1>4, <1>5

\* How the subscriber moves.
LEMMA SubscriberSteps ==
  ASSUME LogOwn, FilesTyped, [Next]_vars
  PROVE  \/ UNCHANGED subscriber
         \/ Poll
         \/ Deliver
         \/ Fail /\ batch' = << >> /\ UNCHANGED <<cursor, delivered, index, call, acked, open>>
         \/ Crash /\ batch' = << >> /\ delivered' = delivered
            /\ cursor' = IF delivered = << >> THEN 0 ELSE Last(delivered)
<1>1. CASE Step \/ CallFails \/ LatestTxId \/ UNCHANGED vars
  BY <1>1 DEF Step, CallFails, LatestTxId, vars, subscriber
<1>2. CASE (Fail /\ CallbackFails) \/ Crash
  BY <1>2 DEF CallbackFails, Crash, files
<1> QED
  BY <1>1, <1>2 DEF Next, Subscribe, Fail

LEMMA OpenIds ==
  ASSUME LogOwn
  PROVE  DOMAIN open \subseteq TxId /\ TxId \subseteq 0..MaxTx
BY LogAssumption DEF LogOwn, Typed, Numbered, TxId

\* How a call comes about that is under way after a step.
LEMMA CallGoes ==
  ASSUME LogOwn, [Next]_vars, call'.op # "none"
  PROVE  \/ call' = call /\ UNCHANGED <<sequence, epoch, meta, record, latest, index, open, acked>>
         \/ (BeginSequence \/ CreateEpoch \/ EpochSequence \/ BeginRecord) /\ call'.op = "begin"
         \/ (CommitRecord \/ CommitLatest \/ CommitIndex) /\ call'.op = "commit"
         \/ AbortRecord /\ call'.op = "abort"
         \/ /\ call.op = "none" /\ call'.op \in {"commit", "abort"} /\ call'.at = "record"
            /\ call'.x \in DOMAIN open
            /\ UNCHANGED <<sequence, epoch, meta, record, latest, index, open, acked>>
         \/ RecoverScan /\ call'.op = "recover"
         \/ RecoverApply /\ call.todo # {} /\ call.op = "recover" /\ call'.op = "recover"
         \/ CallFails /\ Fail /\ call.op = "commit" /\ call'.op = "abort"
         \/ CallFails /\ Fail /\ call.op = "recover" /\ call'.op = "recover"
<1>1. CASE Fail
  <2>1. CASE CallFails
    BY <1>1, <2>1, CallFailed DEF LogOwn, CallShape
  <2>2. CASE CallbackFails
    BY <2>2 DEF CallbackFails, files
  <2> QED
    BY <1>1, <2>1, <2>2 DEF Fail
<1>2. ASSUME Crash \/ BeginMeta \/ CommitMeta \/ AbortMeta PROVE FALSE
  BY <1>2 DEF Crash, BeginMeta, CommitMeta, AbortMeta, Return, Idle
<1>3. CASE Subscribe
  <2>1. ~Poll /\ ~LatestTxId
    BY DEF Poll, LatestTxId, Idle
  <2> QED
    BY <1>3, <2>1 DEF Subscribe, Deliver, files
<1>4. CASE UNCHANGED vars
  BY <1>4 DEF vars, files
<1>5. CASE BeginSequence \/ CreateEpoch \/ EpochSequence \/ BeginRecord
  <2>1. call'.op = "begin"
    BY <1>5, Went DEF BeginSequence, CreateEpoch, EpochSequence, BeginRecord, At, Named
  <2> QED
    BY <1>5, <2>1
<1>6. CASE CommitRecord \/ CommitLatest \/ CommitIndex \/ AbortRecord
  <2>1. AbortRecord => call'.op = "abort"
    BY Went DEF AbortRecord, At, Named
  <2>2. CommitRecord \/ CommitLatest \/ CommitIndex => call'.op = "commit"
    BY Went DEF CommitRecord, CommitLatest, CommitIndex, At, Named
  <2> QED
    BY <1>6, <2>1, <2>2
<1>7. ASSUME NEW x \in TxId, NEW t \in Tables, AddWrite(x, t) PROVE FALSE
  BY <1>7 DEF AddWrite, Idle
<1>8. ASSUME NEW x \in TxId, EndCall(x, "commit") \/ EndCall(x, "abort")
      PROVE  /\ call.op = "none" /\ call'.op \in {"commit", "abort"} /\ call'.at = "record"
             /\ call'.x \in DOMAIN open
             /\ UNCHANGED <<sequence, epoch, meta, record, latest, index, open, acked>>
  BY <1>8 DEF EndCall, Idle, files, Active
<1>9. CASE RecoverScan \/ RecoverApply
  <2>1. RecoverScan => call'.op = "recover"
    BY DEF RecoverScan
  <2>2. RecoverApply => /\ call.todo # {} /\ call.op = "recover" /\ call'.op = "recover"
    BY DEF RecoverApply, At, LogOwn, CallShape, Return, Idle, Applied
  <2> QED
    BY <1>9, <2>1, <2>2
<1> QED
  BY <1>1, <1>2, <1>3, <1>4, <1>5, <1>6, <1>7, <1>8, <1>9 DEF Next, Step, Running, Calling

\* How the open transactions move.
LEMMA OpenSteps ==
  ASSUME LogOwn, [Next]_vars
  PROVE  \/ DOMAIN open' \subseteq DOMAIN open /\ \A y \in DOMAIN open' : open'[y] = open[y]
         \/ /\ BeginMeta /\ DOMAIN open' = DOMAIN open \cup {call.x}
            /\ \A y \in DOMAIN open' : open'[y] = IF y = call.x THEN {} ELSE open[y]
         \/ \E x \in TxId, t \in Tables :
              /\ AddWrite(x, t) /\ DOMAIN open' = DOMAIN open
              /\ \A y \in DOMAIN open' : open'[y] = IF y = x THEN {t} ELSE open[y]
<1>1. CASE BeginMeta
  BY <1>1 DEF BeginMeta
<1>2. ASSUME NEW x \in TxId, NEW t \in Tables, AddWrite(x, t)
      PROVE  DOMAIN open' = DOMAIN open /\ \A y \in DOMAIN open' : open'[y] = IF y = x THEN {t} ELSE open[y]
  BY <1>2 DEF AddWrite
<1>3. CASE Fail
  <2>1. CASE CallFails
    BY <2>1, CallFailed DEF LogOwn, CallShape
  <2>2. CASE CallbackFails
    BY <2>2 DEF CallbackFails
  <2> QED
    BY <1>3, <2>1, <2>2 DEF Fail
<1>4. CASE CommitMeta \/ AbortMeta
  BY <1>4 DEF CommitMeta, AbortMeta, Close
<1>5. CASE Crash
  BY <1>5 DEF Crash
<1>6. CASE Subscribe \/ UNCHANGED vars
  BY <1>6, ReadOwn DEF Subscribe, Poll, Deliver, LatestTxId, vars
<1>7. ASSUME NEW x \in TxId, EndCall(x, "commit") \/ EndCall(x, "abort") PROVE open' = open
  BY <1>7 DEF EndCall
<1>8. CASE BeginSequence \/ CreateEpoch \/ EpochSequence \/ BeginRecord \/ CommitRecord \/ CommitLatest
           \/ CommitIndex \/ AbortRecord \/ RecoverScan \/ RecoverApply
  BY <1>8 DEF BeginSequence, CreateEpoch, EpochSequence, BeginRecord, CommitRecord, CommitLatest,
     CommitIndex, AbortRecord, RecoverScan, RecoverApply
<1> QED
  BY <1>1, <1>2, <1>3, <1>4, <1>5, <1>6, <1>7, <1>8 DEF Next, Step, Running, Calling

\* How the index and the pointer move.
LEMMA IndexSteps ==
  ASSUME [Next]_vars
  PROVE  \/ index' = index /\ ~CommitIndex
         \/ CommitIndex /\ index' = Append(IF index = None THEN << >> ELSE index, call.x)
         \/ Backfill /\ Poll
         \/ Backfill /\ LatestTxId
<1>1. CASE CommitIndex
  BY <1>1 DEF CommitIndex
<1>2. CASE Poll \/ LatestTxId
  BY <1>2 DEF Poll, LatestTxId
<1>3. CASE ~(CommitIndex \/ Poll \/ LatestTxId)
  BY <1>3 DEF Next, Step, Running, Calling, Subscribe, Fail, CallFails, CallbackFails, Crash,
     BeginSequence, CreateEpoch, EpochSequence, BeginRecord, BeginMeta, AddWrite, EndCall, CommitRecord,
     CommitLatest, CommitMeta, AbortRecord, AbortMeta, RecoverScan, RecoverApply, Deliver, vars, files
<1> QED
  BY <1>1, <1>2, <1>3

LEMMA FileSteps ==
  ASSUME [Next]_vars
  PROVE  /\ \/ latest' = latest
            \/ CommitLatest /\ latest' = call.x
            \/ LatestTxId /\ latest' = IF Listed = << >> THEN None ELSE Last(Listed)
         /\ epoch' = epoch \/ (EpochSequence /\ epoch' = 1)
         /\ acked' = acked \/ (CommitMeta /\ acked' = acked \cup {call.x})
BY DEF Next, Step, Running, Calling, Subscribe, Fail, CallFails, CallbackFails, Crash,
   BeginSequence, CreateEpoch, EpochSequence, BeginRecord, BeginMeta, AddWrite, EndCall, CommitRecord,
   CommitLatest, CommitIndex, CommitMeta, AbortRecord, AbortMeta, RecoverScan, RecoverApply, Poll,
   Deliver, LatestTxId, vars, files

LEMMA FaultSteps ==
  ASSUME LogOwn, FilesTyped, [Next]_vars
  PROVE  /\ faults'.errors \in Nat /\ faults'.crashes \in Nat
         /\ faults'.errors = 0 => faults.errors = 0
         /\ Fail => faults'.errors = faults.errors + 1 /\ faults'.crashes = faults.crashes
         /\ Crash /\ ~Fail => faults'.errors = faults.errors /\ faults'.crashes = faults.crashes + 1
         /\ ~Fail /\ ~Crash => faults' = faults
<1>1. DOMAIN faults = {"crashes", "errors"} /\ faults.errors \in Nat /\ faults.crashes \in Nat
  BY DEF LogOwn, Typed, FilesTyped
<1>2. CASE Fail
  BY <1>1, <1>2 DEF Fail
<1>3. CASE Crash /\ ~Fail
  BY <1>1, <1>3 DEF Crash
<1>4. CASE ~Fail /\ ~Crash
  <2>1. faults' = faults
    BY <1>4 DEF Next, Step, Subscribe, vars
  <2> QED
    BY <1>1, <1>4, <2>1
<1> QED
  BY <1>2, <1>3, <1>4

LEMMA FilesTypedKept ==
  ASSUME LogOwn, FilesOwn, [Next]_vars
  PROVE  FilesTyped'
<1> DEFINE Written(y) == /\ record'[y].status \in {"none", "active", "committed", "aborted"}
                         /\ record'[y].writes \subseteq Tables
                         /\ record[y].status # "none" => record'[y].status # "none"
<1> USE DEF FilesOwn
<1>1. epoch' \in {None, 1} /\ meta' \in Epoch \cup {None}
  BY FileSteps, MetaSteps, MetaMoves, NoneIsNone DEF FilesTyped
<1>2. ASSUME NEW y \in TxId PROVE Written(y)
  <2>1. \A x \in DOMAIN open : open[x] \subseteq Tables
    BY DEF FilesTyped
  <2>2. \A x \in TxId : /\ record[x].status \in {"none", "active", "committed", "aborted"}
                        /\ record[x].writes \subseteq Tables
    BY DEF FilesTyped
  <2>3. CommitRecord \/ AbortRecord => call.x \in DOMAIN open
    BY CallOf DEF CommitRecord, AbortRecord, At, Named
  <2> QED
    BY <2>1, <2>2, <2>3, RecordSteps DEF Rewrites
<1>3. ASSUME NEW x \in DOMAIN open' PROVE open'[x] \subseteq Tables /\ record'[x].status # "none"
  <2>1. x \in DOMAIN open \/ (BeginMeta /\ x = call.x)
    BY OpenSteps
  <2>2. CASE x \in DOMAIN open
    <3>1. x \in TxId /\ open[x] \subseteq Tables /\ record[x].status # "none"
      BY <2>2, OpenIds DEF FilesTyped
    <3>2. open'[x] \subseteq Tables
      BY <3>1, OpenSteps
    <3> QED
      BY <1>2, <3>1, <3>2
  <2>3. CASE BeginMeta /\ x = call.x
    <3>1. open'[x] = {} /\ x \in TxId /\ record[x].status # "none"
      BY <2>3, CallOf DEF BeginMeta, At, Named, EpochFirst
    <3> QED
      BY <1>2, <3>1
  <2> QED
    BY <2>1, <2>2, <2>3
<1>4. ASSUME NEW q \in Seq(TxId), q # << >> PROVE Last(q) \in TxId
  BY <1>4 DEF Last
<1>5. latest' \in TxId \cup {None}
  BY <1>4, FileSteps, ListedOf, CallOf DEF FilesTyped, CommitLatest, At, Named
<1>6. index' \in Seq(TxId) \cup {None}
  <2>1. CASE CommitIndex /\ index' = Append(IF index = None THEN << >> ELSE index, call.x)
    <3>1. call.x \in TxId
      BY <2>1, CallOf DEF CommitIndex, At, Named
    <3>2. PICK q \in Seq(TxId) : q = IF index = None THEN << >> ELSE index
      <4>1. << >> \in Seq(TxId)
        OBVIOUS
      <4> QED
        BY <4>1 DEF FilesTyped
    <3>3. Append(q, call.x) \in Seq(TxId)
      BY <3>1
    <3> QED
      BY <2>1, <3>2, <3>3
  <2> QED
    BY <2>1, IndexSteps, Backfilled, ListedOf DEF FilesTyped
<1>7. cursor' \in 0..MaxTx /\ batch' \in Seq(TxId) /\ delivered' \in Seq(TxId)
  <2>1. cursor \in 0..MaxTx /\ batch \in Seq(TxId) /\ delivered \in Seq(TxId) /\ TxId \subseteq 0..MaxTx
    BY LogAssumption DEF FilesTyped, TxId
  <2>2. CASE Poll
    BY <1>4, <2>1, <2>2, ChangelogOf DEF Poll
  <2>3. CASE Deliver
    <3>1. Head(batch) \in TxId /\ Tail(batch) \in Seq(TxId)
      BY <2>1, <2>3 DEF Deliver
    <3>2. Append(delivered, Head(batch)) \in Seq(TxId)
      BY <2>1, <3>1
    <3> QED
      BY <2>1, <2>3, <3>1, <3>2 DEF Deliver
  <2>4. << >> \in Seq(TxId) /\ 0 \in 0..MaxTx
    BY LogAssumption
  <2> QED
    BY <1>4, <2>1, <2>2, <2>3, <2>4, SubscriberSteps DEF subscriber
<1>8. \A x \in TxId : /\ record'[x].status \in {"none", "active", "committed", "aborted"}
                      /\ record'[x].writes \subseteq Tables
  BY <1>2
<1>9. faults'.crashes \in Nat
  BY FaultSteps
<1> QED
  BY <1>1, <1>3, <1>5, <1>6, <1>7, <1>8, <1>9 DEF FilesTyped

LEMMA EpochFirstKept ==
  ASSUME LogOwn, FilesOwn, [Next]_vars
  PROVE  EpochFirst'
<1> USE DEF FilesOwn
<1>1. \A x \in TxId : record'[x].status # "none" => record[x].status # "none" \/ (BeginRecord /\ x = call.x)
  <2>1. CommitRecord \/ AbortRecord => record[call.x].status # "none"
    BY CallOf DEF CommitRecord, AbortRecord, At, Named, FilesTyped
  <2> QED
    BY <2>1, RecordSteps DEF Rewrites, Rollback
<1>2. epoch = 1 => epoch' = 1 /\ meta # None /\ meta' # None
  <2>1. epoch = 1 => ~CreateEpoch
    BY NoneIsNone DEF CreateEpoch, At, EpochFirst
  <2> QED
    BY <2>1, FileSteps, MetaSteps, MetaMoves, NoneIsNone DEF EpochFirst
<1>3. epoch' = 1 => meta' # None
  <2>1. CASE EpochSequence
    BY <2>1 DEF EpochSequence, At, EpochFirst
  <2> QED
    BY <1>2, <2>1, FileSteps
<1>4. ASSUME epoch' = None
      PROVE  Entries' = {} /\ meta' \in {None, NewEpoch} /\ DOMAIN open' = {}
  <2>1. epoch = None /\ Entries = {}
    BY <1>4, <1>2 DEF EpochFirst, FilesTyped
  <2>2. ~BeginRecord /\ ~BeginMeta
    BY <2>1 DEF BeginRecord, BeginMeta, At, EpochFirst
  <2>3. Entries' = {}
    BY <1>1, <2>1, <2>2 DEF Entries
  <2>4. DOMAIN open = {}
    <3>1. \A x \in TxId : record[x].status = "none"
      BY <2>1 DEF Entries
    <3> QED
      BY <3>1, OpenIds DEF FilesTyped
  <2>5. meta' \in {None, NewEpoch}
    <3>1. ~CommitMeta /\ ~AbortMeta
      BY <2>4, CallOf DEF CommitMeta, AbortMeta, At, Named
    <3> QED
      BY <2>1, <2>2, <3>1, MetaSteps DEF EpochFirst
  <2>6. DOMAIN open' = {}
    <3>1. ~(\E x \in TxId, t \in Tables : AddWrite(x, t))
      BY <2>4 DEF AddWrite, Active
    <3> QED
      BY <2>2, <2>4, <3>1, OpenSteps
  <2> QED
    BY <2>3, <2>5, <2>6
<1>5. ASSUME call'.op = "begin"
      PROVE  /\ call'.at \in {"create", "epoch"} <=> epoch' = None
             /\ call'.at = "epoch" => meta' # None
             /\ call'.at = "meta" <=> record'[call'.x].status # "none"
  <2>1. CASE call' = call /\ UNCHANGED <<sequence, epoch, meta, record, open>>
    BY <1>5, <2>1 DEF EpochFirst
  <2>2. CASE BeginSequence
    <3>1. /\ call'.x = sequence + 1 /\ call'.x \in TxId /\ UNCHANGED <<epoch, meta, record>>
          /\ call'.at = IF epoch = None THEN "create" ELSE "record"
      BY <2>2, LogAssumption DEF BeginSequence, LogOwn, Typed, TxId
    <3>2. record[call'.x].status = "none"
      BY <3>1 DEF LogOwn, Numbered, Typed
    <3> QED
      BY <3>1, <3>2
  <2>3. CASE CreateEpoch
    <3>1. /\ call.op = "begin" /\ call.at = "create" /\ call'.at = "epoch" /\ call'.x = call.x
          /\ meta' = NewEpoch /\ UNCHANGED <<epoch, record>>
      BY <2>3, Went DEF CreateEpoch, At, Named
    <3>2. epoch = None /\ record[call.x].status = "none"
      BY <3>1 DEF EpochFirst
    <3>3. NewEpoch # None
      BY NoneIsNone
    <3> QED
      BY <3>1, <3>2, <3>3
  <2>4. CASE EpochSequence
    <3>1. /\ call.op = "begin" /\ call.at = "epoch" /\ call'.at = "record" /\ call'.x = call.x
          /\ epoch' = 1 /\ UNCHANGED <<meta, record>>
      BY <2>4, Went DEF EpochSequence, At, Named
    <3>2. record[call.x].status = "none"
      BY <3>1 DEF EpochFirst
    <3> QED
      BY <3>1, <3>2, NoneIsNone
  <2>5. CASE BeginRecord
    <3>1. call'.at = "meta" /\ call'.x = call.x /\ UNCHANGED <<epoch, meta>>
      BY <2>5, Went DEF BeginRecord, At, Named
    <3>2. record'[call.x].status = "active"
      BY <2>5, RecordSteps DEF Rewrites, BeginRecord, CommitRecord, AbortRecord, RecoverApply, At
    <3>3. epoch # None
      BY <2>5 DEF BeginRecord, At, EpochFirst
    <3> QED
      BY <3>1, <3>2, <3>3
  <2> QED
    BY <1>5, <2>1, <2>2, <2>3, <2>4, <2>5, CallGoes
<1> QED
  BY <1>3, <1>4, <1>5 DEF EpochFirst

-----------------------------------------------------------------------------
(* The index                                                                *)

LEMMA ImageOf ==
  ASSUME NEW S, NEW q \in Seq(S)
  PROVE  /\ \A x \in S : Image(Append(q, x)) = Image(q) \cup {x}
         /\ q = << >> <=> Image(q) = {}
         /\ q # << >> => /\ Last(q) \in Image(q) /\ Head(q) \in Image(q) /\ Head(q) \in S
                         /\ Image(Tail(q)) \subseteq Image(q) /\ Tail(q) \in Seq(S)
<1>1. PICK N \in Nat : N = Len(q) /\ DOMAIN q = 1..N
  OBVIOUS
<1>2. ASSUME NEW x \in S PROVE Image(Append(q, x)) = Image(q) \cup {x}
  <2>1. PICK r : r = Append(q, x)
    OBVIOUS
  <2>2. DOMAIN r = 1..(N + 1) /\ r[N + 1] = x /\ \A i \in 1..N : r[i] = q[i]
    BY <1>1, <2>1
  <2> QED
    BY <1>1, <2>1, <2>2 DEF Image
<1>3. q = << >> <=> Image(q) = {}
  <2>1. q = << >> => Image(q) = {}
    BY DEF Image
  <2>2. ASSUME Image(q) = {} PROVE q = << >>
    <3>1. \A i \in 1..N : q[i] \in Image(q)
      BY <1>1 DEF Image
    <3>2. N = 0
      BY <2>2, <3>1
    <3> QED
      BY <1>1, <3>2
  <2> QED
    BY <2>1, <2>2
<1>4. ASSUME q # << >>
      PROVE  /\ Last(q) \in Image(q) /\ Head(q) \in Image(q) /\ Head(q) \in S
             /\ Image(Tail(q)) \subseteq Image(q) /\ Tail(q) \in Seq(S)
  <2>1. N # 0 /\ 1 \in 1..N /\ N \in 1..N
    BY <1>1, <1>4
  <2>2. Last(q) = q[N] /\ Head(q) = q[1]
    BY <1>1, <1>4, <2>1 DEF Last
  <2>3. PICK r : r = Tail(q)
    OBVIOUS
  <2>4. r \in Seq(S) /\ DOMAIN r = 1..(N - 1) /\ \A i \in 1..(N - 1) : r[i] = q[i + 1]
    BY <1>1, <1>4, <2>3
  <2>5. \A i \in 1..(N - 1) : i + 1 \in 1..N
    BY <1>1
  <2>6. Image(r) \subseteq Image(q)
    BY <1>1, <2>4, <2>5 DEF Image
  <2> QED
    BY <1>1, <2>1, <2>2, <2>3, <2>4, <2>6 DEF Image
<1> QED
  BY <1>2, <1>3, <1>4

\* The step that writes the index.
LEMMA IndexAppends ==
  ASSUME LogOwn, FilesTyped, CommitIndex
  PROVE  /\ call.op = "commit" /\ call.at = "index" /\ call.x \in TxId /\ call.x \in DOMAIN open
         /\ call'.op = "commit" /\ call'.at = "meta" /\ call'.x = call.x
         /\ index' \in Seq(TxId) /\ index' # None /\ call.x \in Image(index')
         /\ index # None => index' = Append(index, call.x) /\ Image(index') = Image(index) \cup {call.x}
         /\ index = None => index' = <<call.x>>
         /\ UNCHANGED <<record, latest, open, acked>>
<1>1. call.op = "commit" /\ call.at = "index" /\ call.x \in TxId /\ call.x \in DOMAIN open
  BY CallOf DEF CommitIndex, At, Named
<1>2. call'.op = "commit" /\ call'.at = "meta" /\ call'.x = call.x
  BY <1>1, Went DEF CommitIndex, Named
<1>3. PICK q \in Seq(TxId) : q = IF index = None THEN << >> ELSE index
  <2>1. << >> \in Seq(TxId)
    OBVIOUS
  <2> QED
    BY <2>1 DEF FilesTyped
<1>4. index' = Append(q, call.x)
  BY <1>3 DEF CommitIndex
<1>5. Image(index') = Image(q) \cup {call.x} /\ index' \in Seq(TxId) /\ index' # None
  <2>1. Append(q, call.x) \in Seq(TxId)
    BY <1>1
  <2> QED
    BY <1>1, <1>4, <2>1, ImageOf, NoneIsNone
<1>6. index = None => index' = <<call.x>>
  BY <1>3, <1>4
<1>7. UNCHANGED <<record, latest, open, acked>>
  BY DEF CommitIndex
<1> QED
  BY <1>1, <1>2, <1>3, <1>4, <1>5, <1>6, <1>7

\* What is listed stays listed.
LEMMA IndexGrows ==
  ASSUME LogOwn, FilesTyped, [Next]_vars, index # None
  PROVE  index' # None /\ Image(index) \subseteq Image(index')
BY IndexSteps, IndexAppends, Backfilled

LEMMA IndexedKept ==
  ASSUME LogOwn, FilesOwn, [Next]_vars
  PROVE  Indexed'
<1> USE DEF FilesOwn
<1>1. FilesTyped' /\ TxId \subseteq Nat /\ 0 \notin TxId
  BY FilesTypedKept DEF TxId
<1>2. ASSUME At("commit", "meta")' PROVE index' # None /\ call'.x \in Image(index')
  <2>1. ~CommitRecord /\ ~CommitLatest
    BY <1>2, Went DEF CommitRecord, CommitLatest, At, Named
  <2>2. CASE CommitIndex
    BY <2>2, IndexAppends
  <2>3. CASE call' = call /\ index' = index
    BY <1>2, <2>3 DEF At, Indexed
  <2> QED
    BY <1>2, <2>1, <2>2, <2>3, CallGoes DEF At
<1>3. acked' # {} => index' # None /\ acked' \subseteq Image(index')
  <2>1. CommitMeta => At("commit", "meta")
    BY DEF CommitMeta
  <2> QED
    BY <2>1, FileSteps, IndexGrows DEF Indexed
<1>4. ASSUME index' # None
      PROVE  Image(delivered') \cup Image(batch') \cup {cursor'} \subseteq Image(index') \cup {0}
  <2>1. Image(delivered) \cup Image(batch) \cup {cursor} \subseteq Image(index') \cup {0}
    <3>1. CASE index # None
      BY <3>1, IndexGrows DEF Indexed
    <3>2. CASE index = None
      <4>1. delivered = << >> /\ batch = << >> /\ cursor = 0
        BY <3>2 DEF Indexed
      <4> QED
        BY <4>1 DEF Image
    <3> QED
      BY <3>1, <3>2
  <2>2. CASE Poll
    <3>1. PICK list \in Seq(TxId) : list = Listed
      BY ListedOf
    <3>2. Image(batch') \subseteq Image(list) /\ batch' \in Seq(TxId) /\ delivered' = delivered
      BY <2>2, <3>1, ChangelogOf DEF Poll, Unseen
    <3>3. batch' = << >> \/ index' = list
      <4>1. list = << >> => Image(list) = {}
        BY <3>1, ImageOf
      <4>2. list = << >> => batch' = << >>
        BY <3>2, <4>1, ImageOf
      <4> QED
        BY <2>2, <3>1, <4>2, Backfilled, ListedOf DEF Poll
    <3>4. Image(batch') \subseteq Image(index')
      BY <3>2, <3>3, ImageOf
    <3>5. cursor' = cursor \/ cursor' \in Image(batch')
      BY <2>2, <3>2, ImageOf DEF Poll
    <3> QED
      BY <2>1, <3>2, <3>4, <3>5
  <2>3. CASE Deliver
    <3>1. batch \in Seq(TxId) /\ delivered \in Seq(TxId) /\ batch # << >>
      BY <2>3 DEF FilesTyped, Deliver
    <3>2. /\ Image(Append(delivered, Head(batch))) = Image(delivered) \cup {Head(batch)}
          /\ Head(batch) \in Image(batch) /\ Image(Tail(batch)) \subseteq Image(batch)
      BY <3>1, ImageOf
    <3> QED
      BY <2>1, <2>3, <3>2 DEF Deliver
  <2>4. CASE Crash /\ batch' = << >> /\ delivered' = delivered
             /\ cursor' = IF delivered = << >> THEN 0 ELSE Last(delivered)
    <3>1. delivered # << >> => Last(delivered) \in Image(delivered)
      BY ImageOf DEF FilesTyped
    <3>2. Image(batch') = {}
      BY <2>4 DEF Image
    <3> QED
      BY <2>1, <2>4, <3>1, <3>2
  <2>5. CASE batch' = << >> /\ UNCHANGED <<cursor, delivered>>
    <3>1. Image(batch') = {}
      BY <2>5 DEF Image
    <3> QED
      BY <2>1, <2>5, <3>1
  <2> QED
    BY <2>1, <2>2, <2>3, <2>4, <2>5, SubscriberSteps, FilesTypedKept DEF subscriber
<1>5. ASSUME index' = None
      PROVE  delivered' = << >> /\ batch' = << >> /\ cursor' = 0
  <2>1. index = None
    BY <1>5, IndexGrows
  <2>2. delivered = << >> /\ batch = << >> /\ cursor = 0
    BY <2>1 DEF Indexed
  <2>3. CASE Poll
    <3>1. PICK list \in Seq(TxId) : list = Listed
      BY ListedOf
    <3>2. list = << >>
      BY <1>5, <2>1, <2>3, <3>1, Backfilled, NoneIsNone DEF Poll
    <3>3. Image(list) = {}
      BY <3>1, <3>2, ImageOf
    <3>4. Image(Changelog(cursor)) = {} /\ Changelog(cursor) \in Seq(TxId)
      BY <3>1, <3>3, ChangelogOf DEF Unseen
    <3>5. Changelog(cursor) = << >>
      BY <3>4, ImageOf
    <3> QED
      BY <2>2, <2>3, <3>5 DEF Poll
  <2>4. ~Deliver
    BY <2>2 DEF Deliver
  <2> QED
    BY <2>2, <2>3, <2>4, SubscriberSteps DEF subscriber
<1>6. acked' # {} \/ At("commit", "meta")' => index' # None
  BY <1>2, <1>3
<1> QED
  BY <1>2, <1>3, <1>4, <1>5, <1>6 DEF Indexed

\* A commit that is at its end has nothing else before it.
LEMMA MetaStays ==
  ASSUME [Next]_vars, At("commit", "meta")
  PROVE  call' = call \/ CommitMeta \/ Crash \/ Fail
BY DEF Next, Step, Running, Calling, Subscribe,
   BeginSequence, CreateEpoch, EpochSequence, BeginRecord, BeginMeta, AddWrite, EndCall, CommitRecord,
   CommitLatest, CommitIndex, AbortRecord, AbortMeta, RecoverScan, RecoverApply, Poll,
   Deliver, LatestTxId, vars, At, Idle

LEMMA ListedOnceKept ==
  ASSUME LogOwn, FilesOwn, [Next]_vars
  PROVE  ListedOnce'
<1> USE DEF FilesOwn
<1> SUFFICES ASSUME faults'.errors = 0
             PROVE  /\ latest' # None => IsCommitted(latest)'
                    /\ index' # None =>
                         /\ Image(index') \subseteq Committed'
                         /\ \A i, j \in DOMAIN index' : index'[i] = index'[j] => i = j
                         /\ \A x \in Image(index') \cap DOMAIN open' :
                              At("commit", "meta")' /\ call'.x = x
  BY DEF ListedOnce
<1>1. faults.errors = 0 /\ ~Fail
  BY FaultSteps
<1>2. \A x \in Committed : x \in Committed'
  BY NextKeeps DEF Committed
<1>3. /\ latest # None => latest \in Committed
      /\ index # None =>
           /\ Image(index) \subseteq Committed
           /\ \A i, j \in DOMAIN index : index[i] = index[j] => i = j
           /\ \A x \in Image(index) \cap DOMAIN open : At("commit", "meta") /\ call.x = x
  BY <1>1 DEF ListedOnce, FilesTyped, Committed
<1>4. PICK list \in Seq(TxId) : list = Listed
  BY ListedOf
<1>5. Image(list) \subseteq Committed /\ \A i, j \in DOMAIN list : list[i] = list[j] => i = j
  <2>1. CASE index # None
    BY <1>3, <1>4, <2>1, ListedOf
  <2>2. CASE index = None
    <3>1. Image(list) = Committed /\ Rising(list)
      BY <1>4, <2>2, ListedOf
    <3>2. DOMAIN list \subseteq Nat /\ \A i \in DOMAIN list : list[i] \in Nat
      <4>1. DOMAIN list \subseteq Nat
        <5>1. DOMAIN list = 1..Len(list) /\ Len(list) \in Nat
          OBVIOUS
        <5> QED
          BY <5>1
      <4>2. \A i \in DOMAIN list : list[i] \in TxId
        OBVIOUS
      <4>3. TxId \subseteq Nat
        BY Identifiers
      <4> QED
        BY <4>1, <4>2, <4>3
    <3> QED
      BY <3>1, <3>2 DEF Rising
  <2> QED
    BY <2>1, <2>2
<1>6. ASSUME latest' # None PROVE IsCommitted(latest)'
  <2>1. CASE latest' = latest
    BY <1>2, <1>3, <1>6, <2>1 DEF Committed
  <2>2. CASE CommitLatest /\ latest' = call.x
    <3>1. call.x \in Committed
      BY <2>2, CallOf DEF CommitLatest, LogOwn, AckedClosed, At, Named, Committed
    <3> QED
      BY <1>2, <2>2, <3>1 DEF Committed
  <2>3. CASE LatestTxId /\ latest' = IF Listed = << >> THEN None ELSE Last(Listed)
    <3>1. list # << >> /\ latest' = Last(list)
      BY <1>4, <1>6, <2>3
    <3>2. latest' \in Committed
      BY <1>5, <3>1, ImageOf
    <3> QED
      BY <1>2, <3>2 DEF Committed
  <2> QED
    BY <2>1, <2>2, <2>3, FileSteps
<1>7. CASE index' = index /\ ~CommitIndex
  <2>1. ASSUME index # None, NEW x \in Image(index) \cap DOMAIN open'
        PROVE  At("commit", "meta")' /\ call'.x = x
    <3>1. ~BeginMeta \/ x # call.x
      <4>1. BeginMeta => record[call.x].status # "committed"
        BY DEF BeginMeta, At, LogOwn, Numbered
      <4> QED
        BY <1>3, <2>1, <4>1 DEF Committed, IsCommitted
    <3>2. x \in DOMAIN open
      BY <3>1, OpenSteps
    <3>3. At("commit", "meta") /\ call.x = x
      BY <1>3, <2>1, <3>2
    <3>4. ~CommitMeta /\ ~Crash
      BY <3>3 DEF CommitMeta, Close, Crash
    <3> QED
      BY <1>1, <3>3, <3>4, MetaStays DEF At
  <2> QED
    BY <1>2, <1>3, <1>6, <1>7, <2>1
<1>8. CASE CommitIndex
  <2>1. /\ call.op = "commit" /\ call.at = "index" /\ call.x \in TxId /\ call.x \in DOMAIN open
        /\ call'.op = "commit" /\ call'.at = "meta" /\ call'.x = call.x /\ open' = open
        /\ index # None => index' = Append(index, call.x) /\ Image(index') = Image(index) \cup {call.x}
        /\ index = None => index' = <<call.x>>
    BY <1>8, IndexAppends
  <2>2. call.x \in Committed
    BY <2>1 DEF LogOwn, AckedClosed, At, Committed
  <2>3. index # None => call.x \notin Image(index)
    BY <1>3, <2>1 DEF At
  <2>4. CASE index = None
    <3>1. DOMAIN index' = {1} /\ index'[1] = call.x /\ Image(index') = {call.x}
      BY <2>1, <2>4 DEF Image
    <3> QED
      BY <1>2, <1>6, <2>1, <2>2, <3>1 DEF At
  <2>5. CASE index # None
    <3>1. PICK q \in Seq(TxId) : q = index
      BY <2>5 DEF FilesTyped
    <3>2. PICK N \in Nat : N = Len(q) /\ DOMAIN q = 1..N
      OBVIOUS
    <3>3. DOMAIN index' = 1..(N + 1) /\ index'[N + 1] = call.x /\ \A i \in 1..N : index'[i] = q[i]
      BY <2>1, <2>5, <3>1, <3>2
    <3>4. \A i \in 1..N : q[i] # call.x
      BY <2>3, <2>5, <3>1, <3>2 DEF Image
    <3>5. \A i, j \in 1..N : q[i] = q[j] => i = j
      BY <1>3, <2>5, <3>1, <3>2
    <3>6. \A i, j \in DOMAIN index' : index'[i] = index'[j] => i = j
      BY <3>3, <3>4, <3>5
    <3>7. Image(index') \subseteq Committed'
      BY <1>2, <1>3, <2>1, <2>2, <2>5
    <3>8. \A x \in Image(index') \cap DOMAIN open' : x = call.x
      BY <1>3, <2>1, <2>5 DEF At
    <3> QED
      BY <1>6, <2>1, <3>6, <3>7, <3>8 DEF At
  <2> QED
    BY <2>4, <2>5
<1>9. CASE Backfill /\ (Poll \/ LatestTxId)
  <2>1. call.op = "none" /\ open' = open
    BY <1>9, ReadOwn DEF Poll, LatestTxId, Idle
  <2>2. index' # None => index' = list
    BY <1>4, <1>9, Backfilled, ListedOf
  <2>3. Image(list) \cap DOMAIN open = {}
    <3>1. \A x \in DOMAIN open : x \notin Committed
      BY <1>1, <2>1 DEF LogOwn, OpenUncommitted, Committed
    <3> QED
      BY <1>5, <3>1
  <2> QED
    BY <1>2, <1>5, <1>6, <2>1, <2>2, <2>3
<1> QED
  BY <1>7, <1>8, <1>9, IndexSteps

-----------------------------------------------------------------------------
(* Recovery                                                                 *)

LEMMA RecoverySofarKept ==
  ASSUME LogOwn, FilesOwn, [Next]_vars
  PROVE  RecoverySofar'
<1> USE DEF FilesOwn
<1> SUFFICES ASSUME call'.op = "recover" PROVE RecoverySofar'
  BY DEF RecoverySofar
<1>1. CASE RecoverScan
  <2>1. call'.report = Report /\ call'.todo = Report.rolledBack /\ record' = record
    BY <1>1 DEF RecoverScan, files
  <2>2. /\ Report.rolledBack \subseteq TxId
        /\ Entries = Report.committed \cup Report.aborted \cup Report.rolledBack
        /\ Report.committed = Committed
        /\ \A x \in Report.aborted : record[x].status = "aborted"
        /\ \A x \in Report.rolledBack : record[x].status \in {"active", "aborted"}
    BY DEF Report, Entries, IsCommitted, Rollback, Committed, FilesTyped
  <2>3. Entries' = Entries /\ Committed' = Committed
    BY <2>1 DEF Entries, Committed, IsCommitted
  <2> QED
    BY <2>1, <2>2, <2>3 DEF RecoverySofar
<1>2. CASE (RecoverApply \/ (CallFails /\ Fail)) /\ call.op = "recover" /\ (RecoverApply => call.todo # {})
  <2>1. call' = Applied /\ call.todo # {} /\ DOMAIN call = {"op", "at", "report", "todo"}
    BY <1>2, CallFailed DEF RecoverApply, LogOwn, CallShape
  <2>2. PICK n \in TxId : n = NextToApply /\ n \in call.todo
    BY <1>2, <2>1, NextLeft
  <2>3. call'.report = call.report /\ call'.todo = call.todo \ {n}
    BY <2>1, <2>2 DEF Applied
  <2>4. /\ call.todo \subseteq call.report.rolledBack /\ call.report.rolledBack \subseteq TxId
        /\ Entries = call.report.committed \cup call.report.aborted \cup call.report.rolledBack
        /\ call.report.committed = Committed
        /\ \A x \in call.report.aborted : record[x].status = "aborted"
        /\ \A x \in call.report.rolledBack : record[x].status \in {"active", "aborted"}
        /\ faults.errors = 0 => \A x \in call.report.rolledBack \ call.todo : record[x].status = "aborted"
    BY <1>2 DEF RecoverySofar
  <2>5. /\ \A x \in TxId : x # n => record'[x] = record[x]
        /\ record'[n] = record[n] \/ (record[n].status = "active" /\ record'[n].status = "aborted")
    <3>1. ~BeginRecord /\ ~CommitRecord /\ ~AbortRecord
      BY <1>2 DEF BeginRecord, CommitRecord, AbortRecord, At
    <3> QED
      BY <2>2, <3>1, RecordSteps DEF Rewrites, Rollback
  <2>6. Entries' = Entries /\ Committed' = Committed
    BY <2>5 DEF Entries, Committed, IsCommitted
  <2>7. \A x \in call.report.aborted : record'[x].status = "aborted"
    BY <2>4, <2>5 DEF Entries
  <2>8. \A x \in call.report.rolledBack : record'[x].status \in {"active", "aborted"}
    BY <2>4, <2>5
  <2>9. ASSUME faults'.errors = 0, NEW x \in call.report.rolledBack \ (call.todo \ {n})
        PROVE  record'[x].status = "aborted"
    <3>1. faults.errors = 0 /\ ~Fail
      BY <2>9, FaultSteps
    <3>2. CASE x # n
      BY <2>4, <2>5, <2>9, <3>1, <3>2
    <3>3. CASE x = n
      <4>1. RecoverApply
        BY <1>2, <3>1
      <4>2. Rollback(n) => record'[n].status = "aborted"
        BY <2>1, <2>2, <4>1 DEF RecoverApply, WriteRecord, LogOwn, Typed
      <4> QED
        BY <2>4, <2>5, <2>9, <3>3, <4>2 DEF Rollback
    <3> QED
      BY <3>2, <3>3
  <2> QED
    BY <2>3, <2>4, <2>6, <2>7, <2>8, <2>9 DEF RecoverySofar
<1>3. CASE call' = call /\ record' = record
  <2>1. Entries' = Entries /\ Committed' = Committed
    BY <1>3 DEF Entries, Committed, IsCommitted
  <2> QED
    BY <1>3, <2>1, FaultSteps DEF RecoverySofar
<1> QED
  BY <1>1, <1>2, <1>3, CallGoes, CallFailed

-----------------------------------------------------------------------------
(* The counts of the metadata                                               *)

LEMMA CountOf ==
  /\ Entries \in SUBSET TxId /\ Committed \in SUBSET Entries
  /\ IsFiniteSet(Entries) /\ IsFiniteSet(Committed)
  /\ Cardinality(Entries) \in Nat /\ Cardinality(Committed) \in Nat
<1>1. Entries \in SUBSET TxId /\ Committed \in SUBSET Entries
  BY DEF Entries, Committed, IsCommitted
<1>2. Committed \in SUBSET TxId
  BY <1>1
<1> QED
  BY <1>1, <1>2, Identifiers

\* What the records that are written add to the counts.
LEMMA CountSteps ==
  ASSUME LogOwn, FilesOwn, [Next]_vars
  PROVE  /\ Cardinality(Entries') = Cardinality(Entries) + (IF BeginRecord THEN 1 ELSE 0)
         /\ Cardinality(Committed') =
              IF CommitRecord THEN Cardinality(Committed) + 1
              ELSE IF AbortRecord /\ CommitUndone THEN Cardinality(Committed) - 1
              ELSE Cardinality(Committed)
<1> USE DEF FilesOwn
<1>1. /\ IsFiniteSet(Entries) /\ IsFiniteSet(Committed)
      /\ Cardinality(Entries) \in Nat /\ Cardinality(Committed) \in Nat
  BY CountOf
<1>2. CASE BeginRecord
  <2>1. /\ call.x \in TxId /\ record[call.x].status = "none" /\ record'[call.x].status = "active"
        /\ \A y \in TxId : y # call.x => record'[y] = record[y]
        /\ ~CommitRecord /\ ~AbortRecord
    <3>1. ~CommitRecord /\ ~AbortRecord /\ ~RecoverApply
      BY <1>2 DEF BeginRecord, CommitRecord, AbortRecord, RecoverApply, At
    <3>2. call.x \in TxId /\ record[call.x].status = "none"
      BY <1>2, CallOf DEF BeginRecord, At, Named, EpochFirst, FilesTyped
    <3> QED
      BY <1>2, <3>1, <3>2, RecordSteps DEF Rewrites
  <2>2. Entries' = Entries \cup {call.x} /\ call.x \notin Entries /\ Committed' = Committed
    BY <2>1 DEF Entries, Committed, IsCommitted
  <2>3. Cardinality(Entries') = Cardinality(Entries) + 1
    BY <1>1, <2>2, FS_AddElement
  <2> QED
    BY <1>2, <2>1, <2>2, <2>3
<1>3. CASE CommitRecord
  <2>1. /\ call.x \in TxId /\ record[call.x].status \notin {"none", "committed"}
        /\ record'[call.x].status = "committed"
        /\ \A y \in TxId : y # call.x => record'[y] = record[y]
        /\ ~BeginRecord
    <3>1. ~BeginRecord /\ ~AbortRecord /\ ~RecoverApply
      BY <1>3 DEF BeginRecord, CommitRecord, AbortRecord, RecoverApply, At
    <3>2. /\ call.x \in TxId /\ call.x \in DOMAIN open /\ call.op = "commit" /\ call.at = "record"
      BY <1>3, CallOf DEF CommitRecord, At, Named
    <3>3. record[call.x].status \notin {"none", "committed"}
      BY <3>2 DEF OpenCommitted, FilesTyped, IsCommitted
    <3> QED
      BY <1>3, <3>1, <3>2, <3>3, RecordSteps DEF Rewrites
  <2>2. Committed' = Committed \cup {call.x} /\ call.x \notin Committed /\ Entries' = Entries
    BY <2>1 DEF Entries, Committed, IsCommitted
  <2>3. Cardinality(Committed') = Cardinality(Committed) + 1
    BY <1>1, <2>2, FS_AddElement
  <2> QED
    BY <1>1, <1>3, <2>1, <2>2, <2>3
<1>4. CASE AbortRecord
  <2>1. /\ call.x \in TxId /\ record[call.x].status # "none" /\ record'[call.x].status = "aborted"
        /\ \A y \in TxId : y # call.x => record'[y] = record[y]
        /\ ~BeginRecord /\ ~CommitRecord /\ call.op = "abort"
    <3>1. ~BeginRecord /\ ~CommitRecord /\ ~RecoverApply
      BY <1>4 DEF BeginRecord, CommitRecord, AbortRecord, RecoverApply, At
    <3>2. call.x \in TxId /\ record[call.x].status # "none" /\ call.op = "abort"
      BY <1>4, CallOf DEF AbortRecord, At, Named, FilesTyped
    <3> QED
      BY <1>4, <3>1, <3>2, RecordSteps DEF Rewrites
  <2>2. Entries' = Entries /\ Committed' = Committed \ {call.x}
        /\ (CommitUndone <=> call.x \in Committed)
    BY <2>1 DEF Entries, Committed, IsCommitted, CommitUndone
  <2>3. CASE CommitUndone
    <3>1. Cardinality(Committed') = Cardinality(Committed) - 1
      BY <1>1, <2>2, <2>3, FS_RemoveElement
    <3> QED
      BY <1>1, <1>4, <2>1, <2>2, <2>3, <3>1
  <2>4. CASE ~CommitUndone
    <3>1. Committed' = Committed
      BY <2>2, <2>4
    <3> QED
      BY <1>1, <1>4, <2>1, <2>2, <2>4, <3>1
  <2> QED
    BY <2>3, <2>4
<1>5. CASE ~(BeginRecord \/ CommitRecord \/ AbortRecord)
  <2>1. \A y \in TxId : \/ record'[y] = record[y]
                        \/ record[y].status = "active" /\ record'[y].status = "aborted"
    BY <1>5, RecordSteps DEF Rewrites, Rollback
  <2>2. Entries' = Entries /\ Committed' = Committed
    BY <2>1 DEF Entries, Committed, IsCommitted
  <2> QED
    BY <1>1, <1>5, <2>2
<1> QED
  BY <1>2, <1>3, <1>4, <1>5

\* How the calls move that write what is counted.
LEMMA CallSteps ==
  ASSUME LogOwn, FilesOwn, [Next]_vars
  PROVE  /\ At("begin", "meta")' => BeginRecord \/ At("begin", "meta")
         /\ At("begin", "meta") => BeginMeta \/ Fail \/ Crash \/ At("begin", "meta")'
         /\ CommitWritten' => CommitRecord \/ CommitWritten
         /\ CommitWritten => CommitMeta \/ Fail \/ Crash \/ CommitWritten'
         /\ CommitUndone' => CommitUndone \/ (CommitWritten /\ Fail)
         /\ BeginRecord => ~At("begin", "meta") /\ At("begin", "meta")'
         /\ BeginMeta => At("begin", "meta") /\ ~At("begin", "meta")'
         /\ CommitRecord => ~CommitWritten /\ CommitWritten' /\ ~CommitUndone
         /\ CommitMeta => CommitWritten /\ ~CommitWritten' /\ ~CommitUndone'
         /\ AbortRecord => ~CommitUndone' /\ ~CommitWritten
<1> USE DEF FilesOwn
<1>1. At("begin", "meta")' => BeginRecord \/ At("begin", "meta")
  <2>1. ASSUME At("begin", "meta")', BeginSequence \/ CreateEpoch \/ EpochSequence PROVE FALSE
    BY <2>1, Went DEF BeginSequence, CreateEpoch, EpochSequence, At, Named
  <2> QED
    BY <2>1, CallGoes DEF At
<1>2. At("begin", "meta") => BeginMeta \/ Fail \/ Crash \/ At("begin", "meta")'
  BY DEF Next, Step, Running, Calling, Subscribe,
   BeginSequence, CreateEpoch, EpochSequence, BeginRecord, AddWrite, EndCall, CommitRecord,
   CommitLatest, CommitIndex, CommitMeta, AbortRecord, AbortMeta, RecoverScan, RecoverApply, Poll,
   Deliver, LatestTxId, vars, At, Idle
<1>3. CommitWritten' => CommitRecord \/ CommitWritten
  <2>1. CommitLatest \/ CommitIndex => CommitWritten
    BY DEF CommitLatest, CommitIndex, CommitWritten, At
  <2> QED
    BY <2>1, CallGoes DEF CommitWritten
<1>4. CommitWritten => CommitMeta \/ Fail \/ Crash \/ CommitWritten'
  <2>1. CommitLatest \/ CommitIndex => CommitWritten'
    BY Went DEF CommitLatest, CommitIndex, CommitWritten, At, Named
  <2>2. ASSUME CommitWritten, ~(CommitMeta \/ Fail \/ Crash \/ CommitLatest \/ CommitIndex) PROVE call' = call
    BY <2>2 DEF Next, Step, Running, Calling, Subscribe,
     BeginSequence, CreateEpoch, EpochSequence, BeginRecord, BeginMeta, AddWrite, EndCall, CommitRecord,
     AbortRecord, AbortMeta, RecoverScan, RecoverApply, Poll,
     Deliver, LatestTxId, vars, At, Idle, CommitWritten
  <2> QED
    BY <2>1, <2>2 DEF CommitWritten
<1>5. ASSUME CommitUndone' PROVE CommitUndone \/ (CommitWritten /\ Fail)
  <2>1. CASE call' = call /\ record' = record
    BY <1>5, <2>1 DEF CommitUndone, IsCommitted
  <2>2. CASE call'.x \in DOMAIN open /\ record' = record /\ call.op = "none"
    BY <1>5, <2>2 DEF CommitUndone, IsCommitted, OpenCommitted
  <2>3. CASE CallFails /\ Fail /\ call.op = "commit"
    <3>1. call'.x = call.x /\ call.x \in DOMAIN open /\ record' = record
      BY <2>3, CallFailed, CallOf DEF files, Named
    <3>2. IsCommitted(call.x)
      BY <1>5, <3>1 DEF CommitUndone, IsCommitted
    <3> QED
      BY <2>3, <3>1, <3>2 DEF OpenCommitted, CommitWritten
  <2>4. ~AbortRecord
    <3>1. ASSUME AbortRecord PROVE FALSE
      <4>1. call.op = "abort" /\ call.x \in TxId /\ call'.x = call.x
        BY <3>1, CallOf, Went DEF AbortRecord, At, Named
      <4>2. record'[call.x].status = "aborted"
        BY <3>1, <4>1 DEF AbortRecord, WriteRecord, LogOwn, Typed
      <4> QED
        BY <1>5, <4>1, <4>2 DEF CommitUndone, IsCommitted
    <3> QED
      BY <3>1
  <2> QED
    BY <1>5, <2>1, <2>2, <2>3, <2>4, CallGoes DEF CommitUndone
<1>6. /\ BeginRecord => ~At("begin", "meta") /\ At("begin", "meta")'
      /\ BeginMeta => At("begin", "meta") /\ ~At("begin", "meta")'
  BY Went DEF BeginRecord, BeginMeta, At, Named, Return, Idle
<1>7. CommitRecord => ~CommitWritten /\ CommitWritten' /\ ~CommitUndone
  BY Went DEF CommitRecord, At, Named, CommitWritten, CommitUndone
<1>8. CommitMeta => CommitWritten /\ ~CommitWritten' /\ ~CommitUndone'
  BY DEF CommitMeta, At, Return, Idle, CommitWritten, CommitUndone
<1>9. AbortRecord => ~CommitUndone' /\ ~CommitWritten
  <2>1. ASSUME AbortRecord PROVE ~CommitUndone' /\ ~CommitWritten
    <3>1. call.op = "abort" /\ call.x \in TxId /\ call'.x = call.x
      BY <2>1, CallOf, Went DEF AbortRecord, At, Named
    <3>2. record'[call.x].status = "aborted"
      BY <2>1, <3>1 DEF AbortRecord, WriteRecord, LogOwn, Typed
    <3> QED
      BY <3>1, <3>2 DEF CommitUndone, CommitWritten, IsCommitted
  <2> QED
    BY <2>1
<1> QED
  BY <1>1, <1>2, <1>3, <1>4, <1>5, <1>6, <1>7, <1>8, <1>9

LEMMA CountedKept ==
  ASSUME LogOwn, FilesOwn, [Next]_vars
  PROVE  Counted'
<1> USE DEF FilesOwn
<1> SUFFICES ASSUME meta' # None PROVE Counted'
  BY DEF Counted
<1>1. PICK e, c, f, e2, c2, f2 \in Nat :
        /\ e = Cardinality(Entries) /\ e2 = Cardinality(Entries') /\ f = Faults /\ f2 = Faults'
        /\ c = Cardinality(Committed) /\ c2 = Cardinality(Committed')
  <2>1. /\ Cardinality(Entries) \in Nat /\ Cardinality(Committed) \in Nat
        /\ Cardinality(Entries') \in Nat /\ Cardinality(Committed') \in Nat
    <3>1. Cardinality(Entries) \in Nat /\ Cardinality(Committed) \in Nat
      BY CountOf
    <3>2. (Cardinality(Entries) \in Nat /\ Cardinality(Committed) \in Nat)'
      BY CountOf, PTL
    <3> QED
      BY <3>1, <3>2
  <2>2. Faults \in Nat /\ Faults' \in Nat
    <3>1. faults.errors \in Nat /\ faults.crashes \in Nat
      BY DEF LogOwn, Typed, FilesTyped
    <3> QED
      BY <3>1, FaultSteps DEF Faults
  <2> QED
    BY <2>1, <2>2
<1>2. /\ f <= f2 /\ (Fail \/ Crash => f2 = f + 1) /\ (~Fail /\ ~Crash => f2 = f)
  <2>1. faults.errors \in Nat /\ faults.crashes \in Nat
    BY DEF LogOwn, Typed, FilesTyped
  <2> QED
    BY <1>1, <2>1, FaultSteps DEF Faults
<1>3. /\ e2 = e + (IF BeginRecord THEN 1 ELSE 0)
      /\ c2 = IF CommitRecord THEN c + 1 ELSE IF AbortRecord /\ CommitUndone THEN c - 1 ELSE c
  BY <1>1, CountSteps
<1>4. CASE CreateEpoch
  <2>1. meta' = NewEpoch /\ Entries = {} /\ epoch = None /\ call.op = "begin" /\ call'.op = "begin" /\ call'.at = "epoch"
    BY <1>4, Went DEF CreateEpoch, At, Named, EpochFirst
  <2>2. Committed = {}
    BY <2>1, CountOf
  <2>3. e = 0 /\ c = 0
    BY <1>1, <2>1, <2>2, FS_EmptySet
  <2>4. ~BeginRecord /\ ~CommitRecord /\ ~AbortRecord
    BY <1>4 DEF CreateEpoch, BeginRecord, CommitRecord, AbortRecord, At
  <2>5. e2 = 0 /\ c2 = 0
    BY <1>3, <2>3, <2>4
  <2>6. Len(meta'.transactions) = 0 /\ meta'.committed = 0
    BY <2>1 DEF NewEpoch
  <2>7. ~At("begin", "meta")' /\ ~CommitWritten' /\ ~CommitUndone'
    BY <2>1 DEF At, CommitWritten, CommitUndone
  <2>8. /\ e2 - Len(meta'.transactions) \in 0..(f2 + 0)
        /\ c2 - meta'.committed \in 0..(f2 + 0)
    BY <2>5, <2>6
  <2> QED
    BY <1>1, <2>7, <2>8 DEF Counted
<1>5. CASE ~CreateEpoch
  <2>1. meta \in Epoch
    BY <1>5, MetaSteps DEF FilesTyped
  <2>2. meta # None
    BY <2>1, NoneIsNone
  <2>3. PICK t, m, t2, m2 \in Nat :
          /\ t = Len(meta.transactions) /\ t2 = Len(meta'.transactions)
          /\ m = meta.committed /\ m2 = meta'.committed
          /\ t2 = t + (IF BeginMeta THEN 1 ELSE 0) /\ m2 = m + (IF CommitMeta THEN 1 ELSE 0)
    <3>1. Len(meta.transactions) \in Nat /\ meta.committed \in Nat
      BY <2>1 DEF Epoch
    <3>2. /\ BeginMeta => call.op = "begin" /\ call.at = "meta"
          /\ CommitMeta => call.op = "commit"
          /\ AbortMeta => call.op = "abort"
      BY DEF BeginMeta, CommitMeta, AbortMeta, At
    <3>3. /\ Len(meta'.transactions) = Len(meta.transactions) + (IF BeginMeta THEN 1 ELSE 0)
          /\ meta'.committed = meta.committed + (IF CommitMeta THEN 1 ELSE 0)
      <4>1. CASE BeginMeta
        <5>1. ~CommitMeta /\ ~AbortMeta
          BY <3>2, <4>1
        <5>2. call.x \in TxId /\ meta' = AddTransaction(meta, call.x)
          BY <1>5, <4>1, <5>1, MetaSteps
        <5> QED
          BY <2>1, <3>1, <4>1, <5>1, <5>2, MetaMoves
      <4>2. CASE CommitMeta
        <5>1. ~BeginMeta /\ ~AbortMeta
          BY <3>2, <4>2
        <5>2. call.x \in TxId /\ meta' = RecordCommit(meta)
          BY <1>5, <4>2, <5>1, MetaSteps
        <5> QED
          BY <2>1, <3>1, <4>2, <5>1, <5>2, MetaMoves
      <4>3. CASE ~BeginMeta /\ ~CommitMeta
        BY <1>5, <2>1, <3>1, <4>3, MetaSteps, MetaMoves
      <4> QED
        BY <4>1, <4>2, <4>3
    <3>4. Len(meta'.transactions) \in Nat /\ meta'.committed \in Nat
      <4>1. \A n \in Nat : n + (IF BeginMeta THEN 1 ELSE 0) \in Nat /\ n + (IF CommitMeta THEN 1 ELSE 0) \in Nat
        OBVIOUS
      <4> QED
        BY <3>1, <3>3, <4>1
    <3> QED
      BY <3>1, <3>3, <3>4
  <2>4. /\ e - t \in (IF At("begin", "meta") THEN 1 ELSE 0)..(f + IF At("begin", "meta") THEN 1 ELSE 0)
        /\ c - m \in (IF CommitWritten \/ CommitUndone THEN 1 ELSE 0)..(f + IF CommitWritten THEN 1 ELSE 0)
    BY <1>1, <2>2, <2>3 DEF Counted
  <2>5. e2 - t2 \in (IF At("begin", "meta")' THEN 1 ELSE 0)..(f2 + IF At("begin", "meta")' THEN 1 ELSE 0)
    <3>1. CASE BeginRecord
      <4>1. ~At("begin", "meta") /\ At("begin", "meta")' /\ ~BeginMeta
        BY <3>1, CallSteps
      <4>2. e - t \in 0..f /\ e2 = e + 1 /\ t2 = t
        BY <1>3, <2>3, <2>4, <3>1, <4>1
      <4>3. e2 - t2 \in 1..(f2 + 1)
        BY <1>2, <4>2
      <4> QED
        BY <4>1, <4>3
    <3>2. CASE BeginMeta
      <4>1. At("begin", "meta") /\ ~At("begin", "meta")' /\ ~BeginRecord
        BY <3>2, CallSteps
      <4>2. e - t \in 1..(f + 1) /\ e2 = e /\ t2 = t + 1
        BY <1>3, <2>3, <2>4, <3>2, <4>1
      <4>3. e2 - t2 \in 0..f2
        BY <1>2, <4>2
      <4> QED
        BY <4>1, <4>3
    <3>3. CASE ~BeginRecord /\ ~BeginMeta
      <4>1. e2 = e /\ t2 = t
        BY <1>3, <2>3, <3>3
      <4>2. CASE At("begin", "meta")
        <5>1. At("begin", "meta")' \/ f2 = f + 1
          BY <1>2, <3>3, <4>2, CallSteps
        <5>2. e - t \in 1..(f + 1)
          BY <2>4, <4>2
        <5> QED
          BY <1>2, <4>1, <5>1, <5>2
      <4>3. CASE ~At("begin", "meta")
        <5>1. e - t \in 0..f /\ ~At("begin", "meta")'
          BY <2>4, <3>3, <4>3, CallSteps
        <5> QED
          BY <1>2, <4>1, <5>1
      <4> QED
        BY <4>2, <4>3
    <3> QED
      BY <3>1, <3>2, <3>3
  <2>6. c2 - m2 \in (IF CommitWritten' \/ CommitUndone' THEN 1 ELSE 0)..(f2 + IF CommitWritten' THEN 1 ELSE 0)
    <3>1. CASE CommitRecord
      <4>1. ~CommitWritten /\ CommitWritten' /\ ~CommitUndone /\ ~CommitMeta
        BY <3>1, CallSteps
      <4>2. c - m \in 0..f /\ c2 = c + 1 /\ m2 = m
        BY <1>3, <2>3, <2>4, <3>1, <4>1
      <4>3. c2 - m2 \in 1..(f2 + 1)
        BY <1>2, <4>2
      <4> QED
        BY <4>1, <4>3
    <3>2. CASE CommitMeta
      <4>1. CommitWritten /\ ~CommitWritten' /\ ~CommitUndone' /\ ~CommitRecord /\ ~AbortRecord
        BY <3>2, CallSteps
      <4>2. c - m \in 1..(f + 1) /\ c2 = c /\ m2 = m + 1
        BY <1>3, <2>3, <2>4, <3>2, <4>1
      <4>3. c2 - m2 \in 0..f2
        BY <1>2, <4>2
      <4> QED
        BY <4>1, <4>3
    <3>3. CASE AbortRecord
      <4>1. ~CommitUndone' /\ ~CommitWritten /\ ~CommitWritten' /\ ~CommitRecord /\ ~CommitMeta
        <5>1. ~CommitRecord
          BY <3>3 DEF AbortRecord, CommitRecord, At
        <5> QED
          BY <3>3, <5>1, CallSteps
      <4>2. c - m \in (IF CommitUndone THEN 1 ELSE 0)..f /\ m2 = m
            /\ c2 = IF CommitUndone THEN c - 1 ELSE c
        BY <1>3, <2>3, <2>4, <3>3, <4>1
      <4>3. c2 - m2 \in 0..f2
        BY <1>2, <4>2
      <4> QED
        BY <4>1, <4>3
    <3>4. CASE ~CommitRecord /\ ~CommitMeta /\ ~AbortRecord
      <4>1. c2 = c /\ m2 = m
        BY <1>3, <2>3, <3>4
      <4>2. CASE CommitWritten
        <5>1. CommitWritten' \/ f2 = f + 1
          BY <1>2, <3>4, <4>2, CallSteps
        <5>2. c - m \in 1..(f + 1)
          BY <2>4, <4>2
        <5> QED
          BY <1>2, <4>1, <5>1, <5>2
      <4>3. CASE ~CommitWritten
        <5>1. ~CommitWritten' /\ (CommitUndone' => CommitUndone)
          BY <3>4, <4>3, CallSteps
        <5>2. c - m \in (IF CommitUndone THEN 1 ELSE 0)..f
          BY <2>4, <4>3
        <5> QED
          BY <1>2, <4>1, <5>1, <5>2
      <4> QED
        BY <4>2, <4>3
    <3> QED
      BY <3>1, <3>2, <3>3, <3>4
  <2> QED
    BY <1>1, <2>3, <2>5, <2>6 DEF Counted
<1> QED
  BY <1>4, <1>5

-----------------------------------------------------------------------------
(* What the subscriber gets                                                 *)

LEMMA Joined ==
  ASSUME NEW d \in Seq(TxId), NEW b \in Seq(TxId)
  PROVE  /\ d \o b \in Seq(TxId) /\ Image(d \o b) = Image(d) \cup Image(b)
         /\ Rising(d) /\ Rising(b) /\ (\A x \in Image(d), y \in Image(b) : x < y) => Rising(d \o b)
         /\ Rising(d \o b) =>
              Rising(d) /\ \A x \in Image(d), y \in Image(b) : x < y
<1>1. PICK M, N \in Nat : M = Len(d) /\ N = Len(b) /\ DOMAIN d = 1..M /\ DOMAIN b = 1..N
  OBVIOUS
<1>2. PICK q \in Seq(TxId) : q = d \o b
  <2>1. d \o b \in Seq(TxId)
    OBVIOUS
  <2> QED
    BY <2>1
<1>3. /\ DOMAIN q = 1..(M + N) /\ \A i \in 1..M : q[i] = d[i]
      /\ \A i \in 1..N : q[M + i] = b[i]
  BY <1>1, <1>2
<1>4. ASSUME NEW k \in 1..(M + N) PROVE k \in 1..M \/ (k - M \in 1..N /\ k = M + (k - M))
  <2>1. k <= M \/ k > M
    OBVIOUS
  <2>2. k <= M => k \in 1..M
    OBVIOUS
  <2>3. k > M => k - M \in 1..N /\ k = M + (k - M)
    OBVIOUS
  <2> QED
    BY <2>1, <2>2, <2>3
<1>5. \A i \in 1..N : M + i \in 1..(M + N)
  OBVIOUS
<1>6. \A i \in 1..M : i \in 1..(M + N)
  OBVIOUS
<1>7. Image(q) = Image(d) \cup Image(b)
  <2>1. Image(q) \subseteq Image(d) \cup Image(b)
    <3>1. ASSUME NEW k \in 1..(M + N) PROVE q[k] \in Image(d) \cup Image(b)
      <4>1. CASE k \in 1..M
        BY <1>1, <1>3, <4>1 DEF Image
      <4>2. CASE k - M \in 1..N /\ k = M + (k - M)
        <5>1. q[k] = b[k - M]
          BY <1>3, <4>2
        <5> QED
          BY <1>1, <4>2, <5>1 DEF Image
      <4> QED
        BY <1>4, <4>1, <4>2
    <3> QED
      BY <1>3, <3>1 DEF Image
  <2>2. Image(d) \subseteq Image(q)
    BY <1>1, <1>3, <1>6 DEF Image
  <2>3. Image(b) \subseteq Image(q)
    <3>1. \A i \in 1..N : b[i] \in Image(q)
      BY <1>3, <1>5 DEF Image
    <3> QED
      BY <1>1, <3>1 DEF Image
  <2> QED
    BY <2>1, <2>2, <2>3
<1>8. ASSUME Rising(d), Rising(b), \A x \in Image(d), y \in Image(b) : x < y
      PROVE  Rising(q)
  <2>1. /\ \A i, j \in 1..M : i < j => d[i] < d[j]
        /\ \A i, j \in 1..N : i < j => b[i] < b[j]
        /\ \A i \in 1..M, j \in 1..N : d[i] < b[j]
    BY <1>1, <1>8 DEF Rising, Image
  <2>2. ASSUME NEW j \in 1..(M + N), NEW k \in 1..(M + N), j < k PROVE q[j] < q[k]
    <3>1. CASE j \in 1..M /\ k \in 1..M
      BY <1>3, <2>1, <2>2, <3>1
    <3>2. CASE j \in 1..M /\ k - M \in 1..N /\ k = M + (k - M)
      <4>1. q[j] = d[j] /\ q[k] = b[k - M]
        BY <1>3, <3>2
      <4> QED
        BY <2>1, <3>2, <4>1
    <3>3. CASE j - M \in 1..N /\ j = M + (j - M) /\ k - M \in 1..N /\ k = M + (k - M)
      <4>1. q[j] = b[j - M] /\ q[k] = b[k - M] /\ j - M < k - M
        BY <1>3, <2>2, <3>3
      <4> QED
        BY <2>1, <3>3, <4>1
    <3>4. ~(j - M \in 1..N /\ k \in 1..M)
      BY <2>2
    <3> QED
      BY <1>4, <3>1, <3>2, <3>3, <3>4
  <2> QED
    BY <1>3, <2>2 DEF Rising
<1>9. ASSUME Rising(q)
      PROVE  Rising(d) /\ \A x \in Image(d), y \in Image(b) : x < y
  <2>1. \A i, j \in 1..(M + N) : i < j => q[i] < q[j]
    BY <1>3, <1>9 DEF Rising
  <2>2. \A i, j \in 1..M : i < j => d[i] < d[j]
    BY <1>3, <1>6, <2>1
  <2>3. ASSUME NEW i \in 1..M, NEW j \in 1..N PROVE d[i] < b[j]
    <3>1. i < M + j /\ q[i] = d[i] /\ q[M + j] = b[j] /\ i \in 1..(M + N) /\ M + j \in 1..(M + N)
      BY <1>3
    <3>2. q[i] < q[M + j]
      BY <2>1, <3>1
    <3> QED
      BY <3>1, <3>2
  <2>4. Rising(d)
    BY <1>1, <2>2 DEF Rising
  <2> QED
    BY <1>1, <2>3, <2>4 DEF Image
<1> QED
  BY <1>2, <1>7, <1>8, <1>9

\* The last of a list that goes up is the greatest.
LEMMA LastIsMost ==
  ASSUME NEW q \in Seq(TxId), q # << >>, Rising(q)
  PROVE  Last(q) \in Image(q) /\ \A x \in Image(q) : x <= Last(q)
<1>1. PICK N \in Nat : N = Len(q) /\ DOMAIN q = 1..N /\ N # 0
  OBVIOUS
<1>2. Last(q) = q[N] /\ N \in 1..N
  BY <1>1 DEF Last
<1>3. ASSUME NEW i \in 1..N PROVE q[i] <= q[N]
  <2>1. q[i] \in TxId /\ q[N] \in TxId /\ TxId \subseteq Nat
    BY <1>1, <1>2, Identifiers
  <2>2. i < N => q[i] < q[N]
    BY <1>1, <1>2 DEF Rising
  <2>3. i < N \/ i = N
    OBVIOUS
  <2>4. q[i] \in Nat /\ q[N] \in Nat
    BY <2>1
  <2> QED
    BY <2>2, <2>3, <2>4
<1> QED
  BY <1>1, <1>2, <1>3 DEF Image

\* No change is seen before the first identifier.
LEMMA NothingSeen ==
  ASSUME NEW list \in Seq(TxId)
  PROVE  Seen(list, 0) = {} /\ InOrder({}) = << >>
<1>1. \A x \in Image(list) : x \in TxId /\ ~(x <= 0)
  <2>1. \A x \in Image(list) : x \in TxId
    BY DEF Image
  <2> QED
    BY <2>1, LogAssumption DEF TxId
<1>2. << >> \in Seq(TxId) /\ Rising(<< >>) /\ Image(<< >>) = {}
  BY DEF Rising, Image
<1>3. << >> = InOrder({})
  <2>1. PICK q \in Seq(TxId) : q = << >> /\ Rising(q) /\ Image(q) = {}
    BY <1>2
  <2> QED
    BY <2>1, OrderedIs
<1> QED
  BY <1>1, <1>3 DEF Seen

\* Where a poll leaves the cursor.
After(b, c) == IF b = << >> THEN c ELSE Last(b)

\* A poll goes on where the one before has stopped.
LEMMA PollGoesOn ==
  ASSUME NEW list \in Seq(TxId), NEW c \in Nat
  PROVE  InOrder(Seen(list, c)) \o InOrder(Unseen(list, c))
           = InOrder(Seen(list, After(InOrder(Unseen(list, c)), c)))
<1>1. Seen(list, c) \in SUBSET TxId /\ Unseen(list, c) \in SUBSET TxId
  BY DEF Seen, Unseen, Image
<1>0. PICK d, b \in Seq(TxId) : d = InOrder(Seen(list, c)) /\ b = InOrder(Unseen(list, c))
  BY <1>1, OrderIs
<1> DEFINE c2 == After(b, c)
<1>2. /\ Image(d) = Seen(list, c) /\ Rising(d)
      /\ Image(b) = Unseen(list, c) /\ Rising(b)
  BY <1>0, <1>1, OrderIs
<1>3. Image(list) \subseteq Nat /\ c \in Nat
  <2>1. Image(list) \subseteq TxId
    BY DEF Image
  <2>2. TxId \subseteq Nat
    BY Identifiers
  <2> QED
    BY <2>1, <2>2
<1>4. \A x \in Image(d), y \in Image(b) : x < y
  BY <1>2, <1>3 DEF Seen, Unseen
<1>5. Image(d \o b) = Seen(list, c) \cup Unseen(list, c) /\ Rising(d \o b) /\ d \o b \in Seq(TxId)
  BY <1>2, <1>4, Joined
<1>6. Seen(list, c) \cup Unseen(list, c) = Seen(list, c2)
  <2>1. CASE b = << >>
    <3>1. Unseen(list, c) = {} /\ c2 = c
      BY <1>2, <2>1, ImageOf DEF After
    <3> QED
      BY <3>1
  <2>2. CASE b # << >>
    <3>1. c2 \in Unseen(list, c) /\ \A x \in Unseen(list, c) : x <= c2
      BY <1>2, <2>2, LastIsMost DEF After
    <3>2. c2 \in Nat /\ c2 > c
      BY <1>3, <3>1 DEF Unseen
    <3>3. ASSUME NEW x \in Image(list), Matches(x)
          PROVE  x <= c2
      <4>1. x <= c \/ x > c
        BY <1>3
      <4>2. x > c => x \in Unseen(list, c)
        BY <3>3 DEF Unseen
      <4> QED
        BY <1>3, <3>1, <3>2, <4>1, <4>2
    <3>4. \A x \in Image(list) : x <= c \/ x > c
      BY <1>3
    <3> QED
      BY <3>3, <3>4 DEF Seen, Unseen
  <2> QED
    BY <2>1, <2>2
<1>7. PICK q \in Seq(TxId) : q = d \o b
  BY <1>5
<1> QED
  BY <1>0, <1>5, <1>6, <1>7, OrderedIs

\* A committed record is not written again unless a write failed.
LEMMA CommittedKeeps ==
  ASSUME LogOwn, FilesOwn, [Next]_vars, faults.errors = 0, NEW x \in Committed
  PROVE  record'[x] = record[x]
<1> USE DEF FilesOwn
<1>1. x \in TxId /\ record[x].status = "committed"
  BY DEF Committed, IsCommitted
<1>2. BeginRecord => x # call.x
  BY <1>1 DEF BeginRecord, At, LogOwn, Numbered
<1>3. CommitRecord => x # call.x
  BY <1>1, CallOf DEF CommitRecord, At, Named, OpenCommitted, IsCommitted
<1>4. AbortRecord => x # call.x
  BY <1>1, CallOf DEF AbortRecord, At, Named, LogOwn, OpenUncommitted, IsCommitted
<1>5. Rollback(NextToApply) => x # NextToApply
  BY <1>1 DEF Rollback
<1> QED
  BY <1>1, <1>2, <1>3, <1>4, <1>5, RecordSteps DEF Rewrites

LEMMA FedInOrderKept ==
  ASSUME LogOwn, FilesOwn, [Next]_vars
  PROVE  FedInOrder'
<1> USE DEF FilesOwn
<1> SUFFICES ASSUME faults'.errors = 0, index' # None, Rising(index')
             PROVE  delivered' \o batch' = InOrder(Seen(index, cursor)')
  BY DEF FedInOrder
<1>1. faults.errors = 0 /\ ~Fail
  BY FaultSteps
<1>2. /\ delivered \in Seq(TxId) /\ batch \in Seq(TxId) /\ cursor \in Nat
      /\ index \in Seq(TxId) \cup {None} /\ \A x \in TxId : x \in Nat
  BY LogAssumption, Identifiers DEF FilesTyped
<1>3. /\ FilesTyped' /\ index' \in Seq(TxId)
  BY FilesTypedKept DEF FilesTyped
<1>4. \A x \in Committed : Matches(x)' <=> Matches(x)
  BY <1>1, CommittedKeeps DEF Matches
<1>5. CASE index = None
  <2>1. delivered = << >> /\ batch = << >> /\ cursor = 0
    BY <1>5 DEF Indexed
  <2>2. CASE Poll
    <3>1. PICK list \in Seq(TxId) : list = Listed
      BY ListedOf
    <3>2. index' = list /\ Rising(list) /\ Image(list) = Committed
      BY <1>5, <2>2, <3>1, Backfilled, ListedOf DEF Poll
    <3>3. /\ batch' = InOrder(Unseen(list, cursor)) /\ batch' \in Seq(TxId)
          /\ delivered' = delivered /\ cursor' = IF batch' = << >> THEN cursor ELSE Last(batch')
      BY <1>3, <2>2, <3>1, <3>2, ChangelogOf DEF Poll
    <3>4. delivered = InOrder(Seen(list, cursor))
      BY <2>1, NothingSeen
    <3>5. delivered \o batch' = InOrder(Seen(list, cursor'))
      <4>1. PICK c, c2, d, b : c = cursor /\ c2 = cursor' /\ d = delivered /\ b = batch'
        OBVIOUS
      <4>2. d \o b = InOrder(Seen(list, c2))
        <5>1. d \in Seq(TxId) /\ b \in Seq(TxId) /\ c \in Nat
          BY <1>2, <3>3, <4>1
        <5>2. /\ d = InOrder(Seen(list, c)) /\ b = InOrder(Unseen(list, c))
              /\ c2 = After(b, c)
          BY <3>3, <3>4, <4>1 DEF After
        <5> QED
          BY <5>1, <5>2, PollGoesOn
      <4> QED
        BY <4>1, <4>2
    <3>6. Seen(list, cursor') = Seen(index, cursor)'
      BY <1>4, <3>2 DEF Seen
    <3> QED
      BY <3>3, <3>5, <3>6
  <2>3. CASE delivered' = << >> /\ batch' = << >> /\ cursor' = 0
    <3>1. PICK list \in Seq(TxId) : list = index'
      BY <1>3
    <3>2. \A x \in Image(list) : ~(x <= 0)
      <4>1. \A x \in Image(list) : x \in TxId
        BY DEF Image
      <4> QED
        BY <4>1, LogAssumption DEF TxId
    <3>3. Seen(index, cursor)' = {}
      BY <2>3, <3>1, <3>2 DEF Seen
    <3>4. InOrder({}) = << >>
      BY <3>1, NothingSeen
    <3>5. << >> \o << >> = << >>
      OBVIOUS
    <3> QED
      BY <2>3, <3>3, <3>4, <3>5
  <2>4. ~Deliver
    BY <2>1 DEF Deliver
  <2> QED
    BY <2>1, <2>2, <2>3, <2>4, SubscriberSteps DEF subscriber
<1>6. CASE index # None
  <2>1. PICK list \in Seq(TxId) : list = index
    BY <1>2, <1>6
  <2>2. Image(list) \subseteq Committed
    BY <1>1, <1>6, <2>1 DEF ListedOnce
  <2>3. CASE CommitIndex
    <3>1. index' = Append(list, call.x) /\ Image(index') = Image(list) \cup {call.x} /\ call.x \in TxId
      BY <1>6, <2>1, <2>3, IndexAppends
    <3>2. PICK one \in Seq(TxId) : one = <<call.x>> /\ Image(one) = {call.x} /\ index' = list \o one
      <4>1. <<call.x>> \in Seq(TxId) /\ Image(<<call.x>>) = {call.x}
        BY <3>1 DEF Image
      <4>2. Append(list, call.x) = list \o <<call.x>>
        BY <3>1
      <4> QED
        BY <3>1, <4>1, <4>2
    <3>3. Rising(list) /\ \A x \in Image(list) : x < call.x
      BY <3>2, Joined
    <3>4. cursor < call.x
      <4>1. cursor \in Image(list) \/ cursor = 0
        BY <1>6, <2>1 DEF Indexed
      <4> QED
        BY <3>1, <3>3, <4>1 DEF TxId
    <3>5. UNCHANGED subscriber
      <4>1. call.op = "commit" /\ call' # call /\ call'.op = "commit"
        BY <2>3, IndexAppends
      <4> QED
        BY <1>1, <4>1 DEF Next, Step, Subscribe, Crash, Idle, vars, Poll, LatestTxId, Deliver
    <3>6. delivered \o batch = InOrder(Seen(list, cursor))
      BY <1>1, <1>6, <2>1, <3>3 DEF FedInOrder
    <3>7. Seen(index, cursor)' = Seen(list, cursor)
      <4>1. ~(call.x <= cursor)
        BY <1>2, <3>1, <3>4, LogAssumption
      <4> QED
        BY <1>4, <2>2, <3>1, <3>5, <4>1 DEF Seen, subscriber
    <3> QED
      BY <3>5, <3>6, <3>7 DEF subscriber
  <2>4. CASE ~CommitIndex
    <3>1. index' = list /\ Rising(list)
      BY <1>6, <2>1, <2>4, IndexSteps, Backfilled
    <3>2. delivered \o batch = InOrder(Seen(list, cursor))
      BY <1>1, <1>6, <2>1, <3>1 DEF FedInOrder
    <3>3. Seen(index, cursor)' = Seen(list, cursor')
      BY <1>4, <2>2, <3>1 DEF Seen
    <3>4. CASE UNCHANGED subscriber
      BY <3>2, <3>3, <3>4 DEF subscriber
    <3>5. CASE Poll
      <4>1. batch = << >> /\ list = Listed
        BY <1>6, <2>1, <3>5, ListedOf DEF Poll
      <4>2. delivered = InOrder(Seen(list, cursor))
        BY <1>2, <3>2, <4>1
      <4>3. /\ batch' = InOrder(Unseen(list, cursor)) /\ batch' \in Seq(TxId)
            /\ delivered' = delivered /\ cursor' = IF batch' = << >> THEN cursor ELSE Last(batch')
        BY <1>3, <3>1, <3>5, <4>1, ChangelogOf DEF Poll, FilesTyped
      <4>4. delivered \o batch' = InOrder(Seen(list, cursor'))
        <5>1. PICK c, c2, d, b : c = cursor /\ c2 = cursor' /\ d = delivered /\ b = batch'
          OBVIOUS
        <5>2. d \in Seq(TxId) /\ b \in Seq(TxId) /\ c \in Nat
          BY <1>2, <4>3, <5>1
        <5>3. /\ d = InOrder(Seen(list, c)) /\ b = InOrder(Unseen(list, c))
              /\ c2 = After(b, c)
          BY <4>2, <4>3, <5>1 DEF After
        <5>4. d \o b = InOrder(Seen(list, c2))
          BY <5>2, <5>3, PollGoesOn
        <5> QED
          BY <4>3, <5>1, <5>4
      <4> QED
        BY <3>3, <4>3, <4>4
    <3>6. CASE Deliver
      <4>1. batch # << >> /\ delivered' = Append(delivered, Head(batch)) /\ batch' = Tail(batch) /\ cursor' = cursor
        BY <3>6 DEF Deliver
      <4>2. Append(delivered, Head(batch)) \o Tail(batch) = delivered \o batch
        BY <1>2, <4>1
      <4> QED
        BY <3>2, <3>3, <4>1, <4>2
    <3>7. CASE Crash /\ batch' = << >> /\ delivered' = delivered
               /\ cursor' = IF delivered = << >> THEN 0 ELSE Last(delivered)
      <4>1. Seen(list, cursor) \in SUBSET TxId
        BY DEF Seen, Image
      <4>2. /\ Rising(delivered \o batch)
            /\ Image(delivered \o batch) = Seen(list, cursor)
        BY <3>2, <4>1, OrderIs
      <4>3. /\ Rising(delivered) /\ Image(delivered) \cup Image(batch) = Seen(list, cursor)
            /\ \A x \in Image(delivered), y \in Image(batch) : x < y
        BY <1>2, <4>2, Joined
      <4>4. delivered = InOrder(Image(delivered))
        BY <1>2, <4>3, OrderedIs
      <4>5. Seen(list, cursor') = Image(delivered)
        <5>1. CASE delivered = << >>
          BY <1>2, <3>7, <5>1, NothingSeen, ImageOf
        <5>2. CASE delivered # << >>
          <6>1. cursor' \in Image(delivered) /\ \A x \in Image(delivered) : x <= cursor'
            BY <1>2, <3>7, <4>3, <5>2, LastIsMost
          <6>2. \A y \in Image(batch) : cursor' < y
            BY <4>3, <6>1
          <6>3. /\ cursor' \in Nat /\ cursor \in Nat /\ cursor' <= cursor
                /\ \A x \in Image(list) : x \in Nat
            <7>1. \A x \in Image(list) : x \in TxId
              BY DEF Image
            <7>2. cursor' \in Seen(list, cursor)
              BY <4>3, <6>1
            <7> QED
              BY <1>2, <7>1, <7>2, LogAssumption DEF Seen
          <6>4. ASSUME NEW x \in Seen(list, cursor') PROVE x \in Image(delivered)
            <7>1. x \in Seen(list, cursor)
              BY <6>3, <6>4 DEF Seen
            <7>2. x \notin Image(batch)
              BY <6>2, <6>3, <6>4 DEF Seen
            <7> QED
              BY <4>3, <7>1, <7>2
          <6>5. ASSUME NEW x \in Image(delivered) PROVE x \in Seen(list, cursor')
            BY <4>3, <6>1, <6>5 DEF Seen
          <6> QED
            BY <6>4, <6>5
        <5> QED
          BY <5>1, <5>2
      <4>6. delivered \o << >> = delivered
        BY <1>2
      <4> QED
        BY <3>3, <3>7, <4>4, <4>5, <4>6
    <3> QED
      BY <1>1, <3>4, <3>5, <3>6, <3>7, SubscriberSteps
  <2> QED
    BY <2>3, <2>4
<1> QED
  BY <1>5, <1>6

-----------------------------------------------------------------------------
\* The log is new, or has one transaction of the time before the index.
LEMMA FilesBegin == Init => FilesOwn
<1> SUFFICES ASSUME Init PROVE FilesOwn
  OBVIOUS
<1>1. /\ call.op = "none" /\ DOMAIN open = {} /\ latest = None /\ index = None /\ acked = {}
      /\ cursor = 0 /\ batch = << >> /\ delivered = << >> /\ faults.errors = 0 /\ faults.crashes = 0
      /\ Faults = 0
  BY DEF Init, Idle, Faults
<1>2. 1 \in TxId /\ 0 \in 0..MaxTx /\ << >> \in Seq(TxId)
  BY LogAssumption DEF TxId
<1>3. \/ /\ epoch = None /\ meta = None /\ \A x \in TxId : record[x].status = "none" /\ record[x].writes = {}
      \/ /\ epoch = 1 /\ meta = [NewEpoch EXCEPT !.transactions = <<1>>, !.committed = 1]
         /\ \A x \in TxId : IF x = 1 THEN record[x].status = "committed" /\ record[x].writes = Wanted
                            ELSE record[x].status = "none" /\ record[x].writes = {}
  BY DEF Init, NoRecord
<1>9. PICK e \in Epoch : /\ e = [NewEpoch EXCEPT !.transactions = <<1>>, !.committed = 1]
                         /\ Len(e.transactions) = 1 /\ e.committed = 1
  <2>1. <<1>> \in Seq(TxId) /\ Len(<<1>>) = 1
    BY <1>2
  <2>2. PICK one \in Seq(TxId) : one = <<1>> /\ Len(one) = 1
    BY <2>1
  <2>3. [NewEpoch EXCEPT !.transactions = one, !.committed = 1] \in Epoch
    BY DEF NewEpoch, Epoch
  <2>4. PICK e \in Epoch : e = [NewEpoch EXCEPT !.transactions = one, !.committed = 1]
    BY <2>3
  <2>5. e.transactions = one /\ e.committed = 1
    BY <2>4 DEF NewEpoch
  <2> QED
    BY <2>2, <2>4, <2>5
<1>4. meta \in Epoch \cup {None} /\ (epoch = 1 => meta # None)
  BY <1>3, <1>9, NoneIsNone
<1>5. FilesTyped
  <2>1. \A x \in TxId : /\ record[x].status \in {"none", "active", "committed", "aborted"}
                        /\ record[x].writes \subseteq Tables
    BY <1>3, LogAssumption
  <2> QED
    BY <1>1, <1>2, <1>3, <1>4, <2>1 DEF FilesTyped
<1>6. EpochFirst
  BY <1>1, <1>3, <1>4, NoneIsNone DEF EpochFirst, Entries
<1>7. Indexed /\ ListedOnce /\ RecoverySofar /\ OpenCommitted /\ FedInOrder
  BY <1>1 DEF Indexed, ListedOnce, RecoverySofar, OpenCommitted, FedInOrder, At
<1>8. Counted
  <2>1. CASE meta # None
    <3>1. meta = e /\ Entries = {1} /\ Committed = {1}
      BY <1>2, <1>3, <1>9, <2>1 DEF Entries, Committed, IsCommitted
    <3>2. Cardinality({1}) = 1
      BY FS_Singleton
    <3>3. Len(meta.transactions) = 1 /\ meta.committed = 1
      BY <1>9, <3>1
    <3>4. ~At("begin", "meta") /\ ~CommitWritten /\ ~CommitUndone
      BY <1>1 DEF At, CommitWritten, CommitUndone
    <3>5. 1 - 1 \in 0..(0 + 0)
      OBVIOUS
    <3> QED
      BY <1>1, <3>1, <3>2, <3>3, <3>4, <3>5 DEF Counted
  <2> QED
    BY <2>1 DEF Counted
<1> QED
  BY <1>5, <1>6, <1>7, <1>8 DEF FilesOwn

LEMMA FilesKept ==
  ASSUME LogOwn, FilesOwn, [Next]_vars
  PROVE  FilesOwn'
BY FilesTypedKept, EpochFirstKept, IndexedKept, ListedOnceKept, RecoverySofarKept, OpenCommittedKept,
   CountedKept, FedInOrderKept DEF FilesOwn

\* What is written to the files, with what the subscriber has got of it, is an
\* invariant of the log.
THEOREM FilesCorrect == Spec => []FilesOwn
<1>1. LogOwn /\ FilesOwn /\ [Next]_vars => FilesOwn'
  BY FilesKept
<1> QED
  BY <1>1, FilesBegin, LogCorrect, PTL DEF Spec

\* Whatever a crash or an error leaves out, an acknowledged transaction is in
\* the changelog (append_committed_index, rebuild_committed_index).
THEOREM AckedStayListed == Spec => []AckedAreListed
<1>1. LogOwn /\ FilesOwn => AckedAreListed
  <2> SUFFICES ASSUME LogOwn, FilesOwn, NEW x \in acked
               PROVE  IsCommitted(x) /\ \E i \in DOMAIN Listed : Listed[i] = x
    BY DEF AckedAreListed
  <2>1. IsCommitted(x)
    BY DEF LogOwn, AckedClosed
  <2>2. index # None /\ x \in Image(index) /\ Listed = index
    BY ListedOf DEF FilesOwn, Indexed
  <2> QED
    BY <2>1, <2>2 DEF Image
<1> QED
  BY <1>1, LogCorrect, FilesCorrect, PTL

\* What the changelog and the pointer lead to is committed, and listed once, as
\* long as no write fails (commit_tx_internal, recover_and_apply).
THEOREM ListedStayCommitted == Spec => []ListedAreCommitted
<1>1. FilesOwn => ListedAreCommitted
  <2> SUFFICES ASSUME FilesOwn, faults.errors = 0
               PROVE  /\ latest # None => IsCommitted(latest)
                      /\ \A i \in DOMAIN Listed : IsCommitted(Listed[i])
                      /\ \A i, j \in DOMAIN Listed : Listed[i] = Listed[j] => i = j
    BY DEF ListedAreCommitted
  <2>1. latest # None => IsCommitted(latest)
    BY DEF FilesOwn, ListedOnce
  <2>2. PICK list \in Seq(TxId) : list = Listed
    BY ListedOf DEF FilesOwn
  <2>3. Image(list) \subseteq Committed /\ \A i, j \in DOMAIN list : list[i] = list[j] => i = j
    <3>1. CASE index # None
      BY <2>2, <3>1, ListedOf DEF FilesOwn, ListedOnce
    <3>2. CASE index = None
      <4>1. Image(list) = Committed /\ Rising(list)
        BY <2>2, <3>2, ListedOf DEF FilesOwn
      <4>2. DOMAIN list = 1..Len(list) /\ Len(list) \in Nat /\ \A i \in DOMAIN list : list[i] \in TxId
        OBVIOUS
      <4>3. \A i \in DOMAIN list : i \in Nat /\ list[i] \in Nat
        <5>1. TxId \subseteq Nat
          BY Identifiers
        <5>2. DOMAIN list \subseteq Nat
          BY <4>2
        <5> QED
          BY <4>2, <5>1, <5>2
      <4> QED
        BY <4>1, <4>3 DEF Rising
    <3> QED
      BY <3>1, <3>2
  <2> QED
    BY <2>1, <2>2, <2>3 DEF Image, Committed
<1> QED
  BY <1>1, FilesCorrect, PTL

\* A subscriber gets every change of a wanted table once and in order, also over
\* its restarts, as long as transactions commit in the order they began in and
\* nothing fails but the process (_poll, get_changelog).
THEOREM ChangesComeOnce == Spec => []EachChangeOnce
<1>1. FilesOwn => EachChangeOnce
  <2> SUFFICES ASSUME FilesOwn, Ascending, faults.errors = 0
               PROVE  delivered \o batch =
                        Sublist(Listed, {i \in DOMAIN Listed : Listed[i] <= cursor /\ Matches(Listed[i])})
    BY DEF EachChangeOnce
  <2>1. PICK list \in Seq(TxId) : list = Listed
    BY ListedOf DEF FilesOwn
  <2>2. PICK places : places = {i \in DOMAIN list : list[i] <= cursor /\ Matches(list[i])}
    OBVIOUS
  <2>3. Rising(list)
    BY <2>1 DEF Ascending, Rising
  <2>4. places \in SUBSET DOMAIN list /\ Picked(list, places) = Seen(list, cursor)
    BY <2>2 DEF Picked, Seen, Image
  <2>5. Sublist(list, places) = InOrder(Seen(list, cursor))
    BY <2>3, <2>4, SublistOf
  <2>6. delivered \o batch = InOrder(Seen(list, cursor))
    <3>1. CASE index # None
      BY <2>1, <2>3, <3>1, ListedOf DEF FilesOwn, FedInOrder
    <3>2. CASE index = None
      <4>1. delivered = << >> /\ batch = << >> /\ cursor = 0
        BY <3>2 DEF FilesOwn, Indexed
      <4>2. InOrder(Seen(list, cursor)) = << >>
        BY <4>1, NothingSeen
      <4>3. << >> \o << >> = << >>
        OBVIOUS
      <4> QED
        BY <4>1, <4>2, <4>3
    <3> QED
      BY <3>1, <3>2
  <2> QED
    BY <2>1, <2>2, <2>5, <2>6
<1> QED
  BY <1>1, FilesCorrect, PTL

\* The log has its types, a recovery does what it reports, and the metadata of
\* the epoch lags by no more than the crashes and errors there were.
THEOREM LogSound == Spec => []LogInv
<1>1. LogOwn /\ FilesOwn => LogInv
  <2> SUFFICES ASSUME LogOwn, FilesOwn PROVE LogInv
    OBVIOUS
  <2>1. TypeOK
    <3>1. DOMAIN open \subseteq TxId /\ acked \subseteq TxId /\ sequence \in 0..MaxTx
      BY OpenIds DEF LogOwn, Typed
    <3> QED
      BY <3>1 DEF FilesOwn, FilesTyped, EpochFirst, TypeOK, Active
  <2>2. RecoveredAsReported
    <3> SUFFICES ASSUME call.op = "recover"
                 PROVE  /\ Entries = call.report.committed \cup call.report.aborted \cup call.report.rolledBack
                        /\ call.report.committed = {x \in Entries : IsCommitted(x)}
                        /\ call.todo = {} /\ faults.errors = 0 =>
                             \A x \in call.report.aborted \cup call.report.rolledBack : record[x].status = "aborted"
      BY DEF RecoveredAsReported
    <3>1. Committed = {x \in Entries : IsCommitted(x)}
      BY DEF Committed, Entries, IsCommitted
    <3> QED
      BY <3>1 DEF FilesOwn, RecoverySofar
  <2>3. CountsLagByFaults
    <3> SUFFICES ASSUME call = Idle, meta # None
                 PROVE  LET lag == 0..(faults.crashes + faults.errors)
                        IN /\ Cardinality(Entries) - Len(meta.transactions) \in lag
                           /\ Cardinality({x \in Entries : IsCommitted(x)}) - meta.committed \in lag
                           /\ VerifyConsistency # {} => lag # {0}
      BY DEF CountsLagByFaults
    <3>1. Committed = {x \in Entries : IsCommitted(x)}
      BY DEF Committed, Entries, IsCommitted
    <3>2. ~At("begin", "meta") /\ ~CommitWritten /\ ~CommitUndone
      BY DEF Idle, At, CommitWritten, CommitUndone
    <3>3. /\ Cardinality(Entries) - Len(meta.transactions) \in 0..(Faults + 0)
          /\ Cardinality(Committed) - meta.committed \in 0..(Faults + 0)
      BY <3>2 DEF FilesOwn, Counted
    <3>4. Faults = faults.crashes + faults.errors /\ Faults \in Nat /\ Faults + 0 = Faults
      BY DEF LogOwn, Typed, FilesOwn, FilesTyped, Faults
    <3>5. ASSUME VerifyConsistency # {} PROVE 0..Faults # {0}
      <4>1. Cardinality(Entries) # Len(meta.transactions)
        BY <3>5 DEF VerifyConsistency
      <4>2. Cardinality(Entries) \in Nat /\ Len(meta.transactions) \in Nat
        BY CountOf DEF FilesOwn, FilesTyped, Epoch
      <4> QED
        BY <3>3, <3>4, <4>1, <4>2
    <3> QED
      BY <3>1, <3>3, <3>4, <3>5
  <2> QED
    BY <2>1, <2>2, <2>3 DEF LogInv
<1> QED
  BY <1>1, LogCorrect, FilesCorrect, PTL
=============================================================================
