----------------------- MODULE TransactionManager_proofs -----------------------
(***************************************************************************)
(* What TransactionManager guarantees for every number of threads, tables, *)
(* branches, transactions and faults: types, the mutual exclusion of       *)
(* commits, no lost update, durable commits, true answers and final        *)
(* outcomes whatever fails, whole commits without crashes and I/O errors,  *)
(* and then, when no write bypasses the manager, the refinement of         *)
(* SerialStore.                                                            *)
(***************************************************************************)
EXTENDS TransactionManager, SequenceTheorems, TLAPS

-----------------------------------------------------------------------------
\* The empty record is a record.
LEMMA NewRecordType == NewRecord \in Record
  BY BranchAssumption DEF NewRecord, Record

\* What a transaction sees of a table is a version number.
LEMMA CurrentType ==
  ASSUME TypeOK, NEW b \in Branches, NEW t \in Tables
  PROVE  Current(b, t) \in Nat
  BY DEF TypeOK, Current

\* A version a transaction wrote has a number in its table.
LEMMA VersionOfType ==
  ASSUME TypeOK, NEW x, NEW t \in Tables, Wrote(x, t)
  PROVE  VersionOf(x, t) \in DOMAIN catalog[t] /\ VersionOf(x, t) \in Nat
  BY DEF TypeOK, VersionOf, Wrote

\* The elements of a sequence are in its range.
LEMMA SeqElement ==
  ASSUME NEW S, NEW s \in Seq(S), NEW i \in DOMAIN s
  PROVE  s[i] \in S
  OBVIOUS

\* The writer of a version is a transaction or nobody.
LEMMA WriterType ==
  ASSUME TypeOK, NEW t \in Tables, NEW v \in DOMAIN catalog[t]
  PROVE  catalog[t][v] \in 0..MaxTx
<1>1. catalog[t] \in Seq(0..MaxTx)
  BY DEF TypeOK
<1> QED
  BY <1>1, SeqElement

\* recent_committed stays within its capacity.
LEMMA RememberType ==
  ASSUME TypeOK, NEW x \in TxId
  PROVE  Remember(x) \in Seq(TxId) /\ Len(Remember(x)) <= MaxRecent
<1> DEFINE all == Append(recent, x)
<1> DEFINE lo  == IF Len(all) > MaxRecent THEN Len(all) - MaxRecent + 1 ELSE 1
<1>1. all \in Seq(TxId) /\ Len(all) \in Nat /\ Len(all) = Len(recent) + 1
  BY DEF TypeOK
<1>2. lo \in 1..(Len(all) + 1)
  BY <1>1, BoundAssumption
<1>3. Len(all) - lo + 1 <= MaxRecent
  BY <1>1, BoundAssumption
<1>4. SubSeq(all, lo, Len(all)) \in Seq(TxId)
  BY <1>1, <1>2
<1>5. Len(SubSeq(all, lo, Len(all))) = Len(all) - lo + 1
  BY <1>1, <1>2
<1>6. Remember(x) = SubSeq(all, lo, Len(all))
  BY DEF Remember
<1> QED
  BY <1>3, <1>4, <1>5, <1>6

\* Counting a fault keeps the counters natural numbers.
LEMMA FaultsType ==
  ASSUME NEW f \in [crash : Nat, io : Nat, direct : Nat]
  PROVE  /\ [f EXCEPT !.crash = @ + 1] \in [crash : Nat, io : Nat, direct : Nat]
         /\ [f EXCEPT !.io = @ + 1] \in [crash : Nat, io : Nat, direct : Nat]
         /\ [f EXCEPT !.direct = @ + 1] \in [crash : Nat, io : Nat, direct : Nat]
  OBVIOUS

\* The updates of begin and record_read keep a record a record.
LEMMA BranchUpdateType ==
  ASSUME NEW r \in Record, NEW b \in Branches
  PROVE  [r EXCEPT !.branch = b] \in Record
  BY DEF Record

LEMMA ReadUpdateType ==
  ASSUME NEW r \in Record, NEW t \in Tables, NEW n \in Nat
  PROVE  [r EXCEPT !.covered = @ \cup {t}, !.snap[t] = n] \in Record
  BY DEF Record

\* Appending a version by x to t adds x to the writers of t, and nothing else.
LEMMA WroteAppend ==
  ASSUME TypeOK, NEW x \in 0..MaxTx, NEW t \in Tables,
         catalog' = [catalog EXCEPT ![t] = Append(@, x)]
  PROVE  \A y, u : u \in Tables =>
           (Wrote(y, u)' <=> Wrote(y, u) \/ (y = x /\ u = t))
<1> SUFFICES ASSUME NEW y, NEW u \in Tables
             PROVE  Wrote(y, u)' <=> Wrote(y, u) \/ (y = x /\ u = t)
  OBVIOUS
<1>1. CASE u # t
  BY <1>1 DEF Wrote, TypeOK
<1>2. CASE u = t
  <2>1. catalog[t] \in Seq(0..MaxTx) /\ catalog'[t] = Append(catalog[t], x)
    BY DEF TypeOK
  <2>2. /\ DOMAIN catalog'[t] = DOMAIN catalog[t] \cup {Len(catalog[t]) + 1}
        /\ catalog'[t][Len(catalog[t]) + 1] = x
        /\ \A v \in DOMAIN catalog[t] : catalog'[t][v] = catalog[t][v]
    BY <2>1
  <2> QED
    BY <1>2, <2>2 DEF Wrote
<1> QED
  BY <1>1, <1>2

-----------------------------------------------------------------------------
\* Initially every variable has its type.
LEMMA TypeInit == Init => TypeOK /\ CommitInv
<1> SUFFICES ASSUME Init PROVE TypeOK /\ CommitInv
  OBVIOUS
<1>1. catalog \in [Tables -> Seq(0..MaxTx)]
  <2>1. << >> \in Seq(0..MaxTx) /\ <<NoTx>> \in Seq(0..MaxTx)
    BY BoundAssumption DEF NoTx
  <2> QED
    BY <2>1 DEF Init
<1>2. heads \in [Branches -> [Tables -> Nat]]
  BY <1>1 DEF Init
<1>3. TypeOK
  BY <1>1, <1>2, NewRecordType, BoundAssumption
     DEF Init, TypeOK, TxId, PC, NoTx
<1>4. OwnTx
  BY DEF Init, OwnTx
<1>5. LockHeld
  BY ThreadAssumption DEF Init, LockHeld, CriticalPC
<1>6. WritersBegun
  BY DEF Init, WritersBegun, NoTx
<1>7. WritesApplied
  BY DEF Init, WritesApplied, AppliedBy, BeginPC
<1> QED
  BY <1>3, <1>4, <1>5, <1>6, <1>7 DEF CommitInv

\* The transaction of a thread that is not idle has an identifier.
LEMMA TxType ==
  ASSUME TypeOK, OwnTx, NEW p \in Threads, pc[p] # "idle"
  PROVE  tx[p] \in TxId /\ rec[tx[p]] \in Record
  BY BoundAssumption DEF TypeOK, OwnTx, TxId

\* Every step preserves the types.
LEMMA TypeStep == TypeOK /\ CommitInv /\ [Next]_vars => TypeOK'
<1> SUFFICES ASSUME TypeOK, CommitInv, [Next]_vars PROVE TypeOK'
  OBVIOUS
<1> USE BoundAssumption
<1>a. OwnTx /\ WritesApplied
  BY DEF CommitInv
<1>1. ASSUME NEW p \in Threads, BeginAlloc(p) PROVE TypeOK'
  <2>1. sequence + 1 \in TxId /\ sequence + 1 \in 0..MaxTx
    BY <1>1 DEF BeginAlloc, TypeOK, TxId
  <2>2. PICK b \in Branches : rec' = [rec EXCEPT ![sequence + 1].branch = b]
    BY <1>1 DEF BeginAlloc
  <2>3. rec \in [TxId -> Record]
    BY DEF TypeOK
  <2>4. [rec[sequence + 1] EXCEPT !.branch = b] \in Record
    BY <2>1, <2>3, BranchUpdateType
  <2>5. rec' \in [TxId -> Record]
    BY <2>1, <2>2, <2>3, <2>4
  <2> QED
    BY <1>1, <2>1, <2>5 DEF BeginAlloc, Goto, TypeOK, PC, BeginPC, besideVars
<1>2. ASSUME NEW p \in Threads, BeginSnapshot(p) PROVE TypeOK'
  <2>1. tx[p] \in TxId /\ rec[tx[p]] \in Record /\ rec \in [TxId -> Record]
    BY <1>2, <1>a, TxType DEF BeginSnapshot, TypeOK
  <2>2. \A t \in Tables : Current(rec[tx[p]].branch, t) \in Nat
    BY <2>1, CurrentType DEF Record
  <2> DEFINE found == {t \in Tables : Current(rec[tx[p]].branch, t) # 0}
  <2> DEFINE r == [rec[tx[p]] EXCEPT
                     !.covered = found,
                     !.snap = [t \in Tables |-> Current(rec[tx[p]].branch, t)]]
  <2>3. rec' \in [TxId -> Record]
    <3>1. found \in SUBSET Tables
      OBVIOUS
    <3>2. r \in Record
      BY <2>1, <2>2, <3>1 DEF Record
    <3>3. rec' = [rec EXCEPT ![tx[p]] = r] \/ rec' = rec
      BY <1>2 DEF BeginSnapshot
    <3> HIDE DEF r
    <3> QED
      BY <2>1, <3>2, <3>3
  <2>4. pc' \in [Threads -> PC] /\ todo' \in [Threads -> SUBSET Tables]
    <3>1. \E n \in PC : pc' = [pc EXCEPT ![p] = n]
      BY <1>2 DEF BeginSnapshot, Goto, PC, BeginPC
    <3>2. todo' = todo \/ todo' = [todo EXCEPT ![p] = found]
      BY <1>2 DEF BeginSnapshot
    <3> QED
      BY <3>1, <3>2 DEF TypeOK
  <2> QED
    BY <1>2, <2>3, <2>4 DEF BeginSnapshot, TypeOK, fileVars, besideVars
<1>3. ASSUME NEW p \in Threads, BeginLog(p) PROVE TypeOK'
  BY <1>3, <1>a, TxType, CurrentType, RememberType, NewRecordType
     DEF BeginLog, Goto, GiveUp, TypeOK, TxId, NoTx, PC, BeginPC, CriticalPC, Record,
         fileVars, memoryVars, besideVars
<1>4. ASSUME NEW p \in Threads, NEW t \in Tables, RecordRead(p, t) PROVE TypeOK'
  <2>1. tx[p] \in TxId /\ rec[tx[p]] \in Record
    BY <1>4, <1>a, TxType DEF RecordRead
  <2>2. Current(rec[tx[p]].branch, t) \in Nat
    BY <2>1, CurrentType DEF Record
  <2>3. rec \in [TxId -> Record]
    BY DEF TypeOK
  <2> DEFINE r == [rec[tx[p]] EXCEPT !.covered = @ \cup {t},
                                   !.snap[t] = Current(rec[tx[p]].branch, t)]
  <2>4. r \in Record
    BY <2>1, <2>2, ReadUpdateType
  <2>5. rec' \in [TxId -> Record]
    <3>1. rec' = [rec EXCEPT ![tx[p]] = r]
      BY <1>4 DEF RecordRead
    <3> HIDE DEF r
    <3> QED
      BY <2>1, <2>3, <2>4, <3>1
  <2> QED
    BY <1>4, <2>5 DEF RecordRead, TypeOK, fileVars, memoryVars, besideVars
<1>5. ASSUME NEW p \in Threads, NEW t \in Tables, AddWrite(p, t) PROVE TypeOK'
  <2>1. tx[p] \in TxId /\ rec[tx[p]] \in Record
    BY <1>5, <1>a, TxType DEF AddWrite
  <2>2. [rec[tx[p]] EXCEPT !.writes = @ \cup {t}] \in Record
    BY <2>1 DEF Record
  <2>3. rec' \in [TxId -> Record]
    BY <1>5, <2>1, <2>2 DEF AddWrite, TypeOK
  <2> QED
    BY <1>5, <2>3 DEF AddWrite, TypeOK, fileVars, memoryVars, besideVars
<1>6. ASSUME NEW p \in Threads, CommitCall(p) PROVE TypeOK'
  BY <1>6, <1>a, TxType, CurrentType, RememberType, NewRecordType
     DEF CommitCall, Goto, GiveUp, TypeOK, TxId, NoTx, PC, BeginPC, CriticalPC, Record,
         fileVars, memoryVars, besideVars
<1>7. ASSUME NEW p \in Threads, CommitLock(p) PROVE TypeOK'
  BY <1>7, <1>a, TxType, CurrentType, RememberType, NewRecordType
     DEF CommitLock, Goto, GiveUp, TypeOK, TxId, NoTx, PC, BeginPC, CriticalPC, Record,
         fileVars, memoryVars, besideVars
<1>8. ASSUME NEW p \in Threads, CommitConflict(p) PROVE TypeOK'
  BY <1>8, <1>a, TxType, CurrentType, RememberType, NewRecordType
     DEF CommitConflict, Goto, GiveUp, TypeOK, TxId, NoTx, PC, BeginPC, CriticalPC, Record,
         fileVars, memoryVars, besideVars
<1>9. ASSUME NEW p \in Threads, CommitIOError(p) PROVE TypeOK'
  <2>1. faults' \in [crash : Nat, io : Nat, direct : Nat]
    <3>1. faults \in [crash : Nat, io : Nat, direct : Nat]
      BY DEF TypeOK
    <3>2. faults' = [faults EXCEPT !.io = @ + 1]
      BY <1>9 DEF CommitIOError
    <3> QED
      BY <3>1, <3>2, FaultsType
  <2>2. pc[p] # "idle"
    BY <1>9 DEF CommitIOError
  <2> QED
    BY <1>9, <2>1, <2>2, <1>a, TxType
       DEF CommitIOError, GiveUp, Goto, TypeOK, PC, fileVars, besideVars
<1>10. ASSUME NEW p \in Threads, CommitAccept(p) PROVE TypeOK'
  BY <1>10, <1>a, TxType, CurrentType, RememberType, NewRecordType
     DEF CommitAccept, Goto, GiveUp, TypeOK, TxId, NoTx, PC, BeginPC, CriticalPC, Record,
         fileVars, memoryVars, besideVars
<1>11. ASSUME NEW p \in Threads, NEW t \in Tables, CommitApply(p, t) PROVE TypeOK'
  <2>1. tx[p] \in TxId /\ rec[tx[p]] \in Record
    BY <1>11, <1>a, TxType DEF CommitApply
  <2>2. Append(catalog[t], tx[p]) \in Seq(0..MaxTx)
    BY <2>1 DEF TypeOK, TxId
  <2>3. catalog' \in [Tables -> Seq(0..MaxTx)]
    BY <1>11, <2>2 DEF CommitApply, TypeOK
  <2>4. todo' \in [Threads -> SUBSET Tables]
    <3>1. rec[tx[p]].writes \in SUBSET Tables
      BY <2>1 DEF Record
    <3>2. todo[p] \ {t} \in SUBSET Tables /\ todo \in [Threads -> SUBSET Tables]
      BY DEF TypeOK
    <3>3. \E S \in SUBSET Tables : todo' = [todo EXCEPT ![p] = S]
      BY <1>11, <3>1, <3>2 DEF CommitApply
    <3> QED
      BY <3>2, <3>3
  <2>5. pc' \in [Threads -> PC]
    BY <1>11 DEF CommitApply, Goto, TypeOK, PC, CriticalPC
  <2> QED
    BY <1>11, <2>3, <2>4, <2>5 DEF CommitApply, TypeOK, besideVars
<1>12. ASSUME NEW p \in Threads, NEW t \in Tables, CommitHead(p, t) PROVE TypeOK'
  <2>1. tx[p] \in TxId /\ rec[tx[p]] \in Record
    BY <1>12, <1>a, TxType DEF CommitHead
  <2>2. Wrote(tx[p], t)
    BY <1>12, <1>a DEF CommitHead, WritesApplied, AppliedBy
  <2>3. VersionOf(tx[p], t) \in Nat
    BY <2>2, VersionOfType
  <2>4. heads' \in [Branches -> [Tables -> Nat]]
    BY <1>12, <2>1, <2>3 DEF CommitHead, TypeOK, Record
  <2>5. pc' \in [Threads -> PC] /\ todo' \in [Threads -> SUBSET Tables]
    BY <1>12 DEF CommitHead, Goto, TypeOK, PC, CriticalPC
  <2> QED
    BY <1>12, <2>4, <2>5 DEF CommitHead, TypeOK, besideVars
<1>13. ASSUME NEW p \in Threads, CommitLog(p) PROVE TypeOK'
  BY <1>13, <1>a, TxType, CurrentType, RememberType, NewRecordType
     DEF CommitLog, Goto, GiveUp, TypeOK, TxId, NoTx, PC, BeginPC, CriticalPC, Record,
         fileVars, memoryVars, besideVars
<1>14. ASSUME NEW p \in Threads, CommitIndex(p) PROVE TypeOK'
  <2>1. tx[p] \in TxId
    BY <1>14, <1>a, TxType DEF CommitIndex
  <2>2. index' \in Seq(TxId)
    BY <1>14, <2>1 DEF CommitIndex, TypeOK
  <2> QED
    BY <1>14, <2>2 DEF CommitIndex, Goto, TypeOK, PC, CriticalPC, besideVars
<1>15. ASSUME NEW p \in Threads, CommitFinish(p) PROVE TypeOK'
  <2>1. tx[p] \in TxId
    BY <1>15, <1>a, TxType DEF CommitFinish
  <2>2. recent' \in Seq(TxId) /\ Len(recent') <= MaxRecent
    BY <1>15, <2>1, RememberType DEF CommitFinish
  <2>3. tx' \in [Threads -> 0..MaxTx]
    BY <1>15 DEF CommitFinish, TypeOK, NoTx
  <2> QED
    BY <1>15, <2>1, <2>2, <2>3 DEF CommitFinish, Goto, TypeOK, PC, fileVars, besideVars
<1>16. ASSUME NEW p \in Threads, Abort(p) PROVE TypeOK'
  <2>1. tx[p] \in TxId
    BY <1>16, <1>a, TxType DEF Abort
  <2>2. /\ txLog' \in [TxId -> {"none", "active", "committed", "aborted"}]
        /\ tx' \in [Threads -> 0..MaxTx]
        /\ pc' \in [Threads -> PC]
    BY <1>16, <2>1 DEF Abort, Goto, TypeOK, PC, NoTx
  <2>3. outcome' \in [TxId -> {"none", "Ok", "Aborted", "WriteConflict",
                              "SnapshotConflict", "IoError"}]
    BY <1>16, <2>1 DEF Abort, TypeOK
  <2> QED
    BY <1>16, <2>2, <2>3 DEF Abort, TypeOK, besideVars
<1>17. CASE ClearRecentCommitted
  BY <1>17 DEF ClearRecentCommitted, TypeOK, fileVars, besideVars
<1>18. ASSUME NEW t \in Tables, DirectWrite(t) PROVE TypeOK'
  <2>1. faults' \in [crash : Nat, io : Nat, direct : Nat]
    <3>1. faults \in [crash : Nat, io : Nat, direct : Nat]
      BY DEF TypeOK
    <3>2. faults' = [faults EXCEPT !.direct = @ + 1]
      BY <1>18 DEF DirectWrite
    <3> QED
      BY <3>1, <3>2, FaultsType
  <2>2. Append(catalog[t], NoTx) \in Seq(0..MaxTx)
    BY DEF TypeOK, NoTx
  <2>3. catalog' \in [Tables -> Seq(0..MaxTx)]
    BY <1>18, <2>2 DEF DirectWrite, TypeOK
  <2> QED
    BY <1>18, <2>1, <2>3 DEF DirectWrite, TypeOK, memoryVars, besideVars
<1>19. ASSUME NEW autoRecover \in BOOLEAN, CrashRestart(autoRecover) PROVE TypeOK'
  <2>1. faults' \in [crash : Nat, io : Nat, direct : Nat]
    <3>1. faults \in [crash : Nat, io : Nat, direct : Nat]
      BY DEF TypeOK
    <3>2. faults' = [faults EXCEPT !.crash = @ + 1]
      BY <1>19 DEF CrashRestart
    <3> QED
      BY <3>1, <3>2, FaultsType
  <2>2. txLog' \in [TxId -> {"none", "active", "committed", "aborted"}]
    BY <1>19 DEF CrashRestart, Recovered, TypeOK
  <2>3. /\ recent' \in Seq(TxId) /\ Len(recent') <= MaxRecent
        /\ tx' \in [Threads -> 0..MaxTx]
        /\ pc' \in [Threads -> PC]
        /\ todo' \in [Threads -> SUBSET Tables]
        /\ commitLock' \in Threads \cup {NoThread}
        /\ marking' \in 0..MaxTx
    BY <1>19 DEF CrashRestart, NoTx, PC, TypeOK
  <2> QED
    BY <1>19, <2>1, <2>2, <2>3 DEF CrashRestart, TypeOK
<1>20. CASE UNCHANGED vars
  BY <1>20 DEF vars, fileVars, memoryVars, TypeOK, besideVars
<1>21. CASE Exhausted
  BY <1>20, <1>21 DEF Exhausted
<1>22. ASSUME NEW p \in Threads, CommitLatest(p) PROVE TypeOK'
  BY <1>22, <1>a, TxType DEF CommitLatest, Goto, TypeOK, TxId, PC, CriticalPC, besideVars
<1>23. ASSUME NEW p \in Threads, NEW t \in Tables, BeginCapture(p, t) PROVE TypeOK'
  <2>1. tx[p] \in TxId /\ rec[tx[p]] \in Record
    BY <1>23, <1>a, TxType DEF BeginCapture
  <2>2. Current(rec[tx[p]].branch, t) \in Nat
    BY <2>1, CurrentType DEF Record
  <2> DEFINE r == [rec[tx[p]] EXCEPT !.covered = @ \cup {t},
                                   !.snap[t] = Current(rec[tx[p]].branch, t)]
  <2>3. r \in Record
    BY <2>1, <2>2, ReadUpdateType
  <2>4. rec' \in [TxId -> Record]
    <3>1. rec' = [rec EXCEPT ![tx[p]] = r]
      BY <1>23 DEF BeginCapture
    <3>2. rec \in [TxId -> Record]
      BY DEF TypeOK
    <3> HIDE DEF r
    <3> QED
      BY <2>1, <2>3, <3>1, <3>2
  <2>5. pc' \in [Threads -> PC] /\ todo' \in [Threads -> SUBSET Tables]
    BY <1>23 DEF BeginCapture, Goto, TypeOK, PC, BeginPC
  <2> QED
    BY <1>23, <2>4, <2>5 DEF BeginCapture, TypeOK, fileVars, besideVars
<1>24. ASSUME NEW x \in TxId, RecoverRead(x) PROVE TypeOK'
  BY <1>24 DEF RecoverRead, TypeOK, TxId, fileVars, memoryVars
<1>25. CASE RecoverWrite
  <2>1. marking \in TxId
    BY <1>25 DEF RecoverWrite, TypeOK, TxId, NoTx
  <2> QED
    BY <1>25, <2>1 DEF RecoverWrite, TypeOK, NoTx, memoryVars
<1> QED
  BY <1>1, <1>2, <1>3, <1>4, <1>5, <1>6, <1>7, <1>8, <1>9, <1>10, <1>11,
     <1>12, <1>13, <1>14, <1>15, <1>16, <1>17, <1>18, <1>19, <1>20, <1>21, <1>22,
     <1>23, <1>24, <1>25
     DEF Next, ThreadStep, CommitStep

\* The transactions of the threads stay their own.
LEMMA OwnTxStep == TypeOK /\ CommitInv /\ [Next]_vars => OwnTx'
<1> SUFFICES ASSUME TypeOK, CommitInv, [Next]_vars PROVE OwnTx'
  OBVIOUS
<1> USE DEF CommitInv
<1>1. ASSUME NEW p \in Threads, BeginAlloc(p) PROVE OwnTx'
  BY <1>1
     DEF BeginAlloc, Goto, TypeOK, OwnTx, fileVars, memoryVars
<1>2. ASSUME NEW p \in Threads, BeginSnapshot(p) PROVE OwnTx'
  BY <1>2
     DEF BeginSnapshot, Goto, TypeOK, OwnTx, fileVars, memoryVars
<1>3. ASSUME NEW p \in Threads, BeginLog(p) PROVE OwnTx'
  BY <1>3
     DEF BeginLog, Goto, TypeOK, OwnTx, fileVars, memoryVars
<1>4. ASSUME NEW p \in Threads, NEW t \in Tables, RecordRead(p, t) PROVE OwnTx'
  BY <1>4
     DEF RecordRead, Goto, TypeOK, OwnTx, fileVars, memoryVars
<1>5. ASSUME NEW p \in Threads, NEW t \in Tables, AddWrite(p, t) PROVE OwnTx'
  BY <1>5
     DEF AddWrite, Goto, TypeOK, OwnTx, fileVars, memoryVars
<1>6. ASSUME NEW p \in Threads, CommitCall(p) PROVE OwnTx'
  BY <1>6
     DEF CommitCall, Goto, TypeOK, OwnTx, fileVars, memoryVars
<1>7. ASSUME NEW p \in Threads, CommitLock(p) PROVE OwnTx'
  BY <1>7
     DEF CommitLock, Goto, TypeOK, OwnTx, fileVars, memoryVars
<1>8. ASSUME NEW p \in Threads, CommitConflict(p) PROVE OwnTx'
  BY <1>8
     DEF CommitConflict, GiveUp, Goto, TypeOK, OwnTx, fileVars, memoryVars
<1>9. ASSUME NEW p \in Threads, CommitIOError(p) PROVE OwnTx'
  BY <1>9
     DEF CommitIOError, GiveUp, Goto, TypeOK, OwnTx, fileVars, memoryVars
<1>10. ASSUME NEW p \in Threads, CommitAccept(p) PROVE OwnTx'
  BY <1>10
     DEF CommitAccept, Goto, TypeOK, OwnTx, fileVars, memoryVars
<1>11. ASSUME NEW p \in Threads, NEW t \in Tables, CommitApply(p, t) PROVE OwnTx'
  BY <1>11
     DEF CommitApply, Goto, TypeOK, OwnTx, fileVars, memoryVars
<1>12. ASSUME NEW p \in Threads, NEW t \in Tables, CommitHead(p, t) PROVE OwnTx'
  BY <1>12
     DEF CommitHead, Goto, TypeOK, OwnTx, fileVars, memoryVars
<1>13. ASSUME NEW p \in Threads, CommitLog(p) PROVE OwnTx'
  BY <1>13
     DEF CommitLog, Goto, TypeOK, OwnTx, fileVars, memoryVars
<1>14. ASSUME NEW p \in Threads, CommitIndex(p) PROVE OwnTx'
  BY <1>14
     DEF CommitIndex, Goto, TypeOK, OwnTx, fileVars, memoryVars
<1>15. ASSUME NEW p \in Threads, CommitFinish(p) PROVE OwnTx'
  BY <1>15
     DEF CommitFinish, Goto, TypeOK, OwnTx, fileVars, memoryVars
<1>16. ASSUME NEW p \in Threads, Abort(p) PROVE OwnTx'
  BY <1>16
     DEF Abort, Goto, TypeOK, OwnTx, fileVars, memoryVars
<1>17. CASE ClearRecentCommitted
  BY <1>17
     DEF ClearRecentCommitted, Goto, TypeOK, OwnTx, fileVars, memoryVars
<1>18. ASSUME NEW t \in Tables, DirectWrite(t) PROVE OwnTx'
  BY <1>18
     DEF DirectWrite, Goto, TypeOK, OwnTx, fileVars, memoryVars
<1>19. ASSUME NEW autoRecover \in BOOLEAN, CrashRestart(autoRecover) PROVE OwnTx'
  BY <1>19
     DEF CrashRestart, Goto, TypeOK, OwnTx, fileVars, memoryVars
<1>20. CASE UNCHANGED vars
  BY <1>20
     DEF vars, Goto, TypeOK, OwnTx, fileVars, memoryVars
<1>21. CASE Exhausted
  BY <1>20, <1>21 DEF Exhausted
<1>22. ASSUME NEW p \in Threads, CommitLatest(p) PROVE OwnTx'
  BY <1>22
     DEF CommitLatest, Goto, TypeOK, OwnTx, fileVars, memoryVars
<1>23. ASSUME NEW p \in Threads, NEW t \in Tables, BeginCapture(p, t) PROVE OwnTx'
  BY <1>23
     DEF BeginCapture, Goto, TypeOK, OwnTx, fileVars, memoryVars
<1>24. ASSUME NEW x \in TxId, RecoverRead(x) PROVE OwnTx'
  BY <1>24
     DEF RecoverRead, Goto, TypeOK, OwnTx, fileVars, memoryVars
<1>25. CASE RecoverWrite
  BY <1>25
     DEF RecoverWrite, Goto, TypeOK, OwnTx, fileVars, memoryVars
<1> QED
  BY <1>1, <1>2, <1>3, <1>4, <1>5, <1>6, <1>7, <1>8, <1>9, <1>10, <1>11,
     <1>12, <1>13, <1>14, <1>15, <1>16, <1>17, <1>18, <1>19, <1>20, <1>21, <1>22,
     <1>23, <1>24, <1>25
     DEF Next, ThreadStep, CommitStep

\* commit_lock follows the critical section.
LEMMA LockHeldStep == TypeOK /\ CommitInv /\ [Next]_vars => LockHeld'
<1> SUFFICES ASSUME TypeOK, CommitInv, [Next]_vars PROVE LockHeld'
  OBVIOUS
<1> USE ThreadAssumption DEF CommitInv
<1>1. ASSUME NEW p \in Threads, BeginAlloc(p) PROVE LockHeld'
  BY <1>1
     DEF BeginAlloc, Goto, TypeOK, LockHeld, CriticalPC, fileVars, memoryVars
<1>2. ASSUME NEW p \in Threads, BeginSnapshot(p) PROVE LockHeld'
  BY <1>2
     DEF BeginSnapshot, Goto, TypeOK, LockHeld, CriticalPC, fileVars, memoryVars
<1>3. ASSUME NEW p \in Threads, BeginLog(p) PROVE LockHeld'
  BY <1>3
     DEF BeginLog, Goto, TypeOK, LockHeld, CriticalPC, fileVars, memoryVars
<1>4. ASSUME NEW p \in Threads, NEW t \in Tables, RecordRead(p, t) PROVE LockHeld'
  BY <1>4
     DEF RecordRead, Goto, TypeOK, LockHeld, CriticalPC, fileVars, memoryVars
<1>5. ASSUME NEW p \in Threads, NEW t \in Tables, AddWrite(p, t) PROVE LockHeld'
  BY <1>5
     DEF AddWrite, Goto, TypeOK, LockHeld, CriticalPC, fileVars, memoryVars
<1>6. ASSUME NEW p \in Threads, CommitCall(p) PROVE LockHeld'
  BY <1>6
     DEF CommitCall, Goto, TypeOK, LockHeld, CriticalPC, fileVars, memoryVars
<1>7. ASSUME NEW p \in Threads, CommitLock(p) PROVE LockHeld'
  BY <1>7
     DEF CommitLock, Goto, TypeOK, LockHeld, CriticalPC, fileVars, memoryVars
<1>8. ASSUME NEW p \in Threads, CommitConflict(p) PROVE LockHeld'
  <2>1. pc[p] = "check" /\ commitLock' = NoThread /\ pc' = [pc EXCEPT ![p] = "failed"]
    BY <1>8 DEF CommitConflict, GiveUp, Goto
  <2> QED
    BY <2>1 DEF TypeOK, LockHeld, CriticalPC
<1>9. ASSUME NEW p \in Threads, CommitIOError(p) PROVE LockHeld'
  BY <1>9
     DEF CommitIOError, GiveUp, Goto, TypeOK, LockHeld, CriticalPC, fileVars, memoryVars
<1>10. ASSUME NEW p \in Threads, CommitAccept(p) PROVE LockHeld'
  BY <1>10
     DEF CommitAccept, Goto, TypeOK, LockHeld, CriticalPC, fileVars, memoryVars
<1>11. ASSUME NEW p \in Threads, NEW t \in Tables, CommitApply(p, t) PROVE LockHeld'
  BY <1>11
     DEF CommitApply, Goto, TypeOK, LockHeld, CriticalPC, fileVars, memoryVars
<1>12. ASSUME NEW p \in Threads, NEW t \in Tables, CommitHead(p, t) PROVE LockHeld'
  BY <1>12
     DEF CommitHead, Goto, TypeOK, LockHeld, CriticalPC, fileVars, memoryVars
<1>13. ASSUME NEW p \in Threads, CommitLog(p) PROVE LockHeld'
  BY <1>13
     DEF CommitLog, Goto, TypeOK, LockHeld, CriticalPC, fileVars, memoryVars
<1>14. ASSUME NEW p \in Threads, CommitIndex(p) PROVE LockHeld'
  BY <1>14
     DEF CommitIndex, Goto, TypeOK, LockHeld, CriticalPC, fileVars, memoryVars
<1>15. ASSUME NEW p \in Threads, CommitFinish(p) PROVE LockHeld'
  BY <1>15
     DEF CommitFinish, Goto, TypeOK, LockHeld, CriticalPC, fileVars, memoryVars
<1>16. ASSUME NEW p \in Threads, Abort(p) PROVE LockHeld'
  BY <1>16
     DEF Abort, Goto, TypeOK, LockHeld, CriticalPC, fileVars, memoryVars
<1>17. CASE ClearRecentCommitted
  BY <1>17
     DEF ClearRecentCommitted, Goto, TypeOK, LockHeld, CriticalPC, fileVars, memoryVars
<1>18. ASSUME NEW t \in Tables, DirectWrite(t) PROVE LockHeld'
  BY <1>18
     DEF DirectWrite, Goto, TypeOK, LockHeld, CriticalPC, fileVars, memoryVars
<1>19. ASSUME NEW autoRecover \in BOOLEAN, CrashRestart(autoRecover) PROVE LockHeld'
  BY <1>19
     DEF CrashRestart, Goto, TypeOK, LockHeld, CriticalPC, fileVars, memoryVars
<1>20. CASE UNCHANGED vars
  BY <1>20
     DEF vars, Goto, TypeOK, LockHeld, CriticalPC, fileVars, memoryVars
<1>21. CASE Exhausted
  BY <1>20, <1>21 DEF Exhausted
<1>22. ASSUME NEW p \in Threads, CommitLatest(p) PROVE LockHeld'
  BY <1>22
     DEF CommitLatest, Goto, TypeOK, LockHeld, CriticalPC, fileVars, memoryVars
<1>23. ASSUME NEW p \in Threads, NEW t \in Tables, BeginCapture(p, t) PROVE LockHeld'
  BY <1>23
     DEF BeginCapture, Goto, TypeOK, LockHeld, CriticalPC, fileVars, memoryVars
<1>24. ASSUME NEW x \in TxId, RecoverRead(x) PROVE LockHeld'
  BY <1>24
     DEF RecoverRead, Goto, TypeOK, LockHeld, CriticalPC, fileVars, memoryVars
<1>25. CASE RecoverWrite
  BY <1>25
     DEF RecoverWrite, Goto, TypeOK, LockHeld, CriticalPC, fileVars, memoryVars
<1> QED
  BY <1>1, <1>2, <1>3, <1>4, <1>5, <1>6, <1>7, <1>8, <1>9, <1>10, <1>11,
     <1>12, <1>13, <1>14, <1>15, <1>16, <1>17, <1>18, <1>19, <1>20, <1>21, <1>22,
     <1>23, <1>24, <1>25
     DEF Next, ThreadStep, CommitStep

\* A version by a transaction that has begun.
LEMMA AppendBegun ==
  ASSUME TypeOK, WritersBegun, NEW x \in 0..MaxTx, x <= sequence, NEW t \in Tables,
         sequence' = sequence, catalog' = [catalog EXCEPT ![t] = Append(@, x)]
  PROVE  WritersBegun'
<1>1. catalog[t] \in Seq(0..MaxTx) /\ catalog'[t] = Append(catalog[t], x)
  BY DEF TypeOK
<1>2. /\ DOMAIN catalog'[t] = DOMAIN catalog[t] \cup {Len(catalog[t]) + 1}
      /\ catalog'[t][Len(catalog[t]) + 1] = x
      /\ \A v \in DOMAIN catalog[t] : catalog'[t][v] = catalog[t][v]
  BY <1>1
<1>3. \A v \in DOMAIN catalog'[t] : catalog'[t][v] <= sequence'
  BY <1>2 DEF WritersBegun
<1>4. \A u \in Tables : u # t => catalog'[u] = catalog[u]
  BY DEF TypeOK
<1> QED
  BY <1>3, <1>4 DEF WritersBegun

\* A version is only ever written by a transaction that has begun.
LEMMA WritersBegunStep == TypeOK /\ CommitInv /\ [Next]_vars => WritersBegun'
<1> SUFFICES ASSUME TypeOK, CommitInv, [Next]_vars PROVE WritersBegun'
  OBVIOUS
<1> USE BoundAssumption DEF CommitInv
<1>1. ASSUME NEW p \in Threads, BeginAlloc(p) PROVE WritersBegun'
  <2>1. UNCHANGED catalog /\ sequence' = sequence + 1 /\ sequence \in Nat
    BY <1>1 DEF BeginAlloc, TypeOK
  <2>2. \A t \in Tables : \A v \in DOMAIN catalog[t] : catalog[t][v] \in Int
    BY WriterType
  <2> QED
    BY <2>1, <2>2 DEF WritersBegun
<1>2. ASSUME NEW p \in Threads, BeginSnapshot(p) PROVE WritersBegun'
  BY <1>2
     DEF BeginSnapshot, Goto, TypeOK, WritersBegun, OwnTx, fileVars, memoryVars
<1>3. ASSUME NEW p \in Threads, BeginLog(p) PROVE WritersBegun'
  BY <1>3
     DEF BeginLog, Goto, TypeOK, WritersBegun, OwnTx, fileVars, memoryVars
<1>4. ASSUME NEW p \in Threads, NEW t \in Tables, RecordRead(p, t) PROVE WritersBegun'
  BY <1>4
     DEF RecordRead, Goto, TypeOK, WritersBegun, OwnTx, fileVars, memoryVars
<1>5. ASSUME NEW p \in Threads, NEW t \in Tables, AddWrite(p, t) PROVE WritersBegun'
  BY <1>5
     DEF AddWrite, Goto, TypeOK, WritersBegun, OwnTx, fileVars, memoryVars
<1>6. ASSUME NEW p \in Threads, CommitCall(p) PROVE WritersBegun'
  BY <1>6
     DEF CommitCall, Goto, TypeOK, WritersBegun, OwnTx, fileVars, memoryVars
<1>7. ASSUME NEW p \in Threads, CommitLock(p) PROVE WritersBegun'
  BY <1>7
     DEF CommitLock, Goto, TypeOK, WritersBegun, OwnTx, fileVars, memoryVars
<1>8. ASSUME NEW p \in Threads, CommitConflict(p) PROVE WritersBegun'
  BY <1>8
     DEF CommitConflict, GiveUp, Goto, TypeOK, WritersBegun, OwnTx, fileVars, memoryVars
<1>9. ASSUME NEW p \in Threads, CommitIOError(p) PROVE WritersBegun'
  BY <1>9
     DEF CommitIOError, GiveUp, Goto, TypeOK, WritersBegun, OwnTx, fileVars, memoryVars
<1>10. ASSUME NEW p \in Threads, CommitAccept(p) PROVE WritersBegun'
  BY <1>10
     DEF CommitAccept, Goto, TypeOK, WritersBegun, OwnTx, fileVars, memoryVars
<1>11. ASSUME NEW p \in Threads, NEW t \in Tables, CommitApply(p, t) PROVE WritersBegun'
  <2>1. tx[p] \in 0..MaxTx /\ tx[p] <= sequence /\ sequence' = sequence
    BY <1>11 DEF CommitApply, OwnTx, TypeOK
  <2>2. catalog' = [catalog EXCEPT ![t] = Append(@, tx[p])]
    BY <1>11 DEF CommitApply
  <2> QED
    BY <2>1, <2>2, AppendBegun
<1>12. ASSUME NEW p \in Threads, NEW t \in Tables, CommitHead(p, t) PROVE WritersBegun'
  BY <1>12
     DEF CommitHead, Goto, TypeOK, WritersBegun, OwnTx, fileVars, memoryVars
<1>13. ASSUME NEW p \in Threads, CommitLog(p) PROVE WritersBegun'
  BY <1>13
     DEF CommitLog, Goto, TypeOK, WritersBegun, OwnTx, fileVars, memoryVars
<1>14. ASSUME NEW p \in Threads, CommitIndex(p) PROVE WritersBegun'
  BY <1>14
     DEF CommitIndex, Goto, TypeOK, WritersBegun, OwnTx, fileVars, memoryVars
<1>15. ASSUME NEW p \in Threads, CommitFinish(p) PROVE WritersBegun'
  BY <1>15
     DEF CommitFinish, Goto, TypeOK, WritersBegun, OwnTx, fileVars, memoryVars
<1>16. ASSUME NEW p \in Threads, Abort(p) PROVE WritersBegun'
  BY <1>16
     DEF Abort, Goto, TypeOK, WritersBegun, OwnTx, fileVars, memoryVars
<1>17. CASE ClearRecentCommitted
  BY <1>17
     DEF ClearRecentCommitted, Goto, TypeOK, WritersBegun, OwnTx, fileVars, memoryVars
<1>18. ASSUME NEW t \in Tables, DirectWrite(t) PROVE WritersBegun'
  <2>1. NoTx \in 0..MaxTx /\ NoTx <= sequence /\ sequence' = sequence
    BY <1>18 DEF DirectWrite, TypeOK, NoTx
  <2>2. catalog' = [catalog EXCEPT ![t] = Append(@, NoTx)]
    BY <1>18 DEF DirectWrite
  <2> QED
    BY <2>1, <2>2, AppendBegun
<1>19. ASSUME NEW autoRecover \in BOOLEAN, CrashRestart(autoRecover) PROVE WritersBegun'
  BY <1>19
     DEF CrashRestart, Goto, TypeOK, WritersBegun, OwnTx, fileVars, memoryVars
<1>20. CASE UNCHANGED vars
  BY <1>20
     DEF vars, Goto, TypeOK, WritersBegun, OwnTx, fileVars, memoryVars
<1>21. CASE Exhausted
  BY <1>20, <1>21 DEF Exhausted
<1>22. ASSUME NEW p \in Threads, CommitLatest(p) PROVE WritersBegun'
  BY <1>22
     DEF CommitLatest, Goto, TypeOK, WritersBegun, OwnTx, fileVars, memoryVars
<1>23. ASSUME NEW p \in Threads, NEW t \in Tables, BeginCapture(p, t) PROVE WritersBegun'
  BY <1>23
     DEF BeginCapture, Goto, TypeOK, WritersBegun, OwnTx, fileVars, memoryVars
<1>24. ASSUME NEW x \in TxId, RecoverRead(x) PROVE WritersBegun'
  BY <1>24
     DEF RecoverRead, Goto, TypeOK, WritersBegun, OwnTx, fileVars, memoryVars
<1>25. CASE RecoverWrite
  BY <1>25
     DEF RecoverWrite, Goto, TypeOK, WritersBegun, OwnTx, fileVars, memoryVars
<1> QED
  BY <1>1, <1>2, <1>3, <1>4, <1>5, <1>6, <1>7, <1>8, <1>9, <1>10, <1>11,
     <1>12, <1>13, <1>14, <1>15, <1>16, <1>17, <1>18, <1>19, <1>20, <1>21, <1>22,
     <1>23, <1>24, <1>25
     DEF Next, ThreadStep, CommitStep

\* The catalog holds what the code has applied and nothing more.
LEMMA WritesAppliedStep == TypeOK /\ CommitInv /\ [Next]_vars => WritesApplied'
<1> SUFFICES ASSUME TypeOK, CommitInv, [Next]_vars PROVE WritesApplied'
  OBVIOUS
<1> USE BoundAssumption DEF CommitInv
<1>1. ASSUME NEW p \in Threads, BeginAlloc(p) PROVE WritesApplied'
  <2>1. \A y, u : Wrote(y, u)' <=> Wrote(y, u)
    BY <1>1 DEF BeginAlloc, Wrote
  <2>2. \A u \in Tables : ~Wrote(sequence + 1, u)
    BY DEF WritersBegun, Wrote, TypeOK
  <2>3. AppliedBy(p)'
    BY <1>1, <2>1, <2>2 DEF BeginAlloc, Goto, TypeOK, AppliedBy, BeginPC
  <2>4. ASSUME NEW q \in Threads, q # p PROVE AppliedBy(q)'
    <3>1. pc[q] # "idle" => rec'[tx[q]] = rec[tx[q]]
      BY <1>1 DEF BeginAlloc, TypeOK, OwnTx, TxId
    <3>2. tx'[q] = tx[q] /\ pc'[q] = pc[q] /\ todo' = todo
      BY <1>1, <2>4 DEF BeginAlloc, Goto, TypeOK
    <3> QED
      BY <2>1, <3>1, <3>2 DEF WritesApplied, AppliedBy, BeginPC
  <2> QED
    BY <2>3, <2>4 DEF WritesApplied
<1>2. ASSUME NEW p \in Threads, BeginSnapshot(p) PROVE WritesApplied'
  <2>1. \A y, u : Wrote(y, u)' <=> Wrote(y, u)
    BY <1>2 DEF BeginSnapshot, Wrote, fileVars
  <2>2. /\ pc[p] = "allocated" /\ tx' = tx
        /\ \E n \in {"capture", "snapped"} : pc' = [pc EXCEPT ![p] = n]
        /\ todo' = todo \/ \E S : todo' = [todo EXCEPT ![p] = S]
    BY <1>2 DEF BeginSnapshot, Goto
  <2>3. ASSUME NEW q \in Threads, pc[q] # "idle"
        PROVE  rec'[tx[q]].writes = rec[tx[q]].writes
    <3>1. tx[p] \in TxId /\ tx[q] \in TxId /\ rec[tx[p]] \in Record
      BY <2>2, <2>3, TxType
    <3> DEFINE b == rec[tx[p]].branch
    <3> DEFINE r == [rec[tx[p]] EXCEPT !.covered = {t \in Tables : Current(b, t) # 0},
                                     !.snap = [t \in Tables |-> Current(b, t)]]
    <3>2. rec' = rec \/ rec' = [rec EXCEPT ![tx[p]] = r]
      BY <1>2 DEF BeginSnapshot
    <3>3. r.writes = rec[tx[p]].writes
      BY <3>1 DEF Record
    <3> HIDE DEF r
    <3> QED
      BY <3>1, <3>2, <3>3 DEF TypeOK
  <2> SUFFICES ASSUME NEW q \in Threads PROVE AppliedBy(q)'
    BY DEF WritesApplied
  <2>4. AppliedBy(q) /\ tx'[q] = tx[q]
    BY <2>2 DEF WritesApplied
  <2>5. \/ q # p /\ pc'[q] = pc[q] /\ todo'[q] = todo[q]
        \/ q = p /\ pc[q] = "allocated" /\ pc'[q] \in {"capture", "snapped"}
    BY <2>2 DEF TypeOK
  <2> QED
    BY <2>1, <2>3, <2>4, <2>5 DEF AppliedBy, BeginPC
<1>3. ASSUME NEW p \in Threads, BeginLog(p) PROVE WritesApplied'
  <2>1. \A y, u : Wrote(y, u)' <=> Wrote(y, u)
    BY <1>3 DEF BeginLog, Wrote
  <2>2. pc[p] = "snapped" /\ pc' = [pc EXCEPT ![p] = "open"] /\ UNCHANGED <<tx, rec, todo>>
    BY <1>3 DEF BeginLog, Goto
  <2> QED
    BY <2>1, <2>2 DEF TypeOK, WritesApplied, AppliedBy, BeginPC
<1>4. ASSUME NEW p \in Threads, NEW t \in Tables, RecordRead(p, t) PROVE WritesApplied'
  <2>1. \A y, u : Wrote(y, u)' <=> Wrote(y, u)
    BY <1>4 DEF RecordRead, Wrote, fileVars
  <2>2. UNCHANGED <<pc, tx, todo>>
    BY <1>4 DEF RecordRead, memoryVars
  <2>3. ASSUME NEW q \in Threads, pc[q] # "idle"
        PROVE  rec'[tx[q]].writes = rec[tx[q]].writes
    BY <1>4, <2>3, TxType DEF RecordRead, TypeOK
  <2> QED
    BY <1>4, <2>1, <2>2, <2>3 DEF WritesApplied, AppliedBy, BeginPC
<1>5. ASSUME NEW p \in Threads, NEW t \in Tables, AddWrite(p, t) PROVE WritesApplied'
  <2>1. \A y, u : Wrote(y, u)' <=> Wrote(y, u)
    BY <1>5 DEF AddWrite, Wrote, fileVars
  <2>2. UNCHANGED <<pc, tx, todo>> /\ pc[p] = "open"
    BY <1>5 DEF AddWrite, memoryVars
  <2>3. ASSUME NEW q \in Threads, q # p, pc[q] # "idle"
        PROVE  rec'[tx[q]] = rec[tx[q]]
    BY <1>5, <2>2, <2>3, TxType DEF AddWrite, TypeOK, OwnTx
  <2> QED
    BY <2>1, <2>2, <2>3 DEF WritesApplied, AppliedBy, BeginPC
<1>6. ASSUME NEW p \in Threads, CommitCall(p) PROVE WritesApplied'
  BY <1>6, TxType
     DEF CommitCall, Goto, TypeOK, OwnTx, WritesApplied, AppliedBy, Wrote, PC, BeginPC, CriticalPC, Record, fileVars, memoryVars
<1>7. ASSUME NEW p \in Threads, CommitLock(p) PROVE WritesApplied'
  BY <1>7, TxType
     DEF CommitLock, Goto, TypeOK, OwnTx, WritesApplied, AppliedBy, Wrote, PC, BeginPC, CriticalPC, Record, fileVars, memoryVars
<1>8. ASSUME NEW p \in Threads, CommitConflict(p) PROVE WritesApplied'
  <2>1. \A y, u : Wrote(y, u)' <=> Wrote(y, u)
    BY <1>8 DEF CommitConflict, GiveUp, Wrote, fileVars
  <2>2. /\ pc' = [pc EXCEPT ![p] = "failed"]
        /\ todo' = [todo EXCEPT ![p] = {}]
        /\ UNCHANGED <<tx, rec>>
    BY <1>8 DEF CommitConflict, GiveUp, Goto
  <2> QED
    BY <2>1, <2>2 DEF TypeOK, WritesApplied, AppliedBy, BeginPC
<1>9. ASSUME NEW p \in Threads, CommitIOError(p) PROVE WritesApplied'
  <2>1. \A y, u : Wrote(y, u)' <=> Wrote(y, u)
    BY <1>9 DEF CommitIOError, GiveUp, Wrote, fileVars
  <2>2. /\ pc' = [pc EXCEPT ![p] = "failed"]
        /\ todo' = [todo EXCEPT ![p] = {}]
        /\ UNCHANGED <<tx, rec>>
    BY <1>9 DEF CommitIOError, GiveUp, Goto
  <2> QED
    BY <2>1, <2>2 DEF TypeOK, WritesApplied, AppliedBy, BeginPC
<1>10. ASSUME NEW p \in Threads, CommitAccept(p) PROVE WritesApplied'
  BY <1>10, TxType
     DEF CommitAccept, Goto, TypeOK, OwnTx, WritesApplied, AppliedBy, Wrote, PC, BeginPC, CriticalPC, Record, fileVars, memoryVars
<1>11. ASSUME NEW p \in Threads, NEW t \in Tables, CommitApply(p, t) PROVE WritesApplied'
  <2>1. tx[p] \in 0..MaxTx /\ rec[tx[p]] \in Record
    BY <1>11, TxType DEF CommitApply, TxId
  <2>2. \A y, u : u \in Tables =>
          (Wrote(y, u)' <=> Wrote(y, u) \/ (y = tx[p] /\ u = t))
    BY <1>11, <2>1, WroteAppend DEF CommitApply
  <2>3. AppliedBy(p)'
    <3>1. AppliedBy(p) /\ rec[tx[p]].writes \subseteq Tables
      BY <2>1 DEF WritesApplied, Record
    <3>2. /\ pc[p] = "apply" /\ t \in todo[p] /\ todo[p] \subseteq Tables /\ UNCHANGED <<tx, rec>>
          /\ \/ pc' = pc /\ todo'[p] = todo[p] \ {t}
             \/ pc'[p] = "heads" /\ todo[p] \ {t} = {}
             \/ pc'[p] = "log" /\ todo[p] \ {t} = {}
      BY <1>11 DEF CommitApply, Goto, TypeOK
    <3>3. /\ \A u \in todo[p] \ {t} : ~Wrote(tx[p], u)'
          /\ \A u \in rec[tx[p]].writes \ (todo[p] \ {t}) : Wrote(tx[p], u)'
      BY <2>2, <3>1, <3>2 DEF AppliedBy
    <3>4. CASE pc' = pc /\ todo'[p] = todo[p] \ {t}
      BY <3>1, <3>2, <3>3, <3>4 DEF AppliedBy, BeginPC
    <3>5. CASE pc'[p] = "heads" /\ todo[p] \ {t} = {}
      BY <1>11, <3>1, <3>2, <3>3, <3>5 DEF AppliedBy, BeginPC, CommitApply, TypeOK
    <3>6. CASE pc'[p] = "log"
      BY <3>6 DEF AppliedBy, BeginPC
    <3> QED
      BY <3>2, <3>4, <3>5, <3>6
  <2>4. ASSUME NEW q \in Threads, q # p PROVE AppliedBy(q)'
    <3>1. UNCHANGED <<tx, rec>> /\ pc'[q] = pc[q] /\ todo'[q] = todo[q]
      BY <1>11, <2>4 DEF CommitApply, Goto, TypeOK
    <3>2. CASE pc[q] \in BeginPC \cup {"check", "apply", "heads"}
      <4>1. tx[q] # tx[p] /\ rec[tx[q]].writes \subseteq Tables /\ todo[q] \subseteq Tables
        BY <1>11, <2>4, <3>2, TxType DEF CommitApply, OwnTx, BeginPC, Record, TypeOK
      <4> QED
        BY <2>2, <3>1, <4>1 DEF WritesApplied, AppliedBy
    <3>3. CASE pc[q] \notin BeginPC \cup {"check", "apply", "heads"}
      BY <3>1, <3>3 DEF AppliedBy
    <3> QED
      BY <3>2, <3>3
  <2> QED
    BY <2>3, <2>4 DEF WritesApplied
<1>12. ASSUME NEW p \in Threads, NEW t \in Tables, CommitHead(p, t) PROVE WritesApplied'
  <2>1. \A y, u : Wrote(y, u)' <=> Wrote(y, u)
    BY <1>12 DEF CommitHead, Wrote
  <2> QED
    BY <1>12, <2>1 DEF CommitHead, Goto, TypeOK, WritesApplied, AppliedBy, BeginPC
<1>13. ASSUME NEW p \in Threads, CommitLog(p) PROVE WritesApplied'
  BY <1>13, TxType
     DEF CommitLog, Goto, TypeOK, OwnTx, WritesApplied, AppliedBy, Wrote, PC, BeginPC, CriticalPC, Record, fileVars, memoryVars
<1>14. ASSUME NEW p \in Threads, CommitIndex(p) PROVE WritesApplied'
  BY <1>14, TxType
     DEF CommitIndex, Goto, TypeOK, OwnTx, WritesApplied, AppliedBy, Wrote, PC, BeginPC, CriticalPC, Record, fileVars, memoryVars
<1>15. ASSUME NEW p \in Threads, CommitFinish(p) PROVE WritesApplied'
  BY <1>15, TxType
     DEF CommitFinish, Goto, TypeOK, OwnTx, WritesApplied, AppliedBy, Wrote, PC, BeginPC, CriticalPC, Record, fileVars, memoryVars
<1>16. ASSUME NEW p \in Threads, Abort(p) PROVE WritesApplied'
  BY <1>16, TxType
     DEF Abort, Goto, TypeOK, OwnTx, WritesApplied, AppliedBy, Wrote, PC, BeginPC, CriticalPC, Record, fileVars, memoryVars
<1>17. CASE ClearRecentCommitted
  BY <1>17, TxType
     DEF ClearRecentCommitted, Goto, TypeOK, OwnTx, WritesApplied, AppliedBy, Wrote, PC, BeginPC, CriticalPC, Record, fileVars, memoryVars
<1>18. ASSUME NEW t \in Tables, DirectWrite(t) PROVE WritesApplied'
  <2>1. \A y, u : u \in Tables => (Wrote(y, u)' <=> Wrote(y, u) \/ (y = NoTx /\ u = t))
    <3>1. NoTx \in 0..MaxTx
      BY DEF NoTx
    <3> QED
      BY <1>18, <3>1, WroteAppend DEF DirectWrite
  <2>2. ASSUME NEW q \in Threads, pc[q] # "idle"
        PROVE  /\ tx[q] # NoTx
               /\ rec[tx[q]].writes \subseteq Tables
               /\ todo[q] \subseteq Tables
    <3>1. tx[q] \in TxId /\ rec[tx[q]] \in Record
      BY <2>2, TxType
    <3>2. todo[q] \subseteq Tables
      BY DEF TypeOK
    <3> QED
      BY <3>1, <3>2 DEF TxId, NoTx, Record
  <2> QED
    BY <1>18, <2>1, <2>2 DEF DirectWrite, WritesApplied, AppliedBy, BeginPC, memoryVars
<1>19. ASSUME NEW autoRecover \in BOOLEAN, CrashRestart(autoRecover) PROVE WritesApplied'
  BY <1>19, TxType
     DEF CrashRestart, Goto, TypeOK, OwnTx, WritesApplied, AppliedBy, Wrote, PC, BeginPC, CriticalPC, Record, fileVars, memoryVars
<1>20. CASE UNCHANGED vars
  BY <1>20, TxType
     DEF vars, Goto, TypeOK, OwnTx, WritesApplied, AppliedBy, Wrote, PC, BeginPC, CriticalPC, Record, fileVars, memoryVars
<1>21. CASE Exhausted
  BY <1>20, <1>21 DEF Exhausted
<1>22. ASSUME NEW p \in Threads, CommitLatest(p) PROVE WritesApplied'
  BY <1>22, TxType
     DEF CommitLatest, Goto, TypeOK, OwnTx, WritesApplied, AppliedBy, Wrote, PC, BeginPC, CriticalPC, Record, fileVars, memoryVars
<1>23. ASSUME NEW p \in Threads, NEW t \in Tables, BeginCapture(p, t) PROVE WritesApplied'
  <2>1. \A y, u : Wrote(y, u)' <=> Wrote(y, u)
    BY <1>23 DEF BeginCapture, Wrote, fileVars
  <2>2. /\ pc[p] = "capture" /\ tx' = tx
        /\ pc' = pc \/ pc' = [pc EXCEPT ![p] = "snapped"]
        /\ \E S : todo' = [todo EXCEPT ![p] = S]
    BY <1>23 DEF BeginCapture, Goto
  <2>3. ASSUME NEW q \in Threads, pc[q] # "idle"
        PROVE  rec'[tx[q]].writes = rec[tx[q]].writes
    BY <1>23, <2>3, TxType DEF BeginCapture, TypeOK, Record
  <2> SUFFICES ASSUME NEW q \in Threads PROVE AppliedBy(q)'
    BY DEF WritesApplied
  <2>4. AppliedBy(q) /\ tx'[q] = tx[q]
    BY <2>2 DEF WritesApplied
  <2>5. \/ q # p /\ pc'[q] = pc[q] /\ todo'[q] = todo[q]
        \/ q = p /\ pc[q] = "capture" /\ pc'[q] \in {"capture", "snapped"}
    BY <2>2 DEF TypeOK
  <2> QED
    BY <2>1, <2>3, <2>4, <2>5 DEF AppliedBy, BeginPC
<1>24. ASSUME NEW x \in TxId, RecoverRead(x) PROVE WritesApplied'
  BY <1>24, TxType
     DEF RecoverRead, WritesApplied, AppliedBy, Wrote, fileVars, memoryVars
<1>25. CASE RecoverWrite
  BY <1>25, TxType
     DEF RecoverWrite, WritesApplied, AppliedBy, Wrote, memoryVars
<1> QED
  BY <1>1, <1>2, <1>3, <1>4, <1>5, <1>6, <1>7, <1>8, <1>9, <1>10, <1>11,
     <1>12, <1>13, <1>14, <1>15, <1>16, <1>17, <1>18, <1>19, <1>20, <1>21, <1>22,
     <1>23, <1>24, <1>25
     DEF Next, ThreadStep, CommitStep

\* The three facts about the catalog, its writers and the code, together.
LEMMA CommitInvStep == TypeOK /\ CommitInv /\ [Next]_vars => CommitInv'
  BY OwnTxStep, LockHeldStep, WritersBegunStep, WritesAppliedStep DEF CommitInv

\* Every reachable state is well typed: manager.rs never indexes a record it
\* does not have, moves a head to a version nobody wrote, or lets
\* recent_committed outgrow its capacity.
THEOREM TypeCorrect == Spec => []TypeOK
<1>1. Init => TypeOK /\ CommitInv
  BY TypeInit
<1>2. TypeOK /\ CommitInv /\ [Next]_vars => (TypeOK /\ CommitInv)'
  BY TypeStep, CommitInvStep
<1> QED
  BY <1>1, <1>2, PTL DEF Spec

\* The lock is held exactly in the critical section, transactions are not
\* shared, and a transaction is in the catalog only as far as it was applied.
THEOREM CommitCorrect == Spec => []CommitInv
<1>1. Init => TypeOK /\ CommitInv
  BY TypeInit
<1>2. TypeOK /\ CommitInv /\ [Next]_vars => (TypeOK /\ CommitInv)'
  BY TypeStep, CommitInvStep
<1> QED
  BY <1>1, <1>2, PTL DEF Spec

-----------------------------------------------------------------------------
Validated == SnapshotsBehind /\ StillValid /\ FirstCommitterWins

\* A step that leaves catalog and records alone, and brings nobody into
\* apply_writes, keeps what was validated valid.
LEMMA UntouchedStep ==
  ASSUME Validated, ~UseBranches, UNCHANGED <<catalog, rec>>,
         \A q \in Threads : pc'[q] = "apply" =>
           pc[q] = "apply" /\ tx'[q] = tx[q] /\ todo'[q] = todo[q]
  PROVE  Validated'
<1>1. SnapshotsBehind'
  BY DEF Validated, SnapshotsBehind
<1>2. StillValid'
  BY DEF Validated, StillValid
<1>3. FirstCommitterWins'
  BY DEF Validated, FirstCommitterWins
<1> QED
  BY <1>1, <1>2, <1>3 DEF Validated

\* A step of a thread before its commit that changes the covered tables and the
\* snapshot of its own transaction only.
LEMMA OwnRecordStep ==
  ASSUME TypeOK, CommitInv, Validated, ~UseBranches,
         NEW x \in TxId, catalog' = catalog, \A t \in Tables : ~Wrote(x, t),
         \A y \in TxId : y # x => rec'[y] = rec[y],
         \A t \in rec'[x].covered : rec'[x].snap[t] <= Len(catalog[t]),
         \A q \in Threads : pc'[q] = "apply" =>
           /\ pc[q] = "apply" /\ tx[q] # x
           /\ tx'[q] = tx[q] /\ todo'[q] = todo[q]
  PROVE  Validated'
<1>1. SnapshotsBehind'
  BY DEF Validated, SnapshotsBehind
<1>2. StillValid'
  <2>1. \A q \in Threads : pc[q] = "apply" => tx[q] \in TxId
    BY TxType DEF CommitInv
  <2> QED
    BY <2>1 DEF Validated, StillValid
<1>3. FirstCommitterWins'
  <2> SUFFICES ASSUME NEW t \in Tables, NEW v \in DOMAIN catalog[t],
                      catalog[t][v] # NoTx, t \in rec'[catalog[t][v]].covered
               PROVE  rec'[catalog[t][v]].snap[t] = v - 1
    BY DEF FirstCommitterWins
  <2>1. catalog[t][v] # x
    BY DEF Wrote
  <2>2. catalog[t][v] \in TxId
    <3>1. catalog[t][v] \in 0..MaxTx
      BY WriterType
    <3> QED
      BY <3>1, BoundAssumption DEF TxId, NoTx
  <2> QED
    BY <2>1, <2>2 DEF Validated, FirstCommitterWins
<1> QED
  BY <1>1, <1>2, <1>3 DEF Validated

\* Every step of the code keeps what was validated valid.
LEMMA ValidatedStep ==
  ASSUME faults'.direct = 0, ~UseBranches, TypeOK, CommitInv, Validated, [Next]_vars
  PROVE  Validated'
<1>1. ASSUME NEW p \in Threads, BeginAlloc(p) PROVE Validated'
  <2>1. PICK b \in Branches : rec' = [rec EXCEPT ![sequence + 1].branch = b]
    BY <1>1 DEF BeginAlloc
  <2>2. sequence + 1 \in TxId
    BY <1>1, BoundAssumption DEF BeginAlloc, TypeOK, TxId
  <2>3. \A t \in Tables : ~Wrote(sequence + 1, t)
    BY DEF CommitInv, WritersBegun, Wrote, TypeOK
  <2>4. rec \in [TxId -> Record]
    BY DEF TypeOK
  <2>5. \A y \in TxId : y # sequence + 1 => rec'[y] = rec[y]
    BY <2>1, <2>2, <2>4
  <2>6. \A t \in rec'[sequence + 1].covered :
          rec'[sequence + 1].snap[t] <= Len(catalog[t])
    BY <2>1, <2>2, <2>4 DEF Validated, SnapshotsBehind, Record
  <2>7. \A q \in Threads : pc'[q] = "apply" =>
          /\ pc[q] = "apply" /\ tx[q] # sequence + 1
          /\ tx'[q] = tx[q] /\ todo'[q] = todo[q]
    <3>1. \A q \in Threads : pc[q] # "idle" => tx[q] # sequence + 1
      BY BoundAssumption DEF TypeOK, CommitInv, OwnTx
    <3>2. \A q \in Threads : pc'[q] = "apply" => q # p /\ pc[q] = "apply"
      BY <1>1 DEF BeginAlloc, Goto, TypeOK
    <3> QED
      BY <1>1, <3>1, <3>2 DEF BeginAlloc, TypeOK
  <2>8. catalog' = catalog
    BY <1>1 DEF BeginAlloc
  <2> QED
    BY <2>2, <2>3, <2>5, <2>6, <2>7, <2>8, OwnRecordStep
<1>2. ASSUME NEW p \in Threads, BeginSnapshot(p) PROVE Validated'
  <2>1. tx[p] \in TxId /\ rec[tx[p]] \in Record
    BY <1>2, TxType DEF BeginSnapshot, CommitInv
  <2>2. \A u \in Tables : ~Wrote(tx[p], u)
    BY <1>2 DEF BeginSnapshot, CommitInv, WritesApplied, AppliedBy, BeginPC
  <2>3. \A y \in TxId : y # tx[p] => rec'[y] = rec[y]
    BY <1>2 DEF BeginSnapshot, TypeOK
  <2>4. \A u \in rec'[tx[p]].covered : rec'[tx[p]].snap[u] <= Len(catalog[u])
    <3>1. rec' = rec
      BY <1>2 DEF BeginSnapshot
    <3> QED
      BY <2>1, <3>1 DEF Validated, SnapshotsBehind
  <2>5. \A q \in Threads : pc'[q] = "apply" =>
          /\ pc[q] = "apply" /\ tx[q] # tx[p]
          /\ tx'[q] = tx[q] /\ todo'[q] = todo[q]
    BY <1>2 DEF BeginSnapshot, Goto, TypeOK, CommitInv, OwnTx, fileVars, memoryVars
  <2>6. catalog' = catalog
    BY <1>2 DEF BeginSnapshot, fileVars
  <2> QED
    BY <2>1, <2>2, <2>3, <2>4, <2>5, <2>6, OwnRecordStep
<1>3. ASSUME NEW p \in Threads, BeginLog(p) PROVE Validated'
  <2>1. UNCHANGED <<catalog, rec>>
    BY <1>3 DEF BeginLog
  <2>2. \A q \in Threads : pc'[q] = "apply" =>
          pc[q] = "apply" /\ tx'[q] = tx[q] /\ todo'[q] = todo[q]
    BY <1>3 DEF BeginLog, Goto, TypeOK
  <2> QED
    BY <2>1, <2>2, UntouchedStep
<1>4. ASSUME NEW p \in Threads, NEW t \in Tables, RecordRead(p, t) PROVE Validated'
  <2>1. tx[p] \in TxId /\ rec[tx[p]] \in Record
    BY <1>4, TxType DEF RecordRead, CommitInv
  <2>2. \A u \in Tables : ~Wrote(tx[p], u)
    BY <1>4 DEF RecordRead, CommitInv, WritesApplied, AppliedBy, BeginPC
  <2>3. \A y \in TxId : y # tx[p] => rec'[y] = rec[y]
    BY <1>4 DEF RecordRead, TypeOK
  <2>4. \A u \in rec'[tx[p]].covered : rec'[tx[p]].snap[u] <= Len(catalog[u])
    <3>1. Current(rec[tx[p]].branch, t) = Len(catalog[t])
      BY DEF Current
    <3>2. /\ rec'[tx[p]].covered = rec[tx[p]].covered \cup {t}
          /\ rec'[tx[p]].snap[t] = Current(rec[tx[p]].branch, t)
          /\ \A u \in Tables \ {t} : rec'[tx[p]].snap[u] = rec[tx[p]].snap[u]
      BY <1>4, <2>1 DEF RecordRead, TypeOK, Record
    <3>3. rec[tx[p]].covered \subseteq Tables /\ Len(catalog[t]) \in Nat
      BY <2>1 DEF TypeOK, Record
    <3> QED
      BY <2>1, <3>1, <3>2, <3>3 DEF Validated, SnapshotsBehind
  <2>5. \A q \in Threads : pc'[q] = "apply" =>
          /\ pc[q] = "apply" /\ tx[q] # tx[p]
          /\ tx'[q] = tx[q] /\ todo'[q] = todo[q]
    BY <1>4 DEF RecordRead, Goto, TypeOK, CommitInv, OwnTx, fileVars, memoryVars
  <2>6. catalog' = catalog
    BY <1>4 DEF RecordRead, fileVars
  <2> QED
    BY <2>1, <2>2, <2>3, <2>4, <2>5, <2>6, OwnRecordStep
<1>5. ASSUME NEW p \in Threads, NEW t \in Tables, AddWrite(p, t) PROVE Validated'
  <2>1. tx[p] \in TxId /\ rec[tx[p]] \in Record
    BY <1>5, TxType DEF AddWrite, CommitInv
  <2>2. \A u \in Tables : ~Wrote(tx[p], u)
    BY <1>5 DEF AddWrite, CommitInv, WritesApplied, AppliedBy, BeginPC
  <2>3. \A y \in TxId : y # tx[p] => rec'[y] = rec[y]
    BY <1>5 DEF AddWrite, TypeOK
  <2>4. \A u \in rec'[tx[p]].covered : rec'[tx[p]].snap[u] <= Len(catalog[u])
    <3>1. /\ rec'[tx[p]].covered = rec[tx[p]].covered
          /\ rec'[tx[p]].snap = rec[tx[p]].snap
      BY <1>5, <2>1 DEF AddWrite, TypeOK, Record
    <3> QED
      BY <2>1, <3>1 DEF Validated, SnapshotsBehind
  <2>5. \A q \in Threads : pc'[q] = "apply" =>
          /\ pc[q] = "apply" /\ tx[q] # tx[p]
          /\ tx'[q] = tx[q] /\ todo'[q] = todo[q]
    BY <1>5 DEF AddWrite, Goto, TypeOK, CommitInv, OwnTx, fileVars, memoryVars
  <2>6. catalog' = catalog
    BY <1>5 DEF AddWrite, fileVars
  <2> QED
    BY <2>1, <2>2, <2>3, <2>4, <2>5, <2>6, OwnRecordStep
<1>6. ASSUME NEW p \in Threads, CommitCall(p) PROVE Validated'
  <2>1. UNCHANGED <<catalog, rec>>
    BY <1>6 DEF CommitCall, fileVars
  <2>2. \A q \in Threads : pc'[q] = "apply" =>
          pc[q] = "apply" /\ tx'[q] = tx[q] /\ todo'[q] = todo[q]
    BY <1>6 DEF CommitCall, fileVars, Goto, TypeOK
  <2> QED
    BY <2>1, <2>2, UntouchedStep
<1>7. ASSUME NEW p \in Threads, CommitLock(p) PROVE Validated'
  <2>1. UNCHANGED <<catalog, rec>>
    BY <1>7 DEF CommitLock, fileVars
  <2>2. \A q \in Threads : pc'[q] = "apply" =>
          pc[q] = "apply" /\ tx'[q] = tx[q] /\ todo'[q] = todo[q]
    BY <1>7 DEF CommitLock, fileVars, Goto, TypeOK
  <2> QED
    BY <2>1, <2>2, UntouchedStep
<1>8. ASSUME NEW p \in Threads, CommitConflict(p) PROVE Validated'
  <2>1. UNCHANGED <<catalog, rec>>
    BY <1>8 DEF CommitConflict, GiveUp, fileVars
  <2>2. \A q \in Threads : pc'[q] = "apply" =>
          pc[q] = "apply" /\ tx'[q] = tx[q] /\ todo'[q] = todo[q]
    BY <1>8 DEF CommitConflict, GiveUp, fileVars, Goto, TypeOK
  <2> QED
    BY <2>1, <2>2, UntouchedStep
<1>9. ASSUME NEW p \in Threads, CommitIOError(p) PROVE Validated'
  <2>1. UNCHANGED <<catalog, rec>>
    BY <1>9 DEF CommitIOError, GiveUp, fileVars
  <2>2. \A q \in Threads : pc'[q] = "apply" =>
          pc[q] = "apply" /\ tx'[q] = tx[q] /\ todo'[q] = todo[q]
    BY <1>9 DEF CommitIOError, GiveUp, fileVars, Goto, TypeOK
  <2> QED
    BY <2>1, <2>2, UntouchedStep
<1>10. ASSUME NEW p \in Threads, CommitAccept(p) PROVE Validated'
  <2>1. tx[p] \in TxId /\ rec[tx[p]] \in Record
    BY <1>10, TxType DEF CommitAccept, CommitInv
  <2>2. UNCHANGED <<catalog, rec, tx>>
    BY <1>10 DEF CommitAccept, fileVars
  <2>3. \A q \in Threads : q # p => pc'[q] = pc[q] /\ todo'[q] = todo[q]
    BY <1>10 DEF CommitAccept, Goto, TypeOK
  <2>4. \A u \in rec[tx[p]].covered : rec[tx[p]].snap[u] = Len(catalog[u])
    <3> SUFFICES ASSUME NEW u \in rec[tx[p]].covered
                 PROVE  rec[tx[p]].snap[u] = Len(catalog[u])
      OBVIOUS
    <3>1. Len(catalog[u]) = 0 \/ Len(catalog[u]) = rec[tx[p]].snap[u]
      BY <1>10 DEF CommitAccept, SnapshotConflict, Current
    <3>2. rec[tx[p]].snap[u] <= Len(catalog[u])
      BY <2>1 DEF Validated, SnapshotsBehind
    <3>3. rec[tx[p]].snap[u] \in Nat /\ Len(catalog[u]) \in Nat
      BY <2>1 DEF TypeOK, Record
    <3> QED
      BY <3>1, <3>2, <3>3
  <2>5. SnapshotsBehind' /\ FirstCommitterWins'
    BY <2>2 DEF Validated, SnapshotsBehind, FirstCommitterWins
  <2>6. StillValid'
    BY <2>2, <2>3, <2>4 DEF Validated, StillValid
  <2> QED
    BY <2>5, <2>6 DEF Validated
<1>11. ASSUME NEW p \in Threads, NEW t \in Tables, CommitApply(p, t) PROVE Validated'
  <2>1. /\ tx[p] \in TxId /\ rec[tx[p]] \in Record
        /\ pc[p] = "apply" /\ t \in todo[p]
        /\ UNCHANGED <<rec, tx>>
    BY <1>11, TxType DEF CommitApply, CommitInv
  <2>2. /\ catalog[t] \in Seq(0..MaxTx) /\ Len(catalog[t]) \in Nat
        /\ catalog'[t] = Append(catalog[t], tx[p])
        /\ \A u \in Tables : u # t => catalog'[u] = catalog[u]
    BY <1>11 DEF CommitApply, TypeOK
  <2>3. /\ Len(catalog'[t]) = Len(catalog[t]) + 1
        /\ DOMAIN catalog'[t] = DOMAIN catalog[t] \cup {Len(catalog[t]) + 1}
        /\ catalog'[t][Len(catalog[t]) + 1] = tx[p]
        /\ \A v \in DOMAIN catalog[t] : catalog'[t][v] = catalog[t][v]
    BY <2>1, <2>2 DEF TxId
  <2>4. SnapshotsBehind'
    <3> SUFFICES ASSUME NEW y \in TxId, NEW u \in rec[y].covered
                 PROVE  rec[y].snap[u] <= Len(catalog'[u])
      BY <2>1 DEF SnapshotsBehind
    <3>1. u \in Tables /\ rec[y].snap[u] \in Nat
      BY DEF TypeOK, Record
    <3>2. rec[y].snap[u] <= Len(catalog[u])
      BY DEF Validated, SnapshotsBehind
    <3> QED
      BY <2>2, <2>3, <3>1, <3>2
  <2>5. StillValid'
    <3> SUFFICES ASSUME NEW q \in Threads, pc'[q] = "apply",
                        NEW u \in todo'[q] \cap rec[tx[q]].covered
                 PROVE  rec[tx[q]].snap[u] = Len(catalog'[u])
      BY <2>1 DEF StillValid
    <3>1. q = p
      BY <1>11, <2>1 DEF CommitApply, Goto, TypeOK, CommitInv, LockHeld, CriticalPC
    <3>2. u \in todo[p] /\ u # t /\ u \in Tables
      BY <1>11, <3>1 DEF CommitApply, Goto, TypeOK
    <3> QED
      BY <2>1, <2>2, <3>1, <3>2 DEF Validated, StillValid
  <2>6. FirstCommitterWins'
    <3> SUFFICES ASSUME NEW u \in Tables, NEW v \in DOMAIN catalog'[u],
                        catalog'[u][v] # NoTx, u \in rec[catalog'[u][v]].covered
                 PROVE  rec[catalog'[u][v]].snap[u] = v - 1
      BY <2>1 DEF FirstCommitterWins
    <3>1. CASE u = t /\ v = Len(catalog[t]) + 1
      <4>1. rec[tx[p]].snap[t] = Len(catalog[t])
        BY <2>1, <2>3, <3>1 DEF Validated, StillValid
      <4> QED
        BY <2>2, <2>3, <3>1, <4>1
    <3>2. CASE ~(u = t /\ v = Len(catalog[t]) + 1)
      <4>1. v \in DOMAIN catalog[u] /\ catalog'[u][v] = catalog[u][v]
        BY <2>2, <2>3, <3>2
      <4> QED
        BY <4>1 DEF Validated, FirstCommitterWins
    <3> QED
      BY <3>1, <3>2
  <2> QED
    BY <2>4, <2>5, <2>6 DEF Validated
<1>12. ASSUME NEW p \in Threads, NEW t \in Tables, CommitHead(p, t) PROVE Validated'
  <2>1. UNCHANGED <<catalog, rec>>
    BY <1>12 DEF CommitHead
  <2>2. \A q \in Threads : pc'[q] = "apply" =>
          pc[q] = "apply" /\ tx'[q] = tx[q] /\ todo'[q] = todo[q]
    BY <1>12 DEF CommitHead, Goto, TypeOK
  <2> QED
    BY <2>1, <2>2, UntouchedStep
<1>13. ASSUME NEW p \in Threads, CommitLog(p) PROVE Validated'
  <2>1. UNCHANGED <<catalog, rec>>
    BY <1>13 DEF CommitLog
  <2>2. \A q \in Threads : pc'[q] = "apply" =>
          pc[q] = "apply" /\ tx'[q] = tx[q] /\ todo'[q] = todo[q]
    BY <1>13 DEF CommitLog, Goto, TypeOK
  <2> QED
    BY <2>1, <2>2, UntouchedStep
<1>14. ASSUME NEW p \in Threads, CommitIndex(p) PROVE Validated'
  <2>1. UNCHANGED <<catalog, rec>>
    BY <1>14 DEF CommitIndex
  <2>2. \A q \in Threads : pc'[q] = "apply" =>
          pc[q] = "apply" /\ tx'[q] = tx[q] /\ todo'[q] = todo[q]
    BY <1>14 DEF CommitIndex, Goto, TypeOK
  <2> QED
    BY <2>1, <2>2, UntouchedStep
<1>15. ASSUME NEW p \in Threads, CommitFinish(p) PROVE Validated'
  <2>1. UNCHANGED <<catalog, rec>>
    BY <1>15 DEF CommitFinish, fileVars
  <2>2. \A q \in Threads : pc'[q] = "apply" =>
          pc[q] = "apply" /\ tx'[q] = tx[q] /\ todo'[q] = todo[q]
    BY <1>15 DEF CommitFinish, fileVars, Goto, TypeOK
  <2> QED
    BY <2>1, <2>2, UntouchedStep
<1>16. ASSUME NEW p \in Threads, Abort(p) PROVE Validated'
  <2>1. UNCHANGED <<catalog, rec>>
    BY <1>16 DEF Abort
  <2>2. \A q \in Threads : pc'[q] = "apply" =>
          pc[q] = "apply" /\ tx'[q] = tx[q] /\ todo'[q] = todo[q]
    BY <1>16 DEF Abort, Goto, TypeOK
  <2> QED
    BY <2>1, <2>2, UntouchedStep
<1>17. CASE ClearRecentCommitted
  <2>1. UNCHANGED <<catalog, rec>>
    BY <1>17 DEF ClearRecentCommitted, fileVars
  <2>2. \A q \in Threads : pc'[q] = "apply" =>
          pc[q] = "apply" /\ tx'[q] = tx[q] /\ todo'[q] = todo[q]
    BY <1>17 DEF ClearRecentCommitted, fileVars, Goto, TypeOK
  <2> QED
    BY <2>1, <2>2, UntouchedStep
<1>18. ASSUME NEW t \in Tables, DirectWrite(t) PROVE Validated'
  BY <1>18 DEF DirectWrite, TypeOK
<1>19. ASSUME NEW autoRecover \in BOOLEAN, CrashRestart(autoRecover) PROVE Validated'
  <2>1. UNCHANGED <<catalog, rec>>
    BY <1>19 DEF CrashRestart
  <2>2. \A q \in Threads : pc'[q] = "apply" =>
          pc[q] = "apply" /\ tx'[q] = tx[q] /\ todo'[q] = todo[q]
    BY <1>19 DEF CrashRestart, Goto, TypeOK
  <2> QED
    BY <2>1, <2>2, UntouchedStep
<1>20. CASE UNCHANGED vars
  <2>1. UNCHANGED <<catalog, rec>>
    BY <1>20 DEF vars, fileVars, memoryVars
  <2>2. \A q \in Threads : pc'[q] = "apply" =>
          pc[q] = "apply" /\ tx'[q] = tx[q] /\ todo'[q] = todo[q]
    BY <1>20 DEF vars, fileVars, memoryVars, Goto, TypeOK
  <2> QED
    BY <2>1, <2>2, UntouchedStep
<1>21. CASE Exhausted
  BY <1>20, <1>21 DEF Exhausted
<1>22. ASSUME NEW p \in Threads, CommitLatest(p) PROVE Validated'
  <2>1. UNCHANGED <<catalog, rec>>
    BY <1>22 DEF CommitLatest
  <2>2. \A q \in Threads : pc'[q] = "apply" =>
          pc[q] = "apply" /\ tx'[q] = tx[q] /\ todo'[q] = todo[q]
    BY <1>22 DEF CommitLatest, Goto, TypeOK
  <2> QED
    BY <2>1, <2>2, UntouchedStep
<1>23. ASSUME NEW p \in Threads, NEW t \in Tables, BeginCapture(p, t) PROVE Validated'
  <2>1. tx[p] \in TxId /\ rec[tx[p]] \in Record
    BY <1>23, TxType DEF BeginCapture, CommitInv
  <2>2. \A u \in Tables : ~Wrote(tx[p], u)
    BY <1>23 DEF BeginCapture, CommitInv, WritesApplied, AppliedBy, BeginPC
  <2>3. \A y \in TxId : y # tx[p] => rec'[y] = rec[y]
    BY <1>23 DEF BeginCapture, TypeOK
  <2>4. \A u \in rec'[tx[p]].covered : rec'[tx[p]].snap[u] <= Len(catalog[u])
    <3>1. Current(rec[tx[p]].branch, t) = Len(catalog[t])
      BY DEF Current
    <3>2. /\ rec'[tx[p]].covered = rec[tx[p]].covered \cup {t}
          /\ rec'[tx[p]].snap[t] = Current(rec[tx[p]].branch, t)
          /\ \A u \in Tables \ {t} : rec'[tx[p]].snap[u] = rec[tx[p]].snap[u]
      BY <1>23, <2>1 DEF BeginCapture, TypeOK, Record
    <3>3. rec[tx[p]].covered \subseteq Tables /\ Len(catalog[t]) \in Nat
      BY <2>1 DEF TypeOK, Record
    <3> QED
      BY <2>1, <3>1, <3>2, <3>3 DEF Validated, SnapshotsBehind
  <2>5. \A q \in Threads : pc'[q] = "apply" =>
          /\ pc[q] = "apply" /\ tx[q] # tx[p]
          /\ tx'[q] = tx[q] /\ todo'[q] = todo[q]
    BY <1>23 DEF BeginCapture, Goto, TypeOK, CommitInv, OwnTx, fileVars, memoryVars
  <2>6. catalog' = catalog
    BY <1>23 DEF BeginCapture, fileVars
  <2> QED
    BY <2>1, <2>2, <2>3, <2>4, <2>5, <2>6, OwnRecordStep
<1>24. ASSUME (\E x \in TxId : RecoverRead(x)) \/ RecoverWrite PROVE Validated'
  <2>1. UNCHANGED <<catalog, rec, pc, tx, todo>>
    BY <1>24 DEF RecoverRead, RecoverWrite, fileVars, memoryVars
  <2> QED
    BY <2>1, UntouchedStep
<1> QED
  BY <1>1, <1>2, <1>3, <1>4, <1>5, <1>6, <1>7, <1>8, <1>9, <1>10, <1>11,
     <1>12, <1>13, <1>14, <1>15, <1>16, <1>17, <1>18, <1>19, <1>20, <1>21, <1>22,
     <1>23, <1>24
     DEF Next, ThreadStep, CommitStep

\* The faults a thread can have: I/O errors of its commit.  It does not see the
\* recovery beside it.
LEMMA ThreadFaults ==
  ASSUME NEW p \in Threads, ThreadStep(p)
  PROVE  (faults' = faults \/ CommitIOError(p)) /\ UNCHANGED besideVars
  BY DEF ThreadStep, CommitStep, BeginAlloc, BeginSnapshot, BeginCapture, BeginLog, RecordRead, AddWrite,
     CommitCall, CommitLock, CommitConflict, CommitIOError, GiveUp, CommitAccept, CommitApply,
     CommitHead, CommitLog, CommitLatest, CommitIndex, CommitFinish, Abort

\* A recovery beside the manager touches the log only.
LEMMA BesideFrame ==
  ASSUME (\E x \in TxId : RecoverRead(x)) \/ RecoverWrite
  PROVE  UNCHANGED <<sequence, catalog, heads, latest, index, recent, commitLock, pc, tx,
                     todo, rec, outcome, faults>>
  BY DEF RecoverRead, RecoverWrite, fileVars, memoryVars

\* Direct writes are counted, and the count never falls.
LEMMA DirectGrows ==
  ASSUME TypeOK, [Next]_vars, faults'.direct = 0
  PROVE  faults.direct = 0
<1>1. \A p \in Threads : ThreadStep(p) => faults'.direct = faults.direct
  <2>1. \A p \in Threads : CommitIOError(p) => faults'.direct = faults.direct
    BY DEF CommitIOError, TypeOK
  <2> QED
    BY <2>1, ThreadFaults
<1>2. ClearRecentCommitted \/ Exhausted \/ UNCHANGED vars => faults'.direct = faults.direct
  BY DEF ClearRecentCommitted, Exhausted, vars
<1>3. \A autoRecover \in BOOLEAN : CrashRestart(autoRecover) => faults'.direct = faults.direct
  BY DEF CrashRestart, TypeOK
<1>4. \A t \in Tables : DirectWrite(t) => faults'.direct # 0
  BY DEF DirectWrite, TypeOK
<1> QED
  BY <1>1, <1>2, <1>3, <1>4, BesideFrame DEF Next

\* The invariant of the commit path, which makes the absence of lost updates
\* inductive: between validate_snapshot and the last write of apply_writes no
\* table of the snapshot moves.
THEOREM SnapshotCorrect == Spec => []SnapshotInv
<1>1. Init => SnapshotInv
  <2> SUFFICES ASSUME Init PROVE SnapshotInv
    OBVIOUS
  <2>1. TypeOK /\ CommitInv
    BY TypeInit
  <2>2. SnapshotsBehind
    BY DEF Init, SnapshotsBehind, NewRecord
  <2>3. StillValid
    BY DEF Init, StillValid
  <2>4. NoLostUpdate
    BY DEF Init, NoLostUpdate, FirstCommitterWins, NoTx
  <2> QED
    BY <2>1, <2>2, <2>3, <2>4 DEF SnapshotInv
<1>2. SnapshotInv /\ [Next]_vars => SnapshotInv'
  <2> SUFFICES ASSUME SnapshotInv, [Next]_vars PROVE SnapshotInv'
    OBVIOUS
  <2>1. TypeOK' /\ CommitInv'
    BY TypeStep, CommitInvStep DEF SnapshotInv
  <2>2. CASE ~Mediated'
    BY <2>1, <2>2 DEF SnapshotInv, NoLostUpdate
  <2>3. CASE Mediated'
    <3>1. ~UseBranches /\ faults'.direct = 0 /\ Mediated
      BY <2>3, DirectGrows DEF SnapshotInv, Mediated
    <3>2. Validated'
      BY <3>1, ValidatedStep DEF SnapshotInv, Validated, NoLostUpdate
    <3> QED
      BY <2>1, <3>2 DEF SnapshotInv, Validated, NoLostUpdate
  <2> QED
    BY <2>2, <2>3
<1> QED
  BY <1>1, <1>2, PTL DEF Spec

\* First committer wins: until a write bypasses the manager, no transaction
\* overwrites a version of its snapshot's tables that it had not read, for any
\* number of threads, tables, transactions, crashes and errors.
THEOREM NoUpdateIsLost == Spec => []NoLostUpdate
<1>1. Spec => []SnapshotInv
  BY SnapshotCorrect
<1>2. SnapshotInv => NoLostUpdate
  BY DEF SnapshotInv
<1> QED
  BY <1>1, <1>2, PTL

-----------------------------------------------------------------------------
\* What is known of commits whatever crash, error or direct write happens.

\* A transaction has at most one version of a table.
OneVersion ==
  \A t \in Tables : \A v, w \in DOMAIN catalog[t] :
    catalog[t][v] = catalog[t][w] /\ catalog[t][v] # NoTx => v = w

Indexed(x) == \E i \in DOMAIN index : index[i] = x

\* Nothing is known of a transaction that has not begun.
Fresh ==
  \A x \in TxId : x > sequence =>
    txLog[x] = "none" /\ outcome[x] = "none" /\ ~Indexed(x) /\ rec[x].writes = {}

\* Heads point at versions there are, and no write bypasses the branches.
HeadsExist ==
  UseBranches =>
    /\ \A b \in Branches, t \in Tables : heads[b][t] <= Len(catalog[t])
    /\ faults.direct = 0

Conflicts == {"WriteConflict", "SnapshotConflict"}

\* The version x wrote of t stands, and its branch has it or a later one.
Safe(x, t) ==
  \E v \in DOMAIN catalog[t] :
    catalog[t][v] = x /\ (UseBranches => heads[rec[x].branch][t] >= v)

\* The manager has not said in the log how x ended.
StillOpen(x) == txLog[x] # "committed" /\ (txLog[x] = "aborted" => x \in overtaken)

\* What the files and the answers say of a transaction that is running.
ProgressOf(p) ==
  LET x == tx[p]
  IN  /\ pc[p] \in BeginPC \cup {"check", "apply", "heads", "log"} => StillOpen(x)
      /\ pc[p] \in {"latest", "index", "finish"} => txLog[x] = "committed" \/ x \in overtaken
      /\ pc[p] \in BeginPC \cup CriticalPC => outcome[x] = "none"
      /\ pc[p] = "failed" => outcome[x] \in Conflicts \cup {"IoError"}
      /\ pc[p] = "failed" /\ outcome[x] # "IoError" => StillOpen(x)
      /\ pc[p] \in BeginPC \cup (CriticalPC \ {"finish"}) => ~Indexed(x)
      /\ pc[p] = "finish" => Indexed(x)
      /\ UseBranches /\ pc[p] \in {"apply", "heads"} =>
           \A t \in Tables : Wrote(x, t) => catalog[t][Len(catalog[t])] = x
      /\ pc[p] = "heads" => UseBranches /\ \A t \in rec[x].writes \ todo[p] : Safe(x, t)
      /\ pc[p] = "log" => \A t \in rec[x].writes : Safe(x, t)

Progress == \A p \in Threads : pc[p] # "idle" => ProgressOf(p)

Durable ==
  \A x \in TxId : txLog[x] = "committed" => \A t \in rec[x].writes : Safe(x, t)

\* A recovery marks transactions that have begun.
MarkingBegun == marking <= sequence

DurableInv ==
  /\ OneVersion /\ Fresh /\ MarkingBegun /\ HeadsExist /\ Progress /\ Durable
  /\ AnswersAreTrue

\* The transaction a thread works on: the one it runs, or the one it begins.
Own(p) == IF pc[p] = "idle" THEN sequence + 1 ELSE tx[p]

\* A step of a thread touches its own transaction and nobody else's, and the
\* catalog, the heads and the index only inside the critical section.
LEMMA ThreadEffect ==
  ASSUME TypeOK, OwnTx, NEW p \in Threads, ThreadStep(p)
  PROVE  /\ \A q \in Threads \ {p} : pc'[q] = pc[q] /\ tx'[q] = tx[q] /\ todo'[q] = todo[q]
         /\ \A y \in TxId \ {Own(p)} :
              txLog'[y] = txLog[y] /\ outcome'[y] = outcome[y] /\ rec'[y] = rec[y]
         /\ \A y \in TxId \ {Own(p)} : Indexed(y)' <=> Indexed(y)
         /\ pc[p] \notin CriticalPC => UNCHANGED <<catalog, heads, index>>
         /\ pc[p] = "idle" <=> BeginAlloc(p)
         /\ sequence' = IF pc[p] = "idle" THEN sequence + 1 ELSE sequence
         /\ rec' = rec \/ (pc[p] \in {"idle", "allocated", "capture", "open"} /\ UNCHANGED txLog)
         /\ txLog' = txLog \/ BeginLog(p) \/ CommitLog(p) \/ Abort(p)
<1> DEFINE Effect ==
      /\ \A q \in Threads \ {p} : pc'[q] = pc[q] /\ tx'[q] = tx[q] /\ todo'[q] = todo[q]
      /\ \A y \in TxId \ {Own(p)} :
           txLog'[y] = txLog[y] /\ outcome'[y] = outcome[y] /\ rec'[y] = rec[y]
      /\ \A y \in TxId \ {Own(p)} : Indexed(y)' <=> Indexed(y)
      /\ pc[p] \notin CriticalPC => UNCHANGED <<catalog, heads, index>>
      /\ pc[p] = "idle" <=> BeginAlloc(p)
      /\ sequence' = IF pc[p] = "idle" THEN sequence + 1 ELSE sequence
      /\ rec' = rec \/ (pc[p] \in {"idle", "allocated", "capture", "open"} /\ UNCHANGED txLog)
      /\ txLog' = txLog \/ BeginLog(p) \/ CommitLog(p) \/ Abort(p)
<1>1. ASSUME BeginAlloc(p) PROVE Effect
  BY <1>1 DEF BeginAlloc, Goto, TypeOK, Own, TxId, Indexed, CriticalPC, fileVars, memoryVars
<1>2. ASSUME BeginSnapshot(p) PROVE Effect
  BY <1>2 DEF BeginSnapshot, Goto, TypeOK, BeginAlloc, Own, Indexed, CriticalPC, fileVars, memoryVars
<1>3. ASSUME BeginLog(p) PROVE Effect
  BY <1>3 DEF BeginLog, Goto, TypeOK, BeginAlloc, Own, Indexed, CriticalPC, fileVars, memoryVars
<1>4. ASSUME NEW t \in Tables, RecordRead(p, t) PROVE Effect
  BY <1>4 DEF RecordRead, Goto, TypeOK, BeginAlloc, Own, Indexed, CriticalPC, fileVars, memoryVars
<1>5. ASSUME NEW t \in Tables, AddWrite(p, t) PROVE Effect
  BY <1>5 DEF AddWrite, Goto, TypeOK, BeginAlloc, Own, Indexed, CriticalPC, fileVars, memoryVars
<1>6. ASSUME CommitCall(p) PROVE Effect
  BY <1>6 DEF CommitCall, Goto, TypeOK, BeginAlloc, Own, Indexed, CriticalPC, fileVars, memoryVars
<1>7. ASSUME CommitLock(p) PROVE Effect
  BY <1>7 DEF CommitLock, Goto, TypeOK, BeginAlloc, Own, Indexed, CriticalPC, fileVars, memoryVars
<1>8. ASSUME CommitConflict(p) PROVE Effect
  BY <1>8 DEF CommitConflict, GiveUp, Goto, TypeOK, BeginAlloc, Own, Indexed, CriticalPC, fileVars, memoryVars
<1>9. ASSUME CommitIOError(p) PROVE Effect
  BY <1>9 DEF CommitIOError, GiveUp, Goto, TypeOK, BeginAlloc, Own, Indexed, CriticalPC, fileVars, memoryVars
<1>10. ASSUME CommitAccept(p) PROVE Effect
  BY <1>10 DEF CommitAccept, Goto, TypeOK, BeginAlloc, Own, Indexed, CriticalPC, fileVars, memoryVars
<1>11. ASSUME NEW t \in Tables, CommitApply(p, t) PROVE Effect
  BY <1>11 DEF CommitApply, Goto, TypeOK, BeginAlloc, Own, Indexed, CriticalPC, fileVars, memoryVars
<1>12. ASSUME NEW t \in Tables, CommitHead(p, t) PROVE Effect
  BY <1>12 DEF CommitHead, Goto, TypeOK, BeginAlloc, Own, Indexed, CriticalPC, fileVars, memoryVars
<1>13. ASSUME CommitLog(p) PROVE Effect
  BY <1>13 DEF CommitLog, Goto, TypeOK, BeginAlloc, Own, Indexed, CriticalPC, fileVars, memoryVars
<1>14. ASSUME CommitLatest(p) PROVE Effect
  BY <1>14 DEF CommitLatest, Goto, TypeOK, BeginAlloc, Own, Indexed, CriticalPC, fileVars, memoryVars
<1>15. ASSUME CommitIndex(p) PROVE Effect
  <2>1. index' = Append(index, tx[p]) /\ index \in Seq(TxId) /\ Own(p) = tx[p]
    BY <1>15 DEF CommitIndex, TypeOK, Own
  <2>2. \A y \in TxId \ {Own(p)} : Indexed(y)' <=> Indexed(y)
    <3>1. /\ DOMAIN index' = DOMAIN index \cup {Len(index) + 1}
          /\ index'[Len(index) + 1] = tx[p]
          /\ \A i \in DOMAIN index : index'[i] = index[i]
      BY <2>1, <1>15, TxType DEF CommitIndex
    <3> QED
      BY <2>1, <3>1 DEF Indexed
  <2> QED
    BY <1>15, <2>2 DEF CommitIndex, BeginAlloc, Goto, TypeOK, CriticalPC
<1>16. ASSUME CommitFinish(p) PROVE Effect
  BY <1>16 DEF CommitFinish, Goto, TypeOK, BeginAlloc, Own, Indexed, CriticalPC, fileVars, memoryVars
<1>17. ASSUME Abort(p) PROVE Effect
  BY <1>17 DEF Abort, Goto, TypeOK, BeginAlloc, Own, Indexed, CriticalPC, fileVars, memoryVars
<1>18. ASSUME NEW t \in Tables, BeginCapture(p, t) PROVE Effect
  BY <1>18 DEF BeginCapture, Goto, TypeOK, BeginAlloc, Own, Indexed, CriticalPC, fileVars, memoryVars
<1> QED
  BY <1>1, <1>2, <1>3, <1>4, <1>5, <1>6, <1>7, <1>8, <1>9, <1>10, <1>11, <1>12, <1>13, <1>14,
     <1>15, <1>16, <1>17, <1>18 DEF ThreadStep, CommitStep

\* Another thread's transaction is not the one this thread works on.
LEMMA OwnApart ==
  ASSUME TypeOK, OwnTx, NEW p \in Threads, ThreadStep(p), NEW q \in Threads \ {p}, pc[q] # "idle"
  PROVE  tx[q] \in TxId \ {Own(p)}
  BY TxType DEF OwnTx, Own, TypeOK

\* What every step does to the catalog and the heads.
LEMMA CatalogFrame ==
  ASSUME [Next]_vars
  PROVE  \/ catalog' = catalog
         \/ \E p \in Threads, t \in Tables : CommitApply(p, t)
         \/ \E t \in Tables : DirectWrite(t)
<1>1. ASSUME NEW p \in Threads, ThreadStep(p)
      PROVE  catalog' = catalog \/ \E t \in Tables : CommitApply(p, t)
  BY <1>1 DEF ThreadStep, CommitStep, BeginAlloc, BeginSnapshot, BeginCapture, BeginLog, RecordRead, AddWrite,
     CommitCall, CommitLock, CommitConflict, CommitIOError, GiveUp, CommitAccept,
     CommitHead, CommitLog, CommitLatest, CommitIndex, CommitFinish, Abort, fileVars
<1> QED
  BY <1>1, BesideFrame DEF Next, Exhausted, ClearRecentCommitted, CrashRestart, vars, fileVars

\* The branch heads move in update_branch_heads only.
LEMMA HeadsFrame ==
  ASSUME [Next]_vars
  PROVE  heads' = heads \/ \E p \in Threads, t \in Tables : CommitHead(p, t)
<1>1. ASSUME NEW p \in Threads, ThreadStep(p)
      PROVE  heads' = heads \/ \E t \in Tables : CommitHead(p, t)
  BY <1>1 DEF ThreadStep, CommitStep, BeginAlloc, BeginSnapshot, BeginCapture, BeginLog, RecordRead, AddWrite,
     CommitCall, CommitLock, CommitConflict, CommitIOError, GiveUp, CommitAccept, CommitApply,
     CommitLog, CommitLatest, CommitIndex, CommitFinish, Abort, fileVars
<1> QED
  BY <1>1, BesideFrame
     DEF Next, Exhausted, ClearRecentCommitted, CrashRestart, DirectWrite, vars, fileVars

\* Only a write that bypasses the manager is counted as one.
LEMMA DirectFrame ==
  ASSUME TypeOK, [Next]_vars
  PROVE  faults'.direct = faults.direct \/ \E t \in Tables : DirectWrite(t)
<1>1. \A p \in Threads : ThreadStep(p) => faults'.direct = faults.direct
  <2>1. \A p \in Threads : CommitIOError(p) => faults'.direct = faults.direct
    BY DEF CommitIOError, TypeOK
  <2> QED
    BY <2>1, ThreadFaults
<1>2. \A autoRecover \in BOOLEAN : CrashRestart(autoRecover) => faults'.direct = faults.direct
  BY DEF CrashRestart, TypeOK
<1> QED
  BY <1>1, <1>2, BesideFrame DEF Next, ClearRecentCommitted, Exhausted, vars

\* One version is added to one table, by the committing thread, who has none
\* there, or by a write that bypasses the manager.
LEMMA Appends ==
  ASSUME TypeOK, CommitInv, [Next]_vars, catalog' # catalog
  PROVE  \E x \in 0..MaxTx, t \in Tables :
           /\ catalog' = [catalog EXCEPT ![t] = Append(@, x)]
           /\ x # NoTx => ~Wrote(x, t) /\ \E p \in Threads : tx[p] = x /\ CommitApply(p, t)
           /\ x = NoTx => DirectWrite(t)
<1>1. ASSUME NEW p \in Threads, NEW t \in Tables, CommitApply(p, t)
      PROVE  /\ catalog' = [catalog EXCEPT ![t] = Append(@, tx[p])]
             /\ tx[p] \in 0..MaxTx /\ tx[p] # NoTx /\ ~Wrote(tx[p], t)
  <2>1. pc[p] = "apply" /\ t \in todo[p]
    BY <1>1 DEF CommitApply
  <2> QED
    BY <1>1, <2>1, TxType DEF CommitInv, WritesApplied, AppliedBy, CommitApply, TxId, NoTx
<1>2. ASSUME NEW t \in Tables, DirectWrite(t)
      PROVE  catalog' = [catalog EXCEPT ![t] = Append(@, NoTx)] /\ NoTx \in 0..MaxTx
  BY <1>2, BoundAssumption DEF DirectWrite, NoTx
<1> QED
  BY <1>1, <1>2, CatalogFrame

\* Versions stay where they are.
Grown ==
  \A t \in Tables :
    /\ Len(catalog[t]) <= Len(catalog'[t])
    /\ \A v \in DOMAIN catalog[t] : v \in DOMAIN catalog'[t] /\ catalog'[t][v] = catalog[t][v]

\* What an append does to one table.
LEMMA AppendOne ==
  ASSUME TypeOK, NEW x \in 0..MaxTx, NEW t \in Tables,
         catalog' = [catalog EXCEPT ![t] = Append(@, x)]
  PROVE  /\ \A u \in Tables \ {t} : catalog'[u] = catalog[u]
         /\ Len(catalog'[t]) = Len(catalog[t]) + 1 /\ Len(catalog[t]) \in Nat
         /\ DOMAIN catalog[t] = 1..Len(catalog[t]) /\ DOMAIN catalog'[t] = 1..Len(catalog'[t])
         /\ \A v \in DOMAIN catalog[t] : catalog'[t][v] = catalog[t][v]
         /\ catalog'[t][Len(catalog[t]) + 1] = x
<1>1. catalog[t] \in Seq(0..MaxTx) /\ catalog'[t] = Append(catalog[t], x)
  BY DEF TypeOK
<1> QED
  BY <1>1 DEF TypeOK

\* The catalog only grows.
LEMMA GrownStep == TypeOK /\ CommitInv /\ [Next]_vars => Grown
<1> SUFFICES ASSUME TypeOK, CommitInv, [Next]_vars PROVE Grown
  OBVIOUS
<1>0. \A t \in Tables : Len(catalog[t]) \in Nat /\ DOMAIN catalog[t] = 1..Len(catalog[t])
  BY DEF TypeOK
<1>1. CASE catalog' = catalog
  BY <1>0, <1>1 DEF Grown
<1>2. CASE catalog' # catalog
  <2>1. PICK x \in 0..MaxTx, t \in Tables : catalog' = [catalog EXCEPT ![t] = Append(@, x)]
    BY <1>2, Appends
  <2> QED
    BY <1>0, <2>1, AppendOne DEF Grown
<1> QED
  BY <1>1, <1>2

\* The types after a step.
LEMMA NextTypes ==
  ASSUME TypeOK, CommitInv, [Next]_vars
  PROVE  /\ catalog' \in [Tables -> Seq(0..MaxTx)]
         /\ heads' \in [Branches -> [Tables -> Nat]]
         /\ sequence' \in Nat
<1>1. TypeOK'
  BY TypeStep
<1>2. sequence' \in 0..MaxTx
  BY <1>1 DEF TypeOK
<1>3. sequence' \in Nat
  BY <1>2
<1>4. catalog' \in [Tables -> Seq(0..MaxTx)]
  BY <1>1 DEF TypeOK
<1>5. heads' \in [Branches -> [Tables -> Nat]]
  BY <1>1 DEF TypeOK
<1> QED
  BY <1>3, <1>4, <1>5

\* Tables only get longer.
LEMMA Lengths ==
  ASSUME TypeOK, CommitInv, [Next]_vars, NEW t \in Tables
  PROVE  /\ Len(catalog[t]) \in Nat /\ Len(catalog'[t]) \in Nat
         /\ Len(catalog[t]) <= Len(catalog'[t])
<1>1. catalog[t] \in Seq(0..MaxTx)
  BY DEF TypeOK
<1>2. catalog'[t] \in Seq(0..MaxTx)
  BY NextTypes
<1>3. Len(catalog[t]) <= Len(catalog'[t])
  BY GrownStep DEF Grown
<1> QED
  BY <1>1, <1>2, <1>3

\* A second version of a table by one transaction would have to be appended
\* after the first: apply_writes has each table once.
LEMMA OneVersionStep == TypeOK /\ CommitInv /\ OneVersion /\ [Next]_vars => OneVersion'
<1> SUFFICES ASSUME TypeOK, CommitInv, OneVersion, [Next]_vars PROVE OneVersion'
  OBVIOUS
<1>1. CASE catalog' = catalog
  BY <1>1 DEF OneVersion
<1>2. CASE catalog' # catalog
  <2>1. PICK x \in 0..MaxTx, t \in Tables :
          catalog' = [catalog EXCEPT ![t] = Append(@, x)] /\ (x # NoTx => ~Wrote(x, t))
    BY <1>2, Appends
  <2>2. \A v \in DOMAIN catalog[t] : catalog[t][v] = x => x = NoTx
    BY <2>1 DEF Wrote
  <2> QED
    BY <2>1, <2>2, AppendOne DEF OneVersion
<1> QED
  BY <1>1, <1>2

\* The head moves to the last version of the table, so never back.
LEMMA HeadMoves ==
  ASSUME TypeOK, CommitInv, OneVersion, HeadsExist, Progress,
         NEW p \in Threads, NEW t \in Tables, CommitHead(p, t)
  PROVE  /\ UseBranches /\ tx[p] \in TxId /\ rec[tx[p]] \in Record
         /\ VersionOf(tx[p], t) = Len(catalog[t]) /\ Len(catalog[t]) \in DOMAIN catalog[t]
         /\ catalog[t][Len(catalog[t])] = tx[p]
         /\ heads' = [heads EXCEPT ![rec[tx[p]].branch][t] = Len(catalog[t])]
<1>1. pc[p] = "heads" /\ t \in todo[p]
  BY DEF CommitHead
<1>2. tx[p] \in TxId /\ rec[tx[p]] \in Record /\ tx[p] # NoTx
  BY <1>1, TxType DEF CommitInv, TxId, NoTx
<1>3. Wrote(tx[p], t)
  BY <1>1 DEF CommitInv, WritesApplied, AppliedBy
<1>4. UseBranches /\ catalog[t][Len(catalog[t])] = tx[p]
  BY <1>1, <1>3 DEF Progress, ProgressOf
<1>5. VersionOf(tx[p], t) \in DOMAIN catalog[t] /\ catalog[t][VersionOf(tx[p], t)] = tx[p]
  BY <1>3 DEF Wrote, VersionOf
<1>6. Len(catalog[t]) \in DOMAIN catalog[t]
  <2>1. catalog[t] \in Seq(0..MaxTx)
    BY DEF TypeOK
  <2> QED
    BY <1>5, <2>1
<1>7. VersionOf(tx[p], t) = Len(catalog[t])
  BY <1>2, <1>4, <1>5, <1>6 DEF OneVersion
<1> QED
  BY <1>2, <1>4, <1>6, <1>7 DEF CommitHead

\* No head goes back, and none goes past its table.
LEMMA HeadsForward ==
  ASSUME TypeOK, CommitInv, OneVersion, HeadsExist, Progress, [Next]_vars, UseBranches
  PROVE  /\ \A b \in Branches, t \in Tables : heads'[b][t] >= heads[b][t]
         /\ HeadsExist'
<1>0. \A b \in Branches, t \in Tables : heads[b][t] \in Nat /\ heads[b][t] <= Len(catalog[t])
  BY DEF TypeOK, HeadsExist
<1>1. \A t \in Tables : Len(catalog[t]) \in Nat /\ Len(catalog'[t]) \in Nat
  BY Lengths
<1>2. Grown
  BY GrownStep
<1>3. faults'.direct = 0
  <2>1. \A t \in Tables : ~DirectWrite(t)
    BY DEF DirectWrite
  <2>2. faults.direct = 0
    BY DEF HeadsExist
  <2> QED
    BY <2>1, <2>2, DirectFrame
<1>4. CASE heads' = heads
  BY <1>0, <1>1, <1>2, <1>3, <1>4 DEF Grown, HeadsExist
<1>5. ASSUME NEW p \in Threads, NEW t \in Tables, CommitHead(p, t)
      PROVE  /\ \A b \in Branches, u \in Tables : heads'[b][u] >= heads[b][u]
             /\ \A b \in Branches, u \in Tables : heads'[b][u] <= Len(catalog'[u])
  <2>1. catalog' = catalog /\ rec[tx[p]].branch \in Branches
    BY <1>5, HeadMoves DEF CommitHead, Record
  <2>2. heads' = [heads EXCEPT ![rec[tx[p]].branch][t] = Len(catalog[t])]
    BY <1>5, HeadMoves
  <2>3. \A b \in Branches, u \in Tables : heads'[b][u] = heads[b][u] \/ heads'[b][u] = Len(catalog[u])
    BY <2>1, <2>2 DEF TypeOK
  <2> QED
    BY <1>0, <1>1, <2>1, <2>3
<1> QED
  BY <1>3, <1>4, <1>5, HeadsFrame DEF HeadsExist

\* What is safe stays safe.
LEMMA SafeStays ==
  ASSUME TypeOK, CommitInv, OneVersion, HeadsExist, Progress, [Next]_vars,
         NEW x \in TxId, NEW t \in Tables, Safe(x, t), rec'[x].branch = rec[x].branch
  PROVE  Safe(x, t)'
<1>1. PICK v \in DOMAIN catalog[t] :
        catalog[t][v] = x /\ (UseBranches => heads[rec[x].branch][t] >= v)
  BY DEF Safe
<1>2. v \in DOMAIN catalog'[t] /\ catalog'[t][v] = x
  BY <1>1, GrownStep DEF Grown
<1>3. UseBranches => heads'[rec'[x].branch][t] >= v
  <2> SUFFICES ASSUME UseBranches PROVE heads'[rec'[x].branch][t] >= v
    OBVIOUS
  <2> DEFINE b == rec[x].branch
  <2>0. b \in Branches
    BY DEF TypeOK, Record
  <2>1. heads'[b][t] >= heads[b][t]
    BY <2>0, HeadsForward
  <2>2. heads[b][t] \in Nat /\ heads'[b][t] \in Nat /\ v \in Nat
    <3>1. heads[b][t] \in Nat /\ catalog[t] \in Seq(0..MaxTx)
      BY <2>0 DEF TypeOK
    <3>2. heads'[b][t] \in Nat
      BY <2>0, NextTypes
    <3> QED
      BY <1>1, <3>1, <3>2
  <2>3. heads[b][t] >= v
    BY <1>1
  <2> HIDE DEF b
  <2>4. heads'[b][t] >= v
    BY <2>1, <2>2, <2>3
  <2> QED
    BY <2>4 DEF b
<1> QED
  BY <1>2, <1>3 DEF Safe

\* A step that is not a thread's, a direct write, a crash or the write of a
\* recovery changes none of this.
LEMMA OtherSteps ==
  ASSUME [Next]_vars
  PROVE  \/ \E p \in Threads : ThreadStep(p)
         \/ \E t \in Tables : DirectWrite(t)
         \/ \E autoRecover \in BOOLEAN : CrashRestart(autoRecover)
         \/ RecoverWrite
         \/ UNCHANGED <<sequence, catalog, heads, txLog, index, pc, tx, todo, rec, outcome,
                        faults, commitLock, overtaken>>
<1>1. \A x \in TxId : RecoverRead(x) =>
        UNCHANGED <<sequence, catalog, heads, txLog, index, pc, tx, todo, rec, outcome,
                    faults, commitLock, overtaken>>
  BY DEF RecoverRead, fileVars, memoryVars
<1> QED
  BY <1>1 DEF Next, Exhausted, ClearRecentCommitted, vars, fileVars, memoryVars, besideVars

\* What the write of a recovery changes.
LEMMA RecoverChange ==
  ASSUME TypeOK, RecoverWrite
  PROVE  /\ UNCHANGED <<sequence, catalog, heads, latest, index, recent, commitLock, pc, tx,
                        todo, rec, outcome, faults>>
         /\ marking \in TxId /\ overtaken' = overtaken \cup {marking}
         /\ txLog'[marking] = "aborted"
         /\ \A x \in TxId \ {marking} : txLog'[x] = txLog[x]
  BY DEF RecoverWrite, TypeOK, TxId, NoTx, memoryVars

\* The same, for what a recovery beside the manager does not touch either.
LEMMA OtherFrame ==
  ASSUME [Next]_vars
  PROVE  \/ \E p \in Threads : ThreadStep(p)
         \/ \E t \in Tables : DirectWrite(t)
         \/ \E autoRecover \in BOOLEAN : CrashRestart(autoRecover)
         \/ UNCHANGED <<sequence, catalog, heads, index, pc, tx, todo, rec, outcome, faults,
                        commitLock>>
  BY OtherSteps, BesideFrame

\* Only begin gives out an identifier, the next one.
LEMMA FreshStep == TypeOK /\ CommitInv /\ Fresh /\ MarkingBegun /\ [Next]_vars => Fresh'
<1> SUFFICES ASSUME TypeOK, CommitInv, Fresh, MarkingBegun, [Next]_vars PROVE Fresh'
  OBVIOUS
<1>0. OwnTx /\ sequence \in Nat
  BY DEF CommitInv, TypeOK
<1>1. ASSUME NEW p \in Threads, ThreadStep(p) PROVE Fresh'
  <2> SUFFICES ASSUME NEW x \in TxId, x > sequence'
               PROVE  txLog'[x] = "none" /\ outcome'[x] = "none" /\ ~Indexed(x)'
                      /\ rec'[x].writes = {}
    BY DEF Fresh
  <2>1. x > sequence /\ x # Own(p)
    <3>1. CASE pc[p] = "idle"
      BY <1>0, <1>1, <3>1, ThreadEffect DEF Own, TxId
    <3>2. CASE pc[p] # "idle"
      BY <1>0, <1>1, <3>2, ThreadEffect DEF Own, TxId, OwnTx
    <3> QED
      BY <3>1, <3>2
  <2> QED
    BY <1>0, <1>1, <2>1, ThreadEffect DEF Fresh
<1>2. ASSUME NEW autoRecover \in BOOLEAN, CrashRestart(autoRecover) PROVE Fresh'
  BY <1>2 DEF CrashRestart, Recovered, Fresh, Indexed
<1>3. CASE \E t \in Tables : DirectWrite(t)
  BY <1>3 DEF DirectWrite, Fresh, Indexed
<1>4. CASE UNCHANGED <<sequence, catalog, heads, txLog, index, pc, tx, todo, rec, outcome,
                       faults, commitLock, overtaken>>
  BY <1>4 DEF Fresh, Indexed
<1>5. CASE RecoverWrite
  <2>1. /\ UNCHANGED <<sequence, index, rec, outcome>> /\ marking \in TxId
        /\ \A x \in TxId \ {marking} : txLog'[x] = txLog[x]
    BY <1>5, RecoverChange
  <2>2. \A x \in TxId : x > sequence => x # marking
    BY <1>0, <2>1 DEF MarkingBegun, TxId
  <2> QED
    BY <2>1, <2>2 DEF Fresh, Indexed
<1> QED
  BY <1>1, <1>2, <1>3, <1>4, <1>5, OtherSteps

\* A recovery finds transactions in the log that have begun.
LEMMA MarkingStep == TypeOK /\ CommitInv /\ Fresh /\ MarkingBegun /\ [Next]_vars => MarkingBegun'
<1> SUFFICES ASSUME TypeOK, CommitInv, Fresh, MarkingBegun, [Next]_vars PROVE MarkingBegun'
  OBVIOUS
<1>0. OwnTx /\ sequence \in Nat /\ marking \in Nat
  BY DEF CommitInv, TypeOK
<1>1. ASSUME NEW p \in Threads, ThreadStep(p) PROVE MarkingBegun'
  <2>1. sequence' >= sequence /\ sequence' \in Nat
    BY <1>0, <1>1, ThreadEffect
  <2>2. marking' = marking
    BY <1>1, ThreadFaults DEF besideVars
  <2> QED
    BY <1>0, <2>1, <2>2 DEF MarkingBegun
<1>2. ASSUME NEW x \in TxId, RecoverRead(x) PROVE MarkingBegun'
  <2>1. x \in Nat /\ marking' = x /\ txLog[x] = "active" /\ sequence' = sequence
    BY <1>2 DEF RecoverRead, TxId, fileVars
  <2> QED
    BY <1>0, <2>1 DEF Fresh, MarkingBegun
<1>3. CASE RecoverWrite
  BY <1>0, <1>3 DEF RecoverWrite, MarkingBegun, NoTx
<1>4. ASSUME NEW r \in BOOLEAN, CrashRestart(r) PROVE MarkingBegun'
  BY <1>0, <1>4 DEF CrashRestart, MarkingBegun, NoTx
<1>5. (\E t \in Tables : DirectWrite(t)) \/ ClearRecentCommitted \/ Exhausted \/ UNCHANGED vars
        => UNCHANGED <<sequence, marking>>
  BY DEF DirectWrite, ClearRecentCommitted, Exhausted, vars, fileVars, besideVars
<1> QED
  BY <1>1, <1>2, <1>3, <1>4, <1>5 DEF Next, MarkingBegun

\* A transaction becomes committed with all its versions safe, and stays so.
LEMMA DurableStep ==
  TypeOK /\ CommitInv /\ OneVersion /\ Fresh /\ HeadsExist /\ Progress /\ Durable /\ [Next]_vars
    => Durable'
<1> SUFFICES ASSUME TypeOK, CommitInv, OneVersion, Fresh, HeadsExist, Progress, Durable,
                    [Next]_vars, NEW x \in TxId, txLog'[x] = "committed",
                    NEW t \in rec'[x].writes
             PROVE  Safe(x, t)'
  BY DEF Durable
<1>0. OwnTx /\ rec[x].writes \subseteq Tables
  BY DEF CommitInv, TypeOK, Record
<1>1. ASSUME txLog[x] = "committed", rec'[x] = rec[x] PROVE Safe(x, t)'
  <2>1. Safe(x, t) /\ t \in Tables
    BY <1>0, <1>1 DEF Durable
  <2> QED
    BY <1>1, <2>1, SafeStays
<1>2. ASSUME NEW p \in Threads, ThreadStep(p) PROVE Safe(x, t)'
  <2>1. CASE x # Own(p)
    BY <1>0, <1>1, <1>2, <2>1, ThreadEffect
  <2>2. CASE x = Own(p) /\ pc[p] = "idle"
    <3>1. txLog[x] = "none" /\ txLog' = txLog
      BY <1>0, <1>2, <2>2, ThreadEffect DEF Own, Fresh, BeginAlloc, TypeOK
    <3> QED
      BY <3>1
  <2>3. CASE x = Own(p) /\ pc[p] # "idle"
    <3>0. x = tx[p] /\ ProgressOf(p)
      BY <2>3 DEF Own, Progress
    <3>1. CASE CommitLog(p)
      <4>1. rec' = rec /\ pc[p] = "log"
        BY <3>1 DEF CommitLog
      <4>2. Safe(x, t) /\ t \in Tables
        BY <1>0, <3>0, <4>1 DEF ProgressOf
      <4> QED
        BY <4>1, <4>2, SafeStays
    <3>2. CASE BeginLog(p) \/ Abort(p)
      BY <3>0, <3>2 DEF BeginLog, Abort, TypeOK
    <3>3. CASE txLog' = txLog
      <4>1. pc[p] \in {"latest", "index", "finish", "failed"}
        BY <2>3, <3>0, <3>3 DEF ProgressOf, StillOpen, BeginPC, CriticalPC, TypeOK, PC
      <4>2. rec' = rec
        BY <1>0, <1>2, <4>1, ThreadEffect
      <4> QED
        BY <1>1, <3>3, <4>2
    <3> QED
      BY <1>0, <1>2, <3>1, <3>2, <3>3, ThreadEffect
  <2> QED
    BY <2>1, <2>2, <2>3
<1>3. ASSUME NEW autoRecover \in BOOLEAN, CrashRestart(autoRecover) PROVE Safe(x, t)'
  BY <1>1, <1>3 DEF CrashRestart, Recovered
<1>4. CASE \E u \in Tables : DirectWrite(u)
  BY <1>1, <1>4 DEF DirectWrite
<1>5. CASE UNCHANGED <<sequence, catalog, heads, txLog, index, pc, tx, todo, rec, outcome,
                       faults, commitLock, overtaken>>
  BY <1>1, <1>5
<1>6. CASE RecoverWrite
  BY <1>1, <1>6, RecoverChange
<1> QED
  BY <1>2, <1>3, <1>4, <1>5, <1>6, OtherSteps

\* A step of a thread adds versions of its own transaction at most.
LEMMA OthersWrites ==
  ASSUME TypeOK, CommitInv, NEW p \in Threads, ThreadStep(p)
  PROVE  \A y, t : t \in Tables /\ y # Own(p) => (Wrote(y, t)' <=> Wrote(y, t))
<1>1. CASE catalog' = catalog
  BY <1>1 DEF Wrote
<1>2. ASSUME NEW t \in Tables, CommitApply(p, t)
      PROVE  \A y, u : u \in Tables /\ y # Own(p) => (Wrote(y, u)' <=> Wrote(y, u))
  <2>1. tx[p] = Own(p) /\ tx[p] \in 0..MaxTx
    BY <1>2 DEF CommitApply, Own, TypeOK
  <2>2. catalog' = [catalog EXCEPT ![t] = Append(@, tx[p])]
    BY <1>2 DEF CommitApply
  <2> QED
    BY <2>1, <2>2, WroteAppend
<1>3. catalog' = catalog \/ \E t \in Tables : CommitApply(p, t)
  BY DEF ThreadStep, CommitStep, BeginAlloc, BeginSnapshot, BeginCapture, BeginLog, RecordRead, AddWrite,
     CommitCall, CommitLock, CommitConflict, CommitIOError, GiveUp, CommitAccept,
     CommitHead, CommitLog, CommitLatest, CommitIndex, CommitFinish, Abort, fileVars
<1> QED
  BY <1>1, <1>2, <1>3

\* The answers of a step: only these three give one.
LEMMA OutcomeFrame ==
  ASSUME TypeOK, OwnTx, NEW p \in Threads, ThreadStep(p)
  PROVE  \/ outcome' = outcome
         \/ CommitConflict(p) \/ CommitIOError(p) \/ CommitFinish(p) \/ Abort(p)
  BY DEF ThreadStep, CommitStep, BeginAlloc, BeginSnapshot, BeginCapture, BeginLog, RecordRead, AddWrite,
     CommitCall, CommitLock, CommitAccept, CommitApply,
     CommitHead, CommitLog, CommitLatest, CommitIndex

AnswerOf(x) ==
  /\ outcome[x] = "Ok" => (txLog[x] = "committed" \/ x \in overtaken) /\ Indexed(x)
  /\ outcome[x] \in {"Aborted", "WriteConflict", "SnapshotConflict"} =>
       (\A t \in Tables : ~Wrote(x, t)) /\ ~Indexed(x)

\* AnswersAreTrue, one transaction at a time.
LEMMA AnswersByTransaction == AnswersAreTrue <=> \A x \in TxId : AnswerOf(x)
  BY DEF AnswersAreTrue, AnswerOf, Indexed

\* Answers stay true: later steps neither undo a commit nor complete a
\* refused one.
LEMMA AnswersStep ==
  TypeOK /\ CommitInv /\ Fresh /\ Progress /\ AnswersAreTrue /\ [Next]_vars => AnswersAreTrue'
<1> SUFFICES ASSUME TypeOK, CommitInv, Fresh, Progress, AnswersAreTrue, [Next]_vars,
                    NEW x \in TxId
             PROVE  AnswerOf(x)'
  BY AnswersByTransaction DEF AnswersAreTrue, AnswerOf, Indexed
<1>0. OwnTx /\ WritesApplied /\ AnswerOf(x)
  BY AnswersByTransaction DEF CommitInv
<1>1. ASSUME NEW p \in Threads, ThreadStep(p) PROVE AnswerOf(x)'
  <2>0. overtaken' = overtaken
    BY <1>1, ThreadFaults DEF besideVars
  <2>1. CASE x # Own(p)
    BY <1>0, <1>1, <2>0, <2>1, ThreadEffect, OthersWrites DEF AnswerOf
  <2>2. CASE x = Own(p) /\ pc[p] = "idle"
    <3>1. outcome[x] = "none" /\ outcome' = outcome
      BY <1>0, <1>1, <2>2, ThreadEffect DEF Own, Fresh, BeginAlloc, TypeOK
    <3> QED
      BY <3>1 DEF AnswerOf
  <2>3. CASE x = Own(p) /\ pc[p] # "idle"
    <3>0. x = tx[p] /\ ProgressOf(p) /\ AppliedBy(p)
      BY <1>0, <2>3 DEF Own, Progress, WritesApplied
    <3>1. CASE outcome' = outcome /\ pc[p] # "failed"
      BY <2>3, <3>0, <3>1 DEF ProgressOf, AnswerOf, BeginPC, CriticalPC, TypeOK, PC
    <3>2. CASE CommitConflict(p)
      <4>1. pc[p] = "check" /\ UNCHANGED <<catalog, index>> /\ outcome'[x] # "Ok"
        BY <3>0, <3>2 DEF CommitConflict, GiveUp, fileVars, TypeOK
      <4> QED
        BY <3>0, <4>1 DEF AnswerOf, ProgressOf, AppliedBy, CriticalPC, Wrote, Indexed
    <3>3. CASE CommitIOError(p)
      <4>1. outcome'[x] = "IoError"
        BY <3>0, <3>3 DEF CommitIOError, GiveUp, TypeOK
      <4> QED
        BY <4>1 DEF AnswerOf
    <3>4. CASE CommitFinish(p)
      <4>1. pc[p] = "finish" /\ UNCHANGED <<txLog, index>> /\ outcome'[x] = "Ok"
        BY <3>0, <3>4 DEF CommitFinish, fileVars, TypeOK
      <4> QED
        BY <2>0, <3>0, <4>1 DEF AnswerOf, ProgressOf, Indexed
    <3>5. CASE Abort(p)
      <4>1. /\ pc[p] \in {"open", "failed"} /\ UNCHANGED <<catalog, index>>
            /\ outcome'[x] = IF outcome[x] = "none" THEN "Aborted" ELSE outcome[x]
        BY <3>0, <3>5 DEF Abort, TypeOK
      <4>2. CASE pc[p] = "open"
        BY <3>0, <4>1, <4>2 DEF AnswerOf, ProgressOf, AppliedBy, BeginPC, Wrote, Indexed
      <4>3. CASE pc[p] = "failed"
        BY <1>0, <3>0, <4>1, <4>3 DEF AnswerOf, ProgressOf, Conflicts, Wrote, Indexed
      <4> QED
        BY <4>1, <4>2, <4>3
    <3>6. outcome' = outcome => pc[p] # "failed" \/ Abort(p)
      BY <1>1 DEF ThreadStep, CommitStep, BeginAlloc, BeginSnapshot, BeginCapture, BeginLog, RecordRead, AddWrite,
     CommitCall, CommitLock, CommitConflict, CommitIOError, CommitAccept, CommitApply,
     CommitHead, CommitLog, CommitLatest, CommitIndex, CommitFinish
    <3> QED
      BY <1>0, <1>1, <3>1, <3>2, <3>3, <3>4, <3>5, <3>6, OutcomeFrame
  <2> QED
    BY <2>1, <2>2, <2>3
<1>2. ASSUME NEW autoRecover \in BOOLEAN, CrashRestart(autoRecover) PROVE AnswerOf(x)'
  BY <1>0, <1>2 DEF CrashRestart, Recovered, AnswerOf, Wrote, Indexed
<1>5. CASE RecoverWrite
  BY <1>0, <1>5, RecoverChange DEF AnswerOf, Wrote, Indexed
<1>3. ASSUME NEW t \in Tables, DirectWrite(t) PROVE AnswerOf(x)'
  <2>1. NoTx \in 0..MaxTx /\ x # NoTx
    BY BoundAssumption DEF NoTx, TxId
  <2>2. \A u \in Tables : Wrote(x, u)' <=> Wrote(x, u)
    BY <1>3, <2>1, WroteAppend DEF DirectWrite
  <2> QED
    BY <1>0, <1>3, <2>2 DEF DirectWrite, AnswerOf, Indexed, besideVars
<1>4. CASE UNCHANGED <<sequence, catalog, heads, txLog, index, pc, tx, todo, rec, outcome,
                       faults, commitLock, overtaken>>
  BY <1>0, <1>4 DEF AnswerOf, Wrote, Indexed
<1> QED
  BY <1>1, <1>2, <1>3, <1>4, <1>5, OtherSteps

\* The facts about a running transaction, for a thread that does not move.
LEMMA BystanderStep ==
  ASSUME TypeOK, CommitInv, Progress, NEW p \in Threads, ThreadStep(p),
         NEW q \in Threads \ {p}, pc[q] # "idle"
  PROVE  ProgressOf(q)'
<1>1. /\ pc'[q] = pc[q] /\ tx'[q] = tx[q] /\ todo'[q] = todo[q]
      /\ tx[q] \in TxId \ {Own(p)}
      /\ pc[p] \notin CriticalPC => UNCHANGED <<catalog, heads, index>>
      /\ overtaken' = overtaken
  BY ThreadEffect, OwnApart, ThreadFaults DEF CommitInv, besideVars
<1>2. /\ txLog'[tx[q]] = txLog[tx[q]] /\ outcome'[tx[q]] = outcome[tx[q]]
      /\ rec'[tx[q]] = rec[tx[q]] /\ (Indexed(tx[q])' <=> Indexed(tx[q]))
  BY <1>1, ThreadEffect DEF CommitInv
<1>3. pc[q] \in CriticalPC => UNCHANGED <<catalog, heads>>
  BY <1>1 DEF CommitInv, LockHeld
<1>4. ProgressOf(q)
  BY DEF Progress
<1>5. CASE pc[q] \in CriticalPC
  <2>2. \A t : Safe(tx[q], t) => Safe(tx[q], t)'
    BY <1>1, <1>2, <1>3, <1>5 DEF Safe
  <2>3. \A t : Wrote(tx[q], t)' => Wrote(tx[q], t)
    BY <1>1, <1>3, <1>5 DEF Wrote
  <2> QED
    BY <1>1, <1>2, <1>3, <1>4, <1>5, <2>2, <2>3 DEF ProgressOf, StillOpen
<1>6. CASE pc[q] \notin CriticalPC
  BY <1>1, <1>2, <1>4, <1>6 DEF ProgressOf, StillOpen, CriticalPC
<1> QED
  BY <1>5, <1>6

\* Nothing of what is known of a transaction but its lists of tables changes.
LEMMA SameProgress ==
  ASSUME NEW p \in Threads, ProgressOf(p), {pc[p], pc'[p]} \subseteq BeginPC \cup {"check"},
         UNCHANGED <<index, txLog, outcome, overtaken>>, tx'[p] = tx[p]
  PROVE  ProgressOf(p)'
  BY DEF ProgressOf, StillOpen, Indexed, BeginPC, CriticalPC

\* The facts about a running transaction, for the thread that moves.
LEMMA OwnProgressStep ==
  ASSUME TypeOK, CommitInv, OneVersion, HeadsExist, Fresh, Progress,
         NEW p \in Threads, ThreadStep(p), pc'[p] # "idle"
  PROVE  ProgressOf(p)'
<1> DEFINE x == tx[p]
<1>0. /\ OwnTx /\ WritesApplied /\ pc \in [Threads -> PC] /\ tx \in [Threads -> 0..MaxTx]
      /\ pc[p] # "idle" => ProgressOf(p) /\ AppliedBy(p) /\ x \in TxId /\ rec[x] \in Record
      /\ overtaken' = overtaken
  BY TxType, ThreadFaults DEF CommitInv, TypeOK, Progress, WritesApplied, besideVars
<1>1. ASSUME BeginAlloc(p) PROVE ProgressOf(p)'
  <2>1. /\ pc[p] = "idle" /\ pc'[p] = "allocated" /\ tx'[p] = sequence + 1
        /\ sequence + 1 \in TxId /\ sequence + 1 > sequence
        /\ UNCHANGED <<txLog, outcome, index>>
    <3>1. sequence \in Nat /\ sequence < MaxTx
      BY <1>1 DEF BeginAlloc, TypeOK
    <3>2. sequence + 1 \in TxId /\ sequence + 1 > sequence
      BY <3>1, BoundAssumption DEF TxId
    <3> QED
      BY <1>0, <1>1, <3>2 DEF BeginAlloc, Goto
  <2>2. txLog[sequence + 1] = "none" /\ outcome[sequence + 1] = "none" /\ ~Indexed(sequence + 1)
    BY <2>1 DEF Fresh
  <2> QED
    BY <2>1, <2>2 DEF ProgressOf, StillOpen, Indexed, BeginPC, CriticalPC
<1>2. ASSUME BeginSnapshot(p) PROVE ProgressOf(p)'
  <2>1. /\ pc[p] = "allocated" /\ pc'[p] \in {"snapped", "capture"}
        /\ UNCHANGED <<index, txLog, outcome, tx>>
    BY <1>0, <1>2 DEF BeginSnapshot, Goto, fileVars
  <2> QED
    BY <1>0, <2>1, SameProgress DEF BeginPC
<1>15. ASSUME NEW t \in Tables, BeginCapture(p, t) PROVE ProgressOf(p)'
  <2>1. /\ pc[p] = "capture" /\ pc'[p] \in {"snapped", "capture"}
        /\ UNCHANGED <<index, txLog, outcome, tx>>
    BY <1>0, <1>15 DEF BeginCapture, Goto, fileVars
  <2> QED
    BY <1>0, <2>1, SameProgress DEF BeginPC
<1>3. ASSUME BeginLog(p) PROVE ProgressOf(p)'
  <2>1. /\ pc[p] = "snapped" /\ pc'[p] = "open" /\ UNCHANGED <<outcome, index, tx>>
        /\ txLog'[x] = "active"
    BY <1>0, <1>3 DEF BeginLog, Goto, TypeOK
  <2> QED
    BY <1>0, <2>1 DEF ProgressOf, StillOpen, BeginPC, CriticalPC, Indexed
<1>4. ASSUME NEW t \in Tables, RecordRead(p, t) \/ AddWrite(p, t) PROVE ProgressOf(p)'
  <2>1. pc[p] = "open" /\ UNCHANGED <<index, txLog, outcome, pc, tx>>
    BY <1>4 DEF RecordRead, AddWrite, fileVars, memoryVars
  <2> QED
    BY <1>0, <2>1, SameProgress DEF BeginPC
<1>5. ASSUME CommitCall(p) PROVE ProgressOf(p)'
  <2>1. pc[p] = "open" /\ pc'[p] = "waiting" /\ UNCHANGED <<index, txLog, outcome, tx>>
    BY <1>0, <1>5 DEF CommitCall, Goto, fileVars
  <2> QED
    BY <1>0, <2>1, SameProgress DEF BeginPC
<1>6. ASSUME CommitLock(p) PROVE ProgressOf(p)'
  <2>1. pc[p] = "waiting" /\ pc'[p] = "check" /\ UNCHANGED <<index, txLog, outcome, tx>>
    BY <1>0, <1>6 DEF CommitLock, Goto, fileVars
  <2> QED
    BY <1>0, <2>1, SameProgress DEF BeginPC
<1>7. ASSUME CommitConflict(p) \/ CommitIOError(p) PROVE ProgressOf(p)'
  <2>1. /\ pc'[p] = "failed" /\ UNCHANGED <<tx, txLog>> /\ pc[p] # "idle"
        /\ outcome'[x] \in Conflicts \cup {"IoError"}
        /\ outcome'[x] = "IoError" \/ pc[p] = "check"
    BY <1>0, <1>7
       DEF CommitConflict, CommitIOError, GiveUp, Goto, TypeOK, Conflicts, fileVars
  <2>2. pc[p] = "check" => StillOpen(x)
    BY <1>0, <2>1 DEF ProgressOf
  <2> QED
    BY <1>0, <2>1, <2>2 DEF ProgressOf, StillOpen, BeginPC, CriticalPC
<1>8. ASSUME CommitAccept(p) PROVE ProgressOf(p)'
  <2>1. /\ pc[p] = "check" /\ UNCHANGED <<catalog, heads, index, txLog, outcome, tx, rec>>
        /\ pc'[p] = IF rec[x].writes = {} THEN "log" ELSE "apply"
    BY <1>0, <1>8 DEF CommitAccept, Goto, fileVars
  <2>2. \A t \in Tables : ~Wrote(x, t)
    BY <1>0, <2>1 DEF AppliedBy
  <2>3. CASE rec[x].writes = {}
    BY <1>0, <2>1, <2>3 DEF ProgressOf, StillOpen, BeginPC, CriticalPC, Indexed
  <2>4. CASE rec[x].writes # {}
    BY <1>0, <2>1, <2>2, <2>4 DEF ProgressOf, StillOpen, BeginPC, CriticalPC, Indexed, Wrote
  <2> QED
    BY <2>3, <2>4
<1>9. ASSUME NEW t \in Tables, CommitApply(p, t) PROVE ProgressOf(p)'
  <2>1. /\ pc[p] = "apply" /\ t \in todo[p] /\ UNCHANGED <<heads, index, txLog, outcome, tx, rec>>
        /\ catalog' = [catalog EXCEPT ![t] = Append(@, x)]
        /\ \/ pc'[p] = "apply"
           \/ pc'[p] = "heads" /\ UseBranches /\ todo'[p] = rec[x].writes
           \/ pc'[p] = "log" /\ ~UseBranches /\ todo[p] \ {t} = {}
    BY <1>0, <1>9 DEF CommitApply, Goto, TypeOK
  <2>2. /\ \A u \in Tables \ {t} : catalog'[u] = catalog[u]
        /\ Len(catalog'[t]) = Len(catalog[t]) + 1
        /\ catalog'[t][Len(catalog[t]) + 1] = x
        /\ Len(catalog'[t]) \in DOMAIN catalog'[t]
    <3>1. PICK y \in 0..MaxTx : y = x
      BY <1>0
    <3>2. catalog' = [catalog EXCEPT ![t] = Append(@, y)]
      BY <2>1, <3>1
    <3>3. /\ \A u \in Tables \ {t} : catalog'[u] = catalog[u]
          /\ Len(catalog'[t]) = Len(catalog[t]) + 1 /\ Len(catalog[t]) \in Nat
          /\ DOMAIN catalog'[t] = 1..Len(catalog'[t])
          /\ catalog'[t][Len(catalog[t]) + 1] = y
      BY <3>2, AppendOne
    <3> QED
      BY <3>1, <3>3
  <2>3. UseBranches => \A u \in Tables : Wrote(x, u)' => catalog'[u][Len(catalog'[u])] = x
    <3> SUFFICES ASSUME UseBranches, NEW u \in Tables, Wrote(x, u)'
                 PROVE  catalog'[u][Len(catalog'[u])] = x
      BY <2>1
    <3>1. CASE u = t
      BY <2>2, <3>1
    <3>2. CASE u # t
      BY <1>0, <2>1, <2>2, <3>2 DEF ProgressOf, Wrote
    <3> QED
      BY <3>1, <3>2
  <2>4. ~UseBranches /\ todo[p] \ {t} = {} => \A u \in rec[x].writes : Safe(x, u)'
    <3> SUFFICES ASSUME ~UseBranches, todo[p] \ {t} = {}, NEW u \in rec[x].writes
                 PROVE  \E v \in DOMAIN catalog'[u] : catalog'[u][v] = x
      BY <2>1 DEF Safe
    <3>1. CASE u = t
      BY <2>2, <3>1
    <3>2. CASE u # t
      <4>1. Wrote(x, u) /\ u \in Tables
        BY <1>0, <2>1, <3>2 DEF AppliedBy, Record
      <4> QED
        BY <2>2, <3>2, <4>1 DEF Wrote
    <3> QED
      BY <3>1, <3>2
  <2>5. StillOpen(x)' /\ outcome[x] = "none" /\ ~Indexed(x)
    BY <1>0, <2>1 DEF ProgressOf, StillOpen, CriticalPC
  <2>6. CASE pc'[p] = "apply"
    BY <2>1, <2>3, <2>5, <2>6 DEF ProgressOf, CriticalPC, Indexed
  <2>7. CASE pc'[p] = "heads" /\ UseBranches /\ todo'[p] = rec[x].writes
    BY <2>1, <2>3, <2>5, <2>7 DEF ProgressOf, CriticalPC, Indexed
  <2>8. CASE pc'[p] = "log" /\ ~UseBranches /\ todo[p] \ {t} = {}
    BY <2>1, <2>4, <2>5, <2>8 DEF ProgressOf, CriticalPC, Indexed
  <2> QED
    BY <2>1, <2>6, <2>7, <2>8
<1>10. ASSUME NEW t \in Tables, CommitHead(p, t) PROVE ProgressOf(p)'
  <2>1. /\ pc[p] = "heads" /\ t \in todo[p] /\ UNCHANGED <<catalog, index, txLog, outcome, tx, rec>>
        /\ todo'[p] = todo[p] \ {t}
        /\ \/ pc'[p] = "heads"
           \/ pc'[p] = "log" /\ todo[p] \ {t} = {}
    BY <1>0, <1>10 DEF CommitHead, Goto, TypeOK
  <2>2. /\ UseBranches /\ Len(catalog[t]) \in DOMAIN catalog[t] /\ catalog[t][Len(catalog[t])] = x
        /\ heads' = [heads EXCEPT ![rec[x].branch][t] = Len(catalog[t])]
    BY <1>10, HeadMoves
  <2>3. Safe(x, t)'
    <3>1. rec[x].branch \in Branches /\ t \in Tables /\ heads \in [Branches -> [Tables -> Nat]]
      BY <1>0, <2>1 DEF TypeOK, Record
    <3>2. heads'[rec[x].branch][t] = Len(catalog[t])
      BY <2>2, <3>1
    <3>3. Len(catalog[t]) \in Nat
      BY DEF TypeOK
    <3> QED
      BY <2>1, <2>2, <3>2, <3>3 DEF Safe
  <2>4. \A u \in rec[x].writes \ todo[p] : Safe(x, u)'
    <3> SUFFICES ASSUME NEW u \in rec[x].writes \ todo[p] PROVE Safe(x, u)'
      OBVIOUS
    <3>1. Safe(x, u) /\ u \in Tables
      BY <1>0, <2>1 DEF ProgressOf, Record
    <3>2. u # t
      BY <2>1
    <3>3. heads'[rec[x].branch][u] = heads[rec[x].branch][u]
      BY <1>0, <2>2, <3>1, <3>2 DEF TypeOK, Record
    <3> QED
      BY <2>1, <3>1, <3>3 DEF Safe
  <2>5. StillOpen(x)' /\ outcome[x] = "none" /\ ~Indexed(x)
    BY <1>0, <2>1 DEF ProgressOf, StillOpen, CriticalPC
  <2>6. \A u \in Tables : Wrote(x, u)' => catalog'[u][Len(catalog'[u])] = x
    BY <1>0, <2>1, <2>2 DEF ProgressOf, Wrote
  <2>7. \A u \in rec[x].writes \ todo'[p] : Safe(x, u)'
    BY <2>1, <2>3, <2>4
  <2> HIDE DEF x
  <2>8. CASE pc'[p] = "heads"
    BY <2>1, <2>2, <2>5, <2>6, <2>7, <2>8 DEF ProgressOf, CriticalPC, Indexed, x
  <2>9. CASE pc'[p] = "log" /\ todo[p] \ {t} = {}
    BY <2>1, <2>2, <2>5, <2>6, <2>7, <2>9 DEF ProgressOf, CriticalPC, Indexed, x
  <2> QED
    BY <2>1, <2>8, <2>9
<1>11. ASSUME CommitLog(p) PROVE ProgressOf(p)'
  <2>1. /\ pc[p] = "log" /\ pc'[p] = "latest" /\ UNCHANGED <<outcome, index, tx>>
        /\ txLog'[x] = "committed"
    BY <1>0, <1>11 DEF CommitLog, Goto, TypeOK
  <2> QED
    BY <1>0, <2>1 DEF ProgressOf, StillOpen, BeginPC, CriticalPC, Indexed
<1>12. ASSUME CommitLatest(p) PROVE ProgressOf(p)'
  <2>1. pc[p] = "latest" /\ pc'[p] = "index" /\ UNCHANGED <<outcome, index, tx, txLog>>
    BY <1>0, <1>12 DEF CommitLatest, Goto
  <2> QED
    BY <1>0, <2>1 DEF ProgressOf, BeginPC, CriticalPC, Indexed
<1>13. ASSUME CommitIndex(p) PROVE ProgressOf(p)'
  <2>1. /\ pc[p] = "index" /\ pc'[p] = "finish" /\ UNCHANGED <<outcome, tx, txLog>>
        /\ index' = Append(index, x)
    BY <1>0, <1>13 DEF CommitIndex, Goto
  <2>2. Indexed(x)'
    <3>1. index \in Seq(TxId) /\ x \in TxId
      BY <1>0, <2>1 DEF TypeOK
    <3>2. index'[Len(index) + 1] = x /\ Len(index) + 1 \in DOMAIN index'
      BY <2>1, <3>1
    <3> QED
      BY <2>1, <3>2 DEF Indexed
  <2> QED
    BY <1>0, <2>1, <2>2 DEF ProgressOf, BeginPC, CriticalPC
<1>14. ASSUME CommitFinish(p) \/ Abort(p) PROVE pc'[p] = "idle"
  BY <1>0, <1>14 DEF CommitFinish, Abort, Goto
<1> QED
  BY <1>1, <1>2, <1>3, <1>4, <1>5, <1>6, <1>7, <1>8, <1>9, <1>10, <1>11, <1>12, <1>13, <1>14,
     <1>15
     DEF ThreadStep, CommitStep

\* What is known of running transactions, over every step.
LEMMA ProgressStep ==
  TypeOK /\ CommitInv /\ OneVersion /\ HeadsExist /\ Fresh /\ Progress /\ [Next]_vars => Progress'
<1> SUFFICES ASSUME TypeOK, CommitInv, OneVersion, HeadsExist, Fresh, Progress, [Next]_vars,
                    NEW q \in Threads, pc'[q] # "idle"
             PROVE  ProgressOf(q)'
  BY DEF Progress
<1>1. ASSUME NEW p \in Threads, ThreadStep(p) PROVE ProgressOf(q)'
  <2>1. CASE q = p
    BY <1>1, <2>1, OwnProgressStep
  <2>2. CASE q # p
    <3>1. pc[q] # "idle"
      BY <1>1, <2>2, ThreadEffect DEF CommitInv
    <3> QED
      BY <1>1, <2>2, <3>1, BystanderStep
  <2> QED
    BY <2>1, <2>2
<1>2. ASSUME NEW autoRecover \in BOOLEAN, CrashRestart(autoRecover) PROVE ProgressOf(q)'
  BY <1>2 DEF CrashRestart
<1>3. ASSUME NEW t \in Tables, DirectWrite(t) PROVE ProgressOf(q)'
  <2>1. /\ ~UseBranches
        /\ UNCHANGED <<sequence, heads, txLog, index, pc, tx, todo, rec, outcome, overtaken>>
    BY <1>3 DEF DirectWrite, memoryVars, besideVars
  <2>2. ProgressOf(q)
    BY <2>1 DEF Progress
  <2>3. pc[q] = "log" => \A u \in rec[tx[q]].writes : Safe(tx[q], u)'
    <3> SUFFICES ASSUME pc[q] = "log", NEW u \in rec[tx[q]].writes PROVE Safe(tx[q], u)'
      OBVIOUS
    <3>1. tx[q] \in TxId /\ u \in Tables
      BY TxType DEF CommitInv, Record
    <3>2. Safe(tx[q], u)
      BY <2>2 DEF ProgressOf
    <3>3. PICK v \in DOMAIN catalog[u] : catalog[u][v] = tx[q]
      BY <3>2 DEF Safe
    <3>4. v \in DOMAIN catalog'[u] /\ catalog'[u][v] = tx[q]
      BY <3>1, <3>3, GrownStep DEF Grown
    <3> QED
      BY <2>1, <3>4 DEF Safe
  <2> QED
    BY <2>1, <2>2, <2>3 DEF ProgressOf, StillOpen, Indexed
<1>4. CASE UNCHANGED <<sequence, catalog, heads, txLog, index, pc, tx, todo, rec, outcome,
                       faults, commitLock, overtaken>>
  <2>1. ProgressOf(q)
    BY <1>4 DEF Progress
  <2> QED
    BY <1>4, <2>1 DEF ProgressOf, StillOpen, Indexed, Wrote, Safe
<1>5. CASE RecoverWrite
  <2>1. /\ UNCHANGED <<catalog, heads, index, pc, tx, todo, rec, outcome>>
        /\ marking \in TxId /\ overtaken' = overtaken \cup {marking}
        /\ txLog'[marking] = "aborted"
        /\ \A x \in TxId \ {marking} : txLog'[x] = txLog[x]
    BY <1>5, RecoverChange
  <2>2. ProgressOf(q) /\ tx[q] \in TxId
    BY <2>1, TxType DEF Progress, CommitInv
  <2>3. StillOpen(tx[q]) => StillOpen(tx[q])'
    BY <2>1, <2>2 DEF StillOpen
  <2>4. txLog[tx[q]] = "committed" \/ tx[q] \in overtaken
          => (txLog[tx[q]] = "committed" \/ tx[q] \in overtaken)'
    BY <2>1, <2>2
  <2> QED
    BY <2>1, <2>2, <2>3, <2>4 DEF ProgressOf, Indexed, Wrote, Safe
<1> QED
  BY <1>1, <1>2, <1>3, <1>4, <1>5, OtherSteps

\* The parts of DurableInv together.
LEMMA DurableInvStep == TypeOK /\ CommitInv /\ DurableInv /\ [Next]_vars => DurableInv'
<1> SUFFICES ASSUME TypeOK, CommitInv, DurableInv, [Next]_vars PROVE DurableInv'
  OBVIOUS
<1>1. HeadsExist'
  <2>1. UseBranches => HeadsExist'
    BY HeadsForward DEF DurableInv
  <2> QED
    BY <2>1 DEF HeadsExist
<1> QED
  BY <1>1, OneVersionStep, FreshStep, MarkingStep, ProgressStep, DurableStep, AnswersStep
     DEF DurableInv

\* Nothing has happened yet.
LEMMA DurableInit == Init => DurableInv
<1> SUFFICES ASSUME Init PROVE DurableInv
  OBVIOUS
<1>1. OneVersion /\ Progress
  BY DEF Init, OneVersion, Progress
<1>2. Fresh /\ MarkingBegun /\ Durable /\ AnswersAreTrue
  BY DEF Init, Fresh, MarkingBegun, Durable, AnswersAreTrue, Indexed, NewRecord, NoTx
<1>3. HeadsExist
  <2>1. \A t \in Tables : Len(catalog[t]) \in Nat
    BY DEF Init
  <2> QED
    BY <2>1 DEF Init, HeadsExist
<1> QED
  BY <1>1, <1>2, <1>3 DEF DurableInv

\* What is committed and safe has the version VersionOf finds.
LEMMA DurableImplies == TypeOK /\ DurableInv => CommittedIsDurable
<1> SUFFICES ASSUME TypeOK, DurableInv, NEW x \in TxId, txLog[x] = "committed",
                    NEW t \in rec[x].writes
             PROVE  Wrote(x, t) /\ (UseBranches => heads[rec[x].branch][t] >= VersionOf(x, t))
  BY DEF CommittedIsDurable
<1>1. t \in Tables /\ x # NoTx
  <2>1. rec[x] \in Record
    BY DEF TypeOK
  <2> QED
    BY <2>1 DEF Record, TxId, NoTx
<1>2. PICK v \in DOMAIN catalog[t] :
        catalog[t][v] = x /\ (UseBranches => heads[rec[x].branch][t] >= v)
  BY DEF DurableInv, Durable, Safe
<1>3. Wrote(x, t)
  BY <1>2 DEF Wrote
<1>4. VersionOf(x, t) \in DOMAIN catalog[t] /\ catalog[t][VersionOf(x, t)] = x
  BY <1>3 DEF Wrote, VersionOf
<1>5. VersionOf(x, t) = v
  BY <1>1, <1>2, <1>4 DEF DurableInv, OneVersion
<1> QED
  BY <1>2, <1>3, <1>5

\* Once the log says committed, every version is in the catalog and its head
\* there or further, whatever crash, error or direct write follows.
THEOREM CommitsAreDurable == Spec => []CommittedIsDurable
<1>1. Init => TypeOK /\ CommitInv /\ DurableInv
  BY TypeInit, DurableInit
<1>2. TypeOK /\ CommitInv /\ DurableInv /\ [Next]_vars => (TypeOK /\ CommitInv /\ DurableInv)'
  BY TypeStep, CommitInvStep, DurableInvStep
<1>3. TypeOK /\ CommitInv /\ DurableInv => CommittedIsDurable
  BY DurableImplies
<1> QED
  BY <1>1, <1>2, <1>3, PTL DEF Spec

\* What callers of commit and abort are told is what happened (manager.rs
\* returns Ok after the index, a conflict before the first write).
THEOREM AnswersCorrect == Spec => []AnswersAreTrue
<1>1. Init => TypeOK /\ CommitInv /\ DurableInv
  BY TypeInit, DurableInit
<1>2. TypeOK /\ CommitInv /\ DurableInv /\ [Next]_vars => (TypeOK /\ CommitInv /\ DurableInv)'
  BY TypeStep, CommitInvStep, DurableInvStep
<1>3. DurableInv => AnswersAreTrue
  BY DEF DurableInv
<1> QED
  BY <1>1, <1>2, <1>3, PTL DEF Spec

-----------------------------------------------------------------------------
\* What is left behind as long as nothing fails.

\* The thread of x is between its first write and the record that commits it.
Pending(x) == \E p \in Threads : tx[p] = x /\ pc[p] \in {"apply", "heads", "log"}

\* No version is by a transaction that has not committed and is not about to,
\* apart from those a recovery marked while they ran.
NothingLeft ==
  /\ \A x \in TxId \ overtaken :
       txLog[x] # "committed" /\ ~Pending(x) => \A t \in Tables : ~Wrote(x, t)
  /\ \A x \in TxId : outcome[x] # "IoError"

\* Fault counters only grow, and these steps move them.
LEMMA FaultFrame ==
  ASSUME TypeOK, [Next]_vars
  PROVE  /\ faults'.crash # 0 \/ (faults.crash = 0 /\ \A r \in BOOLEAN : ~CrashRestart(r))
         /\ faults'.io # 0 \/ (faults.io = 0 /\ \A p \in Threads : ~CommitIOError(p))
         /\ faults'.direct # 0 \/ (faults.direct = 0 /\ \A t \in Tables : ~DirectWrite(t))
<1> DEFINE Effect ==
      /\ faults'.crash # 0 \/ (faults.crash = 0 /\ \A r \in BOOLEAN : ~CrashRestart(r))
      /\ faults'.io # 0 \/ (faults.io = 0 /\ \A p \in Threads : ~CommitIOError(p))
      /\ faults'.direct # 0 \/ (faults.direct = 0 /\ \A t \in Tables : ~DirectWrite(t))
<1>0. faults \in [crash : Nat, io : Nat, direct : Nat]
  BY DEF TypeOK
<1>1. ASSUME faults' = faults PROVE Effect
  BY <1>0, <1>1 DEF CrashRestart, CommitIOError, DirectWrite
<1>2. ASSUME NEW p \in Threads, CommitIOError(p) PROVE Effect
  <2>1. faults' = [faults EXCEPT !.io = @ + 1]
    BY <1>2 DEF CommitIOError
  <2> QED
    BY <1>0, <2>1 DEF CrashRestart, DirectWrite
<1>3. ASSUME NEW t \in Tables, DirectWrite(t) PROVE Effect
  <2>1. faults' = [faults EXCEPT !.direct = @ + 1]
    BY <1>3 DEF DirectWrite
  <2> QED
    BY <1>0, <2>1 DEF CrashRestart, CommitIOError
<1>4. ASSUME NEW r \in BOOLEAN, CrashRestart(r) PROVE Effect
  <2>1. faults' = [faults EXCEPT !.crash = @ + 1]
    BY <1>4 DEF CrashRestart
  <2> QED
    BY <1>0, <2>1 DEF CommitIOError, DirectWrite
<1>5. RecoverWrite => faults' = faults
  BY BesideFrame
<1> QED
  BY <1>1, <1>2, <1>3, <1>4, <1>5, ThreadFaults, OtherSteps

\* Without crash and I/O error a version is left by a commit only.
LEMMA NothingLeftStep ==
  ASSUME TypeOK, CommitInv, DurableInv, NothingLeft, [Next]_vars, Calm'
  PROVE  NothingLeft'
<1>0. OwnTx /\ WritesApplied /\ WritersBegun /\ Progress /\ AnswersAreTrue
  BY DEF CommitInv, DurableInv
<1>1. ASSUME NEW p \in Threads, ThreadStep(p) PROVE NothingLeft'
  <2>0. ~CommitIOError(p) /\ overtaken' = overtaken
    BY <1>1, FaultFrame, ThreadFaults DEF Calm, besideVars
  <2>1. ASSUME NEW x \in TxId PROVE outcome'[x] # "IoError"
    <3>1. outcome[x] # "IoError" /\ outcome \in [TxId -> {"none", "Ok", "Aborted", "WriteConflict",
                           "SnapshotConflict", "IoError"}]
      BY DEF NothingLeft, TypeOK
    <3>2. CASE outcome' = outcome
      BY <3>1, <3>2
    <3>3. CASE CommitConflict(p)
      BY <3>1, <3>3 DEF CommitConflict, GiveUp
    <3>4. CASE CommitFinish(p) \/ Abort(p)
      BY <3>1, <3>4 DEF CommitFinish, Abort
    <3> QED
      BY <1>0, <1>1, <2>0, <3>2, <3>3, <3>4, OutcomeFrame
  <2>2. ASSUME NEW x \in TxId \ overtaken, x # Own(p), txLog'[x] # "committed", ~Pending(x)'
        PROVE  \A t \in Tables : ~Wrote(x, t)'
    <3>1. txLog'[x] = txLog[x]
      BY <1>0, <1>1, <2>2, ThreadEffect
    <3>2. ~Pending(x)
      <4> SUFFICES ASSUME NEW q \in Threads, tx[q] = x, pc[q] \in {"apply", "heads", "log"}
                   PROVE  FALSE
        BY DEF Pending
      <4>1. q # p
        BY <2>2 DEF Own
      <4>2. tx'[q] = tx[q] /\ pc'[q] = pc[q]
        BY <1>0, <1>1, <4>1, ThreadEffect
      <4> QED
        BY <2>2, <4>2 DEF Pending
    <3> QED
      BY <1>0, <1>1, <2>2, <3>1, <3>2, OthersWrites DEF NothingLeft
  <2>3. ASSUME NEW x \in TxId \ overtaken, x = Own(p), txLog'[x] # "committed", ~Pending(x)'
        PROVE  \A t \in Tables : ~Wrote(x, t)'
    <3>1. CASE pc[p] = "idle"
      <4>1. catalog' = catalog /\ sequence \in Nat /\ x = sequence + 1
        <5>1. catalog' = catalog
          BY <1>0, <1>1, <3>1, ThreadEffect DEF CriticalPC
        <5> QED
          BY <2>3, <3>1, <5>1 DEF Own, TypeOK
      <4>2. \A u \in Tables : ~Wrote(x, u)
        <5> SUFFICES ASSUME NEW u \in Tables, NEW v \in DOMAIN catalog[u], catalog[u][v] = x
                     PROVE  FALSE
          BY DEF Wrote
        <5>1. catalog[u][v] <= sequence
          BY <1>0 DEF WritersBegun
        <5> QED
          BY <4>1, <5>1
      <4> QED
        BY <4>1, <4>2 DEF Wrote
    <3>2. pc[p] # "idle" => x = tx[p] /\ ProgressOf(p) /\ AppliedBy(p)
      BY <1>0, <2>3 DEF Own, Progress, WritesApplied
    <3>3. CASE pc[p] \in BeginPC \cup {"check"}
      <4>1. pc[p] # "idle" /\ \A u \in Tables : ~Wrote(x, u)
        BY <3>2, <3>3 DEF AppliedBy, BeginPC
      <4>2. catalog' = catalog
        <5>1. \A t \in Tables : ~CommitApply(p, t)
          BY <3>3 DEF CommitApply, BeginPC
        <5> QED
          BY <1>1, <5>1 DEF ThreadStep, CommitStep, BeginAlloc, BeginSnapshot, BeginCapture, BeginLog, RecordRead,
             AddWrite, CommitCall, CommitLock, CommitConflict, GiveUp, CommitIOError, CommitAccept,
             CommitHead, CommitLog, CommitLatest, CommitIndex, CommitFinish, Abort, fileVars
      <4> QED
        BY <4>1, <4>2 DEF Wrote
    <3>4. CASE pc[p] \in {"apply", "heads", "log"}
      <4>1. tx'[p] = tx[p] /\ (pc'[p] \in {"apply", "heads", "log"} \/ CommitLog(p))
        BY <1>1, <2>0, <3>4 DEF ThreadStep, CommitStep, BeginAlloc, BeginSnapshot, BeginCapture, BeginLog, RecordRead,
           AddWrite, CommitCall, CommitLock, CommitConflict, CommitAccept,
           CommitApply, CommitHead, CommitLatest, CommitIndex, CommitFinish, CommitLog, Abort,
           Goto, TypeOK
      <4>2. CommitLog(p) => txLog'[x] = "committed"
        BY <2>3, <3>2, <3>4 DEF CommitLog, TypeOK
      <4> QED
        BY <2>3, <3>2, <3>4, <4>1, <4>2 DEF Pending
    <3>5. CASE pc[p] \in {"latest", "index", "finish"}
      <4>1. txLog' = txLog
        BY <1>0, <1>1, <3>5, ThreadEffect DEF BeginLog, CommitLog, Abort
      <4> QED
        BY <2>3, <3>2, <3>5, <4>1 DEF ProgressOf
    <3>6. CASE pc[p] = "failed"
      <4>1. catalog' = catalog
        BY <1>0, <1>1, <3>6, ThreadEffect DEF CriticalPC
      <4>2. outcome[x] \in Conflicts
        BY <2>3, <3>2, <3>6 DEF ProgressOf, NothingLeft
      <4>3. \A t \in Tables : ~Wrote(x, t)
        BY <1>0, <4>2 DEF AnswersAreTrue, Conflicts
      <4> QED
        BY <4>1, <4>3 DEF Wrote
    <3> QED
      BY <3>1, <3>3, <3>4, <3>5, <3>6 DEF TypeOK, PC, CriticalPC
  <2> QED
    BY <2>0, <2>1, <2>2, <2>3 DEF NothingLeft
<1>2. ASSUME NEW t \in Tables, DirectWrite(t) PROVE NothingLeft'
  <2>1. /\ NoTx \in 0..MaxTx /\ \A x \in TxId : x # NoTx
        /\ UNCHANGED <<txLog, pc, tx, outcome, overtaken>>
        /\ catalog' = [catalog EXCEPT ![t] = Append(@, NoTx)]
    BY <1>2, BoundAssumption DEF NoTx, TxId, DirectWrite, memoryVars, besideVars
  <2>2. \A x \in TxId, u \in Tables : Wrote(x, u)' <=> Wrote(x, u)
    BY <2>1, WroteAppend
  <2> QED
    BY <2>1, <2>2 DEF NothingLeft, Pending
<1>3. CASE UNCHANGED <<sequence, catalog, heads, txLog, index, pc, tx, todo, rec, outcome,
                       faults, commitLock, overtaken>>
  BY <1>3 DEF NothingLeft, Pending, Wrote
<1>4. CASE RecoverWrite
  BY <1>4, RecoverChange DEF NothingLeft, Pending, Wrote
<1> QED
  BY <1>1, <1>2, <1>3, <1>4, OtherSteps, FaultFrame DEF Calm

\* Only a transaction the manager has not ended is committed or aborted.
LEMMA EndedStays ==
  ASSUME TypeOK, CommitInv, DurableInv, [Next]_vars,
         NEW x \in TxId \ overtaken', txLog[x] \in {"committed", "aborted"},
         outcome[x] # "IoError"
  PROVE  txLog'[x] = txLog[x]
<1>0. OwnTx /\ Progress
  BY DEF CommitInv, DurableInv
<1>1. ASSUME NEW p \in Threads, ThreadStep(p) PROVE txLog'[x] = txLog[x]
  <2>0. x \notin overtaken /\ ~StillOpen(x)
    BY <1>1, ThreadFaults DEF besideVars, StillOpen
  <2>1. ASSUME BeginLog(p) \/ CommitLog(p) \/ Abort(p) PROVE txLog'[x] = txLog[x]
    <3>1. pc[p] \in {"snapped", "log", "open", "failed"}
      BY <2>1 DEF BeginLog, CommitLog, Abort
    <3>2. ProgressOf(p)
      BY <1>0, <3>1 DEF Progress
    <3>3. tx[p] # x
      BY <2>0, <3>1, <3>2 DEF ProgressOf, BeginPC
    <3> QED
      BY <2>1, <3>3 DEF BeginLog, CommitLog, Abort, TypeOK
  <2> QED
    BY <1>0, <1>1, <2>1, ThreadEffect
<1>2. ASSUME NEW r \in BOOLEAN, CrashRestart(r) PROVE txLog'[x] = txLog[x]
  BY <1>2 DEF CrashRestart, Recovered
<1>3. CASE UNCHANGED txLog
  BY <1>3
<1>4. CASE RecoverWrite
  BY <1>4, RecoverChange
<1> QED
  BY <1>1, <1>2, <1>3, <1>4, OtherSteps DEF DirectWrite

\* A status that says how a transaction ended is never rewritten: neither a
\* late abort nor the recovery of a restarted manager (recover_and_apply)
\* touches it, whatever crashes and errors there are, but for a transaction
\* whose commit answered with an I/O error and for those a recovery beside the
\* manager marked.
THEOREM OutcomesStand == Spec => OutcomeIsFinal
<1> DEFINE Inv == TypeOK /\ CommitInv /\ DurableInv
<1>1. Init => Inv
  BY TypeInit, DurableInit
<1>2. Inv /\ [Next]_vars => Inv'
  BY TypeStep, CommitInvStep, DurableInvStep
<1>3. Inv /\ [Next]_vars =>
        [\A x \in TxId \ overtaken' :
           txLog[x] \in {"committed", "aborted"} /\ outcome[x] # "IoError"
             => txLog'[x] = txLog[x]]_vars
  BY EndedStays
<1> QED
  BY <1>1, <1>2, <1>3, PTL DEF Spec, OutcomeIsFinal

-----------------------------------------------------------------------------
\* A commit is whole.

\* Between commits a transaction is in the catalog entirely or not at all.
LEMMA NothingLeftImplies ==
  ASSUME TypeOK, CommitInv, DurableInv, NothingLeft
  PROVE  AtomicCommit
<1> SUFFICES ASSUME commitLock = NoThread, NEW x \in TxId \ overtaken
             PROVE  IF txLog[x] = "committed"
                    THEN \A t \in rec[x].writes : Wrote(x, t)
                    ELSE \A t \in Tables : ~Wrote(x, t)
  BY DEF AtomicCommit
<1>1. ~Pending(x)
  <2>1. \A p \in Threads : pc[p] \notin CriticalPC
    BY ThreadAssumption DEF CommitInv, LockHeld
  <2> QED
    BY <2>1 DEF Pending, CriticalPC
<1> QED
  BY <1>1, DurableImplies DEF NothingLeft, CommittedIsDurable

-----------------------------------------------------------------------------
\* Serial order: what makes the index the order of the transactions.

\* The line of history of a branch, and the writer of what is current on it.
Line(b)   == IF UseBranches THEN b ELSE NewRecord.branch
Tip(b, t) == IF Current(b, t) = 0 THEN NoTx ELSE catalog[t][Current(b, t)]

IndexedOn(l, t) ==
  {i \in DOMAIN index : Line(rec[index[i]].branch) = l /\ t \in rec[index[i]].writes}

\* x is the last transaction in the index that wrote t on line l.
IsLast(x, l, t) ==
  \/ x = NoTx /\ IndexedOn(l, t) = {}
  \/ \E i \in IndexedOn(l, t) : index[i] = x /\ \A j \in IndexedOn(l, t) : j <= i

\* The thread has made its version of t the current one, ahead of the index.
Moved(p, b, t) ==
  /\ \/ pc[p] = (IF UseBranches THEN "heads" ELSE "apply") /\ t \notin todo[p]
     \/ pc[p] \in {"log", "latest", "index"}
  /\ Line(rec[tx[p]].branch) = Line(b)
  /\ t \in rec[tx[p]].writes

TipFollows(b, t) ==
  /\ (\A p \in Threads : ~Moved(p, b, t)) => IsLast(Tip(b, t), Line(b), t)
  /\ \A p \in Threads : Moved(p, b, t) => Tip(b, t) = tx[p]

\* What is current is by the last indexed writer, or by one about to be it.
TipsFollow == \A b \in Branches, t \in Tables : TipFollows(b, t)

\* No snapshot is ahead of its table, and none has lost sight of it.
SnapSound(x, t) ==
  /\ rec[x].snap[t] <= Len(catalog[t])
  /\ rec[x].snap[t] # 0 => Current(rec[x].branch, t) # 0
  /\ x > sequence => rec[x].snap[t] = 0

SnapsSound == \A x \in TxId, t \in Tables : SnapSound(x, t)

LatePC == {"apply", "heads", "log", "latest", "index"}

\* What an accepted transaction has read is still the last committed write.
ReadsCurrent ==
  \A p \in Threads : pc[p] \in LatePC =>
    \A t \in rec[tx[p]].covered : IsLast(Read(tx[p], t), Line(rec[tx[p]].branch), t)

SerialInv == SnapsSound /\ ReadsCurrent /\ TipsFollow

\* The record of a transaction in the index is settled.
LEMMA RecordSettled ==
  ASSUME TypeOK, CommitInv, DurableInv, [Next]_vars, NEW x \in TxId, Indexed(x)
  PROVE  rec'[x] = rec[x]
<1>0. OwnTx /\ Fresh /\ Progress /\ sequence \in Nat
  BY DEF CommitInv, DurableInv, TypeOK
<1>1. ASSUME NEW p \in Threads, ThreadStep(p) PROVE rec'[x] = rec[x]
  <2>1. CASE x # Own(p)
    BY <1>0, <1>1, <2>1, ThreadEffect
  <2>2. CASE x = Own(p) /\ pc[p] = "idle"
    BY <1>0, <2>2 DEF Own, Fresh
  <2>3. CASE x = Own(p) /\ pc[p] # "idle"
    <3>1. pc[p] \notin {"allocated", "capture", "open"}
      BY <1>0, <2>3 DEF Own, Progress, ProgressOf, BeginPC
    <3> QED
      BY <1>0, <1>1, <2>3, <3>1, ThreadEffect
  <2> QED
    BY <2>1, <2>2, <2>3
<1>2. (\E t \in Tables : DirectWrite(t)) \/ (\E r \in BOOLEAN : CrashRestart(r)) => rec' = rec
  BY DEF DirectWrite, CrashRestart
<1> QED
  BY <1>1, <1>2, OtherFrame

\* The index holds transactions.
LEMMA IndexEntry ==
  ASSUME TypeOK, NEW i \in DOMAIN index
  PROVE  index[i] \in TxId /\ Indexed(index[i]) /\ i \in Nat
  BY SeqElement DEF TypeOK, Indexed

\* The last writers change with the index only.
LEMMA LastFrame ==
  ASSUME TypeOK, CommitInv, DurableInv, [Next]_vars, index' = index
  PROVE  \A x, l, t : IsLast(x, l, t)' <=> IsLast(x, l, t)
<1>1. \A i \in DOMAIN index : rec'[index[i]] = rec[index[i]]
  BY IndexEntry, RecordSettled
<1>2. \A l, t : IndexedOn(l, t)' = IndexedOn(l, t)
  BY <1>1 DEF IndexedOn
<1> QED
  BY <1>2 DEF IsLast

\* A transaction joins the index as the last writer of what it wrote.
LEMMA LastAdd ==
  ASSUME TypeOK, NEW y \in TxId, index' = Append(index, y), rec' = rec, NEW l, NEW t
  PROVE  /\ Line(rec[y].branch) = l /\ t \in rec[y].writes => IsLast(y, l, t)'
         /\ \A x : ~(Line(rec[y].branch) = l /\ t \in rec[y].writes) /\ IsLast(x, l, t)
                      => IsLast(x, l, t)'
<1> DEFINE n == Len(index) + 1
<1>1. /\ DOMAIN index' = DOMAIN index \cup {n} /\ DOMAIN index = 1..Len(index)
      /\ index'[n] = y /\ n \in Nat
      /\ \A i \in DOMAIN index : index'[i] = index[i] /\ i <= n
  BY DEF TypeOK
<1>2. CASE Line(rec[y].branch) = l /\ t \in rec[y].writes
  <2>1. n \in IndexedOn(l, t)'
    BY <1>1, <1>2 DEF IndexedOn
  <2>2. \A j \in IndexedOn(l, t)' : j <= n
    BY <1>1 DEF IndexedOn
  <2> QED
    BY <1>1, <1>2, <2>1, <2>2 DEF IsLast
<1>3. CASE ~(Line(rec[y].branch) = l /\ t \in rec[y].writes)
  <2>1. IndexedOn(l, t)' = IndexedOn(l, t)
    BY <1>1, <1>3 DEF IndexedOn
  <2>2. \A i \in IndexedOn(l, t) : index'[i] = index[i]
    BY <1>1 DEF IndexedOn
  <2> QED
    BY <1>3, <2>1, <2>2 DEF IsLast
<1> QED
  BY <1>2, <1>3

\* What is current is a version there is, and never becomes an earlier one.
LEMMA CurrentBound ==
  ASSUME TypeOK, HeadsExist, NEW b \in Branches, NEW t \in Tables
  PROVE  Current(b, t) \in Nat /\ Current(b, t) <= Len(catalog[t])
<1>1. Len(catalog[t]) \in Nat
  BY DEF TypeOK
<1> QED
  BY <1>1, CurrentType DEF Current, HeadsExist

\* No reader sees an earlier version than a reader before it.
LEMMA CurrentForward ==
  ASSUME TypeOK, CommitInv, DurableInv, [Next]_vars, NEW b \in Branches, NEW t \in Tables
  PROVE  Current(b, t)' >= Current(b, t)
<1>1. UseBranches => heads'[b][t] >= heads[b][t]
  BY HeadsForward DEF DurableInv
<1>2. Len(catalog[t]) \in Nat /\ Len(catalog'[t]) \in Nat /\ Len(catalog[t]) <= Len(catalog'[t])
  BY Lengths
<1> QED
  BY <1>1, <1>2 DEF Current

\* How a snapshot comes to be: from what is current, in the transaction's own
\* steps only.
LEMMA SnapChange ==
  ASSUME TypeOK, CommitInv, [Next]_vars, NEW x \in TxId, NEW t \in Tables
  PROVE  /\ sequence' >= sequence
         /\ \/ rec'[x].snap[t] = rec[x].snap[t] /\ rec'[x].branch = rec[x].branch
            \/ sequence' = x /\ x > sequence /\ rec'[x].snap[t] = rec[x].snap[t]
            \/ /\ rec'[x].snap[t] = Current(rec[x].branch, t)
               /\ rec'[x].branch = rec[x].branch
               /\ x <= sequence /\ sequence' = sequence /\ UNCHANGED <<catalog, heads>>
<1>0. OwnTx /\ sequence \in Nat /\ rec \in [TxId -> Record]
  BY DEF CommitInv, TypeOK
<1> DEFINE Change ==
      \/ rec'[x].snap[t] = rec[x].snap[t] /\ rec'[x].branch = rec[x].branch
      \/ sequence' = x /\ x > sequence /\ rec'[x].snap[t] = rec[x].snap[t]
      \/ /\ rec'[x].snap[t] = Current(rec[x].branch, t)
         /\ rec'[x].branch = rec[x].branch
         /\ x <= sequence /\ sequence' = sequence /\ UNCHANGED <<catalog, heads>>
<1>1. ASSUME NEW p \in Threads, BeginAlloc(p) PROVE Change
  BY <1>0, <1>1 DEF BeginAlloc, TxId, Record
<1>2. ASSUME NEW p \in Threads, BeginSnapshot(p) PROVE Change
  <2>1. pc[p] # "idle" /\ UNCHANGED <<sequence, catalog, heads>>
    BY <1>2 DEF BeginSnapshot, fileVars
  <2>2. tx[p] \in TxId /\ tx[p] <= sequence
    BY <1>0, <2>1, TxType DEF OwnTx
  <2>3. CASE x # tx[p]
    BY <1>0, <1>2, <2>3 DEF BeginSnapshot
  <2>4. CASE x = tx[p] /\ UseBranches
    <3>1. rec'[x] = [rec[x] EXCEPT !.covered = {u \in Tables : Current(rec[x].branch, u) # 0},
                                   !.snap = [u \in Tables |-> Current(rec[x].branch, u)]]
      BY <1>0, <1>2, <2>4 DEF BeginSnapshot
    <3>2. rec[x] \in Record
      BY <1>0
    <3>3. /\ rec'[x].snap = [u \in Tables |-> Current(rec[x].branch, u)]
          /\ rec'[x].branch = rec[x].branch
      BY <3>1, <3>2 DEF Record
    <3>4. rec'[x].snap[t] = Current(rec[x].branch, t)
      BY <3>3
    <3> QED
      BY <2>1, <2>2, <2>4, <3>3, <3>4
  <2>5. CASE ~UseBranches
    BY <1>2, <2>5 DEF BeginSnapshot
  <2> QED
    BY <2>3, <2>4, <2>5
<1>3. ASSUME NEW p \in Threads, NEW u \in Tables, RecordRead(p, u) PROVE Change
  <2>1. pc[p] # "idle" /\ UNCHANGED <<sequence, catalog, heads>>
    BY <1>3 DEF RecordRead, fileVars
  <2>2. tx[p] \in TxId /\ tx[p] <= sequence
    BY <1>0, <2>1, TxType DEF OwnTx
  <2>3. CASE x # tx[p]
    BY <1>0, <1>3, <2>3 DEF RecordRead
  <2>4. CASE x = tx[p]
    <3>1. rec'[x] = [rec[x] EXCEPT !.covered = rec[x].covered \cup {u},
                                   !.snap[u] = Current(rec[x].branch, u)]
      BY <1>0, <1>3, <2>4 DEF RecordRead
    <3>2. rec[x] \in Record
      BY <1>0
    <3>3. /\ rec'[x].snap = [rec[x].snap EXCEPT ![u] = Current(rec[x].branch, u)]
          /\ rec'[x].branch = rec[x].branch
      BY <3>1, <3>2 DEF Record
    <3>4. rec'[x].snap[t] = IF t = u THEN Current(rec[x].branch, u) ELSE rec[x].snap[t]
      BY <3>2, <3>3 DEF Record
    <3> QED
      BY <2>1, <2>2, <2>4, <3>3, <3>4
  <2> QED
    BY <2>3, <2>4
<1>9. ASSUME NEW p \in Threads, NEW u \in Tables, BeginCapture(p, u) PROVE Change
  <2>1. pc[p] # "idle" /\ UNCHANGED <<sequence, catalog, heads>>
    BY <1>9 DEF BeginCapture, fileVars
  <2>2. tx[p] \in TxId /\ tx[p] <= sequence
    BY <1>0, <2>1, TxType DEF OwnTx
  <2>3. CASE x # tx[p]
    BY <1>0, <1>9, <2>3 DEF BeginCapture
  <2>4. CASE x = tx[p]
    <3>1. rec'[x] = [rec[x] EXCEPT !.covered = rec[x].covered \cup {u},
                                   !.snap[u] = Current(rec[x].branch, u)]
      BY <1>0, <1>9, <2>4 DEF BeginCapture
    <3>2. rec[x] \in Record
      BY <1>0
    <3>3. /\ rec'[x].snap = [rec[x].snap EXCEPT ![u] = Current(rec[x].branch, u)]
          /\ rec'[x].branch = rec[x].branch
      BY <3>1, <3>2 DEF Record
    <3>4. rec'[x].snap[t] = IF t = u THEN Current(rec[x].branch, u) ELSE rec[x].snap[t]
      BY <3>2, <3>3 DEF Record
    <3> QED
      BY <2>1, <2>2, <2>4, <3>3, <3>4
  <2> QED
    BY <2>3, <2>4
<1>4. ASSUME NEW p \in Threads, NEW u \in Tables, AddWrite(p, u) PROVE Change
  BY <1>0, <1>4 DEF AddWrite, Record
<1>5. ASSUME NEW p \in Threads, ThreadStep(p)
      PROVE  \/ rec' = rec
             \/ BeginAlloc(p) \/ BeginSnapshot(p)
             \/ \E u \in Tables : BeginCapture(p, u) \/ RecordRead(p, u) \/ AddWrite(p, u)
  BY <1>5 DEF ThreadStep, CommitStep, BeginLog, CommitCall, CommitLock, CommitConflict,
     CommitIOError, GiveUp, CommitAccept, CommitApply, CommitHead, CommitLog, CommitLatest,
     CommitIndex, CommitFinish, Abort
<1>6. (\E u \in Tables : DirectWrite(u)) \/ (\E r \in BOOLEAN : CrashRestart(r)) => rec' = rec
  BY DEF DirectWrite, CrashRestart
<1>7. Change
  BY <1>1, <1>2, <1>3, <1>4, <1>5, <1>6, <1>9, OtherFrame
<1>8. sequence' >= sequence
  <2>1. \A p \in Threads : ThreadStep(p) => sequence' >= sequence
    BY <1>0, ThreadEffect
  <2>2. (\E u \in Tables : DirectWrite(u)) \/ (\E r \in BOOLEAN : CrashRestart(r))
          => sequence' = sequence
    BY DEF DirectWrite, CrashRestart
  <2> QED
    BY <1>0, <2>1, <2>2, OtherFrame
<1> QED
  BY <1>7, <1>8

\* Snapshots stay sound: they are taken of what is current, which only grows.
LEMMA SnapsSoundStep ==
  ASSUME TypeOK, CommitInv, DurableInv, SnapsSound, [Next]_vars
  PROVE  SnapsSound'
<1> SUFFICES ASSUME NEW x \in TxId, NEW t \in Tables PROVE SnapSound(x, t)'
  BY DEF SnapsSound
<1>0. rec[x] \in Record /\ sequence \in Nat /\ x \in Nat /\ SnapSound(x, t) /\ HeadsExist
  <2>1. rec[x] \in Record /\ sequence \in Nat
    BY DEF TypeOK
  <2> QED
    BY <2>1 DEF SnapsSound, DurableInv, TxId
<1>1. PICK b \in Branches : b = rec[x].branch
  BY <1>0 DEF Record
<1>2. rec[x].snap[t] \in Nat /\ Current(b, t) \in Nat /\ Current(b, t) <= Len(catalog[t])
  BY <1>0, CurrentBound DEF Record
<1>a. sequence' \in Nat /\ Current(b, t)' \in Nat
  <2>1. sequence' \in Nat /\ heads'[b][t] \in Nat
    BY NextTypes
  <2> QED
    BY <2>1, Lengths DEF Current
<1>3. Current(b, t)' >= Current(b, t)
  BY CurrentForward
<1>4. Len(catalog[t]) <= Len(catalog'[t]) /\ Len(catalog[t]) \in Nat /\ Len(catalog'[t]) \in Nat
  BY Lengths
<1>5. sequence' >= sequence
  BY SnapChange
<1>6. CASE rec'[x].snap[t] = rec[x].snap[t] /\ rec'[x].branch = b
  BY <1>0, <1>1, <1>2, <1>a, <1>3, <1>4, <1>5, <1>6 DEF SnapSound
<1>7. CASE sequence' = x /\ x > sequence /\ rec'[x].snap[t] = rec[x].snap[t]
  BY <1>0, <1>1, <1>2, <1>4, <1>7 DEF SnapSound
<1>8. CASE /\ rec'[x].snap[t] = Current(b, t) /\ rec'[x].branch = b
           /\ x <= sequence /\ sequence' = sequence /\ UNCHANGED <<catalog, heads>>
  BY <1>0, <1>1, <1>2, <1>4, <1>8 DEF SnapSound, Current
<1> QED
  BY <1>1, <1>6, <1>7, <1>8, SnapChange

\* Reading again finds the same writer.
LEMMA ReadStays ==
  ASSUME TypeOK, CommitInv, [Next]_vars, NEW x \in TxId, NEW t \in Tables,
         rec'[x] = rec[x], rec[x].snap[t] <= Len(catalog[t])
  PROVE  Read(x, t)' = Read(x, t)
<1>1. rec[x].snap[t] \in Nat /\ catalog[t] \in Seq(0..MaxTx)
  BY DEF TypeOK, Record
<1>2. rec[x].snap[t] # 0 => rec[x].snap[t] \in DOMAIN catalog[t]
  BY <1>1
<1> QED
  BY <1>2, GrownStep DEF Read, Grown

\* The steps that lead to, or through, the part of commit after the checks.
LEMMA LateStep ==
  ASSUME TypeOK, CommitInv, NEW p \in Threads, ThreadStep(p), pc'[p] \in LatePC
  PROVE  /\ CommitAccept(p) \/ pc[p] \in LatePC
         /\ index' = index /\ rec' = rec /\ tx'[p] = tx[p]
  BY DEF ThreadStep, CommitStep, BeginAlloc, BeginSnapshot, BeginCapture, BeginLog, RecordRead, AddWrite,
     CommitCall, CommitLock, CommitConflict, CommitIOError, GiveUp, CommitAccept, CommitApply,
     CommitHead, CommitLog, CommitLatest, CommitIndex, CommitFinish, Abort, Goto, LatePC,
     TypeOK, fileVars, memoryVars

\* What a thread has moved, it has moved inside the critical section.
LEMMA MovedInside ==
  ASSUME CommitInv, NEW p \in Threads, NEW b, NEW t, Moved(p, b, t)
  PROVE  pc[p] \in CriticalPC /\ commitLock = p
  BY DEF Moved, CriticalPC, CommitInv, LockHeld

\* From the checks to the index nobody commits in between: what the
\* transaction read stays the last committed write.
LEMMA ReadsCurrentStep ==
  ASSUME TypeOK, CommitInv, DurableInv, SerialInv, [Next]_vars, Undisturbed'
  PROVE  ReadsCurrent'
<1> SUFFICES ASSUME NEW q \in Threads, pc'[q] \in LatePC, NEW t \in rec'[tx'[q]].covered
             PROVE  IsLast(Read(tx[q], t), Line(rec[tx[q]].branch), t)'
  BY DEF ReadsCurrent
<1>0. OwnTx /\ LockHeld /\ ReadsCurrent /\ SnapsSound /\ TipsFollow /\ HeadsExist
  BY DEF CommitInv, SerialInv, DurableInv
\* The transaction is as it was, and what it read was current before the step.
<1>1. ASSUME tx'[q] = tx[q], tx[q] \in TxId, rec'[tx[q]] = rec[tx[q]], index' = index,
             t \in Tables => IsLast(Read(tx[q], t), Line(rec[tx[q]].branch), t)
      PROVE  IsLast(Read(tx[q], t), Line(rec[tx[q]].branch), t)'
  <2>1. PICK x \in TxId : x = tx[q]
    BY <1>1
  <2>2. t \in Tables /\ rec[x].snap[t] <= Len(catalog[t])
    <3>1. rec[x] \in Record
      BY DEF TypeOK
    <3>2. t \in Tables
      BY <1>1, <2>1, <3>1 DEF Record
    <3> QED
      BY <1>0, <3>2 DEF SnapsSound, SnapSound
  <2>3. Read(x, t)' = Read(x, t)
    BY <1>1, <2>1, <2>2, ReadStays
  <2>4. PICK w, l : w = Read(x, t) /\ l = Line(rec[x].branch)
    OBVIOUS
  <2>5. IsLast(w, l, t)'
    BY <1>1, <2>1, <2>2, <2>4, LastFrame
  <2>6. Line(rec[x].branch)' = l
    BY <1>1, <2>1, <2>4 DEF Line
  <2>7. IsLast(Read(x, t), Line(rec[x].branch), t)'
    BY <2>3, <2>4, <2>5, <2>6
  <2> QED
    BY <1>1, <2>1, <2>7
<1>2. ASSUME NEW p \in Threads, ThreadStep(p)
      PROVE  IsLast(Read(tx[q], t), Line(rec[tx[q]].branch), t)'
  <2>1. CASE q # p
    <3>1. pc'[q] = pc[q] /\ tx'[q] = tx[q] /\ pc[q] \in CriticalPC
      BY <1>0, <1>2, <2>1, ThreadEffect DEF LatePC, CriticalPC
    <3>2. pc[p] \notin CriticalPC
      BY <1>0, <2>1, <3>1 DEF LockHeld
    <3>3. pc[q] # "idle"
      BY <3>1 DEF CriticalPC
    <3>4. tx[q] \in TxId \ {Own(p)}
      BY <1>0, <1>2, <2>1, <3>3, OwnApart
    <3>5. index' = index /\ rec'[tx[q]] = rec[tx[q]]
      BY <1>0, <1>2, <3>2, <3>4, ThreadEffect
    <3> QED
      BY <1>0, <1>1, <3>1, <3>4, <3>5 DEF ReadsCurrent
  <2>2. CASE q = p
    <3>1. /\ CommitAccept(p) \/ pc[p] \in LatePC
          /\ index' = index /\ rec' = rec /\ tx'[p] = tx[p]
      BY <1>2, <2>2, LateStep
    <3>2. tx[p] \in TxId
      BY <1>0, <3>1, TxType DEF CommitAccept, LatePC
    <3>3. CASE pc[p] \in LatePC
      BY <1>0, <1>1, <2>2, <3>1, <3>2, <3>3 DEF ReadsCurrent
    <3>4. CASE CommitAccept(p)
      <4> SUFFICES ASSUME t \in Tables
                   PROVE  IsLast(Read(tx[p], t), Line(rec[tx[p]].branch), t)
        BY <1>1, <2>2, <3>1, <3>2
      <4>1. PICK x \in TxId, b \in Branches : x = tx[p] /\ b = rec[x].branch
        BY <3>2 DEF TypeOK, Record
      <4>2. pc[p] = "check" /\ ~SnapshotConflict(x) /\ t \in rec[x].covered
        BY <2>2, <3>1, <3>4, <4>1 DEF CommitAccept
      <4>3. Current(b, t) = 0 \/ Current(b, t) = rec[x].snap[t]
        BY <4>1, <4>2 DEF SnapshotConflict
      <4>4. Current(b, t) = rec[x].snap[t]
        BY <1>0, <4>1, <4>3 DEF SnapsSound, SnapSound
      <4>5. Read(x, t) = Tip(b, t)
        BY <4>4 DEF Read, Tip
      <4>6. \A r \in Threads : ~Moved(r, b, t)
        <5>1. commitLock = p
          BY <1>0, <4>2 DEF LockHeld, CriticalPC
        <5> QED
          BY <4>2, <5>1, MovedInside DEF Moved
      <4>7. IsLast(Tip(b, t), Line(b), t)
        BY <1>0, <4>6 DEF TipsFollow, TipFollows
      <4> QED
        BY <4>1, <4>5, <4>7
    <3> QED
      BY <3>1, <3>3, <3>4
  <2> QED
    BY <2>1, <2>2
<1>3. ASSUME NEW u \in Tables, DirectWrite(u) PROVE FALSE
  BY <1>3, FaultFrame DEF Undisturbed
<1>4. ASSUME NEW r \in BOOLEAN, CrashRestart(r) PROVE FALSE
  BY <1>4, FaultFrame DEF Undisturbed, Calm
<1>5. CASE UNCHANGED <<sequence, catalog, heads, index, pc, tx, todo, rec, outcome, faults,
                       commitLock>>
  <2>1. pc[q] \in LatePC /\ tx[q] \in TxId
    BY <1>0, <1>5, TxType DEF LatePC
  <2> QED
    BY <1>0, <1>1, <1>5, <2>1 DEF ReadsCurrent
<1> QED
  BY <1>2, <1>3, <1>4, <1>5, OtherFrame

\* A step of one thread moves nothing for another.
LEMMA MovedFrame ==
  ASSUME TypeOK, CommitInv, NEW p \in Threads, ThreadStep(p), NEW q \in Threads \ {p},
         NEW b, NEW t
  PROVE  Moved(q, b, t)' <=> Moved(q, b, t)
<1>1. pc'[q] = pc[q] /\ tx'[q] = tx[q] /\ todo'[q] = todo[q]
  BY ThreadEffect DEF CommitInv
<1>2. CASE pc[q] = "idle"
  BY <1>1, <1>2 DEF Moved
<1>3. CASE pc[q] # "idle"
  <2>1. rec'[tx[q]] = rec[tx[q]]
    BY <1>3, OwnApart, ThreadEffect DEF CommitInv
  <2> QED
    BY <1>1, <2>1 DEF Moved, Line
<1> QED
  BY <1>2, <1>3

\* Nothing a table's tip depends on has changed.
LEMMA TipFrame ==
  ASSUME TypeOK, CommitInv, DurableInv, [Next]_vars, index' = index,
         NEW b \in Branches, NEW t \in Tables, TipFollows(b, t), Tip(b, t)' = Tip(b, t),
         \A q \in Threads : /\ Moved(q, b, t)' <=> Moved(q, b, t)
                            /\ Moved(q, b, t) => tx'[q] = tx[q]
  PROVE  TipFollows(b, t)'
<1>1. PICK w, l : w = Tip(b, t) /\ l = Line(b)
  OBVIOUS
<1>2. IsLast(w, l, t)' <=> IsLast(w, l, t)
  BY LastFrame
<1>3. Tip(b, t)' = w /\ Line(b)' = l
  BY <1>1 DEF Line
<1>4. (\A q \in Threads : ~Moved(q, b, t)') => IsLast(w, l, t)'
  BY <1>1, <1>2 DEF TipFollows
<1>5. \A q \in Threads : Moved(q, b, t)' => w = tx'[q]
  BY <1>1 DEF TipFollows
<1> QED
  BY <1>3, <1>4, <1>5 DEF TipFollows

\* The head of a branch stands on a version, and versions stay.
LEMMA TipStays ==
  ASSUME TypeOK, CommitInv, DurableInv, [Next]_vars, NEW b \in Branches, NEW t \in Tables,
         UseBranches => heads'[b][t] = heads[b][t],
         ~UseBranches => catalog'[t] = catalog[t]
  PROVE  Tip(b, t)' = Tip(b, t)
<1>1. Current(b, t)' = Current(b, t)
  BY DEF Current
<1>2. Current(b, t) # 0 => Current(b, t) \in DOMAIN catalog[t]
  <2>1. catalog[t] \in Seq(0..MaxTx)
    BY DEF TypeOK
  <2> QED
    BY <2>1, CurrentBound DEF DurableInv
<1>3. Current(b, t) # 0 => catalog'[t][Current(b, t)] = catalog[t][Current(b, t)]
  BY <1>2, GrownStep DEF Grown
<1> QED
  BY <1>1, <1>3 DEF Tip

\* One thread's step, with only that thread inside the critical section.
LEMMA TipsFollowThread ==
  ASSUME TypeOK, CommitInv, DurableInv, TipsFollow, NEW p \in Threads, ThreadStep(p), Calm'
  PROVE  TipsFollow'
<1>0. OwnTx /\ LockHeld /\ WritesApplied /\ [Next]_vars /\ ~CommitIOError(p)
  BY FaultFrame DEF CommitInv, Next, Calm
<1> SUFFICES ASSUME NEW b \in Branches, NEW t \in Tables PROVE TipFollows(b, t)'
  BY DEF TipsFollow
<1>1. TipFollows(b, t)
  BY DEF TipsFollow
<1>2. \A q \in Threads \ {p} : Moved(q, b, t)' <=> Moved(q, b, t)
  BY MovedFrame
<1>3. \A q \in Threads \ {p} : Moved(q, b, t) => tx'[q] = tx[q]
  BY <1>0, ThreadEffect
\* The frame, for the thread itself.
<1>4. ASSUME index' = index, Tip(b, t)' = Tip(b, t), Moved(p, b, t)' <=> Moved(p, b, t),
             Moved(p, b, t) => tx'[p] = tx[p]
      PROVE  TipFollows(b, t)'
  BY <1>0, <1>1, <1>2, <1>3, <1>4, TipFrame
<1>5. CASE pc[p] \notin CriticalPC
  <2>1. UNCHANGED <<catalog, heads, index>> /\ ~Moved(p, b, t)
    BY <1>0, <1>5, ThreadEffect, MovedInside
  <2>2. ~Moved(p, b, t)'
    BY <1>5 DEF ThreadStep, CommitStep, BeginAlloc, BeginSnapshot, BeginCapture, BeginLog, RecordRead, AddWrite,
     CommitCall, CommitLock, CommitConflict, CommitIOError, CommitAccept, CommitApply,
     CommitHead, CommitLog, CommitLatest, CommitIndex, CommitFinish, Abort, Goto, CriticalPC,
     Moved, TypeOK, memoryVars
  <2> QED
    BY <1>0, <1>4, <2>1, <2>2, TipStays
<1>6. ASSUME pc[p] \in CriticalPC PROVE \A q \in Threads \ {p} : ~Moved(q, b, t)
  BY <1>0, <1>6, MovedInside DEF LockHeld
<1>7. ASSUME CommitConflict(p) \/ CommitAccept(p) \/ CommitFinish(p) PROVE TipFollows(b, t)'
  <2>1. pc[p] \in {"check", "finish"} /\ UNCHANGED <<catalog, heads, index>>
    BY <1>7 DEF CommitConflict, GiveUp, CommitAccept, CommitFinish, fileVars
  <2>2. ~Moved(p, b, t)
    BY <2>1 DEF Moved
  <2>3. ~Moved(p, b, t)'
    BY <1>7 DEF CommitConflict, GiveUp, CommitAccept, CommitFinish, Goto, Moved, TypeOK
  <2> QED
    BY <1>0, <1>4, <2>1, <2>2, <2>3, TipStays
<1>8. ASSUME CommitLog(p) \/ CommitLatest(p) PROVE TipFollows(b, t)'
  <2>1. /\ pc[p] \in {"log", "latest"} /\ pc'[p] \in {"latest", "index"}
        /\ UNCHANGED <<catalog, heads, index, tx, todo, rec>>
    BY <1>8 DEF CommitLog, CommitLatest, Goto, TypeOK
  <2>2. Moved(p, b, t)' <=> Moved(p, b, t)
    BY <2>1 DEF Moved, Line
  <2> QED
    BY <1>0, <1>4, <2>1, <2>2, TipStays
<1>9. ASSUME NEW u \in Tables, CommitApply(p, u) PROVE TipFollows(b, t)'
  <2> DEFINE x == tx[p]
  <2>1. /\ pc[p] = "apply" /\ u \in todo[p] /\ UNCHANGED <<heads, index, tx, rec>>
        /\ catalog' = [catalog EXCEPT ![u] = Append(@, x)]
        /\ \/ pc'[p] = "apply" /\ todo'[p] = todo[p] \ {u}
           \/ pc'[p] = "heads" /\ UseBranches /\ todo'[p] = rec[x].writes
           \/ pc'[p] = "log" /\ ~UseBranches /\ todo[p] \ {u} = {}
    <3>1. /\ pc[p] = "apply" /\ u \in todo[p] /\ UNCHANGED <<heads, index, tx, rec>>
          /\ catalog' = [catalog EXCEPT ![u] = Append(@, x)]
      BY <1>9 DEF CommitApply
    <3>2. /\ DOMAIN pc = Threads /\ DOMAIN todo = Threads
          /\ pc = [q \in Threads |-> pc[q]] /\ todo = [q \in Threads |-> todo[q]]
      BY DEF TypeOK
    <3>3. CASE todo[p] \ {u} # {}
      BY <1>9, <3>1, <3>2, <3>3 DEF CommitApply
    <3>4. CASE todo[p] \ {u} = {}
      BY <1>9, <3>1, <3>2, <3>4, BranchAssumption DEF CommitApply, Goto
    <3> QED
      BY <3>1, <3>3, <3>4
  <2>2. x \in 0..MaxTx /\ x # NoTx /\ todo[p] \subseteq rec[x].writes
    <3>1. x \in TxId
      BY <1>0, <2>1, TxType
    <3>2. todo[p] \subseteq rec[x].writes
      BY <1>0, <2>1 DEF WritesApplied, AppliedBy
    <3> QED
      BY <3>1, <3>2, BoundAssumption DEF TxId, NoTx
  <2>3. CASE UseBranches
    <3>1. ~Moved(p, b, t) /\ ~Moved(p, b, t)'
      BY <2>1, <2>3 DEF Moved
    <3> QED
      BY <1>0, <1>4, <2>1, <2>3, <3>1, TipStays
  <2>4. CASE ~UseBranches /\ u # t
    <3>1. Moved(p, b, t)' <=> Moved(p, b, t)
      BY <2>1, <2>4 DEF Moved, Line
    <3>2. catalog'[t] = catalog[t]
      BY <2>1, <2>4 DEF TypeOK
    <3> QED
      BY <1>0, <1>4, <2>1, <2>4, <3>1, <3>2, TipStays
  <2>5. CASE ~UseBranches /\ u = t
    <3>1. Moved(p, b, t)'
      BY <2>1, <2>2, <2>5 DEF Moved, Line
    <3>2. Tip(b, t)' = x
      <4>1. Len(catalog'[t]) = Len(catalog[t]) + 1 /\ Len(catalog[t]) \in Nat
            /\ catalog'[t][Len(catalog[t]) + 1] = x
        <5>1. PICK y \in 0..MaxTx : y = x
          BY <2>2
        <5>2. catalog' = [catalog EXCEPT ![t] = Append(@, y)]
          BY <2>1, <2>5, <5>1
        <5>3. Len(catalog'[t]) = Len(catalog[t]) + 1 /\ Len(catalog[t]) \in Nat
              /\ catalog'[t][Len(catalog[t]) + 1] = y
          BY <5>2, AppendOne
        <5> QED
          BY <5>1, <5>3
      <4> QED
        BY <2>5, <4>1 DEF Tip, Current
    <3>3. \A q \in Threads : Moved(q, b, t)' => q = p
      BY <1>2, <1>6, <2>1 DEF CriticalPC
    <3>4. tx'[p] = x
      BY <2>1
    <3> QED
      BY <3>1, <3>2, <3>3, <3>4 DEF TipFollows
  <2> QED
    BY <2>3, <2>4, <2>5
<1>10. ASSUME NEW u \in Tables, CommitHead(p, u) PROVE TipFollows(b, t)'
  <2> DEFINE x == tx[p]
  <2>1. /\ pc[p] = "heads" /\ u \in todo[p] /\ UNCHANGED <<catalog, index, tx, rec>>
        /\ todo'[p] = todo[p] \ {u}
        /\ \/ pc'[p] = "heads"
           \/ pc'[p] = "log" /\ todo[p] \ {u} = {}
    BY <1>10 DEF CommitHead, Goto, TypeOK
  <2>2. /\ UseBranches /\ x \in TxId /\ rec[x] \in Record
        /\ Len(catalog[u]) \in DOMAIN catalog[u] /\ catalog[u][Len(catalog[u])] = x
        /\ heads' = [heads EXCEPT ![rec[x].branch][u] = Len(catalog[u])]
        /\ todo[p] \subseteq rec[x].writes
    BY <1>0, <1>10, <2>1, HeadMoves DEF DurableInv, WritesApplied, AppliedBy
  <2>3. CASE u # t \/ b # rec[x].branch
    <3>1. Moved(p, b, t)' <=> Moved(p, b, t)
      BY <2>1, <2>2, <2>3 DEF Moved, Line
    <3>2. heads'[b][t] = heads[b][t]
      BY <2>2, <2>3 DEF TypeOK
    <3> QED
      BY <1>0, <1>4, <2>1, <2>2, <3>1, <3>2, TipStays
  <2>4. CASE u = t /\ b = rec[x].branch
    <3>1. Moved(p, b, t)'
      BY <2>1, <2>2, <2>4 DEF Moved, Line
    <3>2. Tip(b, t)' = x
      <4>1. heads'[b][t] = Len(catalog[t])
        BY <2>2, <2>4 DEF TypeOK
      <4>2. Len(catalog[t]) # 0
        <5>1. catalog[t] \in Seq(0..MaxTx)
          BY DEF TypeOK
        <5> QED
          BY <2>2, <2>4, <5>1
      <4> QED
        BY <2>1, <2>2, <2>4, <4>1, <4>2 DEF Tip, Current
    <3>3. \A q \in Threads : Moved(q, b, t)' => q = p
      BY <1>2, <1>6, <2>1 DEF CriticalPC
    <3>4. tx'[p] = x
      BY <2>1
    <3> QED
      BY <3>1, <3>2, <3>3, <3>4 DEF TipFollows
  <2> QED
    BY <2>3, <2>4
<1>11. ASSUME CommitIndex(p) PROVE TipFollows(b, t)'
  <2>1. /\ pc[p] = "index" /\ pc'[p] = "finish" /\ UNCHANGED <<catalog, heads, tx, todo, rec>>
        /\ index' = Append(index, tx[p])
    BY <1>11 DEF CommitIndex, Goto, TypeOK
  <2>2. PICK x \in TxId : x = tx[p]
    BY <1>0, <2>1, TxType
  <2>3. \A q \in Threads : ~Moved(q, b, t)'
    BY <1>2, <1>6, <2>1 DEF Moved, CriticalPC
  <2>4. PICK w, l : w = Tip(b, t) /\ l = Line(b)
    OBVIOUS
  <2>5. Tip(b, t)' = w /\ Line(b)' = l
    BY <2>1, <2>4 DEF Tip, Current, Line
  <2>6. IsLast(w, l, t)'
    <3>1. CASE Line(rec[x].branch) = l /\ t \in rec[x].writes
      <4>1. Moved(p, b, t)
        BY <2>1, <2>2, <2>4, <3>1 DEF Moved
      <4>2. w = x
        BY <1>1, <2>2, <2>4, <4>1 DEF TipFollows
      <4> QED
        BY <2>1, <2>2, <3>1, <4>2, LastAdd
    <3>2. CASE ~(Line(rec[x].branch) = l /\ t \in rec[x].writes)
      <4>1. \A q \in Threads : ~Moved(q, b, t)
        BY <1>6, <2>1, <2>2, <2>4, <3>2 DEF Moved, CriticalPC
      <4>2. IsLast(w, l, t)
        BY <1>1, <2>4, <4>1 DEF TipFollows
      <4> QED
        BY <2>1, <2>2, <3>2, <4>2, LastAdd
    <3> QED
      BY <3>1, <3>2
  <2> QED
    BY <2>3, <2>5, <2>6 DEF TipFollows
<1>12. pc[p] \in CriticalPC => CommitStep(p)
  BY DEF ThreadStep, BeginAlloc, BeginSnapshot, BeginCapture, BeginLog, RecordRead, AddWrite, CommitCall,
     CommitLock, Abort, CriticalPC
<1> QED
  BY <1>0, <1>5, <1>7, <1>8, <1>9, <1>10, <1>11, <1>12 DEF CommitStep

\* What is current follows the index, over every step.
LEMMA TipsFollowStep ==
  ASSUME TypeOK, CommitInv, DurableInv, TipsFollow, [Next]_vars, Undisturbed'
  PROVE  TipsFollow'
<1>1. ASSUME NEW p \in Threads, ThreadStep(p) PROVE TipsFollow'
  BY <1>1, TipsFollowThread DEF Undisturbed
<1>2. ASSUME NEW u \in Tables, DirectWrite(u) PROVE FALSE
  BY <1>2, FaultFrame DEF Undisturbed
<1>3. ASSUME NEW r \in BOOLEAN, CrashRestart(r) PROVE FALSE
  BY <1>3, FaultFrame DEF Undisturbed, Calm
<1>4. CASE UNCHANGED <<sequence, catalog, heads, index, pc, tx, todo, rec, outcome, faults,
                       commitLock>>
  <2> SUFFICES ASSUME NEW b \in Branches, NEW t \in Tables PROVE TipFollows(b, t)'
    BY DEF TipsFollow
  <2>1. \A q \in Threads : Moved(q, b, t)' <=> Moved(q, b, t)
    BY <1>4 DEF Moved, Line
  <2>2. Tip(b, t)' = Tip(b, t)
    BY <1>4 DEF Tip, Current
  <2> QED
    BY <1>4, <2>1, <2>2, TipFrame DEF TipsFollow
<1> QED
  BY <1>1, <1>2, <1>3, <1>4, OtherFrame

\* The inductive invariant: durability whatever happens, whole commits as long
\* as no crash or I/O error does, serial order as long as all writes go
\* through the manager as well.
WholeInv ==
  /\ TypeOK
  /\ CommitInv
  /\ DurableInv
  /\ Calm => NothingLeft
  /\ Undisturbed => SerialInv

\* The inductive invariant holds initially.
LEMMA WholeInit == Init => WholeInv
<1> SUFFICES ASSUME Init PROVE WholeInv
  OBVIOUS
<1>1. TypeOK /\ CommitInv /\ DurableInv
  BY TypeInit, DurableInit
<1>2. NothingLeft
  BY BoundAssumption DEF Init, NothingLeft, Wrote, NoTx, TxId
<1>3. SnapsSound
  <2>1. \A t \in Tables : Len(catalog[t]) \in Nat
    BY <1>1 DEF TypeOK
  <2> QED
    BY <2>1 DEF Init, SnapsSound, SnapSound, NewRecord
<1>4. ReadsCurrent
  BY DEF Init, ReadsCurrent, LatePC
<1>5. TipsFollow
  <2> SUFFICES ASSUME NEW b \in Branches, NEW t \in Tables PROVE TipFollows(b, t)
    BY DEF TipsFollow
  <2>1. IndexedOn(Line(b), t) = {}
    BY DEF Init, IndexedOn
  <2>2. Tip(b, t) = NoTx
    <3>1. Current(b, t) = Len(catalog[t]) /\ catalog[t] \in {<< >>, <<NoTx>>}
      BY DEF Init, Current
    <3> QED
      BY <3>1 DEF Tip
  <2>3. \A p \in Threads : ~Moved(p, b, t)
    BY DEF Init, Moved
  <2> QED
    BY <2>1, <2>2, <2>3 DEF TipFollows, IsLast
<1> QED
  BY <1>1, <1>2, <1>3, <1>4, <1>5 DEF WholeInv, SerialInv

\* The inductive invariant is inductive.
LEMMA WholeStep == WholeInv /\ [Next]_vars => WholeInv'
<1> SUFFICES ASSUME WholeInv, [Next]_vars PROVE WholeInv'
  OBVIOUS
<1>0. TypeOK /\ CommitInv /\ DurableInv
  BY DEF WholeInv
<1>1. (TypeOK /\ CommitInv /\ DurableInv)'
  BY <1>0, TypeStep, CommitInvStep, DurableInvStep
<1>2. Calm' => NothingLeft'
  <2>1. Calm' => Calm
    BY <1>0, FaultFrame DEF Calm
  <2> QED
    BY <1>0, <2>1, NothingLeftStep DEF WholeInv
<1>3. Undisturbed' => SerialInv'
  <2> SUFFICES ASSUME Undisturbed' PROVE SerialInv'
    OBVIOUS
  <2>1. SerialInv
    <3>1. Undisturbed
      BY <1>0, FaultFrame DEF Undisturbed, Calm
    <3> QED
      BY <3>1 DEF WholeInv
  <2> QED
    BY <1>0, <2>1, SnapsSoundStep, ReadsCurrentStep, TipsFollowStep DEF SerialInv
<1> QED
  BY <1>1, <1>2, <1>3 DEF WholeInv

\* The inductive invariant holds in every reachable state, for any number of
\* threads, tables, branches and faults.
THEOREM WholeCorrect == Spec => []WholeInv
  BY WholeInit, WholeStep, PTL DEF Spec

\* The last writer is unique: CHOOSE finds it.
LEMMA LastIsChosen ==
  ASSUME TypeOK, NEW x, NEW l, NEW t, IsLast(x, l, t), NEW W, W = IndexedOn(l, t)
  PROVE  x = IF W = {} THEN NoTx ELSE index[CHOOSE i \in W : \A j \in W : j <= i]
<1>0. W \subseteq Nat
  BY IndexEntry DEF IndexedOn
<1>1. CASE W = {}
  BY <1>1 DEF IsLast
<1>2. CASE W # {}
  <2>1. PICK i \in W : index[i] = x /\ \A j \in W : j <= i
    BY <1>2 DEF IsLast
  <2>2. \A k \in W : (\A j \in W : j <= k) => k = i
    BY <1>0, <2>1
  <2>3. (CHOOSE k \in W : \A j \in W : j <= k) = i
    BY <2>1, <2>2
  <2>4. (IF W = {} THEN NoTx ELSE index[CHOOSE k \in W : \A j \in W : j <= k])
          = index[CHOOSE k \in W : \A j \in W : j <= k]
    BY <1>2, Zenon
  <2>5. index[CHOOSE k \in W : \A j \in W : j <= k] = index[i]
    BY <2>3, Zenon
  <2> QED
    BY <2>1, <2>4, <2>5, Zenon
<1> QED
  BY <1>1, <1>2

\* With the lock free no version is ahead of the index, so the heads are at
\* the last indexed writers.
LEMMA HeadsImplied ==
  ASSUME TypeOK, CommitInv, DurableInv, SerialInv
  PROVE  HeadsFollowCommits
<1> SUFFICES ASSUME UseBranches, commitLock = NoThread, NEW b \in Branches, NEW t \in Tables
             PROVE  LET x == LastOnBranch(b, t)
                    IN  IF x = NoTx THEN heads[b][t] = 0 \/ catalog[t][heads[b][t]] = NoTx
                        ELSE heads[b][t] = VersionOf(x, t)
  BY DEF HeadsFollowCommits
<1>1. \A p \in Threads : ~Moved(p, b, t)
  BY ThreadAssumption, MovedInside
<1>2. IsLast(Tip(b, t), b, t)
  BY <1>1 DEF SerialInv, TipsFollow, TipFollows, Line
<1>3. LastOnBranch(b, t) = Tip(b, t)
  <2>1. IndexedOn(b, t) = {i \in DOMAIN index : rec[index[i]].branch = b
                                                 /\ t \in rec[index[i]].writes}
    BY DEF IndexedOn, Line
  <2> QED
    BY <1>2, <2>1, LastIsChosen DEF LastOnBranch
<1>4. CASE Tip(b, t) = NoTx
  BY <1>3, <1>4 DEF Tip, Current
<1>5. CASE Tip(b, t) # NoTx
  <2>1. heads[b][t] # 0 /\ catalog[t][heads[b][t]] = Tip(b, t)
    BY <1>5 DEF Tip, Current
  <2>2. heads[b][t] \in DOMAIN catalog[t]
    <3>1. heads[b][t] \in Nat /\ catalog[t] \in Seq(0..MaxTx) /\ heads[b][t] <= Len(catalog[t])
      BY DEF TypeOK, DurableInv, HeadsExist
    <3> QED
      BY <2>1, <3>1
  <2>3. /\ VersionOf(Tip(b, t), t) \in DOMAIN catalog[t]
        /\ catalog[t][VersionOf(Tip(b, t), t)] = Tip(b, t)
    BY <2>1, <2>2 DEF VersionOf
  <2>4. VersionOf(Tip(b, t), t) = heads[b][t]
    BY <1>5, <2>1, <2>2, <2>3 DEF DurableInv, OneVersion
  <2> QED
    BY <1>3, <1>5, <2>4
<1> QED
  BY <1>4, <1>5

\* Commits are whole and the heads of the branches say so, until a crash or an
\* I/O error cuts a commit short (commit, under commit_lock).
THEOREM CommitsStayWhole == Spec => []CommitsAreWhole
<1>1. WholeInv => CommitsAreWhole
  <2>0. WholeInv => TypeOK
    BY DEF WholeInv
  <2> SUFFICES ASSUME WholeInv, Calm PROVE AtomicCommit /\ HeadsFollowCommits
    BY <2>0 DEF CommitsAreWhole
  <2>1. TypeOK /\ CommitInv /\ DurableInv /\ NothingLeft
    BY DEF WholeInv
  <2>2. AtomicCommit
    BY <2>1, NothingLeftImplies
  <2>3. HeadsFollowCommits
    <3>1. UseBranches => Undisturbed
      BY <2>1 DEF DurableInv, HeadsExist, Undisturbed
    <3>2. UseBranches => HeadsFollowCommits
      BY <2>1, <3>1, HeadsImplied DEF WholeInv
    <3> QED
      BY <3>2 DEF HeadsFollowCommits
  <2> QED
    BY <2>2, <2>3
<1> QED
  BY <1>1, WholeCorrect, PTL

-----------------------------------------------------------------------------
\* The committed transactions form a serial history.

\* An entry of the history, for a transaction of the index.
Entry(x) == [id     |-> x,
             line   |-> Line(rec[x].branch),
             reads  |-> [t \in rec[x].covered |-> Read(x, t)],
             writes |-> rec[x].writes]

\* The history has one entry for each transaction of the index.
LEMMA HistoryEntries ==
  /\ DOMAIN CommittedHistory = DOMAIN index
  /\ \A i \in DOMAIN index : CommittedHistory[i] = Entry(index[i])
  BY DEF CommittedHistory, Entry, Line

\* The same after a step.
LEMMA NextEntries ==
  ASSUME NEW i \in DOMAIN index', NEW y, y = index'[i]
  PROVE  CommittedHistory'[i] = Entry(y)'
<1>1. CommittedHistory'[i] = [id     |-> y,
                              line   |-> Line(rec[y].branch)',
                              reads  |-> [t \in rec'[y].covered |-> Read(y, t)'],
                              writes |-> rec'[y].writes]
  BY DEF CommittedHistory, Line
<1> QED
  BY <1>1 DEF Entry

\* The last writer of the index is the last writer of the history.
LEMMA HistoryWriters ==
  ASSUME TypeOK, NEW x, NEW l, NEW t, IsLast(x, l, t)
  PROVE  Serial!LastWriter(CommittedHistory, l, t) = x
<1>1. PICK W : W = IndexedOn(l, t)
  OBVIOUS
<1>2. Serial!Writers(CommittedHistory, l, t) = W
  BY <1>1, HistoryEntries DEF Serial!Writers, IndexedOn, Entry
<1>3. \A i \in W : CommittedHistory[i].id = index[i]
  BY <1>1, HistoryEntries DEF IndexedOn, Entry
<1>4. W # {} => (CHOOSE i \in W : \A j \in W : j <= i) \in W
  <2> SUFFICES ASSUME W # {} PROVE (CHOOSE i \in W : \A j \in W : j <= i) \in W
    OBVIOUS
  <2>1. PICK i \in W : \A j \in W : j <= i
    BY <1>1 DEF IsLast
  <2> QED
    BY <2>1
<1>5. x = IF W = {} THEN NoTx ELSE index[CHOOSE i \in W : \A j \in W : j <= i]
  BY <1>1, LastIsChosen
<1> QED
  BY <1>2, <1>3, <1>4, <1>5 DEF Serial!LastWriter, Serial!NoWriter, NoTx

\* What is in the index is not rewritten.
LEMMA EntryStays ==
  ASSUME TypeOK, CommitInv, DurableInv, SnapsSound, [Next]_vars, NEW x \in TxId, Indexed(x)
  PROVE  Entry(x)' = Entry(x)
<1>1. rec'[x] = rec[x] /\ rec[x] \in Record
  BY RecordSettled DEF TypeOK
<1>2. \A t \in rec[x].covered : Read(x, t)' = Read(x, t)
  <2> SUFFICES ASSUME NEW t \in rec[x].covered PROVE Read(x, t)' = Read(x, t)
    OBVIOUS
  <2>1. t \in Tables
    BY <1>1 DEF Record
  <2>2. rec[x].snap[t] <= Len(catalog[t])
    BY <2>1 DEF SnapsSound, SnapSound
  <2> QED
    BY <1>1, <2>1, <2>2, ReadStays
<1>3. [t \in rec[x].covered |-> Read(x, t)]' = [t \in rec[x].covered |-> Read(x, t)]
  BY <1>1, <1>2
<1> QED
  BY <1>1, <1>3 DEF Entry, Line

\* A step that leaves the index alone leaves the history alone.
LEMMA HistoryStays ==
  ASSUME TypeOK, CommitInv, DurableInv, SnapsSound, [Next]_vars, index' = index
  PROVE  CommittedHistory' = CommittedHistory
<1>1. \A i \in DOMAIN index : Entry(index[i])' = Entry(index[i])
  <2> SUFFICES ASSUME NEW i \in DOMAIN index PROVE Entry(index[i])' = Entry(index[i])
    OBVIOUS
  <2>1. PICK x \in TxId : x = index[i] /\ Indexed(x)
    BY IndexEntry
  <2>2. Entry(x)' = Entry(x)
    BY <2>1, EntryStays
  <2> QED
    BY <2>1, <2>2 DEF Entry, Line, Read
<1>2. CommittedHistory = [i \in DOMAIN index |-> Entry(index[i])]
  BY DEF CommittedHistory, Entry, Line
<1>3. CommittedHistory' = [i \in DOMAIN index |-> Entry(index[i])']
  BY DEF CommittedHistory, Entry, Line
<1> QED
  BY <1>1, <1>2, <1>3

\* Committing appends one entry to the history.
LEMMA HistoryGrows ==
  ASSUME TypeOK, CommitInv, DurableInv, SnapsSound, [Next]_vars,
         NEW x \in TxId, index' = Append(index, x), rec' = rec, NEW e, e = Entry(x)'
  PROVE  CommittedHistory' = Append(CommittedHistory, e)
<1> DEFINE n == Len(index)
           h == CommittedHistory
           S == {CommittedHistory[i] : i \in DOMAIN index} \cup {e}
<1>1. /\ n \in Nat /\ DOMAIN index = 1..n /\ DOMAIN index' = 1..(n + 1) /\ index'[n + 1] = x
      /\ \A i \in 1..n : index'[i] = index[i]
  BY DEF TypeOK
<1>2. DOMAIN h = 1..n /\ DOMAIN h' = 1..(n + 1)
  BY <1>1, HistoryEntries DEF CommittedHistory
<1>3. \A i \in 1..n : h'[i] = h[i]
  <2> SUFFICES ASSUME NEW i \in 1..n PROVE h'[i] = h[i]
    OBVIOUS
  <2>1. PICK y \in TxId : y = index[i] /\ y = index'[i] /\ Indexed(y)
    BY <1>1, IndexEntry
  <2>2. h[i] = Entry(y)
    BY <1>1, <2>1, HistoryEntries
  <2>3. h'[i] = Entry(y)'
    BY <1>1, <2>1, NextEntries
  <2> QED
    BY <2>1, <2>2, <2>3, EntryStays
<1>4. h'[n + 1] = e
  <2>1. PICK k : k = n + 1 /\ k \in DOMAIN index' /\ index'[k] = x
    BY <1>1
  <2>2. h'[k] = Entry(x)'
    BY <2>1, NextEntries
  <2> QED
    BY <2>1, <2>2
<1>5. h = [i \in 1..n |-> h[i]] /\ h' = [i \in 1..(n + 1) |-> h'[i]]
  BY <1>1 DEF CommittedHistory
<1> HIDE DEF h, n
<1>6. h \in Seq(S) /\ Len(h) = n
  <2>1. h \in [1..n -> S]
    BY <1>1, <1>2, <1>5 DEF h
  <2> QED
    BY <1>1, <2>1, SeqDef
<1>7. h' \in Seq(S) /\ Len(h') = n + 1
  <2>1. h' \in [1..(n + 1) -> S]
    BY <1>1, <1>2, <1>3, <1>4, <1>5 DEF h
  <2> QED
    BY <1>1, <2>1, SeqDef
<1>8. /\ Append(h, e) \in Seq(S) /\ Len(Append(h, e)) = n + 1
      /\ \A i \in 1..n : Append(h, e)[i] = h[i]
      /\ Append(h, e)[n + 1] = e
  BY <1>1, <1>6
<1>9. \A i \in 1..(n + 1) : h'[i] = Append(h, e)[i]
  BY <1>1, <1>3, <1>4, <1>8
<1>10. h' = Append(h, e)
  BY <1>7, <1>8, <1>9, SeqEqual
<1> QED
  BY <1>10 DEF h

\* A commit joins the history when it joins the index; no other step does.
LEMMA HistoryStep ==
  ASSUME WholeInv, Undisturbed, Undisturbed', [Next]_vars
  PROVE  [Serial!SerialNext]_CommittedHistory
<1>0. TypeOK /\ CommitInv /\ DurableInv /\ SerialInv /\ SnapsSound /\ OwnTx
  BY DEF WholeInv, CommitInv, SerialInv
<1>1. CASE index' = index
  BY <1>0, <1>1, HistoryStays
<1>2. ASSUME NEW p \in Threads, CommitIndex(p) PROVE Serial!SerialNext
  <2>1. /\ pc[p] = "index" /\ UNCHANGED <<catalog, rec>>
        /\ index' = Append(index, tx[p])
    BY <1>2 DEF CommitIndex
  <2>2. PICK x \in TxId : x = tx[p]
    BY <1>0, <2>1, TxType
  <2>3. rec[x] \in Record /\ ~Indexed(x)
    BY <1>0, <2>1, <2>2 DEF TypeOK, DurableInv, Progress, ProgressOf, CriticalPC
  <2>4. PICK l, R, W : l = Line(rec[x].branch) /\ R = rec[x].covered /\ W = rec[x].writes
    OBVIOUS
  <2>5. l \in Branches /\ R \in SUBSET Tables /\ W \in SUBSET Tables
    BY <2>3, <2>4, NewRecordType DEF Line, Record
  <2>6. \A t \in R : Serial!LastWriter(CommittedHistory, l, t) = Read(x, t)
    <3> SUFFICES ASSUME NEW t \in R PROVE Serial!LastWriter(CommittedHistory, l, t) = Read(x, t)
      OBVIOUS
    <3>1. IsLast(Read(x, t), l, t)
      BY <1>0, <2>1, <2>2, <2>4 DEF SerialInv, ReadsCurrent, LatePC
    <3> QED
      BY <1>0, <3>1, HistoryWriters
  <2>7. Entry(x)' = [id     |-> x,
                     line   |-> l,
                     reads  |-> [t \in R |-> Serial!LastWriter(CommittedHistory, l, t)],
                     writes |-> W]
    <3>1. Entry(x)' = Entry(x)
      BY <2>1 DEF Entry, Line, Read
    <3>2. [t \in rec[x].covered |-> Read(x, t)]
            = [t \in R |-> Serial!LastWriter(CommittedHistory, l, t)]
      BY <2>4, <2>6
    <3> QED
      BY <2>4, <3>1, <3>2 DEF Entry
  <2>8. CommittedHistory' =
          Append(CommittedHistory,
                 [id     |-> x,
                  line   |-> l,
                  reads  |-> [t \in R |-> Serial!LastWriter(CommittedHistory, l, t)],
                  writes |-> W])
    BY <1>0, <2>1, <2>2, <2>7, HistoryGrows
  <2>9. \A i \in DOMAIN CommittedHistory : CommittedHistory[i].id # x
    BY <2>3, HistoryEntries DEF Entry, Indexed
  <2>10. Serial!SerialCommit(x, l, R, W)
    BY <2>8, <2>9 DEF Serial!SerialCommit
  <2> QED
    BY <2>5, <2>10 DEF Serial!SerialNext, TxId
<1>3. ASSUME NEW p \in Threads, ThreadStep(p) PROVE index' = index \/ CommitIndex(p)
  BY <1>3 DEF ThreadStep, CommitStep, BeginAlloc, BeginSnapshot, BeginCapture, BeginLog, RecordRead, AddWrite,
     CommitCall, CommitLock, CommitConflict, CommitIOError, GiveUp, CommitAccept, CommitApply,
     CommitHead, CommitLog, CommitLatest, CommitFinish, Abort, fileVars
<1>4. (\E u \in Tables : DirectWrite(u)) \/ (\E r \in BOOLEAN : CrashRestart(r)) => index' = index
  BY DEF DirectWrite, CrashRestart
<1> QED
  BY <1>1, <1>2, <1>3, <1>4, OtherFrame

\* The manager implements the serial store: as long as no commit is cut short
\* by a crash or an I/O error and no write has gone around the manager, every
\* transaction in the index has read, of every table of its snapshot, the last
\* write committed before it on its branch (validate_snapshot and the writes
\* of commit, all under commit_lock).
THEOREM CommitsAreSerial == Spec => ImplementsSerialStore
<1>1. Init => Serial!SerialInit
  <2> SUFFICES ASSUME Init PROVE CommittedHistory = << >>
    BY DEF Serial!SerialInit
  <2>1. DOMAIN index = {}
    BY DEF Init
  <2> QED
    BY <2>1 DEF CommittedHistory
<1>2. WholeInv /\ [Next]_vars => [Undisturbed' => Serial!SerialNext]_CommittedHistory
  <2> SUFFICES ASSUME WholeInv, [Next]_vars, Undisturbed'
               PROVE  [Serial!SerialNext]_CommittedHistory
    OBVIOUS
  <2>1. TypeOK
    BY DEF WholeInv
  <2>2. Undisturbed
    BY <2>1, FaultFrame DEF Undisturbed, Calm
  <2> QED
    BY <2>2, HistoryStep
<1> QED
  BY <1>1, <1>2, WholeCorrect, PTL DEF Spec, ImplementsSerialStore
=============================================================================
