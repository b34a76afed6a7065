-------------------------- MODULE FileCatalog_proofs --------------------------
(***************************************************************************)
(* The files of a table are an append-only log of versions, for any number *)
(* of processes, calls, crashes and deletions.  The invariant CatalogInv   *)
(* is inductive: one lemma per conjunct, with one step per action.         *)
(***************************************************************************)
EXTENDS FileCatalog, TLAPS

-----------------------------------------------------------------------------
\* The recovery of p touches the intents, and nothing a commit relies on.
LEMMA RecoveryLeaves ==
  ASSUME TypeOK, NEW p \in Procs, RecoveryStep(p)
  PROVE  /\ UNCHANGED <<files, latest, lock, call, next, calls, want, asked, answer, deleted>>
         /\ \A q \in Procs : \/ pc'[q] = pc[q]
                             \/ pc[q] \in {"idle", "recovering"}
                                /\ pc'[q] \in {"idle", "recovering"}
<1>1. CASE BeginRecovery(p) \/ EndRecovery(p)
  BY <1>1 DEF TypeOK, BeginRecovery, EndRecovery, Goto, disk, ghosts
<1>2. CASE \E i \in CallId : RecoverIntent(p, i) \/ SkipIntent(p, i)
  BY <1>2 DEF RecoverIntent, SkipIntent
<1> QED
  BY <1>1, <1>2 DEF RecoveryStep

\* The types are kept by every step.
LEMMA TypeStep ==
  ASSUME CatalogInv, [Next]_vars
  PROVE  TypeOK'
<1>0. TypeOK /\ CallsOwn /\ Placed
  BY DEF CatalogInv
<1>1. ASSUME NEW p \in Procs, NEW c \in Payloads, CommitNext(p, c) PROVE TypeOK'
  <2>1. calls + 1 \in CallId /\ calls' \in 0..MaxCommits
    BY <1>0, <1>1, CatalogAssumption DEF TypeOK, CallId, CommitNext, Begin
  <2>2. want' \in [CallId -> Payloads \cup {NoPayload}] /\ asked' \in [CallId -> 0..MaxCommits]
    BY <1>0, <1>1, <2>1, CatalogAssumption DEF TypeOK, CommitNext, Begin
  <2>3. call' \in [Procs -> 0..MaxCommits] /\ pc' \in [Procs -> PC] /\ intents' \subseteq CallId
    BY <1>0, <1>1, <2>1 DEF TypeOK, PC, CallId, CommitNext, Begin, Goto
  <2>4. UNCHANGED <<files, latest, lock, next, scan, found, answer, reported, lost, deleted,
                    faults>>
    BY <1>1 DEF CommitNext, Begin, recovery
  <2> QED
    BY <1>0, <2>1, <2>2, <2>3, <2>4 DEF TypeOK
<1>2. ASSUME NEW p \in Procs, NEW c \in Payloads, NEW v \in Version, CommitVersion(p, c, v)
      PROVE  TypeOK'
  <2>1. asked' \in [CallId -> 0..MaxCommits]
    BY <1>0, <1>2, CatalogAssumption DEF TypeOK, Version, CallId,
       CommitVersion, Begin
  <2>2. want' \in [CallId -> Payloads \cup {NoPayload}] /\ calls' \in 0..MaxCommits
    BY <1>0, <1>2, CatalogAssumption DEF TypeOK, CallId, CommitVersion, Begin
  <2>3. call' \in [Procs -> 0..MaxCommits] /\ pc' \in [Procs -> PC]
    BY <1>0, <1>2, CatalogAssumption DEF TypeOK, PC, CommitVersion, Begin, Goto
  <2>4. UNCHANGED <<files, latest, intents, lock, next, scan, found, answer, reported, lost,
                    deleted, faults>>
    BY <1>2 DEF CommitVersion, Begin, recovery
  <2> QED
    BY <1>0, <2>1, <2>2, <2>3, <2>4 DEF TypeOK
<1>3. ASSUME NEW p \in Procs, Acquire(p) PROVE TypeOK'
  BY <1>0, <1>3, CatalogAssumption DEF TypeOK, PC, Locked, CallId, Version,
     CallsOwn, Committing, Placed, PlacedFor, Acquire, Goto, recovery, ghosts
<1>4. ASSUME NEW p \in Procs, Reject(p) PROVE TypeOK'
  BY <1>0, <1>4, CatalogAssumption DEF TypeOK, PC, Locked, CallId, Version,
     CallsOwn, Committing, Placed, PlacedFor, Reject, Goto, recovery, ghosts, disk
<1>5. ASSUME NEW p \in Procs, WriteVersion(p) PROVE TypeOK'
  <2>1. next[p] \in Nat \ {0} /\ want[call[p]] \in Payloads
    BY <1>0, <1>5 DEF TypeOK, CallsOwn, Committing, Placed, PlacedFor, WriteVersion
  <2>2. DOMAIN files' \subseteq Nat \ {0} /\ files' \in [DOMAIN files' -> Payloads]
    BY <1>0, <1>5, <2>1 DEF TypeOK, WriteVersion
  <2>3. pc' \in [Procs -> PC]
    BY <1>0, <1>5 DEF TypeOK, PC, WriteVersion, Goto
  <2>4. UNCHANGED <<latest, intents, lock, call, next, recovery, ghosts>>
    BY <1>5 DEF WriteVersion
  <2> QED
    BY <1>0, <2>2, <2>3, <2>4 DEF TypeOK, recovery, ghosts
<1>6. ASSUME NEW p \in Procs, UpdateLatest(p) PROVE TypeOK'
  BY <1>0, <1>6, CatalogAssumption DEF TypeOK, PC, Locked, CallId, Version,
     CallsOwn, Committing, Placed, PlacedFor, UpdateLatest, Goto, recovery, ghosts
<1>7. ASSUME NEW p \in Procs, Release(p) PROVE TypeOK'
  BY <1>0, <1>7, CatalogAssumption DEF TypeOK, PC, Locked, CallId, Version,
     CallsOwn, Committing, Placed, PlacedFor, Release, Goto, recovery, ghosts
<1>8. ASSUME NEW p \in Procs, Return(p) PROVE TypeOK'
  <2>1. next[p] \in Nat /\ pc' \in [Procs -> PC]
    BY <1>0, <1>8 DEF TypeOK, PC, Return, Goto
  <2>2. answer' \in [CallId -> Nat]
    BY <1>0, <1>8, <2>1 DEF TypeOK, Return
  <2>3. intents' \subseteq CallId /\ faults' \in Nat
    BY <1>0, <1>8 DEF TypeOK, Return
  <2>4. UNCHANGED <<files, latest, lock, call, next, scan, found, calls, want, asked, reported,
                    lost, deleted>>
    BY <1>8 DEF Return, recovery
  <2> QED
    BY <1>0, <2>1, <2>2, <2>3, <2>4 DEF TypeOK
<1>9. ASSUME NEW p \in Procs, Fail(p) PROVE TypeOK'
  <2>1. lock' \in Procs \cup {NoProc} /\ faults' \in Nat /\ lost' \subseteq CallId
    BY <1>0, <1>9, CatalogAssumption DEF TypeOK, Fail
  <2>2. /\ pc' \in [Procs -> PC]
        /\ scan' \in [Procs -> SUBSET CallId] /\ found' \in [Procs -> SUBSET CallId]
    BY <1>0, <1>9 DEF TypeOK, PC, Fail, Goto
  <2>3. UNCHANGED <<files, latest, intents, call, next, calls, want, asked, answer,
                    reported, deleted>>
    BY <1>9 DEF Fail
  <2> QED
    BY <1>0, <2>1, <2>2, <2>3 DEF TypeOK
<1>10. ASSUME NEW p \in Procs, NEW v \in DOMAIN files, DeleteVersion(p, v)
       PROVE  TypeOK'
  <2>1. v \in Nat \ {0} /\ files[v] \in Payloads
    BY <1>0 DEF TypeOK
  <2>2. DOMAIN files' \subseteq Nat \ {0} /\ files' \in [DOMAIN files' -> Payloads]
    BY <1>0, <1>10 DEF TypeOK, DeleteVersion
  <2>3. deleted' \subseteq (Nat \ {0}) \X Payloads
    BY <1>0, <1>10, <2>1 DEF TypeOK, DeleteVersion
  <2>4. UNCHANGED <<latest, intents, lock, pc, call, next, scan, found, calls, want, asked,
                    answer, reported, lost, faults>>
    BY <1>10 DEF DeleteVersion, memory, recovery
  <2> QED
    BY <1>0, <2>2, <2>3, <2>4 DEF TypeOK
<1>11. ASSUME NEW p \in Procs, RecoveryStep(p) PROVE TypeOK'
  <2>1. /\ pc' \in [Procs -> PC] /\ intents' \subseteq CallId /\ faults' \in Nat
        /\ scan' \in [Procs -> SUBSET CallId] /\ found' \in [Procs -> SUBSET CallId]
        /\ reported' \subseteq CallId /\ lost' \subseteq CallId
    BY <1>0, <1>11 DEF TypeOK, PC, RecoveryStep, BeginRecovery, RecoverIntent, SkipIntent,
       EndRecovery, Goto, disk, ghosts
  <2>2. UNCHANGED <<files, latest, lock, call, next, calls, want, asked, answer, deleted>>
    BY <1>11 DEF RecoveryStep, BeginRecovery, RecoverIntent, SkipIntent, EndRecovery, disk,
       ghosts
  <2> QED
    BY <1>0, <2>1, <2>2 DEF TypeOK
<1>12. CASE UNCHANGED vars
  BY <1>0, <1>12 DEF TypeOK, PC, Locked, CallId, Version, vars, disk, memory, recovery, ghosts
<1> QED
  BY <1>1, <1>2, <1>3, <1>4, <1>5, <1>6, <1>7, <1>8, <1>9, <1>10, <1>11, <1>12
     DEF Next, ProcStep, CommitStep, Exhausted

\* The lock is held exactly inside the critical section.
LEMMA LockStep ==
  ASSUME CatalogInv, [Next]_vars
  PROVE  LockHeld'
<1>0. TypeOK /\ LockHeld
  BY DEF CatalogInv
<1>1. ASSUME NEW p \in Procs, NEW c \in Payloads, CommitNext(p, c) PROVE LockHeld'
  BY <1>0, <1>1, CatalogAssumption DEF TypeOK, LockHeld, Locked, PC,
     CommitNext, Goto, Begin
<1>2. ASSUME NEW p \in Procs, NEW c \in Payloads, NEW v \in Version, CommitVersion(p, c, v)
      PROVE  LockHeld'
  BY <1>0, <1>2, CatalogAssumption DEF TypeOK, LockHeld, Locked, PC,
     CommitVersion, Goto, Begin
<1>3. ASSUME NEW p \in Procs, Acquire(p) PROVE LockHeld'
  BY <1>0, <1>3, CatalogAssumption DEF TypeOK, LockHeld, Locked, PC, Acquire,
     Goto, ghosts
<1>4. ASSUME NEW p \in Procs, Reject(p) PROVE LockHeld'
  BY <1>0, <1>4, CatalogAssumption DEF TypeOK, LockHeld, Locked, PC, Reject,
     Goto, ghosts, disk
<1>5. ASSUME NEW p \in Procs, WriteVersion(p) PROVE LockHeld'
  BY <1>0, <1>5, CatalogAssumption DEF TypeOK, LockHeld, Locked, PC,
     WriteVersion, Goto, ghosts
<1>6. ASSUME NEW p \in Procs, UpdateLatest(p) PROVE LockHeld'
  BY <1>0, <1>6, CatalogAssumption DEF TypeOK, LockHeld, Locked, PC,
     UpdateLatest, Goto, ghosts
<1>7. ASSUME NEW p \in Procs, Release(p) PROVE LockHeld'
  BY <1>0, <1>7, CatalogAssumption DEF TypeOK, LockHeld, Locked, PC, Release,
     Goto, ghosts
<1>8. ASSUME NEW p \in Procs, Return(p) PROVE LockHeld'
  BY <1>0, <1>8, CatalogAssumption DEF TypeOK, LockHeld, Locked, PC, Return, Goto
<1>9. ASSUME NEW p \in Procs, Fail(p) PROVE LockHeld'
  BY <1>0, <1>9, CatalogAssumption DEF TypeOK, LockHeld, Locked, PC, Fail, Goto
<1>10. ASSUME NEW p \in Procs, NEW v \in DOMAIN files, DeleteVersion(p, v)
       PROVE  LockHeld'
  BY <1>0, <1>10, CatalogAssumption DEF TypeOK, LockHeld, Locked, PC,
     DeleteVersion, memory
<1>11. ASSUME NEW p \in Procs, RecoveryStep(p) PROVE LockHeld'
  BY <1>0, <1>11, RecoveryLeaves, CatalogAssumption DEF TypeOK, LockHeld, Locked, PC
<1>12. CASE UNCHANGED vars
  BY <1>0, <1>12 DEF TypeOK, LockHeld, Locked, PC, vars, disk, memory, recovery, ghosts
<1> QED
  BY <1>1, <1>2, <1>3, <1>4, <1>5, <1>6, <1>7, <1>8, <1>9, <1>10, <1>11, <1>12
     DEF Next, ProcStep, CommitStep, Exhausted

\* A process that begins gets a call nobody has.
LEMMA NewCallIsOwn ==
  ASSUME TypeOK, CallsOwn, NEW p \in Procs, NEW c \in Payloads,
         calls < MaxCommits, calls' = calls + 1, answer' = answer,
         want' = [want EXCEPT ![calls + 1] = c], call' = [call EXCEPT ![p] = calls + 1],
         pc' = [pc EXCEPT ![p] = "begun"]
  PROVE  CallsOwn'
<1>1. calls \in Nat /\ calls + 1 \in CallId /\ calls + 1 \in 1..calls'
  BY CatalogAssumption DEF TypeOK, CallId
<1>2. /\ call'[p] = calls + 1 /\ want'[calls + 1] = c /\ answer[calls + 1] = 0
      /\ \A q \in Procs \ {p} : call'[q] = call[q] /\ pc'[q] = pc[q]
      /\ \A i \in 1..calls : want'[i] = want[i]
  BY <1>1 DEF TypeOK, CallsOwn, Committing, CallId
<1>3. ASSUME NEW q \in Procs, Committing(q)'
      PROVE  call'[q] \in 1..calls' /\ answer'[call'[q]] = 0 /\ want'[call'[q]] \in Payloads
  <2>1. CASE q = p
    BY <1>1, <1>2, <2>1
  <2>2. CASE q # p
    <3>1. call[q] \in 1..calls /\ answer[call[q]] = 0 /\ want[call[q]] \in Payloads
      BY <1>2, <1>3, <2>2 DEF CallsOwn, Committing
    <3> QED
      BY <1>1, <1>2, <2>2, <3>1
  <2> QED
    BY <2>1, <2>2
<1>4. ASSUME NEW q \in Procs, NEW r \in Procs, q # r, Committing(q)', Committing(r)'
      PROVE  call'[q] # call'[r]
  <2>1. \A x \in Procs \ {p} : Committing(x)' => call'[x] \in 1..calls
    BY <1>2 DEF CallsOwn, Committing
  <2>2. CASE p \in {q, r}
    BY <1>1, <1>2, <1>4, <2>1, <2>2
  <2>3. CASE p \notin {q, r}
    BY <1>2, <1>4, <2>3 DEF CallsOwn, Committing
  <2> QED
    BY <2>2, <2>3
<1>5. \A i \in CallId : i > calls' => answer'[i] = 0
  BY <1>1 DEF CallsOwn, Committing, CallId
<1> QED
  BY <1>3, <1>4, <1>5 DEF CallsOwn, Committing

\* No step gives a process the call of another.
LEMMA CallsStep ==
  ASSUME CatalogInv, [Next]_vars
  PROVE  CallsOwn'
<1>0. TypeOK /\ CallsOwn
  BY DEF CatalogInv
<1>1. ASSUME NEW p \in Procs, NEW c \in Payloads, CommitNext(p, c) PROVE CallsOwn'
  <2>1. /\ calls \in 0..MaxCommits /\ calls < MaxCommits /\ calls' = calls + 1 /\ pc[p] = "idle"
        /\ want' = [want EXCEPT ![calls + 1] = c] /\ call' = [call EXCEPT ![p] = calls + 1]
        /\ pc' = [pc EXCEPT ![p] = "begun"] /\ answer' = answer
    BY <1>0, <1>1 DEF TypeOK, CommitNext, Begin, Goto
  <2> QED
    BY <1>0, <2>1, NewCallIsOwn
<1>2. ASSUME NEW p \in Procs, NEW c \in Payloads, NEW v \in Version, CommitVersion(p, c, v)
      PROVE  CallsOwn'
  <2>1. /\ calls \in 0..MaxCommits /\ calls < MaxCommits /\ calls' = calls + 1 /\ pc[p] = "idle"
        /\ want' = [want EXCEPT ![calls + 1] = c] /\ call' = [call EXCEPT ![p] = calls + 1]
        /\ pc' = [pc EXCEPT ![p] = "begun"] /\ answer' = answer
    BY <1>0, <1>2 DEF TypeOK, CommitVersion, Begin, Goto
  <2> QED
    BY <1>0, <2>1, NewCallIsOwn
<1>3. ASSUME NEW p \in Procs, Acquire(p) PROVE CallsOwn'
  BY <1>0, <1>3, CatalogAssumption DEF TypeOK, CallsOwn, Committing, CallId, Version, PC,
     Acquire, Goto, ghosts
<1>4. ASSUME NEW p \in Procs, Reject(p) PROVE CallsOwn'
  BY <1>0, <1>4, CatalogAssumption DEF TypeOK, CallsOwn, Committing, CallId, Version, PC,
     Reject, Goto, ghosts, disk
<1>5. ASSUME NEW p \in Procs, WriteVersion(p) PROVE CallsOwn'
  BY <1>0, <1>5, CatalogAssumption DEF TypeOK, CallsOwn, Committing, CallId, Version, PC,
     WriteVersion, Goto, ghosts
<1>6. ASSUME NEW p \in Procs, UpdateLatest(p) PROVE CallsOwn'
  BY <1>0, <1>6, CatalogAssumption DEF TypeOK, CallsOwn, Committing, CallId, Version, PC,
     UpdateLatest, Goto, ghosts
<1>7. ASSUME NEW p \in Procs, Release(p) PROVE CallsOwn'
  BY <1>0, <1>7, CatalogAssumption DEF TypeOK, CallsOwn, Committing, CallId, Version, PC,
     Release, Goto, ghosts
<1>8. ASSUME NEW p \in Procs, Return(p) PROVE CallsOwn'
  <2>1. /\ UNCHANGED <<call, calls, want>> /\ Committing(p) /\ ~Committing(p)'
        /\ \A q \in Procs \ {p} : Committing(q)' = Committing(q)
        /\ answer' = [answer EXCEPT ![call[p]] = next[p]] /\ call[p] \in 1..calls
    BY <1>0, <1>8 DEF TypeOK, CallsOwn, Committing, Return, Goto
  <2>2. \A i \in CallId : i # call[p] => answer'[i] = answer[i]
    BY <1>0, <2>1 DEF TypeOK
  <2>3. \A q \in Procs : call[q] \in 1..calls => call[q] \in CallId
    BY <1>0, CatalogAssumption DEF TypeOK, CallId
  <2>4. \A i \in CallId : i > calls => i # call[p]
    BY <1>0, <2>1 DEF TypeOK, CallId
  <2> QED
    BY <1>0, <2>1, <2>2, <2>3, <2>4 DEF CallsOwn
<1>9. ASSUME NEW p \in Procs, Fail(p) PROVE CallsOwn'
  BY <1>0, <1>9, CatalogAssumption DEF TypeOK, CallsOwn, Committing, CallId, Version, PC,
     Fail, Goto
<1>10. ASSUME NEW p \in Procs, NEW v \in DOMAIN files, DeleteVersion(p, v)
       PROVE  CallsOwn'
  BY <1>0, <1>10, CatalogAssumption DEF TypeOK, CallsOwn, Committing, CallId, Version, PC,
     DeleteVersion, memory
<1>11. ASSUME NEW p \in Procs, RecoveryStep(p) PROVE CallsOwn'
  BY <1>0, <1>11, RecoveryLeaves, CatalogAssumption DEF TypeOK, CallsOwn, Committing, CallId,
     Version, PC
<1>12. CASE UNCHANGED vars
  BY <1>0, <1>12 DEF TypeOK, CallsOwn, Committing, CallId, Version, PC, vars, disk,
     memory, recovery, ghosts
<1> QED
  BY <1>1, <1>2, <1>3, <1>4, <1>5, <1>6, <1>7, <1>8, <1>9, <1>10, <1>11, <1>12
     DEF Next, ProcStep, CommitStep, Exhausted

\* A version up to the pointer stays what it is, or is deleted.
LEMMA KeptStays ==
  ASSUME CatalogInv, [Next]_vars, NEW w \in 1..latest, NEW d, Kept(w, d)
  PROVE  Kept(w, d)'
<1>0. TypeOK /\ Placed
  BY DEF CatalogInv
<1>1. ASSUME NEW p \in Procs, WriteVersion(p) PROVE Kept(w, d)'
  <2>1. /\ next[p] = latest + 1 /\ latest \in Nat /\ deleted' = deleted
        /\ files' = [v \in DOMAIN files \cup {next[p]} |->
                      IF v = next[p] THEN want[call[p]] ELSE files[v]]
    BY <1>0, <1>1 DEF TypeOK, Placed, PlacedFor, WriteVersion, ghosts
  <2>2. w # next[p]
    BY <2>1
  <2> QED
    BY <2>1, <2>2 DEF Kept
<1>2. ASSUME NEW p \in Procs, NEW v \in DOMAIN files, DeleteVersion(p, v)
      PROVE  Kept(w, d)'
  BY <1>0, <1>2 DEF TypeOK, DeleteVersion, Kept
<1>3. CASE UNCHANGED <<files, deleted>>
  BY <1>3 DEF Kept
<1> QED
  BY <1>1, <1>2, <1>3 DEF Next, ProcStep, CommitStep, Exhausted, vars, disk,
     ghosts, memory,
     CommitNext, CommitVersion, Begin, Acquire, Reject, UpdateLatest, Release, Return, Fail,
     RecoveryStep, BeginRecovery, RecoverIntent, SkipIntent, EndRecovery

\* The version of a running call stands where the step says.
LEMMA PlacedStep ==
  ASSUME CatalogInv, [Next]_vars
  PROVE  Placed'
<1>0. TypeOK /\ LockHeld /\ CallsOwn /\ Placed
  BY DEF CatalogInv
<1>a. \A w \in 1..latest : \A d : Kept(w, d) => Kept(w, d)'
  BY KeptStays
<1>1. ASSUME NEW p \in Procs, NEW c \in Payloads, CommitNext(p, c) PROVE Placed'
  BY <1>0, <1>1 DEF TypeOK, LockHeld, CallsOwn, Committing, Placed, PlacedFor, Locked,
     Kept, CallId, PC, CommitNext, Goto, Begin
<1>2. ASSUME NEW p \in Procs, NEW c \in Payloads, NEW v \in Version, CommitVersion(p, c, v)
      PROVE  Placed'
  <2>1. /\ UNCHANGED <<files, latest, deleted, next>> /\ pc' = [pc EXCEPT ![p] = "begun"]
        /\ want' = [want EXCEPT ![calls + 1] = c] /\ asked' = [asked EXCEPT ![calls + 1] = v]
        /\ call' = [call EXCEPT ![p] = calls + 1]
    BY <1>2 DEF CommitVersion, Begin, Goto
  <2>2. ASSUME NEW q \in Procs \ {p}, Committing(q)
        PROVE  want'[call'[q]] = want[call[q]] /\ asked'[call'[q]] = asked[call[q]]
    <3>1. call[q] \in CallId /\ call[q] # calls + 1 /\ call'[q] = call[q]
      BY <1>0, <2>1, <2>2, CatalogAssumption DEF TypeOK, CallsOwn, CallId
    <3> QED
      BY <1>0, <2>1, <3>1 DEF TypeOK
  <2>3. PlacedFor(p)'
    BY <1>0, <2>1 DEF TypeOK, PlacedFor, Locked
  <2>4. ASSUME NEW q \in Procs \ {p} PROVE PlacedFor(q)'
    <3>1. pc'[q] = pc[q]
      BY <1>0, <2>1 DEF TypeOK
    <3> QED
      BY <1>0, <2>1, <2>2, <3>1 DEF Placed, PlacedFor, Kept, Committing, Locked
  <2> QED
    BY <2>3, <2>4 DEF Placed
<1>3. ASSUME NEW p \in Procs, Acquire(p) PROVE Placed'
  BY <1>0, <1>3 DEF TypeOK, LockHeld, CallsOwn, Committing, Placed, PlacedFor, Locked,
     Kept, CallId, PC, Acquire, Goto, ghosts
<1>4. ASSUME NEW p \in Procs, Reject(p) PROVE Placed'
  BY <1>0, <1>4 DEF TypeOK, LockHeld, CallsOwn, Committing, Placed, PlacedFor, Locked,
     Kept, CallId, PC, Reject, Goto, ghosts, disk
<1>5. ASSUME NEW p \in Procs, WriteVersion(p) PROVE Placed'
  <2>1. /\ pc' = [pc EXCEPT ![p] = "written"] /\ next[p] = latest + 1
        /\ UNCHANGED <<latest, call, next, want, asked, deleted>>
    BY <1>0, <1>5 DEF Placed, PlacedFor, WriteVersion, Goto, ghosts
  <2>2. PlacedFor(p)'
    BY <1>0, <1>5, <2>1 DEF TypeOK, Placed, PlacedFor, Locked, WriteVersion
  <2>3. ASSUME NEW q \in Procs \ {p} PROVE PlacedFor(q)'
    <3>1. pc'[q] = pc[q] /\ pc[q] \notin Locked
      BY <1>0, <1>5, <2>1 DEF TypeOK, LockHeld, Locked, WriteVersion
    <3>2. pc[q] = "released" => Kept(next[q], want[call[q]]) /\ next[q] \in 1..latest
      BY <1>0 DEF Placed, PlacedFor
    <3>3. pc[q] = "released" => Kept(next[q], want[call[q]])'
      BY <1>a, <3>2, <2>1 DEF Kept
    <3> QED
      BY <1>0, <2>1, <3>1, <3>2, <3>3 DEF Placed, PlacedFor, Locked
  <2> QED
    BY <2>2, <2>3 DEF Placed
<1>6. ASSUME NEW p \in Procs, UpdateLatest(p) PROVE Placed'
  <2>1. /\ pc' = [pc EXCEPT ![p] = "pointed"] /\ next[p] = latest + 1 /\ latest' = latest + 1
        /\ UNCHANGED <<files, call, next, want, asked, deleted>>
    BY <1>0, <1>6 DEF Placed, PlacedFor, UpdateLatest, Goto, ghosts
  <2>2. PlacedFor(p)'
    BY <1>0, <1>6, <2>1 DEF TypeOK, Placed, PlacedFor, Locked, Kept, UpdateLatest
  <2>3. ASSUME NEW q \in Procs \ {p} PROVE PlacedFor(q)'
    <3>1. pc'[q] = pc[q] /\ pc[q] \notin Locked
      BY <1>0, <1>6, <2>1 DEF TypeOK, LockHeld, Locked, UpdateLatest
    <3>2. pc[q] = "released" => Kept(next[q], want[call[q]]) /\ next[q] \in 1..latest
      BY <1>0 DEF Placed, PlacedFor
    <3>3. pc[q] = "released" => Kept(next[q], want[call[q]])'
      BY <1>a, <3>2, <2>1 DEF Kept
    <3> QED
      BY <1>0, <2>1, <3>1, <3>2, <3>3 DEF TypeOK, Placed, PlacedFor, Locked
  <2> QED
    BY <2>2, <2>3 DEF Placed
<1>7. ASSUME NEW p \in Procs, Release(p) PROVE Placed'
  BY <1>0, <1>7 DEF TypeOK, LockHeld, CallsOwn, Committing, Placed, PlacedFor, Locked,
     Kept, CallId, PC, Release, Goto, ghosts
<1>8. ASSUME NEW p \in Procs, Return(p) PROVE Placed'
  BY <1>0, <1>8 DEF TypeOK, LockHeld, CallsOwn, Committing, Placed, PlacedFor, Locked,
     Kept, CallId, PC, Return, Goto
<1>9. ASSUME NEW p \in Procs, Fail(p) PROVE Placed'
  BY <1>0, <1>9 DEF TypeOK, LockHeld, CallsOwn, Committing, Placed, PlacedFor, Locked,
     Kept, CallId, PC, Fail, Goto
<1>10. ASSUME NEW p \in Procs, NEW v \in DOMAIN files, DeleteVersion(p, v)
       PROVE  Placed'
  <2>1. UNCHANGED <<pc, latest, call, next, want, asked>>
    BY <1>10 DEF DeleteVersion, memory
  <2>2. ASSUME NEW q \in Procs PROVE PlacedFor(q)'
    <3>1. pc[q] \notin Locked
      BY <1>0, <1>10, CatalogAssumption DEF LockHeld, DeleteVersion
    <3>2. pc[q] = "released" => Kept(next[q], want[call[q]]) /\ next[q] \in 1..latest
      BY <1>0 DEF Placed, PlacedFor
    <3>3. pc[q] = "released" => Kept(next[q], want[call[q]])'
      BY <1>a, <3>2, <2>1 DEF Kept
    <3> QED
      BY <1>0, <2>1, <3>1, <3>2, <3>3 DEF Placed, PlacedFor, Locked
  <2> QED
    BY <2>2 DEF Placed
<1>11. ASSUME NEW p \in Procs, RecoveryStep(p) PROVE Placed'
  BY <1>0, <1>11, RecoveryLeaves DEF TypeOK, LockHeld, CallsOwn, Committing, Placed, PlacedFor,
     Locked, Kept, CallId, PC
<1>12. CASE UNCHANGED vars
  BY <1>0, <1>12 DEF TypeOK, LockHeld, CallsOwn, Committing, Placed, PlacedFor, Locked,
     Kept, CallId, PC, vars, disk, memory, recovery, ghosts
<1> QED
  BY <1>1, <1>2, <1>3, <1>4, <1>5, <1>6, <1>7, <1>8, <1>9, <1>10, <1>11, <1>12
     DEF Next, ProcStep, CommitStep, Exhausted

\* No two calls get the same version.
LEMMA DistinctStep ==
  ASSUME CatalogInv, [Next]_vars
  PROVE  Distinct'
<1>0. TypeOK /\ LockHeld /\ CallsOwn /\ Placed /\ Distinct /\ AnsweredVersionsStand
  BY DEF CatalogInv
<1>1. ASSUME NEW p \in Procs, NEW c \in Payloads, CommitNext(p, c) PROVE Distinct'
  BY <1>0, <1>1 DEF TypeOK, LockHeld, CallsOwn, Committing, Placed, PlacedFor, Distinct,
     AnsweredVersionsStand, Locked, CallId, PC, CommitNext, Goto, Begin
<1>2. ASSUME NEW p \in Procs, NEW c \in Payloads, NEW v \in Version, CommitVersion(p, c, v)
      PROVE  Distinct'
  BY <1>0, <1>2 DEF TypeOK, LockHeld, CallsOwn, Committing, Placed, PlacedFor, Distinct,
     AnsweredVersionsStand, Locked, CallId, PC, CommitVersion, Goto, Begin
<1>3. ASSUME NEW p \in Procs, Acquire(p) PROVE Distinct'
  BY <1>0, <1>3 DEF TypeOK, LockHeld, CallsOwn, Committing, Placed, PlacedFor, Distinct,
     AnsweredVersionsStand, Locked, CallId, PC, Acquire, Goto, ghosts
<1>4. ASSUME NEW p \in Procs, Reject(p) PROVE Distinct'
  BY <1>0, <1>4 DEF TypeOK, LockHeld, CallsOwn, Committing, Placed, PlacedFor, Distinct,
     AnsweredVersionsStand, Locked, CallId, PC, Reject, Goto, ghosts, disk
<1>5. ASSUME NEW p \in Procs, WriteVersion(p) PROVE Distinct'
  BY <1>0, <1>5 DEF TypeOK, LockHeld, CallsOwn, Committing, Placed, PlacedFor, Distinct,
     AnsweredVersionsStand, Locked, CallId, PC, WriteVersion, Goto, ghosts
<1>6. ASSUME NEW p \in Procs, UpdateLatest(p) PROVE Distinct'
  BY <1>0, <1>6 DEF TypeOK, LockHeld, CallsOwn, Committing, Placed, PlacedFor, Distinct,
     AnsweredVersionsStand, Locked, CallId, PC, UpdateLatest, Goto, ghosts
<1>7. ASSUME NEW p \in Procs, Release(p) PROVE Distinct'
  BY <1>0, <1>7 DEF TypeOK, LockHeld, CallsOwn, Committing, Placed, PlacedFor, Distinct,
     AnsweredVersionsStand, Locked, CallId, PC, Release, Goto, ghosts
<1>8. ASSUME NEW p \in Procs, Return(p) PROVE Distinct'
  BY <1>0, <1>8 DEF TypeOK, LockHeld, CallsOwn, Committing, Placed, PlacedFor, Distinct,
     AnsweredVersionsStand, Locked, CallId, PC, Return, Goto
<1>9. ASSUME NEW p \in Procs, Fail(p) PROVE Distinct'
  BY <1>0, <1>9 DEF TypeOK, LockHeld, CallsOwn, Committing, Placed, PlacedFor, Distinct,
     AnsweredVersionsStand, Locked, CallId, PC, Fail, Goto
<1>10. ASSUME NEW p \in Procs, NEW v \in DOMAIN files, DeleteVersion(p, v)
       PROVE  Distinct'
  BY <1>0, <1>10 DEF TypeOK, LockHeld, CallsOwn, Committing, Placed, PlacedFor, Distinct,
     AnsweredVersionsStand, Locked, CallId, PC, DeleteVersion, memory
<1>11. ASSUME NEW p \in Procs, RecoveryStep(p) PROVE Distinct'
  <2>1. \A q \in Procs : pc'[q] \in {"pointed", "released"} => pc[q] = pc'[q]
    BY <1>0, <1>11, RecoveryLeaves
  <2> QED
    BY <1>0, <1>11, <2>1, RecoveryLeaves DEF Distinct
<1>12. CASE UNCHANGED vars
  BY <1>0, <1>12 DEF TypeOK, LockHeld, CallsOwn, Committing, Placed, PlacedFor, Distinct,
     AnsweredVersionsStand, Locked, CallId, PC, vars, disk, memory, recovery, ghosts
<1> QED
  BY <1>1, <1>2, <1>3, <1>4, <1>5, <1>6, <1>7, <1>8, <1>9, <1>10, <1>11, <1>12
     DEF Next, ProcStep, CommitStep, Exhausted

\* No step leaves the pointer without its file.
LEMMA ReadableStep ==
  ASSUME CatalogInv, [Next]_vars
  PROVE  LatestReadable'
<1>0. TypeOK /\ Placed /\ LatestReadable
  BY DEF CatalogInv
<1>1. ASSUME NEW p \in Procs, NEW c \in Payloads, CommitNext(p, c)
      PROVE  LatestReadable'
  BY <1>0, <1>1 DEF TypeOK, Placed, PlacedFor, LatestReadable, CommitNext,
     Goto, Begin
<1>2. ASSUME NEW p \in Procs, NEW c \in Payloads, NEW v \in Version, CommitVersion(p, c, v)
      PROVE  LatestReadable'
  BY <1>0, <1>2 DEF TypeOK, Placed, PlacedFor, LatestReadable, CommitVersion,
     Goto, Begin
<1>3. ASSUME NEW p \in Procs, Acquire(p) PROVE LatestReadable'
  BY <1>0, <1>3 DEF TypeOK, Placed, PlacedFor, LatestReadable, Acquire, Goto, ghosts
<1>4. ASSUME NEW p \in Procs, Reject(p) PROVE LatestReadable'
  BY <1>0, <1>4 DEF TypeOK, Placed, PlacedFor, LatestReadable, Reject, Goto,
     ghosts, disk
<1>5. ASSUME NEW p \in Procs, WriteVersion(p) PROVE LatestReadable'
  BY <1>0, <1>5 DEF TypeOK, Placed, PlacedFor, LatestReadable, WriteVersion,
     Goto, ghosts
<1>6. ASSUME NEW p \in Procs, UpdateLatest(p) PROVE LatestReadable'
  BY <1>0, <1>6 DEF TypeOK, Placed, PlacedFor, LatestReadable, UpdateLatest,
     Goto, ghosts
<1>7. ASSUME NEW p \in Procs, Release(p) PROVE LatestReadable'
  BY <1>0, <1>7 DEF TypeOK, Placed, PlacedFor, LatestReadable, Release, Goto, ghosts
<1>8. ASSUME NEW p \in Procs, Return(p) PROVE LatestReadable'
  BY <1>0, <1>8 DEF TypeOK, Placed, PlacedFor, LatestReadable, Return, Goto
<1>9. ASSUME NEW p \in Procs, Fail(p) PROVE LatestReadable'
  BY <1>0, <1>9 DEF TypeOK, Placed, PlacedFor, LatestReadable, Fail, Goto
<1>10. ASSUME NEW p \in Procs, NEW v \in DOMAIN files, DeleteVersion(p, v)
       PROVE  LatestReadable'
  BY <1>0, <1>10 DEF TypeOK, Placed, PlacedFor, LatestReadable, DeleteVersion,
     memory
<1>11. ASSUME NEW p \in Procs, RecoveryStep(p) PROVE  LatestReadable'
  BY <1>0, <1>11, RecoveryLeaves DEF TypeOK, Placed, PlacedFor, LatestReadable
<1>12. CASE UNCHANGED vars
  BY <1>0, <1>12 DEF TypeOK, Placed, PlacedFor, LatestReadable, vars, disk,
     memory, recovery, ghosts
<1> QED
  BY <1>1, <1>2, <1>3, <1>4, <1>5, <1>6, <1>7, <1>8, <1>9, <1>10, <1>11, <1>12
     DEF Next, ProcStep, CommitStep, Exhausted

\* Answered versions stand.
LEMMA AnsweredStep ==
  ASSUME CatalogInv, [Next]_vars
  PROVE  AnsweredVersionsStand'
<1>0. TypeOK /\ LockHeld /\ CallsOwn /\ Placed /\ Distinct /\ AnsweredVersionsStand
  BY DEF CatalogInv
<1>a. \A w \in 1..latest : \A d : Kept(w, d) => Kept(w, d)'
  BY KeptStays
<1>1. ASSUME NEW p \in Procs, NEW c \in Payloads, CommitNext(p, c)
      PROVE  AnsweredVersionsStand'
  BY <1>0, <1>1 DEF TypeOK, LockHeld, CallsOwn, Committing, Placed, PlacedFor, Distinct,
     AnsweredVersionsStand, Locked, Kept, CallId, PC, CommitNext, Goto, Begin
<1>2. ASSUME NEW p \in Procs, NEW c \in Payloads, NEW v \in Version, CommitVersion(p, c, v)
      PROVE  AnsweredVersionsStand'
  BY <1>0, <1>2 DEF TypeOK, LockHeld, CallsOwn, Committing, Placed, PlacedFor, Distinct,
     AnsweredVersionsStand, Locked, Kept, CallId, PC, CommitVersion, Goto,
     Begin
<1>3. ASSUME NEW p \in Procs, Acquire(p) PROVE AnsweredVersionsStand'
  BY <1>0, <1>3 DEF TypeOK, LockHeld, CallsOwn, Committing, Placed, PlacedFor, Distinct,
     AnsweredVersionsStand, Locked, Kept, CallId, PC, Acquire, Goto, ghosts
<1>4. ASSUME NEW p \in Procs, Reject(p) PROVE AnsweredVersionsStand'
  BY <1>0, <1>4 DEF TypeOK, LockHeld, CallsOwn, Committing, Placed, PlacedFor, Distinct,
     AnsweredVersionsStand, Locked, Kept, CallId, PC, Reject, Goto, ghosts,
     disk
<1>5. ASSUME NEW p \in Procs, WriteVersion(p) PROVE AnsweredVersionsStand'
  <2>1. UNCHANGED <<latest, want, asked, answer>>
    BY <1>5 DEF WriteVersion, ghosts
  <2>2. ASSUME NEW i \in CallId, answer[i] # 0 PROVE Kept(answer[i], want[i])'
    <3>1. Kept(answer[i], want[i]) /\ answer[i] \in 1..latest
      BY <1>0, <2>2 DEF TypeOK, AnsweredVersionsStand
    <3> QED
      BY <1>a, <2>1, <3>1 DEF Kept
  <2> QED
    BY <1>0, <2>1, <2>2 DEF AnsweredVersionsStand
<1>6. ASSUME NEW p \in Procs, UpdateLatest(p) PROVE AnsweredVersionsStand'
  <2>1. UNCHANGED <<files, deleted, want, asked, answer>> /\ latest' = latest + 1
    BY <1>0, <1>6 DEF UpdateLatest, Placed, PlacedFor, ghosts
  <2> QED
    BY <1>0, <2>1 DEF TypeOK, AnsweredVersionsStand, Kept
<1>7. ASSUME NEW p \in Procs, Release(p) PROVE AnsweredVersionsStand'
  BY <1>0, <1>7 DEF TypeOK, LockHeld, CallsOwn, Committing, Placed, PlacedFor, Distinct,
     AnsweredVersionsStand, Locked, Kept, CallId, PC, Release, Goto, ghosts
<1>8. ASSUME NEW p \in Procs, Return(p) PROVE AnsweredVersionsStand'
  BY <1>0, <1>8 DEF TypeOK, LockHeld, CallsOwn, Committing, Placed, PlacedFor, Distinct,
     AnsweredVersionsStand, Locked, Kept, CallId, PC, Return, Goto
<1>9. ASSUME NEW p \in Procs, Fail(p) PROVE AnsweredVersionsStand'
  BY <1>0, <1>9 DEF TypeOK, LockHeld, CallsOwn, Committing, Placed, PlacedFor, Distinct,
     AnsweredVersionsStand, Locked, Kept, CallId, PC, Fail, Goto
<1>10. ASSUME NEW p \in Procs, NEW v \in DOMAIN files, DeleteVersion(p, v)
       PROVE  AnsweredVersionsStand'
  BY <1>0, <1>10 DEF TypeOK, LockHeld, CallsOwn, Committing, Placed, PlacedFor, Distinct,
     AnsweredVersionsStand, Locked, Kept, CallId, PC, DeleteVersion, memory
<1>11. ASSUME NEW p \in Procs, RecoveryStep(p) PROVE AnsweredVersionsStand'
  <2>1. \A q \in Procs : pc'[q] \in {"pointed", "released"} => pc[q] = pc'[q]
    BY <1>0, <1>11, RecoveryLeaves
  <2> QED
    BY <1>0, <1>11, <2>1, RecoveryLeaves DEF AnsweredVersionsStand, Kept
<1>12. CASE UNCHANGED vars
  BY <1>0, <1>12 DEF TypeOK, LockHeld, CallsOwn, Committing, Placed, PlacedFor, Distinct,
     AnsweredVersionsStand, Locked, Kept, CallId, PC, vars, disk, memory, recovery, ghosts
<1> QED
  BY <1>1, <1>2, <1>3, <1>4, <1>5, <1>6, <1>7, <1>8, <1>9, <1>10, <1>11, <1>12
     DEF Next, ProcStep, CommitStep, Exhausted

\* A call that is on record stays so, or a recovery loses it.
LEMMA RecordStays ==
  ASSUME CatalogInv, [Next]_vars, NEW i \in 1..calls, asked[i] = 0,
         OnRecord(i) \/ i \in lost
  PROVE  OnRecord(i)' \/ i \in lost'
<1>0. /\ TypeOK /\ CallsOwn /\ Placed /\ LatestReadable
      /\ i \in CallId /\ latest \in Nat /\ calls \in Nat
  BY CatalogAssumption DEF CatalogInv, TypeOK, CallId
<1>a. \A w \in 1..latest : \A d : Kept(w, d) => Kept(w, d)'
  BY KeptStays
<1>b. ASSUME want'[i] = want[i], latest' \in {latest, latest + 1}
      PROVE  Referenced(i) => Referenced(i)'
  <2>1. 1..latest \subseteq 1..latest'
    BY <1>0, <1>b
  <2> QED
    BY <1>a, <1>b, <2>1 DEF Referenced, Kept
<1>1. ASSUME NEW p \in Procs, NEW c \in Payloads, NEW v, Begin(p, c, v), intents \subseteq intents'
      PROVE  OnRecord(i)' \/ i \in lost'
  <2>1. /\ want'[i] = want[i] /\ latest' = latest
        /\ UNCHANGED <<answer, reported, found, lost>>
    BY <1>0, <1>1 DEF TypeOK, Begin, recovery
  <2> QED
    BY <1>1, <1>b, <2>1 DEF OnRecord
<1>2. ASSUME UNCHANGED <<want, answer, reported, lost, found, intents>>,
             latest' \in {latest, latest + 1}
      PROVE  OnRecord(i)' \/ i \in lost'
  BY <1>2, <1>b DEF OnRecord
<1>3. ASSUME NEW p \in Procs, UpdateLatest(p) PROVE OnRecord(i)' \/ i \in lost'
  <2>1. latest' = latest + 1
    BY <1>0, <1>3 DEF UpdateLatest, Placed, PlacedFor
  <2> QED
    BY <1>2, <1>3, <2>1 DEF UpdateLatest, recovery, ghosts
<1>4. ASSUME NEW p \in Procs, Return(p) PROVE OnRecord(i)' \/ i \in lost'
  <2>1. /\ UNCHANGED <<latest, want, reported, lost, found>>
        /\ intents \ {call[p]} \subseteq intents' /\ answer' = [answer EXCEPT ![call[p]] = next[p]]
        /\ next[p] # 0
    BY <1>0, <1>4 DEF Return, Placed, PlacedFor, recovery
  <2>2. CASE i = call[p]
    BY <1>0, <2>1, <2>2 DEF TypeOK, OnRecord
  <2>3. CASE i # call[p]
    BY <1>0, <1>b, <2>1, <2>3 DEF TypeOK, OnRecord
  <2> QED
    BY <2>2, <2>3
<1>5. ASSUME NEW p \in Procs, Fail(p) PROVE OnRecord(i)' \/ i \in lost'
  <2>1. /\ UNCHANGED <<latest, want, answer, reported, intents>>
        /\ lost' = lost \cup found[p] /\ \A q \in Procs \ {p} : found'[q] = found[q]
    BY <1>0, <1>5 DEF TypeOK, Fail
  <2>2. UNION {found[q] : q \in Procs} \subseteq found[p] \cup UNION {found'[q] : q \in Procs}
    BY <2>1
  <2> QED
    BY <1>b, <2>1, <2>2 DEF OnRecord
<1>6. ASSUME NEW p \in Procs, RecoveryStep(p) PROVE OnRecord(i)' \/ i \in lost'
  <2>0. UNCHANGED <<files, latest, deleted, calls, want, asked, answer>>
    BY <1>0, <1>6, RecoveryLeaves
  <2>1. Referenced(i) => Referenced(i)'
    BY <1>b, <2>0
  <2>2. CASE BeginRecovery(p)
    BY <2>0, <2>1, <2>2 DEF BeginRecovery, OnRecord, disk, ghosts
  <2>3. ASSUME NEW j \in CallId, RecoverIntent(p, j) PROVE OnRecord(i)' \/ i \in lost'
    <3>1. /\ intents \ {j} \subseteq intents' /\ UNCHANGED <<reported, lost>>
          /\ IsCommitted(want[j]) \/ j \in found'[p]
          /\ \A q \in Procs : found[q] \subseteq found'[q]
      BY <1>0, <2>3 DEF TypeOK, RecoverIntent
    <3>2. UNION {found[q] : q \in Procs} \subseteq UNION {found'[q] : q \in Procs}
      BY <3>1
    <3>3. IsCommitted(want[j]) => Referenced(j)
      BY <1>0 DEF IsCommitted, LatestReadable, Referenced, Kept
    <3>4. CASE i = j
      BY <2>0, <2>1, <3>1, <3>3, <3>4 DEF OnRecord
    <3>5. CASE i # j
      BY <2>0, <2>1, <3>1, <3>2, <3>5 DEF OnRecord
    <3> QED
      BY <3>4, <3>5
  <2>4. ASSUME NEW j \in CallId, SkipIntent(p, j) PROVE OnRecord(i)' \/ i \in lost'
    <3>1. /\ intents' = intents \ {j} /\ UNCHANGED <<reported, found>>
          /\ j \in intents => j \in lost' /\ lost \subseteq lost'
          /\ lost \subseteq lost'
      BY <2>4 DEF SkipIntent
    <3> QED
      BY <2>0, <2>1, <3>1 DEF OnRecord
  <2>5. CASE EndRecovery(p)
    <3>1. /\ UNCHANGED <<intents, lost>> /\ reported' = reported \cup found[p]
          /\ \A q \in Procs \ {p} : found'[q] = found[q]
      BY <1>0, <2>5 DEF TypeOK, EndRecovery, disk
    <3>2. UNION {found[q] : q \in Procs} \subseteq found[p] \cup UNION {found'[q] : q \in Procs}
      BY <3>1
    <3> QED
      BY <2>0, <2>1, <3>1, <3>2 DEF OnRecord
  <2> QED
    BY <1>6, <2>2, <2>3, <2>4, <2>5 DEF RecoveryStep
<1> QED
  BY <1>1, <1>2, <1>3, <1>4, <1>5, <1>6 DEF Next, ProcStep, CommitStep, Exhausted, CommitNext,
     CommitVersion, Acquire, Reject, WriteVersion, Release, DeleteVersion, vars, disk, memory,
     recovery, ghosts

\* No step forgets the chunks of a call.
LEMMA OrphanStep ==
  ASSUME CatalogInv, [Next]_vars
  PROVE  NoOrphanForgotten'
<1>0. TypeOK /\ NoOrphanForgotten
  BY DEF CatalogInv
<1>1. ASSUME NEW p \in Procs, NEW c \in Payloads, NEW v \in {0} \cup Version, Begin(p, c, v),
             v = 0 => calls + 1 \in intents'
      PROVE  \A i \in 1..calls' : asked'[i] = 0 =>
               (i \in 1..calls /\ asked[i] = 0) \/ OnRecord(i)'
  <2>1. /\ calls' = calls + 1 /\ calls + 1 \in CallId /\ calls \in Nat
        /\ asked' = [asked EXCEPT ![calls + 1] = v]
    BY <1>0, <1>1, CatalogAssumption DEF TypeOK, CallId, Begin
  <2>2. ASSUME NEW i \in 1..calls', asked'[i] = 0, i # calls + 1
        PROVE  i \in 1..calls /\ asked[i] = 0
    BY <1>0, <2>1, <2>2 DEF TypeOK, CallId
  <2>3. ASSUME NEW i \in 1..calls', asked'[i] = 0, i = calls + 1 PROVE OnRecord(i)'
    <3>1. v = 0
      BY <1>0, <2>1, <2>3 DEF TypeOK
    <3> QED
      BY <1>1, <2>3, <3>1 DEF OnRecord
  <2> QED
    BY <2>2, <2>3
<1>2. CASE UNCHANGED <<calls, asked>>
  BY <1>0, <1>2, RecordStays DEF NoOrphanForgotten
<1>3. ASSUME NEW p \in Procs, NEW c \in Payloads,
             CommitNext(p, c) \/ \E v \in Version : CommitVersion(p, c, v)
      PROVE  NoOrphanForgotten'
  <2>1. \A i \in 1..calls' : asked'[i] = 0 => (i \in 1..calls /\ asked[i] = 0) \/ OnRecord(i)'
    BY <1>1, <1>3 DEF CommitNext, CommitVersion, Version
  <2> QED
    BY <1>0, <2>1, RecordStays DEF NoOrphanForgotten
<1>4. ASSUME NEW p \in Procs, RecoveryStep(p) PROVE UNCHANGED <<calls, asked>>
  BY <1>0, <1>4, RecoveryLeaves
<1> QED
  BY <1>2, <1>3, <1>4 DEF Next, ProcStep, CommitStep, Exhausted, Acquire, Reject, WriteVersion,
     UpdateLatest, Release, Return, Fail, DeleteVersion, vars, disk, memory, ghosts

-----------------------------------------------------------------------------
\* The invariant holds initially.
LEMMA CatalogInit == Init => CatalogInv
<1> SUFFICES ASSUME Init PROVE CatalogInv
  OBVIOUS
<1>1. TypeOK
  BY CatalogAssumption DEF Init, TypeOK, PC, CallId
<1>2. LockHeld /\ CallsOwn /\ Placed /\ Distinct
  BY CatalogAssumption DEF Init, LockHeld, CallsOwn, Committing, Placed, PlacedFor,
     Distinct, Locked, CallId
<1>3. LatestReadable /\ AnsweredVersionsStand /\ NoOrphanForgotten
  BY DEF Init, LatestReadable, AnsweredVersionsStand, NoOrphanForgotten, CallId
<1> QED
  BY <1>1, <1>2, <1>3 DEF CatalogInv

\* Every step preserves it.
LEMMA CatalogStep == CatalogInv /\ [Next]_vars => CatalogInv'
  BY TypeStep, LockStep, CallsStep, PlacedStep, DistinctStep, ReadableStep,
     AnsweredStep, OrphanStep DEF CatalogInv

\* The inductive invariant of the catalog holds in every reachable state.
THEOREM CatalogCorrect == Spec => []CatalogInv
  BY CatalogInit, CatalogStep, PTL DEF Spec

\* Every reachable state is well typed and versions are numbered from 1.
THEOREM TypeCorrect == Spec => []TypeOK
<1>1. CatalogInv => TypeOK
  BY DEF CatalogInv
<1> QED
  BY CatalogCorrect, <1>1, PTL

\* A table can always be opened at its latest version, whatever crash hits
\* the two renames of a commit (commit_inner, delete_version).
THEOREM LatestIsReadable == Spec => []LatestReadable
<1>1. CatalogInv => LatestReadable
  BY DEF CatalogInv
<1> QED
  BY CatalogCorrect, <1>1, PTL

\* A version number returned by commit or commit_next_version stands.
THEOREM AnswersStand == Spec => []AnsweredVersionsStand
<1>1. CatalogInv => AnsweredVersionsStand
  BY DEF CatalogInv
<1> QED
  BY CatalogCorrect, <1>1, PTL

\* The write-ahead intents forget the chunks of no call, unless a recovery that
\* had removed the intent was cut short or could not read it
\* (write_pending_intent, recover_pending_commits).
THEOREM OrphansAreKept == Spec => []NoOrphanForgotten
<1>1. CatalogInv => NoOrphanForgotten
  BY DEF CatalogInv
<1> QED
  BY CatalogCorrect, <1>1, PTL

-----------------------------------------------------------------------------
\* A step that leaves the version files up to the pointer alone.
LEMMA ContentKept ==
  ASSUME TypeOK, TypeOK', latest' = latest,
         \A v \in 1..latest : v \in DOMAIN files <=> v \in DOMAIN files',
         \A v \in 1..latest : v \in DOMAIN files => files'[v] = files[v]
  PROVE  Content' = Content
  BY DEF Content, TypeOK

\* Every step of the catalog is a step of the version log, or none.
LEMMA LogStep ==
  ASSUME CatalogInv, [Next]_vars
  PROVE  [Log!LogNext]_<<latest, Content>>
<1>0. TypeOK /\ CallsOwn /\ Placed
  BY DEF CatalogInv
<1>1. ASSUME NEW p \in Procs, WriteVersion(p) PROVE UNCHANGED <<latest, Content>>
  <2>1. latest' = latest /\ next[p] = latest + 1
    BY <1>0, <1>1 DEF WriteVersion, Placed, PlacedFor
  <2>2. /\ \A v \in 1..latest : v \in DOMAIN files <=> v \in DOMAIN files'
        /\ \A v \in 1..latest : v \in DOMAIN files => files'[v] = files[v]
    BY <1>0, <1>1, <2>1 DEF WriteVersion, TypeOK
  <2> QED
    BY <1>0, <2>1, <2>2, TypeStep, ContentKept
<1>2. ASSUME NEW p \in Procs, UpdateLatest(p) PROVE Log!LogCommit(want[call[p]])
  <2>1. /\ latest' = latest + 1 /\ files' = files
        /\ latest + 1 \in DOMAIN files /\ files[latest + 1] = want[call[p]]
    BY <1>0, <1>2 DEF UpdateLatest, Placed, PlacedFor, TypeOK
  <2>2. Content' = Content \cup {<<latest + 1, want[call[p]]>>}
    BY <1>0, <2>1 DEF Content, TypeOK
  <2> QED
    BY <2>1, <2>2 DEF Log!LogCommit
<1>3. ASSUME NEW p \in Procs, NEW v \in DOMAIN files, DeleteVersion(p, v)
      PROVE  [Log!LogNext]_<<latest, Content>>
  <2>0. /\ latest' = latest /\ v # latest /\ v \in Nat \ {0}
        /\ files' = [w \in DOMAIN files \ {v} |-> files[w]]
    BY <1>0, <1>3 DEF DeleteVersion, TypeOK
  <2>1. CASE v <= latest
    <3>1. <<v, files[v]>> \in Content
      BY <1>0, <2>0, <2>1 DEF Content, TypeOK
    <3>2. Content' = Content \ {<<v, files[v]>>}
      BY <1>0, <2>0, <2>1 DEF Content, TypeOK
    <3> QED
      BY <2>0, <3>1, <3>2 DEF Log!LogNext, Log!LogDelete
  <2>2. CASE ~(v <= latest)
    BY <1>0, <2>0, <2>2, TypeStep, ContentKept DEF TypeOK
  <2> QED
    BY <2>1, <2>2
<1>4. CASE \/ UNCHANGED vars
           \/ \E p \in Procs :
                \/ \E c \in Payloads : CommitNext(p, c)
                \/ \E c \in Payloads, v \in Version : CommitVersion(p, c, v)
                \/ Acquire(p) \/ Reject(p) \/ Release(p) \/ Return(p) \/ Fail(p)
                \/ RecoveryStep(p)
  <2>1. latest' = latest /\ files' = files
    BY <1>4 DEF vars, disk, CommitNext, CommitVersion, Begin, Acquire,
       Reject, Release,
       Return, Fail, RecoveryStep, BeginRecovery, RecoverIntent, SkipIntent, EndRecovery
  <2> QED
    BY <2>1 DEF Content
<1>5. ASSUME NEW p \in Procs, UpdateLatest(p) PROVE Log!LogNext
  BY <1>0, <1>2, <1>5 DEF Log!LogNext, UpdateLatest, CallsOwn, Committing
<1> QED
  BY <1>1, <1>3, <1>4, <1>5 DEF Next, ProcStep, CommitStep, Exhausted

\* The files of a table implement an append-only log of versions: the catalog
\* never renumbers, rewrites or skips a version up to the pointer.
THEOREM CatalogIsVersionLog == Spec => ImplementsVersionLog
<1>1. Init => Log!LogInit
  BY DEF Init, Log!LogInit, Content
<1>2. CatalogInv /\ [Next]_vars => [Log!LogNext]_<<latest, Content>>
  BY LogStep
<1> QED
  BY CatalogCorrect, <1>1, <1>2, PTL DEF Spec, ImplementsVersionLog, Log!LogSpec
=============================================================================
