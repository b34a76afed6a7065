--------------------------- MODULE CoordinationFree ---------------------------
(***************************************************************************)
(* rhizo_core/src/transaction/coordination_free.rs: the threads that share *)
(* a CoordinationFreeManager.  Each step is a section under one lock: the  *)
(* clock (held by a commit until it ends), the confirmed state, the        *)
(* committed updates, the speculative buffer, the escrow.  Calls that      *)
(* change nothing, refused ones and queries, are left out.                 *)
(***************************************************************************)
EXTENDS NodeState, SpeculativeBuffer, Escrow
LOCAL INSTANCE SequencesExt

CONSTANTS
  Threads, NoThread,
  Self,             \* node_id
  Transactions,     \* what callers commit
  RemoteUpdates,    \* what comes from other nodes, once or more
  MaxCalls          \* bound on calls

\* What arrives comes from other nodes: no update of this node comes back.
ASSUME ManagerAssumption ==
  /\ Self \in NodeId /\ NoThread \notin Threads /\ MaxCalls \in Nat
  /\ Transactions \subseteq Seq(AlgebraicOperation)
  /\ \A u \in RemoteUpdates : IsUpdate(u) /\ u.origin # <<Self>>

VARIABLES
  clock, state, committed, buffer,
  clockOwner,       \* thread in the write lock of the clock
  pc, work,         \* where a thread is, and the update or transaction it is on
  calls,
  applied           \* every operation merged into the state, with its update

managerVars == <<clock, state, committed, buffer, applied>>
threadVars == <<clockOwner, pc, work, calls>>
vars == <<clock, state, committed, buffer, applied, clockOwner, pc, work, calls, escrow, granted>>

Idle == [call |-> "none"]

Begin(t, next, w) ==
  /\ pc[t] = "idle" /\ calls < MaxCalls
  /\ calls' = calls + 1
  /\ pc' = [pc EXCEPT ![t] = next]
  /\ work' = [work EXCEPT ![t] = w]

Goto(t, next) == pc' = [pc EXCEPT ![t] = next] /\ UNCHANGED calls

\* Mutant: the lock of the clock is not given back.
EndWithLock(t) ==
  /\ pc' = [pc EXCEPT ![t] = "idle"]
  /\ work' = [work EXCEPT ![t] = Idle]
  /\ UNCHANGED <<clockOwner, calls>>

\* A thread that ends drops the lock of the clock, if it has it.
End(t) ==
  /\ pc' = [pc EXCEPT ![t] = "idle"]
  /\ work' = [work EXCEPT ![t] = Idle]
  /\ clockOwner' = IF clockOwner = t THEN NoThread ELSE clockOwner
  /\ UNCHANGED calls

\* commit_local of LocalCommitProtocol, under the lock of the clock.
TickClock(t, tx) ==
  /\ clockOwner = NoThread
  /\ clockOwner' = t
  /\ clock' = ClockAfterCommit(tx, Self, clock)

\* commit_local
BeginCommit(t, tx) ==
  /\ CanCommitLocally(tx)
  /\ TickClock(t, tx)
  /\ Begin(t, "apply", [call |-> "commit", update |-> CommitLocal(tx, Self, clock).update])
  /\ UNCHANGED <<state, committed, buffer, applied, escrowVars>>

\* Mutant: the clock of what arrives is not merged.
BeginReceiveWithoutClock(t, u) ==
  /\ clockOwner = NoThread
  /\ Begin(t, "apply", [call |-> "receive", update |-> u])
  /\ UNCHANGED <<clock, state, committed, buffer, applied, clockOwner, escrowVars>>

\* receive_update merges the clock and lets it go before it applies.
BeginReceive(t, u) ==
  /\ clockOwner = NoThread
  /\ clock' = MergeClocks(clock, u.clock)
  /\ Begin(t, "apply", [call |-> "receive", update |-> u])
  /\ UNCHANGED <<state, committed, buffer, applied, clockOwner, escrowVars>>

\* commit_with_speculation decides on what it reads of the buffer.
BeginSpeculation(t, tx) ==
  /\ CanCommitLocally(tx)
  /\ Begin(t, "tick", [call |-> IF ShouldSpeculate(buffer, KeysOf(tx)) THEN "speculate" ELSE "commit",
                       tx |-> tx])
  /\ UNCHANGED <<managerVars, clockOwner, escrowVars>>

TakeTick(t) ==
  /\ pc[t] = "tick"
  /\ TickClock(t, work[t].tx)
  /\ Goto(t, IF work[t].call = "speculate" THEN "buffer" ELSE "apply")
  /\ work' = [work EXCEPT ![t] = [call |-> @.call, update |-> CommitLocal(@.tx, Self, clock).update]]
  /\ UNCHANGED <<state, committed, buffer, applied, escrowVars>>

\* Mutant: a speculative commit goes on to the confirmed state.
SpeculateAndApply(t) ==
  /\ pc[t] = "buffer"
  /\ buffer' = AddSpeculative(buffer, work[t].update)
  /\ Goto(t, "apply")
  /\ UNCHANGED <<clock, state, committed, applied, work, clockOwner, escrowVars>>

Speculate(t) ==
  /\ pc[t] = "buffer"
  /\ buffer' = AddSpeculative(buffer, work[t].update)
  /\ End(t)
  /\ UNCHANGED <<clock, state, committed, applied, escrowVars>>

\* apply_update_to_state; an error ends the call with the state half done.
Apply(t) ==
  LET r == ApplyUpdateToState(state, work[t].update)
      merged == [i \in 1..r.done |-> [update |-> work[t].update, op |-> work[t].update.operations[i]]]
  IN /\ pc[t] = "apply"
     /\ state' = r.state
     /\ applied' = applied \o merged
     /\ IF r.ok /\ work[t].call # "receive"
        THEN Goto(t, "push") /\ UNCHANGED <<work, clockOwner>>
        ELSE End(t)
     /\ UNCHANGED <<clock, committed, buffer, escrowVars>>

Push(t) ==
  /\ pc[t] = "push"
  /\ committed' = Append(committed, work[t].update)
  /\ End(t)
  /\ UNCHANGED <<clock, state, buffer, applied, escrowVars>>

\* confirm_speculative takes the commit out of the buffer before it applies it.
ConfirmSpeculative(t, id) ==
  /\ IsPending(buffer, id)
  /\ buffer' = Confirm(buffer, id)
  /\ Begin(t, "apply", [call |-> "confirm", update |-> CommitOf(buffer, id).update])
  /\ UNCHANGED <<clock, state, committed, applied, clockOwner, escrowVars>>

RollbackSpeculative(t, id) ==
  /\ IsPending(buffer, id)
  /\ buffer' = Rollback(buffer, id)
  /\ Begin(t, "idle", Idle)
  /\ UNCHANGED <<clock, state, committed, applied, clockOwner, escrowVars>>

\* check_pending_conflicts, against the keys of the confirmed state.
CheckPendingConflicts == [id \in PendingIds(buffer) |-> CheckConflict(buffer, id, DOMAIN state)]

\* register_escrow_resource, consume_escrow and replenish_escrow pass on to the
\* EscrowManager; resizing is for its owner.
UseEscrow(t) ==
  /\ Begin(t, "idle", Idle)
  /\ EscrowNext
  /\ UNCHANGED <<managerVars, clockOwner>>

Init ==
  /\ clock = EmptyClock /\ state = EmptyState /\ committed = <<>> /\ buffer = NewBuffer
  /\ clockOwner = NoThread
  /\ pc = [t \in Threads |-> "idle"] /\ work = [t \in Threads |-> Idle]
  /\ calls = 0 /\ applied = <<>>
  /\ EscrowInit

Step(t) == TakeTick(t) \/ Speculate(t) \/ Apply(t) \/ Push(t)

Next == \E t \in Threads :
  \/ Step(t)
  \/ \E tx \in Transactions : BeginCommit(t, tx) \/ BeginSpeculation(t, tx)
  \/ \E u \in RemoteUpdates : BeginReceive(t, u)
  \/ \E id \in 1..(buffer.nextId - 1) : ConfirmSpeculative(t, id) \/ RollbackSpeculative(t, id)
  \/ UseEscrow(t)

Spec == Init /\ [][Next]_vars
FairSpec == Spec /\ \A t \in Threads : WF_pc(Step(t))

-----------------------------------------------------------------------------
(* Properties *)

\* Types of the variables.
TypeOK ==
  /\ EscrowTypeOK
  /\ IsClock(clock) /\ IsState(state)
  /\ \A i \in DOMAIN committed : IsUpdate(committed[i])
  /\ \A i \in DOMAIN buffer.commits :
       /\ buffer.commits[i].id = i /\ buffer.commits[i].status \in SpeculativeStatus
       /\ IsUpdate(buffer.commits[i].update) /\ buffer.commits[i].probability \in 0..One
  /\ \A k \in DOMAIN buffer.tracker.probability : buffer.tracker.probability[k] \in 0..One
  /\ buffer.nextId = Len(buffer.commits) + 1
  /\ clockOwner \in Threads \cup {NoThread}
  /\ pc \in [Threads -> {"idle", "tick", "buffer", "apply", "push"}]
  /\ calls \in 0..MaxCalls

CommitsWith(status) == {buffer.commits[i].update :
                          i \in {j \in DOMAIN buffer.commits : buffer.commits[j].status = status}}
AppliedOf(u) == {i \in DOMAIN applied : applied[i].update = u}

\* The visibility invariant (speculative.rs:313): nothing of a commit that is
\* pending, or was rolled back, has reached the state that reads see.
SpeculationInvisible ==
  \A u \in CommitsWith("Pending") \cup CommitsWith("Aborted") :
    AppliedOf(u) = {} /\ \A i \in DOMAIN committed : committed[i] # u

\* An update of this node is listed as committed at most once, and just when
\* every one of its operations is in the state, once: also when confirming,
\* rolling back and committing race, and when operations fail to merge
\* (coordination_free.rs:226, 485).
AllApplied(u) == Cardinality(AppliedOf(u)) = Len(u.operations)
CommittedOnce ==
  \A i \in DOMAIN committed :
    AllApplied(committed[i]) /\ \A j \in DOMAIN committed : committed[i] = committed[j] => i = j
ConfirmedIsCommitted ==
  \A u \in CommitsWith("Confirmed") :
    (\A t \in Threads : work[t].call = "confirm" => work[t].update # u)
      => (AllApplied(u) <=> \E i \in DOMAIN committed : committed[i] = u)

\* What is visible of a key does not depend on the order in which threads
\* merged their operations: it is their sum, maximum or union.
Contents(k) == {i \in DOMAIN applied : applied[i].op.key = k}
StateIsMergeOfApplied ==
  \A k \in Keys :
    /\ k \in DOMAIN state <=> Contents(k) # {}
    /\ k \in DOMAIN state =>
         /\ \A i \in Contents(k) : applied[i].op.op = state[k].op
         /\ state[k].value = Combined(state[k].op, [i \in Contents(k) |-> applied[i].op.value[2]])

\* Each commit counts once, and in whatever order.
CommitsCountOnce == CommittedOnce /\ ConfirmedIsCommitted /\ StateIsMergeOfApplied

\* The clock covers what is visible: whatever update an operation in the state
\* came from, a commit that starts now is ordered after it (vector_clock.rs:201).
ClockCoversState == \A i \in DOMAIN applied : ~Below(clock, applied[i].update.clock)

\* No two commits of this node have the same own tick, and none has one the
\* clock has not reached, however its threads interleave: the identity of an
\* update.  A commit that fails leaves its tick unused.
OwnUpdates ==
  {applied[i].update : i \in {j \in DOMAIN applied : applied[j].update.origin = <<Self>>}}
    \cup {buffer.commits[i].update : i \in DOMAIN buffer.commits}
    \cup {work[t].update : t \in {x \in Threads : "update" \in DOMAIN work[x]
                                     /\ work[x].call # "receive"}}
TicksIdentifyCommits ==
  /\ \A u, v \in OwnUpdates : Time(u.clock, Self) = Time(v.clock, Self) => u = v
  /\ \A u \in OwnUpdates : Time(u.clock, Self) \in 1..Time(clock, Self)

\* The clock of the manager, whatever its threads do between its locks.
ManagerInv == TypeOK /\ ClockCoversState /\ TicksIdentifyCommits

\* The commits that await a decision exceed the limit by no more than the
\* threads that read the buffer before it filled (speculative.rs:369).
PendingNearLimit == PendingCount(buffer) <= MaxPending + Cardinality(Threads) - 1

\* check_pending_conflicts is on the safe side: a commit it clears can be
\* confirmed now without an error (coordination_free.rs:534).
ClearedCanConfirm ==
  \A id \in PendingIds(buffer) :
    ~CheckPendingConflicts[id] => ApplyUpdateToState(state, CommitOf(buffer, id).update).ok

\* Speculation stays within bounds, and a caller may trust the check.
PendingCanBeDecided == PendingNearLimit /\ ClearedCanConfirm

\* A call ends: no thread waits for the clock for ever.
CallsEnd == \A t \in Threads : pc[t] # "idle" ~> pc[t] = "idle"
=============================================================================
