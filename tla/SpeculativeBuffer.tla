-------------------------- MODULE SpeculativeBuffer --------------------------
(***************************************************************************)
(* rhizo_core/src/transaction/speculative.rs: commits whose operations are *)
(* not yet in the confirmed state.  Probabilities are in units of 1/One.   *)
(* Time is left out: cleanup, which no code calls, drops a decided commit  *)
(* of any age.                                                             *)
(***************************************************************************)
EXTENDS LocalCommit, FiniteSets

CONSTANTS
  One,                  \* the probability of a sure conflict
  DefaultProbability,   \* default_conflict_probability
  Threshold,            \* speculation_threshold
  RateDivisor,          \* 1 / learning_rate
  MaxPending            \* max_pending_commits

ASSUME SpeculationAssumption ==
  /\ One \in Nat /\ DefaultProbability \in 0..One /\ Threshold \in 0..One
  /\ RateDivisor \in Nat \ {0} /\ MaxPending \in Nat

-----------------------------------------------------------------------------
(* ConflictProbabilityTracker *)

NewTracker == [probability |-> [k \in {} |-> 0], observations |-> 0, conflicts |-> 0]

KeyProbability(t, k) == IF k \in DOMAIN t.probability THEN t.probability[k] ELSE DefaultProbability

\* The worst of the keys; estimate_probability of no keys is the default.
EstimateProbability(t, keys) ==
  LET P == {KeyProbability(t, k) : k \in keys}
  IN IF keys = {} THEN DefaultProbability ELSE CHOOSE p \in P : \A q \in P : p >= q

\* The probability of key k after each number of operations, from none on:
\* one that names k moves it towards what was observed.
ProbabilitiesAfter(t, k, ops, conflict) ==
  LET target == IF conflict THEN One ELSE 0
      after[i \in 0..Len(ops)] ==
        IF i = 0 THEN KeyProbability(t, k)
        ELSE IF ops[i].key = k
             THEN after[i - 1] + (target - after[i - 1]) \div RateDivisor
             ELSE after[i - 1]
  IN after

\* record_observation, for every operation's key.
RecordObservation(t, ops, conflict) ==
  [probability |-> [k \in DOMAIN t.probability \cup KeysOf(ops) |->
                      ProbabilitiesAfter(t, k, ops, conflict)[Len(ops)]],
   observations |-> t.observations + 1,
   conflicts |-> t.conflicts + (IF conflict THEN 1 ELSE 0)]

\* global_conflict_rate
ConflictRate(t) ==
  IF t.observations = 0 THEN DefaultProbability ELSE (One * t.conflicts) \div t.observations

-----------------------------------------------------------------------------
(* SpeculativeBuffer *)

SpeculativeStatus == {"Pending", "Confirmed", "Aborted"}

\* TentativeCommit::new
TentativeCommit(id, u, p) == [id |-> id, update |-> u, probability |-> p, status |-> "Pending"]

NewBuffer == [commits |-> <<>>,                 \* pending_commits, decided ones too
              tentative |-> [k \in {} |-> 0],   \* state: key -> commit that wrote it last
              nextId |-> 1,
              tracker |-> NewTracker]

\* Mutant: only the odds decide.
ShouldSpeculateByOdds(b, keys) == EstimateProbability(b.tracker, keys) < Threshold

\* The length counts the decided commits that cleanup has not dropped.
ShouldSpeculate(b, keys) ==
  /\ Len(b.commits) < MaxPending
  /\ EstimateProbability(b.tracker, keys) < Threshold

AddSpeculative(b, u) ==
  LET keys == KeysOf(u.operations)
      commit == TentativeCommit(b.nextId, u, EstimateProbability(b.tracker, keys))
  IN [b EXCEPT !.commits = Append(@, commit),
               !.nextId = @ + 1,
               !.tentative = [k \in DOMAIN @ \cup keys |->
                                IF k \in keys THEN commit.id ELSE @[k]]]

\* Mutant: a decided commit can be decided again.
IsKnown(b, id) == \E i \in DOMAIN b.commits : b.commits[i].id = id

IsPending(b, id) == \E i \in DOMAIN b.commits : b.commits[i].id = id /\ b.commits[i].status = "Pending"
CommitOf(b, id) == b.commits[CHOOSE i \in DOMAIN b.commits : b.commits[i].id = id]

\* What confirm and rollback have in common: the status, the observation, and
\* the tentative values that are still this commit's.
Decide(b, id, status) ==
  [b EXCEPT !.commits = [i \in DOMAIN @ |-> IF @[i].id = id THEN [@[i] EXCEPT !.status = status] ELSE @[i]],
            !.tracker = RecordObservation(@, CommitOf(b, id).update.operations, status = "Aborted"),
            !.tentative = [k \in {j \in DOMAIN @ : @[j] # id} |-> @[k]]]

Confirm(b, id) == IF IsPending(b, id) THEN Decide(b, id, "Confirmed") ELSE b
Rollback(b, id) == IF IsPending(b, id) THEN Decide(b, id, "Aborted") ELSE b

\* check_conflict: the commit touches a key of the confirmed state.
CheckConflict(b, id, confirmed) ==
  /\ \E i \in DOMAIN b.commits : b.commits[i].id = id
  /\ KeysOf(CommitOf(b, id).update.operations) \cap confirmed # {}

PendingIds(b) == {b.commits[i].id : i \in {j \in DOMAIN b.commits : b.commits[j].status = "Pending"}}
PendingCount(b) == Cardinality(PendingIds(b))
=============================================================================
