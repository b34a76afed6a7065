--------------------------- MODULE SimulatedCluster ---------------------------
(***************************************************************************)
(* rhizo_core/src/distributed/simulation.rs: nodes that commit locally and *)
(* gossip their updates in rounds, over links that drop, delay, duplicate  *)
(* and partition.  One thread drives the cluster, so broadcast_all and a   *)
(* delivery are single steps; commits, partitions and requeues come        *)
(* between them.  The rounds of a run are those of one of the two loops:   *)
(* propagate_all, or propagate_all_adversarial, whose generator of random  *)
(* numbers is the choice of a fate for each message.  A driver that steps  *)
(* in between two rounds has made them one by one, or begins a new loop.   *)
(* Statistics are left out, but for rounds_to_converge.                    *)
(***************************************************************************)
EXTENDS NodeState
LOCAL INSTANCE SequencesExt

CONSTANTS
  Transactions,   \* what the nodes may be asked to commit
  MaxDelay,       \* AdversarialConfig::max_delay
  RequeueInterval,\* rounds between two requeues of that loop
  MaxCommits,     \* bound on commits
  MaxEvents       \* bound on links partitioned, messages dropped, delayed or
                  \* duplicated, and requeues called from outside

ASSUME BoundAssumption ==
  /\ MaxDelay \in Nat /\ MaxCommits \in Nat /\ MaxEvents \in Nat
  /\ RequeueInterval \in Nat \ {0}
\* Nodes are places in the vector of the cluster, from 1 here.
ASSUME NodeAssumption == IsFiniteSet(NodeId) /\ NodeId = 1..Cardinality(NodeId)
ASSUME TransactionAssumption == Transactions \subseteq Seq(AlgebraicOperation)

VARIABLES
  adversarial,\* the rounds are those of propagate_all_adversarial
  nodes,      \* the SimulatedNode of each node
  messages,   \* messages queued for delivery, in order
  partitions, \* config.partitions, as sets of two nodes
  hadMessages,\* had_messages of the round that was begun, "none" between rounds
  round,      \* round_num of the adversarial loop, from its last requeue
  converged,  \* stats.rounds_to_converge was set by the last round
  lost,       \* history: a message was lost since everything was requeued
  commits, events  \* what the bounds limit

vars == <<adversarial, nodes, messages, partitions, hadMessages, round, converged,
          lost, commits, events>>

IsPartitioned(m, n) == {m, n} \in partitions

-----------------------------------------------------------------------------
(* Nodes *)

\* SimulatedNode::new; local_updates is read by nobody and left out.
NewNode == [clock |-> EmptyClock,       \* vector clock
            state |-> EmptyState,       \* operation type and value of each key
            applied |-> {},             \* applied_updates: their identifiers
            all |-> <<>>,               \* all_updates: the updates applied, in order
            outbox |-> <<>>]            \* updates to gossip

\* generate_update_id: origin and clock.
UpdateId(u) == <<u.origin, u.clock>>

\* The state apply_update leaves: an operation of another type, or one that
\* does not merge, is dropped without a word.
StateWith(s, u) == StatesAfter(s, u.operations)[Len(u.operations)]

\* Mutant: the clock of the update is not merged.
ApplyStateOnly(node, u) == [node EXCEPT !.state = StateWith(@, u)]

ApplyUpdate(node, u) ==
  [node EXCEPT !.state = StateWith(@, u),
               !.clock = MergeClocks(@, u.clock)]

\* The bookkeeping commit and receive_update share.
Track(node, u) ==
  [node EXCEPT !.applied = @ \cup {UpdateId(u)},
               !.all = Append(@, u),
               !.outbox = Append(@, u)]

\* Mutant: an update is applied as often as it arrives.
ReceiveEvery(node, u) == Track(ApplyUpdate(node, u), u)

\* receive_update skips what was applied before.
ReceiveUpdate(node, u) ==
  IF UpdateId(u) \in node.applied THEN node ELSE Track(ApplyUpdate(node, u), u)

-----------------------------------------------------------------------------
(* The cluster *)

\* commit_on_node; the clock of the update has the tick of commit_local.
Commit(n, tx) ==
  LET r == CommitLocal(tx, n, nodes[n].clock)
  IN /\ commits < MaxCommits /\ hadMessages = "none"
     /\ r.ok
     /\ nodes' = [nodes EXCEPT ![n] = Track(ApplyUpdate(@, r.update), r.update)]
     /\ commits' = commits + 1
     /\ converged' = FALSE /\ round' = 0
     /\ UNCHANGED <<adversarial, messages, partitions, hadMessages, lost, events>>

Message(from, to, u) == [from |-> from, to |-> to, update |-> u, delay |-> 0]

\* The messages of one node's outbox: a copy for every peer it is linked to.
\* An update no link is up for leaves the outbox all the same.
Copies(n, u) ==
  FlattenSeq([m \in NodeId |->
    IF m # n /\ ~IsPartitioned(n, m) THEN <<Message(n, m, u)>> ELSE <<>>])
Outgoing(n) ==
  FlattenSeq([i \in DOMAIN nodes[n].outbox |-> Copies(n, nodes[n].outbox[i])])

\* A link is down when the outbox of one of its nodes is emptied.
LostInBroadcast ==
  \E m, n \in NodeId : m # n /\ IsPartitioned(n, m) /\ nodes[n].outbox # <<>>

\* The first half of a round of either loop: broadcast_all.  What is queued
\* for delivery counts as had_messages in the adversarial loop alone.
BroadcastAll ==
  /\ hadMessages = "none"
  /\ hadMessages' = IF \/ \E n \in NodeId : nodes[n].outbox # <<>>
                       \/ adversarial /\ messages # <<>>
                    THEN "yes" ELSE "no"
  /\ lost' = (lost \/ LostInBroadcast)
  /\ messages' = messages \o FlattenSeq([n \in NodeId |-> Outgoing(n)])
  /\ nodes' = [n \in NodeId |-> [nodes[n] EXCEPT !.outbox = <<>>]]
  /\ UNCHANGED <<adversarial, partitions, round, converged, commits, events>>

\* What becomes of one message in deliver_messages_adversarial: a partition
\* that came up since the broadcast takes it, what is still delayed waits,
\* and the rest is open to the fates of the generator.  In deliver_messages
\* no message is delayed and all of the rest arrives.
Fates == {"arrives", "dropped", "delayed", "duplicated"}
Exposed(m) == ~IsPartitioned(m.from, m.to) /\ m.delay = 0

DeliverOne(acc, m, fate, d) ==
  CASE IsPartitioned(m.from, m.to) -> acc
    [] ~IsPartitioned(m.from, m.to) /\ m.delay > 0 ->
         [acc EXCEPT !.delayed = Append(@, [m EXCEPT !.delay = @ - 1])]
    [] Exposed(m) /\ fate = "dropped" -> acc
    [] Exposed(m) /\ fate = "delayed" ->
         [acc EXCEPT !.delayed = Append(@, [m EXCEPT !.delay = d])]
    [] Exposed(m) /\ fate \in {"arrives", "duplicated"} ->
         [acc EXCEPT !.nodes[m.to] = ReceiveUpdate(@, m.update),
                     !.again = IF fate = "duplicated" THEN Append(@, m) ELSE @]

\* Mutant: what was sent once is not sent again.
NothingRequeued(ns) == ns

\* Everything a node knows goes back to its outbox: requeue_all_updates.
Requeued(ns) == [n \in NodeId |-> [ns[n] EXCEPT !.outbox = @ \o ns[n].all]]

\* verify_convergence: every key any node knows has one value everywhere.
VerifyConvergence(ns) ==
  \A m, n \in NodeId :
    /\ DOMAIN ns[m].state = DOMAIN ns[n].state
    /\ \A k \in DOMAIN ns[m].state : ns[m].state[k].value = ns[n].state[k].value

\* The nodes, and what is queued again, after each number of messages of which
\* only the one at i is at fault.
Delivered(i, fate, d) ==
  LET after[j \in 0..Len(messages)] ==
        IF j = 0 THEN [nodes |-> nodes, delayed |-> <<>>, again |-> <<>>]
        ELSE DeliverOne(after[j - 1], messages[j], IF j = i THEN fate ELSE "arrives", d)
  IN after

\* A message is lost in a delivery in which the one at i meets this fate.
LostInDelivery(i, fate) ==
  \E j \in DOMAIN messages :
    \/ IsPartitioned(messages[j].from, messages[j].to)
    \/ j = i /\ fate = "dropped"

\* The requeue of propagate_all_adversarial; propagate_all has none.
RequeueIsDue == adversarial /\ round = RequeueInterval

\* The second half: the messages are delivered, at most one of them at fault;
\* the delayed ones and the duplicates are queued again; a requeue may be due;
\* and the loop ends when there had been nothing to send and the nodes agree.
DeliverMessages(i, fate, d) ==
  LET acc == Delivered(i, fate, d)[Len(messages)]
  IN /\ hadMessages # "none"
     /\ messages' = acc.delayed \o acc.again
     /\ nodes' = IF RequeueIsDue THEN Requeued(acc.nodes) ELSE acc.nodes
     /\ lost' = (~RequeueIsDue /\ (lost \/ LostInDelivery(i, fate)))
     /\ converged' = (hadMessages = "no" /\ VerifyConvergence(acc.nodes))
     /\ round' = IF converged' \/ ~adversarial THEN 0
                 ELSE (round % RequeueInterval) + 1
     /\ hadMessages' = "none"
     /\ UNCHANGED <<adversarial, partitions, commits>>

Deliver == DeliverMessages(0, "arrives", 0) /\ UNCHANGED events

DeliverWithFault ==
  /\ adversarial /\ events < MaxEvents
  /\ \E i \in DOMAIN messages, fate \in Fates \ {"arrives"}, d \in 1..MaxDelay :
       Exposed(messages[i]) /\ DeliverMessages(i, fate, d)
  /\ events' = events + 1

Partition(m, n) ==
  /\ m < n /\ {m, n} \notin partitions /\ events < MaxEvents
  /\ partitions' = partitions \cup {{m, n}}
  /\ events' = events + 1 /\ round' = 0
  /\ UNCHANGED <<adversarial, nodes, messages, hadMessages, converged, lost, commits>>

HealPartitions ==
  /\ partitions # {}
  /\ partitions' = {} /\ round' = 0
  /\ UNCHANGED <<adversarial, nodes, messages, hadMessages, converged, lost, commits, events>>

RequeueAllUpdates ==
  /\ events < MaxEvents
  /\ nodes' = Requeued(nodes) /\ lost' = FALSE
  /\ events' = events + 1 /\ round' = 0
  /\ UNCHANGED <<adversarial, messages, partitions, hadMessages, converged, commits>>

Init ==
  /\ adversarial \in BOOLEAN
  /\ nodes = [n \in NodeId |-> NewNode]
  /\ messages = <<>> /\ partitions = {}
  /\ hadMessages = "none" /\ round = 0 /\ converged = FALSE /\ lost = FALSE
  /\ commits = 0 /\ events = 0

Next ==
  \/ \E n \in NodeId, tx \in Transactions : Commit(n, tx)
  \/ BroadcastAll \/ Deliver \/ DeliverWithFault
  \/ \E m, n \in NodeId : Partition(m, n)
  \/ HealPartitions
  \/ RequeueAllUpdates

Spec == Init /\ [][Next]_vars

\* A round that can begin or end does: these are the halves of
\* propagate_round, of which one is always possible.
RoundGoesOn ==
  \/ hadMessages = "none" /\ hadMessages' \in {"yes", "no"}
  \/ hadMessages # "none" /\ hadMessages' = "none"

\* The loop goes on for as many rounds as it needs: max_rounds is 100 unless
\* the caller chose another number, RequeueInterval 10.  When it converged, or
\* when the rounds are used up, the caller calls it again.  Faults are limited
\* by MaxEvents.
FairSpec == Spec /\ WF_hadMessages(RoundGoesOn)

-----------------------------------------------------------------------------
(* Properties *)

Updates == UNION {ToSet(nodes[n].all) : n \in NodeId}
IsMessage(m) ==
  /\ m.from \in NodeId /\ m.to \in NodeId \ {m.from}
  /\ m.delay \in 0..MaxDelay /\ IsUpdate(m.update)

\* Types of the variables.
TypeOK ==
  /\ \A n \in NodeId :
       /\ IsClock(nodes[n].clock) /\ IsState(nodes[n].state)
       /\ \A i \in DOMAIN nodes[n].all : IsUpdate(nodes[n].all[i])
       /\ ToSet(nodes[n].outbox) \subseteq ToSet(nodes[n].all)
  /\ \A i \in DOMAIN messages : IsMessage(messages[i])
  /\ partitions \subseteq SUBSET NodeId
  /\ adversarial \in BOOLEAN /\ converged \in BOOLEAN /\ lost \in BOOLEAN
  /\ round \in 0..RequeueInterval
  /\ hadMessages \in {"none", "yes", "no"}
  /\ commits <= MaxCommits /\ events <= MaxEvents

\* The operations on key k in a set of updates: an update and a place in it.
OperationsOn(us, k) ==
  UNION {{u} \X {i \in DOMAIN u.operations : u.operations[i].key = k} : u \in us}

\* A node's value of a key is the sum, maximum or union of the operations in
\* the updates it has, each counted once, whatever order, duplication or
\* detour brought them (simulation.rs:239 and 263).
StateIsMergeOfUpdates ==
  \A n \in NodeId, k \in Keys :
    LET ops == OperationsOn(ToSet(nodes[n].all), k)
        s == nodes[n].state
    IN /\ k \in DOMAIN s <=> ops # {}
       /\ k \in DOMAIN s =>
            /\ \A o \in ops : o[1].operations[o[2]].op = s[k].op
            /\ s[k].value = Combined(s[k].op, [o \in ops |-> o[1].operations[o[2]].value[2]])

\* Nodes that applied the same updates hold the same state: the convergence
\* theorem of local_commit.rs:18, which simulation.rs sets out to validate.
SameUpdatesSameState ==
  \A m, n \in NodeId : nodes[m].applied = nodes[n].applied => nodes[m].state = nodes[n].state

\* No node has heard of more commits of m than m made, and every commit has
\* an identifier of its own: m has applied as many updates of its own as its
\* clock counts (simulation.rs:286, the deduplication key).
ClockBound ==
  \A m, n \in NodeId : Time(nodes[n].clock, m) <= Time(nodes[m].clock, m)
IdsTellCommitsApart ==
  \A n \in NodeId :
    Cardinality({id \in nodes[n].applied : id[1] = <<n>>}) = Time(nodes[n].clock, n)

\* Clocks order updates exactly as causality does: an update comes before a
\* commit of node n just when it is one n had applied by then, or comes before
\* one (vector_clock.rs:201, simulation.rs:259).
CausalOrderIsExact ==
  \A n \in NodeId : \A j \in DOMAIN nodes[n].all :
    LET v == nodes[n].all[j]
        past == {nodes[n].all[i] : i \in 1..(j - 1)}
    IN v.origin = <<n>> =>
         \A u \in Updates :
           CompareUpdates(u, v) = "Before"
             <=> \E w \in past : u = w \/ CompareUpdates(u, w) = "Before"

\* The clocks of the cluster tell the truth about who has heard of what.
ClusterInv == TypeOK /\ ClockBound /\ IdsTellCommitsApart /\ CausalOrderIsExact

\* Once the links stay up, every update reaches every node, unless it was
\* lost since everything was requeued: delays, duplicates and what was lost
\* before only postpone it (simulation.rs:570, requeue_all_updates).  And the
\* adversarial loop brings the values to agree for good, whatever was lost
\* (simulation.rs:503): it does not stop at an update lost on the way unless
\* the values happen to agree without it, which ConvergedMeansMerged is about.
EventuallyConverges ==
  <>[](partitions = {}) =>
    <>[](/\ ~lost => \A m, n \in NodeId : nodes[m].applied = nodes[n].applied
         /\ adversarial => VerifyConvergence(nodes))

\* "In adversarial mode, messages may be dropped ... We simulate this by
\* requeuing all updates every `requeue_interval` rounds" (simulation.rs:505):
\* when the loop says that the nodes converged, every node holds the merge of
\* all updates.  The code compares the values alone, before any requeue.
ConvergedMeansMerged ==
  converged /\ partitions = {} =>
    \A n \in NodeId : \A k \in DOMAIN nodes[n].state :
      LET ops == OperationsOn(Updates, k)
          s == nodes[n].state[k]
      IN s.value = Combined(s.op, [o \in ops |-> o[1].operations[o[2]].value[2]])
=============================================================================
