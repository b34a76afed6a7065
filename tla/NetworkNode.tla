----------------------------- MODULE NetworkNode -----------------------------
(***************************************************************************)
(* rhizo_core/src/distributed/network.rs: nodes that commit locally and    *)
(* send every update to their peers over TCP.  A node runs a task for each *)
(* peer, which writes the updates it takes from a bounded broadcast queue, *)
(* and a handler for each connection it accepted.  A connection may break  *)
(* at any moment; what its handler had not received is then gone.  Hello,  *)
(* Ping and statistics change no state and are left out, like what a task  *)
(* reads from its peer: no handler writes an update.                       *)
(***************************************************************************)
EXTENDS NodeState, FiniteSets
LOCAL INSTANCE SequencesExt
LOCAL INSTANCE FiniteSetsExt

CONSTANTS
  Transactions,   \* what callers commit
  Capacity,       \* of the broadcast channel, 1000 in the code
  MaxCommits,     \* bound on commits
  MaxBreaks,      \* bound on connections that break
  NoUpdate

\* VectorClock and VersionedUpdate
Clock == UNION {[heard -> Nat] : heard \in SUBSET NodeId}
Update == [operations : Transactions, clock : Clock, origin : {<<n>> : n \in NodeId}]

ASSUME NetworkAssumption ==
  /\ Capacity \in Nat \ {0} /\ MaxCommits \in Nat /\ MaxBreaks \in Nat
  /\ Transactions \subseteq Seq(AlgebraicOperation) /\ NoUpdate \notin Update

VARIABLES
  clock, state,   \* the CoordinationFreeManager of each node
  committed,      \* its committed_updates
  unsent,         \* updates of commit_and_broadcast calls that have yet to send them
  queue, lagged,  \* what each peer task has yet to receive, and if it missed some
  link,           \* the connection of each peer task, 0 when it has none
  streams,        \* every connection there was
  applied,        \* the updates each node applied, in order
  lost,           \* updates, and the peers that will never get or have refused them
  breaks

vars == <<clock, state, committed, unsent, queue, lagged, link, streams, applied, lost, breaks>>
managerVars == <<clock, state, committed, applied>>

\* A peer task, by its node and the peer it connects to.
Tasks == {task \in NodeId \X NodeId : task[1] # task[2]}
Own(task, u) == u.origin = <<task[1]>>

\* update_tx.send on node n: every receiver of n gets the update, and one that
\* is behind by more than the capacity loses its oldest.
Full(task) == Len(queue[task]) = Capacity

Send(n, u) ==
  /\ queue' = [task \in Tasks |->
       IF task[1] # n THEN queue[task]
       ELSE Append(IF Full(task) THEN Tail(queue[task]) ELSE queue[task], u)]
  /\ lagged' = lagged \cup {task \in Tasks : task[1] = n /\ Full(task)}

\* What a send of n takes from receivers that would have written it.
Overwritten(n) ==
  {<<Head(queue[task]), task[2]>> :
     task \in {t \in Tasks : t[1] = n /\ Full(t) /\ Own(t, Head(queue[t]))}}

\* What MaxCommits bounds.
CommitsTried == MapThenSumSet(LAMBDA n : Time(clock[n], n), NodeId)

\* commit_and_broadcast: manager.commit_local, then the broadcast.  The clock
\* has ticked and operations are applied when one of them does not merge.
CommitLocally(n, tx) ==
  LET r == CommitLocal(tx, n, clock[n])
      done == ApplyUpdateToState(state[n], r.update)
  IN /\ r.ok /\ CommitsTried < MaxCommits
     /\ clock' = [clock EXCEPT ![n] = r.update.clock]
     /\ state' = [state EXCEPT ![n] = done.state]
     /\ \/ /\ done.ok
           /\ committed' = [committed EXCEPT ![n] = Append(@, r.update)]
           /\ applied' = [applied EXCEPT ![n] = Append(@, r.update)]
           /\ unsent' = unsent \cup {r.update}
        \/ ~done.ok /\ UNCHANGED <<committed, applied, unsent>>
     /\ UNCHANGED <<queue, lagged, link, streams, lost, breaks>>

Broadcast(n, u) ==
  /\ u \in unsent /\ u.origin = <<n>>
  /\ unsent' = unsent \ {u}
  /\ Send(n, u)
  /\ lost' = lost \cup Overwritten(n)
  /\ UNCHANGED <<managerVars, link, streams, breaks>>

\* Mutant: a new connection begins with all that was committed.
ConnectAndResend(task) ==
  /\ link[task] = 0
  /\ streams' = Append(streams, [to |-> task[2], data |-> committed[task[1]], open |-> TRUE,
                                 handling |-> NoUpdate])
  /\ link' = [link EXCEPT ![task] = Len(streams) + 1]
  /\ UNCHANGED <<managerVars, unsent, queue, lagged, lost, breaks>>

\* connect_to_peers: a task without a connection tries to get one.
Connect(task) ==
  /\ link[task] = 0
  /\ streams' = Append(streams, [to |-> task[2], data |-> <<>>, open |-> TRUE, handling |-> NoUpdate])
  /\ link' = [link EXCEPT ![task] = Len(streams) + 1]
  /\ UNCHANGED <<managerVars, unsent, queue, lagged, lost, breaks>>

\* handle_peer_connection: the next update of the queue is written, if it is
\* this node's own.  On a broken connection it goes nowhere, and the write
\* may fail, which ends the connection, or not yet.
TakeNext(task) ==
  /\ link[task] # 0 /\ task \notin lagged /\ queue[task] # <<>>
  /\ queue' = [queue EXCEPT ![task] = Tail(@)]
  /\ UNCHANGED <<managerVars, unsent, lagged, breaks>>

SkipForeign(task) ==
  /\ TakeNext(task) /\ ~Own(task, Head(queue[task]))
  /\ UNCHANGED <<link, streams, lost>>

Write(task) ==
  /\ TakeNext(task) /\ Own(task, Head(queue[task]))
  /\ streams[link[task]].open
  /\ streams' = [streams EXCEPT ![link[task]].data = Append(@, Head(queue[task]))]
  /\ UNCHANGED <<link, lost>>

WriteToBroken(task) ==
  /\ TakeNext(task) /\ Own(task, Head(queue[task]))
  /\ ~streams[link[task]].open
  /\ lost' = lost \cup {<<Head(queue[task]), task[2]>>}
  /\ link' \in {link, [link EXCEPT ![task] = 0]}
  /\ UNCHANGED streams

\* Mutant: a task that missed updates stays where it is.
DisconnectBroken(task) ==
  /\ link[task] # 0
  /\ ~streams[link[task]].open
  /\ link' = [link EXCEPT ![task] = 0]
  /\ UNCHANGED <<managerVars, unsent, queue, lagged, streams, lost, breaks>>

\* The read half sees that the connection is closed, or recv that the task
\* lagged behind; the loop of connect_to_peers goes on to reconnect.
Disconnect(task) ==
  /\ link[task] # 0
  /\ \/ ~streams[link[task]].open /\ UNCHANGED lagged
     \/ task \in lagged /\ lagged' = lagged \ {task}
  /\ link' = [link EXCEPT ![task] = 0]
  /\ UNCHANGED <<managerVars, unsent, queue, streams, lost, breaks>>

\* Mutant: the clock of what arrives is not merged.
ReceiveWithoutClock(s) ==
  /\ streams[s].handling = NoUpdate /\ streams[s].data # <<>>
  /\ streams' = [streams EXCEPT ![s].data = Tail(@), ![s].handling = Head(streams[s].data)]
  /\ UNCHANGED <<clock, state, committed, applied, unsent, queue, lagged, link, lost, breaks>>

\* handle_connection: receive_update merges the clock under its lock...
Receive(s) ==
  LET n == streams[s].to
      u == Head(streams[s].data)
  IN /\ streams[s].handling = NoUpdate /\ streams[s].data # <<>>
     /\ streams' = [streams EXCEPT ![s].data = Tail(@), ![s].handling = u]
     /\ clock' = [clock EXCEPT ![n] = MergeClocks(@, u.clock)]
     /\ UNCHANGED <<state, committed, applied, unsent, queue, lagged, link, lost, breaks>>

\* ... and then the state; whether that worked or not the update is forwarded.
ApplyAndForward(s) ==
  LET n == streams[s].to
      u == streams[s].handling
      r == ApplyUpdateToState(state[n], u)
  IN /\ u # NoUpdate
     /\ state' = [state EXCEPT ![n] = r.state]
     /\ applied' = [applied EXCEPT ![n] = IF r.ok THEN Append(@, u) ELSE @]
     /\ streams' = [streams EXCEPT ![s].handling = NoUpdate]
     /\ Send(n, u)
     /\ lost' = lost \cup Overwritten(n) \cup (IF r.ok THEN {} ELSE {<<u, n>>})
     /\ UNCHANGED <<clock, committed, unsent, link, breaks>>

\* A connection breaks: a part of what was written last never arrives.
Break(s, received) ==
  LET data == streams[s].data
  IN /\ streams[s].open /\ breaks < MaxBreaks
     /\ breaks' = breaks + 1
     /\ streams' = [streams EXCEPT ![s].open = FALSE, ![s].data = SubSeq(data, 1, received)]
     /\ lost' = lost \cup {<<data[i], streams[s].to>> : i \in (received + 1)..Len(data)}
     /\ UNCHANGED <<managerVars, unsent, queue, lagged, link>>

Init ==
  /\ clock = [n \in NodeId |-> EmptyClock] /\ state = [n \in NodeId |-> EmptyState]
  /\ committed = [n \in NodeId |-> <<>>] /\ applied = [n \in NodeId |-> <<>>]
  /\ unsent = {} /\ queue = [task \in Tasks |-> <<>>] /\ lagged = {}
  /\ link = [task \in Tasks |-> 0] /\ streams = <<>> /\ lost = {} /\ breaks = 0

\* What tokio's scheduler runs.
TaskStep ==
  \/ \E n \in NodeId, u \in unsent : Broadcast(n, u)
  \/ \E task \in Tasks :
       \/ Connect(task) \/ SkipForeign(task) \/ Write(task)
       \/ WriteToBroken(task) \/ Disconnect(task)
  \/ \E s \in DOMAIN streams : Receive(s) \/ ApplyAndForward(s)

Next ==
  \/ \E n \in NodeId, tx \in Transactions : CommitLocally(n, tx)
  \/ TaskStep
  \/ \E s \in DOMAIN streams : \E received \in 0..Len(streams[s].data) : Break(s, received)

Spec == Init /\ [][Next]_vars

\* The scheduler does not stop while a task has something to do.
FairSpec == Spec /\ WF_vars(TaskStep)

-----------------------------------------------------------------------------
(* Properties *)

\* Types of the variables.
TypeOK ==
  /\ \A n \in NodeId : IsClock(clock[n]) /\ IsState(state[n])
  /\ \A task \in Tasks : Len(queue[task]) <= Capacity /\ link[task] \in 0..Len(streams)
  /\ lagged \subseteq Tasks
  /\ \A s \in DOMAIN streams : streams[s].to \in NodeId /\ streams[s].open \in BOOLEAN

\* Where an update of node n is on its way to m, or has arrived there; what is
\* being handled comes before what has yet to be read.
Positions(q, u) == {i \in DOMAIN q : q[i] = u}
Held(stream, u) == Positions(stream.data, u) \cup (IF stream.handling = u THEN {0} ELSE {})
OnStreams(u, m) ==
  UNION {{s} \X Held(streams[s], u) : s \in {t \in DOMAIN streams : streams[t].to = m}}

CopiesOf(u, n, m) ==
  (IF u \in unsent THEN 1 ELSE 0) + Cardinality(Positions(queue[<<n, m>>], u))
    + Cardinality(OnStreams(u, m)) + Cardinality(Positions(applied[m], u))
    + (IF <<u, m>> \in lost THEN 1 ELSE 0)

\* An update is applied at every peer once, or lost or refused, or on its way,
\* and never in two of these places: reconnecting, a full queue and forwarding
\* neither deliver a sum twice nor forget an update that no failure took
\* (network.rs:307, 376, 463; nothing in receive_update tells a repetition).
ExactlyOnceOrLost ==
  \A n \in NodeId : \A i \in DOMAIN committed[n] : \A m \in NodeId \ {n} :
    CopiesOf(committed[n][i], n, m) = 1

\* The same, of queues and links that stay within their bounds.
EveryUpdateAccounted == TypeOK /\ ExactlyOnceOrLost

\* The clock of a node covers what its state holds, even between the two
\* halves of receive_update: a new commit is ordered after it all.
ClockCoversState ==
  \A n \in NodeId : \A i \in DOMAIN applied[n] : ~Below(clock[n], applied[n][i].clock)

\* No node has heard of more commits of m than m made.
ClockBound == \A m, n \in NodeId : Time(clock[n], m) <= Time(clock[m], m)

\* Clocks claim neither less nor more than is true.
ClocksSound == ClockCoversState /\ ClockBound

\* Every update reaches every peer that no broken connection and no full queue
\* took it from and whose values it merges with; where all is well all nodes
\* end in the same state.
EventuallyDelivered ==
  <>[](\A n \in NodeId : \A i \in DOMAIN committed[n] : \A m \in NodeId \ {n} :
         <<committed[n][i], m>> \in lost \/ committed[n][i] \in ToSet(applied[m]))
=============================================================================
